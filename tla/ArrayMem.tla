------------------------------ MODULE ArrayMem ------------------------------
(***************************************************************************)
(* The memory behind the dynamic array of src/src/array/array.c: bytes at  *)
(* offsets from arr->data, moved by memcpy, memmove and memset.  "list" is *)
(* what the callers of the array believe it holds (ArrayList).             *)
(***************************************************************************)
EXTENDS ArrayList, SequencesExt

CONSTANTS
    Capacity,     \* elements that fit
    ElementSize,  \* bytes of an element
    Items,        \* elements: sequences of ElementSize bytes, none of which is 0
    Junk          \* what malloc leaves in a byte

VARIABLES
    mem,          \* the array: [data, size]
    list

vars == <<mem, list>>

Offsets == 0 .. Capacity * ElementSize - 1
OffsetOf(i) == i * ElementSize

Memcpy(data, to, e) ==
    [a \in Offsets |-> IF a \in to .. to + ElementSize - 1 THEN e[a - to + 1] ELSE data[a]]
Memzero(data, to, n) == [a \in Offsets |-> IF a \in to .. to + n - 1 THEN 0 ELSE data[a]]
Memmove(data, to, from, n) ==
    [a \in Offsets |-> IF a \in to .. to + n - 1 THEN data[from + a - to] ELSE data[a]]

\* array_pop
PopMem(m) ==
    IF m.size = 0 THEN m
    ELSE [data |-> Memzero(m.data, OffsetOf(m.size - 1), ElementSize), size |-> m.size - 1]

\* array_remove: the last element is popped, others are covered by their successors.
RemoveMem(m, i) ==
    IF i >= m.size THEN m
    ELSE IF i = m.size - 1 THEN PopMem(m)
    ELSE PopMem([m EXCEPT !.data =
             Memmove(@, OffsetOf(i), OffsetOf(i + 1), OffsetOf(m.size - i - 1))])

\* Fault: the smallest index is removed first.
RemoveForward(m, indices) == FoldLeft(RemoveMem, m, indices)

\* array_remove_list, from the last of the ascending indices to the first
RemoveListMem(m, indices) == FoldRight(LAMBDA i, rest : RemoveMem(rest, i), indices, m)

Init ==
    /\ mem = [data |-> [a \in Offsets |-> Junk], size |-> 0]      \* array_create_heap
    /\ list = <<>>

\* array_push, array_set
PushItem(e) ==
    /\ mem' = IF mem.size >= Capacity THEN mem
              ELSE [data |-> Memcpy(mem.data, OffsetOf(mem.size), e), size |-> mem.size + 1]
    /\ list' = Push(list, Capacity, e)
SetItem(i, e) ==
    /\ mem' = IF i >= mem.size THEN mem ELSE [mem EXCEPT !.data = Memcpy(@, OffsetOf(i), e)]
    /\ list' = SetAt(list, i, e)
PopItem == mem' = PopMem(mem) /\ list' = Pop(list)
RemoveItem(i) == mem' = RemoveMem(mem, i) /\ list' = RemoveIndex(list, i)

\* The lists of indices for array_remove_list, which "must be in ascending order"
Ascending ==
    UNION {{q \in [1 .. n -> 0 .. Capacity - 1] : \A j, k \in 1 .. n : j < k => q[j] < q[k]} :
            n \in 1 .. Capacity}

\* A reader of array_remove_list expects the elements at the indices of S to go, and no
\* others: the k-th that is left ends the shortest part of the list that keeps k.
Without(s, S) ==
    LET kept(p) == {q \in 1 .. p : q - 1 \notin S}
    IN  [k \in 1 .. Cardinality(kept(Len(s))) |->
            s[Min({p \in 1 .. Len(s) : Cardinality(kept(p)) = k})]]

RemoveItems(indices) ==
    mem' = RemoveListMem(mem, indices) /\ list' = Without(list, Range(indices))

\* array_clear
ClearItems ==
    /\ mem' = [data |-> Memzero(mem.data, 0, OffsetOf(mem.size)), size |-> 0]
    /\ list' = <<>>

Next ==
    \/ \E e \in Items : PushItem(e) \/ \E i \in 0 .. Capacity : SetItem(i, e)
    \/ PopItem \/ ClearItems
    \/ \E i \in 0 .. Capacity : RemoveItem(i)
    \/ \E indices \in Ascending : RemoveItems(indices)

Spec == Init /\ [][Next]_vars

\* array_get: the bytes of element i
ItemAt(i) == [k \in 1 .. ElementSize |-> mem.data[OffsetOf(i) + k - 1]]

\* The memory holds the list, element by element, and no byte of an element that
\* was popped, removed or cleared is left behind its end.
HoldsList ==
    /\ [k \in 1 .. mem.size |-> ItemAt(k - 1)] = list
    /\ \A a \in Offsets : a >= OffsetOf(mem.size) => mem.data[a] \in {0, Junk}
=============================================================================
