----------------------------- MODULE ArrayList -----------------------------
(***************************************************************************)
(* The dynamic array of src/src/array/array.c as its callers see it: a     *)
(* sequence of elements and a capacity.  The C code numbers the elements   *)
(* from 0, so element i of the array is s[i + 1].  Every operation of the  *)
(* code checks its index against the size first; the operators below keep  *)
(* that check, so that an index out of range leaves the array alone.       *)
(***************************************************************************)
EXTENDS Integers, Sequences

\* The indices that array_get, array_set and array_remove accept.
Indices(s) == 0 .. Len(s) - 1

\* Fault: the last cell is counted as free once too often.
IsOverfull(s, capacity) == Len(s) > capacity

\* array_full
IsFull(s, capacity) == Len(s) >= capacity

\* array_get, for an index that is in range
ElementAt(s, i) == s[i + 1]

\* array_set
SetAt(s, i, e) == IF i \in Indices(s) THEN [s EXCEPT ![i + 1] = e] ELSE s

\* array_push: returns -1 and changes nothing when the array is full
Push(s, capacity, e) == IF IsFull(s, capacity) THEN s ELSE Append(s, e)

\* array_pop
Pop(s) == IF s = <<>> THEN s ELSE SubSeq(s, 1, Len(s) - 1)

\* Fault: the elements from i + 2 on are moved, so that i stays and i + 1 is lost.
RemoveNext(s, i) ==
    IF i \in Indices(s)
    THEN [k \in 1 .. Len(s) - 1 |-> IF k <= i + 1 THEN s[k] ELSE s[k + 1]]
    ELSE s

\* array_remove: the elements to the right of index i move one place left
RemoveIndex(s, i) ==
    IF i \in Indices(s)
    THEN [k \in 1 .. Len(s) - 1 |-> IF k <= i THEN s[k] ELSE s[k + 1]]
    ELSE s
=============================================================================
