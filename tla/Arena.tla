------------------------------- MODULE Arena -------------------------------
(***************************************************************************)
(* The bump allocator of src/src/arena/arena.c.  Addresses are offsets     *)
(* from the base, which calloc aligns as strictly as the arena aligns its  *)
(* blocks.  "size" of the code is always cur - base, which is "cur" here;  *)
(* "blocks" lists what was handed out since the arena was last emptied.    *)
(***************************************************************************)
EXTENDS Integers, Sequences

Alignment == 16             \* ALIGNMENT, 2 * sizeof(void *)

\* Fault: an address is aligned by going back.
AlignBackward(p) == p - (p % Alignment)

\* align_forward, for an alignment that is a power of two
AlignForward(p) ==
    LET modulo == p % Alignment
    IN  IF modulo # 0 THEN p + Alignment - modulo ELSE p

\* arena_init
ArenaInit(capacity) == [capacity |-> capacity, cur |-> 0, blocks |-> <<>>, exited |-> FALSE]

\* arena_alloc: a block of n bytes; the process exits when the arena is full.
ArenaAlloc(a, n) ==
    IF n = 0 \/ a.exited THEN a
    ELSE LET from == AlignForward(a.cur)
         IN  IF from + n > a.capacity THEN [a EXCEPT !.exited = TRUE]
             ELSE [a EXCEPT !.cur = from + n,
                            !.blocks = Append(@, [from |-> from, to |-> from + n])]

\* arena_clear
ArenaClear(a) == [a EXCEPT !.cur = 0, !.blocks = <<>>]

\* arena_free: an arena that has no room at all
ArenaFree(a) == [ArenaClear(a) EXCEPT !.capacity = 0]

\* Blocks are aligned, in order, inside the arena and do not overlap.
BlocksAreApart(a) ==
    /\ \A k \in DOMAIN a.blocks :
        /\ a.blocks[k].from % Alignment = 0
        /\ 0 <= a.blocks[k].from /\ a.blocks[k].from < a.blocks[k].to
        /\ a.blocks[k].to <= a.cur
    /\ \A j, k \in DOMAIN a.blocks : j < k => a.blocks[j].to <= a.blocks[k].from
    /\ a.cur <= a.capacity
=============================================================================
