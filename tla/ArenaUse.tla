------------------------------ MODULE ArenaUse ------------------------------
(***************************************************************************)
(* An arena of src/src/arena/arena.c in use: blocks are taken, and the     *)
(* arena is cleared and freed.                                             *)
(***************************************************************************)
EXTENDS Arena

CONSTANTS
    ArenaCapacity,\* bytes of the arena
    BlockSizes    \* sizes that are asked for

VARIABLE arena

Init == arena = ArenaInit(ArenaCapacity)

Alloc(n) == arena' = ArenaAlloc(arena, n)
Clear == ~arena.exited /\ arena' = ArenaClear(arena)
Free == ~arena.exited /\ arena' = ArenaFree(arena)

Next == (\E n \in BlockSizes : Alloc(n)) \/ Clear \/ Free

Spec == Init /\ [][Next]_arena
=============================================================================
