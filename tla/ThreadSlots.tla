---------------------------- MODULE ThreadSlots ----------------------------
(***************************************************************************)
(* What the thread pool of the server promises, whatever array, lock and   *)
(* scan it uses: there are MaxThreads slots, a connection is given a       *)
(* thread only while a slot is free, and a slot is freed only once, after  *)
(* its thread has ended.  ThreadPool.tla is shown to implement it.         *)
(***************************************************************************)
EXTENDS Integers, FiniteSets

CONSTANTS Conns,        \* connections; a thread is named after its connection
          MaxThreads    \* the number of slots

VARIABLES occupied,     \* threads created and not yet taken out of the pool
          ended         \* those of them whose code has returned

slotVars == <<occupied, ended>>

SlotsTypeOK == /\ occupied \subseteq Conns
               /\ ended \subseteq occupied

SlotsInit == occupied = {} /\ ended = {}

\* A slot is free, and the connection has no thread yet.
Spawn(c) == /\ c \notin occupied
            /\ Cardinality(occupied) < MaxThreads
            /\ occupied' = occupied \cup {c}
            /\ UNCHANGED ended

\* The code of the thread returns.
End(c) == /\ c \in occupied \ ended
          /\ ended' = ended \cup {c}
          /\ UNCHANGED occupied

\* The slot of an ended thread is given back.
Reap(c) == /\ c \in ended
           /\ occupied' = occupied \ {c}
           /\ ended' = ended \ {c}

SlotsNext == \E c \in Conns : Spawn(c) \/ End(c) \/ Reap(c)

SlotsSpec == SlotsInit /\ [][SlotsNext]_slotVars
=============================================================================
