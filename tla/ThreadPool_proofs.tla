------------------------- MODULE ThreadPool_proofs -------------------------
(***************************************************************************)
(* Proofs about ThreadPool, for every number of connections, threads and   *)
(* handles, for both builds and with and without TLS.                      *)
(***************************************************************************)
EXTENDS ThreadPool, SequenceTheorems, FiniteSetTheorems, TLAPS

-----------------------------------------------------------------------------
(* The operators of ArrayList                                              *)

\* array_remove of an index in range takes one element out and moves the
\* elements to its right one place left.
LEMMA RemoveIndexFacts ==
    ASSUME NEW S, NEW s \in Seq(S), NEW i \in Indices(s)
    PROVE  /\ RemoveIndex(s, i) \in Seq(S)
           /\ Len(RemoveIndex(s, i)) = Len(s) - 1
           /\ \A k \in 1 .. Len(s) - 1 :
                RemoveIndex(s, i)[k] = IF k <= i THEN s[k] ELSE s[k + 1]
<1> DEFINE n == Len(s) - 1
           r == [k \in 1 .. n |-> IF k <= i THEN s[k] ELSE s[k + 1]]
<1>1. RemoveIndex(s, i) = r
  BY DEF RemoveIndex
<1>2. n \in Nat /\ i \in Nat
  BY DEF Indices
<1>3. \A k \in 1 .. n : r[k] \in S
  BY <1>2
<1>4. r \in [1 .. n -> S]
  BY <1>3
<1>5. r \in Seq(S)
  BY <1>2, <1>4, SeqDef
<1>6. Len(r) = n
  BY <1>2, <1>5, LenProperties
<1> QED
  BY <1>1, <1>5, <1>6

-----------------------------------------------------------------------------
(* The inductive invariant                                                 *)

\* The entries name different threads that exist, each at the index it was given
\* or to the left of it, and every thread is listed once it is pushed.
Listed(w) == \E k \in 1 .. Len(threadArr) : threadArr[k].thread = w

EntriesInv ==
    /\ Len(threadArr) <= MaxThreads
    /\ \A j, k \in 1 .. Len(threadArr) :
            threadArr[j].thread = threadArr[k].thread => j = k
    /\ \A k \in 1 .. Len(threadArr) :
            /\ worker[threadArr[k].thread].pc # "none"
            /\ k - 1 <= worker[threadArr[k].thread].num
    /\ \A w \in Conns : worker[w].pc # "none" =>
            Listed(w) \/ (main.pc = "push" /\ main.conn = w)

\* The connection the main thread holds has no thread until it is created, and
\* the number the thread is given is the index its entry will have.
MainInv ==
    /\ main.pc # "accept" => main.conn \in Conns
    /\ main.pc \notin {"accept", "push"} => worker[main.conn].pc = "none"
    /\ main.pc = "push" =>
            /\ worker[main.conn].pc \notin {"none", "joined"}
            /\ worker[main.conn].num = main.num
            /\ ~Listed(main.conn)
    /\ main.pc \in {"create", "push"} =>
            main.num = Len(threadArr) /\ Len(threadArr) < MaxThreads

\* A connection that waits to be accepted has no thread and waits once.
BacklogInv ==
    \A k \in 1 .. Len(backlog) :
        /\ worker[backlog[k]].pc = "none"
        /\ backlog[k] # main.conn
        /\ \A j \in 1 .. Len(backlog) : backlog[j] = backlog[k] => j = k

\* The indices to remove ascend, stay below the place of the scan and then below
\* the size of the array, and are those of the joined threads.
RemoveListInv ==
    /\ main.pc \notin {"scan", "remove"} => main.removeList = <<>>
    /\ main.pc = "scan" =>
            /\ main.i <= Len(threadArr)
            /\ \A r \in 1 .. Len(main.removeList) : main.removeList[r] < main.i
    /\ \A r \in 1 .. Len(main.removeList) : main.removeList[r] < Len(threadArr)
    /\ \A q, r \in 1 .. Len(main.removeList) :
            q < r => main.removeList[q] < main.removeList[r]
    /\ RemoveListIsJoined

IInv == TypeOK /\ EntriesInv /\ MainInv /\ BacklogInv /\ RemoveListInv

-----------------------------------------------------------------------------
(* Initial states                                                          *)

LEMMA InitIInv == Init => IInv
<1> SUFFICES ASSUME Init PROVE IInv
  OBVIOUS
<1>1. TypeOK
  BY PoolAssumption DEF Init, TypeOK, MainPcs, WorkerPcs, NoWorker, Gone, Fds,
     MainState, WorkerState, ClientState
<1>2. EntriesInv /\ MainInv /\ BacklogInv /\ RemoveListInv
  BY PoolAssumption DEF Init, EntriesInv, MainInv, BacklogInv, RemoveListInv,
     RemoveListIsJoined, IndicesIn, NoWorker
<1> QED
  BY <1>1, <1>2 DEF IInv

-----------------------------------------------------------------------------
(* Types                                                                   *)

\* Changes of one connection thread or client keep the types of all.
LEMMA WorkerUpdate ==
    ASSUME worker \in [Conns -> WorkerState], NEW w \in Conns,
           NEW place \in WorkerPcs, NEW c \in Conns \cup {None}
    PROVE  /\ [worker EXCEPT ![w].pc = place] \in [Conns -> WorkerState]
           /\ [worker EXCEPT ![w].pc = place, ![w].on = c] \in [Conns -> WorkerState]
BY DEF WorkerState

LEMMA ClientUpdate ==
    ASSUME client \in [Conns -> ClientState], NEW c \in Conns,
           NEW p \in {"gone", "open", "fin", "rst"}, NEW b \in BOOLEAN
    PROVE  /\ [client EXCEPT ![c].peer = p] \in [Conns -> ClientState]
           /\ [client EXCEPT ![c].data = b] \in [Conns -> ClientState]
           /\ [client EXCEPT ![c].shut = b] \in [Conns -> ClientState]
BY DEF ClientState

\* Marking an entry keeps the size of the array and the threads it names.
LEMMA MarkFacts ==
    ASSUME threadArr \in Seq(ThreadState), NEW w \in Conns, Finish(w),
           worker[w].num \in Nat
    PROVE  /\ threadArr' \in Seq(ThreadState)
           /\ Len(threadArr') = Len(threadArr)
           /\ \A k \in 1 .. Len(threadArr) : threadArr'[k].thread = threadArr[k].thread
<1>1. CASE Posix /\ MarkIndex(w) \in Indices(threadArr)
  <2> DEFINE n == MarkIndex(w) + 1
             e == [threadArr[n] EXCEPT !.running = FALSE]
  <2>1. n \in 1 .. Len(threadArr)
    BY <1>1 DEF Indices, MarkIndex
  <2>2. threadArr[n] \in ThreadState
    BY <2>1, ElementOfSeq
  <2>3. e \in ThreadState /\ e.thread = threadArr[n].thread
    BY <2>2 DEF ThreadState
  <2>4. threadArr' = [threadArr EXCEPT ![n] = e]
    BY <1>1 DEF Finish
  <2> HIDE DEF n, e
  <2> QED
    BY <2>1, <2>3, <2>4, ExceptSeq
<1>2. CASE ~(Posix /\ MarkIndex(w) \in Indices(threadArr))
  BY <1>2 DEF Finish
<1> QED
  BY <1>1, <1>2

\* The two halves of socket_close
LEMMA ShutdownTypes ==
    ASSUME TypeOK, NEW w \in Conns, NEW at, NEW closing \in WorkerPcs,
           NEW after \in WorkerPcs, Shutdown(w, at, closing, after)
    PROVE  TypeOK'
<1> DEFINE f == worker[w].fd
<1>1. f \in Fds /\ fdTable[f] \in Conns \cup {None}
  BY DEF TypeOK, WorkerState
<1>2. CASE ShutdownOk(f) /\ client' = [client EXCEPT ![fdTable[f]].shut = TRUE] /\ Goto(w, closing)
  <2>1. worker' \in [Conns -> WorkerState]
    BY <1>2, WorkerUpdate DEF Goto, TypeOK
  <2>2. fdTable[f] \in Conns
    BY <1>1, <1>2 DEF ShutdownOk
  <2>3. client' \in [Conns -> ClientState]
    BY <1>2, <2>2, ClientUpdate DEF TypeOK
  <2> QED
    BY <2>1, <2>3 DEF TypeOK, Shutdown
<1>3. CASE UNCHANGED client /\ Goto(w, after)
  <2>1. worker' \in [Conns -> WorkerState]
    BY <1>3, WorkerUpdate DEF Goto, TypeOK
  <2> QED
    BY <1>3, <2>1 DEF TypeOK, Shutdown
<1> QED
  BY <1>2, <1>3 DEF Shutdown

LEMMA CloseTypes ==
    ASSUME TypeOK, NEW w \in Conns, NEW at, NEW after \in WorkerPcs,
           Close(w, at, after)
    PROVE  TypeOK'
<1> DEFINE f == worker[w].fd
<1>1. f \in Fds /\ fdTable[f] \in Conns \cup {None}
  BY DEF TypeOK, WorkerState
<1>2. worker' \in [Conns -> WorkerState]
  BY WorkerUpdate DEF Close, Goto, TypeOK
<1>3. Gone \in ClientState
  BY DEF Gone, ClientState
<1>4. client' \in [Conns -> ClientState]
  BY <1>1, <1>3 DEF Close, TypeOK
<1>5. fdTable' \in [Fds -> Conns \cup {None}]
  BY <1>1 DEF Close, TypeOK
<1> QED
  BY <1>2, <1>4, <1>5 DEF TypeOK, Close

\* The steps of a connection thread keep the types.
LEMMA WorkerTypes ==
    ASSUME TypeOK, NEW w \in Conns, WorkerNext(w)
    PROVE  TypeOK'
<1> USE PoolAssumption
<1> DEFINE c == fdTable[worker[w].fd]
<1>0. /\ worker[w] \in WorkerState /\ worker[w].fd \in Fds
      /\ worker[w].on \in Conns \cup {None} /\ c \in Conns \cup {None}
  BY DEF TypeOK, WorkerState
<1>1. CASE CallRecv(w)
  <2>1. worker' \in [Conns -> WorkerState]
    BY <1>0, <1>1, WorkerUpdate, ZenonT(60) DEF CallRecv, TypeOK, WorkerPcs
  <2> QED
    BY <1>1, <2>1, SMTT(60) DEF TypeOK, CallRecv, netVars
<1>2. CASE RecvData(w)
  <2>1. worker' \in [Conns -> WorkerState]
    BY <1>2, WorkerUpdate DEF RecvData, Goto, TypeOK, WorkerPcs
  <2>2. client' \in [Conns -> ClientState]
    BY <1>0, <1>2, ClientUpdate DEF RecvData, TypeOK
  <2> QED
    BY <1>2, <2>1, <2>2 DEF TypeOK, RecvData
<1>3. CASE RecvEnd(w)
  <2>1. worker' \in [Conns -> WorkerState]
    BY <1>3, WorkerUpdate DEF RecvEnd, LeaveRequest, TypeOK, WorkerPcs
  <2> QED
    BY <1>3, <2>1, SMTT(60) DEF TypeOK, RecvEnd, netVars
<1>9. CASE Process(w)
  <2>1. PICK next \in {"call", "finish"} : LeaveRequest(w, next)
    BY <1>9 DEF Process
  <2>2. next \in WorkerPcs
    BY DEF WorkerPcs
  <2>3. worker' \in [Conns -> WorkerState]
    BY <2>1, <2>2, WorkerUpdate DEF LeaveRequest, TypeOK
  <2> QED
    BY <1>9, <2>3 DEF TypeOK, Process, netVars
<1>4. CASE BrokenPipe(w)
  BY <1>4 DEF TypeOK, BrokenPipe, netVars
<1>5. CASE ShutdownOnEnd(w) \/ ShutdownAtExit(w)
  BY <1>5, ShutdownTypes DEF ShutdownOnEnd, ShutdownAtExit, WorkerPcs
<1>6. CASE CloseOnEnd(w) \/ CloseAtExit(w)
  BY <1>6, CloseTypes DEF CloseOnEnd, CloseAtExit, WorkerPcs
<1>7. CASE Finish(w)
  <2>0. worker[w].num \in Nat
    BY DEF TypeOK, WorkerState
  <2>1. worker' \in [Conns -> WorkerState]
    BY <1>7, WorkerUpdate DEF Finish, Goto, TypeOK, WorkerPcs
  <2>2. lock' \in Conns \cup {None, Server} /\ up' \in BOOLEAN
    BY <1>7 DEF Finish, TypeOK, Acquire
  <2>3. threadArr' \in Seq(ThreadState)
    BY <1>7, <2>0, MarkFacts DEF Finish, TypeOK
  <2> QED
    BY <1>7, <2>1, <2>2, <2>3 DEF Finish, TypeOK, netVars
<1>8. CASE Unlock(w)
  <2>1. worker' \in [Conns -> WorkerState]
    BY <1>8, WorkerUpdate DEF Unlock, Goto, TypeOK, WorkerPcs
  <2> QED
    BY <1>8, <2>1 DEF TypeOK, Unlock, Release, netVars
<1> QED
  BY <1>1, <1>2, <1>3, <1>4, <1>5, <1>6, <1>7, <1>8, <1>9 DEF WorkerNext

\* So do the steps of the clients.
LEMMA ClientTypes ==
    ASSUME TypeOK, NEW c \in Conns, ClientNext(c)
    PROVE  TypeOK'
<1> USE PoolAssumption
<1>1. CASE Connect(c)
  <2>1. backlog' \in Seq(Conns)
    BY <1>1, AppendProperties DEF Connect, TypeOK
  <2>2. client' \in [Conns -> ClientState]
    BY <1>1 DEF Connect, TypeOK, ClientState
  <2> QED
    BY <1>1, <2>1, <2>2 DEF Connect, TypeOK
<1>2. CASE SendRequest(c)
  <2>1. client' \in [Conns -> ClientState]
    BY <1>2, ClientUpdate DEF SendRequest, TypeOK
  <2> QED
    BY <1>2, <2>1 DEF SendRequest, TypeOK
<1>3. CASE HangUp(c)
  <2>1. PICK p \in {"gone", "open", "fin", "rst"} : client' = [client EXCEPT ![c].peer = p]
    BY <1>3 DEF HangUp, PoolAssumption
  <2>2. client' \in [Conns -> ClientState]
    BY <2>1, ClientUpdate DEF TypeOK
  <2> QED
    BY <1>3, <2>2 DEF HangUp, TypeOK
<1> QED
  BY <1>1, <1>2, <1>3 DEF ClientNext

\* The steps of the main thread keep the types; the bounds on its counters come
\* from the rest of the invariant.
LEMMA ServerTypes ==
    ASSUME IInv, ServerNext
    PROVE  TypeOK'
<1> USE PoolAssumption DEF PoolAssumption
<1>0. TypeOK /\ EntriesInv /\ MainInv /\ RemoveListInv
  BY DEF IInv
<1>a. /\ Len(threadArr) \in Nat /\ Len(threadArr) <= MaxThreads
      /\ main.i \in 0 .. MaxThreads /\ main.num \in 0 .. MaxThreads - 1
      /\ main.sock \in Fds /\ main.conn \in Conns \cup {None}
      /\ main.removeList \in Seq(0 .. MaxThreads - 1)
  BY <1>0, LenProperties DEF TypeOK, MainState, EntriesInv
<1>b. /\ 0 \in Fds /\ 0 \in 0 .. MaxThreads /\ 0 \in 0 .. MaxThreads - 1
      /\ <<>> \in Seq(0 .. MaxThreads - 1)
  BY EmptySeq DEF Fds
<1>1. CASE Accept
  <2>0. backlog \in Seq(Conns) /\ backlog # <<>>
    BY <1>0, <1>1 DEF Accept, TypeOK
  <2>1. Head(backlog) \in Conns /\ Tail(backlog) \in Seq(Conns)
    BY <2>0, HeadTailProperties
  <2>2. PICK f \in Fds :
            /\ fdTable' = [fdTable EXCEPT ![f] = Head(backlog)]
            /\ main' = [main EXCEPT !.pc = IF Secure THEN "handshake" ELSE "sync",
                                   !.conn = Head(backlog), !.sock = f]
    BY <1>1 DEF Accept
  <2>3. main' \in MainState
    BY <1>0, <2>1, <2>2 DEF TypeOK, MainState, MainPcs
  <2>4. fdTable' \in [Fds -> Conns \cup {None}]
    BY <1>0, <2>1, <2>2 DEF TypeOK
  <2> QED
    BY <1>0, <1>1, <2>1, <2>3, <2>4 DEF Accept, TypeOK
<1>2. CASE Handshake
  <2>1. main' \in MainState
    BY <1>0, <1>2 DEF Handshake, TypeOK, MainState, MainPcs
  <2>2. client' \in [Conns -> ClientState]
    <3>1. fdTable[main.sock] \in Conns \cup {None}
      BY <1>0, <1>a DEF TypeOK
    <3>2. CASE UNCHANGED client
      BY <1>0, <3>2 DEF TypeOK
    <3>3. CASE /\ fdTable[main.sock] # None
               /\ client' = [client EXCEPT ![fdTable[main.sock]].data = FALSE]
      <4>1. fdTable[main.sock] \in Conns
        BY <3>1, <3>3
      <4> QED
        BY <1>0, <3>3, <4>1, ClientUpdate DEF TypeOK
    <3> QED
      BY <1>2, <3>2, <3>3 DEF Handshake
  <2> QED
    BY <1>0, <1>2, <2>1, <2>2 DEF Handshake, TypeOK
<1>3. CASE SyncBegin
  <2>1. main' \in MainState
    BY <1>0, <1>b, <1>3 DEF SyncBegin, TypeOK, MainState, MainPcs
  <2> QED
    BY <1>0, <1>3, <2>1 DEF SyncBegin, Acquire, TypeOK, netVars
<1>4. CASE ScanSkip
  <2>1. main.i + 1 \in 0 .. MaxThreads
    BY <1>a, <1>4 DEF ScanSkip, Indices
  <2>2. main' \in MainState
    BY <1>0, <1>4, <2>1 DEF ScanSkip, TypeOK, MainState
  <2> QED
    BY <1>0, <1>4, <2>2 DEF ScanSkip, TypeOK, netVars
<1>5. CASE ScanJoin
  <2>1. main.i + 1 \in 0 .. MaxThreads /\ main.i \in 0 .. MaxThreads - 1
    BY <1>a, <1>5 DEF ScanJoin, Indices
  <2>2. Append(main.removeList, main.i) \in Seq(0 .. MaxThreads - 1)
    BY <1>a, <2>1, AppendProperties
  <2>3. main' \in MainState
    BY <1>0, <1>5, <2>1, <2>2 DEF ScanJoin, TypeOK, MainState
  <2>4. ScanEntry.thread \in Conns
    <3>1. main.i + 1 \in 1 .. Len(threadArr)
      BY <1>a, <1>5, SMTT(60) DEF ScanJoin, Indices
    <3>2. threadArr[main.i + 1] \in ThreadState
      BY <1>0, <3>1, ElementOfSeq DEF TypeOK
    <3> QED
      BY <3>2 DEF ScanEntry, ElementAt, ThreadState
  <2>5. worker' \in [Conns -> WorkerState]
    BY <1>0, <1>5, <2>4, WorkerUpdate DEF ScanJoin, TypeOK, WorkerPcs
  <2> QED
    BY <1>0, <1>5, <2>3, <2>5 DEF ScanJoin, TypeOK, netVars
<1>6. CASE ScanEnd
  <2>1. main' \in MainState
    BY <1>0, <1>b, <1>6 DEF ScanEnd, TypeOK, MainState, MainPcs
  <2> QED
    BY <1>0, <1>6, <2>1 DEF ScanEnd, TypeOK, netVars
<1>7. CASE RemoveOne
  <2> DEFINE n == Len(main.removeList)
  <2>1. n \in Nat \ {0}
    BY <1>a, <1>7, EmptySeq DEF RemoveOne
  <2>2. NextRemoval(main.removeList) \in Indices(threadArr)
    <3>1. main.removeList[n] \in 0 .. MaxThreads - 1
      BY <1>a, <2>1, ElementOfSeq
    <3>2. main.removeList[n] < Len(threadArr)
      BY <1>0, <2>1 DEF RemoveListInv
    <3> QED
      BY <1>a, <3>1, <3>2 DEF NextRemoval, Indices
  <2>3. threadArr' \in Seq(ThreadState)
    BY <1>0, <1>7, <2>2, RemoveIndexFacts DEF RemoveOne, TypeOK
  <2>4. OtherRemovals(main.removeList) \in Seq(0 .. MaxThreads - 1)
    BY <1>a, <2>1, SubSeqProperties, ElementOfSeq, SMTT(30) DEF OtherRemovals
  <2>5. main' \in MainState
    BY <1>0, <1>7, <2>4 DEF RemoveOne, TypeOK, MainState
  <2>6. NoWorker \in WorkerState
    BY DEF NoWorker, WorkerState, WorkerPcs, Fds
  <2>7. worker' \in [Conns -> WorkerState]
    BY <1>0, <1>7, <2>6 DEF RemoveOne, TypeOK
  <2> QED
    BY <1>0, <1>7, <2>3, <2>5, <2>7 DEF RemoveOne, TypeOK, netVars
<1>8. CASE SyncEnd
  <2>1. main' \in MainState
    BY <1>0, <1>8 DEF SyncEnd, TypeOK, MainState, MainPcs
  <2> QED
    BY <1>0, <1>8, <2>1 DEF SyncEnd, Release, TypeOK, netVars
<1>9. CASE Drop \/ CreateFails
  <2>1. main' \in MainState
    BY <1>0, <1>b, <1>9, ZenonT(60) DEF Drop, CreateFails, BackToAccept, TypeOK, MainState, MainPcs
  <2> QED
    BY <1>0, <1>9, <2>1 DEF Drop, CreateFails, TypeOK, netVars
<1>10. CASE PrepareArgs
  <2>1. Len(threadArr) \in 0 .. MaxThreads - 1
    BY <1>a, <1>10 DEF PrepareArgs, IsFull
  <2>2. main' \in MainState
    BY <1>0, <1>10, <2>1 DEF PrepareArgs, NewThreadNum, TypeOK, MainState, MainPcs
  <2> QED
    BY <1>0, <1>10, <2>2 DEF PrepareArgs, TypeOK, netVars
<1>11. CASE CreateThread
  <2>1. main' \in MainState
    BY <1>0, <1>11 DEF CreateThread, TypeOK, MainState, MainPcs
  <2>2. [pc |-> "call", fd |-> main.sock, num |-> main.num, on |-> None] \in WorkerState
    BY <1>a DEF WorkerState, WorkerPcs
  <2>3. worker' \in [Conns -> WorkerState]
    BY <1>0, <1>11, <2>2 DEF CreateThread, TypeOK
  <2> QED
    BY <1>0, <1>11, <2>1, <2>3 DEF CreateThread, Acquire, TypeOK, netVars
<1>12. CASE PushThread
  <2>1. NewEntry \in ThreadState
    BY <1>0, <1>12 DEF PushThread, MainInv, NewEntry, ThreadState
  <2>2. threadArr' \in Seq(ThreadState)
    BY <1>0, <1>12, <2>1, AppendProperties DEF PushThread, Push, TypeOK
  <2>3. main' \in MainState
    BY <1>0, <1>b, <1>12 DEF PushThread, BackToAccept, TypeOK, MainState, MainPcs
  <2> QED
    BY <1>0, <1>12, <2>2, <2>3 DEF PushThread, Release, TypeOK, netVars
<1> QED
  BY <1>1, <1>2, <1>3, <1>4, <1>5, <1>6, <1>7, <1>8, <1>9, <1>10, <1>11, <1>12
  DEF ServerNext

-----------------------------------------------------------------------------
(* Steps that leave the array, the main thread and the queue as they are   *)

\* What connection threads do never creates, joins or renumbers a thread and
\* never changes the size of the array or the threads in it.
Quiet ==
    /\ main' = main
    /\ backlog' = backlog
    /\ Len(threadArr') = Len(threadArr)
    /\ \A k \in 1 .. Len(threadArr) : threadArr'[k].thread = threadArr[k].thread
    /\ \A w \in Conns : /\ worker'[w].num = worker[w].num
                       /\ (worker'[w].pc = "none" <=> worker[w].pc = "none")
                       /\ (worker'[w].pc = "joined" <=> worker[w].pc = "joined")

LEMMA ElementTypes ==
    ASSUME TypeOK
    PROVE  /\ Len(threadArr) \in Nat /\ Len(backlog) \in Nat
           /\ Len(main.removeList) \in Nat
           /\ \A k \in 1 .. Len(threadArr) : threadArr[k].thread \in Conns
           /\ \A k \in 1 .. Len(backlog) : backlog[k] \in Conns
           /\ \A k \in 1 .. Len(main.removeList) :
                main.removeList[k] \in 0 .. MaxThreads - 1
<1>1. main.removeList \in Seq(0 .. MaxThreads - 1)
  BY DEF TypeOK, MainState
<1>2. \A k \in 1 .. Len(threadArr) : threadArr[k] \in ThreadState
  BY ElementOfSeq DEF TypeOK
<1>3. \A k \in 1 .. Len(threadArr) : threadArr[k].thread \in Conns
  BY <1>2 DEF ThreadState
<1> QED
  BY <1>1, <1>3, ElementOfSeq, LenProperties DEF TypeOK

LEMMA QuietInv ==
    ASSUME IInv, Quiet
    PROVE  EntriesInv' /\ MainInv' /\ BacklogInv' /\ RemoveListInv'
<1>1. /\ Len(threadArr) \in Nat
      /\ \A k \in 1 .. Len(threadArr) : threadArr[k].thread \in Conns
      /\ \A k \in 1 .. Len(backlog) : backlog[k] \in Conns
  BY ElementTypes DEF IInv
<1>2. \A w \in Conns : Listed(w)' <=> Listed(w)
  BY <1>1 DEF Quiet, Listed
<1>3. EntriesInv'
  BY <1>1, <1>2 DEF IInv, EntriesInv, Quiet
<1>4. MainInv'
  BY <1>1, <1>2 DEF IInv, MainInv, Quiet
<1>5. BacklogInv'
  BY <1>1 DEF IInv, BacklogInv, Quiet
<1>6. RemoveListInv'
  <2>1. RemoveListIsJoined'
    BY <1>1, SMTT(30) DEF IInv, RemoveListInv, RemoveListIsJoined, IndicesIn, Quiet
  <2> QED
    BY <2>1 DEF IInv, RemoveListInv, Quiet
<1> QED
  BY <1>3, <1>4, <1>5, <1>6

LEMMA WorkerQuiet ==
    ASSUME TypeOK, NEW w \in Conns, WorkerNext(w)
    PROVE  Quiet
<1>0. worker \in [Conns -> WorkerState]
  BY DEF TypeOK
<1>1. ASSUME NEW place \in WorkerPcs \ {"none", "joined"}, Goto(w, place),
             worker[w].pc \notin {"none", "joined"}
      PROVE  \A v \in Conns : /\ worker'[v].num = worker[v].num
                             /\ (worker'[v].pc = "none" <=> worker[v].pc = "none")
                             /\ (worker'[v].pc = "joined" <=> worker[v].pc = "joined")
  BY <1>0, <1>1 DEF Goto, WorkerState
<1>2. ASSUME NEW place \in WorkerPcs \ {"none", "joined"}, LeaveRequest(w, place),
             worker[w].pc \notin {"none", "joined"}
      PROVE  \A v \in Conns : /\ worker'[v].num = worker[v].num
                             /\ (worker'[v].pc = "none" <=> worker[v].pc = "none")
                             /\ (worker'[v].pc = "joined" <=> worker[v].pc = "joined")
  BY <1>0, <1>2 DEF LeaveRequest, WorkerState
<1> USE DEF WorkerPcs
<1>3. CASE CallRecv(w)
  <2>1. \A v \in Conns : /\ worker'[v].num = worker[v].num
                        /\ (worker'[v].pc = "none" <=> worker[v].pc = "none")
                        /\ (worker'[v].pc = "joined" <=> worker[v].pc = "joined")
    BY <1>0, <1>3 DEF CallRecv, WorkerState
  <2> QED
    BY <1>3, <2>1 DEF CallRecv, netVars, Quiet
<1>4. CASE RecvData(w)
  BY <1>1, <1>4 DEF RecvData, Quiet
<1>5. CASE RecvEnd(w)
  BY <1>2, <1>5 DEF RecvEnd, netVars, Quiet
<1>6. CASE Process(w)
  BY <1>2, <1>6 DEF Process, netVars, Quiet
<1>7. CASE BrokenPipe(w)
  BY <1>7 DEF BrokenPipe, netVars, Quiet
<1>8. CASE ShutdownOnEnd(w)
  BY <1>1, <1>8 DEF ShutdownOnEnd, Shutdown, Quiet
<1>9. CASE ShutdownAtExit(w)
  BY <1>1, <1>9 DEF ShutdownAtExit, Shutdown, Quiet
<1>10. CASE CloseOnEnd(w) \/ CloseAtExit(w)
  BY <1>1, <1>10 DEF CloseOnEnd, CloseAtExit, Close, Quiet
<1>11. CASE Finish(w)
  <2>1. worker[w].num \in Nat
    BY DEF TypeOK, WorkerState
  <2>2. /\ Len(threadArr') = Len(threadArr)
        /\ \A k \in 1 .. Len(threadArr) : threadArr'[k].thread = threadArr[k].thread
    BY <1>11, <2>1, MarkFacts DEF TypeOK
  <2>3. Goto(w, "shut2") /\ worker[w].pc = "finish"
    BY <1>11 DEF Finish
  <2> QED
    BY <1>1, <1>11, <2>2, <2>3 DEF Finish, netVars, Quiet
<1>12. CASE Unlock(w)
  BY <1>1, <1>12 DEF Unlock, netVars, Quiet
<1> QED
  BY <1>3, <1>4, <1>5, <1>6, <1>7, <1>8, <1>9, <1>10, <1>11, <1>12 DEF WorkerNext

\* A client step changes nothing of this but the queue, and a connection that
\* enters the queue has no thread.
LEMMA ClientInv ==
    ASSUME IInv, NEW c \in Conns, ClientNext(c)
    PROVE  EntriesInv' /\ MainInv' /\ BacklogInv' /\ RemoveListInv'
<1>1. CASE SendRequest(c) \/ HangUp(c)
  BY <1>1, QuietInv DEF SendRequest, HangUp, Quiet
<1>2. CASE Connect(c)
  <2>0. UNCHANGED <<main, threadArr, worker>>
    BY <1>2 DEF Connect
  <2>1. EntriesInv' /\ MainInv' /\ RemoveListInv'
    <3>1. EntriesInv'
      BY <2>0 DEF IInv, EntriesInv, Listed
    <3>2. MainInv'
      BY <2>0 DEF IInv, MainInv, Listed
    <3>3. RemoveListInv'
      BY <2>0 DEF IInv, RemoveListInv, RemoveListIsJoined, IndicesIn
    <3> QED
      BY <3>1, <3>2, <3>3
  <2>2. worker[c].pc = "none" /\ main.conn # c /\ ~Queued(c)
    BY <1>2 DEF Connect, Unused, Live
  <2>3. backlog' = Append(backlog, c) /\ backlog \in Seq(Conns)
    BY <1>2 DEF Connect, IInv, TypeOK
  <2>4. /\ Len(backlog') = Len(backlog) + 1 /\ Len(backlog) \in Nat
        /\ \A k \in 1 .. Len(backlog) : backlog'[k] = backlog[k]
        /\ backlog'[Len(backlog) + 1] = c
    BY <2>3, AppendProperties, LenProperties
  <2> QED
    BY <2>0, <2>1, <2>2, <2>4 DEF BacklogInv, Queued, IInv
<1> QED
  BY <1>1, <1>2 DEF ClientNext

-----------------------------------------------------------------------------
(* The steps of the main thread                                            *)

LEMMA AcceptInv ==
    ASSUME IInv, Accept
    PROVE  EntriesInv' /\ MainInv' /\ BacklogInv' /\ RemoveListInv'
<1> DEFINE c == Head(backlog)
<1>1. backlog \in Seq(Conns) /\ backlog # <<>>
  BY DEF IInv, TypeOK, Accept
<1>2. /\ c \in Conns /\ c = backlog[1] /\ Len(backlog) \in Nat \ {0}
      /\ Len(Tail(backlog)) = Len(backlog) - 1
      /\ \A k \in 1 .. Len(backlog) - 1 : Tail(backlog)[k] = backlog[k + 1]
  BY <1>1, HeadTailProperties, EmptySeq
<1>3. /\ main.pc = "accept" /\ UNCHANGED <<threadArr, worker>>
      /\ main'.pc \in {"handshake", "sync"} /\ main'.conn = c
      /\ main'.removeList = main.removeList /\ backlog' = Tail(backlog)
  BY DEF Accept, IInv, TypeOK, MainState
<1>4. worker[c].pc = "none"
  BY <1>2 DEF IInv, BacklogInv
<1>5. EntriesInv'
  BY <1>3 DEF IInv, EntriesInv, Listed
<1>6. MainInv'
  BY <1>2, <1>3, <1>4 DEF MainInv
<1>7. BacklogInv'
  BY <1>2, <1>3 DEF IInv, BacklogInv
<1>8. RemoveListInv'
  BY <1>3 DEF IInv, RemoveListInv, RemoveListIsJoined, IndicesIn
<1> QED
  BY <1>5, <1>6, <1>7, <1>8

\* Steps that move the main thread only
LEMMA LocalInv ==
    ASSUME IInv,
           Handshake \/ SyncBegin \/ ScanSkip \/ ScanEnd \/ SyncEnd
           \/ Drop \/ PrepareArgs \/ CreateFails
    PROVE  EntriesInv' /\ MainInv' /\ BacklogInv' /\ RemoveListInv'
<1>0. /\ UNCHANGED <<threadArr, worker, backlog>>
      /\ Len(threadArr) \in Nat /\ MaxThreads \in Nat /\ main \in MainState
      /\ \A k \in 1 .. Len(backlog) : backlog[k] \in Conns
  BY ElementTypes, PoolAssumption
  DEF Handshake, SyncBegin, ScanSkip, ScanEnd, SyncEnd, Drop, PrepareArgs, CreateFails,
      netVars, IInv, TypeOK, PoolAssumption
<1>1. CASE Handshake
  <2>1. main.pc = "handshake" /\ main' = [main EXCEPT !.pc = "sync"]
    BY <1>1 DEF Handshake
  <2> QED
    BY <1>0, <2>1 DEF MainState, IInv, EntriesInv, MainInv, BacklogInv, RemoveListInv,
       RemoveListIsJoined, IndicesIn, Listed
<1>2. CASE SyncBegin
  <2>1. main.pc = "sync" /\ main' = [main EXCEPT !.pc = "scan", !.i = 0, !.removeList = <<>>]
    BY <1>2 DEF SyncBegin
  <2> QED
    BY <1>0, <2>1 DEF MainState, IInv, EntriesInv, MainInv, BacklogInv, RemoveListInv,
       RemoveListIsJoined, IndicesIn, Listed
<1>3. CASE ScanSkip
  <2>1. /\ main.pc = "scan" /\ main.i + 1 <= Len(threadArr) /\ main.i \in Int
        /\ main' = [main EXCEPT !.i = @ + 1]
    BY <1>0, <1>3 DEF ScanSkip, Indices, MainState
  <2>2. \A r \in 1 .. Len(main.removeList) : main.removeList[r] \in Int
    BY ElementTypes, PoolAssumption DEF IInv, PoolAssumption
  <2>3. RemoveListInv'
    BY <1>0, <2>1, <2>2 DEF MainState, IInv, RemoveListInv, RemoveListIsJoined, IndicesIn
  <2> QED
    BY <1>0, <2>1, <2>3 DEF MainState, IInv, EntriesInv, MainInv, BacklogInv, Listed
<1>4. CASE ScanEnd
  <2>1. main.pc = "scan" /\ main' = [main EXCEPT !.pc = "remove", !.i = 0]
    BY <1>4 DEF ScanEnd
  <2> QED
    BY <1>0, <2>1 DEF MainState, IInv, EntriesInv, MainInv, BacklogInv, RemoveListInv,
       RemoveListIsJoined, IndicesIn, Listed
<1>5. CASE SyncEnd
  <2>1. /\ main.pc = "remove" /\ main.removeList = <<>>
        /\ main' = [main EXCEPT !.pc = "check"]
    BY <1>5 DEF SyncEnd
  <2> QED
    BY <1>0, <2>1 DEF MainState, IInv, EntriesInv, MainInv, BacklogInv, RemoveListInv,
       RemoveListIsJoined, IndicesIn, Listed
<1>6. CASE Drop \/ CreateFails
  <2>1. /\ main.pc \in {"check", "create"}
        /\ main' = [main EXCEPT !.pc = "accept", !.conn = None, !.sock = 0, !.num = 0]
    BY <1>6 DEF Drop, CreateFails, BackToAccept
  <2>2. \A k \in 1 .. Len(backlog) : backlog[k] # None
    BY <1>0, PoolAssumption DEF PoolAssumption
  <2> QED
    BY <1>0, <2>1, <2>2 DEF MainState, IInv, EntriesInv, MainInv, BacklogInv, RemoveListInv,
       RemoveListIsJoined, IndicesIn, Listed
<1>7. CASE PrepareArgs
  <2>1. /\ main.pc = "check" /\ Len(threadArr) < MaxThreads
        /\ main' = [main EXCEPT !.pc = "create", !.num = Len(threadArr)]
    BY <1>0, <1>7 DEF PrepareArgs, NewThreadNum, IsFull
  <2>2. /\ main'.pc = "create" /\ main'.num = Len(threadArr) /\ main'.conn = main.conn
        /\ main'.removeList = main.removeList
    BY <1>0, <2>1 DEF MainState
  <2>3. MainInv'
    BY <1>0, <2>1, <2>2 DEF IInv, MainInv
  <2>4. EntriesInv' /\ BacklogInv'
    BY <1>0, <2>1, <2>2 DEF IInv, EntriesInv, BacklogInv, Listed
  <2>5. RemoveListInv'
    BY <1>0, <2>1, <2>2 DEF IInv, RemoveListInv, RemoveListIsJoined, IndicesIn
  <2> QED
    BY <2>3, <2>4, <2>5
<1> QED
  BY <1>1, <1>2, <1>3, <1>4, <1>5, <1>6, <1>7

\* A thread that is joined stays listed, and its index enters the list.
LEMMA ScanJoinInv ==
    ASSUME IInv, ScanJoin
    PROVE  EntriesInv' /\ MainInv' /\ BacklogInv' /\ RemoveListInv'
<1> DEFINE t == ScanEntry.thread
           list == main.removeList
<1>0. /\ Len(threadArr) \in Nat /\ MaxThreads \in Nat /\ main \in MainState
      /\ Len(list) \in Nat /\ worker \in [Conns -> WorkerState]
      /\ \A k \in 1 .. Len(threadArr) : threadArr[k].thread \in Conns
      /\ \A k \in 1 .. Len(backlog) : backlog[k] \in Conns
      /\ \A k \in 1 .. Len(list) : list[k] \in Int
  BY ElementTypes, PoolAssumption DEF IInv, TypeOK, PoolAssumption
<1>1. /\ main.pc = "scan" /\ main.i \in Nat /\ main.i + 1 \in 1 .. Len(threadArr)
      /\ main.i \in 0 .. MaxThreads - 1
      /\ t = threadArr[main.i + 1].thread /\ t \in Conns /\ worker[t].pc = "done"
      /\ UNCHANGED <<threadArr, backlog>>
      /\ worker' = [worker EXCEPT ![t].pc = "joined"]
      /\ main' = [main EXCEPT !.i = @ + 1, !.removeList = Append(@, main.i)]
  BY <1>0 DEF ScanJoin, Indices, ScanEntry, ElementAt, Ended, netVars, MainState, IInv,
     EntriesInv
<1>2. /\ main'.pc = "scan" /\ main'.conn = main.conn /\ main'.num = main.num
      /\ main'.i = main.i + 1 /\ main'.removeList = Append(list, main.i)
  BY <1>0, <1>1 DEF MainState
<1>3. /\ worker'[t].pc = "joined"
      /\ \A w \in Conns : worker'[w].num = worker[w].num
      /\ \A w \in Conns \ {t} : worker'[w].pc = worker[w].pc
  BY <1>0, <1>1 DEF WorkerState
<1>4. /\ Len(main'.removeList) = Len(list) + 1
      /\ \A r \in 1 .. Len(list) : main'.removeList[r] = list[r]
      /\ main'.removeList[Len(list) + 1] = main.i
  <2>1. list \in Seq(0 .. MaxThreads - 1)
    BY <1>0 DEF MainState
  <2> QED
    BY <1>1, <1>2, <2>1, AppendProperties
<1> HIDE DEF t, list
<1>5. EntriesInv'
  <2>1. \A w \in Conns : worker'[w].pc = "none" <=> worker[w].pc = "none"
    BY <1>1, <1>3
  <2>2. \A w \in Conns : Listed(w)' <=> Listed(w)
    BY <1>1 DEF Listed
  <2> QED
    BY <1>0, <1>1, <1>2, <1>3, <2>1, <2>2 DEF IInv, EntriesInv
<1>6. MainInv'
  BY <1>0, <1>1, <1>2, <1>3 DEF IInv, MainInv
<1>7. BacklogInv'
  BY <1>0, <1>1, <1>2, <1>3, SMTT(30) DEF IInv, BacklogInv
<1>8. RemoveListInv'
  <2>1. /\ \A r \in 1 .. Len(list) : list[r] < main.i
        /\ \A q, r \in 1 .. Len(list) : q < r => list[q] < list[r]
        /\ \A k \in 1 .. Len(threadArr) : (worker[threadArr[k].thread].pc = "joined"
                <=> \E r \in 1 .. Len(list) : list[r] = k - 1)
    BY <1>1 DEF IInv, RemoveListInv, RemoveListIsJoined, IndicesIn, list
  <2>2. \A r \in 1 .. Len(main'.removeList) : main'.removeList[r] < main'.i
    BY <1>0, <1>1, <1>2, <1>4, <2>1, SMTT(30)
  <2>3. \A q, r \in 1 .. Len(main'.removeList) :
            q < r => main'.removeList[q] < main'.removeList[r]
    BY <1>0, <1>1, <1>4, <2>1, SMTT(30)
  <2>4. ASSUME NEW k \in 1 .. Len(threadArr)
        PROVE  worker'[threadArr[k].thread].pc = "joined"
                <=> \E r \in 1 .. Len(main'.removeList) : main'.removeList[r] = k - 1
    <3>1. CASE k = main.i + 1
      <4>1. worker'[threadArr[k].thread].pc = "joined"
        BY <1>1, <1>3, <3>1
      <4>2. /\ Len(list) + 1 \in 1 .. Len(main'.removeList)
            /\ main'.removeList[Len(list) + 1] = k - 1
        BY <1>0, <1>1, <1>4, <3>1
      <4> QED
        BY <4>1, <4>2
    <3>2. CASE k # main.i + 1
      <4>1. threadArr[k].thread # t
        BY <1>1, <3>2 DEF IInv, EntriesInv
      <4>2. worker'[threadArr[k].thread].pc = worker[threadArr[k].thread].pc
        BY <1>0, <1>3, <4>1
      <4>3. ASSUME NEW r \in 1 .. Len(main'.removeList), main'.removeList[r] = k - 1
            PROVE  r \in 1 .. Len(list) /\ list[r] = k - 1
        <5>1. main'.removeList[Len(list) + 1] # k - 1
          BY <1>1, <1>4, <3>2
        <5> QED
          BY <1>0, <1>4, <4>3, <5>1
      <4>4. \A r \in 1 .. Len(list) : /\ r \in 1 .. Len(main'.removeList)
                                     /\ main'.removeList[r] = list[r]
        BY <1>0, <1>4
      <4>5. worker[threadArr[k].thread].pc = "joined"
                <=> \E r \in 1 .. Len(list) : list[r] = k - 1
        BY <2>1
      <4> QED
        BY <4>2, <4>3, <4>4, <4>5
    <3> QED
      BY <3>1, <3>2
  <2>5. threadArr' = threadArr
    BY <1>1
  <2>6. RemoveListIsJoined'
    BY <2>4, <2>5 DEF RemoveListIsJoined, IndicesIn
  <2>7. main'.i <= Len(threadArr)
    BY <1>0, <1>1, <1>2
  <2>8. \A r \in 1 .. Len(main'.removeList) : main'.removeList[r] < Len(threadArr)
    <3> TAKE r \in 1 .. Len(main'.removeList)
    <3>1. CASE r \in 1 .. Len(list)
      BY <1>0, <1>1, <1>4, <2>1, <3>1, SMTT(30)
    <3>2. CASE r = Len(list) + 1
      BY <1>0, <1>1, <1>4, <3>2
    <3> QED
      BY <1>0, <1>4, <3>1, <3>2
  <2> QED
    BY <1>2, <2>2, <2>3, <2>5, <2>6, <2>7, <2>8 DEF RemoveListInv
<1> QED
  BY <1>5, <1>6, <1>7, <1>8

\* Removing the last, largest index leaves the others pointing where they did.
LEMMA RemoveOneInv ==
    ASSUME IInv, RemoveOne
    PROVE  EntriesInv' /\ MainInv' /\ BacklogInv' /\ RemoveListInv'
<1> DEFINE list == main.removeList
           n == Len(list)
           i == list[n]
           t == threadArr[i + 1].thread
<1>0. /\ Len(threadArr) \in Nat /\ MaxThreads \in Nat /\ main \in MainState
      /\ worker \in [Conns -> WorkerState] /\ n \in Nat /\ list \in Seq(0 .. MaxThreads - 1)
      /\ threadArr \in Seq(ThreadState)
      /\ \A k \in 1 .. Len(threadArr) : threadArr[k].thread \in Conns
      /\ \A k \in 1 .. Len(backlog) : backlog[k] \in Conns
      /\ \A k \in 1 .. n : list[k] \in 0 .. MaxThreads - 1
  BY ElementTypes, PoolAssumption DEF IInv, TypeOK, PoolAssumption, MainState
<1>1. /\ n >= 1 /\ main.pc = "remove"
      /\ \A r \in 1 .. n : list[r] < Len(threadArr)
      /\ \A q, r \in 1 .. n : q < r => list[q] < list[r]
      /\ \A k \in 1 .. Len(threadArr) : (worker[threadArr[k].thread].pc = "joined"
              <=> \E r \in 1 .. n : list[r] = k - 1)
  BY <1>0, EmptySeq DEF RemoveOne, IInv, RemoveListInv, RemoveListIsJoined, IndicesIn
<1>2. i \in Indices(threadArr) /\ i \in Nat /\ i + 1 \in 1 .. Len(threadArr) /\ t \in Conns
  BY <1>0, <1>1 DEF Indices
<1>3. /\ Len(threadArr') = Len(threadArr) - 1
      /\ \A k \in 1 .. Len(threadArr) - 1 :
            threadArr'[k] = IF k <= i THEN threadArr[k] ELSE threadArr[k + 1]
  BY <1>0, <1>2, RemoveIndexFacts DEF RemoveOne, NextRemoval
<1>4. worker' = [worker EXCEPT ![t] = NoWorker] /\ backlog' = backlog
  BY DEF RemoveOne, NextRemoval, ElementAt, netVars
<1>5. /\ main'.pc = "remove" /\ main'.conn = main.conn /\ main'.num = main.num
      /\ main'.removeList = SubSeq(list, 1, n - 1)
  BY <1>0, <1>1 DEF RemoveOne, MainState, OtherRemovals
<1>6. /\ Len(main'.removeList) = n - 1
      /\ \A r \in 1 .. n - 1 : main'.removeList[r] = list[r]
  BY <1>0, <1>1, <1>5, SubSeqProperties, ElementOfSeq
<1>7. /\ worker'[t].pc = "none"
      /\ \A w \in Conns \ {t} : worker'[w] = worker[w]
      /\ worker[t].pc = "joined"
  <2>1. n \in 1 .. n /\ list[n] = (i + 1) - 1
    BY <1>0, <1>1, <1>2
  <2>2. worker[t].pc = "joined"
    BY <1>1, <1>2, <2>1
  <2> HIDE DEF t
  <2> QED
    BY <1>0, <1>2, <1>4, <2>2 DEF NoWorker
<1> HIDE DEF list, n, i, t
<1>8. \A k \in 1 .. Len(threadArr) : threadArr[k].thread = t => k = i + 1
  BY <1>2 DEF IInv, EntriesInv, t
<1>9. EntriesInv'
  <2>1. \A k \in 1 .. Len(threadArr') : \E m \in 1 .. Len(threadArr) :
            /\ threadArr'[k] = threadArr[m] /\ m # i + 1 /\ k <= m
            /\ m = IF k <= i THEN k ELSE k + 1
    <3> TAKE k \in 1 .. Len(threadArr')
    <3> DEFINE m == IF k <= i THEN k ELSE k + 1
    <3>1. k \in 1 .. Len(threadArr) - 1 /\ k \in Int
      BY <1>0, <1>3
    <3>2. m \in 1 .. Len(threadArr) /\ m # i + 1 /\ k <= m
      BY <1>0, <1>2, <3>1
    <3>3. threadArr'[k] = threadArr[m]
      BY <1>3, <3>1
    <3> QED
      BY <3>2, <3>3
  <2>2. \A m \in 1 .. Len(threadArr) : m # i + 1 =>
            \E k \in 1 .. Len(threadArr') : threadArr'[k] = threadArr[m]
    <3> TAKE m \in 1 .. Len(threadArr)
    <3>1. CASE m <= i
      BY <1>0, <1>2, <1>3, <3>1
    <3>2. CASE m > i + 1
      <4>1. m - 1 \in 1 .. Len(threadArr') /\ ~(m - 1 <= i) /\ (m - 1) + 1 = m
        BY <1>0, <1>2, <1>3, <3>2
      <4>2. threadArr'[m - 1] = threadArr[m]
        BY <1>3, <4>1
      <4> QED
        BY <4>1, <4>2
    <3> QED
      BY <1>0, <1>2, <3>1, <3>2
  <2>3. Len(threadArr') <= MaxThreads
    BY <1>0, <1>3 DEF IInv, EntriesInv
  <2>4. \A j, k \in 1 .. Len(threadArr') :
            threadArr'[j].thread = threadArr'[k].thread => j = k
    <3> TAKE j, k \in 1 .. Len(threadArr')
    <3> HAVE threadArr'[j].thread = threadArr'[k].thread
    <3>1. PICK p \in 1 .. Len(threadArr) :
              threadArr'[j] = threadArr[p] /\ p = IF j <= i THEN j ELSE j + 1
      BY <2>1
    <3>2. PICK q \in 1 .. Len(threadArr) :
              threadArr'[k] = threadArr[q] /\ q = IF k <= i THEN k ELSE k + 1
      BY <2>1
    <3>3. p = q
      BY <3>1, <3>2 DEF IInv, EntriesInv
    <3> QED
      BY <1>0, <1>2, <1>3, <3>1, <3>2, <3>3
  <2>5. ASSUME NEW k \in 1 .. Len(threadArr')
        PROVE  /\ worker'[threadArr'[k].thread].pc # "none"
               /\ k - 1 <= worker'[threadArr'[k].thread].num
    <3>1. PICK m \in 1 .. Len(threadArr) :
              threadArr'[k] = threadArr[m] /\ m # i + 1 /\ k <= m
      BY <2>1
    <3>2. threadArr[m].thread # t /\ threadArr[m].thread \in Conns
      BY <1>0, <1>8, <3>1
    <3>3. worker'[threadArr[m].thread] = worker[threadArr[m].thread]
      BY <1>7, <3>2
    <3>4. /\ worker[threadArr[m].thread].pc # "none"
          /\ m - 1 <= worker[threadArr[m].thread].num
          /\ worker[threadArr[m].thread].num \in Nat
      BY <1>0, <3>2 DEF IInv, EntriesInv, WorkerState
    <3>5. k \in Int
      BY <1>0, <1>3
    <3> QED
      BY <3>1, <3>3, <3>4, <3>5
  <2>6. ASSUME NEW w \in Conns, worker'[w].pc # "none"
        PROVE  Listed(w)'
    <3>1. w # t
      BY <1>7, <2>6
    <3>2. worker[w].pc # "none"
      BY <1>7, <2>6, <3>1
    <3>3. PICK m \in 1 .. Len(threadArr) : threadArr[m].thread = w
      BY <1>1, <3>2 DEF IInv, EntriesInv, Listed
    <3>4. m # i + 1
      BY <3>1, <3>3 DEF t
    <3> QED
      BY <2>2, <3>3, <3>4 DEF Listed
  <2> QED
    BY <2>3, <2>4, <2>5, <2>6 DEF EntriesInv
<1>10. MainInv'
  <2>1. main.conn \in Conns /\ worker[main.conn].pc = "none" /\ main.conn # t
    BY <1>1, <1>7 DEF IInv, MainInv
  <2> QED
    BY <1>5, <1>7, <2>1 DEF MainInv
<1>11. BacklogInv'
  BY <1>0, <1>4, <1>5, <1>7 DEF IInv, BacklogInv
<1>12. RemoveListInv'
  <2>1. \A r \in 1 .. Len(main'.removeList) : main'.removeList[r] < Len(threadArr')
    <3> TAKE r \in 1 .. Len(main'.removeList)
    <3>1. r \in 1 .. n /\ n \in 1 .. n /\ r < n
      BY <1>0, <1>1, <1>6
    <3>2. list[r] < i /\ i < Len(threadArr) /\ list[r] \in Int
      BY <1>0, <1>1, <3>1 DEF i
    <3> QED
      BY <1>0, <1>2, <1>3, <1>6, <3>2
  <2>2. \A q, r \in 1 .. Len(main'.removeList) :
            q < r => main'.removeList[q] < main'.removeList[r]
    BY <1>0, <1>1, <1>6
  <2>3. ASSUME NEW k \in 1 .. Len(threadArr')
        PROVE  worker'[threadArr'[k].thread].pc = "joined"
                <=> \E r \in 1 .. n - 1 : list[r] = k - 1
    <3> DEFINE m == IF k <= i THEN k ELSE k + 1
    <3>1. /\ m \in 1 .. Len(threadArr) /\ threadArr'[k] = threadArr[m] /\ m # i + 1
          /\ k \in Int
      BY <1>0, <1>2, <1>3
    <3>2. worker'[threadArr'[k].thread] = worker[threadArr[m].thread]
      BY <1>0, <1>7, <1>8, <3>1
    <3>3. worker[threadArr[m].thread].pc = "joined" <=> \E r \in 1 .. n : list[r] = m - 1
      BY <1>1, <3>1
    <3>4. \A r \in 1 .. n - 1 : list[r] < i /\ list[r] \in Int
      BY <1>0, <1>1 DEF i
    <3>5. \A r \in 1 .. n : list[r] = m - 1 => r \in 1 .. n - 1
      BY <1>0, <1>1, <1>2, <3>1 DEF i
    <3>6. CASE k <= i
      BY <1>0, <3>2, <3>3, <3>5, <3>6
    <3>7. CASE ~(k <= i)
      <4>1. ~\E r \in 1 .. n - 1 : list[r] = k - 1
        BY <1>2, <3>1, <3>4, <3>7
      <4>2. ~\E r \in 1 .. n : list[r] = m - 1
        BY <1>2, <3>1, <3>4, <3>5, <3>7
      <4> QED
        BY <3>2, <3>3, <4>1, <4>2
    <3> QED
      BY <3>6, <3>7
  <2>4. RemoveListIsJoined'
    BY <1>6, <2>3 DEF RemoveListIsJoined, IndicesIn
  <2> QED
    BY <1>5, <2>1, <2>2, <2>4 DEF RemoveListInv
<1> QED
  BY <1>9, <1>10, <1>11, <1>12

\* The new thread is not listed yet, and no entry or queue place refers to it.
LEMMA CreateThreadInv ==
    ASSUME IInv, CreateThread
    PROVE  EntriesInv' /\ MainInv' /\ BacklogInv' /\ RemoveListInv'
<1> DEFINE c == main.conn
<1>0. /\ main \in MainState /\ worker \in [Conns -> WorkerState]
      /\ \A k \in 1 .. Len(threadArr) : threadArr[k].thread \in Conns
      /\ \A k \in 1 .. Len(backlog) : backlog[k] \in Conns
  BY ElementTypes DEF IInv, TypeOK
<1>1. /\ main.pc = "create" /\ c \in Conns /\ worker[c].pc = "none"
      /\ main.num = Len(threadArr) /\ Len(threadArr) < MaxThreads
      /\ UNCHANGED <<threadArr, backlog>>
  BY DEF CreateThread, IInv, MainInv, netVars
<1>2. /\ main'.pc = "push" /\ main'.conn = c /\ main'.num = main.num
      /\ main'.removeList = main.removeList
  BY <1>0 DEF CreateThread, MainState
<1>3. /\ worker'[c].pc = "call" /\ worker'[c].num = main.num
      /\ \A w \in Conns \ {c} : worker'[w] = worker[w]
  BY <1>0, <1>1 DEF CreateThread
<1> HIDE DEF c
<1>4. ~Listed(c)
  BY <1>1 DEF IInv, EntriesInv, Listed
<1>5. EntriesInv'
  BY <1>0, <1>1, <1>2, <1>3, <1>4 DEF IInv, EntriesInv, Listed
<1>6. MainInv'
  BY <1>1, <1>2, <1>3, <1>4 DEF MainInv, Listed
<1>7. BacklogInv'
  BY <1>0, <1>1, <1>2, <1>3 DEF IInv, BacklogInv, c
<1>8. RemoveListInv'
  BY <1>0, <1>1, <1>2, <1>3, <1>4
  DEF IInv, RemoveListInv, RemoveListIsJoined, IndicesIn, Listed
<1> QED
  BY <1>5, <1>6, <1>7, <1>8

\* The entry lands at the index that the thread was given.
LEMMA PushThreadInv ==
    ASSUME IInv, PushThread
    PROVE  EntriesInv' /\ MainInv' /\ BacklogInv' /\ RemoveListInv'
<1> DEFINE c == main.conn
           n == Len(threadArr)
<1>0. /\ n \in Nat /\ MaxThreads \in Nat /\ main \in MainState
      /\ worker \in [Conns -> WorkerState]
      /\ \A k \in 1 .. n : threadArr[k].thread \in Conns
      /\ \A k \in 1 .. Len(backlog) : backlog[k] \in Conns
  BY ElementTypes, PoolAssumption DEF IInv, TypeOK, PoolAssumption
<1>1. /\ main.pc = "push" /\ c \in Conns /\ worker[c].pc \notin {"none", "joined"}
      /\ worker[c].num = n /\ n < MaxThreads
      /\ \A k \in 1 .. n : threadArr[k].thread # c
      /\ UNCHANGED <<worker, backlog>>
  BY DEF PushThread, IInv, MainInv, netVars, Listed
<1>2. main'.pc = "accept" /\ main'.conn = None /\ main'.removeList = main.removeList
  BY <1>0 DEF PushThread, BackToAccept, MainState
<1>3. /\ Len(threadArr') = n + 1
      /\ \A k \in 1 .. n : threadArr'[k] = threadArr[k]
      /\ threadArr'[n + 1].thread = c
  <2>1. NewEntry \in ThreadState /\ NewEntry.thread = c
    BY <1>1 DEF NewEntry, ThreadState
  <2>2. threadArr' = Append(threadArr, NewEntry)
    BY <1>0, <1>1 DEF PushThread, Push, IsFull
  <2>3. threadArr \in Seq(ThreadState)
    BY DEF IInv, TypeOK
  <2> QED
    BY <2>1, <2>2, <2>3, AppendProperties
<1>4. main.removeList = <<>>
  BY <1>1 DEF IInv, RemoveListInv
<1> HIDE DEF c, n
<1>5. \A k \in 1 .. Len(threadArr') : k \in 1 .. n \/ k = n + 1
  BY <1>0, <1>3
<1>6. EntriesInv'
  <2>1. \A j, k \in 1 .. Len(threadArr') :
            threadArr'[j].thread = threadArr'[k].thread => j = k
    BY <1>1, <1>3, <1>5 DEF IInv, EntriesInv, n
  <2>2. ASSUME NEW k \in 1 .. Len(threadArr')
        PROVE  /\ worker'[threadArr'[k].thread].pc # "none"
               /\ k - 1 <= worker'[threadArr'[k].thread].num
    <3>1. CASE k = n + 1
      BY <1>0, <1>1, <1>3, <3>1
    <3>2. CASE k \in 1 .. n
      BY <1>1, <1>3, <3>2 DEF IInv, EntriesInv, n
    <3> QED
      BY <1>5, <3>1, <3>2
  <2>3. ASSUME NEW w \in Conns, worker'[w].pc # "none"
        PROVE  Listed(w)'
    <3>1. CASE w = c
      BY <1>0, <1>3, <3>1 DEF Listed
    <3>2. CASE w # c
      <4>1. PICK k \in 1 .. n : threadArr[k].thread = w
        BY <1>1, <2>3, <3>2 DEF IInv, EntriesInv, Listed, n, c
      <4> QED
        BY <1>0, <1>3, <4>1 DEF Listed
    <3> QED
      BY <3>1, <3>2
  <2>4. Len(threadArr') <= MaxThreads
    BY <1>0, <1>1, <1>3
  <2> QED
    BY <2>1, <2>2, <2>3, <2>4 DEF EntriesInv
<1>7. MainInv'
  BY <1>2 DEF MainInv
<1>8. BacklogInv'
  BY <1>0, <1>1, <1>2, PoolAssumption DEF IInv, BacklogInv, PoolAssumption
<1>9. RemoveListInv'
  <2>1. main'.removeList = <<>> /\ Len(main'.removeList) = 0
    BY <1>2, <1>4, EmptySeq
  <2>2. \A k \in 1 .. Len(threadArr') : worker'[threadArr'[k].thread].pc # "joined"
    <3> TAKE k \in 1 .. Len(threadArr')
    <3>1. CASE k = n + 1
      BY <1>1, <1>3, <3>1
    <3>2. CASE k \in 1 .. n
      BY <1>1, <1>3, <1>4, <3>2, EmptySeq
      DEF IInv, RemoveListInv, RemoveListIsJoined, IndicesIn, n
    <3> QED
      BY <1>5, <3>1, <3>2
  <2> QED
    BY <1>2, <2>1, <2>2 DEF RemoveListInv, RemoveListIsJoined, IndicesIn
<1> QED
  BY <1>6, <1>7, <1>8, <1>9

LEMMA ServerInv ==
    ASSUME IInv, ServerNext
    PROVE  EntriesInv' /\ MainInv' /\ BacklogInv' /\ RemoveListInv'
BY AcceptInv, LocalInv, ScanJoinInv, RemoveOneInv, CreateThreadInv, PushThreadInv
DEF ServerNext

-----------------------------------------------------------------------------
(* The theorems                                                            *)

LEMMA NextIInv == IInv /\ [Next]_vars => IInv'
<1> SUFFICES ASSUME IInv, [Next]_vars PROVE IInv'
  OBVIOUS
<1>1. CASE ServerNext
  BY <1>1, ServerTypes, ServerInv DEF IInv
<1>2. ASSUME NEW w \in Conns, WorkerNext(w) PROVE IInv'
  BY <1>2, WorkerTypes, WorkerQuiet, QuietInv DEF IInv
<1>3. ASSUME NEW c \in Conns, ClientNext(c) PROVE IInv'
  BY <1>3, ClientTypes, ClientInv DEF IInv
<1>4. CASE UNCHANGED vars
  <2>1. UNCHANGED <<up, main, lock, threadArr, worker, fdTable, client, backlog>>
    BY <1>4 DEF vars
  <2>2. TypeOK'
    BY <2>1 DEF IInv, TypeOK
  <2>3. Quiet
    BY <2>1 DEF Quiet
  <2> QED
    BY <2>2, <2>3, QuietInv DEF IInv
<1> QED
  BY <1>1, <1>2, <1>3, <1>4 DEF Next

\* The strengthening holds in every state the server can reach.
THEOREM Inductive == Spec => []IInv
<1>1. Init => IInv
  BY InitIInv
<1>2. IInv /\ [Next]_vars => IInv'
  BY NextIInv
<1> QED
  BY <1>1, <1>2, PTL DEF Spec

\* Every variable keeps its type, for every size of the pool and every client.
THEOREM TypeCorrect == Spec => []TypeOK
<1>1. IInv => TypeOK
  BY DEF IInv
<1> QED
  BY <1>1, Inductive, PTL

\* Every thread has exactly one entry in the array, so that it is joined once.
THEOREM ThreadsListedOnce == Spec => []EveryThreadListedOnce
<1>1. IInv => EveryThreadListedOnce
  <2> SUFFICES ASSUME IInv, NEW w \in Conns
               PROVE  IF worker[w].pc = "none" \/ (main.pc = "push" /\ main.conn = w)
                      THEN EntryOf(w) = {}
                      ELSE \E k \in 1 .. Len(threadArr) : EntryOf(w) = {k}
    BY DEF EveryThreadListedOnce
  <2>1. CASE worker[w].pc = "none" \/ (main.pc = "push" /\ main.conn = w)
    BY <2>1 DEF IInv, EntriesInv, MainInv, Listed, EntryOf
  <2>2. CASE ~(worker[w].pc = "none" \/ (main.pc = "push" /\ main.conn = w))
    <3>1. PICK k \in 1 .. Len(threadArr) : threadArr[k].thread = w
      BY <2>2 DEF IInv, EntriesInv, Listed
    <3>2. EntryOf(w) = {k}
      BY <3>1 DEF IInv, EntriesInv, EntryOf
    <3> QED
      BY <2>2, <3>2
  <2> QED
    BY <2>1, <2>2
<1> QED
  BY <1>1, Inductive, PTL

\* sync_threads removes from the array exactly the entries it has joined.
THEOREM RemovesExactlyJoined == Spec => []RemoveListIsJoined
<1>1. IInv => RemoveListIsJoined
  BY DEF IInv, RemoveListInv
<1> QED
  BY <1>1, Inductive, PTL

\* The size read without the lock is still the index when the entry is pushed.
THEOREM UnlockedSizeIsRight == Spec => []UnlockedSizeStaysTrue
<1>1. IInv => UnlockedSizeStaysTrue
  BY DEF IInv, MainInv, UnlockedSizeStaysTrue
<1> QED
  BY <1>1, Inductive, PTL

\* A stale index points at the thread's own entry or to the right of it.
THEOREM IndexNeverBehind == Spec => []StaleIndexIsAhead
<1>1. IInv => StaleIndexIsAhead
  BY DEF IInv, EntriesInv, StaleIndexIsAhead
<1> QED
  BY <1>1, Inductive, PTL

-----------------------------------------------------------------------------
(* The pool implements ThreadSlots                                         *)

\* When a thread is about to be created, fewer than MaxThreads exist: each of
\* them has an entry, and the array is not full.
LEMMA SlotIsFree ==
    ASSUME IInv, main.pc = "create"
    PROVE  Cardinality(Occupied) < MaxThreads
<1> DEFINE n == Len(threadArr)
           Place(w) == CHOOSE k \in 1 .. n : threadArr[k].thread = w
           f == [w \in Occupied |-> Place(w)]
<1>1. n \in Nat /\ n < MaxThreads /\ MaxThreads \in Nat
  BY ElementTypes, PoolAssumption DEF IInv, MainInv, PoolAssumption
<1>2. \A w \in Occupied : Place(w) \in 1 .. n /\ threadArr[Place(w)].thread = w
  <2> TAKE w \in Occupied
  <2>1. \E k \in 1 .. n : threadArr[k].thread = w
    BY DEF IInv, EntriesInv, Listed, Occupied
  <2> QED
    BY <2>1
<1> HIDE DEF Place
<1>3. f \in Injection(Occupied, 1 .. n)
  BY <1>2 DEF Injection, IsInjective
<1>4. IsFiniteSet(1 .. n) /\ Cardinality(1 .. n) = n
  <2> HIDE DEF n
  <2>1. 1 \in Int /\ n \in Int
    BY <1>1
  <2>2. /\ IsFiniteSet(1 .. n)
        /\ Cardinality(1 .. n) = IF 1 > n THEN 0 ELSE n - 1 + 1
    BY <2>1, FS_Interval, Zenon
  <2> QED
    BY <1>1, <2>2
<1>5. IsFiniteSet(Occupied) /\ Cardinality(Occupied) <= n
  BY <1>3, <1>4, FS_Injection
<1>6. Cardinality(Occupied) \in Nat
  BY <1>5, FS_CardinalityType
<1> QED
  BY <1>1, <1>5, <1>6

\* Steps after which the same threads exist and the same threads have ended
LEMMA SameSlots ==
    ASSUME \A w \in Conns :
            /\ (worker'[w].pc # "none" <=> worker[w].pc # "none")
            /\ (worker'[w].pc \in {"done", "joined"} <=> worker[w].pc \in {"done", "joined"})
    PROVE  UNCHANGED Slots!slotVars
BY DEF Slots!slotVars, Occupied, EndedThreads

LEMMA WorkerSlots ==
    ASSUME TypeOK, NEW w \in Conns, WorkerNext(w)
    PROVE  [Slots!SlotsNext]_(Slots!slotVars)
<1>0. worker \in [Conns -> WorkerState]
  BY DEF TypeOK
<1> DEFINE Moves(from, place) == /\ worker[w].pc = from
                                /\ \/ Goto(w, place)
                                   \/ LeaveRequest(w, place)
<1>1. ASSUME NEW from \in WorkerPcs \ {"none", "done", "joined"},
             NEW place \in WorkerPcs \ {"none", "done", "joined"}, Moves(from, place)
      PROVE  UNCHANGED Slots!slotVars
  <2>1. \A v \in Conns : v # w => worker'[v].pc = worker[v].pc
    BY <1>0, <1>1 DEF Goto, LeaveRequest
  <2>2. worker'[w].pc = place
    BY <1>0, <1>1 DEF Goto, LeaveRequest, WorkerState
  <2> QED
    BY <1>1, <2>1, <2>2, SameSlots
<1> USE DEF WorkerPcs
<1>2. CASE CallRecv(w)
  <2>1. \A v \in Conns : v # w => worker'[v].pc = worker[v].pc
    BY <1>0, <1>2 DEF CallRecv
  <2>2. worker[w].pc = "call" /\ worker'[w].pc = "recv"
    BY <1>0, <1>2 DEF CallRecv, WorkerState
  <2> QED
    BY <2>1, <2>2, SameSlots
<1>3. CASE RecvData(w)
  BY <1>1, <1>3 DEF RecvData
<1>4. CASE RecvEnd(w)
  BY <1>1, <1>4 DEF RecvEnd
<1>5. CASE Process(w)
  BY <1>1, <1>5 DEF Process
<1>6. CASE BrokenPipe(w)
  BY <1>6, SameSlots DEF BrokenPipe
<1>7. CASE ShutdownOnEnd(w)
  BY <1>1, <1>7 DEF ShutdownOnEnd, Shutdown
<1>8. CASE ShutdownAtExit(w)
  BY <1>1, <1>8 DEF ShutdownAtExit, Shutdown
<1>9. CASE CloseOnEnd(w) \/ CloseAtExit(w)
  BY <1>1, <1>9 DEF CloseOnEnd, CloseAtExit, Close
<1>10. CASE Finish(w)
  BY <1>1, <1>10 DEF Finish
<1>11. CASE Unlock(w)
  <2>1. worker[w].pc = "unlock" /\ worker' = [worker EXCEPT ![w].pc = "done"]
    BY <1>11 DEF Unlock, Goto
  <2>2. \A v \in Conns : v # w => worker'[v] = worker[v]
    BY <1>0, <2>1
  <2>3. worker'[w].pc = "done"
    BY <1>0, <2>1 DEF WorkerState
  <2>4. w \in Occupied \ EndedThreads
    BY <2>1 DEF Occupied, EndedThreads
  <2>5. Occupied' = Occupied
    BY <2>1, <2>2, <2>3 DEF Occupied
  <2>6. EndedThreads' = EndedThreads \cup {w}
    BY <2>2, <2>3 DEF EndedThreads
  <2>7. Slots!End(w)
    BY <2>4, <2>5, <2>6 DEF Slots!End
  <2> QED
    BY <2>7 DEF Slots!SlotsNext
<1> QED
  BY <1>2, <1>3, <1>4, <1>5, <1>6, <1>7, <1>8, <1>9, <1>10, <1>11 DEF WorkerNext

LEMMA ServerSlots ==
    ASSUME IInv, ServerNext
    PROVE  [Slots!SlotsNext]_(Slots!slotVars)
<1>0. worker \in [Conns -> WorkerState]
  BY DEF IInv, TypeOK
<1>1. CASE \/ Accept \/ Handshake \/ SyncBegin \/ ScanSkip \/ ScanEnd \/ SyncEnd
           \/ Drop \/ PrepareArgs \/ CreateFails \/ PushThread
  <2>1. UNCHANGED worker
    BY <1>1 DEF Accept, Handshake, SyncBegin, ScanSkip, ScanEnd, SyncEnd, Drop,
       PrepareArgs, CreateFails, PushThread
  <2> QED
    BY <2>1, SameSlots
<1>2. CASE ScanJoin
  <2> DEFINE t == ScanEntry.thread
  <2>1. worker[t].pc = "done" /\ worker' = [worker EXCEPT ![t].pc = "joined"]
    BY <1>2 DEF ScanJoin, Ended
  <2> HIDE DEF t
  <2>2. ASSUME NEW v \in Conns
        PROVE  worker'[v].pc = worker[v].pc
               \/ (worker[v].pc = "done" /\ worker'[v].pc = "joined")
    BY <1>0, <2>1 DEF WorkerState
  <2> QED
    BY <2>2, SameSlots
<1>3. CASE RemoveOne
  <2> DEFINE n == Len(main.removeList)
             i == main.removeList[n]
             t == threadArr[i + 1].thread
  <2>1. n \in Nat /\ n >= 1
    <3>1. main.removeList \in Seq(0 .. MaxThreads - 1) /\ main.removeList # <<>>
      BY <1>3 DEF RemoveOne, IInv, TypeOK, MainState
    <3> QED
      BY <3>1, EmptySeq
  <2>2. i + 1 \in 1 .. Len(threadArr) /\ t \in Conns /\ i \in Int
    <3>1. n \in 1 .. n
      BY <2>1
    <3>2. i \in 0 .. MaxThreads - 1 /\ i < Len(threadArr) /\ Len(threadArr) \in Nat
      BY <3>1, ElementTypes DEF IInv, RemoveListInv
    <3>3. i + 1 \in 1 .. Len(threadArr)
      BY <3>2, PoolAssumption DEF PoolAssumption
    <3> QED
      BY <3>2, <3>3, ElementTypes, PoolAssumption DEF IInv, PoolAssumption
  <2>3. worker[t].pc = "joined"
    <3>1. i = (i + 1) - 1 /\ n \in 1 .. n
      BY <2>1, <2>2
    <3> QED
      BY <2>2, <3>1 DEF IInv, RemoveListInv, RemoveListIsJoined, IndicesIn
  <2>4. worker' = [worker EXCEPT ![t] = NoWorker]
    BY <1>3 DEF RemoveOne, NextRemoval, ElementAt
  <2> HIDE DEF t
  <2>5. worker'[t].pc = "none" /\ \A v \in Conns : v # t => worker'[v] = worker[v]
    BY <1>0, <2>2, <2>4 DEF NoWorker
  <2>6. t \in EndedThreads
    BY <2>2, <2>3 DEF EndedThreads
  <2>7. Occupied' = Occupied \ {t}
    BY <2>2, <2>5 DEF Occupied
  <2>8. EndedThreads' = EndedThreads \ {t}
    BY <2>2, <2>5 DEF EndedThreads
  <2>9. Slots!Reap(t)
    BY <2>6, <2>7, <2>8 DEF Slots!Reap
  <2> QED
    BY <2>2, <2>9 DEF Slots!SlotsNext
<1>4. CASE CreateThread
  <2> DEFINE c == main.conn
  <2>1. main.pc = "create" /\ c \in Conns /\ worker[c].pc = "none"
    BY <1>4 DEF CreateThread, IInv, MainInv
  <2>2. worker'[c].pc = "call" /\ \A v \in Conns : v # c => worker'[v] = worker[v]
    BY <1>0, <1>4, <2>1 DEF CreateThread
  <2> HIDE DEF c
  <2>3. c \notin Occupied /\ Cardinality(Occupied) < MaxThreads
    BY <2>1, SlotIsFree DEF Occupied
  <2>4. Occupied' = Occupied \cup {c}
    BY <2>1, <2>2 DEF Occupied
  <2>5. EndedThreads' = EndedThreads
    BY <2>1, <2>2 DEF EndedThreads
  <2>6. Slots!Cardinality(Occupied) = Cardinality(Occupied)
    BY DEF Slots!Cardinality, Cardinality
  <2>7. Slots!Spawn(c)
    BY <2>3, <2>4, <2>5, <2>6 DEF Slots!Spawn
  <2> QED
    BY <2>1, <2>7 DEF Slots!SlotsNext
<1> QED
  BY <1>1, <1>2, <1>3, <1>4 DEF ServerNext

\* The thread pool keeps the promise of ThreadSlots: never more than MaxThreads
\* threads, and a slot is given back once, after its thread has ended.
THEOREM PoolImplementsSlots == Spec => ImplementsSlots
<1>1. Init => Slots!SlotsInit
  BY DEF Init, NoWorker, Slots!SlotsInit, Occupied, EndedThreads
<1>2. IInv /\ [Next]_vars => [Slots!SlotsNext]_(Slots!slotVars)
  <2> SUFFICES ASSUME IInv, [Next]_vars
               PROVE  [Slots!SlotsNext]_(Slots!slotVars)
    OBVIOUS
  <2>1. CASE ServerNext
    BY <2>1, ServerSlots
  <2>2. ASSUME NEW w \in Conns, WorkerNext(w)
        PROVE  [Slots!SlotsNext]_(Slots!slotVars)
    BY <2>2, WorkerSlots DEF IInv
  <2>3. ASSUME NEW c \in Conns, ClientNext(c)
        PROVE  [Slots!SlotsNext]_(Slots!slotVars)
    <3>1. UNCHANGED worker
      BY <2>3 DEF ClientNext, Connect, SendRequest, HangUp
    <3> QED
      BY <3>1, SameSlots
  <2>4. CASE UNCHANGED vars
    BY <2>4, SameSlots DEF vars
  <2> QED
    BY <2>1, <2>2, <2>3, <2>4 DEF Next
<1> QED
  BY <1>1, <1>2, Inductive, PTL DEF Spec, ImplementsSlots, Slots!SlotsSpec

-----------------------------------------------------------------------------
(***************************************************************************)
(* The lock of the thread array and the handles of connections.  The lock  *)
(* needs no more than its own two facts.  The handles are right as long as *)
(* clients do not hang up first: HangUps = {} is the hypothesis of those   *)
(* theorems, and the code justifies no weaker one (a thread whose client   *)
(* has left closes its socket a second time).                              *)
(***************************************************************************)

(* The main thread joins and removes threads that have ended.              *)

LEMMA ReapedThreads ==
    ASSUME IInv, ScanJoin \/ RemoveOne
    PROVE  \A w \in Conns : \/ worker'[w] = worker[w]
                            \/ /\ worker[w].pc \in {"done", "joined"}
                               /\ worker'[w].pc \in {"joined", "none"}
                               /\ worker'[w].on \in {None, worker[w].on}
<1>0. worker \in [Conns -> WorkerState] /\ main \in MainState
  BY DEF IInv, TypeOK
<1>1. CASE ScanJoin
  <2>1. main.i + 1 \in 1 .. Len(threadArr)
    BY <1>0, <1>1, ElementTypes, PoolAssumption
    DEF ScanJoin, Indices, IInv, MainState, PoolAssumption
  <2>2. ScanEntry.thread \in Conns
    BY <2>1, ElementTypes DEF ScanEntry, ElementAt, IInv
  <2> QED
    BY <1>0, <1>1, <2>2 DEF ScanJoin, Ended, WorkerState
<1>2. CASE RemoveOne
  <2> DEFINE list == main.removeList
             i == list[Len(list)]
             t == threadArr[i + 1].thread
  <2>1. /\ Len(list) \in Nat /\ Len(list) >= 1 /\ Len(threadArr) \in Nat
        /\ i \in 0 .. MaxThreads - 1 /\ i < Len(threadArr) /\ MaxThreads \in Nat
    BY <1>0, <1>2, ElementTypes, EmptySeq, PoolAssumption
    DEF RemoveOne, IInv, MainState, RemoveListInv, PoolAssumption
  <2>2. i + 1 \in 1 .. Len(threadArr) /\ i \in IndicesIn(list)
    BY <2>1 DEF IndicesIn
  <2>3. t \in Conns /\ worker[t].pc = "joined"
    BY <2>1, <2>2, ElementTypes DEF IInv, RemoveListInv, RemoveListIsJoined
  <2>4. worker' = [worker EXCEPT ![t] = NoWorker]
    BY <1>2 DEF RemoveOne, NextRemoval, ElementAt
  <2> HIDE DEF t
  <2> QED
    BY <1>0, <2>3, <2>4 DEF NoWorker
<1> QED
  BY <1>1, <1>2

-----------------------------------------------------------------------------
(* Handles and connections, when only the server ends connections          *)

\* A thread is at work for its connection, and has its handle open.
Serving(w) == worker[w].pc \in {"call", "recv", "work", "finish", "shut2", "close2"}

\* The handle of a connection belongs to one hand after the other: the main
\* thread, the connection's thread, nobody.
OwnersInv ==
    /\ \A w \in Conns : Serving(w) => fdTable[worker[w].fd] = w
    /\ main.pc \notin {"accept", "push"} => fdTable[main.sock] = main.conn
    /\ \A w \in Conns : worker[w].pc \in {"unlock", "done", "joined"} => ~HasFd(w)
    /\ \A c \in Conns : Queued(c) => ~HasFd(c)
    /\ \A f, g \in Fds : fdTable[f] # None /\ fdTable[f] = fdTable[g] => f = g

\* No thread sees the end of its connection before it ends it itself.
OpenInv ==
    /\ \A w \in Conns : worker[w].pc \notin {"shut", "close"}
    /\ \A w \in Conns : worker[w].on = IF worker[w].pc \in {"recv", "work"} THEN w ELSE None
    /\ \A c \in Conns : Live(c) =>
            /\ client[c].peer = "open"
            /\ client[c].shut => worker[c].pc = "close2"

HandleInv == OwnersInv /\ OpenInv

LEMMA InitHandleInv == Init => HandleInv
<1> SUFFICES ASSUME Init PROVE HandleInv
  OBVIOUS
<1>1. \A c \in Conns : ~HasFd(c) /\ ~Queued(c)
  BY PoolAssumption DEF Init, HasFd, Queued, PoolAssumption
<1> QED
  BY <1>1, PoolAssumption DEF Init, HandleInv, OwnersInv, OpenInv, Serving, NoWorker, Live

\* Steps that keep handles, ends of connections and the queue, and that move a
\* thread only from one place to another where it has its handle, or to one where it
\* has none
LEMMA SameHandles ==
    ASSUME IInv, HandleInv, UNCHANGED <<fdTable, backlog>>,
           \A c \in Conns : client'[c].peer = client[c].peer /\ client'[c].shut = client[c].shut,
           main'.pc \notin {"accept", "push"} =>
                main.pc \notin {"accept", "push"} /\ main'.sock = main.sock /\ main'.conn = main.conn,
           \A w \in Conns : \/ worker'[w] = worker[w]
                            \/ /\ Serving(w) /\ worker[w].pc # "close2"
                               /\ worker'[w].pc \in {"call", "recv", "work", "finish", "shut2"}
                               /\ worker'[w].fd = worker[w].fd
                               /\ worker'[w].on = IF worker'[w].pc \in {"recv", "work"} THEN w ELSE None
                            \/ /\ worker[w].pc \in {"unlock", "done", "joined"}
                               /\ worker'[w].pc \in {"done", "joined", "none"}
                               /\ worker'[w].on = None
    PROVE  HandleInv'
<1>1. \A c \in Conns : (HasFd(c)' <=> HasFd(c)) /\ (Queued(c)' <=> Queued(c))
  BY DEF HasFd, Queued
<1>2. OwnersInv'
  <2>1. \A w \in Conns : Serving(w)' => fdTable'[worker'[w].fd] = w
    BY DEF HandleInv, OwnersInv, Serving
  <2>2. main'.pc \notin {"accept", "push"} => fdTable'[main'.sock] = main'.conn
    BY DEF HandleInv, OwnersInv
  <2>3. \A w \in Conns : worker'[w].pc \in {"unlock", "done", "joined"} => ~HasFd(w)'
    BY <1>1 DEF HandleInv, OwnersInv, Serving
  <2> QED
    BY <1>1, <2>1, <2>2, <2>3 DEF HandleInv, OwnersInv
<1>3. OpenInv'
  BY <1>1 DEF HandleInv, OpenInv, Live, Serving
<1> QED
  BY <1>2, <1>3 DEF HandleInv

-----------------------------------------------------------------------------
(* The connection threads                                                  *)

LEMMA ServedIsOpen ==
    ASSUME IInv, HandleInv, NEW w \in Conns, Serving(w)
    PROVE  /\ worker[w].fd \in Fds /\ fdTable[worker[w].fd] = w
           /\ HasFd(w) /\ client[w].peer = "open"
           /\ worker[w].pc # "close2" => ~client[w].shut
<1>1. worker[w].fd \in Fds
  BY DEF IInv, TypeOK, WorkerState
<1>2. fdTable[worker[w].fd] = w
  BY DEF HandleInv, OwnersInv
<1> QED
  BY <1>1, <1>2 DEF HandleInv, OpenInv, HasFd, Live

LEMMA WorkerHandles ==
    ASSUME IInv, HandleInv, NEW w \in Conns, WorkerNext(w)
    PROVE  HandleInv'
<1>0. /\ worker \in [Conns -> WorkerState] /\ client \in [Conns -> ClientState]
      /\ fdTable \in [Fds -> Conns \cup {None}] /\ None \notin Conns
  BY PoolAssumption DEF IInv, TypeOK, PoolAssumption
<1>1. CASE CallRecv(w)
  <2>1. fdTable[worker[w].fd] = w /\ Serving(w)
    BY <1>1, ServedIsOpen DEF CallRecv, Serving
  <2>2. /\ \A v \in Conns \ {w} : worker'[v] = worker[v]
        /\ worker'[w].pc = "recv" /\ worker'[w].on = w /\ worker'[w].fd = worker[w].fd
        /\ worker[w].pc = "call"
    BY <1>0, <1>1, <2>1 DEF CallRecv, WorkerState
  <2> QED
    BY <1>1, <2>1, <2>2, SameHandles DEF CallRecv, netVars
<1>2. CASE RecvData(w)
  <2>1. worker[w].on = w /\ worker[w].pc = "recv" /\ Serving(w)
    BY <1>2 DEF RecvData, HandleInv, OpenInv, Serving
  <2>2. \A c \in Conns : client'[c].peer = client[c].peer /\ client'[c].shut = client[c].shut
    BY <1>0, <1>2, <2>1 DEF RecvData, ClientState
  <2>3. /\ \A v \in Conns \ {w} : worker'[v] = worker[v]
        /\ worker'[w].pc = "work" /\ worker'[w].on = w /\ worker'[w].fd = worker[w].fd
    BY <1>0, <1>2, <2>1 DEF RecvData, Goto, WorkerState
  <2> QED
    BY <1>2, <2>1, <2>2, <2>3, SameHandles DEF RecvData
<1>3. ~RecvEnd(w)
  <2> SUFFICES ASSUME RecvEnd(w) PROVE FALSE
    OBVIOUS
  <2>1. worker[w].on = w /\ Serving(w)
    BY DEF RecvEnd, HandleInv, OpenInv, Serving
  <2> QED
    BY <1>0, <2>1, ServedIsOpen DEF RecvEnd, AtEnd
<1>4. CASE Process(w)
  <2>1. Serving(w) /\ worker[w].pc = "work"
    BY <1>4 DEF Process, Serving
  <2>2. /\ \A v \in Conns \ {w} : worker'[v] = worker[v]
        /\ worker'[w].pc \in {"call", "finish"} /\ worker'[w].on = None
        /\ worker'[w].fd = worker[w].fd
    BY <1>0, <1>4 DEF Process, LeaveRequest, WorkerState
  <2> QED
    BY <1>4, <2>1, <2>2, SameHandles DEF Process, netVars
<1>5. CASE BrokenPipe(w)
  BY <1>5, SameHandles DEF BrokenPipe, netVars
<1>6. ~ShutdownOnEnd(w) /\ ~CloseOnEnd(w)
  BY DEF HandleInv, OpenInv, ShutdownOnEnd, CloseOnEnd, Shutdown, Close
<1>7. CASE Finish(w)
  <2>1. Serving(w) /\ worker[w].pc = "finish" /\ worker[w].on = None
    BY <1>7 DEF Finish, Serving, HandleInv, OpenInv
  <2>2. /\ \A v \in Conns \ {w} : worker'[v] = worker[v]
        /\ worker'[w].pc = "shut2" /\ worker'[w].on = None /\ worker'[w].fd = worker[w].fd
    BY <1>0, <1>7, <2>1 DEF Finish, Goto, WorkerState
  <2> QED
    BY <1>7, <2>1, <2>2, SameHandles DEF Finish, netVars
<1>8. CASE ShutdownAtExit(w)
  <2>0. /\ worker[w].pc = "shut2" /\ Serving(w) /\ worker[w].on = None
        /\ UNCHANGED <<main, fdTable, backlog>>
    BY <1>8 DEF ShutdownAtExit, Shutdown, Serving, HandleInv, OpenInv
  <2>1. /\ fdTable[worker[w].fd] = w /\ worker[w].fd \in Fds
        /\ client[w].peer = "open" /\ ~client[w].shut
    BY <2>0, ServedIsOpen
  <2>2. ~ShutdownFails(worker[w].fd)
    BY <1>0, <2>1 DEF ShutdownFails
  <2>3. client' = [client EXCEPT ![w].shut = TRUE] /\ Goto(w, "close2")
    BY <1>8, <2>1, <2>2 DEF ShutdownAtExit, Shutdown
  <2>4. /\ \A v \in Conns \ {w} : worker'[v] = worker[v] /\ client'[v] = client[v]
        /\ worker'[w].pc = "close2" /\ worker'[w].on = None /\ worker'[w].fd = worker[w].fd
        /\ client'[w].peer = "open"
    BY <1>0, <2>0, <2>1, <2>3 DEF Goto, WorkerState, ClientState
  <2>5. \A c \in Conns : (HasFd(c)' <=> HasFd(c)) /\ (Queued(c)' <=> Queued(c))
    BY <2>0 DEF HasFd, Queued
  <2>6. OwnersInv'
    <3>1. \A v \in Conns : Serving(v)' => fdTable'[worker'[v].fd] = v
      BY <2>0, <2>1, <2>4 DEF HandleInv, OwnersInv, Serving
    <3> QED
      BY <2>0, <2>4, <2>5, <3>1 DEF HandleInv, OwnersInv
  <2>7. OpenInv'
    BY <2>4, <2>5 DEF HandleInv, OpenInv, Live
  <2> QED
    BY <2>6, <2>7 DEF HandleInv
<1>9. CASE CloseAtExit(w)
  <2> DEFINE f == worker[w].fd
  <2>0. /\ worker[w].pc = "close2" /\ Serving(w) /\ worker[w].on = None
        /\ UNCHANGED <<main, backlog>>
    BY <1>9 DEF CloseAtExit, Close, Serving, HandleInv, OpenInv
  <2>1. fdTable[f] = w /\ f \in Fds /\ HasFd(w)
    BY <2>0, ServedIsOpen
  <2>2. /\ fdTable' = [fdTable EXCEPT ![f] = None]
        /\ client' = [client EXCEPT ![w] = Gone] /\ Goto(w, "unlock")
    BY <1>0, <1>9, <2>1 DEF CloseAtExit, Close
  <2>3. /\ \A v \in Conns \ {w} : worker'[v] = worker[v] /\ client'[v] = client[v]
        /\ worker'[w].pc = "unlock" /\ worker'[w].on = None
    BY <1>0, <2>0, <2>2 DEF Goto, WorkerState
  <2>4. fdTable'[f] = None /\ \A g \in Fds \ {f} : fdTable'[g] = fdTable[g] /\ fdTable[g] # w
    BY <1>0, <2>1, <2>2 DEF HandleInv, OwnersInv
  <2>5. ~HasFd(w)'
    BY <1>0, <2>4 DEF HasFd
  <2>6. \A c \in Conns : (HasFd(c)' => HasFd(c)) /\ (Queued(c)' <=> Queued(c))
    BY <1>0, <2>0, <2>4 DEF HasFd, Queued
  <2>7. OwnersInv'
    <3>1. \A v \in Conns : Serving(v)' => fdTable'[worker'[v].fd] = v
      <4> SUFFICES ASSUME NEW v \in Conns, Serving(v)'
                   PROVE  fdTable'[worker'[v].fd] = v
        OBVIOUS
      <4>1. v # w /\ Serving(v) /\ worker'[v] = worker[v]
        BY <2>3 DEF Serving
      <4>2. fdTable[worker[v].fd] = v /\ worker[v].fd \in Fds
        BY <4>1, ServedIsOpen
      <4> QED
        BY <2>1, <2>4, <4>1, <4>2
    <3>2. main'.pc \notin {"accept", "push"} => fdTable'[main'.sock] = main'.conn
      <4> SUFFICES ASSUME main.pc \notin {"accept", "push"} PROVE fdTable'[main.sock] = main.conn
        BY <2>0
      <4>1. worker[main.conn].pc = "none" /\ main.conn \in Conns /\ main.sock \in Fds
        BY DEF IInv, MainInv, TypeOK, MainState
      <4>2. fdTable[main.sock] = main.conn
        BY DEF HandleInv, OwnersInv
      <4> QED
        BY <2>0, <2>1, <2>4, <4>1, <4>2
    <3>3. \A v \in Conns : worker'[v].pc \in {"unlock", "done", "joined"} => ~HasFd(v)'
      BY <2>3, <2>5, <2>6 DEF HandleInv, OwnersInv
    <3>4. \A g, h \in Fds : fdTable'[g] # None /\ fdTable'[g] = fdTable'[h] => g = h
      BY <2>4 DEF HandleInv, OwnersInv
    <3> QED
      BY <2>6, <3>1, <3>2, <3>3, <3>4 DEF HandleInv, OwnersInv
  <2>8. OpenInv'
    <3>1. ~Queued(w)
      BY <2>1 DEF HandleInv, OwnersInv
    <3> QED
      BY <2>3, <2>5, <2>6, <3>1 DEF HandleInv, OpenInv, Live
  <2> QED
    BY <2>7, <2>8 DEF HandleInv
<1>10. CASE Unlock(w)
  <2>1. worker[w].pc = "unlock" /\ worker[w].on = None
    BY <1>10 DEF Unlock, HandleInv, OpenInv
  <2>2. /\ \A v \in Conns \ {w} : worker'[v] = worker[v]
        /\ worker'[w].pc = "done" /\ worker'[w].on = None
    BY <1>0, <1>10, <2>1 DEF Unlock, Goto, WorkerState
  <2> QED
    BY <1>10, <2>1, <2>2, SameHandles DEF Unlock, netVars
<1> QED
  BY <1>1, <1>2, <1>3, <1>4, <1>5, <1>6, <1>7, <1>8, <1>9, <1>10 DEF WorkerNext

-----------------------------------------------------------------------------
(* Clients                                                                 *)

LEMMA ClientHandles ==
    ASSUME HangUps = {}, IInv, HandleInv, NEW c \in Conns, ClientNext(c)
    PROVE  HandleInv'
<1>0. /\ client \in [Conns -> ClientState] /\ None \notin Conns
      /\ backlog \in Seq(Conns)
  BY PoolAssumption DEF IInv, TypeOK, PoolAssumption
<1>1. CASE SendRequest(c)
  <2>1. \A d \in Conns : client'[d].peer = client[d].peer /\ client'[d].shut = client[d].shut
    BY <1>0, <1>1 DEF SendRequest, ClientState
  <2> QED
    BY <1>1, <2>1, SameHandles DEF SendRequest
<1>2. ~HangUp(c)
  BY DEF HangUp, HandleInv, OpenInv
<1>3. CASE Connect(c)
  <2>1. /\ UNCHANGED <<main, worker, fdTable>> /\ ~HasFd(c) /\ worker[c].pc = "none"
        /\ client'[c].peer = "open" /\ ~client'[c].shut
        /\ \A d \in Conns \ {c} : client'[d] = client[d]
    BY <1>0, <1>3 DEF Connect, Unused, Live
  <2>2. \A d \in Conns : Queued(d)' <=> Queued(d) \/ d = c
    <3>1. /\ Len(backlog') = Len(backlog) + 1 /\ Len(backlog) \in Nat
          /\ \A k \in 1 .. Len(backlog) : backlog'[k] = backlog[k]
          /\ backlog'[Len(backlog) + 1] = c
      BY <1>0, <1>3, AppendProperties, LenProperties DEF Connect
    <3> QED
      BY <3>1 DEF Queued
  <2>3. \A d \in Conns : HasFd(d)' <=> HasFd(d)
    BY <2>1 DEF HasFd
  <2>4. OwnersInv'
    BY <2>1, <2>2, <2>3 DEF HandleInv, OwnersInv, Serving
  <2>5. OpenInv'
    BY <2>1, <2>2, <2>3 DEF HandleInv, OpenInv, Live
  <2> QED
    BY <2>4, <2>5 DEF HandleInv
<1> QED
  BY <1>1, <1>2, <1>3 DEF ClientNext

-----------------------------------------------------------------------------
(* The main thread                                                         *)

LEMMA AcceptHandles ==
    ASSUME IInv, HandleInv, Accept
    PROVE  HandleInv'
<1>0. /\ fdTable \in [Fds -> Conns \cup {None}] /\ None \notin Conns
      /\ backlog \in Seq(Conns) /\ backlog # <<>> /\ main \in MainState
  BY PoolAssumption DEF IInv, TypeOK, PoolAssumption, Accept
<1>c. PICK c \in Conns : c = Head(backlog)
  BY <1>0, HeadTailProperties
<1>1. /\ c = backlog[1] /\ Len(backlog) \in Nat \ {0}
      /\ Len(Tail(backlog)) = Len(backlog) - 1
      /\ \A k \in 1 .. Len(backlog) - 1 : Tail(backlog)[k] = backlog[k + 1]
  BY <1>0, <1>c, HeadTailProperties, EmptySeq
<1>2. PICK f \in Fds : /\ fdTable[f] = None
                       /\ fdTable' = [fdTable EXCEPT ![f] = c]
                       /\ main' = [main EXCEPT !.pc = IF Secure THEN "handshake" ELSE "sync",
                                               !.conn = c, !.sock = f]
  BY <1>c DEF Accept, NextFd, FreeFds
<1>3. /\ UNCHANGED <<worker, client>> /\ backlog' = Tail(backlog)
      /\ main'.conn = c /\ main'.sock = f
      /\ fdTable'[f] = c /\ \A g \in Fds \ {f} : fdTable'[g] = fdTable[g]
  BY <1>0, <1>2 DEF Accept, MainState
<1>4. Queued(c) /\ ~HasFd(c) /\ worker[c].pc = "none"
  <2>1. Queued(c)
    BY <1>1 DEF Queued
  <2> QED
    BY <1>1, <2>1 DEF HandleInv, OwnersInv, IInv, BacklogInv
<1>5. ~Queued(c)'
  BY <1>1, <1>3 DEF Queued, IInv, BacklogInv
<1>6. \A d \in Conns \ {c} : (Queued(d)' => Queued(d)) /\ (HasFd(d)' <=> HasFd(d))
  <2>1. \A d \in Conns : Queued(d)' => Queued(d)
    BY <1>1, <1>3 DEF Queued
  <2> QED
    BY <1>0, <1>2, <1>3, <2>1 DEF HasFd
<1>7. OwnersInv'
  <2>1. \A w \in Conns : Serving(w)' => fdTable'[worker'[w].fd] = w
    BY <1>2, <1>3, <1>0, ServedIsOpen DEF Serving
  <2>2. \A w \in Conns : worker'[w].pc \in {"unlock", "done", "joined"} => ~HasFd(w)'
    BY <1>3, <1>4, <1>6 DEF HandleInv, OwnersInv
  <2>3. \A d \in Conns : Queued(d)' => ~HasFd(d)'
    BY <1>5, <1>6 DEF HandleInv, OwnersInv
  <2>4. \A g, h \in Fds : fdTable'[g] # None /\ fdTable'[g] = fdTable'[h] => g = h
    BY <1>3, <1>4 DEF HandleInv, OwnersInv, HasFd
  <2> QED
    BY <1>3, <2>1, <2>2, <2>3, <2>4 DEF OwnersInv
<1>8. OpenInv'
  BY <1>3, <1>4, <1>6 DEF HandleInv, OpenInv, Live
<1> QED
  BY <1>7, <1>8 DEF HandleInv

LEMMA ServerHandles ==
    ASSUME IInv, HandleInv, ServerNext
    PROVE  HandleInv'
<1>0. /\ worker \in [Conns -> WorkerState] /\ client \in [Conns -> ClientState]
      /\ main \in MainState /\ None \notin Conns
  BY PoolAssumption DEF IInv, TypeOK, PoolAssumption
<1>1. CASE Handshake
  <2>1. /\ main.pc = "handshake" /\ main'.sock = main.sock /\ main'.conn = main.conn
        /\ UNCHANGED <<worker, fdTable, backlog>>
    BY <1>0, <1>1 DEF Handshake, MainState
  <2>2. fdTable[main.sock] \in Conns \cup {None}
    BY DEF IInv, TypeOK, MainState
  <2>3. \A c \in Conns : client'[c].peer = client[c].peer /\ client'[c].shut = client[c].shut
    BY <1>0, <1>1, <2>2 DEF Handshake, ClientState
  <2> QED
    BY <2>1, <2>3, SameHandles
<1>2. CASE SyncBegin \/ ScanSkip \/ ScanEnd \/ SyncEnd \/ Drop \/ PrepareArgs \/ CreateFails
           \/ PushThread
  <2>1. /\ UNCHANGED <<worker, fdTable, client, backlog>>
        /\ main'.pc \notin {"accept", "push"} =>
              main.pc \notin {"accept", "push"} /\ main'.sock = main.sock /\ main'.conn = main.conn
    BY <1>0, <1>2 DEF SyncBegin, ScanSkip, ScanEnd, SyncEnd, Drop, PrepareArgs, CreateFails,
       PushThread, BackToAccept, netVars, MainState
  <2> QED
    BY <2>1, SameHandles
<1>3. CASE ScanJoin \/ RemoveOne
  <2>1. /\ UNCHANGED <<fdTable, client, backlog>>
        /\ main.pc \in {"scan", "remove"} /\ main'.pc = main.pc
        /\ main'.sock = main.sock /\ main'.conn = main.conn
    BY <1>0, <1>3 DEF ScanJoin, RemoveOne, netVars, MainState
  <2>2. \A w \in Conns : \/ worker'[w] = worker[w]
                         \/ /\ worker[w].pc \in {"done", "joined"}
                            /\ worker'[w].pc \in {"joined", "none"}
                            /\ worker'[w].on \in {None, worker[w].on}
    BY <1>3, ReapedThreads
  <2>3. \A w \in Conns : worker[w].pc \in {"done", "joined"} => worker[w].on = None
    BY DEF HandleInv, OpenInv
  <2> QED
    BY <2>1, <2>2, <2>3, SameHandles
<1>4. CASE CreateThread
  <2>1. /\ main.pc = "create" /\ main'.pc = "push"
        /\ UNCHANGED <<fdTable, client, backlog>>
    BY <1>0, <1>4 DEF CreateThread, netVars, MainState
  <2>2. /\ main.conn \in Conns /\ worker[main.conn].pc = "none"
        /\ fdTable[main.sock] = main.conn /\ main.sock \in Fds
    BY <2>1 DEF IInv, MainInv, HandleInv, OwnersInv, TypeOK, MainState
  <2>3. /\ \A w \in Conns \ {main.conn} : worker'[w] = worker[w]
        /\ worker'[main.conn].pc = "call" /\ worker'[main.conn].fd = main.sock
        /\ worker'[main.conn].on = None
    BY <1>0, <1>4, <2>2 DEF CreateThread
  <2>4. \A c \in Conns : (HasFd(c)' <=> HasFd(c)) /\ (Queued(c)' <=> Queued(c))
    BY <2>1 DEF HasFd, Queued
  <2>5. OwnersInv'
    <3>1. \A w \in Conns : Serving(w)' => fdTable'[worker'[w].fd] = w
      BY <2>1, <2>2, <2>3 DEF HandleInv, OwnersInv, Serving
    <3> QED
      BY <2>1, <2>3, <2>4, <3>1 DEF HandleInv, OwnersInv
  <2>6. OpenInv'
    BY <2>1, <2>2, <2>3, <2>4 DEF HandleInv, OpenInv, Live
  <2> QED
    BY <2>5, <2>6 DEF HandleInv
<1> QED
  BY AcceptHandles, <1>1, <1>2, <1>3, <1>4 DEF ServerNext

LEMMA NextHandleInv ==
    ASSUME HangUps = {}
    PROVE  IInv /\ HandleInv /\ [Next]_vars => HandleInv'
<1> SUFFICES ASSUME IInv, HandleInv, [Next]_vars PROVE HandleInv'
  OBVIOUS
<1>1. CASE UNCHANGED vars
  BY <1>1, SameHandles DEF vars
<1> QED
  BY <1>1, ServerHandles, WorkerHandles, ClientHandles DEF Next

-----------------------------------------------------------------------------
(* The lock                                                                *)

\* A step of a thread outside of the lock, with the lock left alone
LEMMA LockUntouched ==
    ASSUME LockExcludes, lock' = lock,
           main'.pc \in {"scan", "remove", "push"} <=> main.pc \in {"scan", "remove", "push"},
           \A w \in Conns : worker'[w].pc \in {"shut2", "close2", "unlock"}
                                <=> worker[w].pc \in {"shut2", "close2", "unlock"}
    PROVE  LockExcludes'
BY DEF LockExcludes

LEMMA ServerLock ==
    ASSUME IInv, LockExcludes, ServerNext
    PROVE  LockExcludes'
<1>0. /\ worker \in [Conns -> WorkerState] /\ main \in MainState /\ lock \in Conns \cup {None, Server}
      /\ None \notin Conns /\ Server \notin Conns /\ None # Server
  BY PoolAssumption DEF IInv, TypeOK, PoolAssumption
<1> USE DEF LockExcludes, netVars, MainState
<1>1. CASE Accept \/ Handshake \/ ScanSkip \/ ScanEnd \/ Drop \/ PrepareArgs
  <2>1. /\ UNCHANGED <<lock, worker>>
        /\ main'.pc \in {"scan", "remove", "push"} <=> main.pc \in {"scan", "remove", "push"}
    BY <1>0, <1>1 DEF Accept, Handshake, ScanSkip, ScanEnd, Drop, PrepareArgs, BackToAccept
  <2> QED
    BY <2>1, LockUntouched
<1>2. CASE SyncBegin
  BY <1>0, <1>2 DEF SyncBegin, Acquire, LockFree
<1>3. CASE ScanJoin \/ RemoveOne
  <2>1. /\ UNCHANGED lock
        /\ main'.pc \in {"scan", "remove", "push"} <=> main.pc \in {"scan", "remove", "push"}
    BY <1>0, <1>3 DEF ScanJoin, RemoveOne
  <2>2. \A w \in Conns : \/ worker'[w] = worker[w]
                         \/ /\ worker[w].pc \in {"done", "joined"}
                            /\ worker'[w].pc \in {"joined", "none"}
    BY <1>3, ReapedThreads
  <2> QED
    BY <2>1, <2>2, LockUntouched
<1>4. CASE SyncEnd
  BY <1>0, <1>4 DEF SyncEnd, Release
<1>5. CASE CreateThread
  <2>1. worker[main.conn].pc = "none" /\ main.conn \in Conns
    BY <1>5 DEF CreateThread, IInv, MainInv
  <2> QED
    BY <1>0, <1>5, <2>1 DEF CreateThread, Acquire, LockFree
<1>6. CASE CreateFails
  BY <1>0, <1>6 DEF CreateFails, BackToAccept
<1>7. CASE PushThread
  BY <1>0, <1>7 DEF PushThread, Release, BackToAccept
<1> QED
  BY <1>1, <1>2, <1>3, <1>4, <1>5, <1>6, <1>7 DEF ServerNext

LEMMA WorkerLock ==
    ASSUME IInv, LockExcludes, NEW w \in Conns, WorkerNext(w)
    PROVE  LockExcludes'
<1>0. /\ worker \in [Conns -> WorkerState] /\ lock \in Conns \cup {None, Server}
      /\ None \notin Conns /\ Server \notin Conns /\ None # Server
  BY PoolAssumption DEF IInv, TypeOK, PoolAssumption
<1> DEFINE Inside == {"shut2", "close2", "unlock"}
<1>a. ASSUME NEW place, worker' = [worker EXCEPT ![w].pc = place]
      PROVE  worker'[w].pc = place /\ \A v \in Conns \ {w} : worker'[v] = worker[v]
  BY <1>0, <1>a DEF WorkerState
<1>1. CASE CallRecv(w) \/ RecvData(w) \/ RecvEnd(w) \/ Process(w) \/ BrokenPipe(w)
           \/ ShutdownOnEnd(w) \/ CloseOnEnd(w) \/ ShutdownAtExit(w) \/ CloseAtExit(w)
  <2>1. /\ UNCHANGED <<lock, main>>
        /\ \A v \in Conns \ {w} : worker'[v] = worker[v]
        /\ worker'[w].pc \in Inside <=> worker[w].pc \in Inside
    BY <1>0, <1>1 DEF CallRecv, RecvData, RecvEnd, Process, BrokenPipe, ShutdownOnEnd,
       CloseOnEnd, ShutdownAtExit, CloseAtExit, Shutdown, Close, Goto, LeaveRequest, netVars,
       WorkerState
  <2> QED
    BY <2>1, LockUntouched
<1>2. CASE Finish(w)
  <2>1. /\ worker[w].pc = "finish" /\ UNCHANGED main
        /\ Posix => lock = None /\ lock' = w
        /\ worker'[w].pc = "shut2" /\ \A v \in Conns \ {w} : worker'[v] = worker[v]
    BY <1>2, <1>a DEF Finish, Acquire, LockFree, Goto
  <2> QED
    BY <1>0, <2>1 DEF LockExcludes
<1>3. CASE Unlock(w)
  <2>1. /\ worker[w].pc = "unlock" /\ UNCHANGED main
        /\ Posix => lock' = None
        /\ worker'[w].pc = "done" /\ \A v \in Conns \ {w} : worker'[v] = worker[v]
    BY <1>3, <1>a DEF Unlock, Release, Goto
  <2> QED
    BY <1>0, <2>1 DEF LockExcludes
<1> QED
  BY <1>1, <1>2, <1>3 DEF WorkerNext

-----------------------------------------------------------------------------
(* The theorems                                                            *)

\* In the POSIX build the mutex keeps the scan, the creation and the end of threads
\* apart, in every interleaving and whatever clients do.
THEOREM LockKeepsApart == Spec => []LockExcludes
<1>1. Init => LockExcludes
  BY PoolAssumption DEF Init, LockExcludes, NoWorker, PoolAssumption
<1>2. IInv /\ LockExcludes /\ [Next]_vars => LockExcludes'
  <2> SUFFICES ASSUME IInv, LockExcludes, [Next]_vars PROVE LockExcludes'
    OBVIOUS
  <2>1. ASSUME NEW c \in Conns, ClientNext(c) PROVE LockExcludes'
    BY <2>1, LockUntouched DEF ClientNext, Connect, SendRequest, HangUp
  <2>2. CASE UNCHANGED vars
    BY <2>2, LockUntouched DEF vars
  <2> QED
    BY <2>1, <2>2, ServerLock, WorkerLock DEF Next
<1> QED
  BY <1>1, <1>2, Inductive, PTL DEF Spec

\* As long as clients do not end connections, a handle passes from the main thread to
\* one thread and to nobody, in every interleaving.
THEOREM HandlesAreOwned ==
    ASSUME HangUps = {}
    PROVE  Spec => []HandleInv
<1>1. Init => HandleInv
  BY InitHandleInv
<1>2. IInv /\ HandleInv /\ [Next]_vars => HandleInv'
  BY NextHandleInv
<1> QED
  BY <1>1, <1>2, Inductive, PTL DEF Spec

\* No two threads read from or work for one connection, if no client hangs up.
THEOREM ThreadPerConnection ==
    ASSUME HangUps = {}
    PROVE  Spec => []OneThreadPerConnection
<1>1. HandleInv => OneThreadPerConnection
  BY PoolAssumption DEF HandleInv, OpenInv, OneThreadPerConnection, PoolAssumption
<1> QED
  BY <1>1, HandlesAreOwned, PTL

\* An answer goes out on the handle of the connection that asked, if no client hangs up.
THEOREM AnswersGoToRequesters ==
    ASSUME HangUps = {}
    PROVE  Spec => []AnswersItsRequester
<1>1. HandleInv => AnswersItsRequester
  BY DEF HandleInv, OwnersInv, OpenInv, Serving, AnswersItsRequester
<1> QED
  BY <1>1, HandlesAreOwned, PTL

\* A thread that is through with its socket_close leaves no handle, if no client hangs up.
THEOREM EndedThreadsLeaveNoHandle ==
    ASSUME HangUps = {}
    PROVE  Spec => []EndedThreadLeavesNoHandle
<1>1. HandleInv => EndedThreadLeavesNoHandle
  BY DEF HandleInv, OwnersInv, EndedThreadLeavesNoHandle
<1> QED
  BY <1>1, HandlesAreOwned, PTL
=============================================================================
