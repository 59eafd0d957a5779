---------------------------- MODULE ThreadPool ----------------------------
(***************************************************************************)
(* The accept loop of the server and its pool of connection threads:       *)
(* server_run in src/src/korall.c with process_incoming_connection,        *)
(* sync_threads, create_data_process_thread and process_incoming_data of   *)
(* src/src/server/http/server_http.c and socket_close of                   *)
(* src/src/socket/socket.c.                                                *)
(*                                                                         *)
(* The main thread accepts a connection, joins the threads whose entry of  *)
(* the thread array is marked as not running, and starts a thread for the  *)
(* connection.  A thread reads from its socket, answers, and when it ends  *)
(* marks an entry of the array: the one whose index it was given when it   *)
(* was created.  Socket handles are reused by the operating system, so a   *)
(* handle and the connection behind it are kept apart here.                *)
(*                                                                         *)
(* A thread is named after the connection it was created for.  What is     *)
(* read and answered on a connection is left to other modules: here a      *)
(* request is "some bytes", and answering ends the connection or not.      *)
(***************************************************************************)
EXTENDS ArrayList, FiniteSets

CONSTANTS
    Conns,        \* names of client connections; a name is reused when it is over
    None,         \* no connection; for the lock, no holder
    Server,       \* the main thread, as holder of the lock
    MaxThreads,   \* MAX_THREADS, 64 in server_http.h
    MaxFds,       \* socket handles the process may have open for connections
    Backlog,      \* MAX_LISTEN_QUEUE_LEN, 10 in socket.h
    HangUps,      \* how clients end connections: a subset of {"fin", "rst"}
    Posix,        \* TRUE for the pthread build, FALSE for the _WIN32 build
    Secure        \* TRUE when ssl_ctx is set, so that accepting does a handshake

ASSUME PoolAssumption ==
    /\ None \notin Conns /\ Server \notin Conns /\ None # Server
    /\ MaxThreads \in Nat \ {0}
    /\ MaxFds \in Nat \ {0}
    /\ Backlog \in Nat \ {0}
    /\ HangUps \subseteq {"fin", "rst"}
    /\ Posix \in BOOLEAN
    /\ Secure \in BOOLEAN

Fds == 0 .. MaxFds - 1

VARIABLES
    up,           \* the process runs
    main,         \* the main thread: its place in the loop and its locals
    lock,         \* the holder of the mutex
    threadArr,    \* the ThreadState array, threads[MAX_THREADS]
    worker,       \* the connection threads: place in the code and locals
    fdTable,      \* the connection behind each socket handle
    client,       \* the far end of each connection
    backlog       \* connections waiting to be accepted, in order

vars == <<up, main, lock, threadArr, worker, fdTable, client, backlog>>
netVars == <<fdTable, client, backlog>>

MainPcs == {"accept", "handshake", "sync", "scan", "remove", "check", "create", "push"}
WorkerPcs == {"none", "call", "recv", "work", "shut", "close", "finish",
              "shut2", "close2", "unlock", "done", "joined"}

\* Places and locals of server_run and of process_incoming_data, an element of
\* the thread array, and the far end of a connection
MainState == [pc : MainPcs, conn : Conns \cup {None}, sock : Fds,
              num : 0 .. MaxThreads - 1, i : 0 .. MaxThreads,
              removeList : Seq(0 .. MaxThreads - 1)]
WorkerState == [pc : WorkerPcs, fd : Fds, num : 0 .. MaxThreads - 1,
                on : Conns \cup {None}]
ThreadState == [thread : Conns, running : BOOLEAN]
ClientState == [peer : {"gone", "open", "fin", "rst"}, data : BOOLEAN, shut : BOOLEAN]

NoWorker == [pc |-> "none", fd |-> 0, num |-> 0, on |-> None]
Gone == [peer |-> "gone", data |-> FALSE, shut |-> FALSE]

Init ==
    /\ up = TRUE
    /\ main = [pc |-> "accept", conn |-> None, sock |-> 0, num |-> 0,
               i |-> 0, removeList |-> <<>>]
    /\ lock = None
    /\ threadArr = <<>>
    /\ worker = [w \in Conns |-> NoWorker]
    /\ fdTable = [f \in Fds |-> None]
    /\ client = [c \in Conns |-> Gone]
    /\ backlog = <<>>

-----------------------------------------------------------------------------
(* Clients and the operating system                                        *)

HasFd(c) == \E f \in Fds : fdTable[f] = c
Queued(c) == \E k \in 1 .. Len(backlog) : backlog[k] = c
Live(c) == HasFd(c) \/ Queued(c)

\* Nothing refers to the name c any more: it may stand for a new connection.
Unused(c) == /\ ~Live(c)
             /\ worker[c].pc = "none"
             /\ main.conn # c
             /\ \A w \in Conns : worker[w].on # c

Connect(c) ==
    /\ Unused(c)
    /\ Len(backlog) < Backlog
    /\ backlog' = Append(backlog, c)
    /\ client' = [client EXCEPT ![c] = [peer |-> "open", data |-> FALSE, shut |-> FALSE]]
    /\ UNCHANGED <<up, main, lock, threadArr, worker, fdTable>>

\* Bytes arrive: one recv takes all that has arrived, however many were sent.
SendRequest(c) ==
    /\ Live(c)
    /\ client[c].peer = "open" /\ ~client[c].data /\ ~client[c].shut
    /\ client' = [client EXCEPT ![c].data = TRUE]
    /\ UNCHANGED <<up, main, lock, threadArr, worker, fdTable, backlog>>

\* The client closes its end, or its host resets the connection.
HangUp(c) ==
    /\ Live(c)
    /\ \/ client[c].peer = "open" /\ \E how \in HangUps :
            client' = [client EXCEPT ![c].peer = how]
       \/ client[c].peer = "fin" /\ "rst" \in HangUps
            /\ client' = [client EXCEPT ![c].peer = "rst"]
    /\ UNCHANGED <<up, main, lock, threadArr, worker, fdTable, backlog>>

\* A read on c returns without data: closed, reset, shut down, or not a socket.
AtEnd(c) == c # None => client[c].peer # "open" \/ client[c].shut

\* shutdown(f) succeeds or not: it fails on a handle that is not open and on a
\* connection that was reset; once both ends are shut it may do either.
ShutdownOk(f) == fdTable[f] # None /\ client[fdTable[f]].peer # "rst"
ShutdownFails(f) == fdTable[f] # None =>
                      \/ client[fdTable[f]].peer = "rst"
                      \/ client[fdTable[f]].peer = "fin" /\ client[fdTable[f]].shut

-----------------------------------------------------------------------------
(* The main thread: server_run                                             *)

FreeFds == {f \in Fds : fdTable[f] = None}

\* The kernel gives the lowest free handle; Windows promises no order.
NextFd(f) == f \in FreeFds /\ (Posix => \A g \in FreeFds : f <= g)

\* accept.  Without a free handle it fails and the loop goes round: no change.
Accept ==
    /\ main.pc = "accept"
    /\ backlog # <<>>
    /\ \E f \in Fds :
        /\ NextFd(f)
        /\ fdTable' = [fdTable EXCEPT ![f] = Head(backlog)]
        /\ main' = [main EXCEPT !.pc = IF Secure THEN "handshake" ELSE "sync",
                                !.conn = Head(backlog), !.sock = f]
    /\ backlog' = Tail(backlog)
    /\ UNCHANGED <<up, lock, threadArr, worker, client>>

\* SSL_accept blocks until the client speaks or ends; a failed handshake only
\* sets ssl to NULL, and the connection is served all the same.
Handshake ==
    /\ main.pc = "handshake"
    /\ LET c == fdTable[main.sock] IN
        \/ AtEnd(c) /\ UNCHANGED client
        \/ /\ c # None /\ client[c].data
           /\ client' = [client EXCEPT ![c].data = FALSE]
    /\ main' = [main EXCEPT !.pc = "sync"]
    /\ UNCHANGED <<up, lock, threadArr, worker, fdTable, backlog>>

\* pthread_mutex_lock is used in the POSIX build only.
LockFree == Posix => lock = None
Acquire(t) == LockFree /\ lock' = IF Posix THEN t ELSE lock
Release == lock' = IF Posix THEN None ELSE lock

SyncBegin ==
    /\ main.pc = "sync"
    /\ Acquire(Server)
    /\ main' = [main EXCEPT !.pc = "scan", !.i = 0, !.removeList = <<>>]
    /\ UNCHANGED <<up, threadArr, worker, netVars>>

ScanEntry == ElementAt(threadArr, main.i)
Ended(w) == worker[w].pc = "done"

\* Fault: WaitForSingleObject with INFINITE in place of 0.
WaitsForEveryThread == FALSE

\* The test that makes sync_threads go on to the next entry.
SkipsEntry == IF Posix THEN ScanEntry.running ELSE ~Ended(ScanEntry.thread)

ScanSkip ==
    /\ main.pc = "scan" /\ main.i \in Indices(threadArr)
    /\ SkipsEntry
    /\ main' = [main EXCEPT !.i = @ + 1]
    /\ UNCHANGED <<up, lock, threadArr, worker, netVars>>

\* pthread_join waits until the thread has ended; the lock is held meanwhile.
ScanJoin ==
    /\ main.pc = "scan" /\ main.i \in Indices(threadArr)
    /\ ~SkipsEntry /\ Ended(ScanEntry.thread)
    /\ worker' = [worker EXCEPT ![ScanEntry.thread].pc = "joined"]
    /\ main' = [main EXCEPT !.i = @ + 1, !.removeList = Append(@, main.i)]
    /\ UNCHANGED <<up, lock, threadArr, netVars>>

ScanEnd ==
    /\ main.pc = "scan" /\ main.i \notin Indices(threadArr)
    /\ main' = [main EXCEPT !.pc = "remove", !.i = 0]
    /\ UNCHANGED <<up, lock, threadArr, worker, netVars>>

\* array_remove_list goes through the list from its last, largest index down.
NextRemoval(list) == list[Len(list)]
OtherRemovals(list) == SubSeq(list, 1, Len(list) - 1)

\* Fault: the list is worked off in ascending order.
RemoveAscending ==
    /\ main.pc = "remove" /\ main.removeList # <<>>
    /\ threadArr' = RemoveIndex(threadArr, main.removeList[1])
    /\ worker' = IF main.removeList[1] \in Indices(threadArr)
                 THEN [worker EXCEPT ![ElementAt(threadArr, main.removeList[1]).thread] = NoWorker]
                 ELSE worker
    /\ main' = [main EXCEPT !.removeList = Tail(@)]
    /\ UNCHANGED <<up, lock, netVars>>

RemoveOne ==
    /\ main.pc = "remove" /\ main.removeList # <<>>
    /\ LET i == NextRemoval(main.removeList) IN
        /\ threadArr' = RemoveIndex(threadArr, i)
        /\ worker' = [worker EXCEPT ![ElementAt(threadArr, i).thread] = NoWorker]
    /\ main' = [main EXCEPT !.removeList = OtherRemovals(@)]
    /\ UNCHANGED <<up, lock, netVars>>

SyncEnd ==
    /\ main.pc = "remove" /\ main.removeList = <<>>
    /\ Release
    /\ main' = [main EXCEPT !.pc = "check"]
    /\ UNCHANGED <<up, threadArr, worker, netVars>>

BackToAccept == main' = [main EXCEPT !.pc = "accept", !.conn = None, !.sock = 0, !.num = 0]

\* Fault: the loop waits for a free slot, which only sync_threads can make.
WaitsForSlot == FALSE

\* array_full: the connection is forgotten, its socket stays open.
Drop ==
    /\ main.pc = "check"
    /\ IsFull(threadArr, MaxThreads)
    /\ BackToAccept
    /\ UNCHANGED <<up, lock, threadArr, worker, netVars>>

\* Faults: thread numbers from 1, and the last entry in place of the next.
ThreadNumFromOne == Len(threadArr) + 1
LastThreadNum == Len(threadArr) - 1

\* thread_num = thread_arr.size
NewThreadNum == Len(threadArr)

PrepareArgs ==
    /\ main.pc = "check"
    /\ ~IsFull(threadArr, MaxThreads)
    /\ main' = [main EXCEPT !.pc = "create", !.num = NewThreadNum]
    /\ UNCHANGED <<up, lock, threadArr, worker, netVars>>

\* thread_create under the lock; the new thread may run before it is listed.
CreateThread ==
    /\ main.pc = "create"
    /\ Acquire(Server)
    /\ worker' = [worker EXCEPT ![main.conn] =
                    [pc |-> "call", fd |-> main.sock, num |-> main.num, on |-> None]]
    /\ main' = [main EXCEPT !.pc = "push"]
    /\ UNCHANGED <<up, threadArr, netVars>>

\* Fault: the function returns without unlocking.
CreateFailsLocked ==
    /\ main.pc = "create"
    /\ Acquire(Server)
    /\ BackToAccept
    /\ UNCHANGED <<up, threadArr, worker, netVars>>

\* thread_create fails: lock and unlock, and the socket stays open.
CreateFails ==
    /\ main.pc = "create"
    /\ LockFree
    /\ BackToAccept
    /\ UNCHANGED <<up, lock, threadArr, worker, netVars>>

NewEntry == [thread |-> main.conn, running |-> TRUE]

PushThread ==
    /\ main.pc = "push"
    /\ threadArr' = Push(threadArr, MaxThreads, NewEntry)
    /\ Release
    /\ BackToAccept
    /\ UNCHANGED <<up, worker, netVars>>

ServerNext ==
    \/ Accept \/ Handshake
    \/ SyncBegin \/ ScanSkip \/ ScanJoin \/ ScanEnd \/ RemoveOne \/ SyncEnd
    \/ Drop \/ PrepareArgs \/ CreateThread \/ CreateFails \/ PushThread

-----------------------------------------------------------------------------
(* The connection threads: process_incoming_data                           *)

Goto(w, place) == worker' = [worker EXCEPT ![w].pc = place]
LeaveRequest(w, place) == worker' = [worker EXCEPT ![w].pc = place, ![w].on = None]

\* recv looks its handle up once, when it is called ...
CallRecv(w) ==
    /\ worker[w].pc = "call"
    /\ worker' = [worker EXCEPT ![w].pc = "recv", ![w].on = fdTable[worker[w].fd]]
    /\ UNCHANGED <<up, main, lock, threadArr, netVars>>

\* ... and returns what arrives on the connection it found,
RecvData(w) ==
    /\ worker[w].pc = "recv"
    /\ worker[w].on # None /\ client[worker[w].on].data
    /\ client' = [client EXCEPT ![worker[w].on].data = FALSE]
    /\ Goto(w, "work")
    /\ UNCHANGED <<up, main, lock, threadArr, fdTable, backlog>>

\* or, with nothing left to read, 0 or -1.
RecvEnd(w) ==
    /\ worker[w].pc = "recv"
    /\ AtEnd(worker[w].on)
    /\ worker[w].on # None => ~client[worker[w].on].data
    /\ LeaveRequest(w, "shut")
    /\ UNCHANGED <<up, main, lock, threadArr, netVars>>

\* Fault: the socket is closed when the loop is left, and again at the end.
ProcessClosesTwice(w) ==
    /\ worker[w].pc = "work"
    /\ \E next \in {"call", "shut"} : LeaveRequest(w, next)
    /\ UNCHANGED <<up, main, lock, threadArr, netVars>>

\* http_process_request or websocket_process_data: an answer is sent on the
\* handle, and the connection goes on or is to be closed.
Process(w) ==
    /\ worker[w].pc = "work"
    /\ \E next \in {"call", "finish"} : LeaveRequest(w, next)
    /\ UNCHANGED <<up, main, lock, threadArr, netVars>>

\* Sending to a connection that is reset or shut raises SIGPIPE, which the
\* POSIX build neither ignores nor masks.
BrokenPipe(w) ==
    /\ worker[w].pc = "work" /\ Posix
    /\ LET c == fdTable[worker[w].fd] IN
        c # None /\ (client[c].peer = "rst" \/ client[c].shut)
    /\ up' = FALSE
    /\ UNCHANGED <<main, lock, threadArr, worker, netVars>>

\* socket_close: shutdown, and close only when shutdown succeeded.
Shutdown(w, at, closing, after) ==
    /\ worker[w].pc = at
    /\ LET f == worker[w].fd IN
        \/ /\ ShutdownOk(f)
           /\ client' = [client EXCEPT ![fdTable[f]].shut = TRUE]
           /\ Goto(w, closing)
        \/ /\ ShutdownFails(f)
           /\ UNCHANGED client
           /\ Goto(w, after)
    /\ UNCHANGED <<up, main, lock, threadArr, fdTable, backlog>>

Close(w, at, after) ==
    /\ worker[w].pc = at
    /\ LET f == worker[w].fd IN
        /\ fdTable' = [fdTable EXCEPT ![f] = None]
        /\ client' = IF fdTable[f] = None THEN client
                     ELSE [client EXCEPT ![fdTable[f]] = Gone]
    /\ Goto(w, after)
    /\ UNCHANGED <<up, main, lock, threadArr, backlog>>

\* The first socket_close, after a recv that returned 0 or -1
ShutdownOnEnd(w) == Shutdown(w, "shut", "close", "finish")
CloseOnEnd(w) == Close(w, "close", "finish")

\* The index of the entry that the thread marks as not running
MarkIndex(w) == worker[w].num

\* Fault: the thread takes its entry out of the array itself.
FinishRemovesEntry(w) ==
    /\ worker[w].pc = "finish"
    /\ Acquire(w)
    /\ threadArr' = RemoveIndex(threadArr, MarkIndex(w))
    /\ Goto(w, "shut2")
    /\ UNCHANGED <<up, main, netVars>>

\* Take the lock and mark; an index past the end dereferences NULL, which may
\* end the process or, as array_set checks the index again, do nothing.
Finish(w) ==
    /\ worker[w].pc = "finish"
    /\ Acquire(w)
    /\ IF Posix /\ MarkIndex(w) \in Indices(threadArr)
       THEN threadArr' = [threadArr EXCEPT ![MarkIndex(w) + 1].running = FALSE]
       ELSE UNCHANGED threadArr
    /\ up' \in IF Posix /\ MarkIndex(w) \notin Indices(threadArr) THEN {TRUE, FALSE} ELSE {TRUE}
    /\ Goto(w, "shut2")
    /\ UNCHANGED <<main, netVars>>

\* Fault: shutdown without close.
ShutdownOnly(w) == Shutdown(w, "shut2", "unlock", "unlock")

\* The second socket_close, at the end of every thread
ShutdownAtExit(w) == Shutdown(w, "shut2", "close2", "unlock")
CloseAtExit(w) == Close(w, "close2", "unlock")

Unlock(w) ==
    /\ worker[w].pc = "unlock"
    /\ Release
    /\ Goto(w, "done")
    /\ UNCHANGED <<up, main, threadArr, netVars>>

WorkerNext(w) ==
    \/ CallRecv(w) \/ RecvData(w) \/ RecvEnd(w) \/ Process(w) \/ BrokenPipe(w)
    \/ ShutdownOnEnd(w) \/ CloseOnEnd(w) \/ Finish(w)
    \/ ShutdownAtExit(w) \/ CloseAtExit(w) \/ Unlock(w)

ClientNext(c) == Connect(c) \/ SendRequest(c) \/ HangUp(c)

Next == up /\ (ServerNext \/ \E c \in Conns : WorkerNext(c) \/ ClientNext(c))

Spec == Init /\ [][Next]_vars

\* The operating system schedules every thread that can run; clients need not act.
Fairness == /\ WF_vars(up /\ ServerNext)
            /\ \A w \in Conns : WF_vars(up /\ WorkerNext(w))

FairSpec == Spec /\ Fairness
-----------------------------------------------------------------------------
(* Properties                                                              *)

IndicesIn(list) == {list[k] : k \in 1 .. Len(list)}
EntryOf(w) == {k \in 1 .. Len(threadArr) : threadArr[k].thread = w}

\* Every variable keeps its type; in particular the index handed to a thread
\* is one that array_get accepts when the array is full.
TypeOK ==
    /\ up \in BOOLEAN
    /\ main \in MainState
    /\ lock \in Conns \cup {None, Server}
    /\ threadArr \in Seq(ThreadState)
    /\ worker \in [Conns -> WorkerState]
    /\ fdTable \in [Fds -> Conns \cup {None}]
    /\ client \in [Conns -> ClientState]
    /\ backlog \in Seq(Conns)

\* Every thread that exists has exactly one entry in the array (one is missing
\* only between pthread_create and array_push) and no entry is left behind by a
\* thread that was joined and removed: a lost entry would be a thread that is
\* never joined, a left-over one a second join of the same thread.
EveryThreadListedOnce ==
    \A w \in Conns :
        IF worker[w].pc = "none" \/ (main.pc = "push" /\ main.conn = w)
        THEN EntryOf(w) = {}
        ELSE \E k \in 1 .. Len(threadArr) : EntryOf(w) = {k}

\* While sync_threads runs, its list of indices names exactly the entries of
\* the threads it has joined, although every removal moves the entries to the
\* right of it; outside of sync_threads no joined thread is in the array.
RemoveListIsJoined ==
    \A k \in 1 .. Len(threadArr) :
        worker[threadArr[k].thread].pc = "joined" <=> k - 1 \in IndicesIn(main.removeList)

\* server_run reads the size of the array without the lock and uses it as the
\* index of the new thread later: it is still the size when the entry is
\* pushed ("no mutex needed here since threads don't change array size").
UnlockedSizeStaysTrue ==
    main.pc \in {"create", "push"} => main.num = Len(threadArr)

\* The index a thread was given may go stale, in one direction only: its entry
\* is at that index or to the left of it, never to the right.
StaleIndexIsAhead ==
    \A k \in 1 .. Len(threadArr) : k - 1 <= worker[threadArr[k].thread].num

\* The scan with its removals, the creation of a thread until it is listed, and the end
\* of a thread from its mark to its last socket_close exclude each other, and nobody
\* else holds the lock: it is free again also when a thread could not be created.
LockExcludes ==
    Posix => /\ lock = Server <=> main.pc \in {"scan", "remove", "push"}
             /\ \A w \in Conns : lock = w <=> worker[w].pc \in {"shut2", "close2", "unlock"}

\* The pool promises no more than MaxThreads threads, none created twice for a
\* connection, and slots given back once and only after the thread has ended.
Occupied == {w \in Conns : worker[w].pc # "none"}
EndedThreads == {w \in Conns : worker[w].pc \in {"done", "joined"}}
Slots == INSTANCE ThreadSlots WITH occupied <- Occupied, ended <- EndedThreads
ImplementsSlots == Slots!SlotsSpec

\* The main thread never waits, with the lock held, for a thread that is itself
\* waiting for the lock: sync_threads "cleans up finished threads to free up
\* array so they can be reused" (server_http.c:682), not running ones.
NeverJoinsLockWaiter ==
    ~ /\ Posix /\ main.pc = "scan" /\ main.i \in Indices(threadArr)
      /\ ~SkipsEntry
      /\ worker[ScanEntry.thread].pc = "finish"

\* No two threads read from or work for the same connection ("spawn 1 thread for
\* each connection", korall.c:106).
OneThreadPerConnection ==
    \A v, w \in Conns :
        v # w /\ worker[v].on # None => worker[v].on # worker[w].on

\* When a thread sends an answer, the handle it sends on still stands for the
\* connection that the request was read from.
AnswersItsRequester ==
    \A w \in Conns :
        worker[w].pc = "work" => fdTable[worker[w].fd] = worker[w].on

\* A thread that has gone through its socket_close calls leaves no open handle
\* for the connection it was created for.
EndedThreadLeavesNoHandle ==
    \A w \in Conns : worker[w].pc \in {"unlock", "done", "joined"} => ~HasFd(w)

\* Whatever the clients and the threads do, the main thread comes back to accept.
AcceptLoopReturns == up /\ main.pc # "accept" ~> main.pc = "accept"

\* A connection that waits in the listen queue is accepted, as long as the
\* process does not stay without a free socket handle.
QueuedIsAccepted ==
    []<>(FreeFds # {}) => \A c \in Conns : Queued(c) ~> ~Queued(c)
=============================================================================
