---------------------------- MODULE Library_proofs ----------------------------
(***************************************************************************)
(* Theorems about parts of the library that are explored side by side in   *)
(* MCLibrary: the log, the arena, the array, the calendar, and base64 and  *)
(* SHA-1.                                                                  *)
(***************************************************************************)
EXTENDS MCLibrary, Lemmas

-----------------------------------------------------------------------------
(* The log                                                                 *)

Pieces == [by : Threads, piece : {"stamp", "message"}]

Pcs == Log!LogPcs \cup {"serve", "gmt day", "gmt hour", "format day", "format hour", "sent"}

\* Whose stamp is at the end of the log is about to write the message.
LogInv ==
    /\ pc \in [Threads -> Pcs]
    /\ log \in Seq(Pieces)
    /\ mutex \in Threads \cup {None}
    /\ \A t \in Threads : pc[t] \in Log!LogPcs => mutex = t
    /\ \A k \in 1 .. Len(log) - 1 :
        log[k].piece = "stamp" => log[k + 1] = [by |-> log[k].by, piece |-> "message"]
    /\ log # <<>> /\ log[Len(log)].piece = "stamp" => pc[log[Len(log)].by] = "message"

\* What a log line is, for a log that ends in a piece
LEMMA LastPiece ==
  ASSUME NEW s \in Seq(Pieces), s # <<>>
  PROVE  Len(s) \in Nat \ {0} /\ s[Len(s)] \in Pieces
BY SMT

\* At first nothing is written and nobody holds the mutex.
LEMMA LogStarts == ASSUME Log!Init PROVE LogInv
<1>1. pc = [t \in Threads |-> "serve"] /\ mutex = None /\ log = <<>>
  BY DEF Log!Init
<1>2. "serve" \notin Log!LogPcs /\ "serve" \in Pcs
  BY DEF Log!LogPcs, Pcs
<1>3. log \in Seq(Pieces) /\ Len(log) = 0
  BY <1>1
<1> QED BY <1>1, <1>2, <1>3 DEF LogInv

\* Who is about to write the message holds the mutex.
LEMMA StampHasMutex ==
  ASSUME LogInv, log # <<>>, log[Len(log)].piece = "stamp"
  PROVE  /\ log[Len(log)].by \in Threads
         /\ pc[log[Len(log)].by] = "message"
         /\ mutex = log[Len(log)].by
<1>1. log[Len(log)] \in Pieces
  BY LastPiece DEF LogInv
<1>2. log[Len(log)].by \in Threads
  BY <1>1 DEF Pieces
<1>3. pc[log[Len(log)].by] = "message"
  BY DEF LogInv
<1>4. "message" \in Log!LogPcs
  BY DEF Log!LogPcs
<1> QED BY <1>2, <1>3, <1>4 DEF LogInv

\* A thread that goes on without the log and the mutex, and not from the message
LEMMA MovesOn ==
  ASSUME LogInv, NEW t \in Threads, NEW to \in Pcs, pc[t] # "message",
         pc' = [pc EXCEPT ![t] = to], log' = log, mutex' = mutex,
         to \in Log!LogPcs => pc[t] \in Log!LogPcs
  PROVE  LogInv'
<1>1. pc' \in [Threads -> Pcs]
  BY DEF LogInv
<1>2. \A u \in Threads : pc'[u] \in Log!LogPcs => mutex' = u
  BY DEF LogInv
<1>3. log' # <<>> /\ log'[Len(log')].piece = "stamp" => pc'[log'[Len(log')].by] = "message"
  <2> SUFFICES ASSUME log # <<>>, log[Len(log)].piece = "stamp"
               PROVE  pc'[log[Len(log)].by] = "message"
    OBVIOUS
  <2>1. log[Len(log)].by \in Threads /\ pc[log[Len(log)].by] = "message"
    BY StampHasMutex
  <2> QED BY <2>1 DEF LogInv
<1> QED BY <1>1, <1>2, <1>3, Zenon DEF LogInv, Log!LogPcs

\* A thread writes a piece to the log when no other has begun a line.
LEMMA WritesPiece ==
  ASSUME LogInv, NEW t \in Threads, NEW to \in Log!LogPcs, NEW piece \in {"stamp", "message"},
         pc[t] \in Log!LogPcs, pc' = [pc EXCEPT ![t] = to], mutex' = mutex,
         log' = Append(log, [by |-> t, piece |-> piece]),
         pc[t] = "message" => piece = "message",
         piece = "stamp" => to = "message"
  PROVE  LogInv'
<1> DEFINE n == Len(log)
           new == [by |-> t, piece |-> piece]
<1>1. mutex = t
  BY DEF LogInv
<1>2. to \in Pcs
  BY DEF Pcs
<1>3. pc' \in [Threads -> Pcs] /\ mutex' \in Threads \cup {None}
  BY <1>1, <1>2 DEF LogInv
<1>4. \A u \in Threads : pc'[u] \in Log!LogPcs => mutex' = u
  BY <1>1 DEF LogInv
<1>5. new \in Pieces /\ log \in Seq(Pieces)
  BY DEF LogInv, Pieces
<1>6. new.by = t /\ new.piece = piece
  OBVIOUS
<1> HIDE DEF new
<1>7. /\ log' \in Seq(Pieces) /\ n \in Nat /\ Len(log') = n + 1
      /\ \A k \in 1 .. n : log'[k] = log[k]
      /\ log'[n + 1] = new
  BY <1>5, SMT DEF new
<1>8. ASSUME n # 0, log[n].piece = "stamp" PROVE new = [by |-> log[n].by, piece |-> "message"]
  <2>1. log # <<>>
    BY <1>8, <1>5, SMT
  <2>2. pc[log[n].by] = "message" /\ mutex = log[n].by
    BY <1>8, <2>1, StampHasMutex
  <2>3. piece = "message" /\ log[n].by = t
    BY <1>1, <2>2
  <2> QED BY <2>3 DEF new
<1>9. \A k \in 1 .. Len(log') - 1 :
        log'[k].piece = "stamp" => log'[k + 1] = [by |-> log'[k].by, piece |-> "message"]
  <2> TAKE k \in 1 .. Len(log') - 1
  <2> HAVE log'[k].piece = "stamp"
  <2>1. k \in 1 .. n /\ log'[k] = log[k]
    BY <1>7, SMT
  <2>2. CASE k = n
    BY <1>7, <1>8, <2>1, <2>2, SMT
  <2>3. CASE k # n
    <3>1. k \in 1 .. n - 1 /\ k + 1 \in 1 .. n
      BY <1>7, <2>1, <2>3, SMT
    <3>2. log[k + 1] = [by |-> log[k].by, piece |-> "message"]
      BY <2>1, <3>1, Zenon DEF LogInv
    <3> QED BY <1>7, <2>1, <3>1, <3>2, Zenon
  <2> QED BY <2>2, <2>3
<1>10. log'[Len(log')].piece = "stamp" => pc'[log'[Len(log')].by] = "message"
  <2>1. log'[Len(log')] = new
    BY <1>7
  <2>2. piece = "stamp" => pc'[t] = "message"
    BY DEF LogInv
  <2> QED BY <1>6, <2>1, <2>2
<1> QED BY <1>3, <1>4, <1>7, <1>9, <1>10, Zenon DEF LogInv, Log!LogPcs

\* Every step of the threads and of the clock keeps the invariant.
LEMMA LogStepInv ==
  ASSUME None \notin Threads, LogInv, Log!Next
  PROVE  LogInv'
<1>1. CASE Log!Tick
  BY <1>1, Zenon DEF Log!Tick, LogInv, Log!LogPcs
<1>2. ASSUME NEW t \in Threads, Log!Date(t) PROVE LogInv'
  <2> USE DEF Log!Goto
  <2>1. PICK to \in {"gmt day", "gmt hour", "format day", "format hour", "sent", "serve"} :
          pc' = [pc EXCEPT ![t] = to]
    BY <1>2, Zenon DEF Log!Date, Log!AskTime, Log!GmtDay, Log!GmtHour, Log!FormatDay,
                       Log!FormatHour, Log!Sent, Log!Put, Log!Get
  <2>2. log' = log /\ mutex' = mutex /\ pc[t] # "message"
    BY <1>2 DEF Log!Date, Log!AskTime, Log!GmtDay, Log!GmtHour, Log!FormatDay,
                Log!FormatHour, Log!Sent, Log!Put, Log!Get
  <2>3. to \in Pcs /\ to \notin Log!LogPcs
    BY DEF Pcs, Log!LogPcs
  <2> QED BY <2>1, <2>2, <2>3, MovesOn
<1>3. ASSUME NEW t \in Threads, Log!LogLock(t) PROVE LogInv'
  <2>1. /\ mutex = None /\ mutex' = t /\ log' = log
        /\ \E to \in {"local day", "message"} : pc' = [pc EXCEPT ![t] = to]
    BY <1>3 DEF Log!LogLock, Log!Goto
  <2>2. \A u \in Threads : pc[u] \notin Log!LogPcs
    BY <2>1 DEF LogInv
  <2>3. log # <<>> => log[Len(log)].piece # "stamp"
    BY <2>1, StampHasMutex
  <2>4. pc' \in [Threads -> Pcs]
    BY <2>1 DEF LogInv, Pcs, Log!LogPcs
  <2>5. \A u \in Threads : pc'[u] \in Log!LogPcs => mutex' = u
    BY <2>1, <2>2 DEF LogInv
  <2> QED BY <2>1, <2>3, <2>4, <2>5, Zenon DEF LogInv, Log!LogPcs
<1>4. ASSUME NEW t \in Threads,
             Log!LocalDay(t) \/ Log!LocalHour(t) \/ Log!StampDay(t) \/ Log!StampHour(t)
      PROVE  LogInv'
  <2> USE DEF Log!Goto
  <2>1. PICK to \in {"local hour", "stamp day", "stamp hour", "stamp"} :
          pc' = [pc EXCEPT ![t] = to]
    BY <1>4, Zenon DEF Log!LocalDay, Log!LocalHour, Log!StampDay, Log!StampHour, Log!Put, Log!Get
  <2>2. log' = log /\ mutex' = mutex
    BY <1>4 DEF Log!LocalDay, Log!LocalHour, Log!StampDay, Log!StampHour, Log!Put, Log!Get
  <2>3. pc[t] \in {"local day", "local hour", "stamp day", "stamp hour"}
    BY <1>4, Zenon DEF Log!LocalDay, Log!LocalHour, Log!StampDay, Log!StampHour, Log!Put, Log!Get
  <2>4. to \in Pcs /\ pc[t] \in Log!LogPcs /\ pc[t] # "message"
    BY <2>3, Zenon DEF Pcs, Log!LogPcs
  <2> QED BY <2>1, <2>2, <2>4, MovesOn
<1>5. ASSUME NEW t \in Threads, Log!Stamp(t) PROVE LogInv'
  <2>1. /\ pc[t] = "stamp" /\ pc' = [pc EXCEPT ![t] = "message"] /\ mutex' = mutex
        /\ log' = Append(log, [by |-> t, piece |-> "stamp"])
    BY <1>5 DEF Log!Stamp, Log!Write, Log!Goto
  <2>2. "stamp" \in Log!LogPcs /\ "message" \in Log!LogPcs
    BY DEF Log!LogPcs
  <2> QED BY <2>1, <2>2, WritesPiece
<1>6. ASSUME NEW t \in Threads, Log!Message(t) PROVE LogInv'
  <2>1. /\ pc[t] = "message" /\ pc' = [pc EXCEPT ![t] = "unlock"] /\ mutex' = mutex
        /\ log' = Append(log, [by |-> t, piece |-> "message"])
    BY <1>6 DEF Log!Message, Log!Write, Log!Goto
  <2>2. "unlock" \in Log!LogPcs /\ "message" \in Log!LogPcs
    BY DEF Log!LogPcs
  <2> QED BY <2>1, <2>2, WritesPiece
<1>7. ASSUME NEW t \in Threads, Log!LogUnlock(t) PROVE LogInv'
  <2>1. /\ pc[t] = "unlock" /\ pc' = [pc EXCEPT ![t] = "serve"]
        /\ mutex' = None /\ log' = log
    BY <1>7 DEF Log!LogUnlock, Log!Goto
  <2>2. mutex = t /\ "serve" \notin Log!LogPcs
    BY <2>1 DEF LogInv, Log!LogPcs
  <2>3. log # <<>> => log[Len(log)].piece # "stamp"
    BY <2>1, <2>2, StampHasMutex
  <2>4. pc' \in [Threads -> Pcs]
    BY <2>1 DEF LogInv, Pcs, Log!LogPcs
  <2>5. \A u \in Threads : pc'[u] \notin Log!LogPcs
    BY <2>1, <2>2 DEF LogInv
  <2> QED BY <2>1, <2>3, <2>4, <2>5, Zenon DEF LogInv, Log!LogPcs
<1> QED BY <1>1, <1>2, <1>3, <1>4, <1>5, <1>6, <1>7, Zenon DEF Log!Next, Log!LogMsg

\* The invariant is inductive while the parts take their steps.
LEMMA LogInvHolds == LibrarySpec => []LogInv
<1>1. LibraryInit => LogInv
  BY LogStarts, Zenon DEF LibraryInit
<1>2. LogInv /\ [LibraryNext]_<<vars, arrayVars, arena, digestVars, logVars, part, date>>
        => LogInv'
  <2> SUFFICES ASSUME LogInv,
                      [LibraryNext]_<<vars, arrayVars, arena, digestVars, logVars, part, date>>
               PROVE  LogInv'
    OBVIOUS
  <2>1. CASE LogStep
    BY <2>1, LogStepInv, LibraryAssumption, Zenon DEF LogStep
  <2>2. CASE UNCHANGED logVars
    BY <2>2, Zenon DEF logVars, LogInv, Log!LogPcs
  <2> QED BY <2>1, <2>2, Zenon DEF LibraryNext, ExchangeStep, ArrayStep, ArenaStep, DigestStep
<1> QED BY <1>1, <1>2, PTL DEF LibrarySpec

\* For any number of threads and any log: the message of a line follows its stamp, and
\* it is from the same thread; one thread at most is in log_msg.
THEOREM LogLinesAreWhole == LibrarySpec => []LinesAreWhole
<1>1. LogInv => LinesAreWhole
  BY Zenon DEF LogInv, LinesAreWhole, Log!LinesAreWhole
<1> QED BY <1>1, LogInvHolds, PTL

-----------------------------------------------------------------------------
(* The arena                                                               *)

\* ArenaUse calls the functions of Arena.
LEMMA SameArena ==
  /\ \A n : Arenas!ArenaInit(n) = ArenaInit(n)
  /\ \A a, n : Arenas!ArenaAlloc(a, n) = ArenaAlloc(a, n)
  /\ \A a : Arenas!ArenaClear(a) = ArenaClear(a) /\ Arenas!ArenaFree(a) = ArenaFree(a)
<1>1. ASSUME NEW p PROVE Arenas!AlignForward(p) = AlignForward(p)
  BY Zenon DEF Arenas!AlignForward, Arenas!Alignment, AlignForward, Alignment
<1>2. ASSUME NEW n PROVE Arenas!ArenaInit(n) = ArenaInit(n)
  BY Zenon DEF Arenas!ArenaInit, ArenaInit
<1>3. ASSUME NEW a PROVE Arenas!ArenaClear(a) = ArenaClear(a)
  BY Zenon DEF Arenas!ArenaClear, ArenaClear
<1>4. ASSUME NEW a PROVE Arenas!ArenaFree(a) = ArenaFree(a)
  BY <1>3, Zenon DEF Arenas!ArenaFree, ArenaFree
<1>5. ASSUME NEW a, NEW n PROVE Arenas!ArenaAlloc(a, n) = ArenaAlloc(a, n)
  BY <1>1, AllocWritten, Zenon DEF Arenas!ArenaAlloc
<1> QED BY <1>2, <1>3, <1>4, <1>5, Zenon

\* For arenas and blocks of any size: blocks are aligned, inside the arena and apart,
\* through every sequence of arena_alloc, arena_clear and arena_free.
THEOREM BlocksApart == LibrarySpec => []BlocksStayApart
<1>1. LibraryInit => IsApart(arena)
  <2> SUFFICES ASSUME LibraryInit PROVE IsApart(arena)
    OBVIOUS
  <2>1. arena = ArenaInit(ArenaCapacity)
    BY SameArena, Zenon DEF LibraryInit, Arenas!Init
  <2>2. ArenaCapacity \in Nat
    BY LibraryAssumption
  <2> QED BY <2>1, <2>2, EmptyBlocks DEF ArenaInit, IsApart, ArenaType, BlocksAreApart
<1>2. IsApart(arena)
        /\ [LibraryNext]_<<vars, arrayVars, arena, digestVars, logVars, part, date>>
        => IsApart(arena)'
  <2> SUFFICES ASSUME IsApart(arena),
                      [LibraryNext]_<<vars, arrayVars, arena, digestVars, logVars, part, date>>
               PROVE  IsApart(arena')
    OBVIOUS
  <2>1. CASE Arenas!Next
    <3>1. ASSUME NEW n \in BlockSizes, arena' = ArenaAlloc(arena, n) PROVE IsApart(arena')
      <4>1. n \in Nat
        BY LibraryAssumption
      <4> QED BY <3>1, <4>1, AllocApart, Zenon
    <3>2. \/ \E n \in BlockSizes : arena' = ArenaAlloc(arena, n)
          \/ arena' \in {ArenaClear(arena), ArenaFree(arena)}
      BY <2>1, SameArena, Zenon DEF Arenas!Next, Arenas!Alloc, Arenas!Clear, Arenas!Free
    <3> QED BY <3>1, <3>2, EmptiedApart, Zenon
  <2>2. CASE arena' = arena
    BY <2>2, Zenon
  <2> QED BY <2>1, <2>2, Zenon DEF LibraryNext, ExchangeStep, ArrayStep, ArenaStep,
                                  DigestStep, LogStep
<1>3. IsApart(arena) => BlocksStayApart
  BY Zenon DEF IsApart, BlocksStayApart
<1> QED BY <1>1, <1>2, <1>3, PTL DEF LibrarySpec

-----------------------------------------------------------------------------
(* The array: what array_remove_list leaves                                *)

\* The positions up to p that stay when the elements at the indices of S go, and the
\* position of the k-th of n
Staying(S, p) == {q \in 1 .. p : q - 1 \notin S}
Place(S, n, k) == Min({p \in 1 .. n : Cardinality(Staying(S, p)) = k})

\* ArrayMem calls the operators of the community modules.
LEMMA SameOperators ==
  /\ \A S : Array!Cardinality(S) = Cardinality(S)
  /\ \A S : Array!Min(S) = Min(S)
  /\ \A f : Array!Range(f) = Range(f)
BY Zenon DEF Array!Cardinality, Cardinality, Array!Min, Min, Array!Range, Range

\* The list of those that stay, place by place
LEMMA WithoutWritten ==
  ASSUME NEW l, NEW S
  PROVE  Array!Without(l, S)
           = [k \in 1 .. Cardinality(Staying(S, Len(l))) |-> l[Place(S, Len(l), k)]]
BY SameOperators, Zenon DEF Array!Without, Staying, Place

\* Those that stay are no more than there were.
LEMMA StayingFinite ==
  ASSUME NEW S, NEW p \in Nat
  PROVE  IsFiniteSet(Staying(S, p)) /\ Cardinality(Staying(S, p)) \in Nat /\ Cardinality(Staying(S, p)) <= p
<1>1. IsFiniteSet(1 .. p) /\ Cardinality(1 .. p) = p
  BY FS_Interval
<1>2. Staying(S, p) \subseteq 1 .. p
  BY DEF Staying
<1> QED BY <1>1, <1>2, FS_Subset, FS_CardinalityType

\* As far as no index of S reaches, every position stays.
LEMMA StayingBelow ==
  ASSUME NEW S, NEW p \in Nat, \A q \in 1 .. p : q - 1 \notin S
  PROVE  Staying(S, p) = 1 .. p /\ Cardinality(Staying(S, p)) = p
<1>1. Staying(S, p) = 1 .. p
  BY DEF Staying
<1> QED BY <1>1, FS_Interval

\* Behind the least index of S and i, there is one position less than without i.
LEMMA StayingAbove ==
  ASSUME NEW S \in SUBSET Nat, NEW i \in Nat, \A t \in S : i < t,
         NEW p \in Nat, p > i
  PROVE  /\ Cardinality(Staying(S \cup {i}, p)) = Cardinality(Staying(S, p)) - 1
         /\ Cardinality(Staying(S, p)) > i
<1>1. Staying(S \cup {i}, p) = Staying(S, p) \ {i + 1} /\ i + 1 \in Staying(S, p)
  BY DEF Staying
<1>2. IsFiniteSet(Staying(S, p)) /\ Cardinality(Staying(S, p)) \in Nat
  BY StayingFinite
<1>3. Cardinality(Staying(S \cup {i}, p)) = Cardinality(Staying(S, p)) - 1
  <2> DEFINE T == Staying(S, p)
  <2> HIDE DEF T
  <2>1. Cardinality(T \ {i + 1}) = Cardinality(T) - 1
    BY <1>1, <1>2, FS_RemoveElement DEF T
  <2> QED BY <1>1, <2>1, Zenon DEF T
<1>4. 1 .. i + 1 \subseteq Staying(S, p)
  BY DEF Staying
<1>5. Cardinality(1 .. i + 1) <= Cardinality(Staying(S, p))
  BY <1>2, <1>4, FS_Subset
<1>6. Cardinality(1 .. i + 1) = i + 1
  BY FS_Interval
<1> QED BY <1>2, <1>3, <1>5, <1>6

\* The elements that stay when one more goes, in front of all others that go
LEMMA PlaceFacts ==
  ASSUME NEW S \in SUBSET Nat, NEW i \in Nat, \A t \in S : i < t,
         NEW n \in Nat, NEW k \in Nat \ {0}
  PROVE  /\ k <= i /\ k <= n => Place(S \cup {i}, n, k) = k /\ Place(S, n, k) = k
         /\ k > i => Place(S \cup {i}, n, k) = Place(S, n, k + 1)
<1> DEFINE T == S \cup {i}
           At(U, c) == {p \in 1 .. n : Cardinality(Staying(U, p)) = c}
<1>1. \A p \in 0 .. i : Cardinality(Staying(S, p)) = p /\ Cardinality(Staying(T, p)) = p
  <2> TAKE p \in 0 .. i
  <2>1. p \in Nat /\ \A q \in 1 .. p : q - 1 \notin S /\ q - 1 \notin T
    OBVIOUS
  <2> HIDE DEF T
  <2> QED BY <2>1, StayingBelow
<1>2. \A p \in 1 .. n : p > i => /\ Cardinality(Staying(T, p)) = Cardinality(Staying(S, p)) - 1
                                 /\ Cardinality(Staying(S, p)) > i
                                 /\ Cardinality(Staying(S, p)) \in Nat
  <2> TAKE p \in 1 .. n
  <2> HAVE p > i
  <2>1. p \in Nat
    OBVIOUS
  <2>2. Cardinality(Staying(T, p)) = Cardinality(Staying(S, p)) - 1 /\ Cardinality(Staying(S, p)) > i
    BY <2>1, StayingAbove
  <2>3. Cardinality(Staying(S, p)) \in Nat
    BY <2>1, StayingFinite
  <2> HIDE DEF T
  <2> QED BY <2>2, <2>3
<1> HIDE DEF T
<1>3. ASSUME k <= i, k <= n PROVE Min(At(T, k)) = k /\ Min(At(S, k)) = k
  <2>1. k \in At(T, k) /\ k \in At(S, k)
    BY <1>1, <1>3
  <2>2. \A p \in 1 .. n : p < k => p \notin At(T, k) /\ p \notin At(S, k)
    BY <1>1, <1>3
  <2>3. \A U : At(U, k) \in SUBSET Int /\ At(U, k) \subseteq 1 .. n
    OBVIOUS
  <2> HIDE DEF At
  <2>4. (\A p \in At(T, k) : k <= p) /\ (\A p \in At(S, k) : k <= p)
    BY <2>2, <2>3
  <2> QED BY <2>1, <2>3, <2>4, LeastOf
<1>4. ASSUME k > i PROVE At(T, k) = At(S, k + 1)
  <2>1. ASSUME NEW p \in 1 .. n
        PROVE  Cardinality(Staying(T, p)) = k <=> Cardinality(Staying(S, p)) = k + 1
    <3>1. CASE p <= i
      BY <1>1, <1>4, <3>1
    <3>2. CASE p > i
      BY <1>2, <1>4, <3>2
    <3> QED BY <3>1, <3>2
  <2> QED BY <2>1
<1> QED BY <1>3, <1>4, Zenon DEF T, Place

\* Nothing goes.
LEMMA WithoutNone ==
  ASSUME NEW X, NEW l \in Seq(X)
  PROVE  Array!Without(l, {}) = l
<1> DEFINE n == Len(l)
<1>1. n \in Nat /\ Cardinality(Staying({}, n)) = n
  BY StayingBelow
<1>2. ASSUME NEW k \in 1 .. n PROVE Place({}, n, k) = k
  <2> DEFINE At == {p \in 1 .. n : Cardinality(Staying({}, p)) = k}
  <2>1. \A p \in 1 .. n : Cardinality(Staying({}, p)) = p
    BY StayingBelow
  <2>2. At = {k}
    BY <2>1, <1>2
  <2>3. Min(At) = k
    <3>1. At \in SUBSET Int /\ k \in At /\ \A p \in At : k <= p
      BY <2>2
    <3> HIDE DEF At
    <3> QED BY <3>1, LeastOf
  <2> QED BY <2>3, Zenon DEF Place
<1>3. Array!Without(l, {}) = [k \in 1 .. n |-> l[Place({}, n, k)]]
  BY <1>1, WithoutWritten, Zenon
<1>4. Array!Without(l, {}) = [k \in 1 .. n |-> l[k]]
  BY <1>2, <1>3, Zenon
<1>5. l = [k \in 1 .. n |-> l[k]]
  OBVIOUS
<1> QED BY <1>4, <1>5, Zenon

\* Without one more element, in front of all others that go: array_remove takes it
\* from what they leave.
LEMMA WithoutOneMore ==
  ASSUME NEW X, NEW l \in Seq(X), NEW S \in SUBSET Nat, NEW i \in Nat, \A t \in S : i < t
  PROVE  Array!Without(l, S \cup {i}) = Array!RemoveIndex(Array!Without(l, S), i)
<1> DEFINE n == Len(l)
           T == S \cup {i}
           N == Cardinality(Staying(S, n))
           M == Cardinality(Staying(T, n))
           W == Array!Without(l, S)
           V == Array!Without(l, T)
<1>1. n \in Nat /\ N \in Nat /\ N <= n
  BY StayingFinite
<1>2. W = [k \in 1 .. N |-> l[Place(S, n, k)]] /\ V = [k \in 1 .. M |-> l[Place(T, n, k)]]
  BY WithoutWritten, Zenon
<1>3. \A k \in Nat \ {0} : /\ k <= i /\ k <= n => Place(T, n, k) = k /\ Place(S, n, k) = k
                           /\ k > i => Place(T, n, k) = Place(S, n, k + 1)
  BY <1>1, PlaceFacts
<1>4. i < n => M = N - 1 /\ N > i
  BY <1>1, StayingAbove
<1>5. i >= n => M = N /\ N = n
  <2> HAVE i >= n
  <2>1. \A q \in 1 .. n : q - 1 \notin S /\ q - 1 \notin T
    BY <1>1
  <2> HIDE DEF n, T
  <2>2. Cardinality(Staying(S, n)) = n /\ Cardinality(Staying(T, n)) = n
    BY <1>1, <2>1, StayingBelow, Zenon
  <2> QED BY <2>2
<1> HIDE DEF T, N, M, W, V, n
<1>6. Len(W) = N
  <2> DEFINE Y == {l[Place(S, n, k)] : k \in 1 .. N}
  <2>0. N \in Nat /\ W \in [1 .. N -> Y]
    BY <1>1, <1>2
  <2>1. W \in Seq(Y) /\ DOMAIN W = 1 .. N
    <3> HIDE DEF Y
    <3> QED BY <2>0
  <2> QED BY <1>1, <2>1
<1>7. CASE i < n
  <2>1. Array!RemoveIndex(W, i) = [k \in 1 .. N - 1 |-> IF k <= i THEN W[k] ELSE W[k + 1]]
    <3>1. i \in Array!Indices(W)
      BY <1>1, <1>4, <1>6, <1>7 DEF Array!Indices
    <3> QED BY <1>6, <3>1 DEF Array!RemoveIndex
  <2>2. ASSUME NEW k \in 1 .. N - 1
        PROVE  l[Place(T, n, k)] = IF k <= i THEN W[k] ELSE W[k + 1]
    <3>1. k \in Nat \ {0} /\ k \in 1 .. N /\ k + 1 \in 1 .. N /\ k <= n
      BY <1>1, <2>2
    <3>2. W[k] = l[Place(S, n, k)] /\ W[k + 1] = l[Place(S, n, k + 1)]
      BY <1>2, <3>1
    <3>3. CASE k <= i
      BY <1>3, <3>1, <3>2, <3>3
    <3>4. CASE k > i
      BY <1>3, <3>1, <3>2, <3>4
    <3> QED BY <3>1, <3>3, <3>4
  <2>3. V = [k \in 1 .. N - 1 |-> l[Place(T, n, k)]]
    BY <1>2, <1>4, <1>7
  <2>4. V = [k \in 1 .. N - 1 |-> IF k <= i THEN W[k] ELSE W[k + 1]]
    BY <2>2, <2>3
  <2>5. V = Array!RemoveIndex(W, i)
    BY <2>1, <2>4, Zenon
  <2> QED BY <2>5 DEF V, W, T
<1>8. CASE i >= n
  <2>1. i \notin Array!Indices(W)
    BY <1>1, <1>5, <1>6, <1>8 DEF Array!Indices
  <2>2. Array!RemoveIndex(W, i) = W
    BY <2>1 DEF Array!RemoveIndex
  <2>3. \A k \in 1 .. N : Place(T, n, k) = Place(S, n, k)
    <3> TAKE k \in 1 .. N
    <3>1. k \in Nat \ {0} /\ k <= i /\ k <= n
      BY <1>1, <1>5, <1>8
    <3> QED BY <1>3, <3>1
  <2>4. V = W
    BY <1>2, <1>5, <1>8, <2>3
  <2>5. V = Array!RemoveIndex(W, i)
    BY <2>2, <2>4, Zenon
  <2> QED BY <2>5 DEF V, W, T
<1>9. n \in Nat /\ i \in Nat
  BY <1>1
<1> QED BY <1>7, <1>8, <1>9

-----------------------------------------------------------------------------
(* The array: the bytes of its elements                                    *)

Bytes == Nat \cup {Junk}
Mems == [data : [Array!Offsets -> Bytes], size : 0 .. Capacity]

\* The elements of a memory, and what is left behind the last
Item(d, i) == [b \in 1 .. ElementSize |-> d[Array!OffsetOf(i) + b - 1]]
IsWiped(d, size) == \A a \in Array!Offsets : a >= Array!OffsetOf(size) => d[a] \in {0, Junk}

\* The memory holds the list.
Holds(m, l) ==
    /\ m \in Mems
    /\ l = [k \in 1 .. m.size |-> Item(m.data, k - 1)]
    /\ IsWiped(m.data, m.size)

\* Elements lie one behind the other.
LEMMA OffsetFacts ==
  ASSUME NEW i \in Nat, NEW j \in Nat
  PROVE  /\ Array!OffsetOf(i) \in Nat
         /\ Array!OffsetOf(0) = 0
         /\ Array!OffsetOf(i + 1) = Array!OffsetOf(i) + ElementSize
         /\ j <= i => Array!OffsetOf(i - j) = Array!OffsetOf(i) - Array!OffsetOf(j)
         /\ i < j => Array!OffsetOf(i) + ElementSize <= Array!OffsetOf(j)
         /\ i <= j => Array!OffsetOf(i) <= Array!OffsetOf(j)
<1>1. ElementSize \in Nat
  BY LibraryAssumption
<1>2. \A x, y \in Nat : x <= y => x * ElementSize <= y * ElementSize
  <2> TAKE x, y \in Nat
  <2> HAVE x <= y
  <2>1. PICK d \in Nat : y = x + d
    <3>1. y - x \in Nat /\ y = x + (y - x)
      OBVIOUS
    <3> QED BY <3>1
  <2>2. y * ElementSize = x * ElementSize + d * ElementSize
    BY <1>1, <2>1
  <2>3. d * ElementSize \in Nat /\ x * ElementSize \in Nat
    BY <1>1
  <2> QED BY <2>2, <2>3
<1>3. (i + 1) * ElementSize = i * ElementSize + ElementSize
  BY <1>1
<1>4. i < j => (i + 1) * ElementSize <= j * ElementSize
  BY <1>2
<1>5. j <= i => (i - j) * ElementSize = i * ElementSize - j * ElementSize
  BY <1>1
<1>6. i * ElementSize \in Nat /\ 0 * ElementSize = 0
  BY <1>1
<1> QED BY <1>2, <1>3, <1>4, <1>5, <1>6 DEF Array!OffsetOf

\* Where the bytes of an element are
LEMMA ItemPlaces ==
  ASSUME NEW n \in 0 .. Capacity, NEW i \in Nat, i < n, NEW b \in 1 .. ElementSize
  PROVE  /\ Array!OffsetOf(i) + b - 1 \in Array!Offsets
         /\ Array!OffsetOf(i) + b - 1 \in Nat
         /\ Array!OffsetOf(i) <= Array!OffsetOf(i) + b - 1
         /\ Array!OffsetOf(i) + b - 1 < Array!OffsetOf(i) + ElementSize
         /\ Array!OffsetOf(i) + ElementSize <= Array!OffsetOf(n)
<1>1. ElementSize \in Nat /\ Capacity \in Nat /\ n \in Nat
  BY LibraryAssumption
<1>2. /\ Array!OffsetOf(i) \in Nat /\ Array!OffsetOf(n) \in Nat /\ Array!OffsetOf(Capacity) \in Nat
      /\ Array!OffsetOf(i) + ElementSize <= Array!OffsetOf(n)
      /\ Array!OffsetOf(n) <= Array!OffsetOf(Capacity)
  <2>1. n <= Capacity
    OBVIOUS
  <2>2. Array!OffsetOf(n) \in Nat /\ Array!OffsetOf(n) <= Array!OffsetOf(Capacity)
    BY <1>1, <2>1, OffsetFacts
  <2>3. Array!OffsetOf(i) \in Nat /\ Array!OffsetOf(i) + ElementSize <= Array!OffsetOf(n)
    BY <1>1, OffsetFacts
  <2>4. Array!OffsetOf(Capacity) \in Nat
    BY <1>1, OffsetFacts
  <2> QED BY <2>2, <2>3, <2>4
<1>3. Array!Offsets = 0 .. Array!OffsetOf(Capacity) - 1
  BY Zenon DEF Array!Offsets, Array!OffsetOf
<1> QED BY <1>1, <1>2, <1>3

\* The list that a memory holds
LEMMA HeldList ==
  ASSUME NEW m, NEW l, Holds(m, l)
  PROVE  /\ m.size \in Nat /\ m.size <= Capacity /\ m.data \in [Array!Offsets -> Bytes]
         /\ m = [data |-> m.data, size |-> m.size]
         /\ Len(l) = m.size /\ DOMAIN l = 1 .. m.size
         /\ \A k \in 1 .. m.size : l[k] = Item(m.data, k - 1)
         /\ l \in Seq([1 .. ElementSize -> Bytes])
<1>1. /\ m.size \in Nat /\ m.size <= Capacity /\ m.data \in [Array!Offsets -> Bytes]
      /\ m = [data |-> m.data, size |-> m.size] /\ m.size \in 0 .. Capacity
  BY LibraryAssumption DEF Holds, Mems
<1>2. ASSUME NEW k \in 1 .. m.size PROVE Item(m.data, k - 1) \in [1 .. ElementSize -> Bytes]
  <2>1. k - 1 \in Nat /\ k - 1 < m.size
    BY <1>1
  <2>2. \A b \in 1 .. ElementSize : Array!OffsetOf(k - 1) + b - 1 \in Array!Offsets
    BY <1>1, <2>1, ItemPlaces
  <2> QED BY <1>1, <2>2 DEF Item
<1>3. l = [k \in 1 .. m.size |-> Item(m.data, k - 1)]
  BY Zenon DEF Holds
<1>4. l \in Seq([1 .. ElementSize -> Bytes]) /\ DOMAIN l = 1 .. m.size
  BY <1>1, <1>2, <1>3
<1>5. Len(l) = m.size
  BY <1>1, <1>4
<1> QED BY <1>1, <1>3, <1>4, <1>5

\* What a memory holds whose elements are those of the list
LEMMA HoldsAll ==
  ASSUME NEW d \in [Array!Offsets -> Bytes], NEW n \in 0 .. Capacity, NEW l,
         l = [k \in 1 .. n |-> l[k]],
         \A k \in 1 .. n : l[k] = Item(d, k - 1),
         IsWiped(d, n)
  PROVE  Holds([data |-> d, size |-> n], l)
<1> DEFINE m == [data |-> d, size |-> n]
<1>1. m \in Mems /\ m.data = d /\ m.size = n
  BY DEF Mems
<1>2. l = [k \in 1 .. n |-> Item(d, k - 1)]
  OBVIOUS
<1> HIDE DEF m
<1>3. Holds(m, l)
  BY <1>1, <1>2, Zenon DEF Holds
<1> QED BY <1>3 DEF m

\* array_pop
LEMMA PopHolds ==
  ASSUME NEW m, NEW l, Holds(m, l)
  PROVE  Holds(Array!PopMem(m), Array!Pop(l))
<1> DEFINE n == m.size
           d == m.data
           z == Array!Memzero(d, Array!OffsetOf(n - 1), ElementSize)
<1>1. /\ n \in Nat /\ n <= Capacity /\ d \in [Array!Offsets -> Bytes]
      /\ Len(l) = n /\ \A k \in 1 .. n : l[k] = Item(d, k - 1)
      /\ l \in Seq([1 .. ElementSize -> Bytes])
  BY HeldList
<1>2. CASE n = 0
  <2>1. l = <<>>
    BY <1>1, <1>2
  <2> QED BY <1>2, <2>1 DEF Array!PopMem, Array!Pop
<1>3. CASE n # 0
  <2>1. n - 1 \in Nat /\ n - 1 \in 0 .. Capacity /\ n \in 0 .. Capacity
    BY <1>1, <1>3, LibraryAssumption
  <2>2. Array!Pop(l) = [k \in 1 .. n - 1 |-> l[k]]
    <3>1. l # <<>>
      BY <1>1, <1>3
    <3> QED BY <1>1, <2>1, <3>1 DEF Array!Pop
  <2>3. z \in [Array!Offsets -> Bytes]
    BY <1>1 DEF Array!Memzero, Bytes
  <2>4. ASSUME NEW k \in 1 .. n - 1 PROVE l[k] = Item(z, k - 1)
    <3>1. k - 1 \in Nat /\ k - 1 < n - 1 /\ k \in 1 .. n
      BY <2>1
    <3>2. ASSUME NEW b \in 1 .. ElementSize
          PROVE  z[Array!OffsetOf(k - 1) + b - 1] = d[Array!OffsetOf(k - 1) + b - 1]
      <4> DEFINE a == Array!OffsetOf(k - 1) + b - 1
      <4>1. a \in Array!Offsets /\ a \in Nat /\ a < Array!OffsetOf(n - 1)
        <5>1. /\ a \in Array!Offsets /\ a \in Nat
              /\ a < Array!OffsetOf(k - 1) + ElementSize
              /\ Array!OffsetOf(k - 1) + ElementSize <= Array!OffsetOf(n - 1)
          BY <2>1, <3>1, <3>2, ItemPlaces
        <5>2. Array!OffsetOf(k - 1) \in Nat /\ Array!OffsetOf(n - 1) \in Nat
          BY <2>1, <3>1, OffsetFacts
        <5> HIDE DEF a
        <5> QED BY <5>1, <5>2, LibraryAssumption
      <4>2. Array!OffsetOf(n - 1) \in Nat
        BY <2>1, OffsetFacts
      <4> HIDE DEF a
      <4> QED BY <4>1, <4>2, LibraryAssumption DEF Array!Memzero, a
    <3>3. Item(z, k - 1) = Item(d, k - 1)
      BY <3>2, Zenon DEF Item
    <3> QED BY <1>1, <3>1, <3>3
  <2>5. IsWiped(z, n - 1)
    <3> SUFFICES ASSUME NEW a \in Array!Offsets, a >= Array!OffsetOf(n - 1)
                 PROVE  z[a] \in {0, Junk}
      BY DEF IsWiped
    <3>1. Array!OffsetOf(n) = Array!OffsetOf(n - 1) + ElementSize /\ Array!OffsetOf(n - 1) \in Nat
      <4>1. n = (n - 1) + 1
        BY <1>1
      <4> QED BY <2>1, <4>1, OffsetFacts
    <3>2. a \in Nat /\ ElementSize \in Nat
      BY LibraryAssumption DEF Array!Offsets
    <3>3. a >= Array!OffsetOf(n) => d[a] \in {0, Junk}
      BY DEF Holds, IsWiped
    <3> QED BY <3>1, <3>2, <3>3 DEF Array!Memzero
  <2> DEFINE p == Array!Pop(l)
  <2>6. p = [k \in 1 .. n - 1 |-> p[k]] /\ \A k \in 1 .. n - 1 : p[k] = Item(z, k - 1)
    BY <2>2, <2>4
  <2>7. Array!PopMem(m) = [data |-> z, size |-> n - 1]
    BY <1>3 DEF Array!PopMem
  <2> HIDE DEF p, z, n
  <2>8. Holds([data |-> z, size |-> n - 1], p)
    BY <2>1, <2>3, <2>5, <2>6, HoldsAll
  <2> QED BY <2>7, <2>8 DEF p
<1> QED BY <1>2, <1>3

\* array_remove, before the last element is wiped: the bytes behind element i have moved.
LEMMA MovedHolds ==
  ASSUME NEW m, NEW l, Holds(m, l), NEW i \in Nat, i < m.size - 1
  PROVE  LET mv == Array!Memmove(m.data, Array!OffsetOf(i), Array!OffsetOf(i + 1),
                                 Array!OffsetOf(m.size - i - 1))
             mid == [k \in 1 .. m.size |-> IF k <= i \/ k = m.size THEN l[k] ELSE l[k + 1]]
         IN  Holds([data |-> mv, size |-> m.size], mid)
<1> DEFINE n == m.size
           d == m.data
           to == Array!OffsetOf(i)
           from == Array!OffsetOf(i + 1)
           count == Array!OffsetOf(n - i - 1)
           last == Array!OffsetOf(n - 1)
           mv == Array!Memmove(d, to, from, count)
           mid == [k \in 1 .. n |-> IF k <= i \/ k = n THEN l[k] ELSE l[k + 1]]
<1>1. /\ n \in Nat /\ n <= Capacity /\ d \in [Array!Offsets -> Bytes]
      /\ Len(l) = n /\ \A k \in 1 .. n : l[k] = Item(d, k - 1)
  BY HeldList
<1>2. ElementSize \in Nat /\ Capacity \in Nat /\ n \in 0 .. Capacity /\ n - 1 \in Nat
  BY <1>1, LibraryAssumption
<1>3. to \in Nat /\ from = to + ElementSize
  BY OffsetFacts
<1>4. last \in Nat /\ Array!OffsetOf(n) = last + ElementSize
  <2>1. n = (n - 1) + 1
    BY <1>1
  <2> QED BY <1>2, <2>1, OffsetFacts
<1>5. to + count = last
  <2>1. n - i - 1 = (n - 1) - i /\ i <= n - 1
    BY <1>1
  <2>2. Array!OffsetOf((n - 1) - i) = last - to
    BY <1>2, <2>1, OffsetFacts
  <2>3. count = last - to
    BY <2>1, <2>2
  <2> HIDE DEF count, last, to
  <2> QED BY <1>3, <1>4, <2>3
<1>6. Array!OffsetOf(n) <= Array!OffsetOf(Capacity) /\ Array!OffsetOf(Capacity) \in Nat
  <2>1. n <= Capacity
    BY <1>1
  <2> QED BY <1>1, <1>2, <2>1, OffsetFacts
<1>7. Array!Offsets = 0 .. Array!OffsetOf(Capacity) - 1
  BY Zenon DEF Array!Offsets, Array!OffsetOf
<1>8. count \in Nat
  <2>1. n - i - 1 \in Nat
    BY <1>1
  <2> QED BY <2>1, OffsetFacts
<1> HIDE DEF to, from, count, last
<1>9. ASSUME NEW a \in Array!Offsets
      PROVE  mv[a] = IF to <= a /\ a < last THEN d[a + ElementSize] ELSE d[a]
  <2>1. a \in Nat
    BY <1>6, <1>7
  <2>2. a \in to .. to + count - 1 <=> to <= a /\ a < last
    BY <1>3, <1>4, <1>5, <1>8, <2>1
  <2>3. from + a - to = a + ElementSize
    BY <1>2, <1>3, <2>1
  <2> QED BY <2>2, <2>3 DEF Array!Memmove
<1>10. mv \in [Array!Offsets -> Bytes]
  <2>1. ASSUME NEW a \in Array!Offsets PROVE mv[a] \in Bytes
    <3>1. CASE to <= a /\ a < last
      <4>1. a + ElementSize \in Array!Offsets
        BY <1>2, <1>4, <1>6, <1>7, <3>1
      <4> QED BY <1>1, <1>9, <3>1, <4>1
    <3>2. CASE ~(to <= a /\ a < last)
      BY <1>1, <1>9, <3>2
    <3> QED BY <3>1, <3>2
  <2>2. mv = [a \in Array!Offsets |-> mv[a]]
    BY DEF Array!Memmove
  <2> HIDE DEF mv
  <2> QED BY <2>1, <2>2
<1>11. ASSUME NEW k \in 1 .. n PROVE mid[k] = Item(mv, k - 1)
  <2> DEFINE j == k - 1
             at == Array!OffsetOf(j)
  <2>1. j \in Nat /\ j < n
    BY <1>1
  <2>2. at \in Nat /\ Array!OffsetOf(j + 1) = at + ElementSize
    BY <2>1, OffsetFacts
  <2>3. ASSUME NEW b \in 1 .. ElementSize
        PROVE  /\ at + b - 1 \in Array!Offsets
               /\ at + b - 1 \in Nat /\ at <= at + b - 1 /\ at + b - 1 < at + ElementSize
    BY <1>2, <2>1, <2>3, ItemPlaces
  <2>4. CASE j < i \/ j = n - 1
    <3>1. ASSUME NEW b \in 1 .. ElementSize PROVE mv[at + b - 1] = d[at + b - 1]
      <4>1. j < i => at + ElementSize <= to
        BY <2>1, OffsetFacts DEF to
      <4>2. j = n - 1 => at = last
        BY DEF last
      <4> HIDE DEF at, j, mv
      <4>3. ~(to <= at + b - 1 /\ at + b - 1 < last)
        BY <1>2, <1>3, <1>4, <2>2, <2>3, <2>4, <4>1, <4>2
      <4> QED BY <1>9, <2>3, <4>3
    <3>2. Item(mv, j) = Item(d, j)
      BY <3>1, Zenon DEF Item
    <3>3. mid[k] = l[k]
      BY <1>1, <2>4
    <3> QED BY <1>1, <3>2, <3>3
  <2>5. CASE ~(j < i \/ j = n - 1)
    <3>1. k + 1 \in 1 .. n /\ mid[k] = l[k + 1] /\ (k + 1) - 1 = j + 1
      BY <1>1, <2>5
    <3>2. ASSUME NEW b \in 1 .. ElementSize
          PROVE  mv[at + b - 1] = d[Array!OffsetOf(j + 1) + b - 1]
      <4>1. to <= at
        <5>1. i <= j
          BY <2>1, <2>5
        <5> QED BY <2>1, <5>1, OffsetFacts DEF to
      <4>2. at + ElementSize <= last
        <5>1. j < n - 1
          BY <1>1, <2>1, <2>5
        <5> QED BY <1>2, <2>1, <5>1, OffsetFacts DEF last
      <4>3. Array!OffsetOf(j + 1) + b - 1 = (at + b - 1) + ElementSize
        BY <1>2, <2>2
      <4> HIDE DEF at, j, mv
      <4>4. to <= at + b - 1 /\ at + b - 1 < last
        BY <1>2, <1>3, <1>4, <2>2, <2>3, <4>1, <4>2
      <4> QED BY <1>9, <2>3, <4>3, <4>4
    <3>3. Item(mv, j) = Item(d, j + 1)
      BY <3>2, Zenon DEF Item
    <3> QED BY <1>1, <3>1, <3>3
  <2> QED BY <2>4, <2>5
<1>12. IsWiped(mv, n)
  <2> SUFFICES ASSUME NEW a \in Array!Offsets, a >= Array!OffsetOf(n)
               PROVE  mv[a] \in {0, Junk}
    BY DEF IsWiped
  <2>1. ~(a < last)
    BY <1>2, <1>4, <1>6, <1>7
  <2>2. d[a] \in {0, Junk}
    BY DEF Holds, IsWiped
  <2> HIDE DEF mv
  <2> QED BY <1>9, <2>1, <2>2
<1>13. mid = [k \in 1 .. n |-> mid[k]]
  OBVIOUS
<1> HIDE DEF mid, mv, n
<1>14. Holds([data |-> mv, size |-> n], mid)
  BY <1>2, <1>10, <1>11, <1>12, <1>13, HoldsAll
<1> QED BY <1>14, Zenon DEF mid, mv, n, d, to, from, count

\* array_remove
LEMMA RemoveHolds ==
  ASSUME NEW m, NEW l, Holds(m, l), NEW i \in Nat
  PROVE  Holds(Array!RemoveMem(m, i), Array!RemoveIndex(l, i))
<1> DEFINE n == m.size
<1>1. /\ n \in Nat /\ m = [data |-> m.data, size |-> n]
      /\ Len(l) = n /\ DOMAIN l = 1 .. n /\ l \in Seq([1 .. ElementSize -> Bytes])
  BY HeldList
<1>2. CASE i >= n
  <2>1. i \notin Array!Indices(l)
    BY <1>1, <1>2 DEF Array!Indices
  <2> QED BY <1>2, <2>1 DEF Array!RemoveMem, Array!RemoveIndex
<1>3. i < n => i \in Array!Indices(l)
  BY <1>1 DEF Array!Indices
<1>4. i < n => Array!RemoveIndex(l, i)
                 = [k \in 1 .. n - 1 |-> IF k <= i THEN l[k] ELSE l[k + 1]]
  BY <1>1, <1>3 DEF Array!RemoveIndex
<1>5. CASE i < n /\ i = n - 1
  <2>1. Array!RemoveMem(m, i) = Array!PopMem(m)
    BY <1>1, <1>5 DEF Array!RemoveMem
  <2>2. Array!Pop(l) = [k \in 1 .. n - 1 |-> l[k]]
    <3>1. l # <<>> /\ n - 1 \in Nat
      BY <1>1, <1>5
    <3> QED BY <1>1, <3>1 DEF Array!Pop
  <2>3. \A k \in 1 .. n - 1 : k <= i
    BY <1>1, <1>5
  <2>4. [k \in 1 .. n - 1 |-> IF k <= i THEN l[k] ELSE l[k + 1]] = [k \in 1 .. n - 1 |-> l[k]]
    BY <2>3, Zenon
  <2>5. Array!RemoveIndex(l, i) = Array!Pop(l)
    BY <1>4, <1>5, <2>2, <2>4, Zenon
  <2> QED BY <2>1, <2>5, PopHolds
<1>6. CASE i < n - 1
  <2> DEFINE mv == Array!Memmove(m.data, Array!OffsetOf(i), Array!OffsetOf(i + 1),
                                 Array!OffsetOf(n - i - 1))
             mid == [k \in 1 .. n |-> IF k <= i \/ k = n THEN l[k] ELSE l[k + 1]]
             moved == [data |-> mv, size |-> n]
  <2>1. Holds(moved, mid)
    BY <1>6, MovedHolds
  <2> HIDE DEF mv
  <2>2. Array!RemoveMem(m, i) = Array!PopMem(moved)
    <3>1. ~(i >= n) /\ i # n - 1
      BY <1>1, <1>6
    <3>2. Array!RemoveMem(m, i) = Array!PopMem([m EXCEPT !.data = mv])
      BY <3>1, Zenon DEF Array!RemoveMem, mv
    <3>3. [m EXCEPT !.data = mv] = moved
      BY <1>1
    <3> QED BY <3>2, <3>3
  <2>3. Array!Pop(mid) = [k \in 1 .. n - 1 |-> mid[k]]
    <3>1. Len(mid) = n /\ mid \in Seq({mid[k] : k \in 1 .. n}) /\ n - 1 \in Nat /\ mid # <<>>
      <4> DEFINE Y == {mid[k] : k \in 1 .. n}
      <4>1. mid = [k \in 1 .. n |-> mid[k]] /\ DOMAIN mid = 1 .. n
        OBVIOUS
      <4> HIDE DEF mid
      <4>2. mid \in Seq(Y)
        <5>1. mid \in [1 .. n -> Y]
          BY <4>1, Zenon
        <5> HIDE DEF Y, n
        <5> QED BY <1>1, <5>1, SMT
      <4> HIDE DEF Y
      <4>3. Len(mid) = n
        BY <1>1, <4>1, <4>2
      <4> QED BY <1>1, <1>6, <4>2, <4>3 DEF Y
    <3> HIDE DEF mid
    <3> QED BY <1>1, <3>1 DEF Array!Pop
  <2>4. Array!RemoveIndex(l, i) = Array!Pop(mid)
    <3>1. i < n
      BY <1>1, <1>6
    <3>2. \A k \in 1 .. n - 1 : mid[k] = IF k <= i THEN l[k] ELSE l[k + 1]
      BY <1>1
    <3> HIDE DEF mid
    <3> QED BY <1>4, <2>3, <3>1, <3>2
  <2> HIDE DEF mid, moved
  <2> QED BY <2>1, <2>2, <2>4, PopHolds
<1> QED BY <1>1, <1>2, <1>5, <1>6

\* memcpy of one element writes its bytes and no others.
LEMMA CopyFacts ==
  ASSUME NEW d \in [Array!Offsets -> Bytes], NEW i \in 0 .. Capacity - 1,
         NEW e \in [1 .. ElementSize -> Nat]
  PROVE  LET c == Array!Memcpy(d, Array!OffsetOf(i), e)
         IN  /\ c \in [Array!Offsets -> Bytes]
             /\ Item(c, i) = e
             /\ \A j \in 0 .. Capacity - 1 : j # i => Item(c, j) = Item(d, j)
             /\ \A a \in Array!Offsets : a >= Array!OffsetOf(i + 1) => c[a] = d[a]
<1> DEFINE at == Array!OffsetOf(i)
           c == Array!Memcpy(d, at, e)
<1>1. /\ ElementSize \in Nat /\ Capacity \in Nat /\ i \in Nat
      /\ at \in Nat /\ Array!OffsetOf(i + 1) = at + ElementSize
  <2>1. ElementSize \in Nat /\ Capacity \in Nat /\ i \in Nat
    BY LibraryAssumption
  <2> QED BY <2>1, OffsetFacts
<1>2. \A a \in Array!Offsets : a \in Nat
  BY DEF Array!Offsets
<1>3. \A j \in 0 .. Capacity - 1 : \A b \in 1 .. ElementSize :
        /\ Array!OffsetOf(j) \in Nat
        /\ Array!OffsetOf(j) + b - 1 \in Array!Offsets
        /\ Array!OffsetOf(j) + b - 1 \in Nat
        /\ Array!OffsetOf(j) <= Array!OffsetOf(j) + b - 1
        /\ Array!OffsetOf(j) + b - 1 < Array!OffsetOf(j) + ElementSize
  <2> TAKE j \in 0 .. Capacity - 1
  <2> TAKE b \in 1 .. ElementSize
  <2>1. j \in Nat /\ j < Capacity /\ Capacity \in 0 .. Capacity
    BY <1>1
  <2> QED BY <2>1, ItemPlaces, OffsetFacts
<1> HIDE DEF at
<1>4. \A a \in Array!Offsets :
        c[a] = IF at <= a /\ a < at + ElementSize THEN e[a - at + 1] ELSE d[a]
  <2> TAKE a \in Array!Offsets
  <2>1. a \in at .. at + ElementSize - 1 <=> at <= a /\ a < at + ElementSize
    BY <1>1, <1>2
  <2> QED BY <2>1 DEF Array!Memcpy
<1>5. c \in [Array!Offsets -> Bytes]
  <2>1. ASSUME NEW a \in Array!Offsets PROVE c[a] \in Bytes
    <3>1. CASE at <= a /\ a < at + ElementSize
      <4>1. a - at + 1 \in 1 .. ElementSize
        BY <1>1, <1>2, <3>1
      <4> QED BY <1>4, <3>1, <4>1 DEF Bytes
    <3>2. CASE ~(at <= a /\ a < at + ElementSize)
      BY <1>4, <3>2
    <3> QED BY <3>1, <3>2
  <2>2. c = [a \in Array!Offsets |-> c[a]]
    BY DEF Array!Memcpy
  <2> HIDE DEF c
  <2> QED BY <2>1, <2>2
<1>6. Item(c, i) = e
  <2>1. ASSUME NEW b \in 1 .. ElementSize PROVE c[at + b - 1] = e[b]
    <3>1. /\ at + b - 1 \in Array!Offsets
          /\ at <= at + b - 1 /\ at + b - 1 < at + ElementSize
      BY <1>3, Zenon DEF at
    <3>2. (at + b - 1) - at + 1 = b
      BY <1>1
    <3> HIDE DEF c
    <3> QED BY <1>4, <3>1, <3>2
  <2>2. Item(c, i) = [b \in 1 .. ElementSize |-> c[at + b - 1]]
    BY Zenon DEF Item, at
  <2> HIDE DEF c
  <2> QED BY <2>1, <2>2
<1>7. ASSUME NEW j \in 0 .. Capacity - 1, j # i PROVE Item(c, j) = Item(d, j)
  <2> DEFINE to == Array!OffsetOf(j)
  <2>1. ASSUME NEW b \in 1 .. ElementSize PROVE c[to + b - 1] = d[to + b - 1]
    <3>1. /\ to \in Nat /\ to + b - 1 \in Array!Offsets /\ to + b - 1 \in Nat
          /\ to <= to + b - 1 /\ to + b - 1 < to + ElementSize
      BY <1>3, Zenon
    <3>2. j < i => to + ElementSize <= at
      BY <1>1, OffsetFacts DEF at
    <3>3. i < j => at + ElementSize <= to
      BY <1>1, OffsetFacts DEF at
    <3>4. j < i \/ i < j
      BY <1>1, <1>7
    <3> HIDE DEF to, c
    <3>5. ~(at <= to + b - 1 /\ to + b - 1 < at + ElementSize)
      BY <1>1, <3>1, <3>2, <3>3, <3>4
    <3> QED BY <1>4, <3>1, <3>5
  <2> HIDE DEF c
  <2> QED BY <2>1, Zenon DEF Item
<1>8. ASSUME NEW a \in Array!Offsets, a >= Array!OffsetOf(i + 1) PROVE c[a] = d[a]
  <2>1. ~(a < at + ElementSize)
    BY <1>1, <1>2, <1>8
  <2> HIDE DEF c
  <2> QED BY <1>4, <2>1
<1> HIDE DEF c
<1>9. /\ c \in [Array!Offsets -> Bytes]
      /\ Item(c, i) = e
      /\ \A j \in 0 .. Capacity - 1 : j # i => Item(c, j) = Item(d, j)
      /\ \A a \in Array!Offsets : a >= Array!OffsetOf(i + 1) => c[a] = d[a]
  BY <1>5, <1>6, <1>7, <1>8, Zenon
<1> QED BY <1>9, Zenon DEF c, at

\* array_push
LEMMA PushHolds ==
  ASSUME NEW m, NEW l, Holds(m, l), NEW e \in Items
  PROVE  Holds(IF m.size >= Capacity THEN m
               ELSE [data |-> Array!Memcpy(m.data, Array!OffsetOf(m.size), e),
                     size |-> m.size + 1],
               Array!Push(l, Capacity, e))
<1> DEFINE n == m.size
           d == m.data
           c == Array!Memcpy(d, Array!OffsetOf(n), e)
           p == Append(l, e)
<1>1. /\ n \in Nat /\ n <= Capacity /\ d \in [Array!Offsets -> Bytes]
      /\ Len(l) = n /\ \A k \in 1 .. n : l[k] = Item(d, k - 1)
      /\ l \in Seq([1 .. ElementSize -> Bytes])
  BY HeldList
<1>2. Capacity \in Nat /\ e \in [1 .. ElementSize -> Nat]
  BY LibraryAssumption
<1>3. CASE n >= Capacity
  BY <1>1, <1>3 DEF Array!Push, Array!IsFull
<1>4. CASE ~(n >= Capacity)
  <2>1. n \in 0 .. Capacity - 1 /\ n + 1 \in 0 .. Capacity
    BY <1>1, <1>2, <1>4
  <2>2. /\ c \in [Array!Offsets -> Bytes]
        /\ Item(c, n) = e
        /\ \A j \in 0 .. Capacity - 1 : j # n => Item(c, j) = Item(d, j)
        /\ \A a \in Array!Offsets : a >= Array!OffsetOf(n + 1) => c[a] = d[a]
    BY <1>1, <1>2, <2>1, CopyFacts, ZenonT(60)
  <2>3. Array!Push(l, Capacity, e) = p
    BY <1>1, <1>4 DEF Array!Push, Array!IsFull
  <2>4. /\ DOMAIN p = 1 .. n + 1 /\ p[n + 1] = e
        /\ \A k \in 1 .. n : p[k] = l[k]
        /\ p = [k \in 1 .. n + 1 |-> p[k]]
    <3>1. e \in [1 .. ElementSize -> Bytes]
      BY <1>2 DEF Bytes
    <3> HIDE DEF n, d
    <3>2. DOMAIN p = 1 .. n + 1 /\ p[n + 1] = e /\ \A k \in 1 .. n : p[k] = l[k]
      BY <1>1, <3>1
    <3>3. p \in Seq([1 .. ElementSize -> Bytes])
      BY <1>1, <3>1
    <3> HIDE DEF p
    <3>4. p = [k \in 1 .. n + 1 |-> p[k]]
      BY <3>2, <3>3
    <3> QED BY <3>2, <3>4
  <2> HIDE DEF c, p
  <2>5. ASSUME NEW k \in 1 .. n + 1 PROVE p[k] = Item(c, k - 1)
    <3>1. CASE k = n + 1
      <4>1. k - 1 = n
        BY <1>1, <3>1
      <4> QED BY <2>2, <2>4, <3>1, <4>1
    <3>2. CASE k \in 1 .. n
      <4>1. k - 1 \in 0 .. Capacity - 1 /\ k - 1 # n
        BY <1>1, <1>2, <3>2
      <4> QED BY <1>1, <2>2, <2>4, <3>2, <4>1
    <3>3. k = n + 1 \/ k \in 1 .. n
      BY <1>1
    <3> QED BY <3>1, <3>2, <3>3
  <2>6. IsWiped(c, n + 1)
    <3> SUFFICES ASSUME NEW a \in Array!Offsets, a >= Array!OffsetOf(n + 1)
                 PROVE  c[a] \in {0, Junk}
      BY DEF IsWiped
    <3>1. a >= Array!OffsetOf(n)
      <4>1. /\ Array!OffsetOf(n) \in Nat /\ ElementSize \in Nat /\ a \in Nat
            /\ Array!OffsetOf(n + 1) = Array!OffsetOf(n) + ElementSize
        <5>1. ElementSize \in Nat /\ a \in Nat
          BY LibraryAssumption DEF Array!Offsets
        <5> QED BY <1>1, <5>1, OffsetFacts
      <4> QED BY <4>1
    <3>2. d[a] \in {0, Junk}
      BY <3>1 DEF Holds, IsWiped
    <3> QED BY <2>2, <3>2
  <2> HIDE DEF n
  <2>7. Holds([data |-> c, size |-> n + 1], p)
    BY <2>1, <2>2, <2>4, <2>5, <2>6, HoldsAll
  <2> QED BY <1>4, <2>3, <2>7, Zenon DEF n, d, c
<1> QED BY <1>3, <1>4

\* array_set
LEMMA SetHolds ==
  ASSUME NEW m, NEW l, Holds(m, l), NEW e \in Items, NEW i \in Nat
  PROVE  Holds(IF i >= m.size THEN m
               ELSE [m EXCEPT !.data = Array!Memcpy(@, Array!OffsetOf(i), e)],
               Array!SetAt(l, i, e))
<1> DEFINE n == m.size
           d == m.data
           c == Array!Memcpy(d, Array!OffsetOf(i), e)
           p == [l EXCEPT ![i + 1] = e]
<1>1. /\ n \in Nat /\ n <= Capacity /\ d \in [Array!Offsets -> Bytes]
      /\ m = [data |-> d, size |-> n]
      /\ Len(l) = n /\ \A k \in 1 .. n : l[k] = Item(d, k - 1)
      /\ DOMAIN l = 1 .. n
  BY HeldList
<1>2. Capacity \in Nat /\ e \in [1 .. ElementSize -> Nat] /\ n \in 0 .. Capacity
  BY <1>1, LibraryAssumption
<1>3. CASE i >= n
  <2>1. i \notin Array!Indices(l)
    BY <1>1, <1>3 DEF Array!Indices
  <2> QED BY <1>3, <2>1 DEF Array!SetAt
<1>4. CASE ~(i >= n)
  <2>1. i \in 0 .. Capacity - 1 /\ i \in Array!Indices(l) /\ i + 1 \in 1 .. n
    BY <1>1, <1>2, <1>4 DEF Array!Indices
  <2>2. /\ c \in [Array!Offsets -> Bytes]
        /\ Item(c, i) = e
        /\ \A j \in 0 .. Capacity - 1 : j # i => Item(c, j) = Item(d, j)
        /\ \A a \in Array!Offsets : a >= Array!OffsetOf(i + 1) => c[a] = d[a]
    BY <1>1, <1>2, <2>1, CopyFacts, ZenonT(60)
  <2>3. Array!SetAt(l, i, e) = p
    BY <2>1, Zenon DEF Array!SetAt
  <2>4. /\ p[i + 1] = e
        /\ \A k \in 1 .. n : k # i + 1 => p[k] = l[k]
        /\ p = [k \in 1 .. n |-> p[k]]
    <3>1. l = [k \in 1 .. n |-> l[k]]
      BY Zenon DEF Holds
    <3> QED BY <1>1, <2>1, <3>1
  <2> HIDE DEF c, p
  <2>5. ASSUME NEW k \in 1 .. n PROVE p[k] = Item(c, k - 1)
    <3>1. CASE k = i + 1
      <4>1. k - 1 = i
        BY <3>1
      <4> QED BY <2>2, <2>4, <3>1, <4>1
    <3>2. CASE k # i + 1
      <4>1. k - 1 \in 0 .. Capacity - 1 /\ k - 1 # i
        BY <1>1, <1>2, <3>2
      <4> QED BY <1>1, <2>2, <2>4, <3>2, <4>1
    <3> QED BY <3>1, <3>2
  <2>6. IsWiped(c, n)
    <3> SUFFICES ASSUME NEW a \in Array!Offsets, a >= Array!OffsetOf(n)
                 PROVE  c[a] \in {0, Junk}
      BY DEF IsWiped
    <3>1. a >= Array!OffsetOf(i + 1)
      <4>1. i + 1 \in Nat /\ i + 1 <= n
        BY <2>1
      <4>2. /\ Array!OffsetOf(n) \in Nat /\ Array!OffsetOf(i + 1) \in Nat
            /\ Array!OffsetOf(i + 1) <= Array!OffsetOf(n)
        BY <1>1, <4>1, OffsetFacts
      <4>3. a \in Nat
        BY DEF Array!Offsets
      <4> QED BY <4>2, <4>3
    <3>2. d[a] \in {0, Junk}
      BY DEF Holds, IsWiped
    <3> QED BY <2>2, <3>1, <3>2
  <2>7. [m EXCEPT !.data = c] = [data |-> c, size |-> n]
    BY <1>1
  <2> HIDE DEF n
  <2>8. Holds([data |-> c, size |-> n], p)
    BY <1>2, <2>2, <2>4, <2>5, <2>6, HoldsAll
  <2> QED BY <1>4, <2>3, <2>7, <2>8, Zenon DEF n, d, c
<1> QED BY <1>3, <1>4

\* An array without elements: array_create_heap and array_clear
LEMMA EmptyHolds ==
  ASSUME NEW d \in [Array!Offsets -> {0, Junk}]
  PROVE  Holds([data |-> d, size |-> 0], <<>>)
<1>1. d \in [Array!Offsets -> Bytes] /\ IsWiped(d, 0) /\ 0 \in 0 .. Capacity
  BY LibraryAssumption DEF Bytes, IsWiped
<1>2. <<>> = [k \in 1 .. 0 |-> (<<>>)[k]] /\ \A k \in 1 .. 0 : (<<>>)[k] = Item(d, k - 1)
  OBVIOUS
<1> QED BY <1>1, <1>2, HoldsAll

\* An array that is cleared holds the empty list.
LEMMA ClearHolds ==
  ASSUME NEW m, NEW l, Holds(m, l)
  PROVE  Holds([data |-> Array!Memzero(m.data, 0, Array!OffsetOf(m.size)), size |-> 0], <<>>)
<1> DEFINE z == Array!Memzero(m.data, 0, Array!OffsetOf(m.size))
<1>1. m.size \in Nat /\ Array!OffsetOf(m.size) \in Nat
  BY HeldList, OffsetFacts
<1>2. ASSUME NEW a \in Array!Offsets PROVE z[a] \in {0, Junk}
  <2>1. a \in Nat
    BY DEF Array!Offsets
  <2>2. a >= Array!OffsetOf(m.size) => m.data[a] \in {0, Junk}
    BY DEF Holds, IsWiped
  <2> QED BY <1>1, <2>1, <2>2 DEF Array!Memzero
<1>3. z = [a \in Array!Offsets |-> z[a]]
  BY DEF Array!Memzero
<1> HIDE DEF z
<1>4. z \in [Array!Offsets -> {0, Junk}]
  BY <1>2, <1>3
<1> QED BY <1>4, EmptyHolds, Zenon DEF z

\* array_remove_list: from the last index to the first, each element is removed from what
\* the later ones have left.
LEMMA RemoveListHolds ==
  ASSUME NEW m, NEW l, Holds(m, l), NEW q \in Array!Ascending
  PROVE  Holds(Array!RemoveListMem(m, q), Array!Without(l, Array!Range(q)))
<1>0. PICK n \in 1 .. Capacity : /\ q \in [1 .. n -> 0 .. Capacity - 1]
                                 /\ \A j, k \in 1 .. n : j < k => q[j] < q[k]
  BY Zenon DEF Array!Ascending
<1> DEFINE S == DOMAIN q
           A == {x \in Mems : IsWiped(x.data, x.size)}
           ch == [s \in SUBSET S |-> Min(s)]
           Step(x, i) == Array!RemoveMem(x, i)
           G == [p \in S \X A |-> Step(p[2], q[p[1]])]
           Body(g) == [s \in SUBSET S |-> IF s = {} THEN m
                                          ELSE Step(g[s \ {Array!Min(s)}], q[Array!Min(s)])]
           iter == CHOOSE g : g = Body(g)
           Gone(s) == {q[j] : j \in s}
           Left(s) == Array!Without(l, Gone(s))
<1>1. IsFiniteSet(S) /\ S \subseteq Nat /\ S = 1 .. n
  <2>1. S = 1 .. n
    BY <1>0
  <2> QED BY <2>1, FS_Interval
<1>2. Chooses(ch, S)
  BY <1>1, FirstPosition DEF Chooses
<1>3. m \in A
  BY DEF Holds
<1>4. \A k \in S : q[k] \in Nat
  BY <1>0, <1>1
<1>5. ASSUME NEW k \in S, NEW x \in A PROVE Step(x, q[k]) \in A
  <2>1. Holds(x, [j \in 1 .. x.size |-> Item(x.data, j - 1)])
    BY <1>5, Zenon DEF Holds
  <2>2. PICK r : Holds(Step(x, q[k]), r)
    BY <1>4, <2>1, RemoveHolds
  <2> HIDE DEF Step
  <2> QED BY <2>2, Zenon DEF Holds
<1> HIDE DEF Step
<1>6. G \in [S \X A -> A]
  <2>1. \A p \in S \X A : p[1] \in S /\ p[2] \in A
    OBVIOUS
  <2>2. \A p \in S \X A : Step(p[2], q[p[1]]) \in A
    BY <1>5, <2>1, Zenon
  <2> HIDE DEF S, A
  <2> QED BY <2>2
<1>7. PICK g \in [SUBSET S -> A] : Recursion(g, SUBSET S, m, G, ch)
  <2> HIDE DEF S, A, ch, G
  <2> QED BY <1>1, <1>2, <1>3, <1>6, FoldExists, Zenon
<1>8. g = Body(g)
  <2>1. ASSUME NEW s \in SUBSET S
        PROVE  g[s] = IF s = {} THEN m ELSE Step(g[s \ {Min(s)}], q[Min(s)])
    <3>1. CASE s = {}
      BY <1>7, <3>1 DEF Recursion
    <3>2. CASE s # {}
      <4>1. g[s] = G[<<ch[s], g[s \ {ch[s]}]>>]
        BY <1>7, <3>2 DEF Recursion
      <4>2. ch[s] = Min(s) /\ Min(s) \in S /\ s \ {Min(s)} \in SUBSET S
        BY <1>2, <3>2 DEF Chooses
      <4>3. g[s \ {Min(s)}] \in A
        BY <1>7, <4>2
      <4> HIDE DEF A, S
      <4> QED BY <3>2, <4>1, <4>2, <4>3
    <3> QED BY <3>1, <3>2
  <2>2. ASSUME NEW s \in SUBSET S
        PROVE  g[s] = IF s = {} THEN m ELSE Step(g[s \ {Array!Min(s)}], q[Array!Min(s)])
    BY <2>1, SameOperators, Zenon
  <2> HIDE DEF A, S
  <2> QED BY <1>7, <2>2
<1>9. iter = Body(iter)
  <2> HIDE DEF Body
  <2> QED BY <1>8, Zenon
<1> HIDE DEF iter
<1>10. iter[{}] = m
  <2> HIDE DEF S
  <2> QED BY <1>9
<1>11. ASSUME NEW s \in SUBSET S, s # {}
       PROVE  iter[s] = Step(iter[s \ {Min(s)}], q[Min(s)])
  <2>1. iter[s] = Body(iter)[s]
    BY <1>9, Zenon
  <2> HIDE DEF S, iter
  <2>2. Body(iter)[s] = Step(iter[s \ {Array!Min(s)}], q[Array!Min(s)])
    BY <1>11
  <2> QED BY <2>1, <2>2, SameOperators, Zenon
<1>12. \A s \in SUBSET S : Holds(iter[s], Left(s))
  <2> DEFINE One == {1}
             h == [s \in SUBSET S |-> IF Holds(iter[s], Left(s)) THEN 1 ELSE 0]
  <2>1. Holds(iter[{}], Left({}))
    <3>1. l \in Seq([1 .. ElementSize -> Bytes])
      BY HeldList
    <3>2. Gone({}) = {}
      OBVIOUS
    <3>3. Left({}) = l
      BY <3>1, <3>2, WithoutNone
    <3> HIDE DEF Left
    <3> QED BY <1>10, <3>3
  <2>2. ASSUME NEW s \in SUBSET S, s # {}, Holds(iter[s \ {Min(s)}], Left(s \ {Min(s)}))
        PROVE  Holds(iter[s], Left(s))
    <3> DEFINE k == Min(s)
               t == s \ {k}
    <3>1. k \in s /\ k \in S /\ \A j \in t : k < j
      <4>1. s \subseteq Nat
        BY <1>1
      <4>2. k \in s /\ \A y \in s : k <= y
        BY <2>2, <4>1, FirstPosition
      <4> HIDE DEF k
      <4> QED BY <4>1, <4>2
    <3> HIDE DEF k
    <3>2. Gone(s) = Gone(t) \cup {q[k]}
      BY <3>1
    <3>3. Gone(t) \in SUBSET Nat /\ q[k] \in Nat /\ \A y \in Gone(t) : q[k] < y
      BY <1>0, <1>1, <1>4, <3>1
    <3>4. l \in Seq([1 .. ElementSize -> Bytes])
      BY HeldList
    <3> HIDE DEF Gone
    <3>5. Left(s) = Array!RemoveIndex(Left(t), q[k])
      <4> DEFINE U == Gone(t)
                 i == q[k]
      <4>1. U \in SUBSET Nat /\ i \in Nat /\ \A y \in U : i < y
        BY <3>3
      <4> HIDE DEF U, i
      <4>2. Array!Without(l, U \cup {i}) = Array!RemoveIndex(Array!Without(l, U), i)
        BY <3>4, <4>1, WithoutOneMore
      <4> QED BY <3>2, <4>2, Zenon DEF U, i
    <3>6. Holds(iter[t], Left(t))
      BY <2>2 DEF k
    <3>7. Holds(Array!RemoveMem(iter[t], q[k]), Array!RemoveIndex(Left(t), q[k]))
      BY <3>3, <3>6, RemoveHolds, Zenon
    <3>8. iter[s] = Array!RemoveMem(iter[t], q[k])
      BY <1>11, <2>2, Zenon DEF k, Step
    <3> QED BY <3>5, <3>7, <3>8, Zenon
  <2> HIDE DEF Left
  <2>3. h[{}] \in One
    BY <2>1
  <2>4. \A s \in SUBSET S : s # {} /\ h[s \ {ch[s]}] \in One => h[s] \in One
    <3> TAKE s \in SUBSET S
    <3> HAVE s # {} /\ h[s \ {ch[s]}] \in One
    <3>1. ch[s] = Min(s) /\ s \ {Min(s)} \in SUBSET S
      OBVIOUS
    <3> HIDE DEF ch, S
    <3>2. Holds(iter[s \ {Min(s)}], Left(s \ {Min(s)}))
      BY <3>1
    <3>3. Holds(iter[s], Left(s))
      BY <2>2, <3>2
    <3> QED BY <3>3
  <2> HIDE DEF h, S, ch, One
  <2>5. \A s \in SUBSET S : h[s] \in One
    BY <1>1, <1>2, <2>3, <2>4, FoldInduction, Zenon
  <2> TAKE s \in SUBSET S
  <2>6. h[s] = IF Holds(iter[s], Left(s)) THEN 1 ELSE 0
    BY DEF h
  <2>7. h[s] = 1
    BY <2>5 DEF One
  <2> QED BY <2>6, <2>7
<1>13. Array!RemoveListMem(m, q) = iter[S]
  <2>1. Array!FoldRight(LAMBDA i, rest : Step(rest, i), q, m) = iter[S]
    <3> HIDE DEF A
    <3> QED BY DEF Array!FoldRight, Array!MapThenFoldSet, iter
  <2> QED BY <2>1, Zenon DEF Array!RemoveListMem, Step
<1>14. Array!Range(q) = Gone(S)
  BY <1>1 DEF Array!Range
<1>15. Holds(iter[S], Left(S))
  <2> HIDE DEF S, Left
  <2> QED BY <1>12
<1> HIDE DEF Gone, iter
<1> QED BY <1>13, <1>14, <1>15, Zenon

\* For elements and arrays of any size, whatever the bytes of the elements: the memory of
\* the array holds the list its callers believe in, through every sequence of pushes,
\* replacements, pops, removals and clears.
THEOREM ArrayHoldsList == LibrarySpec => []ArrayIsList
<1>1. LibraryInit => Holds(mem, list)
  <2> SUFFICES ASSUME LibraryInit PROVE Holds(mem, list)
    OBVIOUS
  <2> DEFINE d == [a \in Array!Offsets |-> Junk]
  <2>1. mem = [data |-> d, size |-> 0] /\ list = <<>>
    BY Zenon DEF LibraryInit, Array!Init
  <2>2. d \in [Array!Offsets -> {0, Junk}]
    OBVIOUS
  <2> HIDE DEF d
  <2> QED BY <2>1, <2>2, EmptyHolds, Zenon
<1>2. Holds(mem, list) /\ [LibraryNext]_<<vars, arrayVars, arena, digestVars, logVars, part, date>>
        => Holds(mem, list)'
  <2> SUFFICES ASSUME Holds(mem, list),
                      [LibraryNext]_<<vars, arrayVars, arena, digestVars, logVars, part, date>>
               PROVE  Holds(mem', list')
    BY Zenon DEF Holds, Mems, Item, IsWiped, Bytes, Array!Offsets, Array!OffsetOf
  <2>1. \A i \in 0 .. Capacity : i \in Nat
    OBVIOUS
  <2>2. CASE \E e \in Items : Array!PushItem(e)
    BY <2>2, PushHolds, Zenon DEF Array!PushItem
  <2>3. CASE \E e \in Items, i \in 0 .. Capacity : Array!SetItem(i, e)
    <3>1. PICK e \in Items, i \in 0 .. Capacity : Array!SetItem(i, e)
      BY <2>3
    <3>2. /\ mem' = IF i >= mem.size THEN mem
                    ELSE [mem EXCEPT !.data = Array!Memcpy(@, Array!OffsetOf(i), e)]
          /\ list' = Array!SetAt(list, i, e)
      BY <3>1, Zenon DEF Array!SetItem
    <3>3. i \in Nat
      BY <2>1
    <3> QED BY <3>2, <3>3, SetHolds, Zenon
  <2>4. CASE Array!PopItem
    BY <2>4, PopHolds, Zenon DEF Array!PopItem
  <2>5. CASE Array!ClearItems
    BY <2>5, ClearHolds, Zenon DEF Array!ClearItems
  <2>6. CASE \E i \in 0 .. Capacity : Array!RemoveItem(i)
    BY <2>1, <2>6, RemoveHolds, Zenon DEF Array!RemoveItem
  <2>7. CASE \E q \in Array!Ascending : Array!RemoveItems(q)
    BY <2>7, RemoveListHolds, Zenon DEF Array!RemoveItems
  <2>8. CASE UNCHANGED arrayVars
    BY <2>8, Zenon DEF arrayVars
  <2>9. CASE ArrayStep
    BY <2>2, <2>3, <2>4, <2>5, <2>6, <2>7, <2>9, Zenon DEF ArrayStep, Array!Next
  <2> QED BY <2>8, <2>9, Zenon DEF LibraryNext, ExchangeStep, ArenaStep, DigestStep, LogStep
<1>3. Holds(mem, list) => ArrayIsList
  <2> SUFFICES ASSUME Holds(mem, list) PROVE Array!HoldsList
    BY DEF ArrayIsList
  <2>1. \A i : Array!ItemAt(i) = Item(mem.data, i)
    BY Zenon DEF Array!ItemAt, Item
  <2> QED BY <2>1, Zenon DEF Holds, IsWiped, Array!HoldsList
<1> QED BY <1>1, <1>2, <1>3, PTL DEF LibrarySpec

-----------------------------------------------------------------------------
(* The calendar                                                            *)

\* A position that is the only one of its kind is found.
LEMMA OnlyOne == ASSUME NEW k \in Int PROVE Max({k}) = k /\ Min({k}) = k
BY DEF Max, Min

\* The table of months names twelve, each once.
LEMMA MonthTable ==
  /\ Len(MonthNames) = 12 /\ DOMAIN MonthNames = 1 .. 12
  /\ \A k \in 1 .. 12 : MonthNames[k] # "Mai" /\ (MonthNames[k] = "Sept" <=> k = 9)
  /\ \A i, j \in 1 .. 12 : MonthNames[i] = MonthNames[j] => i = j
  /\ "Jan" \in Range(MonthNames) /\ "Mai" \notin Range(MonthNames)
<1>1. Len(MonthNames) = 12 /\ DOMAIN MonthNames = 1 .. 12
  BY DEF MonthNames
<1>2. \A k \in 1 .. 12 : MonthNames[k] # "Mai" /\ (MonthNames[k] = "Sept" <=> k = 9)
  <2>1. \A k \in 1 .. 12 : MonthNames[k] # "Mai"
    BY DEF MonthNames
  <2>2. MonthNames[9] = "Sept"
    BY DEF MonthNames
  <2>3. \A k \in 1 .. 12 : k # 9 => MonthNames[k] # "Sept"
    BY DEF MonthNames
  <2> QED BY <2>1, <2>2, <2>3
<1>3. \A i, j \in 1 .. 12 : MonthNames[i] = MonthNames[j] => i = j
  BY DEF MonthNames
<1>4. MonthNames[1] = "Jan" /\ 1 \in 1 .. 12
  BY DEF MonthNames
<1> QED BY <1>1, <1>2, <1>3, <1>4, Zenon DEF Range

\* The number that the table of months gives to a name
LEMMA MonthNumbers ==
  /\ IndexOf(MonthNames, "Mai") = 0
  /\ \A k \in 1 .. 12 : IndexOf(MonthNames, MonthNames[k]) = k
<1> DEFINE At(c) == {i \in 1 .. Len(MonthNames) : MonthNames[i] = c}
<1>1. \A c : IndexOf(MonthNames, c) = IF At(c) # {} THEN Min(At(c)) ELSE 0
  BY DEF IndexOf, SelectInSeq
<1>2. At("Mai") = {}
  BY MonthTable
<1>3. ASSUME NEW k \in 1 .. 12 PROVE At(MonthNames[k]) = {k}
  BY MonthTable
<1> HIDE DEF At
<1>4. ASSUME NEW k \in 1 .. 12 PROVE IndexOf(MonthNames, MonthNames[k]) = k
  <2>1. At(MonthNames[k]) = {k} /\ {k} # {}
    BY <1>3
  <2> QED BY <1>1, <2>1, OnlyOne
<1> QED BY <1>1, <1>2, <1>4

\* Centuries that are not divisible by four hundred have no leap day.
Skips(y) == \E c \in 18 .. 99 : y = 100 * c /\ c % 4 # 0

\* The leap years among those that a date may have
LEMMA LeapDays ==
  ASSUME NEW y \in MinYear .. MaxYear
  PROVE  IsLeap(y) <=> y % 4 = 0 /\ ~Skips(y)
<1>0. y \in 1800 .. 9999
  BY DEF MinYear, MaxYear
<1>1. \A c \in 18 .. 99 : y = 100 * c => (c % 4 = 0 <=> y % 400 = 0)
  BY <1>0
<1>2. y % 100 = 0 => y = 100 * (y \div 100) /\ y \div 100 \in 18 .. 99
  BY <1>0
<1>3. \A c \in 18 .. 99 : y = 100 * c => y % 100 = 0
  BY <1>0
<1>4. y % 400 = 0 => y % 4 = 0 /\ y % 100 = 0
  <2> SUFFICES ASSUME y % 400 = 0 PROVE y % 4 = 0 /\ y % 100 = 0
    OBVIOUS
  <2>1. y = 400 * (y \div 400) /\ y \div 400 \in Int
    BY <1>0
  <2>2. PICK q \in Int : y = 400 * q
    BY <2>1
  <2> QED BY <2>2
<1>5. CASE y % 100 = 0
  <2>1. PICK c \in 18 .. 99 : y = 100 * c
    BY <1>2, <1>5
  <2>2. \A e \in 18 .. 99 : y = 100 * e => e = c
    BY <2>1
  <2>3. c % 4 = 0 <=> y % 400 = 0
    BY <1>1, <2>1
  <2>4. Skips(y) <=> c % 4 # 0
    BY <2>1, <2>2 DEF Skips
  <2> QED BY <1>4, <1>5, <2>3, <2>4 DEF IsLeap
<1>6. CASE y % 100 # 0
  <2>1. ~Skips(y)
    BY <1>3, <1>6 DEF Skips
  <2> QED BY <1>4, <1>6, <2>1 DEF IsLeap
<1> QED BY <1>5, <1>6

\* is_valid_date accepts the days of the calendar, in its years.
LEMMA ValidDates ==
  ASSUME NEW d \in Int, NEW m \in 1 .. 12, NEW y \in Int
  PROVE  IsValidDate(d, m, y) <=> y \in MinYear .. MaxYear /\ IsCalendarDay(d, m, y)
<1> DEFINE feb29 == y % 4 = 0 /\ ~Skips(y)
           last == IF m = 12 THEN 31
                   ELSE DaysBefore(m + 1) - DaysBefore(m) + (IF m = 2 /\ feb29 THEN 1 ELSE 0)
<1>1. IsValidDate(d, m, y) <=>
        /\ y \in MinYear .. MaxYear /\ d \in 1 .. 31
        /\ m = 2 => d <= (IF IsLeap(y) THEN 29 ELSE 28)
        /\ m \in {4, 6, 9, 11} => d <= 30
  BY Zenon DEF IsValidDate
<1>2. IsCalendarDay(d, m, y) <=> d \in 1 .. last
  BY Zenon DEF IsCalendarDay, Skips
<1>3. y \in MinYear .. MaxYear => (IsLeap(y) <=> feb29)
  BY LeapDays, Zenon
<1> HIDE DEF feb29
<1>4. last = IF m = 2 THEN (IF feb29 THEN 29 ELSE 28) ELSE IF m \in {4, 6, 9, 11} THEN 30 ELSE 31
  BY DEF DaysBefore
<1> HIDE DEF last
<1>5. CASE y \in MinYear .. MaxYear
  BY <1>1, <1>2, <1>3, <1>4, <1>5
<1>6. CASE y \notin MinYear .. MaxYear
  BY <1>1, <1>6, Zenon
<1> QED BY <1>5, <1>6

\* What of a date is judged here: the rest of it is valid.
LEMMA DateFields ==
  ASSUME NEW d, NEW month, NEW y
  PROVE  DateOk([name |-> "Mon", day |-> d, month |-> month, year |-> y,
                 hour |-> 23, minute |-> 59, second |-> 59, gmt |-> TRUE])
           <=> /\ month \in Range(MonthNames) \ {"Sept"}
               /\ IsValidDate(d, IndexOf(MonthNames, month), y)
<1> DEFINE t == [name |-> "Mon", day |-> d, month |-> month, year |-> y,
                 hour |-> 23, minute |-> 59, second |-> 59, gmt |-> TRUE]
<1>1. "Mon" \in DayNames
  BY DEF DayNames
<1>2. 23 \in 0 .. 23 /\ 59 \in 0 .. 59
  OBVIOUS
<1>3. /\ t.name = "Mon" /\ t.day = d /\ t.month = month /\ t.year = y
      /\ t.hour = 23 /\ t.minute = 59 /\ t.second = 59 /\ t.gmt = TRUE
  OBVIOUS
<1> HIDE DEF t
<1>4. DateOk(t) <=> /\ month \in Range(MonthNames) \ {"Sept"}
                    /\ IsValidDate(d, IndexOf(MonthNames, month), y)
  BY <1>1, <1>2, <1>3, Zenon DEF DateOk, LongMonths
<1> QED BY <1>4, Zenon DEF t

\* For any years: http_process_date (http_headers.c:287-368) accepts the days of the
\* calendar from 1800 to 9999 and no others, apart from those of September.
THEOREM DatesAreRight == LibrarySpec => []DatesAreJudgedRight
<1> DEFINE DateInv == date.day \in Int /\ date.year \in Int /\ date.month \in {"Mai"} \cup Range(MonthNames)
<1>1. LibraryInit => DateInv
  <2>1. DateInv \/ ~LibraryInit \/ date = Someday \/ date \in Days
    BY Zenon DEF LibraryInit
  <2>2. date = Someday => DateInv
    BY MonthTable DEF Someday
  <2>3. date \in Days => DateInv
    <3>1. \A day \in 0 .. 32 : day \in Int
      OBVIOUS
    <3>2. date \in Days => /\ date.day \in 0 .. 32 /\ date.year \in Years
                           /\ date.month \in {"Mai"} \cup Range(MonthNames)
      BY DEF Days
    <3> QED BY <3>1, <3>2, LibraryAssumption, Zenon
  <2> QED BY <2>1, <2>2, <2>3, Zenon
<1>2. DateInv /\ [LibraryNext]_<<vars, arrayVars, arena, digestVars, logVars, part, date>>
        => DateInv'
  <2> SUFFICES ASSUME DateInv,
                      [LibraryNext]_<<vars, arrayVars, arena, digestVars, logVars, part, date>>
               PROVE  DateInv'
    OBVIOUS
  <2>1. date' = date
    BY Zenon DEF LibraryNext, ExchangeStep, ArrayStep, ArenaStep, DigestStep, LogStep
  <2> QED BY <2>1, Zenon
<1>3. DateInv => DatesAreJudgedRight
  <2> SUFFICES ASSUME DateInv PROVE DatesAreJudgedRight
    OBVIOUS
  <2> DEFINE d == date.day
             y == date.year
             name == date.month
             month == IndexOf(MonthNames, name)
             t == [name |-> "Mon", day |-> d, month |-> name, year |-> y,
                   hour |-> 23, minute |-> 59, second |-> 59, gmt |-> TRUE]
  <2>1. d \in Int /\ y \in Int /\ name \in {"Mai"} \cup Range(MonthNames)
    OBVIOUS
  <2>2. DatesAreJudgedRight <=>
          (DateOk(t) <=> month \in 1 .. 12 \ {9} /\ y \in MinYear .. MaxYear /\ IsCalendarDay(d, month, y))
    BY DEF DatesAreJudgedRight, MinYear, MaxYear
  <2> HIDE DEF d, y, name
  <2>3. DateOk(t) <=> name \in Range(MonthNames) \ {"Sept"} /\ IsValidDate(d, month, y)
    BY DateFields
  <2> HIDE DEF t
  <2>4. CASE name = "Mai"
    <3>1. month = 0
      BY <2>4, MonthNumbers, Zenon
    <3> HIDE DEF month
    <3>2. month \notin 1 .. 12
      BY <3>1
    <3> QED BY <2>2, <2>3, <2>4, <3>2, MonthTable, Zenon
  <2>5. CASE name \in Range(MonthNames)
    <3>1. PICK k \in 1 .. 12 : name = MonthNames[k]
      BY <2>5, MonthTable, Zenon DEF Range
    <3>2. month = k
      BY <3>1, MonthNumbers, Zenon
    <3> HIDE DEF month
    <3>3. name = "Sept" <=> k = 9
      BY <3>1, MonthTable, Zenon
    <3>4. IsValidDate(d, k, y) <=> y \in MinYear .. MaxYear /\ IsCalendarDay(d, k, y)
      BY <2>1, ValidDates, Zenon
    <3>5. DateOk(t) <=> k # 9 /\ y \in MinYear .. MaxYear /\ IsCalendarDay(d, k, y)
      BY <2>3, <2>5, <3>2, <3>3, <3>4, Zenon
    <3> QED BY <2>2, <3>2, <3>5, Zenon
  <2> QED BY <2>1, <2>4, <2>5, Zenon
<1> QED BY <1>1, <1>2, <1>3, PTL DEF LibrarySpec

-----------------------------------------------------------------------------
(* Base64                                                                  *)

\* The bits of four characters that b64_encode makes of three bytes
Group(x, y, z) == 65536 * x + 256 * y + z

Sextets(v, x, y, z) ==
    /\ (v \div 262144) % 64 = x \div 4
    /\ (v \div 4096) % 64 = 16 * (x % 4) + (y \div 16)
    /\ (v \div 64) % 64 = 4 * (y % 16) + (z \div 64)
    /\ v % 64 = z % 64

\* The four characters of three bytes
LEMMA GroupChars ==
  ASSUME NEW x \in 0 .. 255, NEW y \in 0 .. 255, NEW z \in 0 .. 255
  PROVE  Sextets(Group(x, y, z), x, y, z)
<1>1. PICK a \in 0 .. 63, b \in 0 .. 3 : x = 4 * a + b /\ x \div 4 = a /\ x % 4 = b
  <2>1. x \div 4 \in 0 .. 63
    BY SMT
  <2>2. x % 4 \in 0 .. 3
    BY SMT
  <2>3. x = 4 * (x \div 4) + (x % 4)
    BY SMT
  <2> QED BY <2>1, <2>2, <2>3
<1>2. PICK c \in 0 .. 15, d \in 0 .. 15 : y = 16 * c + d /\ y \div 16 = c /\ y % 16 = d
  <2>1. y \div 16 \in 0 .. 15
    BY SMT
  <2>2. y % 16 \in 0 .. 15
    BY SMT
  <2>3. y = 16 * (y \div 16) + (y % 16)
    BY SMT
  <2> QED BY <2>1, <2>2, <2>3
<1>3. PICK e \in 0 .. 3, f \in 0 .. 63 : z = 64 * e + f /\ z \div 64 = e /\ z % 64 = f
  <2>1. z \div 64 \in 0 .. 3
    BY SMT
  <2>2. z % 64 \in 0 .. 63
    BY SMT
  <2>3. z = 64 * (z \div 64) + (z % 64)
    BY SMT
  <2> QED BY <2>1, <2>2, <2>3
<1>4. Group(x, y, z) = 262144 * a + 65536 * b + 4096 * c + 256 * d + 64 * e + f
  BY <1>1, <1>2, <1>3, SMT DEF Group
<1>5. Group(x, y, z) \div 262144 = a
  BY <1>4, SMT
<1>6. Group(x, y, z) \div 4096 = 64 * a + 16 * b + c
  BY <1>4, SMT
<1>7. Group(x, y, z) \div 64 = 4096 * a + 1024 * b + 64 * c + 4 * d + e
  BY <1>4, SMT
<1>8. (64 * a + 16 * b + c) % 64 = 16 * b + c
  BY SMT
<1>9. (4096 * a + 1024 * b + 64 * c + 4 * d + e) % 64 = 4 * d + e
  BY SMT
<1>10. Group(x, y, z) % 64 = f
  BY <1>4, SMT
<1>11. a % 64 = a
  BY SMT
<1> QED BY <1>1, <1>2, <1>3, <1>5, <1>6, <1>7, <1>8, <1>9, <1>10, <1>11, SMT DEF Sextets

\* The powers of two that the bits of a byte need
LEMMA PowersOfTwo ==
  /\ \A k \in 1 .. 8 : PowerOfTwo[k] \in Nat
  /\ PowerOfTwo[1] = 1 /\ PowerOfTwo[2] = 2 /\ PowerOfTwo[3] = 4 /\ PowerOfTwo[4] = 8
  /\ PowerOfTwo[5] = 16 /\ PowerOfTwo[6] = 32 /\ PowerOfTwo[7] = 64 /\ PowerOfTwo[8] = 128
BY SMT DEF PowerOfTwo

\* The bits of a byte and of a character, by their places
LEMMA BitsOfByte ==
  ASSUME NEW x
  PROVE  /\ Bit(x, 8, 1) = (x \div 128) % 2 /\ Bit(x, 8, 2) = (x \div 64) % 2
         /\ Bit(x, 8, 3) = (x \div 32) % 2 /\ Bit(x, 8, 4) = (x \div 16) % 2
         /\ Bit(x, 8, 5) = (x \div 8) % 2 /\ Bit(x, 8, 6) = (x \div 4) % 2
         /\ Bit(x, 8, 7) = (x \div 2) % 2 /\ Bit(x, 8, 8) = (x \div 1) % 2
BY PowersOfTwo, SMT DEF Bit

\* The six bits of a character
LEMMA BitsOfChar ==
  ASSUME NEW x
  PROVE  /\ Bit(x, 6, 1) = (x \div 32) % 2 /\ Bit(x, 6, 2) = (x \div 16) % 2
         /\ Bit(x, 6, 3) = (x \div 8) % 2 /\ Bit(x, 6, 4) = (x \div 4) % 2
         /\ Bit(x, 6, 5) = (x \div 2) % 2 /\ Bit(x, 6, 6) = (x \div 1) % 2
BY PowersOfTwo, SMT DEF Bit

\* The first character of a group has the first six bits of its first byte.
LEMMA FirstChar ==
  ASSUME NEW x \in 0 .. 255
  PROVE  \A b \in 1 .. 6 : Bit(x \div 4, 6, b) = Bit(x, 8, b)
<1> DEFINE c == x \div 4
<1>1. /\ (c \div 32) % 2 = (x \div 128) % 2 /\ (c \div 16) % 2 = (x \div 64) % 2
      /\ (c \div 8) % 2 = (x \div 32) % 2 /\ (c \div 4) % 2 = (x \div 16) % 2
      /\ (c \div 2) % 2 = (x \div 8) % 2 /\ (c \div 1) % 2 = (x \div 4) % 2
  BY SMT
<1> HIDE DEF c
<1>2. \A b \in 1 .. 6 : Bit(c, 6, b) = Bit(x, 8, b)
  BY <1>1, BitsOfByte, BitsOfChar
<1> QED BY <1>2 DEF c

\* The second has the last two of the first byte and four of the second.
LEMMA SecondChar ==
  ASSUME NEW x \in 0 .. 255, NEW y \in 0 .. 255
  PROVE  /\ \A b \in 1 .. 2 : Bit(16 * (x % 4) + (y \div 16), 6, b) = Bit(x, 8, b + 6)
         /\ \A b \in 3 .. 6 : Bit(16 * (x % 4) + (y \div 16), 6, b) = Bit(y, 8, b - 2)
<1> DEFINE c == 16 * (x % 4) + (y \div 16)
<1>1. /\ (c \div 32) % 2 = (x \div 2) % 2 /\ (c \div 16) % 2 = (x \div 1) % 2
  BY SMT
<1>2. /\ (c \div 8) % 2 = (y \div 128) % 2 /\ (c \div 4) % 2 = (y \div 64) % 2
      /\ (c \div 2) % 2 = (y \div 32) % 2 /\ (c \div 1) % 2 = (y \div 16) % 2
  BY SMTT(60)
<1> HIDE DEF c
<1>3. /\ \A b \in 1 .. 2 : Bit(c, 6, b) = Bit(x, 8, b + 6)
      /\ \A b \in 3 .. 6 : Bit(c, 6, b) = Bit(y, 8, b - 2)
  BY <1>1, <1>2, BitsOfByte, BitsOfChar
<1> QED BY <1>3 DEF c

\* The third has the last four of the second byte and two of the third.
LEMMA ThirdChar ==
  ASSUME NEW y \in 0 .. 255, NEW z \in 0 .. 255
  PROVE  /\ \A b \in 1 .. 4 : Bit(4 * (y % 16) + (z \div 64), 6, b) = Bit(y, 8, b + 4)
         /\ \A b \in 5 .. 6 : Bit(4 * (y % 16) + (z \div 64), 6, b) = Bit(z, 8, b - 4)
<1> DEFINE c == 4 * (y % 16) + (z \div 64)
<1>0. c \div 4 = y % 16
  BY SMT
<1>1. /\ (c \div 32) % 2 = (y \div 8) % 2 /\ (c \div 16) % 2 = (y \div 4) % 2
      /\ (c \div 8) % 2 = (y \div 2) % 2 /\ (c \div 4) % 2 = (y \div 1) % 2
  <2>1. (c \div 32) % 2 = (y \div 8) % 2
    BY SMT
  <2>2. (c \div 16) % 2 = (y \div 4) % 2
    BY SMT
  <2>3. (c \div 8) % 2 = (y \div 2) % 2
    BY SMT
  <2>4. (c \div 4) % 2 = (y \div 1) % 2
    BY <1>0, SMT
  <2> QED BY <2>1, <2>2, <2>3, <2>4
<1>2. /\ (c \div 2) % 2 = (z \div 128) % 2 /\ (c \div 1) % 2 = (z \div 64) % 2
  BY SMT
<1> HIDE DEF c
<1>3. \A b \in 1 .. 4 : Bit(c, 6, b) = Bit(y, 8, b + 4)
  BY <1>1, BitsOfByte, BitsOfChar
<1>4. \A b \in 5 .. 6 : Bit(c, 6, b) = Bit(z, 8, b - 4)
  BY <1>2, BitsOfByte, BitsOfChar
<1> QED BY <1>3, <1>4 DEF c

\* The fourth has the last six of the third byte.
LEMMA FourthChar ==
  ASSUME NEW z \in 0 .. 255
  PROVE  \A b \in 1 .. 6 : Bit(z % 64, 6, b) = Bit(z, 8, b + 2)
<1> DEFINE c == z % 64
<1>1. /\ (c \div 32) % 2 = (z \div 32) % 2 /\ (c \div 16) % 2 = (z \div 16) % 2
      /\ (c \div 8) % 2 = (z \div 8) % 2 /\ (c \div 4) % 2 = (z \div 4) % 2
      /\ (c \div 2) % 2 = (z \div 2) % 2 /\ (c \div 1) % 2 = (z \div 1) % 2
  BY SMT
<1> HIDE DEF c
<1>2. \A b \in 1 .. 6 : Bit(c, 6, b) = Bit(z, 8, b + 2)
  BY <1>1, BitsOfByte, BitsOfChar
<1> QED BY <1>2 DEF c

\* The bytes of a text, and zeros behind them
ByteAt(in, i) == IF i < Len(in) THEN in[i + 1] ELSE 0

\* A byte is read at every place, behind the end a zero.
LEMMA ByteAtFacts ==
  ASSUME NEW in \in Seq(0 .. 255), NEW i \in Nat
  PROVE  ByteAt(in, i) \in 0 .. 255
<1>1. CASE i < Len(in)
  <2>1. i + 1 \in 1 .. Len(in)
    BY <1>1, LenProperties
  <2>2. in[i + 1] \in 0 .. 255
    BY <2>1, ElementOfSeq, Zenon
  <2> QED BY <1>1, <2>2 DEF ByteAt
<1>2. CASE ~(i < Len(in))
  BY <1>2 DEF ByteAt
<1> QED BY <1>1, <1>2

\* How many characters there are, and what they are
LEMMA EncodedLen ==
  ASSUME NEW n \in Nat
  PROVE  /\ EncodedSize(n) \in Nat /\ (8 * n + 5) \div 6 \in Nat
         /\ EncodedSize(n) = 4 * ((((8 * n + 5) \div 6) + 3) \div 4)
         /\ (8 * n + 5) \div 6 <= EncodedSize(n)
<1>1. PICK m \in Nat, r \in 0 .. 2 : n = 3 * m + r /\ n % 3 = r
  <2>1. n \div 3 \in Nat
    BY SMT
  <2>2. n % 3 \in 0 .. 2
    BY SMT
  <2>3. n = 3 * (n \div 3) + (n % 3)
    BY SMT
  <2> QED BY <2>1, <2>2, <2>3
<1>2. CASE r = 0
  <2>1. (3 - r) % 3 = 0
    BY <1>2
  <2>2. EncodedSize(n) = 4 * m
    BY <1>1, <1>2, <2>1 DEF EncodedSize
  <2>3. (8 * n + 5) \div 6 = 4 * m
    BY <1>1, <1>2
  <2>4. (4 * m + 3) \div 4 = m
    OBVIOUS
  <2> QED BY <2>2, <2>3, <2>4
<1>3. CASE r = 1
  <2>1. (3 - r) % 3 = 2
    BY <1>3
  <2>2. EncodedSize(n) = 4 * m + 4
    BY <1>1, <1>3, <2>1 DEF EncodedSize
  <2>3. (8 * n + 5) \div 6 = 4 * m + 2
    BY <1>1, <1>3
  <2>4. (4 * m + 2 + 3) \div 4 = m + 1
    OBVIOUS
  <2> QED BY <2>2, <2>3, <2>4
<1>4. CASE r = 2
  <2>1. (3 - r) % 3 = 1
    BY <1>4
  <2>2. EncodedSize(n) = 4 * m + 4
    BY <1>1, <1>4, <2>1 DEF EncodedSize
  <2>3. (8 * n + 5) \div 6 = 4 * m + 3
    BY <1>1, <1>4
  <2>4. (4 * m + 3 + 3) \div 4 = m + 1
    OBVIOUS
  <2> QED BY <2>2, <2>3, <2>4
<1> QED BY <1>2, <1>3, <1>4

\* The loop joins three bytes to a group.
LEMMA TripleIs ==
  ASSUME NEW in, NEW i
  PROVE  Triple(in, i) = Group(ByteAt(in, i), ByteAt(in, i + 1), ByteAt(in, i + 2))
BY SMT DEF Triple, Group, ByteAt

\* The shifts by 18, 12, 6 and 0 bits
LEMMA ShiftsAre ==
  Shifts[1] = 262144 /\ Shifts[2] = 4096 /\ Shifts[3] = 64 /\ Shifts[4] = 1
BY SMT DEF Shifts

\* The four characters of a group, of which the last two may be padding
LEMMA EncodedChars ==
  ASSUME NEW in \in Seq(0 .. 255), NEW g \in Nat, 4 * g + 4 <= EncodedSize(Len(in)),
         3 * g < Len(in)
  PROVE  LET x == ByteAt(in, 3 * g)
             y == ByteAt(in, 3 * g + 1)
             z == ByteAt(in, 3 * g + 2)
             n == Len(in)
         IN  /\ Encoded(in)[4 * g + 1] = x \div 4
             /\ Encoded(in)[4 * g + 2] = 16 * (x % 4) + (y \div 16)
             /\ Encoded(in)[4 * g + 3] = IF 3 * g + 2 > n THEN Pad64 ELSE 4 * (y % 16) + (z \div 64)
             /\ Encoded(in)[4 * g + 4] = IF 3 * g + 3 > n THEN Pad64 ELSE z % 64
<1> DEFINE n == Len(in)
           v == Triple(in, 3 * g)
           char(i, place) == IF i + place > n THEN Pad64 ELSE (Triple(in, i) \div Shifts[place + 1]) % 64
           x == ByteAt(in, 3 * g)
           y == ByteAt(in, 3 * g + 1)
           z == ByteAt(in, 3 * g + 2)
<1>1. n \in Nat /\ EncodedSize(n) \in Nat
  BY LenProperties, EncodedLen
<1>2. Encoded(in) = [j \in 1 .. EncodedSize(n) |-> char(3 * ((j - 1) \div 4), (j - 1) % 4)]
  BY Zenon DEF Encoded
<1>3. x \in 0 .. 255 /\ y \in 0 .. 255 /\ z \in 0 .. 255
  BY <1>1, ByteAtFacts
<1>4. v = Group(x, y, z)
  BY TripleIs, Zenon
<1>5. \A p \in 0 .. 3 : char(3 * g, p) = IF 3 * g + p > n THEN Pad64 ELSE (v \div Shifts[p + 1]) % 64
  BY Zenon
<1> HIDE DEF n, v, x, y, z, char
<1>6. 3 * g < n
  BY DEF n
<1>7. /\ char(3 * g, 0) = x \div 4 /\ char(3 * g, 1) = 16 * (x % 4) + (y \div 16)
      /\ char(3 * g, 2) = IF 3 * g + 2 > n THEN Pad64 ELSE 4 * (y % 16) + (z \div 64)
      /\ char(3 * g, 3) = IF 3 * g + 3 > n THEN Pad64 ELSE z % 64
  <2>1. /\ char(3 * g, 0) = (v \div 262144) % 64 /\ char(3 * g, 1) = (v \div 4096) % 64
        /\ char(3 * g, 2) = IF 3 * g + 2 > n THEN Pad64 ELSE (v \div 64) % 64
        /\ char(3 * g, 3) = IF 3 * g + 3 > n THEN Pad64 ELSE (v \div 1) % 64
    BY <1>1, <1>5, <1>6, ShiftsAre
  <2>2. v \in Nat /\ v \div 1 = v
    BY <1>3, <1>4 DEF Group
  <2>3. Sextets(v, x, y, z)
    BY <1>3, <1>4, GroupChars, Zenon
  <2> QED BY <2>1, <2>2, <2>3, SMT DEF Sextets
<1>8. ASSUME NEW p \in 0 .. 3 PROVE Encoded(in)[4 * g + p + 1] = char(3 * g, p)
  <2>1. 4 * g + p + 1 \in 1 .. EncodedSize(n)
    BY <1>1 DEF n
  <2>2. (4 * g + p + 1 - 1) \div 4 = g
    BY SMT
  <2>3. (4 * g + p + 1 - 1) % 4 = p
    BY SMT
  <2>4. Encoded(in)[4 * g + p + 1]
          = char(3 * ((4 * g + p + 1 - 1) \div 4), (4 * g + p + 1 - 1) % 4)
    BY <1>2, <2>1
  <2> QED BY <2>2, <2>3, <2>4
<1>9. /\ Encoded(in)[4 * g + 1] = char(3 * g, 0) /\ Encoded(in)[4 * g + 2] = char(3 * g, 1)
      /\ Encoded(in)[4 * g + 3] = char(3 * g, 2) /\ Encoded(in)[4 * g + 4] = char(3 * g, 3)
  <2>1. /\ 4 * g + 0 + 1 = 4 * g + 1 /\ 4 * g + 1 + 1 = 4 * g + 2
        /\ 4 * g + 2 + 1 = 4 * g + 3 /\ 4 * g + 3 + 1 = 4 * g + 4
    OBVIOUS
  <2>2. 0 \in 0 .. 3 /\ 1 \in 0 .. 3 /\ 2 \in 0 .. 3 /\ 3 \in 0 .. 3
    OBVIOUS
  <2> QED BY <1>8, <2>1, <2>2
<1> QED BY <1>7, <1>9, Zenon DEF n, x, y, z

\* The text has as many characters as hold the bits.
LEMMA CharsFill ==
  ASSUME NEW in \in Seq(0 .. 255), NEW k \in 1 .. EncodedSize(Len(in))
  PROVE  IF k <= (8 * Len(in) + 5) \div 6 THEN Encoded(in)[k] \in 0 .. 63
                                          ELSE Encoded(in)[k] = Pad64
<1> DEFINE n == Len(in)
           chars == (8 * n + 5) \div 6
<1>1. n \in Nat /\ EncodedSize(n) \in Nat /\ chars \in Nat /\ EncodedSize(n) = 4 * ((chars + 3) \div 4)
  BY LenProperties, EncodedLen
<1>2. PICK g \in Nat, p \in 1 .. 4 : k = 4 * g + p
  <2>1. (k - 1) \div 4 \in Nat /\ ((k - 1) % 4) + 1 \in 1 .. 4
    BY <1>1
  <2>2. k = 4 * ((k - 1) \div 4) + (((k - 1) % 4) + 1)
    BY <1>1
  <2> QED BY <2>1, <2>2
<1> HIDE DEF n
<1>3. 4 * g + 4 <= EncodedSize(n) /\ 3 * g < n
  <2>1. k <= EncodedSize(n)
    BY DEF n
  <2>2. g < (chars + 3) \div 4
    BY <1>1, <1>2, <2>1
  <2>3. 4 * (g + 1) <= chars + 3
    BY <1>1, <2>2
  <2> QED BY <1>1, <2>2, <2>3
<1> DEFINE x == ByteAt(in, 3 * g)
           y == ByteAt(in, 3 * g + 1)
           z == ByteAt(in, 3 * g + 2)
<1>4. x \in 0 .. 255 /\ y \in 0 .. 255 /\ z \in 0 .. 255
  BY ByteAtFacts
<1>5. /\ Encoded(in)[4 * g + 1] = x \div 4
      /\ Encoded(in)[4 * g + 2] = 16 * (x % 4) + (y \div 16)
      /\ Encoded(in)[4 * g + 3] = IF 3 * g + 2 > n THEN Pad64 ELSE 4 * (y % 16) + (z \div 64)
      /\ Encoded(in)[4 * g + 4] = IF 3 * g + 3 > n THEN Pad64 ELSE z % 64
  BY <1>3, EncodedChars DEF n
<1> HIDE DEF x, y, z
<1>6. x \div 4 \in 0 .. 63 /\ y \div 16 \in 0 .. 15 /\ z \div 64 \in 0 .. 3
  BY <1>4
<1>7. x % 4 \in 0 .. 3 /\ y % 16 \in 0 .. 15 /\ z % 64 \in 0 .. 63
  BY <1>4
<1>8. CASE p = 1
  BY <1>1, <1>2, <1>3, <1>5, <1>6, <1>8 DEF n
<1>9. CASE p = 2
  <2>1. 4 * g + 2 <= chars
    BY <1>1, <1>3
  <2>2. 16 * (x % 4) + (y \div 16) \in 0 .. 63
    <3>1. \A u \in 0 .. 3, w \in 0 .. 15 : 16 * u + w \in 0 .. 63
      OBVIOUS
    <3> QED BY <1>6, <1>7, <3>1, Zenon
  <2>3. Encoded(in)[k] = 16 * (x % 4) + (y \div 16) /\ k <= chars
    BY <1>2, <1>5, <1>9, <2>1
  <2> QED BY <2>2, <2>3, Zenon DEF n
<1>10. CASE p = 3
  <2>1. 4 * g + 3 <= chars <=> ~(3 * g + 2 > n)
    BY <1>1, <1>3
  <2>2. 4 * (y % 16) + (z \div 64) \in 0 .. 63
    <3>1. \A u \in 0 .. 15, w \in 0 .. 3 : 4 * u + w \in 0 .. 63
      OBVIOUS
    <3> QED BY <1>6, <1>7, <3>1, Zenon
  <2>3. Encoded(in)[k] = IF k <= chars THEN 4 * (y % 16) + (z \div 64) ELSE Pad64
    BY <1>2, <1>5, <1>10, <2>1
  <2> QED BY <2>2, <2>3, Zenon DEF n
<1>11. CASE p = 4
  <2>1. 4 * g + 4 <= chars <=> ~(3 * g + 3 > n)
    BY <1>1, <1>3
  <2> QED BY <1>2, <1>5, <1>6, <1>7, <1>11, <2>1 DEF n
<1> QED BY <1>8, <1>9, <1>10, <1>11

\* Which byte and which character holds a bit, and at which place
InByte(k, q, c) == (k - 1) \div 8 = q /\ ((k - 1) % 8) + 1 = c
IsInByte(k, q, c) == q \in Nat /\ c \in 1 .. 8 /\ k = 8 * q + c
InChar(k, q, c) == (k + 5) \div 6 = q + 1 /\ ((k - 1) % 6) + 1 = c
IsInChar(k, q, c) == q \in Nat /\ c \in 1 .. 6 /\ k = 6 * q + c

\* The place of a bit in its byte is the one of the standard.
LEMMA BitPlace == ASSUME NEW k, NEW q, NEW c, IsInByte(k, q, c) PROVE InByte(k, q, c)
<1>0. q \in Nat /\ c \in 1 .. 8 /\ k = 8 * q + c
  BY DEF IsInByte
<1>1. (k - 1) \div 8 = q
  BY <1>0
<1>2. k - 1 = 8 * ((k - 1) \div 8) + ((k - 1) % 8)
  BY <1>0
<1>3. (k - 1) % 8 \in Int
  BY <1>0
<1> QED BY <1>0, <1>1, <1>2, <1>3 DEF InByte

\* So is its place in its character.
LEMMA CharPlace == ASSUME NEW k, NEW q, NEW c, IsInChar(k, q, c) PROVE InChar(k, q, c)
<1>0. q \in Nat /\ c \in 1 .. 6 /\ k = 6 * q + c
  BY DEF IsInChar
<1>1. (k + 5) \div 6 = q + 1 /\ (k - 1) \div 6 = q
  BY <1>0
<1>2. k - 1 = 6 * ((k - 1) \div 6) + ((k - 1) % 6)
  BY <1>0
<1>3. (k - 1) % 6 \in Int
  BY <1>0
<1> QED BY <1>0, <1>1, <1>2, <1>3 DEF InChar

\* The bits of the characters are those of the bytes.
LEMMA BitsFollow ==
  ASSUME NEW in \in Seq(0 .. 255), NEW k \in 1 .. 6 * ((8 * Len(in) + 5) \div 6)
  PROVE  Bit(Encoded(in)[(k + 5) \div 6], 6, ((k - 1) % 6) + 1)
            = Bit(ByteAt(in, (k - 1) \div 8), 8, ((k - 1) % 8) + 1)
<1> DEFINE n == Len(in)
           chars == (8 * n + 5) \div 6
<1>1. n \in Nat /\ EncodedSize(n) \in Nat /\ chars \in Nat /\ EncodedSize(n) = 4 * ((chars + 3) \div 4)
  BY LenProperties, EncodedLen
<1> HIDE DEF n
<1>2. PICK g \in Nat, p \in 0 .. 3, b \in 1 .. 6 : k = 24 * g + 6 * p + b
  <2> DEFINE e == k - 1
             f == e % 24
  <2>0. e \in Nat /\ k = e + 1
    BY <1>1 DEF n
  <2> HIDE DEF e
  <2>1. e \div 24 \in Nat /\ f \in 0 .. 23 /\ e = 24 * (e \div 24) + f
    BY <2>0
  <2> HIDE DEF f
  <2>2. f \div 6 \in 0 .. 3 /\ (f % 6) + 1 \in 1 .. 6 /\ f = 6 * (f \div 6) + (f % 6)
    BY <2>1
  <2>3. k = 24 * (e \div 24) + 6 * (f \div 6) + ((f % 6) + 1)
    BY <2>0, <2>1, <2>2
  <2> QED BY <2>1, <2>2, <2>3
<1>3. (k + 5) \div 6 = 4 * g + p + 1 /\ ((k - 1) % 6) + 1 = b
  <2>1. IsInChar(k, 4 * g + p, b)
    BY <1>2 DEF IsInChar
  <2> QED BY <2>1, CharPlace, Zenon DEF InChar
<1>4. 4 * g + p + 1 <= chars
  BY <1>1, <1>2 DEF n
<1>5. 4 * g + 4 <= EncodedSize(n) /\ 3 * g < n
  BY <1>1, <1>4
<1> DEFINE x == ByteAt(in, 3 * g)
           y == ByteAt(in, 3 * g + 1)
           z == ByteAt(in, 3 * g + 2)
           char == Encoded(in)[4 * g + p + 1]
<1>6. x \in 0 .. 255 /\ y \in 0 .. 255 /\ z \in 0 .. 255
  BY ByteAtFacts
<1>7. /\ Encoded(in)[4 * g + 1] = x \div 4
      /\ Encoded(in)[4 * g + 2] = 16 * (x % 4) + (y \div 16)
      /\ Encoded(in)[4 * g + 3] = IF 3 * g + 2 > n THEN Pad64 ELSE 4 * (y % 16) + (z \div 64)
      /\ Encoded(in)[4 * g + 4] = IF 3 * g + 3 > n THEN Pad64 ELSE z % 64
  BY <1>5, EncodedChars DEF n
<1> HIDE DEF x, y, z, char
<1> SUFFICES Bit(char, 6, b) = Bit(ByteAt(in, (k - 1) \div 8), 8, ((k - 1) % 8) + 1)
  BY <1>3, Zenon DEF char
<1>8. CASE p = 0
  <2>1. (k - 1) \div 8 = 3 * g /\ ((k - 1) % 8) + 1 = b
    <3>1. IsInByte(k, 3 * g, b)
      BY <1>2, <1>8 DEF IsInByte
    <3> QED BY <3>1, BitPlace, Zenon DEF InByte
  <2>2. char = x \div 4
    BY <1>7, <1>8 DEF char
  <2>3. Bit(x \div 4, 6, b) = Bit(x, 8, b)
    BY <1>6, FirstChar, Zenon
  <2> QED BY <2>1, <2>2, <2>3, Zenon DEF x
<1>9. CASE p = 1
  <2>0. char = 16 * (x % 4) + (y \div 16)
    BY <1>7, <1>9 DEF char
  <2>1. CASE b \in 1 .. 2
    <3>1. IsInByte(k, 3 * g, b + 6)
      BY <1>2, <1>9, <2>1 DEF IsInByte
    <3>2. (k - 1) \div 8 = 3 * g /\ ((k - 1) % 8) + 1 = b + 6
      BY <3>1, BitPlace, Zenon DEF InByte
    <3>3. Bit(char, 6, b) = Bit(x, 8, b + 6)
      BY <1>6, <2>0, <2>1, SecondChar, Zenon
    <3> QED BY <3>2, <3>3, Zenon DEF x
  <2>2. CASE b \in 3 .. 6
    <3>1. IsInByte(k, 3 * g + 1, b - 2)
      BY <1>2, <1>9, <2>2 DEF IsInByte
    <3>2. (k - 1) \div 8 = 3 * g + 1 /\ ((k - 1) % 8) + 1 = b - 2
      BY <3>1, BitPlace, Zenon DEF InByte
    <3>3. Bit(char, 6, b) = Bit(y, 8, b - 2)
      BY <1>6, <2>0, <2>2, SecondChar, Zenon
    <3> QED BY <3>2, <3>3, Zenon DEF y
  <2> QED BY <2>1, <2>2
<1>10. CASE p = 2
  <2>0. ~(3 * g + 2 > n)
    BY <1>1, <1>4, <1>10
  <2>1. char = 4 * (y % 16) + (z \div 64)
    BY <1>7, <1>10, <2>0 DEF char
  <2>2. CASE b \in 1 .. 4
    <3>1. IsInByte(k, 3 * g + 1, b + 4)
      BY <1>2, <1>10, <2>2 DEF IsInByte
    <3>2. (k - 1) \div 8 = 3 * g + 1 /\ ((k - 1) % 8) + 1 = b + 4
      BY <3>1, BitPlace, Zenon DEF InByte
    <3>3. Bit(char, 6, b) = Bit(y, 8, b + 4)
      BY <1>6, <2>1, <2>2, ThirdChar, Zenon
    <3> QED BY <3>2, <3>3, Zenon DEF y
  <2>3. CASE b \in 5 .. 6
    <3>1. IsInByte(k, 3 * g + 2, b - 4)
      BY <1>2, <1>10, <2>3 DEF IsInByte
    <3>2. (k - 1) \div 8 = 3 * g + 2 /\ ((k - 1) % 8) + 1 = b - 4
      BY <3>1, BitPlace, Zenon DEF InByte
    <3>3. Bit(char, 6, b) = Bit(z, 8, b - 4)
      BY <1>6, <2>1, <2>3, ThirdChar, Zenon
    <3> QED BY <3>2, <3>3, Zenon DEF z
  <2> QED BY <2>2, <2>3
<1>11. CASE p = 3
  <2>0. ~(3 * g + 3 > n)
    BY <1>1, <1>4, <1>11
  <2>1. IsInByte(k, 3 * g + 2, b + 2)
    BY <1>2, <1>11 DEF IsInByte
  <2>2. (k - 1) \div 8 = 3 * g + 2 /\ ((k - 1) % 8) + 1 = b + 2
    BY <2>1, BitPlace, Zenon DEF InByte
  <2>3. char = z % 64
    BY <1>7, <1>11, <2>0 DEF char
  <2>4. Bit(z % 64, 6, b) = Bit(z, 8, b + 2)
    BY <1>6, FourthChar, Zenon
  <2> QED BY <2>2, <2>3, <2>4, Zenon DEF z
<1> QED BY <1>8, <1>9, <1>10, <1>11

\* For every text of bytes: what b64_encode makes of it is its encoding by RFC 4648.
THEOREM EncodedIsRfc ==
  ASSUME NEW in \in Seq(0 .. 255)
  PROVE  IsEncodingOf(Encoded(in), in)
<1> DEFINE n == Len(in)
           chars == (8 * n + 5) \div 6
           out == Encoded(in)
<1>1. n \in Nat /\ EncodedSize(n) \in Nat /\ chars \in Nat /\ EncodedSize(n) = 4 * ((chars + 3) \div 4)
  BY LenProperties, EncodedLen
<1>2. DOMAIN out = 1 .. EncodedSize(n) /\ Len(out) = EncodedSize(n)
  <2>1. \E f : out = [j \in 1 .. EncodedSize(n) |-> f[j]]
    <3> DEFINE char(i, place) == IF i + place > Len(in) THEN Pad64
                                 ELSE (Triple(in, i) \div Shifts[place + 1]) % 64
               f == [j \in 1 .. EncodedSize(n) |-> char(3 * ((j - 1) \div 4), (j - 1) % 4)]
    <3>1. out = f
      BY Zenon DEF Encoded
    <3> HIDE DEF char
    <3>2. f = [j \in 1 .. EncodedSize(n) |-> f[j]]
      OBVIOUS
    <3> QED BY <3>1, <3>2, Zenon
  <2> HIDE DEF out, n
  <2> QED BY <1>1, <2>1
<1>3. \A k \in DOMAIN out : IF k <= chars THEN out[k] \in 0 .. 63 ELSE out[k] = Pad64
  BY <1>2, CharsFill, Zenon
<1>4. ASSUME NEW k \in 1 .. 6 * chars
      PROVE  Bit(out[(k + 5) \div 6], 6, ((k - 1) % 6) + 1)
                = IF k > 8 * n THEN 0 ELSE Bit(in[(k + 7) \div 8], 8, ((k - 1) % 8) + 1)
  <2>1. Bit(out[(k + 5) \div 6], 6, ((k - 1) % 6) + 1)
           = Bit(ByteAt(in, (k - 1) \div 8), 8, ((k - 1) % 8) + 1)
    BY BitsFollow, Zenon
  <2>2. (k + 7) \div 8 = ((k - 1) \div 8) + 1 /\ (k > 8 * n <=> ~((k - 1) \div 8 < n))
    BY <1>1
  <2>3. CASE k > 8 * n
    <3>1. ByteAt(in, (k - 1) \div 8) = 0
      BY <2>2, <2>3, Zenon DEF ByteAt
    <3>2. ((k - 1) % 8) + 1 \in 1 .. 8
      BY <1>1
    <3>3. \A b \in 1 .. 8 : Bit(0, 8, b) = 0
      BY BitsOfByte
    <3> QED BY <2>1, <2>3, <3>1, <3>2, <3>3
  <2>4. CASE ~(k > 8 * n)
    <3>1. ByteAt(in, (k - 1) \div 8) = in[(k + 7) \div 8]
      BY <2>2, <2>4, Zenon DEF ByteAt
    <3> QED BY <2>1, <2>4, <3>1, Zenon
  <2> QED BY <2>3, <2>4
<1> QED BY <1>1, <1>2, <1>3, <1>4, Zenon DEF IsEncodingOf

-----------------------------------------------------------------------------
(* SHA-1                                                                   *)

\* MessageBytes of a message, and bytes of a value
Octets == {"m", "b"} \X Nat
Contexts == [block : Seq(Octets), length : Nat, blocks : Seq(Seq(Octets)),
             computed : BOOLEAN, corrupted : BOOLEAN]

\* The context after n bytes: its full blocks, and the bytes behind them
MessageBytes(from, n) == [j \in 1 .. n |-> <<"m", from + j>>]
FullBlocks(q) == [k \in 1 .. q |-> MessageBytes(64 * (k - 1), 64)]
Open(block, length, blocks) ==
    [block |-> block, length |-> length, blocks |-> blocks, computed |-> FALSE, corrupted |-> FALSE]
Ctx(n) == Open(MessageBytes(64 * (n \div 64), n % 64), 8 * n, FullBlocks(n \div 64))

\* The parts of a context are sequences.
LEMMA BytesFacts ==
  ASSUME NEW f \in Nat, NEW n \in Nat
  PROVE  /\ MessageBytes(f, n) \in Seq(Octets) /\ Len(MessageBytes(f, n)) = n
         /\ \A j \in 1 .. n : MessageBytes(f, n)[j] = <<"m", f + j>>
         /\ <<"m", f + n + 1>> \in Octets
         /\ Append(MessageBytes(f, n), <<"m", f + n + 1>>) = MessageBytes(f, n + 1)
<1>1. \A j \in 1 .. n + 1 : <<"m", f + j>> \in Octets
  BY DEF Octets
<1>2. MessageBytes(f, n) \in Seq(Octets) /\ Len(MessageBytes(f, n)) = n
  BY <1>1 DEF MessageBytes
<1>3. MessageBytes(f, n + 1) \in Seq(Octets) /\ Len(MessageBytes(f, n + 1)) = n + 1
  BY <1>1 DEF MessageBytes
<1>4. \A j \in 1 .. n : MessageBytes(f, n)[j] = <<"m", f + j>>
  BY DEF MessageBytes
<1>5. \A j \in 1 .. n + 1 : MessageBytes(f, n + 1)[j] = <<"m", f + j>>
  BY DEF MessageBytes
<1>6. <<"m", f + n + 1>> \in Octets
  BY DEF Octets
<1> DEFINE a == MessageBytes(f, n)
           w == <<"m", f + n + 1>>
           s == Append(a, w)
<1>7. /\ s \in Seq(Octets) /\ Len(s) = n + 1
      /\ \A j \in 1 .. n : s[j] = a[j]
      /\ s[n + 1] = w
  <2> HIDE DEF a, w
  <2> QED BY <1>2, <1>6, AppendProperties DEF a, w
<1>8. \A j \in 1 .. n + 1 : s[j] = <<"m", f + j>>
  <2> HIDE DEF s, a
  <2>1. s[n + 1] = <<"m", f + (n + 1)>>
    BY <1>7
  <2>2. \A j \in 1 .. n : s[j] = <<"m", f + j>>
    BY <1>4, <1>7 DEF a
  <2> QED BY <2>1, <2>2
<1> HIDE DEF s
<1>9. s = MessageBytes(f, n + 1)
  BY <1>3, <1>5, <1>7, <1>8, SeqEqual
<1> QED BY <1>2, <1>4, <1>6, <1>9 DEF s

\* The blocks that are full, one by one
LEMMA FullBlocksFacts ==
  ASSUME NEW q \in Nat
  PROVE  /\ FullBlocks(q) \in Seq(Seq(Octets)) /\ Len(FullBlocks(q)) = q
         /\ \A k \in 1 .. q : FullBlocks(q)[k] = MessageBytes(64 * (k - 1), 64)
         /\ Append(FullBlocks(q), MessageBytes(64 * q, 64)) = FullBlocks(q + 1)
<1>1. \A k \in 1 .. q + 1 : MessageBytes(64 * (k - 1), 64) \in Seq(Octets)
  <2> TAKE k \in 1 .. q + 1
  <2>1. 64 * (k - 1) \in Nat /\ 64 \in Nat
    OBVIOUS
  <2> QED BY <2>1, BytesFacts, Zenon
<1>2. MessageBytes(64 * q, 64) \in Seq(Octets)
  <2>1. 64 * q \in Nat /\ 64 \in Nat
    OBVIOUS
  <2> QED BY <2>1, BytesFacts, Zenon
<1> DEFINE s == Append(FullBlocks(q), MessageBytes(64 * q, 64))
           E == Seq(Octets)
           at == [k \in 1 .. q + 1 |-> MessageBytes(64 * (k - 1), 64)]
<1>3. /\ FullBlocks(q) \in Seq(E) /\ Len(FullBlocks(q)) = q
      /\ \A k \in 1 .. q : FullBlocks(q)[k] = MessageBytes(64 * (k - 1), 64)
  <2> HIDE DEF E
  <2> QED BY <1>1 DEF FullBlocks, E
<1>4. /\ FullBlocks(q + 1) \in Seq(E) /\ Len(FullBlocks(q + 1)) = q + 1
      /\ \A k \in 1 .. q + 1 : FullBlocks(q + 1)[k] = MessageBytes(64 * (k - 1), 64)
  <2> HIDE DEF E
  <2> QED BY <1>1 DEF FullBlocks, E
<1>5. s \in Seq(E) /\ Len(s) = q + 1
  <2> HIDE DEF E
  <2> QED BY <1>2, <1>3 DEF E
<1>6. \A k \in 1 .. q + 1 : s[k] = MessageBytes(64 * (k - 1), 64)
  <2> TAKE k \in 1 .. q + 1
  <2>1. CASE k = q + 1
    BY <1>3, <2>1
  <2>2. CASE k # q + 1
    BY <1>3, <2>2
  <2> QED BY <2>1, <2>2
<1> HIDE DEF s, E
<1>7. s = FullBlocks(q + 1)
  BY <1>4, <1>5, <1>6, SeqEqual
<1> QED BY <1>3, <1>7 DEF s, E

\* The type of the context behind n bytes
LEMMA CtxType ==
  ASSUME NEW n \in Nat
  PROVE  /\ Ctx(n) \in Contexts /\ n \div 64 \in Nat /\ n % 64 \in 0 .. 63
         /\ n = 64 * (n \div 64) + (n % 64)
<1>1. n \div 64 \in Nat
  BY SMT
<1>2. n % 64 \in 0 .. 63
  BY SMT
<1>3. n = 64 * (n \div 64) + (n % 64)
  BY SMT
<1>4. MessageBytes(64 * (n \div 64), n % 64) \in Seq(Octets) /\ FullBlocks(n \div 64) \in Seq(Seq(Octets))
  <2>1. 64 * (n \div 64) \in Nat /\ n % 64 \in Nat
    BY <1>1, <1>2
  <2> QED BY <1>1, <2>1, BytesFacts, FullBlocksFacts, ZenonT(60)
<1>5. 8 * n \in Nat
  OBVIOUS
<1>6. \A block \in Seq(Octets), length \in Nat, blocks \in Seq(Seq(Octets)) :
          Open(block, length, blocks) \in Contexts
  BY DEF Open, Contexts
<1> QED BY <1>1, <1>2, <1>3, <1>4, <1>5, <1>6, Zenon DEF Ctx

\* One turn of the loop of SHA1Input
LEMMA PutType ==
  ASSUME NEW c \in Contexts, NEW b \in Octets
  PROVE  Digests!PutByte(c, b) \in Contexts
<1> DEFINE filled == [c EXCEPT !.block = Append(@, b), !.length = @ + 8]
           E == Seq(Octets)
<1>1. filled \in Contexts
  <2>1. Append(c.block, b) \in Seq(Octets) /\ c.length + 8 \in Nat
    BY DEF Contexts
  <2> QED BY <2>1 DEF Contexts
<1>2. Digests!ProcessBlock(filled) \in Contexts
  <2> HIDE DEF filled
  <2>1. filled.block \in E /\ filled.blocks \in Seq(E)
    BY <1>1 DEF Contexts
  <2>2. Append(filled.blocks, filled.block) \in Seq(E) /\ <<>> \in E
    <3>1. <<>> \in E
      OBVIOUS
    <3> HIDE DEF E
    <3> QED BY <2>1, <3>1
  <2> QED BY <1>1, <2>2 DEF Contexts, Digests!ProcessBlock
<1> QED BY <1>1, <1>2, Zenon DEF Digests!PutByte

\* Changes of an open context, field by field
Fields == {"block", "length", "blocks", "computed", "corrupted"}

HasFields(c, bk, ln, bs) ==
    /\ DOMAIN c = Fields /\ c = [i \in Fields |-> c[i]]
    /\ c.block = bk /\ c.length = ln /\ c.blocks = bs /\ c.computed = FALSE /\ c.corrupted = FALSE

\* The fields of a context that is open
LEMMA OpenFields == ASSUME NEW bk, NEW ln, NEW bs PROVE HasFields(Open(bk, ln, bs), bk, ln, bs)
BY DEF Open, Fields, HasFields

\* What agrees in every field is the same.
LEMMA OpenIs ==
  ASSUME NEW bk, NEW ln, NEW bs, NEW f, HasFields(f, bk, ln, bs)
  PROVE  f = Open(bk, ln, bs)
<1> DEFINE u == Open(bk, ln, bs)
<1>1. HasFields(u, bk, ln, bs)
  BY OpenFields, Zenon
<1> HIDE DEF u
<1>2. \A i \in Fields : u[i] = f[i]
  BY <1>1 DEF Fields, HasFields
<1>3. u = f
  BY <1>1, <1>2 DEF HasFields
<1> QED BY <1>3 DEF u

\* The three changes that the functions make
SetBlock(c, x) == [c EXCEPT !.block = x]
SetLength(c, x, n) == [c EXCEPT !.block = x, !.length = n]
SetBlocks(c, s) == [c EXCEPT !.blocks = s, !.block = <<>>]

\* An open context with another block
LEMMA BlockSet ==
  ASSUME NEW bk, NEW ln, NEW bs, NEW x
  PROVE  SetBlock(Open(bk, ln, bs), x) = Open(x, ln, bs)
<1> DEFINE c == Open(bk, ln, bs)
<1>1. HasFields(c, bk, ln, bs)
  BY OpenFields, Zenon
<1> HIDE DEF c
<1>2. HasFields(SetBlock(c, x), x, ln, bs)
  BY <1>1 DEF HasFields, Fields, SetBlock
<1> QED BY <1>2, OpenIs, Zenon DEF c

\* An open context with another block and length
LEMMA LengthSet ==
  ASSUME NEW bk, NEW ln, NEW bs, NEW x, NEW y
  PROVE  SetLength(Open(bk, ln, bs), x, y) = Open(x, y, bs)
<1> DEFINE c == Open(bk, ln, bs)
<1>1. HasFields(c, bk, ln, bs)
  BY OpenFields, Zenon
<1> HIDE DEF c
<1>2. HasFields(SetLength(c, x, y), x, y, bs)
  BY <1>1 DEF HasFields, Fields, SetLength
<1> QED BY <1>2, OpenIs, Zenon DEF c

\* An open context with other blocks, and an empty one to be filled
LEMMA BlocksSet ==
  ASSUME NEW bk, NEW ln, NEW bs, NEW y
  PROVE  SetBlocks(Open(bk, ln, bs), y) = Open(<<>>, ln, y)
<1> DEFINE c == Open(bk, ln, bs)
<1>1. HasFields(c, bk, ln, bs)
  BY OpenFields, Zenon
<1> HIDE DEF c
<1>2. HasFields(SetBlocks(c, y), <<>>, ln, y)
  BY <1>1 DEF HasFields, Fields, SetBlocks
<1> QED BY <1>2, OpenIs, Zenon DEF c

\* SHA1ProcessMessageBlock on an open context
LEMMA ProcessOpen ==
  ASSUME NEW bk, NEW ln, NEW bs
  PROVE  Digests!ProcessBlock(Open(bk, ln, bs)) = Open(<<>>, ln, Append(bs, bk))
<1> DEFINE d == Open(bk, ln, bs)
           last == Append(bs, bk)
<1>1. HasFields(d, bk, ln, bs)
  BY OpenFields, Zenon
<1>2. d.block = bk /\ d.blocks = bs
  BY <1>1, Zenon DEF HasFields
<1>3. Digests!ProcessBlock(d) = SetBlocks(d, last)
  BY <1>2, Zenon DEF Digests!ProcessBlock, SetBlocks
<1> QED BY <1>3, BlocksSet, SMT

\* One byte more in an open context
LEMMA PutOpen ==
  ASSUME NEW bk, NEW ln, NEW bs, NEW b
  PROVE  Digests!PutByte(Open(bk, ln, bs), b)
            = IF Len(Append(bk, b)) = 64 THEN Open(<<>>, ln + 8, Append(bs, Append(bk, b)))
                                         ELSE Open(Append(bk, b), ln + 8, bs)
<1> DEFINE c == Open(bk, ln, bs)
           filled == [c EXCEPT !.block = Append(@, b), !.length = @ + 8]
           d == Open(Append(bk, b), ln + 8, bs)
<1>1. filled = d /\ filled.block = Append(bk, b)
  <2>1. HasFields(c, bk, ln, bs)
    BY OpenFields, Zenon
  <2>2. c.block = bk /\ c.length = ln
    BY <2>1, Zenon DEF HasFields
  <2>3. filled = SetLength(c, Append(bk, b), ln + 8)
    BY <2>2, Zenon DEF SetLength
  <2>4. filled = d
    BY <2>3, LengthSet, SMT
  <2>5. HasFields(d, Append(bk, b), ln + 8, bs)
    BY OpenFields, Zenon
  <2>6. d.block = Append(bk, b)
    BY <2>5, Zenon DEF HasFields
  <2> QED BY <2>4, <2>6, Zenon
<1>2. Digests!PutByte(c, b) = IF Len(filled.block) = 64 THEN Digests!ProcessBlock(filled) ELSE filled
  BY Zenon DEF Digests!PutByte
<1>3. Digests!ProcessBlock(d) = Open(<<>>, ln + 8, Append(bs, Append(bk, b)))
  BY ProcessOpen, Zenon
<1> HIDE DEF filled
<1> QED BY <1>1, <1>2, <1>3, Zenon

\* One byte more of the message
LEMMA PutNext ==
  ASSUME NEW n \in Nat
  PROVE  Digests!PutByte(Ctx(n), <<"m", n + 1>>) = Ctx(n + 1)
<1> DEFINE q == n \div 64
           m == n % 64
           b == <<"m", n + 1>>
           filled == Append(MessageBytes(64 * q, m), b)
<1>1. q \in Nat /\ m \in 0 .. 63 /\ n = 64 * q + m
  BY CtxType
<1>2. Ctx(n) = Open(MessageBytes(64 * q, m), 8 * n, FullBlocks(q))
  BY Zenon DEF Ctx
<1> HIDE DEF q, m
<1>3. filled = MessageBytes(64 * q, m + 1) /\ Len(filled) = m + 1
  <2>1. 64 * q \in Nat /\ m \in Nat /\ m + 1 \in Nat /\ 64 * q + m + 1 = n + 1
    BY <1>1
  <2>2. Append(MessageBytes(64 * q, m), b) = MessageBytes(64 * q, m + 1)
    BY <2>1, BytesFacts, Zenon
  <2>3. Len(MessageBytes(64 * q, m + 1)) = m + 1
    BY <2>1, BytesFacts, Zenon
  <2> QED BY <2>2, <2>3
<1>4. Digests!PutByte(Ctx(n), b)
        = IF Len(filled) = 64 THEN Open(<<>>, 8 * n + 8, Append(FullBlocks(q), filled))
                              ELSE Open(filled, 8 * n + 8, FullBlocks(q))
  <2> HIDE DEF b
  <2> QED BY <1>2, PutOpen, SMT DEF filled
<1>5. 8 * n + 8 = 8 * (n + 1) /\ n + 1 \in Nat
  OBVIOUS
<1> HIDE DEF filled, b
<1>6. CASE m = 63
  <2>1. (n + 1) \div 64 = q + 1 /\ (n + 1) % 64 = 0
    <3>1. (n + 1) \div 64 = q + 1
      BY <1>1, <1>6
    <3>2. n + 1 = 64 * ((n + 1) \div 64) + ((n + 1) % 64) /\ (n + 1) % 64 \in Int
      OBVIOUS
    <3> QED BY <1>1, <1>6, <3>1, <3>2
  <2>2. Append(FullBlocks(q), filled) = FullBlocks(q + 1)
    <3>1. Append(FullBlocks(q), MessageBytes(64 * q, 64)) = FullBlocks(q + 1)
      BY <1>1, FullBlocksFacts
    <3>2. m + 1 = 64
      BY <1>6
    <3> QED BY <1>3, <3>1, <3>2
  <2>3. MessageBytes(64 * (q + 1), 0) = <<>>
    BY DEF MessageBytes
  <2>4. Ctx(n + 1) = Open(<<>>, 8 * (n + 1), FullBlocks(q + 1))
    BY <2>1, <2>3, Zenon DEF Ctx
  <2>5. Len(filled) = 64
    BY <1>3, <1>6
  <2> QED BY <1>4, <1>5, <2>2, <2>4, <2>5, Zenon DEF b
<1>7. CASE m # 63
  <2>1. (n + 1) \div 64 = q /\ (n + 1) % 64 = m + 1
    <3>1. (n + 1) \div 64 = q
      BY <1>1, <1>7
    <3>2. n + 1 = 64 * ((n + 1) \div 64) + ((n + 1) % 64) /\ (n + 1) % 64 \in Int
      OBVIOUS
    <3> QED BY <1>1, <1>7, <3>1, <3>2
  <2>2. Ctx(n + 1) = Open(filled, 8 * (n + 1), FullBlocks(q))
    BY <1>3, <2>1, Zenon DEF Ctx
  <2>3. m + 1 # 64 /\ Len(filled) # 64
    <3>1. m + 1 # 64
      BY <1>1, <1>7
    <3> QED BY <1>3, <3>1, Zenon
  <2> QED BY <1>4, <1>5, <2>2, <2>3, Zenon DEF b
<1> QED BY <1>6, <1>7

\* SHA1Input takes the bytes one after the other.
LEMMA InputFolds ==
  ASSUME NEW t \in Nat, NEW n \in Nat
  PROVE  FoldLeft(Digests!PutByte, Ctx(t), [k \in 1 .. n |-> <<"m", t + k>>]) = Ctx(t + n)
<1> DEFINE seq == [k \in 1 .. n |-> <<"m", t + k>>]
           S == DOMAIN seq
           base == Ctx(t)
           G == [p \in (1 .. n) \X Contexts |-> Digests!PutByte(p[2], seq[p[1]])]
           Body(g) == [s \in SUBSET S |->
                         IF s = {} THEN base ELSE Digests!PutByte(g[s \ {Max(s)}], seq[Max(s)])]
           iter == CHOOSE g : g = Body(g)
<1>1. S = 1 .. n /\ \A k \in 1 .. n : seq[k] = <<"m", t + k>> /\ seq[k] \in Octets
  BY DEF Octets
<1>2. base \in Contexts
  BY CtxType
<1>3. ASSUME NEW p \in (1 .. n) \X Contexts PROVE Digests!PutByte(p[2], seq[p[1]]) \in Contexts
  <2>1. p[1] \in 1 .. n /\ p[2] \in Contexts
    OBVIOUS
  <2> HIDE DEF seq
  <2> QED BY <1>1, <2>1, PutType, Zenon
<1> HIDE DEF seq
<1>4. G \in [(1 .. n) \X Contexts -> Contexts]
  BY <1>3
<1>5. PICK g \in [SUBSET (1 .. n) -> Contexts] : FoldsBy(g, n, base, G)
  <2> HIDE DEF base, G
  <2> QED BY <1>2, <1>4, FoldUpExists, Zenon
<1>6. ASSUME NEW s \in SUBSET (1 .. n), s # {} PROVE Max(s) \in 1 .. n
  <2>1. Max(s) \in s
    BY <1>6, LastPosition
  <2> QED BY <2>1
<1> HIDE DEF base, S
<1>7. ASSUME NEW h, NEW s \in SUBSET (1 .. n), s # {}, h[s \ {Max(s)}] \in Contexts
      PROVE  G[<<Max(s), h[s \ {Max(s)}]>>] = Digests!PutByte(h[s \ {Max(s)}], seq[Max(s)])
  BY <1>6, <1>7
<1> HIDE DEF G
<1>8. g = Body(g)
  <2>1. ASSUME NEW s \in SUBSET S
        PROVE  g[s] = IF s = {} THEN base ELSE Digests!PutByte(g[s \ {Max(s)}], seq[Max(s)])
    BY <1>1, <1>5, <1>7 DEF FoldsBy
  <2> QED BY <1>1, <1>5, <2>1
<1>9. iter = Body(iter)
  <2> HIDE DEF Body
  <2> QED BY <1>8, Zenon
<1> HIDE DEF iter
<1>10. iter[{}] = base
  BY <1>9
<1>11. ASSUME NEW s \in SUBSET (1 .. n), s # {}, iter[s \ {Max(s)}] \in Contexts
       PROVE  iter[s] = G[<<Max(s), iter[s \ {Max(s)}]>>]
  <2>1. iter[s] = Body(iter)[s]
    BY <1>9, Zenon
  <2>2. Body(iter)[s] = Digests!PutByte(iter[s \ {Max(s)}], seq[Max(s)])
    BY <1>1, <1>11
  <2> QED BY <1>7, <1>11, <2>1, <2>2
<1>12. PICK r \in [0 .. n -> Contexts] : Turns(r, n, base, G) /\ r[n] = iter[1 .. n]
  <2>1. FoldsIn(iter, n, Contexts, base, G)
    BY <1>10, <1>11, Zenon DEF FoldsIn
  <2>2. HasTurns(iter, n, Contexts, base, G)
    BY <2>1, <1>2, <1>4, FoldTurns, Zenon
  <2> QED BY <2>2, Zenon DEF HasTurns
<1> DEFINE T == {k \in 0 .. n : r[k] = Ctx(t + k)}
<1>13. 0 \in T
  BY <1>12 DEF Turns, base
<1>14. ASSUME NEW k \in 1 .. n, k - 1 \in T PROVE k \in T
  <2>1. r[k - 1] = Ctx(t + (k - 1)) /\ r[k - 1] \in Contexts /\ t + (k - 1) \in Nat
        /\ t + (k - 1) + 1 = t + k
    BY <1>12, <1>14
  <2>2. r[k] = G[<<k, r[k - 1]>>]
    BY <1>12 DEF Turns
  <2>3. G[<<k, r[k - 1]>>] = Digests!PutByte(r[k - 1], <<"m", t + k>>)
    BY <1>1, <2>1 DEF G
  <2>4. Digests!PutByte(Ctx(t + (k - 1)), <<"m", t + (k - 1) + 1>>) = Ctx(t + (k - 1) + 1)
    BY <2>1, PutNext
  <2>5. r[k] = Ctx(t + k)
    BY <2>1, <2>2, <2>3, <2>4
  <2> QED BY <2>5
<1>15. r[n] = Ctx(t + n)
  <2> HIDE DEF T
  <2>1. \A k \in 0 .. n : k \in T
    BY <1>13, <1>14, CountUp, Zenon
  <2> QED BY <2>1 DEF T
<1>16. FoldLeft(Digests!PutByte, Ctx(t), seq) = iter[S]
  BY DEF FoldLeft, MapThenFoldSet, iter, S, base
<1> QED BY <1>1, <1>12, <1>15, <1>16 DEF seq

-----------------------------------------------------------------------------
\* The padded text, without its length
PaddedByte(n, k) == IF k <= n THEN <<"m", k>> ELSE IF k = n + 1 THEN <<"b", 128>> ELSE <<"b", 0>>
Padding(n, from, len) == [j \in 1 .. len |-> PaddedByte(n, from + j)]

\* The padded text, byte by byte
LEMMA PaddingFacts ==
  ASSUME NEW n \in Nat, NEW from \in Nat, NEW len \in Nat
  PROVE  /\ Padding(n, from, len) \in Seq(Octets) /\ Len(Padding(n, from, len)) = len
         /\ \A j \in 1 .. len : Padding(n, from, len)[j] = PaddedByte(n, from + j)
<1>1. \A j \in 1 .. len : PaddedByte(n, from + j) \in Octets
  BY DEF PaddedByte, Octets
<1> QED BY <1>1 DEF Padding

\* Zeros, byte by byte
LEMMA ZerosFacts ==
  ASSUME NEW n \in Nat
  PROVE  /\ Digests!Zeros(n) \in Seq(Octets) /\ Len(Digests!Zeros(n)) = n
         /\ \A j \in 1 .. n : Digests!Zeros(n)[j] = <<"b", 0>>
<1>1. <<"b", 0>> \in Octets
  BY DEF Octets
<1> QED BY <1>1 DEF Digests!Zeros, Digests!Byte

\* A full block of the message, and what SHA1PadMessage puts behind the message
LEMMA PaddingIs ==
  ASSUME NEW n \in Nat
  PROVE  /\ \A q \in Nat : 64 * (q + 1) <= n => MessageBytes(64 * q, 64) = Padding(n, 64 * q, 64)
         /\ \A q \in Nat, m \in Nat, z \in Nat : n = 64 * q + m =>
                Append(MessageBytes(64 * q, m), <<"b", 128>>) \o Digests!Zeros(z)
                    = Padding(n, 64 * q, m + 1 + z)
         /\ \A q \in Nat : n < 64 * q => Digests!Zeros(56) = Padding(n, 64 * q, 56)
<1>1. ASSUME NEW q \in Nat, 64 * (q + 1) <= n PROVE MessageBytes(64 * q, 64) = Padding(n, 64 * q, 64)
  <2>1. \A j \in 1 .. 64 : PaddedByte(n, 64 * q + j) = <<"m", 64 * q + j>>
    BY <1>1 DEF PaddedByte
  <2> QED BY <2>1 DEF MessageBytes, Padding
<1>2. ASSUME NEW q \in Nat, NEW m \in Nat, NEW z \in Nat, n = 64 * q + m
      PROVE  Append(MessageBytes(64 * q, m), <<"b", 128>>) \o Digests!Zeros(z) = Padding(n, 64 * q, m + 1 + z)
  <2> DEFINE a == Append(MessageBytes(64 * q, m), <<"b", 128>>)
             s == a \o Digests!Zeros(z)
             u == Padding(n, 64 * q, m + 1 + z)
  <2>1. 64 * q \in Nat /\ m + 1 + z \in Nat /\ <<"b", 128>> \in Octets
    BY DEF Octets
  <2>2. u \in Seq(Octets) /\ Len(u) = m + 1 + z
        /\ \A j \in 1 .. m + 1 + z : u[j] = PaddedByte(n, 64 * q + j)
    BY <2>1, PaddingFacts, ZenonT(60)
  <2>3. MessageBytes(64 * q, m) \in Seq(Octets) /\ Len(MessageBytes(64 * q, m)) = m
        /\ \A j \in 1 .. m : MessageBytes(64 * q, m)[j] = <<"m", 64 * q + j>>
    BY <2>1, BytesFacts
  <2>4. a \in Seq(Octets) /\ Len(a) = m + 1 /\ a[m + 1] = <<"b", 128>>
        /\ \A j \in 1 .. m : a[j] = <<"m", 64 * q + j>>
    <3> DEFINE d == MessageBytes(64 * q, m)
               w == <<"b", 128>>
    <3>1. d \in Seq(Octets) /\ w \in Octets /\ Len(d) = m
      BY <2>1, <2>3
    <3>2. \A j \in 1 .. m : d[j] = <<"m", 64 * q + j>>
      BY <2>3
    <3> HIDE DEF d, w
    <3>3. /\ Append(d, w) \in Seq(Octets) /\ Len(Append(d, w)) = m + 1 /\ Append(d, w)[m + 1] = w
          /\ \A j \in 1 .. m : Append(d, w)[j] = d[j]
      BY <3>1, AppendProperties
    <3>4. a = Append(d, w)
      BY DEF d, w
    <3> HIDE DEF a
    <3>5. \A j \in 1 .. m : a[j] = <<"m", 64 * q + j>>
      BY <3>2, <3>3, <3>4
    <3> QED BY <3>3, <3>4, <3>5 DEF w
  <2> HIDE DEF a, u
  <2>5. /\ Digests!Zeros(z) \in Seq(Octets) /\ Len(Digests!Zeros(z)) = z
        /\ \A j \in 1 .. z : Digests!Zeros(z)[j] = <<"b", 0>>
    BY ZerosFacts
  <2>6. s \in Seq(Octets) /\ Len(s) = m + 1 + z
        /\ \A j \in 1 .. m + 1 + z : s[j] = IF j <= m + 1 THEN a[j] ELSE Digests!Zeros(z)[j - (m + 1)]
    BY <2>4, <2>5, ConcatProperties
  <2> HIDE DEF s
  <2>7. \A j \in 1 .. m + 1 + z : s[j] = PaddedByte(n, 64 * q + j)
    <3> TAKE j \in 1 .. m + 1 + z
    <3>1. CASE j <= m
      BY <1>2, <2>4, <2>6, <3>1 DEF PaddedByte
    <3>2. CASE j = m + 1
      <4>1. 64 * q + j = n + 1 /\ ~(64 * q + j <= n)
        BY <1>2, <3>2
      <4>2. s[j] = <<"b", 128>>
        BY <2>4, <2>6, <3>2
      <4> QED BY <4>1, <4>2, Zenon DEF PaddedByte
    <3>3. CASE j > m + 1
      <4>1. j - (m + 1) \in 1 .. z
        BY <3>3
      <4>2. 64 * q + j # n + 1 /\ ~(64 * q + j <= n)
        BY <1>2, <3>3
      <4>3. s[j] = <<"b", 0>>
        BY <2>5, <2>6, <3>3, <4>1
      <4> QED BY <4>2, <4>3, Zenon DEF PaddedByte
    <3> QED BY <3>1, <3>2, <3>3
  <2>8. s = u
    BY <2>2, <2>6, <2>7, SeqEqual
  <2> QED BY <2>8 DEF s, a, u
<1>3. ASSUME NEW q \in Nat, n < 64 * q PROVE Digests!Zeros(56) = Padding(n, 64 * q, 56)
  <2>1. \A j \in 1 .. 56 : PaddedByte(n, 64 * q + j) = <<"b", 0>>
    BY <1>3 DEF PaddedByte
  <2> QED BY <2>1 DEF Digests!Zeros, Digests!Byte, Padding
<1> QED BY <1>1, <1>2, <1>3

\* What SHA1PadMessage makes of an open context
Marked(bk) == Append(bk, <<"b", 128>>)

\* SHA1PadMessage on an open context: one block more, or two
LEMMA PadOpen ==
  ASSUME NEW bk, NEW ln, NEW bs
  PROVE  Digests!Pad(Open(bk, ln, bs))
            = IF Len(bk) > 55
              THEN Open(<<>>, ln, Append(Append(bs, Marked(bk) \o Digests!Zeros(64 - Len(Marked(bk)))),
                       Digests!WithLength(<<>> \o Digests!Zeros(56 - Len(<<>>)), ln)))
              ELSE Open(<<>>, ln, Append(bs,
                       Digests!WithLength(Marked(bk) \o Digests!Zeros(56 - Len(Marked(bk))), ln)))
<1> DEFINE c == Open(bk, ln, bs)
           Fill(b, n) == b \o Digests!Zeros(n - Len(b))
           marked == [c EXCEPT !.block = Append(@, Digests!Byte(128))]
           full == Digests!ProcessBlock([marked EXCEPT !.block = @ \o Digests!Zeros(64 - Len(@))])
           last == IF Len(c.block) > 55 THEN full ELSE marked
           m == Open(Marked(bk), ln, bs)
           f == Open(<<>>, ln, Append(bs, Fill(Marked(bk), 64)))
           l == IF Len(bk) > 55 THEN f ELSE m
<1>1. Digests!Pad(c) = Digests!ProcessBlock(
          [last EXCEPT !.block = Digests!WithLength(@ \o Digests!Zeros(56 - Len(@)), c.length)])
  BY Zenon DEF Digests!Pad
<1>2. HasFields(c, bk, ln, bs) /\ HasFields(m, Marked(bk), ln, bs)
      /\ HasFields(f, <<>>, ln, Append(bs, Fill(Marked(bk), 64)))
  BY OpenFields, Zenon
<1>3. c.block = bk /\ c.length = ln /\ m.block = Marked(bk) /\ f.block = <<>>
  BY <1>2, Zenon DEF HasFields
<1>4. SetBlock(c, Marked(bk)) = m
  BY BlockSet, SMT
<1>5. marked = m
  BY <1>3, <1>4, Zenon DEF SetBlock, Marked, Digests!Byte
<1>6. SetBlock(m, Fill(Marked(bk), 64)) = Open(Fill(Marked(bk), 64), ln, bs)
  BY BlockSet, SMT
<1>7. full = Digests!ProcessBlock(SetBlock(m, Fill(m.block, 64)))
  BY <1>5, Zenon DEF SetBlock
<1>8. Digests!ProcessBlock(Open(Fill(Marked(bk), 64), ln, bs)) = f
  BY ProcessOpen, SMT
<1>9. full = f
  BY <1>3, <1>6, <1>7, <1>8, Zenon
<1>10. last = l
  BY <1>3, <1>5, <1>9, Zenon
<1>11. Digests!Pad(c) = Digests!ProcessBlock(SetBlock(l, Digests!WithLength(Fill(l.block, 56), ln)))
  BY <1>1, <1>3, <1>10, Zenon DEF SetBlock
<1>12. SetBlock(f, Digests!WithLength(Fill(<<>>, 56), ln))
         = Open(Digests!WithLength(Fill(<<>>, 56), ln), ln, Append(bs, Fill(Marked(bk), 64)))
  BY BlockSet, SMT
<1>13. SetBlock(m, Digests!WithLength(Fill(Marked(bk), 56), ln))
         = Open(Digests!WithLength(Fill(Marked(bk), 56), ln), ln, bs)
  BY BlockSet, SMT
<1>14. CASE Len(bk) > 55
  <2>1. l = f
    BY <1>14, Zenon
  <2>2. Digests!Pad(c) = Digests!ProcessBlock(
            Open(Digests!WithLength(Fill(<<>>, 56), ln), ln, Append(bs, Fill(Marked(bk), 64))))
    BY <1>3, <1>11, <1>12, <2>1, Zenon
  <2> HIDE DEF c, Fill
  <2>3. Digests!Pad(c) = Open(<<>>, ln, Append(Append(bs, Fill(Marked(bk), 64)),
                                               Digests!WithLength(Fill(<<>>, 56), ln)))
    BY <2>2, ProcessOpen, SMT
  <2> QED BY <1>14, <2>3, Zenon DEF c, Fill
<1>15. CASE ~(Len(bk) > 55)
  <2>1. l = m
    BY <1>15, Zenon
  <2>2. Digests!Pad(c) = Digests!ProcessBlock(
            Open(Digests!WithLength(Fill(Marked(bk), 56), ln), ln, bs))
    BY <1>3, <1>11, <1>13, <2>1, Zenon
  <2> HIDE DEF c, Fill
  <2>3. Digests!Pad(c) = Open(<<>>, ln, Append(bs, Digests!WithLength(Fill(Marked(bk), 56), ln)))
    BY <2>2, ProcessOpen, SMT
  <2> QED BY <1>15, <2>3, Zenon DEF c, Fill
<1> QED BY <1>14, <1>15, Zenon

\* The padded message as blocks: the last one holds the length.
PaddedBlocks(s, n, K) ==
    /\ K \in Nat \ {0} /\ 64 * K - 9 - n \in 0 .. 63 /\ Len(s) = K /\ DOMAIN s = 1 .. K
    /\ \A k \in 1 .. K - 1 : s[k] = Padding(n, 64 * (k - 1), 64)
    /\ s[K] = Digests!WithLength(Padding(n, 64 * (K - 1), 56), 8 * n)

\* What SHA1PadMessage leaves are whole blocks of the padded text.
LEMMA PadShape ==
  ASSUME NEW n \in Nat
  PROVE  \E K \in Nat : PaddedBlocks(Digests!Pad(Ctx(n)).blocks, n, K)
<1> DEFINE q == n \div 64
           m == n % 64
           bk == MessageBytes(64 * q, m)
           bs == FullBlocks(q)
           W(b) == Digests!WithLength(b, 8 * n)
           E == Seq(Octets)
<1>1. q \in Nat /\ m \in 0 .. 63 /\ n = 64 * q + m
  BY CtxType
<1>2. Ctx(n) = Open(bk, 8 * n, bs)
  BY Zenon DEF Ctx
<1> HIDE DEF q, m
<1>3. 64 * q \in Nat /\ m \in Nat /\ m + 1 \in Nat
  BY <1>1
<1>4. Len(bk) = m /\ bk \in E
  BY <1>3, BytesFacts, Zenon
<1>5. Len(Marked(bk)) = m + 1
  BY <1>4 DEF Marked
<1>6. Len(bs) = q /\ \A k \in 1 .. q : bs[k] = Padding(n, 64 * (k - 1), 64)
  <2>1. Len(bs) = q /\ \A k \in 1 .. q : bs[k] = MessageBytes(64 * (k - 1), 64)
    BY <1>1, FullBlocksFacts, Zenon
  <2>2. \A k \in 1 .. q : k - 1 \in Nat /\ 64 * ((k - 1) + 1) <= n
    BY <1>1
  <2>3. \A k \in 1 .. q : MessageBytes(64 * (k - 1), 64) = Padding(n, 64 * (k - 1), 64)
    BY <2>2, PaddingIs, Zenon
  <2> QED BY <2>1, <2>3, Zenon
<1>7. bs \in Seq(E)
  BY <1>1, FullBlocksFacts, Zenon
<1>8. ASSUME NEW z \in Nat
      PROVE  Marked(bk) \o Digests!Zeros(z) = Padding(n, 64 * q, m + 1 + z)
  <2>1. \A i \in Nat, j \in Nat, y \in Nat : n = 64 * i + j =>
            Append(MessageBytes(64 * i, j), <<"b", 128>>) \o Digests!Zeros(y) = Padding(n, 64 * i, j + 1 + y)
    BY PaddingIs, Zenon
  <2>2. Append(MessageBytes(64 * q, m), <<"b", 128>>) \o Digests!Zeros(z) = Padding(n, 64 * q, m + 1 + z)
    <3>1. \A j \in Nat, y \in Nat : n = 64 * q + j =>
            Append(MessageBytes(64 * q, j), <<"b", 128>>) \o Digests!Zeros(y) = Padding(n, 64 * q, j + 1 + y)
      BY <1>1, <2>1, Zenon
    <3>2. \A y \in Nat : n = 64 * q + m =>
            Append(MessageBytes(64 * q, m), <<"b", 128>>) \o Digests!Zeros(y) = Padding(n, 64 * q, m + 1 + y)
      BY <1>3, <3>1, Zenon
    <3> QED BY <1>1, <3>2, Zenon
  <2> QED BY <2>2, Zenon DEF Marked
<1>9. \A b : HasFields(Open(<<>>, 8 * n, b), <<>>, 8 * n, b)
  BY OpenFields, Zenon
<1>10. \A b : Open(<<>>, 8 * n, b).blocks = b
  BY <1>9, Zenon DEF HasFields
<1> HIDE DEF bk, bs, E
<1>11. ASSUME m > 55 PROVE \E K \in Nat : PaddedBlocks(Digests!Pad(Ctx(n)).blocks, n, K)
  <2> DEFINE full == Padding(n, 64 * q, 64)
             tail == W(Padding(n, 64 * (q + 1), 56))
             s == Append(Append(bs, full), tail)
  <2>1. Digests!Pad(Ctx(n)) = Open(<<>>, 8 * n,
            Append(Append(bs, Marked(bk) \o Digests!Zeros(64 - Len(Marked(bk)))),
                   W(<<>> \o Digests!Zeros(56 - Len(<<>>)))))
    BY <1>2, <1>4, <1>11, PadOpen, SMT
  <2>2. 64 - (m + 1) \in Nat /\ m + 1 + (64 - (m + 1)) = 64
    BY <1>1
  <2>3. Marked(bk) \o Digests!Zeros(64 - Len(Marked(bk))) = full
    BY <1>5, <1>8, <2>2, Zenon
  <2>4. <<>> \o Digests!Zeros(56 - Len(<<>>)) = Padding(n, 64 * (q + 1), 56)
    <3>1. 56 - Len(<<>>) = 56 /\ q + 1 \in Nat /\ n < 64 * (q + 1)
      BY <1>1
    <3>2. Digests!Zeros(56) = Padding(n, 64 * (q + 1), 56)
      <4>1. \A i \in Nat : n < 64 * i => Digests!Zeros(56) = Padding(n, 64 * i, 56)
        BY PaddingIs, Zenon
      <4> QED BY <3>1, <4>1
    <3>3. Digests!Zeros(56) \in Seq(Octets)
      BY ZerosFacts
    <3>4. <<>> \o Digests!Zeros(56) = Digests!Zeros(56)
      BY <3>3
    <3> QED BY <3>1, <3>2, <3>4, Zenon
  <2>5. Digests!Pad(Ctx(n)).blocks = s
    BY <1>10, <2>1, <2>3, <2>4, Zenon
  <2> HIDE DEF tail
  <2>6. full \in E
    <3>1. 64 \in Nat
      OBVIOUS
    <3> QED BY <1>3, <3>1, PaddingFacts, ZenonT(60) DEF E
  <2> HIDE DEF full
  <2>7. Append(bs, full) \in Seq(E) /\ Len(Append(bs, full)) = q + 1
        /\ Append(bs, full)[q + 1] = full /\ \A k \in 1 .. q : Append(bs, full)[k] = bs[k]
    BY <1>6, <1>7, <2>6, <1>1
  <2>8. Len(s) = q + 2 /\ s[q + 2] = tail /\ DOMAIN s = 1 .. q + 2 /\ \A k \in 1 .. q + 1 : s[k] = Append(bs, full)[k]
    <3> DEFINE t == Append(bs, full)
    <3>1. Len(t) = q + 1 /\ t \in Seq(E)
      BY <2>7
    <3> HIDE DEF t
    <3>2. Len(Append(t, tail)) = q + 2 /\ Append(t, tail)[q + 2] = tail
          /\ DOMAIN Append(t, tail) = 1 .. q + 2
          /\ \A k \in 1 .. q + 1 : Append(t, tail)[k] = t[k]
      BY <1>1, <3>1
    <3> QED BY <3>2 DEF t
  <2>9. ASSUME NEW k \in 1 .. q + 1 PROVE s[k] = Padding(n, 64 * (k - 1), 64)
    <3>1. k \in 1 .. q \/ (k = q + 1 /\ k - 1 = q)
      BY <1>1
    <3> QED BY <1>6, <2>7, <2>8, <3>1, ZenonT(60) DEF full
  <2>10. (q + 2) - 1 = q + 1 /\ q + 2 \in Nat \ {0} /\ 64 * (q + 2) - 9 - n \in 0 .. 63
    BY <1>1, <1>11
  <2> HIDE DEF s
  <2>11. PaddedBlocks(s, n, q + 2)
    BY <2>8, <2>9, <2>10, Zenon DEF PaddedBlocks, tail
  <2> QED BY <2>5, <2>10, <2>11, Zenon
<1>12. ASSUME ~(m > 55) PROVE \E K \in Nat : PaddedBlocks(Digests!Pad(Ctx(n)).blocks, n, K)
  <2> DEFINE tail == W(Padding(n, 64 * q, 56))
             s == Append(bs, tail)
  <2>1. Digests!Pad(Ctx(n)) = Open(<<>>, 8 * n, Append(bs,
            W(Marked(bk) \o Digests!Zeros(56 - Len(Marked(bk))))))
    BY <1>2, <1>4, <1>12, PadOpen, SMT
  <2>2. 56 - (m + 1) \in Nat /\ m + 1 + (56 - (m + 1)) = 56
    BY <1>1, <1>12
  <2>3. Marked(bk) \o Digests!Zeros(56 - Len(Marked(bk))) = Padding(n, 64 * q, 56)
    BY <1>5, <1>8, <2>2, Zenon
  <2>4. Digests!Pad(Ctx(n)).blocks = s
    BY <1>10, <2>1, <2>3, Zenon
  <2> HIDE DEF tail
  <2>5. Len(s) = q + 1 /\ s[q + 1] = tail /\ DOMAIN s = 1 .. q + 1 /\ \A k \in 1 .. q : s[k] = bs[k]
    BY <1>1, <1>6, <1>7
  <2>6. (q + 1) - 1 = q /\ q + 1 \in Nat \ {0} /\ 64 * (q + 1) - 9 - n \in 0 .. 63
    BY <1>1, <1>12
  <2> HIDE DEF s
  <2>7. PaddedBlocks(s, n, q + 1)
    BY <1>6, <2>5, <2>6, Zenon DEF PaddedBlocks, tail
  <2> QED BY <2>4, <2>6, <2>7, Zenon
<1> QED BY <1>11, <1>12

\* The length in bits as four bytes, the highest first
LengthByte(x, i) ==
    IF i = 1 THEN x \div 16777216 ELSE IF i = 2 THEN (x \div 65536) % 256
    ELSE IF i = 3 THEN (x \div 256) % 256 ELSE x % 256

IsNumber(x) ==
    /\ \A i \in 1 .. 4 : LengthByte(x, i) \in 0 .. 255
    /\ 16777216 * LengthByte(x, 1) + 65536 * LengthByte(x, 2)
         + 256 * LengthByte(x, 3) + LengthByte(x, 4) = x

\* The bytes of a length of 32 bits are that length.
LEMMA LengthBytes == ASSUME NEW x \in Nat, x < 4294967296 PROVE IsNumber(x)
<1> DEFINE a == x \div 16777216
           b == x \div 65536
           c == x \div 256
           d == c % 256
           e == x % 256
           h == b % 256
           i == c \div 256
           j == b \div 256
<1>1. a \in Nat /\ 16777216 * a <= x /\ x < 16777216 * a + 16777216
  BY SMT
<1>2. b \in Nat /\ 65536 * b <= x /\ x < 65536 * b + 65536
  BY SMT
<1>3. c \in Nat /\ e \in 0 .. 255 /\ x = 256 * c + e
  <2>1. c \in Nat
    BY SMT
  <2>2. e \in 0 .. 255
    BY SMT
  <2>3. x = 256 * c + e
    BY SMT
  <2> QED BY <2>1, <2>2, <2>3, SMT
<1> HIDE DEF a, b, c, e
<1>4. d \in 0 .. 255 /\ i \in Nat /\ c = 256 * i + d
  <2>1. d \in 0 .. 255
    BY <1>3, SMT
  <2>2. i \in Nat
    BY <1>3, SMT
  <2>3. c = 256 * i + d
    BY <1>3, SMT
  <2> QED BY <2>1, <2>2, <2>3, SMT
<1>5. h \in 0 .. 255 /\ j \in Nat /\ b = 256 * j + h
  <2>1. h \in 0 .. 255
    BY <1>2, SMT
  <2>2. j \in Nat
    BY <1>2, SMT
  <2>3. b = 256 * j + h
    BY <1>2, SMT
  <2> QED BY <2>1, <2>2, <2>3, SMT
<1> HIDE DEF d, h, i, j
<1>6. i = b
  BY <1>2, <1>3, <1>4, SMT
<1>7. j = a
  BY <1>1, <1>2, <1>5, SMT
<1>8. a \in 0 .. 255
  BY <1>1, SMT
<1>9. 16777216 * a + 65536 * h + 256 * d + e = x
  BY <1>3, <1>4, <1>5, <1>6, <1>7, SMT
<1>10. LengthByte(x, 1) = a /\ LengthByte(x, 2) = h /\ LengthByte(x, 3) = d /\ LengthByte(x, 4) = e
  BY SMT DEF LengthByte, a, b, c, d, e, h
<1>11. \A k \in 1 .. 4 : LengthByte(x, k) \in 0 .. 255
  <2>1. \A k \in 1 .. 4 : k = 1 \/ k = 2 \/ k = 3 \/ k = 4
    OBVIOUS
  <2> QED BY <1>3, <1>4, <1>5, <1>8, <1>10, <2>1, SMT
<1>12. 16777216 * LengthByte(x, 1) + 65536 * LengthByte(x, 2)
         + 256 * LengthByte(x, 3) + LengthByte(x, 4) = x
  BY <1>9, <1>10, SMT
<1> QED BY <1>11, <1>12, SMT DEF IsNumber

\* A sequence behind another
Follows(w, s, m, t, k) ==
    /\ w \in Seq(Octets) /\ Len(w) = m + k
    /\ \A j \in 1 .. m : w[j] = s[j]
    /\ \A j \in 1 .. k : w[m + j] = t[j]

\* Two texts, one behind the other, byte by byte
LEMMA Joined ==
  ASSUME NEW s \in Seq(Octets), NEW t \in Seq(Octets), NEW m \in Nat, NEW k \in Nat,
         Len(s) = m, Len(t) = k
  PROVE  Follows(s \o t, s, m, t, k)
<1>1. /\ s \o t \in Seq(Octets) /\ Len(s \o t) = m + k
      /\ \A j \in 1 .. m + k : (s \o t)[j] = IF j <= m THEN s[j] ELSE t[j - m]
  BY ConcatProperties
<1>2. \A j \in 1 .. k : m + j \in 1 .. m + k /\ ~(m + j <= m) /\ (m + j) - m = j
  OBVIOUS
<1>3. \A j \in 1 .. m : j \in 1 .. m + k /\ j <= m
  OBVIOUS
<1>4. \A j \in 1 .. m : (s \o t)[j] = s[j]
  BY <1>1, <1>3
<1>5. \A j \in 1 .. k : (s \o t)[m + j] = t[j]
  BY <1>1, <1>2
<1> QED BY <1>1, <1>4, <1>5, Zenon DEF Follows

\* The last block: the padding, four zeros and the length
HoldsLength(w, n, from, x) ==
    /\ Len(w) = 64
    /\ \A j \in 1 .. 56 : w[j] = PaddedByte(n, from + j)
    /\ \A j \in 57 .. 60 : w[j] = <<"b", 0>>
    /\ \A i \in 1 .. 4 : w[60 + i] = <<"b", LengthByte(x, i)>>

\* The last block holds the length.
LEMMA LastBlock ==
  ASSUME NEW n \in Nat, NEW from \in Nat, NEW x \in Nat
  PROVE  HoldsLength(Digests!WithLength(Padding(n, from, 56), x), n, from, x)
<1> DEFINE p == Padding(n, from, 56)
           low == << <<"b", x \div 16777216>>, <<"b", (x \div 65536) % 256>>,
                     <<"b", (x \div 256) % 256>>, <<"b", x % 256>> >>
           a == SubSeq(p, 1, 56)
           b == a \o Digests!Zeros(4)
           w == b \o low
<1>1. Digests!WithLength(p, x) = w
  BY DEF Digests!WithLength, Digests!Byte
<1>2. \A i \in 1 .. 4 : LengthByte(x, i) \in Nat
  BY SMT DEF LengthByte
<1>3. p \in Seq(Octets) /\ Len(p) = 56 /\ \A j \in 1 .. 56 : p[j] = PaddedByte(n, from + j)
  <2>1. 56 \in Nat
    OBVIOUS
  <2> QED BY <2>1, PaddingFacts, Zenon
<1> HIDE DEF p
<1>4. a \in Seq(Octets) /\ Len(a) = 56 /\ \A j \in 1 .. 56 : a[j] = PaddedByte(n, from + j)
  <2>1. /\ a \in Seq(Octets)
        /\ Len(a) = IF 1 <= 56 THEN 56 - 1 + 1 ELSE 0
        /\ \A j \in 1 .. 56 - 1 + 1 : a[j] = p[1 + j - 1]
    <3>1. 1 \in 1 .. Len(p) + 1 /\ 56 \in 0 .. Len(p)
      BY <1>3
    <3>2. \A i \in 1 .. 56 : p[i] \in Octets
      <4> TAKE i \in 1 .. 56
      <4>1. p \in Seq(Octets) /\ i \in 1 .. Len(p)
        BY <1>3
      <4> QED BY <4>1, ElementOfSeq, Zenon
    <3> QED BY <1>3, <3>1, <3>2, SubSeqProperties
  <2>2. \A j \in 1 .. 56 : 1 + j - 1 = j
    OBVIOUS
  <2> HIDE DEF a
  <2> QED BY <1>3, <2>1, <2>2
<1> HIDE DEF a
<1>5. /\ Digests!Zeros(4) \in Seq(Octets) /\ Len(Digests!Zeros(4)) = 4
      /\ \A j \in 1 .. 4 : Digests!Zeros(4)[j] = <<"b", 0>>
  BY ZerosFacts
<1>6. Follows(b, a, 56, Digests!Zeros(4), 4)
  <2>1. 56 \in Nat /\ 4 \in Nat
    OBVIOUS
  <2> QED BY <1>4, <1>5, <2>1, Joined, Zenon
<1>7. b \in Seq(Octets) /\ Len(b) = 60
  BY <1>6 DEF Follows
<1> HIDE DEF b
<1>8. /\ low \in Seq(Octets) /\ Len(low) = 4
      /\ \A i \in 1 .. 4 : low[i] = <<"b", LengthByte(x, i)>>
  <2>1. \A i \in 1 .. 4 : <<"b", LengthByte(x, i)>> \in Octets
    BY <1>2 DEF Octets
  <2> DEFINE e(i) == <<"b", LengthByte(x, i)>>
  <2>2. e(1) \in Octets /\ e(2) \in Octets /\ e(3) \in Octets /\ e(4) \in Octets
    BY <2>1
  <2>3. low = <<e(1), e(2), e(3), e(4)>>
    BY SMT DEF LengthByte
  <2> HIDE DEF e, low
  <2>4. low \in Seq(Octets) /\ Len(low) = 4 /\ \A i \in 1 .. 4 : low[i] = e(i)
    BY <2>2, <2>3
  <2> QED BY <2>4 DEF e
<1> HIDE DEF low
<1>9. Follows(w, b, 60, low, 4)
  <2>1. 60 \in Nat /\ 4 \in Nat
    OBVIOUS
  <2> QED BY <1>7, <1>8, <2>1, Joined, ZenonT(60)
<1> HIDE DEF w
<1>10. \A i \in 1 .. 4 : w[60 + i] = <<"b", LengthByte(x, i)>>
  BY <1>8, <1>9, Zenon DEF Follows
<1>11. \A j \in 1 .. 56 : w[j] = PaddedByte(n, from + j)
  <2>1. \A j \in 1 .. 56 : j \in 1 .. 60
    OBVIOUS
  <2> QED BY <1>4, <1>6, <1>9, <2>1, Zenon DEF Follows
<1>12. \A j \in 57 .. 60 : w[j] = <<"b", 0>>
  <2>1. \A j \in 57 .. 60 : j - 56 \in 1 .. 4 /\ 56 + (j - 56) = j /\ j \in 1 .. 60
    OBVIOUS
  <2>2. \A j \in 57 .. 60 : w[j] = b[j]
    BY <1>9, <2>1, Zenon DEF Follows
  <2>3. \A j \in 57 .. 60 : b[j] = Digests!Zeros(4)[j - 56]
    BY <1>6, <2>1 DEF Follows
  <2> QED BY <1>5, <2>1, <2>2, <2>3
<1>13. Len(w) = 64
  BY <1>9 DEF Follows
<1> QED BY <1>1, <1>10, <1>11, <1>12, <1>13, Zenon DEF HoldsLength, p

\* The length of the message has 32 bits.
LengthFits(n) == 8 * n < 4294967296

GoodBlocks(s, n) ==
    /\ \A k \in DOMAIN s : Len(s[k]) = 64
    /\ Digests!IsPadded(Digests!TextOf(s), n)

\* Those blocks are the text that the standard hashes.
LEMMA PaddedText ==
  ASSUME NEW n \in Nat, NEW K \in Nat, NEW s, PaddedBlocks(s, n, K), LengthFits(n)
  PROVE  GoodBlocks(s, n)
<1> DEFINE x == 8 * n
           e == 64 * K
           text_ == Digests!TextOf(s)
           at(k) == s[(k - 1) \div 64 + 1][((k - 1) % 64) + 1]
<1>1. K \in Nat \ {0} /\ e - 9 - n \in 0 .. 63 /\ Len(s) = K /\ DOMAIN s = 1 .. K
  BY DEF PaddedBlocks
<1>2. ASSUME NEW k \in 1 .. K, k # K
      PROVE  Len(s[k]) = 64 /\ \A j \in 1 .. 64 : s[k][j] = PaddedByte(n, 64 * (k - 1) + j)
  <2>1. k \in 1 .. K - 1 /\ 64 * (k - 1) \in Nat /\ 64 \in Nat
    BY <1>2
  <2>2. s[k] = Padding(n, 64 * (k - 1), 64)
    BY <2>1, Zenon DEF PaddedBlocks
  <2>3. Len(Padding(n, 64 * (k - 1), 64)) = 64
        /\ \A j \in 1 .. 64 : Padding(n, 64 * (k - 1), 64)[j] = PaddedByte(n, 64 * (k - 1) + j)
    <3> DEFINE f == 64 * (k - 1)
    <3>1. f \in Nat /\ 64 \in Nat
      BY <2>1
    <3> HIDE DEF f
    <3>2. /\ Padding(n, f, 64) \in Seq(Octets) /\ Len(Padding(n, f, 64)) = 64
          /\ \A j \in 1 .. 64 : Padding(n, f, 64)[j] = PaddedByte(n, f + j)
      BY <3>1, PaddingFacts, Zenon
    <3> QED BY <3>2 DEF f
  <2> QED BY <2>2, <2>3, Zenon
<1>3. HoldsLength(s[K], n, 64 * (K - 1), x)
  <2>1. 64 * (K - 1) \in Nat /\ x \in Nat
    BY <1>1
  <2>2. s[K] = Digests!WithLength(Padding(n, 64 * (K - 1), 56), x)
    BY Zenon DEF PaddedBlocks
  <2>3. HoldsLength(Digests!WithLength(Padding(n, 64 * (K - 1), 56), x), n, 64 * (K - 1), x)
    <3> HIDE DEF x
    <3> QED BY <2>1, LastBlock, Zenon
  <2> QED BY <2>2, <2>3, Zenon
<1>4. \A k \in DOMAIN s : Len(s[k]) = 64
  BY <1>1, <1>2, <1>3, Zenon DEF HoldsLength
<1>5. Len(text_) = e /\ \A k \in 1 .. e : text_[k] = at(k)
  BY <1>1, SMT DEF Digests!TextOf
<1>0. e = 64 * K
  OBVIOUS
<1> HIDE DEF text_, e, x
<1>6. ASSUME NEW k \in 1 .. e
      PROVE  /\ (k - 1) \div 64 \in 0 .. K - 1 /\ (k - 1) % 64 \in 0 .. 63
             /\ k = 64 * ((k - 1) \div 64) + ((k - 1) % 64) + 1
  <2>1. (k - 1) % 64 \in 0 .. 63
    BY <1>0, <1>1
  <2>2. k = 64 * ((k - 1) \div 64) + ((k - 1) % 64) + 1 /\ (k - 1) \div 64 \in Int
    BY <1>0, <1>1
  <2> QED BY <1>0, <1>1, <2>1, <2>2
<1>7. ASSUME NEW k \in 1 .. e - 8 PROVE text_[k] = PaddedByte(n, k)
  <2> DEFINE i == (k - 1) \div 64
             j == ((k - 1) % 64) + 1
  <2>1. k \in 1 .. e
    BY <1>0, <1>1
  <2>2. i \in 0 .. K - 1 /\ j \in 1 .. 64 /\ k = 64 * i + j
    BY <1>6, <2>1
  <2>3. text_[k] = s[i + 1][j]
    BY <1>5, <2>1, Zenon
  <2> HIDE DEF i, j
  <2>4. CASE i + 1 = K
    <3>1. j \in 1 .. 56 /\ 64 * (K - 1) + j = k
      BY <1>0, <1>1, <2>2, <2>4
    <3> QED BY <1>3, <2>3, <2>4, <3>1, Zenon DEF HoldsLength
  <2>5. CASE i + 1 # K
    <3>1. i + 1 \in 1 .. K /\ 64 * ((i + 1) - 1) + j = k
      BY <1>0, <1>1, <2>2, <2>5
    <3>2. s[i + 1][j] = PaddedByte(n, 64 * ((i + 1) - 1) + j)
      BY <1>2, <2>2, <2>5, <3>1, Zenon
    <3> QED BY <2>3, <3>1, <3>2
  <2> QED BY <2>4, <2>5
<1>8. ASSUME NEW j \in 57 .. 64 PROVE text_[e - 64 + j] = s[K][j]
  <2> DEFINE k == e - 64 + j
  <2>1. k \in 1 .. e
    BY <1>0, <1>1
  <2>2. (k - 1) \div 64 = K - 1
    BY <1>0, <1>1
  <2>3. ((k - 1) % 64) + 1 = j
    <3>1. k = 64 * (K - 1) + ((k - 1) % 64) + 1
      BY <1>6, <2>1, <2>2
    <3>2. k = 64 * (K - 1) + j
      BY <1>0, <1>1
    <3>3. (k - 1) % 64 \in 0 .. 63
      BY <1>6, <2>1
    <3> HIDE DEF k
    <3> QED BY <1>1, <3>1, <3>2, <3>3
  <2>4. (k - 1) \div 64 + 1 = K
    BY <1>0, <1>1, <2>2
  <2> QED BY <1>5, <2>1, <2>3, <2>4, Zenon
<1>9. \A k \in 1 .. n : text_[k] = <<"m", k>>
  <2>1. \A k \in 1 .. n : k \in 1 .. e - 8 /\ k <= n
    BY <1>0, <1>1
  <2> QED BY <1>7, <2>1, Zenon DEF PaddedByte
<1>10. text_[n + 1] = Digests!Byte(128)
  <2>1. n + 1 \in 1 .. e - 8 /\ ~(n + 1 <= n)
    BY <1>0, <1>1
  <2> QED BY <1>7, <2>1, Zenon DEF PaddedByte, Digests!Byte
<1>11. \A k \in n + 2 .. e - 4 : text_[k] = Digests!Byte(0)
  <2> TAKE k \in n + 2 .. e - 4
  <2>1. CASE k <= e - 8
    <3>1. k \in 1 .. e - 8 /\ ~(k <= n) /\ k # n + 1
      BY <1>0, <1>1, <2>1
    <3> QED BY <1>7, <3>1, Zenon DEF PaddedByte, Digests!Byte
  <2>2. CASE ~(k <= e - 8)
    <3>1. k - (e - 64) \in 57 .. 60 /\ k - (e - 64) \in 57 .. 64 /\ (e - 64) + (k - (e - 64)) = k
      BY <1>0, <1>1, <2>2
    <3>2. text_[k] = s[K][k - (e - 64)]
      <4> DEFINE j == k - (e - 64)
      <4>1. text_[e - 64 + j] = s[K][j]
        BY <1>8, <3>1, Zenon
      <4> QED BY <3>1, <4>1, Zenon
    <3>3. s[K][k - (e - 64)] = <<"b", 0>>
      BY <1>3, <3>1, Zenon DEF HoldsLength
    <3> QED BY <3>2, <3>3, Zenon DEF Digests!Byte
  <2> QED BY <2>1, <2>2
<1>12. \A i \in 1 .. 4 : text_[e - 4 + i] = <<"b", LengthByte(x, i)>>
  <2> TAKE i \in 1 .. 4
  <2>1. 60 + i \in 57 .. 64 /\ (e - 64) + (60 + i) = e - 4 + i
    BY <1>0, <1>1
  <2>2. text_[e - 64 + (60 + i)] = s[K][60 + i]
    BY <1>8, <2>1, Zenon
  <2>3. s[K][60 + i] = <<"b", LengthByte(x, i)>>
    BY <1>3, Zenon DEF HoldsLength
  <2> QED BY <2>1, <2>2, <2>3, Zenon
<1>13. IsNumber(x)
  <2>1. x \in Nat
    BY DEF x
  <2> QED BY <2>1, LengthBytes, SMT DEF LengthFits, x
<1>14. e % 64 = 0 /\ e - (n + 9) \in 0 .. 63
  <2>1. e % 64 = 0
    BY <1>0, <1>1
  <2> QED BY <1>0, <1>1, <2>1
<1> HIDE DEF at
<1> DEFINE low(k) == text_[e - 4 + k][2]
<1>15. \A i \in 1 .. 4 : low(i) = LengthByte(x, i)
  BY <1>12
<1>16. \A i \in 1 .. 4 : low(i) \in 0 .. 255 /\ text_[e - 4 + i] = Digests!Byte(low(i))
  BY <1>12, <1>13, <1>15, SMT DEF IsNumber, Digests!Byte
<1>17. 16777216 * low(1) + 65536 * low(2) + 256 * low(3) + low(4) = 8 * n
  <2>1. 1 \in 1 .. 4 /\ 2 \in 1 .. 4 /\ 3 \in 1 .. 4 /\ 4 \in 1 .. 4
    OBVIOUS
  <2>2. low(1) = LengthByte(x, 1) /\ low(2) = LengthByte(x, 2)
        /\ low(3) = LengthByte(x, 3) /\ low(4) = LengthByte(x, 4)
    BY <1>15, <2>1, Zenon
  <2> HIDE DEF low
  <2> QED BY <1>13, <2>2, SMT DEF IsNumber, x
<1>18. Digests!IsPadded(text_, n)
  <2>1. Digests!IsPadded(text_, n) <=>
          /\ e % 64 = 0 /\ e - (n + 9) \in 0 .. 63
          /\ \A k \in 1 .. n : text_[k] = <<"m", k>>
          /\ text_[n + 1] = Digests!Byte(128)
          /\ \A k \in n + 2 .. e - 4 : text_[k] = Digests!Byte(0)
          /\ \A k \in 1 .. 4 : low(k) \in 0 .. 255 /\ text_[e - 4 + k] = Digests!Byte(low(k))
          /\ 16777216 * low(1) + 65536 * low(2) + 256 * low(3) + low(4) = 8 * n
    BY <1>5, SMT DEF Digests!IsPadded
  <2> HIDE DEF low
  <2> QED BY <1>9, <1>10, <1>11, <1>14, <1>16, <1>17, <2>1, SMT
<1> QED BY <1>4, <1>18, Zenon DEF GoodBlocks, text_

\* Until the digest the context is that of the t bytes taken, then its blocks are those
\* of the padded message.
ShaHolds(t, c, d) ==
    /\ t \in 0 .. MaxMessage
    /\ DOMAIN c = Fields
    /\ c.computed \in BOOLEAN /\ c.corrupted \in BOOLEAN
    /\ ~c.computed => c = Ctx(t)
    /\ c.computed => c.blocks = Digests!Pad(Ctx(t)).blocks
    /\ c.corrupted => c.computed
    /\ d.kind = "digest" => c.computed /\ d.blocks = c.blocks
    /\ d = Digests!ErrorDigest => c.corrupted

ShaInv == ShaHolds(taken, sha, digest)

\* What the functions return
LEMMA DigestKinds ==
  /\ Digests!NoDigest.kind # "digest" /\ Digests!NoDigest # Digests!ErrorDigest
  /\ Digests!ErrorDigest.kind # "digest"
  /\ \A s : LET d == [kind |-> "digest", blocks |-> s]
            IN  d.kind = "digest" /\ d.blocks = s /\ d # Digests!ErrorDigest
BY DEF Digests!NoDigest, Digests!ErrorDigest

\* An open context, with what was returned before it was begun
LEMMA OpenHolds ==
  ASSUME NEW t \in 0 .. MaxMessage, NEW d, d.kind # "digest", d # Digests!ErrorDigest
  PROVE  ShaHolds(t, Ctx(t), d)
<1>1. HasFields(Ctx(t), MessageBytes(64 * (t \div 64), t % 64), 8 * t, FullBlocks(t \div 64))
  BY OpenFields, Zenon DEF Ctx
<1>2. DOMAIN Ctx(t) = Fields /\ Ctx(t).computed = FALSE /\ Ctx(t).corrupted = FALSE
  BY <1>1, Zenon DEF HasFields
<1> QED BY <1>2, Zenon DEF ShaHolds

\* SHA1Reset leaves the context behind no bytes.
LEMMA FreshIs == Digests!Fresh = Ctx(0)
<1>1. 0 \div 64 = 0 /\ 0 % 64 = 0 /\ 64 * 0 = 0 /\ 8 * 0 = 0
  BY SMT
<1>2. MessageBytes(0, 0) = <<>> /\ FullBlocks(0) = <<>>
  BY DEF MessageBytes, FullBlocks
<1>3. Ctx(0) = Open(<<>>, 0, <<>>)
  BY <1>1, <1>2, Zenon DEF Ctx
<1>4. HasFields(Digests!Fresh, <<>>, 0, <<>>)
  BY DEF Digests!Fresh, HasFields, Fields
<1> QED BY <1>3, <1>4, OpenIs, Zenon

\* In it the invariant holds.
LEMMA FreshHolds == ASSUME MaxMessage \in Nat PROVE ShaHolds(0, Digests!Fresh, Digests!NoDigest)
<1>1. 0 \in 0 .. MaxMessage
  OBVIOUS
<1> QED BY <1>1, FreshIs, OpenHolds, DigestKinds, Zenon

\* SHA1PadMessage leaves an open context.
LEMMA PadIsOpen ==
  ASSUME NEW t \in Nat
  PROVE  \E s : Digests!Pad(Ctx(t)) = Open(<<>>, 8 * t, s)
<1> DEFINE bk == MessageBytes(64 * (t \div 64), t % 64)
           bs == FullBlocks(t \div 64)
<1>1. Ctx(t) = Open(bk, 8 * t, bs)
  BY Zenon DEF Ctx
<1> HIDE DEF bk, bs
<1>2. ASSUME NEW a, NEW b, NEW x,
             x = IF Len(bk) > 55 THEN Open(<<>>, 8 * t, a) ELSE Open(<<>>, 8 * t, b)
      PROVE  \E s : x = Open(<<>>, 8 * t, s)
  BY <1>2, Zenon
<1> DEFINE ln == 8 * t
           big == Append(Append(bs, Marked(bk) \o Digests!Zeros(64 - Len(Marked(bk)))),
                         Digests!WithLength(<<>> \o Digests!Zeros(56 - Len(<<>>)), ln))
           small == Append(bs, Digests!WithLength(Marked(bk) \o Digests!Zeros(56 - Len(Marked(bk))), ln))
<1>3. Digests!Pad(Open(bk, ln, bs)) = IF Len(bk) > 55 THEN Open(<<>>, ln, big) ELSE Open(<<>>, ln, small)
  <2> HIDE DEF ln
  <2> QED BY PadOpen, Zenon
<1> HIDE DEF big, small
<1> QED BY <1>1, <1>2, <1>3, Zenon

\* SHA1Result of an open context
ResultOf(c) == [Digests!Pad(c) EXCEPT !.length = 0, !.computed = TRUE]

\* What SHA1Result leaves in the context
LEMMA ResultFields ==
  ASSUME NEW t \in Nat
  PROVE  /\ DOMAIN ResultOf(Ctx(t)) = Fields
         /\ ResultOf(Ctx(t)).computed = TRUE /\ ResultOf(Ctx(t)).corrupted = FALSE
         /\ ResultOf(Ctx(t)).blocks = Digests!Pad(Ctx(t)).blocks
<1>1. PICK s : Digests!Pad(Ctx(t)) = Open(<<>>, 8 * t, s)
  BY PadIsOpen, Zenon
<1> DEFINE p == Digests!Pad(Ctx(t))
<1>2. HasFields(p, <<>>, 8 * t, s)
  BY <1>1, OpenFields, Zenon
<1> HIDE DEF p
<1>3. LET r == [p EXCEPT !.length = 0, !.computed = TRUE]
      IN  DOMAIN r = Fields /\ r.computed = TRUE /\ r.corrupted = FALSE /\ r.blocks = p.blocks
  BY <1>2 DEF HasFields, Fields
<1> QED BY <1>3, Zenon DEF ResultOf, p

\* The steps: SHA1Input spoils a context that has its digest.
LEMMA SpoilHolds ==
  ASSUME NEW t, NEW c, NEW d, ShaHolds(t, c, d), c.computed
  PROVE  ShaHolds(t, [c EXCEPT !.corrupted = TRUE], d)
<1> DEFINE e == [c EXCEPT !.corrupted = TRUE]
<1>1. DOMAIN c = Fields /\ c.computed \in BOOLEAN
  BY Zenon DEF ShaHolds
<1>2. DOMAIN e = Fields /\ e.computed = c.computed /\ e.corrupted = TRUE /\ e.blocks = c.blocks
  BY <1>1 DEF Fields
<1> HIDE DEF e
<1>3. ShaHolds(t, e, d)
  BY <1>2, Zenon DEF ShaHolds
<1> QED BY <1>3 DEF e

\* The fold that the module of SHA-1 took from SequencesExt is the same.
LEMMA SameFold ==
  ASSUME NEW c, NEW s
  PROVE  Digests!FoldLeft(Digests!PutByte, c, s) = FoldLeft(Digests!PutByte, c, s)
BY DEF FoldLeft, Digests!FoldLeft, MapThenFoldSet, Digests!MapThenFoldSet, Max, Digests!Max

\* Every step keeps the invariant.
LEMMA ShaSteps ==
  ASSUME ShaInv, Digests!Next
  PROVE  ShaInv'
<1>1. Chunks \subseteq Nat /\ MaxMessage \in Nat
  BY MessageAssumption, SMT
<1>2. ShaHolds(taken, sha, digest)
  BY Zenon DEF ShaInv
<1>3. taken \in 0 .. MaxMessage /\ sha.computed \in BOOLEAN /\ sha.corrupted \in BOOLEAN
      /\ (sha.corrupted => sha.computed) /\ (~sha.computed => sha = Ctx(taken))
      /\ (digest.kind = "digest" => sha.computed) /\ (digest = Digests!ErrorDigest => sha.corrupted)
  BY <1>2, Zenon DEF ShaHolds
<1>4. taken \in Nat
  BY <1>1, <1>3
<1>5. ASSUME Digests!Reset PROVE ShaHolds(taken', sha', digest')
  BY <1>1, <1>5, FreshHolds, Zenon DEF Digests!Reset
<1>6. ASSUME NEW n \in Chunks, Digests!Input(n) PROVE ShaHolds(taken', sha', digest')
  <2>1. taken + n <= MaxMessage /\ digest' = digest /\ n \in Nat
    BY <1>1, <1>6, Zenon DEF Digests!Input
  <2>2. CASE n = 0 \/ sha.corrupted
    BY <1>2, <1>6, <2>1, <2>2, Zenon DEF Digests!Input
  <2>3. CASE ~(n = 0 \/ sha.corrupted) /\ sha.computed
    <3>1. sha' = [sha EXCEPT !.corrupted = TRUE] /\ taken' = taken
      BY <1>6, <2>3, Zenon DEF Digests!Input
    <3>2. ShaHolds(taken, [sha EXCEPT !.corrupted = TRUE], digest)
      BY <1>2, <2>3, SpoilHolds, Zenon
    <3> QED BY <2>1, <3>1, <3>2, Zenon
  <2>4. CASE ~(n = 0 \/ sha.corrupted) /\ ~sha.computed
    <3> DEFINE fed == Digests!FoldLeft(Digests!PutByte, sha, [k \in 1 .. n |-> <<"m", taken + k>>])
    <3>1. sha' = fed /\ taken' = taken + n
      <4>1. IF n = 0 \/ sha.corrupted THEN UNCHANGED <<sha, taken>>
            ELSE IF sha.computed THEN sha' = [sha EXCEPT !.corrupted = TRUE] /\ UNCHANGED taken
            ELSE sha' = fed /\ taken' = taken + n
        BY <1>6 DEF Digests!Input
      <4> HIDE DEF fed
      <4> QED BY <2>4, <4>1, Zenon
    <3>2. sha = Ctx(taken)
      BY <1>3, <2>4, Zenon
    <3>3. FoldLeft(Digests!PutByte, Ctx(taken), [k \in 1 .. n |-> <<"m", taken + k>>]) = Ctx(taken + n)
      BY <1>4, <2>1, InputFolds, Zenon
    <3>4. taken + n \in 0 .. MaxMessage
      BY <1>1, <1>4, <2>1
    <3>5. digest.kind # "digest" /\ digest # Digests!ErrorDigest
      BY <1>3, <2>4, Zenon
    <3>6. sha' = Ctx(taken + n)
      BY <3>1, <3>2, <3>3, SameFold, Zenon
    <3> QED BY <2>1, <3>1, <3>4, <3>5, <3>6, OpenHolds, Zenon
  <2> QED BY <2>2, <2>3, <2>4, Zenon
<1>7. ASSUME Digests!Result PROVE ShaHolds(taken', sha', digest')
  <2>1. taken' = taken
    BY <1>7, Zenon DEF Digests!Result
  <2>2. CASE sha.corrupted
    <3>1. sha' = sha /\ digest' = Digests!ErrorDigest
      BY <1>7, <2>2, Zenon DEF Digests!Result
    <3> QED BY <1>2, <2>1, <2>2, <3>1, DigestKinds, Zenon DEF ShaHolds
  <2>3. CASE ~sha.corrupted
    <3>1. /\ sha' = IF sha.computed THEN sha ELSE ResultOf(sha)
          /\ digest' = [kind |-> "digest", blocks |-> sha'.blocks]
      BY <1>7, <2>3, Zenon DEF Digests!Result, ResultOf
    <3>2. digest'.kind = "digest" /\ digest'.blocks = sha'.blocks /\ digest' # Digests!ErrorDigest
      BY <3>1, DigestKinds, Zenon
    <3>3. CASE sha.computed
      BY <1>2, <2>1, <3>1, <3>2, <3>3, Zenon DEF ShaHolds
    <3>4. CASE ~sha.computed
      <4>1. sha' = ResultOf(Ctx(taken))
        BY <1>3, <3>1, <3>4, Zenon
      <4>2. DOMAIN sha' = Fields /\ sha'.computed = TRUE /\ sha'.corrupted = FALSE
            /\ sha'.blocks = Digests!Pad(Ctx(taken)).blocks
        BY <1>4, <4>1, ResultFields, Zenon
      <4> QED BY <1>3, <2>1, <3>2, <4>2, Zenon DEF ShaHolds
    <3> QED BY <3>3, <3>4, Zenon
  <2> QED BY <2>2, <2>3, Zenon
<1>8. ShaHolds(taken', sha', digest')
  BY <1>5, <1>6, <1>7, Zenon DEF Digests!Next
<1> QED BY <1>8, Zenon DEF ShaInv, ShaHolds, Ctx, Open, MessageBytes, FullBlocks, Fields, Digests!ErrorDigest

\* The invariant implies that a digest is one of padded text.
LEMMA ShaHoldsGood == ASSUME ShaInv, digest.kind = "digest" PROVE Digests!DigestsPadded
<1>1. MaxMessage \in Nat /\ MaxMessage <= 536870911
  BY MessageAssumption, SMT
<1>2. /\ taken \in 0 .. MaxMessage /\ digest.blocks = Digests!Pad(Ctx(taken)).blocks
      /\ (digest = Digests!ErrorDigest => sha.corrupted)
  BY Zenon DEF ShaInv, ShaHolds
<1>3. taken \in Nat /\ LengthFits(taken)
  BY <1>1, <1>2, SMT DEF LengthFits
<1> DEFINE s == Digests!Pad(Ctx(taken)).blocks
           n == taken
<1>4. n \in Nat /\ LengthFits(n)
  BY <1>3, SMT
<1>5. digest.blocks = s
  BY <1>2, SMT
<1> HIDE DEF s
<1>6. GoodBlocks(s, taken)
  <2>1. PICK K \in Nat : PaddedBlocks(s, taken, K)
    BY <1>3, PadShape, SMT DEF s
  <2> QED BY <1>3, <2>1, PaddedText, SMT
<1> QED BY <1>2, <1>5, <1>6, SMT DEF GoodBlocks, Digests!DigestsPadded

\* For any lengths of the calls and messages of less than 2^32 bits: SHA1Result returns the
\* blocks of the padded message, however it was split (sha1.c:59-386), and b64_encode
\* holds the bits of its bytes (utils.c:28-71).
THEOREM AcceptKeysAreRfc == LibrarySpec => []AcceptKeyIsRfc
<1>1. LibraryInit => ShaInv
  <2> SUFFICES ASSUME Digests!Init PROVE ShaInv
    BY Zenon DEF LibraryInit
  <2>1. MaxMessage \in Nat
    BY MessageAssumption, SMT
  <2>2. ShaHolds(0, Digests!Fresh, Digests!NoDigest)
    BY <2>1, FreshHolds, Zenon
  <2>3. taken = 0 /\ sha = Digests!Fresh /\ digest = Digests!NoDigest
    BY Zenon DEF Digests!Init
  <2> QED BY <2>2, <2>3, Zenon DEF ShaInv
<1>2. ShaInv /\ [LibraryNext]_<<vars, arrayVars, arena, digestVars, logVars, part, date>> => ShaInv'
  <2> SUFFICES ASSUME ShaInv,
                      [LibraryNext]_<<vars, arrayVars, arena, digestVars, logVars, part, date>>
               PROVE  ShaInv'
    OBVIOUS
  <2>1. digestVars' = digestVars \/ Digests!Next
    BY Zenon DEF LibraryNext, ExchangeStep, ArrayStep, ArenaStep, DigestStep, LogStep
  <2>2. CASE digestVars' = digestVars
    <3>1. sha' = sha /\ taken' = taken /\ digest' = digest
      BY <2>2 DEF digestVars
    <3>2. ShaHolds(taken', sha', digest')
      BY <3>1, Zenon DEF ShaInv
    <3> QED BY <3>2, Zenon DEF ShaInv, ShaHolds, Ctx, Open, MessageBytes, FullBlocks, Fields, Digests!ErrorDigest
  <2>3. CASE Digests!Next
    BY <2>3, ShaSteps, Zenon
  <2> QED BY <2>1, <2>2, <2>3, Zenon
<1>3. ShaInv => AcceptKeyIsRfc
  <2> SUFFICES ASSUME ShaInv PROVE AcceptKeyIsRfc
    OBVIOUS
  <2>1. Digests!DigestsPadded
    <3>1. CASE digest.kind = "digest"
      BY <3>1, ShaHoldsGood, Zenon
    <3>2. CASE digest.kind # "digest"
      BY <3>2, Zenon DEF ShaInv, ShaHolds, Digests!DigestsPadded
    <3> QED BY <3>1, <3>2, Zenon
  <2>2. ASSUME NEW bytes \in SeqOf({0, 129, 254}, 5) PROVE IsEncodingOf(Encoded(bytes), bytes)
    <3>1. PICK m \in 0 .. 5 : bytes \in [1 .. m -> {0, 129, 254}]
      BY Zenon DEF SeqOf
    <3>2. bytes \in Seq({0, 129, 254}) /\ {0, 129, 254} \subseteq 0 .. 255
      BY <3>1
    <3>3. bytes \in Seq(0 .. 255)
      BY <3>2
    <3> QED BY <3>3, EncodedIsRfc, Zenon
  <2> QED BY <2>1, <2>2, Zenon DEF AcceptKeyIsRfc
<1> QED BY <1>1, <1>2, <1>3, PTL DEF LibrarySpec
=============================================================================
