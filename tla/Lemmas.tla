------------------------------- MODULE Lemmas -------------------------------
(***************************************************************************)
(* Lemmas for the proofs about more than one component: what a fold over a *)
(* finite set returns, and what the functions of src/src/arena/arena.c     *)
(* promise about their blocks, for arenas of any size.                     *)
(*                                                                         *)
(* The folds of the community modules are recursive functions on the       *)
(* subsets of their set, from which they take one element after the other; *)
(* "ch" is the function that chooses it here, as sets and functions can be *)
(* variables of a lemma and operators cannot.                              *)
(***************************************************************************)
EXTENDS Arena, FiniteSetsExt, SequenceTheorems, FiniteSetTheorems, WellFoundedInduction, TLAPS

-----------------------------------------------------------------------------
(* Folds                                                                   *)

\* The less-than relation as a set of pairs
Less == {p \in Nat \X Nat : p[1] < p[2]}

\* A set of natural numbers that is not empty has a least one.
LEMMA LeastNumber ==
  ASSUME NEW T, T \subseteq Nat, T # {}
  PROVE  \E m \in T : \A k \in T : m <= k
<1>1. IsWellFoundedOn(Less, Nat)
  BY NatLessThanWellFounded DEF OpToRel, Less
<1>2. \E m \in T : \A k \in T : ~(<<k, m>> \in Less)
  BY <1>1, WFMin, Zenon
<1>3. PICK m \in T : \A k \in T : ~(<<k, m>> \in Less)
  BY <1>2
<1>4. \A k \in T : <<k, m>> \in Nat \X Nat
  OBVIOUS
<1>5. ASSUME NEW k \in T PROVE m <= k
  <2>1. <<k, m>> \notin Less
    BY <1>3
  <2>2. ~(k < m)
    BY <2>1 DEF Less
  <2> QED BY <2>2
<1> QED BY <1>5

\* A least element is Min.
LEMMA LeastOf ==
  ASSUME NEW S \in SUBSET Int, NEW k \in S, \A p \in S : k <= p
  PROVE  Min(S) = k
<1> DEFINE Least(x) == x \in S /\ \A y \in S : x =< y
<1>1. Least(k)
  OBVIOUS
<1>2. ASSUME NEW x, Least(x) PROVE x = k
  <2>1. x \in Int /\ k \in Int /\ x <= k /\ k <= x
    BY <1>2
  <2> QED BY <2>1
<1>3. Min(S) = CHOOSE x : Least(x)
  BY Zenon DEF Min
<1> HIDE DEF Least
<1> QED BY <1>1, <1>2, <1>3, Zenon

\* A set of natural numbers that is not empty has a first one.
LEMMA FirstPosition ==
  ASSUME NEW T, T \subseteq Nat, T # {}
  PROVE  Min(T) \in T /\ \A y \in T : Min(T) <= y
<1>1. PICK k \in T : \A y \in T : k <= y
  BY LeastNumber
<1>2. T \in SUBSET Int
  OBVIOUS
<1>3. Min(T) = k
  BY <1>1, <1>2, LeastOf
<1> QED BY <1>1, <1>3

\* A set of positions that is not empty has a last one.
LEMMA LastPosition ==
  ASSUME NEW n \in Nat, NEW T, T \subseteq 1 .. n, T # {}
  PROVE  Max(T) \in T
<1> DEFINE D == {n - x : x \in T}
<1>1. D \subseteq Nat /\ D # {}
  <2>1. \A x \in T : n - x \in Nat
    OBVIOUS
  <2>2. PICK x \in T : TRUE
    OBVIOUS
  <2>3. n - x \in D
    BY <2>2
  <2> QED BY <2>1, <2>3
<1> HIDE DEF D
<1>2. PICK m \in D : \A k \in D : m <= k
  BY <1>1, LeastNumber, Zenon
<1> USE DEF D
<1>3. PICK x \in T : m = n - x
  BY <1>2
<1>4. ASSUME NEW y \in T PROVE x >= y
  <2>1. n - x <= n - y
    BY <1>2, <1>3
  <2> QED BY <2>1
<1>5. \E z \in T : \A y \in T : z >= y
  BY <1>4
<1> QED BY <1>5, Zenon DEF Max

\* An element of every subset that is not empty
Chooses(ch, S) == \A s \in SUBSET S : s # {} => ch[s] \in s

\* What holds without elements and of a set whenever it holds before the chosen element
\* is added holds of every set.
LEMMA FoldInduction ==
  ASSUME NEW S, IsFiniteSet(S), NEW ch, Chooses(ch, S), NEW h, NEW A, h[{}] \in A,
         \A s \in SUBSET S : s # {} /\ h[s \ {ch[s]}] \in A => h[s] \in A
  PROVE  \A s \in SUBSET S : h[s] \in A
<1> DEFINE bad == {s \in SUBSET S : h[s] \notin A}
<1> SUFFICES ASSUME bad # {} PROVE FALSE
  BY Zenon
<1>1. IsWellFoundedOn(StrictSubsetOrdering(S), SUBSET S)
  <2>1. FiniteSubsetsOf(S) = SUBSET S
    BY FS_FiniteSubsetsOfFinite, Zenon
  <2>2. IsWellFoundedOn(StrictSubsetOrdering(S), FiniteSubsetsOf(S))
    BY FS_StrictSubsetOrderingWellFounded, Zenon
  <2> QED BY <2>1, <2>2, Zenon
<1>2. bad \subseteq SUBSET S
  OBVIOUS
<1> HIDE DEF bad
<1>3. PICK s \in bad : \A t \in bad : ~(<<t, s>> \in StrictSubsetOrdering(S))
  BY <1>1, <1>2, WFMin, Zenon
<1>4. s \in SUBSET S /\ h[s] \notin A
  BY DEF bad
<1>5. s # {} /\ ch[s] \in s
  BY <1>4 DEF Chooses
<1> DEFINE t == s \ {ch[s]}
<1>6. t \in SUBSET S /\ t \subseteq s /\ t # s
  BY <1>4, <1>5
<1>7. <<t, s>> \in StrictSubsetOrdering(S)
  BY <1>4, <1>6 DEF StrictSubsetOrdering
<1>8. h[t] \in A
  BY <1>3, <1>6, <1>7 DEF bad
<1> QED BY <1>4, <1>5, <1>8

\* Subsets of at most n elements
Small(S, n) == {s \in SUBSET S : Cardinality(s) <= n}

\* g obeys the recursion on the subsets of D.
Recursion(g, D, base, G, ch) ==
    \A s \in D : g[s] = IF s = {} THEN base ELSE G[<<ch[s], g[s \ {ch[s]}]>>]

\* A subset without its chosen element is smaller.
LEMMA SmallerSubset ==
  ASSUME NEW S, IsFiniteSet(S), NEW ch, Chooses(ch, S), NEW n \in Nat,
         NEW s \in Small(S, n + 1), s # {}
  PROVE  s \ {ch[s]} \in Small(S, n) /\ ch[s] \in S
<1>1. ch[s] \in s /\ s \in SUBSET S
  BY DEF Small, Chooses
<1>2. IsFiniteSet(s)
  BY <1>1, FS_Subset
<1>3. /\ IsFiniteSet(s \ {ch[s]})
      /\ Cardinality(s \ {ch[s]}) = Cardinality(s) - 1
  BY <1>1, <1>2, FS_RemoveElement
<1>4. Cardinality(s) \in Nat /\ Cardinality(s \ {ch[s]}) \in Nat
  BY <1>2, <1>3, FS_CardinalityType
<1> QED BY <1>1, <1>3, <1>4 DEF Small

\* The recursion of a fold has a solution: it is extended from the sets of n elements to
\* those of n + 1.
LEMMA FoldExists ==
  ASSUME NEW S, IsFiniteSet(S), NEW ch, Chooses(ch, S), NEW A, NEW base \in A,
         NEW G \in [S \X A -> A]
  PROVE  \E g \in [SUBSET S -> A] : Recursion(g, SUBSET S, base, G, ch)
<1> DEFINE Solved(n) == \E g \in [Small(S, n) -> A] : Recursion(g, Small(S, n), base, G, ch)
           bad == {n \in Nat : ~Solved(n)}
<1>1. bad = {}
  <2> SUFFICES ASSUME bad # {} PROVE FALSE
    OBVIOUS
  <2>1. PICK m \in bad : \A k \in bad : m <= k
    <3>1. bad \subseteq Nat
      OBVIOUS
    <3> HIDE DEF bad
    <3> QED BY <3>1, LeastNumber, Zenon
  <2>2. m \in Nat /\ ~Solved(m)
    BY <2>1
  <2>3. CASE m = 0
    <3> DEFINE g == [s \in Small(S, 0) |-> base]
    <3>1. \A s \in Small(S, 0) : s = {}
      <4> TAKE s \in Small(S, 0)
      <4>1. IsFiniteSet(s) /\ Cardinality(s) <= 0
        BY FS_Subset DEF Small
      <4>2. Cardinality(s) = 0
        BY <4>1, FS_CardinalityType
      <4> QED BY <4>1, <4>2, FS_EmptySet
    <3>2. g \in [Small(S, 0) -> A] /\ Recursion(g, Small(S, 0), base, G, ch)
      BY <3>1 DEF Recursion
    <3> QED BY <2>2, <2>3, <3>2
  <2>4. CASE m # 0
    <3> DEFINE n == m - 1
    <3>1. n \in Nat /\ m = n + 1
      BY <2>2, <2>4
    <3>2. Solved(n)
      BY <2>1, <3>1
    <3> HIDE DEF n
    <3>3. PICK g \in [Small(S, n) -> A] : Recursion(g, Small(S, n), base, G, ch)
      BY <3>2
    <3> DEFINE h == [s \in Small(S, m) |->
                        IF s = {} THEN base ELSE G[<<ch[s], g[s \ {ch[s]}]>>]]
    <3>4. ASSUME NEW s \in Small(S, m), s # {}
          PROVE  s \ {ch[s]} \in Small(S, n) /\ ch[s] \in S
      BY <3>1, <3>4, SmallerSubset, Zenon
    <3>5. h \in [Small(S, m) -> A]
      <4>1. ASSUME NEW s \in Small(S, m), s # {} PROVE G[<<ch[s], g[s \ {ch[s]}]>>] \in A
        <5>1. g[s \ {ch[s]}] \in A /\ ch[s] \in S
          BY <4>1, <3>4
        <5> QED BY <5>1
      <4> QED BY <4>1
    <3>6. \A s \in Small(S, n) : h[s] = g[s] /\ s \in Small(S, m)
      <4> TAKE s \in Small(S, n)
      <4>1. IsFiniteSet(s) /\ Cardinality(s) <= n /\ s \in SUBSET S
        BY FS_Subset DEF Small
      <4>2. s \in Small(S, m)
        BY <3>1, <4>1, FS_CardinalityType DEF Small
      <4> QED BY <3>3, <4>2 DEF Recursion
    <3>7. Recursion(h, Small(S, m), base, G, ch)
      <4> SUFFICES ASSUME NEW s \in Small(S, m)
                   PROVE  h[s] = IF s = {} THEN base ELSE G[<<ch[s], h[s \ {ch[s]}]>>]
        BY DEF Recursion
      <4>1. CASE s = {}
        BY <4>1
      <4>2. CASE s # {}
        <5>1. h[s \ {ch[s]}] = g[s \ {ch[s]}]
          BY <3>4, <3>6, <4>2
        <5> QED BY <4>2, <5>1
      <4> QED BY <4>1, <4>2
    <3> HIDE DEF h
    <3> QED BY <2>2, <3>5, <3>7
  <2> QED BY <2>3, <2>4
<1> DEFINE n == Cardinality(S)
<1>2. n \in Nat
  BY FS_CardinalityType
<1>3. Small(S, n) = SUBSET S
  BY FS_Subset DEF Small
<1> HIDE DEF n
<1>4. Solved(n)
  BY <1>1, <1>2
<1> QED BY <1>3, <1>4, Zenon

\* What holds of 0, and of every number up to n if it holds of the one before, holds of
\* all of them.
LEMMA CountUp ==
  ASSUME NEW n \in Nat, NEW T, 0 \in T, \A k \in 1 .. n : k - 1 \in T => k \in T
  PROVE  \A k \in 0 .. n : k \in T
<1> DEFINE bad == {k \in 0 .. n : k \notin T}
<1> SUFFICES ASSUME bad # {} PROVE FALSE
  OBVIOUS
<1>1. bad \subseteq Nat
  OBVIOUS
<1>2. PICK m \in bad : \A k \in bad : m <= k
  <2> HIDE DEF bad
  <2> QED BY <1>1, LeastNumber, Zenon
<1>3. m \in 1 .. n /\ m - 1 \in 0 .. n /\ ~(m <= m - 1)
  BY <1>2
<1>4. m - 1 \in T
  BY <1>2, <1>3
<1> QED BY <1>2, <1>3, <1>4

\* The first k numbers: k is the largest, and without it the first k - 1 are left.
LEMMA UpToFacts ==
  ASSUME NEW k \in Nat, k > 0
  PROVE  /\ 1 .. k # {} /\ Max(1 .. k) = k /\ (1 .. k) \ {k} = 1 .. k - 1
<1>1. 1 .. k # {} /\ k \in 1 .. k /\ \A y \in 1 .. k : k >= y
  OBVIOUS
<1>2. Max(1 .. k) \in 1 .. k /\ \A y \in 1 .. k : Max(1 .. k) >= y
  <2>1. \E x \in 1 .. k : \A y \in 1 .. k : x >= y
    BY <1>1
  <2> QED BY <2>1, Zenon DEF Max
<1>3. Max(1 .. k) = k
  BY <1>1, <1>2
<1> QED BY <1>1, <1>3

\* The recursion of a fold over 1 .. n, in which the largest number comes last
FoldsBy(g, n, base, G) ==
    /\ g[{}] = base
    /\ \A s \in SUBSET (1 .. n) : s # {} => g[s] = G[<<Max(s), g[s \ {Max(s)}]>>]

\* Every function of a step has such a fold.
LEMMA FoldUpExists ==
  ASSUME NEW n \in Nat, NEW A, NEW base \in A, NEW G \in [(1 .. n) \X A -> A]
  PROVE  \E g \in [SUBSET (1 .. n) -> A] : FoldsBy(g, n, base, G)
<1> DEFINE S == 1 .. n
           ch == [s \in SUBSET S |-> Max(s)]
<1>1. IsFiniteSet(S)
  BY FS_Interval
<1>2. Chooses(ch, S)
  BY LastPosition DEF Chooses
<1>3. PICK g \in [SUBSET S -> A] : Recursion(g, SUBSET S, base, G, ch)
  <2> HIDE DEF S, ch
  <2>1. G \in [S \X A -> A]
    BY DEF S
  <2> QED BY <1>1, <1>2, <2>1, FoldExists, Zenon
<1>4. g[{}] = base
  BY <1>3 DEF Recursion
<1>5. ASSUME NEW s \in SUBSET S, s # {}
      PROVE  g[s] = G[<<Max(s), g[s \ {Max(s)}]>>]
  <2>1. ch[s] = Max(s)
    OBVIOUS
  <2> HIDE DEF ch, S
  <2> QED BY <1>3, <1>5, <2>1 DEF Recursion
<1> QED BY <1>3, <1>4, <1>5 DEF FoldsBy

\* h folds by G as long as its values are in A.
FoldsIn(h, n, A, base, G) ==
    /\ h[{}] = base
    /\ \A s \in SUBSET (1 .. n) :
        s # {} /\ h[s \ {Max(s)}] \in A => h[s] = G[<<Max(s), h[s \ {Max(s)}]>>]

\* The turns of a loop: r is what has been computed after each of the n elements; the
\* last is the fold.
Turns(r, n, base, G) == r[0] = base /\ \A k \in 1 .. n : r[k] = G[<<k, r[k - 1]>>]
HasTurns(h, n, A, base, G) == \E r \in [0 .. n -> A] : Turns(r, n, base, G) /\ r[n] = h[1 .. n]

\* A fold that takes the greatest element last goes turn by turn.
LEMMA FoldTurns ==
  ASSUME NEW n \in Nat, NEW A, NEW base \in A, NEW G \in [(1 .. n) \X A -> A],
         NEW h, FoldsIn(h, n, A, base, G)
  PROVE  HasTurns(h, n, A, base, G)
<1> DEFINE T == {k \in 0 .. n : h[1 .. k] \in A}
           r == [k \in 0 .. n |-> h[1 .. k]]
<1>1. 1 .. 0 = {} /\ 0 \in T
  <2>1. 1 .. 0 = {}
    OBVIOUS
  <2> QED BY <2>1 DEF FoldsIn
<1>2. ASSUME NEW k \in 1 .. n, h[1 .. k - 1] \in A
      PROVE  h[1 .. k] = G[<<k, h[1 .. k - 1]>>] /\ G[<<k, h[1 .. k - 1]>>] \in A
  <2>1. k \in Nat /\ k > 0 /\ 1 .. k \in SUBSET (1 .. n)
    OBVIOUS
  <2>2. 1 .. k # {} /\ Max(1 .. k) = k /\ (1 .. k) \ {k} = 1 .. k - 1
    BY <2>1, UpToFacts
  <2>3. <<k, h[1 .. k - 1]>> \in (1 .. n) \X A
    BY <1>2
  <2>4. G[<<k, h[1 .. k - 1]>>] \in A
    BY <2>3
  <2> QED BY <1>2, <2>1, <2>2, <2>4, Zenon DEF FoldsIn
<1>3. ASSUME NEW k \in 1 .. n, k - 1 \in T PROVE k \in T
  <2>1. h[1 .. k] \in A
    <3>1. h[1 .. k - 1] \in A
      BY <1>3
    <3> QED BY <1>2, <3>1, Zenon
  <2> QED BY <2>1
<1>4. \A k \in 0 .. n : k \in T
  <2> HIDE DEF T
  <2> QED BY <1>1, <1>3, CountUp, Zenon
<1>5. r \in [0 .. n -> A]
  BY <1>4
<1>6. r[0] = base /\ r[n] = h[1 .. n]
  BY <1>1 DEF FoldsIn
<1>7. \A k \in 1 .. n : r[k] = G[<<k, r[k - 1]>>]
  BY <1>2, <1>4
<1> HIDE DEF r
<1> QED BY <1>5, <1>6, <1>7 DEF Turns, HasTurns

-----------------------------------------------------------------------------
(* The arena                                                               *)

Block(from, n) == [from |-> from, to |-> from + n]

\* An arena as its functions leave it
Blocks == Seq([from : Nat, to : Nat])
ArenaType(a) == a \in [capacity : Nat, cur : Nat, blocks : Blocks, exited : BOOLEAN]

\* align_forward goes forward, by less than the alignment, to a multiple of it.
LEMMA AlignForwardFacts ==
  ASSUME NEW p \in Nat
  PROVE  /\ AlignForward(p) \in p .. p + 15
         /\ AlignForward(p) % Alignment = 0
BY DEF AlignForward, Alignment

\* arena_alloc, with the place of the block written out
LEMMA AllocWritten ==
  \A a, n : ArenaAlloc(a, n) =
    IF n = 0 \/ a.exited THEN a
    ELSE IF AlignForward(a.cur) + n > a.capacity THEN [a EXCEPT !.exited = TRUE]
    ELSE [a EXCEPT !.cur = AlignForward(a.cur) + n,
                   !.blocks = Append(@, [from |-> AlignForward(a.cur),
                                         to |-> AlignForward(a.cur) + n])]
BY Zenon DEF ArenaAlloc

\* arena_alloc, when the block fits
LEMMA AllocFits ==
  ASSUME NEW a, ArenaType(a), ~a.exited, NEW n \in Nat \ {0},
         AlignForward(a.cur) + n <= a.capacity
  PROVE  LET from == AlignForward(a.cur)
         IN  ArenaAlloc(a, n) = [capacity |-> a.capacity, cur |-> from + n,
                                 blocks |-> Append(a.blocks, Block(from, n)),
                                 exited |-> a.exited]
<1> DEFINE from == AlignForward(a.cur)
<1>1. from \in Nat
  BY AlignForwardFacts DEF ArenaType
<1> HIDE DEF from
<1>2. ~(from + n > a.capacity)
  BY <1>1 DEF ArenaType, from
<1>3. ArenaAlloc(a, n) = [a EXCEPT !.cur = from + n, !.blocks = Append(@, Block(from, n))]
  BY <1>2 DEF ArenaAlloc, Block, from
<1> QED BY <1>3 DEF ArenaType, from

\* An arena written out
ArenaAt(capacity, cur, blocks) ==
    [capacity |-> capacity, cur |-> cur, blocks |-> blocks, exited |-> FALSE]

\* The same for an arena that is written out, with its end named
LEMMA AllocFitsAt ==
  ASSUME NEW capacity \in Nat, NEW cur \in Nat, NEW blocks \in Blocks,
         NEW n \in Nat \ {0}, NEW from \in Nat, from = AlignForward(cur), from + n <= capacity,
         NEW to, to = from + n
  PROVE  ArenaAlloc(ArenaAt(capacity, cur, blocks), n)
            = ArenaAt(capacity, to, Append(blocks, Block(from, n)))
<1> DEFINE a == ArenaAt(capacity, cur, blocks)
<1>1. /\ ArenaType(a) /\ ~a.exited /\ a.cur = cur /\ a.capacity = capacity
      /\ a.blocks = blocks /\ a.exited = FALSE
  BY DEF ArenaType, ArenaAt
<1> HIDE DEF a
<1>2. ArenaAlloc(a, n) = [capacity |-> capacity, cur |-> from + n,
                          blocks |-> Append(blocks, Block(from, n)), exited |-> a.exited]
  BY <1>1, AllocFits
<1> QED BY <1>1, <1>2 DEF a, ArenaAt

\* A list of blocks stays one when a block is added.
LEMMA AppendBlock ==
  ASSUME NEW bs \in Blocks, NEW from \in Nat, NEW n \in Nat
  PROVE  Append(bs, Block(from, n)) \in Blocks
BY SMT DEF Blocks, Block

\* Blocks of n1, .., n4 bytes fit an empty arena at f1, .., f4.
FourFit(capacity, n1, n2, n3, n4, f1, f2, f3, f4) ==
    /\ capacity \in Nat
    /\ n1 \in Nat \ {0} /\ n2 \in Nat \ {0} /\ n3 \in Nat \ {0} /\ n4 \in Nat \ {0}
    /\ f1 \in Nat /\ f2 \in Nat /\ f3 \in Nat /\ f4 \in Nat
    /\ f1 = AlignForward(0) /\ f2 = AlignForward(f1 + n1)
    /\ f3 = AlignForward(f2 + n2) /\ f4 = AlignForward(f3 + n3)
    /\ f1 + n1 <= capacity /\ f2 + n2 <= capacity
    /\ f3 + n3 <= capacity /\ f4 + n4 <= capacity

\* Four blocks taken from an empty arena
FourTaken(capacity, n1, n2, n3, n4) ==
    ArenaAlloc(ArenaAlloc(ArenaAlloc(ArenaAlloc(ArenaInit(capacity), n1), n2), n3), n4)

\* Four blocks that fit are where their sizes put them.
LEMMA FourBlocks ==
  \A capacity, n1, n2, n3, n4, f1, f2, f3, f4 :
    FourFit(capacity, n1, n2, n3, n4, f1, f2, f3, f4) =>
        /\ FourTaken(capacity, n1, n2, n3, n4).capacity = capacity
        /\ FourTaken(capacity, n1, n2, n3, n4).exited = FALSE
        /\ FourTaken(capacity, n1, n2, n3, n4).blocks[2] = Block(f2, n2)
        /\ FourTaken(capacity, n1, n2, n3, n4).blocks[3] = Block(f3, n3)
        /\ FourTaken(capacity, n1, n2, n3, n4).blocks[4] = Block(f4, n4)
<1> TAKE capacity, n1, n2, n3, n4, f1, f2, f3, f4
<1> HAVE FourFit(capacity, n1, n2, n3, n4, f1, f2, f3, f4)
<1> DEFINE c0 == 0
           c1 == f1 + n1
           c2 == f2 + n2
           c3 == f3 + n3
           c4 == f4 + n4
           b0 == <<>>
           b1 == Append(b0, Block(f1, n1))
           b2 == Append(b1, Block(f2, n2))
           b3 == Append(b2, Block(f3, n3))
           b4 == Append(b3, Block(f4, n4))
<1>0. /\ capacity \in Nat
      /\ n1 \in Nat \ {0} /\ n2 \in Nat \ {0} /\ n3 \in Nat \ {0} /\ n4 \in Nat \ {0}
      /\ f1 \in Nat /\ f2 \in Nat /\ f3 \in Nat /\ f4 \in Nat
      /\ f1 = AlignForward(0) /\ f2 = AlignForward(c1)
      /\ f3 = AlignForward(c2) /\ f4 = AlignForward(c3)
      /\ c1 <= capacity /\ c2 <= capacity /\ c3 <= capacity /\ c4 <= capacity
  BY Zenon DEF FourFit
<1>1. ArenaInit(capacity) = ArenaAt(capacity, c0, b0)
  BY Zenon DEF ArenaInit, ArenaAt
<1>2. b0 \in Blocks
  BY SMT DEF Blocks
<1>3. /\ c0 \in Nat /\ c1 \in Nat /\ c2 \in Nat /\ c3 \in Nat
      /\ n1 \in Nat /\ n2 \in Nat /\ n3 \in Nat /\ n4 \in Nat
      /\ f1 = AlignForward(c0)
      /\ f1 + n1 = c1 /\ f2 + n2 = c2 /\ f3 + n3 = c3 /\ f4 + n4 = c4
  BY <1>0, SMT
<1>4. b4[2] = Block(f2, n2) /\ b4[3] = Block(f3, n3) /\ b4[4] = Block(f4, n4)
  BY SMT
<1> HIDE DEF c0, c1, c2, c3, c4, b0
<1>5. b1 \in Blocks
  BY <1>0, <1>2, <1>3, AppendBlock, Zenon
<1>6. ArenaAlloc(ArenaAt(capacity, c0, b0), n1) = ArenaAt(capacity, c1, b1)
  BY <1>0, <1>2, <1>3, AllocFitsAt, SMT
<1> HIDE DEF b1
<1>7. b2 \in Blocks
  BY <1>0, <1>3, <1>5, AppendBlock, Zenon
<1>8. ArenaAlloc(ArenaAt(capacity, c1, b1), n2) = ArenaAt(capacity, c2, b2)
  BY <1>0, <1>3, <1>5, AllocFitsAt, SMT
<1> HIDE DEF b2
<1>9. b3 \in Blocks
  BY <1>0, <1>3, <1>7, AppendBlock, Zenon
<1>10. ArenaAlloc(ArenaAt(capacity, c2, b2), n3) = ArenaAt(capacity, c3, b3)
  BY <1>0, <1>3, <1>7, AllocFitsAt, SMT
<1> HIDE DEF b3
<1>11. ArenaAlloc(ArenaAt(capacity, c3, b3), n4) = ArenaAt(capacity, c4, b4)
  BY <1>0, <1>3, <1>9, AllocFitsAt, SMT
<1> HIDE DEF b4
<1>12. FourTaken(capacity, n1, n2, n3, n4) = ArenaAt(capacity, c4, b4)
  BY <1>1, <1>6, <1>8, <1>10, <1>11, Zenon DEF FourTaken
<1>13. LET a == ArenaAt(capacity, c4, b4)
       IN  a.capacity = capacity /\ a.exited = FALSE /\ a.blocks = b4
  BY Zenon DEF ArenaAt
<1> QED BY <1>4, <1>12, <1>13, Zenon

\* An arena of which at most "used" bytes are taken
HasRoom(a, capacity, used) ==
    /\ ArenaType(a) /\ ~a.exited /\ a.capacity = capacity
    /\ used \in Nat /\ a.cur <= used

\* A block takes its bytes and at most one alignment less one.
LEMMA AllocRoom ==
  \A a, capacity, used, n :
    /\ HasRoom(a, capacity, used)
    /\ n \in Nat \ {0} /\ used + 15 + n <= capacity
    => HasRoom(ArenaAlloc(a, n), capacity, used + 15 + n)
<1> TAKE a, capacity, used, n
<1> HAVE HasRoom(a, capacity, used) /\ n \in Nat \ {0} /\ used + 15 + n <= capacity
<1> DEFINE from == AlignForward(a.cur)
           b == [capacity |-> a.capacity, cur |-> from + n,
                 blocks |-> Append(a.blocks, Block(from, n)), exited |-> a.exited]
<1>1. /\ ArenaType(a) /\ ~a.exited /\ a.capacity = capacity /\ a.cur <= used
      /\ used \in Nat /\ n \in Nat \ {0} /\ used + 15 + n <= capacity
  BY Zenon DEF HasRoom
<1>2. a.cur \in Nat /\ capacity \in Nat /\ a.blocks \in Blocks /\ a.exited \in BOOLEAN
  BY <1>1, SMT DEF ArenaType
<1>3. from \in Nat /\ from <= a.cur + 15
  BY <1>2, AlignForwardFacts, SMT
<1> HIDE DEF from
<1>4. from + n \in Nat /\ from + n <= used + 15 + n /\ from + n <= capacity /\ n \in Nat
  BY <1>1, <1>2, <1>3, SMT
<1>5. ArenaAlloc(a, n) = b
  BY <1>1, <1>4, AllocFits, SMT DEF from
<1>6. Append(a.blocks, Block(from, n)) \in Blocks
  BY <1>2, <1>3, <1>4, AppendBlock, Zenon
<1>7. /\ ArenaType(b) /\ b.exited = a.exited /\ b.capacity = capacity /\ b.cur = from + n
  BY <1>1, <1>2, <1>4, <1>6, SMT DEF ArenaType
<1> HIDE DEF b
<1>8. used + 15 + n \in Nat /\ b.cur <= used + 15 + n
  BY <1>1, <1>4, <1>7, SMT
<1> QED BY <1>1, <1>5, <1>7, <1>8, Zenon DEF HasRoom

\* An arena without blocks
LEMMA EmptyBlocks == <<>> \in Blocks
BY DEF Blocks

\* An arena whose blocks are aligned, inside it and apart
IsApart(a) == ArenaType(a) /\ BlocksAreApart(a)

\* arena_alloc keeps blocks apart: the new one begins where the last has ended, or the
\* arena is unchanged but for "exited".
LEMMA AllocApart ==
  ASSUME NEW a, IsApart(a), NEW n \in Nat
  PROVE  IsApart(ArenaAlloc(a, n))
<1> USE DEF IsApart
<1> DEFINE b == ArenaAlloc(a, n)
           from == AlignForward(a.cur)
           new == Block(from, n)
<1>1. CASE n = 0 \/ a.exited
  BY <1>1 DEF ArenaAlloc, ArenaType, BlocksAreApart
<1>2. CASE ~(n = 0 \/ a.exited) /\ from + n > a.capacity
  <2>1. b = [a EXCEPT !.exited = TRUE]
    BY <1>2 DEF ArenaAlloc
  <2> QED BY <2>1 DEF ArenaType, BlocksAreApart
<1>3. CASE ~(n = 0 \/ a.exited) /\ ~(from + n > a.capacity)
  <2>1. from \in Nat /\ a.cur <= from /\ from % Alignment = 0
    BY AlignForwardFacts DEF ArenaType
  <2>2. /\ n \in Nat \ {0}
        /\ from + n <= a.capacity
        /\ ~a.exited
    BY <1>3, <2>1 DEF ArenaType
  <2>3. b = [capacity |-> a.capacity, cur |-> from + n,
                  blocks |-> Append(a.blocks, new), exited |-> a.exited]
    BY <2>2, AllocFits
  <2>4. new \in [from : Nat, to : Nat] /\ new.from = from /\ new.to = from + n
    BY <2>1 DEF Block
  <2> HIDE DEF new, from
  <2>5. ArenaType(b)
    BY <2>1, <2>2, <2>3, <2>4, SMTT(30) DEF ArenaType, Blocks
  <2>6. /\ Len(a.blocks) \in Nat
        /\ DOMAIN b.blocks = 1 .. Len(a.blocks) + 1
        /\ DOMAIN a.blocks = 1 .. Len(a.blocks)
        /\ \A k \in DOMAIN a.blocks : b.blocks[k] = a.blocks[k]
        /\ b.blocks[Len(a.blocks) + 1] = new
        /\ b.cur = from + n /\ b.capacity = a.capacity
    BY <2>3, <2>4, SMTT(30) DEF ArenaType, Blocks
  <2>7. \A k \in DOMAIN a.blocks : a.blocks[k].from \in Nat /\ a.blocks[k].to \in Nat
    <3> TAKE k \in DOMAIN a.blocks
    <3>1. a.blocks \in Blocks
      BY DEF ArenaType
    <3>2. k \in 1 .. Len(a.blocks)
      BY <3>1 DEF Blocks
    <3>3. a.blocks[k] \in [from : Nat, to : Nat]
      BY <3>1, <3>2, ElementOfSeq, Zenon DEF Blocks
    <3> QED BY <3>3
  <2>8. \A k \in DOMAIN b.blocks :
          /\ b.blocks[k].from % Alignment = 0
          /\ 0 <= b.blocks[k].from /\ b.blocks[k].from < b.blocks[k].to
          /\ b.blocks[k].to <= b.cur
    <3> TAKE k \in DOMAIN b.blocks
    <3>1. CASE k \in DOMAIN a.blocks
      <4>1. /\ a.blocks[k].from % Alignment = 0
            /\ 0 <= a.blocks[k].from /\ a.blocks[k].from < a.blocks[k].to
            /\ a.blocks[k].to <= a.cur
        BY <3>1 DEF BlocksAreApart
      <4> QED BY <4>1, <3>1, <2>1, <2>2, <2>6, <2>7 DEF ArenaType
    <3>2. CASE k = Len(a.blocks) + 1
      BY <3>2, <2>1, <2>2, <2>4, <2>6
    <3> QED BY <3>1, <3>2, <2>6
  <2>9. \A j, k \in DOMAIN b.blocks : j < k => b.blocks[j].to <= b.blocks[k].from
    <3> TAKE j, k \in DOMAIN b.blocks
    <3> HAVE j < k
    <3>1. CASE k \in DOMAIN a.blocks
      BY <3>1, <2>6 DEF BlocksAreApart
    <3>2. CASE k = Len(a.blocks) + 1
      <4>1. j \in DOMAIN a.blocks
        BY <3>2, <2>6
      <4> QED BY <4>1, <3>2, <2>1, <2>4, <2>6, <2>7, SMTT(30) DEF BlocksAreApart, ArenaType
    <3> QED BY <3>1, <3>2, <2>6
  <2>10. BlocksAreApart(b)
    BY <2>2, <2>6, <2>8, <2>9 DEF BlocksAreApart
  <2> QED BY <2>5, <2>10
<1> QED BY <1>1, <1>2, <1>3

\* arena_clear and arena_free leave no block.
LEMMA EmptiedApart ==
  ASSUME NEW a, IsApart(a)
  PROVE  IsApart(ArenaClear(a)) /\ IsApart(ArenaFree(a))
<1>1. /\ ArenaClear(a) = [capacity |-> a.capacity, cur |-> 0, blocks |-> <<>>,
                          exited |-> a.exited]
      /\ ArenaFree(a) = [capacity |-> 0, cur |-> 0, blocks |-> <<>>, exited |-> a.exited]
  <2> DEFINE c == [capacity |-> a.capacity, cur |-> 0, blocks |-> <<>>, exited |-> a.exited]
  <2>1. ArenaClear(a) = c
    <3>1. ArenaClear(a) = [a EXCEPT !.cur = 0, !.blocks = <<>>]
      BY DEF ArenaClear
    <3>2. a \in [capacity : Nat, cur : Nat, blocks : Blocks, exited : BOOLEAN]
      BY DEF IsApart, ArenaType
    <3> QED BY <3>1, <3>2
  <2>2. [c EXCEPT !.capacity = 0]
          = [capacity |-> 0, cur |-> 0, blocks |-> <<>>, exited |-> a.exited]
    OBVIOUS
  <2> HIDE DEF c
  <2>3. ArenaFree(a) = [c EXCEPT !.capacity = 0]
    BY <2>1, Zenon DEF ArenaFree
  <2> QED BY <2>1, <2>2, <2>3, Zenon DEF c
<1>2. a.capacity \in Nat /\ a.exited \in BOOLEAN
  BY DEF IsApart, ArenaType
<1>3. ASSUME NEW c, NEW n \in Nat,
             c = [capacity |-> n, cur |-> 0, blocks |-> <<>>, exited |-> a.exited]
      PROVE  IsApart(c)
  <2>1. c.cur = 0 /\ c.capacity = n /\ c.blocks = <<>>
    BY <1>3
  <2>2. ArenaType(c)
    BY <1>2, <1>3, EmptyBlocks DEF ArenaType
  <2> QED BY <2>1, <2>2 DEF IsApart, BlocksAreApart
<1> QED BY <1>1, <1>2, <1>3
=============================================================================
