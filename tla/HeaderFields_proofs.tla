------------------------ MODULE HeaderFields_proofs -------------------------
(***************************************************************************)
(* What src/src/http finds in a text, for texts of any length: the value   *)
(* of a header field or of a parameter of the target, which are found by a *)
(* search of the whole text (korall_request_header_get,                    *)
(* korall_request_param_get), and the items of a Cache-Control value,      *)
(* whose loops read them by strcspn and strchr                             *)
(* (http_process_cache_control_req and _res).  A loop or a fold is taken   *)
(* turn by turn (Lemmas): its results are a function on 0 .. n.            *)
(***************************************************************************)
EXTENDS RequestTarget, HeaderFields, Lemmas

-----------------------------------------------------------------------------
(* Searches for a token                                                    *)

\* c first stands at the k-th place of s.
FirstAt(s, c, k) == k \in 1 .. Len(s) /\ s[k] = c /\ \A m \in 1 .. k - 1 : s[m] # c

\* What strchr and fill_string_char find
LEMMA SplitFacts ==
  ASSUME NEW E, NEW s \in Seq(E), NEW c
  PROVE  /\ ~Contains(s, c) => IndexOf(s, c) = 0 /\ Before(s, c) = s
         /\ Contains(s, c) => \E k \in 1 .. Len(s) :
                FirstAt(s, c, k) /\ IndexOf(s, c) = k
                /\ Before(s, c) = SubSeq(s, 1, k - 1) /\ After(s, c) = SubSeq(s, k + 1, Len(s))
<1> DEFINE n == Len(s)
           at == {i \in 1 .. n : s[i] = c}
<1>1. n \in Nat /\ DOMAIN s = 1 .. n
  BY LenProperties
<1>2. IndexOf(s, c) = IF at # {} THEN Min(at) ELSE 0
  BY DEF IndexOf, SelectInSeq
<1>3. Contains(s, c) <=> at # {}
  BY DEF Contains
<1>4. CASE ~Contains(s, c)
  BY <1>2, <1>3, <1>4, Zenon DEF Before
<1>5. CASE Contains(s, c)
  <2>1. at # {} /\ at \subseteq Nat
    BY <1>1, <1>3, <1>5
  <2> DEFINE k == Min(at)
  <2>2. k \in at /\ \A y \in at : k <= y
    <3> HIDE DEF at
    <3> QED BY <2>1, FirstPosition
  <2> HIDE DEF k
  <2>3. k \in 1 .. n /\ s[k] = c /\ \A m \in 1 .. k - 1 : s[m] # c
    BY <1>1, <2>2
  <2>4. IndexOf(s, c) = k /\ k # 0
    BY <1>2, <2>1, <2>3 DEF k
  <2>5. Before(s, c) = SubSeq(s, 1, k - 1)
    BY <2>4, Zenon DEF Before
  <2>6. Len(SubSeq(s, 1, k - 1)) = k - 1
    BY <1>1, <2>3
  <2>7. After(s, c) = SubSeq(s, k - 1 + 2, n)
    BY <2>5, <2>6, Zenon DEF After
  <2>8. k - 1 + 2 = k + 1
    BY <2>3
  <2> QED BY <1>5, <2>3, <2>4, <2>5, <2>7, <2>8, Zenon DEF FirstAt
<1> QED BY <1>4, <1>5

-----------------------------------------------------------------------------
(* Lengths of texts                                                        *)

\* The length of a text, word by word
LEMMA LenTurns ==
  ASSUME NEW s \in Seq(STRING), HasWidths(s)
  PROVE  \E p \in [0 .. Len(s) -> Nat] :
            /\ p[0] = 0 /\ p[Len(s)] = TextLen(s)
            /\ \A k \in 1 .. Len(s) : p[k] = p[k - 1] + Width(s[k])
<1> DEFINE n == Len(s)
           S == DOMAIN s
           G == [p \in (1 .. n) \X Nat |-> p[2] + Width(s[p[1]])]
           Body(g) == [t \in SUBSET S |-> IF t = {} THEN 0 ELSE g[t \ {Max(t)}] + Width(s[Max(t)])]
           iter == CHOOSE g : g = Body(g)
<1>1. n \in Nat /\ S = 1 .. n
  BY LenProperties
<1>2. \A k \in 1 .. n : Width(s[k]) \in Nat
  BY <1>1 DEF HasWidths
<1>3. G \in [(1 .. n) \X Nat -> Nat]
  <2>1. \A p \in (1 .. n) \X Nat : p[2] \in Nat /\ Width(s[p[1]]) \in Nat
    BY <1>2
  <2> QED BY <2>1
<1> HIDE DEF n, S
<1>4. PICK g \in [SUBSET (1 .. n) -> Nat] : FoldsBy(g, n, 0, G)
  <2> HIDE DEF G
  <2>1. 0 \in Nat
    OBVIOUS
  <2> QED BY <1>1, <1>3, <2>1, FoldUpExists, Zenon
<1>5. ASSUME NEW t \in SUBSET (1 .. n), t # {} PROVE Max(t) \in 1 .. n
  BY <1>1, <1>5, LastPosition
<1>6. ASSUME NEW h, NEW t \in SUBSET (1 .. n), t # {}, h[t \ {Max(t)}] \in Nat
      PROVE  G[<<Max(t), h[t \ {Max(t)}]>>] = h[t \ {Max(t)}] + Width(s[Max(t)])
  BY <1>5, <1>6
<1> HIDE DEF G
<1>7. g = Body(g)
  <2>1. ASSUME NEW t \in SUBSET S
        PROVE  g[t] = IF t = {} THEN 0 ELSE g[t \ {Max(t)}] + Width(s[Max(t)])
    BY <1>1, <1>4, <1>6 DEF FoldsBy
  <2> QED BY <1>1, <1>4, <2>1
<1>8. iter = Body(iter)
  <2> HIDE DEF Body
  <2> QED BY <1>7, Zenon
<1> HIDE DEF iter
<1>9. iter[{}] = 0
  BY <1>8
<1>10. ASSUME NEW t \in SUBSET (1 .. n), t # {}, iter[t \ {Max(t)}] \in Nat
       PROVE  iter[t] = G[<<Max(t), iter[t \ {Max(t)}]>>]
  <2>1. iter[t] = Body(iter)[t]
    BY <1>8, Zenon
  <2>2. Body(iter)[t] = iter[t \ {Max(t)}] + Width(s[Max(t)])
    BY <1>1, <1>10
  <2> QED BY <1>6, <1>10, <2>1, <2>2
<1>11. PICK r \in [0 .. n -> Nat] : Turns(r, n, 0, G) /\ r[n] = iter[1 .. n]
  <2>1. FoldsIn(iter, n, Nat, 0, G)
    BY <1>9, <1>10, Zenon DEF FoldsIn
  <2>2. n \in Nat /\ 0 \in Nat
    BY <1>1
  <2>3. HasTurns(iter, n, Nat, 0, G)
    BY <2>1, <2>2, <1>3, FoldTurns, Zenon
  <2> QED BY <2>3, Zenon DEF HasTurns
<1>12. ASSUME NEW k \in 1 .. n PROVE r[k] = r[k - 1] + Width(s[k])
  <2>1. r[k - 1] \in Nat
    BY <1>1, <1>11
  <2>2. G[<<k, r[k - 1]>>] = r[k - 1] + Width(s[k])
    BY <2>1 DEF G
  <2> QED BY <1>11, <2>2 DEF Turns
<1>13. TextLen(s) = iter[S]
  BY DEF TextLen, FoldLeft, MapThenFoldSet, iter, S
<1> QED BY <1>1, <1>11, <1>12, <1>13 DEF n, Turns

\* p[k] is the length of the first k words of s.
Sums(p, s) ==
    /\ p[0] = 0
    /\ \A k \in 1 .. Len(s) : p[k] = p[k - 1] + Width(s[k])
    /\ \A i, j \in 0 .. Len(s) : i <= j =>
        p[i] <= p[j] /\ TextLen(SubSeq(s, i + 1, j)) = p[j] - p[i]

\* Every text whose words have lengths has such sums.
LEMMA SumsExist ==
  ASSUME NEW s \in Seq(STRING), HasWidths(s)
  PROVE  \E p \in [0 .. Len(s) -> Nat] : Sums(p, s)
<1> DEFINE n == Len(s)
<1>1. n \in Nat /\ DOMAIN s = 1 .. n
  BY LenProperties
<1>2. PICK p \in [0 .. n -> Nat] : p[0] = 0 /\ \A k \in 1 .. n : p[k] = p[k - 1] + Width(s[k])
  BY LenTurns, Zenon
<1> HIDE DEF n
<1>3. \A k \in 1 .. n : Width(s[k]) \in Nat
  BY <1>1 DEF HasWidths
<1>4. ASSUME NEW i \in 0 .. n, NEW j \in 0 .. n, i <= j
      PROVE  p[i] <= p[j] /\ TextLen(SubSeq(s, i + 1, j)) = p[j] - p[i]
  <2> DEFINE t == SubSeq(s, i + 1, j)
             m == j - i
  <2>1. m \in Nat /\ t \in Seq(STRING) /\ Len(t) = m /\ \A k \in 1 .. m : t[k] = s[i + k]
    BY <1>1, <1>4, SMTT(60) DEF n
  <2>2. i + m = j /\ \A k \in 1 .. m : i + k \in 1 .. n
    BY <1>1, <1>4
  <2> HIDE DEF t, m
  <2>3. HasWidths(t)
    <3>1. DOMAIN t = 1 .. m
      BY <2>1, LenProperties
    <3> QED BY <1>3, <2>1, <2>2, <3>1, Zenon DEF HasWidths
  <2>4. PICK q \in [0 .. m -> Nat] :
           q[0] = 0 /\ q[m] = TextLen(t) /\ \A k \in 1 .. m : q[k] = q[k - 1] + Width(t[k])
    BY <2>1, <2>3, LenTurns, Zenon
  <2> DEFINE T == {k \in 0 .. m : q[k] = p[i + k] - p[i]}
  <2>5. 0 \in T
    <3>1. p[i] \in Nat /\ i + 0 = i
      BY <1>1, <1>2
    <3>2. p[i] - p[i] = 0
      BY <3>1
    <3> QED BY <2>1, <2>4, <3>1, <3>2
  <2>6. ASSUME NEW k \in 1 .. m, k - 1 \in T PROVE k \in T
    <3>1. /\ i + k \in 1 .. n /\ (i + k) - 1 = i + (k - 1) /\ k \in 0 .. m
          /\ i + (k - 1) \in 0 .. n /\ i + k \in 0 .. n
      BY <1>1, <1>4, <2>1, <2>2
    <3>2. p[i + k] = p[i + (k - 1)] + Width(s[i + k])
      BY <1>2, <3>1
    <3>3. q[k] = q[k - 1] + Width(s[i + k])
      BY <2>1, <2>4
    <3>4. q[k - 1] = p[i + (k - 1)] - p[i]
      BY <2>6
    <3>5. p[i] \in Nat /\ p[i + (k - 1)] \in Nat /\ Width(s[i + k]) \in Nat
      BY <1>2, <1>3, <3>1
    <3> HIDE DEF T
    <3>6. q[k] = p[i + k] - p[i]
      BY <3>2, <3>3, <3>4, <3>5
    <3> QED BY <3>1, <3>6 DEF T
  <2>7. m \in T
    <3> HIDE DEF T
    <3>1. m \in 0 .. m
      BY <2>1
    <3> QED BY <2>1, <2>5, <2>6, <3>1, CountUp, Zenon
  <2>8. p[i] \in Nat /\ p[j] \in Nat /\ q[m] \in Nat
    <3>1. m \in 0 .. m
      BY <2>1
    <3> QED BY <1>2, <1>4, <2>4, <3>1
  <2>9. q[m] = p[j] - p[i]
    BY <2>2, <2>7
  <2>10. p[i] <= p[j] /\ TextLen(t) = p[j] - p[i]
    BY <2>4, <2>8, <2>9
  <2> QED BY <2>10 DEF t
<1> QED BY <1>2, <1>4 DEF Sums, n

\* A part of a text is not longer than the text.
LEMMA PartFits ==
  ASSUME NEW s \in Seq(STRING), HasWidths(s), NEW i \in 0 .. Len(s), NEW j \in 0 .. Len(s),
         i <= j, NEW room \in Nat, Fits(s, room)
  PROVE  Fits(SubSeq(s, i + 1, j), room)
<1> DEFINE n == Len(s)
<1>1. n \in Nat
  BY LenProperties
<1>2. PICK p \in [0 .. n -> Nat] : Sums(p, s)
  BY SumsExist
<1>3. SubSeq(s, 0 + 1, n) = s
  <2>1. SubSeq(s, 1, n) = s
    BY SubSeqFull
  <2> QED BY <2>1
<1>4. /\ p[0] = 0 /\ p[0] <= p[i] /\ p[i] <= p[j] /\ p[j] <= p[n]
      /\ TextLen(SubSeq(s, i + 1, j)) = p[j] - p[i]
      /\ TextLen(SubSeq(s, 0 + 1, n)) = p[n] - p[0]
  BY <1>1, <1>2 DEF Sums
<1>5. p[0] \in Nat /\ p[i] \in Nat /\ p[j] \in Nat /\ p[n] \in Nat
  BY <1>1, <1>2
<1> HIDE DEF n
<1>6. TextLen(s) = p[n]
  <2>1. TextLen(s) = p[n] - p[0]
    BY <1>3, <1>4, Zenon
  <2> QED BY <1>4, <1>5, <2>1
<1> QED BY <1>4, <1>5, <1>6 DEF Fits

-----------------------------------------------------------------------------
(* The text of the header section                                          *)

\* Lines as a request may have them
Lines == Seq([field : Seq(STRING), spaces : Nat, value : Seq(STRING)])

\* The tokens of lines and between them
Space == " "
Tokens == STRING \cup {":", Space, "\r", "\n"}

\* Texts of one word, of two, and of the same word several times
LEMMA ShortTexts ==
  ASSUME NEW E, NEW v \in E, NEW w \in E
  PROVE  /\ <<v>> \in Seq(E) /\ Len(<<v>>) = 1 /\ <<v>>[1] = v
         /\ <<v, w>> \in Seq(E) /\ Len(<<v, w>>) = 2 /\ <<v, w>>[1] = v /\ <<v, w>>[2] = w
OBVIOUS

\* A text of the same word several times
LEMMA Repeated ==
  ASSUME NEW E, NEW n \in Nat, NEW w \in E
  PROVE  LET s == [k \in 1 .. n |-> w]
         IN  s \in Seq(E) /\ Len(s) = n /\ \A j \in 1 .. n : s[j] = w
<1> DEFINE s == [k \in 1 .. n |-> w]
<1>1. s \in [1 .. n -> E]
  OBVIOUS
<1>2. \A j \in 1 .. n : s[j] = w
  OBVIOUS
<1> HIDE DEF s
<1>3. s \in Seq(E) /\ Len(s) = n
  BY <1>1
<1> QED BY <1>2, <1>3 DEF s

\* Two texts, one behind the other
LEMMA Joined ==
  ASSUME NEW E, NEW s \in Seq(E), NEW t \in Seq(E)
  PROVE  /\ s \o t \in Seq(E) /\ Len(s \o t) = Len(s) + Len(t)
         /\ \A j \in 1 .. Len(s) : (s \o t)[j] = s[j]
         /\ \A j \in 1 .. Len(t) : (s \o t)[Len(s) + j] = t[j]
<1> DEFINE u == s \o t
           a == Len(s)
           b == Len(t)
<1>1. /\ u \in Seq(E) /\ Len(u) = a + b
      /\ \A i \in 1 .. a + b : u[i] = IF i <= a THEN s[i] ELSE t[i - a]
  BY ConcatProperties, Zenon
<1>2. a \in Nat /\ b \in Nat
  BY LenProperties
<1> HIDE DEF u, a, b
<1>3. ASSUME NEW j \in 1 .. a PROVE u[j] = s[j]
  BY <1>1, <1>2
<1>4. ASSUME NEW j \in 1 .. b PROVE u[a + j] = t[j]
  <2>1. a + j \in 1 .. a + b /\ ~(a + j <= a) /\ (a + j) - a = j
    BY <1>2
  <2> QED BY <1>1, <2>1
<1> QED BY <1>1, <1>3, <1>4 DEF u, a, b

\* A line, token by token
LEMMA LineTextFacts ==
  ASSUME NEW line \in [field : Seq(STRING), spaces : Nat, value : Seq(STRING)]
  PROVE  LET f == Len(line.field)
             v == f + 1 + line.spaces
             t == LineText(line)
         IN  /\ t \in Seq(Tokens) /\ f \in Nat /\ Len(line.value) \in Nat
             /\ Len(t) = v + Len(line.value)
             /\ \A j \in 1 .. f : t[j] = line.field[j]
             /\ t[f + 1] = ":"
             /\ \A j \in f + 2 .. v : t[j] = Space
             /\ \A j \in 1 .. Len(line.value) : t[v + j] = line.value[j]
<1> DEFINE blank == [k \in 1 .. line.spaces |-> Space]
           a == line.field \o <<":">>
           b == a \o blank
<1>1. line.field \in Seq(Tokens) /\ line.value \in Seq(Tokens) /\ line.spaces \in Nat
  <2>1. STRING \subseteq Tokens
    BY DEF Tokens
  <2> QED BY <2>1, SeqMonotonic
<1>2. LineText(line) = b \o line.value
  BY Zenon DEF LineText, Space
<1> DEFINE f == Len(line.field)
           n == line.spaces
           m == Len(line.value)
<1>3. f \in Nat /\ m \in Nat /\ n \in Nat
  BY <1>1
<1>4. <<":">> \in Seq(Tokens) /\ Len(<<":">>) = 1 /\ <<":">>[1] = ":"
  <2>1. ":" \in Tokens
    BY DEF Tokens
  <2> QED BY <2>1, ShortTexts
<1>5. blank \in Seq(Tokens) /\ Len(blank) = n /\ \A j \in 1 .. n : blank[j] = Space
  <2>1. Space \in Tokens
    BY DEF Tokens
  <2> QED BY <1>3, <2>1, Repeated
<1> DEFINE colon == <<":">>
<1>6. /\ a \in Seq(Tokens) /\ Len(a) = f + 1
      /\ \A j \in 1 .. f : a[j] = line.field[j]
      /\ \A j \in 1 .. 1 : a[f + j] = colon[j]
  BY <1>1, <1>3, <1>4, Joined
<1> HIDE DEF a, blank, f, n, m
<1>7. /\ b \in Seq(Tokens) /\ Len(b) = f + 1 + n
      /\ \A j \in 1 .. f + 1 : b[j] = a[j]
      /\ \A j \in 1 .. n : b[f + 1 + j] = blank[j]
  <2>1. /\ b \in Seq(Tokens) /\ Len(b) = Len(a) + Len(blank)
        /\ \A j \in 1 .. Len(a) : b[j] = a[j]
        /\ \A j \in 1 .. Len(blank) : b[Len(a) + j] = blank[j]
    <3>1. a \in Seq(Tokens) /\ blank \in Seq(Tokens)
      BY <1>5, <1>6
    <3> QED BY <3>1, Joined
  <2> HIDE DEF b
  <2> QED BY <1>5, <1>6, <2>1
<1> HIDE DEF b
<1> DEFINE t == b \o line.value
<1>8. /\ t \in Seq(Tokens) /\ Len(t) = f + 1 + n + m
      /\ \A j \in 1 .. f + 1 + n : t[j] = b[j]
      /\ \A j \in 1 .. m : t[f + 1 + n + j] = line.value[j]
  <2>1. /\ t \in Seq(Tokens) /\ Len(t) = Len(b) + Len(line.value)
        /\ \A j \in 1 .. Len(b) : t[j] = b[j]
        /\ \A j \in 1 .. Len(line.value) : t[Len(b) + j] = line.value[j]
    <3>1. b \in Seq(Tokens) /\ line.value \in Seq(Tokens)
      BY <1>1, <1>7
    <3> QED BY <3>1, Joined
  <2> HIDE DEF t
  <2> QED BY <1>7, <2>1 DEF m
<1> HIDE DEF t
<1>9. t[f + 1] = ":"
  <2>1. f + 1 \in 1 .. f + 1 /\ f + 1 \in 1 .. f + 1 + n /\ 1 \in 1 .. 1
    BY <1>3
  <2> QED BY <1>4, <1>6, <1>7, <1>8, <2>1
<1>10. ASSUME NEW j \in 1 .. f PROVE t[j] = line.field[j]
  <2>1. j \in 1 .. f + 1 /\ j \in 1 .. f + 1 + n
    BY <1>3
  <2> QED BY <1>6, <1>7, <1>8, <2>1
<1>11. ASSUME NEW j \in f + 2 .. f + 1 + n PROVE t[j] = Space
  <2> DEFINE i == j - (f + 1)
  <2>1. i \in 1 .. n /\ j = f + 1 + i /\ j \in 1 .. f + 1 + n
    BY <1>3
  <2> HIDE DEF i
  <2> QED BY <1>5, <1>7, <1>8, <2>1
<1> QED BY <1>2, <1>3, <1>8, <1>9, <1>10, <1>11 DEF f, n, m, t

\* One turn of the loop over the lines
TextTurn(text, line) == (IF text = <<>> THEN text ELSE text \o CRLF) \o LineText(line)

\* The header section, line by line
LEMMA TextTurns ==
  ASSUME NEW lines \in Lines
  PROVE  \E r \in [0 .. Len(lines) -> Seq(Tokens)] :
            /\ r[0] = <<>> /\ r[Len(lines)] = HeaderText(lines)
            /\ \A k \in 1 .. Len(lines) : r[k] = TextTurn(r[k - 1], lines[k])
<1> DEFINE n == Len(lines)
           S == DOMAIN lines
           A == Seq(Tokens)
           G == [p \in (1 .. n) \X A |-> TextTurn(p[2], lines[p[1]])]
           Body(g) == [t \in SUBSET S |-> IF t = {} THEN <<>>
                                          ELSE TextTurn(g[t \ {Max(t)}], lines[Max(t)])]
           iter == CHOOSE g : g = Body(g)
<1>1. n \in Nat /\ S = 1 .. n /\ \A k \in 1 .. n : LineText(lines[k]) \in A
  <2>1. n \in Nat /\ S = 1 .. n
    BY LenProperties DEF Lines
  <2>2. \A k \in 1 .. n : lines[k] \in [field : Seq(STRING), spaces : Nat, value : Seq(STRING)]
    BY ElementOfSeq DEF Lines
  <2> QED BY <2>1, <2>2, LineTextFacts
<1>2. <<>> \in A
  OBVIOUS
<1>3. ASSUME NEW k \in 1 .. n, NEW text \in A PROVE TextTurn(text, lines[k]) \in A
  <2>1. CRLF \in A
    <3>1. "\r" \in Tokens /\ "\n" \in Tokens
      BY DEF Tokens
    <3> QED BY <3>1, ShortTexts, Zenon DEF CRLF
  <2>2. text \o CRLF \in A
    BY <2>1, <1>3, ConcatProperties
  <2>3. LineText(lines[k]) \in A
    BY <1>1
  <2> QED BY <1>3, <2>2, <2>3, ConcatProperties DEF TextTurn
<1>4. G \in [(1 .. n) \X A -> A]
  <2>1. \A p \in (1 .. n) \X A : p[1] \in 1 .. n /\ p[2] \in A
    OBVIOUS
  <2> HIDE DEF n, A
  <2> QED BY <1>3, <2>1
<1> HIDE DEF n, S, A
<1>5. PICK g \in [SUBSET (1 .. n) -> A] : FoldsBy(g, n, <<>>, G)
  <2> HIDE DEF G
  <2> QED BY <1>1, <1>2, <1>4, FoldUpExists, Zenon
<1>6. ASSUME NEW t \in SUBSET (1 .. n), t # {} PROVE Max(t) \in 1 .. n
  BY <1>1, <1>6, LastPosition
<1>7. ASSUME NEW h, NEW t \in SUBSET (1 .. n), t # {}, h[t \ {Max(t)}] \in A
      PROVE  G[<<Max(t), h[t \ {Max(t)}]>>] = TextTurn(h[t \ {Max(t)}], lines[Max(t)])
  BY <1>6, <1>7
<1> HIDE DEF G
<1>8. g = Body(g)
  <2>1. ASSUME NEW t \in SUBSET S
        PROVE  g[t] = IF t = {} THEN <<>> ELSE TextTurn(g[t \ {Max(t)}], lines[Max(t)])
    BY <1>1, <1>5, <1>7 DEF FoldsBy
  <2> QED BY <1>1, <1>5, <2>1
<1>9. iter = Body(iter)
  <2> HIDE DEF Body
  <2> QED BY <1>8, Zenon
<1> HIDE DEF iter
<1>10. iter[{}] = <<>>
  BY <1>9
<1>11. ASSUME NEW t \in SUBSET (1 .. n), t # {}, iter[t \ {Max(t)}] \in A
       PROVE  iter[t] = G[<<Max(t), iter[t \ {Max(t)}]>>]
  <2>1. iter[t] = Body(iter)[t]
    BY <1>9, Zenon
  <2>2. Body(iter)[t] = TextTurn(iter[t \ {Max(t)}], lines[Max(t)])
    BY <1>1, <1>11
  <2> QED BY <1>7, <1>11, <2>1, <2>2
<1>12. PICK r \in [0 .. n -> A] : Turns(r, n, <<>>, G) /\ r[n] = iter[1 .. n]
  <2>1. FoldsIn(iter, n, A, <<>>, G)
    BY <1>10, <1>11, Zenon DEF FoldsIn
  <2>2. n \in Nat
    BY <1>1
  <2>3. HasTurns(iter, n, A, <<>>, G)
    BY <2>1, <2>2, <1>2, <1>4, FoldTurns, Zenon
  <2> QED BY <2>3, Zenon DEF HasTurns
<1>13. ASSUME NEW k \in 1 .. n PROVE r[k] = TextTurn(r[k - 1], lines[k])
  <2>1. r[k - 1] \in A
    BY <1>1, <1>12
  <2>2. G[<<k, r[k - 1]>>] = TextTurn(r[k - 1], lines[k])
    BY <2>1 DEF G
  <2> QED BY <1>12, <2>2 DEF Turns
<1>14. HeaderText(lines) = iter[S]
  BY DEF HeaderText, FoldLeft, MapThenFoldSet, iter, S, TextTurn
<1> QED BY <1>1, <1>12, <1>13, <1>14 DEF n, A, Turns

\* Where the lines stand in the text: b[k] tokens are before the k-th, and a CRLF is
\* between two.
Layout(b, lines, text) ==
    LET n == Len(lines)
        size(k) == Len(LineText(lines[k]))
    IN  /\ text \in Seq(Tokens)
        /\ \A k \in 1 .. n :
            /\ b[k] + size(k) <= Len(text)
            /\ \A j \in 1 .. size(k) : text[b[k] + j] = LineText(lines[k])[j]
        /\ n = 0 => Len(text) = 0
        /\ n > 0 => b[1] = 0 /\ Len(text) = b[n] + size(n)
        /\ \A k \in 1 .. n - 1 :
            /\ b[k + 1] = b[k] + size(k) + 2
            /\ text[b[k] + size(k) + 1] = "\r" /\ text[b[k] + size(k) + 2] = "\n"

\* A line is put behind those before it, with a CRLF between.
LEMMA TextTurnFacts ==
  ASSUME NEW text \in Seq(Tokens), NEW line, LineText(line) \in Seq(Tokens)
  PROVE  LET b == IF text = <<>> THEN 0 ELSE Len(text) + 2
             t == LineText(line)
             next == TextTurn(text, line)
         IN  /\ next \in Seq(Tokens) /\ b \in Nat /\ Len(next) = b + Len(t)
             /\ \A j \in 1 .. Len(text) : next[j] = text[j]
             /\ \A j \in 1 .. Len(t) : next[b + j] = t[j]
             /\ text # <<>> => next[Len(text) + 1] = "\r" /\ next[Len(text) + 2] = "\n"
<1> DEFINE t == LineText(line)
           next == TextTurn(text, line)
<1>1. t \in Seq(Tokens) /\ Len(text) \in Nat /\ Len(t) \in Nat
  BY LenProperties
<1> HIDE DEF t
<1>2. CASE text = <<>>
  <2>1. next = <<>> \o t
    BY <1>2, Zenon DEF TextTurn, t
  <2>2. next = t
    BY <1>1, <2>1, ConcatEmptySeq
  <2>3. Len(text) = 0
    BY <1>2
  <2> HIDE DEF next
  <2> QED BY <1>1, <1>2, <2>2, <2>3 DEF t, next
<1>3. CASE text # <<>>
  <2> DEFINE u == text \o CRLF
  <2>1. next = u \o t
    BY <1>3, Zenon DEF TextTurn, t
  <2>2. CRLF \in Seq(Tokens) /\ Len(CRLF) = 2 /\ CRLF[1] = "\r" /\ CRLF[2] = "\n"
    <3>1. "\r" \in Tokens /\ "\n" \in Tokens
      BY DEF Tokens
    <3> QED BY <3>1, ShortTexts DEF CRLF
  <2>3. /\ u \in Seq(Tokens) /\ Len(u) = Len(text) + Len(CRLF)
        /\ \A j \in 1 .. Len(text) : u[j] = text[j]
        /\ \A j \in 1 .. Len(CRLF) : u[Len(text) + j] = CRLF[j]
    <3>1. CRLF \in Seq(Tokens)
      BY <2>2
    <3> QED BY <3>1, Joined
  <2> HIDE DEF u
  <2>4. /\ next \in Seq(Tokens) /\ Len(next) = Len(u) + Len(t)
        /\ \A j \in 1 .. Len(u) : next[j] = u[j]
        /\ \A j \in 1 .. Len(t) : next[Len(u) + j] = t[j]
    <3>1. u \in Seq(Tokens)
      BY <2>3
    <3> QED BY <1>1, <2>1, <3>1, Joined
  <2> HIDE DEF next
  <2>5. Len(u) = Len(text) + 2 /\ Len(next) = Len(text) + 2 + Len(t)
    BY <2>2, <2>3, <2>4
  <2>6. \A j \in 1 .. Len(text) : next[j] = text[j]
    BY <1>1, <2>3, <2>4, <2>5
  <2>7. next[Len(text) + 1] = "\r" /\ next[Len(text) + 2] = "\n"
    <3>1. /\ 1 \in 1 .. Len(CRLF) /\ 2 \in 1 .. Len(CRLF)
          /\ Len(text) + 1 \in 1 .. Len(u) /\ Len(text) + 2 \in 1 .. Len(u)
      BY <1>1, <2>2, <2>5
    <3> QED BY <2>2, <2>3, <2>4, <3>1
  <2> QED BY <1>1, <1>3, <2>4, <2>5, <2>6, <2>7 DEF t, next
<1> QED BY <1>2, <1>3

\* Every list of lines is laid out in its header section.
LEMMA LayoutExists ==
  ASSUME NEW lines \in Lines
  PROVE  \E b \in [1 .. Len(lines) -> Nat] : Layout(b, lines, HeaderText(lines))
<1> DEFINE n == Len(lines)
           t(k) == LineText(lines[k])
<1>1. PICK r \in [0 .. n -> Seq(Tokens)] :
         /\ r[0] = <<>> /\ r[n] = HeaderText(lines)
         /\ \A k \in 1 .. n : r[k] = TextTurn(r[k - 1], lines[k])
  BY TextTurns
<1>2. n \in Nat
  BY LenProperties DEF Lines
<1>3. \A k \in 1 .. n : t(k) \in Seq(Tokens) /\ Len(t(k)) \in Nat \ {0}
  <2> TAKE k \in 1 .. n
  <2>1. lines[k] \in [field : Seq(STRING), spaces : Nat, value : Seq(STRING)]
    BY ElementOfSeq DEF Lines
  <2> DEFINE f == Len(lines[k].field)
             m == Len(lines[k].value)
  <2>2. lines[k].spaces \in Nat
    BY <2>1
  <2>3. t(k) \in Seq(Tokens) /\ f \in Nat /\ m \in Nat /\ Len(t(k)) = f + 1 + lines[k].spaces + m
    BY <2>1, LineTextFacts, Zenon
  <2> HIDE DEF f, m, t
  <2> QED BY <2>2, <2>3
<1> DEFINE b == [k \in 1 .. n |-> IF r[k - 1] = <<>> THEN 0 ELSE Len(r[k - 1]) + 2]
<1> HIDE DEF n, t
<1>4. ASSUME NEW k \in 1 .. n
      PROVE  /\ k - 1 \in 0 .. n /\ k \in 0 .. n
             /\ b[k] \in Nat /\ Len(r[k]) = b[k] + Len(t(k)) /\ Len(r[k]) > 0
             /\ \A j \in 1 .. Len(r[k - 1]) : r[k][j] = r[k - 1][j]
             /\ \A j \in 1 .. Len(t(k)) : r[k][b[k] + j] = t(k)[j]
             /\ r[k - 1] # <<>> => /\ b[k] = Len(r[k - 1]) + 2
                                   /\ r[k][Len(r[k - 1]) + 1] = "\r" /\ r[k][Len(r[k - 1]) + 2] = "\n"
  <2>1. k - 1 \in 0 .. n /\ k \in 0 .. n
    BY <1>2
  <2> DEFINE text == r[k - 1]
             c == IF text = <<>> THEN 0 ELSE Len(text) + 2
  <2>2. text \in Seq(Tokens)
    BY <1>1, <2>1
  <2>3. r[k] = TextTurn(text, lines[k]) /\ b[k] = c /\ LineText(lines[k]) \in Seq(Tokens)
    BY <1>1, <1>3 DEF t
  <2>4. /\ c \in Nat /\ Len(r[k]) = c + Len(t(k))
        /\ \A j \in 1 .. Len(text) : r[k][j] = text[j]
        /\ \A j \in 1 .. Len(t(k)) : r[k][c + j] = t(k)[j]
        /\ text # <<>> => r[k][Len(text) + 1] = "\r" /\ r[k][Len(text) + 2] = "\n"
    <3> DEFINE line == lines[k]
               next == TextTurn(text, line)
    <3>1. LineText(line) \in Seq(Tokens)
      BY <2>3
    <3> HIDE DEF text, line
    <3>2. /\ next \in Seq(Tokens) /\ c \in Nat /\ Len(next) = c + Len(LineText(line))
          /\ \A j \in 1 .. Len(text) : next[j] = text[j]
          /\ \A j \in 1 .. Len(LineText(line)) : next[c + j] = LineText(line)[j]
          /\ text # <<>> => next[Len(text) + 1] = "\r" /\ next[Len(text) + 2] = "\n"
      BY <2>2, <3>1, TextTurnFacts, Zenon
    <3> QED BY <2>3, <3>2, Zenon DEF t, line
  <2>5. Len(r[k]) > 0
    BY <1>3, <2>4
  <2> HIDE DEF b
  <2> QED BY <2>1, <2>3, <2>4, <2>5
<1>5. b \in [1 .. n -> Nat]
  BY <1>4
<1> HIDE DEF b
<1>6. \A k \in 1 .. n : r[k] # <<>> /\ r[k] \in Seq(Tokens) /\ Len(r[k]) \in Nat
  <2> TAKE k \in 1 .. n
  <2>1. k \in 0 .. n /\ Len(r[k]) > 0
    BY <1>4
  <2>2. r[k] \in Seq(Tokens)
    BY <1>1, <2>1
  <2>3. Len(r[k]) \in Nat
    BY <2>2, LenProperties
  <2>4. r[k] # <<>>
    <3> SUFFICES ASSUME r[k] = <<>> PROVE FALSE
      OBVIOUS
    <3>1. Len(r[k]) = 0
      OBVIOUS
    <3> QED BY <2>1, <3>1
  <2> QED BY <2>2, <2>3, <2>4
<1>7. ASSUME NEW k \in 1 .. n
      PROVE  \A m \in k .. n : Len(r[k]) <= Len(r[m]) /\ \A j \in 1 .. Len(r[k]) : r[m][j] = r[k][j]
  <2> DEFINE Keeps(m) == Len(r[k]) <= Len(r[m]) /\ \A j \in 1 .. Len(r[k]) : r[m][j] = r[k][j]
             T == {m \in 0 .. n : m < k \/ Keeps(m)}
  <2>1. 0 \in T
    BY <1>2
  <2>2. ASSUME NEW m \in 1 .. n, m - 1 \in T PROVE m \in T
    <3>1. CASE m < k
      BY <3>1
    <3>2. CASE m = k
      <4>1. Keeps(k)
        BY <1>6
      <4> QED BY <3>2, <4>1
    <3>3. CASE m > k
      <4>1. Keeps(m - 1) /\ m - 1 \in 1 .. n
        BY <1>2, <2>2, <3>3
      <4>2. /\ \A j \in 1 .. Len(r[m - 1]) : r[m][j] = r[m - 1][j]
            /\ b[m] = Len(r[m - 1]) + 2 /\ Len(r[m]) = b[m] + Len(t(m))
        BY <1>4, <1>6, <4>1
      <4>3. Len(r[k]) \in Nat /\ Len(r[m - 1]) \in Nat /\ Len(t(m)) \in Nat
        BY <1>3, <1>6, <4>1
      <4>4. Len(r[k]) <= Len(r[m])
        BY <4>1, <4>2, <4>3
      <4>5. \A j \in 1 .. Len(r[k]) : r[m][j] = r[k][j]
        BY <4>1, <4>2, <4>3
      <4> QED BY <4>4, <4>5
    <3> QED BY <1>2, <3>1, <3>2, <3>3
  <2>3. \A m \in 0 .. n : m \in T
    <3> HIDE DEF T
    <3> QED BY <1>2, <2>1, <2>2, CountUp, Zenon
  <2>4. ASSUME NEW m \in k .. n PROVE Keeps(m)
    <3>1. m \in 0 .. n /\ ~(m < k)
      BY <1>2
    <3> QED BY <2>3, <3>1
  <2> QED BY <2>4
<1> DEFINE text == r[n]
<1>8. text \in Seq(Tokens)
  BY <1>1, <1>2
<1>9. n = 0 => Len(text) = 0
  BY <1>1
<1>10. ASSUME NEW k \in 1 .. n
       PROVE  /\ b[k] + Len(t(k)) <= Len(text)
              /\ \A j \in 1 .. Len(t(k)) : text[b[k] + j] = t(k)[j]
  <2>1. n \in k .. n
    BY <1>2
  <2>2. Len(r[k]) <= Len(text) /\ \A j \in 1 .. Len(r[k]) : text[j] = r[k][j]
    BY <1>7, <2>1
  <2>3. Len(r[k]) = b[k] + Len(t(k)) /\ b[k] \in Nat /\ Len(t(k)) \in Nat
    BY <1>3, <1>4
  <2> HIDE DEF text
  <2>4. ASSUME NEW j \in 1 .. Len(t(k)) PROVE text[b[k] + j] = t(k)[j]
    <3>1. b[k] + j \in 1 .. Len(r[k])
      BY <2>3
    <3> QED BY <1>4, <2>2, <3>1
  <2> QED BY <2>2, <2>3, <2>4
<1>11. n > 0 => b[1] = 0 /\ Len(text) = b[n] + Len(t(n))
  <2> SUFFICES ASSUME n > 0 PROVE b[1] = 0 /\ Len(text) = b[n] + Len(t(n))
    OBVIOUS
  <2>1. 1 \in 1 .. n /\ n \in 1 .. n /\ 1 - 1 = 0
    BY <1>2
  <2>2. b[1] = 0
    BY <1>1, <2>1 DEF b
  <2> QED BY <1>4, <2>1, <2>2
<1>12. ASSUME NEW k \in 1 .. n - 1
       PROVE  /\ b[k + 1] = b[k] + Len(t(k)) + 2
              /\ text[b[k] + Len(t(k)) + 1] = "\r" /\ text[b[k] + Len(t(k)) + 2] = "\n"
  <2>1. k \in 1 .. n /\ k + 1 \in 1 .. n /\ (k + 1) - 1 = k /\ n \in k + 1 .. n
    BY <1>2
  <2>2. r[k] # <<>> /\ Len(r[k]) = b[k] + Len(t(k)) /\ Len(r[k]) \in Nat
    BY <1>4, <1>6, <2>1
  <2>3. /\ b[k + 1] = Len(r[k]) + 2 /\ r[k + 1][Len(r[k]) + 1] = "\r" /\ r[k + 1][Len(r[k]) + 2] = "\n"
        /\ Len(r[k + 1]) = b[k + 1] + Len(t(k + 1)) /\ Len(t(k + 1)) \in Nat
    BY <1>3, <1>4, <2>1, <2>2
  <2>4. \A j \in 1 .. Len(r[k + 1]) : text[j] = r[k + 1][j]
    BY <1>7, <2>1
  <2> HIDE DEF text
  <2>5. Len(r[k]) + 1 \in 1 .. Len(r[k + 1]) /\ Len(r[k]) + 2 \in 1 .. Len(r[k + 1])
    <3>1. Len(r[k + 1]) = Len(r[k]) + 2 + Len(t(k + 1))
      BY <2>3, Zenon
    <3>2. Len(r[k]) \in Nat /\ Len(t(k + 1)) \in Nat
      BY <2>2, <2>3
    <3> DEFINE x == Len(r[k])
               y == Len(t(k + 1))
    <3>3. x \in Nat /\ y \in Nat
      BY <3>2
    <3> HIDE DEF x, y
    <3>4. x + 1 \in 1 .. x + 2 + y /\ x + 2 \in 1 .. x + 2 + y
      BY <3>3
    <3> QED BY <3>1, <3>4, Zenon DEF x, y
  <2>6. text[Len(r[k]) + 1] = "\r" /\ text[Len(r[k]) + 2] = "\n"
    BY <2>3, <2>4, <2>5
  <2> QED BY <2>2, <2>3, <2>6
<1>13. Layout(b, lines, text)
  <2> HIDE DEF text
  <2> QED BY <1>8, <1>9, <1>10, <1>11, <1>12 DEF Layout, n, t
<1>14. text = HeaderText(lines)
  BY <1>1
<1> QED BY <1>5, <1>13, <1>14 DEF n

-----------------------------------------------------------------------------
(* Searches for a text                                                     *)

\* t stands at the k-th place of s.
At(s, t, k) ==
    /\ k \in 1 .. Len(s) - Len(t) + 1
    /\ \A i \in 1 .. Len(t) : s[k + i - 1] = t[i]

\* What strstr finds
LEMMA FindFacts ==
  ASSUME NEW E, NEW s \in Seq(E), NEW t \in Seq(E)
  PROVE  /\ Find(s, t) = 0 => \A k \in Nat : ~At(s, t, k)
         /\ Find(s, t) # 0 => At(s, t, Find(s, t))
         /\ \A k \in Nat : At(s, t, k) /\ (\A j \in 1 .. k - 1 : ~At(s, t, j)) => Find(s, t) = k
<1> DEFINE n == Len(s)
           m == Len(t)
           at == {k \in 1 .. n - m + 1 : SubSeq(s, k, k + m - 1) = t}
<1>1. n \in Nat /\ m \in Nat /\ \A i \in 1 .. n : s[i] \in E
  BY LenProperties, ElementOfSeq
<1>2. Find(s, t) = IF at = {} THEN 0 ELSE Min(at)
  BY DEF Find
<1>3. ASSUME NEW k \in 1 .. n - m + 1 PROVE SubSeq(s, k, k + m - 1) = t <=> At(s, t, k)
  <2> DEFINE u == SubSeq(s, k, k + m - 1)
  <2>1. k \in Int /\ k + m - 1 \in Int /\ \A i \in k .. k + m - 1 : s[i] \in E
    BY <1>1
  <2>2. /\ u \in Seq(E) /\ Len(u) = IF k <= k + m - 1 THEN (k + m - 1) - k + 1 ELSE 0
        /\ \A i \in 1 .. (k + m - 1) - k + 1 : u[i] = s[k + i - 1]
    BY <2>1, SubSeqProperties
  <2> HIDE DEF u
  <2>3. (k + m - 1) - k + 1 = m
    BY <1>1, <2>1
  <2>4. Len(u) = m /\ \A i \in 1 .. m : u[i] = s[k + i - 1]
    <3>1. k <= k + m - 1 \/ m = 0
      BY <1>1, <2>1
    <3> QED BY <2>2, <2>3, <3>1
  <2>5. At(s, t, k) <=> \A i \in 1 .. m : s[k + i - 1] = t[i]
    BY DEF At
  <2>6. u = t => At(s, t, k)
    BY <2>4, <2>5, Zenon
  <2>7. At(s, t, k) => u = t
    <3> SUFFICES ASSUME At(s, t, k) PROVE u = t
      OBVIOUS
    <3>1. Len(u) = Len(t) /\ \A i \in 1 .. Len(u) : u[i] = t[i]
      BY <2>4, <2>5
    <3> QED BY <2>2, <3>1, SeqEqual
  <2> QED BY <2>6, <2>7 DEF u
<1>4. at = {k \in 1 .. n - m + 1 : At(s, t, k)}
  BY <1>3
<1> HIDE DEF at, n, m
<1>5. \A k : At(s, t, k) => k \in at
  BY <1>4 DEF At, n, m
<1>6. at \subseteq Nat /\ 0 \notin at
  BY <1>1, <1>4
<1>7. at # {} => Min(at) \in at /\ \A y \in at : Min(at) <= y
  BY <1>6, FirstPosition
<1>8. Find(s, t) = 0 => \A k \in Nat : ~At(s, t, k)
  <2>1. Find(s, t) = 0 => at = {}
    BY <1>2, <1>6, <1>7
  <2> QED BY <1>5, <2>1
<1>9. Find(s, t) # 0 => At(s, t, Find(s, t))
  BY <1>2, <1>4, <1>7
<1>10. ASSUME NEW k \in Nat, At(s, t, k), \A j \in 1 .. k - 1 : ~At(s, t, j)
       PROVE  Find(s, t) = k
  <2>1. k \in at
    BY <1>5, <1>10
  <2>2. Min(at) \in at /\ Min(at) <= k
    BY <1>7, <2>1
  <2>3. At(s, t, Min(at)) /\ Min(at) \in Nat /\ Min(at) >= 1
    BY <1>1, <1>4, <2>2
  <2>4. ~(Min(at) \in 1 .. k - 1)
    BY <1>10, <2>3
  <2>5. Min(at) = k
    BY <2>2, <2>3, <2>4
  <2> QED BY <1>2, <2>1, <2>5
<1> QED BY <1>8, <1>9, <1>10

\* The end of a line stands nowhere in s.
NoLineEnd(s) == \A j \in 1 .. Len(s) - 1 : ~(s[j] = "\r" /\ s[j + 1] = "\n")

\* A search for the end of a line that finds nothing means that there is none.
LEMMA NoneFound ==
  ASSUME NEW s \in Seq(Tokens), Find(s, CRLF) = 0
  PROVE  NoLineEnd(s)
<1>1. CRLF \in Seq(Tokens) /\ Len(CRLF) = 2 /\ CRLF[1] = "\r" /\ CRLF[2] = "\n" /\ CRLF # <<>>
  <2>1. "\r" \in Tokens /\ "\n" \in Tokens
    BY DEF Tokens
  <2> QED BY <2>1, ShortTexts DEF CRLF
<1>2. \A k \in Nat : ~At(s, CRLF, k)
  BY <1>1, FindFacts
<1>3. Len(s) \in Nat
  OBVIOUS
<1>4. ASSUME NEW j \in 1 .. Len(s) - 1, s[j] = "\r", s[j + 1] = "\n" PROVE FALSE
  <2>1. j \in Nat /\ j \in 1 .. Len(s) - 2 + 1 /\ j + 1 - 1 = j /\ j + 2 - 1 = j + 1
    BY <1>3
  <2>2. \A i \in 1 .. 2 : s[j + i - 1] = CRLF[i]
    <3>1. \A i \in 1 .. 2 : i = 1 \/ i = 2
      OBVIOUS
    <3> QED BY <1>1, <1>4, <2>1, <3>1
  <2>3. At(s, CRLF, j)
    BY <1>1, <2>1, <2>2 DEF At
  <2> QED BY <1>2, <2>1, <2>3
<1> QED BY <1>4 DEF NoLineEnd

\* A space does not end a line.
LEMMA SpaceIsNoEnd == Space # "\r"
BY Zenon DEF Space

\* The end of a line is not in a line if it is neither in its field nor in its value.
LEMMA LineHasNoEnd ==
  ASSUME NEW line \in [field : Seq(STRING), spaces : Nat, value : Seq(STRING)],
         Find(line.field, CRLF) = 0, Find(line.value, CRLF) = 0
  PROVE  NoLineEnd(LineText(line))
<1> DEFINE f == Len(line.field)
           n == line.spaces
           m == Len(line.value)
           v == f + 1 + n
           t == LineText(line)
<1>1. /\ t \in Seq(Tokens) /\ f \in Nat /\ m \in Nat /\ Len(t) = v + m
      /\ \A j \in 1 .. f : t[j] = line.field[j]
      /\ t[f + 1] = ":"
      /\ \A j \in f + 2 .. v : t[j] = Space
      /\ \A j \in 1 .. m : t[v + j] = line.value[j]
  BY LineTextFacts, Zenon
<1>2. n \in Nat /\ line.field \in Seq(Tokens) /\ line.value \in Seq(Tokens)
  <2>1. STRING \subseteq Tokens
    BY DEF Tokens
  <2> QED BY <2>1, SeqMonotonic
<1>3. /\ \A j \in 1 .. f - 1 : ~(line.field[j] = "\r" /\ line.field[j + 1] = "\n")
      /\ \A j \in 1 .. m - 1 : ~(line.value[j] = "\r" /\ line.value[j + 1] = "\n")
  BY <1>2, NoneFound DEF NoLineEnd
<1> HIDE DEF f, n, m, t
<1>4. f \in Nat /\ n \in Nat /\ m \in Nat /\ v = f + 1 + n /\ Len(t) = v + m
  BY <1>1, <1>2
<1> HIDE DEF v
<1>5. ASSUME NEW j \in 1 .. v + m - 1, t[j] = "\r", t[j + 1] = "\n" PROVE FALSE
  <2>1. CASE j <= f - 1
    <3>1. j \in 1 .. f /\ j + 1 \in 1 .. f /\ j \in 1 .. f - 1
      BY <1>4, <2>1
    <3> QED BY <1>1, <1>3, <1>5, <3>1
  <2>2. CASE j = f
    BY <1>1, <1>5, <2>2
  <2>3. CASE j = f + 1
    BY <1>1, <1>5, <2>3
  <2>4. CASE j \in f + 2 .. v
    BY <1>1, <1>5, <2>4, SpaceIsNoEnd
  <2>5. CASE j > v
    <3> DEFINE i == j - v
    <3>1. i \in 1 .. m /\ i + 1 \in 1 .. m /\ j = v + i /\ j + 1 = v + (i + 1) /\ i \in 1 .. m - 1
      BY <1>4, <2>5
    <3> HIDE DEF i
    <3>2. t[v + i] = line.value[i] /\ t[v + (i + 1)] = line.value[i + 1]
      BY <1>1, <3>1
    <3>3. line.value[i] = "\r" /\ line.value[i + 1] = "\n"
      BY <1>5, <3>1, <3>2
    <3> QED BY <1>3, <3>1, <3>3
  <2>6. j <= f - 1 \/ j = f \/ j = f + 1 \/ j \in f + 2 .. v \/ j > v
    BY <1>4
  <2> QED BY <2>1, <2>2, <2>3, <2>4, <2>5, <2>6
<1>6. NoLineEnd(t)
  BY <1>4, <1>5 DEF NoLineEnd
<1> QED BY <1>6 DEF t

\* Every place of the text is in a line or in the CRLF behind it.
LEMMA LineOfPlace ==
  ASSUME NEW lines, NEW n \in Nat, Len(lines) = n, NEW b \in [1 .. n -> Nat], NEW text,
         Layout(b, lines, text), \A k \in 1 .. n : Len(LineText(lines[k])) \in Nat,
         NEW p \in 1 .. Len(text)
  PROVE  \E k \in 1 .. n :
            /\ b[k] < p /\ p <= b[k] + Len(LineText(lines[k])) + 2
            /\ k = n => p <= b[k] + Len(LineText(lines[k]))
<1> DEFINE size(k) == Len(LineText(lines[k]))
           T == {k \in 1 .. n : p <= b[k] + size(k) + 2}
<1>1. /\ n = 0 => Len(text) = 0
      /\ n > 0 => b[1] = 0 /\ Len(text) = b[n] + size(n)
      /\ \A k \in 1 .. n - 1 : b[k + 1] = b[k] + size(k) + 2
      /\ \A k \in 1 .. n : size(k) \in Nat /\ b[k] \in Nat
  BY DEF Layout
<1> HIDE DEF size
<1>2. n > 0 /\ n \in 1 .. n
  BY <1>1
<1>3. n \in T /\ T \subseteq Nat
  BY <1>1, <1>2
<1>4. PICK k \in T : \A j \in T : k <= j
  <2> HIDE DEF T
  <2>1. T # {}
    BY <1>3
  <2> QED BY <1>3, <2>1, LeastNumber, Zenon
<1>5. b[k] < p
  <2>1. CASE k = 1
    BY <1>1, <1>2, <2>1
  <2>2. CASE k # 1
    <3>1. k - 1 \in 1 .. n - 1 /\ (k - 1) + 1 = k /\ k - 1 \in 1 .. n /\ ~(k <= k - 1)
      BY <1>4, <2>2
    <3>2. k - 1 \notin T
      BY <1>4, <3>1
    <3>3. ~(p <= b[k - 1] + size(k - 1) + 2)
      BY <3>1, <3>2
    <3>4. b[k] = b[k - 1] + size(k - 1) + 2
      BY <1>1, <3>1
    <3>5. b[k - 1] \in Nat /\ size(k - 1) \in Nat
      BY <1>1, <3>1
    <3> QED BY <3>3, <3>4, <3>5
  <2> QED BY <2>1, <2>2
<1>6. k = n => p <= b[k] + size(k)
  BY <1>1, <1>2
<1> QED BY <1>4, <1>5, <1>6 DEF size

\* A name of a field stands in a line, not across the end of one.
LEMMA LineOfMatch ==
  ASSUME NEW lines, NEW n \in Nat, Len(lines) = n, NEW b \in [1 .. n -> Nat], NEW text,
         Layout(b, lines, text), \A k \in 1 .. n : Len(LineText(lines[k])) \in Nat,
         NEW name \in Seq(Tokens), name # <<>>,
         \A i \in 1 .. Len(name) : name[i] \notin {"\r", "\n"},
         NEW p \in Nat, At(text, name, p)
  PROVE  \E k \in 1 .. n : b[k] < p /\ At(LineText(lines[k]), name, p - b[k])
<1> DEFINE size(k) == Len(LineText(lines[k]))
           m == Len(name)
           l == Len(text)
<1>1. /\ \A k \in 1 .. n :
            /\ b[k] + size(k) <= l
            /\ \A j \in 1 .. size(k) : text[b[k] + j] = LineText(lines[k])[j]
      /\ \A k \in 1 .. n - 1 :
            /\ b[k + 1] = b[k] + size(k) + 2
            /\ text[b[k] + size(k) + 1] = "\r" /\ text[b[k] + size(k) + 2] = "\n"
      /\ \A k \in 1 .. n : size(k) \in Nat /\ b[k] \in Nat
  BY DEF Layout
<1>2. m \in Nat \ {0} /\ l \in Nat
  <2>1. text \in Seq(Tokens)
    BY DEF Layout
  <2> QED BY <2>1, EmptySeq
<1>3. p \in 1 .. l - m + 1 /\ \A i \in 1 .. m : text[p + i - 1] = name[i]
  BY DEF At
<1>4. p \in 1 .. l
  BY <1>2, <1>3
<1>5. PICK k \in 1 .. n : /\ b[k] < p /\ p <= b[k] + size(k) + 2
                          /\ k = n => p <= b[k] + size(k)
  BY <1>4, LineOfPlace
<1> HIDE DEF m, l
<1>6. size(k) \in Nat /\ b[k] \in Nat
  BY <1>1
<1>7. k # n => text[b[k] + size(k) + 1] = "\r" /\ text[b[k] + size(k) + 2] = "\n"
  <2>1. k # n => k \in 1 .. n - 1
    BY <1>5
  <2> QED BY <1>1, <2>1
<1>8. k = n => l = b[k] + size(k)
  BY DEF Layout, l
<1> HIDE DEF size
<1>9. \A i \in 1 .. m : text[p + i - 1] # "\r" /\ text[p + i - 1] # "\n"
  BY <1>3 DEF m
\* The first end of the line behind p is behind the name.
<1>10. p + m - 1 <= b[k] + size(k)
  <2>1. CASE k = n
    BY <1>2, <1>3, <1>6, <1>8, <2>1
  <2>2. CASE k # n
    <3> DEFINE e == b[k] + size(k)
    <3>1. e \in Nat /\ p <= e + 2
      BY <1>5, <1>6, SMTT(60)
    <3>2. text[e + 1] = "\r" /\ text[e + 2] = "\n"
      BY <1>7, <2>2
    <3> HIDE DEF e
    <3>3. SUFFICES ASSUME p + m - 1 > e PROVE FALSE
      BY <1>2, <1>3, <3>1 DEF e
    <3>4. CASE p <= e + 1
      <4> DEFINE i == e + 1 - p + 1
      <4>1. i \in 1 .. m /\ p + i - 1 = e + 1
        BY <1>2, <1>3, <3>1, <3>3, <3>4
      <4> QED BY <1>9, <3>2, <4>1
    <3>5. CASE p = e + 2
      <4>1. 1 \in 1 .. m /\ p + 1 - 1 = e + 2
        BY <1>2, <3>1, <3>5
      <4> QED BY <1>9, <3>2, <4>1
    <3> QED BY <1>3, <3>1, <3>4, <3>5
  <2> QED BY <2>1, <2>2
<1> DEFINE c == b[k]
           z == size(k)
<1>11. c \in Nat /\ z \in Nat /\ c < p /\ p + m - 1 <= c + z
  BY <1>5, <1>6, <1>10
<1> HIDE DEF c, z
<1>12. p - c \in 1 .. z - m + 1
  BY <1>2, <1>11
<1>13. ASSUME NEW i \in 1 .. m PROVE LineText(lines[k])[p - c + i - 1] = name[i]
  <2> DEFINE j == p - c + i - 1
  <2>1. j \in 1 .. z /\ c + j = p + i - 1
    BY <1>2, <1>11
  <2> HIDE DEF j
  <2>2. text[b[k] + j] = LineText(lines[k])[j]
    BY <1>1, <2>1 DEF size, z
  <2> QED BY <1>3, <2>1, <2>2 DEF j, c
<1>14. At(LineText(lines[k]), name, p - c)
  BY <1>12, <1>13 DEF At, size, m, z
<1> QED BY <1>5, <1>14 DEF c

\* Later lines stand behind earlier ones.
LEMMA LinesInOrder ==
  ASSUME NEW lines, NEW n \in Nat, Len(lines) = n, NEW b \in [1 .. n -> Nat], NEW text,
         Layout(b, lines, text), \A k \in 1 .. n : Len(LineText(lines[k])) \in Nat,
         NEW k \in 1 .. n
  PROVE  \A j \in k .. n : b[k] <= b[j]
<1> DEFINE T == {j \in 0 .. n : j >= k => b[k] <= b[j]}
<1>1. 0 \in T
  OBVIOUS
<1>2. ASSUME NEW j \in 1 .. n, j - 1 \in T PROVE j \in T
  <2>1. CASE j <= k
    <3>1. j >= k => j = k
      BY <2>1
    <3>2. b[k] \in Nat
      OBVIOUS
    <3> QED BY <3>1, <3>2
  <2>2. CASE j > k
    <3>1. j - 1 \in 1 .. n - 1 /\ (j - 1) + 1 = j /\ j - 1 \in 1 .. n /\ j - 1 >= k
      BY <2>2
    <3>2. b[(j - 1) + 1] = b[j - 1] + Len(LineText(lines[j - 1])) + 2
      BY <3>1 DEF Layout
    <3>3. /\ b[k] \in Nat /\ b[j - 1] \in Nat /\ b[j] \in Nat
          /\ Len(LineText(lines[j - 1])) \in Nat /\ b[k] <= b[j - 1]
      BY <1>2, <3>1
    <3>4. b[j] = b[j - 1] + Len(LineText(lines[j - 1])) + 2
      BY <3>1, <3>2
    <3>5. b[k] <= b[j]
      BY <3>3, <3>4, SMTT(60)
    <3> QED BY <3>5
  <2> QED BY <2>1, <2>2
<1>3. \A j \in 0 .. n : j \in T
  <2> HIDE DEF T
  <2> QED BY <1>1, <1>2, CountUp, Zenon
<1>4. ASSUME NEW j \in k .. n PROVE b[k] <= b[j]
  <2>1. j \in 0 .. n /\ j >= k
    OBVIOUS
  <2> QED BY <1>3, <2>1
<1> QED BY <1>4

\* Lines of which none has the end of a line inside
WholeLines(lines) ==
    /\ lines \in Lines
    /\ \A k \in DOMAIN lines : Find(lines[k].field, CRLF) = 0 /\ Find(lines[k].value, CRLF) = 0

\* The types of lines and of their texts
LEMMA WholeLinesFacts ==
  ASSUME NEW lines, WholeLines(lines)
  PROVE  /\ Len(lines) \in Nat /\ DOMAIN lines = 1 .. Len(lines)
         /\ \A k \in 1 .. Len(lines) :
              /\ lines[k] \in [field : Seq(STRING), spaces : Nat, value : Seq(STRING)]
              /\ LineText(lines[k]) \in Seq(Tokens)
              /\ Len(LineText(lines[k])) \in Nat /\ NoLineEnd(LineText(lines[k]))
<1>1. lines \in Lines
  BY DEF WholeLines
<1>2. Len(lines) \in Nat /\ DOMAIN lines = 1 .. Len(lines)
  BY <1>1, LenProperties DEF Lines
<1>3. ASSUME NEW k \in 1 .. Len(lines)
      PROVE  /\ lines[k] \in [field : Seq(STRING), spaces : Nat, value : Seq(STRING)]
             /\ LineText(lines[k]) \in Seq(Tokens)
             /\ Len(LineText(lines[k])) \in Nat /\ NoLineEnd(LineText(lines[k]))
  <2>1. lines[k] \in [field : Seq(STRING), spaces : Nat, value : Seq(STRING)]
    BY <1>1, ElementOfSeq DEF Lines
  <2>2. LineText(lines[k]) \in Seq(Tokens)
    BY <2>1, LineTextFacts, Zenon
  <2>3. Find(lines[k].field, CRLF) = 0 /\ Find(lines[k].value, CRLF) = 0
    BY <1>2 DEF WholeLines
  <2>4. NoLineEnd(LineText(lines[k]))
    BY <2>1, <2>3, LineHasNoEnd, Zenon
  <2> QED BY <2>1, <2>2, <2>4, LenProperties
<1> QED BY <1>2, <1>3

\* A name that is looked up
IsName(name) ==
    name \in Seq(Tokens) /\ name # <<>> /\ \A i \in 1 .. Len(name) : name[i] \notin {":", "\r", "\n"}

\* The first place of a name is the beginning of the line that a reader takes for it.
LEMMA ReadableIsFirst ==
  ASSUME NEW lines, WholeLines(lines), NEW b \in [1 .. Len(lines) -> Nat], NEW text,
         Layout(b, lines, text), NEW name, IsName(name), NEW k \in ReadableLine(lines, name)
  PROVE  Find(text, name) = b[k] + 1
<1> DEFINE n == Len(lines)
           m == Len(name)
           t(i) == LineText(lines[i])
<1>1. /\ n \in Nat /\ DOMAIN lines = 1 .. n
      /\ \A i \in 1 .. n : t(i) \in Seq(Tokens) /\ Len(t(i)) \in Nat
  BY WholeLinesFacts
<1>2. /\ k \in 1 .. n /\ lines[k].field = name /\ \A i \in 1 .. k - 1 : Find(t(i), name) = 0
  BY <1>1 DEF ReadableLine
<1>3. lines[k] \in [field : Seq(STRING), spaces : Nat, value : Seq(STRING)]
  BY <1>2, WholeLinesFacts
<1>4. m \in Nat /\ m < Len(t(k)) /\ \A j \in 1 .. m : t(k)[j] = name[j]
  <2> DEFINE v == Len(lines[k].value)
  <2>1. /\ m \in Nat /\ v \in Nat /\ Len(t(k)) = m + 1 + lines[k].spaces + v
        /\ \A j \in 1 .. m : t(k)[j] = name[j]
    BY <1>2, <1>3, LineTextFacts, Zenon
  <2>2. lines[k].spaces \in Nat
    BY <1>3
  <2> HIDE DEF t, m, v
  <2> QED BY <2>1, <2>2
<1>5. text \in Seq(Tokens) /\ name \in Seq(Tokens) /\ Len(text) \in Nat
  BY LenProperties DEF Layout, IsName
<1>6. /\ b[k] + Len(t(k)) <= Len(text) /\ b[k] \in Nat
      /\ \A j \in 1 .. Len(t(k)) : text[b[k] + j] = t(k)[j]
  BY <1>2 DEF Layout
<1> HIDE DEF n, m, t
<1> DEFINE c == b[k]
           z == Len(t(k))
           l == Len(text)
<1>7. /\ c \in Nat /\ z \in Nat /\ l \in Nat /\ c + z <= l /\ m < z /\ m \in Nat
  BY <1>1, <1>2, <1>4, <1>5, <1>6
<1> HIDE DEF c, z, l
<1>8. At(text, name, c + 1)
  <2>1. c + 1 \in 1 .. l - m + 1
    BY <1>7
  <2>2. ASSUME NEW i \in 1 .. m PROVE text[c + 1 + i - 1] = name[i]
    <3>1. i \in 1 .. z /\ c + 1 + i - 1 = c + i
      BY <1>7
    <3> QED BY <1>4, <1>6, <3>1 DEF c, z
  <2> QED BY <2>1, <2>2 DEF At, l, m
<1>9. ASSUME NEW p \in 1 .. c, At(text, name, p) PROVE FALSE
  <2>1. p \in Nat
    OBVIOUS
  <2>2. name # <<>> /\ \A i \in 1 .. Len(name) : name[i] \notin {"\r", "\n"}
    BY DEF IsName
  <2>3. PICK i \in 1 .. n : b[i] < p /\ At(t(i), name, p - b[i])
    BY <1>1, <1>5, <1>9, <2>1, <2>2, LineOfMatch DEF n, t
  <2>4. b[i] \in Nat /\ b[i] < c
    BY <1>7, <2>3 DEF n
  <2>5. i < k
    <3> SUFFICES ASSUME i >= k PROVE FALSE
      BY <1>1, <1>2, <2>3
    <3>1. i \in k .. n
      BY <1>1, <1>2
    <3>2. b[k] <= b[i]
      BY <1>1, <1>2, <3>1, LinesInOrder DEF n, t
    <3> QED BY <1>7, <2>4, <3>2 DEF c
  <2>6. Find(t(i), name) = 0
    BY <1>1, <1>2, <2>5
  <2>7. p - b[i] \in Nat /\ t(i) \in Seq(Tokens)
    BY <1>1, <2>3, <2>4
  <2> QED BY <1>5, <2>3, <2>6, <2>7, FindFacts
<1>10. \A j \in 1 .. (c + 1) - 1 : ~At(text, name, j)
  <2>1. (c + 1) - 1 = c
    BY <1>7
  <2> QED BY <1>9, <2>1
<1>11. c + 1 \in Nat
  BY <1>7
<1>12. Find(text, name) = c + 1
  BY <1>5, <1>8, <1>10, <1>11, FindFacts
<1> QED BY <1>12 DEF c

\* The name stands behind place c of the text, and a colon and a space behind it.
ColonAt(text, l, name, m, c) ==
    /\ text \in Seq(Tokens) /\ l \in Nat /\ Len(text) = l
    /\ IsName(name) /\ m \in Nat /\ Len(name) = m
    /\ c \in Nat /\ c + m + 2 <= l
    /\ \A i \in 1 .. m : text[c + i] = name[i]
    /\ text[c + m + 1] = ":" /\ Len(text[c + m + 2]) = 1

\* What stands behind the colon of a name and the space after it
LEMMA BehindColon ==
  ASSUME NEW text, NEW l, NEW name, NEW m, NEW c, ColonAt(text, l, name, m, c)
  PROVE  LET rest == SubSeq(text, c + 1, l)
             value == CutFirst(After(rest, ":"))
         IN  /\ Contains(rest, ":")
             /\ value \in Seq(Tokens) /\ Len(value) = l - (c + m + 2)
             /\ \A i \in 1 .. l - (c + m + 2) : value[i] = text[c + m + 2 + i]
<1> DEFINE rest == SubSeq(text, c + 1, l)
<1>0. /\ text \in Seq(Tokens) /\ l \in Nat /\ Len(text) = l
      /\ IsName(name) /\ m \in Nat /\ Len(name) = m
      /\ c \in Nat /\ c + m + 2 <= l
      /\ \A i \in 1 .. m : text[c + i] = name[i]
      /\ text[c + m + 1] = ":" /\ Len(text[c + m + 2]) = 1
  BY DEF ColonAt
<1> USE <1>0
<1>1. \A i \in 1 .. l : text[i] \in Tokens
  BY ElementOfSeq
<1>2. /\ rest \in Seq(Tokens) /\ Len(rest) = l - c
      /\ \A i \in 1 .. l - c : rest[i] = text[c + i]
  <2>1. c + 1 \in Int /\ l \in Int /\ \A i \in c + 1 .. l : text[i] \in Tokens
    BY <1>1
  <2>2. /\ rest \in Seq(Tokens) /\ Len(rest) = IF c + 1 <= l THEN l - (c + 1) + 1 ELSE 0
        /\ \A i \in 1 .. l - (c + 1) + 1 : rest[i] = text[c + 1 + i - 1]
    BY <2>1, SubSeqProperties, SMTT(60)
  <2> HIDE DEF rest
  <2>3. c + 1 <= l /\ l - (c + 1) + 1 = l - c /\ \A i \in 1 .. l - c : c + 1 + i - 1 = c + i
    OBVIOUS
  <2> QED BY <2>2, <2>3
<1> HIDE DEF rest
<1>3. rest[m + 1] = ":" /\ m + 1 \in 1 .. l - c /\ m + 2 \in 1 .. l - c
  <2>1. m + 1 \in 1 .. l - c /\ m + 2 \in 1 .. l - c /\ c + (m + 1) = c + m + 1
    OBVIOUS
  <2> QED BY <1>2, <2>1
<1>4. Contains(rest, ":")
  BY <1>2, <1>3 DEF Contains
<1>5. \A i \in 1 .. m : rest[i] # ":"
  <2>1. \A i \in 1 .. m : i \in 1 .. l - c /\ name[i] # ":"
    BY DEF IsName
  <2> QED BY <1>2, <2>1
<1>6. PICK q \in 1 .. Len(rest) :
         FirstAt(rest, ":", q) /\ After(rest, ":") = SubSeq(rest, q + 1, Len(rest))
  BY <1>2, <1>4, SplitFacts
<1>7. q = m + 1
  <2>1. rest[q] = ":" /\ \A i \in 1 .. q - 1 : rest[i] # ":"
    BY <1>6 DEF FirstAt
  <2>2. ~(q \in 1 .. m)
    BY <1>5, <2>1
  <2>3. ~(m + 1 \in 1 .. q - 1)
    BY <1>3, <2>1
  <2> QED BY <1>2, <1>6, <2>2, <2>3
<1> DEFINE s == After(rest, ":")
<1>8. s = SubSeq(rest, m + 2, l - c)
  BY <1>2, <1>6, <1>7
<1>9. /\ s \in Seq(Tokens) /\ Len(s) = l - c - (m + 1)
      /\ \A i \in 1 .. l - c - (m + 1) : s[i] = text[c + m + 1 + i]
  <2>1. m + 2 \in Int /\ l - c \in Int /\ \A i \in m + 2 .. l - c : rest[i] \in Tokens
    <3>1. \A i \in m + 2 .. l - c : i \in 1 .. l - c
      OBVIOUS
    <3> QED BY <1>2, <3>1, ElementOfSeq
  <2> DEFINE u == SubSeq(rest, m + 2, l - c)
  <2>2. /\ u \in Seq(Tokens) /\ Len(u) = IF m + 2 <= l - c THEN (l - c) - (m + 2) + 1 ELSE 0
        /\ \A i \in 1 .. (l - c) - (m + 2) + 1 : u[i] = rest[m + 2 + i - 1]
    BY <2>1, SubSeqProperties
  <2> HIDE DEF u
  <2>3. /\ m + 2 <= l - c /\ (l - c) - (m + 2) + 1 = l - c - (m + 1)
        /\ \A i \in 1 .. l - c - (m + 1) :
              /\ m + 2 + i - 1 \in 1 .. l - c /\ c + (m + 2 + i - 1) = c + m + 1 + i
    OBVIOUS
  <2>4. \A i \in 1 .. l - c - (m + 1) : u[i] = text[c + m + 1 + i]
    BY <1>2, <2>2, <2>3
  <2> HIDE DEF s
  <2> QED BY <1>8, <2>2, <2>3, <2>4 DEF u
<1> HIDE DEF s
<1>10. s # <<>> /\ Len(s[1]) = 1
  <2>1. 1 \in 1 .. l - c - (m + 1) /\ c + m + 1 + 1 = c + m + 2 /\ Len(s) > 0
    BY <1>9
  <2>2. Len(s[1]) = 1
    BY <1>9, <2>1
  <2>3. s # <<>>
    <3> SUFFICES ASSUME s = <<>> PROVE FALSE
      OBVIOUS
    <3>1. Len(s) = 0
      OBVIOUS
    <3> QED BY <2>1, <3>1
  <2> QED BY <2>2, <2>3
<1>11. CutFirst(s) = Tail(s)
  <2>1. CutFirst(s) = <<>> \o Tail(s)
    BY <1>10, Zenon DEF CutFirst
  <2>2. Tail(s) \in Seq(Tokens)
    BY <1>9, <1>10, HeadTailProperties
  <2> QED BY <2>1, <2>2, ConcatEmptySeq
<1>12. /\ Tail(s) \in Seq(Tokens) /\ Len(Tail(s)) = Len(s) - 1
       /\ \A i \in 1 .. Len(Tail(s)) : Tail(s)[i] = s[i + 1]
  BY <1>9, <1>10, HeadTailProperties
<1> DEFINE value == CutFirst(s)
<1>13. value \in Seq(Tokens) /\ Len(value) = l - (c + m + 2)
  BY <1>9, <1>11, <1>12
<1>14. ASSUME NEW i \in 1 .. l - (c + m + 2) PROVE value[i] = text[c + m + 2 + i]
  <2>1. i \in 1 .. Len(Tail(s)) /\ i + 1 \in 1 .. l - c - (m + 1) /\ c + m + 1 + (i + 1) = c + m + 2 + i
    BY <1>9, <1>12
  <2> QED BY <1>9, <1>11, <1>12, <2>1
<1> HIDE DEF value
<1> QED BY <1>4, <1>13, <1>14 DEF value, s, rest

\* The value ends at the next end of a line or with the text.
LEMMA ValueEnds ==
  ASSUME NEW v \in Seq(Tokens), NEW m \in Nat, Len(v) = m, Find(v, CRLF) = 0,
         NEW value \in Seq(Tokens), NEW l \in Nat, Len(value) = l, m <= l,
         \A i \in 1 .. m : value[i] = v[i],
         m = l \/ (m + 2 <= l /\ value[m + 1] = "\r" /\ value[m + 2] = "\n")
  PROVE  LET end == Find(value, CRLF)
         IN  (IF end = 0 THEN value ELSE SubSeq(value, 1, end - 1)) = v
<1> DEFINE end == Find(value, CRLF)
<1>1. CASE m = l
  <2>1. value = v
    BY <1>1, SeqEqual
  <2> QED BY <2>1
<1>2. CASE m # l
  <2>1. CRLF \in Seq(Tokens) /\ Len(CRLF) = 2 /\ CRLF[1] = "\r" /\ CRLF[2] = "\n"
    <3>1. "\r" \in Tokens /\ "\n" \in Tokens
      BY DEF Tokens
    <3> QED BY <3>1, ShortTexts DEF CRLF
  <2>2. m + 2 <= l /\ value[m + 1] = "\r" /\ value[m + 2] = "\n"
    BY <1>2
  <2>3. At(value, CRLF, m + 1)
    <3>1. m + 1 \in 1 .. l - 2 + 1
      BY <2>2
    <3>2. m + 1 + 1 - 1 = m + 1 /\ m + 1 + 2 - 1 = m + 2 /\ \A i \in 1 .. 2 : i = 1 \/ i = 2
      OBVIOUS
    <3>3. \A i \in 1 .. 2 : value[m + 1 + i - 1] = CRLF[i]
      BY <2>1, <2>2, <3>2
    <3> QED BY <2>1, <3>1, <3>3 DEF At
  <2>4. NoLineEnd(v)
    BY NoneFound
  <2>5. ASSUME NEW j \in 1 .. m, At(value, CRLF, j) PROVE FALSE
    <3>1. \A i \in 1 .. 2 : value[j + i - 1] = CRLF[i]
      BY <2>1, <2>5 DEF At
    <3>2. j + 1 - 1 = j /\ j + 2 - 1 = j + 1 /\ 1 \in 1 .. 2 /\ 2 \in 1 .. 2
      OBVIOUS
    <3>3. value[j] = "\r" /\ value[j + 1] = "\n"
      BY <2>1, <3>1, <3>2
    <3>4. CASE j = m
      BY <2>2, <3>3, <3>4
    <3>5. CASE j # m
      <4>1. j \in 1 .. m - 1 /\ j + 1 \in 1 .. m
        BY <3>5
      <4> QED BY <2>4, <3>3, <4>1 DEF NoLineEnd
    <3> QED BY <3>4, <3>5
  <2>6. m + 1 \in Nat /\ (m + 1) - 1 = m
    OBVIOUS
  <2>7. end = m + 1
    BY <2>1, <2>3, <2>5, <2>6, FindFacts
  <2> HIDE DEF end
  <2> DEFINE u == SubSeq(value, 1, m)
  <2>8. u = v
    <3>1. \A i \in 1 .. m : value[i] \in Tokens
      BY ElementOfSeq
    <3>2. 1 \in Int /\ m \in Int /\ m - 1 + 1 = m
      OBVIOUS
    <3>3. /\ u \in Seq(Tokens) /\ Len(u) = IF 1 <= m THEN m - 1 + 1 ELSE 0
          /\ \A i \in 1 .. m - 1 + 1 : u[i] = value[1 + i - 1]
      BY <3>1, <3>2, SubSeqProperties
    <3> HIDE DEF u
    <3>4. Len(u) = m /\ \A i \in 1 .. m : u[i] = v[i]
      <4>1. \A i \in 1 .. m : 1 + i - 1 = i
        OBVIOUS
      <4> QED BY <3>2, <3>3, <4>1
    <3> QED BY <3>3, <3>4, SeqEqual
  <2> QED BY <2>6, <2>7, <2>8 DEF end
<1> QED BY <1>1, <1>2

\* A space has the length of one character.
LEMMA SpaceLength == Len(Space) = 1
BY WordsAssumption, Zenon DEF Space

\* Where a line begins, korall_request_header_get takes what it finds.
LEMMA LineStarts ==
  ASSUME NEW lines, WholeLines(lines), NEW b \in [1 .. Len(lines) -> Nat], NEW text,
         Layout(b, lines, text), NEW k \in 1 .. Len(lines), b[k] < Len(text)
  PROVE  b[k] + 1 = 1 \/ (b[k] + 1 > 2 /\ SubSeq(text, (b[k] + 1) - 2, (b[k] + 1) - 1) = CRLF)
<1> DEFINE n == Len(lines)
           c == b[k]
<1>1. n \in Nat /\ c \in Nat /\ text \in Seq(Tokens)
  BY WholeLinesFacts DEF Layout
<1>2. n > 0 => b[1] = 0
  BY DEF Layout
<1>3. CASE k = 1
  BY <1>1, <1>2, <1>3
<1>4. CASE k # 1
  <2> DEFINE i == k - 1
             e == b[i] + Len(LineText(lines[i]))
  <2>1. i \in 1 .. n - 1 /\ i \in 1 .. n /\ i + 1 = k
    BY <1>1, <1>4
  <2>2. b[i + 1] = e + 2 /\ text[e + 1] = "\r" /\ text[e + 2] = "\n"
    BY <2>1 DEF Layout
  <2>3. e \in Nat
    <3>1. b[i] \in Nat
      BY <2>1
    <3>2. Len(LineText(lines[i])) \in Nat
      <4> HIDE DEF i
      <4> QED BY <2>1, WholeLinesFacts, Zenon DEF n
    <3> HIDE DEF i
    <3> QED BY <3>1, <3>2
  <2> HIDE DEF e, i, n
  <2>4. c = e + 2
    BY <2>1, <2>2
  <2>5. c < Len(text) /\ Len(text) \in Nat
    BY <1>1
  <2> HIDE DEF c
  <2>6. c + 1 > 2 /\ (c + 1) - 2 = e + 1 /\ (c + 1) - 1 = e + 2
    BY <2>3, <2>4
  <2> DEFINE u == SubSeq(text, e + 1, e + 2)
  <2>7. e + 1 \in Int /\ e + 2 \in Int /\ \A j \in e + 1 .. e + 2 : text[j] \in Tokens
    <3>1. \A j \in e + 1 .. e + 2 : j \in 1 .. Len(text)
      BY <2>3, <2>4, <2>5
    <3> QED BY <1>1, <2>3, <3>1, ElementOfSeq
  <2>8. /\ u \in Seq(Tokens) /\ Len(u) = IF e + 1 <= e + 2 THEN (e + 2) - (e + 1) + 1 ELSE 0
        /\ \A j \in 1 .. (e + 2) - (e + 1) + 1 : u[j] = text[e + 1 + j - 1]
    BY <2>7, SubSeqProperties
  <2> HIDE DEF u
  <2>9. /\ (e + 2) - (e + 1) + 1 = 2 /\ e + 1 <= e + 2 /\ e + 1 + 1 - 1 = e + 1 /\ e + 1 + 2 - 1 = e + 2
        /\ 1 \in 1 .. 2 /\ 2 \in 1 .. 2
    BY <2>3
  <2>10. Len(u) = 2 /\ u[1] = "\r" /\ u[2] = "\n"
    BY <2>2, <2>8, <2>9
  <2>11. CRLF \in Seq(Tokens) /\ Len(CRLF) = 2 /\ CRLF[1] = "\r" /\ CRLF[2] = "\n"
    <3>1. "\r" \in Tokens /\ "\n" \in Tokens
      BY DEF Tokens
    <3> QED BY <3>1, ShortTexts DEF CRLF
  <2>12. u = CRLF
    <3>1. \A j \in 1 .. Len(u) : u[j] = CRLF[j]
      <4>1. \A j \in 1 .. Len(u) : j = 1 \/ j = 2
        BY <2>10
      <4> QED BY <2>10, <2>11, <4>1
    <3> QED BY <2>8, <2>10, <2>11, <3>1, SeqEqual
  <2> QED BY <2>6, <2>12 DEF u, c
<1> QED BY <1>3, <1>4

\* What korall_request_header_get takes behind the name at place p, and what it makes of it
TakenAt(text, p) ==
    LET value == CutFirst(After(SubSeq(text, p, Len(text)), ":"))
        end == Find(value, CRLF)
    IN  IF end = 0 THEN value ELSE SubSeq(value, 1, end - 1)

\* A line begins at the place p, and what korall_request_header_get takes there.
StartsLine(text, p) == p = 1 \/ (p > 2 /\ SubSeq(text, p - 2, p - 1) = CRLF)
FoundAt(text, room, p) ==
    IF p = 0 \/ ~StartsLine(text, p) THEN NotFound
    ELSE IF ~Contains(SubSeq(text, p, Len(text)), ":") \/ ~Fits(TakenAt(text, p), room) THEN NotFound
    ELSE TakenAt(text, p)

\* korall_request_header_get takes what stands where strstr finds the name.
LEMMA HeaderGetIsFoundAt ==
  ASSUME NEW text, NEW name, NEW room
  PROVE  HeaderGet(text, name, room) = FoundAt(text, room, Find(text, name))
BY Zenon DEF HeaderGet, FoundAt, TakenAt, StartsLine

\* If the name begins a line, what is behind its ":" is taken.
LEMMA FoundIsTaken ==
  ASSUME NEW text, NEW room, NEW p, p # 0, StartsLine(text, p),
         Contains(SubSeq(text, p, Len(text)), ":"), Fits(TakenAt(text, p), room)
  PROVE  FoundAt(text, room, p) = TakenAt(text, p)
BY Zenon DEF FoundAt

\* The value of the line that a reader takes for the field is what is found.
LEMMA HeaderGetReads ==
  ASSUME NEW lines, WholeLines(lines), NEW name, IsName(name), NEW k \in ReadableLine(lines, name),
         NEW room, Fits(lines[k].value, room)
  PROVE  HeaderGet(HeaderText(lines), name, room) = lines[k].value
<1> DEFINE n == Len(lines)
           text == HeaderText(lines)
           t == LineText(lines[k])
           v == lines[k].value
           m == Len(name)
           w == Len(v)
           l == Len(text)
<1>1. /\ n \in Nat /\ DOMAIN lines = 1 .. n /\ lines \in Lines
  BY WholeLinesFacts DEF WholeLines
<1>2. k \in 1 .. n /\ lines[k].field = name /\ lines[k].spaces = 1
  BY <1>1 DEF ReadableLine
<1>3. lines[k] \in [field : Seq(STRING), spaces : Nat, value : Seq(STRING)]
  BY <1>2, WholeLinesFacts
<1>4. PICK b \in [1 .. n -> Nat] : Layout(b, lines, text)
  BY <1>1, LayoutExists
<1> DEFINE c == b[k]
<1>5. Find(text, name) = c + 1
  BY <1>4, ReadableIsFirst
<1>6. /\ m \in Nat /\ w \in Nat /\ Len(t) = m + 1 + 1 + w
      /\ \A j \in 1 .. m : t[j] = name[j]
      /\ t[m + 1] = ":"
      /\ \A j \in m + 2 .. m + 1 + 1 : t[j] = Space
      /\ \A j \in 1 .. w : t[m + 1 + 1 + j] = v[j]
  BY <1>2, <1>3, LineTextFacts, ZenonT(60)
<1>7. text \in Seq(Tokens) /\ l \in Nat /\ c \in Nat /\ v \in Seq(Tokens) /\ Find(v, CRLF) = 0
  <2>1. STRING \subseteq Tokens
    BY DEF Tokens
  <2>2. text \in Seq(Tokens)
    BY <1>4 DEF Layout
  <2>3. v \in Seq(Tokens)
    BY <1>3, <2>1, SeqMonotonic
  <2>4. Find(v, CRLF) = 0
    BY <1>1, <1>2 DEF WholeLines
  <2> HIDE DEF text, v
  <2> QED BY <1>2, <1>4, <2>2, <2>3, <2>4
<1>8. c + Len(t) <= l /\ \A j \in 1 .. Len(t) : text[c + j] = t[j]
  BY <1>2, <1>4 DEF Layout
<1>9. k # n => text[c + Len(t) + 1] = "\r" /\ text[c + Len(t) + 2] = "\n" /\ c + Len(t) + 2 <= l
  <2> SUFFICES ASSUME k # n
               PROVE  text[c + Len(t) + 1] = "\r" /\ text[c + Len(t) + 2] = "\n" /\ c + Len(t) + 2 <= l
    OBVIOUS
  <2>1. k \in 1 .. n - 1 /\ k + 1 \in 1 .. n
    <3>1. n \in Nat
      BY <1>1
    <3>2. k \in 1 .. n
      BY <1>2
    <3> HIDE DEF n, c, l, text, t
    <3> QED BY <3>1, <3>2
  <2>2. b[k + 1] = c + Len(t) + 2 /\ text[c + Len(t) + 1] = "\r" /\ text[c + Len(t) + 2] = "\n"
    BY <1>4, <2>1 DEF Layout
  <2>3. b[k + 1] + Len(LineText(lines[k + 1])) <= l /\ Len(LineText(lines[k + 1])) \in Nat
    BY <1>4, <2>1, WholeLinesFacts DEF Layout
  <2>4. b[k + 1] \in Nat
    BY <1>4, <2>1
  <2> HIDE DEF c, l, text, t
  <2>5. b[k + 1] <= l
    BY <1>7, <2>3, <2>4
  <2> QED BY <2>2, <2>5
<1>10. k = n => l = c + Len(t)
  BY <1>1, <1>2, <1>4 DEF Layout
<1> HIDE DEF n, text, t, v, m, w, l, c
<1> DEFINE x == c + m + 2
<1>11. c + Len(t) = x + w /\ x \in Nat /\ x + w <= l /\ x <= l
  BY <1>6, <1>7, <1>8
<1>12. /\ \A i \in 1 .. m : text[c + i] = name[i]
       /\ text[c + m + 1] = ":" /\ Len(text[c + m + 2]) = 1
       /\ \A i \in 1 .. w : text[x + i] = v[i]
  <2>1. \A i \in 1 .. m : i \in 1 .. Len(t)
    BY <1>6
  <2>2. m + 1 \in 1 .. Len(t) /\ m + 2 \in 1 .. Len(t) /\ m + 2 \in m + 2 .. m + 1 + 1
    BY <1>6
  <2>3. c + (m + 1) = c + m + 1 /\ c + (m + 2) = c + m + 2
    BY <1>6, <1>7
  <2>4. t[m + 2] = Space
    BY <1>6, <2>2
  <2>5. text[c + m + 1] = ":" /\ text[c + m + 2] = Space
    BY <1>6, <1>8, <2>2, <2>3, <2>4
  <2>6. ASSUME NEW i \in 1 .. w PROVE text[x + i] = v[i]
    <3>1. m + 1 + 1 + i \in 1 .. Len(t) /\ c + (m + 1 + 1 + i) = x + i
      BY <1>6, <1>7
    <3> HIDE DEF x
    <3> QED BY <1>6, <1>8, <3>1
  <2> QED BY <1>6, <1>8, <2>1, <2>5, <2>6, SpaceLength
<1> DEFINE rest == SubSeq(text, c + 1, l)
           value == CutFirst(After(rest, ":"))
<1>13. /\ Contains(rest, ":")
       /\ value \in Seq(Tokens) /\ Len(value) = l - x
       /\ \A i \in 1 .. l - x : value[i] = text[x + i]
  <2>1. Len(name) = m /\ Len(text) = l
    BY DEF m, l
  <2>2. text \in Seq(Tokens) /\ l \in Nat /\ m \in Nat /\ c \in Nat
    BY <1>6, <1>7
  <2>3. c + m + 2 <= l
    BY <1>11
  <2>4. /\ \A i \in 1 .. m : text[c + i] = name[i]
        /\ text[c + m + 1] = ":" /\ Len(text[c + m + 2]) = 1
    BY <1>12
  <2>5. IsName(name)
    OBVIOUS
  <2> DEFINE rest2 == SubSeq(text, c + 1, l)
             value2 == CutFirst(After(rest2, ":"))
  <2>7. ColonAt(text, l, name, m, c)
    BY <2>1, <2>2, <2>3, <2>4, <2>5, Zenon DEF ColonAt
  <2>6. /\ Contains(rest2, ":")
        /\ value2 \in Seq(Tokens) /\ Len(value2) = l - (c + m + 2)
        /\ \A i \in 1 .. l - (c + m + 2) : value2[i] = text[c + m + 2 + i]
    BY <2>7, BehindColon, SMTT(30)
  <2> QED BY <2>6, Zenon
<1> HIDE DEF value, rest, x
<1> DEFINE end == Find(value, CRLF)
           found == IF end = 0 THEN value ELSE SubSeq(value, 1, end - 1)
<1>14. found = v
  <2> DEFINE y == l - x
  <2>1. y \in Nat /\ w <= y /\ Len(value) = y /\ w = Len(v)
    BY <1>6, <1>7, <1>11, <1>13 DEF w
  <2>2. \A i \in 1 .. w : value[i] = v[i]
    <3>1. \A i \in 1 .. w : i \in 1 .. y
      BY <1>6, <2>1
    <3> QED BY <1>12, <1>13, <3>1
  <2>3. CASE k = n
    <3>1. w = y
      BY <1>6, <1>7, <1>10, <1>11, <2>3
    <3>2. /\ v \in Seq(Tokens) /\ w \in Nat /\ Len(v) = w /\ Find(v, CRLF) = 0
          /\ value \in Seq(Tokens) /\ y \in Nat /\ Len(value) = y /\ w <= y
          /\ \A i \in 1 .. w : value[i] = v[i]
      BY <1>6, <1>7, <1>13, <2>1, <2>2
    <3>3. w = y \/ (w + 2 <= y /\ value[w + 1] = "\r" /\ value[w + 2] = "\n")
      BY <3>1
    <3> HIDE DEF y
    <3> QED BY <3>2, <3>3, ValueEnds, Zenon
  <2>4. CASE k # n
    <3>1. /\ text[x + w + 1] = "\r" /\ text[x + w + 2] = "\n" /\ x + w + 2 <= l
      BY <1>9, <1>11, <2>4
    <3>2. w + 1 \in 1 .. y /\ w + 2 \in 1 .. y /\ w + 2 <= y
          /\ x + (w + 1) = x + w + 1 /\ x + (w + 2) = x + w + 2
      BY <1>6, <1>7, <1>11, <3>1
    <3>3. value[w + 1] = "\r" /\ value[w + 2] = "\n"
      BY <1>13, <3>1, <3>2
    <3>4. /\ v \in Seq(Tokens) /\ w \in Nat /\ Len(v) = w /\ Find(v, CRLF) = 0
          /\ value \in Seq(Tokens) /\ y \in Nat /\ Len(value) = y /\ w <= y
          /\ \A i \in 1 .. w : value[i] = v[i]
      BY <1>6, <1>7, <1>13, <2>1, <2>2
    <3>5. w = y \/ (w + 2 <= y /\ value[w + 1] = "\r" /\ value[w + 2] = "\n")
      BY <3>2, <3>3
    <3> HIDE DEF y
    <3> QED BY <3>4, <3>5, ValueEnds, Zenon
  <2> QED BY <2>3, <2>4
<1>15. c + 1 = 1 \/ (c + 1 > 2 /\ SubSeq(text, (c + 1) - 2, (c + 1) - 1) = CRLF)
  <2>1. b[k] < Len(text)
    BY <1>6, <1>7, <1>11, SMTT(60) DEF c, l, x
  <2> QED BY <1>2, <1>4, <2>1, LineStarts DEF c, n
<1>16. c + 1 # 0
  BY <1>7
<1> HIDE DEF found
<1>17. TakenAt(text, c + 1) = found
  BY Zenon DEF TakenAt, rest, value, found, l
<1>18. Fits(TakenAt(text, c + 1), room)
  BY <1>14, <1>17, Zenon DEF v
<1>19. Contains(SubSeq(text, c + 1, Len(text)), ":") /\ StartsLine(text, c + 1)
  BY <1>13, <1>15, Zenon DEF rest, l, StartsLine
<1>20. FoundAt(text, room, c + 1) = found
  BY <1>16, <1>17, <1>18, <1>19, FoundIsTaken, Zenon
<1> QED BY <1>5, <1>14, <1>20, HeaderGetIsFoundAt, Zenon DEF v, text

\* A text that has a name at its beginning begins with the name.
LEMMA PrefixAt ==
  ASSUME NEW E, NEW s \in Seq(E), NEW t \in Seq(E), NEW m \in Nat, Len(s) = m, m <= Len(t),
         \A i \in 1 .. m : t[i] = s[i]
  PROVE  IsPrefix(s, t)
<1> DEFINE l == Len(t)
           u == SubSeq(t, 1, m)
           v == SubSeq(s, 1, m)
<1>1. l \in Nat /\ m <= l /\ (\A i \in 1 .. l : t[i] \in E) /\ (\A i \in 1 .. m : s[i] \in E)
  BY LenProperties, ElementOfSeq
<1> HIDE DEF l
<1>2. 1 \in Int /\ m \in Int /\ m - 1 + 1 = m /\ (\A i \in 1 .. m : t[i] \in E)
  BY <1>1
<1>3. /\ u \in Seq(E) /\ Len(u) = IF 1 <= m THEN m - 1 + 1 ELSE 0
      /\ \A i \in 1 .. m - 1 + 1 : u[i] = t[1 + i - 1]
  BY <1>2, SubSeqProperties
<1>4. /\ v \in Seq(E) /\ Len(v) = IF 1 <= m THEN m - 1 + 1 ELSE 0
      /\ \A i \in 1 .. m - 1 + 1 : v[i] = s[1 + i - 1]
  BY <1>1, <1>2, SubSeqProperties
<1> HIDE DEF u, v
<1>5. Len(u) = m /\ Len(v) = m /\ \A i \in 1 .. m : u[i] = v[i]
  <2>1. \A i \in 1 .. m : 1 + i - 1 = i
    OBVIOUS
  <2> QED BY <1>2, <1>3, <1>4, <2>1
<1>6. u = v
  BY <1>3, <1>4, <1>5, SeqEqual
<1> QED BY <1>1, <1>6, Zenon DEF IsPrefix, u, v, l

\* A name at the beginning of a line begins the name of its field.
LEMMA NameOfLine ==
  ASSUME NEW line \in [field : Seq(STRING), spaces : Nat, value : Seq(STRING)],
         NEW name \in Seq(STRING), IsName(name), At(LineText(line), name, 1)
  PROVE  IsPrefix(name, line.field)
<1> DEFINE t == LineText(line)
           f == Len(line.field)
           m == Len(name)
<1>1. f \in Nat /\ (\A j \in 1 .. f : t[j] = line.field[j]) /\ t[f + 1] = ":"
  BY LineTextFacts, Zenon
<1>2. m \in Nat /\ \A i \in 1 .. m : name[i] # ":"
  BY LenProperties DEF IsName
<1>3. \A i \in 1 .. m : t[i] = name[i]
  <2>1. \A i \in 1 .. m : t[1 + i - 1] = name[i]
    BY DEF At
  <2>2. \A i \in 1 .. m : 1 + i - 1 = i
    BY <1>2
  <2> QED BY <2>1, <2>2
<1>4. line.field \in Seq(STRING)
  OBVIOUS
<1> HIDE DEF t, m, f
<1>5. ~(f + 1 \in 1 .. m)
  BY <1>1, <1>2, <1>3
<1>6. m <= f
  BY <1>1, <1>2, <1>5
<1>7. \A i \in 1 .. m : line.field[i] = name[i]
  <2>1. \A i \in 1 .. m : i \in 1 .. f
    BY <1>1, <1>2, <1>6
  <2> QED BY <1>1, <1>3, <2>1
<1>8. m = Len(name) /\ f = Len(line.field)
  BY DEF m, f
<1> QED BY <1>2, <1>4, <1>6, <1>7, <1>8, PrefixAt

\* Something is found only where a line begins.
LEMMA FoundStartsLine ==
  ASSUME NEW text, NEW room, NEW p, FoundAt(text, room, p) # NotFound
  PROVE  p # 0 /\ StartsLine(text, p)
BY Zenon DEF FoundAt

\* What is found stands behind a name at the beginning of a line.
LEMMA HeaderGetFinds ==
  ASSUME NEW lines, WholeLines(lines), NEW name \in Seq(STRING), IsName(name), NEW room,
         HeaderGet(HeaderText(lines), name, room) # NotFound
  PROVE  LinesBeginningWith(lines, name) # {}
<1> DEFINE n == Len(lines)
           text == HeaderText(lines)
           l == Len(text)
           m == Len(name)
           p == Find(text, name)
<1>1. /\ n \in Nat /\ DOMAIN lines = 1 .. n /\ lines \in Lines
      /\ \A k \in 1 .. n :
            /\ lines[k] \in [field : Seq(STRING), spaces : Nat, value : Seq(STRING)]
            /\ Len(LineText(lines[k])) \in Nat /\ NoLineEnd(LineText(lines[k]))
  BY WholeLinesFacts DEF WholeLines
<1>2. PICK b \in [1 .. n -> Nat] : Layout(b, lines, text)
  BY <1>1, LayoutExists
<1>3. text \in Seq(Tokens) /\ l \in Nat
  <2>1. text \in Seq(Tokens)
    BY <1>2 DEF Layout
  <2> QED BY <2>1, LenProperties
<1>4. name \in Seq(Tokens) /\ m \in Nat \ {0}
      /\ name # <<>> /\ \A i \in 1 .. m : name[i] \notin {"\r", "\n"}
  <2>1. name \in Seq(Tokens) /\ name # <<>> /\ \A i \in 1 .. m : name[i] \notin {"\r", "\n"}
    BY DEF IsName
  <2> QED BY <2>1, LenProperties, EmptySeq
<1>5. p # 0 /\ StartsLine(text, p)
  <2>1. FoundAt(text, room, p) # NotFound
    BY HeaderGetIsFoundAt, Zenon
  <2> QED BY <2>1, FoundStartsLine, Zenon
<1> HIDE DEF text, n, l, m
<1>6. At(text, name, p)
  BY <1>3, <1>4, <1>5, FindFacts
<1> HIDE DEF p
<1>7. p \in 1 .. l - m + 1 /\ p \in Nat /\ p - 1 <= l
  <2>1. p \in 1 .. l - m + 1
    BY <1>6 DEF At, l, m
  <2> QED BY <1>3, <1>4, <2>1
<1>8. PICK k \in 1 .. n : b[k] < p /\ At(LineText(lines[k]), name, p - b[k])
  <2>1. n = Len(lines)
    BY DEF n
  <2> QED BY <1>1, <1>2, <1>4, <1>6, <1>7, <2>1, LineOfMatch DEF m
<1> DEFINE t == LineText(lines[k])
           z == Len(t)
           c == b[k]
<1>9. /\ c \in Nat /\ z \in Nat /\ \A j \in 1 .. z : text[c + j] = t[j]
      /\ \A j \in 1 .. z - 1 : ~(t[j] = "\r" /\ t[j + 1] = "\n")
  <2>1. c \in Nat /\ z \in Nat /\ NoLineEnd(t)
    BY <1>1
  <2>2. \A j \in 1 .. z : text[c + j] = t[j]
    BY <1>2 DEF Layout, n
  <2> QED BY <2>1, <2>2 DEF NoLineEnd
\* The last token in front of the line ends another one.
<1>10. c = 0 \/ (c > 1 /\ text[c] = "\n")
  <2> SUFFICES ASSUME c # 0 PROVE c > 1 /\ text[c] = "\n"
    OBVIOUS
  <2>1. k - 1 \in 1 .. n - 1 /\ k - 1 \in 1 .. n /\ (k - 1) + 1 = k
    <3>1. k # 1
      <4>1. n > 0 => b[1] = 0
        BY <1>2 DEF Layout, n
      <4> QED BY <1>1, <4>1
    <3> QED BY <1>1, <3>1
  <2> DEFINE e == b[k - 1] + Len(LineText(lines[k - 1]))
  <2>2. b[(k - 1) + 1] = e + 2 /\ text[e + 2] = "\n"
    BY <1>2, <2>1 DEF Layout, n
  <2>3. e \in Nat
    BY <1>1, <2>1, SMTT(60)
  <2> HIDE DEF e
  <2>4. c = e + 2
    BY <2>1, <2>2
  <2> QED BY <2>2, <2>3, <2>4
<1> HIDE DEF c, z, t
<1>11. p = c + 1
  <2>1. c < p /\ p - c \in 1 .. z - m + 1
    BY <1>8 DEF At, c, z, t, m
  <2>2. CASE p = 1
    BY <1>7, <1>9, <2>1, <2>2
  <2>3. CASE p # 1
    <3> DEFINE u == SubSeq(text, p - 2, p - 1)
    <3>1. p > 2 /\ u = CRLF
      BY <1>5, <2>3 DEF StartsLine
    <3>2. text[p - 2] = "\r" /\ text[p - 1] = "\n"
      <4>1. p - 2 \in Int /\ p - 1 \in Int /\ \A j \in p - 2 .. p - 1 : text[j] \in Tokens
        <5>1. \A j \in p - 2 .. p - 1 : j \in 1 .. l
          BY <1>3, <1>7, <3>1
        <5> QED BY <1>3, <1>7, <5>1, ElementOfSeq DEF l
      <4>2. \A j \in 1 .. (p - 1) - (p - 2) + 1 : u[j] = text[p - 2 + j - 1]
        BY <4>1, SubSeqProperties
      <4> HIDE DEF u
      <4>3. /\ 1 \in 1 .. (p - 1) - (p - 2) + 1 /\ 2 \in 1 .. (p - 1) - (p - 2) + 1
            /\ p - 2 + 1 - 1 = p - 2 /\ p - 2 + 2 - 1 = p - 1
        BY <1>7
      <4>4. CRLF[1] = "\r" /\ CRLF[2] = "\n"
        BY DEF CRLF
      <4> QED BY <3>1, <4>2, <4>3, <4>4
    <3> HIDE DEF u
    <3> SUFFICES ASSUME p # c + 1 PROVE FALSE
      OBVIOUS
    <3>3. CASE p = c + 2
      <4>1. p - 2 = c
        BY <1>9, <3>3
      <4> QED BY <1>10, <3>1, <3>2, <3>3, <4>1
    <3>4. CASE p # c + 2
      <4> DEFINE j == p - c - 2
      <4>1. /\ j \in 1 .. z - 1 /\ j \in 1 .. z /\ j + 1 \in 1 .. z
            /\ c + j = p - 2 /\ c + (j + 1) = p - 1
        BY <1>4, <1>7, <1>9, <2>1, <3>4
      <4> HIDE DEF j
      <4>2. t[j] = "\r" /\ t[j + 1] = "\n"
        BY <1>9, <3>2, <4>1
      <4> QED BY <1>9, <4>1, <4>2
    <3> QED BY <3>3, <3>4
  <2> QED BY <2>2, <2>3
<1>12. At(LineText(lines[k]), name, 1)
  <2>1. p - c = 1
    BY <1>9, <1>11
  <2> QED BY <1>8, <2>1 DEF c
<1>13. IsPrefix(name, lines[k].field)
  BY <1>1, <1>12, NameOfLine
<1>14. k \in LinesBeginningWith(lines, name)
  BY <1>1, <1>13, Zenon DEF LinesBeginningWith
<1> QED BY <1>14

\* A part of a text, and a part of that
LEMMA PartFacts ==
  ASSUME NEW E, NEW s \in Seq(E), NEW a \in Nat, NEW b \in Nat, a <= b, b <= Len(s)
  PROVE  LET u == SubSeq(s, a + 1, b)
         IN  u \in Seq(E) /\ Len(u) = b - a /\ \A i \in 1 .. b - a : u[i] = s[a + i]
<1> DEFINE n == Len(s)
           u == SubSeq(s, a + 1, b)
<1>1. n \in Nat /\ b <= n /\ \A i \in 1 .. n : s[i] \in E
  BY LenProperties, ElementOfSeq
<1> HIDE DEF n
<1>2. a + 1 \in Int /\ b \in Int /\ \A i \in a + 1 .. b : s[i] \in E
  BY <1>1
<1>3. /\ u \in Seq(E) /\ Len(u) = IF a + 1 <= b THEN b - (a + 1) + 1 ELSE 0
      /\ \A i \in 1 .. b - (a + 1) + 1 : u[i] = s[a + 1 + i - 1]
  BY <1>2, SubSeqProperties
<1> HIDE DEF u
<1>4. /\ b - (a + 1) + 1 = b - a /\ (~(a + 1 <= b) => b - a = 0)
      /\ \A i \in 1 .. b - a : a + 1 + i - 1 = a + i
  OBVIOUS
<1>5. Len(u) = b - a /\ \A i \in 1 .. b - a : u[i] = s[a + i]
  BY <1>3, <1>4
<1> QED BY <1>3, <1>5 DEF u

\* A part of a part of a text is a part of the text.
LEMMA PartOfPart ==
  ASSUME NEW E, NEW s \in Seq(E), NEW a \in Nat, NEW b \in Nat, a <= b, b <= Len(s),
         NEW c \in Nat, NEW d \in Nat, c <= d, d <= b - a
  PROVE  SubSeq(SubSeq(s, a + 1, b), c + 1, d) = SubSeq(s, a + c + 1, a + d)
<1> DEFINE n == Len(s)
           u == SubSeq(s, a + 1, b)
           v == SubSeq(u, c + 1, d)
           w == SubSeq(s, (a + c) + 1, a + d)
<1>1. n \in Nat /\ b <= n
  BY LenProperties
<1>2. u \in Seq(E) /\ Len(u) = b - a /\ \A i \in 1 .. b - a : u[i] = s[a + i]
  BY PartFacts
<1> HIDE DEF u
<1>3. v \in Seq(E) /\ Len(v) = d - c /\ \A i \in 1 .. d - c : v[i] = u[c + i]
  <2>1. d <= Len(u)
    BY <1>2
  <2> QED BY <1>2, <2>1, PartFacts
<1> HIDE DEF v, n
<1>4. w \in Seq(E) /\ Len(w) = d - c /\ \A i \in 1 .. d - c : w[i] = s[a + c + i]
  <2> DEFINE x == a + c
             y == a + d
  <2>1. x \in Nat /\ y \in Nat /\ x <= y /\ y <= n /\ y - x = d - c
    BY <1>1
  <2>2. y <= Len(s)
    BY <2>1 DEF n
  <2>3. \A i \in 1 .. d - c : x + i = a + c + i
    OBVIOUS
  <2> HIDE DEF x, y
  <2>4. LET z == SubSeq(s, x + 1, y)
        IN  z \in Seq(E) /\ Len(z) = y - x /\ \A i \in 1 .. y - x : z[i] = s[x + i]
    BY <2>1, <2>2, PartFacts
  <2> QED BY <2>1, <2>3, <2>4 DEF x, y
<1> HIDE DEF w
<1>5. \A i \in 1 .. d - c : v[i] = w[i]
  <2>1. \A i \in 1 .. d - c : c + i \in 1 .. b - a /\ a + (c + i) = a + c + i
    OBVIOUS
  <2> QED BY <1>2, <1>3, <1>4, <2>1
<1>6. v = w
  BY <1>3, <1>4, <1>5, SeqEqual
<1> QED BY <1>6 DEF u, v, w

\* A text is its own part from its first to its last token.
LEMMA WholePart ==
  ASSUME NEW E, NEW s \in Seq(E)
  PROVE  SubSeq(s, 1, Len(s)) = s
<1> DEFINE n == Len(s)
           u == SubSeq(s, 1, n)
<1>1. n \in Nat /\ 0 \in Nat /\ 0 <= n /\ n <= Len(s) /\ 0 + 1 = 1 /\ n - 0 = n
      /\ \A i \in 1 .. n : 0 + i = i
  BY LenProperties
<1>2. LET v == SubSeq(s, 0 + 1, n)
      IN  v \in Seq(E) /\ Len(v) = n - 0 /\ \A i \in 1 .. n - 0 : v[i] = s[0 + i]
  <2> HIDE DEF n
  <2> QED BY <1>1, PartFacts
<1> HIDE DEF n
<1>3. u \in Seq(E) /\ Len(u) = n /\ \A i \in 1 .. n : u[i] = s[i]
  BY <1>1, <1>2
<1> HIDE DEF u
<1>4. n = Len(s)
  BY DEF n
<1>5. u = s
  BY <1>3, <1>4, SeqEqual
<1> QED BY <1>5 DEF u, n

\* What stands in front of the first c is a part of the text.
LEMMA BeforeIsPart ==
  ASSUME NEW E, NEW s \in Seq(E), NEW c
  PROVE  \E j \in 0 .. Len(s) : Before(s, c) = SubSeq(s, 1, j)
<1>1. Len(s) \in Nat
  BY LenProperties
<1>2. CASE ~Contains(s, c)
  <2>1. Before(s, c) = s
    BY <1>2, SplitFacts
  <2>2. SubSeq(s, 1, Len(s)) = s
    BY WholePart
  <2>3. Before(s, c) = SubSeq(s, 1, Len(s))
    BY <2>1, <2>2, Zenon
  <2>4. Len(s) \in 0 .. Len(s)
    BY <1>1
  <2> QED BY <2>3, <2>4, Zenon
<1>3. CASE Contains(s, c)
  <2>1. PICK k \in 1 .. Len(s) : Before(s, c) = SubSeq(s, 1, k - 1)
    BY <1>3, SplitFacts
  <2>2. k - 1 \in 0 .. Len(s)
    BY <1>1
  <2> QED BY <2>1, <2>2
<1> QED BY <1>2, <1>3

\* The value of a parameter that a reader finds is what korall_request_param_get finds.
LEMMA ParamGetReads ==
  ASSUME NEW target \in Seq(STRING), HasWidths(target), NEW room \in Nat, Fits(target, room),
         NEW name \in Seq(STRING), \A i \in DOMAIN name : name[i] # "=",
         NEW k \in ParamStarts(After(target, "?"), name)
  PROVE  ParamGet(target, name, room) = ParamValue(After(target, "?"), name, k)
<1> DEFINE q == After(target, "?")
           l == Len(target)
           m == Len(name)
           N == Len(q)
<1>1. l \in Nat /\ m \in Nat /\ DOMAIN name = 1 .. m
  BY LenProperties
<1>2. k \in DOMAIN q /\ Find(q, name) = k /\ IsPrefix(name \o <<"=">>, SubSeq(q, k, Len(q)))
  BY Zenon DEF ParamStarts
<1>3. Contains(target, "?")
  <2> SUFFICES ASSUME ~Contains(target, "?") PROVE FALSE
    OBVIOUS
  <2>1. Before(target, "?") = target
    BY SplitFacts
  <2>2. q = SubSeq(target, l + 2, l)
    BY <2>1 DEF After
  <2>3. DOMAIN SubSeq(target, l + 2, l) = {}
    BY <1>1
  <2> QED BY <1>2, <2>2, <2>3
<1>4. PICK x \in 1 .. l : q = SubSeq(target, x + 1, l)
  BY <1>3, SplitFacts
<1> HIDE DEF q, l
<1>5. q \in Seq(STRING) /\ N = l - x /\ DOMAIN q = 1 .. N /\ k \in 1 .. N /\ x \in Nat /\ x <= l /\ k \in Nat
  <2>1. x \in Nat /\ x <= l /\ l <= Len(target)
    BY <1>1 DEF l
  <2>2. q \in Seq(STRING) /\ N = l - x
    BY <1>1, <1>4, <2>1, PartFacts
  <2> QED BY <1>2, <2>1, <2>2, LenProperties
\* From the name on
<1> DEFINE rest == SubSeq(q, k, N)
           R == N - k + 1
           e == name \o <<"=">>
<1>6. rest \in Seq(STRING) /\ Len(rest) = R /\ R \in Nat
  <2>1. k - 1 \in Nat /\ N \in Nat /\ k - 1 <= N /\ N <= Len(q) /\ (k - 1) + 1 = k /\ N - (k - 1) = R
    BY <1>1, <1>5
  <2> DEFINE y == k - 1
  <2>2. y \in Nat /\ N \in Nat /\ y <= N /\ N <= Len(q) /\ y + 1 = k /\ N - y = R
    BY <2>1
  <2> HIDE DEF y, N, R
  <2>3. SubSeq(q, y + 1, N) \in Seq(STRING) /\ Len(SubSeq(q, y + 1, N)) = N - y
    BY <1>5, <2>2, PartFacts
  <2> QED BY <1>5, <2>2, <2>3
<1>7. /\ \E E : e \in Seq(E)
      /\ Len(e) = m + 1 /\ e[m + 1] = "=" /\ \A i \in 1 .. m : e[i] = name[i]
  <2> DEFINE u == <<"=">>
             E == STRING \cup {"="}
  <2>1. u \in Seq(E) /\ Len(u) = 1 /\ u[1] = "="
    <3>1. "=" \in E
      OBVIOUS
    <3> HIDE DEF E
    <3> QED BY <3>1, ShortTexts
  <2>2. name \in Seq(E)
    <3>1. STRING \subseteq E
      OBVIOUS
    <3> HIDE DEF E
    <3> QED BY <3>1, SeqMonotonic
  <2> HIDE DEF u, E
  <2>3. /\ Len(name \o u) = Len(name) + Len(u)
        /\ \A j \in 1 .. Len(name) : (name \o u)[j] = name[j]
        /\ \A j \in 1 .. Len(u) : (name \o u)[Len(name) + j] = u[j]
    <3>1. name \in Seq(E) /\ u \in Seq(E)
      BY <2>1, <2>2
    <3> QED BY <3>1, Joined
  <2>4. 1 \in 1 .. Len(u)
    BY <2>1
  <2>5. e \in Seq(E)
    BY <2>1, <2>2, Joined DEF u
  <2> HIDE DEF e
  <2>6. e = name \o u
    BY DEF e, u
  <2>7. Len(e) = m + 1 /\ e[m + 1] = "=" /\ \A i \in 1 .. m : e[i] = name[i]
    BY <2>1, <2>3, <2>4, <2>6
  <2> QED BY <2>5, <2>7
<1> HIDE DEF rest, R, N, m
<1>8. m + 1 <= R /\ rest[m + 1] = "=" /\ \A i \in 1 .. m : rest[i] = name[i]
  <2>1. m + 1 <= R /\ SubSeq(e, 1, m + 1) = SubSeq(rest, 1, m + 1)
    <3>1. Len(e) <= Len(rest) /\ SubSeq(e, 1, Len(e)) = SubSeq(rest, 1, Len(e))
      BY <1>2, Zenon DEF IsPrefix, rest, N
    <3> QED BY <1>6, <1>7, <3>1
  <2> HIDE DEF e
  <2>2. SubSeq(e, 1, m + 1) = e
    BY <1>1, <1>7
  <2>3. \A i \in 1 .. m + 1 : SubSeq(rest, 1, m + 1)[i] = rest[i]
    BY <1>1, <1>6, <2>1
  <2>4. m + 1 \in 1 .. m + 1 /\ \A i \in 1 .. m : i \in 1 .. m + 1
    BY <1>1
  <2> QED BY <1>7, <2>1, <2>2, <2>3, <2>4
<1>9. Contains(rest, "=")
  <2>1. m + 1 \in 1 .. Len(rest)
    BY <1>1, <1>6, <1>8
  <2> QED BY <1>8, <2>1 DEF Contains
<1>10. After(rest, "=") = SubSeq(rest, (m + 1) + 1, R)
  <2>1. PICK p \in 1 .. Len(rest) : FirstAt(rest, "=", p) /\ After(rest, "=") = SubSeq(rest, p + 1, Len(rest))
    BY <1>6, <1>9, SplitFacts
  <2>2. rest[p] = "=" /\ \A i \in 1 .. p - 1 : rest[i] # "="
    BY <2>1 DEF FirstAt
  <2>3. ~(p \in 1 .. m)
    BY <1>1, <1>8, <2>2
  <2>4. ~(m + 1 \in 1 .. p - 1)
    BY <1>8, <2>2
  <2>5. p = m + 1
    BY <1>1, <1>6, <2>3, <2>4
  <2> QED BY <1>6, <2>1, <2>5
<1> DEFINE w == SubSeq(q, k + m + 1, N)
<1>11. After(rest, "=") = w
  <2> DEFINE y == k - 1
             z == m + 1
  <2>1. /\ y \in Nat /\ N \in Nat /\ y <= N /\ N <= Len(q) /\ y + 1 = k
        /\ z \in Nat /\ R \in Nat /\ z <= R /\ R <= N - y
        /\ y + z + 1 = k + m + 1 /\ y + R = N
    BY <1>1, <1>5, <1>6, <1>8 DEF N, R
  <2> HIDE DEF y
  <2>2. rest = SubSeq(q, y + 1, N)
    BY <2>1 DEF rest
  <2>3. After(rest, "=") = SubSeq(rest, z + 1, R)
    BY <1>10
  <2> HIDE DEF z
  <2>4. SubSeq(SubSeq(q, y + 1, N), z + 1, R) = SubSeq(q, y + z + 1, y + R)
    BY <1>5, <2>1, PartOfPart, SMTT(60)
  <2>5. After(rest, "=") = SubSeq(q, y + z + 1, y + R)
    BY <2>2, <2>3, <2>4, Zenon
  <2> HIDE DEF rest
  <2> QED BY <2>1, <2>5
\* Its value is a part of the target.
<1>12. \E i \in 0 .. l, j \in 0 .. l : i <= j /\ Before(w, "&") = SubSeq(target, i + 1, j)
  <2> DEFINE y == x + k + m
             z == k + m
  <2>1. /\ x \in Nat /\ l \in Nat /\ x <= l /\ l <= Len(target)
        /\ z \in Nat /\ N \in Nat /\ z <= N /\ N <= l - x
        /\ x + z + 1 = y + 1 /\ x + N = l /\ z + 1 = k + m + 1 /\ y \in 0 .. l /\ y <= l
    BY <1>1, <1>5, <1>6, <1>8 DEF N, R, l
  <2> HIDE DEF z
  <2>2. SubSeq(SubSeq(target, x + 1, l), z + 1, N) = SubSeq(target, x + z + 1, x + N)
    BY <2>1, PartOfPart
  <2>3. w = SubSeq(target, y + 1, l)
    <3>1. SubSeq(q, z + 1, N) = SubSeq(target, x + z + 1, x + N)
      BY <1>4, <2>2, Zenon
    <3> QED BY <2>1, <3>1
  <2>4. y \in Nat
    BY <2>1
  <2> HIDE DEF y
  <2>5. w \in Seq(STRING) /\ Len(w) = l - y
    <3>1. LET u == SubSeq(target, y + 1, l) IN u \in Seq(STRING) /\ Len(u) = l - y
      BY <2>1, <2>4, PartFacts
    <3> QED BY <2>3, <3>1, Zenon
  <2> HIDE DEF w
  <2>6. PICK j \in 0 .. Len(w) : Before(w, "&") = SubSeq(w, 1, j)
    BY <2>5, BeforeIsPart
  <2>7. j \in Nat /\ j <= l - y /\ 0 \in Nat /\ 0 <= j /\ 0 + 1 = 1 /\ y + j \in 0 .. l /\ y <= y + j
        /\ y + 0 + 1 = y + 1
    BY <2>1, <2>4, <2>5, <2>6
  <2>8. SubSeq(SubSeq(target, y + 1, l), 0 + 1, j) = SubSeq(target, y + 0 + 1, y + j)
    BY <2>1, <2>4, <2>7, PartOfPart
  <2>9. Before(w, "&") = SubSeq(target, y + 1, y + j)
    <3>1. Before(w, "&") = SubSeq(SubSeq(target, y + 1, l), 1, j)
      BY <2>3, <2>6, Zenon
    <3> QED BY <2>7, <2>8, <3>1
  <2> QED BY <2>1, <2>7, <2>9
<1> HIDE DEF w
<1>13. Fits(Before(w, "&"), room)
  <2>1. PICK i \in 0 .. l, j \in 0 .. l : i <= j /\ Before(w, "&") = SubSeq(target, i + 1, j)
    BY <1>12
  <2>2. Fits(SubSeq(target, i + 1, j), room)
    BY <2>1, PartFits DEF l
  <2> QED BY <2>1, <2>2, Zenon
<1>14. ParamGet(target, name, room) = Before(w, "&")
  <2>1. Find(q, name) = k /\ k # 0
    BY <1>2, <1>5
  <2> DEFINE Got(at) ==
                IF ~Contains(target, "?") \/ at = 0 \/ ~Contains(SubSeq(q, at, Len(q)), "=") THEN NotFound
                ELSE LET value == Before(After(SubSeq(q, at, Len(q)), "="), "&")
                     IN  IF Fits(value, room) THEN value ELSE NotFound
  <2>2. ParamGet(target, name, room) = Got(Find(q, name))
    BY Zenon DEF ParamGet, q
  <2>3. Contains(SubSeq(q, k, Len(q)), "=") /\ After(SubSeq(q, k, Len(q)), "=") = w
    BY <1>9, <1>11, Zenon DEF rest, N
  <2>4. Got(k) = Before(w, "&")
    BY <1>3, <1>13, <2>1, <2>3, Zenon
  <2> HIDE DEF Got
  <2> QED BY <2>1, <2>2, <2>4, Zenon
<1> QED BY <1>14, Zenon DEF ParamValue, w, q, N, m

-----------------------------------------------------------------------------
(* The items of a list                                                     *)

\* Tokens, without what the provers know of strings
Words == STRING

\* Lists of items, of which there is at least one
ItemLists == {items \in Seq(Seq(Words)) : Len(items) \in Nat \ {0}}

\* One turn of the loop over a list
ItemTurn(items, w) ==
    IF w = "," THEN Append(items, <<>>)
    ELSE IF w = Space /\ Last(items) = <<>> /\ Len(items) > 1 THEN items
    ELSE [items EXCEPT ![Len(items)] = Append(@, w)]

\* A comma begins an item; a space behind it adds nothing; any other token is added
\* to the last item.
LEMMA ItemTurnFacts ==
  ASSUME NEW items \in ItemLists, NEW w \in Words
  PROVE  LET next == ItemTurn(items, w)
             i == Len(items)
             skips == w = Space /\ items[i] = <<>> /\ i > 1
         IN  /\ next \in ItemLists
             /\ w = "," => /\ Len(next) = i + 1 /\ next[i + 1] = <<>>
                           /\ \A j \in 1 .. i : next[j] = items[j]
             /\ w # "," /\ ~skips => /\ Len(next) = i /\ next[i] = Append(items[i], w)
                                     /\ \A j \in 1 .. i - 1 : next[j] = items[j]
             /\ w # "," /\ skips => next = items
<1> DEFINE i == Len(items)
           E == Seq(Words)
           next == ItemTurn(items, w)
           skips == w = Space /\ items[i] = <<>> /\ i > 1
<1>1. items \in Seq(E) /\ i \in Nat \ {0} /\ i = Len(items)
  BY DEF ItemLists
<1>2. items[i] \in E /\ <<>> \in E
  BY <1>1, ElementOfSeq
<1>3. Append(items[i], w) \in E
  <2> DEFINE x == items[i]
  <2>1. x \in Seq(Words)
    BY <1>2
  <2> HIDE DEF x
  <2>2. Append(x, w) \in Seq(Words)
    BY <2>1, AppendProperties
  <2> QED BY <2>2 DEF x
<1> HIDE DEF E
<1>4. CASE w = ","
  <2> DEFINE u == Append(items, <<>>)
  <2>1. u \in Seq(E) /\ Len(u) = i + 1 /\ u[i + 1] = <<>> /\ \A j \in 1 .. i : u[j] = items[j]
    BY <1>1, <1>2, AppendProperties
  <2>2. next = u
    BY <1>4 DEF ItemTurn
  <2>3. Len(u) \in Nat \ {0}
    BY <1>1, <2>1
  <2>4. u \in ItemLists
    BY <2>1, <2>3 DEF ItemLists, E
  <2> HIDE DEF u, next, i
  <2> QED BY <1>4, <2>1, <2>2, <2>4 DEF next, i
<1>5. CASE w # "," /\ skips
  <2>1. next = items
    BY <1>5, Zenon DEF ItemTurn, Last
  <2> QED BY <1>5, <2>1
<1>6. CASE w # "," /\ ~skips
  <2> DEFINE e == Append(items[i], w)
             u == [items EXCEPT ![i] = e]
  <2>1. next = u
    BY <1>6, Zenon DEF ItemTurn, Last
  <2>2. e \in E
    BY <1>3
  <2> HIDE DEF e, i
  <2>3. u \in Seq(E) /\ Len(u) = i /\ u[i] = e /\ \A j \in 1 .. i - 1 : u[j] = items[j]
    <3>1. i \in 1 .. Len(items)
      BY <1>1
    <3> QED BY <1>1, <2>2, <3>1, ExceptSeq
  <2> HIDE DEF u, next
  <2>4. u \in ItemLists
    BY <1>1, <2>3 DEF ItemLists, E
  <2> QED BY <1>6, <2>1, <2>3, <2>4 DEF e, next, i
<1> QED BY <1>4, <1>5, <1>6

\* It leaves all items but the last alone.
LEMMA ItemTurnKeeps ==
  ASSUME NEW items \in ItemLists, NEW w \in Words
  PROVE  /\ Len(items) <= Len(ItemTurn(items, w))
         /\ \A j \in 1 .. Len(items) - 1 : ItemTurn(items, w)[j] = items[j]
<1> DEFINE next == ItemTurn(items, w)
           i == Len(items)
           skips == w = Space /\ items[i] = <<>> /\ i > 1
<1>1. i \in Nat \ {0}
  BY DEF ItemLists
<1>2. /\ w = "," => Len(next) = i + 1 /\ \A j \in 1 .. i : next[j] = items[j]
      /\ w # "," /\ ~skips => Len(next) = i /\ \A j \in 1 .. i - 1 : next[j] = items[j]
      /\ w # "," /\ skips => next = items
  BY ItemTurnFacts
<1> HIDE DEF next, i, skips
<1>3. CASE w = ","
  <2>1. Len(next) = i + 1 /\ \A j \in 1 .. i : next[j] = items[j]
    BY <1>2, <1>3
  <2>2. i <= i + 1 /\ \A j \in 1 .. i - 1 : j \in 1 .. i
    BY <1>1
  <2> QED BY <2>1, <2>2 DEF next, i
<1>4. CASE w # "," /\ ~skips
  <2>1. Len(next) = i /\ \A j \in 1 .. i - 1 : next[j] = items[j]
    BY <1>2, <1>4
  <2>2. i <= Len(next)
    BY <1>1, <2>1
  <2> QED BY <2>1, <2>2, Zenon DEF next, i
<1>5. CASE w # "," /\ skips
  <2>1. next = items
    BY <1>2, <1>5
  <2> QED BY <1>1, <2>1 DEF next, i
<1> QED BY <1>3, <1>4, <1>5

\* r[k] are the items of the first k tokens of v.
ItemsOf(r, v) ==
    /\ r \in [0 .. Len(v) -> ItemLists] /\ r[0] = << <<>> >>
    /\ \A k \in 1 .. Len(v) : r[k] = ItemTurn(r[k - 1], v[k])

\* The items of a list, token by token
LEMMA ItemsExist ==
  ASSUME NEW v \in Seq(Words)
  PROVE  \E r : ItemsOf(r, v) /\ r[Len(v)] = ListItems(v)
<1> DEFINE n == Len(v)
           S == DOMAIN v
           A == ItemLists
           base == << <<>> >>
           G == [p \in (1 .. n) \X A |-> ItemTurn(p[2], v[p[1]])]
           Body(g) == [t \in SUBSET S |-> IF t = {} THEN base
                                          ELSE ItemTurn(g[t \ {Max(t)}], v[Max(t)])]
           iter == CHOOSE g : g = Body(g)
<1>1. n \in Nat /\ S = 1 .. n
  BY LenProperties
<1>2. base \in A
  <2> DEFINE E == Seq(Words)
  <2>1. <<>> \in E
    BY EmptySeq
  <2> HIDE DEF E
  <2>2. base \in Seq(E) /\ Len(base) = 1
    BY <2>1, ShortTexts
  <2> HIDE DEF base
  <2> QED BY <2>2 DEF ItemLists, E
<1>3. ASSUME NEW k \in 1 .. n, NEW items \in A PROVE ItemTurn(items, v[k]) \in A
  <2>1. v[k] \in Words
    BY ElementOfSeq
  <2> QED BY <2>1, ItemTurnFacts
<1>4. G \in [(1 .. n) \X A -> A]
  <2>1. \A p \in (1 .. n) \X A : p[1] \in 1 .. n /\ p[2] \in A
    OBVIOUS
  <2> HIDE DEF n, A
  <2> QED BY <1>3, <2>1
<1> HIDE DEF n, S, A, base
<1>5. PICK g \in [SUBSET (1 .. n) -> A] : FoldsBy(g, n, base, G)
  <2> HIDE DEF G
  <2> QED BY <1>1, <1>2, <1>4, FoldUpExists, Zenon
<1>6. ASSUME NEW t \in SUBSET (1 .. n), t # {} PROVE Max(t) \in 1 .. n
  BY <1>1, <1>6, LastPosition
<1>7. ASSUME NEW h, NEW t \in SUBSET (1 .. n), t # {}, h[t \ {Max(t)}] \in A
      PROVE  G[<<Max(t), h[t \ {Max(t)}]>>] = ItemTurn(h[t \ {Max(t)}], v[Max(t)])
  BY <1>6, <1>7
<1> HIDE DEF G
<1>8. g = Body(g)
  <2>1. ASSUME NEW t \in SUBSET S
        PROVE  g[t] = IF t = {} THEN base ELSE ItemTurn(g[t \ {Max(t)}], v[Max(t)])
    BY <1>1, <1>5, <1>7 DEF FoldsBy
  <2> QED BY <1>1, <1>5, <2>1
<1>9. iter = Body(iter)
  <2> HIDE DEF Body
  <2> QED BY <1>8, Zenon
<1> HIDE DEF iter
<1>10. iter[{}] = base
  BY <1>9
<1>11. ASSUME NEW t \in SUBSET (1 .. n), t # {}, iter[t \ {Max(t)}] \in A
       PROVE  iter[t] = G[<<Max(t), iter[t \ {Max(t)}]>>]
  <2>1. iter[t] = Body(iter)[t]
    BY <1>9, Zenon
  <2>2. Body(iter)[t] = ItemTurn(iter[t \ {Max(t)}], v[Max(t)])
    BY <1>1, <1>11
  <2> QED BY <1>7, <1>11, <2>1, <2>2
<1>12. PICK r \in [0 .. n -> A] : Turns(r, n, base, G) /\ r[n] = iter[1 .. n]
  <2>1. FoldsIn(iter, n, A, base, G)
    BY <1>10, <1>11, Zenon DEF FoldsIn
  <2>2. HasTurns(iter, n, A, base, G)
    BY <2>1, <1>1, <1>2, <1>4, FoldTurns, Zenon
  <2> QED BY <2>2, Zenon DEF HasTurns
<1>13. ASSUME NEW k \in 1 .. n PROVE r[k] = ItemTurn(r[k - 1], v[k])
  <2>1. r[k - 1] \in A
    BY <1>1, <1>12
  <2>2. G[<<k, r[k - 1]>>] = ItemTurn(r[k - 1], v[k])
    BY <2>1 DEF G
  <2> QED BY <1>12, <2>2 DEF Turns
<1>14. ListItems(v) = iter[S]
  BY Zenon DEF ListItems, FoldLeft, MapThenFoldSet, iter, S, ItemTurn, Space, base
<1>15. ItemsOf(r, v)
  BY <1>12, <1>13 DEF ItemsOf, Turns, n, A, base
<1> QED BY <1>1, <1>12, <1>14, <1>15 DEF n

\* What has been read of the items stays.
LEMMA ItemsStay ==
  ASSUME NEW v \in Seq(Words), NEW r, ItemsOf(r, v), NEW p \in 0 .. Len(v)
  PROVE  \A q \in p .. Len(v) :
            Len(r[p]) <= Len(r[q]) /\ \A j \in 1 .. Len(r[p]) - 1 : r[q][j] = r[p][j]
<1> DEFINE n == Len(v)
           i == Len(r[p])
           T == {q \in 0 .. n : q >= p => i <= Len(r[q]) /\ \A j \in 1 .. i - 1 : r[q][j] = r[p][j]}
<1>1. n \in Nat /\ (\A k \in 0 .. n : r[k] \in ItemLists) /\ \A k \in 1 .. n : v[k] \in Words
  BY LenProperties, ElementOfSeq DEF ItemsOf
<1>2. \A k \in 0 .. n : Len(r[k]) \in Nat \ {0}
  BY <1>1 DEF ItemLists
<1>3. p \in 0 .. n /\ \A k \in 1 .. n : r[k] = ItemTurn(r[k - 1], v[k])
  BY DEF ItemsOf
<1> HIDE DEF n
<1>4. i \in Nat \ {0}
  BY <1>2, <1>3
<1>5. ASSUME NEW q \in 0 .. n, q <= p PROVE q \in T
  <2>1. q >= p => q = p
    BY <1>1, <1>3, <1>5
  <2> QED BY <1>4, <2>1
<1>6. 0 \in T
  BY <1>1, <1>3, <1>5
<1>7. ASSUME NEW q \in 1 .. n, q - 1 \in T PROVE q \in T
  <2>1. CASE q <= p
    BY <1>1, <1>5, <2>1
  <2>2. CASE q > p
    <3> DEFINE a == r[q - 1]
               l == Len(a)
               b == r[q]
    <3>1. q - 1 \in 0 .. n /\ q \in 0 .. n /\ q - 1 >= p
      BY <1>1, <1>3, <2>2
    <3>2. i <= l /\ \A j \in 1 .. i - 1 : a[j] = r[p][j]
      BY <1>7, <3>1
    <3>3. a \in ItemLists /\ l \in Nat \ {0} /\ v[q] \in Words /\ b = ItemTurn(a, v[q])
      BY <1>1, <1>2, <1>3, <3>1
    <3> HIDE DEF a, b
    <3>4. l <= Len(b) /\ \A j \in 1 .. l - 1 : b[j] = a[j]
      BY <3>3, ItemTurnKeeps
    <3> HIDE DEF l, i
    <3>5. b = r[q] /\ a = r[q - 1] /\ Len(b) \in Nat
      BY <1>2, <3>1 DEF a, b
    <3>6. i <= Len(b)
      BY <1>4, <3>2, <3>3, <3>4, <3>5
    <3>7. \A j \in 1 .. i - 1 : b[j] = r[p][j]
      <4>1. \A j \in 1 .. i - 1 : j \in 1 .. l - 1
        BY <1>4, <3>2, <3>3
      <4> QED BY <3>2, <3>4, <4>1
    <3> QED BY <3>1, <3>5, <3>6, <3>7 DEF b
  <2> QED BY <1>1, <1>3, <2>1, <2>2
<1>8. \A q \in 0 .. n : q \in T
  <2> HIDE DEF T
  <2> QED BY <1>1, <1>6, <1>7, CountUp, Zenon
<1>9. ASSUME NEW q \in p .. n PROVE i <= Len(r[q]) /\ \A j \in 1 .. i - 1 : r[q][j] = r[p][j]
  <2>1. q \in 0 .. n /\ q >= p
    BY <1>1, <1>3
  <2> QED BY <1>8, <2>1
<1> QED BY <1>9 DEF n, i

\* A space is no separator.
LEMMA SpaceIsNoComma == Space # "," /\ Space # "="
BY Zenon DEF Space

\* The first k tokens are read, the i-th item begins, and its first token counts.
AtItem(r, v, k, i) ==
    /\ k \in 0 .. Len(v) /\ i \in Nat \ {0} /\ Len(r[k]) = i /\ r[k][i] = <<>>
    /\ i = 1 \/ k = Len(v) \/ v[k + 1] # Space

\* None of these tokens is a comma.
NoComma(v, k, l) == \A j \in 1 .. l : v[k + j] # ","

\* Up to the next comma all tokens are the item's.
LEMMA ItemRuns ==
  ASSUME NEW v \in Seq(Words), NEW r, ItemsOf(r, v),
         NEW k \in Nat, NEW i \in Nat, AtItem(r, v, k, i),
         NEW l \in Nat, k + l <= Len(v), NoComma(v, k, l)
  PROVE  Len(r[k + l]) = i /\ r[k + l][i] = SubSeq(v, k + 1, k + l)
<1> DEFINE n == Len(v)
           T == {h \in 0 .. l : Len(r[k + h]) = i /\ r[k + h][i] = SubSeq(v, k + 1, k + h)}
<1>1. /\ n \in Nat /\ (\A h \in 0 .. n : r[h] \in ItemLists) /\ (\A h \in 1 .. n : v[h] \in Words)
      /\ \A h \in 1 .. n : r[h] = ItemTurn(r[h - 1], v[h])
  BY LenProperties, ElementOfSeq DEF ItemsOf
<1>2. /\ k \in 0 .. n /\ i \in Nat \ {0} /\ Len(r[k]) = i /\ r[k][i] = <<>>
      /\ i = 1 \/ k = n \/ v[k + 1] # Space
  BY DEF AtItem
<1> HIDE DEF n
<1>3. n \in Nat /\ k \in 0 .. n /\ k \in Nat /\ l \in Nat /\ k + l <= n /\ i \in Nat \ {0}
  <2>1. k \in 0 .. n /\ k + l <= n /\ i \in Nat \ {0}
    BY <1>2 DEF n
  <2>2. n \in Nat
    BY <1>1
  <2> QED BY <2>1, <2>2
<1>4. 0 \in T
  <2>1. k + 0 = k /\ 0 \in 0 .. l
    BY <1>3
  <2>2. SubSeq(v, k + 1, k) = <<>>
    BY <1>3
  <2> QED BY <1>2, <2>1, <2>2
<1>5. ASSUME NEW h \in 1 .. l, h - 1 \in T PROVE h \in T
  <2> DEFINE x == k + (h - 1)
             y == k + h
             a == r[x]
             b == r[y]
             s == SubSeq(v, k + 1, x)
  <2>1. /\ x \in 0 .. n /\ y \in 1 .. n /\ y \in 0 .. n /\ x = y - 1 /\ x + 1 = y
        /\ h \in 0 .. l /\ x \in Nat /\ y \in Nat /\ k \in Nat /\ k <= x /\ k < y
    BY <1>3
  <2>2. Len(a) = i /\ a[i] = s
    BY <1>5
  <2>3. a \in ItemLists /\ v[y] \in Words /\ v[y] # "," /\ b = ItemTurn(a, v[y])
    <3>1. v[y] # ","
      BY DEF NoComma
    <3> HIDE DEF x, y
    <3> QED BY <1>1, <2>1, <3>1 DEF a, b
  <2>4. ~(v[y] = Space /\ a[i] = <<>> /\ i > 1)
    <3>1. CASE h = 1
      <4>1. y = k + 1 /\ k # n
        BY <1>3, <2>1, <3>1
      <4>2. i > 1 => i # 1
        BY <1>3
      <4> HIDE DEF y
      <4> QED BY <1>2, <4>1, <4>2
    <3>2. CASE h # 1
      <4> HIDE DEF x, y
      <4>1. x > k
        BY <1>3, <3>2 DEF x
      <4>2. Len(s) = x - k
        <5>1. x <= Len(v) /\ x \in Nat /\ k \in Nat /\ k <= x
          BY <1>3, <2>1 DEF n
        <5> QED BY <5>1, PartFacts
      <4>3. s # <<>>
        <5> SUFFICES ASSUME s = <<>> PROVE FALSE
          OBVIOUS
        <5>1. Len(s) = 0
          BY EmptySeq
        <5> HIDE DEF s
        <5> QED BY <2>1, <4>1, <4>2, <5>1
      <4> HIDE DEF s, a
      <4> QED BY <2>2, <4>3
    <3> QED BY <3>1, <3>2
  <2> HIDE DEF x, y, a, b, s
  <2>5. Len(b) = i /\ b[i] = Append(s, v[y])
    <3>1. LET next == ItemTurn(a, v[y])
          IN  ~(v[y] = Space /\ a[Len(a)] = <<>> /\ Len(a) > 1)
                => Len(next) = Len(a) /\ next[Len(a)] = Append(a[Len(a)], v[y])
      BY <2>3, ItemTurnFacts
    <3> QED BY <2>2, <2>3, <2>4, <3>1
  <2>6. Append(s, v[y]) = SubSeq(v, k + 1, y)
    <3> DEFINE t == SubSeq(v, k + 1, y)
               u == Append(s, v[y])
               w == v[y]
    <3>1. /\ x <= Len(v) /\ y <= Len(v) /\ k <= y
          /\ x \in Nat /\ y \in Nat /\ k \in Nat /\ k <= x /\ k < y /\ x + 1 = y
      <4>1. x <= n /\ y <= n
        BY <1>3, <2>1
      <4> QED BY <2>1, <4>1 DEF n
    <3>2. s \in Seq(Words) /\ Len(s) = x - k /\ \A j \in 1 .. x - k : s[j] = v[k + j]
      BY <3>1, PartFacts DEF s
    <3>3. t \in Seq(Words) /\ Len(t) = y - k /\ \A j \in 1 .. y - k : t[j] = v[k + j]
      BY <3>1, PartFacts
    <3>4. w \in Words
      BY <2>3
    <3> HIDE DEF t, w
    <3>5. /\ u \in Seq(Words) /\ Len(u) = Len(s) + 1 /\ u[Len(s) + 1] = w
          /\ \A j \in 1 .. Len(s) : u[j] = s[j]
      BY <3>2, <3>4, AppendProperties DEF w
    <3> HIDE DEF u
    <3>6. (x - k) + 1 = y - k /\ k + ((x - k) + 1) = y
      BY <3>1
    <3>7. \A j \in 1 .. y - k : u[j] = t[j]
      <4>1. ASSUME NEW j \in 1 .. y - k PROVE u[j] = t[j]
        <5>1. CASE j = (x - k) + 1
          BY <3>2, <3>3, <3>5, <3>6, <5>1 DEF w
        <5>2. CASE j # (x - k) + 1
          <6>1. j \in 1 .. x - k
            BY <3>1, <3>6, <5>2
          <6> QED BY <3>2, <3>3, <3>5, <6>1
        <5> QED BY <5>1, <5>2
      <4> QED BY <4>1
    <3>8. u = t
      BY <3>2, <3>3, <3>5, <3>6, <3>7, SeqEqual
    <3> QED BY <3>8 DEF u, t, w
  <2> QED BY <2>1, <2>5, <2>6 DEF b, y
<1>6. \A h \in 0 .. l : h \in T
  <2>1. l \in Nat
    OBVIOUS
  <2> HIDE DEF T
  <2> QED BY <2>1, <1>4, <1>5, CountUp, Zenon
<1>7. l \in T
  <2>1. l \in 0 .. l
    BY <1>3
  <2> QED BY <1>6, <2>1, Zenon
<1> QED BY <1>7

-----------------------------------------------------------------------------
(* Separators                                                              *)

\* The first c of s is its x-th token, or x is behind its end.
Splits(s, c, x) ==
    /\ x \in 1 .. Len(s) + 1
    /\ \A j \in 1 .. x - 1 : s[j] # c
    /\ x <= Len(s) => s[x] = c

\* A token has a first place in every text, or the place behind its end.
LEMMA SplitExists ==
  ASSUME NEW E, NEW s \in Seq(E), NEW c
  PROVE  \E x \in 1 .. Len(s) + 1 : Splits(s, c, x)
<1>1. Len(s) \in Nat
  BY LenProperties
<1>2. CASE Contains(s, c)
  <2>1. PICK k \in 1 .. Len(s) : FirstAt(s, c, k)
    BY <1>2, SplitFacts
  <2>2. k \in 1 .. Len(s) + 1
    BY <1>1
  <2> QED BY <2>1, <2>2 DEF FirstAt, Splits
<1>3. CASE ~Contains(s, c)
  <2> DEFINE x == Len(s) + 1
  <2>1. x \in 1 .. Len(s) + 1 /\ x - 1 = Len(s) /\ ~(x <= Len(s))
    BY <1>1
  <2>2. \A j \in 1 .. Len(s) : s[j] # c
    BY <1>3 DEF Contains
  <2> HIDE DEF x
  <2> QED BY <2>1, <2>2 DEF Splits
<1> QED BY <1>2, <1>3

\* What stands in front of that place is what strcspn and strchr leave.
LEMMA SplitAtFacts ==
  ASSUME NEW E, NEW s \in Seq(E), NEW c, NEW x \in Nat, Splits(s, c, x)
  PROVE  /\ Before(s, c) = SubSeq(s, 1, x - 1)
         /\ x = Len(s) + 1 <=> ~Contains(s, c)
<1>1. /\ x \in 1 .. Len(s) + 1 /\ Len(s) \in Nat
      /\ \A j \in 1 .. x - 1 : s[j] # c
      /\ x <= Len(s) => s[x] = c
  BY LenProperties DEF Splits
<1>2. CASE Contains(s, c)
  <2>1. PICK k \in 1 .. Len(s) : FirstAt(s, c, k) /\ Before(s, c) = SubSeq(s, 1, k - 1)
    BY <1>2, SplitFacts
  <2>2. s[k] = c /\ \A j \in 1 .. k - 1 : s[j] # c
    BY <2>1 DEF FirstAt
  <2>3. ~(k \in 1 .. x - 1)
    BY <1>1, <2>2
  <2>4. x <= Len(s) /\ ~(x \in 1 .. k - 1)
    BY <1>1, <2>2, <2>3
  <2>5. x = k
    BY <1>1, <2>3, <2>4
  <2> QED BY <1>1, <1>2, <2>1, <2>4, <2>5
<1>3. CASE ~Contains(s, c)
  <2>1. Before(s, c) = s /\ ~(x <= Len(s))
    <3>1. Before(s, c) = s
      BY <1>3, SplitFacts
    <3>2. \A j \in 1 .. Len(s) : s[j] # c
      BY <1>3 DEF Contains
    <3> QED BY <1>1, <3>1, <3>2
  <2>2. x - 1 = Len(s) /\ x = Len(s) + 1
    BY <1>1, <2>1
  <2>3. SubSeq(s, 1, Len(s)) = s
    BY WholePart
  <2> QED BY <1>3, <2>1, <2>2, <2>3
<1> QED BY <1>2, <1>3

\* What str_skip_spaces leaves
LEMMA SkipFacts ==
  ASSUME NEW E, NEW s \in Seq(E)
  PROVE  \E k \in 1 .. Len(s) + 1 :
            /\ SkipSpaces(s) = SubSeq(s, k, Len(s))
            /\ \A j \in 1 .. k - 1 : s[j] = Space
            /\ k <= Len(s) => s[k] # Space
<1> DEFINE n == Len(s)
           at == {i \in 1 .. n : s[i] # Space}
           m == IF at # {} THEN Min(at) ELSE 0
<1>1. n \in Nat
  BY LenProperties
<1>2. SkipSpaces(s) = IF m = 0 THEN <<>> ELSE SubSeq(s, m, n)
  BY Zenon DEF SkipSpaces, SelectInSeq, Space
<1> HIDE DEF n
<1>3. CASE at = {}
  <2> DEFINE k == n + 1
  <2>1. k \in 1 .. n + 1 /\ k - 1 = n /\ ~(k <= n)
    BY <1>1
  <2>2. \A j \in 1 .. n : s[j] = Space
    BY <1>3
  <2>3. SkipSpaces(s) = <<>>
    BY <1>2, <1>3
  <2>4. SubSeq(s, n + 1, n) = <<>>
    BY <1>1
  <2> HIDE DEF k, at, m
  <2>5. SubSeq(s, k, n) = <<>>
    BY <2>4 DEF k
  <2> QED BY <2>1, <2>2, <2>3, <2>5 DEF n
<1>4. CASE at # {}
  <2>1. at \subseteq Nat
    BY <1>1
  <2>2. m \in at /\ \A i \in at : m <= i
    <3> HIDE DEF at
    <3> QED BY <1>4, <2>1, FirstPosition
  <2> HIDE DEF m
  <2>3. m \in 1 .. n /\ s[m] # Space
    BY <2>2
  <2>4. \A j \in 1 .. m - 1 : s[j] = Space
    <3>1. ASSUME NEW j \in 1 .. m - 1, s[j] # Space PROVE FALSE
      <4>1. j \in 1 .. n /\ ~(m <= j)
        BY <1>1, <2>3
      <4> QED BY <2>2, <3>1, <4>1
    <3> QED BY <3>1
  <2>5. m # 0 /\ m \in 1 .. n + 1
    BY <1>1, <2>3
  <2>6. SkipSpaces(s) = SubSeq(s, m, n)
    BY <1>2, <2>5
  <2> QED BY <2>3, <2>4, <2>5, <2>6 DEF n
<1> QED BY <1>3, <1>4

\* What is left behind the first k tokens
Left(v, k) == SubSeq(v, k + 1, Len(v))

\* What is left, token by token
LEMMA LeftFacts ==
  ASSUME NEW v \in Seq(Words), NEW k \in 0 .. Len(v)
  PROVE  /\ Left(v, k) \in Seq(Words) /\ Len(Left(v, k)) = Len(v) - k
         /\ \A j \in 1 .. Len(v) - k : Left(v, k)[j] = v[k + j]
<1> DEFINE n == Len(v)
<1>1. n \in Nat /\ k \in Nat /\ k <= n /\ n <= Len(v)
  BY LenProperties
<1> HIDE DEF n
<1>2. LET u == SubSeq(v, k + 1, n)
      IN  u \in Seq(Words) /\ Len(u) = n - k /\ \A i \in 1 .. n - k : u[i] = v[k + i]
  BY <1>1, PartFacts
<1> QED BY <1>2 DEF Left, n

\* What is left of what is left
LEMMA LeftOfLeft ==
  ASSUME NEW v \in Seq(Words), NEW k \in 0 .. Len(v), NEW a \in 0 .. Len(v) - k
  PROVE  SubSeq(Left(v, k), a + 1, Len(Left(v, k))) = Left(v, k + a)
<1> DEFINE n == Len(v)
           m == n - k
<1>1. n \in Nat /\ k \in Nat /\ k <= n /\ n <= Len(v) /\ m \in Nat /\ a \in Nat /\ a <= m /\ m <= n - k
  BY LenProperties
<1>2. Len(Left(v, k)) = m
  BY LeftFacts
<1>3. k + m = n
  BY <1>1
<1> HIDE DEF n, m
<1>4. SubSeq(SubSeq(v, k + 1, n), a + 1, m) = SubSeq(v, k + a + 1, k + m)
  BY <1>1, PartOfPart
<1>5. Left(v, k) = SubSeq(v, k + 1, n) /\ Left(v, k + a) = SubSeq(v, k + a + 1, n)
  BY DEF Left, n
<1> QED BY <1>2, <1>3, <1>4, <1>5


\* The next c behind the first k tokens is the y-th of the others, or y is behind them.
SplitIs(v, k, c, y) ==
    /\ y \in 1 .. (Len(v) - k) + 1
    /\ \A j \in 1 .. y - 1 : v[k + j] # c
    /\ y <= Len(v) - k => v[k + y] = c
    /\ Before(Left(v, k), c) = SubSeq(v, k + 1, k + (y - 1))

\* The next separator behind the first k tokens
LEMMA SplitOfLeft ==
  ASSUME NEW v \in Seq(Words), NEW k \in 0 .. Len(v), NEW c, NEW y \in Nat, Splits(Left(v, k), c, y)
  PROVE  SplitIs(v, k, c, y)
<1> DEFINE n == Len(v)
           L == Left(v, k)
           m == n - k
           l == y - 1
<1>1. n \in Nat /\ k \in Nat /\ k <= n /\ m \in Nat /\ k + m = n
  BY LenProperties
<1>2. L \in Seq(Words) /\ Len(L) = m /\ \A j \in 1 .. m : L[j] = v[k + j]
  BY LeftFacts
<1>3. Before(L, c) = SubSeq(L, 1, l)
  BY <1>2, SplitAtFacts
<1>4. y \in 1 .. m + 1 /\ (\A j \in 1 .. l : L[j] # c) /\ (y <= m => L[y] = c)
  <2> HIDE DEF L, m, l
  <2>1. y \in 1 .. Len(L) + 1 /\ (\A j \in 1 .. y - 1 : L[j] # c) /\ (y <= Len(L) => L[y] = c)
    BY DEF Splits, L
  <2> QED BY <1>2, <2>1 DEF l
<1>5. L = SubSeq(v, k + 1, n)
  BY DEF Left
<1> HIDE DEF L, n
<1>6. l \in Nat /\ l <= m
  BY <1>1, <1>4
<1>7. SubSeq(L, 1, l) = SubSeq(v, k + 1, k + l)
  <2>1. n <= Len(v) /\ 0 \in Nat /\ 0 <= l /\ k + 0 + 1 = k + 1 /\ 0 + 1 = 1
    BY <1>1, <1>6 DEF n
  <2>2. SubSeq(SubSeq(v, k + 1, n), 0 + 1, l) = SubSeq(v, k + 0 + 1, k + l)
    BY <1>1, <1>6, <2>1, PartOfPart
  <2> QED BY <1>5, <2>1, <2>2
<1>8. \A j \in 1 .. l : v[k + j] # c
  <2>1. \A j \in 1 .. l : j \in 1 .. m
    BY <1>1, <1>6
  <2> HIDE DEF l, m
  <2> QED BY <1>2, <1>4, <2>1
<1>9. y <= m => v[k + y] = c
  <2>1. y <= m => y \in 1 .. m
    BY <1>1, <1>4
  <2> HIDE DEF m
  <2> QED BY <1>2, <1>4, <2>1
<1> HIDE DEF l, m
<1>10. Before(L, c) = SubSeq(v, k + 1, k + l)
  BY <1>3, <1>7
<1> QED BY <1>4, <1>8, <1>9, <1>10 DEF SplitIs, l, m, n, L

\* A separator of the items
IsComma(w) == w = ","

\* The comma behind the first k tokens is the y-th of the others.
CommaAt(v, k, y) == Splits(Left(v, k), ",", y)

\* What stands in front of the next comma has no comma.
LEMMA CommaFacts ==
  ASSUME NEW v \in Seq(Words), NEW k \in 0 .. Len(v), NEW y \in Nat, CommaAt(v, k, y)
  PROVE  /\ y \in 1 .. (Len(v) - k) + 1 /\ NoComma(v, k, y - 1)
         /\ y <= Len(v) - k => IsComma(v[k + y])
         /\ Before(Left(v, k), ",") = SubSeq(v, k + 1, k + (y - 1))
<1>1. \A c : Splits(Left(v, k), c, y) => SplitIs(v, k, c, y)
  BY SplitOfLeft
<1>2. SplitIs(v, k, ",", y)
  BY <1>1, Zenon DEF CommaAt
<1> QED BY <1>2, Zenon DEF SplitIs, NoComma, IsComma

\* A comma begins the next item and leaves the others as they are.
LEMMA CommaTurn ==
  ASSUME NEW v \in Seq(Words), NEW r, ItemsOf(r, v), NEW c \in 1 .. Len(v), IsComma(v[c]),
         NEW i \in Nat, Len(r[c - 1]) = i
  PROVE  Len(r[c]) = i + 1 /\ r[c][i + 1] = <<>> /\ \A j \in 1 .. i : r[c][j] = r[c - 1][j]
<1>1. c - 1 \in 0 .. Len(v) /\ v[c] \in Words
  <2>1. v[c] \in Words
    BY ElementOfSeq
  <2>2. Len(v) \in Nat
    BY LenProperties
  <2> QED BY <2>1, <2>2
<1>2. r[c - 1] \in ItemLists /\ r[c] = ItemTurn(r[c - 1], v[c])
  BY <1>1 DEF ItemsOf
<1> DEFINE a == r[c - 1]
           b == r[c]
           w == v[c]
<1>3. a \in ItemLists /\ b = ItemTurn(a, w) /\ w \in Words /\ IsComma(w) /\ Len(a) = i
  BY <1>1, <1>2
<1> HIDE DEF a, b, w
<1>4. Len(b) = Len(a) + 1 /\ b[Len(a) + 1] = <<>> /\ \A j \in 1 .. Len(a) : b[j] = a[j]
  BY <1>3, ItemTurnFacts DEF IsComma
<1>5. Len(b) = i + 1 /\ b[i + 1] = <<>> /\ \A j \in 1 .. i : b[j] = a[j]
  BY <1>3, <1>4
<1> QED BY <1>5 DEF a, b

\* The i-th item, begun behind k tokens, ends at the y-th of the others.
ItemEnds(r, v, k, i, y) ==
    LET n == Len(v)
        c == k + y
    IN  /\ k \in 0 .. n /\ y \in 1 .. (n - k) + 1
        /\ r[n] \in ItemLists /\ i <= Len(r[n]) /\ r[n][i] = Before(Left(v, k), ",")
        /\ y = (n - k) + 1 => Len(r[n]) = i
        /\ y <= n - k => /\ c \in 1 .. n /\ Len(r[c]) = i + 1 /\ r[c][i + 1] = <<>>
                         /\ i + 1 <= Len(r[n])

\* The item that begins is what stands in front of the next comma.
LEMMA ItemAhead ==
  ASSUME NEW v \in Seq(Words), NEW r, ItemsOf(r, v), NEW k \in Nat, NEW i \in Nat,
         AtItem(r, v, k, i), NEW y \in Nat, CommaAt(v, k, y)
  PROVE  ItemEnds(r, v, k, i, y)
<1> DEFINE n == Len(v)
           l == y - 1
           e == k + l
           c == k + y
           d == Before(Left(v, k), ",")
           m == n - k
<1>1. n \in Nat /\ k \in 0 .. n /\ i \in Nat \ {0}
  BY LenProperties DEF AtItem
<1>2. y \in 1 .. m + 1 /\ NoComma(v, k, l) /\ (y <= m => IsComma(v[c])) /\ d = SubSeq(v, k + 1, e)
  <2> HIDE DEF n
  <2> QED BY <1>1, CommaFacts DEF n
<1>3. /\ l \in Nat /\ e \in 0 .. n /\ e <= n /\ m \in Nat /\ n \in 0 .. n
      /\ y = m + 1 => e = n
      /\ y <= m => c \in 1 .. n /\ c \in 0 .. n /\ n \in c .. n /\ c - 1 = e
  <2>1. y \in 1 .. m + 1
    BY <1>2
  <2> HIDE DEF n
  <2> QED BY <1>1, <2>1
<1>4. Len(r[e]) = i /\ r[e][i] = d
  <2>1. k + l <= Len(v) /\ NoComma(v, k, l) /\ l \in Nat
    BY <1>2, <1>3
  <2>2. Len(r[k + l]) = i /\ r[k + l][i] = SubSeq(v, k + 1, k + l)
    <3> HIDE DEF l
    <3> QED BY <2>1, ItemRuns
  <2> HIDE DEF d, l
  <2> QED BY <1>2, <2>2
<1>5. r[n] \in ItemLists /\ Len(r[n]) \in Nat
  BY <1>3 DEF ItemsOf, ItemLists
<1>6. CASE y = m + 1
  <2>1. e = n /\ ~(y <= m)
    <3> HIDE DEF m, e, n
    <3> QED BY <1>3, <1>6
  <2>2. Len(r[n]) = i /\ r[n][i] = d /\ i <= Len(r[n])
    <3> HIDE DEF d, e, n
    <3> QED BY <1>1, <1>4, <2>1
  <2> HIDE DEF d, e, m, l, c
  <2> QED BY <1>1, <1>2, <1>5, <2>1, <2>2 DEF ItemEnds, d, m, c, n
<1>7. CASE y # m + 1
  <2>1. y <= m
    <3>1. y \in 1 .. m + 1 /\ m \in Nat
      BY <1>2, <1>3
    <3> HIDE DEF m
    <3> QED BY <1>7, <3>1
  <2>2. c \in 1 .. n /\ c \in 0 .. n /\ n \in c .. n /\ c - 1 = e /\ IsComma(v[c])
    <3> HIDE DEF m, c, e, n
    <3> QED BY <1>2, <1>3, <2>1
  <2>3. Len(r[c]) = i + 1 /\ r[c][i + 1] = <<>> /\ \A j \in 1 .. i : r[c][j] = r[e][j]
    <3>1. Len(r[c - 1]) = i /\ r[c - 1] = r[e]
      <4> HIDE DEF c, e
      <4> QED BY <1>4, <2>2
    <3> HIDE DEF c, e
    <3> QED BY <2>2, <3>1, CommaTurn
  <2>4. Len(r[c]) <= Len(r[n]) /\ \A j \in 1 .. Len(r[c]) - 1 : r[n][j] = r[c][j]
    <3> HIDE DEF c
    <3> QED BY <2>2, ItemsStay
  <2> HIDE DEF c, e, d, n, m
  <2>5. i \in 1 .. i /\ (i + 1) - 1 = i
    BY <1>1
  <2>6. i + 1 <= Len(r[n]) /\ i <= Len(r[n]) /\ r[n][i] = d
    BY <1>1, <1>4, <1>5, <2>3, <2>4, <2>5
  <2>7. y # (n - k) + 1
    BY <1>7 DEF m
  <2> QED BY <1>1, <1>2, <1>5, <2>2, <2>3, <2>6, <2>7 DEF ItemEnds, d, m, c, n
<1> QED BY <1>6, <1>7

\* l spaces stand behind the first c tokens of v.
Spaces(v, c, l) == \A j \in 1 .. l : v[c + j] = Space

\* Spaces behind a comma add nothing.
LEMMA SpacesKeep ==
  ASSUME NEW v \in Seq(Words), NEW r, ItemsOf(r, v), NEW c \in Nat, NEW l \in Nat,
         c + l <= Len(v), Spaces(v, c, l), NEW i \in Nat, i > 1,
         Len(r[c]) = i, r[c][i] = <<>>
  PROVE  r[c + l] = r[c]
<1> DEFINE n == Len(v)
           T == {h \in 0 .. l : r[c + h] = r[c]}
<1>1. n \in Nat /\ c + l <= n
  BY LenProperties
<1>2. 0 \in T
  <2>1. c + 0 = c /\ 0 \in 0 .. l
    OBVIOUS
  <2> QED BY <2>1
<1>3. ASSUME NEW h \in 1 .. l, h - 1 \in T PROVE h \in T
  <2> DEFINE x == c + (h - 1)
             y == c + h
             a == r[x]
             w == v[y]
  <2>1. y \in 1 .. n /\ y - 1 = x /\ x \in 0 .. n /\ h \in 0 .. l
    BY <1>1
  <2>2. a = r[c]
    BY <1>3
  <2>3. w = Space
    BY DEF Spaces
  <2> HIDE DEF n
  <2>4. a \in ItemLists /\ w \in Words /\ r[y] = ItemTurn(a, w)
    <3>1. v[y] \in Words
      BY <2>1, ElementOfSeq DEF n
    <3>2. r[x] \in ItemLists /\ r[y] = ItemTurn(r[y - 1], v[y])
      <4> HIDE DEF x, y
      <4> QED BY <2>1 DEF ItemsOf, n
    <3> HIDE DEF x, y
    <3> QED BY <2>1, <3>1, <3>2
  <2> HIDE DEF y, a, w
  <2>5. w # ","
    BY <2>3, SpaceIsNoComma
  <2>6. Len(a) = i /\ a[i] = <<>>
    BY <2>2
  <2>7. ItemTurn(a, w) = a
    <3>1. w = Space /\ a[Len(a)] = <<>> /\ Len(a) > 1
      BY <2>3, <2>6
    <3> QED BY <2>4, <2>5, <3>1, ItemTurnFacts
  <2>8. r[y] = r[c]
    BY <2>2, <2>4, <2>7
  <2> QED BY <2>1, <2>8 DEF y
<1>4. \A h \in 0 .. l : h \in T
  <2>1. l \in Nat
    OBVIOUS
  <2> HIDE DEF T
  <2> QED BY <1>2, <1>3, <2>1, CountUp, Zenon
<1>5. l \in 0 .. l
  OBVIOUS
<1>6. l \in T
  BY <1>4, <1>5, Zenon
<1> QED BY <1>6

\* Item i is begun behind c tokens, and l spaces follow.
Blank(r, v, c, l, i) ==
    /\ c \in Nat /\ l \in Nat /\ c + l <= Len(v) /\ Spaces(v, c, l)
    /\ i \in Nat /\ i > 1 /\ Len(r[c]) = i /\ r[c][i] = <<>>

\* The same of numbers named in one fact
LEMMA SpacesAddNothing ==
  ASSUME NEW v \in Seq(Words), NEW r, ItemsOf(r, v), NEW c, NEW l, NEW i, Blank(r, v, c, l, i)
  PROVE  r[c + l] = r[c]
<1>1. /\ c \in Nat /\ l \in Nat /\ c + l <= Len(v) /\ Spaces(v, c, l)
      /\ i \in Nat /\ i > 1 /\ Len(r[c]) = i /\ r[c][i] = <<>>
  BY Zenon DEF Blank
<1> QED BY <1>1, SpacesKeep, ZenonT(60)

\* Behind a comma and spaces the next item begins.
LEMMA ItemNext ==
  ASSUME NEW v \in Seq(Words), NEW r, ItemsOf(r, v), NEW k \in Nat, NEW i \in Nat,
         AtItem(r, v, k, i), NEW y \in Nat, CommaAt(v, k, y), y <= Len(v) - k
  PROVE  \E l \in Nat :
            LET q == k + y + l
                L == Left(v, k)
            IN  /\ AtItem(r, v, q, i + 1) /\ Spaces(v, k + y, l)
                /\ SkipSpaces(SubSeq(L, y + 1, Len(L))) = Left(v, q)
<1> DEFINE n == Len(v)
           c == k + y
           L == Left(v, k)
           M == Left(v, c)
           m == n - c
<1>1. /\ n \in Nat /\ k \in 0 .. n /\ y \in 1 .. (n - k) + 1 /\ i \in Nat \ {0}
      /\ c \in 1 .. n /\ Len(r[c]) = i + 1 /\ r[c][i + 1] = <<>>
  <2>1. n \in Nat /\ i \in Nat \ {0} /\ y <= n - k
    BY LenProperties DEF AtItem
  <2>2. /\ k \in 0 .. n /\ y \in 1 .. (n - k) + 1
        /\ r[n] \in ItemLists /\ i <= Len(r[n]) /\ r[n][i] = Before(L, ",")
        /\ y = (n - k) + 1 => Len(r[n]) = i
        /\ y <= n - k => /\ c \in 1 .. n /\ Len(r[c]) = i + 1 /\ r[c][i + 1] = <<>>
                         /\ i + 1 <= Len(r[n])
    <3>1. ItemEnds(r, v, k, i, y)
      BY ItemAhead
    <3> QED BY <3>1, Zenon DEF ItemEnds
  <2> HIDE DEF n, c
  <2> QED BY <2>1, <2>2
<1>2. c \in 0 .. n /\ y \in 0 .. n - k /\ m \in Nat /\ c \in Nat /\ c + m = n /\ i + 1 > 1 /\ i + 1 \in Nat \ {0}
  <2>1. n \in Nat /\ k \in 0 .. n /\ y \in 1 .. (n - k) + 1 /\ i \in Nat \ {0} /\ c \in 1 .. n
    BY <1>1
  <2>2. y <= n - k
    OBVIOUS
  <2> HIDE DEF n
  <2> QED BY <2>1, <2>2
<1>3. SubSeq(L, y + 1, Len(L)) = M
  <2>1. y \in 0 .. Len(v) - k /\ k \in 0 .. Len(v)
    BY <1>1, <1>2
  <2> QED BY <2>1, LeftOfLeft
<1>4. M \in Seq(Words) /\ Len(M) = m /\ \A j \in 1 .. m : M[j] = v[c + j]
  <2>1. c \in 0 .. Len(v)
    BY <1>2
  <2> HIDE DEF c
  <2> QED BY <2>1, LeftFacts
<1> HIDE DEF L, M
<1>5. PICK h \in 1 .. Len(M) + 1 :
         /\ SkipSpaces(M) = SubSeq(M, h, Len(M))
         /\ \A j \in 1 .. h - 1 : M[j] = Space
         /\ h <= Len(M) => M[h] # Space
  BY <1>4, SkipFacts
<1> DEFINE l == h - 1
           q == c + l
<1>6. h \in 1 .. m + 1
  BY <1>4, <1>5
<1> HIDE DEF n, c, m
<1>7. /\ l \in Nat /\ l \in 0 .. m /\ q \in 0 .. n /\ c + l <= n /\ l + 1 = h
      /\ q = n \/ (h <= m /\ h \in 1 .. m /\ c + h = q + 1)
      /\ \A j \in 1 .. l : j \in 1 .. m
  BY <1>1, <1>2, <1>6
<1>8. Spaces(v, c, l)
  <2> HIDE DEF l
  <2> QED BY <1>4, <1>5, <1>7 DEF Spaces, l
<1>9. r[q] = r[c]
  <2>1. c + l <= Len(v) /\ c \in Nat /\ l \in Nat
    BY <1>2, <1>7 DEF n
  <2> DEFINE t == i + 1
  <2>2. t \in Nat /\ t > 1 /\ Len(r[c]) = t /\ r[c][t] = <<>>
    BY <1>1, <1>2
  <2> HIDE DEF l, t
  <2>3. Blank(r, v, c, l, t)
    BY <1>8, <2>1, <2>2, Zenon DEF Blank
  <2>4. r[c + l] = r[c]
    BY <2>3, SpacesAddNothing, ZenonT(60)
  <2> QED BY <2>4
<1>10. q = n \/ v[q + 1] # Space
  <2>1. ASSUME h <= m, h \in 1 .. m, c + h = q + 1 PROVE v[q + 1] # Space
    <3>1. h <= Len(M) /\ M[h] = v[c + h]
      BY <1>4, <2>1
    <3> HIDE DEF q
    <3> QED BY <1>5, <2>1, <3>1
  <2> HIDE DEF q
  <2> QED BY <1>7, <2>1
<1>11. SkipSpaces(M) = Left(v, q)
  <2>1. l \in 0 .. Len(v) - c /\ c \in 0 .. Len(v)
    BY <1>2, <1>7 DEF n, m
  <2>2. SubSeq(Left(v, c), l + 1, Len(Left(v, c))) = Left(v, c + l)
    <3> HIDE DEF l
    <3> QED BY <2>1, LeftOfLeft
  <2> HIDE DEF l
  <2> QED BY <1>5, <1>7, <2>2 DEF M
<1>12. AtItem(r, v, q, i + 1)
  <2>1. q \in 0 .. Len(v) /\ Len(r[q]) = i + 1 /\ r[q][i + 1] = <<>> /\ (q = Len(v) \/ v[q + 1] # Space)
    <3> HIDE DEF q
    <3> QED BY <1>1, <1>7, <1>9, <1>10 DEF n
  <2> HIDE DEF q
  <2> QED BY <1>2, <2>1 DEF AtItem
<1> HIDE DEF l
<1> QED BY <1>3, <1>7, <1>8, <1>11, <1>12 DEF q, c, L

\* What stands in front of the first b of a text, whose first a is its x-th token
CutIs(s, a, b, x, y) ==
    LET d == Before(s, b)
    IN  /\ Len(d) = y - 1 /\ \A j \in 1 .. y - 1 : d[j] = s[j]
        /\ d = SubSeq(s, 1, y - 1)
        /\ x < y => Before(d, a) = Before(s, a)
        /\ x >= y => Before(d, a) = d /\ \A j \in 1 .. y - 1 : d[j] # a

\* The first a's and b's of a text, and of what stands in front of its first b
LEMMA SplitTwice ==
  ASSUME NEW E, NEW s \in Seq(E), NEW a, NEW b, NEW x \in Nat, NEW y \in Nat,
         Splits(s, a, x), Splits(s, b, y)
  PROVE  Before(s, b) \in Seq(E) /\ CutIs(s, a, b, x, y)
<1> DEFINE d == Before(s, b)
           n == Len(s)
           l == y - 1
           z == IF x < y THEN x ELSE y
<1>1. n \in Nat
  BY LenProperties
<1>2. d = SubSeq(s, 1, l) /\ Before(s, a) = SubSeq(s, 1, x - 1)
  BY SplitAtFacts
<1>3. /\ x \in 1 .. n + 1 /\ (\A j \in 1 .. x - 1 : s[j] # a) /\ (x <= n => s[x] = a)
      /\ y \in 1 .. n + 1
  BY DEF Splits
<1> HIDE DEF n, d
<1>4. l \in Nat /\ l <= n /\ z \in Nat /\ z \in 1 .. l + 1 /\ z <= x
      /\ (z <= l => z = x /\ x <= n) /\ z - 1 \in Nat /\ z - 1 <= l - 0
  BY <1>1, <1>3
<1>5. d \in Seq(E) /\ Len(d) = l /\ \A j \in 1 .. l : d[j] = s[j]
  <2>1. 0 \in Nat /\ 0 <= l /\ l <= Len(s) /\ l \in Nat /\ 0 + 1 = 1 /\ l - 0 = l /\ \A j \in 1 .. l : 0 + j = j
    BY <1>4 DEF n
  <2>2. LET u == SubSeq(s, 0 + 1, l)
        IN  u \in Seq(E) /\ Len(u) = l - 0 /\ \A i \in 1 .. l - 0 : u[i] = s[0 + i]
    <3> HIDE DEF l
    <3> QED BY <2>1, PartFacts
  <2> HIDE DEF l
  <2> QED BY <1>2, <2>1, <2>2
<1>6. (\A j \in 1 .. z - 1 : d[j] # a) /\ (z <= l => d[z] = a)
  <2>1. \A j \in 1 .. z - 1 : j \in 1 .. l /\ j \in 1 .. x - 1
    BY <1>3, <1>4
  <2>2. z <= l => z \in 1 .. l
    BY <1>4
  <2> HIDE DEF z, l
  <2> QED BY <1>3, <1>4, <1>5, <2>1, <2>2
<1>7. Splits(d, a, z)
  <2>1. z \in 1 .. Len(d) + 1 /\ (z <= Len(d) => z <= l)
    <3> HIDE DEF z, l
    <3> QED BY <1>4, <1>5
  <2> HIDE DEF z, l
  <2> QED BY <1>6, <2>1 DEF Splits
<1>8. Before(d, a) = SubSeq(d, 1, z - 1)
  <2>1. z \in Nat
    BY <1>4
  <2> HIDE DEF z
  <2> QED BY <1>5, <1>7, <2>1, SplitAtFacts
<1>9. SubSeq(d, 1, z - 1) = SubSeq(s, 1, z - 1)
  <2> DEFINE p == z - 1
  <2>1. 0 \in Nat /\ 0 <= l /\ l <= Len(s) /\ l \in Nat /\ p \in Nat /\ 0 <= p /\ p <= l - 0
        /\ 0 + 1 = 1 /\ 0 + 0 + 1 = 1 /\ 0 + p = p
    BY <1>4 DEF n
  <2> HIDE DEF p, l
  <2>2. SubSeq(SubSeq(s, 0 + 1, l), 0 + 1, p) = SubSeq(s, 0 + 0 + 1, 0 + p)
    BY <2>1, PartOfPart
  <2>3. SubSeq(d, 1, p) = SubSeq(s, 1, p)
    BY <1>2, <2>1, <2>2
  <2> QED BY <2>3 DEF p
<1>10. x < y => Before(d, a) = Before(s, a)
  <2>1. x < y => z = x
    OBVIOUS
  <2> HIDE DEF z
  <2> QED BY <1>2, <1>8, <1>9, <2>1
<1>11. ASSUME x >= y PROVE Before(d, a) = d /\ \A j \in 1 .. l : d[j] # a
  <2>1. z - 1 = l
    BY <1>11
  <2> HIDE DEF z, l
  <2> QED BY <1>2, <1>6, <1>8, <1>9, <2>1
<1> QED BY <1>2, <1>5, <1>10, <1>11 DEF d, CutIs

\* What is left of a text from its k-th place on
LEMMA RestFacts ==
  ASSUME NEW E, NEW s \in Seq(E), NEW k \in 1 .. Len(s) + 1
  PROVE  LET rest == SubSeq(s, k, Len(s))
         IN  /\ rest \in Seq(E) /\ Len(rest) = (Len(s) + 1) - k
             /\ \A j \in 1 .. (Len(s) + 1) - k : rest[j] = s[(k - 1) + j]
             /\ rest = <<>> <=> k = Len(s) + 1
             /\ k <= Len(s) => rest[1] = s[k] /\ Tail(rest) = SubSeq(s, k + 1, Len(s))
<1> DEFINE n == Len(s)
           a == k - 1
           m == n - a
           u == SubSeq(s, k, n)
<1>1. n \in Nat /\ k \in 1 .. n + 1
  BY LenProperties
<1> HIDE DEF n
<1>2. a \in Nat /\ a <= n /\ m \in Nat /\ a + 1 = k /\ m = (n + 1) - k /\ (k = n + 1 <=> m = 0)
      /\ k \in Nat
  BY <1>1
<1> HIDE DEF a, m
<1>3. u \in Seq(E) /\ Len(u) = m /\ \A j \in 1 .. m : u[j] = s[a + j]
  <2>1. LET w == SubSeq(s, a + 1, n)
        IN  w \in Seq(E) /\ Len(w) = n - a /\ \A i \in 1 .. n - a : w[i] = s[a + i]
    BY <1>1, <1>2, PartFacts DEF n
  <2> QED BY <1>2, <2>1 DEF m
<1>4. u = <<>> <=> m = 0
  <2>1. u = <<>> => Len(u) = 0
    BY EmptySeq
  <2>2. Len(u) = 0 => u = <<>>
    BY <1>3, EmptySeq
  <2> HIDE DEF u
  <2> QED BY <1>3, <2>1, <2>2
<1>5. ASSUME k <= n PROVE u[1] = s[k] /\ Tail(u) = SubSeq(s, k + 1, n)
  <2>1. u[1] = s[k]
    <3>1. 1 \in 1 .. m
      BY <1>2, <1>5, <1>1
    <3> HIDE DEF u
    <3> QED BY <1>2, <1>3, <3>1
  <2>2. Tail(u) = SubSeq(u, 2, Len(u))
    BY <1>3
  <2>3. SubSeq(SubSeq(s, a + 1, n), 1 + 1, m) = SubSeq(s, a + 1 + 1, a + m)
    <3>1. 1 \in Nat /\ 1 <= m /\ m <= n - a /\ n <= Len(s) /\ n \in Nat
      BY <1>1, <1>2, <1>5 DEF n, m
    <3> QED BY <1>2, <3>1, PartOfPart
  <2>4. a + m = n /\ a + 1 + 1 = k + 1 /\ 1 + 1 = 2
    BY <1>1, <1>2 DEF m
  <2>5. SubSeq(u, 2, m) = SubSeq(s, k + 1, n)
    BY <1>2, <2>3, <2>4
  <2> HIDE DEF u
  <2> QED BY <1>3, <2>1, <2>2, <2>5
<1> HIDE DEF u
<1>6. k = n + 1 <=> u = <<>>
  BY <1>2, <1>4
<1>7. Len(u) = (n + 1) - k /\ \A j \in 1 .. (n + 1) - k : u[j] = s[(k - 1) + j]
  BY <1>2, <1>3 DEF a
<1> QED BY <1>3, <1>5, <1>6, <1>7 DEF u, n

\* A part of a text is not longer than the text.
LEMMA PartOfWords ==
  ASSUME NEW s \in Seq(Words), HasWidths(s), NEW i \in 0 .. Len(s), NEW j \in 0 .. Len(s),
         i <= j, NEW room \in Nat, Fits(s, room)
  PROVE  Fits(SubSeq(s, i + 1, j), room)
BY PartFits DEF Words

-----------------------------------------------------------------------------
(* One pass of the loop over a Cache-Control value                         *)

\* The two separators of a Cache-Control value
Comma == ","
Equals == "="

\* The separators differ from each other and from a space.
LEMMA SeparatorsDiffer == Comma # Equals /\ Space # Comma /\ Space # Equals
BY Zenon DEF Comma, Equals, Space

\* A table of directives, and those of them that take a value
Tables(table, takes) ==
    /\ takes \subseteq table
    /\ Comma \notin table /\ Equals \notin table /\ Space \notin table

\* Texts of one directive, with no value; a name that fits; a directive whose name does
Alone(table) == {<<w>> : w \in table}
Short(d, max) == Fits(Before(d, Equals), max)
Good(d, table, takes, max) == Short(d, max) /\ IsDirective(d, table, takes)

\* A directive is a name alone, or a name, "=" and a number.
LEMMA DirectiveIs ==
  ASSUME NEW d, NEW table, NEW takes
  PROVE  IsDirective(d, table, takes)
            <=> \/ d \in Alone(table)
                \/ Len(d) = 3 /\ d[1] \in takes /\ d[2] = Equals /\ d[3] \in Numbers
BY Zenon DEF IsDirective, Alone, Equals

\* A text in the table is a single token, and no separator.
LEMMA AloneFacts ==
  ASSUME NEW table, NEW takes, Tables(table, takes), NEW d \in Seq(Words)
  PROVE  d \in Alone(table) <=> Len(d) = 1 /\ d[1] \in table
<1>1. ASSUME d \in Alone(table) PROVE Len(d) = 1 /\ d[1] \in table
  <2>1. PICK w \in table : d = <<w>>
    BY <1>1 DEF Alone
  <2> QED BY <2>1
<1>2. ASSUME Len(d) = 1, d[1] \in table PROVE d \in Alone(table)
  <2> DEFINE w == d[1]
             u == <<w>>
  <2>1. w \in Words
    <3>1. 1 \in 1 .. Len(d)
      BY <1>2
    <3> QED BY <3>1, ElementOfSeq
  <2> HIDE DEF w
  <2>2. u \in Seq(Words) /\ Len(u) = 1 /\ u[1] = w
    BY <2>1, ShortTexts
  <2> HIDE DEF u
  <2>3. Len(u) = Len(d) /\ \A j \in 1 .. Len(d) : u[j] = d[j]
    <3>1. \A j \in 1 .. 1 : j = 1
      OBVIOUS
    <3> QED BY <1>2, <2>2, <3>1 DEF w
  <2>4. u = d
    BY <2>2, <2>3, SeqEqual
  <2> QED BY <1>2, <2>4 DEF u, w, Alone
<1> QED BY <1>1, <1>2

\* Without "=", a directive stands in the table.
LEMMA DirectiveWithout ==
  ASSUME NEW table, NEW takes, Tables(table, takes), NEW d \in Seq(Words),
         \A j \in 1 .. Len(d) : d[j] # Equals
  PROVE  IsDirective(d, table, takes) <=> d \in Alone(table)
<1>1. ASSUME Len(d) = 3, d[2] = Equals PROVE FALSE
  <2>1. 2 \in 1 .. Len(d)
    BY <1>1
  <2> QED BY <1>1, <2>1
<1> QED BY <1>1, DirectiveIs

\* With "=" at its x-th place, it is a word of the table, "=" and a number.
LEMMA DirectiveWith ==
  ASSUME NEW table, NEW takes, Tables(table, takes), NEW d \in Seq(Words),
         NEW x \in 1 .. Len(d), d[x] = Equals, \A j \in 1 .. x - 1 : d[j] # Equals
  PROVE  IsDirective(d, table, takes)
            <=> Len(d) = 3 /\ x = 2 /\ d[1] \in takes /\ d[3] \in Numbers
<1>1. Len(d) \in Nat
  BY LenProperties
<1>2. ASSUME d \in Alone(table) PROVE FALSE
  <2>1. Len(d) = 1 /\ d[1] \in table
    BY <1>2, AloneFacts
  <2>2. x = 1
    BY <2>1
  <2> QED BY <2>1, <2>2 DEF Tables
<1>3. ASSUME Len(d) = 3, d[1] \in takes, d[2] = Equals PROVE x = 2
  <2>1. d[1] # Equals
    BY <1>3 DEF Tables
  <2>2. x # 1
    BY <2>1
  <2>3. CASE x > 2
    <3>1. 2 \in 1 .. x - 1
      BY <2>3
    <3> QED BY <1>3, <3>1
  <2> QED BY <1>1, <2>2, <2>3
<1> QED BY <1>2, <1>3, DirectiveIs

\* What is behind the name of a directive; its seconds; what is behind them
RestOf(s, max) == SubSeq(s, Len(FirstName(s, max)) + 1, Len(s))
SecondsOf(rest) == Before(Tail(rest), Comma)
BehindOf(rest) == SubSeq(rest, Len(SecondsOf(rest)) + 2, Len(rest))
LacksSeconds(name, sec, takes, limit) ==
    name[1] \notin takes \/ ~IsInt(sec) \/ NumberOf[sec[1]] > limit
HasSeconds(name, sec, takes, limit) == ~LacksSeconds(name, sec, takes, limit)

\* One pass of the loop over a Cache-Control value
Pass(st, table, takes, max, limit) ==
    LET name == FirstName(st.left, max)
        rest == RestOf(st.left, max)
        sec == SecondsOf(rest)
        behind == BehindOf(rest)
    IN  IF st.verdict # "open" THEN st
        ELSE IF ~HasName(st.left, max) THEN [st EXCEPT !.verdict = "accepted"]
        ELSE IF name \notin Alone(table) THEN [st EXCEPT !.verdict = "refused"]
        ELSE IF rest = <<>> THEN [st EXCEPT !.verdict = "accepted"]
        ELSE IF rest[1] = Comma THEN [st EXCEPT !.left = NextDirective(rest)]
        ELSE IF LacksSeconds(name, sec, takes, limit) THEN [st EXCEPT !.verdict = "refused"]
        ELSE IF behind = <<>> THEN [st EXCEPT !.verdict = "accepted"]
        ELSE [st EXCEPT !.left = NextDirective(behind)]

\* The loop goes on, or the function has returned; what is left of the value
Verdicts == {"open", "accepted", "refused"}
PassStates == [left : Seq(Words), verdict : Verdicts]

\* A state with another verdict, and one with another text left
Judged(st, w) == [st EXCEPT !.verdict = w]
Advanced(st, t) == [st EXCEPT !.left = t]

\* A state of the loop with another verdict or with another text left
LEMMA StateFacts ==
  ASSUME NEW st \in PassStates
  PROVE  /\ st.left \in Seq(Words)
         /\ \A w \in Verdicts : /\ Judged(st, w) \in PassStates
                                /\ Judged(st, w).left = st.left /\ Judged(st, w).verdict = w
         /\ \A t \in Seq(Words) : /\ Advanced(st, t) \in PassStates
                                   /\ Advanced(st, t).left = t
                                   /\ Advanced(st, t).verdict = st.verdict
<1> DEFINE S == Seq(Words)
           V == Verdicts
<1>1. st \in [left : S, verdict : V]
  BY DEF PassStates
<1> HIDE DEF S, V
<1>2. ASSUME NEW w \in V
      PROVE  Judged(st, w) \in [left : S, verdict : V] /\ Judged(st, w).left = st.left
             /\ Judged(st, w).verdict = w
  BY <1>1 DEF Judged
<1>3. ASSUME NEW t \in S
      PROVE  Advanced(st, t) \in [left : S, verdict : V] /\ Advanced(st, t).left = t
             /\ Advanced(st, t).verdict = st.verdict
  BY <1>1 DEF Advanced
<1>4. st.left \in S
  BY <1>1
<1> QED BY <1>2, <1>3, <1>4, Zenon DEF PassStates, S, V

\* The verdicts
IsOpen(st) == st.verdict = "open"
IsAccepted(st) == st.verdict = "accepted"
IsRefused(st) == st.verdict = "refused"

\* The three verdicts exclude each other.
LEMMA VerdictFacts ==
  ASSUME NEW st \in PassStates
  PROVE  /\ IsOpen(st) \/ IsAccepted(st) \/ IsRefused(st)
         /\ IsOpen(st) => ~IsAccepted(st) /\ ~IsRefused(st)
         /\ IsAccepted(st) => ~IsRefused(st)
         /\ Judged(st, "accepted") \in PassStates /\ IsAccepted(Judged(st, "accepted"))
         /\ Judged(st, "refused") \in PassStates /\ IsRefused(Judged(st, "refused"))
         /\ \A t \in Seq(Words) :
               Advanced(st, t) \in PassStates /\ Advanced(st, t).left = t
               /\ (IsOpen(st) => IsOpen(Advanced(st, t)))
<1>1. "accepted" \in Verdicts /\ "refused" \in Verdicts
  BY DEF Verdicts
<1>2. /\ Judged(st, "accepted") \in PassStates /\ Judged(st, "accepted").verdict = "accepted"
      /\ Judged(st, "refused") \in PassStates /\ Judged(st, "refused").verdict = "refused"
      /\ \A t \in Seq(Words) : /\ Advanced(st, t) \in PassStates /\ Advanced(st, t).left = t
                                /\ Advanced(st, t).verdict = st.verdict
  BY <1>1, StateFacts, Zenon
<1>3. st.verdict \in Verdicts
  BY DEF PassStates
<1>4. /\ IsOpen(st) \/ IsAccepted(st) \/ IsRefused(st)
      /\ IsOpen(st) => ~IsAccepted(st) /\ ~IsRefused(st)
      /\ IsAccepted(st) => ~IsRefused(st)
  BY <1>3 DEF Verdicts, IsOpen, IsAccepted, IsRefused
<1> QED BY <1>2, <1>4, Zenon DEF IsOpen, IsAccepted, IsRefused

\* Once the loop has returned, nothing changes.
LEMMA PassStays ==
  ASSUME NEW st \in PassStates, ~IsOpen(st), NEW table, NEW takes, NEW max, NEW limit
  PROVE  Pass(st, table, takes, max, limit) = st
BY Zenon DEF Pass, IsOpen

\* The ways one pass can go
LEMMA PassGoes ==
  ASSUME NEW st, IsOpen(st), NEW table, NEW takes, NEW max, NEW limit
  PROVE  LET next == Pass(st, table, takes, max, limit)
             name == FirstName(st.left, max)
             rest == RestOf(st.left, max)
             behind == BehindOf(rest)
             has == HasSeconds(name, SecondsOf(rest), takes, limit)
         IN  \/ ~HasName(st.left, max) /\ next = Judged(st, "accepted")
             \/ HasName(st.left, max) /\ name \notin Alone(table) /\ next = Judged(st, "refused")
             \/ HasName(st.left, max) /\ name \in Alone(table)
                /\ \/ rest = <<>> /\ next = Judged(st, "accepted")
                   \/ rest # <<>> /\ rest[1] = Comma /\ next = Advanced(st, NextDirective(rest))
                   \/ rest # <<>> /\ rest[1] # Comma /\ ~has /\ next = Judged(st, "refused")
                   \/ rest # <<>> /\ rest[1] # Comma /\ has
                      /\ \/ behind = <<>> /\ next = Judged(st, "accepted")
                         \/ behind # <<>> /\ next = Advanced(st, NextDirective(behind))
BY Zenon DEF Pass, IsOpen, Judged, Advanced, HasSeconds

\* The first "=" and the first "," of a text
CutAt(s, x, y) == Splits(s, Equals, x) /\ Splits(s, Comma, y)

\* What stands in front of the first "=" and in front of the first ","
LEMMA CutFacts ==
  ASSUME NEW s \in Seq(Words), NEW x \in Nat, NEW y \in Nat, CutAt(s, x, y)
  PROVE  LET n == Len(s)
             d == Before(s, Comma)
             e == Before(s, Equals)
         IN  /\ x \in 1 .. n + 1 /\ y \in 1 .. n + 1
             /\ (x <= n => s[x] = Equals) /\ (y <= n => s[y] = Comma)
             /\ (\A j \in 1 .. x - 1 : s[j] # Equals) /\ \A j \in 1 .. y - 1 : s[j] # Comma
             /\ d \in Seq(Words) /\ Len(d) = y - 1 /\ \A j \in 1 .. y - 1 : d[j] = s[j]
             /\ e \in Seq(Words) /\ Len(e) = x - 1 /\ \A j \in 1 .. x - 1 : e[j] = s[j]
             /\ d = SubSeq(s, 1, y - 1) /\ e = SubSeq(s, 1, x - 1)
             /\ x < y => Before(d, Equals) = e
             /\ x >= y => Before(d, Equals) = d /\ \A j \in 1 .. y - 1 : d[j] # Equals
             /\ Contains(s, Equals) <=> x <= n
<1> DEFINE n == Len(s)
           d == Before(s, Comma)
           e == Before(s, Equals)
<1>1. Splits(s, Equals, x) /\ Splits(s, Comma, y)
  BY DEF CutAt
<1>2. /\ x \in 1 .. n + 1 /\ y \in 1 .. n + 1
      /\ (x <= n => s[x] = Equals) /\ (y <= n => s[y] = Comma)
      /\ (\A j \in 1 .. x - 1 : s[j] # Equals) /\ \A j \in 1 .. y - 1 : s[j] # Comma
  BY <1>1 DEF Splits
<1>3. /\ d \in Seq(Words) /\ Len(d) = y - 1 /\ \A j \in 1 .. y - 1 : d[j] = s[j]
      /\ d = SubSeq(s, 1, y - 1)
      /\ x < y => Before(d, Equals) = e
      /\ x >= y => Before(d, Equals) = d /\ \A j \in 1 .. y - 1 : d[j] # Equals
  <2>1. d \in Seq(Words) /\ CutIs(s, Equals, Comma, x, y)
    BY <1>1, SplitTwice
  <2> QED BY <2>1 DEF CutIs
<1>4. /\ e \in Seq(Words) /\ Len(e) = x - 1 /\ \A j \in 1 .. x - 1 : e[j] = s[j]
      /\ e = SubSeq(s, 1, x - 1)
  <2>1. e \in Seq(Words) /\ CutIs(s, Equals, Equals, x, x)
    BY <1>1, SplitTwice
  <2> QED BY <2>1 DEF CutIs
<1>5. Contains(s, Equals) <=> x <= n
  <2>1. x = n + 1 <=> ~Contains(s, Equals)
    BY <1>1, SplitAtFacts
  <2>2. n \in Nat
    BY LenProperties
  <2> HIDE DEF n
  <2> QED BY <1>2, <2>1, <2>2
<1> HIDE DEF n, d, e
<1> QED BY <1>2, <1>3, <1>4, <1>5 DEF n, d, e

\* The name is what stands in front of "=" if that fits its buffer, and what stands
\* in front of "," otherwise.
LEMMA NameIs ==
  ASSUME NEW s, NEW max
  PROVE  /\ NameAtEquals(s, max) <=> Contains(s, Equals) /\ Fits(Before(s, Equals), max)
         /\ HasName(s, max) <=> NameAtEquals(s, max) \/ Fits(Before(s, Comma), max)
         /\ FirstName(s, max) = IF NameAtEquals(s, max) THEN Before(s, Equals) ELSE Before(s, Comma)
BY Zenon DEF NameAtEquals, HasName, FirstName, Comma, Equals

\* When no name fits, the next directive has none that fits.
LEMMA TooLong ==
  ASSUME NEW s \in Seq(Words), NEW x \in Nat, NEW y \in Nat, CutAt(s, x, y), NEW max,
         ~HasName(s, max)
  PROVE  ~Short(Before(s, Comma), max)
<1> DEFINE n == Len(s)
           d == Before(s, Comma)
           e == Before(s, Equals)
<1>1. /\ x \in 1 .. n + 1 /\ y \in 1 .. n + 1
      /\ x < y => Before(d, Equals) = e
      /\ x >= y => Before(d, Equals) = d
      /\ Contains(s, Equals) <=> x <= n
  BY CutFacts
<1>2. ~Fits(d, max) /\ ~(x <= n /\ Fits(e, max)) /\ n \in Nat
  BY <1>1, NameIs, LenProperties
<1> HIDE DEF n, d, e
<1>3. CASE x < y
  <2>1. x <= n
    BY <1>1, <1>2, <1>3
  <2> QED BY <1>1, <1>2, <1>3, <2>1 DEF Short, d
<1>4. CASE ~(x < y)
  BY <1>1, <1>2, <1>4 DEF Short, d
<1> QED BY <1>3, <1>4

\* When the name is not in the table, the next directive is none, or its end was
\* taken for that of a later one.
LEMMA UnknownName ==
  ASSUME NEW s \in Seq(Words), HasWidths(s), NEW x \in Nat, NEW y \in Nat, CutAt(s, x, y),
         NEW table, NEW takes, Tables(table, takes), NEW max \in Nat,
         HasName(s, max), FirstName(s, max) \notin Alone(table)
  PROVE  LET d == Before(s, Comma)
         IN  \/ Short(d, max) /\ ~IsDirective(d, table, takes)
             \/ y < x /\ x <= Len(s) /\ Fits(Before(s, Equals), max)
<1> DEFINE n == Len(s)
           d == Before(s, Comma)
           e == Before(s, Equals)
<1>1. /\ x \in 1 .. n + 1 /\ y \in 1 .. n + 1
      /\ (x <= n => s[x] = Equals) /\ (y <= n => s[y] = Comma)
      /\ (\A j \in 1 .. x - 1 : s[j] # Equals)
      /\ d \in Seq(Words) /\ Len(d) = y - 1 /\ \A j \in 1 .. y - 1 : d[j] = s[j]
      /\ e \in Seq(Words) /\ Len(e) = x - 1 /\ \A j \in 1 .. x - 1 : e[j] = s[j]
      /\ d = SubSeq(s, 1, y - 1) /\ e = SubSeq(s, 1, x - 1)
      /\ x < y => Before(d, Equals) = e
      /\ x >= y => Before(d, Equals) = d /\ \A j \in 1 .. y - 1 : d[j] # Equals
      /\ Contains(s, Equals) <=> x <= n
  BY CutFacts
<1>2. n \in Nat
  BY LenProperties
<1> HIDE DEF n, d, e
<1>3. CASE NameAtEquals(s, max)
  <2>1. x <= n /\ Fits(e, max) /\ e \notin Alone(table)
    BY <1>1, <1>3, NameIs, Zenon DEF e
  <2>2. CASE x < y
    <3>1. Short(d, max)
      BY <1>1, <2>1, <2>2 DEF Short
    <3>2. x \in 1 .. Len(d) /\ d[x] = Equals /\ \A j \in 1 .. x - 1 : d[j] # Equals
      <4>1. x \in 1 .. y - 1 /\ \A j \in 1 .. x - 1 : j \in 1 .. y - 1
        BY <1>1, <2>2
      <4> QED BY <1>1, <2>1, <4>1
    <3>3. ASSUME IsDirective(d, table, takes) PROVE FALSE
      <4>1. x = 2 /\ d[1] \in takes
        <5>1. d \in Seq(Words)
          BY <1>1
        <5> QED BY <3>2, <3>3, <5>1, DirectiveWith
      <4>2. Len(e) = 1 /\ e[1] = d[1] /\ e[1] \in table
        <5>1. 1 \in 1 .. x - 1 /\ 1 \in 1 .. y - 1 /\ x - 1 = 1
          BY <2>2, <4>1
        <5> QED BY <1>1, <4>1, <5>1 DEF Tables
      <4> QED BY <1>1, <2>1, <4>2, AloneFacts
    <3> QED BY <3>1, <3>3 DEF d
  <2>3. CASE ~(x < y)
    <3>1. x # y
      <4>1. ASSUME x = y PROVE FALSE
        <5>1. s[x] = Equals /\ s[x] = Comma
          BY <1>1, <2>1, <4>1
        <5> QED BY <5>1, SeparatorsDiffer
      <4> QED BY <4>1
    <3>2. y < x
      BY <2>3, <3>1
    <3> QED BY <2>1, <3>2 DEF e, n
  <2> QED BY <2>2, <2>3
<1>4. CASE ~NameAtEquals(s, max)
  <2>1. Fits(d, max) /\ d \notin Alone(table) /\ ~(x <= n /\ Fits(e, max))
    BY <1>1, <1>4, NameIs, Zenon DEF d, e
  <2>2. ~(x < y)
    <3>1. ASSUME x < y PROVE FALSE
      <4> DEFINE p == x - 1
                 l == y - 1
      <4>1. p \in 0 .. l /\ l \in 0 .. l /\ 0 \in 0 .. l /\ 0 <= p /\ x <= n /\ 0 + 1 = 1
            /\ l \in Nat /\ p \in 0 .. n /\ 0 \in 0 .. n /\ l \in 0 .. n
        BY <1>1, <1>2, <3>1
      <4>2. HasWidths(d) /\ Len(d) = l
        <5>1. Len(d) = l /\ d \in Seq(Words) /\ (\A j \in 1 .. l : d[j] = s[j])
          BY <1>1
        <5>2. \A j \in 1 .. l : j \in 1 .. n
          BY <1>2, <4>1
        <5>3. DOMAIN d = 1 .. l /\ DOMAIN s = 1 .. n
          BY <5>1, LenProperties DEF n
        <5> HIDE DEF l
        <5> QED BY <5>1, <5>2, <5>3 DEF HasWidths
      <4>3. Fits(SubSeq(d, 0 + 1, p), max)
        <5>1. p \in 0 .. Len(d) /\ 0 \in 0 .. Len(d) /\ 0 <= p /\ d \in Seq(Words)
          BY <1>1, <4>1, <4>2
        <5> HIDE DEF p, l
        <5> QED BY <2>1, <4>2, <5>1, PartOfWords
      <4>4. SubSeq(d, 1, p) = e
        <5>1. 0 \in Nat /\ 0 <= l /\ l <= Len(s) /\ l \in Nat /\ p \in Nat /\ 0 <= p /\ p <= l - 0
              /\ 0 + 1 = 1 /\ 0 + 0 + 1 = 1 /\ 0 + p = p
          BY <4>1 DEF n
        <5>2. d = SubSeq(s, 1, l) /\ e = SubSeq(s, 1, p)
          BY <1>1
        <5> HIDE DEF p, l
        <5>3. SubSeq(SubSeq(s, 0 + 1, l), 0 + 1, p) = SubSeq(s, 0 + 0 + 1, 0 + p)
          BY <5>1, PartOfPart
        <5> QED BY <5>1, <5>2, <5>3
      <4>5. Fits(e, max)
        <5> HIDE DEF p
        <5> QED BY <4>1, <4>3, <4>4
      <4> QED BY <2>1, <4>1, <4>5
    <3> QED BY <3>1
  <2>3. Before(d, Equals) = d /\ \A j \in 1 .. Len(d) : d[j] # Equals
    BY <1>1, <2>2
  <2>4. ~IsDirective(d, table, takes)
    BY <1>1, <2>1, <2>3, DirectiveWithout
  <2> QED BY <2>1, <2>3, <2>4 DEF Short, d
<1> QED BY <1>3, <1>4

\* The text behind a name and "="
LEMMA SecondsFacts ==
  ASSUME NEW s \in Seq(Words), NEW y \in Nat, y >= 3, Splits(s, Comma, y), NEW rest,
         rest = SubSeq(s, 2, Len(s))
  PROVE  LET n == Len(s)
             sec == SecondsOf(rest)
             behind == BehindOf(rest)
         IN  /\ Len(sec) = y - 3 /\ \A j \in 1 .. y - 3 : sec[j] = s[2 + j]
             /\ behind = <<>> <=> y = n + 1
             /\ y <= n => Tail(behind) = SubSeq(s, y + 1, n)
<1> DEFINE n == Len(s)
           t == SubSeq(s, 3, n)
           z == y - 2
           m == n - 2
           sec == SecondsOf(rest)
           behind == BehindOf(rest)
<1>1. n \in Nat /\ y \in 1 .. n + 1 /\ (\A j \in 1 .. y - 1 : s[j] # Comma) /\ (y <= n => s[y] = Comma)
  BY LenProperties DEF Splits
<1>2. /\ 2 \in 1 .. n + 1 /\ 3 \in 1 .. n + 1 /\ 2 <= n /\ z \in Nat /\ m \in Nat /\ z \in 1 .. m + 1
      /\ (n + 1) - 3 = m /\ (n + 1) - 2 = m + 1 /\ 3 - 1 = 2 /\ 2 + 1 = 3 /\ 2 + z = y /\ z - 1 = y - 3
      /\ z <= m <=> y <= n
  BY <1>1
<1>3. Len(rest) = m + 1 /\ Tail(rest) = t
  <2>1. LET u == SubSeq(s, 2, Len(s))
        IN  Len(u) = (Len(s) + 1) - 2 /\ (2 <= Len(s) => Tail(u) = SubSeq(s, 2 + 1, Len(s)))
    BY <1>2, RestFacts
  <2> QED BY <1>2, <2>1
<1>4. t \in Seq(Words) /\ Len(t) = m /\ \A j \in 1 .. m : t[j] = s[2 + j]
  <2>1. LET u == SubSeq(s, 3, Len(s))
        IN  /\ u \in Seq(Words) /\ Len(u) = (Len(s) + 1) - 3
            /\ \A j \in 1 .. (Len(s) + 1) - 3 : u[j] = s[(3 - 1) + j]
    BY <1>2, RestFacts
  <2> QED BY <1>2, <2>1
<1> HIDE DEF t, n
<1>5. Splits(t, Comma, z)
  <2>1. \A j \in 1 .. z - 1 : t[j] # Comma
    <3>1. \A j \in 1 .. z - 1 : j \in 1 .. m /\ 2 + j \in 1 .. y - 1
      BY <1>1, <1>2
    <3> HIDE DEF m, z
    <3> QED BY <1>1, <1>4, <3>1
  <2>2. z <= Len(t) => t[z] = Comma
    <3>1. z <= m => z \in 1 .. m
      BY <1>2
    <3> HIDE DEF m, z
    <3> QED BY <1>1, <1>2, <1>4, <3>1
  <2>3. z \in 1 .. Len(t) + 1
    BY <1>2, <1>4
  <2> HIDE DEF z
  <2> QED BY <2>1, <2>2, <2>3 DEF Splits
<1>6. Len(sec) = y - 3 /\ \A j \in 1 .. y - 3 : sec[j] = s[2 + j]
  <2>1. CutIs(t, Comma, Comma, z, z)
    <3>1. z \in Nat
      BY <1>2
    <3> HIDE DEF z
    <3> QED BY <1>4, <1>5, <3>1, SplitTwice
  <2>2. sec = Before(t, Comma)
    BY <1>3 DEF SecondsOf
  <2> HIDE DEF sec
  <2>3. Len(sec) = z - 1 /\ \A j \in 1 .. z - 1 : sec[j] = t[j]
    <3> HIDE DEF z
    <3> QED BY <2>1, <2>2 DEF CutIs
  <2>4. \A j \in 1 .. z - 1 : j \in 1 .. m
    BY <1>1, <1>2
  <2> HIDE DEF z, m
  <2> QED BY <1>2, <1>4, <2>3, <2>4
<1>7. behind = SubSeq(s, y, n)
  <2>1. behind = SubSeq(rest, z + 1, m + 1)
    <3>1. (y - 3) + 2 = z + 1
      BY <1>2
    <3>2. behind = SubSeq(rest, Len(sec) + 2, Len(rest))
      BY Zenon DEF BehindOf
    <3> HIDE DEF z, m, behind, sec
    <3> QED BY <1>3, <1>6, <3>1, <3>2
  <2>2. /\ 1 \in Nat /\ n \in Nat /\ 1 <= n /\ n <= Len(s) /\ z \in Nat /\ m + 1 \in Nat /\ z <= m + 1
        /\ m + 1 <= n - 1 /\ 1 + z + 1 = y /\ 1 + (m + 1) = n /\ 1 + 1 = 2
    BY <1>1, <1>2 DEF n
  <2>3. SubSeq(SubSeq(s, 1 + 1, n), z + 1, m + 1) = SubSeq(s, 1 + z + 1, 1 + (m + 1))
    <3> HIDE DEF z, m
    <3> QED BY <2>2, PartOfPart, SMTT(60)
  <2> HIDE DEF z, m, behind
  <2> QED BY <2>1, <2>2, <2>3 DEF n
<1>8. LET u == SubSeq(s, y, Len(s))
      IN  /\ u = <<>> <=> y = Len(s) + 1
          /\ y <= Len(s) => Tail(u) = SubSeq(s, y + 1, Len(s))
  <2>1. y \in 1 .. Len(s) + 1
    BY <1>1 DEF n
  <2> QED BY <2>1, RestFacts
<1> HIDE DEF behind, sec
<1>9. (behind = <<>> <=> y = n + 1) /\ (y <= n => Tail(behind) = SubSeq(s, y + 1, n))
  BY <1>7, <1>8 DEF n
<1> QED BY <1>6, <1>9 DEF behind, sec, n

\* Where a name of the table ends, and what is behind it
KnownIs(s, x, y, name, rest, table, takes, max) ==
    LET n == Len(s)
        d == Before(s, Comma)
    IN  \/ rest = <<>> /\ y = n + 1 /\ Good(d, table, takes, max)
        \/ /\ rest # <<>> /\ rest[1] = Comma /\ y <= n /\ Good(d, table, takes, max)
           /\ Tail(rest) = SubSeq(s, y + 1, n)
        \/ /\ rest # <<>> /\ rest[1] # Comma /\ x = 2 /\ x <= n /\ y >= 3 /\ Short(d, max)
           /\ name[1] = s[1] /\ rest = SubSeq(s, 2, n)

\* A name of the table stands in front of "," or the end, or of "=".
LEMMA KnownName ==
  ASSUME NEW s \in Seq(Words), NEW x \in Nat, NEW y \in Nat, CutAt(s, x, y),
         NEW table, NEW takes, Tables(table, takes), NEW max,
         HasName(s, max), FirstName(s, max) \in Alone(table)
  PROVE  KnownIs(s, x, y, FirstName(s, max), RestOf(s, max), table, takes, max)
<1> DEFINE n == Len(s)
           d == Before(s, Comma)
           e == Before(s, Equals)
           name == FirstName(s, max)
           rest == RestOf(s, max)
<1>1. /\ x \in 1 .. n + 1 /\ y \in 1 .. n + 1
      /\ (x <= n => s[x] = Equals) /\ (y <= n => s[y] = Comma)
      /\ d \in Seq(Words) /\ Len(d) = y - 1 /\ \A j \in 1 .. y - 1 : d[j] = s[j]
      /\ e \in Seq(Words) /\ Len(e) = x - 1 /\ \A j \in 1 .. x - 1 : e[j] = s[j]
      /\ x < y => Before(d, Equals) = e
      /\ x >= y => Before(d, Equals) = d /\ \A j \in 1 .. y - 1 : d[j] # Equals
      /\ Contains(s, Equals) <=> x <= n
  BY CutFacts
<1>2. n \in Nat
  BY LenProperties
<1>3. ASSUME NEW k \in 1 .. n + 1, rest = SubSeq(s, k, n)
      PROVE  /\ rest = <<>> <=> k = n + 1
             /\ k <= n => rest[1] = s[k] /\ Tail(rest) = SubSeq(s, k + 1, n)
  <2>1. LET u == SubSeq(s, k, Len(s))
        IN  /\ u = <<>> <=> k = Len(s) + 1
            /\ k <= Len(s) => u[1] = s[k] /\ Tail(u) = SubSeq(s, k + 1, Len(s))
    BY RestFacts
  <2> HIDE DEF rest
  <2> QED BY <1>3, <2>1
<1>4. rest = SubSeq(s, Len(name) + 1, n)
  BY Zenon DEF RestOf
<1> HIDE DEF n, d, e, rest
<1>5. CASE NameAtEquals(s, max)
  <2>1. x <= n /\ Fits(e, max) /\ name = e
    BY <1>1, <1>5, NameIs, Zenon DEF e
  <2> HIDE DEF name
  <2>2. Len(e) = 1 /\ e[1] \in table
    <3>1. e \in Alone(table)
      BY <2>1 DEF name
    <3> QED BY <1>1, <3>1, AloneFacts
  <2>3. x = 2 /\ s[1] = e[1]
    <3>1. x = 2
      <4>1. Len(e) = x - 1 /\ Len(e) = 1
        BY <1>1, <2>2
      <4>2. x - 1 = 1
        BY <4>1
      <4> QED BY <4>2
    <3>2. 1 \in 1 .. x - 1
      BY <3>1
    <3> QED BY <1>1, <3>1, <3>2
  <2>4. s[1] # Comma /\ s[2] # Comma
    BY <1>1, <2>1, <2>2, <2>3, SeparatorsDiffer DEF Tables
  <2>5. y >= 3
    <3>1. ASSUME y = 1 PROVE FALSE
      BY <1>1, <1>2, <2>1, <2>3, <2>4, <3>1
    <3>2. ASSUME y = 2 PROVE FALSE
      BY <1>1, <1>2, <2>1, <2>3, <2>4, <3>2
    <3> QED BY <1>1, <3>1, <3>2
  <2>6. Short(d, max)
    BY <1>1, <2>1, <2>3, <2>5 DEF Short
  <2>7. rest = SubSeq(s, 2, n)
    BY <1>4, <2>1, <2>2
  <2>8. rest # <<>> /\ rest[1] # Comma
    <3>1. 2 \in 1 .. n + 1 /\ 2 <= n /\ 2 # n + 1
      BY <1>2, <2>1, <2>3
    <3> QED BY <1>3, <2>4, <2>7, <3>1
  <2> QED BY <2>1, <2>3, <2>5, <2>6, <2>7, <2>8 DEF KnownIs, name, d, n, rest
<1>6. CASE ~NameAtEquals(s, max)
  <2>1. Fits(d, max) /\ name = d
    BY <1>6, NameIs, Zenon DEF d
  <2> HIDE DEF name
  <2>2. d \in Alone(table) /\ Len(d) = 1 /\ d[1] \in table
    <3>1. d \in Alone(table)
      BY <2>1 DEF name
    <3> QED BY <1>1, <3>1, AloneFacts
  <2>3. y = 2 /\ s[1] = d[1]
    <3>1. y = 2
      <4>1. Len(d) = y - 1 /\ Len(d) = 1
        BY <1>1, <2>2
      <4>2. y - 1 = 1
        BY <4>1
      <4> QED BY <4>2
    <3>2. 1 \in 1 .. y - 1
      BY <3>1
    <3> QED BY <1>1, <3>1, <3>2
  <2>4. x >= y
    <3>1. s[1] # Equals /\ 1 <= n
      BY <1>1, <1>2, <2>2, <2>3 DEF Tables
    <3>2. x # 1
      BY <1>1, <3>1
    <3> QED BY <1>1, <2>3, <3>2
  <2>5. Good(d, table, takes, max)
    <3>1. Short(d, max)
      BY <1>1, <2>1, <2>4 DEF Short
    <3>2. IsDirective(d, table, takes)
      BY <2>2, DirectiveIs
    <3> QED BY <3>1, <3>2 DEF Good
  <2>6. rest = SubSeq(s, y, n)
    BY <1>4, <2>1, <2>2, <2>3
  <2>7. /\ rest = <<>> <=> y = n + 1
        /\ y <= n => rest[1] = s[y] /\ Tail(rest) = SubSeq(s, y + 1, n)
    BY <1>1, <1>3, <2>6
  <2>8. y = n + 1 \/ (y <= n /\ y # n + 1)
    BY <1>1, <1>2
  <2> QED BY <1>1, <2>5, <2>7, <2>8 DEF KnownIs, name, d, n, rest
<1> QED BY <1>5, <1>6

\* Every number is in range.
AllFit(limit) == \A w \in Numbers : ~(NumberOf[w] > limit)

\* What is left behind spaces is a text.
LEMMA SkipType ==
  ASSUME NEW E, NEW s \in Seq(E)
  PROVE  SkipSpaces(s) \in Seq(E)
<1>1. PICK k \in 1 .. Len(s) + 1 : SkipSpaces(s) = SubSeq(s, k, Len(s))
  BY SkipFacts
<1>2. SubSeq(s, k, Len(s)) \in Seq(E)
  BY RestFacts
<1> QED BY <1>1, <1>2

\* A value is given, and it is a number up to the limit.
LEMMA HasSecondsIs ==
  ASSUME NEW name, NEW sec, NEW takes, NEW limit
  PROVE  HasSeconds(name, sec, takes, limit)
            <=> /\ name[1] \in takes /\ Len(sec) = 1 /\ sec[1] \in Numbers
                /\ ~(NumberOf[sec[1]] > limit)
BY Zenon DEF HasSeconds, LacksSeconds, IsInt

\* "=" is the second token of s and no comma stands in front of it.
EqualsAt(s, x, y, name, rest) ==
    x = 2 /\ x <= Len(s) /\ y >= 3 /\ name[1] = s[1] /\ rest = SubSeq(s, 2, Len(s))

\* Behind a name and "=", a number is read exactly when the directive is one.
LEMMA ValueIsRead ==
  ASSUME NEW s \in Seq(Words), NEW x \in Nat, NEW y \in Nat, CutAt(s, x, y),
         NEW table, NEW takes, Tables(table, takes), NEW limit, NEW name, NEW rest,
         EqualsAt(s, x, y, name, rest)
  PROVE  LET has == HasSeconds(name, SecondsOf(rest), takes, limit)
             is == IsDirective(Before(s, Comma), table, takes)
         IN  (has => is) /\ (AllFit(limit) /\ is => has)
<1> DEFINE d == Before(s, Comma)
           sec == SecondsOf(rest)
<1>0. x = 2 /\ x <= Len(s) /\ y >= 3 /\ name[1] = s[1] /\ rest = SubSeq(s, 2, Len(s))
  BY DEF EqualsAt
<1>1. /\ (x <= Len(s) => s[x] = Equals) /\ (\A j \in 1 .. x - 1 : s[j] # Equals)
      /\ d \in Seq(Words) /\ Len(d) = y - 1 /\ \A j \in 1 .. y - 1 : d[j] = s[j]
  BY CutFacts
<1>2. Len(sec) = y - 3 /\ \A j \in 1 .. y - 3 : sec[j] = s[2 + j]
  <2>1. Splits(s, Comma, y)
    BY DEF CutAt
  <2> QED BY <1>0, <2>1, SecondsFacts, ZenonT(60)
<1> HIDE DEF d, sec
<1>3. IsDirective(d, table, takes) <=> Len(d) = 3 /\ d[1] \in takes /\ d[3] \in Numbers
  <2>1. x \in 1 .. y - 1 /\ \A j \in 1 .. x - 1 : j \in 1 .. y - 1
    BY <1>0
  <2>2. x \in 1 .. Len(d) /\ d[x] = Equals /\ \A j \in 1 .. x - 1 : d[j] # Equals
    BY <1>0, <1>1, <2>1
  <2>3. d \in Seq(Words)
    BY <1>1
  <2> QED BY <1>0, <2>2, <2>3, DirectiveWith
<1>4. d[1] = name[1]
  <2>1. 1 \in 1 .. y - 1
    BY <1>0
  <2> QED BY <1>0, <1>1, <2>1
<1>5. Len(d) = 3 <=> Len(sec) = 1
  <2>1. Len(d) = y - 1 /\ Len(sec) = y - 3
    BY <1>1, <1>2
  <2> QED BY <2>1
<1>6. Len(sec) = 1 => d[3] = sec[1]
  <2>1. ASSUME Len(sec) = 1 PROVE d[3] = sec[1]
    <3>1. 3 \in 1 .. y - 1 /\ 1 \in 1 .. y - 3 /\ 2 + 1 = 3
      <4>1. y - 3 = 1
        BY <1>2, <2>1
      <4> QED BY <4>1
    <3> QED BY <1>1, <1>2, <3>1
  <2> QED BY <2>1
<1>7. HasSeconds(name, sec, takes, limit)
         <=> name[1] \in takes /\ Len(sec) = 1 /\ sec[1] \in Numbers /\ ~(NumberOf[sec[1]] > limit)
  BY HasSecondsIs
<1>8. AllFit(limit) /\ sec[1] \in Numbers => ~(NumberOf[sec[1]] > limit)
  BY Zenon DEF AllFit
<1> QED BY <1>3, <1>4, <1>5, <1>6, <1>7, <1>8, Zenon DEF d, sec

\* What one pass makes of a value, whose next directive ends at its y-th token
Outcome(s, next, x, y, table, takes, max, limit) ==
    LET d == Before(s, Comma)
    IN  \/ IsAccepted(next) /\ ~Short(d, max)
        \/ IsAccepted(next) /\ Good(d, table, takes, max) /\ y = Len(s) + 1
        \/ /\ IsOpen(next) /\ Good(d, table, takes, max) /\ y <= Len(s)
           /\ next.left = SkipSpaces(SubSeq(s, y + 1, Len(s)))
        \/ /\ IsRefused(next)
           /\ AllFit(limit) /\ HasWidths(s) =>
                               \/ Short(d, max) /\ ~IsDirective(d, table, takes)
                               \/ y < x /\ x <= Len(s) /\ Fits(Before(s, Equals), max)

\* What one pass does, by the places of the two separators
LEMMA PassOutcome ==
  ASSUME NEW st \in PassStates, IsOpen(st),
         NEW x \in Nat, NEW y \in Nat, CutAt(st.left, x, y),
         NEW table, NEW takes, Tables(table, takes), NEW max \in Nat, NEW limit
  PROVE  LET next == Pass(st, table, takes, max, limit)
         IN  next \in PassStates /\ Outcome(st.left, next, x, y, table, takes, max, limit)
<1> DEFINE next == Pass(st, table, takes, max, limit)
           s == st.left
           n == Len(s)
           d == Before(s, Comma)
           name == FirstName(s, max)
           rest == RestOf(s, max)
           behind == BehindOf(rest)
           has == HasSeconds(name, SecondsOf(rest), takes, limit)
           w == SubSeq(s, y + 1, n)
           t == SkipSpaces(w)
           done == Judged(st, "accepted")
           fails == Judged(st, "refused")
           goes == Advanced(st, t)
           good == Good(d, table, takes, max)
           ends == next \in PassStates /\ Outcome(s, next, x, y, table, takes, max, limit)
<1>1. s \in Seq(Words) /\ CutAt(s, x, y)
  BY StateFacts
<1>2. n \in Nat /\ y \in 1 .. n + 1
  BY <1>1, CutFacts, LenProperties
<1>3. /\ done \in PassStates /\ IsAccepted(done) /\ fails \in PassStates /\ IsRefused(fails)
      /\ \A u \in Seq(Words) : /\ Advanced(st, u) \in PassStates /\ Advanced(st, u).left = u
                               /\ IsOpen(Advanced(st, u))
  BY VerdictFacts, Zenon
<1>4. ASSUME y <= n PROVE goes \in PassStates /\ IsOpen(goes) /\ goes.left = t
  <2>1. w \in Seq(Words)
    <3>1. y + 1 \in 1 .. Len(s) + 1
      BY <1>2, <1>4
    <3> QED BY <1>1, <3>1, RestFacts
  <2> HIDE DEF w
  <2>2. t \in Seq(Words)
    BY <2>1, SkipType
  <2> HIDE DEF t
  <2> QED BY <1>3, <2>2
<1>5. \/ ~HasName(s, max) /\ next = done
      \/ HasName(s, max) /\ name \notin Alone(table) /\ next = fails
      \/ HasName(s, max) /\ name \in Alone(table)
         /\ \/ rest = <<>> /\ next = done
            \/ rest # <<>> /\ rest[1] = Comma /\ next = Advanced(st, NextDirective(rest))
            \/ rest # <<>> /\ rest[1] # Comma /\ ~has /\ next = fails
            \/ rest # <<>> /\ rest[1] # Comma /\ has
               /\ \/ behind = <<>> /\ next = done
                  \/ behind # <<>> /\ next = Advanced(st, NextDirective(behind))
  BY PassGoes, Zenon
<1>6. \A u : Tail(u) = w => Advanced(st, NextDirective(u)) = goes
  BY Zenon DEF NextDirective
<1>7. ASSUME ~HasName(s, max) PROVE ~Short(d, max)
  BY <1>1, <1>7, TooLong
<1>8. ASSUME HasWidths(s), HasName(s, max), name \notin Alone(table)
      PROVE  \/ Short(d, max) /\ ~IsDirective(d, table, takes)
             \/ y < x /\ x <= n /\ Fits(Before(s, Equals), max)
  BY <1>1, <1>8, UnknownName
<1>9. ASSUME HasName(s, max), name \in Alone(table)
      PROVE  \/ rest = <<>> /\ y = n + 1 /\ good
             \/ rest # <<>> /\ rest[1] = Comma /\ y <= n /\ good /\ Tail(rest) = w
             \/ /\ rest # <<>> /\ rest[1] # Comma /\ x = 2 /\ x <= n /\ y >= 3 /\ Short(d, max)
                /\ name[1] = s[1] /\ rest = SubSeq(s, 2, n)
  <2>1. KnownIs(s, x, y, FirstName(s, max), RestOf(s, max), table, takes, max)
    BY <1>1, <1>9, KnownName
  <2> QED BY <2>1, Zenon DEF KnownIs
<1>10. ASSUME x = 2, x <= n, y >= 3, name[1] = s[1], rest = SubSeq(s, 2, n)
       PROVE  /\ has => IsDirective(d, table, takes)
              /\ AllFit(limit) /\ IsDirective(d, table, takes) => has
              /\ behind = <<>> <=> y = n + 1
              /\ y <= n => Tail(behind) = w
  <2>1. (has => IsDirective(d, table, takes)) /\ (AllFit(limit) /\ IsDirective(d, table, takes) => has)
    <3> HIDE DEF name, rest
    <3>1. EqualsAt(s, x, y, name, rest)
      BY <1>10 DEF EqualsAt
    <3> QED BY <1>1, <3>1, ValueIsRead
  <2>2. (behind = <<>> <=> y = n + 1) /\ (y <= n => Tail(behind) = w)
    <3>1. Splits(s, Comma, y)
      BY <1>1 DEF CutAt
    <3> HIDE DEF rest
    <3> QED BY <1>1, <1>10, <3>1, SecondsFacts
  <2> QED BY <2>1, <2>2, Zenon
<1>11. Outcome(s, next, x, y, table, takes, max, limit)
         <=> \/ IsAccepted(next) /\ ~Short(d, max)
             \/ IsAccepted(next) /\ good /\ y = n + 1
             \/ IsOpen(next) /\ good /\ y <= n /\ next.left = t
             \/ /\ IsRefused(next)
                /\ AllFit(limit) /\ HasWidths(s) =>
                                    \/ Short(d, max) /\ ~IsDirective(d, table, takes)
                                    \/ y < x /\ x <= n /\ Fits(Before(s, Equals), max)
  BY Zenon DEF Outcome
<1>12. good <=> Short(d, max) /\ IsDirective(d, table, takes)
  BY DEF Good
<1>13. y # n + 1 => y <= n
  <2> HIDE DEF n
  <2> QED BY <1>2
<1> SUFFICES ends
  BY Zenon
<1> HIDE DEF next, s, n, d, name, rest, behind, has, w, t, done, fails, goes, good
<1>14. CASE ~HasName(s, max)
  BY <1>3, <1>5, <1>7, <1>11, <1>14, Zenon
<1>15. CASE HasName(s, max) /\ name \notin Alone(table)
  BY <1>3, <1>5, <1>8, <1>11, <1>15, Zenon
<1>16. CASE HasName(s, max) /\ name \in Alone(table)
  <2>1. CASE rest = <<>>
    BY <1>3, <1>5, <1>9, <1>11, <1>16, <2>1, Zenon
  <2>2. CASE rest # <<>> /\ rest[1] = Comma
    <3>1. y <= n /\ good /\ Tail(rest) = w /\ next = Advanced(st, NextDirective(rest))
      BY <1>5, <1>9, <1>16, <2>2, Zenon
    <3>2. next = goes
      BY <1>6, <3>1, Zenon
    <3> QED BY <1>4, <1>11, <3>1, <3>2, Zenon
  <2>3. CASE rest # <<>> /\ rest[1] # Comma
    <3>1. x = 2 /\ x <= n /\ y >= 3 /\ Short(d, max) /\ name[1] = s[1] /\ rest = SubSeq(s, 2, n)
      BY <1>9, <1>16, <2>3, Zenon
    <3>2. /\ has => IsDirective(d, table, takes)
          /\ AllFit(limit) /\ IsDirective(d, table, takes) => has
          /\ behind = <<>> <=> y = n + 1
          /\ y <= n => Tail(behind) = w
      BY <1>10, <3>1, Zenon
    <3>3. CASE ~has
      <4>1. next = fails
        BY <1>5, <1>16, <2>3, <3>3, Zenon
      <4> QED BY <1>3, <1>11, <3>1, <3>2, <3>3, <4>1, Zenon
    <3>4. CASE has /\ behind = <<>>
      <4>1. next = done
        BY <1>5, <1>16, <2>3, <3>4, Zenon
      <4> QED BY <1>3, <1>11, <1>12, <3>1, <3>2, <3>4, <4>1, Zenon
    <3>5. CASE has /\ behind # <<>>
      <4>1. next = Advanced(st, NextDirective(behind))
        BY <1>5, <1>16, <2>3, <3>5, Zenon
      <4>2. y <= n /\ next = goes
        BY <1>6, <1>13, <3>2, <3>5, <4>1, Zenon
      <4> QED BY <1>4, <1>11, <1>12, <3>1, <3>2, <3>5, <4>2, Zenon
    <3> QED BY <3>3, <3>4, <3>5, Zenon
  <2> QED BY <2>1, <2>2, <2>3, Zenon
<1> QED BY <1>14, <1>15, <1>16, Zenon

\* Both separators have a first place in every text.
LEMMA CutExists ==
  ASSUME NEW s \in Seq(Words)
  PROVE  \E x, y \in Nat : CutAt(s, x, y)
<1>1. Len(s) \in Nat
  BY LenProperties
<1>2. PICK x \in 1 .. Len(s) + 1 : Splits(s, Equals, x)
  BY SplitExists
<1>3. PICK y \in 1 .. Len(s) + 1 : Splits(s, Comma, y)
  BY SplitExists
<1>4. x \in Nat /\ y \in Nat
  BY <1>1
<1> QED BY <1>2, <1>3, <1>4, Zenon DEF CutAt

\* A pass leaves a state of the loop.
LEMMA PassType ==
  ASSUME NEW st \in PassStates, NEW table, NEW takes, Tables(table, takes), NEW max \in Nat, NEW limit
  PROVE  Pass(st, table, takes, max, limit) \in PassStates
<1>1. CASE IsOpen(st)
  <2>1. st.left \in Seq(Words)
    BY StateFacts
  <2>2. PICK x, y \in Nat : CutAt(st.left, x, y)
    BY <2>1, CutExists
  <2> QED BY <1>1, <2>2, PassOutcome
<1>2. CASE ~IsOpen(st)
  <2>1. Pass(st, table, takes, max, limit) = st
    BY <1>2, PassStays
  <2> QED BY <2>1
<1> QED BY <1>1, <1>2

\* r[k] is the state of the loop over v behind k passes.
Start(v) == [left |-> v, verdict |-> "open"]
Passes(r, v, table, takes, max, limit) ==
    /\ r \in [0 .. Len(v) + 1 -> PassStates] /\ r[0] = Start(v)
    /\ \A k \in 1 .. Len(v) + 1 : r[k] = Pass(r[k - 1], table, takes, max, limit)

\* The loop over a value, pass by pass: it accepts if its last state is accepted.
LEMMA PassesExist ==
  ASSUME NEW v \in Seq(Words), NEW table, NEW takes, Tables(table, takes), NEW max \in Nat, NEW limit
  PROVE  \E r : /\ Passes(r, v, table, takes, max, limit)
                /\ CacheControlOk(v, table, takes, max, limit) <=> IsAccepted(r[Len(v) + 1])
<1> DEFINE n == Len(v) + 1
           seq == [k \in 1 .. n |-> k]
           S == DOMAIN seq
           A == PassStates
           base == Start(v)
           go(st) == Pass(st, table, takes, max, limit)
           G == [p \in (1 .. n) \X A |-> go(p[2])]
           Body(g) == [t \in SUBSET S |-> IF t = {} THEN base ELSE go(g[t \ {Max(t)}])]
           iter == CHOOSE g : g = Body(g)
<1>1. n \in Nat /\ S = 1 .. n
  <2>1. Len(v) \in Nat
    BY LenProperties
  <2> QED BY <2>1
<1>2. base \in A
  <2> DEFINE T == Seq(Words)
  <2>1. v \in T /\ "open" \in Verdicts
    BY DEF Verdicts
  <2> HIDE DEF T
  <2> QED BY <2>1 DEF Start, PassStates, T
<1>3. ASSUME NEW st \in A PROVE go(st) \in A
  BY PassType
<1> HIDE DEF n, S, A, base, go
<1>4. G \in [(1 .. n) \X A -> A]
  <2>1. \A p \in (1 .. n) \X A : p[2] \in A
    OBVIOUS
  <2> QED BY <1>3, <2>1
<1>5. PICK g \in [SUBSET (1 .. n) -> A] : FoldsBy(g, n, base, G)
  <2> HIDE DEF G
  <2> QED BY <1>1, <1>2, <1>4, FoldUpExists, Zenon
<1>6. ASSUME NEW t \in SUBSET (1 .. n), t # {} PROVE Max(t) \in 1 .. n
  BY <1>1, <1>6, LastPosition
<1>7. ASSUME NEW h, NEW t \in SUBSET (1 .. n), t # {}, h[t \ {Max(t)}] \in A
      PROVE  G[<<Max(t), h[t \ {Max(t)}]>>] = go(h[t \ {Max(t)}])
  BY <1>6, <1>7
<1> HIDE DEF G
<1>8. g = Body(g)
  <2>1. ASSUME NEW t \in SUBSET S
        PROVE  g[t] = IF t = {} THEN base ELSE go(g[t \ {Max(t)}])
    BY <1>1, <1>5, <1>7 DEF FoldsBy
  <2> QED BY <1>1, <1>5, <2>1
<1>9. iter = Body(iter)
  <2> HIDE DEF Body
  <2> QED BY <1>8, Zenon
<1> HIDE DEF iter
<1>10. iter[{}] = base
  BY <1>9
<1>11. ASSUME NEW t \in SUBSET (1 .. n), t # {}, iter[t \ {Max(t)}] \in A
       PROVE  iter[t] = G[<<Max(t), iter[t \ {Max(t)}]>>]
  <2>1. iter[t] = Body(iter)[t]
    BY <1>9, Zenon
  <2>2. Body(iter)[t] = go(iter[t \ {Max(t)}])
    BY <1>1, <1>11
  <2> QED BY <1>7, <1>11, <2>1, <2>2
<1>12. PICK r \in [0 .. n -> A] : Turns(r, n, base, G) /\ r[n] = iter[1 .. n]
  <2>1. FoldsIn(iter, n, A, base, G)
    BY <1>10, <1>11, Zenon DEF FoldsIn
  <2>2. HasTurns(iter, n, A, base, G)
    BY <2>1, <1>1, <1>2, <1>4, FoldTurns, Zenon
  <2> QED BY <2>2, Zenon DEF HasTurns
<1>13. ASSUME NEW k \in 1 .. n PROVE r[k] = go(r[k - 1])
  <2>1. r[k - 1] \in A
    BY <1>1, <1>12
  <2>2. G[<<k, r[k - 1]>>] = go(r[k - 1])
    BY <2>1 DEF G
  <2> QED BY <1>12, <2>2 DEF Turns
<1>14. CacheControlOk(v, table, takes, max, limit) <=> IsAccepted(iter[S])
  BY Zenon DEF CacheControlOk, IsAccepted, FoldLeft, MapThenFoldSet, iter, S, n, go, base, Start,
               Pass, RestOf, SecondsOf, BehindOf, LacksSeconds, Alone, Comma
<1>15. Passes(r, v, table, takes, max, limit)
  BY <1>12, <1>13 DEF Passes, Turns, n, A, base, go
<1>16. CacheControlOk(v, table, takes, max, limit) <=> IsAccepted(r[n])
  BY <1>1, <1>12, <1>14, Zenon
<1> QED BY <1>15, <1>16, Zenon DEF n

-----------------------------------------------------------------------------
(* The list of the grammar                                                 *)

\* Every item up to the first whose name does not fit is a directive.
Allowed(items, table, takes, max) ==
    \A k \in 1 .. Len(items) :
        (\A j \in 1 .. k : Short(items[j], max)) => IsDirective(items[k], table, takes)

\* The grammar says the same of the items.
LEMMA GrammarIs ==
  ASSUME NEW v, NEW items \in ItemLists, items = ListItems(v), NEW table, NEW takes, NEW max
  PROVE  IsCacheControl(v, table, takes, max) <=> Allowed(items, table, takes, max)
<1> DEFINE n == Len(items)
           at == {i \in 1 .. n : ~Short(items[i], max)}
           long == IF at # {} THEN Min(at) ELSE 0
<1>1. n \in Nat /\ DOMAIN items = 1 .. n
  BY DEF ItemLists
<1>2. IsCacheControl(v, table, takes, max)
         <=> \A k \in DOMAIN items : (long = 0 \/ k < long) => IsDirective(items[k], table, takes)
  BY Zenon DEF IsCacheControl, SelectInSeq, Short, Equals
<1> HIDE DEF n
<1>3. ASSUME NEW k \in 1 .. n
      PROVE  long = 0 \/ k < long <=> \A j \in 1 .. k : Short(items[j], max)
  <2>1. CASE at = {}
    <3>1. \A j \in 1 .. n : Short(items[j], max)
      BY <2>1
    <3>2. \A j \in 1 .. k : j \in 1 .. n
      BY <1>1
    <3>3. long = 0
      BY <2>1
    <3> HIDE DEF long
    <3> QED BY <3>1, <3>2, <3>3
  <2>2. CASE at # {}
    <3>1. long \in at /\ \A i \in at : long <= i
      <4>1. at \subseteq Nat
        BY <1>1
      <4> HIDE DEF at
      <4> QED BY <2>2, <4>1, FirstPosition
    <3> HIDE DEF long
    <3>2. long \in 1 .. n /\ ~Short(items[long], max)
      BY <3>1
    <3>3. \A j \in 1 .. n : ~Short(items[j], max) => long <= j
      BY <3>1
    <3>4. k < long => \A j \in 1 .. k : Short(items[j], max)
      <4>1. k < long => \A j \in 1 .. k : j \in 1 .. n /\ ~(long <= j)
        BY <1>1, <3>2
      <4> QED BY <3>3, <4>1
    <3>5. ~(k < long) => long \in 1 .. k /\ long # 0
      BY <1>1, <3>2
    <3>6. long # 0
      BY <3>2
    <3> QED BY <3>2, <3>4, <3>5, <3>6
  <2> QED BY <2>1, <2>2
<1> HIDE DEF long
<1> QED BY <1>1, <1>2, <1>3 DEF Allowed, n

\* The first i items are directives whose names fit.
GoodUpTo(items, i, table, takes, max) == \A j \in 1 .. i : Good(items[j], table, takes, max)

\* A list of directives is allowed.
LEMMA AllGood ==
  ASSUME NEW items \in ItemLists, NEW table, NEW takes, NEW max,
         GoodUpTo(items, Len(items), table, takes, max)
  PROVE  Allowed(items, table, takes, max)
BY DEF Allowed, GoodUpTo, Good

\* So is one of directives up to an item whose name does not fit.
LEMMA EndsAtLong ==
  ASSUME NEW items \in ItemLists, NEW table, NEW takes, NEW max, NEW i \in 1 .. Len(items),
         GoodUpTo(items, i - 1, table, takes, max), ~Short(items[i], max)
  PROVE  Allowed(items, table, takes, max)
<1>1. Len(items) \in Nat
  BY DEF ItemLists
<1>2. ASSUME NEW k \in 1 .. Len(items), \A j \in 1 .. k : Short(items[j], max)
      PROVE  IsDirective(items[k], table, takes)
  <2>1. ~(i \in 1 .. k)
    BY <1>2
  <2>2. k \in 1 .. i - 1
    BY <1>1, <2>1
  <2> QED BY <2>2 DEF GoodUpTo, Good
<1> QED BY <1>2 DEF Allowed

\* One with an item that is no directive, before any that does not fit, is not.
LEMMA NotAllowed ==
  ASSUME NEW items \in ItemLists, NEW table, NEW takes, NEW max, NEW i \in 1 .. Len(items),
         GoodUpTo(items, i - 1, table, takes, max),
         Short(items[i], max), ~IsDirective(items[i], table, takes)
  PROVE  ~Allowed(items, table, takes, max)
<1>1. Len(items) \in Nat
  BY DEF ItemLists
<1>2. ASSUME NEW j \in 1 .. i PROVE Short(items[j], max)
  <2>1. j = i \/ j \in 1 .. i - 1
    BY <1>1
  <2> QED BY <2>1 DEF GoodUpTo, Good
<1> QED BY <1>2 DEF Allowed

\* One more item that passes
LEMMA GoodOneMore ==
  ASSUME NEW items, NEW table, NEW takes, NEW max, NEW i \in Nat,
         GoodUpTo(items, i - 1, table, takes, max), Good(items[i], table, takes, max)
  PROVE  GoodUpTo(items, i, table, takes, max)
<1>1. \A j \in 1 .. i : j = i \/ j \in 1 .. i - 1
  OBVIOUS
<1> QED BY <1>1 DEF GoodUpTo

\* A text is at least as long as its first two tokens and another one.
LEMMA ThreeTokens ==
  ASSUME NEW e \in Seq(Words), HasWidths(e), NEW p \in 3 .. Len(e), NEW room \in Nat, Fits(e, room)
  PROVE  Width(e[1]) + Width(e[2]) + Width(e[p]) <= room
<1> DEFINE n == Len(e)
<1>1. n \in Nat /\ p \in 3 .. n
  BY LenProperties
<1>2. \E q : q \in [0 .. n -> Nat] /\ Sums(q, e)
  <2>1. \E q \in [0 .. Len(e) -> Nat] : Sums(q, e)
    BY SumsExist DEF Words
  <2> QED BY <2>1, Zenon
<1>3. PICK q : q \in [0 .. n -> Nat] /\ Sums(q, e)
  BY <1>2, Zenon
<1>4. TextLen(e) = TextLen(SubSeq(e, 0 + 1, n))
  <2>1. SubSeq(e, 1, Len(e)) = e
    BY WholePart
  <2>2. 0 + 1 = 1
    OBVIOUS
  <2> QED BY <2>1, <2>2, Zenon
<1>5. /\ q[0] = 0 /\ \A k \in 1 .. n : q[k] = q[k - 1] + Width(e[k])
      /\ \A i, j \in 0 .. n : i <= j => q[i] <= q[j] /\ TextLen(SubSeq(e, i + 1, j)) = q[j] - q[i]
  BY <1>3, Zenon DEF Sums
<1>6. TextLen(e) \in 0 .. room
  BY DEF Fits
<1> DEFINE first == Width(e[1])
           second == Width(e[2])
           third == Width(e[p])
           m == p - 1
<1>7. first \in Nat /\ second \in Nat /\ third \in Nat
  <2>1. DOMAIN e = 1 .. n
    BY LenProperties
  <2>2. 1 \in 1 .. n /\ 2 \in 1 .. n /\ p \in 1 .. n
    BY <1>1
  <2> QED BY <2>1, <2>2, Zenon DEF HasWidths
<1>8. /\ 1 \in 1 .. n /\ 2 \in 1 .. n /\ p \in 1 .. n /\ 0 \in 0 .. n /\ 1 \in 0 .. n /\ 2 \in 0 .. n
      /\ m \in 0 .. n /\ p \in 0 .. n /\ n \in 0 .. n /\ 2 <= m /\ p <= n /\ 0 <= n /\ 1 - 1 = 0 /\ 2 - 1 = 1
  BY <1>1
<1>9. \A j \in 0 .. n : q[j] \in Nat
  BY <1>3
<1>10. /\ q[1] = q[0] + first /\ q[2] = q[1] + second /\ q[p] = q[m] + third
       /\ q[2] <= q[m] /\ q[p] <= q[n] /\ TextLen(SubSeq(e, 0 + 1, n)) = q[n] - q[0]
  <2>1. q[1] = q[1 - 1] + first /\ q[2] = q[2 - 1] + second /\ q[p] = q[m] + third
    BY <1>5, <1>8, Zenon
  <2>2. q[2] <= q[m] /\ q[p] <= q[n] /\ TextLen(SubSeq(e, 0 + 1, n)) = q[n] - q[0]
    BY <1>5, <1>8, Zenon
  <2>3. q[1 - 1] = q[0] /\ q[2 - 1] = q[1]
    BY <1>8
  <2> QED BY <2>1, <2>2, <2>3, Zenon
<1> DEFINE total == TextLen(e)
           a == q[1]
           b == q[2]
           c == q[m]
           d == q[p]
           f == q[n]
<1>11. a \in Nat /\ b \in Nat /\ c \in Nat /\ d \in Nat /\ f \in Nat /\ q[0] = 0
  BY <1>5, <1>8, <1>9, Zenon
<1>12. /\ a = 0 + first /\ b = a + second /\ d = c + third /\ b <= c /\ d <= f /\ total = f - 0
       /\ total \in 0 .. room
  BY <1>4, <1>5, <1>6, <1>10, Zenon
<1> SUFFICES first + second + third <= room
  BY Zenon
<1> HIDE DEF first, second, third, a, b, c, d, f, total, n, m
<1> QED BY <1>7, <1>11, <1>12

\* The tokens of a part have lengths.
LEMMA PartHasWidths ==
  ASSUME NEW s \in Seq(Words), HasWidths(s), NEW a \in Nat, NEW b \in Nat, a <= b, b <= Len(s)
  PROVE  HasWidths(SubSeq(s, a + 1, b))
<1> DEFINE u == SubSeq(s, a + 1, b)
           n == Len(s)
           m == b - a
<1>1. u \in Seq(Words) /\ Len(u) = m /\ \A i \in 1 .. m : u[i] = s[a + i]
  BY PartFacts
<1>2. n \in Nat /\ DOMAIN s = 1 .. n /\ b <= n
  BY LenProperties
<1> HIDE DEF u, n
<1>3. \A i \in 1 .. m : a + i \in 1 .. n
  BY <1>2
<1>4. \A i \in 1 .. n : Width(s[i]) \in Nat
  BY <1>2, Zenon DEF HasWidths
<1>5. DOMAIN u = 1 .. m
  BY <1>1, LenProperties
<1> HIDE DEF m
<1> QED BY <1>1, <1>3, <1>4, <1>5, Zenon DEF HasWidths, u

\* When what stands in front of "=" fits, so does the name of the next directive.
LEMMA ShortFront ==
  ASSUME NEW s \in Seq(Words), HasWidths(s), NEW x \in Nat, NEW y \in Nat, CutAt(s, x, y),
         NEW max \in Nat, Fits(Before(s, Equals), max)
  PROVE  Short(Before(s, Comma), max)
<1> DEFINE n == Len(s)
           d == Before(s, Comma)
           e == Before(s, Equals)
           l == y - 1
           m == x - 1
<1>1. /\ x \in 1 .. n + 1 /\ y \in 1 .. n + 1
      /\ e \in Seq(Words) /\ Len(e) = m
      /\ d = SubSeq(s, 1, l) /\ e = SubSeq(s, 1, m)
      /\ x < y => Before(d, Equals) = e
      /\ x >= y => Before(d, Equals) = d
  BY CutFacts
<1>2. n \in Nat
  BY LenProperties
<1> HIDE DEF n, d, e
<1>3. CASE x < y
  BY <1>1, <1>3 DEF Short, d, e
<1>4. CASE x >= y
  <2>1. /\ l \in Nat /\ m \in Nat /\ 0 \in Nat /\ 0 <= l /\ l <= m /\ m <= n /\ 0 <= m
        /\ 0 + 1 = 1 /\ 0 + 0 + 1 = 1 /\ 0 + l = l /\ l <= m - 0
        /\ 0 \in 0 .. m /\ l \in 0 .. m
    BY <1>1, <1>2, <1>4
  <2> HIDE DEF l, m
  <2>2. HasWidths(SubSeq(s, 0 + 1, m))
    BY <2>1, PartHasWidths DEF n
  <2>3. SubSeq(SubSeq(s, 0 + 1, m), 0 + 1, l) = SubSeq(s, 0 + 0 + 1, 0 + l)
    BY <2>1, PartOfPart DEF n
  <2>4. HasWidths(e) /\ SubSeq(e, 0 + 1, l) = d
    BY <1>1, <2>1, <2>2, <2>3
  <2>5. Fits(SubSeq(e, 0 + 1, l), max)
    BY <1>1, <2>1, <2>4, PartOfWords DEF e
  <2> QED BY <1>1, <1>4, <2>4, <2>5 DEF Short, d
<1>5. x < y \/ x >= y
  BY <1>1, <1>2
<1> QED BY <1>3, <1>4, <1>5

\* A directive begins with a word of the table.
LEMMA BeginsInTable ==
  ASSUME NEW table, NEW takes, Tables(table, takes), NEW d \in Seq(Words), IsDirective(d, table, takes)
  PROVE  Len(d) >= 1 /\ d[1] \in table
<1>1. CASE d \in Alone(table)
  BY <1>1, AloneFacts
<1>2. CASE d \notin Alone(table)
  <2>1. Len(d) = 3 /\ d[1] \in takes
    BY <1>2, DirectiveIs
  <2> QED BY <2>1 DEF Tables
<1> QED BY <1>1, <1>2

\* The first comma is the y-th token, l spaces follow it, and "=", the x-th, comes
\* behind them: the three searches take all in front of it for one name.
Ahead(s, x, y, l, max) ==
    /\ x \in Nat /\ y \in Nat /\ l \in Nat /\ CutAt(s, x, y)
    /\ y < x /\ x <= Len(s) /\ Fits(Before(s, Equals), max)
    /\ y + l <= Len(s) /\ \A j \in 1 .. l : s[y + j] = Space

\* "=" is as far behind the comma and the spaces in what is left there.
AheadIs(s, x, y, l) ==
    LET e == Before(s, Equals)
        t == SubSeq(s, (y + l) + 1, Len(s))
        z == x - (y + l)
    IN  /\ x \in Nat /\ y \in Nat /\ l \in Nat /\ y \in 1 .. Len(s) /\ x \in y + 1 .. Len(s)
        /\ z \in Nat \ {0} /\ y + l + z = x
        /\ t \in Seq(Words) /\ Len(t) = Len(s) - (y + l)
        /\ \A j \in 1 .. Len(s) - (y + l) : t[j] = s[(y + l) + j]
        /\ Splits(t, Equals, z)
        /\ Before(t, Equals) = SubSeq(e, (y + l) + 1, x - 1)

\* Where a token is, without the lengths
LEMMA AheadFacts ==
  ASSUME NEW s \in Seq(Words), NEW x, NEW y, NEW l, NEW max, Ahead(s, x, y, l, max)
  PROVE  AheadIs(s, x, y, l)
<1> DEFINE n == Len(s)
           e == Before(s, Equals)
           c == y + l
           t == SubSeq(s, c + 1, n)
           z == x - c
           m == n - c
<1>1. /\ x \in Nat /\ y \in Nat /\ l \in Nat /\ CutAt(s, x, y)
      /\ y < x /\ x <= n /\ c <= n /\ \A j \in 1 .. l : s[y + j] = Space
  BY Zenon DEF Ahead
<1>2. /\ x \in 1 .. n + 1 /\ y \in 1 .. n + 1 /\ (x <= n => s[x] = Equals)
      /\ (\A j \in 1 .. x - 1 : s[j] # Equals) /\ e = SubSeq(s, 1, x - 1)
  BY <1>1, CutFacts
<1>3. n \in Nat
  BY LenProperties
<1> HIDE DEF n, e
<1>4. c < x
  <2>1. ASSUME ~(c < x) PROVE FALSE
    <3>1. x - y \in 1 .. l /\ y + (x - y) = x
      BY <1>1, <2>1
    <3>2. s[x] = Space
      BY <1>1, <3>1
    <3> QED BY <1>1, <1>2, <3>2, SeparatorsDiffer
  <2> QED BY <2>1
<1>5. /\ c \in Nat /\ z \in Nat \ {0} /\ c + z = x /\ m \in Nat /\ z <= m
      /\ z \in 1 .. m + 1 /\ z \in 1 .. m
      /\ y \in 1 .. n /\ x \in y + 1 .. n
      /\ \A j \in 1 .. z - 1 : j \in 1 .. m /\ c + j \in 1 .. x - 1
  <2>1. c \in Nat /\ y \in 1 .. n /\ x \in y + 1 .. n
    BY <1>1, <1>2, <1>3
  <2> HIDE DEF c
  <2>2. /\ z \in Nat \ {0} /\ c + z = x /\ m \in Nat /\ z <= m
        /\ z \in 1 .. m + 1 /\ z \in 1 .. m
    BY <1>1, <1>3, <1>4, <2>1
  <2>3. ASSUME NEW j \in 1 .. z - 1 PROVE j \in 1 .. m /\ c + j \in 1 .. x - 1
    BY <1>1, <1>3, <1>4, <2>1, <2>2
  <2> QED BY <2>1, <2>2, <2>3
<1>6. t \in Seq(Words) /\ Len(t) = m /\ \A j \in 1 .. m : t[j] = s[c + j]
  <2>1. n <= Len(s) /\ n \in Nat /\ c \in Nat /\ c <= n
    BY <1>1, <1>3, <1>5 DEF n
  <2> HIDE DEF c
  <2> QED BY <2>1, PartFacts
<1> HIDE DEF t
<1>7. Splits(t, Equals, z)
  <2> HIDE DEF c, z, m
  <2>1. \A j \in 1 .. z - 1 : t[j] # Equals
    BY <1>2, <1>5, <1>6
  <2>2. t[z] = Equals
    BY <1>1, <1>2, <1>5, <1>6
  <2> QED BY <1>5, <1>6, <2>1, <2>2 DEF Splits
<1>8. Before(t, Equals) = SubSeq(t, 1, z - 1)
  <2> HIDE DEF z
  <2> QED BY <1>5, <1>6, <1>7, SplitAtFacts
<1>9. SubSeq(t, 1, z - 1) = SubSeq(e, c + 1, x - 1)
  <2> DEFINE f == x - 1
             h == z - 1
  <2>1. /\ n <= Len(s) /\ c <= n /\ 0 \in Nat /\ 0 <= h /\ h <= n - c /\ h \in Nat
        /\ f \in Nat /\ 0 <= f /\ f <= Len(s) /\ c <= f /\ f <= f - 0
        /\ 0 + 1 = 1 /\ c + 0 + 1 = c + 1 /\ 0 + c + 1 = c + 1 /\ c + h = f /\ 0 + f = f
    BY <1>1, <1>3, <1>4, <1>5 DEF n
  <2>2. c \in Nat
    BY <1>5
  <2> HIDE DEF c, z, f, h
  <2>3. SubSeq(SubSeq(s, c + 1, n), 0 + 1, h) = SubSeq(s, c + 0 + 1, c + h)
    BY <1>3, <2>1, <2>2, PartOfPart
  <2>4. SubSeq(SubSeq(s, 0 + 1, f), c + 1, f) = SubSeq(s, 0 + c + 1, 0 + f)
    BY <2>1, <2>2, PartOfPart
  <2>5. SubSeq(t, 1, h) = SubSeq(s, c + 1, f)
    BY <2>1, <2>3 DEF t
  <2>6. SubSeq(e, c + 1, f) = SubSeq(s, c + 1, f)
    BY <1>2, <2>1, <2>4 DEF f
  <2> QED BY <2>5, <2>6 DEF f, h
<1> QED BY <1>1, <1>5, <1>6, <1>7, <1>8, <1>9 DEF AheadIs, t, e, n

\* No buffer for a name takes two directives with a comma between them.
WordsFit(table, max) ==
    /\ Width(Comma) \in Nat
    /\ \A w \in table : Width(w) \in Nat /\ 2 * Width(w) > max - Width(Comma)

\* When "=" is found behind the first comma although all in front of it fits, the
\* first directive or the one behind it is none.
LEMMA NextIsNone ==
  ASSUME NEW s \in Seq(Words), HasWidths(s), NEW x, NEW y, NEW l, NEW max \in Nat, Ahead(s, x, y, l, max),
         NEW table, NEW takes, Tables(table, takes), WordsFit(table, max),
         IsDirective(Before(s, Comma), table, takes)
  PROVE  LET d == Before(SubSeq(s, (y + l) + 1, Len(s)), Comma)
         IN  Short(d, max) /\ ~IsDirective(d, table, takes)
<1> DEFINE n == Len(s)
           e == Before(s, Equals)
           first == Before(s, Comma)
           c == y + l
           t == SubSeq(s, c + 1, n)
           z == x - c
           d == Before(t, Comma)
           m == n - c
<1>1. /\ x \in Nat /\ y \in Nat /\ l \in Nat /\ y \in 1 .. n /\ x \in y + 1 .. n
      /\ z \in Nat \ {0} /\ c + z = x
      /\ t \in Seq(Words) /\ Len(t) = m
      /\ \A j \in 1 .. m : t[j] = s[c + j]
      /\ Splits(t, Equals, z)
      /\ Before(t, Equals) = SubSeq(e, c + 1, x - 1)
  <2>1. AheadIs(s, x, y, l)
    BY AheadFacts
  <2> QED BY <2>1, Zenon DEF AheadIs
<1>2. CutAt(s, x, y) /\ Fits(e, max)
  BY Zenon DEF Ahead
<1>3. /\ (y <= n => s[y] = Comma) /\ (\A j \in 1 .. x - 1 : s[j] # Equals)
      /\ first \in Seq(Words) /\ Len(first) = y - 1 /\ \A j \in 1 .. y - 1 : first[j] = s[j]
      /\ e \in Seq(Words) /\ Len(e) = x - 1 /\ \A j \in 1 .. x - 1 : e[j] = s[j]
      /\ e = SubSeq(s, 1, x - 1)
      /\ x >= y => \A j \in 1 .. y - 1 : first[j] # Equals
  BY <1>1, <1>2, CutFacts
<1>4. n \in Nat
  BY LenProperties
<1> HIDE DEF n, e, first, t, d
<1>5. c \in Nat /\ m \in Nat /\ c <= x - 1 /\ x - 1 \in Nat /\ x - 1 <= n /\ c <= n /\ y <= c
  BY <1>1, <1>4
<1>6. HasWidths(e)
  <2> DEFINE f == x - 1
  <2>1. 0 \in Nat /\ 0 <= f /\ f \in Nat /\ f <= Len(s) /\ 0 + 1 = 1
    BY <1>5 DEF n
  <2> HIDE DEF f
  <2>2. HasWidths(SubSeq(s, 0 + 1, f))
    BY <2>1, PartHasWidths
  <2> QED BY <1>3, <2>1, <2>2 DEF f
<1>7. HasWidths(t)
  <2>1. c \in Nat /\ n \in Nat /\ c <= n /\ n <= Len(s)
    BY <1>4, <1>5 DEF n
  <2> HIDE DEF c
  <2> QED BY <2>1, PartHasWidths DEF t
<1>8. Fits(Before(t, Equals), max)
  <2> DEFINE f == x - 1
  <2>1. c \in 0 .. Len(e) /\ f \in 0 .. Len(e) /\ c <= f
    BY <1>3, <1>5
  <2> HIDE DEF c, f
  <2>2. Fits(SubSeq(e, c + 1, f), max)
    BY <1>2, <1>3, <1>6, <2>1, PartOfWords
  <2> QED BY <1>1, <2>2 DEF f
<1>9. PICK w \in 1 .. Len(t) + 1 : Splits(t, Comma, w)
  BY <1>1, SplitExists
<1>10. w \in Nat /\ z \in Nat /\ CutAt(t, z, w)
  <2>1. w \in Nat
    BY <1>1, <1>5
  <2>2. z \in Nat
    BY <1>1
  <2> QED BY <1>1, <1>9, <2>1, <2>2, Zenon DEF CutAt
<1>11. Short(d, max)
  <2> HIDE DEF z
  <2> QED BY <1>1, <1>7, <1>8, <1>10, ShortFront DEF d
<1>12. d \in Seq(Words) /\ Len(d) = w - 1 /\ \A j \in 1 .. w - 1 : d[j] = t[j]
  <2> HIDE DEF z
  <2> QED BY <1>1, <1>10, CutFacts, SMTT(60) DEF d
<1>13. z <= Len(t) => t[z] = Equals
  <2> HIDE DEF z
  <2> QED BY <1>1 DEF Splits
<1>14. ASSUME IsDirective(d, table, takes) PROVE FALSE
  <2>1. Len(d) >= 1 /\ d[1] \in table
    BY <1>12, <1>14, BeginsInTable
  <2>2. first \in Alone(table)
    <3>1. x >= y
      BY <1>1, <1>4
    <3>2. \A j \in 1 .. Len(first) : first[j] # Equals
      BY <1>3, <3>1
    <3>3. IsDirective(first, table, takes)
      BY DEF first
    <3> QED BY <1>3, <3>2, <3>3, DirectiveWithout
  <2>3. Len(first) = 1 /\ first[1] \in table
    BY <1>3, <2>2, AloneFacts
  <2>4. y = 2
    <3>1. y - 1 = 1
      BY <1>3, <2>3, Zenon
    <3> QED BY <1>1, <3>1
  <2> DEFINE p == c + 1
  <2>5. 1 \in 1 .. w - 1 /\ 1 \in 1 .. m /\ p \in Nat
    <3>1. w - 1 >= 1 /\ w \in 1 .. m + 1
      BY <1>1, <1>9, <1>12, <2>1
    <3> QED BY <1>5, <1>10, <3>1
  <2>6. t[1] = s[p] /\ s[p] \in table
    BY <1>1, <1>12, <2>1, <2>5
  <2>7. z # 1
    <3>1. z = 1 => t[1] = Equals
      BY <1>1, <1>13, <2>5
    <3> QED BY <2>1, <2>5, <1>12, <3>1 DEF Tables
  <2>8. p \in 3 .. Len(e) /\ p \in 1 .. x - 1 /\ 1 \in 1 .. x - 1 /\ 2 \in 1 .. x - 1 /\ 1 \in 1 .. y - 1 /\ y <= n
    BY <1>1, <1>3, <1>4, <1>5, <2>4, <2>7
  <2>9. e[1] \in table /\ e[2] = Comma /\ e[p] \in table
    <3>1. e[1] = s[1] /\ e[2] = s[2] /\ e[p] = s[p] /\ first[1] = s[1] /\ s[y] = Comma
      <4> HIDE DEF p
      <4> QED BY <1>3, <2>8
    <3> HIDE DEF p
    <3> QED BY <2>3, <2>4, <2>6, <3>1
  <2>10. Width(e[1]) + Width(e[2]) + Width(e[p]) <= max
    <3> HIDE DEF p
    <3> QED BY <1>2, <1>3, <1>6, <2>8, ThreeTokens
  <2>11. /\ Width(Comma) \in Nat /\ Width(e[1]) \in Nat /\ Width(e[p]) \in Nat
         /\ 2 * Width(e[1]) > max - Width(Comma) /\ 2 * Width(e[p]) > max - Width(Comma)
    BY <2>9, Zenon DEF WordsFit
  <2>12. Width(e[2]) = Width(Comma)
    BY <2>9
  <2> DEFINE wa == Width(e[1])
             wb == Width(e[p])
             wc == Width(Comma)
  <2>13. wa + wc + wb <= max
    BY <2>10, <2>12
  <2> HIDE DEF wa, wb, wc, p
  <2> QED BY <2>11, <2>13 DEF wa, wb, wc
<1> QED BY <1>11, <1>14 DEF d, t, n

\* The item that begins behind k tokens is what stands in front of the next comma.
LEMMA ItemIs ==
  ASSUME NEW v \in Seq(Words), NEW r, ItemsOf(r, v), NEW k \in Nat, NEW i \in Nat, AtItem(r, v, k, i),
         NEW items, items = r[Len(v)]
  PROVE  items \in ItemLists /\ i \in 1 .. Len(items) /\ items[i] = Before(Left(v, k), Comma)
<1> DEFINE L == Left(v, k)
<1>1. k \in 0 .. Len(v) /\ i \in Nat \ {0}
  BY DEF AtItem
<1>2. L \in Seq(Words)
  BY <1>1, LeftFacts
<1>3. PICK y \in 1 .. Len(L) + 1 : Splits(L, ",", y)
  <2> HIDE DEF L
  <2> QED BY <1>2, SplitExists
<1>4. y \in Nat /\ CommaAt(v, k, y)
  <2>1. Len(L) \in Nat
    BY <1>2, LenProperties
  <2> HIDE DEF L
  <2>2. y \in Nat
    BY <2>1
  <2> QED BY <1>3, <2>2, Zenon DEF CommaAt, L
<1>5. items \in ItemLists /\ i <= Len(items) /\ items[i] = Before(L, ",")
  <2>1. r[Len(v)] \in ItemLists /\ i <= Len(r[Len(v)]) /\ r[Len(v)][i] = Before(Left(v, k), ",")
    <3>1. ItemEnds(r, v, k, i, y)
      BY <1>4, ItemAhead
    <3> QED BY <3>1, Zenon DEF ItemEnds
  <2> QED BY <2>1, Zenon
<1>6. Len(items) \in Nat
  BY <1>5 DEF ItemLists
<1>7. i \in 1 .. Len(items)
  <2> DEFINE z == Len(items)
  <2>1. z \in Nat /\ i <= z /\ i \in Nat \ {0}
    BY <1>1, <1>5, <1>6, Zenon
  <2> HIDE DEF z
  <2> QED BY <2>1 DEF z
<1> QED BY <1>5, <1>7, Zenon DEF Comma

\* When the three searches take several directives for one name, the list is not
\* one of the grammar.
LEMMA TwoNames ==
  ASSUME NEW v \in Seq(Words), HasWidths(v), NEW r, ItemsOf(r, v), NEW k \in Nat, NEW i \in Nat,
         AtItem(r, v, k, i), NEW items, items = r[Len(v)],
         NEW x \in Nat, NEW y \in Nat, CutAt(Left(v, k), x, y), y < x, x <= Len(Left(v, k)),
         NEW max \in Nat, Fits(Before(Left(v, k), Equals), max),
         NEW table, NEW takes, Tables(table, takes), WordsFit(table, max),
         GoodUpTo(items, i - 1, table, takes, max)
  PROVE  ~Allowed(items, table, takes, max)
<1> DEFINE n == Len(v)
           s == Left(v, k)
           d == Before(s, Comma)
           m == n - k
<1>1. n \in Nat /\ k \in 0 .. n /\ k <= n /\ m \in Nat
  BY LenProperties DEF AtItem
<1>2. s \in Seq(Words) /\ Len(s) = m /\ \A j \in 1 .. m : s[j] = v[k + j]
  BY <1>1, LeftFacts
<1>3. HasWidths(s)
  BY <1>1, PartHasWidths DEF Left
<1>4. items \in ItemLists /\ i \in 1 .. Len(items) /\ items[i] = d
  BY ItemIs
<1>5. Short(d, max)
  <2> HIDE DEF s
  <2> QED BY <1>2, <1>3, ShortFront DEF s
<1>6. CASE ~IsDirective(d, table, takes)
  <2> HIDE DEF d
  <2> QED BY <1>4, <1>5, <1>6, NotAllowed
<1>7. CASE IsDirective(d, table, takes)
  <2>1. y <= n - k
    BY <1>1, <1>2
  <2>2. CommaAt(v, k, y)
    BY Zenon DEF CommaAt, CutAt, Comma
  <2>3. PICK l \in Nat : AtItem(r, v, k + y + l, i + 1) /\ Spaces(v, k + y, l)
    BY <2>1, <2>2, ItemNext, Zenon
  <2> DEFINE c == y + l
             q == k + c
             t == SubSeq(s, c + 1, Len(s))
             e == Before(t, Comma)
  <2>4. AtItem(r, v, q, i + 1) /\ \A j \in 1 .. l : v[k + (y + j)] = Space
    <3>1. k + y + l = q /\ \A j \in 1 .. l : k + y + j = k + (y + j)
      OBVIOUS
    <3> HIDE DEF q
    <3> QED BY <2>3, <3>1 DEF Spaces
  <2>5. c \in Nat /\ q \in Nat /\ c \in 0 .. m /\ q \in 0 .. n
    <3>1. q \in 0 .. Len(v)
      <4> HIDE DEF q
      <4> QED BY <2>4, Zenon DEF AtItem
    <3> QED BY <1>1, <3>1
  <2>6. Ahead(s, x, y, l, max)
    <3>1. y + l <= Len(s)
      BY <1>1, <1>2, <2>5
    <3>2. ASSUME NEW j \in 1 .. l PROVE s[y + j] = Space
      <4>1. y + j \in 1 .. m
        BY <1>1, <2>5
      <4> HIDE DEF s, m
      <4> QED BY <1>2, <2>4, <4>1
    <3> HIDE DEF s
    <3> QED BY <3>1, <3>2, Zenon DEF Ahead, s
  <2>7. Short(e, max) /\ ~IsDirective(e, table, takes)
    <3> HIDE DEF s
    <3> QED BY <1>2, <1>3, <1>7, <2>6, NextIsNone DEF d
  <2>8. t = Left(v, q)
    <3> HIDE DEF c
    <3> QED BY <1>1, <2>5, LeftOfLeft
  <2>9. i + 1 \in 1 .. Len(items) /\ items[i + 1] = e
    <3> DEFINE f == i + 1
    <3>1. f \in Nat
      OBVIOUS
    <3> HIDE DEF f, q, t
    <3>2. f \in 1 .. Len(items) /\ items[f] = Before(Left(v, q), Comma)
      BY <2>4, <2>5, <3>1, ItemIs, SMTT(60) DEF f
    <3> QED BY <2>8, <3>2 DEF f
  <2>10. GoodUpTo(items, (i + 1) - 1, table, takes, max)
    <3>1. Good(items[i], table, takes, max)
      BY <1>4, <1>5, <1>7, Zenon DEF Good
    <3>2. GoodUpTo(items, i, table, takes, max)
      BY <3>1, GoodOneMore
    <3>3. (i + 1) - 1 = i
      OBVIOUS
    <3> QED BY <3>2, <3>3
  <2> HIDE DEF e
  <2> QED BY <1>4, <2>7, <2>9, <2>10, NotAllowed
<1> QED BY <1>6, <1>7

-----------------------------------------------------------------------------
(* The loop and the list                                                   *)

\* The loop has read the items in front of the i-th, which all pass, and stands there.
StandsAt(v, r, st, t, k, i, table, takes, max) ==
    /\ AtItem(r, v, k, i) /\ st.left = Left(v, k) /\ t <= k
    /\ GoodUpTo(r[Len(v)], i - 1, table, takes, max)

\* What makes the loop over a request's value exact
AllFits(v, table, max, limit) == AllFit(limit) /\ WordsFit(table, max) /\ HasWidths(v)

\* What holds of the loop behind t passes
Judging(v, r, st, t, table, takes, max, limit) ==
    /\ st \in PassStates
    /\ IsOpen(st) => \E k, i \in Nat : StandsAt(v, r, st, t, k, i, table, takes, max)
    /\ IsAccepted(st) => Allowed(r[Len(v)], table, takes, max)
    /\ IsRefused(st) => (AllFits(v, table, max, limit) => ~Allowed(r[Len(v)], table, takes, max))

\* The loop comes to the end of the i-th item.
LEMMA ItemIsJudged ==
  ASSUME NEW v \in Seq(Words), NEW r, ItemsOf(r, v), NEW k \in Nat, NEW i \in Nat, NEW t \in Nat,
         NEW table, NEW takes, Tables(table, takes), NEW max \in Nat, NEW limit,
         NEW st, StandsAt(v, r, st, t, k, i, table, takes, max),
         NEW x \in Nat, NEW y \in Nat, CutAt(st.left, x, y),
         NEW next, next \in PassStates, Outcome(st.left, next, x, y, table, takes, max, limit)
  PROVE  Judging(v, r, next, t + 1, table, takes, max, limit)
<1> DEFINE n == Len(v)
           items == r[n]
           s == Left(v, k)
           d == Before(s, Comma)
           m == n - k
<1>1. AtItem(r, v, k, i) /\ st.left = s /\ t <= k /\ GoodUpTo(items, i - 1, table, takes, max)
  BY Zenon DEF StandsAt
<1>2. n \in Nat /\ k \in 0 .. n /\ m \in Nat /\ s \in Seq(Words) /\ Len(s) = m
  <2>1. n \in Nat /\ k \in 0 .. n
    BY <1>1, LenProperties DEF AtItem
  <2>2. s \in Seq(Words) /\ Len(s) = m
    BY <2>1, LeftFacts
  <2> HIDE DEF n
  <2>3. m \in Nat
    BY <2>1
  <2> QED BY <2>1, <2>2, <2>3
<1>3. items \in ItemLists /\ i \in 1 .. Len(items) /\ items[i] = d
  BY <1>1, ItemIs
<1>4. CutAt(s, x, y) /\ Outcome(s, next, x, y, table, takes, max, limit)
  BY <1>1, Zenon
<1>5. \/ IsAccepted(next) /\ ~Short(d, max)
      \/ IsAccepted(next) /\ Good(d, table, takes, max) /\ y = m + 1
      \/ /\ IsOpen(next) /\ Good(d, table, takes, max) /\ y <= m
         /\ next.left = SkipSpaces(SubSeq(s, y + 1, Len(s)))
      \/ /\ IsRefused(next)
         /\ AllFit(limit) /\ HasWidths(s) =>
                             \/ Short(d, max) /\ ~IsDirective(d, table, takes)
                             \/ y < x /\ x <= m /\ Fits(Before(s, Equals), max)
  BY <1>2, <1>4, Zenon DEF Outcome
<1>6. /\ IsOpen(next) => ~IsAccepted(next) /\ ~IsRefused(next)
      /\ IsAccepted(next) => ~IsRefused(next)
  BY VerdictFacts
<1>7. CommaAt(v, k, y) /\ y \in 1 .. m + 1 /\ ItemEnds(r, v, k, i, y)
  <2>1. CommaAt(v, k, y)
    BY <1>4, Zenon DEF CommaAt, CutAt, Comma
  <2>2. ItemEnds(r, v, k, i, y)
    BY <1>1, <2>1, ItemAhead
  <2> QED BY <2>1, <2>2, Zenon DEF ItemEnds
<1>8. ASSUME Good(d, table, takes, max) PROVE GoodUpTo(items, i, table, takes, max)
  <2> HIDE DEF items, d
  <2> QED BY <1>1, <1>3, <1>8, GoodOneMore
<1> SUFFICES Judging(v, r, next, t + 1, table, takes, max, limit)
  OBVIOUS
<1> HIDE DEF items, d
<1>9. CASE IsAccepted(next) /\ ~Short(d, max)
  <2>1. Allowed(items, table, takes, max)
    BY <1>1, <1>3, <1>9, EndsAtLong
  <2> QED BY <1>6, <1>9, <2>1, Zenon DEF Judging, items
<1>10. CASE IsAccepted(next) /\ Good(d, table, takes, max) /\ y = m + 1
  <2>1. Len(items) = i
    BY <1>7, <1>10, Zenon DEF ItemEnds, items
  <2>2. Allowed(items, table, takes, max)
    BY <1>3, <1>8, <1>10, <2>1, AllGood
  <2> QED BY <1>6, <1>10, <2>2, Zenon DEF Judging, items
<1>11. CASE /\ IsOpen(next) /\ Good(d, table, takes, max) /\ y <= m
            /\ next.left = SkipSpaces(SubSeq(s, y + 1, Len(s)))
  <2>1. PICK l \in Nat : /\ AtItem(r, v, k + y + l, i + 1)
                         /\ SkipSpaces(SubSeq(s, y + 1, Len(s))) = Left(v, k + y + l)
    <3>1. y <= Len(v) - k
      BY <1>11
    <3>2. \E l \in Nat :
            LET q == k + y + l
                L == Left(v, k)
            IN  /\ AtItem(r, v, q, i + 1) /\ Spaces(v, k + y, l)
                /\ SkipSpaces(SubSeq(L, y + 1, Len(L))) = Left(v, q)
      BY <1>1, <1>7, <3>1, ItemNext
    <3> QED BY <3>2, Zenon
  <2> DEFINE q == k + y + l
             f == i + 1
  <2>2. q \in Nat /\ f \in Nat /\ t + 1 <= q /\ f - 1 = i
    BY <1>1, <1>7
  <2> HIDE DEF q, f
  <2>3. AtItem(r, v, q, f) /\ next.left = Left(v, q)
    BY <1>11, <2>1, Zenon DEF q, f
  <2>4. GoodUpTo(r[Len(v)], f - 1, table, takes, max)
    BY <1>8, <1>11, <2>2 DEF items
  <2>5. StandsAt(v, r, next, t + 1, q, f, table, takes, max)
    BY <2>2, <2>3, <2>4, Zenon DEF StandsAt
  <2> QED BY <1>6, <1>11, <2>2, <2>5, Zenon DEF Judging
<1>12. CASE /\ IsRefused(next)
            /\ AllFit(limit) /\ HasWidths(s) =>
                                \/ Short(d, max) /\ ~IsDirective(d, table, takes)
                                \/ y < x /\ x <= m /\ Fits(Before(s, Equals), max)
  <2>1. ASSUME AllFits(v, table, max, limit) PROVE ~Allowed(items, table, takes, max)
    <3>1. AllFit(limit) /\ WordsFit(table, max) /\ HasWidths(v)
      BY <2>1, Zenon DEF AllFits
    <3>2. HasWidths(s)
      <4>1. k <= n /\ n <= Len(v) /\ k \in Nat /\ n \in Nat
        BY <1>2
      <4> HIDE DEF n
      <4>2. HasWidths(SubSeq(v, k + 1, n))
        BY <3>1, <4>1, PartHasWidths
      <4> QED BY <4>2 DEF Left, n
    <3>3. CASE Short(d, max) /\ ~IsDirective(d, table, takes)
      BY <1>1, <1>3, <3>3, NotAllowed
    <3>4. CASE y < x /\ x <= m /\ Fits(Before(s, Equals), max)
      <4>1. x <= Len(s)
        BY <1>2, <3>4, Zenon
      <4> HIDE DEF s, m
      <4> QED BY <1>1, <1>4, <3>1, <3>4, <4>1, TwoNames DEF items, n, s
    <3> QED BY <1>12, <3>1, <3>2, <3>3, <3>4, Zenon
  <2> QED BY <1>6, <1>12, <2>1, Zenon DEF Judging, items
<1> QED BY <1>5, <1>9, <1>10, <1>11, <1>12, Zenon

\* Before its first pass the loop stands at the first item.
LEMMA JudgingStarts ==
  ASSUME NEW v \in Seq(Words), NEW r, ItemsOf(r, v),
         NEW table, NEW takes, NEW max, NEW limit
  PROVE  Judging(v, r, Start(v), 0, table, takes, max, limit)
<1> DEFINE st == Start(v)
           n == Len(v)
<1>1. st \in PassStates
  <2> DEFINE S == Seq(Words)
             V == Verdicts
  <2>1. v \in S /\ "open" \in V
    BY DEF Verdicts
  <2> HIDE DEF S, V
  <2>2. st \in [left : S, verdict : V]
    BY <2>1 DEF Start
  <2> QED BY <2>2, Zenon DEF PassStates, S, V
<1>2. st.left = v /\ st.verdict = "open"
  BY DEF Start
<1>3. IsOpen(st)
  BY <1>2, Zenon DEF IsOpen
<1>4. AtItem(r, v, 0, 1)
  <2>1. 0 \in 0 .. Len(v) /\ 1 \in Nat \ {0}
    BY LenProperties
  <2>2. r[0] = << <<>> >>
    BY Zenon DEF ItemsOf
  <2> DEFINE a == r[0]
  <2>3. Len(a) = 1 /\ a[1] = <<>>
    BY <2>2
  <2> HIDE DEF a
  <2> QED BY <2>1, <2>3, Zenon DEF AtItem, a
<1>5. Left(v, 0) = v
  <2>1. SubSeq(v, 1, Len(v)) = v
    BY WholePart
  <2>2. 0 + 1 = 1
    OBVIOUS
  <2> QED BY <2>1, <2>2, Zenon DEF Left
<1>6. GoodUpTo(r[Len(v)], 1 - 1, table, takes, max)
  <2>1. \A j \in 1 .. 1 - 1 : FALSE
    OBVIOUS
  <2> QED BY <2>1, Zenon DEF GoodUpTo
<1>7. 0 \in Nat /\ 1 \in Nat /\ 0 <= 0
  OBVIOUS
<1>8. StandsAt(v, r, st, 0, 0, 1, table, takes, max)
  BY <1>2, <1>4, <1>5, <1>6, <1>7, Zenon DEF StandsAt
<1>9. ~IsAccepted(st) /\ ~IsRefused(st)
  BY <1>1, <1>3, VerdictFacts
<1> QED BY <1>1, <1>7, <1>8, <1>9, Zenon DEF Judging

\* Every pass keeps the invariant of the loop.
LEMMA JudgingGoes ==
  ASSUME NEW v \in Seq(Words), NEW r, ItemsOf(r, v), NEW t \in Nat,
         NEW table, NEW takes, Tables(table, takes), NEW max \in Nat, NEW limit,
         NEW st, Judging(v, r, st, t, table, takes, max, limit)
  PROVE  Judging(v, r, Pass(st, table, takes, max, limit), t + 1, table, takes, max, limit)
<1> DEFINE next == Pass(st, table, takes, max, limit)
<1>1. st \in PassStates
  BY Zenon DEF Judging
<1>2. CASE IsOpen(st)
  <2>1. PICK k, i \in Nat : StandsAt(v, r, st, t, k, i, table, takes, max)
    BY <1>2, Zenon DEF Judging
  <2>2. st.left \in Seq(Words)
    BY <1>1, StateFacts
  <2>3. PICK x, y \in Nat : CutAt(st.left, x, y)
    BY <2>2, CutExists
  <2>4. next \in PassStates /\ Outcome(st.left, next, x, y, table, takes, max, limit)
    BY <1>1, <1>2, <2>3, PassOutcome
  <2> HIDE DEF next
  <2>5. Judging(v, r, next, t + 1, table, takes, max, limit)
    BY <2>1, <2>3, <2>4, ItemIsJudged
  <2> QED BY <2>5 DEF next
<1>3. CASE ~IsOpen(st)
  <2>1. next = st
    BY <1>1, <1>3, PassStays
  <2>2. Judging(v, r, st, t + 1, table, takes, max, limit)
    BY <1>3, Zenon DEF Judging
  <2> QED BY <2>1, <2>2, Zenon
<1> QED BY <1>2, <1>3

\* The loop over a Cache-Control value and the grammar
LEMMA ListsAgree ==
  ASSUME NEW v \in Seq(Words), NEW table, NEW takes, Tables(table, takes), NEW max \in Nat, NEW limit
  PROVE  /\ CacheControlOk(v, table, takes, max, limit) => IsCacheControl(v, table, takes, max)
         /\ AllFits(v, table, max, limit)
                => (IsCacheControl(v, table, takes, max) => CacheControlOk(v, table, takes, max, limit))
<1> DEFINE n == Len(v)
           m == n + 1
           ok == CacheControlOk(v, table, takes, max, limit)
           is == IsCacheControl(v, table, takes, max)
<1>1. PICK p : /\ Passes(p, v, table, takes, max, limit)
               /\ ok <=> IsAccepted(p[m])
  BY PassesExist
<1>2. PICK r : ItemsOf(r, v) /\ r[n] = ListItems(v)
  BY ItemsExist
<1>3. n \in Nat /\ m \in Nat
  <2>1. n \in Nat
    BY LenProperties
  <2> QED BY <2>1
<1> DEFINE items == r[n]
           T == {t \in 0 .. m : Judging(v, r, p[t], t, table, takes, max, limit)}
<1>4. 0 \in T
  <2>1. Judging(v, r, Start(v), 0, table, takes, max, limit)
    BY <1>2, JudgingStarts
  <2>2. 0 \in 0 .. m
    BY <1>3
  <2>3. p[0] = Start(v)
    BY <1>1, Zenon DEF Passes
  <2> QED BY <2>1, <2>2, <2>3, Zenon
<1>5. ASSUME NEW t \in 1 .. m, t - 1 \in T PROVE t \in T
  <2> DEFINE f == t - 1
  <2>1. f \in Nat /\ f + 1 = t /\ t \in 0 .. m
    BY <1>3
  <2>2. Judging(v, r, p[f], f, table, takes, max, limit)
    BY <1>5, Zenon
  <2>3. p[t] = Pass(p[f], table, takes, max, limit)
    BY <1>1, Zenon DEF Passes
  <2> HIDE DEF f
  <2>4. Judging(v, r, Pass(p[f], table, takes, max, limit), f + 1, table, takes, max, limit)
    BY <1>2, <2>1, <2>2, JudgingGoes
  <2> QED BY <2>1, <2>3, <2>4, Zenon
<1>6. m \in T
  <2>1. \A t \in 0 .. m : t \in T
    <3> HIDE DEF T, m
    <3> QED BY <1>3, <1>4, <1>5, CountUp, Zenon
  <2>2. m \in 0 .. m
    BY <1>3
  <2> QED BY <2>1, <2>2, Zenon
<1> DEFINE st == p[m]
<1>7. Judging(v, r, st, m, table, takes, max, limit)
  BY <1>6, Zenon
<1> HIDE DEF m
<1>8. ~IsOpen(st)
  <2> SUFFICES ASSUME IsOpen(st) PROVE FALSE
    OBVIOUS
  <2>1. PICK k, i \in Nat : StandsAt(v, r, st, m, k, i, table, takes, max)
    BY <1>7, Zenon DEF Judging
  <2>2. k \in 0 .. n /\ m <= k
    BY <2>1, Zenon DEF StandsAt, AtItem
  <2> HIDE DEF n
  <2> QED BY <1>3, <2>2 DEF m
<1>9. st \in PassStates /\ (IsAccepted(st) => Allowed(items, table, takes, max))
      /\ (IsRefused(st) => (AllFits(v, table, max, limit) => ~Allowed(items, table, takes, max)))
  BY <1>7, Zenon DEF Judging
<1>10. IsAccepted(st) \/ IsRefused(st)
  BY <1>8, <1>9, VerdictFacts
<1>11. is <=> Allowed(items, table, takes, max)
  <2>1. n \in 0 .. n
    BY <1>3
  <2>2. items \in ItemLists
    BY <1>2, <2>1, Zenon DEF ItemsOf
  <2> HIDE DEF items
  <2>3. items = ListItems(v)
    BY <1>2, Zenon DEF items
  <2> QED BY <2>2, <2>3, GrammarIs
<1> QED BY <1>1, <1>9, <1>10, <1>11, Zenon

\* The tables of src/src/http/http_headers.c
LEMMA TablesOfDirectives ==
  /\ Tables(ReqDirectives, ReqTakesValue)
  /\ Tables(ResDirectives, ResTakesValue)
<1>1. /\ Comma \notin ReqDirectives /\ Equals \notin ReqDirectives /\ Space \notin ReqDirectives
      /\ Comma \notin ResDirectives /\ Equals \notin ResDirectives /\ Space \notin ResDirectives
  BY Zenon DEF ReqDirectives, ResDirectives, Comma, Equals, Space
<1>2. ReqTakesValue \subseteq ReqDirectives /\ ResTakesValue \subseteq ResDirectives
  BY Zenon DEF ReqDirectives, ResDirectives, ReqTakesValue, ResTakesValue
<1> QED BY <1>1, <1>2, Zenon DEF Tables

\* str_to_int gives no number that is too large for an int.
LEMMA IntsFit == AllFit(MaxInt)
<1>1. ASSUME NEW w \in Numbers PROVE ~(NumberOf[w] > MaxInt)
  <2> DEFINE u == NumberOf[w]
  <2>1. u = 0 \/ u = 1 \/ u = 5 \/ u = 13 \/ u = MaxResSeconds + 1 \/ u = -1
    BY Zenon DEF Numbers, NumberOf
  <2> HIDE DEF u
  <2>2. ~(u > MaxInt)
    BY <2>1 DEF MaxInt, MaxResSeconds
  <2> QED BY <2>2 DEF u
<1> QED BY <1>1 DEF AllFit
=============================================================================
