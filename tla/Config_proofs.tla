--------------------------- MODULE Config_proofs ---------------------------
(***************************************************************************)
(* Proofs about Config, for any files, origins and limits.                 *)
(***************************************************************************)
EXTENDS Config, Lemmas

-----------------------------------------------------------------------------
(* The lists of the file                                                   *)

\* Lists of at most max acceptable strings
Lists(accepted, max) == {q \in Seq(accepted) : Len(q) <= max}

LEMMA PushFacts ==
  ASSUME NEW accepted, NEW max \in Nat, NEW list \in Lists(accepted, max), NEW s
  PROVE  Push(list, s, accepted, max) \in Lists(accepted, max)
<1>1. list \in Seq(accepted) /\ Len(list) \in Nat /\ Len(list) <= max
  BY DEF Lists
<1>2. CASE s \in accepted /\ Len(list) < max
  <2>1. Append(list, s) \in Seq(accepted) /\ Len(Append(list, s)) = Len(list) + 1
    BY <1>1, <1>2, AppendProperties
  <2>2. Append(list, s) \in Lists(accepted, max)
    BY <1>1, <1>2, <2>1 DEF Lists
  <2> QED BY <2>2 DEF Push
<1>3. CASE ~(s \in accepted /\ Len(list) < max)
  BY <1>3, Zenon DEF Push
<1> QED BY <1>2, <1>3

\* A list of the file replaces the old one by acceptable strings or leaves it alone.
LEMMA ReadListFacts ==
  ASSUME NEW items \in Seq(STRING), NEW accepted, NEW max \in Nat, NEW old
  PROVE  \/ ReadList(old, items, accepted, max) = old
         \/ ReadList(old, items, accepted, max) \in Lists(accepted, max)
<1> DEFINE S == DOMAIN items
           A == Lists(accepted, max)
           ch == [s \in SUBSET S |-> Max(s)]
           G == [p \in S \X A |-> Push(p[2], items[p[1]], accepted, max)]
           Body(g) == [s \in SUBSET S |->
                         IF s = {} THEN <<>>
                         ELSE Push(g[s \ {Max(s)}], items[Max(s)], accepted, max)]
           iter == CHOOSE g : g = Body(g)
<1>1. IsFiniteSet(S) /\ S = 1 .. Len(items) /\ Len(items) \in Nat
  BY FS_Interval
<1>2. Chooses(ch, S)
  BY <1>1, LastPosition DEF Chooses
<1>3. <<>> \in A
  <2>1. <<>> \in Seq(accepted) /\ Len(<<>>) = 0
    BY EmptySeq
  <2> QED BY <2>1 DEF Lists
<1>4. G \in [S \X A -> A]
  BY PushFacts
<1>5. PICK g \in [SUBSET S -> A] : Recursion(g, SUBSET S, <<>>, G, ch)
  <2> HIDE DEF S, A, ch, G
  <2> QED BY <1>1, <1>2, <1>3, <1>4, FoldExists, Zenon
<1>6. g = Body(g)
  <2>1. ASSUME NEW s \in SUBSET S
        PROVE  g[s] = IF s = {} THEN <<>>
                      ELSE Push(g[s \ {Max(s)}], items[Max(s)], accepted, max)
    <3>1. CASE s = {}
      BY <1>5, <3>1 DEF Recursion
    <3>2. CASE s # {}
      <4>1. g[s] = G[<<ch[s], g[s \ {ch[s]}]>>]
        BY <1>5, <3>2 DEF Recursion
      <4>2. ch[s] = Max(s) /\ Max(s) \in S /\ s \ {Max(s)} \in SUBSET S
        BY <1>2, <3>2 DEF Chooses
      <4>3. g[s \ {Max(s)}] \in A
        BY <1>5, <4>2
      <4> QED BY <3>2, <4>1, <4>2, <4>3
    <3> QED BY <3>1, <3>2
  <2> HIDE DEF A
  <2> QED BY <1>5, <2>1
<1>7. iter = Body(iter)
  <2> HIDE DEF Body
  <2> QED BY <1>6, Zenon
<1> HIDE DEF iter
<1>8. iter[S] \in A
  <2>1. iter[{}] \in A
    BY <1>3, <1>7
  <2>2. ASSUME NEW s \in SUBSET S, s # {}, iter[s \ {ch[s]}] \in A
        PROVE  iter[s] \in A
    <3>1. iter[s] = Push(iter[s \ {ch[s]}], items[Max(s)], accepted, max)
      <4>1. iter[s] = Body(iter)[s]
        BY <1>7, Zenon
      <4>2. ch[s] = Max(s)
        BY DEF ch
      <4> HIDE DEF ch, S, iter
      <4>3. Body(iter)[s] = Push(iter[s \ {Max(s)}], items[Max(s)], accepted, max)
        BY <2>2
      <4> QED BY <4>1, <4>2, <4>3, Zenon
    <3>2. iter[s \ {ch[s]}] \in Lists(accepted, max)
      BY <2>2
    <3> HIDE DEF ch, S
    <3>3. iter[s] \in Lists(accepted, max)
      BY <3>1, <3>2, PushFacts
    <3> QED BY <3>3
  <2> HIDE DEF S, A, ch
  <2>3. \A s \in SUBSET S : iter[s] \in A
    BY <1>1, <1>2, <2>1, <2>2, FoldInduction, ZenonT(60)
  <2> QED BY <2>3
<1>9. FoldLeft(LAMBDA list, s : Push(list, s, accepted, max), <<>>, items) = iter[S]
  BY DEF FoldLeft, MapThenFoldSet, iter
<1> QED BY <1>8, <1>9, Zenon DEF ReadList

-----------------------------------------------------------------------------
(* The configuration                                                       *)

\* The texts of a list.  They are strings, all of them; that a literal is one is a
\* fact the provers do not have.
Texts == STRING \cup MethodNames \cup {Star}

ConfigState ==
    [name : 0 .. MaxNameLen, domain : 0 .. MaxDomainLen, port : MinPort .. MaxPort,
     path : BOOLEAN, credentials : BOOLEAN, secure : BOOLEAN, routes : Nat,
     origins : Lists(Texts, MaxOrigins), headers : Lists(Texts, MaxHeaders),
     methods : Lists(Texts, MaxMethods)]

\* The methods are the default, or all of them are names of methods.
MethodsInv == config.methods = <<Star>> \/ config.methods \in Lists(MethodNames, MaxMethods)

RoutesInv ==
    /\ capacity \in Nat /\ routes \in Nat /\ added \in Nat
    /\ routes <= added /\ routes <= capacity
    /\ pc # "add" => routes = 0

\* The CORS headers are those of the configuration, which is read before the first answer.
CorsInv == cors = NoCors \/ (pc = "add" /\ cors = CorsHeaders(config, cors.origin))

ConfigInv ==
    /\ pc \in {"start", "numbers", "lists", "secure", "routes", "add"}
    /\ file \in Files /\ config \in ConfigState
    /\ MethodsInv /\ RoutesInv /\ CorsInv

\* More may be accepted.
LEMMA WiderList ==
  ASSUME NEW S, NEW T, S \subseteq T, NEW max \in Nat, NEW q \in Lists(S, max)
  PROVE  q \in Lists(T, max)
<1>1. q \in Seq(S) /\ Len(q) <= max
  BY DEF Lists
<1>2. Len(q) \in Nat /\ \A k \in 1 .. Len(q) : q[k] \in S
  BY <1>1, ElementOfSeq
<1>3. q = [k \in 1 .. Len(q) |-> q[k]]
  BY <1>1
<1>4. q \in Seq(T)
  BY <1>2, <1>3, IsASeq
<1> QED BY <1>1, <1>4 DEF Lists

LEMMA DefaultTypes == Default \in ConfigState /\ Default.methods = <<Star>>
<1>1. ASSUME NEW max \in Nat \ {0} PROVE <<Star>> \in Lists(Texts, max)
  <2>1. Star \in Texts
    BY DEF Texts
  <2>2. <<Star>> \in Seq(Texts) /\ Len(<<Star>>) = 1
    BY <2>1
  <2> QED BY <2>2 DEF Lists
<1>2. MaxMethods \in Nat \ {0} /\ MaxOrigins \in Nat \ {0} /\ MaxHeaders \in Nat \ {0}
  BY ConfigAssumption DEF ConfigAssumption, MaxMethods
<1>3. /\ <<Star>> \in Lists(Texts, MaxOrigins) /\ <<Star>> \in Lists(Texts, MaxHeaders)
      /\ <<Star>> \in Lists(Texts, MaxMethods)
  BY <1>1, <1>2
<1> QED
  BY <1>3 DEF Default, ConfigState, MaxNameLen, MaxDomainLen, MinPort, MaxPort

\* What the file gives a field has the type of that field.
LEMMA FieldFacts ==
  ASSUME NEW f \in Files
  PROVE  /\ IsOptional(f.name, Nat) /\ IsOptional(f.domain, Nat)
         /\ IsOptional(f.port, Int) /\ IsOptional(f.routes, Nat)
         /\ IsOptional(f.credentials, BOOLEAN) /\ IsOptional(f.secure, BOOLEAN)
         /\ f.origins \in Seq(STRING) /\ f.headers \in Seq(STRING) /\ f.methods \in Seq(STRING)
BY ConfigAssumption DEF ConfigAssumption

LEMMA ReadTextFacts ==
  ASSUME NEW max \in Nat, NEW old \in 0 .. max, NEW field, IsOptional(field, Nat)
  PROVE  ReadText(old, field, max) \in 0 .. max
BY DEF ReadText, IsOptional

LEMMA ReadValueFacts ==
  ASSUME NEW S, NEW old \in S, NEW field, IsOptional(field, S)
  PROVE  ReadValue(old, field) \in S
BY DEF ReadValue, IsOptional

LEMMA ReadPortFacts ==
  ASSUME NEW old \in MinPort .. MaxPort, NEW field
  PROVE  ReadPort(old, field) \in MinPort .. MaxPort
BY DEF ReadPort

LEMMA InitConfigInv == Init => ConfigInv
<1> SUFFICES ASSUME Init PROVE ConfigInv
  OBVIOUS
<1>1. config \in ConfigState /\ MethodsInv
  BY DefaultTypes DEF Init, MethodsInv
<1> QED
  BY <1>1 DEF Init, ConfigInv, RoutesInv, CorsInv

LEMMA NextConfigInv == ConfigInv /\ [Next]_vars => ConfigInv'
<1> SUFFICES ASSUME ConfigInv, [Next]_vars PROVE ConfigInv'
  OBVIOUS
<1>0. file \in Files /\ config \in ConfigState /\ MethodsInv /\ RoutesInv /\ CorsInv
  BY DEF ConfigInv
\* Before the routes are sized no route and no answer is there.
<1> DEFINE Same == UNCHANGED <<file, routes, capacity, added, cors>>
<1>1. ASSUME NEW new \in ConfigState, NEW from, NEW to,
             Step(from, to, new), from # "add",
             to \in {"start", "numbers", "lists", "secure", "routes", "add"},
             new.methods = <<Star>> \/ new.methods \in Lists(MethodNames, MaxMethods)
      PROVE  ConfigInv'
  <2>1. pc = from /\ pc' = to /\ config' = new /\ Same
    BY <1>1 DEF Step
  <2>2. MethodsInv'
    BY <1>1, <2>1 DEF MethodsInv
  <2>3. CorsInv'
    BY <1>0, <1>1, <2>1 DEF CorsInv
  <2> QED
    BY <1>0, <1>1, <2>1, <2>2, <2>3 DEF ConfigInv, RoutesInv
<1>2. CASE NoFile
  <2> DEFINE new == [config EXCEPT !.path = FALSE]
  <2>1. new \in ConfigState /\ new.methods = config.methods
    BY <1>0 DEF ConfigState
  <2> QED
    BY <1>0, <1>1, <1>2, <2>1 DEF NoFile, MethodsInv
<1>3. CASE BadJson
  BY <1>0, <1>1, <1>3 DEF BadJson, MethodsInv
<1>4. CASE ReadTexts
  <2> DEFINE new == [config EXCEPT !.name = ReadText(@, file.name, MaxNameLen),
                                   !.domain = ReadText(@, file.domain, MaxDomainLen)]
  <2>1. /\ config.name \in 0 .. MaxNameLen /\ config.domain \in 0 .. MaxDomainLen
        /\ MaxNameLen \in Nat /\ MaxDomainLen \in Nat
    BY <1>0 DEF ConfigState, MaxNameLen, MaxDomainLen
  <2>2. /\ ReadText(config.name, file.name, MaxNameLen) \in 0 .. MaxNameLen
        /\ ReadText(config.domain, file.domain, MaxDomainLen) \in 0 .. MaxDomainLen
    BY <1>0, <2>1, FieldFacts, ReadTextFacts
  <2>3. new \in ConfigState /\ new.methods = config.methods
    BY <1>0, <2>2 DEF ConfigState
  <2> QED
    BY <1>0, <1>1, <1>4, <2>3 DEF ReadTexts, MethodsInv
<1>5. CASE ReadNumbers
  <2> DEFINE new == [config EXCEPT !.port = ReadPort(@, file.port),
                                   !.routes = ReadValue(@, file.routes),
                                   !.credentials = ReadValue(@, file.credentials)]
  <2>1. /\ config.port \in MinPort .. MaxPort /\ config.routes \in Nat
        /\ config.credentials \in BOOLEAN
    BY <1>0 DEF ConfigState
  <2>2. /\ ReadPort(config.port, file.port) \in MinPort .. MaxPort
        /\ ReadValue(config.routes, file.routes) \in Nat
        /\ ReadValue(config.credentials, file.credentials) \in BOOLEAN
    BY <1>0, <2>1, FieldFacts, ReadValueFacts, ReadPortFacts
  <2>3. new \in ConfigState /\ new.methods = config.methods
    BY <1>0, <2>2 DEF ConfigState
  <2> QED
    BY <1>0, <1>1, <1>5, <2>3 DEF ReadNumbers, MethodsInv
<1>6. CASE ReadLists
  <2> DEFINE origins == ReadList(config.origins, file.origins, Short(file.origins), MaxOrigins)
             headers == ReadList(config.headers, file.headers, Short(file.headers), MaxHeaders)
             methods == ReadList(config.methods, file.methods, Methods(file.methods), MaxMethods)
             new == [config EXCEPT
                       !.origins = ReadList(@, file.origins, Short(file.origins), MaxOrigins),
                       !.headers = ReadList(@, file.headers, Short(file.headers), MaxHeaders),
                       !.methods = ReadList(@, file.methods, Methods(file.methods), MaxMethods)]
  <2>1. ASSUME NEW items \in Seq(STRING)
        PROVE  Short(items) \subseteq Texts /\ Methods(items) \subseteq MethodNames
    BY DEF Short, Methods, Strings, Range, Texts
  <2>2. /\ file.origins \in Seq(STRING) /\ file.headers \in Seq(STRING)
        /\ file.methods \in Seq(STRING)
        /\ MaxOrigins \in Nat /\ MaxHeaders \in Nat /\ MaxMethods \in Nat
    BY <1>0, FieldFacts, ConfigAssumption DEF ConfigAssumption, MaxMethods
  <2>3. /\ config.origins \in Lists(Texts, MaxOrigins)
        /\ config.headers \in Lists(Texts, MaxHeaders)
        /\ config.methods \in Lists(Texts, MaxMethods)
    BY <1>0 DEF ConfigState
  <2>4. origins \in Lists(Texts, MaxOrigins)
    <3>1. origins = config.origins \/ origins \in Lists(Short(file.origins), MaxOrigins)
      BY <2>2, ReadListFacts, Zenon
    <3> QED BY <2>1, <2>2, <2>3, <3>1, WiderList, Zenon
  <2>5. headers \in Lists(Texts, MaxHeaders)
    <3>1. headers = config.headers \/ headers \in Lists(Short(file.headers), MaxHeaders)
      BY <2>2, ReadListFacts, Zenon
    <3> QED BY <2>1, <2>2, <2>3, <3>1, WiderList, Zenon
  <2>6. methods = config.methods \/ methods \in Lists(MethodNames, MaxMethods)
    <3>1. methods = config.methods \/ methods \in Lists(Methods(file.methods), MaxMethods)
      BY <2>2, ReadListFacts, Zenon
    <3> QED BY <2>1, <2>2, <3>1, WiderList, Zenon
  <2>7. methods \in Lists(Texts, MaxMethods)
    <3>1. MethodNames \subseteq Texts
      BY DEF Texts
    <3> QED BY <2>2, <2>3, <2>6, <3>1, WiderList, Zenon
  <2>8. methods = <<Star>> \/ methods \in Lists(MethodNames, MaxMethods)
    BY <1>0, <2>6, Zenon DEF MethodsInv
  <2> HIDE DEF origins, headers, methods
  <2>9. new = [config EXCEPT !.origins = origins, !.headers = headers, !.methods = methods]
    BY Zenon DEF origins, headers, methods
  <2>10. new \in ConfigState /\ new.methods = methods
    BY <1>0, <2>4, <2>5, <2>7, <2>9 DEF ConfigState
  <2> QED
    BY <1>1, <1>6, <2>8, <2>10 DEF ReadLists
<1>7. CASE ReadSecure
  <2> DEFINE new == [config EXCEPT !.secure = ReadValue(@, file.secure)]
  <2>1. ReadValue(config.secure, file.secure) \in BOOLEAN
    BY <1>0, FieldFacts, ReadValueFacts DEF ConfigState
  <2>2. new \in ConfigState /\ new.methods = config.methods
    BY <1>0, <2>1 DEF ConfigState
  <2> QED
    BY <1>0, <1>1, <1>7, <2>2 DEF ReadSecure, MethodsInv
<1>8. CASE RoutesInit
  <2>1. config.routes \in Nat
    BY <1>0 DEF ConfigState
  <2>2. /\ pc = "routes" /\ pc' = "add" /\ capacity' = RouteSize * config.routes
        /\ UNCHANGED <<file, config, routes, added, cors>>
    BY <1>8 DEF RoutesInit
  <2>3. CorsInv' /\ MethodsInv'
    BY <1>0, <2>2 DEF CorsInv, MethodsInv
  <2>4. RoutesInv'
    <3>1. RouteSize * config.routes \in Nat
      BY <2>1 DEF RouteSize
    <3> QED BY <1>0, <2>2, <3>1 DEF RoutesInv
  <2> QED
    BY <1>0, <2>2, <2>3, <2>4 DEF ConfigInv
<1>9. CASE AddRoute
  <2>1. /\ pc = "add" /\ added' = added + 1
        /\ routes' = IF routes < capacity THEN routes + 1 ELSE routes
        /\ UNCHANGED <<pc, file, config, capacity, cors>>
    BY <1>9 DEF AddRoute
  <2>2. CorsInv' /\ MethodsInv'
    BY <1>0, <2>1 DEF CorsInv, MethodsInv
  <2>3. RoutesInv'
    BY <1>0, <2>1 DEF RoutesInv
  <2> QED
    BY <1>0, <2>1, <2>2, <2>3 DEF ConfigInv
<1>10. ASSUME NEW origin \in Origins \cup {NoOrigin}, Preflight(origin)
       PROVE  ConfigInv'
  <2>1. /\ pc = "add" /\ cors' = CorsHeaders(config, origin)
        /\ UNCHANGED <<pc, file, config, routes, capacity, added>>
    BY <1>10 DEF Preflight
  <2>2. CorsHeaders(config, origin).origin = origin
    BY DEF CorsHeaders
  <2>3. CorsInv'
    BY <2>1, <2>2, Zenon DEF CorsInv
  <2> QED
    BY <1>0, <2>1, <2>3 DEF ConfigInv, MethodsInv, RoutesInv
<1>11. CASE UNCHANGED vars
  BY <1>0, <1>11 DEF vars, ConfigInv, MethodsInv, RoutesInv, CorsInv
<1> QED
  BY <1>2, <1>3, <1>4, <1>5, <1>6, <1>7, <1>8, <1>9, <1>10, <1>11 DEF Next

-----------------------------------------------------------------------------
(* What the configuration promises                                         *)

LEMMA ConfigInductive == Spec => []ConfigInv
BY InitConfigInv, NextConfigInv, PTL DEF Spec

\* Type correctness: whatever the file says, every field keeps its type, the port can
\* be bound (config.c:286-299), no list is longer than its limit and no route is
\* stored beyond the array (array_push, array.c).
THEOREM ConfigTypes == Spec => []TypeOK
<1>1. ConfigInv => TypeOK
  <2> SUFFICES ASSUME ConfigInv PROVE TypeOK
    OBVIOUS
  <2>1. config \in ConfigState
    BY DEF ConfigInv
  <2>2. /\ Len(config.origins) <= MaxOrigins /\ Len(config.headers) <= MaxHeaders
        /\ Len(config.methods) <= MaxMethods
    BY <2>1 DEF ConfigState, Lists
  <2>3. /\ config.port \in MinPort .. MaxPort
        /\ config.name \in 0 .. MaxNameLen /\ config.domain \in 0 .. MaxDomainLen
        /\ {config.credentials, config.secure, config.path} \subseteq BOOLEAN
    BY <2>1 DEF ConfigState
  <2> QED
    BY <2>2, <2>3, Zenon DEF ConfigInv, RoutesInv, TypeOK
<1> QED BY <1>1, ConfigInductive, PTL

\* The wildcard of the default never stands beside a method of the file:
\* cjson_read_arr_string clears the list before the first string is pushed
\* (config.c:136), and "*" is no name of a method.
THEOREM WildcardAlone == Spec => []WildcardIsAlone
<1>1. ConfigInv => WildcardIsAlone
  <2> SUFFICES ASSUME ConfigInv, config.methods # <<Star>>
               PROVE  Star \notin Range(config.methods)
    BY DEF WildcardIsAlone
  <2>1. config.methods \in Seq(MethodNames)
    BY DEF ConfigInv, MethodsInv, Lists
  <2>2. \A k \in DOMAIN config.methods : config.methods[k] \in MethodNames
    BY <2>1
  <2>3. Star \notin MethodNames
    BY DEF Star, MethodNames
  <2> QED BY <2>2, <2>3, Zenon DEF Range
<1> QED BY <1>1, ConfigInductive, PTL

\* What http_verify_origin returns (http.c:550-588): one of the two values, for an
\* origin the list has or when it is the wildcard alone, and the origin of the
\* request itself with credentials.
LEMMA AllowOriginFacts ==
  ASSUME NEW origins, NEW credentials, NEW origin, AllowOrigin(origins, credentials, origin) # <<>>
  PROVE  /\ credentials => AllowOrigin(origins, credentials, origin) = <<origin>>
         /\ origin \in Range(origins) \/ origins = <<Star>>
         /\ AllowOrigin(origins, credentials, origin) \in {<<Star>>, <<origin>>}
BY Zenon DEF AllowOrigin

\* No answer allows an origin that the configuration does not, and with credentials
\* only the origin of its own request.
THEOREM OriginsAllowed == Spec => []OriginsAreAllowedOnes
<1>1. ConfigInv => OriginsAreAllowedOnes
  <2> SUFFICES ASSUME ConfigInv, cors.allowOrigin # <<>>
               PROVE  /\ cors.credentials => cors.allowOrigin = <<cors.origin>>
                      /\ cors.origin \in Range(config.origins) \/ config.origins = <<Star>>
                      /\ cors.allowOrigin \in {<<Star>>, <<cors.origin>>}
    BY Zenon DEF OriginsAreAllowedOnes
  <2>1. cors # NoCors
    BY DEF NoCors
  <2>2. cors = CorsHeaders(config, cors.origin)
    BY <2>1, Zenon DEF ConfigInv, CorsInv
  <2>3. /\ cors.allowOrigin = AllowOrigin(config.origins, config.credentials, cors.origin)
        /\ cors.credentials = config.credentials
    BY <2>2 DEF CorsHeaders
  <2> DEFINE value == AllowOrigin(config.origins, config.credentials, cors.origin)
  <2>4. value # <<>>
    BY <2>3
  <2>5. /\ config.credentials => value = <<cors.origin>>
        /\ cors.origin \in Range(config.origins) \/ config.origins = <<Star>>
        /\ value \in {<<Star>>, <<cors.origin>>}
    BY <2>4, AllowOriginFacts
  <2> HIDE DEF value
  <2> QED
    BY <2>3, <2>5, Zenon DEF value
<1> QED BY <1>1, ConfigInductive, PTL

-----------------------------------------------------------------------------
(* The text of the methods                                                 *)

\* The letters of the methods in T
Letters(T) ==
    LET of(m) == IF m \in T THEN NameLength[m] ELSE 0
    IN  of("CONNECT") + of("DELETE") + of("GET") + of("HEAD") + of("OPTIONS")
        + of("PATCH") + of("POST") + of("PUT") + of("TRACE")

LEMMA LettersFacts ==
  ASSUME NEW T
  PROVE  /\ Letters(T) \in 0 .. 44
         /\ \A m \in MethodNames : NameLength[m] \in 3 .. 7 /\ (m \in T => Letters(T) >= 3)
BY DEF Letters, NameLength, MethodNames

LEMMA OneMoreMethod ==
  ASSUME NEW T, NEW m \in MethodNames, m \notin T
  PROVE  Letters(T \cup {m}) = Letters(T) + NameLength[m]
BY DEF Letters, NameLength, MethodNames

\* The sum of the numbers of a sequence
Added(f) == FoldLeft(+, 0, f)

\* The lengths of different methods add up to their letters.
LEMMA LengthsAddUp ==
  ASSUME NEW n \in Nat, NEW names \in [1 .. n -> MethodNames],
         \A i, j \in 1 .. n : names[i] = names[j] => i = j,
         NEW f, DOMAIN f = 1 .. n, \A i \in 1 .. n : f[i] = NameLength[names[i]]
  PROVE  Added(f) = Letters({names[i] : i \in 1 .. n})
<1> DEFINE S == 1 .. n
           ch == [s \in SUBSET S |-> Max(s)]
           G == [p \in S \X Nat |-> p[2] + f[p[1]]]
           Body(g) == [s \in SUBSET S |->
                         IF s = {} THEN 0 ELSE g[s \ {Max(s)}] + f[Max(s)]]
           iter == CHOOSE g : g = Body(g)
           Names(s) == {names[i] : i \in s}
           h == [s \in SUBSET S |-> iter[s] = Letters(Names(s))]
<1>1. IsFiniteSet(S)
  BY FS_Interval
<1>2. Chooses(ch, S)
  BY LastPosition DEF Chooses
<1>3. \A i \in S : f[i] \in Nat
  BY LettersFacts
<1>4. G \in [S \X Nat -> Nat]
  BY <1>3
<1>5. PICK g \in [SUBSET S -> Nat] : Recursion(g, SUBSET S, 0, G, ch)
  <2> HIDE DEF S, ch, G
  <2> QED BY <1>1, <1>2, <1>4, FoldExists
<1>6. g = Body(g)
  <2>1. ASSUME NEW s \in SUBSET S
        PROVE  g[s] = IF s = {} THEN 0 ELSE g[s \ {Max(s)}] + f[Max(s)]
    <3>1. CASE s = {}
      BY <1>5, <3>1 DEF Recursion
    <3>2. CASE s # {}
      <4>1. g[s] = G[<<ch[s], g[s \ {ch[s]}]>>]
        BY <1>5, <3>2 DEF Recursion
      <4>2. ch[s] = Max(s) /\ Max(s) \in S /\ s \ {Max(s)} \in SUBSET S
        BY <1>2, <3>2 DEF Chooses
      <4>3. g[s \ {Max(s)}] \in Nat
        BY <1>5, <4>2
      <4> QED BY <3>2, <4>1, <4>2, <4>3
    <3> QED BY <3>1, <3>2
  <2> QED BY <1>5, <2>1
<1>7. iter = Body(iter)
  <2> HIDE DEF Body
  <2> QED BY <1>6, Zenon
<1> HIDE DEF iter
<1>8. \A s \in SUBSET S : h[s] \in {TRUE}
  <2>1. h[{}] \in {TRUE}
    <3>1. iter[{}] = 0
      BY <1>7
    <3>2. Letters(Names({})) = 0
      BY DEF Letters
    <3> QED BY <3>1, <3>2
  <2>2. ASSUME NEW s \in SUBSET S, s # {}, h[s \ {ch[s]}] \in {TRUE}
        PROVE  h[s] \in {TRUE}
    <3> DEFINE x == Max(s)
               rest == s \ {x}
    <3>1. x \in s /\ ch[s] = x /\ rest \in SUBSET S
      BY <1>2, <2>2 DEF Chooses
    <3>2. iter[rest] = Letters(Names(rest))
      BY <2>2, <3>1
    <3>3. iter[s] = iter[rest] + f[x]
      <4>1. iter[s] = Body(iter)[s]
        BY <1>7, Zenon
      <4> HIDE DEF S, iter
      <4>2. Body(iter)[s] = iter[rest] + f[x]
        BY <2>2
      <4> QED BY <4>1, <4>2, Zenon
    <3>4. names[x] \in MethodNames /\ f[x] = NameLength[names[x]]
      BY <3>1
    <3> HIDE DEF x
    <3>5. names[x] \notin Names(rest)
      BY <3>1
    <3>6. Names(s) = Names(rest) \cup {names[x]}
      BY <3>1
    <3> HIDE DEF Names, rest
    <3>7. iter[s] = Letters(Names(s))
      BY <3>2, <3>3, <3>4, <3>5, <3>6, OneMoreMethod
    <3> QED BY <3>7
  <2> DEFINE A == {TRUE}
  <2>3. \A s \in SUBSET S : s # {} /\ h[s \ {ch[s]}] \in A => h[s] \in A
    BY <2>2
  <2>4. h[{}] \in A
    BY <2>1
  <2> HIDE DEF h, ch, S, A
  <2>5. \A s \in SUBSET S : h[s] \in A
    BY <1>1, <1>2, <2>3, <2>4, FoldInduction, ZenonT(60)
  <2> QED BY <2>5, Zenon DEF A
<1>9. iter[S] = Letters(Names(S))
  BY <1>8
<1>10. Added(f) = iter[S]
  BY DEF Added, FoldLeft, MapThenFoldSet, iter
<1> QED BY <1>9, <1>10

\* The text of different methods is written, and fits.
LEMMA MethodsTextFits ==
  ASSUME NEW methods \in Seq(MethodNames), Len(methods) \in 1 .. MaxMethods,
         IsInjective(methods), methods # <<Star>>
  PROVE  MethodsText(methods) \in 1 .. MethodsLen
<1> DEFINE n == Len(methods)
           length == [k \in DOMAIN methods |->
                        IF methods[k] \in MethodNames THEN NameLength[methods[k]] ELSE 1000]
           upTo(k) == Added(SubSeq(length, 1, k)) + (IF k > 1 THEN k - 1 ELSE 0)
           First(k) == {methods[i] : i \in 1 .. k}
<1>1. /\ n \in 1 .. 9 /\ DOMAIN methods = 1 .. n /\ methods # <<>>
      /\ \A i \in 1 .. n : methods[i] \in MethodNames
  <2>1. n \in 1 .. 9
    BY DEF MaxMethods
  <2>2. methods # <<>>
    BY <2>1, EmptySeq
  <2> QED BY <2>1, <2>2, ElementOfSeq
<1>2. \A i \in 1 .. n : length[i] = NameLength[methods[i]]
  BY <1>1
<1>3. ASSUME NEW k \in 0 .. n
      PROVE  Added(SubSeq(length, 1, k)) = Letters(First(k))
  <2> DEFINE names == [i \in 1 .. k |-> methods[i]]
             f == SubSeq(length, 1, k)
  <2>1. f = [i \in 1 .. k |-> length[i]]
    BY <1>1
  <2>2. k \in Nat /\ names \in [1 .. k -> MethodNames]
    BY <1>1
  <2>3. \A i, j \in 1 .. k : names[i] = names[j] => i = j
    BY <1>1 DEF IsInjective
  <2>4. DOMAIN f = 1 .. k /\ \A i \in 1 .. k : f[i] = NameLength[names[i]]
    BY <1>1, <1>2, <2>1
  <2>5. First(k) = {names[i] : i \in 1 .. k}
    OBVIOUS
  <2> HIDE DEF f, names, length, First, upTo, n
  <2>6. Added(f) = Letters({names[i] : i \in 1 .. k})
    BY <2>2, <2>3, <2>4, LengthsAddUp
  <2> QED BY <2>5, <2>6, Zenon DEF f
<1>4. ASSUME NEW k \in 1 .. n
      PROVE  length[k] + Letters(First(k - 1)) = Letters(First(k))
  <2>1. methods[k] \in MethodNames /\ methods[k] \notin First(k - 1)
    BY <1>1 DEF IsInjective
  <2>2. First(k) = First(k - 1) \cup {methods[k]}
    BY <1>1
  <2> HIDE DEF First
  <2>3. Letters(First(k)) = Letters(First(k - 1)) + NameLength[methods[k]]
    BY <2>1, <2>2, OneMoreMethod
  <2>4. NameLength[methods[k]] \in 3 .. 7 /\ Letters(First(k - 1)) \in 0 .. 44
    BY <2>1, LettersFacts, Zenon
  <2> HIDE DEF length
  <2>5. length[k] = NameLength[methods[k]]
    BY <1>2
  <2> DEFINE a == Letters(First(k))
             b == Letters(First(k - 1))
             c == NameLength[methods[k]]
             l == length[k]
  <2> HIDE DEF length, a, b, c, l
  <2>6. a = b + c /\ c \in 3 .. 7 /\ b \in 0 .. 44 /\ l = c
    BY <2>3, <2>4, <2>5, Zenon DEF a, b, c, l
  <2>7. l + b = a
    BY <2>6
  <2> QED BY <2>7, Zenon DEF l, a, b
<1>5. \A k \in 0 .. n : upTo(k) = Letters(First(k)) + (IF k > 1 THEN k - 1 ELSE 0)
  BY <1>3
<1> HIDE DEF length, First, upTo, n
<1>6. ~ \E k \in DOMAIN methods : length[k] + upTo(k - 1) > MethodsLen
  <2> SUFFICES ASSUME NEW k \in 1 .. n PROVE ~(length[k] + upTo(k - 1) > MethodsLen)
    BY <1>1
  <2>1. k - 1 \in 0 .. n /\ k \in 1 .. 9
    BY <1>1
  <2>2. upTo(k - 1) = Letters(First(k - 1)) + (IF k - 1 > 1 THEN k - 2 ELSE 0)
    BY <1>5, <2>1
  <2>3. Letters(First(k)) \in 0 .. 44 /\ Letters(First(k - 1)) \in 0 .. 44
    BY LettersFacts
  <2>4. length[k] \in Int
    BY <1>1, <1>2, LettersFacts
  <2>5. length[k] + Letters(First(k - 1)) = Letters(First(k))
    BY <1>4, Zenon
  <2> DEFINE before == Letters(First(k - 1))
             all == Letters(First(k))
             text == upTo(k - 1)
             l == length[k]
  <2> HIDE DEF before, all, text, l
  <2>6. l + before = all /\ before \in 0 .. 44 /\ all \in 0 .. 44 /\ l \in Int
    BY <2>3, <2>4, <2>5, Zenon DEF before, all, l
  <2>7. text = before + (IF k - 1 > 1 THEN k - 2 ELSE 0)
    BY <2>2, Zenon DEF text, before
  <2>8. ~(l + text > 52)
    BY <2>1, <2>6, <2>7
  <2> QED BY <2>8, Zenon DEF MethodsLen, l, text
<1>7. upTo(n) \in 1 .. MethodsLen
  <2>1. methods[1] \in First(n) /\ methods[1] \in MethodNames
    BY <1>1 DEF First
  <2>2. Letters(First(n)) \in 0 .. 44 /\ Letters(First(n)) >= 3
    BY <2>1, LettersFacts, Zenon
  <2>3. upTo(n) = Letters(First(n)) + (IF n > 1 THEN n - 1 ELSE 0)
    BY <1>1, <1>5
  <2>4. n \in 1 .. 9
    BY <1>1, Zenon
  <2>5. \A l \in 0 .. 44, m \in 1 .. 9 :
          l >= 3 => l + (IF m > 1 THEN m - 1 ELSE 0) \in 1 .. MethodsLen
    BY DEF MethodsLen
  <2> QED BY <2>2, <2>3, <2>4, <2>5, Zenon
<1>8. MethodsText(methods) =
        IF \E k \in DOMAIN methods : length[k] + upTo(k - 1) > MethodsLen THEN -1 ELSE upTo(n)
  BY <1>1, Zenon DEF MethodsText, length, upTo, n, Added
<1> QED BY <1>6, <1>7, <1>8

\* Different methods are always written in full, whatever their order: the length that
\* http_allowed_methods compares (http.c:596-630) never exceeds ALL_METHODS_LIST_STR_LEN,
\* nor does the text, which has one separator more.
THEOREM MethodsAreWritten == Spec => []MethodsFit
<1>1. ConfigInv => MethodsFit
  <2> SUFFICES ASSUME ConfigInv, cors # NoCors, config.methods # <<>>,
                      IsInjective(config.methods)
               PROVE  cors.methods \in 1 .. MethodsLen
    BY DEF MethodsFit
  <2>1. cors = CorsHeaders(config, cors.origin)
    BY Zenon DEF ConfigInv, CorsInv
  <2>2. cors.methods = MethodsText(config.methods)
    BY <2>1 DEF CorsHeaders
  <2>3. CASE config.methods = <<Star>>
    <3>1. MethodsText(config.methods) = 1
      BY <2>3 DEF MethodsText
    <3> QED BY <2>2, <3>1 DEF MethodsLen
  <2>4. CASE config.methods # <<Star>>
    <3>1. config.methods \in Lists(MethodNames, MaxMethods)
      BY <2>4 DEF ConfigInv, MethodsInv
    <3>2. config.methods \in Seq(MethodNames) /\ Len(config.methods) \in 1 .. MaxMethods
      <4>1. /\ config.methods \in Seq(MethodNames) /\ Len(config.methods) \in Nat
            /\ Len(config.methods) <= MaxMethods
        BY <3>1 DEF Lists
      <4>2. Len(config.methods) # 0
        BY <4>1, EmptySeq
      <4>3. \A m \in Nat : m <= MaxMethods /\ m # 0 => m \in 1 .. MaxMethods
        BY DEF MaxMethods
      <4> QED BY <4>1, <4>2, <4>3, Zenon
    <3> QED BY <2>2, <2>4, <3>2, MethodsTextFits
  <2> QED BY <2>3, <2>4
<1> QED BY <1>1, ConfigInductive, PTL
=============================================================================
