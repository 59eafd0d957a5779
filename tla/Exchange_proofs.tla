-------------------------- MODULE Exchange_proofs ---------------------------
(***************************************************************************)
(* Theorems about Exchange: whatever the request and whatever a callback   *)
(* calls, the texts of a response stay inside its buffers, an answer has   *)
(* its length, and the parser, the lookups and the judgement of a Cache-   *)
(* Control value do what their grammars say.  First what every function of *)
(* src/src/http/http.c that writes to a response preserves, for any number *)
(* of headers that a response may have; then that every step of            *)
(* http_process_request keeps it; then the scanners of a target.           *)
(***************************************************************************)
EXTENDS Exchange, HeaderFields_proofs

-----------------------------------------------------------------------------
(* The response                                                            *)

\* The type of a response: its buffers hold texts of these lengths.
Responses == [status : DOMAIN PhraseLength \cup {NoStatus}, start : 0 .. 49,
              count : 0 .. HeaderCapacity, length : Nat, contentLength : Int,
              contentLengths : Nat, body : Nat, ok : BOOLEAN]

\* The text of the headers is within the limits of its lines, by 8167 characters when
\* one of them is a Content-Length, which has 25 at most.
HeadersFit(r) ==
    r.length + (IF r.contentLengths > 0 THEN 8167 ELSE 0) <= 8192 * r.count

\* A body is short enough and never alone.
BodyHasLength(r) == r.body <= 1048578 /\ (r.body # 0 => r.contentLengths > 0)

ResponseInv(r) == r \in Responses /\ HeadersFit(r) /\ BodyHasLength(r)

\* A header line as the callers of korall_response_header_set make it
HeaderOk(h) == /\ h.length \in Nat /\ h.number \in Int
               /\ h.number >= 0 => h.length <= 25

\* The limits of http.h as numbers
LEMMA Limits ==
  /\ HeaderCapacity \in Nat \ {0} /\ HeaderLen = 8192 /\ BodyLen = 1048576
  /\ HeadersLen \in Nat /\ HeadersLen = 8192 * HeaderCapacity
  /\ ResSize = HeadersLen + 1048624
BY HeaderCapacityAssumption, SMT DEF HeaderLen, BodyLen, HeadersLen, ResSize, StartLineLen

-----------------------------------------------------------------------------
(* The functions                                                           *)

\* The result of the last function is not part of the invariant.
LEMMA OkInv ==
  ASSUME NEW r, ResponseInv(r), NEW ok \in BOOLEAN
  PROVE  ResponseInv([r EXCEPT !.ok = ok])
BY SMT DEF ResponseInv, Responses, HeadersFit, BodyHasLength

\* A response with one field replaced by another value of its type
LEMMA FieldSet ==
  ASSUME NEW r \in Responses
  PROVE  /\ \A x \in BOOLEAN : [r EXCEPT !.ok = x] \in Responses
         /\ \A x \in 0 .. HeaderCapacity : [r EXCEPT !.count = x] \in Responses
         /\ \A x \in Nat : [r EXCEPT !.length = x] \in Responses
         /\ \A x \in Int : [r EXCEPT !.contentLength = x] \in Responses
         /\ \A x \in Nat : [r EXCEPT !.contentLengths = x] \in Responses
         /\ \A x \in DOMAIN PhraseLength : [r EXCEPT !.status = x] \in Responses
         /\ \A x \in 0 .. 49 : [r EXCEPT !.start = x] \in Responses
         /\ \A x \in Nat : [r EXCEPT !.body = x] \in Responses
<1> USE DEF Responses
<1>1. ASSUME NEW x \in BOOLEAN PROVE [r EXCEPT !.ok = x] \in Responses
  BY SMT
<1>2. ASSUME NEW x \in 0 .. HeaderCapacity PROVE [r EXCEPT !.count = x] \in Responses
  BY SMT
<1>3. ASSUME NEW x \in Nat PROVE [r EXCEPT !.length = x] \in Responses
  BY SMT
<1>4. ASSUME NEW x \in Int PROVE [r EXCEPT !.contentLength = x] \in Responses
  BY SMT
<1>5. ASSUME NEW x \in Nat PROVE [r EXCEPT !.contentLengths = x] \in Responses
  BY SMT
<1>6. ASSUME NEW x \in DOMAIN PhraseLength PROVE [r EXCEPT !.status = x] \in Responses
  BY SMT
<1>7. ASSUME NEW x \in 0 .. 49 PROVE [r EXCEPT !.start = x] \in Responses
  BY SMT
<1>8. ASSUME NEW x \in Nat PROVE [r EXCEPT !.body = x] \in Responses
  BY SMT
<1> QED BY <1>1, <1>2, <1>3, <1>4, <1>5, <1>6, <1>7, <1>8, Zenon

\* korall_response_header_set keeps the invariant; it adds a line or changes nothing
\* but its result.
LEMMA HeaderSetInv ==
  ASSUME NEW r, ResponseInv(r), NEW h, HeaderOk(h)
  PROVE  LET s == HeaderSet(r, h)
         IN  /\ ResponseInv(s) /\ s.body = r.body /\ s.start = r.start
             /\ s.contentLengths >= r.contentLengths
             /\ s.ok /\ h.number >= 0 => s.contentLengths > 0
<1> DEFINE len == h.length
           num == h.number
           count == r.count
           length == r.length
           lengths == r.contentLengths
           room == 8192 * HeaderCapacity
<1>1. /\ r \in Responses /\ length \in Nat /\ count \in 0 .. HeaderCapacity /\ lengths \in Nat
      /\ r.contentLength \in Int
  BY SMT DEF ResponseInv, Responses
<1>2. len \in Nat /\ num \in Int /\ (num >= 0 => len <= 25)
  BY DEF HeaderOk
<1>3. length + (IF lengths > 0 THEN 8167 ELSE 0) <= 8192 * count
  BY SMT DEF ResponseInv, HeadersFit
<1>4. r.body <= 1048578 /\ (r.body # 0 => lengths > 0)
  BY SMT DEF ResponseInv, BodyHasLength
<1>5. CASE r.count >= HeaderCapacity \/ h.length > HeaderLen \/ ~h.valid
  <2> DEFINE s == [r EXCEPT !.ok = FALSE]
  <2>1. HeaderSet(r, h) = s
    BY <1>5, Zenon DEF HeaderSet
  <2>2. ResponseInv(s)
    BY OkInv, Zenon
  <2>3. /\ s.body = r.body /\ s.start = r.start /\ s.contentLengths = lengths
        /\ s.ok = FALSE
    BY <1>1, SMT DEF Responses
  <2> HIDE DEF s, lengths
  <2>4. s.contentLengths >= lengths
    BY <1>1, <2>3, SMT
  <2> QED BY <2>1, <2>2, <2>3, <2>4, Zenon DEF lengths
<1>6. CASE ~(r.count >= HeaderCapacity \/ h.length > HeaderLen \/ ~h.valid)
  <2> DEFINE number == IF num >= 0 THEN num ELSE r.contentLength
             newLengths == IF num >= 0 THEN lengths + 1 ELSE lengths
             s == [r EXCEPT !.ok = TRUE, !.count = count + 1, !.length = length + len,
                            !.contentLength = number, !.contentLengths = newLengths]
  <2>1. HeaderSet(r, h) = s
    BY <1>6, Zenon DEF HeaderSet
  <2>2. ~(count >= HeaderCapacity) /\ ~(len > HeaderLen)
    BY <1>6, Zenon
  <2> HIDE DEF len, num, count, length, lengths
  <2>3. count + 1 \in 0 .. HeaderCapacity /\ len \in 0 .. 8192
    BY <1>1, <1>2, <2>2, Limits, SMTT(30)
  <2>4. /\ number \in Int /\ newLengths \in Nat /\ length + len \in Nat
        /\ newLengths >= lengths /\ (num >= 0 => newLengths > 0)
    BY <1>1, <1>2, SMT
  <2>5. length + len + (IF newLengths > 0 THEN 8167 ELSE 0) <= 8192 * (count + 1)
    BY <1>1, <1>2, <1>3, <2>3, SMT
  <2> HIDE DEF number, newLengths
  <2>6. /\ s \in Responses
        /\ s.body = r.body /\ s.start = r.start /\ s.contentLengths = newLengths
        /\ s.length = length + len /\ s.count = count + 1
    <3> DEFINE s1 == [r EXCEPT !.ok = TRUE]
               s2 == [s1 EXCEPT !.count = count + 1]
               s3 == [s2 EXCEPT !.length = length + len]
               s4 == [s3 EXCEPT !.contentLength = number]
    <3>1. s = [s4 EXCEPT !.contentLengths = newLengths]
      OBVIOUS
    <3>2. s1 \in Responses
      BY <1>1, FieldSet, Zenon
    <3> HIDE DEF s1, s
    <3>3. s2 \in Responses
      <4>1. count + 1 \in 0 .. HeaderCapacity
        BY <2>3, SMT
      <4> QED BY <4>1, <3>2, FieldSet, Zenon
    <3> HIDE DEF s2
    <3>4. s3 \in Responses
      BY <2>4, <3>3, FieldSet, Zenon
    <3> HIDE DEF s3
    <3>5. s4 \in Responses
      BY <2>4, <3>4, FieldSet, Zenon
    <3> HIDE DEF s4
    <3>6. s \in Responses
      BY <2>4, <3>1, <3>5, FieldSet, Zenon
    <3> QED BY <1>1, <3>6, SMT DEF Responses, s
  <2> HIDE DEF s
  <2>7. HeadersFit(s)
    BY <2>5, <2>6, SMT DEF HeadersFit
  <2>8. BodyHasLength(s)
    BY <1>1, <1>4, <2>4, <2>6, SMT DEF BodyHasLength
  <2>9. ResponseInv(s)
    BY <2>6, <2>7, <2>8, Zenon DEF ResponseInv
  <2> QED BY <2>1, <2>4, <2>6, <2>9, Zenon DEF lengths, num
<1> QED BY <1>5, <1>6, Zenon

\* The same of a step that is taken only after a success
LEMMA ThenInv ==
  ASSUME NEW r, ResponseInv(r), NEW h, HeaderOk(h)
  PROVE  LET s == Then(r, h)
         IN  /\ ResponseInv(s) /\ s.body = r.body /\ s.start = r.start
             /\ s.contentLengths >= r.contentLengths
             /\ s.ok /\ h.number >= 0 => s.contentLengths > 0
<1>1. CASE r.ok
  BY <1>1, HeaderSetInv, Zenon DEF Then
<1>2. CASE ~r.ok
  <2>1. Then(r, h) = r
    BY <1>2, Zenon DEF Then
  <2>2. r.contentLengths >= r.contentLengths
    BY SMT DEF ResponseInv, Responses
  <2> QED BY <1>2, <2>1, <2>2, Zenon
<1> QED BY <1>1, <1>2, Zenon

\* The headers that the library sends, and those of its callers
LEMMA HeadersOk ==
  /\ \A n \in Nat : \A valid : HeaderOk(Header(n, valid))
  /\ \A n \in Nat : HeaderOk(ContentLengthOf(n)) /\ ContentLengthOf(n).number = n
  /\ \A ok : HeaderOk(DateLine(ok))
  /\ HeaderOk(ServerLine)
<1>1. \A n \in Nat : \A valid : HeaderOk(Header(n, valid))
  BY SMT DEF HeaderOk, Header
<1>2. ASSUME NEW n \in Nat PROVE HeaderOk(ContentLengthOf(n)) /\ ContentLengthOf(n).number = n
  <2>1. Digits(n) \in 1 .. 7
    BY SMT DEF Digits
  <2> QED BY <2>1, SMT DEF HeaderOk, ContentLengthOf
<1>3. \A ok : HeaderOk(DateLine(ok))
  <2>1. 4 + 29 + 4 \in Nat
    OBVIOUS
  <2> QED BY <1>1, <2>1, Zenon DEF DateLine
<1>4. HeaderOk(ServerLine)
  <2>1. 16 \in Nat
    OBVIOUS
  <2> QED BY <1>1, <2>1, Zenon DEF ServerLine
<1> QED BY <1>1, <1>2, <1>3, <1>4, Zenon

\* korall_response_start_set
LEMMA StartSetInv ==
  ASSUME NEW r, ResponseInv(r), NEW code, NEW dateOk
  PROVE  LET s == StartSet(r, code, dateOk)
         IN  ResponseInv(s) /\ s.body = r.body /\ s.contentLengths >= r.contentLengths
<1>1. CASE code \notin DOMAIN PhraseLength
  <2>1. StartSet(r, code, dateOk) = [r EXCEPT !.ok = FALSE]
    BY <1>1, Zenon DEF StartSet
  <2> DEFINE s == [r EXCEPT !.ok = FALSE]
  <2>2. ResponseInv(s)
    BY OkInv, Zenon
  <2>3. s.body = r.body /\ s.contentLengths >= r.contentLengths
    BY SMT DEF ResponseInv, Responses
  <2> QED BY <2>1, <2>2, <2>3, Zenon
<1>2. CASE code \in DOMAIN PhraseLength
  <2> DEFINE start == 8 + 1 + 3 + 1 + PhraseLength[code] + 2
             s == [r EXCEPT !.status = code, !.start = start]
             t == HeaderSet(s, DateLine(dateOk))
  <2>1. StartSet(r, code, dateOk) = Then(t, ServerLine)
    BY <1>2, Zenon DEF StartSet
  <2>2. start \in 0 .. 49
    BY <1>2, SMT DEF PhraseLength
  <2> HIDE DEF start
  <2>3. ResponseInv(s) /\ s.body = r.body /\ s.contentLengths = r.contentLengths
    <3> DEFINE s1 == [r EXCEPT !.status = code]
    <3>1. s = [s1 EXCEPT !.start = start]
      OBVIOUS
    <3>2. r \in Responses /\ s1 \in Responses
      BY <1>2, FieldSet, Zenon DEF ResponseInv
    <3> HIDE DEF s1, s
    <3>3. s \in Responses
      BY <2>2, <3>1, <3>2, FieldSet, Zenon
    <3>4. /\ s.count = r.count /\ s.length = r.length
          /\ s.contentLengths = r.contentLengths /\ s.body = r.body
      BY <3>2, SMT DEF Responses, s
    <3>5. HeadersFit(s)
      BY <3>4, SMT DEF ResponseInv, HeadersFit
    <3>6. BodyHasLength(s)
      BY <3>4, SMT DEF ResponseInv, BodyHasLength
    <3> QED BY <3>3, <3>4, <3>5, <3>6, Zenon DEF ResponseInv
  <2> HIDE DEF s
  <2>4. ResponseInv(t) /\ t.body = s.body /\ t.contentLengths >= s.contentLengths
    BY <2>3, HeadersOk, HeaderSetInv, Zenon
  <2> HIDE DEF t
  <2>5. LET u == Then(t, ServerLine)
        IN  ResponseInv(u) /\ u.body = t.body /\ u.contentLengths >= t.contentLengths
    BY <2>4, HeadersOk, ThenInv, Zenon
  <2> DEFINE u == Then(t, ServerLine)
  <2>6. u.contentLengths >= r.contentLengths
    BY <2>3, <2>4, <2>5, SMT DEF ResponseInv, Responses
  <2> QED BY <2>1, <2>3, <2>4, <2>5, <2>6, Zenon
<1> QED BY <1>1, <1>2, Zenon

\* korall_response_body_set: the body is written behind its own Content-Length.
LEMMA BodySetInv ==
  ASSUME NEW r, ResponseInv(r), NEW n \in Nat
  PROVE  ResponseInv(BodySet(r, n))
<1> DEFINE headed == HeaderSet(r, ContentLengthOf(n))
<1>1. /\ ResponseInv(headed)
      /\ headed.ok /\ ContentLengthOf(n).number >= 0 => headed.contentLengths > 0
  BY HeadersOk, HeaderSetInv, Zenon
<1>2. ContentLengthOf(n).number = n /\ n >= 0
  BY HeadersOk, SMT
<1>3. CASE n > BodyLen
  BY <1>3, OkInv, Zenon DEF BodySet
<1>4. CASE ~(n > BodyLen) /\ ~headed.ok
  BY <1>1, <1>4, Zenon DEF BodySet
<1>5. CASE ~(n > BodyLen) /\ headed.ok
  <2> DEFINE body == 2 + n
             s == [headed EXCEPT !.body = body]
  <2>1. BodySet(r, n) = s
    BY <1>5, Zenon DEF BodySet
  <2>2. headed.contentLengths > 0
    BY <1>1, <1>2, <1>5, Zenon
  <2> HIDE DEF headed
  <2>3. body \in Nat
    BY SMT
  <2>8. body <= 1048578
    <3>1. ~(n > BodyLen)
      BY <1>5, Zenon
    <3> QED BY <3>1, SMT DEF BodyLen
  <2> HIDE DEF body
  <2>4. headed \in Responses
    BY <1>1, Zenon DEF ResponseInv
  <2>5. s \in Responses
    BY <2>3, <2>4, FieldSet, Zenon
  <2>6. /\ s.count = headed.count /\ s.length = headed.length
        /\ s.contentLengths = headed.contentLengths /\ s.body = body
    BY <2>4, SMT DEF Responses
  <2> HIDE DEF s
  <2>7. HeadersFit(s) /\ BodyHasLength(s)
    BY <1>1, <2>2, <2>3, <2>8, <2>6, SMT DEF ResponseInv, HeadersFit, BodyHasLength
  <2> QED BY <2>1, <2>5, <2>7, Zenon DEF ResponseInv
<1> QED BY <1>3, <1>4, <1>5, Zenon

\* http_response_construct
LEMMA ConstructInv ==
  ASSUME NEW r, ResponseInv(r), NEW code, NEW n \in Int, NEW dateOk
  PROVE  ResponseInv(Construct(r, code, n, dateOk))
<1> DEFINE started == StartSet(r, code, dateOk)
           typed == Then(started, Header(14 + 16 + 2, TRUE))
<1>1. ResponseInv(started)
  BY StartSetInv, Zenon
<1>2. HeaderOk(Header(14 + 16 + 2, TRUE)) /\ HeaderOk(ContentLengthOf(0))
  <2>1. 14 + 16 + 2 \in Nat /\ 0 \in Nat
    OBVIOUS
  <2> QED BY <2>1, HeadersOk, Zenon
<1> HIDE DEF started
<1>3. ResponseInv(typed) /\ ResponseInv(Then(started, ContentLengthOf(0)))
  BY <1>1, <1>2, ThenInv, Zenon
<1>4. Construct(r, code, n, dateOk)
        = IF n < 0 THEN Then(started, ContentLengthOf(0))
          ELSE IF typed.ok THEN [BodySet(typed, n) EXCEPT !.ok = TRUE] ELSE typed
  BY Zenon DEF Construct, started
<1> HIDE DEF typed
<1>5. CASE n < 0
  BY <1>3, <1>4, <1>5, Zenon
<1>6. CASE ~(n < 0)
  <2>1. n \in Nat
    BY <1>6, SMT
  <2>2. ResponseInv(BodySet(typed, n))
    BY <1>3, <2>1, BodySetInv, Zenon
  <2>3. ResponseInv([BodySet(typed, n) EXCEPT !.ok = TRUE])
    BY <2>2, OkInv, Zenon
  <2> QED BY <1>3, <1>4, <1>6, <2>3, Zenon
<1> QED BY <1>5, <1>6, Zenon

\* http_response_ws_construct
LEMMA ConstructUpgradeInv ==
  ASSUME NEW r, ResponseInv(r), NEW dateOk
  PROVE  ResponseInv(ConstructUpgrade(r, dateOk))
<1>1. /\ HeaderOk(ServerLine) /\ HeaderOk(ContentLengthOf(0))
      /\ HeaderOk(Header(20, TRUE)) /\ HeaderOk(Header(21, TRUE))
      /\ HeaderOk(Header(24 + EncodedSize(20), TRUE))
  <2>1. 24 + EncodedSize(20) \in Nat /\ 20 \in Nat /\ 21 \in Nat /\ 0 \in Nat
    BY SMT DEF EncodedSize
  <2> QED BY <2>1, HeadersOk, Zenon
<1> DEFINE r1 == StartSet(r, "HTTP_SC_101", dateOk)
           r2 == Then(r1, ServerLine)
           r3 == Then(r2, Header(20, TRUE))
           r4 == Then(r3, Header(21, TRUE))
           r5 == Then(r4, Header(24 + EncodedSize(20), TRUE))
           r6 == Then(r5, ContentLengthOf(0))
<1>2. ConstructUpgrade(r, dateOk) = r6
  BY Zenon DEF ConstructUpgrade
<1>3. ResponseInv(r1)
  BY StartSetInv, Zenon
<1> HIDE DEF r1
<1>4. ResponseInv(r2)
  BY <1>1, <1>3, ThenInv, Zenon
<1> HIDE DEF r2
<1>5. ResponseInv(r3)
  BY <1>1, <1>4, ThenInv, Zenon
<1> HIDE DEF r3
<1>6. ResponseInv(r4)
  BY <1>1, <1>5, ThenInv, Zenon
<1> HIDE DEF r4
<1>7. ResponseInv(r5)
  BY <1>1, <1>6, ThenInv, Zenon
<1> HIDE DEF r5
<1>8. ResponseInv(r6)
  BY <1>1, <1>7, ThenInv, Zenon
<1> QED BY <1>2, <1>8, Zenon

\* http_response_init
LEMMA NewResponseInv == ResponseInv(NewResponse)
<1> DEFINE r == NewResponse
<1>1. 0 \in 0 .. HeaderCapacity
  BY HeaderCapacityAssumption, SMT
<1>2. NewResponse \in Responses
  BY <1>1, SMT DEF NewResponse, NoStatus, Responses
<1>3. /\ r.length = 0 /\ r.contentLengths = 0 /\ r.body = 0 /\ r.count = 0
  BY Zenon DEF NewResponse
<1> HIDE DEF r
<1>4. HeadersFit(r) /\ BodyHasLength(r)
  BY <1>3, SMT DEF HeadersFit, BodyHasLength
<1> QED BY <1>2, <1>4, Zenon DEF ResponseInv, r

-----------------------------------------------------------------------------
(* Content-Length and body                                                 *)

\* What two responses have in common when no Content-Length and no body was added,
\* and at most n headers were
SameFrame(r, s, n) ==
    /\ s.body = r.body
    /\ s.contentLength = r.contentLength /\ s.contentLengths = r.contentLengths
    /\ s.count <= r.count + n

\* korall_response_header_set as far as framing is concerned: it fails only if there is
\* no room or the header is wrong, and a Content-Length that was set is the last one.
LEMMA HeaderSetFrame ==
  ASSUME NEW r \in Responses, NEW h, HeaderOk(h)
  PROVE  LET s == HeaderSet(r, h)
         IN  /\ h.number < 0 \/ ~s.ok => SameFrame(r, s, 1)
             /\ h.number >= 0 /\ s.ok =>
                    /\ s.body = r.body
                    /\ s.contentLength = h.number /\ s.contentLengths = r.contentLengths + 1
             /\ r.count < HeaderCapacity /\ h.length <= HeaderLen /\ h.valid => s.ok
<1> DEFINE s == HeaderSet(r, h)
<1>1. /\ r.count \in Nat /\ r.contentLengths \in Nat /\ HeaderCapacity \in Nat
      /\ h.number \in Int /\ h.length \in Nat /\ HeaderLen \in Nat
  BY Limits, SMT DEF Responses, HeaderOk
<1>2. CASE r.count >= HeaderCapacity \/ h.length > HeaderLen \/ ~h.valid
  <2>1. s = [r EXCEPT !.ok = FALSE]
    BY <1>2, Zenon DEF HeaderSet
  <2>2. /\ s.body = r.body /\ s.contentLength = r.contentLength
        /\ s.contentLengths = r.contentLengths /\ s.count = r.count /\ s.ok = FALSE
    BY <2>1, SMT DEF Responses
  <2> HIDE DEF s
  <2>3. SameFrame(r, s, 1)
    BY <1>1, <2>2, SMT DEF SameFrame
  <2>4. ~(r.count < HeaderCapacity /\ h.length <= HeaderLen /\ h.valid)
    BY <1>1, <1>2, SMT
  <2> QED BY <2>2, <2>3, <2>4, Zenon DEF s
<1>3. CASE ~(r.count >= HeaderCapacity \/ h.length > HeaderLen \/ ~h.valid)
  <2> DEFINE number == IF h.number >= 0 THEN h.number ELSE r.contentLength
             lengths == IF h.number >= 0 THEN r.contentLengths + 1 ELSE r.contentLengths
  <2>1. s = [r EXCEPT !.ok = TRUE, !.count = r.count + 1, !.length = r.length + h.length,
                      !.contentLength = number, !.contentLengths = lengths]
    BY <1>3, Zenon DEF HeaderSet
  <2> HIDE DEF number, lengths
  <2>2. /\ s.body = r.body /\ s.contentLength = number
        /\ s.contentLengths = lengths /\ s.count = r.count + 1 /\ s.ok = TRUE
    BY <2>1, SMT DEF Responses
  <2> HIDE DEF s
  <2>3. h.number < 0 => SameFrame(r, s, 1)
    BY <1>1, <2>2, SMT DEF SameFrame, number, lengths
  <2>4. h.number >= 0 => s.contentLength = h.number /\ s.contentLengths = r.contentLengths + 1
    BY <2>2, SMT DEF number, lengths
  <2> QED BY <2>2, <2>3, <2>4, Zenon DEF s
<1> QED BY <1>2, <1>3, Zenon

\* The same of a step that is taken only after a success, for a header that is no
\* Content-Length
LEMMA ThenFrame ==
  ASSUME NEW r \in Responses, NEW h, HeaderOk(h), h.number < 0
  PROVE  SameFrame(r, Then(r, h), 1)
<1>1. r.count \in Nat
  BY Limits, SMT DEF Responses
<1>2. SameFrame(r, r, 1)
  BY <1>1, SMT DEF SameFrame
<1> QED BY <1>2, HeaderSetFrame, Zenon DEF Then

\* korall_response_start_set: a start line and at most two headers
LEMMA StartSetFrame ==
  ASSUME NEW r, ResponseInv(r), NEW code, NEW dateOk
  PROVE  SameFrame(r, StartSet(r, code, dateOk), 2)
<1>1. r \in Responses /\ r.count \in Nat
  BY Limits, SMT DEF ResponseInv, Responses
<1>2. CASE code \notin DOMAIN PhraseLength
  <2> DEFINE s == [r EXCEPT !.ok = FALSE]
  <2>1. StartSet(r, code, dateOk) = s
    BY <1>2, Zenon DEF StartSet
  <2>2. SameFrame(r, s, 2)
    BY <1>1, SMT DEF Responses, SameFrame
  <2> QED BY <2>1, <2>2, Zenon
<1>3. CASE code \in DOMAIN PhraseLength
  <2> DEFINE start == 8 + 1 + 3 + 1 + PhraseLength[code] + 2
             s1 == [r EXCEPT !.status = code]
             s == [s1 EXCEPT !.start = start]
             t == HeaderSet(s, DateLine(dateOk))
             u == Then(t, ServerLine)
  <2>1. StartSet(r, code, dateOk) = u
    <3>1. [r EXCEPT !.status = code, !.start = start] = s
      OBVIOUS
    <3> QED BY <1>3, <3>1, Zenon DEF StartSet
  <2>2. start \in 0 .. 49
    BY <1>3, SMT DEF PhraseLength
  <2> HIDE DEF start
  <2>3. s1 \in Responses
    BY <1>1, <1>3, FieldSet, Zenon
  <2>4. s \in Responses
    BY <2>2, <2>3, FieldSet, Zenon DEF s
  <2>5. /\ s.body = r.body /\ s.contentLength = r.contentLength
        /\ s.contentLengths = r.contentLengths /\ s.count = r.count /\ s.length = r.length
    BY <1>1, SMT DEF Responses
  <2> HIDE DEF s
  <2>6. SameFrame(r, s, 0)
    BY <1>1, <2>5, SMT DEF SameFrame
  <2>7. ResponseInv(s)
    BY <2>4, <2>5, SMT DEF ResponseInv, HeadersFit, BodyHasLength
  <2>8. /\ DateLine(dateOk).number = -1 /\ ServerLine.number = -1
        /\ HeaderOk(DateLine(dateOk)) /\ HeaderOk(ServerLine)
    BY HeadersOk, Zenon DEF DateLine, ServerLine, Header
  <2>9. DateLine(dateOk).number < 0 /\ ServerLine.number < 0
    BY <2>8, SMT
  <2>10. ResponseInv(t) /\ t \in Responses
    BY <2>7, <2>8, HeaderSetInv, Zenon DEF ResponseInv
  <2>11. SameFrame(s, t, 1)
    BY <2>4, <2>8, <2>9, HeaderSetFrame, Zenon
  <2> HIDE DEF t
  <2>12. ResponseInv(u) /\ u \in Responses
    BY <2>8, <2>10, ThenInv, Zenon DEF ResponseInv
  <2>13. SameFrame(t, u, 1)
    BY <2>8, <2>9, <2>10, ThenFrame, Zenon
  <2> HIDE DEF u
  <2>14. s.count \in Nat /\ t.count \in Nat /\ u.count \in Nat
    BY <2>4, <2>10, <2>12, Limits, SMT DEF Responses
  <2>15. SameFrame(r, u, 2)
    BY <1>1, <2>6, <2>11, <2>13, <2>14, SMT DEF SameFrame
  <2> QED BY <2>1, <2>15, Zenon
<1> QED BY <1>2, <1>3, Zenon

\* korall_response_body_set keeps a response framed, and counts its Content-Length.
LEMMA BodySetFrame ==
  ASSUME NEW r, ResponseInv(r), NEW n \in Nat
  PROVE  LET s == BodySet(r, n)
         IN  /\ IsFramed(r) => IsFramed(s)
             /\ s.start = r.start
             /\ r.count < HeaderCapacity /\ n <= BodyLen =>
                    s.contentLengths = r.contentLengths + 1
<1> DEFINE h == ContentLengthOf(n)
           headed == HeaderSet(r, h)
           s == BodySet(r, n)
<1>1. r \in Responses /\ r.count \in Nat /\ HeaderCapacity \in Nat /\ BodyLen \in Nat
  BY Limits, SMT DEF ResponseInv, Responses
<1>2. HeaderOk(h) /\ h.number = n /\ h.valid = TRUE
  BY HeadersOk, Zenon DEF ContentLengthOf
<1>3. h.length <= HeaderLen /\ h.number >= 0
  BY <1>2, Limits, SMT DEF HeaderOk
<1> HIDE DEF h
<1>4. headed \in Responses /\ headed.start = r.start
  BY <1>2, HeaderSetInv, Zenon DEF ResponseInv
<1>5. /\ ~headed.ok => SameFrame(r, headed, 1)
      /\ headed.ok => headed.contentLength = n /\ headed.contentLengths = r.contentLengths + 1
      /\ r.count < HeaderCapacity => headed.ok
  BY <1>1, <1>2, <1>3, HeaderSetFrame, Zenon
<1>6. CASE n > BodyLen
  <2>1. s = [r EXCEPT !.ok = FALSE]
    BY <1>6, Zenon DEF BodySet
  <2>2. s.body = r.body /\ s.contentLength = r.contentLength /\ s.start = r.start
    BY <1>1, <2>1, SMT DEF Responses
  <2>3. ~(n <= BodyLen)
    BY <1>1, <1>6, SMT
  <2> QED BY <2>2, <2>3, Zenon DEF IsFramed
<1>7. CASE ~(n > BodyLen) /\ headed.ok
  <2>1. s = [headed EXCEPT !.body = 2 + n]
    BY <1>7, Zenon DEF BodySet, h
  <2> HIDE DEF headed
  <2>2. /\ s.body = 2 + n /\ s.contentLength = n /\ s.start = r.start
        /\ s.contentLengths = r.contentLengths + 1
    BY <1>4, <1>5, <1>7, <2>1, SMT DEF Responses
  <2>3. IsFramed(s)
    BY <2>2, SMT DEF IsFramed
  <2> QED BY <2>2, <2>3, Zenon
<1>8. CASE ~(n > BodyLen) /\ ~headed.ok
  <2>1. s = headed
    BY <1>8, Zenon DEF BodySet, h
  <2>2. s.body = r.body /\ s.contentLength = r.contentLength /\ s.start = r.start
    BY <1>4, <1>5, <1>8, <2>1, Zenon DEF SameFrame
  <2> QED BY <1>5, <1>8, <2>2, Zenon DEF IsFramed
<1> QED BY <1>6, <1>7, <1>8, Zenon

\* http_response_construct, for a response that has no body, no Content-Length and room
\* for four headers
LEMMA ConstructFrame ==
  ASSUME NEW r, ResponseInv(r), r.body = 0, r.contentLengths = 0,
         r.count + 4 <= HeaderCapacity,
         NEW code, NEW n \in Int, n <= BodyLen, NEW dateOk
  PROVE  LET s == Construct(r, code, n, dateOk)
         IN  IsFramed(s) /\ (s.ok => s.contentLengths = 1)
<1> DEFINE started == StartSet(r, code, dateOk)
           type == Header(14 + 16 + 2, TRUE)
           none == ContentLengthOf(0)
           typed == Then(started, type)
           lone == Then(started, none)
           full == BodySet(typed, n)
           s == Construct(r, code, n, dateOk)
<1>1. /\ ResponseInv(started) /\ started \in Responses
      /\ SameFrame(r, started, 2)
  BY StartSetInv, StartSetFrame, Zenon DEF ResponseInv
<1>2. /\ HeaderOk(type) /\ type.number = -1
      /\ HeaderOk(none) /\ none.number = 0
  <2>1. 14 + 16 + 2 \in Nat /\ 0 \in Nat
    OBVIOUS
  <2> QED BY <2>1, HeadersOk, Zenon DEF Header, ContentLengthOf
<1> HIDE DEF started, type, none
<1>3. type.number < 0 /\ none.number >= 0
  BY <1>2, SMT
<1>4. ResponseInv(typed) /\ typed \in Responses /\ SameFrame(started, typed, 1)
  BY <1>1, <1>2, <1>3, ThenInv, ThenFrame, Zenon DEF ResponseInv
<1>5. s = IF n < 0 THEN lone ELSE IF typed.ok THEN [full EXCEPT !.ok = TRUE] ELSE typed
  BY Zenon DEF Construct, started, type, none
<1> HIDE DEF typed, s
<1>6. /\ r.count \in Nat /\ started.count \in Nat /\ typed.count \in Nat
      /\ HeaderCapacity \in Nat
  BY <1>1, <1>4, Limits, SMT DEF ResponseInv, Responses
<1>7. /\ typed.body = 0 /\ typed.contentLengths = 0 /\ typed.count < HeaderCapacity
      /\ started.body = 0 /\ started.contentLengths = 0
  BY <1>1, <1>4, <1>6, SMT DEF SameFrame
<1>8. ASSUME n < 0 PROVE IsFramed(s) /\ (s.ok => s.contentLengths = 1)
  <2>1. s = lone
    BY <1>5, <1>8, Zenon
  <2>2. lone.body = 0
    BY <1>1, <1>2, <1>7, ThenInv, Zenon
  <2>3. lone.ok => started.ok /\ lone = HeaderSet(started, none)
    BY Zenon DEF Then
  <2>4. lone.ok => lone.contentLengths = 0 + 1
    BY <1>1, <1>2, <1>3, <1>7, <2>3, HeaderSetFrame, Zenon
  <2> HIDE DEF lone
  <2> QED BY <2>1, <2>2, <2>4, SMT DEF IsFramed
<1>9. ASSUME ~(n < 0), typed.ok PROVE IsFramed(s) /\ (s.ok => s.contentLengths = 1)
  <2>1. n \in Nat /\ n <= BodyLen
    BY <1>9, SMT
  <2>2. full \in Responses
    BY <1>4, <2>1, BodySetInv, Zenon DEF ResponseInv
  <2>3. IsFramed(typed)
    BY <1>7, Zenon DEF IsFramed
  <2>4. IsFramed(full) /\ full.contentLengths = 0 + 1
    BY <1>4, <1>7, <2>1, <2>3, BodySetFrame, Zenon
  <2> HIDE DEF full
  <2>5. s = [full EXCEPT !.ok = TRUE]
    BY <1>5, <1>9, Zenon
  <2>6. /\ s.body = full.body /\ s.contentLength = full.contentLength
        /\ s.contentLengths = full.contentLengths
    BY <2>2, <2>5, SMT DEF Responses
  <2> QED BY <2>4, <2>6, SMT DEF IsFramed
<1>10. ASSUME ~(n < 0), ~typed.ok PROVE IsFramed(s)
         /\ (s.ok => s.contentLengths = 1)
  <2>1. s = typed
    BY <1>5, <1>10, Zenon
  <2> QED BY <1>7, <1>10, <2>1, Zenon DEF IsFramed
<1> QED BY <1>8, <1>9, <1>10, Zenon DEF s

\* http_response_ws_construct has no body; its last header is a Content-Length.
LEMMA ConstructUpgradeFrame ==
  ASSUME NEW r, ResponseInv(r), r.body = 0, r.contentLengths = 0, NEW dateOk
  PROVE  LET s == ConstructUpgrade(r, dateOk)
         IN  s.body = 0 /\ (s.ok => s.contentLengths = 1)
<1> DEFINE h3 == Header(20, TRUE)
           h4 == Header(21, TRUE)
           h5 == Header(24 + EncodedSize(20), TRUE)
           none == ContentLengthOf(0)
           r1 == StartSet(r, "HTTP_SC_101", dateOk)
           r2 == Then(r1, ServerLine)
           r3 == Then(r2, h3)
           r4 == Then(r3, h4)
           r5 == Then(r4, h5)
           r6 == Then(r5, none)
<1>1. /\ HeaderOk(ServerLine) /\ HeaderOk(none) /\ HeaderOk(h3) /\ HeaderOk(h4) /\ HeaderOk(h5)
  <2>1. 24 + EncodedSize(20) \in Nat /\ 20 \in Nat /\ 21 \in Nat /\ 0 \in Nat
    BY SMT DEF EncodedSize
  <2> QED BY <2>1, HeadersOk, Zenon
<1>2. /\ ServerLine.number = -1 /\ h3.number = -1 /\ h4.number = -1 /\ h5.number = -1
      /\ none.number = 0
  BY Zenon DEF ServerLine, Header, ContentLengthOf
<1> HIDE DEF h3, h4, h5, none
<1>3. /\ ServerLine.number < 0 /\ h3.number < 0 /\ h4.number < 0 /\ h5.number < 0
      /\ none.number >= 0
  BY <1>2, SMT
<1>4. ConstructUpgrade(r, dateOk) = r6
  BY Zenon DEF ConstructUpgrade, h3, h4, h5, none
<1>5. /\ ResponseInv(r1) /\ r1.body = 0 /\ r1.contentLengths = 0
  <2>1. ResponseInv(r1)
    BY StartSetInv, Zenon
  <2>2. SameFrame(r, r1, 2)
    BY StartSetFrame, Zenon
  <2> QED BY <2>1, <2>2, Zenon DEF SameFrame
<1> HIDE DEF r1
<1>6. ASSUME NEW t, ResponseInv(t), t.body = 0, t.contentLengths = 0,
             NEW h, HeaderOk(h), h.number < 0
      PROVE  LET u == Then(t, h)
             IN  ResponseInv(u) /\ u.body = 0 /\ u.contentLengths = 0
  <2>1. t \in Responses
    BY <1>6, Zenon DEF ResponseInv
  <2> QED BY <1>6, <2>1, ThenInv, ThenFrame, Zenon DEF SameFrame
<1>7. ResponseInv(r2) /\ r2.body = 0 /\ r2.contentLengths = 0
  BY <1>1, <1>3, <1>5, <1>6, Zenon
<1> HIDE DEF r2
<1>8. ResponseInv(r3) /\ r3.body = 0 /\ r3.contentLengths = 0
  BY <1>1, <1>3, <1>6, <1>7, Zenon
<1> HIDE DEF r3
<1>9. ResponseInv(r4) /\ r4.body = 0 /\ r4.contentLengths = 0
  BY <1>1, <1>3, <1>6, <1>8, Zenon
<1> HIDE DEF r4
<1>10. ResponseInv(r5) /\ r5.body = 0 /\ r5.contentLengths = 0
  BY <1>1, <1>3, <1>6, <1>9, Zenon
<1> HIDE DEF r5
<1>11. r6.body = 0
  BY <1>1, <1>10, ThenInv, Zenon
<1>12. r6.ok => r6 = HeaderSet(r5, none)
  BY Zenon DEF Then
<1>13. r6.ok => r6.contentLengths = 0 + 1
  <2>1. r5 \in Responses
    BY <1>10, Zenon DEF ResponseInv
  <2>2. HeaderSet(r5, none).ok => HeaderSet(r5, none).contentLengths = r5.contentLengths + 1
    BY <1>1, <1>3, <2>1, HeaderSetFrame, Zenon
  <2> QED BY <1>10, <1>12, <2>2, Zenon
<1> HIDE DEF r6
<1>14. r6.ok => r6.contentLengths = 1
  BY <1>13, SMT
<1> QED BY <1>4, <1>11, <1>14, Zenon

-----------------------------------------------------------------------------
(* What follows from the invariant                                         *)

\* The send buffer has room for every response: the body and the start line may be
\* three characters longer than their limits, but a body is never without a short header.
LEMMA SendBufferFits ==
  ASSUME NEW r, ResponseInv(r)
  PROVE  FitsSendBuffer(r)
<1> DEFINE start == r.start
           count == r.count
           length == r.length
           lengths == r.contentLengths
           body == r.body
           most == BodyLen
           cap == HeaderCapacity
           rest == HeadersLen
           size == ResSize
<1>1. /\ start \in 0 .. 49 /\ count \in 0 .. cap /\ length \in Nat
      /\ lengths \in Nat /\ body \in Nat /\ body <= 1048578
  BY SMT DEF ResponseInv, Responses, BodyHasLength
<1>2. length + (IF lengths > 0 THEN 8167 ELSE 0) <= 8192 * count
  BY SMT DEF ResponseInv, HeadersFit
<1>3. body # 0 => lengths > 0
  BY SMT DEF ResponseInv, BodyHasLength
<1>4. ASSUME start + length + (IF body = 0 THEN 2 ELSE body) + 1 <= size + 1
      PROVE  FitsSendBuffer(r)
  BY <1>4, Zenon DEF FitsSendBuffer, SentLength
<1>5. most = 1048576 /\ rest = 8192 * cap /\ size = rest + 1048624
  BY Limits, SMT
<1>6. cap \in Nat
  BY HeaderCapacityAssumption, SMT
<1> HIDE DEF start, count, length, lengths, body, most, cap, rest, size
<1>7. 8192 * count <= rest /\ rest \in Nat
  BY <1>1, <1>5, <1>6, SMT
<1>8. start + length + (IF body = 0 THEN 2 ELSE body) + 1 <= size + 1
  <2>1. CASE body = 0
    BY <1>1, <1>2, <1>5, <1>7, <2>1, SMT
  <2>2. CASE body # 0
    BY <1>1, <1>2, <1>3, <1>5, <1>7, <2>2, SMT
  <2> QED BY <2>1, <2>2, Zenon
<1> QED BY <1>4, <1>8

\* The arena of a response after http_response_init
LEMMA ResponseArenaFacts ==
  /\ ResponseArena.capacity = HeadersLen + 1049648
  /\ ResponseArena.blocks[2].from = 96
  /\ ResponseArena.blocks[3].from = 160
  /\ ResponseArena.blocks[4].from = 176 + HeadersLen
  /\ ~ResponseArena.exited
<1> DEFINE C == ResSize + 1024
           n1 == ResponseSize
           n2 == StartLineLen + 1
           n3 == HeadersLen + 1
           n4 == BodyLen + 1
           f1 == 0
           f2 == 96
           f3 == 160
           f4 == 176 + HeadersLen
<1>1. HeadersLen \in Nat /\ BodyLen = 1048576 /\ C = HeadersLen + 1049648
  BY Limits, SMT
<1>2. HeadersLen % 16 = 0
  BY Limits, HeaderCapacityAssumption, SMT
<1>3. n1 = 88 /\ n2 = 49
  BY SMT DEF ResponseSize, StartLineLen
<1> HIDE DEF C, n1, n2
<1>4. f1 = AlignForward(0)
  BY SMT DEF AlignForward, Alignment
<1>5. f2 = AlignForward(f1 + n1)
  BY <1>3, SMT DEF AlignForward, Alignment
<1>6. f3 = AlignForward(f2 + n2)
  BY <1>3, SMT DEF AlignForward, Alignment
<1>7. f4 = AlignForward(f3 + n3)
  BY <1>1, <1>2, SMT DEF AlignForward, Alignment
<1>8. FourFit(C, n1, n2, n3, n4, f1, f2, f3, f4)
  BY <1>1, <1>3, <1>4, <1>5, <1>6, <1>7, SMT DEF FourFit
<1>9. Block(f2, n2).from = 96 /\ Block(f3, n3).from = 160 /\ Block(f4, n4).from = 176 + HeadersLen
  BY SMT DEF Block
<1> DEFINE a == FourTaken(C, n1, n2, n3, n4)
<1>10. ResponseArena = a
  BY Zenon DEF ResponseArena, FourTaken, C, n1, n2
<1> HIDE DEF f1, f2, f3, f4, n3, n4
<1>11. /\ a.capacity = C /\ a.exited = FALSE
       /\ a.blocks[2] = Block(f2, n2) /\ a.blocks[3] = Block(f3, n3)
       /\ a.blocks[4] = Block(f4, n4)
  BY <1>8, FourBlocks, SMT
<1> HIDE DEF a
<1>12. /\ ResponseArena.capacity = C /\ ResponseArena.exited = FALSE
       /\ ResponseArena.blocks[2] = Block(f2, n2) /\ ResponseArena.blocks[3] = Block(f3, n3)
       /\ ResponseArena.blocks[4] = Block(f4, n4)
  BY <1>10, <1>11, Zenon
<1> QED BY <1>1, <1>9, <1>12, SMT

\* Every text of a response ends before the next block of its arena begins.
LEMMA InsideHolds ==
  ASSUME NEW r, ResponseInv(r)
  PROVE  Inside(r)
<1> DEFINE start == r.start
           count == r.count
           length == r.length
           body == r.body
           lengths == r.contentLengths
           most == BodyLen
           cap == HeaderCapacity
           rest == HeadersLen
<1>1. /\ start \in 0 .. 49 /\ count \in 0 .. cap /\ length \in Nat
      /\ lengths \in Nat /\ body \in Nat /\ body <= 1048578
  BY SMT DEF ResponseInv, Responses, BodyHasLength
<1>2. length + (IF lengths > 0 THEN 8167 ELSE 0) <= 8192 * count
  BY SMT DEF ResponseInv, HeadersFit
<1>3. most = 1048576 /\ rest = 8192 * cap
  BY Limits, SMT
<1>4. cap \in Nat
  BY HeaderCapacityAssumption, SMT
<1>5. ASSUME 96 + start < 160, 160 + length < 176 + rest,
             176 + rest + body < rest + 1049648
      PROVE  Inside(r)
  BY <1>5, ResponseArenaFacts, SMT DEF Inside
<1> HIDE DEF start, count, length, lengths, body, most, cap, rest
<1>6. length <= 8192 * count /\ 8192 * count <= rest
  BY <1>1, <1>2, <1>3, <1>4, SMT
<1>7. 96 + start < 160 /\ 160 + length < 176 + rest /\ 176 + rest + body < rest + 1049648
  BY <1>1, <1>3, <1>4, <1>6, SMT
<1> QED BY <1>5, <1>7, SMT

\* http_request_init takes ten blocks, and the 1024 bytes over what their texts
\* need hold the rest.
LEMMA RequestArenaHolds == ~RequestArena.exited
<1> DEFINE C == ReqLineLen + HeadersLen + BodyLen + 1024
           H == HeadersLen
           B == BodyLen
           n1 == ReqLineLen + 1
           n8 == EncodedSize(20) + 1
           a0 == ArenaInit(C)
           a1 == ArenaAlloc(a0, n1)
           a2 == ArenaAlloc(a1, 16)
           a3 == ArenaAlloc(a2, 256)
           a4 == ArenaAlloc(a3, 6)
           a5 == ArenaAlloc(a4, 16)
           a6 == ArenaAlloc(a5, H + 1)
           a7 == ArenaAlloc(a6, B + 1)
           a8 == ArenaAlloc(a7, n8)
           a9 == ArenaAlloc(a8, 16)
           a10 == ArenaAlloc(a9, 40)
           u1 == 0 + 15 + n1
           u2 == u1 + 15 + 16
           u3 == u2 + 15 + 256
           u4 == u3 + 15 + 6
           u5 == u4 + 15 + 16
           u6 == u5 + 15 + (H + 1)
           u7 == u6 + 15 + (B + 1)
           u8 == u7 + 15 + n8
           u9 == u8 + 15 + 16
           u10 == u9 + 15 + 40
<1>1. H \in Nat /\ B = 1048576
  BY Limits, SMT
<1>2. C = H + 1051667
  BY <1>1, SMT DEF ReqLineLen
<1>3. n1 = 2068 /\ n8 = 29
  BY SMT DEF ReqLineLen, EncodedSize
<1>4. RequestArena = a10
  BY Zenon DEF RequestArena
<1> HIDE DEF C, H, B, n1, n8
<1>5. /\ u1 <= C /\ u2 <= C /\ u3 <= C /\ u4 <= C /\ u5 <= C /\ u6 <= C /\ u7 <= C
      /\ u8 <= C /\ u9 <= C /\ u10 <= C
  BY <1>1, <1>2, <1>3, SMT
<1>6. /\ n1 \in Nat \ {0} /\ 16 \in Nat \ {0} /\ 256 \in Nat \ {0} /\ 6 \in Nat \ {0}
      /\ H + 1 \in Nat \ {0} /\ B + 1 \in Nat \ {0} /\ n8 \in Nat \ {0} /\ 40 \in Nat \ {0}
  BY <1>1, <1>3, SMT
<1>7. HasRoom(a0, C, 0)
  <2>1. C \in Nat /\ <<>> \in Blocks
    BY <1>1, <1>2, SMT DEF Blocks
  <2>2. ArenaType(a0) /\ ~a0.exited /\ a0.capacity = C /\ a0.cur = 0
    BY <2>1, SMT DEF ArenaType, ArenaInit
  <2> HIDE DEF a0
  <2> QED BY <2>2, SMT DEF HasRoom
<1> HIDE DEF a0
<1>8. HasRoom(a1, C, u1)
  BY <1>5, <1>6, <1>7, AllocRoom, ZenonT(60)
<1> HIDE DEF a1, u1
<1>9. HasRoom(a2, C, u2)
  BY <1>5, <1>6, <1>8, AllocRoom, ZenonT(60)
<1> HIDE DEF a2, u2
<1>10. HasRoom(a3, C, u3)
  BY <1>5, <1>6, <1>9, AllocRoom, ZenonT(60)
<1> HIDE DEF a3, u3
<1>11. HasRoom(a4, C, u4)
  BY <1>5, <1>6, <1>10, AllocRoom, ZenonT(60)
<1> HIDE DEF a4, u4
<1>12. HasRoom(a5, C, u5)
  BY <1>5, <1>6, <1>11, AllocRoom, ZenonT(60)
<1> HIDE DEF a5, u5
<1>13. HasRoom(a6, C, u6)
  BY <1>5, <1>6, <1>12, AllocRoom, ZenonT(60)
<1> HIDE DEF a6, u6
<1>14. HasRoom(a7, C, u7)
  BY <1>5, <1>6, <1>13, AllocRoom, ZenonT(60)
<1> HIDE DEF a7, u7
<1>15. HasRoom(a8, C, u8)
  BY <1>5, <1>6, <1>14, AllocRoom, ZenonT(60)
<1> HIDE DEF a8, u8
<1>16. HasRoom(a9, C, u9)
  BY <1>5, <1>6, <1>15, AllocRoom, ZenonT(60)
<1> HIDE DEF a9, u9
<1>17. HasRoom(a10, C, u10)
  BY <1>5, <1>6, <1>16, AllocRoom, ZenonT(60)
<1> HIDE DEF a10
<1> QED BY <1>4, <1>17, Zenon DEF HasRoom

\* The case never changes, and its response keeps the invariant.
ExchangeInv == case \in Cases /\ ResponseInv(res)

-----------------------------------------------------------------------------
(* The functions that answer                                               *)

\* The length of an allowed origin is a number; it is the length of a text that
\* has been copied into a buffer.
LEMMA OriginLength ==
  ASSUME NEW r, NEW c
  PROVE  AllowedOrigin(r, c) \in Nat \cup {-1}
<1> DEFINE origin == HeaderGet(r.headers, <<"Origin">>, 255)
<1>1. origin # NotFound => Fits(origin, 255)
  BY Zenon DEF HeaderGet
<1>2. Fits(origin, 255) => TextLen(origin) \in Nat
  BY SMT DEF Fits
<1>3. AllowedOrigin(r, c) \in {-1, 1, TextLen(origin)}
  BY Zenon DEF AllowedOrigin
<1>4. AllowedOrigin(r, c) # -1 => origin # NotFound
  BY Zenon DEF AllowedOrigin
<1> HIDE DEF origin
<1> QED BY <1>1, <1>2, <1>3, <1>4, SMT

\* http_response_cors_set: what is added to a new response
LEMMA WithCorsInv ==
  ASSUME NEW r, NEW c
  PROVE  ResponseInv([WithCors(r, c) EXCEPT !.ok = TRUE])
<1> DEFINE h1 == Header(32 + 4 + 4, TRUE)
           h2 == Header(4 + 6 + 4, TRUE)
           creds == HeaderSet(HeaderSet(NewResponse, h1), h2)
           base == IF c.credentials THEN creds ELSE NewResponse
           origin == AllowedOrigin(r, c)
           h3 == Header(27 + 4 + origin, TRUE)
<1>1. HeaderOk(h1) /\ HeaderOk(h2)
  <2>1. 32 + 4 + 4 \in Nat /\ 4 + 6 + 4 \in Nat
    OBVIOUS
  <2> QED BY <2>1, HeadersOk, Zenon
<1>2. WithCors(r, c) = IF origin = -1 THEN base ELSE HeaderSet(base, h3)
  BY Zenon DEF WithCors
<1>3. origin \in Nat \cup {-1}
  BY OriginLength, Zenon
<1>4. origin # -1 => HeaderOk(h3)
  <2> HIDE DEF origin
  <2>1. origin # -1 => 27 + 4 + origin \in Nat
    BY <1>3, SMT
  <2> QED BY <2>1, HeadersOk, Zenon
<1> HIDE DEF h1, h2, h3, origin
<1>5. ResponseInv(HeaderSet(NewResponse, h1))
  BY <1>1, NewResponseInv, HeaderSetInv, Zenon
<1>6. ResponseInv(creds)
  BY <1>1, <1>5, HeaderSetInv, Zenon
<1>7. ResponseInv(base)
  BY <1>6, NewResponseInv, Zenon
<1> HIDE DEF base
<1>8. origin # -1 => ResponseInv(HeaderSet(base, h3))
  BY <1>4, <1>7, HeaderSetInv, Zenon
<1>9. ResponseInv(WithCors(r, c))
  BY <1>2, <1>7, <1>8, Zenon
<1> QED BY <1>9, OkInv, Zenon

\* http_process_request_options, when the list of the methods is not too long
LEMMA WithOptionsInv ==
  ASSUME NEW r, NEW c, CaseType(c), ~(c.methodsLen < 0), NEW base, ResponseInv(base)
  PROVE  ResponseInv([WithOptions(r, c, base) EXCEPT !.ok = TRUE])
<1> DEFINE methodsLen == c.methodsLen
           headersLen == c.allowHeadersLen
           h1 == Header(28 + 4 + methodsLen, TRUE)
           h2 == Header(28 + 4 + headersLen, TRUE)
           methods == HeaderSet(base, h1)
<1>1. methodsLen \in Nat \cup {-1} /\ headersLen \in Nat /\ ~(methodsLen < 0)
  BY Zenon DEF CaseType
<1>2. WithOptions(r, c, base)
        = IF RequestedHeaders(r) = NotFound THEN methods ELSE HeaderSet(methods, h2)
  BY Zenon DEF WithOptions
<1> HIDE DEF methodsLen, headersLen
<1>3. 28 + 4 + methodsLen \in Nat /\ 28 + 4 + headersLen \in Nat
  BY <1>1, SMT
<1>4. HeaderOk(h1) /\ HeaderOk(h2)
  BY <1>3, HeadersOk, Zenon
<1> HIDE DEF h1, h2
<1>5. ResponseInv(methods)
  BY <1>4, HeaderSetInv, Zenon
<1> HIDE DEF methods
<1>6. ResponseInv(HeaderSet(methods, h2))
  BY <1>4, <1>5, HeaderSetInv, Zenon
<1>7. ResponseInv(WithOptions(r, c, base))
  BY <1>2, <1>5, <1>6, Zenon
<1> QED BY <1>7, OkInv, Zenon

\* An error is answered with a message.
LEMMA FailInv ==
  ASSUME NEW base, ResponseInv(base), NEW code, Fail(base, code)
  PROVE  ResponseInv(res')
<1>1. MessageLen \in Int
  BY SMT DEF MessageLen
<1>2. res' = Construct(base, code, MessageLen, ~case.september)
  BY Zenon DEF Fail, Answer
<1> QED BY <1>1, <1>2, ConstructInv, Zenon

-----------------------------------------------------------------------------
(* The steps                                                               *)

\* A request that has arrived has a new response.
LEMMA InitInv == Init => ExchangeInv
BY NewResponseInv, Zenon DEF Init, ExchangeInv

\* The steps of http_process_request and of the functions it calls
LEMMA RequestStepInv ==
  ASSUME ExchangeInv, Parse \/ Judge \/ Options \/ Route \/ Return \/ Send
  PROVE  ExchangeInv'
<1>1. case \in Cases /\ ResponseInv(res) /\ CaseType(case)
  BY ExchangeAssumption, Zenon DEF ExchangeInv
<1>2. CASE Parse
  <2>1. case' = case
    BY <1>2, Zenon DEF Parse
  <2>2. res' = res \/ Fail(res, "HTTP_SC_400")
    BY <1>2, Zenon DEF Parse, Enter
  <2> QED BY <1>1, <2>1, <2>2, FailInv, Zenon DEF ExchangeInv
<1>3. CASE Judge
  <2>1. case' = case
    BY <1>3, Zenon DEF Judge
  <2>2. res' = [WithCors(req, case) EXCEPT !.ok = TRUE] \/ Fail(res, "HTTP_SC_400")
    BY <1>3, Zenon DEF Judge
  <2>3. ResponseInv([WithCors(req, case) EXCEPT !.ok = TRUE])
    BY WithCorsInv, Zenon
  <2>4. Fail(res, "HTTP_SC_400") => ResponseInv(res')
    BY <1>1, FailInv, Zenon
  <2>5. ResponseInv(res')
    BY <2>2, <2>3, <2>4, Zenon
  <2> QED BY <1>1, <2>1, <2>5, Zenon DEF ExchangeInv
<1>4. CASE Options
  <2>1. case' = case
    BY <1>4, Zenon DEF Options
  <2>2. \/ Fail(res, "HTTP_SC_400") \/ Fail(res, "HTTP_SC_500")
        \/ ~(case.methodsLen < 0) /\ res' = [WithOptions(req, case, res) EXCEPT !.ok = TRUE]
    BY <1>4, Zenon DEF Options
  <2>3. ~(case.methodsLen < 0) => ResponseInv([WithOptions(req, case, res) EXCEPT !.ok = TRUE])
    BY <1>1, WithOptionsInv, Zenon
  <2>4. Fail(res, "HTTP_SC_400") \/ Fail(res, "HTTP_SC_500") => ResponseInv(res')
    BY <1>1, FailInv, Zenon
  <2>5. ResponseInv(res')
    BY <2>2, <2>3, <2>4, Zenon
  <2> QED BY <1>1, <2>1, <2>5, Zenon DEF ExchangeInv
<1>5. CASE Route
  <2>1. case' = case
    BY <1>5, Zenon DEF Route
  <2>2. \/ Fail(res, "HTTP_SC_404") \/ res' = res
        \/ res' = ConstructUpgrade(res, ~case.september)
        \/ res' = Construct(res, "HTTP_SC_204", -1, ~case.september)
    BY <1>5, Zenon DEF Route, Enter, Answer
  <2>3. -1 \in Int
    OBVIOUS
  <2> QED BY <1>1, <2>1, <2>2, <2>3, FailInv, ConstructInv, ConstructUpgradeInv, Zenon
          DEF ExchangeInv
<1>6. CASE Return
  BY <1>1, <1>6, Zenon DEF Return, Enter, ExchangeInv
<1>7. CASE Send
  BY <1>1, <1>7, Zenon DEF Send, ExchangeInv
<1> QED BY <1>2, <1>3, <1>4, <1>5, <1>6, <1>7, Zenon

\* The functions of the library that a callback may call
LEMMA CallStepInv ==
  ASSUME ExchangeInv,
         CallStart \/ CallCustom \/ CallHeader \/ CallContentLength \/ CallBody
  PROVE  ExchangeInv'
<1>1. case \in Cases /\ ResponseInv(res) /\ CaseType(case)
  BY ExchangeAssumption, Zenon DEF ExchangeInv
<1>2. ASSUME NEW r, Call(r), ResponseInv(r) PROVE ExchangeInv'
  BY <1>1, <1>2, Zenon DEF Call, ExchangeInv
<1>3. CASE CallStart
  <2>1. PICK code : Call(StartSet(res, code, ~case.september))
    BY <1>3, Zenon DEF CallStart
  <2>2. ResponseInv(StartSet(res, code, ~case.september))
    BY <1>1, StartSetInv, Zenon
  <2> QED BY <1>2, <2>1, <2>2, Zenon
<1>4. CASE CallCustom
  <2>1. PICK n \in case.callback.lengths : Call(HeaderSet(res, Header(n, TRUE)))
    BY <1>4, Zenon DEF CallCustom
  <2>2. n \in Nat
    BY <1>1, Zenon DEF CaseType
  <2>3. HeaderOk(Header(n, TRUE))
    BY <2>2, HeadersOk, Zenon
  <2>4. ResponseInv(HeaderSet(res, Header(n, TRUE)))
    BY <1>1, <2>3, HeaderSetInv, Zenon
  <2> QED BY <1>2, <2>1, <2>4, Zenon
<1>5. CASE CallHeader
  <2>1. PICK h \in case.callback.known :
          Call(HeaderSet(res, Header(TextLen(h.field) + TextLen(h.value) + 4,
                                     ResponseValueOk(h.field, h.value))))
    BY <1>5, Zenon DEF CallHeader
  <2> DEFINE n1 == TextLen(h.field)
             n2 == TextLen(h.value)
             line == Header(n1 + n2 + 4, ResponseValueOk(h.field, h.value))
  <2>2. n1 \in Nat /\ n2 \in Nat
    BY <1>1, Zenon DEF CaseType
  <2>3. n1 + n2 + 4 \in Nat
    <3> HIDE DEF n1, n2
    <3> QED BY <2>2, SMT
  <2>4. HeaderOk(line)
    BY <2>3, HeadersOk, Zenon
  <2>5. ResponseInv(HeaderSet(res, line))
    <3> HIDE DEF line
    <3> QED BY <1>1, <2>4, HeaderSetInv, Zenon
  <2> QED BY <1>2, <2>1, <2>5, Zenon
<1>6. CASE CallContentLength
  <2>1. Call(HeaderSet(res, ContentLengthOf(7)))
    BY <1>6, Zenon DEF CallContentLength
  <2>2. 7 \in Nat
    OBVIOUS
  <2>3. ResponseInv(HeaderSet(res, ContentLengthOf(7)))
    BY <1>1, <2>2, HeadersOk, HeaderSetInv, Zenon
  <2> QED BY <1>2, <2>1, <2>3, Zenon
<1>7. CASE CallBody
  <2>1. PICK n \in case.callback.bodies : Call(BodySet(res, n))
    BY <1>7, Zenon DEF CallBody
  <2>2. n \in Nat
    BY <1>1, Zenon DEF CaseType
  <2>3. ResponseInv(BodySet(res, n))
    BY <1>1, <2>2, BodySetInv, Zenon
  <2> QED BY <1>2, <2>1, <2>3, Zenon
<1> QED BY <1>3, <1>4, <1>5, <1>6, <1>7, Zenon

\* The invariant is inductive.
LEMMA InvHolds == Spec => []ExchangeInv
<1>1. ASSUME ExchangeInv, [Next]_vars PROVE ExchangeInv'
  <2>1. CASE Next
    BY <1>1, <2>1, RequestStepInv, CallStepInv, Zenon DEF Next
  <2>2. CASE UNCHANGED vars
    BY <1>1, <2>2, Zenon DEF vars, ExchangeInv
  <2> QED BY <1>1, <2>1, <2>2, Zenon
<1> QED BY <1>1, InitInv, PTL DEF Spec

-----------------------------------------------------------------------------
(* Framing                                                                 *)

\* A response that has at most n headers yet, and neither a start line, a body nor a
\* Content-Length
Bare(r, n) == /\ r.start = 0 /\ r.body = 0 /\ r.contentLengths = 0 /\ r.count <= n

\* Until a callback is called, the response is bare, with the headers of CORS at most;
\* a callback that has called nothing has no start line and sends nothing.
FrameInv ==
    /\ calls \in Nat
    /\ ownLength \/ IsFramed(res)
    /\ stage \in {"parse", "judge"} => Bare(res, 0)
    /\ stage = "options" => Bare(res, 3)
    /\ stage = "route" => Bare(res, 5)
    /\ stage = "callback" /\ calls = 0 => res.start = 0
    /\ stage = "send" /\ calls = 0 => res.contentLengths = 1

\* A header that is no Content-Length leaves a response bare.
LEMMA BareHeader ==
  ASSUME NEW r, ResponseInv(r), NEW n \in Nat, Bare(r, n),
         NEW h, HeaderOk(h), h.number = -1
  PROVE  ResponseInv(HeaderSet(r, h)) /\ Bare(HeaderSet(r, h), n + 1)
<1> DEFINE s == HeaderSet(r, h)
<1>1. ResponseInv(s) /\ s.start = r.start
  BY HeaderSetInv, Zenon
<1>2. r \in Responses /\ s \in Responses
  BY <1>1, Zenon DEF ResponseInv
<1> HIDE DEF s
<1>3. h.number < 0
  BY SMT
<1>4. SameFrame(r, s, 1)
  BY <1>2, <1>3, HeaderSetFrame, Zenon DEF s
<1>5. r.count \in Nat /\ s.count \in Nat
  BY <1>2, Limits, SMT DEF Responses
<1>6. Bare(s, n + 1)
  BY <1>1, <1>4, <1>5, SMT DEF Bare, SameFrame
<1> QED BY <1>1, <1>6, Zenon DEF s

\* A bare response has room for any number of headers more than it has.
LEMMA BareMore ==
  ASSUME NEW r, ResponseInv(r), NEW m \in Nat, NEW n \in Nat, m <= n, Bare(r, m)
  PROVE  Bare(r, n)
<1>1. r.count \in Nat
  BY Limits, SMT DEF ResponseInv, Responses
<1> QED BY <1>1, SMT DEF Bare

\* The result of the last function says nothing about headers and body.
LEMMA BareOk ==
  ASSUME NEW r, ResponseInv(r), NEW n \in Nat, Bare(r, n)
  PROVE  Bare([r EXCEPT !.ok = TRUE], n)
<1>1. r \in Responses
  BY Zenon DEF ResponseInv
<1> QED BY <1>1, SMT DEF Bare, Responses

\* http_response_init
LEMMA BareNew == Bare(NewResponse, 0)
BY SMT DEF Bare, NewResponse

\* CORS adds three headers at most.
LEMMA WithCorsBare ==
  ASSUME NEW r, NEW c
  PROVE  Bare([WithCors(r, c) EXCEPT !.ok = TRUE], 3)
<1> DEFINE h1 == Header(32 + 4 + 4, TRUE)
           h2 == Header(4 + 6 + 4, TRUE)
           one == HeaderSet(NewResponse, h1)
           creds == HeaderSet(one, h2)
           base == IF c.credentials THEN creds ELSE NewResponse
           origin == AllowedOrigin(r, c)
           h3 == Header(27 + 4 + origin, TRUE)
           allowed == HeaderSet(base, h3)
<1>1. /\ HeaderOk(h1) /\ HeaderOk(h2) /\ (origin # -1 => HeaderOk(h3))
      /\ h1.number = -1 /\ h2.number = -1 /\ h3.number = -1
  <2>1. 32 + 4 + 4 \in Nat /\ 4 + 6 + 4 \in Nat
    OBVIOUS
  <2>2. origin # -1 => 27 + 4 + origin \in Nat
    <3>1. origin \in Nat \cup {-1}
      BY OriginLength, Zenon
    <3> HIDE DEF origin
    <3> QED BY <3>1, SMT
  <2> QED BY <2>1, <2>2, HeadersOk, Zenon DEF Header
<1>2. WithCors(r, c) = IF origin = -1 THEN base ELSE allowed
  BY Zenon DEF WithCors
<1> HIDE DEF h1, h2, h3, origin
<1>3. 0 \in Nat /\ 1 \in Nat /\ 2 \in Nat /\ 3 \in Nat
  OBVIOUS
<1>4. ResponseInv(one) /\ Bare(one, 0 + 1)
  BY <1>1, <1>3, NewResponseInv, BareNew, BareHeader, Zenon
<1> HIDE DEF one
<1>5. ResponseInv(creds) /\ Bare(creds, 1 + 1)
  <2>1. Bare(one, 1)
    BY <1>4, SMT
  <2> QED BY <1>1, <1>3, <1>4, <2>1, BareHeader, Zenon
<1> HIDE DEF creds
<1>6. ResponseInv(base) /\ Bare(base, 2)
  <2>1. Bare(creds, 2) /\ 0 <= 2
    BY <1>5, SMT
  <2>2. Bare(NewResponse, 2)
    BY <2>1, <1>3, NewResponseInv, BareNew, BareMore, Zenon
  <2> QED BY <1>5, <2>1, <2>2, NewResponseInv, Zenon
<1> HIDE DEF base
<1>7. origin # -1 => ResponseInv(allowed) /\ Bare(allowed, 2 + 1)
  BY <1>1, <1>3, <1>6, BareHeader, Zenon
<1> HIDE DEF allowed
<1>8. Bare(base, 3) /\ (origin # -1 => Bare(allowed, 3))
  <2>1. 2 <= 3 /\ 2 + 1 = 3
    BY SMT
  <2> QED BY <2>1, <1>3, <1>6, <1>7, BareMore, Zenon
<1>9. ResponseInv(WithCors(r, c)) /\ Bare(WithCors(r, c), 3)
  BY <1>2, <1>6, <1>7, <1>8, Zenon
<1> QED BY <1>3, <1>9, BareOk, Zenon

\* A preflight adds two more.
LEMMA WithOptionsBare ==
  ASSUME NEW r, NEW c, CaseType(c), ~(c.methodsLen < 0),
         NEW base, ResponseInv(base), Bare(base, 3)
  PROVE  Bare([WithOptions(r, c, base) EXCEPT !.ok = TRUE], 5)
<1> DEFINE methodsLen == c.methodsLen
           headersLen == c.allowHeadersLen
           h1 == Header(28 + 4 + methodsLen, TRUE)
           h2 == Header(28 + 4 + headersLen, TRUE)
           methods == HeaderSet(base, h1)
           both == HeaderSet(methods, h2)
<1>1. methodsLen \in Nat \cup {-1} /\ headersLen \in Nat /\ ~(methodsLen < 0)
  BY Zenon DEF CaseType
<1>2. WithOptions(r, c, base) = IF RequestedHeaders(r) = NotFound THEN methods ELSE both
  BY Zenon DEF WithOptions
<1> HIDE DEF methodsLen, headersLen
<1>3. 28 + 4 + methodsLen \in Nat /\ 28 + 4 + headersLen \in Nat
  BY <1>1, SMT
<1>4. HeaderOk(h1) /\ HeaderOk(h2) /\ h1.number = -1 /\ h2.number = -1
  BY <1>3, HeadersOk, Zenon DEF Header
<1> HIDE DEF h1, h2
<1>5. 3 \in Nat /\ 4 \in Nat /\ 5 \in Nat
  OBVIOUS
<1>6. ResponseInv(methods) /\ Bare(methods, 3 + 1)
  BY <1>4, <1>5, BareHeader, Zenon
<1> HIDE DEF methods
<1>7. Bare(methods, 4)
  BY <1>6, SMT
<1>8. ResponseInv(both) /\ Bare(both, 4 + 1)
  BY <1>4, <1>5, <1>6, <1>7, BareHeader, Zenon
<1> HIDE DEF both
<1>9. Bare(methods, 5) /\ Bare(both, 5)
  <2>1. 4 <= 5 /\ 4 + 1 = 5
    BY SMT
  <2> QED BY <2>1, <1>5, <1>6, <1>7, <1>8, BareMore, Zenon
<1> QED BY <1>2, <1>5, <1>6, <1>8, <1>9, BareOk, Zenon

\* The response of a function that ends the making of it
LEMMA AnswerFrame ==
  ASSUME FrameInv, UNCHANGED <<calls, ownLength>>,
         NEW r, Answer(r), IsFramed(r), r.ok => r.contentLengths = 1
  PROVE  FrameInv'
<1>1. /\ res' = r /\ calls' = calls /\ ownLength' = ownLength
      /\ stage' = IF r.ok THEN "send" ELSE "silent"
  BY Zenon DEF Answer
<1>2. stage' \in {"send", "silent"} /\ (stage' = "send" => r.ok)
  BY <1>1
<1>3. IsFramed(res)'
  BY <1>1, Zenon DEF IsFramed
<1>4. stage' \notin {"parse", "judge", "options", "route", "callback"}
  BY <1>2
<1> QED BY <1>1, <1>2, <1>3, <1>4, Zenon DEF FrameInv

\* An error message is framed when the response was bare: of nine headers at most,
\* five may come from CORS, and Date, Server, Content-Type and Content-Length are left.
LEMMA FailFrame ==
  ASSUME HeaderCapacity >= 9, ExchangeInv, FrameInv, Bare(res, 5), NEW code, Fail(res, code),
         UNCHANGED <<calls, ownLength>>
  PROVE  FrameInv'
<1> DEFINE c == Construct(res, code, MessageLen, ~case.september)
<1>1. Answer(c)
  BY Zenon DEF Fail
<1>2. ResponseInv(res) /\ res.body = 0 /\ res.contentLengths = 0
  BY Zenon DEF ExchangeInv, Bare
<1>3. res.count + 4 <= HeaderCapacity
  <2>1. res.count \in Nat /\ HeaderCapacity \in Nat
    BY <1>2, Limits, SMT DEF ResponseInv, Responses
  <2> QED BY <2>1, SMT DEF Bare
<1>4. MessageLen \in Int /\ MessageLen <= BodyLen
  BY SMT DEF MessageLen, BodyLen
<1>5. IsFramed(c) /\ (c.ok => c.contentLengths = 1)
  BY <1>2, <1>3, <1>4, ConstructFrame, Zenon
<1> HIDE DEF c
<1> QED BY <1>1, <1>5, AnswerFrame, Zenon

\* The next stage of http_process_request begins with a response that is bare.
LEMMA BareFrame ==
  ASSUME FrameInv, UNCHANGED <<calls, ownLength>>,
         (stage' = "options" /\ Bare(res', 3)) \/ (stage' = "route" /\ Bare(res', 5))
  PROVE  FrameInv'
<1>1. IsFramed(res)'
  BY Zenon DEF Bare, IsFramed
<1>2. stage' \notin {"parse", "judge", "callback", "send"}
  OBVIOUS
<1>3. /\ stage' = "options" => Bare(res, 3)'
      /\ stage' = "route" => Bare(res, 5)'
  OBVIOUS
<1> QED BY <1>1, <1>2, <1>3, Zenon DEF FrameInv

\* The steps of http_process_request up to the choice of a route
LEMMA RequestStepFrame ==
  ASSUME HeaderCapacity >= 9, ExchangeInv, FrameInv, Parse \/ Judge \/ Options
  PROVE  FrameInv'
<1>1. ResponseInv(res) /\ CaseType(case)
  BY ExchangeAssumption, Zenon DEF ExchangeInv
<1>2. ASSUME NEW n \in Nat, n <= 5, Bare(res, n), NEW code, Fail(res, code),
             UNCHANGED <<calls, ownLength>>
      PROVE  FrameInv'
  <2>1. 5 \in Nat
    OBVIOUS
  <2>2. Bare(res, 5)
    BY <1>1, <1>2, <2>1, BareMore, Zenon
  <2> QED BY <1>2, <2>2, FailFrame, Zenon
<1>3. 0 \in Nat /\ 3 \in Nat /\ 5 \in Nat /\ 0 <= 5 /\ 3 <= 5
  BY SMT
<1>4. CASE Parse
  <2>1. stage = "parse" /\ UNCHANGED <<calls, ownLength>>
    BY <1>4, Zenon DEF Parse
  <2>2. Bare(res, 0)
    BY <2>1, Zenon DEF FrameInv
  <2>3. (stage' = "judge" /\ res' = res) \/ Fail(res, "HTTP_SC_400")
    BY <1>4, Zenon DEF Parse, Enter
  <2>4. CASE stage' = "judge" /\ res' = res
    BY <2>1, <2>2, <2>4, Zenon DEF FrameInv
  <2> QED BY <1>2, <1>3, <2>1, <2>2, <2>3, <2>4, Zenon
<1>5. CASE Judge
  <2> DEFINE new == [WithCors(req, case) EXCEPT !.ok = TRUE]
  <2>1. stage = "judge" /\ UNCHANGED <<calls, ownLength>>
    BY <1>5, Zenon DEF Judge
  <2>2. Bare(res, 0)
    BY <2>1, Zenon DEF FrameInv
  <2>3. (res' = new /\ stage' \in {"options", "route"}) \/ Fail(res, "HTTP_SC_400")
    BY <1>5, Zenon DEF Judge
  <2>4. Bare(new, 3) /\ ResponseInv(new)
    BY WithCorsBare, WithCorsInv, Zenon
  <2> HIDE DEF new
  <2>5. Bare(new, 5)
    BY <1>3, <2>4, BareMore, Zenon
  <2>6. CASE res' = new /\ stage' \in {"options", "route"}
    BY <2>1, <2>4, <2>5, <2>6, BareFrame, Zenon
  <2> QED BY <1>2, <1>3, <2>1, <2>2, <2>3, <2>6, Zenon
<1>6. CASE Options
  <2> DEFINE new == [WithOptions(req, case, res) EXCEPT !.ok = TRUE]
  <2>1. stage = "options" /\ UNCHANGED <<calls, ownLength>>
    BY <1>6, Zenon DEF Options
  <2>2. Bare(res, 3)
    BY <2>1, Zenon DEF FrameInv
  <2>3. \/ Fail(res, "HTTP_SC_400") \/ Fail(res, "HTTP_SC_500")
        \/ ~(case.methodsLen < 0) /\ res' = new /\ stage' = "route"
    BY <1>6, Zenon DEF Options
  <2>4. ~(case.methodsLen < 0) => Bare(new, 5)
    BY <1>1, <2>2, WithOptionsBare, Zenon
  <2> HIDE DEF new
  <2>5. CASE ~(case.methodsLen < 0) /\ res' = new /\ stage' = "route"
    BY <2>1, <2>4, <2>5, BareFrame, Zenon
  <2> QED BY <1>2, <1>3, <2>1, <2>2, <2>3, <2>5, Zenon
<1> QED BY <1>4, <1>5, <1>6, Zenon

\* The choice of a route, the return of a callback and the sending
LEMMA RouteStepFrame ==
  ASSUME HeaderCapacity >= 9, ExchangeInv, FrameInv, Route \/ Return \/ Send
  PROVE  FrameInv'
<1>1. ResponseInv(res)
  BY Zenon DEF ExchangeInv
<1>2. CASE Route
  <2> DEFINE upgrade == ConstructUpgrade(res, ~case.september)
             none == Construct(res, "HTTP_SC_204", -1, ~case.september)
  <2>1. stage = "route" /\ UNCHANGED <<calls, ownLength>>
    BY <1>2, Zenon DEF Route
  <2>2. Bare(res, 5)
    BY <2>1, Zenon DEF FrameInv
  <2>3. \/ Fail(res, "HTTP_SC_404") \/ Answer(upgrade) \/ Answer(none)
        \/ stage' = "callback" /\ res' = res
    BY <1>2, Zenon DEF Route, Enter
  <2>4. res.start = 0 /\ res.body = 0 /\ res.contentLengths = 0
    BY <2>2, Zenon DEF Bare
  <2>5. IsFramed(upgrade) /\ (upgrade.ok => upgrade.contentLengths = 1)
    BY <1>1, <2>4, ConstructUpgradeFrame, Zenon DEF IsFramed
  <2>6. IsFramed(none) /\ (none.ok => none.contentLengths = 1)
    <3>1. res.count + 4 <= HeaderCapacity
      <4>1. res.count \in Nat /\ HeaderCapacity \in Nat
        BY <1>1, Limits, SMT DEF ResponseInv, Responses
      <4> QED BY <2>2, <4>1, SMT DEF Bare
    <3>2. -1 \in Int /\ -1 <= BodyLen
      BY SMT DEF BodyLen
    <3> QED BY <1>1, <2>4, <3>1, <3>2, ConstructFrame, Zenon
  <2> HIDE DEF upgrade, none
  <2>7. CASE stage' = "callback" /\ res' = res
    <3>1. IsFramed(res)'
      BY <2>4, <2>7, Zenon DEF IsFramed
    <3> QED BY <2>1, <2>4, <2>7, <3>1, Zenon DEF FrameInv
  <2> QED BY <2>1, <2>2, <2>3, <2>5, <2>6, <2>7, AnswerFrame, FailFrame, Zenon
<1>3. CASE Return
  <2>1. /\ stage = "callback" /\ res' = res /\ UNCHANGED <<calls, ownLength>>
        /\ stage' = IF res.start = 0 THEN "silent" ELSE "send"
    BY <1>3, Zenon DEF Return, Enter
  <2>2. stage' \in {"silent", "send"} /\ (stage' = "send" => res.start # 0)
    BY <2>1
  <2>3. stage' = "send" => calls' # 0
    BY <2>1, <2>2, Zenon DEF FrameInv
  <2>4. stage' \notin {"parse", "judge", "options", "route", "callback"}
    BY <2>2
  <2>5. IsFramed(res)' <=> IsFramed(res)
    BY <2>1, Zenon DEF IsFramed
  <2> QED BY <2>1, <2>3, <2>4, <2>5, Zenon DEF FrameInv
<1>4. CASE Send
  <2>1. stage' = "over" /\ UNCHANGED <<calls, ownLength, res>>
    BY <1>4, Zenon DEF Send
  <2>2. IsFramed(res)' <=> IsFramed(res)
    BY <2>1, Zenon DEF IsFramed
  <2> QED BY <2>1, <2>2, Zenon DEF FrameInv
<1> QED BY <1>2, <1>3, <1>4, Zenon

\* A function of the library that keeps a response framed, or the header that makes
\* the callback responsible
LEMMA CallFrame ==
  ASSUME FrameInv, NEW r, Call(r),
         ownLength' \/ (UNCHANGED ownLength /\ (IsFramed(res) => IsFramed(r)))
  PROVE  FrameInv'
<1>1. /\ stage = "callback" /\ stage' = stage /\ calls' = calls + 1 /\ res' = r
      /\ calls \in Nat
  BY Zenon DEF Call, FrameInv
<1>2. calls' \in Nat /\ calls' # 0
  BY <1>1, SMT
<1>3. ownLength' \/ IsFramed(res)'
  BY <1>1, Zenon DEF IsFramed, FrameInv
<1>4. stage' \notin {"parse", "judge", "options", "route", "send"}
  BY <1>1
<1> QED BY <1>2, <1>3, <1>4, Zenon DEF FrameInv

\* Every function that a callback may call
LEMMA CallStepFrame ==
  ASSUME ExchangeInv, FrameInv,
         CallStart \/ CallCustom \/ CallHeader \/ CallContentLength \/ CallBody
  PROVE  FrameInv'
<1>1. ResponseInv(res) /\ res \in Responses /\ CaseType(case)
  BY ExchangeAssumption, Zenon DEF ExchangeInv, ResponseInv
<1>2. ASSUME NEW r, Call(r), UNCHANGED ownLength,
             NEW n, SameFrame(res, r, n)
      PROVE  FrameInv'
  <2>1. IsFramed(res) => IsFramed(r)
    BY <1>2, Zenon DEF IsFramed, SameFrame
  <2> QED BY <1>2, <2>1, CallFrame, Zenon
<1>3. CASE CallStart
  <2>1. PICK code : Call(StartSet(res, code, ~case.september)) /\ UNCHANGED ownLength
    BY <1>3, Zenon DEF CallStart
  <2>2. SameFrame(res, StartSet(res, code, ~case.september), 2)
    BY <1>1, StartSetFrame, Zenon
  <2> QED BY <1>2, <2>1, <2>2, Zenon
<1>4. ASSUME NEW n \in Nat, NEW valid, Call(HeaderSet(res, Header(n, valid))), UNCHANGED ownLength
      PROVE  FrameInv'
  <2> DEFINE h == Header(n, valid)
  <2>1. HeaderOk(h) /\ h.number = -1
    BY HeadersOk, Zenon DEF Header
  <2> HIDE DEF h
  <2>2. h.number < 0
    BY <2>1, SMT
  <2>3. SameFrame(res, HeaderSet(res, h), 1)
    BY <1>1, <2>1, <2>2, HeaderSetFrame, Zenon
  <2> QED BY <1>2, <1>4, <2>3, Zenon DEF h
<1>5. CASE CallCustom
  <2>1. PICK n \in case.callback.lengths : Call(HeaderSet(res, Header(n, TRUE)))
    BY <1>5, Zenon DEF CallCustom
  <2>2. n \in Nat /\ UNCHANGED ownLength
    BY <1>1, <1>5, Zenon DEF CaseType, CallCustom
  <2> QED BY <1>4, <2>1, <2>2, Zenon
<1>6. CASE CallHeader
  <2>1. PICK h \in case.callback.known :
          Call(HeaderSet(res, Header(TextLen(h.field) + TextLen(h.value) + 4,
                                     ResponseValueOk(h.field, h.value))))
    BY <1>6, Zenon DEF CallHeader
  <2> DEFINE n1 == TextLen(h.field)
             n2 == TextLen(h.value)
  <2>2. n1 \in Nat /\ n2 \in Nat /\ UNCHANGED ownLength
    BY <1>1, <1>6, Zenon DEF CaseType, CallHeader
  <2>3. n1 + n2 + 4 \in Nat
    <3> HIDE DEF n1, n2
    <3> QED BY <2>2, SMT
  <2> QED BY <1>4, <2>1, <2>2, <2>3, Zenon
<1>7. CASE CallContentLength
  <2>1. Call(HeaderSet(res, ContentLengthOf(7))) /\ ownLength'
    BY <1>7, Zenon DEF CallContentLength
  <2> QED BY <2>1, CallFrame, Zenon
<1>8. CASE CallBody
  <2>1. PICK n \in case.callback.bodies : Call(BodySet(res, n))
    BY <1>8, Zenon DEF CallBody
  <2>2. n \in Nat /\ UNCHANGED ownLength
    BY <1>1, <1>8, Zenon DEF CaseType, CallBody
  <2>3. IsFramed(res) => IsFramed(BodySet(res, n))
    BY <1>1, <2>2, BodySetFrame, Zenon
  <2> QED BY <2>1, <2>2, <2>3, CallFrame, Zenon
<1> QED BY <1>3, <1>5, <1>6, <1>7, <1>8, Zenon

-----------------------------------------------------------------------------
(* Types                                                                   *)

Marks == {"key", "connection", "upgrade", "version"}

\* The hosts that the lines of a request name
HostOf(line) == [domain |-> DomainPort(line.value).domain, port |-> DomainPort(line.value).port]
HostsOf(lines) == {NoHost} \cup {HostOf(lines[k]) : k \in DOMAIN lines}

\* What a line leaves in the request is of the same type as what it was before.
LEMMA KeptFacts ==
  ASSUME NEW Hosts, NEW kept \in [ok : BOOLEAN, host : Hosts, has : SUBSET Marks],
         NEW line, HostOf(line) \in Hosts
  PROVE  /\ Kept(kept, line) \in [ok : BOOLEAN, host : Hosts, has : SUBSET Marks]
         /\ [kept EXCEPT !.ok = FALSE] \in [ok : BOOLEAN, host : Hosts, has : SUBSET Marks]
<1> DEFINE A == [ok : BOOLEAN, host : Hosts, has : SUBSET Marks]
           With(mark) == [kept EXCEPT !.has = @ \cup {mark}]
           WithHost(host) == [kept EXCEPT !.host = host]
<1>1. \A host \in Hosts : WithHost(host) \in A
  OBVIOUS
<1>2. \A mark \in Marks : With(mark) \in A
  OBVIOUS
<1>3. kept \in A /\ [kept EXCEPT !.ok = FALSE] \in A
  OBVIOUS
<1>4. {"key", "connection", "upgrade", "version"} \subseteq Marks
  BY Zenon DEF Marks
<1>5. Kept(kept, line) \in {WithHost(HostOf(line)), With("upgrade"), With("connection"),
                            With("key"), With("version"), kept}
  <2> DEFINE field == CanonicalField(line.field)
             host == DomainPort(line.value)
  <2>1. Kept(kept, line) =
          CASE field = <<"Host">> -> WithHost(HostOf(line))
            [] field = <<"Upgrade">> -> With("upgrade")
            [] field = <<"Connection">> /\ line.value = <<"upgrade">> -> With("connection")
            [] field = <<"Sec-WebSocket", "-Key">> -> With("key")
            [] field = <<"Sec-WebSocket", "-Version">> -> With("version")
            [] OTHER -> kept
    BY Zenon DEF Kept, HostOf
  <2> HIDE DEF field, WithHost, With, A
  <2> QED BY <2>1, SMT
<1> HIDE DEF A, With, WithHost
<1>6. WithHost(HostOf(line)) \in A
  BY <1>1, Zenon
<1>7. /\ With("upgrade") \in A /\ With("connection") \in A
      /\ With("key") \in A /\ With("version") \in A
  BY <1>2, <1>4, Zenon
<1> QED BY <1>3, <1>5, <1>6, <1>7, Zenon DEF A

\* What a line makes of what the lines before it have left
ReadTurn(kept, line, allow_headers) ==
    IF ~kept.ok THEN kept
    ELSE IF ~LineOk(line, allow_headers) THEN [kept EXCEPT !.ok = FALSE]
    ELSE Kept(kept, line)
LinesLeave(lines) == [ok : BOOLEAN, host : HostsOf(lines), has : SUBSET Marks]

\* http_request_process_headers, line by line
LEMMA ReadTurns ==
  ASSUME NEW E, NEW lines \in Seq(E), NEW allow_headers
  PROVE  \E r \in [0 .. Len(lines) -> LinesLeave(lines)] :
            /\ r[0] = NoFields /\ r[Len(lines)] = ReadFields(lines, allow_headers)
            /\ \A k \in 1 .. Len(lines) : r[k] = ReadTurn(r[k - 1], lines[k], allow_headers)
<1> DEFINE n == Len(lines)
           S == DOMAIN lines
           A == LinesLeave(lines)
           Step(kept, line) == ReadTurn(kept, line, allow_headers)
           G == [p \in (1 .. n) \X A |-> Step(p[2], lines[p[1]])]
           Body(g) == [t \in SUBSET S |-> IF t = {} THEN NoFields
                                          ELSE Step(g[t \ {Max(t)}], lines[Max(t)])]
           iter == CHOOSE g : g = Body(g)
<1>1. n \in Nat /\ S = 1 .. n
  BY LenProperties
<1>2. NoFields \in A
  BY DEF NoFields, HostsOf, LinesLeave
<1>3. ASSUME NEW k \in 1 .. n, NEW kept \in A PROVE Step(kept, lines[k]) \in A
  <2>1. HostOf(lines[k]) \in HostsOf(lines)
    BY <1>1, Zenon DEF HostsOf
  <2>2. Kept(kept, lines[k]) \in A /\ [kept EXCEPT !.ok = FALSE] \in A
    BY <2>1, KeptFacts, Zenon DEF LinesLeave
  <2> QED BY <2>2, <1>3, Zenon DEF ReadTurn
<1> HIDE DEF Step
<1>4. G \in [(1 .. n) \X A -> A]
  <2>1. \A p \in (1 .. n) \X A : p[1] \in 1 .. n /\ p[2] \in A
    OBVIOUS
  <2> HIDE DEF n, A
  <2> QED BY <1>3, <2>1
<1> HIDE DEF n, S, A
<1>5. PICK g \in [SUBSET (1 .. n) -> A] : FoldsBy(g, n, NoFields, G)
  <2> HIDE DEF G
  <2> QED BY <1>1, <1>2, <1>4, FoldUpExists, Zenon
<1>6. ASSUME NEW t \in SUBSET (1 .. n), t # {} PROVE Max(t) \in 1 .. n
  BY <1>1, <1>6, LastPosition
<1>7. ASSUME NEW h, NEW t \in SUBSET (1 .. n), t # {}, h[t \ {Max(t)}] \in A
      PROVE  G[<<Max(t), h[t \ {Max(t)}]>>] = Step(h[t \ {Max(t)}], lines[Max(t)])
  BY <1>6, <1>7
<1> HIDE DEF G
<1>8. g = Body(g)
  <2>1. ASSUME NEW t \in SUBSET S
        PROVE  g[t] = IF t = {} THEN NoFields ELSE Step(g[t \ {Max(t)}], lines[Max(t)])
    BY <1>1, <1>5, <1>7 DEF FoldsBy
  <2> QED BY <1>1, <1>5, <2>1
<1>9. iter = Body(iter)
  <2> HIDE DEF Body
  <2> QED BY <1>8, Zenon
<1> HIDE DEF iter
<1>10. iter[{}] = NoFields
  BY <1>9
<1>11. ASSUME NEW t \in SUBSET (1 .. n), t # {}, iter[t \ {Max(t)}] \in A
       PROVE  iter[t] = G[<<Max(t), iter[t \ {Max(t)}]>>]
  <2>1. iter[t] = Body(iter)[t]
    BY <1>9, Zenon
  <2>2. Body(iter)[t] = Step(iter[t \ {Max(t)}], lines[Max(t)])
    BY <1>1, <1>11
  <2> QED BY <1>7, <1>11, <2>1, <2>2
<1>12. PICK r \in [0 .. n -> A] : Turns(r, n, NoFields, G) /\ r[n] = iter[1 .. n]
  <2>1. FoldsIn(iter, n, A, NoFields, G)
    BY <1>10, <1>11, Zenon DEF FoldsIn
  <2>2. HasTurns(iter, n, A, NoFields, G)
    BY <2>1, <1>1, <1>2, <1>4, FoldTurns, Zenon
  <2> QED BY <2>2, Zenon DEF HasTurns
<1>13. ASSUME NEW k \in 1 .. n PROVE r[k] = Step(r[k - 1], lines[k])
  <2>1. r[k - 1] \in A
    BY <1>1, <1>12
  <2>2. G[<<k, r[k - 1]>>] = Step(r[k - 1], lines[k])
    BY <2>1 DEF G
  <2> QED BY <1>12, <2>2 DEF Turns
<1>14. ReadFields(lines, allow_headers) = iter[S]
  BY Zenon DEF ReadFields, FoldLeft, MapThenFoldSet, iter, S, Step, ReadTurn
<1> QED BY <1>1, <1>12, <1>13, <1>14 DEF n, A, Turns, Step

\* http_request_process_headers leaves a host of its lines, and marks.
LEMMA ReadFieldsFacts ==
  ASSUME NEW E, NEW lines \in Seq(E), NEW allow_headers
  PROVE  ReadFields(lines, allow_headers)
           \in [ok : BOOLEAN, host : HostsOf(lines), has : SUBSET Marks]
<1>1. PICK r \in [0 .. Len(lines) -> LinesLeave(lines)] :
         r[Len(lines)] = ReadFields(lines, allow_headers)
  BY ReadTurns
<1>2. Len(lines) \in 0 .. Len(lines)
  BY LenProperties
<1> QED BY <1>1, <1>2 DEF LinesLeave

\* If the loop is content, every line is.
LEMMA ReadAcceptsLines ==
  ASSUME NEW E, NEW lines \in Seq(E), NEW allow_headers, ReadFields(lines, allow_headers).ok
  PROVE  \A k \in 1 .. Len(lines) : LineOk(lines[k], allow_headers)
<1> DEFINE n == Len(lines)
<1>1. PICK r \in [0 .. n -> LinesLeave(lines)] :
            /\ r[0] = NoFields /\ r[n] = ReadFields(lines, allow_headers)
            /\ \A k \in 1 .. n : r[k] = ReadTurn(r[k - 1], lines[k], allow_headers)
  BY ReadTurns
<1> DEFINE T == {k \in 0 .. n : r[k].ok => \A j \in 1 .. k : LineOk(lines[j], allow_headers)}
<1>2. n \in Nat
  BY LenProperties
<1> HIDE DEF n
<1>3. 0 \in T
  BY <1>2
<1>4. ASSUME NEW k \in 1 .. n, k - 1 \in T PROVE k \in T
  <2>1. k - 1 \in 0 .. n /\ r[k - 1] \in LinesLeave(lines)
    BY <1>1, <1>2
  <2>2. SUFFICES ASSUME r[k].ok, NEW j \in 1 .. k PROVE LineOk(lines[j], allow_headers)
    BY <1>2
  <2>3. r[k - 1].ok /\ LineOk(lines[k], allow_headers)
    <3>1. r[k] = ReadTurn(r[k - 1], lines[k], allow_headers)
      BY <1>1
    <3>2. r[k - 1] \in [ok : BOOLEAN, host : HostsOf(lines), has : SUBSET Marks]
      BY <2>1 DEF LinesLeave
    <3>3. [r[k - 1] EXCEPT !.ok = FALSE].ok = FALSE
      BY <3>2
    <3> QED BY <2>2, <3>1, <3>3, Zenon DEF ReadTurn
  <2>4. j = k \/ j \in 1 .. k - 1
    BY <1>2
  <2> QED BY <1>4, <2>3, <2>4
<1>5. \A k \in 0 .. n : k \in T
  <2> HIDE DEF T
  <2> QED BY <1>2, <1>3, <1>4, CountUp, Zenon
<1>6. n \in T
  BY <1>2, <1>5
<1> QED BY <1>1, <1>6 DEF n

\* A request as the parser leaves it
RequestType(r) ==
    /\ r.upTo \in {"start", "method", "target", "protocol", "headers", "end"}
    /\ r.has \subseteq Marks /\ r.old \in BOOLEAN /\ r.body \in BOOLEAN

\* What the parser makes of a case has its type.
LEMMA ParsedFacts ==
  ASSUME NEW c, CaseType(c)
  PROVE  RequestType(Parsed(c))
<1> DEFINE fields == ReadFields(c.lines, c.allow_headers)
           upTo == IF c.method \notin Methods THEN "method"
                   ELSE IF ~TargetOk(c.method, c.target) THEN "target"
                   ELSE IF c.protocol \notin Protocols THEN "protocol"
                   ELSE IF ~fields.ok THEN "headers"
                   ELSE "end"
           old == upTo \in {"headers", "end"} /\ c.protocol = "HTTP/1.0"
           body == upTo = "end" /\ c.body /\ c.method \in MethodsWithBody
           target == IF upTo \in {"method", "target"} THEN <<>> ELSE c.target
           headers == IF upTo = "end" THEN HeaderText(c.lines) ELSE <<>>
<1>1. Parsed(c) = [upTo |-> upTo, target |-> target, old |-> old, headers |-> headers,
                   host |-> fields.host, has |-> fields.has, body |-> body]
  BY Zenon DEF Parsed
<1>2. fields.has \subseteq Marks
  <2> DEFINE lines == c.lines
             allow == c.allow_headers
  <2>1. lines \in Seq([field : Seq(STRING), spaces : Nat, value : Seq(STRING)])
    BY Zenon DEF CaseType
  <2> HIDE DEF lines, allow
  <2>2. ReadFields(lines, allow) \in [ok : BOOLEAN, host : HostsOf(lines), has : SUBSET Marks]
    BY <2>1, ReadFieldsFacts, Zenon
  <2>3. ReadFields(lines, allow).has \subseteq Marks
    BY <2>2
  <2> QED BY <2>3, Zenon DEF lines, allow
<1>3. upTo \in {"method", "target", "protocol", "headers", "end"}
  BY Zenon
<1>4. old \in BOOLEAN /\ body \in BOOLEAN
  BY Zenon
<1> HIDE DEF fields, upTo, old, body, target, headers
<1>5. /\ Parsed(c).upTo = upTo /\ Parsed(c).old = old
      /\ Parsed(c).has = fields.has /\ Parsed(c).body = body
  BY <1>1
<1> QED BY <1>2, <1>3, <1>4, <1>5, Zenon DEF RequestType

Stages == {"parse", "judge", "options", "route", "callback", "send", "silent", "over"}
Accepted == {"judge", "options", "route", "callback"}

TypeInv ==
    /\ stage \in Stages /\ (stage \in Accepted => req.upTo = "end")
    /\ RequestType(req)
    /\ calls \in Nat /\ sent \in Nat /\ ownLength \in BOOLEAN /\ should_close \in BOOLEAN

\* The stages behind an accepted request and the others
LEMMA StageNames ==
  /\ Accepted \subseteq Stages
  /\ {"send", "silent", "over"} \subseteq Stages /\ "judge" \in Accepted
  /\ {"options", "route", "callback"} \subseteq Accepted
  /\ "parse" \in Stages /\ "parse" \notin Accepted
  /\ "send" \notin Accepted /\ "silent" \notin Accepted /\ "over" \notin Accepted
BY SMT DEF Accepted, Stages

\* Every step of a request that has been accepted leaves it alone and ends the making of
\* the response or goes on.
LEMMA StepTypes ==
  ASSUME TypeInv, stage \in Accepted,
         stage' \in Accepted \/ stage' \in {"send", "silent"},
         UNCHANGED <<req, sent, should_close>>, calls' \in Nat, ownLength' \in BOOLEAN
  PROVE  TypeInv'
<1>1. stage' \in Stages /\ req' = req /\ req.upTo = "end"
  BY StageNames, Zenon DEF TypeInv
<1> QED BY <1>1, Zenon DEF TypeInv, RequestType

\* Every step keeps the types.
LEMMA NextTypes ==
  ASSUME ExchangeInv, TypeInv, [Next]_vars
  PROVE  TypeInv'
<1>1. CaseType(case) /\ res \in Responses
  BY ExchangeAssumption, Zenon DEF ExchangeInv, ResponseInv
<1>2. ASSUME NEW base, NEW code, Fail(base, code) PROVE stage' \in {"send", "silent"}
  BY <1>2, Zenon DEF Fail, Answer
<1>3. calls \in Nat /\ calls + 1 \in Nat /\ ownLength \in BOOLEAN /\ TRUE \in BOOLEAN
  <2>1. calls \in Nat /\ ownLength \in BOOLEAN
    BY Zenon DEF TypeInv
  <2> QED BY <2>1
<1>4. CASE Parse
  <2>1. /\ req' = Parsed(case) /\ UNCHANGED <<calls, ownLength, sent, should_close>>
        /\ \/ req'.upTo = "end" /\ stage' = "judge"
           \/ Fail(res, "HTTP_SC_400")
    BY <1>4, Zenon DEF Parse, Enter
  <2>2. RequestType(req')
    BY <1>1, <2>1, ParsedFacts, Zenon
  <2>3. stage' \in Stages /\ (stage' \in Accepted => req'.upTo = "end")
    BY <1>2, <2>1, StageNames, Zenon
  <2> QED BY <2>1, <2>2, <2>3, Zenon DEF TypeInv, RequestType
<1>5. CASE Judge
  <2>1. /\ stage = "judge" /\ UNCHANGED <<req, calls, ownLength, sent, should_close>>
        /\ \/ Fail(res, "HTTP_SC_400")
           \/ stage' = IF case.method = "OPTIONS" THEN "options" ELSE "route"
    BY <1>5, Zenon DEF Judge
  <2> QED BY <1>2, <1>3, <2>1, StageNames, StepTypes, Zenon
<1>6. CASE Options
  <2>1. /\ stage = "options" /\ UNCHANGED <<req, calls, ownLength, sent, should_close>>
        /\ \/ Fail(res, "HTTP_SC_400") \/ Fail(res, "HTTP_SC_500") \/ stage' = "route"
    BY <1>6, Zenon DEF Options
  <2> QED BY <1>2, <1>3, <2>1, StageNames, StepTypes, Zenon
<1>7. CASE Route
  <2>1. /\ stage = "route" /\ UNCHANGED <<req, calls, ownLength, sent, should_close>>
        /\ \/ stage' \in {"send", "silent"} \/ Fail(res, "HTTP_SC_404") \/ stage' = "callback"
    BY <1>7, Zenon DEF Route, Enter, Answer
  <2> QED BY <1>2, <1>3, <2>1, StageNames, StepTypes, Zenon
<1>8. CASE CallStart \/ CallCustom \/ CallHeader \/ CallContentLength \/ CallBody
  <2>1. /\ stage = "callback" /\ stage' = stage /\ calls' = calls + 1
        /\ UNCHANGED <<req, sent, should_close>>
    BY <1>8, Zenon DEF Call, CallStart, CallCustom, CallHeader, CallContentLength, CallBody
  <2>2. ownLength' = ownLength \/ ownLength' = TRUE
    BY <1>8, Zenon DEF CallStart, CallCustom, CallHeader, CallContentLength, CallBody
  <2> QED BY <1>3, <2>1, <2>2, StageNames, StepTypes, Zenon
<1>9. CASE Return
  <2>1. /\ stage = "callback" /\ UNCHANGED <<req, calls, ownLength, sent, should_close>>
        /\ stage' = IF res.start = 0 THEN "silent" ELSE "send"
    BY <1>9, Zenon DEF Return, Enter
  <2> QED BY <1>3, <2>1, StageNames, StepTypes, Zenon
<1>10. CASE Send
  <2>1. /\ stage' = "over" /\ sent' = SentLength(res) /\ should_close' = WantsClose(req)
        /\ UNCHANGED <<req, calls, ownLength>>
    BY <1>10, Zenon DEF Send
  <2>2. SentLength(res) \in Nat
    <3>1. res.start \in 0 .. 49 /\ res.length \in Nat /\ res.body \in Nat
      BY <1>1, SMT DEF Responses
    <3>2. \A a \in 0 .. 49, b, c \in Nat : a + b + (IF c = 0 THEN 2 ELSE c) \in Nat
      OBVIOUS
    <3> QED BY <3>1, <3>2, Zenon DEF SentLength
  <2>3. WantsClose(req) \in BOOLEAN
    BY Zenon DEF WantsClose
  <2>4. stage' \in Stages /\ stage' \notin Accepted
    BY <2>1, StageNames, Zenon
  <2> QED BY <2>1, <2>2, <2>3, <2>4, Zenon DEF TypeInv, RequestType
<1>11. CASE UNCHANGED vars
  BY <1>11, Zenon DEF vars, TypeInv, RequestType
<1> QED BY <1>4, <1>5, <1>6, <1>7, <1>8, <1>9, <1>10, <1>11, Zenon DEF Next

-----------------------------------------------------------------------------
(* The scanners of a target (RequestTarget), turn by turn                   *)

\* The states of the loop over the path, and one turn of it
PathState == [ok : BOOLEAN, seg_len : Nat]
PathTurn(s, st, k) ==
    IF ~st.ok THEN st
    ELSE IF s[k] = "/" THEN [ok |-> st.seg_len >= 1, seg_len |-> 0]
    ELSE IF s[k] = "%" THEN [st EXCEPT !.ok = EscapeAt(s, k)]
    ELSE IF s[k] \notin PathChars THEN [st EXCEPT !.ok = FALSE]
    ELSE [st EXCEPT !.seg_len = @ + 1]

\* The loop over the path, turn by turn
LEMMA PathTurns ==
  ASSUME NEW t \in Seq(STRING)
  PROVE  \E r \in [0 .. Len(t) -> PathState] :
            /\ r[0] = [ok |-> TRUE, seg_len |-> 0] /\ r[Len(t)] = ScanPath(t)
            /\ \A k \in 1 .. Len(t) : r[k] = PathTurn(t, r[k - 1], k)
<1> DEFINE n == Len(t)
           idx == [i \in DOMAIN t |-> i]
           S == DOMAIN idx
           base == [ok |-> TRUE, seg_len |-> 0]
           G == [p \in (1 .. n) \X PathState |-> PathTurn(t, p[2], p[1])]
           Body(g) == [s \in SUBSET S |->
                         IF s = {} THEN base ELSE PathTurn(t, g[s \ {Max(s)}], idx[Max(s)])]
           iter == CHOOSE g : g = Body(g)
<1>1. n \in Nat /\ S = 1 .. n /\ \A k \in 1 .. n : idx[k] = k
  BY LenProperties
<1>2. base \in PathState
  BY DEF PathState
<1>3. ASSUME NEW k \in 1 .. n, NEW st \in PathState PROVE PathTurn(t, st, k) \in PathState
  <2>1. EscapeAt(t, k) \in BOOLEAN
    BY Zenon DEF EscapeAt
  <2>2. st.ok \in BOOLEAN /\ st.seg_len \in Nat
    BY <1>3 DEF PathState
  <2> HIDE DEF n
  <2>3. [ok |-> st.seg_len >= 1, seg_len |-> 0] \in PathState
    BY <2>2 DEF PathState
  <2>4. [st EXCEPT !.ok = EscapeAt(t, k)] \in PathState /\ [st EXCEPT !.ok = FALSE] \in PathState
    BY <1>3, <2>1 DEF PathState
  <2>5. [st EXCEPT !.seg_len = @ + 1] \in PathState
    BY <1>3, <2>2 DEF PathState
  <2> QED BY <1>3, <2>3, <2>4, <2>5, Zenon DEF PathTurn
<1>4. G \in [(1 .. n) \X PathState -> PathState]
  BY <1>3
<1>5. PICK g \in [SUBSET (1 .. n) -> PathState] : FoldsBy(g, n, base, G)
  <2> HIDE DEF n, base, G
  <2> QED BY <1>1, <1>2, <1>4, FoldUpExists, Zenon
<1>6. ASSUME NEW s \in SUBSET (1 .. n), s # {} PROVE Max(s) \in 1 .. n /\ idx[Max(s)] = Max(s)
  <2>1. Max(s) \in s
    BY <1>1, <1>6, LastPosition
  <2> QED BY <1>1, <2>1
<1> HIDE DEF n, base, S, idx
<1>7. ASSUME NEW h, NEW s \in SUBSET (1 .. n), s # {}, h[s \ {Max(s)}] \in PathState
      PROVE  G[<<Max(s), h[s \ {Max(s)}]>>] = PathTurn(t, h[s \ {Max(s)}], idx[Max(s)])
  BY <1>6, <1>7
<1> HIDE DEF G
<1>8. g = Body(g)
  <2>1. ASSUME NEW s \in SUBSET S
        PROVE  g[s] = IF s = {} THEN base ELSE PathTurn(t, g[s \ {Max(s)}], idx[Max(s)])
    BY <1>1, <1>5, <1>7 DEF FoldsBy
  <2> QED BY <1>1, <1>5, <2>1
<1>9. iter = Body(iter)
  <2> HIDE DEF Body
  <2> QED BY <1>8, Zenon
<1> HIDE DEF iter
<1>10. iter[{}] = base
  BY <1>9
<1>11. ASSUME NEW s \in SUBSET (1 .. n), s # {}, iter[s \ {Max(s)}] \in PathState
       PROVE  iter[s] = G[<<Max(s), iter[s \ {Max(s)}]>>]
  <2>1. iter[s] = Body(iter)[s]
    BY <1>9, Zenon
  <2>2. Body(iter)[s] = PathTurn(t, iter[s \ {Max(s)}], idx[Max(s)])
    BY <1>1, <1>11
  <2> QED BY <1>7, <1>11, <2>1, <2>2
<1>12. PICK r \in [0 .. n -> PathState] : Turns(r, n, base, G) /\ r[n] = iter[1 .. n]
  <2>1. FoldsIn(iter, n, PathState, base, G)
    BY <1>10, <1>11, Zenon DEF FoldsIn
  <2>2. n \in Nat
    BY <1>1
  <2>3. HasTurns(iter, n, PathState, base, G)
    BY <2>1, <2>2, <1>2, <1>4, FoldTurns, Zenon
  <2> QED BY <2>3, Zenon DEF HasTurns
<1>13. ASSUME NEW k \in 1 .. n PROVE r[k] = PathTurn(t, r[k - 1], k)
  <2>1. r[k - 1] \in PathState
    BY <1>1, <1>12
  <2>2. G[<<k, r[k - 1]>>] = PathTurn(t, r[k - 1], k)
    BY <2>1 DEF G
  <2> QED BY <1>12, <2>2 DEF Turns
<1>14. ScanPath(t) = iter[S]
  BY DEF ScanPath, FoldLeftDomain, FoldLeft, MapThenFoldSet, iter, S, idx, base, PathTurn
<1> QED BY <1>1, <1>12, <1>13, <1>14 DEF base, n, Turns

\* A character that the loop over the path accepts where it stands
PathCharOk(t, k) ==
    /\ t[k] \in PathChars \cup {"/"}
    /\ t[k] = "%" => EscapeAt(t, k)
    /\ t[k] = "/" => k > 1 /\ t[k - 1] # "/"

\* What the state after k characters says of them
PathStateOk(t, k, st) ==
    /\ st.ok <=> \A i \in 1 .. k : PathCharOk(t, i)
    /\ st.ok => /\ k = 0 => st.seg_len = 0
                /\ k > 0 /\ t[k] = "/" => st.seg_len = 0
                /\ k > 0 /\ t[k] \notin {"/", "%"} => st.seg_len >= 1

\* Two hexadecimal digits follow the "%" of an escape.
LEMMA EscapeAtFacts ==
  ASSUME NEW t \in Seq(STRING), NEW k \in 1 .. Len(t), EscapeAt(t, k)
  PROVE  /\ k + 2 \in 1 .. Len(t) /\ k + 1 \in 1 .. Len(t)
         /\ t[k + 1] \in HexDigits /\ t[k + 2] \in HexDigits
<1>1. DOMAIN t = 1 .. Len(t) /\ Len(t) \in Nat
  BY LenProperties
<1>2. CharAt(t, k + 1) \in HexDigits /\ CharAt(t, k + 2) \in HexDigits
  BY DEF EscapeAt
<1>3. "NUL" \notin HexDigits
  BY DEF HexDigits
<1>4. k + 1 \in DOMAIN t /\ k + 2 \in DOMAIN t
  BY <1>2, <1>3, Zenon DEF CharAt
<1>5. t[k + 1] \in HexDigits /\ t[k + 2] \in HexDigits
  BY <1>2, <1>4, Zenon DEF CharAt
<1> QED BY <1>1, <1>4, <1>5

\* One turn keeps it.
LEMMA PathTurnOk ==
  ASSUME NEW t \in Seq(STRING), NEW k \in 1 .. Len(t),
         NEW st \in PathState, PathStateOk(t, k - 1, st)
  PROVE  PathStateOk(t, k, PathTurn(t, st, k))
<1> DEFINE new == PathTurn(t, st, k)
           good == \A i \in 1 .. k - 1 : PathCharOk(t, i)
<1>1. st.ok \in BOOLEAN /\ st.seg_len \in Nat /\ k \in Nat /\ k > 0
  BY DEF PathState
<1>2. (\A i \in 1 .. k : PathCharOk(t, i)) <=> good /\ PathCharOk(t, k)
  BY <1>1
<1>3. st.ok <=> good
  BY DEF PathStateOk
<1>4. "/" \notin PathChars /\ "%" \in PathChars /\ "/" \notin HexDigits /\ "%" # "/"
  BY DEF PathChars, HexDigits, Letters
<1>5. CASE ~st.ok
  <2>1. new = st
    BY <1>5 DEF PathTurn
  <2> HIDE DEF new
  <2> QED BY <1>2, <1>3, <1>5, <2>1, Zenon DEF PathStateOk, new
<1>6. CASE st.ok /\ t[k] = "/"
  <2>1. new.ok = (st.seg_len >= 1) /\ new.seg_len = 0
    BY <1>6 DEF PathTurn
  <2>2. st.seg_len >= 1 <=> k > 1 /\ t[k - 1] # "/"
    <3>1. CASE k = 1
      BY <1>6, <3>1 DEF PathStateOk
    <3>2. CASE k > 1 /\ t[k - 1] = "/"
      BY <1>1, <1>6, <3>2 DEF PathStateOk
    <3>3. CASE k > 1 /\ t[k - 1] # "/"
      <4>1. t[k - 1] # "%"
        <5> SUFFICES ASSUME t[k - 1] = "%" PROVE FALSE
          OBVIOUS
        <5>1. k - 1 \in 1 .. k - 1 /\ k - 1 \in 1 .. Len(t) /\ k - 1 + 1 = k
          BY <3>3
        <5>2. PathCharOk(t, k - 1)
          BY <1>3, <1>6, <5>1
        <5>3. EscapeAt(t, k - 1)
          BY <5>2 DEF PathCharOk
        <5>4. t[k - 1 + 1] \in HexDigits
          BY <5>1, <5>3, EscapeAtFacts
        <5> QED BY <1>4, <1>6, <5>1, <5>4
      <4> QED BY <1>1, <1>6, <3>3, <4>1 DEF PathStateOk
    <3> QED BY <1>1, <3>1, <3>2, <3>3
  <2>3. PathCharOk(t, k) <=> k > 1 /\ t[k - 1] # "/"
    BY <1>4, <1>6 DEF PathCharOk
  <2> HIDE DEF new, good
  <2> QED BY <1>1, <1>2, <1>3, <1>6, <2>1, <2>2, <2>3 DEF PathStateOk, new
<1>7. CASE st.ok /\ t[k] = "%"
  <2>1. EscapeAt(t, k) \in BOOLEAN
    BY Zenon DEF EscapeAt
  <2>2. new.ok = EscapeAt(t, k)
    BY <1>1, <1>4, <1>7, <2>1 DEF PathTurn, PathState
  <2>3. PathCharOk(t, k) <=> EscapeAt(t, k)
    BY <1>4, <1>7 DEF PathCharOk
  <2> HIDE DEF new, good
  <2> QED BY <1>1, <1>2, <1>3, <1>4, <1>7, <2>2, <2>3 DEF PathStateOk, new
<1>8. CASE st.ok /\ t[k] \notin {"/", "%"} /\ t[k] \notin PathChars
  <2>1. new.ok = FALSE
    BY <1>8 DEF PathTurn, PathState
  <2>2. ~PathCharOk(t, k)
    BY <1>8, Zenon DEF PathCharOk
  <2> HIDE DEF new, good
  <2> QED BY <1>1, <1>2, <2>1, <2>2 DEF PathStateOk, new
<1>9. CASE st.ok /\ t[k] \notin {"/", "%"} /\ t[k] \in PathChars
  <2>1. new.ok = TRUE /\ new.seg_len = st.seg_len + 1
    BY <1>9 DEF PathTurn, PathState
  <2>2. PathCharOk(t, k)
    BY <1>9, Zenon DEF PathCharOk
  <2> HIDE DEF new, good
  <2> QED BY <1>1, <1>2, <1>3, <1>9, <2>1, <2>2 DEF PathStateOk, new
<1> QED BY <1>5, <1>6, <1>7, <1>8, <1>9

\* The loop accepts a path exactly if every character may stand where it does.
LEMMA ScanPathOk ==
  ASSUME NEW t \in Seq(STRING)
  PROVE  ScanPath(t).ok <=> \A k \in DOMAIN t : PathCharOk(t, k)
<1> DEFINE n == Len(t)
<1>1. n \in Nat /\ DOMAIN t = 1 .. n
  BY LenProperties
<1>2. PICK r \in [0 .. n -> PathState] :
         /\ r[0] = [ok |-> TRUE, seg_len |-> 0] /\ r[n] = ScanPath(t)
         /\ \A k \in 1 .. n : r[k] = PathTurn(t, r[k - 1], k)
  BY PathTurns
<1> DEFINE T == {k \in 0 .. n : PathStateOk(t, k, r[k])}
<1>3. 0 \in T
  BY <1>1, <1>2 DEF PathStateOk
<1>4. ASSUME NEW k \in 1 .. n, k - 1 \in T PROVE k \in T
  <2>1. r[k - 1] \in PathState /\ PathStateOk(t, k - 1, r[k - 1]) /\ k \in 0 .. n
    BY <1>1, <1>2, <1>4
  <2>2. PathStateOk(t, k, PathTurn(t, r[k - 1], k))
    BY <2>1, PathTurnOk
  <2> QED BY <1>2, <2>1, <2>2
<1>5. n \in T
  <2> HIDE DEF T
  <2>1. \A k \in 0 .. n : k \in T
    BY <1>1, <1>3, <1>4, CountUp, Zenon
  <2> QED BY <1>1, <2>1
<1> QED BY <1>1, <1>2, <1>5 DEF PathStateOk

\* The loop over the query likewise
QueryState == [ok : BOOLEAN, in_val : BOOLEAN, part_len : Nat]
QueryTurn(q, st, k) ==
    IF ~st.ok THEN st
    ELSE IF q[k] = "=" THEN [ok |-> st.part_len >= 1 /\ ~st.in_val, in_val |-> TRUE, part_len |-> 0]
    ELSE IF q[k] = "&" THEN [ok |-> st.part_len >= 1 /\ st.in_val, in_val |-> FALSE, part_len |-> 0]
    ELSE IF q[k] = "%" THEN [st EXCEPT !.ok = EscapeAt(q, k)]
    ELSE IF q[k] \notin PathChars THEN [st EXCEPT !.ok = FALSE]
    ELSE [st EXCEPT !.part_len = @ + 1]

\* The loop over the query, turn by turn
LEMMA QueryTurns ==
  ASSUME NEW t \in Seq(STRING)
  PROVE  \E r \in [0 .. Len(t) -> QueryState] :
            /\ r[0] = [ok |-> TRUE, in_val |-> FALSE, part_len |-> 0] /\ r[Len(t)] = ScanQuery(t)
            /\ \A k \in 1 .. Len(t) : r[k] = QueryTurn(t, r[k - 1], k)
<1> DEFINE n == Len(t)
           idx == [i \in DOMAIN t |-> i]
           S == DOMAIN idx
           base == [ok |-> TRUE, in_val |-> FALSE, part_len |-> 0]
           G == [p \in (1 .. n) \X QueryState |-> QueryTurn(t, p[2], p[1])]
           Body(g) == [s \in SUBSET S |->
                         IF s = {} THEN base ELSE QueryTurn(t, g[s \ {Max(s)}], idx[Max(s)])]
           iter == CHOOSE g : g = Body(g)
<1>1. n \in Nat /\ S = 1 .. n /\ \A k \in 1 .. n : idx[k] = k
  BY LenProperties
<1>2. base \in QueryState
  BY DEF QueryState
<1>3. ASSUME NEW k \in 1 .. n, NEW st \in QueryState PROVE QueryTurn(t, st, k) \in QueryState
  <2>1. EscapeAt(t, k) \in BOOLEAN
    BY Zenon DEF EscapeAt
  <2>2. st.ok \in BOOLEAN /\ st.in_val \in BOOLEAN /\ st.part_len \in Nat
    BY <1>3 DEF QueryState
  <2> HIDE DEF n
  <2>3. /\ [ok |-> st.part_len >= 1 /\ ~st.in_val, in_val |-> TRUE, part_len |-> 0] \in QueryState
        /\ [ok |-> st.part_len >= 1 /\ st.in_val, in_val |-> FALSE, part_len |-> 0] \in QueryState
    BY <2>2 DEF QueryState
  <2>4. [st EXCEPT !.ok = EscapeAt(t, k)] \in QueryState /\ [st EXCEPT !.ok = FALSE] \in QueryState
    BY <1>3, <2>1 DEF QueryState
  <2>5. [st EXCEPT !.part_len = @ + 1] \in QueryState
    BY <1>3, <2>2 DEF QueryState
  <2> QED BY <1>3, <2>3, <2>4, <2>5, Zenon DEF QueryTurn
<1>4. G \in [(1 .. n) \X QueryState -> QueryState]
  BY <1>3
<1>5. PICK g \in [SUBSET (1 .. n) -> QueryState] : FoldsBy(g, n, base, G)
  <2> HIDE DEF n, base, G
  <2> QED BY <1>1, <1>2, <1>4, FoldUpExists, Zenon
<1>6. ASSUME NEW s \in SUBSET (1 .. n), s # {} PROVE Max(s) \in 1 .. n /\ idx[Max(s)] = Max(s)
  <2>1. Max(s) \in s
    BY <1>1, <1>6, LastPosition
  <2> QED BY <1>1, <2>1
<1> HIDE DEF n, base, S, idx
<1>7. ASSUME NEW h, NEW s \in SUBSET (1 .. n), s # {}, h[s \ {Max(s)}] \in QueryState
      PROVE  G[<<Max(s), h[s \ {Max(s)}]>>] = QueryTurn(t, h[s \ {Max(s)}], idx[Max(s)])
  BY <1>6, <1>7
<1> HIDE DEF G
<1>8. g = Body(g)
  <2>1. ASSUME NEW s \in SUBSET S
        PROVE  g[s] = IF s = {} THEN base ELSE QueryTurn(t, g[s \ {Max(s)}], idx[Max(s)])
    BY <1>1, <1>5, <1>7 DEF FoldsBy
  <2> QED BY <1>1, <1>5, <2>1
<1>9. iter = Body(iter)
  <2> HIDE DEF Body
  <2> QED BY <1>8, Zenon
<1> HIDE DEF iter
<1>10. iter[{}] = base
  BY <1>9
<1>11. ASSUME NEW s \in SUBSET (1 .. n), s # {}, iter[s \ {Max(s)}] \in QueryState
       PROVE  iter[s] = G[<<Max(s), iter[s \ {Max(s)}]>>]
  <2>1. iter[s] = Body(iter)[s]
    BY <1>9, Zenon
  <2>2. Body(iter)[s] = QueryTurn(t, iter[s \ {Max(s)}], idx[Max(s)])
    BY <1>1, <1>11
  <2> QED BY <1>7, <1>11, <2>1, <2>2
<1>12. PICK r \in [0 .. n -> QueryState] : Turns(r, n, base, G) /\ r[n] = iter[1 .. n]
  <2>1. FoldsIn(iter, n, QueryState, base, G)
    BY <1>10, <1>11, Zenon DEF FoldsIn
  <2>2. n \in Nat
    BY <1>1
  <2>3. HasTurns(iter, n, QueryState, base, G)
    BY <2>1, <2>2, <1>2, <1>4, FoldTurns, Zenon
  <2> QED BY <2>3, Zenon DEF HasTurns
<1>13. ASSUME NEW k \in 1 .. n PROVE r[k] = QueryTurn(t, r[k - 1], k)
  <2>1. r[k - 1] \in QueryState
    BY <1>1, <1>12
  <2>2. G[<<k, r[k - 1]>>] = QueryTurn(t, r[k - 1], k)
    BY <2>1 DEF G
  <2> QED BY <1>12, <2>2 DEF Turns
<1>14. ScanQuery(t) = iter[S]
  BY DEF ScanQuery, FoldLeftDomain, FoldLeft, MapThenFoldSet, iter, S, idx, base, QueryTurn
<1> QED BY <1>1, <1>12, <1>13, <1>14 DEF base, n, Turns

\* The last separator of q before k + 1 is "=": what is read is a value.
InVal(q, k) == \E j \in 1 .. k : q[j] = "=" /\ \A m \in j .. k : q[m] # "&"

\* A character that the loop over the query accepts where it stands
QueryCharOk(q, k) ==
    /\ q[k] \in PathChars
    /\ q[k] = "%" => EscapeAt(q, k)
    /\ q[k] \in {"=", "&"} => k > 1 /\ q[k - 1] \notin {"=", "&"}
    /\ q[k] = "=" => ~InVal(q, k - 1)
    /\ q[k] = "&" => InVal(q, k - 1)

QueryStateOk(q, k, st) ==
    /\ st.ok <=> \A i \in 1 .. k : QueryCharOk(q, i)
    /\ st.ok => /\ st.in_val <=> InVal(q, k)
                /\ k = 0 => st.part_len = 0
                /\ k > 0 /\ q[k] \in {"=", "&"} => st.part_len = 0
                /\ k > 0 /\ q[k] \notin {"=", "&", "%"} => st.part_len >= 1

\* A value begins with "=", ends with "&", and goes on with anything else.
LEMMA InValFacts ==
  ASSUME NEW q, NEW k \in Nat, k > 0
  PROVE  /\ q[k] = "=" => InVal(q, k)
         /\ q[k] = "&" => ~InVal(q, k)
         /\ q[k] \notin {"=", "&"} => (InVal(q, k) <=> InVal(q, k - 1))
<1>1. ASSUME q[k] = "=" PROVE InVal(q, k)
  <2>1. k \in 1 .. k /\ \A m \in k .. k : q[m] # "&"
    BY <1>1
  <2> QED BY <1>1, <2>1 DEF InVal
<1>2. ASSUME q[k] = "&" PROVE ~InVal(q, k)
  <2>1. \A j \in 1 .. k : k \in j .. k
    OBVIOUS
  <2> QED BY <1>2, <2>1 DEF InVal
<1>3. ASSUME q[k] \notin {"=", "&"}, InVal(q, k) PROVE InVal(q, k - 1)
  <2>1. PICK j \in 1 .. k : q[j] = "=" /\ \A m \in j .. k : q[m] # "&"
    BY <1>3 DEF InVal
  <2>2. j # k
    BY <1>3, <2>1
  <2>3. j \in 1 .. k - 1 /\ \A m \in j .. k - 1 : q[m] # "&"
    BY <2>1, <2>2
  <2> QED BY <2>1, <2>3 DEF InVal
<1>4. ASSUME q[k] \notin {"=", "&"}, InVal(q, k - 1) PROVE InVal(q, k)
  <2>1. PICK j \in 1 .. k - 1 : q[j] = "=" /\ \A m \in j .. k - 1 : q[m] # "&"
    BY <1>4 DEF InVal
  <2>2. j \in 1 .. k /\ \A m \in j .. k : m \in j .. k - 1 \/ m = k
    OBVIOUS
  <2>3. \A m \in j .. k : q[m] # "&"
    BY <1>4, <2>1, <2>2
  <2> QED BY <2>1, <2>2, <2>3 DEF InVal
<1> QED BY <1>1, <1>2, <1>3, <1>4

\* One turn of the loop over the query keeps what is known of its state.
LEMMA QueryTurnOk ==
  ASSUME NEW t \in Seq(STRING), NEW k \in 1 .. Len(t),
         NEW st \in QueryState, QueryStateOk(t, k - 1, st)
  PROVE  QueryStateOk(t, k, QueryTurn(t, st, k))
<1> DEFINE new == QueryTurn(t, st, k)
           good == \A i \in 1 .. k - 1 : QueryCharOk(t, i)
           behind == k > 1 /\ t[k - 1] \notin {"=", "&"}
<1>1. st.ok \in BOOLEAN /\ st.in_val \in BOOLEAN /\ st.part_len \in Nat /\ k \in Nat /\ k > 0
  BY DEF QueryState
<1>2. (\A i \in 1 .. k : QueryCharOk(t, i)) <=> good /\ QueryCharOk(t, k)
  BY <1>1
<1>3. /\ st.ok <=> good
      /\ st.ok => (st.in_val <=> InVal(t, k - 1))
  BY DEF QueryStateOk
<1>4. /\ {"=", "&", "%"} \subseteq PathChars
      /\ "=" \notin HexDigits /\ "&" \notin HexDigits /\ "%" # "=" /\ "%" # "&" /\ "=" # "&"
  BY DEF PathChars, HexDigits, Letters
<1>5. /\ t[k] = "=" => InVal(t, k)
      /\ t[k] = "&" => ~InVal(t, k)
      /\ t[k] \notin {"=", "&"} => (InVal(t, k) <=> InVal(t, k - 1))
  BY <1>1, InValFacts
<1>6. InVal(t, k - 1) \in BOOLEAN /\ InVal(t, k) \in BOOLEAN
  BY Zenon DEF InVal
<1>7. CASE ~st.ok
  <2>1. new = st
    BY <1>7 DEF QueryTurn
  <2> HIDE DEF new
  <2> QED BY <1>2, <1>3, <1>7, <2>1, Zenon DEF QueryStateOk, new
<1>8. ASSUME st.ok, t[k] \in {"=", "&"} PROVE st.part_len >= 1 <=> behind
  <2>1. CASE k = 1
    BY <1>8, <2>1 DEF QueryStateOk
  <2>2. CASE k > 1 /\ t[k - 1] \in {"=", "&"}
    BY <1>1, <1>8, <2>2 DEF QueryStateOk
  <2>3. CASE k > 1 /\ t[k - 1] \notin {"=", "&"}
    <3>1. t[k - 1] # "%"
      <4> SUFFICES ASSUME t[k - 1] = "%" PROVE FALSE
        OBVIOUS
      <4>1. k - 1 \in 1 .. k - 1 /\ k - 1 \in 1 .. Len(t) /\ k - 1 + 1 = k
        BY <2>3
      <4>2. QueryCharOk(t, k - 1)
        BY <1>3, <1>8, <4>1
      <4>3. EscapeAt(t, k - 1)
        BY <4>2 DEF QueryCharOk
      <4>4. t[k - 1 + 1] \in HexDigits
        BY <4>1, <4>3, EscapeAtFacts
      <4> QED BY <1>4, <1>8, <4>1, <4>4
    <3> QED BY <1>1, <1>8, <2>3, <3>1 DEF QueryStateOk
  <2> QED BY <1>1, <2>1, <2>2, <2>3
<1>9. CASE st.ok /\ t[k] = "="
  <2>1. new.ok = (st.part_len >= 1 /\ ~st.in_val) /\ new.in_val = TRUE /\ new.part_len = 0
    BY <1>9 DEF QueryTurn
  <2>2. QueryCharOk(t, k) <=> behind /\ ~InVal(t, k - 1)
    BY <1>4, <1>9 DEF QueryCharOk
  <2>3. st.part_len >= 1 <=> behind
    BY <1>8, <1>9
  <2> HIDE DEF new, good, behind
  <2> QED BY <1>1, <1>2, <1>3, <1>5, <1>9, <2>1, <2>2, <2>3 DEF QueryStateOk, new
<1>10. CASE st.ok /\ t[k] = "&"
  <2>1. new.ok = (st.part_len >= 1 /\ st.in_val) /\ new.in_val = FALSE /\ new.part_len = 0
    BY <1>4, <1>10 DEF QueryTurn
  <2>2. QueryCharOk(t, k) <=> behind /\ InVal(t, k - 1)
    BY <1>4, <1>10 DEF QueryCharOk
  <2>3. st.part_len >= 1 <=> behind
    BY <1>8, <1>10
  <2> HIDE DEF new, good, behind
  <2> QED BY <1>1, <1>2, <1>3, <1>5, <1>10, <2>1, <2>2, <2>3 DEF QueryStateOk, new
<1>11. CASE st.ok /\ t[k] = "%"
  <2>1. EscapeAt(t, k) \in BOOLEAN
    BY Zenon DEF EscapeAt
  <2>2. new.ok = EscapeAt(t, k) /\ new.in_val = st.in_val
    BY <1>1, <1>4, <1>11, <2>1 DEF QueryTurn, QueryState
  <2>3. QueryCharOk(t, k) <=> EscapeAt(t, k)
    BY <1>4, <1>11 DEF QueryCharOk
  <2> HIDE DEF new, good, behind
  <2> QED BY <1>1, <1>2, <1>3, <1>4, <1>5, <1>11, <2>2, <2>3 DEF QueryStateOk, new
<1>12. CASE st.ok /\ t[k] \notin PathChars
  <2>1. new.ok = FALSE
    BY <1>4, <1>12 DEF QueryTurn, QueryState
  <2>2. ~QueryCharOk(t, k)
    BY <1>12, Zenon DEF QueryCharOk
  <2> HIDE DEF new, good, behind
  <2> QED BY <1>1, <1>2, <2>1, <2>2 DEF QueryStateOk, new
<1>13. CASE st.ok /\ t[k] \notin {"=", "&", "%"} /\ t[k] \in PathChars
  <2>1. new.ok = TRUE /\ new.in_val = st.in_val /\ new.part_len = st.part_len + 1
    BY <1>13 DEF QueryTurn, QueryState
  <2>2. QueryCharOk(t, k)
    BY <1>13, Zenon DEF QueryCharOk
  <2> HIDE DEF new, good, behind
  <2> QED BY <1>1, <1>2, <1>3, <1>5, <1>13, <2>1, <2>2 DEF QueryStateOk, new
<1> QED BY <1>7, <1>9, <1>10, <1>11, <1>12, <1>13

\* The loop accepts a query exactly if every character may stand where it does, and
\* ends inside a value exactly if there is a "=" behind the last "&".
LEMMA ScanQueryOk ==
  ASSUME NEW t \in Seq(STRING)
  PROVE  /\ ScanQuery(t).ok <=> \A k \in DOMAIN t : QueryCharOk(t, k)
         /\ ScanQuery(t).ok => (ScanQuery(t).in_val <=> InVal(t, Len(t)))
<1> DEFINE n == Len(t)
<1>1. n \in Nat /\ DOMAIN t = 1 .. n
  BY LenProperties
<1>2. PICK r \in [0 .. n -> QueryState] :
         /\ r[0] = [ok |-> TRUE, in_val |-> FALSE, part_len |-> 0] /\ r[n] = ScanQuery(t)
         /\ \A k \in 1 .. n : r[k] = QueryTurn(t, r[k - 1], k)
  BY QueryTurns
<1> DEFINE T == {k \in 0 .. n : QueryStateOk(t, k, r[k])}
<1>3. 0 \in T
  BY <1>1, <1>2 DEF QueryStateOk, InVal
<1>4. ASSUME NEW k \in 1 .. n, k - 1 \in T PROVE k \in T
  <2>1. r[k - 1] \in QueryState /\ QueryStateOk(t, k - 1, r[k - 1]) /\ k \in 0 .. n
    BY <1>1, <1>2, <1>4
  <2>2. QueryStateOk(t, k, QueryTurn(t, r[k - 1], k))
    BY <2>1, QueryTurnOk
  <2> QED BY <1>2, <2>1, <2>2
<1>5. n \in T
  <2> HIDE DEF T
  <2>1. \A k \in 0 .. n : k \in T
    BY <1>1, <1>3, <1>4, CountUp, Zenon
  <2> QED BY <1>1, <2>1
<1> QED BY <1>1, <1>2, <1>5 DEF QueryStateOk

-----------------------------------------------------------------------------
(* The pieces of the grammar                                               *)

\* The i-th and the j-th place bound a piece of s between separators c.
Bounds(s, c, i, j) ==
    /\ i \in 0 .. Len(s) /\ j \in 1 .. Len(s) + 1 /\ i < j
    /\ i # 0 => s[i] = c
    /\ j # Len(s) + 1 => s[j] = c
    /\ \A m \in i + 1 .. j - 1 : s[m] # c
PieceOf(s, i, j) == [text |-> SubSeq(s, i + 1, j - 1), last |-> j = Len(s) + 1]

\* The pieces of a text are what stands between two of its separators.
LEMMA PiecesAre ==
  ASSUME NEW s \in Seq(STRING), NEW c
  PROVE  /\ \A p \in PiecesOf(s, c) : \E i \in 0 .. Len(s) : \E j \in 1 .. Len(s) + 1 :
                Bounds(s, c, i, j) /\ p = PieceOf(s, i, j)
         /\ \A i, j : Bounds(s, c, i, j) => PieceOf(s, i, j) \in PiecesOf(s, c)
<1> DEFINE n == Len(s)
           cuts == {0, n + 1} \cup {k \in DOMAIN s : s[k] = c}
           next(i) == Min({j \in cuts : j > i})
           piece(i) == [text |-> SubSeq(s, i + 1, next(i) - 1), last |-> next(i) = n + 1]
<1>1. n \in Nat /\ DOMAIN s = 1 .. n
  BY LenProperties
<1>2. cuts \subseteq 0 .. n + 1 /\ 0 \in cuts /\ n + 1 \in cuts
  BY <1>1
<1>3. PiecesOf(s, c) = {piece(i) : i \in cuts \ {n + 1}}
  BY Zenon DEF PiecesOf
<1>4. \A i \in 1 .. n : i \in cuts <=> s[i] = c
  BY <1>1
<1> HIDE DEF cuts, n
<1>5. ASSUME NEW i \in cuts \ {n + 1}
      PROVE  Bounds(s, c, i, next(i)) /\ next(i) \in 1 .. n + 1
  <2> DEFINE later == {j \in cuts : j > i}
  <2>1. i \in 0 .. n
    BY <1>1, <1>2
  <2>2. later \subseteq Nat /\ later # {}
    <3>1. n + 1 > i /\ \A y \in cuts : y \in Nat
      BY <1>1, <1>2, <2>1
    <3>2. n + 1 \in later
      BY <1>2, <3>1
    <3> QED BY <3>1, <3>2
  <2>3. next(i) \in later /\ \A y \in later : next(i) <= y
    <3> HIDE DEF later
    <3>1. Min(later) \in later /\ \A y \in later : Min(later) <= y
      BY <2>2, FirstPosition, Zenon
    <3> QED BY <3>1 DEF later
  <2> DEFINE j == next(i)
  <2> HIDE DEF next
  <2>4. j \in cuts /\ i < j /\ j \in 1 .. n + 1 /\ i \in cuts
    <3>1. j \in cuts /\ j > i
      BY <2>3
    <3> HIDE DEF later
    <3>2. j \in 0 .. n + 1
      BY <1>2, <3>1
    <3> QED BY <1>1, <2>1, <3>1, <3>2
  <2>5. ASSUME NEW m \in i + 1 .. j - 1 PROVE s[m] # c
    <3>1. m \in 1 .. n /\ m > i /\ ~(j <= m)
      BY <1>1, <2>1, <2>4
    <3>2. m \notin later
      BY <2>3, <3>1
    <3> QED BY <1>4, <3>1, <3>2
  <2>6. i # 0 => s[i] = c
    BY <1>1, <1>4, <2>1, <2>4
  <2>7. j # n + 1 => s[j] = c
    BY <1>1, <1>4, <2>4
  <2> QED BY <2>1, <2>4, <2>5, <2>6, <2>7 DEF Bounds, n
<1>6. ASSUME NEW p \in PiecesOf(s, c)
      PROVE  \E i \in 0 .. n : \E j \in 1 .. n + 1 : Bounds(s, c, i, j) /\ p = PieceOf(s, i, j)
  <2>1. PICK i \in cuts \ {n + 1} : p = piece(i)
    BY <1>3
  <2> DEFINE j == next(i)
  <2>2. Bounds(s, c, i, j) /\ i \in 0 .. n /\ j \in 1 .. n + 1
    BY <1>1, <1>2, <1>5
  <2>3. p = PieceOf(s, i, j)
    BY <2>1 DEF PieceOf, n
  <2> HIDE DEF j
  <2> QED BY <2>2, <2>3
<1>7. ASSUME NEW i, NEW j, Bounds(s, c, i, j)
      PROVE  PieceOf(s, i, j) \in PiecesOf(s, c)
  <2>1. i \in 0 .. n /\ j \in 1 .. n + 1 /\ i < j
    BY <1>7 DEF Bounds, n
  <2>2. i \in cuts \ {n + 1}
    BY <1>1, <1>2, <1>4, <1>7, <2>1 DEF Bounds, n
  <2>3. j \in cuts
    BY <1>1, <1>2, <1>4, <1>7, <2>1 DEF Bounds, n
  <2>4. next(i) = j
    <3> DEFINE later == {y \in cuts : y > i}
    <3>1. later \in SUBSET Int /\ j \in later
      <4>1. \A y \in cuts : y \in Int
        BY <1>1, <1>2
      <4>2. j > i
        BY <1>1, <2>1
      <4> QED BY <2>3, <4>1, <4>2
    <3>2. ASSUME NEW y \in later PROVE j <= y
      <4>1. y \in cuts /\ y > i /\ y \in 0 .. n + 1
        BY <1>2
      <4>2. CASE y = n + 1
        BY <1>1, <2>1, <4>2
      <4>3. CASE y \in 1 .. n
        <5>1. s[y] = c
          BY <1>4, <4>1, <4>3
        <5>2. ~(y \in i + 1 .. j - 1)
          BY <1>7, <5>1 DEF Bounds
        <5> QED BY <1>1, <2>1, <4>1, <4>3, <5>2
      <4> QED BY <1>1, <2>1, <4>1, <4>2, <4>3
    <3> HIDE DEF later
    <3>3. Min(later) = j
      BY <3>1, <3>2, LeastOf, Zenon
    <3> QED BY <3>3 DEF later
  <2>5. PieceOf(s, i, j) = piece(i)
    BY <2>4, Zenon DEF PieceOf, n
  <2> QED BY <1>3, <2>2, <2>5, ZenonT(60)
<1> QED BY <1>6, <1>7 DEF n

\* Every place that is no separator lies in a piece; every separator ends one; and
\* there is a last one.
LEMMA BoundsExist ==
  ASSUME NEW s \in Seq(STRING), NEW c, NEW k \in 1 .. Len(s) + 1
  PROVE  \E i \in 0 .. Len(s) : \E j \in 1 .. Len(s) + 1 :
            /\ Bounds(s, c, i, j) /\ i < k
            /\ k = Len(s) + 1 \/ s[k] = c => j = k
            /\ k <= j
<1> DEFINE n == Len(s)
           before == {m \in 0 .. k - 1 : m = 0 \/ s[m] = c}
           behind == {m \in k .. n + 1 : m = n + 1 \/ s[m] = c}
<1>1. n \in Nat
  BY LenProperties
<1> HIDE DEF n
<1>2. before # {} /\ behind # {} /\ behind \subseteq Nat
  BY <1>1 DEF n
<1>3. PICK i \in before : \A m \in before : i >= m
  <2> DEFINE from == {k - m : m \in before}
  <2>1. from \subseteq Nat /\ from # {}
    <3>1. \A m \in before : k - m \in Nat
      BY <1>1 DEF n
    <3>2. PICK m \in before : TRUE
      BY <1>2
    <3>3. k - m \in from
      BY <3>2
    <3> HIDE DEF before
    <3> QED BY <3>1, <3>3
  <2> HIDE DEF from
  <2>2. PICK d \in from : \A y \in from : d <= y
    BY <2>1, LeastNumber, Zenon
  <2> USE DEF from
  <2>3. PICK x \in before : d = k - x
    BY <2>2
  <2>4. ASSUME NEW m \in before PROVE x >= m
    <3>1. k - x <= k - m
      BY <2>2, <2>3
    <3> QED BY <1>1, <3>1 DEF n
  <2> QED BY <2>4
<1>4. Min(behind) \in behind /\ \A y \in behind : Min(behind) <= y
  <2> HIDE DEF behind
  <2> QED BY <1>2, FirstPosition, Zenon
<1> DEFINE j == Min(behind)
<1> HIDE DEF j
<1>5. i \in 0 .. n /\ i < k /\ j \in 1 .. n + 1 /\ k <= j /\ (i = 0 \/ s[i] = c)
      /\ (j = n + 1 \/ s[j] = c)
  BY <1>1, <1>3, <1>4 DEF n, j
<1>6. ASSUME NEW m \in i + 1 .. j - 1 PROVE s[m] # c
  <2>1. CASE m < k
    <3>1. m \in 0 .. k - 1 /\ ~(i >= m)
      BY <1>1, <1>5, <2>1 DEF n
    <3> QED BY <1>3, <3>1
  <2>2. CASE m >= k
    <3>1. m \in k .. n + 1 /\ ~(j <= m)
      BY <1>1, <1>5, <2>2 DEF n
    <3> QED BY <1>4, <3>1 DEF j
  <2> QED BY <1>5, <2>1, <2>2 DEF n
<1>7. k = n + 1 \/ s[k] = c => j = k
  <2> SUFFICES ASSUME k = n + 1 \/ s[k] = c PROVE j = k
    OBVIOUS
  <2>1. k \in behind
    BY <1>1 DEF n
  <2>2. j <= k
    BY <1>4, <2>1 DEF j
  <2> QED BY <1>1, <1>5, <2>2 DEF n
<1>8. Bounds(s, c, i, j)
  BY <1>5, <1>6 DEF Bounds, n
<1> QED BY <1>5, <1>7, <1>8 DEF n

\* The text of a piece
LEMMA PieceText ==
  ASSUME NEW s \in Seq(STRING), NEW i \in 0 .. Len(s), NEW j \in 1 .. Len(s) + 1, i < j
  PROVE  LET u == SubSeq(s, i + 1, j - 1)
         IN  /\ u \in Seq(STRING) /\ Len(u) = j - i - 1 /\ DOMAIN u = 1 .. j - i - 1
             /\ \A m \in 1 .. j - i - 1 : u[m] = s[i + m]
<1>1. Len(s) \in Nat
  BY LenProperties
<1>2. i + 1 \in Int /\ j - 1 \in Int /\ \A m \in i + 1 .. j - 1 : s[m] \in STRING
  <2>1. \A m \in i + 1 .. j - 1 : m \in 1 .. Len(s)
    BY <1>1
  <2> QED BY <1>1, <2>1, ElementOfSeq
<1> DEFINE u == SubSeq(s, i + 1, j - 1)
<1>3. /\ u \in Seq(STRING)
      /\ Len(u) = IF i + 1 <= j - 1 THEN (j - 1) - (i + 1) + 1 ELSE 0
      /\ \A m \in 1 .. (j - 1) - (i + 1) + 1 : u[m] = s[(i + 1) + m - 1]
  BY <1>2, SubSeqProperties
<1> HIDE DEF u
<1>4. Len(u) = j - i - 1 /\ \A m \in 1 .. j - i - 1 : u[m] = s[i + m]
  BY <1>1, <1>3
<1>5. DOMAIN u = 1 .. Len(u)
  BY <1>3, LenProperties
<1> QED BY <1>3, <1>4, <1>5 DEF u

\* A character is spelt well in its piece exactly if it is in the whole text: an escape
\* cannot run over a separator.
LEMMA WellSpeltPiece ==
  ASSUME NEW s \in Seq(STRING), NEW c, c \notin HexDigits,
         NEW i \in 0 .. Len(s), NEW j \in 1 .. Len(s) + 1, Bounds(s, c, i, j)
  PROVE  WellSpelt(SubSeq(s, i + 1, j - 1)) <=>
            \A k \in i + 1 .. j - 1 : s[k] \in PathChars /\ (s[k] = "%" => EscapeAt(s, k))
<1> DEFINE u == SubSeq(s, i + 1, j - 1)
<1>1. Len(s) \in Nat /\ i < j
  BY LenProperties DEF Bounds
<1>2. /\ u \in Seq(STRING) /\ Len(u) = j - i - 1 /\ DOMAIN u = 1 .. j - i - 1
      /\ \A m \in 1 .. j - i - 1 : u[m] = s[i + m]
  BY <1>1, PieceText
<1> HIDE DEF u
<1>3. ASSUME NEW m \in 1 .. j - i - 1
      PROVE  {CharAt(u, m + 1), CharAt(u, m + 2)} \subseteq HexDigits <=> EscapeAt(s, i + m)
  <2>1. i + m \in 1 .. Len(s)
    BY <1>1
  <2>2. ASSUME EscapeAt(u, m) PROVE EscapeAt(s, i + m)
    <3>1. /\ m + 2 \in 1 .. Len(u) /\ m + 1 \in 1 .. Len(u)
          /\ u[m + 1] \in HexDigits /\ u[m + 2] \in HexDigits
      BY <1>2, <2>2, EscapeAtFacts
    <3>2. /\ i + m + 1 \in DOMAIN s /\ i + m + 2 \in DOMAIN s
          /\ s[i + m + 1] \in HexDigits /\ s[i + m + 2] \in HexDigits
      <4>1. i + (m + 1) = i + m + 1 /\ i + (m + 2) = i + m + 2
        BY <1>1
      <4>2. u[m + 1] = s[i + (m + 1)] /\ u[m + 2] = s[i + (m + 2)]
        BY <1>2, <3>1
      <4>3. i + m + 1 \in 1 .. Len(s) /\ i + m + 2 \in 1 .. Len(s)
        BY <1>1, <1>2, <3>1, SMTT(60)
      <4> QED BY <3>1, <4>1, <4>2, <4>3, LenProperties
    <3> QED BY <3>2, Zenon DEF EscapeAt, CharAt
  <2>3. ASSUME EscapeAt(s, i + m) PROVE EscapeAt(u, m)
    <3>1. /\ i + m + 2 \in 1 .. Len(s) /\ i + m + 1 \in 1 .. Len(s)
          /\ s[i + m + 1] \in HexDigits /\ s[i + m + 2] \in HexDigits
      BY <2>1, <2>3, EscapeAtFacts
    <3>2. s[i + m + 1] # c /\ s[i + m + 2] # c
      BY <3>1
    <3>3. i + m + 1 # j /\ i + m + 2 # j
      BY <1>1, <3>1, <3>2 DEF Bounds
    <3>4. m + 1 \in 1 .. j - i - 1 /\ m + 2 \in 1 .. j - i - 1
      BY <1>1, <3>1, <3>3
    <3>5. u[m + 1] = s[i + m + 1] /\ u[m + 2] = s[i + m + 2]
      BY <1>1, <1>2, <3>4, SMTT(60)
    <3> QED BY <1>2, <3>1, <3>4, <3>5, Zenon DEF EscapeAt, CharAt
  <2>4. {CharAt(u, m + 1), CharAt(u, m + 2)} \subseteq HexDigits <=> EscapeAt(u, m)
    BY Zenon DEF EscapeAt
  <2> QED BY <2>2, <2>3, <2>4, Zenon
<1>4. ASSUME WellSpelt(u), NEW k \in i + 1 .. j - 1
      PROVE  s[k] \in PathChars /\ (s[k] = "%" => EscapeAt(s, k))
  <2>1. k - i \in 1 .. j - i - 1 /\ i + (k - i) = k
    BY <1>1
  <2>2. /\ u[k - i] \in PathChars
        /\ u[k - i] = "%" => {CharAt(u, k - i + 1), CharAt(u, k - i + 2)} \subseteq HexDigits
    BY <1>2, <1>4, <2>1, Zenon DEF WellSpelt
  <2> QED BY <1>2, <1>3, <2>1, <2>2
<1>5. ASSUME \A k \in i + 1 .. j - 1 : s[k] \in PathChars /\ (s[k] = "%" => EscapeAt(s, k)),
             NEW m \in DOMAIN u
      PROVE  /\ u[m] \in PathChars
             /\ u[m] = "%" => {CharAt(u, m + 1), CharAt(u, m + 2)} \subseteq HexDigits
  <2>1. m \in 1 .. j - i - 1 /\ i + m \in i + 1 .. j - 1
    BY <1>1, <1>2
  <2> QED BY <1>2, <1>3, <1>5, <2>1
<1> QED BY <1>4, <1>5, Zenon DEF WellSpelt, u

\* The grammar of a path, character by character
LEMMA PathOfPieces ==
  ASSUME NEW t \in Seq(STRING)
  PROVE  (\A p \in PiecesOf(t, "/") : WellSpelt(p.text) /\ (p.text # <<>> \/ p.last))
            <=> \A k \in DOMAIN t : PathCharOk(t, k)
<1> DEFINE n == Len(t)
<1>1. n \in Nat /\ DOMAIN t = 1 .. n
  BY LenProperties
<1>2. "/" \notin HexDigits /\ "/" # "%" /\ "/" \notin PathChars
  BY DEF HexDigits, PathChars, Letters
<1>3. ASSUME \A k \in DOMAIN t : PathCharOk(t, k), NEW p \in PiecesOf(t, "/")
      PROVE  WellSpelt(p.text) /\ (p.text # <<>> \/ p.last)
  <2>1. PICK i \in 0 .. n : \E j \in 1 .. n + 1 : Bounds(t, "/", i, j) /\ p = PieceOf(t, i, j)
    BY <1>3, PiecesAre
  <2>2. PICK j \in 1 .. n + 1 : Bounds(t, "/", i, j) /\ p = PieceOf(t, i, j)
    BY <2>1
  <2>3. i < j /\ (i # 0 => t[i] = "/") /\ (j # n + 1 => t[j] = "/")
        /\ \A m \in i + 1 .. j - 1 : t[m] # "/"
    BY <2>2 DEF Bounds
  <2>4. \A k \in i + 1 .. j - 1 : t[k] \in PathChars /\ (t[k] = "%" => EscapeAt(t, k))
    <3> TAKE k \in i + 1 .. j - 1
    <3>1. k \in DOMAIN t /\ t[k] # "/"
      BY <1>1, <2>3
    <3> QED BY <1>3, <3>1, Zenon DEF PathCharOk
  <2>5. WellSpelt(SubSeq(t, i + 1, j - 1))
    BY <1>2, <2>2, <2>4, WellSpeltPiece
  <2>6. ASSUME j # n + 1 PROVE SubSeq(t, i + 1, j - 1) # <<>>
    <3>1. j \in DOMAIN t /\ t[j] = "/"
      BY <1>1, <2>3, <2>6
    <3>2. j > 1 /\ t[j - 1] # "/"
      BY <1>3, <3>1 DEF PathCharOk
    <3>3. i + 1 <= j - 1
      BY <1>1, <2>3, <3>2
    <3>4. Len(SubSeq(t, i + 1, j - 1)) = j - i - 1
      BY <2>3, PieceText
    <3> QED BY <1>1, <3>3, <3>4, EmptySeq
  <2> HIDE DEF n
  <2>7. p.text = SubSeq(t, i + 1, j - 1) /\ p.last = (j = n + 1)
    BY <2>2 DEF PieceOf, n
  <2> QED BY <2>5, <2>6, <2>7
<1>4. ASSUME \A p \in PiecesOf(t, "/") : WellSpelt(p.text) /\ (p.text # <<>> \/ p.last),
             NEW k \in DOMAIN t
      PROVE  PathCharOk(t, k)
  <2>0. k \in 1 .. n /\ k \in 1 .. n + 1
    BY <1>1
  <2>1. PICK i \in 0 .. n : \E j \in 1 .. n + 1 :
            Bounds(t, "/", i, j) /\ i < k /\ (k = n + 1 \/ t[k] = "/" => j = k) /\ k <= j
    BY <2>0, BoundsExist
  <2>2. PICK j \in 1 .. n + 1 :
            Bounds(t, "/", i, j) /\ i < k /\ (k = n + 1 \/ t[k] = "/" => j = k) /\ k <= j
    BY <2>1
  <2>3. i < j /\ (i # 0 => t[i] = "/") /\ (j # n + 1 => t[j] = "/")
        /\ \A m \in i + 1 .. j - 1 : t[m] # "/"
    BY <2>2 DEF Bounds
  <2>4. PieceOf(t, i, j) \in PiecesOf(t, "/")
    BY <2>2, PiecesAre
  <2>5. /\ WellSpelt(SubSeq(t, i + 1, j - 1))
        /\ SubSeq(t, i + 1, j - 1) # <<>> \/ j = n + 1
    BY <1>4, <2>4 DEF PieceOf
  <2>6. \A m \in i + 1 .. j - 1 : t[m] \in PathChars /\ (t[m] = "%" => EscapeAt(t, m))
    BY <1>2, <2>2, <2>5, WellSpeltPiece
  <2>7. CASE t[k] = "/"
    <3>1. j = k /\ j # n + 1
      BY <1>1, <2>0, <2>2, <2>7
    <3>2. Len(SubSeq(t, i + 1, j - 1)) = j - i - 1 /\ SubSeq(t, i + 1, j - 1) \in Seq(STRING)
      BY <2>3, PieceText
    <3>3. j - i - 1 # 0
      BY <2>5, <3>1, <3>2, EmptySeq
    <3>4. k - 1 \in i + 1 .. j - 1 /\ k > 1
      BY <1>1, <2>2, <2>3, <3>1, <3>3
    <3> QED BY <1>2, <2>3, <2>7, <3>4 DEF PathCharOk
  <2>8. CASE t[k] # "/"
    <3>1. k # j
      BY <1>1, <2>0, <2>3, <2>8
    <3>2. k \in i + 1 .. j - 1
      BY <1>1, <2>0, <2>2, <3>1
    <3> QED BY <2>6, <2>8, <3>2, Zenon DEF PathCharOk
  <2> QED BY <2>7, <2>8
<1> QED BY <1>3, <1>4, Zenon

\* The grammar of a query, character by character
LEMMA QueryOfPieces ==
  ASSUME NEW t \in Seq(STRING)
  PROVE  IsQuery(t) <=> (\A k \in DOMAIN t : QueryCharOk(t, k)) /\ InVal(t, Len(t))
<1> DEFINE n == Len(t)
           Named(u, last) == \E k \in DOMAIN u :
                /\ u[k] = "=" /\ k > 1 /\ (k < Len(u) \/ last)
                /\ \A j \in DOMAIN u : u[j] = "=" => j = k
<1>1. n \in Nat /\ DOMAIN t = 1 .. n
  BY LenProperties
<1>2. "&" \notin HexDigits /\ "&" # "%" /\ "&" # "=" /\ "&" \in PathChars
  BY DEF HexDigits, PathChars, Letters
<1>0. \A k \in 1 .. n + 1 : \E i \in 0 .. n : \E j \in 1 .. n + 1 :
            Bounds(t, "&", i, j) /\ i < k /\ (k = n + 1 \/ t[k] = "&" => j = k) /\ k <= j
  <2> TAKE k \in 1 .. n + 1
  <2>1. k \in 1 .. Len(t) + 1
    BY DEF n
  <2> HIDE DEF n
  <2>2. \E i \in 0 .. Len(t) : \E j \in 1 .. Len(t) + 1 :
            /\ Bounds(t, "&", i, j) /\ i < k
            /\ k = Len(t) + 1 \/ t[k] = "&" => j = k
            /\ k <= j
    BY <2>1, BoundsExist
  <2> QED BY <2>2 DEF n
<1>3. IsQuery(t) <=> \A p \in PiecesOf(t, "&") : WellSpelt(p.text) /\ Named(p.text, p.last)
  BY Zenon DEF IsQuery
<1>4. ASSUME NEW i \in 0 .. n, NEW j \in 1 .. n + 1, Bounds(t, "&", i, j)
      PROVE  LET u == SubSeq(t, i + 1, j - 1)
             IN  Named(u, j = n + 1) <=>
                    \E e \in i + 1 .. j - 1 :
                        /\ t[e] = "=" /\ e > i + 1 /\ (e < j - 1 \/ j = n + 1)
                        /\ \A m \in i + 1 .. j - 1 : t[m] = "=" => m = e
  <2> DEFINE u == SubSeq(t, i + 1, j - 1)
  <2>1. i < j
    BY <1>4 DEF Bounds
  <2>2. /\ Len(u) = j - i - 1 /\ DOMAIN u = 1 .. j - i - 1
        /\ \A m \in 1 .. j - i - 1 : u[m] = t[i + m]
    BY <2>1, PieceText
  <2> HIDE DEF u
  <2>3. ASSUME Named(u, j = n + 1)
        PROVE  \E e \in i + 1 .. j - 1 :
                        /\ t[e] = "=" /\ e > i + 1 /\ (e < j - 1 \/ j = n + 1)
                        /\ \A m \in i + 1 .. j - 1 : t[m] = "=" => m = e
    <3>1. PICK k \in 1 .. j - i - 1 :
              /\ u[k] = "=" /\ k > 1 /\ (k < j - i - 1 \/ j = n + 1)
              /\ \A m \in 1 .. j - i - 1 : u[m] = "=" => m = k
      BY <2>2, <2>3
    <3>2. i + k \in i + 1 .. j - 1 /\ t[i + k] = "=" /\ i + k > i + 1 /\ (i + k < j - 1 \/ j = n + 1)
      BY <1>1, <2>2, <3>1
    <3>3. ASSUME NEW m \in i + 1 .. j - 1, t[m] = "=" PROVE m = i + k
      <4>1. m - i \in 1 .. j - i - 1 /\ i + (m - i) = m
        BY <1>1
      <4>2. u[m - i] = "="
        BY <2>2, <3>3, <4>1
      <4>3. m - i = k
        BY <3>1, <4>1, <4>2
      <4> QED BY <1>1, <4>3
    <3> QED BY <3>2, <3>3
  <2>4. ASSUME NEW e \in i + 1 .. j - 1, t[e] = "=", e > i + 1, e < j - 1 \/ j = n + 1,
               \A m \in i + 1 .. j - 1 : t[m] = "=" => m = e
        PROVE  Named(u, j = n + 1)
    <3>1. e - i \in 1 .. j - i - 1 /\ i + (e - i) = e /\ e - i > 1 /\ (e - i < j - i - 1 \/ j = n + 1)
      BY <1>1, <2>4
    <3>2. u[e - i] = "="
      BY <2>2, <2>4, <3>1
    <3>3. ASSUME NEW m \in 1 .. j - i - 1, u[m] = "=" PROVE m = e - i
      <4>1. i + m \in i + 1 .. j - 1 /\ t[i + m] = "="
        BY <1>1, <2>2, <3>3
      <4>2. i + m = e
        BY <2>4, <4>1
      <4> QED BY <1>1, <4>2
    <3> QED BY <2>2, <3>1, <3>2, <3>3
  <2> HIDE DEF Named
  <2> QED BY <2>3, <2>4, Zenon DEF u
<1> HIDE DEF Named
<1>5. ASSUME \A k \in DOMAIN t : QueryCharOk(t, k), InVal(t, n), NEW p \in PiecesOf(t, "&")
      PROVE  WellSpelt(p.text) /\ Named(p.text, p.last)
  <2>1. PICK i \in 0 .. n : \E j \in 1 .. n + 1 : Bounds(t, "&", i, j) /\ p = PieceOf(t, i, j)
    BY <1>5, PiecesAre
  <2>2. PICK j \in 1 .. n + 1 : Bounds(t, "&", i, j) /\ p = PieceOf(t, i, j)
    BY <2>1
  <2>3. i < j /\ (i # 0 => t[i] = "&") /\ (j # n + 1 => t[j] = "&")
        /\ \A m \in i + 1 .. j - 1 : t[m] # "&"
    BY <2>2 DEF Bounds
  <2>4. \A k \in i + 1 .. j - 1 : t[k] \in PathChars /\ (t[k] = "%" => EscapeAt(t, k))
    <3> TAKE k \in i + 1 .. j - 1
    <3>1. k \in DOMAIN t
      BY <1>1, <2>3
    <3> QED BY <1>5, <3>1, Zenon DEF QueryCharOk
  <2>5. WellSpelt(SubSeq(t, i + 1, j - 1))
    BY <1>2, <2>2, <2>4, WellSpeltPiece
  <2>6. InVal(t, j - 1)
    <3>1. CASE j = n + 1
      BY <1>1, <1>5, <3>1
    <3>2. CASE j # n + 1
      <4>1. j \in DOMAIN t /\ t[j] = "&"
        BY <1>1, <2>3, <3>2
      <4> QED BY <1>5, <4>1 DEF QueryCharOk
    <3> QED BY <3>1, <3>2
  <2>7. PICK e \in 1 .. j - 1 : t[e] = "=" /\ \A m \in e .. j - 1 : t[m] # "&"
    BY <2>6 DEF InVal
  <2>8. e \in i + 1 .. j - 1
    <3>1. i # 0 => ~(i \in e .. j - 1)
      BY <2>3, <2>7
    <3> QED BY <1>1, <2>3, <3>1
  <2>9. \A m \in i + 1 .. j - 1 : t[m] = "=" => m > 1 /\ t[m - 1] \notin {"=", "&"} /\ ~InVal(t, m - 1)
    <3> TAKE m \in i + 1 .. j - 1
    <3>1. m \in DOMAIN t
      BY <1>1, <2>3
    <3> QED BY <1>5, <3>1 DEF QueryCharOk
  <2>10. ASSUME NEW a \in i + 1 .. j - 1, NEW b \in i + 1 .. j - 1, t[a] = "=", t[b] = "=", a < b
         PROVE  FALSE
    <3>1. a \in 1 .. b - 1 /\ \A m \in a .. b - 1 : t[m] # "&"
      BY <1>1, <2>3, <2>10
    <3>2. InVal(t, b - 1)
      BY <2>10, <3>1 DEF InVal
    <3> QED BY <2>9, <2>10, <3>2
  <2>11. \A m \in i + 1 .. j - 1 : t[m] = "=" => m = e
    BY <1>1, <2>7, <2>8, <2>10
  <2>12. e > i + 1
    <3>1. e > 1 /\ t[e - 1] # "&"
      BY <2>7, <2>8, <2>9
    <3> QED BY <1>1, <2>3, <2>8, <3>1
  <2>13. e < j - 1 \/ j = n + 1
    <3> SUFFICES ASSUME j # n + 1, e = j - 1 PROVE FALSE
      BY <1>1, <2>8
    <3>1. j \in DOMAIN t /\ t[j] = "&"
      BY <1>1, <2>3
    <3>2. t[j - 1] # "="
      BY <1>5, <3>1 DEF QueryCharOk
    <3> QED BY <2>7, <3>2
  <2>14. Named(SubSeq(t, i + 1, j - 1), j = n + 1)
    BY <1>4, <2>2, <2>7, <2>8, <2>11, <2>12, <2>13
  <2> HIDE DEF n
  <2>15. p.text = SubSeq(t, i + 1, j - 1) /\ p.last = (j = n + 1)
    BY <2>2 DEF PieceOf, n
  <2> QED BY <2>5, <2>14, <2>15
<1>6. ASSUME \A p \in PiecesOf(t, "&") : WellSpelt(p.text) /\ Named(p.text, p.last),
             NEW i \in 0 .. n, NEW j \in 1 .. n + 1, Bounds(t, "&", i, j)
      PROVE  /\ \A m \in i + 1 .. j - 1 : t[m] \in PathChars /\ (t[m] = "%" => EscapeAt(t, m))
             /\ \E e \in i + 1 .. j - 1 :
                    /\ t[e] = "=" /\ e > i + 1 /\ (e < j - 1 \/ j = n + 1)
                    /\ \A m \in i + 1 .. j - 1 : t[m] = "=" => m = e
  <2>1. PieceOf(t, i, j) \in PiecesOf(t, "&")
    BY <1>6, PiecesAre
  <2>2. /\ WellSpelt(SubSeq(t, i + 1, j - 1))
        /\ Named(SubSeq(t, i + 1, j - 1), j = n + 1)
    BY <1>6, <2>1 DEF PieceOf
  <2>3. \A m \in i + 1 .. j - 1 : t[m] \in PathChars /\ (t[m] = "%" => EscapeAt(t, m))
    BY <1>2, <1>6, <2>2, WellSpeltPiece
  <2> QED BY <1>4, <1>6, <2>2, <2>3
<1>7. ASSUME \A p \in PiecesOf(t, "&") : WellSpelt(p.text) /\ Named(p.text, p.last),
             NEW k \in 1 .. n + 1
      PROVE  IF k = n + 1 THEN InVal(t, n) ELSE QueryCharOk(t, k)
  <2>1. PICK i \in 0 .. n : \E j \in 1 .. n + 1 :
            Bounds(t, "&", i, j) /\ i < k /\ (k = n + 1 \/ t[k] = "&" => j = k) /\ k <= j
    BY <1>0
  <2>2. PICK j \in 1 .. n + 1 :
            Bounds(t, "&", i, j) /\ i < k /\ (k = n + 1 \/ t[k] = "&" => j = k) /\ k <= j
    BY <2>1
  <2>3. i < j /\ (i # 0 => t[i] = "&") /\ (j # n + 1 => t[j] = "&")
        /\ \A m \in i + 1 .. j - 1 : t[m] # "&"
    BY <2>2 DEF Bounds
  <2>4. \A m \in i + 1 .. j - 1 : t[m] \in PathChars /\ (t[m] = "%" => EscapeAt(t, m))
    BY <1>6, <1>7, <2>2
  <2>5. PICK e \in i + 1 .. j - 1 :
            /\ t[e] = "=" /\ e > i + 1 /\ (e < j - 1 \/ j = n + 1)
            /\ \A m \in i + 1 .. j - 1 : t[m] = "=" => m = e
    BY <1>6, <1>7, <2>2
  <2>6. InVal(t, j - 1)
    <3>1. e \in 1 .. j - 1 /\ \A m \in e .. j - 1 : t[m] # "&"
      BY <1>1, <2>3
    <3> QED BY <2>5, <3>1 DEF InVal
  <2>7. CASE k = n + 1
    BY <1>1, <2>2, <2>6, <2>7
  <2>8. CASE k # n + 1 /\ t[k] = "&"
    <3>1. j = k
      BY <2>2, <2>8
    <3>2. k > 1 /\ t[k - 1] \notin {"=", "&"}
      <4>1. k - 1 \in i + 1 .. j - 1 /\ e # k - 1
        BY <1>1, <2>5, <2>8, <3>1
      <4> QED BY <1>1, <2>3, <2>5, <4>1
    <3> QED BY <1>2, <2>6, <2>8, <3>1, <3>2 DEF QueryCharOk
  <2>9. CASE k # n + 1 /\ t[k] = "="
    <3>1. k # j
      BY <1>1, <1>2, <2>3, <2>9
    <3>2. k \in i + 1 .. j - 1
      BY <1>1, <2>2, <3>1
    <3>3. k = e /\ k > 1
      BY <1>1, <2>5, <2>9, <3>2
    <3>4. t[k - 1] \notin {"=", "&"}
      <4>1. k - 1 \in i + 1 .. j - 1 /\ k - 1 # e
        BY <1>1, <2>5, <3>3
      <4> QED BY <2>3, <2>5, <4>1
    <3>5. ~InVal(t, k - 1)
      <4> SUFFICES ASSUME InVal(t, k - 1) PROVE FALSE
        OBVIOUS
      <4>1. PICK a \in 1 .. k - 1 : t[a] = "=" /\ \A m \in a .. k - 1 : t[m] # "&"
        BY DEF InVal
      <4>2. i # 0 => ~(i \in a .. k - 1)
        BY <2>3, <4>1
      <4>3. a \in i + 1 .. j - 1 /\ a # e
        BY <1>1, <2>2, <3>2, <3>3, <4>2
      <4> QED BY <2>5, <4>1, <4>3
    <3>6. t[k] \in PathChars
      BY <2>4, <3>2
    <3> QED BY <2>9, <3>3, <3>4, <3>5, <3>6 DEF QueryCharOk
  <2>10. CASE k # n + 1 /\ t[k] \notin {"=", "&"}
    <3>1. k # j
      BY <1>1, <2>3, <2>10
    <3>2. k \in i + 1 .. j - 1
      BY <1>1, <2>2, <3>1
    <3> QED BY <2>4, <2>10, <3>2 DEF QueryCharOk
  <2> QED BY <2>7, <2>8, <2>9, <2>10
<1>8. ASSUME \A p \in PiecesOf(t, "&") : WellSpelt(p.text) /\ Named(p.text, p.last)
      PROVE  (\A k \in DOMAIN t : QueryCharOk(t, k)) /\ InVal(t, n)
  <2>1. InVal(t, n)
    BY <1>1, <1>7, <1>8
  <2>2. ASSUME NEW k \in DOMAIN t PROVE QueryCharOk(t, k)
    <3>1. k \in 1 .. n + 1 /\ k # n + 1
      BY <1>1
    <3> QED BY <1>7, <1>8, <3>1
  <2> QED BY <2>1, <2>2
<1> QED BY <1>3, <1>5, <1>8, Zenon


\* Behind a "/" the scanner of http_request_process_target_relative accepts exactly
\* what the grammar does.
LEMMA RelativeOkIs ==
  ASSUME NEW s \in Seq(STRING), CharAt(s, 1) = "/"
  PROVE  RelativeOk(s) <=> IsRelative(s)
<1> DEFINE path == Before(s, "?")
           query == After(s, "?")
<1>1. Len(s) \in Nat /\ DOMAIN s = 1 .. Len(s)
  BY LenProperties
<1>2. 1 \in DOMAIN s /\ s[1] = "/"
  <2>1. "NUL" # "/"
    OBVIOUS
  <2> QED BY <2>1, Zenon DEF CharAt
<1>3. path \in Seq(STRING) /\ Len(path) \in 1 .. Len(s) /\ path[1] = "/"
  <2>1. CASE ~Contains(s, "?")
    BY <1>1, <1>2, <2>1, SplitFacts
  <2>2. CASE Contains(s, "?")
    <3>1. PICK k \in 1 .. Len(s) : FirstAt(s, "?", k) /\ Before(s, "?") = SubSeq(s, 1, k - 1)
      BY <2>2, SplitFacts
    <3>2. k # 1
      BY <1>2, <3>1 DEF FirstAt
    <3> QED BY <1>1, <1>2, <3>1, <3>2
  <2> QED BY <2>1, <2>2
<1>4. Contains(s, "?") => query \in Seq(STRING)
  <2> SUFFICES ASSUME Contains(s, "?") PROVE query \in Seq(STRING)
    OBVIOUS
  <2>1. PICK k \in 1 .. Len(s) : After(s, "?") = SubSeq(s, k + 1, Len(s))
    BY SplitFacts, Zenon
  <2>2. SubSeq(s, k + 1, Len(s)) \in Seq(STRING)
    BY <1>1
  <2> QED BY <2>1, <2>2 DEF query
<1> HIDE DEF path, query
<1>5. Tail(path) \in Seq(STRING) /\ path # <<>>
  BY <1>3
<1>6. ScanPath(Tail(path)).ok <=> \A k \in DOMAIN Tail(path) : PathCharOk(Tail(path), k)
  BY <1>5, ScanPathOk
<1>7. IsPath(path) <=> \A k \in DOMAIN Tail(path) : PathCharOk(Tail(path), k)
  BY <1>3, <1>5, PathOfPieces, Zenon DEF IsPath
<1>8. Contains(s, "?") =>
         (query # <<>> /\ ScanQuery(query).ok /\ ScanQuery(query).in_val <=> IsQuery(query))
  <2> SUFFICES ASSUME Contains(s, "?")
               PROVE  query # <<>> /\ ScanQuery(query).ok /\ ScanQuery(query).in_val <=> IsQuery(query)
    OBVIOUS
  <2>1. /\ ScanQuery(query).ok <=> \A k \in DOMAIN query : QueryCharOk(query, k)
        /\ ScanQuery(query).ok => (ScanQuery(query).in_val <=> InVal(query, Len(query)))
    BY <1>4, ScanQueryOk
  <2>2. IsQuery(query) <=> (\A k \in DOMAIN query : QueryCharOk(query, k)) /\ InVal(query, Len(query))
    BY <1>4, QueryOfPieces
  <2>3. InVal(query, Len(query)) => query # <<>>
    <3> SUFFICES ASSUME query = <<>> PROVE ~InVal(query, Len(query))
      OBVIOUS
    <3>1. Len(query) = 0
      OBVIOUS
    <3> QED BY <3>1 DEF InVal
  <2> QED BY <2>1, <2>2, <2>3, Zenon
<1> QED BY <1>6, <1>7, <1>8, Zenon DEF RelativeOk, IsRelative, path, query

\* What the parser makes of a target that begins with "/"
LEMMA ParsedTarget ==
  ASSUME NEW c, CaseType(c), CharAt(c.target, 1) = "/", c.method # "CONNECT",
         Parsed(c).upTo # "method"
  PROVE  Parsed(c).upTo # "target" <=> IsRelative(c.target) /\ Fits(c.target, MaxUrlLen)
<1> DEFINE fields == ReadFields(c.lines, c.allow_headers)
           upTo == IF c.method \notin Methods THEN "method"
                   ELSE IF ~TargetOk(c.method, c.target) THEN "target"
                   ELSE IF c.protocol \notin Protocols THEN "protocol"
                   ELSE IF ~fields.ok THEN "headers"
                   ELSE "end"
           target == IF upTo \in {"method", "target"} THEN <<>> ELSE c.target
           old == upTo \in {"headers", "end"} /\ c.protocol = "HTTP/1.0"
           headers == IF upTo = "end" THEN HeaderText(c.lines) ELSE <<>>
           body == upTo = "end" /\ c.body /\ c.method \in MethodsWithBody
<1>1. Parsed(c) = [upTo |-> upTo, target |-> target, old |-> old, headers |-> headers,
                   host |-> fields.host, has |-> fields.has, body |-> body]
  BY Zenon DEF Parsed
<1>2. Parsed(c).upTo = upTo
  <2> HIDE DEF fields, upTo, old, body, target, headers
  <2> QED BY <1>1
<1>3. upTo # "target" <=> TargetOk(c.method, c.target)
  <2> HIDE DEF fields
  <2>1. c.method \in Methods
    BY <1>2
  <2> QED BY <2>1
<1>4. c.target \in Seq(STRING)
  BY Zenon DEF CaseType
<1>5. c.target # <<"*">>
  BY <1>4 DEF CharAt
<1>6. ~AbsoluteOk(c.target)
  BY DEF AbsoluteOk
<1>7. RelativeOk(c.target) <=> IsRelative(c.target)
  BY <1>4, RelativeOkIs, Zenon
<1> QED BY <1>2, <1>3, <1>5, <1>6, <1>7, Zenon DEF TargetOk

\* A request that the parser accepts to its end has an accepted target and the text of
\* accepted lines.
LEMMA ParsedToEnd ==
  ASSUME NEW c, CaseType(c), Parsed(c).upTo = "end"
  PROVE  /\ Parsed(c).target = c.target /\ Fits(c.target, MaxUrlLen)
         /\ Parsed(c).headers = HeaderText(c.lines)
         /\ \A k \in 1 .. Len(c.lines) : LineOk(c.lines[k], c.allow_headers)
<1> DEFINE fields == ReadFields(c.lines, c.allow_headers)
           upTo == IF c.method \notin Methods THEN "method"
                   ELSE IF ~TargetOk(c.method, c.target) THEN "target"
                   ELSE IF c.protocol \notin Protocols THEN "protocol"
                   ELSE IF ~fields.ok THEN "headers"
                   ELSE "end"
           old == upTo \in {"headers", "end"} /\ c.protocol = "HTTP/1.0"
           body == upTo = "end" /\ c.body /\ c.method \in MethodsWithBody
           target == IF upTo \in {"method", "target"} THEN <<>> ELSE c.target
           headers == IF upTo = "end" THEN HeaderText(c.lines) ELSE <<>>
<1>1. Parsed(c) = [upTo |-> upTo, target |-> target, old |-> old, headers |-> headers,
                   host |-> fields.host, has |-> fields.has, body |-> body]
  BY Zenon DEF Parsed
<1>2. Parsed(c).upTo = upTo /\ Parsed(c).target = target /\ Parsed(c).headers = headers
  <2> HIDE DEF fields, upTo, old, body, target, headers
  <2> QED BY <1>1
<1>3. upTo = "end"
  <2> HIDE DEF upTo
  <2> QED BY <1>2
<1>4. TargetOk(c.method, c.target) /\ fields.ok
  <2> HIDE DEF fields
  <2> QED BY <1>3
<1>5. target = c.target /\ headers = HeaderText(c.lines)
  <2> HIDE DEF upTo
  <2> QED BY <1>3
<1>6. Fits(c.target, MaxUrlLen)
  BY <1>4, Zenon DEF TargetOk
<1>7. c.lines \in Seq([field : Seq(STRING), spaces : Nat, value : Seq(STRING)])
  BY Zenon DEF CaseType
<1>8. \A k \in 1 .. Len(c.lines) : LineOk(c.lines[k], c.allow_headers)
  BY <1>4, <1>7, ReadAcceptsLines, Zenon
<1> QED BY <1>2, <1>5, <1>6, <1>8, Zenon

\* The names that are looked up
LEMMA NamesAreNames ==
  ASSUME NEW name \in Names
  PROVE  name \in Seq(STRING) /\ IsName(name)
<1>1. name \in Seq(STRING) /\ name # <<>> /\ \A k \in DOMAIN name : name[k] \notin {":", "\r", "\n"}
  BY NamesAssumption
<1>2. name \in Seq(Tokens)
  <2>1. STRING \subseteq Tokens
    BY DEF Tokens
  <2> QED BY <1>1, <2>1, SeqMonotonic
<1>3. DOMAIN name = 1 .. Len(name)
  BY <1>1, LenProperties
<1> QED BY <1>1, <1>2, <1>3 DEF IsName

\* What korall_request_header_get finds in an accepted request
LEMMA HeadersAreRead ==
  ASSUME NEW c, CaseType(c), Parsed(c).upTo = "end", NEW name \in Names
  PROVE  LET found == HeaderGet(Parsed(c).headers, name, MaxValueLen)
         IN  /\ \A k \in ReadableLine(c.lines, name) : found = c.lines[k].value
             /\ found # NotFound => LinesBeginningWith(c.lines, name) # {}
<1> DEFINE lines == c.lines
           text == HeaderText(lines)
<1>1. Parsed(c).headers = text /\ \A k \in 1 .. Len(lines) : LineOk(lines[k], c.allow_headers)
  BY ParsedToEnd, Zenon
<1>2. WholeLines(lines)
  BY Zenon DEF CaseType, WholeLines, Lines
<1>3. name \in Seq(STRING) /\ IsName(name)
  BY NamesAreNames
<1>4. ASSUME NEW k \in ReadableLine(lines, name)
      PROVE  HeaderGet(text, name, MaxValueLen) = lines[k].value
  <2>1. k \in DOMAIN lines
    BY Zenon DEF ReadableLine
  <2>2. DOMAIN lines = 1 .. Len(lines)
    BY <1>2, WholeLinesFacts, Zenon
  <2>3. LineOk(lines[k], c.allow_headers)
    BY <1>1, <2>1, <2>2, Zenon
  <2>4. Fits(lines[k].value, MaxValueLen)
    BY <2>3, Zenon DEF LineOk
  <2> HIDE DEF lines
  <2> DEFINE room == MaxValueLen
  <2>5. IsName(name) /\ k \in ReadableLine(lines, name) /\ Fits(lines[k].value, room)
    BY <1>3, <1>4, <2>4, Zenon
  <2> HIDE DEF room
  <2>6. HeaderGet(HeaderText(lines), name, room) = lines[k].value
    BY <1>2, <2>5, HeaderGetReads
  <2> QED BY <2>6 DEF room
<1>5. HeaderGet(text, name, MaxValueLen) # NotFound => LinesBeginningWith(lines, name) # {}
  <2> HIDE DEF lines
  <2> QED BY <1>2, <1>3, HeaderGetFinds, Zenon
<1> QED BY <1>1, <1>4, <1>5, Zenon

\* What korall_request_param_get finds in an accepted request
LEMMA ParamsAreRead ==
  ASSUME NEW c, CaseType(c), Parsed(c).upTo = "end", NEW name \in Params
  PROVE  \A k \in ParamStarts(After(Parsed(c).target, "?"), name) :
            ParamGet(Parsed(c).target, name, MaxUrlLen)
              = ParamValue(After(Parsed(c).target, "?"), name, k)
<1> DEFINE target == c.target
<1>1. Parsed(c).target = target /\ Fits(target, MaxUrlLen)
  BY ParsedToEnd, Zenon
<1>2. target \in Seq(STRING) /\ HasWidths(target)
  BY Zenon DEF CaseType
<1>3. name \in Seq(STRING) /\ \A k \in DOMAIN name : name[k] # "="
  BY NamesAssumption
<1>4. MaxUrlLen \in Nat
  BY DEF MaxUrlLen
<1> HIDE DEF target
<1> DEFINE room == MaxUrlLen
<1> HIDE DEF room
<1>5. \A k \in ParamStarts(After(target, "?"), name) :
            ParamGet(target, name, room) = ParamValue(After(target, "?"), name, k)
  <2>1. room \in Nat /\ Fits(target, room)
    BY <1>1, <1>4 DEF room
  <2> QED BY <1>2, <1>3, <2>1, ParamGetReads, Zenon
<1> QED BY <1>1, <1>5, Zenon DEF room

\* Values of any length: the loops accept what the grammar has, and of a request all
\* that it has.
LEMMA ValuesAreJudged ==
  ASSUME NEW v \in Seq(STRING), HasWidths(v)
  PROVE  /\ CacheControlReqOk(v) <=> IsCacheControl(v, ReqDirectives, ReqTakesValue, MaxReqDirective)
         /\ CacheControlResOk(v) => IsCacheControl(v, ResDirectives, ResTakesValue, MaxResDirective)
<1>1. v \in Seq(Words)
  BY Zenon DEF Words
<1>2. MaxReqDirective \in Nat /\ MaxResDirective \in Nat
  BY DEF MaxReqDirective, MaxResDirective
<1>3. AllFits(v, ReqDirectives, MaxReqDirective, MaxInt)
  <2>1. WordsFit(ReqDirectives, MaxReqDirective)
    BY WordsAssumption, Zenon DEF WordsFit, Comma, WordsAssumption
  <2> QED BY <2>1, IntsFit, Zenon DEF AllFits
<1>4. CacheControlReqOk(v) <=> IsCacheControl(v, ReqDirectives, ReqTakesValue, MaxReqDirective)
  <2>1. /\ CacheControlOk(v, ReqDirectives, ReqTakesValue, MaxReqDirective, MaxInt)
                => IsCacheControl(v, ReqDirectives, ReqTakesValue, MaxReqDirective)
        /\ AllFits(v, ReqDirectives, MaxReqDirective, MaxInt)
                => (IsCacheControl(v, ReqDirectives, ReqTakesValue, MaxReqDirective)
                        => CacheControlOk(v, ReqDirectives, ReqTakesValue, MaxReqDirective, MaxInt))
    BY <1>1, <1>2, TablesOfDirectives, ListsAgree
  <2> QED BY <1>3, <2>1, Zenon DEF CacheControlReqOk
<1>5. CacheControlResOk(v) => IsCacheControl(v, ResDirectives, ResTakesValue, MaxResDirective)
  <2>1. CacheControlOk(v, ResDirectives, ResTakesValue, MaxResDirective, MaxResSeconds)
                => IsCacheControl(v, ResDirectives, ResTakesValue, MaxResDirective)
    BY <1>1, <1>2, TablesOfDirectives, ListsAgree
  <2> QED BY <2>1, Zenon DEF CacheControlResOk
<1> QED BY <1>4, <1>5

-----------------------------------------------------------------------------
(* The theorems                                                            *)

\* For any requests, servers and callbacks, and any number of headers a response
\* may have: the text that http_response_send joins with sprintf fits its buffer.
THEOREM SendBufferIsLargeEnough == Spec => []SendBufferHolds
<1>1. ExchangeInv => SendBufferHolds
  BY SendBufferFits, Zenon DEF ExchangeInv, SendBufferHolds
<1> QED BY <1>1, InvHolds, PTL

\* Likewise no text of a response reaches the next block of its arena, and the first
\* blocks of both arenas fit, so that arena_alloc never ends the process.
THEOREM BuffersHold == Spec => []WritesStayInside
<1>1. ~ResponseArena.exited
  BY ResponseArenaFacts, SMT
<1>2. ExchangeInv => WritesStayInside
  BY <1>1, InsideHolds, RequestArenaHolds, Zenon DEF ExchangeInv, WritesStayInside
<1> QED BY <1>2, InvHolds, PTL

\* For any requests, servers and callbacks: a body has its length as the last
\* Content-Length unless the callback sets that header itself, and what the library
\* answers has exactly one.  Nine headers must fit (HTTP_RES_HEADER_COUNT is 100): with
\* fewer, http_response_construct leaves a body out and does not notice.
THEOREM AnswersHaveLengths ==
  ASSUME HeaderCapacity >= 9
  PROVE  Spec => []AnswersAreFramed
<1>1. Init => FrameInv
  <2> SUFFICES ASSUME Init PROVE FrameInv
    OBVIOUS
  <2>1. stage = "parse" /\ res = NewResponse /\ calls = 0
    BY Zenon DEF Init
  <2>2. Bare(res, 0) /\ calls \in Nat
    BY <2>1, BareNew
  <2> QED BY <2>1, <2>2 DEF FrameInv, Bare, IsFramed
<1>2. ExchangeInv /\ FrameInv /\ [Next]_vars => FrameInv'
  <2> SUFFICES ASSUME ExchangeInv, FrameInv, [Next]_vars PROVE FrameInv'
    OBVIOUS
  <2>1. CASE Next
    BY <2>1, RequestStepFrame, RouteStepFrame, CallStepFrame, Zenon DEF Next
  <2>2. CASE UNCHANGED vars
    BY <2>2, Zenon DEF vars, FrameInv, IsFramed, Bare
  <2> QED BY <2>1, <2>2, Zenon
<1>3. FrameInv => AnswersAreFramed
  BY Zenon DEF FrameInv, AnswersAreFramed
<1> QED BY <1>1, <1>2, <1>3, InvHolds, PTL DEF Spec

\* Type correctness, for any requests, servers and callbacks; and a request that is
\* judged, routed or handed to a callback is one that the parser has accepted to its
\* end (http_process_request returns early otherwise).
THEOREM ExchangeTypes == Spec => []TypeOK
<1>1. Init => TypeInv
  <2> SUFFICES ASSUME Init PROVE TypeInv
    OBVIOUS
  <2>1. /\ stage = "parse" /\ req = NoRequest /\ calls = 0 /\ sent = 0
        /\ ownLength = FALSE /\ should_close = FALSE
    BY Zenon DEF Init
  <2>2. RequestType(NoRequest)
    BY DEF RequestType, NoRequest
  <2>3. 0 \in Nat
    OBVIOUS
  <2> QED BY <2>1, <2>2, <2>3, StageNames, Zenon DEF TypeInv
<1>2. ExchangeInv /\ TypeInv => TypeOK
  <2> SUFFICES ASSUME ExchangeInv, TypeInv PROVE TypeOK
    OBVIOUS
  <2>1. /\ res.status \in DOMAIN PhraseLength \cup {NoStatus}
        /\ {res.start, res.length, res.contentLengths, res.body} \subseteq Nat
        /\ res.count \in 0 .. HeaderCapacity
    <3>1. res \in Responses
      BY Zenon DEF ExchangeInv, ResponseInv
    <3> QED BY <3>1, SMT DEF Responses
  <2> QED BY <2>1, Zenon DEF TypeInv, RequestType, Marks, Stages, Accepted, TypeOK
<1>3. ExchangeInv /\ TypeInv /\ [Next]_vars => TypeInv'
  BY NextTypes, Zenon
<1> QED BY <1>1, <1>2, <1>3, InvHolds, PTL DEF Spec

\* A request is what the parser makes of its case.
ParsedInv == req = NoRequest \/ req = Parsed(case)

\* That holds in every state.
LEMMA ParsedHolds == Spec => []ParsedInv
<1>1. Init => ParsedInv
  BY Zenon DEF Init, ParsedInv
<1>2. ParsedInv /\ [Next]_vars => ParsedInv'
  <2> SUFFICES ASSUME ParsedInv, [Next]_vars PROVE ParsedInv'
    OBVIOUS
  <2>1. CASE Parse
    BY <2>1, Zenon DEF Parse, ParsedInv
  <2>2. CASE ~Parse
    <3>1. UNCHANGED <<req, case>>
      BY <2>2, Zenon DEF Next, Judge, Options, Route, Call, CallStart, CallCustom, CallHeader,
                         CallContentLength, CallBody, Return, Send, vars
    <3> QED BY <3>1, Zenon DEF ParsedInv
  <2> QED BY <2>1, <2>2
<1> QED BY <1>1, <1>2, PTL DEF Spec

\* For targets of any length: the scanner of http_request_process_target_relative
\* accepts exactly the targets of the grammar, up to the limit on their length.
THEOREM TargetsFollowGrammar == Spec => []TargetFollowsGrammar
<1>1. ExchangeInv /\ ParsedInv => TargetFollowsGrammar
  <2> SUFFICES ASSUME ExchangeInv, ParsedInv, req.upTo \notin {"start", "method"},
                      case.method # "CONNECT", CharAt(case.target, 1) = "/"
               PROVE  req.upTo # "target" <=> IsRelative(case.target) /\ Fits(case.target, MaxUrlLen)
    BY Zenon DEF TargetFollowsGrammar
  <2>1. req # NoRequest
    BY DEF NoRequest
  <2>2. req = Parsed(case) /\ CaseType(case)
    BY <2>1, ExchangeAssumption, Zenon DEF ParsedInv, ExchangeInv
  <2> QED BY <2>2, ParsedTarget, Zenon
<1> QED BY <1>1, ParsedHolds, InvHolds, PTL

\* For header sections of any length, and targets of any form:
\* korall_request_header_get returns the value of the first line with the very name that
\* was asked for, if no earlier line mentions it, and it returns nothing if no line
\* begins with the name; korall_request_param_get finds the value of a parameter.  The
\* search is one of the whole text: it is correct because no name runs over the end of a
\* line, and every place of the text is in exactly one line.
THEOREM LookupsReadLines == Spec => []LookupReadsLines
<1>1. ExchangeInv /\ ParsedInv /\ TypeOK => LookupReadsLines
  <2> SUFFICES ASSUME ExchangeInv, ParsedInv, TypeOK, stage = "judge"
               PROVE
        /\ \A name \in Names :
            LET found == HeaderGet(req.headers, name, MaxValueLen)
                readable == ReadableLine(case.lines, name)
            IN  /\ \A k \in readable : found = case.lines[k].value
                /\ found # NotFound => LinesBeginningWith(case.lines, name) # {}
        /\ \A name \in Params : \A k \in ParamStarts(After(req.target, "?"), name) :
            ParamGet(req.target, name, MaxUrlLen) = ParamValue(After(req.target, "?"), name, k)
    BY Zenon DEF LookupReadsLines
  <2>1. req.upTo = "end"
    BY DEF TypeOK
  <2>2. req # NoRequest
    BY <2>1 DEF NoRequest
  <2>3. req = Parsed(case) /\ CaseType(case) /\ Parsed(case).upTo = "end"
    BY <2>1, <2>2, ExchangeAssumption, Zenon DEF ParsedInv, ExchangeInv
  <2> QED BY <2>3, HeadersAreRead, ParamsAreRead, Zenon
<1> QED BY <1>1, ExchangeTypes, ParsedHolds, InvHolds, PTL

\* For Cache-Control values of any length: the loop over a request's accepts exactly
\* the lists of the grammar, that over a response's nothing else.  The loop takes all
\* in front of the next "=" for a name whenever that fits the buffer, also when it
\* holds several directives: no list of a request is refused for it because its
\* buffer has no room for two directives.
THEOREM CacheListsAreJudged == Spec => []CacheListIsJudged
<1>1. ExchangeInv => CacheListIsJudged
  <2> SUFFICES ASSUME ExchangeInv, NEW k \in DOMAIN case.lines
               PROVE  LET v == case.lines[k].value
                      IN  /\ CacheControlReqOk(v)
                                <=> IsCacheControl(v, ReqDirectives, ReqTakesValue, MaxReqDirective)
                          /\ CacheControlResOk(v)
                                => IsCacheControl(v, ResDirectives, ResTakesValue, MaxResDirective)
    BY Zenon DEF CacheListIsJudged
  <2> DEFINE v == case.lines[k].value
             F == Seq(STRING)
             lines == case.lines
  <2>1. CaseType(case)
    BY ExchangeAssumption, Zenon DEF ExchangeInv
  <2>2. HasWidths(v) /\ lines \in Seq([field : F, spaces : Nat, value : F])
    BY <2>1, Zenon DEF CaseType
  <2>3. v \in F
    <3> HIDE DEF lines, F
    <3>1. lines[k] \in [field : F, spaces : Nat, value : F]
      BY <2>2, ElementOfSeq, LenProperties DEF lines
    <3> QED BY <3>1 DEF lines
  <2> HIDE DEF v
  <2> QED BY <2>2, <2>3, ValuesAreJudged, Zenon DEF v
<1> QED BY <1>1, InvHolds, PTL
=============================================================================
