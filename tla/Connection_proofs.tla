------------------------- MODULE Connection_proofs -------------------------
(***************************************************************************)
(* The safety properties of one connection (Connection), for every set of  *)
(* requests, frames and circumstances, and any number of messages.         *)
(***************************************************************************)
EXTENDS Connection, FiniteSetTheorems, TLAPS

-----------------------------------------------------------------------------
(* The inductive invariant                                                 *)

Message == Requests \cup Frames

\* A piece of the messages that were sent; that of message 0 is the hello.
Sent(p) == p.msg \in 0 .. Len(asked) /\ (p.msg = 0 => p.part = "rest")

PiecesOk(pieces) == pieces \in Seq(Piece) /\ \A i \in 1 .. Len(pieces) : Sent(pieces[i])

AnswerType == [to : Nat, status : Status, channel : {"tls", "plain"}]
CallType == [msg : Nat, body : SUBSET Nat]

AnswersOk == /\ answers \in Seq(AnswerType) /\ \A i \in 1 .. Len(answers) : answers[i].to <= Len(asked)
             /\ seen \in 0 .. Len(answers)

CallsOk == calls \in Seq(CallType) /\ \A i \in 1 .. Len(calls) : calls[i].msg \in 1 .. Len(asked)

\* A request leaves two arenas at most, for each piece that comes; the bound counts
\* the pieces that are still to come.
ArenasOk == /\ arenas \in Nat
            /\ arenas + 2 * Len(stream) + (IF data = <<>> THEN 0 ELSE 2) <= 4 * Len(asked) + 2

TypeInv ==
    /\ pc \in {"accept", "recv", "process", "over"}
    /\ ssl \in BOOLEAN /\ is_websocket \in BOOLEAN /\ gone \in BOOLEAN
    /\ setting \in Settings
    /\ asked \in Seq(Message) /\ Len(asked) <= setting.messages
    /\ PiecesOk(data) /\ PiecesOk(stream)
    /\ pc = "process" <=> data # <<>>
    /\ ArenasOk /\ AnswersOk /\ CallsOk

\* Piece p has the beginning of a request to upgrade.
BeginsUpgrade(p) == p.part # "rest" /\ IsRequest(asked[p.msg]) /\ asked[p.msg].upgrade

\* A pending upgrade is the last thing the client has sent, and what follows the
\* 101 are frames.
ProtocolInv ==
    /\ is_websocket <=> \E i \in DOMAIN answers : answers[i].status = "101"
    /\ ~is_websocket => \A k \in DOMAIN asked : IsRequest(asked[k])
    /\ is_websocket /\ ~Upgraded => AwaitsUpgrade
    /\ ProtocolsAgree
    /\ is_websocket => \A i \in DOMAIN stream : stream[i].part # "rest" => ~IsRequest(asked[stream[i].msg])
    /\ ~is_websocket /\ pc = "process" /\ BeginsUpgrade(data[1]) =>
           data[1].msg = Len(asked) /\ \A j \in DOMAIN stream : stream[j].part = "rest"
    /\ ~is_websocket => \A i \in DOMAIN stream : BeginsUpgrade(stream[i]) =>
           /\ stream[i].msg = Len(asked)
           /\ \A j \in DOMAIN stream : j > i => stream[j].part = "rest"

\* The handshake decides the channel; a TLS client whose handshake failed has left
\* without a message.
ChannelInv ==
    /\ pc = "accept" => /\ ~ssl /\ answers = <<>>
                        /\ setting.speaks = "tls" => stream = <<[msg |-> 0, part |-> "rest"]>>
    /\ pc # "accept" => \/ ssl <=> setting.secure /\ setting.speaks = "tls"
                        \/ ~ssl /\ gone /\ data = <<>> /\ stream = <<>>
    /\ AnswersKeepTls

\* Without a handshake to fail and parts to be cut, a message is one piece.
WholeInv ==
    ~setting.splits =>
        /\ \A i \in DOMAIN data : data[i].part \in {"whole", "rest"}
        /\ \A i \in DOMAIN stream : stream[i].part \in {"whole", "rest"}
        /\ ~setting.secure => /\ \A i \in DOMAIN data : data[i].part = "rest" => data[i].msg = 0
                              /\ \A i \in DOMAIN stream : stream[i].part = "rest" => stream[i].msg = 0

\* When client and server take turns, at most one piece is under way.
TurnsInv ==
    TakesTurns =>
        /\ Len(data) + Len(stream) <= 1
        /\ \A i \in DOMAIN data : ~Answered(data[i].msg)
        /\ \A i \in DOMAIN stream : ~Answered(stream[i].msg)

\* A piece of message n is on its way or in hand.
UnderWay(n) == \/ \E i \in DOMAIN stream : stream[i].msg = n
               \/ \E i \in DOMAIN data : data[i].msg = n

\* Messages that the server has left without an answer
Unanswered == {n \in DOMAIN asked : ~UnderWay(n) /\ ~Answered(n)}

\* The hello of a TLS client, too, may be left without an answer, by a server that
\* takes it for a request.
ArenaInv == TakesTurns => arenas <= 2 * Cardinality(Unanswered) + (IF UnderWay(0) THEN 0 ELSE 2)

IInv ==
    /\ TypeInv /\ ProtocolInv /\ ChannelInv /\ WholeInv
    /\ EndsAsAsked /\ TurnsInv /\ ArenaInv /\ BodyIsComplete

-----------------------------------------------------------------------------
(* Sequences                                                               *)

\* recv cuts the stream into what it returns and what it leaves.
LEMMA CutFacts ==
    ASSUME NEW S, NEW s \in Seq(S), NEW n \in 1 .. Len(s)
    PROVE  /\ SubSeq(s, 1, n) \in Seq(S) /\ Len(SubSeq(s, 1, n)) = n
           /\ \A i \in 1 .. n : SubSeq(s, 1, n)[i] = s[i]
           /\ SubSeq(s, n + 1, Len(s)) \in Seq(S) /\ Len(SubSeq(s, n + 1, Len(s))) = Len(s) - n
           /\ \A i \in 1 .. Len(s) - n : SubSeq(s, n + 1, Len(s))[i] = s[i + n]
OBVIOUS

LEMMA ConcatFacts ==
    ASSUME NEW S, NEW s \in Seq(S), NEW t \in Seq(S)
    PROVE  /\ s \o t \in Seq(S) /\ Len(s \o t) = Len(s) + Len(t)
           /\ \A i \in 1 .. Len(s) : (s \o t)[i] = s[i]
           /\ \A i \in 1 .. Len(t) : (s \o t)[i + Len(s)] = t[i]
           /\ \A i \in 1 .. Len(s) + Len(t) :
                  \/ i \in 1 .. Len(s)
                  \/ i - Len(s) \in 1 .. Len(t) /\ (s \o t)[i] = t[i - Len(s)]
OBVIOUS

LEMMA AppendFacts ==
    ASSUME NEW S, NEW s \in Seq(S), NEW e \in S
    PROVE  /\ Append(s, e) \in Seq(S) /\ Len(Append(s, e)) = Len(s) + 1
           /\ \A i \in 1 .. Len(s) : Append(s, e)[i] = s[i]
           /\ Append(s, e)[Len(s) + 1] = e
OBVIOUS

LEMMA SeqFacts ==
    ASSUME NEW S, NEW s \in Seq(S)
    PROVE  /\ Len(s) \in Nat /\ DOMAIN s = 1 .. Len(s) /\ \A i \in 1 .. Len(s) : s[i] \in S
           /\ s = <<>> <=> Len(s) = 0
OBVIOUS

LEMMA TailFacts ==
    ASSUME NEW S, NEW s \in Seq(S), s # <<>>
    PROVE  /\ Tail(s) \in Seq(S) /\ Len(Tail(s)) = Len(s) - 1
           /\ \A i \in 1 .. Len(s) - 1 : Tail(s)[i] = s[i + 1]
OBVIOUS

-----------------------------------------------------------------------------
(* What the type says                                                      *)

LEMMA TypeFacts ==
    ASSUME TypeInv
    PROVE  /\ MaxMessages \in Nat /\ setting \in SettingType /\ setting.messages \in 0 .. MaxMessages
           /\ Len(asked) \in Nat /\ Len(asked) <= setting.messages /\ Len(asked) <= MaxMessages
           /\ asked \in Seq(Message) /\ DOMAIN asked = 1 .. Len(asked)
           /\ \A k \in 1 .. Len(asked) : asked[k] \in Message
           /\ \A m \in Requests : IsRequest(m) /\ m \in RequestType
           /\ \A m \in Frames : ~IsRequest(m) /\ m \in FrameType
<1>1. /\ Settings \subseteq SettingType /\ MaxMessages \in Nat /\ setting \in Settings
      /\ \A m \in Requests : m \in RequestType
      /\ \A m \in Frames : m \in FrameType
  BY ConnectionAssumption DEF TypeInv
<1>2. asked \in Seq(Message) /\ Len(asked) <= setting.messages
  BY DEF TypeInv
<1>3. setting \in SettingType /\ setting.messages \in 0 .. MaxMessages
  BY <1>1 DEF SettingType
<1>4. Len(asked) \in Nat /\ DOMAIN asked = 1 .. Len(asked) /\ \A k \in 1 .. Len(asked) : asked[k] \in Message
  BY <1>2, SeqFacts
<1>5. Len(asked) <= MaxMessages
  BY <1>1, <1>2, <1>3, <1>4
<1>6. /\ \A m \in Requests : IsRequest(m)
      /\ \A m \in Frames : ~IsRequest(m)
  BY <1>1 DEF IsRequest, RequestType, FrameType
<1> QED
  BY <1>1, <1>2, <1>3, <1>4, <1>5, <1>6

LEMMA PieceFacts ==
    ASSUME TypeInv
    PROVE  /\ data \in Seq(Piece) /\ Len(data) \in Nat /\ DOMAIN data = 1 .. Len(data)
           /\ \A i \in 1 .. Len(data) : data[i] \in Piece /\ Sent(data[i])
           /\ data = <<>> <=> Len(data) = 0
           /\ stream \in Seq(Piece) /\ Len(stream) \in Nat /\ DOMAIN stream = 1 .. Len(stream)
           /\ \A i \in 1 .. Len(stream) : stream[i] \in Piece /\ Sent(stream[i])
           /\ stream = <<>> <=> Len(stream) = 0
           /\ pc = "process" => 1 \in 1 .. Len(data)
<1>1. /\ data \in Seq(Piece) /\ stream \in Seq(Piece) /\ (pc = "process" => data # <<>>)
      /\ \A i \in 1 .. Len(data) : Sent(data[i])
      /\ \A i \in 1 .. Len(stream) : Sent(stream[i])
  BY DEF TypeInv, PiecesOk
<1>2. /\ Len(data) \in Nat /\ DOMAIN data = 1 .. Len(data)
      /\ \A i \in 1 .. Len(data) : data[i] \in Piece
      /\ data = <<>> <=> Len(data) = 0
  BY <1>1, SeqFacts
<1>3. /\ Len(stream) \in Nat /\ DOMAIN stream = 1 .. Len(stream)
      /\ \A i \in 1 .. Len(stream) : stream[i] \in Piece
      /\ stream = <<>> <=> Len(stream) = 0
  BY <1>1, SeqFacts
<1> QED
  BY <1>1, <1>2, <1>3

LEMMA AnswerFacts ==
    ASSUME TypeInv
    PROVE  /\ answers \in Seq(AnswerType) /\ Len(answers) \in Nat /\ DOMAIN answers = 1 .. Len(answers)
           /\ \A i \in 1 .. Len(answers) : answers[i] \in AnswerType /\ answers[i].to \in 0 .. Len(asked)
           /\ seen \in 0 .. Len(answers)
           /\ calls \in Seq(CallType) /\ Len(calls) \in Nat /\ DOMAIN calls = 1 .. Len(calls)
           /\ \A i \in 1 .. Len(calls) : calls[i] \in CallType /\ calls[i].msg \in 1 .. Len(asked)
<1>1. /\ answers \in Seq(AnswerType) /\ calls \in Seq(CallType) /\ seen \in 0 .. Len(answers)
      /\ \A i \in 1 .. Len(answers) : answers[i].to <= Len(asked)
      /\ \A i \in 1 .. Len(calls) : calls[i].msg \in 1 .. Len(asked)
  BY DEF TypeInv, AnswersOk, CallsOk
<1>2. /\ Len(answers) \in Nat /\ DOMAIN answers = 1 .. Len(answers)
      /\ \A i \in 1 .. Len(answers) : answers[i] \in AnswerType
  BY <1>1, SeqFacts
<1>3. /\ Len(calls) \in Nat /\ DOMAIN calls = 1 .. Len(calls)
      /\ \A i \in 1 .. Len(calls) : calls[i] \in CallType
  BY <1>1, SeqFacts
<1>4. \A i \in 1 .. Len(answers) : answers[i].to \in 0 .. Len(asked)
  BY <1>1, <1>2, TypeFacts DEF AnswerType
<1> QED
  BY <1>1, <1>2, <1>3, <1>4

-----------------------------------------------------------------------------
(* One request                                                             *)

\* What a recv returned is read as the request of its first message, but for an
\* error where it is cut off, or as no request.
LEMMA ParsedFacts ==
    ASSUME TypeInv, pc = "process", \A k \in DOMAIN asked : IsRequest(asked[k])
    PROVE  LET p == data[1]
               req == Parsed(data)
           IN  /\ p \in Piece /\ p.msg \in 0 .. Len(asked) /\ (p.msg = 0 => p.part = "rest")
               /\ p.part = "rest" => req = Garbage
               /\ p.part # "rest" =>
                    /\ asked[p.msg] \in RequestType
                    /\ req.method = asked[p.msg].method /\ req.upgrade = asked[p.msg].upgrade
                    /\ req.old = asked[p.msg].old /\ req.close = asked[p.msg].close
                    /\ req.body = asked[p.msg].body
                    /\ req.fault = "none" => asked[p.msg].fault = "none"
                    /\ req.fault # "line" => asked[p.msg].fault # "line"
                    /\ p.part = "whole" => req = asked[p.msg]
<1>1. data[1] \in Piece /\ Sent(data[1])
  BY PieceFacts
<1>2. data[1].part # "rest" => data[1].msg \in 1 .. Len(asked)
  BY <1>1, TypeFacts DEF Sent, Piece
<1>3. data[1].part # "rest" => asked[data[1].msg] \in RequestType
  BY <1>2, TypeFacts DEF Message
<1>4. data[1].msg \in 0 .. Len(asked)
  BY <1>1 DEF Sent
<1> QED
  BY <1>1, <1>2, <1>3, <1>4, TypeFacts DEF Parsed, Sent, RequestType

\* The pieces of a message: its beginning, and nothing else but a rest.
LEMMA PiecesFacts ==
    ASSUME NEW m, NEW n \in 1 .. MaxMessages, NEW pieces \in Pieces(m, n)
    PROVE  /\ pieces \in Seq(Piece) /\ Len(pieces) \in {1, 2}
           /\ \A i \in 1 .. Len(pieces) : pieces[i].msg = n
           /\ \A i \in 1 .. Len(pieces) : i > 1 => pieces[i].part = "rest"
           /\ ~setting.splits => Len(pieces) = 1 /\ pieces[1].part = "whole"
<1>1. PICK part \in {"whole", "line", "headers", "head"} :
          \/ part = "whole" /\ pieces = <<[msg |-> n, part |-> "whole"]>>
          \/ setting.splits /\ pieces = <<[msg |-> n, part |-> part], [msg |-> n, part |-> "rest"]>>
  BY DEF Pieces
<1>2. [msg |-> n, part |-> part] \in Piece /\ [msg |-> n, part |-> "rest"] \in Piece
  BY ConnectionAssumption DEF Piece
<1>3. CASE part = "whole" /\ pieces = <<[msg |-> n, part |-> "whole"]>>
  <2>1. pieces \in Seq(Piece) /\ Len(pieces) = 1 /\ pieces[1] = [msg |-> n, part |-> "whole"]
    BY <1>2, <1>3
  <2> QED
    BY <2>1
<1>4. CASE setting.splits /\ pieces = <<[msg |-> n, part |-> part], [msg |-> n, part |-> "rest"]>>
  <2>1. /\ pieces \in Seq(Piece) /\ Len(pieces) = 2 /\ pieces[1] = [msg |-> n, part |-> part]
        /\ pieces[2] = [msg |-> n, part |-> "rest"]
    BY <1>2, <1>4
  <2> QED
    BY <2>1, <1>4
<1> QED
  BY <1>1, <1>3, <1>4

\* The status of an answer to a request; only an upgrade gets 101.
HttpStatus == {"101", "200", "204", "400", "404", "500"}

LEMMA OutcomeFacts ==
    ASSUME NEW req, NEW month
    PROVE  /\ Outcome(req, month) \in HttpStatus \cup {Silent}
           /\ Switches(req, Outcome(req, month)) => req.upgrade
BY DEF Outcome, Constructed, HttpStatus, Silent, Switches, RouteStatus

-----------------------------------------------------------------------------
(* What the steps do                                                       *)

\* The handshake, or what there is instead of it
LEMMA HandshakeStep ==
    ASSUME TypeInv, ChannelInv, HandshakeSucceeds \/ HandshakeFails \/ NoHandshake
    PROVE  /\ UNCHANGED <<data, is_websocket, arenas, answers, calls, setting, asked, seen, gone>>
           /\ pc = "accept" /\ pc' = "recv" /\ data = <<>>
           /\ \/ ssl' = TRUE /\ setting.secure /\ setting.speaks = "tls" /\ stream' = <<>>
              \/ ssl' = FALSE /\ setting.secure /\ setting.speaks = "tls" /\ stream' = <<>> /\ gone
              \/ /\ ssl' = FALSE /\ setting.secure /\ setting.speaks = "plain" /\ stream # <<>>
                 /\ stream' = [stream EXCEPT ![1].part = "rest"]
              \/ ssl' = FALSE /\ (setting.secure => setting.speaks = "plain") /\ stream' = stream
<1>1. /\ pc = "accept" /\ ~ssl /\ data = <<>>
      /\ setting.speaks = "tls" => stream = <<[msg |-> 0, part |-> "rest"]>>
  BY DEF HandshakeSucceeds, HandshakeFails, NoHandshake, ChannelInv, TypeInv
<1>2. ssl = FALSE
  BY <1>1 DEF TypeInv
<1>3. setting.speaks = "tls" => Tail(stream) = <<>>
  <2>1. \A x : Tail(<<x>>) = <<>>
    OBVIOUS
  <2> QED
    BY <1>1, <2>1
<1> QED
  BY <1>1, <1>2, <1>3 DEF HandshakeSucceeds, HandshakeFails, NoHandshake, client

\* recv takes pieces from the stream.
LEMMA RecvStep ==
    ASSUME TypeInv, Recv
    PROVE  /\ UNCHANGED <<ssl, is_websocket, arenas, answers, calls, setting, asked, seen, gone>>
           /\ pc = "recv" /\ pc' = "process" /\ data = <<>> /\ data' # <<>>
           /\ \E n \in 1 .. Len(stream) :
                /\ data' \in Seq(Piece) /\ Len(data') = n /\ \A i \in 1 .. n : data'[i] = stream[i]
                /\ stream' \in Seq(Piece) /\ Len(stream') = Len(stream) - n
                /\ \A i \in 1 .. Len(stream) - n : stream'[i] = stream[i + n]
<1>1. PICK n \in 1 .. Len(stream) : /\ data' = SubSeq(stream, 1, n)
                                    /\ stream' = SubSeq(stream, n + 1, Len(stream))
  BY DEF Recv
<1>2. /\ data' \in Seq(Piece) /\ Len(data') = n /\ \A i \in 1 .. n : data'[i] = stream[i]
      /\ stream' \in Seq(Piece) /\ Len(stream') = Len(stream) - n
      /\ \A i \in 1 .. Len(stream) - n : stream'[i] = stream[i + n]
  <2>1. stream \in Seq(Piece)
    BY PieceFacts
  <2> QED
    BY <1>1, <2>1, CutFacts
<1>3. data' # <<>>
  BY <1>2, SeqFacts
<1>4. /\ UNCHANGED <<ssl, is_websocket, arenas, answers, calls, setting, asked, seen, gone>>
      /\ pc = "recv" /\ pc' = "process" /\ data = <<>>
  BY DEF Recv, client, TypeInv
<1> QED
  BY <1>2, <1>3, <1>4

\* The server's step when it takes up a request
LEMMA RequestStep ==
    ASSUME TypeInv, ProtocolInv, ProcessRequest, NEW req, req = Parsed(data),
           NEW status, status = Outcome(req, setting.month)
    PROVE  /\ UNCHANGED <<ssl, stream, setting, asked, seen, gone>>
           /\ pc = "process" /\ data # <<>> /\ data' = <<>> /\ pc' \in {"recv", "over"}
           /\ ~is_websocket /\ \A k \in DOMAIN asked : IsRequest(asked[k])
           /\ Len(data) >= 1 /\ data[1] \in Piece /\ Sent(data[1])
           /\ status \in HttpStatus \cup {Silent}
           /\ is_websocket' = (status = "101") /\ (status = "101" => req.upgrade)
           /\ arenas' = arenas + (IF status = Silent THEN 2 ELSE 0)
           /\ status = Silent => pc' = "recv" /\ answers' = answers
           /\ status # Silent =>
                /\ answers' = Append(answers, [to |-> data[1].msg, status |-> status,
                                               channel |-> IF ssl THEN "tls" ELSE "plain"])
                /\ pc' = IF WantsClose(req) THEN "over" ELSE "recv"
           /\ calls' = IF CallsRoute(req)
                       THEN Append(calls, [msg |-> data[1].msg, body |-> BodyRead(data)])
                       ELSE calls
<1>1. status \in HttpStatus \cup {Silent} /\ (status = "101" => req.upgrade)
  BY OutcomeFacts DEF Switches
<1>2. status \in HttpStatus => Channel(status) = IF ssl THEN "tls" ELSE "plain"
  BY DEF Channel, HttpStatus
<1>3. data # <<>> /\ Len(data) >= 1 /\ data[1] \in Piece /\ Sent(data[1])
  BY PieceFacts DEF ProcessRequest
<1>4. ~is_websocket /\ \A k \in DOMAIN asked : IsRequest(asked[k])
  BY DEF ProtocolInv, ProcessRequest
<1> QED
  BY <1>1, <1>2, <1>3, <1>4 DEF ProcessRequest, Answer, Leaves, Switches, client

\* The server's step when it takes up a frame
FrameStatus == {"echo", "pong", "closed", "refused"}

LEMMA FrameStep ==
    ASSUME TypeInv, ProcessFrame
    PROVE  /\ UNCHANGED <<ssl, is_websocket, arenas, stream, calls, setting, asked, seen, gone>>
           /\ pc = "process" /\ data # <<>> /\ data' = <<>> /\ pc' \in {"recv", "over"}
           /\ is_websocket
           /\ Len(data) >= 1 /\ data[1] \in Piece /\ Sent(data[1])
           /\ pc' = "over" => FrameOf(data[1]) = "close"
           /\ FrameOf(data[1]) = "close" => pc' = "over" /\ answers' # answers
           /\ \/ answers' = answers
              \/ \E status \in FrameStatus :
                    answers' = Append(answers, [to |-> data[1].msg, status |-> status,
                                                channel |-> Channel(status)])
<1>1. data # <<>> /\ Len(data) >= 1 /\ data[1] \in Piece /\ Sent(data[1])
  BY PieceFacts DEF ProcessFrame
<1>2. ASSUME NEW status \in FrameStatus, Answer(status)
      PROVE  /\ answers' # answers
             /\ \E s \in FrameStatus :
                    answers' = Append(answers, [to |-> data[1].msg, status |-> s, channel |-> Channel(s)])
  <2>1. answers' = Append(answers, [to |-> data[1].msg, status |-> status, channel |-> Channel(status)])
    BY <1>2 DEF Answer
  <2>2. Len(answers') = Len(answers) + 1 /\ Len(answers) \in Nat
    BY <2>1, AnswerFacts
  <2> QED
    BY <2>1, <2>2
<1> QED
  BY <1>1, <1>2 DEF ProcessFrame, FrameStatus, client

\* An answer goes to the first message in hand, and after the answers before it.
LEMMA NewAnswer ==
    ASSUME TypeInv, pc = "process", NEW status \in Status, NEW channel \in {"tls", "plain"},
           answers' = Append(answers, [to |-> data[1].msg, status |-> status, channel |-> channel])
    PROVE  \E a \in AnswerType :
             /\ a.to = data[1].msg /\ a.to \in 0 .. Len(asked) /\ a.status = status /\ a.channel = channel
             /\ answers' = Append(answers, a) /\ answers' # answers /\ answers' # <<>>
             /\ answers' \in Seq(AnswerType) /\ Len(answers') = Len(answers) + 1
             /\ DOMAIN answers' = 1 .. Len(answers) + 1
             /\ \A i \in 1 .. Len(answers) : answers'[i] = answers[i]
             /\ answers'[Len(answers) + 1] = a
<1>1. PICK a : a = [to |-> data[1].msg, status |-> status, channel |-> channel]
  OBVIOUS
<1>2. data[1].msg \in 0 .. Len(asked)
  BY PieceFacts DEF Sent
<1>3. a \in AnswerType /\ a.to = data[1].msg /\ a.status = status /\ a.channel = channel
  BY <1>1, <1>2, TypeFacts DEF AnswerType
<1>4. answers \in Seq(AnswerType) /\ Len(answers) \in Nat /\ answers' = Append(answers, a)
  BY <1>1, AnswerFacts
<1>5. /\ answers' \in Seq(AnswerType) /\ Len(answers') = Len(answers) + 1
      /\ \A i \in 1 .. Len(answers) : answers'[i] = answers[i]
      /\ answers'[Len(answers) + 1] = a
  BY <1>3, <1>4, AppendFacts
<1>6. DOMAIN answers' = 1 .. Len(answers) + 1 /\ answers' # answers /\ answers' # <<>>
  BY <1>4, <1>5, SeqFacts
<1> QED
  BY <1>2, <1>3, <1>4, <1>5, <1>6

\* The client sends one message, in one piece or two.
LEMMA SendStep ==
    ASSUME TypeInv, Send
    PROVE  /\ UNCHANGED <<pc, ssl, data, is_websocket, arenas, answers, calls, setting, seen, gone>>
           /\ ~gone /\ (setting.speaks = "tls" => ssl)
           /\ Idle \/ (setting.pipelines /\ ~AwaitsUpgrade)
           /\ Len(asked) + 1 \in 1 .. MaxMessages /\ Len(asked) < setting.messages
           /\ \E m \in Message :
                /\ IsRequest(m) <=> ~Upgraded
                /\ asked' \in Seq(Message) /\ Len(asked') = Len(asked) + 1
                /\ \A k \in 1 .. Len(asked) : asked'[k] = asked[k]
                /\ asked'[Len(asked) + 1] = m
           /\ \E pieces \in Seq(Piece) :
                /\ Len(pieces) \in {1, 2}
                /\ \A i \in 1 .. Len(pieces) : pieces[i].msg = Len(asked) + 1
                /\ \A i \in 1 .. Len(pieces) : i > 1 => pieces[i].part = "rest"
                /\ ~setting.splits => Len(pieces) = 1 /\ pieces[1].part = "whole"
                /\ stream' \in Seq(Piece) /\ Len(stream') = Len(stream) + Len(pieces)
                /\ \A i \in 1 .. Len(stream) : stream'[i] = stream[i]
                /\ \A i \in 1 .. Len(stream) + Len(pieces) :
                      \/ i \in 1 .. Len(stream)
                      \/ i - Len(stream) \in 1 .. Len(pieces) /\ stream'[i] = pieces[i - Len(stream)]
<1>1. PICK m \in (IF Upgraded THEN Frames ELSE Requests) :
            /\ asked' = Append(asked, m)
            /\ \E pieces \in Pieces(m, Len(asked) + 1) : stream' = stream \o pieces
  BY DEF Send
<1>2. PICK pieces \in Pieces(m, Len(asked) + 1) : stream' = stream \o pieces
  BY <1>1
<1>3. /\ UNCHANGED <<pc, ssl, data, is_websocket, arenas, answers, calls, setting, seen, gone>>
      /\ ~gone /\ (setting.speaks = "tls" => ssl)
      /\ Idle \/ (setting.pipelines /\ ~AwaitsUpgrade)
      /\ Len(asked) + 1 \in 1 .. MaxMessages /\ Len(asked) < setting.messages
  <2>1. /\ UNCHANGED <<pc, ssl, data, is_websocket, arenas, answers, calls, setting, seen, gone>>
        /\ ~gone /\ (setting.speaks = "tls" => ssl)
        /\ Idle \/ (setting.pipelines /\ ~AwaitsUpgrade)
        /\ Len(asked) < setting.messages
    BY DEF Send, MaySend, server
  <2>2. Len(asked) + 1 \in 1 .. MaxMessages
    BY <2>1, TypeFacts
  <2> QED
    BY <2>1, <2>2
<1>4. m \in Message /\ (IsRequest(m) <=> ~Upgraded)
  BY TypeFacts DEF Message
<1>5. /\ asked' \in Seq(Message) /\ Len(asked') = Len(asked) + 1
      /\ \A k \in 1 .. Len(asked) : asked'[k] = asked[k]
      /\ asked'[Len(asked) + 1] = m
  <2>1. asked \in Seq(Message)
    BY TypeFacts
  <2> QED
    BY <1>1, <1>4, <2>1, AppendFacts
<1>6. /\ pieces \in Seq(Piece) /\ Len(pieces) \in {1, 2}
      /\ \A i \in 1 .. Len(pieces) : pieces[i].msg = Len(asked) + 1
      /\ \A i \in 1 .. Len(pieces) : i > 1 => pieces[i].part = "rest"
      /\ ~setting.splits => Len(pieces) = 1 /\ pieces[1].part = "whole"
  BY <1>3, PiecesFacts
<1>7. /\ stream' \in Seq(Piece) /\ Len(stream') = Len(stream) + Len(pieces)
      /\ \A i \in 1 .. Len(stream) : stream'[i] = stream[i]
      /\ \A i \in 1 .. Len(stream) + Len(pieces) :
            \/ i \in 1 .. Len(stream)
            \/ i - Len(stream) \in 1 .. Len(pieces) /\ stream'[i] = pieces[i - Len(stream)]
  <2>1. stream \in Seq(Piece)
    BY PieceFacts
  <2> QED
    BY <1>2, <1>6, <2>1, ConcatFacts
<1> QED
  BY <1>3, <1>4, <1>5, <1>6, <1>7

-----------------------------------------------------------------------------
(* The type                                                                *)

LEMMA InitTypeInv == Init => TypeInv
<1> SUFFICES ASSUME Init PROVE TypeInv
  OBVIOUS
<1>1. Settings \subseteq SettingType /\ setting \in Settings /\ MaxMessages \in Nat
  BY ConnectionAssumption DEF Init
<1>2. [msg |-> 0, part |-> "rest"] \in Piece
  BY <1>1 DEF Piece
<1>3. PiecesOk(data) /\ PiecesOk(stream) /\ Len(stream) \in {0, 1}
  <2>1. \/ stream = <<>>
        \/ stream = <<[msg |-> 0, part |-> "rest"]>>
    BY DEF Init
  <2>2. Len(asked) = 0
    BY DEF Init
  <2> QED
    BY <1>2, <2>1, <2>2 DEF Init, Sent, PiecesOk
<1>4. Len(asked) = 0 /\ setting.messages \in Nat /\ Len(asked) <= setting.messages /\ asked \in Seq(Message)
  BY <1>1 DEF Init, SettingType
<1>5. ArenasOk
  BY <1>3, <1>4 DEF Init, ArenasOk
<1>6. AnswersOk /\ CallsOk
  BY DEF Init, AnswersOk, CallsOk
<1> QED
  BY <1>1, <1>3, <1>4, <1>5, <1>6 DEF Init, TypeInv

LEMMA NextTypeInv ==
    ASSUME TypeInv, ProtocolInv, ChannelInv, [Next]_vars
    PROVE  TypeInv'
<1>1. CASE HandshakeSucceeds \/ HandshakeFails \/ NoHandshake
  <2>1. /\ UNCHANGED <<data, is_websocket, arenas, answers, calls, setting, asked, seen, gone>>
        /\ pc = "accept" /\ pc' = "recv" /\ ssl' \in BOOLEAN
        /\ \/ stream' = <<>>
           \/ stream' = stream
           \/ stream # <<>> /\ stream' = [stream EXCEPT ![1].part = "rest"]
    BY <1>1, HandshakeStep
  <2>2. /\ stream' \in Seq(Piece) /\ Len(stream') \in Nat /\ Len(stream') <= Len(stream)
        /\ \A i \in 1 .. Len(stream') : Sent(stream'[i])
    <3>1. CASE UNCHANGED stream
      BY <3>1, PieceFacts
    <3>2. CASE stream' = <<>>
      BY <3>2, PieceFacts
    <3>3. CASE stream # <<>> /\ stream' = [stream EXCEPT ![1].part = "rest"]
      <4>1. stream[1] \in Piece /\ Sent(stream[1]) /\ 1 \in 1 .. Len(stream)
        BY <3>3, PieceFacts
      <4>2. PICK p : p = [stream[1] EXCEPT !.part = "rest"]
        OBVIOUS
      <4>p. p \in Piece /\ Sent(p)
        BY <4>1, <4>2 DEF Piece, Sent
      <4>3. stream' = [stream EXCEPT ![1] = p]
        BY <3>3, <4>2
      <4>4. stream' \in Seq(Piece) /\ Len(stream') = Len(stream)
        BY <4>1, <4>p, <4>3, PieceFacts
      <4> QED
        BY <4>1, <4>p, <4>3, <4>4, PieceFacts
    <3> QED
      BY <2>1, <3>1, <3>2, <3>3
  <2>3. ArenasOk'
    BY <2>1, <2>2, PieceFacts, TypeFacts DEF TypeInv, ArenasOk
  <2>4. PiecesOk(data)' /\ PiecesOk(stream)'
    BY <2>1, <2>2, PieceFacts DEF PiecesOk, Sent
  <2> QED
    BY <2>1, <2>3, <2>4 DEF TypeInv, AnswersOk, CallsOk
<1>2. CASE Recv
  <2>1. PICK n \in 1 .. Len(stream) :
          /\ data' \in Seq(Piece) /\ Len(data') = n /\ \A i \in 1 .. n : data'[i] = stream[i]
          /\ stream' \in Seq(Piece) /\ Len(stream') = Len(stream) - n
          /\ \A i \in 1 .. Len(stream) - n : stream'[i] = stream[i + n]
    BY <1>2, RecvStep
  <2>2. Len(data') = n /\ Len(stream') = Len(stream) - n /\ data' \in Seq(Piece) /\ stream' \in Seq(Piece)
    BY <2>1
  <2>3. /\ UNCHANGED <<ssl, is_websocket, arenas, answers, calls, setting, asked, seen, gone>>
        /\ data = <<>> /\ pc' = "process" /\ data' # <<>>
    BY <1>2, RecvStep
  <2>4. PiecesOk(data)' /\ PiecesOk(stream)'
    <3> DEFINE k == Len(stream)
    <3>0. k \in Nat /\ n \in 1 .. k /\ \A i \in 1 .. k : Sent(stream[i])
      BY PieceFacts
    <3>1. /\ Len(data') = n /\ Len(stream') = k - n
          /\ \A i \in 1 .. n : data'[i] = stream[i]
          /\ \A i \in 1 .. k - n : stream'[i] = stream[i + n]
      BY <2>1
    <3> HIDE DEF k
    <3>2. ASSUME NEW i \in 1 .. Len(data') PROVE Sent(data'[i])
      <4>1. i \in 1 .. n /\ i \in 1 .. k
        BY <3>0, <3>1
      <4> QED BY <3>0, <3>1, <4>1, Zenon
    <3>3. ASSUME NEW i \in 1 .. Len(stream') PROVE Sent(stream'[i])
      <4>1. i \in 1 .. k - n /\ i + n \in 1 .. k
        BY <3>0, <3>1
      <4> QED BY <3>0, <3>1, <4>1, Zenon
    <3> QED
      BY <2>2, <2>3, <3>2, <3>3 DEF PiecesOk, Sent
  <2>5. ArenasOk'
    BY <2>2, <2>3, PieceFacts, TypeFacts DEF TypeInv, ArenasOk
  <2> QED
    BY <2>3, <2>4, <2>5 DEF TypeInv, AnswersOk, CallsOk
<1>3. CASE RecvEnd
  <2>1. /\ UNCHANGED <<ssl, data, stream, is_websocket, arenas, answers, calls, setting, asked, seen, gone>>
        /\ pc = "recv" /\ pc' = "over"
    BY <1>3 DEF RecvEnd, client
  <2> QED
    BY <2>1 DEF TypeInv, PiecesOk, ArenasOk, AnswersOk, CallsOk, Sent
<1>4. CASE ProcessRequest
  <2>1. PICK req, status : req = Parsed(data) /\ status = Outcome(req, setting.month)
    OBVIOUS
  <2> DEFINE call == [msg |-> data[1].msg, body |-> BodyRead(data)]
  <2>0. PICK new : new = [to |-> data[1].msg, status |-> status, channel |-> IF ssl THEN "tls" ELSE "plain"]
    OBVIOUS
  <2>s. /\ UNCHANGED <<ssl, stream, setting, asked, seen, gone>>
        /\ data # <<>> /\ data' = <<>> /\ pc' \in {"recv", "over"}
        /\ status \in HttpStatus \cup {Silent}
        /\ is_websocket' = (status = "101")
        /\ arenas' = arenas + (IF status = Silent THEN 2 ELSE 0)
        /\ status = Silent => pc' = "recv" /\ answers' = answers
        /\ status # Silent =>
             /\ answers' = Append(answers, [to |-> data[1].msg, status |-> status,
                                            channel |-> IF ssl THEN "tls" ELSE "plain"])
             /\ pc' = IF WantsClose(req) THEN "over" ELSE "recv"
        /\ calls' = IF CallsRoute(req)
                    THEN Append(calls, [msg |-> data[1].msg, body |-> BodyRead(data)])
                    ELSE calls
        /\ data[1] \in Piece /\ Sent(data[1])
    BY <1>4, <2>1, RequestStep
  <2>b. is_websocket' \in BOOLEAN
    BY <2>s, Zenon
  <2>2. /\ UNCHANGED <<ssl, stream, setting, asked, seen, gone>>
        /\ data # <<>> /\ data' = <<>> /\ pc' \in {"recv", "over"}
        /\ status \in HttpStatus \cup {Silent}
        /\ arenas' \in {arenas, arenas + 2}
        /\ answers' = answers \/ (status # Silent /\ answers' = Append(answers, new))
        /\ data[1] \in Piece /\ Sent(data[1])
    <3>1. arenas \in Nat
      BY DEF TypeInv, ArenasOk
    <3>2. arenas' \in {arenas, arenas + 2}
      BY <2>s, <3>1
    <3>3. answers' = answers \/ (status # Silent /\ answers' = Append(answers, new))
      BY <2>s, <2>0
    <3> QED
      BY <2>s, <3>2, <3>3
  <2>c. calls' = IF CallsRoute(req) THEN Append(calls, call) ELSE calls
    BY <2>s
  <2>3. ArenasOk'
    BY <2>2, PieceFacts, TypeFacts DEF TypeInv, ArenasOk
  <2>4. status # Silent => new \in AnswerType /\ new.to <= Len(asked)
    BY <2>0, <2>2, TypeFacts DEF HttpStatus, Status, Piece, AnswerType, Sent
  <2>5. AnswersOk'
    <3>1. CASE answers' = answers
      BY <2>2, <3>1 DEF TypeInv, AnswersOk
    <3>2. CASE status # Silent /\ answers' = Append(answers, new)
      <4>1. /\ answers' \in Seq(AnswerType) /\ Len(answers') = Len(answers) + 1
            /\ \A i \in 1 .. Len(answers) : answers'[i] = answers[i]
            /\ answers'[Len(answers) + 1] = new
        BY <2>4, <3>2, AnswerFacts, AppendFacts
      <4>2. \A i \in 1 .. Len(answers') : answers'[i].to <= Len(asked)
        BY <2>4, <3>2, <4>1, AnswerFacts, TypeFacts
      <4>3. seen' \in 0 .. Len(answers') /\ asked' = asked
        <5>1. seen' = seen /\ asked' = asked
          BY <2>2
        <5>2. seen \in 0 .. Len(answers) /\ Len(answers) \in Nat
          BY AnswerFacts
        <5> QED
          BY <4>1, <5>1, <5>2
      <4> QED
        BY <4>1, <4>2, <4>3 DEF AnswersOk
    <3> QED
      BY <2>2, <3>1, <3>2
  <2>6. CallsRoute(req) => call \in CallType /\ call.msg \in 1 .. Len(asked)
    <3> SUFFICES ASSUME CallsRoute(req) PROVE call \in CallType /\ call.msg \in 1 .. Len(asked)
      OBVIOUS
    <3>1. data[1].part # "rest"
      BY <2>1, <2>2 DEF CallsRoute, Parsed, Garbage
    <3>2. data[1].msg \in 1 .. Len(asked)
      BY <2>2, <3>1, TypeFacts DEF Sent, Piece
    <3>3. \A i \in 1 .. Len(data) : data[i].msg \in Nat
      BY PieceFacts, TypeFacts DEF Piece
    <3>4. BodyRead(data) \in SUBSET Nat
      <4>1. Following(data) \subseteq Nat
        BY <3>3, PieceFacts DEF Following
      <4> QED
        BY <3>2, <4>1, TypeFacts DEF BodyRead
    <3> QED
      BY <3>2, <3>4, TypeFacts DEF CallType
  <2> HIDE DEF call
  <2>7. CallsOk'
    <3>1. CASE CallsRoute(req)
      <4>1. /\ calls' \in Seq(CallType) /\ Len(calls') = Len(calls) + 1
            /\ \A i \in 1 .. Len(calls) : calls'[i] = calls[i]
            /\ calls'[Len(calls) + 1] = call
        <5>1. calls \in Seq(CallType) /\ calls' = Append(calls, call) /\ call \in CallType
          BY <2>c, <2>6, <3>1, AnswerFacts
        <5> QED
          BY <5>1, AppendFacts
      <4>2. \A i \in 1 .. Len(calls') : calls'[i].msg \in 1 .. Len(asked)
        BY <2>6, <3>1, <4>1, AnswerFacts
      <4> QED
        BY <2>2, <4>1, <4>2 DEF CallsOk
    <3> QED
      BY <2>2, <2>c, <3>1 DEF TypeInv, CallsOk
  <2>8. PiecesOk(data)' /\ PiecesOk(stream)'
    <3>1. data' \in Seq(Piece) /\ Len(data') = 0
      BY <2>2
    <3> QED
      BY <2>2, <3>1, PieceFacts DEF PiecesOk, Sent
  <2> QED
    BY <2>2, <2>b, <2>3, <2>5, <2>7, <2>8 DEF TypeInv
<1>5. CASE ProcessFrame
  <2>1. /\ UNCHANGED <<ssl, is_websocket, arenas, stream, calls, setting, asked, seen, gone>>
        /\ data # <<>> /\ data' = <<>> /\ pc' \in {"recv", "over"}
        /\ data[1] \in Piece /\ Sent(data[1])
        /\ \/ answers' = answers
           \/ \E status \in FrameStatus :
                    answers' = Append(answers, [to |-> data[1].msg, status |-> status,
                                                channel |-> Channel(status)])
    BY <1>5, FrameStep
  <2>2. ArenasOk'
    BY <2>1, PieceFacts, TypeFacts DEF TypeInv, ArenasOk
  <2>3. AnswersOk'
    <3>1. CASE answers' = answers
      BY <2>1, <3>1 DEF TypeInv, AnswersOk
    <3>2. ASSUME NEW status \in FrameStatus, NEW new,
                 new = [to |-> data[1].msg, status |-> status, channel |-> Channel(status)],
                 answers' = Append(answers, new)
          PROVE  AnswersOk'
      <4>0. new \in AnswerType /\ new.to <= Len(asked)
        BY <2>1, <3>2, TypeFacts DEF FrameStatus, Status, Piece, Channel, Sent, AnswerType
      <4>1. /\ answers' \in Seq(AnswerType) /\ Len(answers') = Len(answers) + 1
            /\ \A i \in 1 .. Len(answers) : answers'[i] = answers[i]
            /\ answers'[Len(answers) + 1] = new
        BY <4>0, <3>2, AnswerFacts, AppendFacts
      <4>2. \A i \in 1 .. Len(answers') : answers'[i].to <= Len(asked)
        BY <4>0, <3>2, <4>1, AnswerFacts, TypeFacts
      <4> QED
        BY <2>1, <4>1, <4>2, AnswerFacts DEF AnswersOk
    <3> QED
      BY <2>1, <3>1, <3>2
  <2>4. PiecesOk(data)' /\ PiecesOk(stream)'
    <3>1. data' \in Seq(Piece) /\ Len(data') = 0
      BY <2>1
    <3> QED
      BY <2>1, <3>1, PieceFacts DEF PiecesOk, Sent
  <2> QED
    BY <2>1, <2>2, <2>3, <2>4 DEF TypeInv, CallsOk
<1>6. CASE Send
  <2>2. /\ UNCHANGED <<pc, ssl, data, is_websocket, arenas, answers, calls, setting, seen, gone>>
        /\ Len(asked) < setting.messages
    BY <1>6, SendStep
  <2>3. PICK pieces \in Seq(Piece) :
          /\ Len(pieces) \in {1, 2}
          /\ \A i \in 1 .. Len(pieces) : pieces[i].msg = Len(asked) + 1
          /\ stream' \in Seq(Piece) /\ Len(stream') = Len(stream) + Len(pieces)
          /\ \A i \in 1 .. Len(stream) : stream'[i] = stream[i]
          /\ \A i \in 1 .. Len(stream) + Len(pieces) :
                \/ i \in 1 .. Len(stream)
                \/ i - Len(stream) \in 1 .. Len(pieces) /\ stream'[i] = pieces[i - Len(stream)]
    BY <1>6, SendStep
  <2>4. asked' \in Seq(Message) /\ Len(asked') = Len(asked) + 1 /\ Len(asked') <= setting.messages
    BY <1>6, SendStep, TypeFacts
  <2>5. /\ stream' \in Seq(Piece) /\ Len(stream') = Len(stream) + Len(pieces)
        /\ \A i \in 1 .. Len(stream) : stream'[i] = stream[i]
        /\ \A i \in 1 .. Len(stream) + Len(pieces) :
              \/ i \in 1 .. Len(stream)
              \/ i - Len(stream) \in 1 .. Len(pieces) /\ stream'[i] = pieces[i - Len(stream)]
    BY <2>3
  <2>6. PiecesOk(stream)'
    <3>1. \A i \in 1 .. Len(stream') : stream'[i].msg \in 0 .. Len(asked) + 1
                                       /\ (stream'[i].msg = 0 => stream'[i].part = "rest")
      <4> TAKE i \in 1 .. Len(stream')
      <4>1. CASE i \in 1 .. Len(stream)
        BY <2>5, <4>1, PieceFacts, TypeFacts, SMTT(30) DEF Sent
      <4>2. CASE i - Len(stream) \in 1 .. Len(pieces) /\ stream'[i] = pieces[i - Len(stream)]
        BY <2>3, <4>2, TypeFacts, SMTT(30)
      <4> QED
        BY <2>5, <4>1, <4>2
    <3> QED
      BY <2>4, <2>5, <3>1 DEF PiecesOk, Sent
  <2>7. PiecesOk(data)'
    BY <2>2, <2>4, PieceFacts, TypeFacts DEF PiecesOk, Sent
  <2>8. ArenasOk'
    <3>1. data' = data /\ arenas' = arenas /\ Len(asked') = Len(asked) + 1 /\ Len(stream') <= Len(stream) + 2
          /\ Len(stream') \in Nat
      <4>1. Len(stream) \in Nat /\ Len(pieces) \in Nat /\ Len(pieces) <= 2
        <5>1. Len(stream) \in Nat
          BY PieceFacts
        <5>2. Len(pieces) \in {1, 2} /\ \A x \in {1, 2} : x \in Nat /\ x <= 2
          BY <2>3
        <5> QED
          BY <5>1, <5>2, Zenon
      <4> QED
        BY <2>2, <2>4, <2>5, <4>1
    <3> QED
      BY <3>1, PieceFacts, TypeFacts DEF ArenasOk, TypeInv
  <2>9. AnswersOk' /\ CallsOk'
    <3>1. /\ answers' = answers /\ seen' = seen /\ calls' = calls
          /\ Len(asked) \in Nat /\ Len(asked') = Len(asked) + 1
      BY <2>2, <2>4, TypeFacts
    <3>2. \A i \in 1 .. Len(answers) : answers[i].to <= Len(asked')
      BY <3>1, AnswerFacts
    <3>3. \A i \in 1 .. Len(calls) : calls[i].msg \in 1 .. Len(asked')
      BY <3>1, AnswerFacts
    <3> QED
      BY <3>1, <3>2, <3>3, AnswerFacts DEF AnswersOk, CallsOk
  <2> QED
    BY <2>2, <2>4, <2>6, <2>7, <2>8, <2>9 DEF TypeInv
<1>7. CASE Read
  <2>1. /\ UNCHANGED <<pc, ssl, data, is_websocket, arenas, answers, calls, stream, setting, asked, gone>>
        /\ seen < Len(answers) /\ seen' = seen + 1
    BY <1>7 DEF Read, server
  <2>2. seen' \in 0 .. Len(answers')
    BY <2>1, AnswerFacts
  <2> QED
    BY <2>1, <2>2 DEF TypeInv, PiecesOk, ArenasOk, AnswersOk, CallsOk, Sent
<1>8. CASE HangUp
  <2>1. /\ UNCHANGED <<pc, ssl, data, is_websocket, arenas, answers, calls, stream, setting, asked, seen>>
        /\ gone' = TRUE
    BY <1>8 DEF HangUp, server
  <2> QED
    BY <2>1 DEF TypeInv, PiecesOk, ArenasOk, AnswersOk, CallsOk, Sent
<1>9. CASE UNCHANGED vars
  BY <1>9 DEF vars, TypeInv, PiecesOk, ArenasOk, AnswersOk, CallsOk, Sent
<1> QED
  BY <1>1, <1>2, <1>3, <1>4, <1>5, <1>6, <1>7, <1>8, <1>9 DEF Next, Server, Client

-----------------------------------------------------------------------------
(* The protocol                                                            *)

LEMMA InitProtocolInv == Init => ProtocolInv
<1> SUFFICES ASSUME Init PROVE ProtocolInv
  OBVIOUS
<1>1. \A i \in DOMAIN stream : stream[i].part = "rest"
  BY DEF Init
<1> QED
  BY <1>1 DEF Init, ProtocolInv, ProtocolsAgree, BeginsUpgrade

\* A new answer does not take the client's view back.
LEMMA UpgradedStays ==
    ASSUME TypeInv, NEW a, answers' = answers \/ (a \in AnswerType /\ answers' = Append(answers, a)),
           seen' = seen
    PROVE  Upgraded' <=> Upgraded
<1>1. seen \in 0 .. Len(answers) /\ Len(answers) \in Nat /\ answers \in Seq(AnswerType)
  BY AnswerFacts
<1>2. \A i \in 1 .. seen : answers'[i] = answers[i]
  BY <1>1, AppendFacts
<1> QED
  BY <1>2 DEF Upgraded

LEMMA NextProtocolInv ==
    ASSUME TypeInv, ProtocolInv, ChannelInv, [Next]_vars
    PROVE  ProtocolInv'
<1>1. CASE HandshakeSucceeds \/ HandshakeFails \/ NoHandshake
  <2>1. /\ UNCHANGED <<data, is_websocket, arenas, answers, calls, setting, asked, seen, gone>>
        /\ pc = "accept" /\ pc' = "recv"
        /\ \/ stream' = stream
           \/ stream' = [stream EXCEPT ![1].part = "rest"]
           \/ stream' = <<>>
    BY <1>1, HandshakeStep
  <2>2. ~is_websocket
    BY <2>1 DEF ProtocolInv, ChannelInv
  <2>4. ASSUME NEW i \in DOMAIN stream', BeginsUpgrade(stream'[i])
        PROVE  /\ stream'[i].msg = Len(asked)
               /\ \A j \in DOMAIN stream' : j > i => stream'[j].part = "rest"
    <3>1. CASE stream' = stream
      BY <2>2, <2>4, <3>1 DEF ProtocolInv
    <3>2. CASE stream' = [stream EXCEPT ![1].part = "rest"]
      <4>1. DOMAIN stream' = 1 .. Len(stream) /\ Len(stream) \in Nat
        BY <3>2, PieceFacts
      <4>2. i # 1
        BY <2>4, <3>2, <4>1, PieceFacts DEF BeginsUpgrade, Piece
      <4>3. \A j \in 1 .. Len(stream) : j # 1 => stream'[j] = stream[j]
        BY <3>2, <4>1
      <4> QED
        BY <2>2, <2>4, <4>1, <4>2, <4>3, PieceFacts DEF ProtocolInv
    <3>3. CASE stream' = <<>>
      BY <3>3
    <3> QED
      BY <2>1, <3>1, <3>2, <3>3
  <2> QED
    BY <2>1, <2>2, <2>4 DEF ProtocolInv, ProtocolsAgree, BeginsUpgrade, Upgraded, AwaitsUpgrade
<1>2. CASE Recv
  <2>2. PICK n \in 1 .. Len(stream) :
          /\ data' \in Seq(Piece) /\ Len(data') = n /\ \A i \in 1 .. n : data'[i] = stream[i]
          /\ stream' \in Seq(Piece) /\ Len(stream') = Len(stream) - n
          /\ \A i \in 1 .. Len(stream) - n : stream'[i] = stream[i + n]
    BY <1>2, RecvStep
  <2>3. UNCHANGED <<ssl, is_websocket, arenas, answers, calls, setting, asked, seen, gone>>
    BY <1>2, RecvStep
  <2>4. /\ DOMAIN stream = 1 .. Len(stream) /\ Len(stream) \in Nat /\ n \in Nat /\ 1 \in 1 .. Len(stream)
        /\ data'[1] = stream[1] /\ DOMAIN stream' = 1 .. Len(stream) - n
    <3>1. DOMAIN stream = 1 .. Len(stream) /\ Len(stream) \in Nat
      BY PieceFacts
    <3>2. DOMAIN stream' = 1 .. Len(stream')
      BY <2>2, SeqFacts
    <3>3. n \in Nat /\ 1 \in 1 .. Len(stream) /\ 1 \in 1 .. n
      BY <3>1
    <3> QED BY <2>2, <3>1, <3>2, <3>3
  <2>5. data'[1].part # "rest" => (is_websocket <=> ~IsRequest(asked[data'[1].msg]))
    <3>1. CASE is_websocket
      BY <2>4, <3>1 DEF ProtocolInv
    <3>2. CASE ~is_websocket
      <4>1. data'[1].part # "rest" => data'[1].msg \in 1 .. Len(asked)
        BY <2>4, PieceFacts, TypeFacts DEF Sent, Piece
      <4> QED
        BY <3>2, <4>1, TypeFacts DEF ProtocolInv
    <3> QED
      BY <3>1, <3>2
  <2>6. is_websocket => \A i \in DOMAIN stream' : stream'[i].part # "rest" => ~IsRequest(asked[stream'[i].msg])
    <3> SUFFICES ASSUME is_websocket, NEW i \in 1 .. Len(stream) - n, stream'[i].part # "rest"
                 PROVE  ~IsRequest(asked[stream'[i].msg])
      BY <2>4
    <3>1. stream'[i] = stream[i + n] /\ i + n \in 1 .. Len(stream)
      BY <2>2, <2>4
    <3> QED
      BY <2>4, <3>1 DEF ProtocolInv
  <2>7. ~is_websocket /\ BeginsUpgrade(data'[1]) =>
          data'[1].msg = Len(asked) /\ \A j \in DOMAIN stream' : stream'[j].part = "rest"
    <3> SUFFICES ASSUME ~is_websocket, BeginsUpgrade(stream[1])
                 PROVE  stream[1].msg = Len(asked) /\ \A j \in 1 .. Len(stream) - n : stream'[j].part = "rest"
      BY <2>4
    <3>1. stream[1].msg = Len(asked) /\ \A j \in 1 .. Len(stream) : j > 1 => stream[j].part = "rest"
      BY <2>4 DEF ProtocolInv
    <3>2. \A j \in 1 .. Len(stream) - n : j + n \in 1 .. Len(stream) /\ j + n > 1
      BY <2>4
    <3> QED
      BY <2>2, <3>1, <3>2
  <2>8. ~is_websocket => \A i \in DOMAIN stream' : BeginsUpgrade(stream'[i]) =>
           /\ stream'[i].msg = Len(asked)
           /\ \A j \in DOMAIN stream' : j > i => stream'[j].part = "rest"
    <3> SUFFICES ASSUME ~is_websocket, NEW i \in 1 .. Len(stream) - n, BeginsUpgrade(stream'[i])
                 PROVE  /\ stream'[i].msg = Len(asked)
                        /\ \A j \in 1 .. Len(stream) - n : j > i => stream'[j].part = "rest"
      BY <2>4
    <3>1. stream'[i] = stream[i + n] /\ i + n \in 1 .. Len(stream)
      BY <2>2, <2>4
    <3>2. /\ stream[i + n].msg = Len(asked)
          /\ \A j \in 1 .. Len(stream) : j > i + n => stream[j].part = "rest"
      BY <2>4, <3>1 DEF ProtocolInv
    <3>3. \A j \in 1 .. Len(stream) - n : j > i => j + n \in 1 .. Len(stream) /\ j + n > i + n
      BY <2>4
    <3>4. \A j \in 1 .. Len(stream) - n : stream'[j] = stream[j + n]
      BY <2>2, <2>4
    <3>5. ASSUME NEW j \in 1 .. Len(stream) - n, j > i
          PROVE  stream'[j].part = "rest"
      <4>1. j + n \in 1 .. Len(stream) /\ j + n > i + n
        BY <3>3, <3>5
      <4>2. stream[j + n].part = "rest"
        BY <3>2, <4>1
      <4> QED BY <3>4, <4>2
    <3> QED
      BY <3>1, <3>2, <3>5
  <2> QED
    BY <2>3, <2>5, <2>6, <2>7, <2>8 DEF ProtocolInv, ProtocolsAgree, BeginsUpgrade, Upgraded, AwaitsUpgrade
<1>3. CASE RecvEnd
  <2>1. /\ UNCHANGED <<ssl, data, stream, is_websocket, arenas, answers, calls, setting, asked, seen, gone>>
        /\ pc = "recv" /\ pc' = "over"
    BY <1>3 DEF RecvEnd, client
  <2> QED
    BY <2>1 DEF ProtocolInv, ProtocolsAgree, BeginsUpgrade, Upgraded, AwaitsUpgrade
<1>4. CASE ProcessRequest
  <2>1. PICK req, status : req = Parsed(data) /\ status = Outcome(req, setting.month)
    OBVIOUS
  <2>0. PICK new : new = [to |-> data[1].msg, status |-> status, channel |-> IF ssl THEN "tls" ELSE "plain"]
    OBVIOUS
  <2>2. /\ UNCHANGED <<ssl, stream, setting, asked, seen, gone>>
        /\ pc = "process" /\ data' = <<>> /\ pc' \in {"recv", "over"}
        /\ ~is_websocket /\ \A k \in DOMAIN asked : IsRequest(asked[k])
        /\ data[1] \in Piece /\ Sent(data[1])
        /\ status \in HttpStatus \cup {Silent}
        /\ (status = "101" => req.upgrade)
    BY <1>4, <2>1, RequestStep
  <2>3. /\ is_websocket' <=> status = "101"
        /\ answers' = IF status = Silent THEN answers ELSE Append(answers, new)
    <3>1. is_websocket' = (status = "101")
      BY <1>4, <2>1, RequestStep
    <3>2. /\ status = Silent => answers' = answers
          /\ status # Silent =>
               answers' = Append(answers, [to |-> data[1].msg, status |-> status,
                                           channel |-> IF ssl THEN "tls" ELSE "plain"])
      BY <1>4, <2>1, RequestStep
    <3> QED
      BY <2>0, <3>1, <3>2
  <2>4. status # Silent => new \in AnswerType /\ new.status = status
    BY <2>0, <2>2, TypeFacts DEF HttpStatus, Status, Piece, AnswerType, Sent
  <2>5. is_websocket' <=> \E i \in DOMAIN answers' : answers'[i].status = "101"
    <3>1. \A i \in 1 .. Len(answers) : answers[i].status # "101"
      BY <2>2, AnswerFacts DEF ProtocolInv
    <3>2. CASE status = Silent
      BY <2>3, <3>1, <3>2, AnswerFacts DEF Silent
    <3>3. CASE status # Silent
      <4>1. /\ Len(answers) \in Nat /\ DOMAIN answers' = 1 .. Len(answers) + 1
            /\ \A i \in 1 .. Len(answers) : answers'[i] = answers[i]
            /\ answers'[Len(answers) + 1].status = status
        BY <2>3, <2>4, <3>3, AnswerFacts, AppendFacts, SeqFacts
      <4> QED
        BY <2>3, <3>1, <4>1
    <3> QED
      BY <3>2, <3>3
  <2>6. Upgraded' <=> Upgraded
    BY <2>2, <2>3, <2>4, UpgradedStays
  <2>7. status = "101" => /\ BeginsUpgrade(data[1]) /\ data[1].msg = Len(asked)
                          /\ \A j \in DOMAIN stream : stream[j].part = "rest"
                          /\ data[1].msg \in 1 .. Len(asked)
    <3> SUFFICES ASSUME status = "101"
                 PROVE  /\ BeginsUpgrade(data[1]) /\ data[1].msg = Len(asked)
                        /\ \A j \in DOMAIN stream : stream[j].part = "rest"
                        /\ data[1].msg \in 1 .. Len(asked)
      OBVIOUS
    <3>1. data[1].part # "rest"
      BY <2>1, <2>2 DEF Parsed, Garbage
    <3>2. data[1].msg \in 1 .. Len(asked)
      BY <2>2, <3>1, TypeFacts DEF Sent, Piece
    <3>3. asked[data[1].msg].upgrade /\ IsRequest(asked[data[1].msg])
      BY <2>1, <2>2, <3>1, <3>2, ParsedFacts, TypeFacts
    <3> QED
      BY <2>2, <3>1, <3>2, <3>3 DEF BeginsUpgrade, ProtocolInv
  <2>8. is_websocket' => AwaitsUpgrade' \/ Upgraded'
    <3> SUFFICES ASSUME status = "101", ~Upgraded PROVE AwaitsUpgrade'
      BY <2>3, <2>6
    <3>1. asked # <<>> /\ Last(asked) = asked[data[1].msg]
      BY <2>7, TypeFacts, SeqFacts DEF Last
    <3> QED
      BY <2>2, <2>6, <2>7, <3>1 DEF AwaitsUpgrade, BeginsUpgrade
  <2> QED
    BY <2>2, <2>3, <2>5, <2>7, <2>8 DEF ProtocolInv, ProtocolsAgree, BeginsUpgrade
<1>5. CASE ProcessFrame
  <2>1. /\ UNCHANGED <<ssl, is_websocket, arenas, stream, calls, setting, asked, seen, gone>>
        /\ data' = <<>> /\ pc' \in {"recv", "over"}
        /\ is_websocket
        /\ data[1] \in Piece /\ Sent(data[1])
        /\ \/ answers' = answers
           \/ \E status \in FrameStatus :
                    answers' = Append(answers, [to |-> data[1].msg, status |-> status,
                                                channel |-> Channel(status)])
    BY <1>5, FrameStep
  <2>2. PICK new \in AnswerType \cup {Silent} : answers' = answers \/ (new \in AnswerType /\ answers' = Append(answers, new))
    <3>1. CASE answers' = answers
      BY <3>1
    <3>2. ASSUME NEW status \in FrameStatus, NEW a,
                 a = [to |-> data[1].msg, status |-> status, channel |-> Channel(status)],
                 answers' = Append(answers, a)
          PROVE  a \in AnswerType
      BY <2>1, <3>2, TypeFacts DEF FrameStatus, Status, Piece, Channel, Sent, AnswerType
    <3> QED
      BY <2>1, <3>1, <3>2
  <2>3. Upgraded' <=> Upgraded
    BY <2>1, <2>2, UpgradedStays
  <2>4. \E i \in DOMAIN answers' : answers'[i].status = "101"
    <3>1. PICK i \in 1 .. Len(answers) : answers[i].status = "101"
      BY <2>1, AnswerFacts DEF ProtocolInv
    <3>2. i \in DOMAIN answers' /\ answers'[i] = answers[i]
      <4>1. CASE answers' = answers
        BY <4>1, AnswerFacts
      <4>2. CASE new \in AnswerType /\ answers' = Append(answers, new)
        <5>1. answers \in Seq(AnswerType) /\ Len(answers) \in Nat
          BY AnswerFacts
        <5> QED
          BY <4>2, <5>1, AppendFacts, SeqFacts
      <4> QED
        BY <2>2, <4>1, <4>2
    <3> QED
      BY <3>1, <3>2
  <2> QED
    BY <2>1, <2>3, <2>4 DEF ProtocolInv, ProtocolsAgree, BeginsUpgrade, AwaitsUpgrade
<1>6. CASE Send
  <2>2. /\ UNCHANGED <<pc, ssl, data, is_websocket, arenas, answers, calls, setting, seen, gone>>
        /\ (Idle \/ ~AwaitsUpgrade)
    BY <1>6, SendStep
  <2>4. PICK m \in Message :
          /\ IsRequest(m) <=> ~Upgraded
          /\ asked' \in Seq(Message) /\ Len(asked') = Len(asked) + 1
          /\ \A k \in 1 .. Len(asked) : asked'[k] = asked[k]
          /\ asked'[Len(asked) + 1] = m
    BY <1>6, SendStep
  <2>3. PICK pieces \in Seq(Piece) :
          /\ Len(pieces) \in {1, 2}
          /\ \A i \in 1 .. Len(pieces) : pieces[i].msg = Len(asked) + 1
          /\ \A i \in 1 .. Len(pieces) : i > 1 => pieces[i].part = "rest"
          /\ stream' \in Seq(Piece) /\ Len(stream') = Len(stream) + Len(pieces)
          /\ \A i \in 1 .. Len(stream) : stream'[i] = stream[i]
          /\ \A i \in 1 .. Len(stream) + Len(pieces) :
                \/ i \in 1 .. Len(stream)
                \/ i - Len(stream) \in 1 .. Len(pieces) /\ stream'[i] = pieces[i - Len(stream)]
    BY <1>6, SendStep
  <2>5. /\ Len(asked') = Len(asked) + 1 /\ \A k \in 1 .. Len(asked) : asked'[k] = asked[k]
        /\ asked'[Len(asked) + 1] = m /\ DOMAIN asked' = 1 .. Len(asked) + 1 /\ Len(asked) \in Nat
    BY <2>4, TypeFacts, SeqFacts
  <2>6. /\ DOMAIN stream' = 1 .. Len(stream) + Len(pieces) /\ Len(stream) \in Nat
        /\ \A i \in 1 .. Len(stream) : stream'[i] = stream[i]
        /\ \A i \in 1 .. Len(stream) + Len(pieces) :
              \/ i \in 1 .. Len(stream)
              \/ i - Len(stream) \in 1 .. Len(pieces) /\ stream'[i] = pieces[i - Len(stream)]
    BY <2>3, PieceFacts, SeqFacts
  <2>7. Upgraded => is_websocket
    BY AnswerFacts DEF ProtocolInv, Upgraded
  <2>8. is_websocket => Upgraded
    <3>1. CASE Idle
      BY <3>1, AnswerFacts DEF Idle, Upgraded, ProtocolInv
    <3>2. CASE ~AwaitsUpgrade
      BY <3>2 DEF ProtocolInv
    <3> QED
      BY <2>2, <3>1, <3>2
  <2>9. /\ \A i \in 1 .. Len(stream) : stream[i].part # "rest" => asked'[stream[i].msg] = asked[stream[i].msg]
        /\ pc = "process" /\ data[1].part # "rest" => asked'[data[1].msg] = asked[data[1].msg]
    <3>0. ASSUME NEW p \in Piece, Sent(p), p.part # "rest" PROVE p.msg \in 1 .. Len(asked)
      BY <2>5, <3>0 DEF Sent, Piece
    <3>1. \A i \in 1 .. Len(stream) : stream[i].part # "rest" => stream[i].msg \in 1 .. Len(asked)
      BY PieceFacts, <3>0
    <3>2. pc = "process" /\ data[1].part # "rest" => data[1].msg \in 1 .. Len(asked)
      BY PieceFacts, <3>0
    <3> QED
      BY <2>5, <3>1, <3>2
  <2>10. ~is_websocket => \A k \in DOMAIN asked' : IsRequest(asked'[k])
    BY <2>4, <2>5, <2>7, <2>8, TypeFacts DEF ProtocolInv
  <2>11. pc = "process" /\ data[1].part # "rest" => (is_websocket <=> ~IsRequest(asked'[data[1].msg]))
    BY <2>9 DEF ProtocolInv, ProtocolsAgree
  <2>12. is_websocket => \A i \in DOMAIN stream' : stream'[i].part # "rest" => ~IsRequest(asked'[stream'[i].msg])
    <3> SUFFICES ASSUME is_websocket, NEW i \in 1 .. Len(stream) + Len(pieces), stream'[i].part # "rest"
                 PROVE  ~IsRequest(asked'[stream'[i].msg])
      BY <2>6
    <3>1. CASE i \in 1 .. Len(stream)
      <4>1. stream'[i] = stream[i] /\ i \in DOMAIN stream
        BY <2>6, <3>1, PieceFacts
      <4>2. asked'[stream[i].msg] = asked[stream[i].msg]
        BY <2>9, <3>1, <4>1
      <4> QED
        BY <4>1, <4>2 DEF ProtocolInv
    <3>2. CASE i - Len(stream) \in 1 .. Len(pieces) /\ stream'[i] = pieces[i - Len(stream)]
      BY <2>3, <2>4, <2>5, <2>8, <3>2, SMTT(60)
    <3> QED
      BY <2>6, <3>1, <3>2
  \* No upgrade is pending: the client takes turns, or has sent something else last.
  <2>13. /\ ~is_websocket => \A i \in 1 .. Len(stream) : ~BeginsUpgrade(stream[i])
         /\ ~is_websocket /\ pc = "process" => ~BeginsUpgrade(data[1])
    <3> SUFFICES ASSUME ~is_websocket, NEW p, BeginsUpgrade(p), p.msg = Len(asked), Sent(p), p \in Piece,
                        ~Idle
                 PROVE  FALSE
      BY PieceFacts DEF ProtocolInv, Idle, TypeInv
    <3>1. p.msg \in 1 .. Len(asked)
      BY TypeFacts DEF Sent, BeginsUpgrade, Piece
    <3>2. asked # <<>> /\ Last(asked) = asked[p.msg]
      BY <3>1, TypeFacts, SeqFacts DEF Last
    <3> QED
      BY <2>2, <2>7, <3>2 DEF AwaitsUpgrade, BeginsUpgrade
  <2>14. ~is_websocket /\ pc = "process" => ~BeginsUpgrade(data[1])'
    BY <2>2, <2>9, <2>13 DEF BeginsUpgrade
  <2>15. ~is_websocket => \A i \in DOMAIN stream' : BeginsUpgrade(stream[i])' =>
           /\ stream'[i].msg = Len(asked')
           /\ \A j \in DOMAIN stream' : j > i => stream'[j].part = "rest"
    <3> SUFFICES ASSUME ~is_websocket, NEW i \in 1 .. Len(stream) + Len(pieces), BeginsUpgrade(stream[i])'
                 PROVE  /\ stream'[i].msg = Len(asked')
                        /\ \A j \in 1 .. Len(stream) + Len(pieces) : j > i => stream'[j].part = "rest"
      BY <2>6
    <3>1. ~(i \in 1 .. Len(stream))
      BY <2>6, <2>9, <2>13 DEF BeginsUpgrade
    <3>2. i - Len(stream) \in 1 .. Len(pieces) /\ stream'[i] = pieces[i - Len(stream)]
      BY <2>6, <3>1
    <3>3. stream'[i].msg = Len(asked')
      BY <2>3, <2>5, <3>2
    <3>4. ASSUME NEW j \in 1 .. Len(stream) + Len(pieces), j > i PROVE stream'[j].part = "rest"
      <4>1. j - Len(stream) \in 1 .. Len(pieces) /\ stream'[j] = pieces[j - Len(stream)] /\ j - Len(stream) > 1
        BY <2>3, <2>6, <3>2, <3>4
      <4> QED
        BY <2>3, <4>1
    <3> QED
      BY <3>3, <3>4
  <2>16. Upgraded' <=> Upgraded
    BY <2>2 DEF Upgraded
  <2> QED
    BY <2>2, <2>8, <2>10, <2>11, <2>12, <2>14, <2>15, <2>16 DEF ProtocolInv, ProtocolsAgree
<1>7. CASE Read
  <2>1. /\ UNCHANGED <<pc, ssl, data, is_websocket, arenas, answers, calls, stream, setting, asked, gone>>
        /\ seen' = seen + 1 /\ seen \in Nat
    BY <1>7, AnswerFacts DEF Read, server
  <2>2. Upgraded => Upgraded'
    BY <2>1 DEF Upgraded
  <2> QED
    BY <2>1, <2>2 DEF ProtocolInv, ProtocolsAgree, BeginsUpgrade, AwaitsUpgrade
<1>8. CASE HangUp
  <2>1. UNCHANGED <<pc, ssl, data, is_websocket, arenas, answers, calls, stream, setting, asked, seen>>
    BY <1>8 DEF HangUp, server
  <2> QED
    BY <2>1 DEF ProtocolInv, ProtocolsAgree, BeginsUpgrade, Upgraded, AwaitsUpgrade
<1>9. CASE UNCHANGED vars
  BY <1>9 DEF vars, ProtocolInv, ProtocolsAgree, BeginsUpgrade, Upgraded, AwaitsUpgrade
<1> QED
  BY <1>1, <1>2, <1>3, <1>4, <1>5, <1>6, <1>7, <1>8, <1>9 DEF Next, Server, Client

-----------------------------------------------------------------------------
(* The channel and the parts of messages                                   *)

LEMMA NextChannelInv ==
    ASSUME TypeInv, ProtocolInv, ChannelInv, [Next]_vars
    PROVE  ChannelInv'
<1>0. setting.speaks \in {"tls", "plain"} /\ setting.secure \in BOOLEAN /\ ssl \in BOOLEAN
  BY TypeFacts DEF SettingType, TypeInv
<1>1. CASE HandshakeSucceeds \/ HandshakeFails \/ NoHandshake
  <2>1. /\ UNCHANGED <<data, answers, setting, gone>> /\ pc = "accept" /\ pc' = "recv" /\ data = <<>>
        /\ \/ ssl' = TRUE /\ setting.secure /\ setting.speaks = "tls" /\ stream' = <<>>
           \/ ssl' = FALSE /\ setting.secure /\ setting.speaks = "tls" /\ stream' = <<>> /\ gone
           \/ ssl' = FALSE /\ setting.secure /\ setting.speaks = "plain"
           \/ ssl' = FALSE /\ (setting.secure => setting.speaks = "plain")
    BY <1>1, HandshakeStep
  <2>2. answers = <<>>
    BY <2>1 DEF ChannelInv
  <2>3. \A i \in DOMAIN answers' : FALSE
    BY <2>1, <2>2
  <2> QED
    BY <1>0, <2>1, <2>3 DEF ChannelInv, AnswersKeepTls
<1>2. CASE Recv
  <2>1. UNCHANGED <<ssl, answers, setting, gone>> /\ pc = "recv" /\ pc' = "process"
    BY <1>2, RecvStep
  <2>2. stream # <<>>
    BY <1>2 DEF Recv
  <2> QED
    BY <2>1, <2>2 DEF ChannelInv, AnswersKeepTls
<1>3. CASE RecvEnd
  BY <1>3 DEF RecvEnd, client, ChannelInv, AnswersKeepTls
<1>4. CASE ProcessRequest \/ ProcessFrame
  <2>0. PICK status \in Status :
            \/ answers' = answers
            \/ answers' = Append(answers, [to |-> data[1].msg, status |-> status, channel |-> Channel(status)])
    <3>1. CASE ProcessRequest
      <4>1. PICK req, status : req = Parsed(data) /\ status = Outcome(req, setting.month)
        OBVIOUS
      <4>2. /\ status \in HttpStatus \cup {Silent}
            /\ status = Silent => answers' = answers
            /\ status # Silent =>
                 answers' = Append(answers, [to |-> data[1].msg, status |-> status,
                                             channel |-> IF ssl THEN "tls" ELSE "plain"])
        BY <3>1, <4>1, RequestStep
      <4>3. status \in HttpStatus => status \in Status /\ Channel(status) = IF ssl THEN "tls" ELSE "plain"
        BY DEF Channel, HttpStatus, Status
      <4>4. CASE status = Silent
        BY <4>2, <4>4 DEF Status
      <4>5. CASE status # Silent
        BY <4>2, <4>3, <4>5
      <4> QED
        BY <4>4, <4>5
    <3>2. CASE ProcessFrame
      <4>1. \/ answers' = answers
            \/ \E status \in FrameStatus :
                  answers' = Append(answers, [to |-> data[1].msg, status |-> status,
                                              channel |-> Channel(status)])
        BY <3>2, FrameStep
      <4> QED
        BY <4>1 DEF FrameStatus, Status
    <3> QED
      BY <1>4, <3>1, <3>2
  <2>1. PICK a : a = [to |-> data[1].msg, status |-> status, channel |-> Channel(status)]
    OBVIOUS
  <2>2. /\ UNCHANGED <<ssl, setting>> /\ data # <<>> /\ pc = "process" /\ pc' # "accept"
    <3>1. CASE ProcessRequest
      BY <3>1 DEF ProcessRequest, client, TypeInv, Answer
    <3>2. CASE ProcessFrame
      BY <3>2, FrameStep
    <3> QED
      BY <1>4, <3>1, <3>2
  <2>3. ssl <=> setting.secure /\ setting.speaks = "tls"
    BY <2>2 DEF ChannelInv
  <2>4. status \notin {"pong", "closed", "refused"} =>
            a.channel = IF setting.secure THEN setting.speaks ELSE "plain"
    <3>1. a.channel = Channel(status) /\ a.status = status
      BY <2>1
    <3>2. status \notin {"pong", "closed", "refused"} => Channel(status) = IF ssl THEN "tls" ELSE "plain"
      BY DEF Channel
    <3>3. (IF ssl THEN "tls" ELSE "plain") = IF setting.secure THEN setting.speaks ELSE "plain"
      BY <1>0, <2>3
    <3> QED
      BY <3>1, <3>2, <3>3
  <2>5. \A i \in 1 .. Len(answers) : answers[i].status \notin {"pong", "closed", "refused"} =>
            answers[i].channel = IF setting.secure THEN setting.speaks ELSE "plain"
    BY AnswerFacts DEF ChannelInv, AnswersKeepTls
  <2>6. AnswersKeepTls'
    <3>1. CASE answers' = answers
      BY <2>2, <3>1 DEF ChannelInv, AnswersKeepTls
    <3>2. CASE answers' = Append(answers, a)
      <4>1. a.status = status
        BY <2>1
      <4>2. /\ Len(answers) \in Nat /\ DOMAIN answers' = 1 .. Len(answers) + 1
            /\ \A i \in 1 .. Len(answers) : answers'[i] = answers[i]
            /\ answers'[Len(answers) + 1] = a
        BY <3>2, AnswerFacts
      <4> QED
        BY <2>2, <2>4, <2>5, <4>1, <4>2 DEF AnswersKeepTls
    <3> QED
      BY <2>0, <2>1, <3>1, <3>2
  <2> QED
    BY <2>2, <2>3, <2>6 DEF ChannelInv
<1>5. CASE Send
  <2>1. /\ UNCHANGED <<pc, ssl, data, answers, setting, gone>> /\ ~gone
        /\ setting.speaks = "tls" => ssl
    BY <1>5, SendStep
  <2> QED
    BY <2>1 DEF ChannelInv, AnswersKeepTls
<1>6. CASE Read \/ HangUp
  BY <1>6 DEF Read, HangUp, server, ChannelInv, AnswersKeepTls
<1>7. CASE UNCHANGED vars
  BY <1>7 DEF vars, ChannelInv, AnswersKeepTls
<1> QED
  BY <1>1, <1>2, <1>3, <1>4, <1>5, <1>6, <1>7 DEF Next, Server, Client

\* A piece of a message that is not cut
Uncut(p) == /\ p.part \in {"whole", "rest"}
            /\ ~setting.secure /\ p.part = "rest" => p.msg = 0

LEMMA WholeIsUncut ==
    ASSUME TypeInv
    PROVE  WholeInv <=> (~setting.splits => /\ \A i \in 1 .. Len(data) : Uncut(data[i])
                                            /\ \A i \in 1 .. Len(stream) : Uncut(stream[i]))
BY PieceFacts DEF WholeInv, Uncut

LEMMA NextWholeInv ==
    ASSUME TypeInv, TypeInv', ChannelInv, WholeInv, [Next]_vars
    PROVE  WholeInv'
<1>0. ~setting.splits => /\ \A i \in 1 .. Len(data) : Uncut(data[i])
                         /\ \A i \in 1 .. Len(stream) : Uncut(stream[i])
  BY WholeIsUncut
<1> SUFFICES /\ setting' = setting
             /\ ~setting.splits => /\ \A i \in 1 .. Len(data') : Uncut(data'[i])
                                   /\ \A i \in 1 .. Len(stream') : Uncut(stream'[i])
  <2>1. WholeInv' <=> (~setting.splits => /\ \A i \in 1 .. Len(data) : Uncut(data[i])
                                          /\ \A i \in 1 .. Len(stream) : Uncut(stream[i]))'
    BY WholeIsUncut, PTL
  <2> QED
    BY <2>1 DEF Uncut
<1>1. CASE HandshakeSucceeds \/ HandshakeFails \/ NoHandshake
  <2>1. /\ UNCHANGED <<data, setting>>
        /\ \/ stream' = <<>>
           \/ setting.secure /\ stream # <<>> /\ stream' = [stream EXCEPT ![1].part = "rest"]
           \/ stream' = stream
    BY <1>1, HandshakeStep
  <2>2. CASE setting.secure /\ stream # <<>> /\ stream' = [stream EXCEPT ![1].part = "rest"]
    <3>1. Len(stream') = Len(stream) /\ \A i \in 2 .. Len(stream) : stream'[i] = stream[i]
      BY <2>2, PieceFacts
    <3>2. stream'[1].part = "rest"
      BY <2>2, PieceFacts DEF Piece
    <3> QED
      BY <1>0, <2>1, <2>2, <3>1, <3>2, PieceFacts DEF Uncut
  <2>3. CASE stream' = <<>>
    BY <1>0, <2>1, <2>3
  <2> QED
    BY <1>0, <2>1, <2>2, <2>3
<1>2. CASE Recv
  <2>1. PICK n \in 1 .. Len(stream) :
          /\ Len(data') = n /\ \A i \in 1 .. n : data'[i] = stream[i]
          /\ Len(stream') = Len(stream) - n
          /\ \A i \in 1 .. Len(stream) - n : stream'[i] = stream[i + n]
    BY <1>2, RecvStep
  <2>2. setting' = setting
    BY <1>2, RecvStep
  <2>3. /\ Len(stream) \in Nat
        /\ \A i \in 1 .. Len(stream) - n : i + n \in 1 .. Len(stream)
        /\ \A i \in 1 .. n : i \in 1 .. Len(stream)
    BY PieceFacts
  <2>4. ~setting.splits => \A i \in 1 .. n : Uncut(data'[i])
    BY <1>0, <2>1, <2>3
  <2>5. ~setting.splits => \A i \in 1 .. Len(stream) - n : Uncut(stream'[i])
    BY <1>0, <2>1, <2>3
  <2> QED
    BY <2>1, <2>2, <2>4, <2>5
<1>3. CASE ProcessRequest \/ ProcessFrame
  <2>1. UNCHANGED <<stream, setting>> /\ data' = <<>>
    BY <1>3 DEF ProcessRequest, ProcessFrame, client
  <2> QED
    BY <1>0, <2>1
<1>4. CASE Send
  <2>1. UNCHANGED <<data, setting>>
    BY <1>4, SendStep
  <2>2. PICK pieces \in Seq(Piece) :
          /\ ~setting.splits => Len(pieces) = 1 /\ pieces[1].part = "whole"
          /\ Len(stream') = Len(stream) + Len(pieces)
          /\ \A i \in 1 .. Len(stream) : stream'[i] = stream[i]
          /\ \A i \in 1 .. Len(stream) + Len(pieces) :
                \/ i \in 1 .. Len(stream)
                \/ i - Len(stream) \in 1 .. Len(pieces) /\ stream'[i] = pieces[i - Len(stream)]
    BY <1>4, SendStep
  <2>3. ~setting.splits => \A i \in 1 .. Len(stream') : Uncut(stream'[i])
    <3> SUFFICES ASSUME ~setting.splits, NEW i \in 1 .. Len(stream) + Len(pieces) PROVE Uncut(stream'[i])
      BY <2>2
    <3>1. CASE i \in 1 .. Len(stream)
      BY <1>0, <2>2, <3>1
    <3>2. CASE i - Len(stream) \in 1 .. Len(pieces) /\ stream'[i] = pieces[i - Len(stream)]
      <4>1. i - Len(stream) = 1
        BY <2>2, <3>2, PieceFacts
      <4> QED
        BY <2>2, <3>2, <4>1 DEF Uncut
    <3> QED
      BY <2>2, <3>1, <3>2
  <2> QED
    BY <1>0, <2>1, <2>3
<1>5. CASE RecvEnd \/ Read \/ HangUp \/ UNCHANGED vars
  <2>1. UNCHANGED <<data, stream, setting>>
    BY <1>5 DEF RecvEnd, Read, HangUp, server, client, vars
  <2> QED
    BY <1>0, <2>1
<1> QED
  BY <1>1, <1>2, <1>3, <1>4, <1>5 DEF Next, Server, Client

-----------------------------------------------------------------------------
(* The end of a connection                                                 *)

\* Messages that are sent do not change what was asked before.
LEMMA AsksEndStays ==
    ASSUME TypeInv, Send, NEW n \in 0 .. Len(asked)
    PROVE  AsksEnd(n)' <=> AsksEnd(n)
<1>1. n # 0 => asked'[n] = asked[n]
  BY SendStep, TypeFacts
<1> QED
  BY <1>1 DEF AsksEnd

LEMMA NextEndsAsAsked ==
    ASSUME TypeInv, ProtocolInv, ChannelInv, WholeInv, EndsAsAsked, [Next]_vars
    PROVE  EndsAsAsked'
<1>0. /\ Len(answers) \in Nat /\ DOMAIN answers = 1 .. Len(answers)
      /\ \A i \in 1 .. Len(answers) : answers[i].to \in 0 .. Len(asked)
  BY AnswerFacts
<1>1. CASE HandshakeSucceeds \/ HandshakeFails \/ NoHandshake
  <2>1. UNCHANGED <<answers, setting, asked, gone>> /\ pc = "accept" /\ pc' = "recv"
    BY <1>1, HandshakeStep
  <2>2. answers = <<>>
    BY <2>1 DEF ChannelInv
  <2> QED
    BY <2>1, <2>2 DEF EndsAsAsked
<1>2. CASE Recv
  <2>1. UNCHANGED <<answers, setting, asked, gone>> /\ pc = "recv" /\ pc' = "process"
    BY <1>2, RecvStep
  <2> QED
    BY <2>1 DEF EndsAsAsked, AsksEnd
<1>3. CASE RecvEnd
  <2>1. UNCHANGED <<answers, setting, asked, gone>> /\ pc = "recv" /\ pc' = "over" /\ gone
    BY <1>3 DEF RecvEnd, client
  <2> QED
    BY <2>1 DEF EndsAsAsked, AsksEnd
\* The server takes up a message: it ends the connection exactly if that was asked.
<1>4. ASSUME NEW a, a.to = data[1].msg, pc = "process",
             UNCHANGED <<setting, asked, gone>>, pc' \in {"recv", "over"},
             \/ answers' = answers
             \/ /\ answers' # <<>> /\ answers' # answers /\ Len(answers') = Len(answers) + 1
                /\ DOMAIN answers' = 1 .. Len(answers) + 1
                /\ \A i \in 1 .. Len(answers) : answers'[i] = answers[i]
                /\ answers'[Len(answers) + 1] = a,
             pc' = "over" => answers' # answers /\ (~setting.secure => AsksEnd(data[1].msg)),
             ~setting.secure /\ ~setting.splits /\ AsksEnd(data[1].msg) /\ answers' # answers => pc' = "over"
      PROVE  EndsAsAsked'
  <2> SUFFICES ASSUME ~setting.secure
               PROVE  /\ ~setting.splits => \A i \in DOMAIN answers' :
                            AsksEnd(answers'[i].to) => i = Len(answers') /\ pc' = "over"
                      /\ pc' = "over" /\ ~gone => answers' # <<>> /\ AsksEnd(Last(answers').to)
    BY <1>4 DEF EndsAsAsked, AsksEnd
  <2>1. ~setting.splits => \A i \in DOMAIN answers : ~AsksEnd(answers[i].to)
    BY <1>4 DEF EndsAsAsked
  <2>2. CASE answers' = answers
    BY <1>4, <2>1, <2>2
  <2>3. CASE answers' # answers
    <3>1. /\ DOMAIN answers' = 1 .. Len(answers) + 1 /\ Len(answers') = Len(answers) + 1
          /\ \A i \in 1 .. Len(answers) : answers'[i] = answers[i]
          /\ answers'[Len(answers) + 1] = a /\ answers' # <<>>
      BY <1>4, <2>3
    <3>2. Last(answers') = a
      BY <3>1 DEF Last
    <3>3. ~setting.splits => \A i \in 1 .. Len(answers) : ~AsksEnd(answers'[i].to)
      BY <1>0, <2>1, <3>1
    <3>4. ~setting.splits /\ AsksEnd(a.to) => pc' = "over"
      BY <1>4, <2>3
    <3>5. \A i \in DOMAIN answers' : i \in 1 .. Len(answers) \/ i = Len(answers) + 1
      BY <1>0, <3>1
    <3>6. pc' = "over" => AsksEnd(a.to)
      BY <1>4
    <3> QED
      BY <3>1, <3>2, <3>3, <3>4, <3>5, <3>6
  <2> QED
    BY <2>2, <2>3
<1>5. CASE ProcessRequest
  <2>1. PICK req, status : req = Parsed(data) /\ status = Outcome(req, setting.month)
    OBVIOUS
  <2>3. /\ UNCHANGED <<ssl, stream, setting, asked, seen, gone>>
        /\ pc = "process" /\ ~is_websocket /\ \A k \in DOMAIN asked : IsRequest(asked[k])
        /\ data[1] \in Piece /\ Sent(data[1])
        /\ status \in HttpStatus \cup {Silent}
    BY <1>5, <2>1, RequestStep
  <2>4. /\ status = Silent => pc' = "recv" /\ answers' = answers
        /\ status # Silent =>
             /\ answers' = Append(answers, [to |-> data[1].msg, status |-> status,
                                            channel |-> IF ssl THEN "tls" ELSE "plain"])
             /\ pc' = IF WantsClose(req) THEN "over" ELSE "recv"
    BY <1>5, <2>1, RequestStep
  <2>5. /\ status = Silent => pc' = "recv" /\ answers' = answers
        /\ status # Silent => pc' = IF WantsClose(req) THEN "over" ELSE "recv"
    BY <2>4
  <2>6. PICK a : /\ a.to = data[1].msg
                 /\ \/ status = Silent /\ answers' = answers
                    \/ /\ answers' # <<>> /\ answers' # answers /\ Len(answers') = Len(answers) + 1
                       /\ DOMAIN answers' = 1 .. Len(answers) + 1
                       /\ \A i \in 1 .. Len(answers) : answers'[i] = answers[i]
                       /\ answers'[Len(answers) + 1] = a
    <3>1. CASE status = Silent
      <4>1. [to |-> data[1].msg].to = data[1].msg
        OBVIOUS
      <4> QED
        BY <2>5, <3>1, <4>1
    <3>2. CASE status # Silent
      BY <2>3, <2>4, <3>2, NewAnswer DEF HttpStatus, Status
    <3> QED
      BY <3>1, <3>2
  <2>7. WantsClose(req) => AsksEnd(data[1].msg)
    <3>1. data[1].part = "rest" => ~WantsClose(req)
      BY <2>1, <2>3, ParsedFacts DEF WantsClose, Garbage
    <3>2. data[1].part # "rest" => data[1].msg \in 1 .. Len(asked)
      BY <2>3, TypeFacts DEF Sent, Piece
    <3>3. CASE data[1].part # "rest"
      <4>1. data[1].msg # 0 /\ IsRequest(asked[data[1].msg])
        BY <2>3, <3>2, <3>3, TypeFacts
      <4>2. /\ req.old = asked[data[1].msg].old /\ req.close = asked[data[1].msg].close
            /\ req.fault = "none" => asked[data[1].msg].fault = "none"
            /\ req.fault # "line" => asked[data[1].msg].fault # "line"
        BY <2>1, <2>3, <3>3, ParsedFacts
      <4> QED
        BY <4>1, <4>2 DEF WantsClose, AsksEnd
    <3> QED
      BY <3>1, <3>3
  <2>8. ~setting.secure /\ ~setting.splits /\ AsksEnd(data[1].msg) => WantsClose(req)
    <3> SUFFICES ASSUME ~setting.secure, ~setting.splits, AsksEnd(data[1].msg) PROVE WantsClose(req)
      OBVIOUS
    <3>1. data[1].msg # 0 /\ data[1].part = "whole"
      BY <2>3, WholeIsUncut, PieceFacts DEF AsksEnd, Uncut
    <3>2. data[1].msg \in 1 .. Len(asked)
      BY <2>3, <3>1, TypeFacts DEF Sent, Piece
    <3>3. req = asked[data[1].msg] /\ IsRequest(asked[data[1].msg])
      BY <2>1, <2>3, <3>1, <3>2, ParsedFacts, TypeFacts
    <3> QED
      BY <3>3 DEF WantsClose, AsksEnd
  <2> QED
    BY <1>4, <2>3, <2>5, <2>6, <2>7, <2>8
<1>6. CASE ProcessFrame
  <2>1. /\ UNCHANGED <<setting, asked, gone>> /\ pc = "process" /\ pc' \in {"recv", "over"} /\ is_websocket
        /\ data[1] \in Piece /\ Sent(data[1])
        /\ pc' = "over" => FrameOf(data[1]) = "close"
        /\ FrameOf(data[1]) = "close" => pc' = "over" /\ answers' # answers
        /\ \/ answers' = answers
           \/ \E status \in FrameStatus :
                    answers' = Append(answers, [to |-> data[1].msg, status |-> status,
                                                channel |-> Channel(status)])
    BY <1>6, FrameStep
  <2>2. PICK a : /\ a.to = data[1].msg
                 /\ \/ answers' = answers
                    \/ /\ answers' # <<>> /\ answers' # answers /\ Len(answers') = Len(answers) + 1
                       /\ DOMAIN answers' = 1 .. Len(answers) + 1
                       /\ \A i \in 1 .. Len(answers) : answers'[i] = answers[i]
                       /\ answers'[Len(answers) + 1] = a
    <3>1. CASE answers' = answers
      <4>1. [to |-> data[1].msg].to = data[1].msg
        OBVIOUS
      <4> QED
        BY <3>1, <4>1
    <3>2. CASE answers' # answers
      <4>1. \A status \in FrameStatus : status \in Status /\ Channel(status) \in {"tls", "plain"}
        BY DEF FrameStatus, Status, Channel
      <4> QED
        BY <2>1, <3>2, <4>1, NewAnswer
    <3> QED
      BY <3>1, <3>2
  <2>3. FrameOf(data[1]) = "close" => AsksEnd(data[1].msg)
    <3>1. data[1].part # "rest" => data[1].msg \in 1 .. Len(asked)
      BY <2>1, TypeFacts DEF Sent, Piece
    <3> QED
      BY <3>1, TypeFacts DEF FrameOf, AsksEnd
  <2>4. ~setting.secure /\ ~setting.splits /\ AsksEnd(data[1].msg) => FrameOf(data[1]) = "close"
    <3> SUFFICES ASSUME ~setting.secure, ~setting.splits, AsksEnd(data[1].msg) PROVE FrameOf(data[1]) = "close"
      OBVIOUS
    <3>1. data[1].msg # 0 /\ data[1].part = "whole"
      BY <2>1, WholeIsUncut, PieceFacts DEF AsksEnd, Uncut
    <3>2. ~IsRequest(asked[data[1].msg])
      BY <2>1, <3>1 DEF ProtocolInv, ProtocolsAgree
    <3> QED
      BY <3>1, <3>2 DEF AsksEnd, FrameOf
  <2> QED
    BY <1>4, <2>1, <2>2, <2>3, <2>4
<1>7. CASE Send
  <2>1. UNCHANGED <<pc, answers, setting, gone>>
    BY <1>7, SendStep
  <2>2. \A i \in 1 .. Len(answers) : AsksEnd(answers[i].to)' <=> AsksEnd(answers[i].to)
    <3> TAKE i \in 1 .. Len(answers)
    <3>1. PICK n \in 0 .. Len(asked) : n = answers[i].to
      BY <1>0
    <3>2. AsksEnd(n)' <=> AsksEnd(n)
      BY <1>7, AsksEndStays
    <3> QED
      BY <2>1, <3>1, <3>2 DEF AsksEnd
  <2>3. answers # <<>> => Last(answers) = answers[Len(answers)] /\ Len(answers) \in 1 .. Len(answers)
    BY AnswerFacts DEF Last
  <2> QED
    BY <1>0, <2>1, <2>2, <2>3 DEF EndsAsAsked
<1>8. CASE Read \/ HangUp \/ UNCHANGED vars
  <2>1. UNCHANGED <<pc, answers, setting, asked>> /\ (gone => gone')
    BY <1>8 DEF Read, HangUp, server, vars
  <2> QED
    BY <2>1 DEF EndsAsAsked, AsksEnd
<1> QED
  BY <1>1, <1>2, <1>3, <1>5, <1>6, <1>7, <1>8 DEF Next, Server, Client

-----------------------------------------------------------------------------
(* Taking turns                                                            *)

LEMMA NextTurnsInv ==
    ASSUME TypeInv, ProtocolInv, ChannelInv, TurnsInv, [Next]_vars
    PROVE  TurnsInv'
<1> USE DEF TakesTurns
<1>1. CASE HandshakeSucceeds \/ HandshakeFails \/ NoHandshake
  <2>1. /\ UNCHANGED <<data, answers, setting>> /\ data = <<>> /\ pc = "accept"
        /\ \/ stream' = <<>>
           \/ stream' = [stream EXCEPT ![1].part = "rest"]
           \/ stream' = stream
    BY <1>1, HandshakeStep
  <2>2. answers = <<>>
    BY <2>1 DEF ChannelInv
  <2>3. Len(stream') \in Nat /\ Len(stream') <= Len(stream) /\ Len(data) = 0
    BY <2>1, PieceFacts
  <2>4. \A n : ~Answered(n)'
    BY <2>1, <2>2 DEF Answered
  <2>5. \A i \in DOMAIN stream' : ~(\E k \in DOMAIN answers' : answers'[k].to = stream'[i].msg)
    BY <2>1, <2>2
  <2> QED
    BY <2>1, <2>3, <2>5, PieceFacts DEF TurnsInv, Answered
<1>2. CASE Recv
  <2>1. PICK n \in 1 .. Len(stream) :
          /\ data' \in Seq(Piece) /\ Len(data') = n /\ \A i \in 1 .. n : data'[i] = stream[i]
          /\ stream' \in Seq(Piece) /\ Len(stream') = Len(stream) - n
          /\ \A i \in 1 .. Len(stream) - n : stream'[i] = stream[i + n]
    BY <1>2, RecvStep
  <2>2. UNCHANGED <<answers, setting>> /\ data = <<>>
    BY <1>2, RecvStep
  <2>3. SUFFICES ASSUME TakesTurns
                 PROVE  /\ Len(data') + Len(stream') <= 1
                        /\ \A i \in DOMAIN data' : ~Answered(data[i].msg)'
                        /\ \A i \in DOMAIN stream' : ~Answered(stream[i].msg)'
    BY <2>2 DEF TurnsInv
  <2>4. Len(stream) = 1 /\ n = 1 /\ ~Answered(stream[1].msg)
    BY <2>2, <2>3, PieceFacts DEF TurnsInv
  <2>5. DOMAIN data' = 1 .. 1 /\ DOMAIN stream' = 1 .. 0 /\ data'[1] = stream[1]
    BY <2>1, <2>4, SeqFacts
  <2> QED
    BY <2>1, <2>2, <2>4, <2>5 DEF Answered
<1>3. CASE ProcessRequest \/ ProcessFrame
  <2>1. UNCHANGED <<stream, setting>> /\ data' = <<>> /\ pc = "process"
    BY <1>3 DEF ProcessRequest, ProcessFrame, client
  <2>2. TakesTurns => Len(stream) = 0
    BY <2>1, PieceFacts DEF TurnsInv
  <2> QED
    BY <2>1, <2>2, PieceFacts DEF TurnsInv
<1>4. CASE Send
  <2>1. UNCHANGED <<data, answers, setting>> /\ (Idle \/ setting.pipelines)
    BY <1>4, SendStep
  <2>2. PICK pieces \in Seq(Piece) :
          /\ \A i \in 1 .. Len(pieces) : pieces[i].msg = Len(asked) + 1
          /\ ~setting.splits => Len(pieces) = 1 /\ pieces[1].part = "whole"
          /\ stream' \in Seq(Piece) /\ Len(stream') = Len(stream) + Len(pieces)
          /\ \A i \in 1 .. Len(stream) + Len(pieces) :
                \/ i \in 1 .. Len(stream)
                \/ i - Len(stream) \in 1 .. Len(pieces) /\ stream'[i] = pieces[i - Len(stream)]
    BY <1>4, SendStep
  <2>3. SUFFICES ASSUME TakesTurns
                 PROVE  /\ Len(data') + Len(stream') <= 1
                        /\ \A i \in DOMAIN data' : ~Answered(data[i].msg)'
                        /\ \A i \in DOMAIN stream' : ~Answered(stream[i].msg)'
    BY <2>1 DEF TurnsInv
  <2>4. Len(stream) = 0 /\ Len(data) = 0 /\ Len(pieces) = 1
    BY <2>1, <2>2, <2>3, PieceFacts DEF Idle
  <2>5. Len(stream') = 1 /\ DOMAIN stream' = 1 .. 1 /\ DOMAIN data' = 1 .. 0
    BY <2>1, <2>2, <2>4, SeqFacts, PieceFacts
  <2>6. stream'[1].msg = Len(asked) + 1
    BY <2>2, <2>4
  <2>7. \A k \in DOMAIN answers : answers[k].to # Len(asked) + 1
    BY AnswerFacts, TypeFacts
  <2> QED
    BY <2>1, <2>4, <2>5, <2>6, <2>7 DEF Answered
<1>5. CASE RecvEnd \/ Read \/ HangUp \/ UNCHANGED vars
  <2>1. UNCHANGED <<data, stream, answers, setting>>
    BY <1>5 DEF RecvEnd, Read, HangUp, server, client, vars
  <2> QED
    BY <2>1 DEF TurnsInv, Answered
<1> QED
  BY <1>1, <1>2, <1>3, <1>4, <1>5 DEF Next, Server, Client

-----------------------------------------------------------------------------
(* The arenas that are left                                                *)

LEMMA UnansweredIsFinite ==
    ASSUME TypeInv
    PROVE  IsFiniteSet(Unanswered) /\ Cardinality(Unanswered) \in Nat
<1>1. IsFiniteSet(1 .. Len(asked))
  BY FS_Interval, TypeFacts
<1>2. Unanswered \subseteq 1 .. Len(asked)
  BY TypeFacts DEF Unanswered
<1> QED
  BY <1>1, <1>2, FS_Subset, FS_CardinalityType

\* A step that leaves no arena behind, and takes no message up but to answer it
LEMMA ArenasStay ==
    ASSUME TypeInv, TypeInv', ArenaInv, UNCHANGED <<setting, arenas>>, Len(asked') >= Len(asked),
           \A n \in 0 .. Len(asked) : UnderWay(n)' => UnderWay(n),
           \A n \in 1 .. Len(asked) : ~UnderWay(n) /\ Answered(n)' => Answered(n)
    PROVE  ArenaInv'
<1>1. DOMAIN asked = 1 .. Len(asked) /\ DOMAIN asked' = 1 .. Len(asked') /\ Len(asked) \in Nat /\ Len(asked') \in Nat
  <2>1. DOMAIN asked = 1 .. Len(asked) /\ Len(asked) \in Nat
    BY TypeFacts
  <2>2. DOMAIN asked' = 1 .. Len(asked') /\ Len(asked') \in Nat
    BY SeqFacts DEF TypeInv
  <2> QED
    BY <2>1, <2>2
<1>2. Unanswered \subseteq Unanswered'
  BY <1>1 DEF Unanswered
<1>3. IsFiniteSet(Unanswered') /\ Cardinality(Unanswered') \in Nat
  <2>1. (IsFiniteSet(Unanswered) /\ Cardinality(Unanswered) \in Nat)'
    BY UnansweredIsFinite, PTL
  <2> QED
    BY <2>1
<1>4. Cardinality(Unanswered) <= Cardinality(Unanswered') /\ Cardinality(Unanswered) \in Nat
  BY <1>2, <1>3, FS_Subset, UnansweredIsFinite
<1>5. UnderWay(0)' => UnderWay(0)
  BY <1>1
<1>6. arenas \in Nat
  BY DEF TypeInv, ArenasOk
<1> QED
  BY <1>3, <1>4, <1>5, <1>6 DEF ArenaInv, TakesTurns

LEMMA NextArenaInv ==
    ASSUME TypeInv, TypeInv', ProtocolInv, ChannelInv, TurnsInv, ArenaInv, [Next]_vars
    PROVE  ArenaInv'
<1>0. Len(asked) \in Nat
  BY TypeFacts
<1>1. CASE HandshakeSucceeds \/ HandshakeFails \/ NoHandshake
  <2>1. /\ UNCHANGED <<data, arenas, answers, setting, asked>>
        /\ \/ stream' = <<>>
           \/ stream # <<>> /\ stream' = [stream EXCEPT ![1].part = "rest"]
           \/ stream' = stream
    BY <1>1, HandshakeStep
  <2>2. DOMAIN stream' \subseteq DOMAIN stream /\ \A i \in DOMAIN stream' : stream'[i].msg = stream[i].msg
    <3>1. CASE stream # <<>> /\ stream' = [stream EXCEPT ![1].part = "rest"]
      BY <3>1, PieceFacts DEF Piece
    <3> QED
      BY <2>1, <3>1
  <2>3. \A n \in 0 .. Len(asked) : UnderWay(n)' => UnderWay(n)
    BY <2>1, <2>2 DEF UnderWay
  <2>4. \A n \in 1 .. Len(asked) : Answered(n)' => Answered(n)
    BY <2>1 DEF Answered
  <2> QED
    BY <1>0, <2>1, <2>3, <2>4, ArenasStay
<1>2. CASE Recv
  <2>1. PICK n \in 1 .. Len(stream) :
          /\ data' \in Seq(Piece) /\ Len(data') = n /\ \A i \in 1 .. n : data'[i] = stream[i]
          /\ stream' \in Seq(Piece) /\ Len(stream') = Len(stream) - n
          /\ \A i \in 1 .. Len(stream) - n : stream'[i] = stream[i + n]
    BY <1>2, RecvStep
  <2>2. UNCHANGED <<arenas, answers, setting, asked>>
    BY <1>2, RecvStep
  <2>3. /\ Len(stream) \in Nat /\ DOMAIN stream = 1 .. Len(stream)
        /\ DOMAIN data' = 1 .. n /\ DOMAIN stream' = 1 .. Len(stream) - n
    BY <2>1, PieceFacts, SeqFacts
  <2>4. ASSUME NEW k \in 0 .. Len(asked), UnderWay(k)' PROVE UnderWay(k)
    <3>1. CASE \E i \in 1 .. n : data'[i].msg = k
      BY <2>1, <2>3, <3>1 DEF UnderWay
    <3>2. CASE \E i \in 1 .. Len(stream) - n : stream'[i].msg = k
      <4>1. PICK i \in 1 .. Len(stream) - n : stream[i + n].msg = k
        BY <2>1, <3>2
      <4>2. i + n \in 1 .. Len(stream)
        BY <2>3
      <4> QED
        BY <2>3, <4>1, <4>2 DEF UnderWay
    <3> QED
      BY <2>3, <2>4, <3>1, <3>2 DEF UnderWay
  <2>5. \A k \in 1 .. Len(asked) : Answered(k)' => Answered(k)
    BY <2>2 DEF Answered
  <2> QED
    BY <1>0, <2>2, <2>4, <2>5, ArenasStay
\* The server is through with what it has in hand.
<1>3. ASSUME pc = "process", UNCHANGED <<stream, setting, asked>>, data' = <<>>
      PROVE  \A n : UnderWay(n)' => UnderWay(n)
  BY <1>3 DEF UnderWay
<1>4. ASSUME NEW status \in Status, NEW channel \in {"tls", "plain"},
             pc = "process", UNCHANGED <<stream, setting, asked, arenas>>, data' = <<>>,
             \/ answers' = answers
             \/ answers' = Append(answers, [to |-> data[1].msg, status |-> status, channel |-> channel])
      PROVE  ArenaInv'
  <2>1. UnderWay(data[1].msg)
    BY <1>4, PieceFacts DEF UnderWay
  <2>2. \A n : Answered(n)' => Answered(n) \/ n = data[1].msg
    <3>1. CASE answers' = answers
      BY <3>1 DEF Answered
    <3>2. CASE answers' = Append(answers, [to |-> data[1].msg, status |-> status, channel |-> channel])
      <4>1. /\ DOMAIN answers' = 1 .. Len(answers) + 1
            /\ \A i \in 1 .. Len(answers) : answers'[i] = answers[i]
            /\ answers'[Len(answers) + 1].to = data[1].msg
        BY <1>4, <3>2, NewAnswer
      <4>2. DOMAIN answers = 1 .. Len(answers) /\ Len(answers) \in Nat
        BY AnswerFacts
      <4> QED
        BY <4>1, <4>2 DEF Answered
    <3> QED
      BY <1>4, <3>1, <3>2
  <2> QED
    BY <1>0, <1>3, <1>4, <2>1, <2>2, ArenasStay
<1>5. CASE ProcessRequest
  <2>1. PICK req, status : req = Parsed(data) /\ status = Outcome(req, setting.month)
    OBVIOUS
  <2>2. /\ UNCHANGED <<stream, setting, asked>> /\ pc = "process" /\ data' = <<>>
        /\ status \in HttpStatus \cup {Silent}
        /\ arenas' = arenas + (IF status = Silent THEN 2 ELSE 0)
        /\ status = Silent => answers' = answers
        /\ status # Silent =>
             answers' = Append(answers, [to |-> data[1].msg, status |-> status,
                                         channel |-> IF ssl THEN "tls" ELSE "plain"])
    BY <1>5, <2>1, RequestStep
  <2>3. arenas \in Nat
    BY DEF TypeInv, ArenasOk
  <2>4. CASE status # Silent
    <3>1. status \in Status /\ arenas' = arenas
      BY <2>2, <2>3, <2>4 DEF HttpStatus, Status
    <3> QED
      BY <1>4, <2>2, <2>4, <3>1
  <2>5. CASE status = Silent
    <3> SUFFICES ASSUME TakesTurns
                 PROVE  arenas' <= 2 * Cardinality(Unanswered') + (IF UnderWay(0)' THEN 0 ELSE 2)
      BY <2>2 DEF ArenaInv, TakesTurns
    <3> DEFINE n == data[1].msg
    <3>1. UnderWay(n) /\ ~Answered(n) /\ n \in 0 .. Len(asked)
      BY <2>2, PieceFacts DEF UnderWay, TurnsInv, Sent
    <3>2. stream = <<>>
      BY <2>2, PieceFacts DEF TurnsInv
    <3>3. \A k : ~UnderWay(k)'
      BY <2>2, <3>2 DEF UnderWay
    <3>4. arenas' = arenas + 2 /\ asked' = asked /\ answers' = answers
      BY <2>2, <2>5
    <3>5. Unanswered' = {k \in DOMAIN asked : ~Answered(k)}
      BY <3>3, <3>4 DEF Unanswered, Answered
    <3>6. IsFiniteSet(Unanswered) /\ Cardinality(Unanswered) \in Nat
      BY UnansweredIsFinite
    <3>7. IsFiniteSet(Unanswered') /\ Cardinality(Unanswered') \in Nat
      <4>1. (IsFiniteSet(Unanswered) /\ Cardinality(Unanswered) \in Nat)'
        BY UnansweredIsFinite, PTL
      <4> QED
        BY <4>1
    <3> HIDE DEF n
    <3>8. CASE n = 0
      <4>1. arenas <= 2 * Cardinality(Unanswered)
        BY <3>1, <3>6, <3>8 DEF ArenaInv
      <4>2. Cardinality(Unanswered) <= Cardinality(Unanswered')
        BY <3>5, <3>7, FS_Subset DEF Unanswered
      <4> QED
        BY <2>3, <3>3, <3>4, <3>6, <3>7, <4>1, <4>2
    <3>9. CASE n # 0
      <4>1. Unanswered \cup {n} \subseteq Unanswered' /\ n \notin Unanswered
        BY <3>1, <3>5, <3>9, TypeFacts DEF Unanswered
      <4>2. Cardinality(Unanswered \cup {n}) = Cardinality(Unanswered) + 1
        BY <3>6, <4>1, FS_AddElement
      <4>3. Cardinality(Unanswered \cup {n}) <= Cardinality(Unanswered')
        BY <3>7, <4>1, FS_Subset
      <4>4. arenas <= 2 * Cardinality(Unanswered) + 2
        BY <2>3, <3>6 DEF ArenaInv
      <4> QED
        BY <2>3, <3>3, <3>4, <3>6, <3>7, <4>2, <4>3, <4>4
    <3> QED
      BY <3>8, <3>9
  <2> QED
    BY <2>4, <2>5
<1>6. CASE ProcessFrame
  <2>1. /\ UNCHANGED <<arenas, stream, setting, asked>> /\ pc = "process" /\ data' = <<>>
        /\ \/ answers' = answers
           \/ \E status \in FrameStatus :
                    answers' = Append(answers, [to |-> data[1].msg, status |-> status,
                                                channel |-> Channel(status)])
    BY <1>6, FrameStep
  <2>2. /\ \A status \in FrameStatus : status \in Status /\ Channel(status) \in {"tls", "plain"}
        /\ "echo" \in Status
    BY DEF FrameStatus, Status, Channel
  <2> QED
    BY <1>4, <2>1, <2>2
<1>7. CASE Send
  <2>1. UNCHANGED <<data, arenas, answers, setting>> /\ Len(asked') = Len(asked) + 1
    BY <1>7, SendStep
  <2>2. PICK pieces \in Seq(Piece) :
          /\ \A i \in 1 .. Len(pieces) : pieces[i].msg = Len(asked) + 1
          /\ stream' \in Seq(Piece) /\ Len(stream') = Len(stream) + Len(pieces)
          /\ \A i \in 1 .. Len(stream) : stream'[i] = stream[i]
          /\ \A i \in 1 .. Len(stream) + Len(pieces) :
                \/ i \in 1 .. Len(stream)
                \/ i - Len(stream) \in 1 .. Len(pieces) /\ stream'[i] = pieces[i - Len(stream)]
    BY <1>7, SendStep
  <2>3. DOMAIN stream = 1 .. Len(stream) /\ DOMAIN stream' = 1 .. Len(stream) + Len(pieces)
    BY <2>2, PieceFacts, SeqFacts
  <2>4. ASSUME NEW n \in 0 .. Len(asked), UnderWay(n)' PROVE UnderWay(n)
    <3>1. ASSUME NEW i \in 1 .. Len(stream) + Len(pieces), stream'[i].msg = n
          PROVE  i \in 1 .. Len(stream)
      <4>1. CASE i - Len(stream) \in 1 .. Len(pieces) /\ stream'[i] = pieces[i - Len(stream)]
        BY <1>0, <2>2, <3>1, <4>1
      <4> QED
        BY <2>2, <4>1
    <3> QED
      BY <2>1, <2>2, <2>3, <2>4, <3>1 DEF UnderWay
  <2>5. \A n \in 1 .. Len(asked) : Answered(n)' => Answered(n)
    BY <2>1 DEF Answered
  <2> QED
    BY <1>0, <2>1, <2>4, <2>5, ArenasStay
<1>8. CASE RecvEnd \/ Read \/ HangUp \/ UNCHANGED vars
  <2>1. UNCHANGED <<data, stream, answers, setting, asked, arenas>>
    BY <1>8 DEF RecvEnd, Read, HangUp, server, client, vars
  <2> QED
    BY <2>1 DEF ArenaInv, TakesTurns, Unanswered, UnderWay, Answered
<1> QED
  BY <1>1, <1>2, <1>5, <1>6, <1>7, <1>8 DEF Next, Server, Client

-----------------------------------------------------------------------------
(* Bodies                                                                  *)

LEMMA NextBodyIsComplete ==
    ASSUME TypeInv, ProtocolInv, WholeInv, TurnsInv, BodyIsComplete, [Next]_vars
    PROVE  BodyIsComplete'
<1>0. /\ DOMAIN calls = 1 .. Len(calls) /\ Len(calls) \in Nat /\ calls \in Seq(CallType)
      /\ \A i \in 1 .. Len(calls) : calls[i].msg \in 1 .. Len(asked)
  BY AnswerFacts
<1>1. CASE ProcessRequest
  <2>1. PICK req, status : req = Parsed(data) /\ status = Outcome(req, setting.month)
    OBVIOUS
  <2>2. /\ UNCHANGED <<setting, asked>> /\ pc = "process"
        /\ ~is_websocket /\ \A k \in DOMAIN asked : IsRequest(asked[k])
        /\ data[1] \in Piece /\ Sent(data[1]) /\ Len(data) >= 1
        /\ calls' = IF CallsRoute(req)
                    THEN Append(calls, [msg |-> data[1].msg, body |-> BodyRead(data)])
                    ELSE calls
    BY <1>1, <2>1, RequestStep
  <2>3. CASE ~CallsRoute(req)
    BY <2>2, <2>3 DEF BodyIsComplete, TakesTurns
  <2>4. CASE CallsRoute(req)
    <3>1. PICK n : n = data[1].msg
      OBVIOUS
    <3>2. PICK call : call = [msg |-> n, body |-> BodyRead(data)]
      OBVIOUS
    <3>3. call.msg = n /\ call.body = BodyRead(data)
      BY <3>2
    <3>4. data[1].part # "rest"
      BY <2>1, <2>2, <2>4, ParsedFacts DEF CallsRoute, Garbage
    <3>5. /\ n \in 1 .. Len(asked)
          /\ req.method = asked[n].method /\ req.body = asked[n].body
      BY <2>1, <2>2, <3>1, <3>4, ParsedFacts, TypeFacts DEF Piece
    <3>6. asked[n].method # "POST" => call.body = {}
      BY <2>1, <3>3, <3>5 DEF BodyRead
    <3>7. TakesTurns /\ asked[n].method = "POST" => call.body = (IF asked[n].body THEN {n} ELSE {})
      <4> SUFFICES ASSUME TakesTurns, asked[n].method = "POST"
                   PROVE  BodyRead(data) = IF asked[n].body THEN {n} ELSE {}
        BY <3>3
      <4>1. Len(data) = 1
        BY <2>2, PieceFacts DEF TurnsInv
      <4>2. Following(data) = {}
        BY <4>1 DEF Following
      <4>3. data[1].part = "whole"
        BY <2>2, <3>4, PieceFacts DEF WholeInv, TakesTurns
      <4> QED
        BY <2>1, <3>1, <3>5, <4>2, <4>3 DEF BodyRead, FirstIsWhole
    <3>8. call \in CallType
      <4>1. \A i \in 1 .. Len(data) : data[i].msg \in Nat
        BY PieceFacts, TypeFacts DEF Piece
      <4>2. Following(data) \subseteq Nat
        BY <4>1, PieceFacts DEF Following
      <4>3. BodyRead(data) \subseteq Nat
        BY <3>1, <3>5, <4>2, TypeFacts DEF BodyRead
      <4> QED
        BY <3>2, <3>5, <4>3, TypeFacts DEF CallType
    <3>9. calls' = Append(calls, call)
      BY <2>2, <2>4, <3>1, <3>2
    <3>10. /\ DOMAIN calls' = 1 .. Len(calls) + 1
           /\ \A i \in 1 .. Len(calls) : calls'[i] = calls[i]
           /\ calls'[Len(calls) + 1] = call
      BY <1>0, <3>8, <3>9, AppendFacts, SeqFacts
    <3>11. ASSUME NEW i \in 1 .. Len(calls)
           PROVE  /\ TakesTurns /\ asked[calls[i].msg].method = "POST" =>
                       calls[i].body = (IF asked[calls[i].msg].body THEN {calls[i].msg} ELSE {})
                  /\ asked[calls[i].msg].method # "POST" => calls[i].body = {}
      BY <1>0 DEF BodyIsComplete
    <3>12. ASSUME NEW i \in DOMAIN calls'
           PROVE  /\ TakesTurns /\ asked[calls'[i].msg].method = "POST" =>
                       calls'[i].body = (IF asked[calls'[i].msg].body THEN {calls'[i].msg} ELSE {})
                  /\ asked[calls'[i].msg].method # "POST" => calls'[i].body = {}
      <4>1. CASE i \in 1 .. Len(calls)
        BY <3>10, <3>11, <4>1
      <4>2. CASE i = Len(calls) + 1
        BY <3>3, <3>6, <3>7, <3>10, <4>2
      <4> QED
        BY <1>0, <3>10, <4>1, <4>2
    <3> QED
      BY <2>2, <3>12 DEF BodyIsComplete, TakesTurns
  <2> QED
    BY <2>3, <2>4
<1>2. CASE Send
  <2>1. UNCHANGED <<calls, setting>> /\ \A k \in 1 .. Len(asked) : asked'[k] = asked[k]
    BY <1>2, SendStep
  <2>2. \A i \in 1 .. Len(calls) : asked'[calls[i].msg] = asked[calls[i].msg]
    BY <1>0, <2>1
  <2> QED
    BY <1>0, <2>1, <2>2 DEF BodyIsComplete, TakesTurns
<1>3. CASE HandshakeSucceeds \/ HandshakeFails \/ NoHandshake \/ Recv \/ RecvEnd \/ ProcessFrame
           \/ Read \/ HangUp \/ UNCHANGED vars
  <2>1. UNCHANGED <<calls, setting, asked>>
    BY <1>3 DEF HandshakeSucceeds, HandshakeFails, NoHandshake, Recv, RecvEnd, ProcessFrame,
                Read, HangUp, server, client, vars
  <2> QED
    BY <2>1 DEF BodyIsComplete, TakesTurns
<1> QED
  BY <1>1, <1>2, <1>3 DEF Next, Server, Client

-----------------------------------------------------------------------------
(* The theorems                                                            *)

LEMMA InitIInv == Init => IInv
<1> SUFFICES ASSUME Init PROVE IInv
  OBVIOUS
<1>1. TypeInv /\ ProtocolInv
  BY InitTypeInv, InitProtocolInv
<1>2. ChannelInv
  BY DEF Init, ChannelInv, AnswersKeepTls
<1>3. \A i \in DOMAIN stream : stream[i] = [msg |-> 0, part |-> "rest"]
  BY DEF Init
<1>4. WholeInv /\ EndsAsAsked
  BY <1>3 DEF Init, WholeInv, EndsAsAsked
<1>5. data = <<>> /\ answers = <<>> /\ calls = <<>> /\ asked = <<>> /\ arenas = 0
  BY DEF Init
<1>6. TurnsInv
  <2> DEFINE a == Len(data)
             b == Len(stream)
  <2>1. a = 0 /\ (b = 0 \/ b = 1)
    BY DEF Init
  <2>2. Len(data) + Len(stream) <= 1
    <3> HIDE DEF a, b
    <3>1. a + b <= 1
      BY <2>1
    <3> QED BY <3>1 DEF a, b
  <2>3. DOMAIN data = {} /\ DOMAIN answers = {}
    BY <1>5
  <2> QED
    BY <2>2, <2>3, Zenon DEF TurnsInv, Answered
<1>7. ArenaInv
  BY <1>1, <1>5, UnansweredIsFinite DEF ArenaInv
<1>8. BodyIsComplete
  BY <1>5 DEF BodyIsComplete
<1> QED
  BY <1>1, <1>2, <1>4, <1>6, <1>7, <1>8 DEF IInv

\* The inductive invariant holds in every reachable state of a connection, whatever
\* its client sends and however it is cut.
THEOREM ConnectionInvariant == Spec => []IInv
<1>1. IInv /\ [Next]_vars => IInv'
  <2> SUFFICES ASSUME IInv, [Next]_vars PROVE IInv'
    OBVIOUS
  <2> USE DEF IInv
  <2>1. TypeInv'
    BY NextTypeInv
  <2>2. ProtocolInv'
    BY NextProtocolInv
  <2>3. ChannelInv'
    BY NextChannelInv
  <2>4. WholeInv'
    BY <2>1, NextWholeInv
  <2>5. EndsAsAsked'
    BY NextEndsAsAsked
  <2>6. TurnsInv'
    BY NextTurnsInv
  <2>7. ArenaInv'
    BY <2>1, NextArenaInv
  <2>8. BodyIsComplete'
    BY NextBodyIsComplete
  <2> QED
    BY <2>1, <2>2, <2>3, <2>4, <2>5, <2>6, <2>7, <2>8
<1> QED
  BY <1>1, InitIInv, PTL DEF Spec

\* The variables of a connection have their types, and the arenas that are left are
\* at most two for each piece of a message.
THEOREM ConnectionTypes == Spec => []TypeOK
<1>1. IInv => TypeOK
  <2> SUFFICES ASSUME IInv PROVE TypeOK
    OBVIOUS
  <2>1. TypeInv
    BY DEF IInv
  <2>2. arenas \in 0 .. 4 * MaxMessages + 2
    BY <2>1, TypeFacts, PieceFacts DEF TypeInv, ArenasOk
  <2>3. \A i \in DOMAIN answers : answers[i].to \in 0 .. Len(asked) /\ answers[i].status \in Status
    BY <2>1, AnswerFacts DEF AnswerType
  <2> QED
    BY <2>1, <2>2, <2>3, TypeFacts, PieceFacts, AnswerFacts DEF TypeOK, TypeInv
<1> QED
  BY <1>1, ConnectionInvariant, PTL

\* No request is read as a frame and no frame as a request (ws_upgrade and the test
\* of is_websocket in process_incoming_data), whatever a client sends that waits for
\* the answer to an upgrade.
THEOREM BothEndsAgree == Spec => []ProtocolsAgree
<1>1. IInv => ProtocolsAgree
  BY DEF IInv, ProtocolInv
<1> QED
  BY <1>1, ConnectionInvariant, PTL

\* A connection ends with the answer to the message that asked for it, and with no
\* other (the tail of http_process_request).
THEOREM NothingElseEnds == Spec => []EndsAsAsked
<1>1. IInv => EndsAsAsked
  BY DEF IInv
<1> QED
  BY <1>1, ConnectionInvariant, PTL

\* Every HTTP answer and every echo goes through the channel of the handshake
\* (socket_send_secure).
THEOREM ChannelIsKept == Spec => []AnswersKeepTls
<1>1. IInv => AnswersKeepTls
  BY DEF IInv, ChannelInv
<1> QED
  BY <1>1, ConnectionInvariant, PTL

\* Only the early returns of http_process_request leave arenas behind: two for each
\* message without an answer.
THEOREM OnlySilenceLeavesArenas == Spec => []AnsweredRequestsLeaveNoArena
<1>1. IInv => AnsweredRequestsLeaveNoArena
  <2> SUFFICES ASSUME IInv, TakesTurns
               PROVE  arenas <= 2 * Cardinality({n \in Taken : ~Answered(n)})
                                + (IF 0 \in {p.msg : p \in Range(stream)} THEN 0 ELSE 2)
    BY DEF AnsweredRequestsLeaveNoArena
  <2>1. TypeInv /\ ArenaInv /\ TurnsInv
    BY DEF IInv
  <2>2. {n \in Taken : ~Answered(n)} = Unanswered
    BY DEF Taken, Unanswered, UnderWay, Range
  <2>3. 0 \in {p.msg : p \in Range(stream)} => UnderWay(0)
    BY DEF UnderWay, Range
  <2>4. arenas \in Nat /\ Cardinality(Unanswered) \in Nat
    BY <2>1, UnansweredIsFinite DEF TypeInv, ArenasOk
  <2>5. arenas <= 2 * Cardinality(Unanswered) + (IF UnderWay(0) THEN 0 ELSE 2)
    BY <2>1 DEF ArenaInv
  <2> QED
    BY <2>2, <2>3, <2>4, <2>5
<1> QED
  BY <1>1, ConnectionInvariant, PTL

\* A route finds the body of its own request and nothing else, while client and
\* server take turns (http_request_process_body).
THEOREM BodiesAreWhole == Spec => []BodyIsComplete
<1>1. IInv => BodyIsComplete
  BY DEF IInv
<1> QED
  BY <1>1, ConnectionInvariant, PTL
=============================================================================
