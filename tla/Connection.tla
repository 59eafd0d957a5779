----------------------------- MODULE Connection -----------------------------
(***************************************************************************)
(* The life of one connection: the handshake of                            *)
(* process_incoming_connection, then the loop of process_incoming_data     *)
(* that takes what recv returns for one HTTP request or one WebSocket      *)
(* frame (src/src/server/http/server_http.c), and the client it talks to.  *)
(*                                                                         *)
(* A request is a record of what the code asks of it.  Bytes travel in     *)
(* pieces: a whole message, or the parts that TCP or the 1,023 bytes of    *)
(* the receive buffer cut it into.                                         *)
(***************************************************************************)
EXTENDS Integers, SequencesExt

CONSTANTS
    Requests,       \* the requests a client may send
    Frames,         \* the frames a client may send on an upgraded connection
    Settings,       \* the circumstances of a connection
    MaxMessages     \* bound: the largest number of messages of a setting

RequestType ==
    [kind : {"request"},
     fault : {"none", "line", "headers"},   \* where the first syntax error is
     old : BOOLEAN,                         \* HTTP/1.0
     close : BOOLEAN,                       \* Connection: close comes first
     host : BOOLEAN,                        \* Host and target name the server
     method : {"GET", "POST", "OPTIONS"},
     acrm : BOOLEAN,                        \* Access-Control-Request-Method
     upgrade : BOOLEAN,                     \* the four WebSocket headers
     target : {"http", "mute", "ws", "none"},   \* the route it names: one that
                                            \* answers, one that does not, ...
     body : BOOLEAN]

FrameType == [kind : {"frame"},
              op : {"data", "fragment", "ping", "pong", "close", "unmasked"}]

SettingType ==
    [secure : BOOLEAN,          \* config->secure, and the context could be made
     speaks : {"tls", "plain"}, \* what the client speaks
     listed : BOOLEAN,          \* allow_methods is not empty
     month : 1 .. 12,
     splits : BOOLEAN,          \* a recv may return a part of a message
     pipelines : BOOLEAN,       \* the client may send before the answer has come
     messages : 0 .. MaxMessages]   \* bound: the messages the client sends

ASSUME ConnectionAssumption ==
    /\ Requests \subseteq RequestType /\ Frames \subseteq FrameType
    /\ Settings \subseteq SettingType
    /\ MaxMessages \in Nat

VARIABLES
    pc,           \* where the server is: "accept", "recv", "process" or "over"
    ssl,          \* the connection has an SSL object
    data,         \* the pieces in the receive buffer
    is_websocket,
    arenas,       \* arenas that no free will be called for
    setting,      \* the circumstances, which do not change
    asked,        \* the messages the client has sent, in order
    stream,       \* the pieces that recv has not returned yet
    answers,      \* what the server sent, in order
    seen,         \* how many answers the client has read
    calls,        \* the calls of HTTP routes: for which message, with what body
    gone          \* the client has closed its end

server == <<pc, ssl, data, is_websocket, arenas, answers, calls>>
client == <<setting, asked, seen, gone>>
vars == <<pc, ssl, data, is_websocket, arenas, setting, asked, stream, answers, seen, calls, gone>>

-----------------------------------------------------------------------------
(* The Date header                                                         *)

\* The month that strftime writes for %b, and month_lookup_table
StrftimeMonth == <<"Jan", "Feb", "Mar", "Apr", "May", "Jun",
                   "Jul", "Aug", "Sep", "Oct", "Nov", "Dec">>
MonthTable == {"Jan", "Feb", "Mar", "Apr", "May", "Jun",
               "Jul", "Aug", "Sept", "Oct", "Nov", "Dec"}

\* korall_response_header_set accepts the date that korall_response_start_set wrote.
DateAccepted(month) == StrftimeMonth[month] \in MonthTable

-----------------------------------------------------------------------------
(* One request                                                             *)

IsRequest(m) == m.kind = "request"

\* The bytes of a piece are not the beginning of a request.
Garbage == [kind |-> "request", fault |-> "line", old |-> FALSE, close |-> FALSE, host |-> FALSE,
            method |-> "GET", acrm |-> FALSE, upgrade |-> FALSE, target |-> "none", body |-> FALSE]

\* The first piece is a whole message, or the first part of one whose other part
\* was received with it.
FirstIsWhole(pieces) ==
    \/ pieces[1].part = "whole"
    \/ pieces[1].part # "rest" /\ Len(pieces) > 1 /\ pieces[2].msg = pieces[1].msg

\* http_request_parse on what a recv returned: the request it makes of its
\* first message.
Parsed(pieces) ==
    LET p == pieces[1]
    IN  IF p.part = "rest" \/ ~IsRequest(asked[p.msg]) THEN Garbage
        ELSE IF p.part \in {"line", "headers"} /\ ~FirstIsWhole(pieces) /\ asked[p.msg].fault # "line"
             THEN [asked[p.msg] EXCEPT !.fault = p.part]
        ELSE asked[p.msg]

\* The other messages in what a recv returned
Following(pieces) == {pieces[k].msg : k \in 2 .. Len(pieces)} \ {pieces[1].msg}

\* Fault: the body of the first message is not read.
BodyOfRest(pieces) == IF Parsed(pieces).method # "POST" THEN {} ELSE Following(pieces)

\* http_request_process_body: whatever follows the header, for POST, PUT and
\* PATCH only, as the messages it comes from.  Its result is not looked at.
BodyRead(pieces) ==
    LET own == IF FirstIsWhole(pieces) /\ Parsed(pieces).body THEN {pieces[1].msg} ELSE {}
    IN  IF Parsed(pieces).method # "POST" THEN {} ELSE own \cup Following(pieces)

\* No response was constructed.
Silent == "silent"
\* The status that a route sets
RouteStatus == "200"

\* http_response_construct and http_response_ws_construct
Constructed(code, month) == IF DateAccepted(month) THEN code ELSE Silent

\* Fault: a syntax error is not answered.
OutcomeWithoutSyntax(req, month) ==
    IF req.fault # "none" THEN Silent
    ELSE IF ~req.host THEN Constructed("400", month)
    ELSE IF req.method = "OPTIONS" /\ ~req.acrm THEN Constructed("400", month)
    ELSE IF req.method = "OPTIONS" /\ ~setting.listed THEN Constructed("500", month)
    ELSE IF req.upgrade THEN Constructed(IF req.target = "ws" THEN "101" ELSE "404", month)
    ELSE IF req.method = "OPTIONS" THEN Constructed("204", month)
    ELSE IF req.target = "mute" THEN Silent
    ELSE IF req.target # "http" THEN Constructed("404", month)
    ELSE RouteStatus

\* http_process_request up to the sending: the status of the response, or Silent
\* for its two early returns.
Outcome(req, month) ==
    IF req.fault # "none" THEN Constructed("400", month)
    ELSE IF ~req.host THEN Constructed("400", month)
    ELSE IF req.method = "OPTIONS" /\ ~req.acrm THEN Constructed("400", month)
    ELSE IF req.method = "OPTIONS" /\ ~setting.listed THEN Constructed("500", month)
    ELSE IF req.upgrade THEN Constructed(IF req.target = "ws" THEN "101" ELSE "404", month)
    ELSE IF req.method = "OPTIONS" THEN Constructed("204", month)
    ELSE IF req.target = "mute" THEN Silent
    ELSE IF req.target # "http" THEN Constructed("404", month)
    ELSE RouteStatus

CallsRoute(req) == /\ req.fault = "none" /\ req.host /\ req.method # "OPTIONS"
                   /\ ~req.upgrade /\ req.target \in {"http", "mute"}

\* Fault: the connection is switched before the 101 is known to be there.
SwitchesEarly(req, status) ==
    req.fault = "none" /\ req.host /\ req.upgrade /\ req.target = "ws" /\ req.method # "OPTIONS"

\* ws_upgrade has set *is_websocket.
Switches(req, status) == status = "101"

\* Fault: HTTP/1.0 clients are kept.
KeepsOld(req) == req.fault = "none" /\ req.close

\* The tail of http_process_request: the headers are known when none was bad, the
\* protocol when the start line was read.
WantsClose(req) == (req.fault = "none" /\ req.close) \/ (req.fault # "line" /\ req.old)

-----------------------------------------------------------------------------
(* The server                                                              *)

\* Fault: the SSL object is not handed to the response.
ChannelWithoutSsl(status) == "plain"

\* How a socket_send_secure sends: pong and close frames are built in a cleared
\* arena and carry no SSL object.
Channel(status) == IF ssl /\ status \notin {"pong", "closed", "refused"} THEN "tls" ELSE "plain"

\* socket_send_secure
Answer(status) ==
    answers' = Append(answers, [to |-> data[1].msg, status |-> status, channel |-> Channel(status)])

\* SSL_accept on a TLS client, whose hello comes first in the stream
HandshakeSucceeds ==
    /\ pc = "accept" /\ setting.secure /\ setting.speaks = "tls" /\ ~gone
    /\ pc' = "recv" /\ ssl' = TRUE /\ stream' = Tail(stream)
    /\ UNCHANGED <<data, is_websocket, arenas, answers, calls, client>>

\* SSL_accept has read into what is not a hello, or the client has left; the
\* connection is served all the same ("todo: close socket ?").
HandshakeFails ==
    /\ pc = "accept" /\ setting.secure
    /\ \/ setting.speaks = "plain" /\ stream # <<>> /\ stream' = [stream EXCEPT ![1].part = "rest"]
       \/ setting.speaks = "plain" /\ stream = <<>> /\ gone /\ UNCHANGED stream
       \/ setting.speaks = "tls" /\ gone /\ stream' = Tail(stream)
    /\ pc' = "recv"
    /\ UNCHANGED <<ssl, data, is_websocket, arenas, answers, calls, client>>

\* ssl_ctx is NULL, and no TLS is spoken.
NoHandshake ==
    /\ pc = "accept" /\ ~setting.secure
    /\ pc' = "recv"
    /\ UNCHANGED <<ssl, data, is_websocket, arenas, stream, answers, calls, client>>

\* Fault: an error of recv is taken for data.
RecvTakesErrors ==
    /\ pc = "recv" /\ (stream # <<>> \/ gone)
    /\ data' = stream /\ stream' = <<>>
    /\ pc' = "process"
    /\ UNCHANGED <<ssl, is_websocket, arenas, answers, calls, client>>

\* socket_receive_secure returns the next piece, or several that have come.
Recv ==
    /\ pc = "recv" /\ stream # <<>>
    /\ \E n \in 1 .. Len(stream) :
        /\ data' = SubSeq(stream, 1, n)
        /\ stream' = SubSeq(stream, n + 1, Len(stream))
    /\ pc' = "process"
    /\ UNCHANGED <<ssl, is_websocket, arenas, answers, calls, client>>

\* Fault: a closed connection is read again.
RecvGoesOn ==
    /\ pc = "recv" /\ stream = <<>> /\ gone
    /\ UNCHANGED vars

\* recv returns 0 or -1, and the loop ends.
RecvEnd ==
    /\ pc = "recv" /\ stream = <<>> /\ gone
    /\ pc' = "over"
    /\ UNCHANGED <<ssl, data, is_websocket, arenas, stream, answers, calls, client>>

\* Fault: the arenas of a request with a syntax error are not released.
LeavesSyntax(req, status) == status = Silent \/ req.fault # "none"

\* An early return leaves both arenas of the request.
Leaves(req, status) == status = Silent

\* http_process_request
ProcessRequest ==
    /\ pc = "process" /\ ~is_websocket
    /\ LET req == Parsed(data)
            status == Outcome(req, setting.month)
        IN  /\ is_websocket' = Switches(req, status)
            /\ arenas' = arenas + (IF Leaves(req, status) THEN 2 ELSE 0)
            /\ IF status = Silent
               THEN pc' = "recv" /\ UNCHANGED answers
               ELSE /\ Answer(status)
                    /\ pc' = IF WantsClose(req) THEN "over" ELSE "recv"
            /\ calls' = IF CallsRoute(req)
                        THEN Append(calls, [msg |-> data[1].msg, body |-> BodyRead(data)])
                        ELSE calls
    /\ data' = <<>>
    /\ UNCHANGED <<ssl, stream, client>>

\* What a client's bytes are as a frame: those of a request never have the mask
\* bit of a frame set.
FrameOf(p) == IF p.part = "rest" \/ IsRequest(asked[p.msg]) THEN "unmasked" ELSE asked[p.msg].op

\* websocket_process_data (see WebSocket.tla); the route echoes.
ProcessFrame ==
    /\ pc = "process" /\ is_websocket
    /\ LET f == FrameOf(data[1]) IN
        /\ CASE f = "data" -> Answer("echo")
             [] f = "ping" -> Answer("pong")
             [] f = "close" -> Answer("closed")
             [] f = "unmasked" -> Answer("refused")
             [] OTHER -> UNCHANGED answers
        /\ pc' = IF f = "close" THEN "over" ELSE "recv"
    /\ data' = <<>>
    /\ UNCHANGED <<ssl, is_websocket, arenas, stream, calls, client>>

Server == \/ HandshakeSucceeds \/ HandshakeFails \/ NoHandshake
          \/ Recv \/ RecvEnd \/ ProcessRequest \/ ProcessFrame

-----------------------------------------------------------------------------
(* The client                                                              *)

Upgraded == \E i \in 1 .. seen : answers[i].status = "101"

AwaitsUpgrade ==
    asked # <<>> /\ IsRequest(Last(asked)) /\ Last(asked).upgrade /\ ~Upgraded

\* A client that takes turns waits until its message was taken and all that came
\* back is read.
Idle == stream = <<>> /\ data = <<>> /\ seen = Len(answers)

\* A TLS client needs its handshake; after an upgrade request every client waits.
MaySend ==
    /\ ~gone /\ Len(asked) < setting.messages
    /\ setting.speaks = "tls" => ssl
    /\ \/ Idle
       \/ setting.pipelines /\ ~AwaitsUpgrade

Pieces(m, n) ==
    LET cut(part) == <<[msg |-> n, part |-> part], [msg |-> n, part |-> "rest"]>>
    IN  {<<[msg |-> n, part |-> "whole"]>>}
        \cup (IF setting.splits /\ IsRequest(m) THEN {cut("line"), cut("headers")} ELSE {})
        \cup (IF setting.splits /\ IsRequest(m) /\ m.body THEN {cut("head")} ELSE {})

Send ==
    /\ MaySend
    /\ \E m \in IF Upgraded THEN Frames ELSE Requests :
        /\ asked' = Append(asked, m)
        /\ \E pieces \in Pieces(m, Len(asked) + 1) : stream' = stream \o pieces
    /\ UNCHANGED <<server, setting, seen, gone>>

Read ==
    /\ ~gone /\ seen < Len(answers)
    /\ seen' = seen + 1
    /\ UNCHANGED <<server, stream, setting, asked, gone>>

HangUp ==
    /\ ~gone
    /\ gone' = TRUE
    /\ UNCHANGED <<server, stream, setting, asked, seen>>

Client == Send \/ Read \/ HangUp

-----------------------------------------------------------------------------
\* The hello of a TLS client is message 0.
Init ==
    /\ pc = "accept" /\ ssl = FALSE /\ data = <<>> /\ is_websocket = FALSE /\ arenas = 0
    /\ setting \in Settings
    /\ stream = IF setting.speaks = "tls" THEN <<[msg |-> 0, part |-> "rest"]>> ELSE <<>>
    /\ asked = <<>> /\ answers = <<>> /\ seen = 0 /\ calls = <<>> /\ gone = FALSE

Next == Server \/ Client

Spec == Init /\ [][Next]_vars

\* The thread of a connection runs, and a client reads what has come.
FairSpec == Spec /\ WF_vars(Server) /\ WF_vars(Read)
-----------------------------------------------------------------------------
(* Properties                                                              *)

Answered(n) == \E i \in DOMAIN answers : answers[i].to = n

\* Messages that the server is through with
Taken == {n \in DOMAIN asked :
            \A p \in Range(stream) \cup Range(data) : p.msg # n}

Piece == [msg : 0 .. MaxMessages, part : {"whole", "line", "headers", "head", "rest"}]
Status == {"101", "200", "204", "400", "404", "500", "echo", "pong", "closed", "refused"}

TypeOK ==
    /\ pc \in {"accept", "recv", "process", "over"}
    /\ ssl \in BOOLEAN /\ is_websocket \in BOOLEAN /\ gone \in BOOLEAN
    /\ data \in Seq(Piece) /\ stream \in Seq(Piece)
    /\ pc = "process" <=> data # <<>>
    /\ arenas \in 0 .. 4 * MaxMessages + 2
    /\ setting \in Settings /\ Len(asked) <= MaxMessages
    /\ \A i \in DOMAIN answers : answers[i].to \in 0 .. Len(asked) /\ answers[i].status \in Status
    /\ seen \in 0 .. Len(answers)

\* Client and server change the protocol together: when clients wait for the
\* answer to an upgrade, no request is read as a frame and no frame as a request,
\* also when the 101 cannot be constructed (ws_upgrade sets is_websocket last).
ProtocolsAgree ==
    pc = "process" /\ data[1].part # "rest" =>
        (is_websocket <=> ~IsRequest(asked[data[1].msg]))

\* Message n asks for the end of the connection.
AsksEnd(n) ==
    n # 0 /\ IF IsRequest(asked[n])
             THEN asked[n].fault # "line" /\ (asked[n].old \/ (asked[n].fault = "none" /\ asked[n].close))
             ELSE asked[n].op = "close"

\* An answer is the last one exactly if its message asked for that: HTTP/1.0,
\* Connection: close or a close frame.  Nothing else ends a connection, no bad
\* request and no refused frame, and a request without an answer does not end it
\* either.  (A handshake that fails may swallow the request that asks.)
EndsAsAsked ==
    ~setting.secure =>
        /\ ~setting.splits => \A i \in DOMAIN answers :
                AsksEnd(answers[i].to) => i = Len(answers) /\ pc = "over"
        /\ pc = "over" /\ ~gone => answers # <<>> /\ AsksEnd(Last(answers).to)

\* One message comes in one recv, and the other way round.
TakesTurns == ~setting.splits /\ ~setting.pipelines

\* Arenas are left behind only by requests that got no answer (the two early
\* returns of http_process_request).
AnsweredRequestsLeaveNoArena ==
    TakesTurns => arenas <= 2 * Cardinality({n \in Taken : ~Answered(n)}) + (IF 0 \in {p.msg : p \in Range(stream)} THEN 0 ELSE 2)

\* After a handshake every HTTP answer and every echo goes out encrypted; without
\* one none does.
AnswersKeepTls ==
    \A i \in DOMAIN answers : answers[i].status \notin {"pong", "closed", "refused"} =>
        answers[i].channel = IF setting.secure THEN setting.speaks ELSE "plain"

\* A route finds the body of its request, the whole of it and nothing else ("Get
\* request body", http.c:956), while client and server take turns; a route for
\* another method than POST, PUT and PATCH never finds one.
BodyIsComplete ==
    \A i \in DOMAIN calls :
        LET n == calls[i].msg
        IN  /\ TakesTurns /\ asked[n].method = "POST" =>
                calls[i].body = (IF asked[n].body THEN {n} ELSE {})
            /\ asked[n].method # "POST" => calls[i].body = {}

\* Every request to a route that answers, to none, or with an error in it is
\* answered or the connection ends, also when it comes in two parts, as long as the
\* client does not send two at once and the server can write the date.
EveryRequestAnswered ==
    \A n \in 1 .. MaxMessages :
        (/\ n \in DOMAIN asked /\ IsRequest(asked[n]) /\ asked[n].target # "mute"
         /\ ~setting.pipelines /\ DateAccepted(setting.month))
            ~> (Answered(n) \/ pc = "over")

\* The thread of a client that leaves comes to its end.
LeaverIsNoticed == gone ~> pc = "over"

\* A request for which there is no route is answered with 404 ("send route not
\* found response", server_http.c:210).
RouteNotFoundIsSent ==
    \A n \in Taken :
        LET m == asked[n]
        IN  IsRequest(m) /\ m.fault = "none" /\ m.host /\ m.target = "none" /\ m.method # "OPTIONS" =>
                \E i \in DOMAIN answers : answers[i].to = n /\ answers[i].status = "404"
=============================================================================
