----------------------------- MODULE WebSocket -----------------------------
(***************************************************************************)
(* One upgraded connection: websocket_process_data of                      *)
(* src/src/server/http/server_http.c, with the route of examples/echo and  *)
(* with routes that answer text of their own.  The bytes come from a       *)
(* client that masks and encodes its frames as RFC 6455 says; what the     *)
(* server sends is compared with the same encoding.                        *)
(***************************************************************************)
EXTENDS WsFrame

CONSTANTS
    Payloads,     \* payloads of the client's frames: sequences of bytes
    Keys,         \* masking keys: sequences of four bytes
    Lengths       \* lengths of the texts that a route answers with

ASSUME WebSocketAssumption ==
    /\ Payloads \subseteq Seq(Byte)
    /\ Keys \subseteq [1 .. 4 -> Byte]
    /\ Lengths \subseteq 0 .. LengthCap - 1

VARIABLES
    frame,        \* the frame the client sent last
    buffer,       \* the bytes of it that recv returned
    in_wsf,       \* what websocket_frame_decode made of them
    out_wsf,      \* the answer that was constructed
    wire,         \* the bytes of it that were sent
    should_close, \* the result of websocket_process_data
    called        \* the route was called for this frame

vars == <<frame, buffer, in_wsf, out_wsf, wire, should_close, called>>

-----------------------------------------------------------------------------
(* RFC 6455, section 5.2                                                   *)

NetworkOrder(v, size) == [k \in 1 .. size |->
    IF size - k <= 2 THEN (v \div Weight[size - k + 1]) % 256 ELSE 0]

FrameStart(finished, opcode, masked, length) ==
    LET first == (IF finished THEN 128 ELSE 0) + opcode
        bit == IF masked THEN 128 ELSE 0
    IN  IF length <= 125 THEN <<first, bit + length>>
        ELSE IF length <= UINT16_MAX THEN <<first, bit + 126>> \o NetworkOrder(length, 2)
        ELSE <<first, bit + 127>> \o NetworkOrder(length, 8)

ClientBytes(f) ==
    FrameStart(f.finished, f.opcode, f.masked, Len(f.payload))
    \o (IF f.masked THEN f.key ELSE <<>>)
    \o [k \in DOMAIN f.payload |-> IF f.masked
                                   THEN Xor(f.payload[k], f.key[((k - 1) % 4) + 1])
                                   ELSE f.payload[k]]

ServerBytes(opcode, payload) == FrameStart(TRUE, opcode, FALSE, Len(payload)) \o payload

\* Control frames are short and whole; a close frame carries its code.
Legal(f) == f.opcode \in {CLOSE, PING, PONG} =>
                /\ f.finished /\ Len(f.payload) <= 125
                /\ f.opcode = CLOSE => Len(f.payload) # 1

ClientFrames ==
    {f \in [finished : BOOLEAN, opcode : {CON, TEXT, BIN, CLOSE, PING, PONG},
            masked : BOOLEAN, key : Keys, payload : Payloads] : Legal(f)}

BytesOf == [f \in ClientFrames |-> ClientBytes(f)]

-----------------------------------------------------------------------------
\* in_wsf as its arena is made
Cleared == Decode(<<>>)

Init ==
    /\ frame = [finished |-> TRUE, opcode |-> TEXT, masked |-> TRUE,
                key |-> CHOOSE k \in Keys : TRUE, payload |-> <<>>]
    /\ buffer = <<>>
    /\ in_wsf = Cleared
    /\ out_wsf = EmptyFrame
    /\ wire = <<>>
    /\ should_close = FALSE
    /\ called = FALSE

\* recv returns one frame, into the cleared buffer.
Arrive ==
    /\ buffer = <<>> /\ ~should_close
    /\ \E f \in ClientFrames : frame' = f /\ buffer' = BytesOf[f]
    /\ in_wsf' = Cleared /\ out_wsf' = EmptyFrame
    /\ wire' = <<>> /\ called' = FALSE
    /\ UNCHANGED should_close

\* The route of examples/echo answers with the request's own data pointer.
Echo(f) == [finished |-> TRUE, opcode |-> TEXT, closeCode |-> WS_CC_UNUSED,
            length |-> f.length, data |-> f.data]

\* Another route: some length, and the text "aaa"
Text(length) == [finished |-> TRUE, opcode |-> TEXT, closeCode |-> WS_CC_UNUSED,
                 length |-> length, data |-> <<97, 97, 97>>]

RouteAnswers(f) == {Echo(f)} \cup {Text(n) : n \in Lengths}

\* websocket_process_data_construct_out: the frames it may leave in out_wsf
Answers(f) ==
    IF ~f.finished \/ f.opcode = PONG THEN {EmptyFrame}
    ELSE IF f.opcode = PING THEN {ConstructPong}
    ELSE IF f.opcode = CLOSE THEN {ConstructClose(WS_CC_1000)}
    ELSE RouteAnswers(f)

GoesToRoute(f) == f.finished /\ f.opcode \notin {PING, PONG, CLOSE}

\* websocket_process_data
Process ==
    /\ buffer # <<>>
    /\ LET f == Decode(buffer) IN
        /\ in_wsf' = f
        /\ IF f.ok
           THEN /\ out_wsf' \in Answers(f)
                /\ called' = GoesToRoute(f)
                /\ should_close' = (f.opcode = CLOSE)
           ELSE /\ out_wsf' = ConstructClose(WS_CC_1002)
                /\ UNCHANGED <<called, should_close>>
    /\ wire' = Sent(out_wsf')
    /\ buffer' = <<>>
    /\ UNCHANGED frame

Next == Arrive \/ Process

Spec == Init /\ [][Next]_vars

-----------------------------------------------------------------------------
(* Properties                                                              *)

\* The last frame was processed: in_wsf, out_wsf and wire belong to it.
Processed == buffer = <<>> /\ in_wsf # Cleared

TypeOK ==
    /\ frame.finished \in BOOLEAN /\ frame.masked \in BOOLEAN /\ Legal(frame)
    /\ buffer \in Seq(Byte) /\ wire \in Seq(Byte) /\ in_wsf.data \in Seq(Byte)
    /\ in_wsf.length \in 0 .. LengthCap
    /\ out_wsf.length \in 0 .. LengthCap
    /\ should_close \in BOOLEAN /\ called \in BOOLEAN

\* A masked frame of up to 125 bytes is read back as it was sent: flags, opcode,
\* length and payload, for every masking key (websocket_frame_decode).
ShortFrameIsRead ==
    Processed /\ frame.masked /\ Len(frame.payload) <= 125 =>
        /\ in_wsf.finished = frame.finished /\ in_wsf.opcode = frame.opcode
        /\ in_wsf.length = Len(frame.payload)
        /\ Part(in_wsf.data, 1, in_wsf.length) = frame.payload
        /\ frame.opcode = CLOSE /\ frame.payload # <<>> =>
            NetworkOrder(in_wsf.closeCode, 2) = Part(frame.payload, 1, 2)

\* The length of an answer is written as the RFC says, in 7, 16 or 64 bits
\* ("endian has to be reversed", websocket.c:136).
AnswerLengthIsNetworkOrder ==
    Processed /\ called =>
        IsPrefix(FrameStart(TRUE, TEXT, FALSE, out_wsf.length), Encode(out_wsf))

\* A text of 1 to 125 bytes without a zero byte comes back whole from the echo
\* route, although its end is found with strlen and not with the frame's length.
EchoIsWhole ==
    Processed /\ called /\ frame.masked /\ Len(frame.payload) \in 1 .. 125
        /\ out_wsf = Echo(in_wsf) /\ (\A k \in DOMAIN frame.payload : frame.payload[k] # 0) =>
            wire = ServerBytes(TEXT, frame.payload)

\* A close frame is answered with a close frame that carries the code 1000, sent
\* whole, and it ends the connection ("if close frame, ... close socket
\* connection", server_http.c:112); an unmasked frame is answered with 1002.
CloseIsAnswered ==
    Processed =>
        /\ frame.masked => (should_close <=> frame.opcode = CLOSE)
        /\ should_close => wire = ServerBytes(CLOSE, NetworkOrder(WS_CC_1000, 2))
        /\ ~frame.masked => wire = ServerBytes(CLOSE, NetworkOrder(WS_CC_1002, 2))

\* The length that is decoded is the length of the payload ("actual payload
\* length", websocket.c:55).
LengthIsRead ==
    Processed /\ frame.masked => in_wsf.length = Len(frame.payload)
=============================================================================
