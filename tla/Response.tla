------------------------------ MODULE Response ------------------------------
(***************************************************************************)
(* The response object of src/src/http/http.c: its buffers in an arena,    *)
(* the functions that write to them and check their limits, and the text   *)
(* that is sent.  Of every text only the length matters.                   *)
(*                                                                         *)
(* A response is a record: the status and the length of the start line     *)
(* (0 before one is set), the number of headers and the length of their    *)
(* text, the last Content-Length and how many there are, the length of     *)
(* what the body buffer holds, and "ok", whether the last function that    *)
(* worked on it returned success.                                          *)
(***************************************************************************)
EXTENDS Arena, Base64

CONSTANT HeaderCapacity     \* HTTP_RES_HEADER_COUNT, 100 in http.h

ASSUME HeaderCapacityAssumption == HeaderCapacity \in Nat \ {0}

HeaderLen == 8192           \* HTTP_RES_HEADER_LEN
HeadersLen == HeaderLen * HeaderCapacity
BodyLen == 1048576          \* HTTP_RES_BODY_LEN
\* HTTP_RES_START_LINE_LEN: protocol, a space, code, the longest phrase, CRLF
StartLineLen == 8 + 1 + 3 + 34 + 2
ResSize == StartLineLen + HeadersLen + BodyLen
ResponseSize == 88          \* sizeof(HTTPResponse) where a pointer has 8 bytes

\* http_response_init in an arena of HTTP_RES_ARENA_SIZE bytes
ResponseArena ==
    ArenaAlloc(ArenaAlloc(ArenaAlloc(ArenaAlloc(ArenaInit(ResSize + 1024),
        ResponseSize), StartLineLen + 1), HeadersLen + 1), BodyLen + 1)

\* http_request_init in an arena of HTTP_REQ_ARENA_SIZE bytes: target, start line,
\* domain, port, host, headers, body, accept key, marks, request
ReqLineLen == 7 + 1 + 2048 + 1 + 8 + 2
RequestArena ==
    LET a5 == ArenaAlloc(ArenaAlloc(ArenaAlloc(ArenaAlloc(ArenaAlloc(
                  ArenaInit(ReqLineLen + HeadersLen + BodyLen + 1024),
                  ReqLineLen + 1), 16), 256), 6), 16)
    IN  ArenaAlloc(ArenaAlloc(ArenaAlloc(ArenaAlloc(ArenaAlloc(a5,
            HeadersLen + 1), BodyLen + 1), EncodedSize(20) + 1), 16), 40)

NoStatus == "none"
NewResponse == [status |-> NoStatus, start |-> 0, count |-> 0, length |-> 0,
                contentLength |-> -1, contentLengths |-> 0, body |-> 0, ok |-> TRUE]

\* The phrases of http_status_code_lookup_table by their lengths: for the codes the
\* library sends, the shortest phrase and the longest
PhraseLength == [HTTP_SC_101 |-> 19, HTTP_SC_200 |-> 2, HTTP_SC_204 |-> 10, HTTP_SC_400 |-> 11,
                 HTTP_SC_404 |-> 9, HTTP_SC_413 |-> 17, HTTP_SC_444 |-> 34, HTTP_SC_500 |-> 21]

-----------------------------------------------------------------------------
(* Headers                                                                 *)

\* A header line: its length with ": " and CRLF, whether the value is valid for the
\* field and neither is NULL, and the number if it is a Content-Length
Header(length, valid) == [length |-> length, valid |-> valid, number |-> -1]

\* The digits of a number of at most MAX_HTTP_BODY_DIGIT_LEN digits
Digits(n) ==
    IF n < 10 THEN 1 ELSE IF n < 100 THEN 2 ELSE IF n < 1000 THEN 3 ELSE IF n < 10000 THEN 4
    ELSE IF n < 100000 THEN 5 ELSE IF n < 1000000 THEN 6 ELSE 7
ContentLengthOf(n) == [length |-> 18 + Digits(n), valid |-> TRUE, number |-> n]

DateLine(inTable) == Header(4 + 29 + 4, inTable)
ServerLine == Header(16, TRUE)

\* Fault: the four characters of ": " and CRLF are not counted.
HeaderSetBare(r, h) ==
    IF r.count >= HeaderCapacity \/ h.length > HeaderLen + 4 \/ ~h.valid
    THEN [r EXCEPT !.ok = FALSE]
    ELSE [r EXCEPT !.ok = TRUE, !.count = @ + 1, !.length = @ + h.length,
                   !.contentLength = IF h.number >= 0 THEN h.number ELSE @,
                   !.contentLengths = IF h.number >= 0 THEN @ + 1 ELSE @]

\* Fault: one header too many.
HeaderSetOverfull(r, h) ==
    IF r.count > HeaderCapacity \/ h.length > HeaderLen \/ ~h.valid
    THEN [r EXCEPT !.ok = FALSE]
    ELSE [r EXCEPT !.ok = TRUE, !.count = @ + 1, !.length = @ + h.length,
                   !.contentLength = IF h.number >= 0 THEN h.number ELSE @,
                   !.contentLengths = IF h.number >= 0 THEN @ + 1 ELSE @]

\* korall_response_header_set
HeaderSet(r, h) ==
    IF r.count >= HeaderCapacity \/ h.length > HeaderLen \/ ~h.valid
    THEN [r EXCEPT !.ok = FALSE]
    ELSE [r EXCEPT !.ok = TRUE, !.count = @ + 1, !.length = @ + h.length,
                   !.contentLength = IF h.number >= 0 THEN h.number ELSE @,
                   !.contentLengths = IF h.number >= 0 THEN @ + 1 ELSE @]

\* A further step of a function that returns at the first error
Then(r, h) == IF r.ok THEN HeaderSet(r, h) ELSE r

-----------------------------------------------------------------------------
(* Start line and body                                                     *)

\* korall_response_start_set: the start line is written before the Date and Server
\* headers, and stays when one of them fails.
StartSet(r, code, dateOk) ==
    IF code \notin DOMAIN PhraseLength THEN [r EXCEPT !.ok = FALSE]
    ELSE Then(HeaderSet([r EXCEPT !.status = code, !.start = 8 + 1 + 3 + 1 + PhraseLength[code] + 2],
                        DateLine(dateOk)),
              ServerLine)

\* Fault: the body is written before its Content-Length is.
BodySetFirst(r, n) ==
    IF n > BodyLen THEN [r EXCEPT !.ok = FALSE]
    ELSE HeaderSet([r EXCEPT !.body = 2 + n], ContentLengthOf(n))

\* Fault: the CRLF before the body is counted as part of it.
BodySetWithBreak(r, n) ==
    IF n > BodyLen THEN [r EXCEPT !.ok = FALSE]
    ELSE LET headed == HeaderSet(r, ContentLengthOf(n + 2))
         IN  IF headed.ok THEN [headed EXCEPT !.body = 2 + n] ELSE headed

\* korall_response_body_set: no body without its Content-Length.  The buffer gets
\* CRLF, the body and a zero byte.
BodySet(r, n) ==
    IF n > BodyLen THEN [r EXCEPT !.ok = FALSE]
    ELSE LET headed == HeaderSet(r, ContentLengthOf(n))
         IN  IF headed.ok THEN [headed EXCEPT !.body = 2 + n] ELSE headed

\* http_response_construct with a body of n characters, whose result is not looked
\* at, or with none (n < 0)
Construct(r, code, n, dateOk) ==
    LET started == StartSet(r, code, dateOk)
        typed == Then(started, Header(14 + 16 + 2, TRUE))
    IN  IF n < 0 THEN Then(started, ContentLengthOf(0))
        ELSE IF typed.ok THEN [BodySet(typed, n) EXCEPT !.ok = TRUE] ELSE typed

\* http_response_ws_construct: a second Server, Upgrade, Connection, the accept key
ConstructUpgrade(r, dateOk) ==
    Then(Then(Then(Then(Then(StartSet(r, "HTTP_SC_101", dateOk), ServerLine),
        Header(20, TRUE)), Header(21, TRUE)), Header(24 + EncodedSize(20), TRUE)), ContentLengthOf(0))

\* http_response_send: start line, headers, and CRLF in place of an empty body
SentLength(r) == r.start + r.length + (IF r.body = 0 THEN 2 ELSE r.body)

-----------------------------------------------------------------------------
(* What is promised about one response                                     *)

\* Each text and its zero byte end before the next block of the arena begins.
Inside(r) ==
    LET from(k) == ResponseArena.blocks[k].from
    IN  /\ from(2) + r.start < from(3)
        /\ from(3) + r.length < from(4)
        /\ from(4) + r.body < ResponseArena.capacity

\* The text and its zero byte fit the buffer of http_response_send, which is not
\* rounded up.
FitsSendBuffer(r) == SentLength(r) + 1 <= ResSize + 1

\* A body has its length as the last Content-Length.
IsFramed(r) == r.body # 0 => r.contentLength = r.body - 2
=============================================================================
