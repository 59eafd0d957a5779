------------------------------ MODULE Exchange ------------------------------
(***************************************************************************)
(* One request and its answer: http_process_request of                     *)
(* src/src/server/http/server_http.c from the text that was received to    *)
(* the text that is sent, composed of the target (RequestTarget), the      *)
(* header section (HeaderFields) and the response (Response).  A route's   *)
(* callback may call the functions of the library in any order.            *)
(***************************************************************************)
EXTENDS RequestTarget, HeaderFields, Response

CONSTANTS
    Cases,        \* requests, each with the server it is sent to
    Names,        \* field names that are looked up
    Params        \* names of parameters that are looked up

\* Data behind an empty header section would be read as a header.
CaseType(c) ==
    /\ c.method \in Methods \cup {"BREW"}
    /\ c.target \in Seq(STRING) /\ c.protocol \in {"HTTP/1.1", "HTTP/1.0", "HTTP/2"}
    /\ c.lines \in Seq([field : Seq(STRING), spaces : Nat, value : Seq(STRING)])
    /\ c.body \in BOOLEAN /\ c.credentials \in BOOLEAN /\ c.september \in BOOLEAN
    /\ c.lines = <<>> => ~c.body
    \* The lines are those of the text: none of them has the end of a line inside.
    /\ \A k \in DOMAIN c.lines : Find(c.lines[k].field, CRLF) = 0 /\ Find(c.lines[k].value, CRLF) = 0
    /\ \A k \in DOMAIN c.lines : HasWidths(c.lines[k].value)
    /\ HasWidths(c.target)
    \* what the callback may call: bound "calls" on how often, the lengths of custom
    \* header lines, header lines that are validated, the lengths of bodies
    /\ c.callback.calls \in Nat
    /\ c.callback.lengths \subseteq Nat /\ c.callback.bodies \subseteq Nat
    /\ \A h \in c.callback.known : {TextLen(h.field), TextLen(h.value)} \subseteq Nat
    \* the lengths of the lists of methods (-1 if it is too long) and of header fields
    /\ c.methodsLen \in Nat \cup {-1} /\ c.allowHeadersLen \in Nat

ASSUME ExchangeAssumption == \A c \in Cases : CaseType(c)

\* A name that is looked up has no character that ends a name.
ASSUME NamesAssumption ==
    /\ \A name \in Names :
        name \in Seq(STRING) \ {<<>>} /\ \A k \in DOMAIN name : name[k] \notin {":", "\r", "\n"}
    /\ \A name \in Params : name \in Seq(STRING) /\ \A k \in DOMAIN name : name[k] # "="

VARIABLES
    stage,        \* how far http_process_request has come
    case,         \* the request and the server
    req,          \* what the parser made of it
    res,          \* the response
    calls,        \* how many functions the callback has called
    ownLength,    \* it has set a Content-Length itself
    sent,         \* the length of the text that was sent, 0 if none was
    should_close

vars == <<stage, case, req, res, calls, ownLength, sent, should_close>>

-----------------------------------------------------------------------------
(* http_request_parse                                                      *)

\* http_request_process_target
TargetOk(method, s) ==
    /\ Fits(s, MaxUrlLen)
    /\ IF method = "CONNECT" THEN DomainPort(s).ok /\ DomainPort(s).with_port
       ELSE \/ method = "OPTIONS" /\ s = <<"*">>
            \/ RelativeOk(s)
            \/ AbsoluteOk(s)

\* http_request_process_protocol; http_request_process_body
Protocols == {"HTTP/1.1", "HTTP/1.0"}
MethodsWithBody == {"PUT", "PATCH", "POST"}

\* The request as the parser leaves it: "upTo" is where it stopped.  The text of the
\* headers is copied when all of them have been accepted.  A body that the method
\* does not allow is an error that http_request_parse does not look at.
Parsed(c) ==
    LET fields == ReadFields(c.lines, c.allow_headers)
        upTo == IF c.method \notin Methods THEN "method"
                ELSE IF ~TargetOk(c.method, c.target) THEN "target"
                ELSE IF c.protocol \notin Protocols THEN "protocol"
                ELSE IF ~fields.ok THEN "headers"
                ELSE "end"
    IN  [upTo |-> upTo,
         target |-> IF upTo \in {"method", "target"} THEN <<>> ELSE c.target,
         old |-> upTo \in {"headers", "end"} /\ c.protocol = "HTTP/1.0",
         headers |-> IF upTo = "end" THEN HeaderText(c.lines) ELSE <<>>,
         host |-> fields.host,
         has |-> fields.has,
         body |-> upTo = "end" /\ c.body /\ c.method \in MethodsWithBody]

NoRequest == [upTo |-> "start", target |-> <<>>, old |-> FALSE, headers |-> <<>>,
              host |-> NoHost, has |-> {}, body |-> FALSE]

-----------------------------------------------------------------------------
(* http_process_request_construct_response                                 *)

\* http_domain_port_match_server; a CONNECT target must name the server, too.
HostMatches(r, c) ==
    LET target == DomainPort(r.target)
    IN  /\ c.method = "CONNECT" =>
            target.domain = c.server.domain /\ target.port = c.server.port
        /\ r.host = c.server

\* http_verify_origin: the length of the origin that is allowed, -1 if none is.
\* NotFound is no origin of a list.
AllowedOrigin(r, c) ==
    LET origin == HeaderGet(r.headers, <<"Origin">>, 255)
    IN  IF origin = NotFound \/ c.origins = <<>> THEN -1
        ELSE IF c.origins = << <<"*">> >> THEN IF c.credentials THEN TextLen(origin) ELSE 1
        ELSE IF origin \in Range(c.origins) THEN TextLen(origin) ELSE -1

\* The headers that CORS adds before anything else; a failure is not looked at.
WithCors(r, c) ==
    LET creds == HeaderSet(HeaderSet(NewResponse, Header(32 + 4 + 4, TRUE)),
                           Header(4 + 6 + 4, TRUE))
        base == IF c.credentials THEN creds ELSE NewResponse
        origin == AllowedOrigin(r, c)
    IN  IF origin = -1 THEN base ELSE HeaderSet(base, Header(27 + 4 + origin, TRUE))

\* http_process_request_options: the response, or with its headers added where
\* "ok" says that it goes on
RequestedMethod(r) == HeaderGet(r.headers, <<"Access-Control-Request", "-Method">>, 7)
RequestedHeaders(r) == HeaderGet(r.headers, <<"Access-Control-Request", "-Headers">>, 4096)
WithOptions(r, c, base) ==
    LET methods == HeaderSet(base, Header(28 + 4 + c.methodsLen, TRUE))
    IN  IF RequestedHeaders(r) = NotFound THEN methods
        ELSE HeaderSet(methods, Header(28 + 4 + c.allowHeadersLen, TRUE))

Init ==
    /\ stage = "parse" /\ case \in Cases /\ req = NoRequest
    /\ res = NewResponse /\ calls = 0 /\ ownLength = FALSE
    /\ sent = 0 /\ should_close = FALSE

MessageLen == 80            \* ERROR_MESSAGE texts have less than a hundred characters

\* http_response_construct ends the making of the response, and -1 all of it.
Answer(r) == res' = r /\ stage' = IF r.ok THEN "send" ELSE "silent"
Enter(to) == stage' = to /\ UNCHANGED res
Fail(base, code) == Answer(Construct(base, code, MessageLen, ~case.september))

\* http_request_parse, and the answer to an error
Parse ==
    /\ stage = "parse"
    /\ req' = Parsed(case)
    /\ IF req'.upTo = "end" THEN Enter("judge") ELSE Fail(res, "HTTP_SC_400")
    /\ UNCHANGED <<case, calls, ownLength, sent, should_close>>

Judge ==
    /\ stage = "judge"
    /\ IF ~HostMatches(req, case) THEN Fail(res, "HTTP_SC_400")
       ELSE /\ res' = [WithCors(req, case) EXCEPT !.ok = TRUE]
            /\ stage' = IF case.method = "OPTIONS" THEN "options" ELSE "route"
    /\ UNCHANGED <<case, req, calls, ownLength, sent, should_close>>

Options ==
    /\ stage = "options"
    /\ IF RequestedMethod(req) = NotFound THEN Fail(res, "HTTP_SC_400")
       ELSE IF case.methodsLen < 0 THEN Fail(res, "HTTP_SC_500")
       ELSE res' = [WithOptions(req, case, res) EXCEPT !.ok = TRUE] /\ stage' = "route"
    /\ UNCHANGED <<case, req, calls, ownLength, sent, should_close>>

\* req_is_ws_upgrade
IsUpgrade == req.has = {"key", "connection", "upgrade", "version"}

\* ws_upgrade, the 204 of a preflight, or http_route_select
Route ==
    /\ stage = "route"
    /\ IF IsUpgrade
       THEN IF PathOf(req.target) \in case.wsPaths
            THEN Answer(ConstructUpgrade(res, ~case.september))
            ELSE Fail(res, "HTTP_SC_404")
       ELSE IF case.method = "OPTIONS" THEN Answer(Construct(res, "HTTP_SC_204", -1, ~case.september))
       ELSE IF <<case.method, PathOf(req.target)>> \in case.routes THEN Enter("callback")
       ELSE Fail(res, "HTTP_SC_404")
    /\ UNCHANGED <<case, req, calls, ownLength, sent, should_close>>

\* The callback calls a function of the library.  It may ignore its result.
Call(r) ==
    /\ stage = "callback" /\ calls < case.callback.calls /\ calls' = calls + 1
    /\ res' = r
    /\ UNCHANGED <<stage, case, req, sent, should_close>>
CallStart == /\ \E code \in {"HTTP_SC_200", "HTTP_SC_444", "HTTP_SC_700"} :
                    Call(StartSet(res, code, ~case.september))
             /\ UNCHANGED ownLength
\* A header that the library does not know: only its length is judged.
CallCustom == /\ \E n \in case.callback.lengths : Call(HeaderSet(res, Header(n, TRUE)))
              /\ UNCHANGED ownLength
CallHeader ==
    /\ \E h \in case.callback.known :
        Call(HeaderSet(res, Header(TextLen(h.field) + TextLen(h.value) + 4,
                                   ResponseValueOk(h.field, h.value))))
    /\ UNCHANGED ownLength
CallContentLength == Call(HeaderSet(res, ContentLengthOf(7))) /\ ownLength' = TRUE
CallBody == /\ \E n \in case.callback.bodies : Call(BodySet(res, n))
            /\ UNCHANGED ownLength

\* The callback returns; without a start line nothing is sent.
Return ==
    /\ stage = "callback"
    /\ Enter(IF res.start = 0 THEN "silent" ELSE "send")
    /\ UNCHANGED <<case, req, calls, ownLength, sent, should_close>>

\* The tail of http_process_request
WantsClose(r) == HeaderGet(r.headers, <<"Connection">>, 20) = <<"close">> \/ r.old

Send ==
    /\ stage = "send" /\ stage' = "over"
    /\ sent' = SentLength(res)
    /\ should_close' = WantsClose(req)
    /\ UNCHANGED <<case, req, res, calls, ownLength>>

Next == \/ Parse \/ Judge \/ Options \/ Route
        \/ CallStart \/ CallCustom \/ CallHeader \/ CallContentLength \/ CallBody \/ Return \/ Send

Spec == Init /\ [][Next]_vars

-----------------------------------------------------------------------------
(* Properties                                                              *)

\* The variables keep their types, and a request that reaches its judge is one that
\* the parser has accepted to its end.
TypeOK ==
    /\ stage \in {"parse", "judge", "options", "route", "callback", "send", "silent", "over"}
    /\ req.upTo \in {"start", "method", "target", "protocol", "headers", "end"}
    /\ stage \in {"judge", "options", "route", "callback"} => req.upTo = "end"
    /\ req.has \subseteq {"key", "connection", "upgrade", "version"}
    /\ res.status \in DOMAIN PhraseLength \cup {NoStatus}
    /\ {res.start, res.length, res.contentLengths, res.body, calls, sent} \subseteq Nat
    /\ res.count \in 0 .. HeaderCapacity
    /\ {ownLength, should_close, req.old, req.body} \subseteq BOOLEAN

\* Whatever a callback calls, no text of a response runs into the next block of the
\* arena or past its end, and both arenas are large enough for their first blocks
\* (http_response_init, http_request_init): arena_alloc never ends the process.
WritesStayInside ==
    /\ ~ResponseArena.exited /\ ~RequestArena.exited
    /\ Inside(res)

\* What http_response_send joins with sprintf fits its buffer.  The start line may
\* be a byte longer than its limit and the body two, and no limit is left for the
\* zero byte: it fits because there is no body without a short header.
SendBufferHolds == FitsSendBuffer(res)

\* A response that has a body has a Content-Length, and the last one is the length of
\* the body, unless the callback has set that header itself; a response made by the
\* library has exactly one.
AnswersAreFramed ==
    /\ ownLength \/ IsFramed(res)
    /\ stage = "send" /\ calls = 0 => res.contentLengths = 1

\* The scanner of http_request_process_target_relative, with its local counters,
\* accepts exactly the targets of the grammar, up to the limit on their length.
TargetFollowsGrammar ==
    req.upTo \notin {"start", "method"} /\ case.method # "CONNECT" /\ CharAt(case.target, 1) = "/" =>
        (req.upTo # "target" <=> IsRelative(case.target) /\ Fits(case.target, MaxUrlLen))

\* korall_request_header_get returns the value of the first line with the name that
\* was asked for, if a space is behind its colon and no earlier line mentions the
\* name; and it returns nothing if no line begins with the name.  A parameter of the
\* query is found in the same way by korall_request_param_get.
LookupReadsLines ==
    stage = "judge" =>
        /\ \A name \in Names :
            LET found == HeaderGet(req.headers, name, MaxValueLen)
                readable == ReadableLine(case.lines, name)
            IN  /\ \A k \in readable : found = case.lines[k].value
                /\ found # NotFound => LinesBeginningWith(case.lines, name) # {}
        /\ \A name \in Params : \A k \in ParamStarts(After(req.target, "?"), name) :
            ParamGet(req.target, name, MaxUrlLen) = ParamValue(After(req.target, "?"), name, k)

\* The loops over Cache-Control, with their three searches for the end of a name,
\* judge every directive of a request as the grammar does; those of a response may
\* be refused although they are valid, but are not accepted otherwise.
CacheListIsJudged ==
    stage = "parse" => \A k \in DOMAIN case.lines :
        LET v == case.lines[k].value
        IN  case.lines[k].field = <<"Cache-Control">> =>
            /\ CacheControlReqOk(v)
                  <=> IsCacheControl(v, ReqDirectives, ReqTakesValue, MaxReqDirective)
            /\ CacheControlResOk(v)
                  => IsCacheControl(v, ResDirectives, ResTakesValue, MaxResDirective)
=============================================================================
