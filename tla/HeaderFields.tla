---------------------------- MODULE HeaderFields ----------------------------
(***************************************************************************)
(* The header section of a request: how src/src/http/http.c takes it       *)
(* apart line by line, and how korall_request_header_get searches the text *)
(* that it keeps.                                                          *)
(*                                                                         *)
(* A line is the words of its field name, the number of spaces behind the  *)
(* colon, and the tokens of its value.  A name of several words contains   *)
(* the names that its words spell.                                         *)
(***************************************************************************)
EXTENDS HeaderValues

CRLF == <<"\r", "\n">>

LineText(line) == line.field \o <<":">> \o [k \in 1 .. line.spaces |-> " "] \o line.value

\* What the parser copies into req->headers: the lines without the last CRLF
HeaderText(lines) ==
    FoldLeft(LAMBDA text, line : (IF text = <<>> THEN text ELSE text \o CRLF) \o LineText(line),
             <<>>, lines)

-----------------------------------------------------------------------------
(* Parsing                                                                 *)

\* Names in any case are known; the table is searched for the usual spelling.
Spelling(word) == CASE word = "connection" -> "Connection" [] word = "host" -> "Host"
                    [] OTHER -> word
\* Names of http_req_header_field_lookup_table, as far as lines have them
KnownFields == {<<"Host">>, <<"Connection">>, <<"Origin">>, <<"Upgrade">>, <<"Accept">>,
                <<"Accept", "-Language">>, <<"Accept", "-Encoding">>, <<"Content", "-Encoding">>,
                <<"Content", "-Length">>, <<"Content", "-Type">>, <<"Cache-Control">>,
                <<"Transfer", "-Encoding">>, <<"TE">>, <<"Expect">>, <<"Max-Forwards">>,
                <<"Access-Control-Request", "-Method">>, <<"Access-Control-Request", "-Headers">>,
                <<"Sec-WebSocket", "-Key">>, <<"Sec-WebSocket", "-Version">>}
CanonicalField(field) == [k \in DOMAIN field |-> Spelling(field[k])]

Methods == {"CONNECT", "DELETE", "GET", "HEAD", "OPTIONS", "PATCH", "POST", "PUT", "TRACE"}

\* http_process_access_control_request_method
RequestMethodOk(v) == v \in {<<m>> : m \in Methods}

\* http_process_request_header_value: is the value of a known field accepted?
ValueOk(field, v) ==
    CASE field = <<"Host">> -> DomainPort(v).ok
      [] field = <<"Connection">> -> ConnectionOk(v)
      [] field = <<"Upgrade">> -> UpgradeOk(v)
      [] field = <<"Accept">> -> AcceptOk(v)
      [] field = <<"Accept", "-Encoding">> -> AcceptEncodingOk(v)
      [] field = <<"Content", "-Encoding">> -> ContentEncodingOk(v)
      [] field = <<"TE">> -> TeOk(v)
      [] field = <<"Transfer", "-Encoding">> -> TransferEncodingOk(v)
      [] field = <<"Content", "-Length">> -> ContentLengthOk(v)
      [] field = <<"Content", "-Type">> -> ContentTypeOk(v)
      [] field = <<"Cache-Control">> -> CacheControlReqOk(v)
      [] field = <<"Expect">> -> ExpectOk(v)
      [] field = <<"Max-Forwards">> -> MaxForwardsOk(v)
      [] field = <<"Access-Control-Request", "-Method">> -> RequestMethodOk(v)
      [] field = <<"Access-Control-Request", "-Headers">> ->
            FieldListOk(v, {"Accept", "Connection", "Host", "Origin"})
      [] field = <<"Sec-WebSocket", "-Key">> -> WsKeyOk(v)
      [] field = <<"Sec-WebSocket", "-Version">> -> WsVersionOk(v)
      [] OTHER -> TRUE

\* http_process_response_header_value
ResponseValueOk(field, v) ==
    CASE field = <<"Content", "-Length">> -> ContentLengthOk(v)
      [] field = <<"Content", "-Type">> -> ContentTypeOk(v)
      [] field = <<"Connection">> -> ConnectionOk(v)
      [] field = <<"Cache-Control">> -> CacheControlResOk(v)
      [] field = <<"Transfer", "-Encoding">> -> TransferEncodingOk(v)
      [] field = <<"Tk">> -> TkOk(v)
      [] field = <<"Upgrade">> -> UpgradeOk(v)
      [] OTHER -> TRUE

\* http_header_allowed
HeaderAllowed(allow_headers, field) ==
    allow_headers = <<"*">> \/ \E k \in DOMAIN allow_headers : <<allow_headers[k]>> = field

MaxValueLen == 4096         \* MAX_HTTP_HEADER_VALUE_LEN

\* http_request_process_header on one line
LineOk(line, allow_headers) ==
    LET field == CanonicalField(line.field)
    IN  /\ Fits(line.field, MaxFieldLen)
        /\ field \in KnownFields \/ HeaderAllowed(allow_headers, line.field)
        /\ Fits(line.value, MaxValueLen)
        /\ field \in KnownFields => ValueOk(field, line.value)

NoHost == [domain |-> <<>>, port |-> <<>>]
NoFields == [ok |-> TRUE, host |-> NoHost, has |-> {}]

\* What a line leaves in the request: the last Host, and the marks of the four
\* fields that a WebSocket upgrade needs
Kept(kept, line) ==
    LET field == CanonicalField(line.field)
        host == DomainPort(line.value)
    IN  CASE field = <<"Host">> -> [kept EXCEPT !.host = [domain |-> host.domain, port |-> host.port]]
          [] field = <<"Upgrade">> -> [kept EXCEPT !.has = @ \cup {"upgrade"}]
          [] field = <<"Connection">> /\ line.value = <<"upgrade">> ->
                [kept EXCEPT !.has = @ \cup {"connection"}]
          [] field = <<"Sec-WebSocket", "-Key">> -> [kept EXCEPT !.has = @ \cup {"key"}]
          [] field = <<"Sec-WebSocket", "-Version">> -> [kept EXCEPT !.has = @ \cup {"version"}]
          [] OTHER -> kept

\* http_request_process_headers: stops at the first line that is refused
ReadFields(lines, allow_headers) ==
    FoldLeft(LAMBDA kept, line :
                 IF ~kept.ok THEN kept
                 ELSE IF ~LineOk(line, allow_headers) THEN [kept EXCEPT !.ok = FALSE]
                 ELSE Kept(kept, line),
             NoFields, lines)

-----------------------------------------------------------------------------
(* korall_request_header_get                                               *)

\* The text without its first character; of a longer word "cut" is left.
CutFirst(s) == IF s = <<>> THEN s ELSE (IF Len(s[1]) = 1 THEN <<>> ELSE <<"cut">>) \o Tail(s)

\* Fault: the field may stand in the middle of a line.
HeaderGetInside(text, field, room) ==
    LET at == Find(text, field)
        rest == SubSeq(text, at, Len(text))
        value == CutFirst(After(rest, ":"))
        end == Find(value, CRLF)
        found == IF end = 0 THEN value ELSE SubSeq(value, 1, end - 1)
    IN  IF at = 0 \/ ~Contains(rest, ":") \/ ~Fits(found, room) THEN NotFound ELSE found

\* The first place where the name occurs must be the beginning of a line; the byte in
\* front of the text is one of a pointer (http_request_init) and ends no line.  The
\* value starts two characters behind the next colon.
HeaderGet(text, field, room) ==
    LET at == Find(text, field)
        rest == SubSeq(text, at, Len(text))
        value == CutFirst(After(rest, ":"))
        end == Find(value, CRLF)
        found == IF end = 0 THEN value ELSE SubSeq(value, 1, end - 1)
    IN  IF at = 0 \/ ~(at = 1 \/ (at > 2 /\ SubSeq(text, at - 2, at - 1) = CRLF)) THEN NotFound
        ELSE IF ~Contains(rest, ":") \/ ~Fits(found, room) THEN NotFound
        ELSE found

-----------------------------------------------------------------------------
(* The same by lines                                                       *)

\* The line that a reader would take for the field: the first with that very name,
\* provided that no earlier line mentions it, by part of its name or in its value
ReadableLine(lines, field) ==
    {k \in DOMAIN lines :
        /\ lines[k].field = field /\ lines[k].spaces = 1
        /\ \A j \in 1 .. k - 1 : Find(LineText(lines[j]), field) = 0}

\* The lines whose names begin with the field's
LinesBeginningWith(lines, field) == {k \in DOMAIN lines : IsPrefix(field, lines[k].field)}
=============================================================================
