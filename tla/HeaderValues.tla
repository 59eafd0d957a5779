---------------------------- MODULE HeaderValues ----------------------------
(***************************************************************************)
(* The values of header fields: src/src/http/http_headers.c with the       *)
(* tables of src/src/lookup/lookup_tables.c, the calendar of               *)
(* src/src/utils/date/date.c and the address checks of                     *)
(* src/src/socket/socket.c.                                                *)
(*                                                                         *)
(* A value is a sequence of tokens: the words of the tables, separators,   *)
(* spaces and numbers.  Where the code compares without regard to case, a  *)
(* word stands for all its spellings.                                      *)
(***************************************************************************)
EXTENDS Text

ContentEncodings == {"gzip", "compress", "deflate", "br", "zstd", "dcb", "dcz"}
AcceptEncodings == ContentEncodings \cup {"*", "identity"}
TeCodings == {"*", "gzip", "compress", "deflate", "trailers"}
TransferCodings == {"*", "gzip", "compress", "deflate", "chunked"}
Connections == {"keep-alive", "close", "upgrade"}
\* One media type of each kind that http_process_content_type tells apart
PlainTypes == {"*/*", "text/html", "application/json"}
MultipartTypes == {"multipart/form-data"}
MediaTypes == PlainTypes \cup MultipartTypes
Charsets == {"utf-8", "iso-8859-1"}

ReqDirectives == {"max-age", "max-stale", "min-fresh", "no-cache", "no-store",
                  "no-transform", "only-if-cached", "stale-if-error"}
ResDirectives == {"max-age", "s-maxage", "no-cache", "no-store", "no-transform",
                  "must-revalidate", "proxy-revalidate", "must-understand", "private",
                  "public", "immutable", "stale-while-revalidate", "stale-if-error"}
\* HTTP_REQ_CC_HAS_VAL and HTTP_RES_CC_HAS_VAL
ReqTakesValue == {"max-age", "max-stale", "min-fresh", "stale-if-error"}
ResTakesValue == {"max-age", "s-maxage", "stale-while-revalidate", "stale-if-error"}

MaxReqDirective == 14       \* MAX_HTTP_REQ_CC_LEN
MaxResDirective == 21       \* MAX_HTTP_RES_CC_LEN
MaxResSeconds == 31536000   \* MAX_HTTP_CC_SEC

\* The lengths of the words that the code counts on: a space is cut off as one
\* character, and no two directives of a request fit the buffer for one.
ASSUME WordsAssumption ==
    /\ Len(" ") = 1 /\ Width(",") \in Nat
    /\ \A d \in ReqDirectives : Width(d) \in Nat /\ 2 * Width(d) > MaxReqDirective - Width(",")

\* str_to_int on the numbers that occur: those that fit an int, and one that does not
NumberOf == [n \in {"0", "1", "5", "13", "31536001", "-1"} |->
                CASE n = "0" -> 0 [] n = "1" -> 1 [] n = "5" -> 5 [] n = "13" -> 13
                  [] n = "31536001" -> MaxResSeconds + 1 [] OTHER -> -1]
Numbers == DOMAIN NumberOf
IsInt(v) == Len(v) = 1 /\ v[1] \in Numbers

-----------------------------------------------------------------------------
(* Lists                                                                   *)

\* The items of a comma-separated list, in order.  Spaces are skipped behind a
\* comma, not before one and not at the beginning.
ListItems(v) ==
    FoldLeft(LAMBDA items, w :
                 IF w = "," THEN Append(items, <<>>)
                 ELSE IF w = " " /\ Last(items) = <<>> /\ Len(items) > 1 THEN items
                 ELSE [items EXCEPT ![Len(items)] = Append(@, w)],
             << <<>> >>, v)

\* The weight behind ";": "q=1" and no more, or "q=0." and at least one digit
WeightOk(w) == \/ w = <<"q=", "1">>
               \/ Len(w) > 2 /\ w[1] = "q=" /\ w[2] = "0."
                  /\ \A k \in 3 .. Len(w) : w[k] \in Numbers \ {"-1"}

\* http_process_weighted_list and http_process_list
WeightedListOk(v, table) ==
    \A k \in DOMAIN ListItems(v) :
        LET item == ListItems(v)[k]
        IN  /\ Before(item, ";") \in {<<w>> : w \in table}
            /\ Contains(item, ";") => WeightOk(After(item, ";"))
ListOk(v, table) == \A k \in DOMAIN ListItems(v) : ListItems(v)[k] \in {<<w>> : w \in table}

\* http_process_accept, http_process_accept_encoding, http_process_content_encoding,
\* http_process_te, http_process_transfer_encoding
AcceptOk(v) == WeightedListOk(v, MediaTypes)
AcceptEncodingOk(v) == WeightedListOk(v, AcceptEncodings)
ContentEncodingOk(v) == WeightedListOk(v, ContentEncodings)
TeOk(v) == WeightedListOk(v, TeCodings)
TransferEncodingOk(v) == ListOk(v, TransferCodings)

\* http_process_access_control_request_headers: a name that does not fit the
\* buffer ends the check, and the value is accepted.
MaxFieldLen == 32           \* MAX_HTTP_HEADER_FIELD_LEN
FieldListOk(v, fields) ==
    LET items == ListItems(v)
        long == SelectInSeq(items, LAMBDA item : ~Fits(item, MaxFieldLen))
    IN  \A k \in DOMAIN items : (long = 0 \/ k < long) => items[k] \in {<<f>> : f \in fields}

-----------------------------------------------------------------------------
(* Cache-Control                                                           *)

\* What follows a directive: nothing, or another one behind a comma and spaces.
NextDirective(rest) == SkipSpaces(Tail(rest))

\* The three fill_string_char of the loop: up to the first "=" of the whole value
\* if that fits the buffer, else up to the first ",", else to the end.
NameAtEquals(v, max) == Contains(v, "=") /\ Fits(Before(v, "="), max)
HasName(v, max) == NameAtEquals(v, max) \/ Fits(Before(v, ","), max)

\* Fault: the buffer for a name has the size of the one for responses.
FirstNameOfTwentyOne(v, max) ==
    IF NameAtEquals(v, MaxResDirective) THEN Before(v, "=") ELSE Before(v, ",")

FirstName(v, max) == IF NameAtEquals(v, max) THEN Before(v, "=") ELSE Before(v, ",")

\* http_process_cache_control_req and http_process_cache_control_res: one pass of
\* the loop per element.  "left" is what has not been read.
CacheControlOk(v, table, takes, max, limit) ==
    LET pass(st) ==
            LET name == FirstName(st.left, max)
                rest == SubSeq(st.left, Len(name) + 1, Len(st.left))
                sec == Before(Tail(rest), ",")
                behind == SubSeq(rest, Len(sec) + 2, Len(rest))
            IN  IF st.verdict # "open" THEN st
                ELSE IF ~HasName(st.left, max) THEN [st EXCEPT !.verdict = "accepted"]
                ELSE IF name \notin {<<d>> : d \in table} THEN [st EXCEPT !.verdict = "refused"]
                ELSE IF rest = <<>> THEN [st EXCEPT !.verdict = "accepted"]
                ELSE IF rest[1] = "," THEN [st EXCEPT !.left = NextDirective(rest)]
                ELSE IF name[1] \notin takes \/ ~IsInt(sec) \/ NumberOf[sec[1]] > limit
                     THEN [st EXCEPT !.verdict = "refused"]
                ELSE IF behind = <<>> THEN [st EXCEPT !.verdict = "accepted"]
                ELSE [st EXCEPT !.left = NextDirective(behind)]
    IN  FoldLeft(LAMBDA st, k : pass(st), [left |-> v, verdict |-> "open"],
                 [k \in 1 .. Len(v) + 1 |-> k]).verdict = "accepted"

MaxInt == 2147483647
CacheControlReqOk(v) == CacheControlOk(v, ReqDirectives, ReqTakesValue, MaxReqDirective, MaxInt)
CacheControlResOk(v) ==
    CacheControlOk(v, ResDirectives, ResTakesValue, MaxResDirective, MaxResSeconds)

\* The same by a grammar: directives in order, each known, with a number where one
\* is allowed; the first name that does not fit the buffer ends the check.
IsDirective(d, table, takes) ==
    \/ d \in {<<name>> : name \in table}
    \/ Len(d) = 3 /\ d[1] \in takes /\ d[2] = "=" /\ d[3] \in Numbers
IsCacheControl(v, table, takes, max) ==
    LET items == ListItems(v)
        long == SelectInSeq(items, LAMBDA d : ~Fits(Before(d, "="), max))
    IN  \A k \in DOMAIN items : (long = 0 \/ k < long) => IsDirective(items[k], table, takes)

-----------------------------------------------------------------------------
(* Dates                                                                   *)

DayNames == {"Mon", "Tue", "Wed", "Thu", "Fri", "Sat", "Sun"}
MonthNames == <<"Jan", "Feb", "Mar", "Apr", "May", "Jun",
                "Jul", "Aug", "Sept", "Oct", "Nov", "Dec">>
MinYear == 1800             \* MIN_VALID_YR
MaxYear == 9999             \* MAX_VALID_YR

\* Fault: every fourth year is a leap year.
IsLeapJulian(y) == y % 4 = 0

IsLeap(y) == (y % 4 = 0 /\ y % 100 # 0) \/ y % 400 = 0

IsValidDate(d, m, y) ==
    /\ y \in MinYear .. MaxYear /\ m \in 1 .. 12 /\ d \in 1 .. 31
    /\ m = 2 => d <= (IF IsLeap(y) THEN 29 ELSE 28)
    /\ m \in {4, 6, 9, 11} => d <= 30

\* The name of the table that is longer than the three characters of the buffer
LongMonths == {"Sept"}

\* http_process_date.  A name that does not fit is not looked up; the day name need
\* not agree.
DateOk(t) ==
    /\ t.name \in DayNames
    /\ t.month \in Range(MonthNames) \ LongMonths
    /\ IsValidDate(t.day, IndexOf(MonthNames, t.month), t.year)
    /\ t.hour \in 0 .. 23 /\ t.minute \in 0 .. 59 /\ t.second \in 0 .. 59
    /\ t.gmt

\* The days before month m of a year, by the lengths of the months
DaysBefore(m) == <<0, 31, 59, 90, 120, 151, 181, 212, 243, 273, 304, 334>>[m]
\* A day of the year n, with a leap day every fourth year but not in three of
\* four centuries: the reference for IsValidDate
IsCalendarDay(d, m, y) ==
    LET feb29 == y % 4 = 0 /\ ~\E c \in 18 .. 99 : y = 100 * c /\ c % 4 # 0
        last == IF m = 12 THEN 31
                ELSE DaysBefore(m + 1) - DaysBefore(m) + (IF m = 2 /\ feb29 THEN 1 ELSE 0)
    IN  d \in 1 .. last

-----------------------------------------------------------------------------
(* Host, keys and single words                                             *)

\* is_valid_port, on the ports that occur
ValidPorts == {"3500", "8080"}

\* is_valid_ipv4, on the texts that occur
ValidAddresses == {"127.0.0.1"}

\* http_domain_port.  An address in brackets is compared with its bracket, so it is
\* not valid and the domain stays empty, but without an error; one with colons fails
\* as a port.
DomainPort(v) ==
    LET domain == Before(v, ":")
        port == After(v, ":")
    IN  [ok |-> /\ domain \in {<<d>> : d \in {"localhost", "[text]"} \cup ValidAddresses}
                /\ Contains(v, ":") => port \in {<<p>> : p \in ValidPorts},
         domain |-> IF domain = <<"[text]">> THEN <<>> ELSE domain,
         with_port |-> Contains(v, ":"),
         port |-> port]

\* http_process_content_type: boundary= for multipart types, charset= for others
ContentTypeOk(v) ==
    LET type == Before(v, ";")
        parameter == SkipSpaces(After(v, ";"))
    IN  /\ type \in {<<t>> : t \in MediaTypes}
        /\ Contains(v, ";") =>
            IF type[1] \in MultipartTypes
            THEN Len(parameter) > 0 /\ parameter[1] = "boundary=" /\ Fits(Tail(parameter), 70)
            ELSE Len(parameter) = 2 /\ parameter[1] = "charset=" /\ parameter[2] \in Charsets

\* http_process_content_length, http_process_max_forwards, http_process_ws_version
ContentLengthOk(v) == IsInt(v)
MaxForwardsOk(v) == IsInt(v) /\ NumberOf[v[1]] >= 0
WsVersionOk(v) == v = <<"13">>
\* http_process_expect and http_process_tk
ExpectOk(v) == v = <<"100-continue">>
TkOk(v) == Len(v) = 1 /\ v[1] \in {"!", "?", "G", "N", "T", "C", "P", "D", "U"}
\* http_process_connection and http_process_upgrade
ConnectionOk(v) == v \in {<<c>> : c \in Connections}
UpgradeOk(v) == v = <<"websocket">>
\* http_process_ws_key: any text of WS_KEY_LEN characters
WsKeyOk(v) == TextLen(v) = 24
=============================================================================
