----------------------------- MODULE MCLibrary -----------------------------
(***************************************************************************)
(* The sequential parts of the library for TLC, side by side: one exchange *)
(* of a request and its answer, the memory of an array, an arena, SHA-1    *)
(* and base64, the log, and the calendar.  They share no state, so each is *)
(* explored on its own while the others rest.                              *)
(***************************************************************************)
EXTENDS Exchange

CONSTANTS
    Capacity, ElementSize, Items, Junk,               \* of ArrayMem
    ArenaCapacity, BlockSizes,                        \* of ArenaUse
    Chunks, MaxMessage,                               \* of Sha1
    Threads, None, Hours, Offset, MaxTime, MaxLog,    \* of DateHeader
    Years                                             \* years whose days are judged

\* Sizes are those of size_t, and no thread is the missing holder of a mutex.
ASSUME LibraryAssumption ==
    /\ ArenaCapacity \in Nat /\ BlockSizes \subseteq Nat /\ None \notin Threads
    /\ Capacity \in Nat /\ ElementSize \in Nat /\ Items \subseteq [1 .. ElementSize -> Nat]
    /\ Years \subseteq Int

\* The length of a message in bits is less than 2^32.
ASSUME MessageAssumption == Chunks \subseteq Nat /\ MaxMessage \in Nat /\ MaxMessage <= 536870911

VARIABLES
    part,         \* the part that is explored
    mem, list, arena, sha, taken, digest,
    now, tm, pc, raw, text, mutex, log,
    date          \* a day, as the numbers of a Date header

Array == INSTANCE ArrayMem
Arenas == INSTANCE ArenaUse
Digests == INSTANCE Sha1
Log == INSTANCE DateHeader

-----------------------------------------------------------------------------
(* Lines and targets                                                       *)

Line(field, spaces, value) == [field |-> field, spaces |-> spaces, value |-> value]
HostLine == Line(<<"Host">>, 1, <<"localhost", ":", "3500">>)

\* A request that finds no route
Get == [method |-> "GET", target |-> <<"/", "x">>, protocol |-> "HTTP/1.1", lines |-> <<HostLine>>,
        allow_headers |-> <<"X-">>, body |-> FALSE, credentials |-> FALSE, september |-> FALSE,
        server |-> [domain |-> <<"localhost">>, port |-> <<"3500">>], origins |-> <<>>,
        methodsLen |-> 8, allowHeadersLen |-> 2, wsPaths |-> {}, routes |-> {},
        callback |-> [calls |-> 0, lengths |-> {}, known |-> {}, bodies |-> {}]]

\* Every path of three characters, every query of four, escapes in both
Targets ==
    {<<"/">> \o s : s \in SeqOf({"x", "/", "%", "f", "?", "#"}, 3)}
    \cup {<<"/", "?">> \o s : s \in SeqOf({"x", "=", "&", "/"}, 4)}
    \cup {<<"/", "x", "?", "y">> \o s : s \in SeqOf({"=", "%", "f", "x"}, 4)}
    \cup {<<"/", "?", a, b, "=", "f", "&", "x", "=", "y">> : a \in {"x", "y"}, b \in {"x", "y"}}
    \cup {<<"/", "x2K">>, <<"/">> \o [k \in 1 .. 33 |-> "x63"]}

AbsoluteTargets ==
    {<<scheme>> \o www \o host \o path :
        scheme \in {"http://", "https://", "x"}, www \in {<<>>, <<"www.">>},
        host \in {<<>>, <<"x", ".", "y">>, <<"-">>, <<"x", "-">>, <<"x63", ".", "y">>,
                  <<"x", "x63", ".", "y">>, <<"x63", ".", "x63", ".", "x63", ".", "x63", "x63">>,
                  <<".", "x">>, <<"#">>},
        path \in {<<>>, <<"/", "x">>, <<"/", "/">>, <<"/", "www.">>}}

CacheItems == {<<>>, <<"no-store">>, <<"max-age">>, <<"max-age", "=", "5">>, <<"max-age", "=", "x">>,
               <<"max-age", "=", "31536001">>, <<"no-cache", "=", "5">>, <<"only-if-cached">>,
               <<"public">>, <<"stale-while-revalidate">>, <<"stale-if-error", "=", "0">>}
CacheLists ==
    CacheItems
    \cup {a \o c \o b : a \in CacheItems, b \in CacheItems, c \in {<<",">>, <<",", " ">>}}
    \cup {a \o <<",", " ">> \o b \o <<",">> \o c : a \in CacheItems, b \in CacheItems, c \in CacheItems}

\* Names that contain each other, values that contain names, other numbers of spaces
LookupLines ==
    {Line(<<"Accept">>, 1, <<"*/*">>), Line(<<"Accept", "-Language">>, 1, <<"en">>),
     Line(<<"Origin">>, 1, <<"a.com">>), Line(<<"Origin">>, 0, <<"a.com">>),
     Line(<<"Origin">>, 2, <<"a.com">>), Line(<<"Origin">>, 1, <<>>),
     Line(<<"X-", "Origin">>, 1, <<"b.com">>), Line(<<"Origin">>, 1, <<"Accept">>),
     Line(<<"Connection">>, 1, <<"close">>), Line(<<"Connection">>, 2, <<"close">>),
     Line(<<"connection">>, 1, <<"close">>), Line(<<"TE">>, 1, <<"gzip">>)}

\* One value for every branch of the checks of values
Values ==
    {<<"TE">>, <<"Accept">>, <<"Accept", "-Encoding">>, <<"Content", "-Encoding">>}
            \X {<<"gzip">>, <<"*/*", ";", "q=", "0.", "5">>, <<"gzip", ";", "q=", "1">>,
                <<"gzip", ";", "q=", "13">>, <<"br", ",", " ", "gzip", ";", "q=", "0.">>}
    \cup {<<"Transfer", "-Encoding">>} \X {<<"gzip", ",", " ", "chunked">>, <<"gzip", ",">>}
    \cup {<<"Content", "-Type">>}
            \X {<<"text/html">>, <<"text/html", ";", " ", "charset=", "utf-8">>,
                <<"multipart/form-data", ";", "boundary=", "x63">>,
                <<"multipart/form-data", ";", "boundary=", "x63", "x63">>, <<"text/html", ";", "q=", "1">>}
    \cup {<<"Content", "-Length">>, <<"Max-Forwards">>} \X {<<"5">>, <<"-1">>, <<"x">>}
    \cup {<<"Expect">>} \X {<<"100-continue">>, <<"x">>}
    \cup {<<"Access-Control-Request", "-Headers">>}
            \X {<<"Accept", ",", " ", "Origin">>, <<"x63", ",", "x">>, <<"x", ",", "x63">>}
    \cup {<<"Host">>} \X {<<"[text]">>, <<"x">>, <<"127.0.0.1">>, <<"localhost", ":", "x">>}

WithLines(lines) == [Get EXCEPT !.lines = <<HostLine>> \o lines]
Upgrade == [Get EXCEPT !.wsPaths = {<<"/", "x">>},
              !.lines = <<HostLine, Line(<<"Upgrade">>, 1, <<"websocket">>),
                          Line(<<"connection">>, 1, <<"upgrade">>),
                          Line(<<"Sec-WebSocket", "-Key">>, 1, <<"dGhlIHNhbXBsZSBub25jZQ==">>),
                          Line(<<"Sec-WebSocket", "-Version">>, 1, <<"13">>)>>]
Preflight == [Get EXCEPT !.method = "OPTIONS", !.target = <<"*">>,
                !.lines = <<HostLine, Line(<<"Origin">>, 1, <<"a.com">>),
                            Line(<<"Access-Control-Request", "-Method">>, 1, <<"GET">>),
                            Line(<<"Access-Control-Request", "-Headers">>, 1, <<"Accept">>)>>,
                !.origins = << <<"a.com">> >>]
Called == [Get EXCEPT !.routes = {<<"GET", <<"/", "x">>>>}, !.target = <<"/", "x", "?", "y", "=">>]

MCCases ==
    {[Get EXCEPT !.target = t] : t \in Targets \cup AbsoluteTargets}
    \cup {WithLines(<<Line(<<"Cache-Control">>, 1, v)>>) : v \in CacheLists}
    \cup {WithLines(s) : s \in SeqOf(LookupLines, 2) \cup [1 .. 3 -> LookupLines]}
    \cup {WithLines(<<Line(v[1], 1, v[2])>>) : v \in Values}
    \cup {[Get EXCEPT !.method = "BREW"], [Get EXCEPT !.protocol = "HTTP/2"],
          [Get EXCEPT !.lines = <<>>], [Get EXCEPT !.protocol = "HTTP/1.0"],
          [Get EXCEPT !.september = TRUE], [Get EXCEPT !.method = "POST", !.body = TRUE],
          [Get EXCEPT !.lines = <<HostLine, Line(<<"x63">>, 1, <<"x">>)>>],
          [Get EXCEPT !.lines = <<HostLine, Line(<<"Host">>, 1, <<"127.0.0.1">>)>>],
          [Get EXCEPT !.lines = <<HostLine, Line(<<"Y-">>, 1, <<"x4K", "x">>)>>, !.allow_headers = <<"*">>],
          [Get EXCEPT !.method = "CONNECT", !.target = <<"localhost", ":", "3500">>],
          [Get EXCEPT !.method = "CONNECT", !.target = <<"localhost", ":", "8080">>],
          [Get EXCEPT !.method = "CONNECT", !.target = <<"localhost">>]}
    \cup {Upgrade, [Upgrade EXCEPT !.wsPaths = {}], [Upgrade EXCEPT !.september = TRUE],
          [Upgrade EXCEPT !.target = <<"/", "x", "?", "y", "=">>]}
    \cup {[p EXCEPT !.credentials = c, !.origins = o] :
            p \in {Preflight, [Preflight EXCEPT !.methodsLen = -1],
                   [Preflight EXCEPT !.lines = SubSeq(@, 1, 2)], [Preflight EXCEPT !.lines = SubSeq(@, 1, 3)],
                   [Preflight EXCEPT !.allowHeadersLen = 3299]},
            c \in BOOLEAN, o \in {<<>>, << <<"*">> >>, << <<"b.com">>, <<"a.com">> >>}}
    \* every order of a few calls, and as many of the longest as fit
    \cup {[Called EXCEPT !.callback =
              [calls |-> 4, lengths |-> {30}, bodies |-> {0, 5, 1048577},
               known |-> {[field |-> <<"Tk">>, value |-> <<"N">>], [field |-> <<"Tk">>, value |-> <<"x63">>],
                          [field |-> <<"Cache-Control">>, value |-> <<"public", ",", "max-age", "=", "5">>],
                          [field |-> <<"Connection">>, value |-> <<"close">>]}]],
          [Called EXCEPT !.callback =
              [calls |-> HeaderCapacity + 2, lengths |-> {8192, 8196}, bodies |-> {5, 1048576}, known |-> {}]],
          [Called EXCEPT !.callback =
              [calls |-> 2, lengths |-> {30}, bodies |-> {5}, known |-> {}], !.september = TRUE]}

MCNames == {<<"Accept">>, <<"Accept", "-Language">>, <<"Origin">>, <<"Connection">>, <<"TE">>, <<"Host">>}
MCParams == {<<"x">>, <<"x", "y">>}
MCItems == {<<1, 2>>, <<2, 1>>, <<2, 2>>}

-----------------------------------------------------------------------------
(* The parts                                                               *)

Days == [day : 0 .. 32, month : {"Mai"} \cup Range(MonthNames), year : Years]
Someday == [day |-> 1, month |-> "Jan", year |-> 2000]

LibraryInit ==
    /\ Array!Init /\ Arenas!Init /\ Digests!Init /\ Log!Init
    /\ \/ part = "exchange" /\ Init /\ date = Someday
       \/ part \in {"array", "arena", "digest", "log"} /\ Init /\ case = Get /\ date = Someday
       \/ part = "date" /\ Init /\ case = Get /\ date \in Days

arrayVars == <<mem, list>>
digestVars == <<sha, taken, digest>>
logVars == <<now, tm, pc, raw, text, mutex, log>>

ExchangeStep == /\ part = "exchange" /\ Next
                /\ UNCHANGED <<arrayVars, arena, digestVars, logVars, part, date>>
ArrayStep == /\ part = "array" /\ Array!Next
             /\ UNCHANGED <<vars, arena, digestVars, logVars, part, date>>
ArenaStep == /\ part = "arena" /\ Arenas!Next
             /\ UNCHANGED <<vars, arrayVars, digestVars, logVars, part, date>>
DigestStep == /\ part = "digest" /\ Digests!Next
              /\ UNCHANGED <<vars, arrayVars, arena, logVars, part, date>>
LogStep == /\ part = "log" /\ Log!Next
           /\ UNCHANGED <<vars, arrayVars, arena, digestVars, part, date>>

LibraryNext == ExchangeStep \/ ArrayStep \/ ArenaStep \/ DigestStep \/ LogStep

LibrarySpec ==
    LibraryInit /\ [][LibraryNext]_<<vars, arrayVars, arena, digestVars, logVars, part, date>>

-----------------------------------------------------------------------------
(* Properties of the other parts                                           *)

\* The bytes of an array are its elements in order, through every sequence of
\* pushes, pops, removals and clears of src/src/array/array.c, and none is left
\* behind its end.
ArrayIsList == Array!HoldsList

\* Blocks of an arena are aligned, inside it and apart, whatever is allocated,
\* cleared and freed (src/src/arena/arena.c).
BlocksStayApart == BlocksAreApart(arena)

\* What the accept key of an upgrade is made of: a SHA-1 digest is that of the padded
\* message, however the message was split (src/src/utils/sha1/sha1.c), and its base64
\* text holds the bits of its bytes (b64_encode of src/src/utils/utils.c).
AcceptKeyIsRfc ==
    /\ Digests!DigestsPadded
    /\ part = "digest" /\ digest = Digests!NoDigest =>
        \A bytes \in SeqOf({0, 129, 254}, 5) \ {<<>>} : IsEncodingOf(Encoded(bytes), bytes)

\* The stamp and the message of a log line are written by one thread without
\* another piece between them (log_msg).
LinesAreWhole == Log!LinesAreWhole

\* http_process_date accepts the days of the calendar from 1800 to 9999 and no
\* others, apart from those of September, whose name in the table does not fit.
DatesAreJudgedRight ==
    LET month == IndexOf(MonthNames, date.month)
        judged == DateOk([name |-> "Mon", day |-> date.day, month |-> date.month, year |-> date.year,
                          hour |-> 23, minute |-> 59, second |-> 59, gmt |-> TRUE])
    IN  judged <=> /\ month \in 1 .. 12 \ {9} /\ date.year \in 1800 .. 9999
                   /\ IsCalendarDay(date.day, month, date.year)
=============================================================================
