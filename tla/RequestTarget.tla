---------------------------- MODULE RequestTarget ----------------------------
(***************************************************************************)
(* The request target: how src/src/http/http.c judges and stores it, how   *)
(* src/src/server/http/server_http.c finds a route by it and how a route   *)
(* reads a parameter from it.                                              *)
(*                                                                         *)
(* A target is a sequence of characters, with the schemes "http://" and    *)
(* "https://" and with "www.", each of which is searched as a whole, as    *)
(* one token.  "x" and "y" stand for letters that are no hexadecimal       *)
(* digits, "f" for one that is, "#" for a character that no target has.    *)
(***************************************************************************)
EXTENDS Text

MaxUrlLen == 2048           \* MAX_HTTP_URL_LEN
MaxDomainLabelLen == 63
MaxNameTotal == 255         \* MAX_DOMAIN_LEN

Letters == {"x", "y", "f", "x63", "x2K"}
HexDigits == {"f", "0"}

\* is_valid_path_segment: "&" and "=" are among what it takes, "?", "/" and "#" not.
PathChars == Letters \cup HexDigits \cup {"-", ".", "&", "=", ":", "%", "www."}
\* is_valid_hostname_label
LabelChars == Letters \cup HexDigits \cup {"-"}

CharAt(s, k) == IF k \in DOMAIN s THEN s[k] ELSE "NUL"
EscapeAt(s, k) == CharAt(s, k + 1) \in HexDigits /\ CharAt(s, k + 2) \in HexDigits

-----------------------------------------------------------------------------
(* The scanners                                                            *)

\* The loop over the path, on what follows the first "/".  Escapes are checked
\* against the whole target, and the digits of an escape count for the segment.
ScanPath(s) ==
    FoldLeftDomain(
        LAMBDA st, k :
            IF ~st.ok THEN st
            ELSE IF s[k] = "/" THEN [ok |-> st.seg_len >= 1, seg_len |-> 0]
            ELSE IF s[k] = "%" THEN [st EXCEPT !.ok = EscapeAt(s, k)]
            ELSE IF s[k] \notin PathChars THEN [st EXCEPT !.ok = FALSE]
            ELSE [st EXCEPT !.seg_len = @ + 1],
        [ok |-> TRUE, seg_len |-> 0], s)

\* Fault: a second "=" starts another value.
ScanQueryLoose(q) ==
    FoldLeftDomain(
        LAMBDA st, k :
            IF ~st.ok THEN st
            ELSE IF q[k] = "=" THEN [ok |-> st.part_len >= 1, in_val |-> TRUE, part_len |-> 0]
            ELSE IF q[k] = "&" THEN [ok |-> st.part_len >= 1 /\ st.in_val,
                                     in_val |-> FALSE, part_len |-> 0]
            ELSE IF q[k] = "%" THEN [st EXCEPT !.ok = EscapeAt(q, k)]
            ELSE IF q[k] \notin PathChars THEN [st EXCEPT !.ok = FALSE]
            ELSE [st EXCEPT !.part_len = @ + 1],
        [ok |-> TRUE, in_val |-> FALSE, part_len |-> 0], q)

\* The loop over the query.  in_field of the code is ~in_val.
ScanQuery(q) ==
    FoldLeftDomain(
        LAMBDA st, k :
            IF ~st.ok THEN st
            ELSE IF q[k] = "=" THEN [ok |-> st.part_len >= 1 /\ ~st.in_val,
                                     in_val |-> TRUE, part_len |-> 0]
            ELSE IF q[k] = "&" THEN [ok |-> st.part_len >= 1 /\ st.in_val,
                                     in_val |-> FALSE, part_len |-> 0]
            ELSE IF q[k] = "%" THEN [st EXCEPT !.ok = EscapeAt(q, k)]
            ELSE IF q[k] \notin PathChars THEN [st EXCEPT !.ok = FALSE]
            ELSE [st EXCEPT !.part_len = @ + 1],
        [ok |-> TRUE, in_val |-> FALSE, part_len |-> 0], q)

\* http_request_process_target_relative: is s accepted?
RelativeOk(s) ==
    /\ CharAt(s, 1) = "/"
    /\ ScanPath(Tail(Before(s, "?"))).ok
    /\ Contains(s, "?") =>
        LET query == ScanQuery(After(s, "?"))
        IN  After(s, "?") # <<>> /\ query.ok /\ query.in_val

\* The loop over the host name.  Only a label that a dot ends is measured.
ScanHost(h) ==
    FoldLeft(
        LAMBDA st, c :
            IF ~st.ok THEN st
            ELSE IF c \in {".", "www."}
                 THEN LET len == st.label + Width(c) - 1
                      IN  [ok |-> len \in 1 .. MaxDomainLabelLen /\ (c = "." => st.prev # "-"),
                           label |-> 0, total |-> st.total + Width(c) - 1, prev |-> "."]
            ELSE [st EXCEPT !.ok = c \in LabelChars /\ (st.label = 0 => c # "-"),
                            !.label = @ + Width(c), !.total = @ + Width(c), !.prev = c],
        [ok |-> TRUE, label |-> 0, total |-> 0, prev |-> "NUL"], h)

\* http_request_process_target_absolute: "www." is skipped behind the scheme; where
\* it first stands elsewhere, in the path even, the target is refused.
AbsoluteOk(s) ==
    /\ CharAt(s, 1) \in {"http://", "https://"}
    /\ Contains(Tail(s), "www.") => s[2] = "www."
    /\ LET rest == IF CharAt(s, 2) = "www." THEN SubSeq(s, 3, Len(s)) ELSE Tail(s)
           host == ScanHost(Before(rest, "/"))
       IN  /\ host.ok /\ host.total <= MaxNameTotal /\ host.prev \notin {".", "-"}
           /\ Contains(rest, "/") => RelativeOk(SubSeq(rest, Len(Before(rest, "/")) + 1, Len(rest)))

-----------------------------------------------------------------------------
(* The use of a stored target                                              *)

\* The path that http_route_select and ws_route_select compare with
PathOf(target) == Before(target, "?")

\* korall_request_param_get: from the first place behind "?" where the name
\* occurs, to the next "=", and from there to the next "&".
ParamGet(target, name, room) ==
    LET query == After(target, "?")
        at == Find(query, name)
        rest == SubSeq(query, at, Len(query))
    IN  IF ~Contains(target, "?") \/ at = 0 \/ ~Contains(rest, "=") THEN NotFound
        ELSE LET value == Before(After(rest, "="), "&")
             IN  IF Fits(value, room) THEN value ELSE NotFound

-----------------------------------------------------------------------------
(* The same by a grammar                                                   *)

\* The pieces between the separators c
PiecesOf(s, c) ==
    LET cuts == {0, Len(s) + 1} \cup {k \in DOMAIN s : s[k] = c}
        next(i) == Min({j \in cuts : j > i})
    IN  {[text |-> SubSeq(s, i + 1, next(i) - 1), last |-> next(i) = Len(s) + 1] :
            i \in cuts \ {Len(s) + 1}}

\* Characters that a path may have, with "%" only before two hexadecimal digits
WellSpelt(s) == \A k \in DOMAIN s :
    /\ s[k] \in PathChars
    /\ s[k] = "%" => {CharAt(s, k + 1), CharAt(s, k + 2)} \subseteq HexDigits

\* "/" followed by segments, of which the last may be empty
IsPath(s) ==
    /\ s # <<>> /\ s[1] = "/"
    /\ \A p \in PiecesOf(Tail(s), "/") : WellSpelt(p.text) /\ (p.text # <<>> \/ p.last)

\* name=value parts joined by "&"; the last value may be empty
IsQuery(q) == \A p \in PiecesOf(q, "&") :
    /\ WellSpelt(p.text)
    /\ \E k \in DOMAIN p.text :
        /\ p.text[k] = "=" /\ k > 1 /\ (k < Len(p.text) \/ p.last)
        /\ \A j \in DOMAIN p.text : p.text[j] = "=" => j = k

\* Where a reader finds the value of a parameter: behind its name and "=" at the
\* beginning of a part, provided that nothing before mentions the name
ParamStarts(q, name) ==
    {k \in DOMAIN q :
        /\ IsPrefix(name \o <<"=">>, SubSeq(q, k, Len(q))) /\ (k = 1 \/ q[k - 1] = "&")
        /\ Find(q, name) = k}
ParamValue(q, name, k) == Before(SubSeq(q, k + Len(name) + 1, Len(q)), "&")

IsRelative(s) == IsPath(Before(s, "?")) /\ (Contains(s, "?") => IsQuery(After(s, "?")))
=============================================================================
