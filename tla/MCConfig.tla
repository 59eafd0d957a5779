------------------------------ MODULE MCConfig ------------------------------
(***************************************************************************)
(* Instances of Config for TLC.                                            *)
(***************************************************************************)
EXTENDS Config

Empty == [name |-> <<>>, domain |-> <<>>, port |-> <<>>, routes |-> <<>>,
          credentials |-> <<>>, secure |-> <<>>,
          origins |-> <<>>, headers |-> <<>>, methods |-> <<>>]

AllMethods == <<"CONNECT", "DELETE", "GET", "HEAD", "OPTIONS", "PATCH", "POST", "PUT", "TRACE">>

\* One the configurations know, one they may not, and one that is no origin at all:
\* http_process_origin accepts any text.
MCOrigins == {"a.com", "b.com", Star}

\* Texts on both sides of their limits, ports at both ends of the range, lists
\* that are missing, rejected, mixed, repeated or too long
MCFiles ==
    {[Empty EXCEPT !.name = <<n>>, !.domain = <<n>>, !.port = <<p>>, !.routes = <<1>>] :
        n \in {8, 101, 256}, p \in {-1, 1023, 1024, 8080, 65536}}
    \cup {[Empty EXCEPT !.credentials = c, !.origins = o, !.headers = o, !.methods = m] :
        c \in {<<>>, <<TRUE>>},
        o \in {<<>>, <<Star>>, <<TooLong>>, <<"a.com", NotAString>>, <<"b.com", "a.com", "a.com">>,
               <<Star, "b.com">>},
        m \in {<<>>, <<NotAString>>, <<Star>>, <<"FOO">>, <<"GET", "FOO">>, <<"GET", "POST", "PUT">>,
               <<"GET", "GET">>, AllMethods, Reverse(AllMethods)}}
=============================================================================
