---------------------------- MODULE MCConnection ----------------------------
(***************************************************************************)
(* Instances of Connection for TLC.                                        *)
(***************************************************************************)
EXTENDS Connection

Get == [kind |-> "request", fault |-> "none", old |-> FALSE, close |-> FALSE, host |-> TRUE,
        method |-> "GET", acrm |-> FALSE, upgrade |-> FALSE, target |-> "http", body |-> FALSE]

Upgrade == [Get EXCEPT !.upgrade = TRUE, !.target = "ws"]
Post == [Get EXCEPT !.method = "POST", !.body = TRUE]
Options == [Get EXCEPT !.method = "OPTIONS", !.acrm = TRUE]

\* One request for every way through http_process_request
MCRequests ==
    {Get, Post, Upgrade, Options,
     [Get EXCEPT !.target = "none", !.close = TRUE], [Get EXCEPT !.host = FALSE],
     [Get EXCEPT !.fault = "headers", !.old = TRUE],
     [Post EXCEPT !.fault = "line", !.body = FALSE, !.old = TRUE],
     [Options EXCEPT !.acrm = FALSE],
     [Upgrade EXCEPT !.old = TRUE], [Upgrade EXCEPT !.target = "http"],
     [Get EXCEPT !.target = "mute"]}

MCFrames == FrameType

MCPlain == [secure |-> FALSE, speaks |-> "plain", listed |-> TRUE, month |-> 5,
            splits |-> FALSE, pipelines |-> FALSE, messages |-> 3]

\* A plain server in May; one in September; one whose list of methods is empty,
\* over TLS, and its plain client; messages in parts; messages without turns
MCSettings ==
    {MCPlain, [MCPlain EXCEPT !.month = 9],
     [MCPlain EXCEPT !.secure = TRUE, !.speaks = "tls", !.listed = FALSE],
     [MCPlain EXCEPT !.secure = TRUE],
     [MCPlain EXCEPT !.speaks = "tls"],
     [MCPlain EXCEPT !.splits = TRUE, !.messages = 2],
     [MCPlain EXCEPT !.pipelines = TRUE]}

\* A server in September
MCSeptember == {[MCPlain EXCEPT !.month = 9, !.messages = 2]}
=============================================================================
