---------------------------- MODULE MCWebSocket ----------------------------
(***************************************************************************)
(* Instances of WebSocket for TLC.                                         *)
(***************************************************************************)
EXTENDS WebSocket

Run(b, n) == [k \in 1 .. n |-> b]

\* Empty, one byte, a text, a text with a zero byte, the two sides of each
\* border of the length field, and a close code
MCPayloads == {<<>>, <<255>>, <<104, 101, 121>>, <<104, 0, 121>>, <<3, 232>>,
               Run(97, 125), Run(97, 126), Run(97, 300)}

\* The key of tests/test_websocket.c, and one with zero bytes
MCKeys == {<<228, 153, 202, 155>>, <<0, 97, 0, 1>>}

MCLengths == {0, 125, 126, 300, 65535, 65536}
=============================================================================
