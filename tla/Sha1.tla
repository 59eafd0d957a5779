-------------------------------- MODULE Sha1 --------------------------------
(***************************************************************************)
(* The control of src/src/utils/sha1/sha1.c: how the bytes of a message    *)
(* fill blocks, how the last block is padded, and what the Computed and    *)
(* Corrupted marks allow.  The compression of a block is abstracted: the   *)
(* digest is the list of the blocks that were processed.                   *)
(*                                                                         *)
(* <<"m", k>> is byte k of the message, <<"b", v>> a byte of value v.      *)
(***************************************************************************)
EXTENDS Integers, SequencesExt

CONSTANTS
    Chunks,       \* lengths that SHA1Input is called with
    MaxMessage    \* bound: bytes of a message, less than 2^32 bits

VARIABLES
    sha,          \* the context: block, length in bits, blocks, computed, corrupted
    taken,        \* the bytes that were given before the digest was asked for
    digest        \* what SHA1Result returned last: its kind, and the blocks

vars == <<sha, taken, digest>>

Byte(v) == <<"b", v>>
NoDigest == [kind |-> "none", blocks |-> <<>>]
ErrorDigest == [kind |-> "error", blocks |-> <<>>]

\* SHA1ProcessMessageBlock
ProcessBlock(c) == [c EXCEPT !.blocks = Append(@, c.block), !.block = <<>>]

\* One turn of the loop of SHA1Input.  The length does not reach 2^32 bits here.
PutByte(c, b) ==
    LET filled == [c EXCEPT !.block = Append(@, b), !.length = @ + 8]
    IN  IF Len(filled.block) = 64 THEN ProcessBlock(filled) ELSE filled

Zeros(n) == [k \in 1 .. n |-> Byte(0)]

\* The last eight bytes of a block: Length_High, which is 0, and Length_Low
WithLength(block, length) ==
    SubSeq(block, 1, 56) \o Zeros(4)
        \o << Byte(length \div 16777216), Byte((length \div 65536) % 256),
              Byte((length \div 256) % 256), Byte(length % 256) >>

\* Fault: a block of 56 bytes is thought to have room for the length.
PadLate(c) ==
    LET marked == [c EXCEPT !.block = Append(@, Byte(128))]
        full == ProcessBlock([marked EXCEPT !.block = @ \o Zeros(64 - Len(@))])
        last == IF Len(c.block) > 56 THEN full ELSE marked
    IN  ProcessBlock([last EXCEPT !.block = WithLength(@ \o Zeros(56 - Len(@)), c.length)])

\* SHA1PadMessage
Pad(c) ==
    LET marked == [c EXCEPT !.block = Append(@, Byte(128))]
        full == ProcessBlock([marked EXCEPT !.block = @ \o Zeros(64 - Len(@))])
        last == IF Len(c.block) > 55 THEN full ELSE marked
    IN  ProcessBlock([last EXCEPT !.block = WithLength(@ \o Zeros(56 - Len(@)), c.length)])

Fresh == [block |-> <<>>, length |-> 0, blocks |-> <<>>, computed |-> FALSE, corrupted |-> FALSE]

Init == sha = Fresh /\ taken = 0 /\ digest = NoDigest

\* SHA1Reset
Reset == sha' = Fresh /\ taken' = 0 /\ digest' = NoDigest

\* SHA1Input: after SHA1Result it spoils the context.
Input(n) ==
    /\ taken + n <= MaxMessage
    /\ IF n = 0 \/ sha.corrupted THEN UNCHANGED <<sha, taken>>
       ELSE IF sha.computed THEN sha' = [sha EXCEPT !.corrupted = TRUE] /\ UNCHANGED taken
       ELSE /\ sha' = FoldLeft(PutByte, sha, [k \in 1 .. n |-> <<"m", taken + k>>])
            /\ taken' = taken + n
    /\ UNCHANGED digest

\* SHA1Result: a second call returns the same digest.
Result ==
    /\ IF sha.corrupted THEN UNCHANGED sha /\ digest' = ErrorDigest
       ELSE /\ sha' = IF sha.computed THEN sha
                      ELSE [Pad(sha) EXCEPT !.length = 0, !.computed = TRUE]
            /\ digest' = [kind |-> "digest", blocks |-> sha'.blocks]
    /\ UNCHANGED taken

Next == Reset \/ (\E n \in Chunks : Input(n)) \/ Result

Spec == Init /\ [][Next]_vars

\* The text that RFC 3174, section 4, makes of a message of n bytes: a one, as few
\* zeros as fill the blocks, and the length in bits as eight bytes
IsPadded(text, n) ==
    LET end == Len(text)
        low(k) == text[end - 4 + k][2]
    IN  /\ end % 64 = 0 /\ end - (n + 9) \in 0 .. 63
        /\ \A k \in 1 .. n : text[k] = <<"m", k>>
        /\ text[n + 1] = Byte(128)
        /\ \A k \in n + 2 .. end - 4 : text[k] = Byte(0)
        /\ \A k \in 1 .. 4 : low(k) \in 0 .. 255 /\ text[end - 4 + k] = Byte(low(k))
        /\ 16777216 * low(1) + 65536 * low(2) + 256 * low(3) + low(4) = 8 * n

\* Blocks of 64 bytes, one behind the other
TextOf(blocks) ==
    [k \in 1 .. 64 * Len(blocks) |-> blocks[(k - 1) \div 64 + 1][((k - 1) % 64) + 1]]

\* However the message was split, the digest is that of the padded message, in
\* blocks of 64 bytes; and a context that was used after its digest gives none.
DigestsPadded ==
    /\ digest.kind = "digest" =>
        /\ \A k \in DOMAIN digest.blocks : Len(digest.blocks[k]) = 64
        /\ IsPadded(TextOf(digest.blocks), taken)
    /\ digest = ErrorDigest => sha.corrupted
=============================================================================
