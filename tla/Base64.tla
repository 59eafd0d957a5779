------------------------------- MODULE Base64 -------------------------------
(***************************************************************************)
(* b64_encode of src/src/utils/utils.c on bytes.  A character is its place *)
(* in b64chars; Pad64 is "=".                                              *)
(***************************************************************************)
EXTENDS Integers, Sequences

Pad64 == 64

\* b64_encoded_size
EncodedSize(n) == 4 * ((n + ((3 - (n % 3)) % 3)) \div 3)

\* The loop of b64_encode: three bytes, of which the last two may be missing, become
\* four characters.
Triple(in, i) ==
    LET byte(k) == IF k < Len(in) THEN in[k + 1] ELSE 0
    IN  65536 * byte(i) + 256 * byte(i + 1) + byte(i + 2)
Shifts == <<262144, 4096, 64, 1>>
Encoded(in) ==
    LET char(i, place) == IF i + place > Len(in) THEN Pad64
                          ELSE (Triple(in, i) \div Shifts[place + 1]) % 64
    IN  [j \in 1 .. EncodedSize(Len(in)) |-> char(3 * ((j - 1) \div 4), (j - 1) % 4)]

\* What RFC 4648, section 4, asks of the text: as few characters as hold the bits of
\* the bytes, in order and filled with zeros, and "=" up to a multiple of four
PowerOfTwo == <<1, 2, 4, 8, 16, 32, 64, 128>>
Bit(x, width, k) == (x \div PowerOfTwo[width - k + 1]) % 2
IsEncodingOf(out, in) ==
    LET chars == (8 * Len(in) + 5) \div 6
    IN  /\ Len(out) = 4 * ((chars + 3) \div 4)
        /\ \A k \in DOMAIN out : IF k <= chars THEN out[k] \in 0 .. 63 ELSE out[k] = Pad64
        /\ \A k \in 1 .. 6 * chars :
            Bit(out[(k + 5) \div 6], 6, ((k - 1) % 6) + 1)
                = IF k > 8 * Len(in) THEN 0 ELSE Bit(in[(k + 7) \div 8], 8, ((k - 1) % 8) + 1)
=============================================================================
