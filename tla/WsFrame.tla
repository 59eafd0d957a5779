------------------------------ MODULE WsFrame ------------------------------
(***************************************************************************)
(* The WebSocket frames of src/src/http/websocket/websocket.c: how a frame *)
(* is read from the bytes of a recv, and which bytes of an answer reach    *)
(* the socket.                                                             *)
(*                                                                         *)
(* A byte is a number, a piece of memory a sequence of bytes that is       *)
(* followed by zero bytes: process_incoming_data clears its buffer before  *)
(* every recv, and an arena is cleared when it is made.  Numbers are       *)
(* stored with their low byte first, as on every platform the code is      *)
(* built for.                                                              *)
(***************************************************************************)
EXTENDS Integers, SequencesExt

Byte == 0 .. 255

CON == 0
TEXT == 1
BIN == 2
CLOSE == 8
PING == 9
PONG == 10

WS_CC_UNUSED == -1
WS_CC_1000 == 1000
WS_CC_1002 == 1002

\* A NULL data pointer
NoData == <<>>

\* The model counts up to this length; a larger one is only known to be larger.
LengthCap == 256 * 256 * 256

-----------------------------------------------------------------------------
(* Numbers in memory                                                       *)

\* What a byte of a number and what a bit of a byte counts for, from the lowest
Weight == <<1, 256, 256 * 256>>
Power == <<1, 2, 4, 8, 16, 32, 64, 128>>

\* The size bytes of v as the host stores it, for v below LengthCap
Stored(v, size) == [k \in 1 .. size |-> IF k <= 3 THEN (v \div Weight[k]) % 256 ELSE 0]

\* The number behind stored bytes, cut off at LengthCap
Loaded(bytes) ==
    IF \E k \in DOMAIN bytes : k > 3 /\ bytes[k] # 0
    THEN LengthCap
    ELSE LET digit(k) == IF k <= Len(bytes) THEN bytes[k] ELSE 0
         IN  digit(1) + 256 * digit(2) + 256 * 256 * digit(3)

\* Fault: the bytes are copied as they are stored.
InHostOrder(v, size) == Stored(v, size)

\* memcpy_reverse from a number in memory
InNetworkOrder(v, size) == Reverse(Stored(v, size))

Bit(b, k) == (b \div Power[k + 1]) % 2

\* BITS_MID(b, m, n)
BitsMid(b, m, n) == (b \div Power[m + 1]) % Power[n - m + 1]

\* b ^ c on bytes
Xor(b, c) ==
    LET at(k) == IF Bit(b, k) = Bit(c, k) THEN 0 ELSE Power[k + 1]
    IN  at(0) + at(1) + at(2) + at(3) + at(4) + at(5) + at(6) + at(7)

At(memory, i) == IF i <= Len(memory) THEN memory[i] ELSE 0
Part(memory, from, size) == [k \in 1 .. size |-> At(memory, from + k - 1)]
From(memory, from) == SubSeq(memory, from, Len(memory))

\* strlen: the bytes before the first zero byte
StrLen(memory) ==
    LET zero == SelectInSeq(memory, LAMBDA b : b = 0)
    IN  IF zero = 0 THEN Len(memory) ELSE zero - 1
Str(memory) == SubSeq(memory, 1, StrLen(memory))

-----------------------------------------------------------------------------
(* websocket_frame_decode                                                  *)

\* Where the masking key begins (from 1), and the bytes that give the length
KeyAt(pl) == IF pl <= 125 THEN 3 ELSE IF pl = 126 THEN 5 ELSE 11
LengthBytes(frame, pl) ==
    IF pl <= 125 THEN <<pl>> ELSE Part(frame, 3, IF pl = 126 THEN 2 ELSE 8)

\* Fault: the key is taken from its last byte on.
UnmaskBackwards(data, key, length) ==
    [k \in DOMAIN data |-> IF k <= length THEN Xor(data[k], key[4 - ((k - 1) % 4)]) ELSE data[k]]

\* data[i] ^ m_key[i % 4], for the bytes that are in the buffer
Unmask(data, key, length) ==
    [k \in DOMAIN data |-> IF k <= length THEN Xor(data[k], key[((k - 1) % 4) + 1]) ELSE data[k]]

Decode(frame) ==
    LET pl == BitsMid(At(frame, 2), 0, 7)
        opcode == BitsMid(At(frame, 1), 0, 4)
        length == Loaded(LengthBytes(frame, pl))
        key == Part(frame, KeyAt(pl), 4)
        data == Unmask(From(frame, KeyAt(pl) + 4), key, length)
    IN  [ok |-> Bit(At(frame, 2), 7) = 1,
         finished |-> Bit(At(frame, 1), 7) = 1,
         opcode |-> opcode,
         length |-> length,
         closeCode |-> IF opcode = CLOSE THEN 256 * At(data, 1) + At(data, 2)
                                         ELSE WS_CC_UNUSED,
         data |-> data]

-----------------------------------------------------------------------------
(* Answers: websocket_frame_construct, _encode and _send                   *)

\* sizeof(data) is the size of a pointer; all callers pass NULL.
SizeofPointer == 8

\* Fault: the close code is not counted in the length.
ConstructWithoutCodeLength(opcode, closeCode, data) ==
    [finished |-> TRUE, opcode |-> opcode, closeCode |-> closeCode,
     length |-> IF data = NoData THEN 0 ELSE SizeofPointer, data |-> data]

Construct(opcode, closeCode, data) ==
    [finished |-> TRUE, opcode |-> opcode, closeCode |-> closeCode,
     length |-> (IF data = NoData THEN 0 ELSE SizeofPointer)
                + (IF closeCode # WS_CC_UNUSED THEN 2 ELSE 0),
     data |-> data]

ConstructPong == Construct(PONG, WS_CC_UNUSED, NoData)
ConstructClose(closeCode) == Construct(CLOSE, closeCode, NoData)

\* The frame of a cleared arena, when nothing was constructed
EmptyFrame == [finished |-> FALSE, opcode |-> CON, closeCode |-> 0, length |-> 0, data |-> NoData]

UINT16_MAX == 256 * 256 - 1

LengthHeader(length) ==
    IF length <= 125 THEN <<length>>
    ELSE IF length <= UINT16_MAX THEN <<126>> \o InNetworkOrder(length, 2)
    ELSE <<127>> \o InNetworkOrder(length, 8)

\* Fault: the mask bit is set, and no key follows.
HeaderWithMaskBit(f) ==
    LET length == LengthHeader(f.length)
    IN  <<(IF f.finished THEN 128 ELSE 0) + f.opcode>> \o [length EXCEPT ![1] = @ + 128]
        \o (IF f.closeCode # WS_CC_UNUSED THEN InNetworkOrder(f.closeCode, 2) ELSE <<>>)

\* An answer is never masked: mask is false in every call of the code.
Header(f) ==
    <<(IF f.finished THEN 128 ELSE 0) + f.opcode>> \o LengthHeader(f.length)
    \o (IF f.closeCode # WS_CC_UNUSED THEN InNetworkOrder(f.closeCode, 2) ELSE <<>>)

\* The data is copied up to its first zero byte, whatever length says.
Encode(f) == Header(f) \o (IF f.length # 0 THEN Str(f.data) ELSE <<>>)

\* What is handed to send: strlen of the encoded frame, not its length
Sent(f) == Str(Encode(f))
=============================================================================
