-------------------------- MODULE WebSocket_proofs --------------------------
(***************************************************************************)
(* What the WebSocket frames of WebSocket promise, for payloads of any     *)
(* length, any masking key and any length that a route answers with.       *)
(***************************************************************************)
EXTENDS WebSocket, Lemmas

-----------------------------------------------------------------------------
(* Bits                                                                    *)

LEMMA PowerValues ==
  /\ Power[0 + 1] = 1 /\ Power[1 + 1] = 2 /\ Power[2 + 1] = 4 /\ Power[3 + 1] = 8
  /\ Power[4 + 1] = 16 /\ Power[5 + 1] = 32 /\ Power[6 + 1] = 64 /\ Power[7 + 1] = 128
BY SMT DEF Power

\* The bits of a number, one by one
LEMMA BitValues ==
  ASSUME NEW b
  PROVE  /\ Bit(b, 0) = (b \div 1) % 2 /\ Bit(b, 1) = (b \div 2) % 2
         /\ Bit(b, 2) = (b \div 4) % 2 /\ Bit(b, 3) = (b \div 8) % 2
         /\ Bit(b, 4) = (b \div 16) % 2 /\ Bit(b, 5) = (b \div 32) % 2
         /\ Bit(b, 6) = (b \div 64) % 2 /\ Bit(b, 7) = (b \div 128) % 2
BY PowerValues, Zenon DEF Bit

Binary == {0, 1}

\* The number that eight bits make
Number(x0, x1, x2, x3, x4, x5, x6, x7) ==
    x0 + 2 * x1 + 4 * x2 + 8 * x3 + 16 * x4 + 32 * x5 + 64 * x6 + 128 * x7

HasBits(b, x0, x1, x2, x3, x4, x5, x6, x7) ==
    /\ Bit(b, 0) = x0 /\ Bit(b, 1) = x1 /\ Bit(b, 2) = x2 /\ Bit(b, 3) = x3
    /\ Bit(b, 4) = x4 /\ Bit(b, 5) = x5 /\ Bit(b, 6) = x6 /\ Bit(b, 7) = x7

\* A byte is made of its bits.
LEMMA ByteOfBits ==
  ASSUME NEW b \in Byte
  PROVE  /\ \A k \in 0 .. 7 : Bit(b, k) \in Binary
         /\ b = Number(Bit(b, 0), Bit(b, 1), Bit(b, 2), Bit(b, 3),
                       Bit(b, 4), Bit(b, 5), Bit(b, 6), Bit(b, 7))
<1>1. \A k \in 0 .. 7 : k = 0 \/ k = 1 \/ k = 2 \/ k = 3 \/ k = 4 \/ k = 5 \/ k = 6 \/ k = 7
  BY SMT
<1>2. /\ Bit(b, 0) \in Binary /\ Bit(b, 1) \in Binary /\ Bit(b, 2) \in Binary
      /\ Bit(b, 3) \in Binary /\ Bit(b, 4) \in Binary /\ Bit(b, 5) \in Binary
      /\ Bit(b, 6) \in Binary /\ Bit(b, 7) \in Binary
  <2>1. \A n \in Byte :
          /\ (n \div 1) % 2 \in {0, 1} /\ (n \div 2) % 2 \in {0, 1}
          /\ (n \div 4) % 2 \in {0, 1} /\ (n \div 8) % 2 \in {0, 1}
          /\ (n \div 16) % 2 \in {0, 1} /\ (n \div 32) % 2 \in {0, 1}
          /\ (n \div 64) % 2 \in {0, 1} /\ (n \div 128) % 2 \in {0, 1}
    BY SMT DEF Byte
  <2> QED BY <2>1, BitValues, ZenonT(60) DEF Binary
<1>3. b = Number(Bit(b, 0), Bit(b, 1), Bit(b, 2), Bit(b, 3),
                 Bit(b, 4), Bit(b, 5), Bit(b, 6), Bit(b, 7))
  <2>1. \A n \in Byte :
          n = ((n \div 1) % 2) + 2 * ((n \div 2) % 2) + 4 * ((n \div 4) % 2)
              + 8 * ((n \div 8) % 2) + 16 * ((n \div 16) % 2) + 32 * ((n \div 32) % 2)
              + 64 * ((n \div 64) % 2) + 128 * ((n \div 128) % 2)
    BY SMT DEF Byte
  <2>2. b = ((b \div 1) % 2) + 2 * ((b \div 2) % 2) + 4 * ((b \div 4) % 2)
              + 8 * ((b \div 8) % 2) + 16 * ((b \div 16) % 2) + 32 * ((b \div 32) % 2)
              + 64 * ((b \div 64) % 2) + 128 * ((b \div 128) % 2)
    BY <2>1, Zenon
  <2>3. Number(Bit(b, 0), Bit(b, 1), Bit(b, 2), Bit(b, 3), Bit(b, 4), Bit(b, 5), Bit(b, 6), Bit(b, 7))
          = ((b \div 1) % 2) + 2 * ((b \div 2) % 2) + 4 * ((b \div 4) % 2)
              + 8 * ((b \div 8) % 2) + 16 * ((b \div 16) % 2) + 32 * ((b \div 32) % 2)
              + 64 * ((b \div 64) % 2) + 128 * ((b \div 128) % 2)
    BY BitValues, ZenonT(60) DEF Number
  <2> QED BY ONLY <2>2, <2>3, Zenon
<1> QED BY <1>1, <1>2, <1>3, Zenon

\* Eight bits are the bits of the byte that they make.
LEMMA BitsOfNumber ==
  ASSUME NEW x0 \in Binary, NEW x1 \in Binary, NEW x2 \in Binary, NEW x3 \in Binary,
         NEW x4 \in Binary, NEW x5 \in Binary, NEW x6 \in Binary, NEW x7 \in Binary
  PROVE  /\ Number(x0, x1, x2, x3, x4, x5, x6, x7) \in Byte
         /\ HasBits(Number(x0, x1, x2, x3, x4, x5, x6, x7), x0, x1, x2, x3, x4, x5, x6, x7)
<1> DEFINE b == Number(x0, x1, x2, x3, x4, x5, x6, x7)
<1>1. b \in Byte
  BY SMT DEF Number, Byte, Binary
<1>2. /\ (b \div 1) % 2 = x0 /\ (b \div 2) % 2 = x1 /\ (b \div 4) % 2 = x2 /\ (b \div 8) % 2 = x3
      /\ (b \div 16) % 2 = x4 /\ (b \div 32) % 2 = x5 /\ (b \div 64) % 2 = x6
      /\ (b \div 128) % 2 = x7
  BY SMT DEF Number, Binary
<1> HIDE DEF b
<1>3. HasBits(b, x0, x1, x2, x3, x4, x5, x6, x7)
  BY <1>2, BitValues, ZenonT(60) DEF HasBits
<1> QED BY <1>1, <1>3, Zenon DEF b

\* One bit of an exclusive or
Differ(x, y) == IF x = y THEN 0 ELSE 1

\* The exclusive or of two bytes is a byte, and the bits of it are those that differ.
LEMMA XorBits ==
  ASSUME NEW b \in Byte, NEW c \in Byte
  PROVE  LET d(k) == Differ(Bit(b, k), Bit(c, k))
         IN  Xor(b, c) = Number(d(0), d(1), d(2), d(3), d(4), d(5), d(6), d(7))
<1> DEFINE at(k) == IF Bit(b, k) = Bit(c, k) THEN 0 ELSE Power[k + 1]
           d(k) == Differ(Bit(b, k), Bit(c, k))
<1>1. Xor(b, c) = at(0) + at(1) + at(2) + at(3) + at(4) + at(5) + at(6) + at(7)
  BY Zenon DEF Xor
<1>2. /\ at(0) = d(0) /\ at(1) = 2 * d(1) /\ at(2) = 4 * d(2) /\ at(3) = 8 * d(3)
      /\ at(4) = 16 * d(4) /\ at(5) = 32 * d(5) /\ at(6) = 64 * d(6) /\ at(7) = 128 * d(7)
  BY PowerValues, SMT DEF Differ
<1> HIDE DEF at, d
<1>3. Xor(b, c) = Number(d(0), d(1), d(2), d(3), d(4), d(5), d(6), d(7))
  BY <1>1, <1>2, Zenon DEF Number
<1> QED BY <1>3, Zenon DEF d

LEMMA XorIsByte ==
  ASSUME NEW b \in Byte, NEW c \in Byte
  PROVE  Xor(b, c) \in Byte
<1> DEFINE d(k) == Differ(Bit(b, k), Bit(c, k))
<1>1. \A k : d(k) \in Binary
  BY Zenon DEF Differ, Binary
<1> HIDE DEF d
<1>2. Number(d(0), d(1), d(2), d(3), d(4), d(5), d(6), d(7)) \in Byte
  BY <1>1, BitsOfNumber, Zenon
<1> QED BY <1>2, XorBits, ZenonT(60) DEF d

\* Unmasking with the key of the mask gives the byte back.
LEMMA XorTwice ==
  ASSUME NEW b \in Byte, NEW c \in Byte
  PROVE  Xor(Xor(b, c), c) = b
<1> DEFINE d(k) == Differ(Bit(b, k), Bit(c, k))
           x == Xor(b, c)
           e(k) == Differ(Bit(x, k), Bit(c, k))
<1>1. x \in Byte
  BY XorIsByte, Zenon
<1>2. x = Number(d(0), d(1), d(2), d(3), d(4), d(5), d(6), d(7))
  BY XorBits, Zenon
<1>3. \A k : d(k) \in Binary
  BY Zenon DEF Differ, Binary
<1> HIDE DEF d
<1>4. /\ Bit(x, 0) = d(0) /\ Bit(x, 1) = d(1) /\ Bit(x, 2) = d(2) /\ Bit(x, 3) = d(3)
      /\ Bit(x, 4) = d(4) /\ Bit(x, 5) = d(5) /\ Bit(x, 6) = d(6) /\ Bit(x, 7) = d(7)
  <2>1. HasBits(Number(d(0), d(1), d(2), d(3), d(4), d(5), d(6), d(7)),
                d(0), d(1), d(2), d(3), d(4), d(5), d(6), d(7))
    BY <1>3, BitsOfNumber, Zenon
  <2> HIDE DEF x
  <2>2. HasBits(x, d(0), d(1), d(2), d(3), d(4), d(5), d(6), d(7))
    BY <1>2, <2>1, Zenon
  <2> QED BY <2>2, Zenon DEF HasBits
<1>5. \A k \in 0 .. 7 : Bit(b, k) \in Binary /\ Bit(c, k) \in Binary
  BY ByteOfBits, Zenon
<1>6. ASSUME NEW k \in 0 .. 7, Bit(x, k) = d(k)
      PROVE  e(k) = Bit(b, k)
  BY <1>5, <1>6, Zenon DEF d, Differ, Binary
<1>7. /\ 0 \in 0 .. 7 /\ 1 \in 0 .. 7 /\ 2 \in 0 .. 7 /\ 3 \in 0 .. 7
      /\ 4 \in 0 .. 7 /\ 5 \in 0 .. 7 /\ 6 \in 0 .. 7 /\ 7 \in 0 .. 7
  BY SMT
<1>8. /\ e(0) = Bit(b, 0) /\ e(1) = Bit(b, 1) /\ e(2) = Bit(b, 2) /\ e(3) = Bit(b, 3)
      /\ e(4) = Bit(b, 4) /\ e(5) = Bit(b, 5) /\ e(6) = Bit(b, 6) /\ e(7) = Bit(b, 7)
  BY <1>4, <1>6, <1>7, Zenon
<1>9. Xor(x, c) = Number(e(0), e(1), e(2), e(3), e(4), e(5), e(6), e(7))
  BY <1>1, XorBits, Zenon
<1> HIDE DEF e
<1>10. Xor(x, c) = b
  BY <1>8, <1>9, ByteOfBits, Zenon
<1> QED BY <1>10, Zenon
-----------------------------------------------------------------------------
(* Memory                                                                  *)

LEMMA AtIsByte ==
  ASSUME NEW memory \in Seq(Byte), NEW i \in Nat \ {0}
  PROVE  At(memory, i) \in Byte
<1>1. CASE i <= Len(memory)
  BY <1>1, ElementOfSeq, SMT DEF At
<1>2. CASE ~(i <= Len(memory))
  BY <1>2, SMT DEF At, Byte
<1> QED BY <1>1, <1>2

\* A part of a memory of bytes is as long as it is asked for, and of bytes.
LEMMA PartIsBytes ==
  ASSUME NEW memory \in Seq(Byte), NEW from \in Nat \ {0}, NEW size \in Nat
  PROVE  /\ Part(memory, from, size) \in Seq(Byte)
         /\ Len(Part(memory, from, size)) = size
         /\ \A k \in 1 .. size : Part(memory, from, size)[k] = At(memory, from + k - 1)
<1>1. \A k \in 1 .. size : At(memory, from + k - 1) \in Byte
  <2> TAKE k \in 1 .. size
  <2>1. from + k - 1 \in Nat \ {0}
    OBVIOUS
  <2> QED BY <2>1, AtIsByte, Zenon
<1>2. Part(memory, from, size) = [k \in 1 .. size |-> At(memory, from + k - 1)]
  BY Zenon DEF Part
<1>3. Part(memory, from, size) \in Seq(Byte)
  BY <1>1, <1>2, IsASeq
<1>4. Len(Part(memory, from, size)) = size
  BY <1>2, SMT
<1> QED BY <1>2, <1>3, <1>4

\* The bytes behind a place are those of the memory.
LEMMA FromIsBytes ==
  ASSUME NEW memory \in Seq(Byte), NEW from \in Nat \ {0}
  PROVE  /\ From(memory, from) \in Seq(Byte)
         /\ from <= Len(memory) + 1 => Len(From(memory, from)) = Len(memory) - from + 1
         /\ \A k \in 1 .. Len(From(memory, from)) :
                From(memory, from)[k] = memory[from + k - 1]
<1>1. Len(memory) \in Nat
  BY LenProperties
<1>2. CASE from <= Len(memory) + 1
  <2>1. from \in 1 .. Len(memory) + 1 /\ Len(memory) \in from - 1 .. Len(memory)
    BY <1>1, <1>2, SMT
  <2> QED BY <1>1, <2>1, SubSeqProperties, SMT DEF From
<1>3. CASE ~(from <= Len(memory) + 1)
  <2>1. From(memory, from) = <<>>
    BY <1>1, <1>3, SMT DEF From
  <2> QED BY <1>1, <1>3, <2>1, SMT
<1> QED BY <1>2, <1>3

-----------------------------------------------------------------------------
(* Numbers in memory                                                       *)

LEMMA CapIsNat == LengthCap \in Nat
BY SMT DEF LengthCap

\* Three digits below u make a number below the cube of u.
LEMMA ThreeDigits ==
  ASSUME NEW u \in Nat, NEW x \in Nat, NEW y \in Nat, NEW z \in Nat, x < u, y < u, z < u
  PROVE  x + u * y + u * u * z \in 0 .. u * u * u
<1>1. \A a, b, c \in Nat : b < c => a * b \in Nat /\ a * c \in Nat /\ a * b + a <= a * c
  BY SMT
<1>2. u * u \in Nat /\ u * y \in Nat /\ u * y + u <= u * u
  BY <1>1, Zenon
<1> DEFINE w == u * u
<1>3. w * z \in Nat /\ w * u \in Nat /\ w * z + w <= w * u
  BY <1>1, <1>2, Zenon
<1> HIDE DEF w
<1>4. x + u * y + w * z \in 0 .. w * u
  <2> DEFINE p == u * y
             q == w * z
             r == w * u
  <2>1. p \in Nat /\ q \in Nat /\ r \in Nat /\ w \in Nat /\ p + u <= w /\ q + w <= r
    BY <1>2, <1>3, Zenon DEF w
  <2> HIDE DEF p, q, r
  <2>2. x + p + q \in 0 .. r
    BY <2>1, SMT
  <2> QED BY <2>2, Zenon DEF p, q, r
<1> QED BY <1>4, Zenon DEF w

LEMMA ByteBelowCap ==
  ASSUME NEW x \in Byte
  PROVE  x \in 0 .. LengthCap
<1> DEFINE u == 256
           zero == 0
<1>1. u \in Nat /\ x \in Nat /\ zero \in Nat /\ x < u /\ zero < u
  BY SMT DEF Byte
<1>2. \A v, w \in Int : v + w * 0 + w * w * 0 = v
  BY SMT
<1> HIDE DEF u, zero
<1>3. x + u * zero + u * u * zero \in 0 .. u * u * u
  BY <1>1, ThreeDigits
<1>4. x + u * zero + u * u * zero = x
  BY <1>1, <1>2 DEF zero
<1> QED BY <1>3, <1>4, Zenon DEF LengthCap, u

\* What the number of a few bytes, low byte first, is at most
LEMMA LoadedIsCapped ==
  ASSUME NEW bytes \in Seq(Byte)
  PROVE  Loaded(bytes) \in 0 .. LengthCap
<1> DEFINE digit(k) == IF k <= Len(bytes) THEN bytes[k] ELSE 0
<1>0. Len(bytes) \in Nat
  BY LenProperties, Zenon
<1>1. ASSUME NEW k \in Nat \ {0} PROVE digit(k) \in Byte
  <2>1. CASE k <= Len(bytes)
    BY <1>0, <2>1, ElementOfSeq, SMT
  <2>2. CASE ~(k <= Len(bytes))
    BY <2>2, SMT DEF Byte
  <2> QED BY <2>1, <2>2
<1>2. \/ Loaded(bytes) = LengthCap
      \/ Loaded(bytes) = digit(1) + 256 * digit(2) + 256 * 256 * digit(3)
  BY SMT DEF Loaded
<1> HIDE DEF digit
<1>3. digit(1) \in Byte /\ digit(2) \in Byte /\ digit(3) \in Byte
  BY <1>1, SMT
<1>4. \A x \in Byte : x \in Nat /\ x < 256
  BY SMT DEF Byte
<1>5. 256 \in Nat
  BY SMT
<1>6. digit(1) + 256 * digit(2) + 256 * 256 * digit(3) \in 0 .. LengthCap
  <2> DEFINE u == 256
             x == digit(1)
             y == digit(2)
             z == digit(3)
  <2>1. /\ u \in Nat /\ x \in Nat /\ y \in Nat /\ z \in Nat
        /\ x < u /\ y < u /\ z < u
    BY <1>3, <1>4, <1>5, Zenon
  <2> HIDE DEF u, x, y, z
  <2>2. x + u * y + u * u * z \in 0 .. u * u * u
    BY <2>1, ThreeDigits
  <2> QED BY <2>2, Zenon DEF LengthCap, u, x, y, z
<1>7. LengthCap \in 0 .. LengthCap
  BY CapIsNat, SMT
<1> QED BY <1>2, <1>6, <1>7, Zenon

\* A number is stored in bytes.
LEMMA StoredIsBytes ==
  ASSUME NEW v \in Nat, NEW size \in Nat
  PROVE  /\ Stored(v, size) \in Seq(Byte) /\ Len(Stored(v, size)) = size
         /\ \A k \in 1 .. size :
              Stored(v, size)[k] = IF k <= 3 THEN (v \div Weight[k]) % 256 ELSE 0
<1>1. v \in Int /\ v >= 0
  OBVIOUS
<1>2. \A k \in 1 .. size : (IF k <= 3 THEN (v \div Weight[k]) % 256 ELSE 0) \in Byte
  <2> TAKE k \in 1 .. size
  <2>1. CASE k <= 3
    <3>1. Weight[1] = 1 /\ Weight[2] = 256 /\ Weight[3] = 256 * 256
      BY SMT DEF Weight
    <3>2. k = 1 \/ k = 2 \/ k = 3
      BY <2>1, SMT
    <3>3. Weight[k] \in Nat \ {0}
      BY <3>1, <3>2, SMT
    <3>4. (v \div Weight[k]) % 256 \in Byte
      BY <1>1, <3>3, SMT DEF Byte
    <3> QED BY <2>1, <3>4
  <2>2. CASE ~(k <= 3)
    BY <2>2, SMT DEF Byte
  <2> QED BY <2>1, <2>2
<1>3. Stored(v, size) = [k \in 1 .. size |-> IF k <= 3 THEN (v \div Weight[k]) % 256 ELSE 0]
  BY Zenon DEF Stored
<1>4. Len(Stored(v, size)) = size
  BY <1>3, SMT
<1> QED BY <1>2, <1>3, <1>4, IsASeq

\* memcpy_reverse turns the bytes of the host into those of the network.
LEMMA ReversedIsNetworkOrder ==
  ASSUME NEW v \in Nat, NEW size \in Nat
  PROVE  /\ InNetworkOrder(v, size) = NetworkOrder(v, size)
         /\ NetworkOrder(v, size) \in Seq(Byte) /\ Len(NetworkOrder(v, size)) = size
<1> DEFINE s == Stored(v, size)
<1>1. /\ s \in Seq(Byte) /\ Len(s) = size
      /\ \A k \in 1 .. size : s[k] = IF k <= 3 THEN (v \div Weight[k]) % 256 ELSE 0
  BY StoredIsBytes, Zenon
<1>2. InNetworkOrder(v, size) = [k \in 1 .. Len(s) |-> s[(Len(s) - k) + 1]]
  BY Zenon DEF InNetworkOrder, Reverse
<1> HIDE DEF s
<1>3. \A k \in 1 .. size :
        /\ (size - k) + 1 \in 1 .. size /\ (size - k) + 1 = size - k + 1
        /\ (size - k) + 1 <= 3 <=> size - k <= 2
  OBVIOUS
<1>4. \A k \in 1 .. size :
        s[(size - k) + 1] = IF size - k <= 2 THEN (v \div Weight[size - k + 1]) % 256 ELSE 0
  BY <1>1, <1>3, ZenonT(60)
<1>5. InNetworkOrder(v, size) = NetworkOrder(v, size)
  BY <1>1, <1>2, <1>4, SMT DEF NetworkOrder
<1>6. \A k \in 1 .. size : s[(size - k) + 1] \in Byte
  BY <1>1, <1>3, ElementOfSeq
<1>7. InNetworkOrder(v, size) \in Seq(Byte)
  BY <1>1, <1>2, <1>6, IsASeq
<1>8. Len(InNetworkOrder(v, size)) = size
  BY <1>1, <1>2, SMT
<1> QED BY <1>5, <1>7, <1>8
-----------------------------------------------------------------------------
(* Frames as bytes                                                         *)

Opcodes == {CON, TEXT, BIN, CLOSE, PING, PONG}

\* The two first bytes of a frame
FirstByte(finished, opcode) == (IF finished THEN 128 ELSE 0) + opcode
SecondByte(masked, n) == (IF masked THEN 128 ELSE 0) + n
ShortLength(length) == IF length <= 125 THEN length ELSE IF length <= UINT16_MAX THEN 126 ELSE 127

LEMMA OpcodeValues ==
  /\ Opcodes = {0, 1, 2, 8, 9, 10}
  /\ CON = 0 /\ TEXT = 1 /\ BIN = 2 /\ CLOSE = 8 /\ PING = 9 /\ PONG = 10
BY Zenon DEF Opcodes, CON, TEXT, BIN, CLOSE, PING, PONG

LEMMA FirstByteFacts ==
  ASSUME NEW finished \in BOOLEAN, NEW opcode \in Opcodes
  PROVE  LET b == FirstByte(finished, opcode)
         IN  /\ b \in Byte
             /\ Bit(b, 7) = 1 <=> finished
             /\ BitsMid(b, 0, 4) = opcode
<1> DEFINE b == FirstByte(finished, opcode)
<1>1. b \in Byte /\ ((b \div 128) % 2 = 1 <=> finished) /\ (b \div 1) % 16 = opcode
  BY OpcodeValues, SMT DEF Byte, FirstByte
<1> HIDE DEF b
<1>2. BitsMid(b, 0, 4) = (b \div 1) % 16
  <2>1. 4 - 0 + 1 = 4 + 1
    BY SMT
  <2> QED BY <2>1, PowerValues, Zenon DEF BitsMid
<1>3. Bit(b, 7) = (b \div 128) % 2
  BY BitValues, Zenon
<1> QED BY <1>1, <1>2, <1>3, Zenon DEF b

LEMMA SecondByteFacts ==
  ASSUME NEW masked \in BOOLEAN, NEW n \in 0 .. 127
  PROVE  LET b == SecondByte(masked, n)
         IN  /\ b \in Byte
             /\ Bit(b, 7) = 1 <=> masked
             /\ BitsMid(b, 0, 7) = n
<1> DEFINE b == SecondByte(masked, n)
<1>1. b \in Byte /\ ((b \div 128) % 2 = 1 <=> masked) /\ (b \div 1) % 128 = n
  BY SMT DEF Byte, SecondByte
<1> HIDE DEF b
<1>2. BitsMid(b, 0, 7) = (b \div 1) % 128
  <2>1. 7 - 0 + 1 = 7 + 1
    BY SMT
  <2> QED BY <2>1, PowerValues, ZenonT(60) DEF BitsMid
<1>3. Bit(b, 7) = (b \div 128) % 2
  BY BitValues, Zenon
<1> QED BY <1>1, <1>2, <1>3, Zenon DEF b

\* The bytes before the masking key: the two bytes, and those of a longer length
IsStart(s, finished, opcode, masked, length) ==
    /\ s \in Seq(Byte) /\ Len(s) >= 2
    /\ s[1] = FirstByte(finished, opcode)
    /\ s[2] = SecondByte(masked, ShortLength(length))
    /\ ShortLength(length) \in 0 .. 127
    /\ length <= 125 =>
         /\ s = <<FirstByte(finished, opcode), SecondByte(masked, length)>>
         /\ Len(s) = 2 /\ ShortLength(length) = length

LEMMA FrameStartFacts ==
  ASSUME NEW finished \in BOOLEAN, NEW opcode \in Opcodes, NEW masked \in BOOLEAN,
         NEW length \in Nat
  PROVE  IsStart(FrameStart(finished, opcode, masked, length), finished, opcode, masked, length)
<1> DEFINE first == FirstByte(finished, opcode)
           second(n) == SecondByte(masked, n)
           s == FrameStart(finished, opcode, masked, length)
<1>1. s = IF length <= 125 THEN <<first, second(length)>>
          ELSE IF length <= UINT16_MAX THEN <<first, second(126)>> \o NetworkOrder(length, 2)
          ELSE <<first, second(127)>> \o NetworkOrder(length, 8)
  BY Zenon DEF FrameStart, FirstByte, SecondByte
<1>2. first \in Byte /\ \A n \in 0 .. 127 : second(n) \in Byte
  BY FirstByteFacts, SecondByteFacts, Zenon
<1>3. ShortLength(length) \in 0 .. 127
  BY SMT DEF ShortLength
<1> HIDE DEF first, second, s, IsStart
<1>4. ASSUME NEW n \in 0 .. 127, NEW t \in Seq(Byte)
      PROVE  LET c == <<first, second(n)>> \o t
             IN  c \in Seq(Byte) /\ Len(c) >= 2 /\ c[1] = first /\ c[2] = second(n)
  <2>1. second(n) \in Byte
    BY <1>2
  <2>2. <<first, second(n)>> \in Seq(Byte)
    BY <1>2, <2>1
  <2> QED BY <2>2
<1>5. CASE length <= 125
  <2>1. ShortLength(length) = length /\ length \in 0 .. 127
    BY <1>5, SMT DEF ShortLength
  <2>2. s = <<first, second(length)>>
    BY <1>1, <1>5, Zenon
  <2>3. second(length) \in Byte
    BY <1>2, <2>1
  <2>4. s \in Seq(Byte) /\ Len(s) = 2
    BY <1>2, <2>2, <2>3
  <2> QED BY <1>3, <2>1, <2>2, <2>4 DEF first, second, s, IsStart
<1>6. CASE ~(length <= 125) /\ length <= UINT16_MAX
  <2>1. ShortLength(length) = 126 /\ 126 \in 0 .. 127 /\ 2 \in Nat
    BY <1>6, SMT DEF ShortLength
  <2>2. s = <<first, second(126)>> \o NetworkOrder(length, 2)
    BY <1>1, <1>6, Zenon
  <2>3. NetworkOrder(length, 2) \in Seq(Byte)
    BY <2>1, ReversedIsNetworkOrder, ZenonT(60)
  <2>4. s \in Seq(Byte) /\ Len(s) >= 2 /\ s[1] = first /\ s[2] = second(126)
    BY ONLY <1>4, <2>1, <2>2, <2>3
  <2> QED BY <1>3, <1>6, <2>1, <2>4 DEF first, second, s, IsStart
<1>7. CASE ~(length <= 125) /\ ~(length <= UINT16_MAX)
  <2>1. ShortLength(length) = 127 /\ 127 \in 0 .. 127 /\ 8 \in Nat
    BY <1>7, SMT DEF ShortLength
  <2>2. s = <<first, second(127)>> \o NetworkOrder(length, 8)
    BY <1>1, <1>7, Zenon
  <2>3. NetworkOrder(length, 8) \in Seq(Byte)
    BY ReversedIsNetworkOrder
  <2>4. s \in Seq(Byte) /\ Len(s) >= 2 /\ s[1] = first /\ s[2] = second(127)
    BY ONLY <1>4, <2>1, <2>2, <2>3
  <2> QED BY <1>3, <1>7, <2>1, <2>4 DEF first, second, s, IsStart
<1> QED BY <1>5, <1>6, <1>7, Zenon
-----------------------------------------------------------------------------
(* What the client sends                                                   *)

LEMMA FourBytes ==
  ASSUME NEW key \in [1 .. 4 -> Byte]
  PROVE  key \in Seq(Byte) /\ Len(key) = 4
<1>1. key = [i \in 1 .. 4 |-> key[i]] /\ \A i \in 1 .. 4 : key[i] \in Byte
  BY Zenon
<1>2. [i \in 1 .. 4 |-> key[i]] \in Seq(Byte)
  BY <1>1, IsASeq
<1> QED BY <1>1, <1>2, LenProperties, SMT

LEMMA ClientFrameFacts ==
  ASSUME NEW f \in ClientFrames
  PROVE  /\ f.finished \in BOOLEAN /\ f.opcode \in Opcodes /\ f.masked \in BOOLEAN
         /\ f.key \in Seq(Byte) /\ Len(f.key) = 4 /\ f.payload \in Seq(Byte) /\ Legal(f)
         /\ Len(f.payload) \in Nat
<1>1. /\ f \in [finished : BOOLEAN, opcode : Opcodes, masked : BOOLEAN, key : Keys, payload : Payloads]
      /\ Legal(f)
  BY Zenon DEF ClientFrames, Opcodes
<1>2. /\ f.finished \in BOOLEAN /\ f.opcode \in Opcodes /\ f.masked \in BOOLEAN
      /\ f.key \in Keys /\ f.payload \in Payloads
  BY <1>1, SMT
<1>3. f.payload \in Seq(Byte) /\ f.key \in [1 .. 4 -> Byte]
  BY <1>2, WebSocketAssumption, Zenon DEF WebSocketAssumption
<1>4. f.key \in Seq(Byte) /\ Len(f.key) = 4
  BY <1>3, FourBytes, Zenon
<1>5. Len(f.payload) \in Nat
  BY <1>3, LenProperties, Zenon
<1> QED BY <1>1, <1>2, <1>3, <1>4, <1>5, Zenon

\* The payload of a frame behind its mask
Masked(f) == [k \in DOMAIN f.payload |-> IF f.masked
                                         THEN Xor(f.payload[k], f.key[((k - 1) % 4) + 1])
                                         ELSE f.payload[k]]

LEMMA KeyByte ==
  ASSUME NEW key \in Seq(Byte), Len(key) = 4, NEW k \in Nat \ {0}
  PROVE  key[((k - 1) % 4) + 1] \in Byte
<1>1. ((k - 1) % 4) + 1 \in 1 .. 4
  BY SMT
<1> QED BY <1>1, ElementOfSeq

LEMMA MaskedFacts ==
  ASSUME NEW f \in ClientFrames
  PROVE  /\ Masked(f) \in Seq(Byte) /\ Len(Masked(f)) = Len(f.payload)
         /\ f.masked => \A k \in 1 .. Len(f.payload) :
                Masked(f)[k] = Xor(f.payload[k], f.key[((k - 1) % 4) + 1])
<1> DEFINE n == Len(f.payload)
           byte(k) == IF f.masked THEN Xor(f.payload[k], f.key[((k - 1) % 4) + 1]) ELSE f.payload[k]
<1>1. n \in Nat /\ DOMAIN f.payload = 1 .. n
  BY ClientFrameFacts, LenProperties, Zenon
<1>2. Masked(f) = [k \in 1 .. n |-> byte(k)]
  BY <1>1, Zenon DEF Masked
<1>3. ASSUME NEW k \in 1 .. n PROVE byte(k) \in Byte
  <2>1. f.payload[k] \in Byte
    BY ClientFrameFacts, ElementOfSeq
  <2>2. f.key[((k - 1) % 4) + 1] \in Byte
    BY ClientFrameFacts, KeyByte, SMT
  <2> QED BY <2>1, <2>2, XorIsByte, Zenon
<1> HIDE DEF n
<1>4. Masked(f) \in Seq(Byte)
  <2> HIDE DEF byte
  <2> QED BY <1>1, <1>2, <1>3, IsASeq
<1>5. Len(Masked(f)) = n /\ \A k \in 1 .. n : Masked(f)[k] = byte(k)
  <2> HIDE DEF byte
  <2> QED BY <1>1, <1>2, SMT
<1> QED BY <1>4, <1>5, Zenon DEF n

\* Where the bytes of two sequences are when one is behind the other
IsConcat(c, s, t) ==
    /\ c \in Seq(Byte) /\ Len(c) = Len(s) + Len(t)
    /\ \A i \in 1 .. Len(s) : c[i] = s[i]
    /\ \A i \in 1 .. Len(t) : c[Len(s) + i] = t[i]

LEMMA Concat ==
  ASSUME NEW s \in Seq(Byte), NEW t \in Seq(Byte)
  PROVE  IsConcat(s \o t, s, t)
<1> DEFINE m == Len(s)
           n == Len(t)
           c == s \o t
<1>1. m \in Nat /\ n \in Nat
  BY LenProperties, Zenon
<1>2. /\ c \in Seq(Byte) /\ Len(c) = m + n
      /\ \A i \in 1 .. m + n : c[i] = IF i <= m THEN s[i] ELSE t[i - m]
  BY ConcatProperties, Zenon
<1> HIDE DEF m, n, c
<1>3. \A i \in 1 .. m : i \in 1 .. m + n /\ i <= m
  BY <1>1, SMT
<1>4. \A i \in 1 .. n : m + i \in 1 .. m + n /\ ~(m + i <= m) /\ (m + i) - m = i
  BY <1>1, SMT
<1>5. /\ \A i \in 1 .. m : c[i] = s[i]
      /\ \A i \in 1 .. n : c[m + i] = t[i]
  BY <1>2, <1>3, <1>4, Zenon
<1> QED BY <1>2, <1>5, Zenon DEF IsConcat, m, n, c

LEMMA Concatenated ==
  ASSUME NEW s \in Seq(Byte), NEW t \in Seq(Byte), NEW u \in Seq(Byte)
  PROVE  /\ s \o t \in Seq(Byte) /\ (s \o t) \o u \in Seq(Byte)
         /\ t \o u \in Seq(Byte) /\ (s \o t) \o u = s \o (t \o u)
<1>1. s \o t \in Seq(Byte) /\ t \o u \in Seq(Byte)
  BY ConcatProperties, Zenon
<1>2. (s \o t) \o u \in Seq(Byte)
  BY <1>1, ConcatProperties, Zenon
<1>3. (s \o t) \o u = s \o (t \o u)
  BY ConcatAssociative
<1> QED BY <1>1, <1>2, <1>3, Zenon

\* The bytes of a frame begin with its two bytes; a short frame that is masked has
\* its key and its payload behind them.
LEMMA ClientBytesFacts ==
  ASSUME NEW f \in ClientFrames
  PROVE  LET bytes == ClientBytes(f)
             n == Len(f.payload)
         IN  /\ bytes \in Seq(Byte) /\ Len(bytes) >= 2
             /\ bytes[1] = FirstByte(f.finished, f.opcode)
             /\ bytes[2] = SecondByte(f.masked, ShortLength(n))
             /\ ShortLength(n) \in 0 .. 127
             /\ f.masked /\ n <= 125 =>
                  /\ ShortLength(n) = n /\ Len(bytes) = 6 + n
                  /\ \A i \in 1 .. 4 : bytes[2 + i] = f.key[i]
                  /\ \A k \in 1 .. n : bytes[6 + k] = Masked(f)[k]
<1> DEFINE n == Len(f.payload)
           s == FrameStart(f.finished, f.opcode, f.masked, n)
           key == IF f.masked THEN f.key ELSE <<>>
           p == Masked(f)
           first == FirstByte(f.finished, f.opcode)
           second == SecondByte(f.masked, ShortLength(n))
<1>1. ClientBytes(f) = s \o key \o p
  BY Zenon DEF ClientBytes, Masked
<1>2. /\ s \in Seq(Byte) /\ Len(s) >= 2 /\ s[1] = first /\ s[2] = second
      /\ ShortLength(n) \in 0 .. 127
      /\ n <= 125 => Len(s) = 2 /\ ShortLength(n) = n
  <2>1. /\ f.finished \in BOOLEAN /\ f.opcode \in Opcodes /\ f.masked \in BOOLEAN
        /\ n \in Nat
    BY ClientFrameFacts, Zenon
  <2> HIDE DEF n
  <2>2. IsStart(s, f.finished, f.opcode, f.masked, n)
    BY <2>1, FrameStartFacts, Zenon
  <2> HIDE DEF s
  <2> QED BY <2>2, SMT DEF IsStart
<1>3. key \in Seq(Byte) /\ (f.masked => key = f.key /\ Len(key) = 4)
  BY ClientFrameFacts, SMT
<1>4. p \in Seq(Byte) /\ Len(p) = n
  BY MaskedFacts, Zenon
<1> HIDE DEF s, key, p, first, second, n
<1>6. LET bytes == s \o key \o p
      IN  bytes \in Seq(Byte) /\ Len(bytes) >= 2 /\ bytes[1] = first /\ bytes[2] = second
  BY <1>2, <1>3, <1>4
<1>7. ASSUME f.masked, n <= 125
      PROVE  LET bytes == s \o key \o p
             IN  /\ Len(bytes) = 6 + n
                 /\ \A i \in 1 .. 4 : bytes[2 + i] = key[i]
                 /\ \A k \in 1 .. n : bytes[6 + k] = p[k]
  <2> DEFINE t == s \o key
  <2>1. Len(s) = 2 /\ Len(key) = 4
    BY <1>2, <1>3, <1>7
  <2>2. IsConcat(t, s, key)
    BY <1>2, <1>3, Concat, Zenon
  <2> HIDE DEF t
  <2>3. t \in Seq(Byte) /\ Len(t) = 6 /\ \A i \in 1 .. 4 : t[2 + i] = key[i]
    BY <2>1, <2>2, SMT DEF IsConcat
  <2> DEFINE bytes == t \o p
  <2>4. IsConcat(bytes, t, p)
    BY <1>4, <2>3, Concat, Zenon
  <2> HIDE DEF bytes
  <2>5. /\ Len(bytes) = 6 + n
        /\ \A i \in 1 .. 6 : bytes[i] = t[i]
        /\ \A k \in 1 .. n : bytes[6 + k] = p[k]
    BY <1>4, <2>3, <2>4, Zenon DEF IsConcat
  <2>6. \A i \in 1 .. 4 : 2 + i \in 1 .. 6
    BY SMT
  <2>7. \A i \in 1 .. 4 : bytes[2 + i] = key[i]
    BY <2>3, <2>5, <2>6, Zenon
  <2> QED BY <2>5, <2>7, Zenon DEF t, bytes
<1>8. f.masked => key = f.key
  BY <1>3
<1> QED BY <1>1, <1>2, <1>6, <1>7, <1>8, Zenon DEF p, first, second, n

-----------------------------------------------------------------------------
(* What the server reads                                                   *)

LEMMA UnmaskIsBytes ==
  ASSUME NEW data \in Seq(Byte), NEW key \in Seq(Byte), Len(key) = 4, NEW length \in Nat
  PROVE  /\ Unmask(data, key, length) \in Seq(Byte)
         /\ Len(Unmask(data, key, length)) = Len(data)
         /\ \A k \in 1 .. Len(data) : k <= length =>
                Unmask(data, key, length)[k] = Xor(data[k], key[((k - 1) % 4) + 1])
<1> DEFINE n == Len(data)
           byte(k) == IF k <= length THEN Xor(data[k], key[((k - 1) % 4) + 1]) ELSE data[k]
<1>1. n \in Nat /\ DOMAIN data = 1 .. n
  BY LenProperties, Zenon
<1>2. Unmask(data, key, length) = [k \in 1 .. n |-> byte(k)]
  BY <1>1, Zenon DEF Unmask
<1>3. ASSUME NEW k \in 1 .. n PROVE byte(k) \in Byte
  <2>1. data[k] \in Byte
    BY ElementOfSeq
  <2>2. key[((k - 1) % 4) + 1] \in Byte
    BY KeyByte, SMT
  <2> QED BY <2>1, <2>2, XorIsByte, Zenon
<1> HIDE DEF n
<1>4. Unmask(data, key, length) \in Seq(Byte)
  <2> HIDE DEF byte
  <2> QED BY <1>1, <1>2, <1>3, IsASeq
<1>5. Len(Unmask(data, key, length)) = n /\ \A k \in 1 .. n : Unmask(data, key, length)[k] = byte(k)
  <2> HIDE DEF byte
  <2> QED BY <1>1, <1>2, SMT
<1> QED BY <1>4, <1>5, Zenon DEF n
\* The fields of websocket_frame_decode, one by one
PayloadLen(memory) == BitsMid(At(memory, 2), 0, 7)
LengthIn(memory) == Loaded(LengthBytes(memory, PayloadLen(memory)))
KeyIn(memory) == Part(memory, KeyAt(PayloadLen(memory)), 4)
DataIn(memory) == Unmask(From(memory, KeyAt(PayloadLen(memory)) + 4), KeyIn(memory), LengthIn(memory))

LEMMA DecodeFields ==
  ASSUME NEW memory
  PROVE  LET d == Decode(memory)
         IN  /\ d.ok = (Bit(At(memory, 2), 7) = 1)
             /\ d.finished = (Bit(At(memory, 1), 7) = 1)
             /\ d.opcode = BitsMid(At(memory, 1), 0, 4)
             /\ d.length = LengthIn(memory)
             /\ d.data = DataIn(memory)
             /\ d.closeCode = IF d.opcode = CLOSE THEN 256 * At(d.data, 1) + At(d.data, 2)
                                                  ELSE WS_CC_UNUSED
<1> DEFINE opcode == BitsMid(At(memory, 1), 0, 4)
           data == DataIn(memory)
           ok == Bit(At(memory, 2), 7) = 1
           finished == Bit(At(memory, 1), 7) = 1
           code == IF opcode = CLOSE THEN 256 * At(data, 1) + At(data, 2) ELSE WS_CC_UNUSED
<1>1. Decode(memory) = [ok |-> ok, finished |-> finished, opcode |-> opcode,
                        length |-> LengthIn(memory), closeCode |-> code, data |-> data]
  BY Zenon DEF Decode, PayloadLen, LengthIn, KeyIn, DataIn
<1> HIDE DEF opcode, data, ok, finished, code
<1>2. LET d == Decode(memory)
      IN  /\ d.ok = ok /\ d.finished = finished /\ d.opcode = opcode
          /\ d.length = LengthIn(memory) /\ d.data = data /\ d.closeCode = code
  BY <1>1, SMT
<1> QED BY <1>2, ZenonT(60) DEF opcode, data, ok, finished, code

LEMMA PayloadLenFacts ==
  ASSUME NEW memory \in Seq(Byte)
  PROVE  PayloadLen(memory) \in 0 .. 127
<1>1. At(memory, 2) \in Byte
  BY AtIsByte, SMT
<1>2. BitsMid(At(memory, 2), 0, 7) = (At(memory, 2) \div 1) % 128
  <2>1. 7 - 0 + 1 = 7 + 1
    BY SMT
  <2> QED BY <2>1, PowerValues, ZenonT(60) DEF BitsMid
<1>3. \A b \in Byte : (b \div 1) % 128 \in 0 .. 127
  BY SMT DEF Byte
<1>4. (At(memory, 2) \div 1) % 128 \in 0 .. 127
  BY <1>1, <1>3
<1> QED BY <1>2, <1>4 DEF PayloadLen

\* Whatever is in memory, what is decoded is a sequence of bytes and a length that
\* the model can count.
LEMMA DecodeIsTyped ==
  ASSUME NEW memory \in Seq(Byte)
  PROVE  Decode(memory).data \in Seq(Byte) /\ Decode(memory).length \in 0 .. LengthCap
<1> DEFINE pl == PayloadLen(memory)
<1>1. pl \in 0 .. 127
  BY PayloadLenFacts, Zenon
<1> HIDE DEF pl
<1>2. LengthBytes(memory, pl) \in Seq(Byte)
  <2>1. CASE pl <= 125
    <3>1. pl \in Byte
      BY <1>1, SMT DEF Byte
    <3>2. LengthBytes(memory, pl) = <<pl>>
      BY <2>1, Zenon DEF LengthBytes
    <3> QED BY <3>1, <3>2
  <2>2. CASE ~(pl <= 125)
    <3> DEFINE size == IF pl = 126 THEN 2 ELSE 8
    <3>1. size \in Nat /\ 3 \in Nat \ {0}
      BY SMT
    <3>2. LengthBytes(memory, pl) = Part(memory, 3, size)
      BY <2>2, Zenon DEF LengthBytes
    <3> HIDE DEF size
    <3> QED BY <3>1, <3>2, PartIsBytes, ZenonT(60)
  <2> QED BY <2>1, <2>2
<1>3. LengthIn(memory) \in 0 .. LengthCap
  BY <1>2, LoadedIsCapped, Zenon DEF LengthIn, pl
<1>4. KeyAt(pl) \in Nat \ {0} /\ KeyAt(pl) + 4 \in Nat \ {0} /\ 4 \in Nat
  BY SMT DEF KeyAt
<1>5. KeyIn(memory) \in Seq(Byte) /\ Len(KeyIn(memory)) = 4
  BY <1>4, PartIsBytes, Zenon DEF KeyIn, pl
<1>6. From(memory, KeyAt(pl) + 4) \in Seq(Byte)
  BY <1>4, FromIsBytes, Zenon
<1>7. LengthIn(memory) \in Nat
  BY <1>3, CapIsNat, SMT
<1>8. DataIn(memory) \in Seq(Byte)
  BY <1>5, <1>6, <1>7, UnmaskIsBytes, Zenon DEF DataIn, pl
<1> QED BY <1>3, <1>8, DecodeFields, Zenon

\* The server reads the flags and the opcode of every frame; of a short frame that is
\* masked, it reads the length and the payload, too.
LEMMA DecodedFrame ==
  ASSUME NEW f \in ClientFrames
  PROVE  LET d == Decode(ClientBytes(f))
         IN  /\ d.ok = f.masked /\ d.finished = f.finished /\ d.opcode = f.opcode
             /\ f.masked /\ Len(f.payload) <= 125 =>
                    d.length = Len(f.payload) /\ d.data = f.payload
<1> DEFINE bytes == ClientBytes(f)
           n == Len(f.payload)
           first == FirstByte(f.finished, f.opcode)
           second == SecondByte(f.masked, ShortLength(n))
           p == Masked(f)
<1>1. /\ f.finished \in BOOLEAN /\ f.opcode \in Opcodes /\ f.masked \in BOOLEAN
      /\ f.key \in Seq(Byte) /\ Len(f.key) = 4 /\ f.payload \in Seq(Byte) /\ n \in Nat
  BY ClientFrameFacts, Zenon
<1>2. /\ bytes \in Seq(Byte) /\ Len(bytes) >= 2 /\ bytes[1] = first /\ bytes[2] = second
      /\ ShortLength(n) \in 0 .. 127
      /\ f.masked /\ n <= 125 =>
           /\ ShortLength(n) = n /\ Len(bytes) = 6 + n
           /\ \A i \in 1 .. 4 : bytes[2 + i] = f.key[i]
           /\ \A k \in 1 .. n : bytes[6 + k] = p[k]
  BY ClientBytesFacts, Zenon
<1>3. p \in Seq(Byte) /\ Len(p) = n
      /\ (f.masked => \A k \in 1 .. n : p[k] = Xor(f.payload[k], f.key[((k - 1) % 4) + 1]))
  BY MaskedFacts, Zenon
<1>4. (Bit(first, 7) = 1 <=> f.finished) /\ BitsMid(first, 0, 4) = f.opcode
  BY <1>1, FirstByteFacts, Zenon
<1>5. (Bit(second, 7) = 1 <=> f.masked) /\ BitsMid(second, 0, 7) = ShortLength(n)
  BY <1>1, <1>2, SecondByteFacts, Zenon
<1> HIDE DEF bytes, n, first, second, p
<1>6. At(bytes, 1) = first /\ At(bytes, 2) = second
  BY <1>2, LenProperties, SMT DEF At
<1>7. LET d == Decode(bytes)
      IN  d.ok = f.masked /\ d.finished = f.finished /\ d.opcode = f.opcode
  BY <1>1, <1>4, <1>5, <1>6, DecodeFields, Zenon
<1>8. ASSUME f.masked, n <= 125
      PROVE  Decode(bytes).length = n /\ Decode(bytes).data = f.payload
  <2>1. /\ ShortLength(n) = n /\ Len(bytes) = 6 + n
        /\ \A i \in 1 .. 4 : bytes[2 + i] = f.key[i]
        /\ \A k \in 1 .. n : bytes[6 + k] = p[k]
    BY <1>2, <1>8, Zenon
  <2>2. PayloadLen(bytes) = n
    BY <1>5, <1>6, <2>1, Zenon DEF PayloadLen
  <2>3. LengthIn(bytes) = n
    <3>1. LengthBytes(bytes, n) = <<n>>
      BY <1>8, Zenon DEF LengthBytes
    <3>2. Loaded(<<n>>) = n
      BY <1>1, SMT DEF Loaded
    <3> QED BY <2>2, <3>1, <3>2, Zenon DEF LengthIn
  <2>4. KeyAt(n) = 3 /\ KeyAt(n) + 4 = 7
    BY <1>8, SMT DEF KeyAt
  <2>5. KeyIn(bytes) = f.key
    <3>0. 3 \in Nat \ {0} /\ 4 \in Nat
      BY SMT
    <3>1. /\ Part(bytes, 3, 4) \in Seq(Byte) /\ Len(Part(bytes, 3, 4)) = 4
          /\ \A k \in 1 .. 4 : Part(bytes, 3, 4)[k] = At(bytes, 3 + k - 1)
      BY <1>2, <3>0, PartIsBytes, Zenon
    <3>2. \A k \in 1 .. 4 : At(bytes, 3 + k - 1) = bytes[2 + k]
      BY <1>1, <2>1, SMT DEF At
    <3>3. \A k \in 1 .. 4 : Part(bytes, 3, 4)[k] = f.key[k]
      BY <2>1, <3>1, <3>2, Zenon
    <3>4. Part(bytes, 3, 4) = f.key
      BY <1>1, <3>1, <3>3, SeqEqual, Zenon
    <3> QED BY <2>2, <2>4, <3>4, Zenon DEF KeyIn
  <2> DEFINE data == From(bytes, 7)
  <2>6. data \in Seq(Byte) /\ Len(data) = n /\ \A k \in 1 .. n : data[k] = bytes[6 + k]
    <3>1. 7 \in Nat \ {0} /\ 7 <= Len(bytes) + 1 /\ Len(bytes) - 7 + 1 = n
      BY <1>1, <2>1, SMT
    <3>2. /\ data \in Seq(Byte) /\ Len(data) = n
          /\ \A k \in 1 .. Len(data) : data[k] = bytes[7 + k - 1]
      BY <1>2, <3>1, FromIsBytes
    <3>3. \A k \in 1 .. n : 7 + k - 1 = 6 + k
      BY <1>1, SMT
    <3> QED BY <3>2, <3>3, Zenon
  <2> HIDE DEF data
  <2>7. data = p
    BY <1>3, <2>1, <2>6, SeqEqual, Zenon
  <2> DEFINE u == Unmask(data, f.key, n)
  <2>8. /\ u \in Seq(Byte) /\ Len(u) = n
        /\ \A k \in 1 .. n : k <= n => u[k] = Xor(data[k], f.key[((k - 1) % 4) + 1])
    BY <1>1, <2>6, UnmaskIsBytes, Zenon
  <2> HIDE DEF u
  <2>9. ASSUME NEW k \in 1 .. n PROVE u[k] = f.payload[k]
    <3>1. k <= n /\ k \in Nat \ {0}
      BY <1>1, SMT
    <3>2. f.payload[k] \in Byte
      BY <1>1, ElementOfSeq, Zenon DEF n
    <3>3. f.key[((k - 1) % 4) + 1] \in Byte
      BY <1>1, <3>1, KeyByte, Zenon
    <3>4. data[k] = Xor(f.payload[k], f.key[((k - 1) % 4) + 1])
      BY <1>3, <1>8, <2>7, Zenon
    <3>5. u[k] = Xor(data[k], f.key[((k - 1) % 4) + 1])
      BY <2>8, <3>1, Zenon
    <3> QED BY <3>2, <3>3, <3>4, <3>5, XorTwice, Zenon
  <2>10. u = f.payload
    BY <1>1, <2>8, <2>9, SeqEqual, Zenon DEF n
  <2>11. DataIn(bytes) = u
    BY <2>2, <2>3, <2>4, <2>5, Zenon DEF DataIn, data, u
  <2> QED BY <2>3, <2>10, <2>11, DecodeFields, Zenon
<1> QED BY <1>7, <1>8, Zenon DEF bytes, n
-----------------------------------------------------------------------------
(* What the server writes                                                  *)

\* strlen stops inside the memory; a memory without a zero byte is a string.
LEMMA StrFacts ==
  ASSUME NEW memory \in Seq(Byte)
  PROVE  /\ Str(memory) \in Seq(Byte)
         /\ (\A k \in 1 .. Len(memory) : memory[k] # 0) => Str(memory) = memory
<1> DEFINE n == Len(memory)
           I == {i \in 1 .. n : memory[i] = 0}
           zero == IF I # {} THEN Min(I) ELSE 0
<1>1. n \in Nat
  BY LenProperties, Zenon
<1>2. StrLen(memory) = IF zero = 0 THEN n ELSE zero - 1
  BY Zenon DEF StrLen, SelectInSeq
<1>3. CASE I = {}
  <2>1. Str(memory) = SubSeq(memory, 1, n)
    BY <1>2, <1>3, Zenon DEF Str
  <2>2. SubSeq(memory, 1, n) = memory
    BY SubSeqFull, Zenon
  <2> QED BY <2>1, <2>2, Zenon
<1>4. CASE I # {}
  <2>1. PICK m \in I : \A k \in I : m <= k
    <3>1. I \subseteq Nat
      BY <1>1, SMT
    <3> QED BY <1>4, <3>1, LeastNumber, Zenon
  <2>2. Min(I) \in I
    BY <2>1, Zenon DEF Min
  <2>3. zero \in 1 .. n
    BY <1>4, <2>2, Zenon
  <2> HIDE DEF zero
  <2>4. StrLen(memory) \in 0 .. n
    BY <1>1, <1>2, <2>3, SMT
  <2> DEFINE l == StrLen(memory)
  <2> HIDE DEF l
  <2>5. SubSeq(memory, 1, l) \in Seq(Byte)
    BY <1>1, <2>4, SubSeqProperties, SMT DEF l, n
  <2>6. Str(memory) \in Seq(Byte)
    BY <2>5, Zenon DEF Str, l
  <2>7. ~(\A k \in 1 .. n : memory[k] # 0)
    BY <1>4, Zenon
  <2> QED BY <2>6, <2>7, Zenon
<1> QED BY <1>3, <1>4, Zenon

LEMMA EmptyStr == Str(<<>>) = <<>>
<1>1. <<>> \in Seq(Byte) /\ Len(<<>>) = 0
  BY SMT
<1>2. \A k \in 1 .. Len(<<>>) : <<>>[k] # 0
  BY <1>1, SMT
<1> QED BY <1>1, <1>2, StrFacts, Zenon

LEMMA Pair ==
  ASSUME NEW a \in Nat, NEW b \in Nat
  PROVE  <<a>> \o <<b>> = <<a, b>>
<1> DEFINE s == <<a>>
           t == <<b>>
           p == <<a, b>>
<1>1. /\ s \in Seq(Nat) /\ Len(s) = 1 /\ s[1] = a /\ t \in Seq(Nat) /\ Len(t) = 1 /\ t[1] = b
      /\ p \in Seq(Nat) /\ Len(p) = 2 /\ p[1] = a /\ p[2] = b
  BY SMT
<1> HIDE DEF s, t, p
<1> DEFINE c == s \o t
<1>2. c \in Seq(Nat) /\ Len(c) = 2 /\ c[1] = a /\ c[2] = b
  <2>1. /\ c \in Seq(Nat) /\ Len(c) = Len(s) + Len(t)
        /\ \A i \in 1 .. Len(s) + Len(t) : c[i] = IF i <= Len(s) THEN s[i] ELSE t[i - Len(s)]
    BY <1>1, ConcatProperties, Zenon
  <2> HIDE DEF c
  <2> QED BY <1>1, <2>1, SMT
<1>3. \A i \in 1 .. 2 : i = 1 \/ i = 2
  BY SMT
<1>4. s \o t = p
  BY <1>1, <1>2, <1>3, SeqEqual, Zenon
<1> QED BY <1>4, Zenon DEF s, t, p

\* The first byte and the length of an answer are written as RFC 6455 says.
LEMMA HeaderIsStart ==
  ASSUME NEW finished \in BOOLEAN, NEW opcode \in Opcodes, NEW length \in Nat
  PROVE  <<FirstByte(finished, opcode)>> \o LengthHeader(length)
            = FrameStart(finished, opcode, FALSE, length)
<1> DEFINE first == FirstByte(finished, opcode)
<1>1. first \in Byte /\ 126 \in Byte /\ 127 \in Byte
  BY FirstByteFacts, SMT DEF Byte
<1>2. FrameStart(finished, opcode, FALSE, length) =
          IF length <= 125 THEN <<first, 0 + length>>
          ELSE IF length <= UINT16_MAX THEN <<first, 0 + 126>> \o NetworkOrder(length, 2)
          ELSE <<first, 0 + 127>> \o NetworkOrder(length, 8)
  BY ZenonT(60) DEF FrameStart, FirstByte
<1>3. 0 + length = length /\ 0 + 126 = 126 /\ 0 + 127 = 127 /\ 2 \in Nat /\ 8 \in Nat
  OBVIOUS
<1>4. /\ InNetworkOrder(length, 2) = NetworkOrder(length, 2)
      /\ InNetworkOrder(length, 8) = NetworkOrder(length, 8)
      /\ NetworkOrder(length, 2) \in Seq(Byte) /\ NetworkOrder(length, 8) \in Seq(Byte)
  BY <1>3, ReversedIsNetworkOrder
<1> HIDE DEF first
<1>5. ASSUME NEW b \in Byte, NEW t \in Seq(Byte)
      PROVE  <<first>> \o (<<b>> \o t) = <<first, b>> \o t
  <2>1. <<first>> \in Seq(Byte) /\ <<b>> \in Seq(Byte)
    BY <1>1
  <2>2. first \in Nat /\ b \in Nat
    BY <1>1, SMT DEF Byte
  <2>3. <<first>> \o <<b>> = <<first, b>>
    BY <2>2, Pair, Zenon
  <2> QED BY <2>1, <2>3, ConcatAssociative
<1>6. CASE length <= 125
  <2>0. first \in Nat
    BY <1>1, SMT DEF Byte
  <2>1. <<first>> \o <<length>> = <<first, length>>
    BY <2>0, Pair, Zenon
  <2> QED BY <1>2, <1>3, <1>6, <2>1, Zenon DEF LengthHeader, first
<1>7. CASE ~(length <= 125) /\ length <= UINT16_MAX
  <2>1. LengthHeader(length) = <<126>> \o NetworkOrder(length, 2)
    BY <1>4, <1>7, Zenon DEF LengthHeader
  <2>2. <<first>> \o LengthHeader(length) = <<first, 126>> \o NetworkOrder(length, 2)
    BY <1>1, <1>4, <1>5, <2>1, ZenonT(60)
  <2>3. FrameStart(finished, opcode, FALSE, length) = <<first, 0 + 126>> \o NetworkOrder(length, 2)
    BY <1>2, <1>7, Zenon
  <2> QED BY <1>3, <2>2, <2>3, Zenon DEF first
<1>8. CASE ~(length <= 125) /\ ~(length <= UINT16_MAX)
  <2>1. LengthHeader(length) = <<127>> \o NetworkOrder(length, 8)
    BY <1>4, <1>8, Zenon DEF LengthHeader
  <2>2. <<first>> \o LengthHeader(length) = <<first, 127>> \o NetworkOrder(length, 8)
    BY <1>1, <1>4, <1>5, <2>1, ZenonT(60)
  <2>3. FrameStart(finished, opcode, FALSE, length) = <<first, 0 + 127>> \o NetworkOrder(length, 8)
    BY <1>2, <1>8, Zenon
  <2> QED BY <1>3, <2>2, <2>3, Zenon DEF first
<1> QED BY <1>6, <1>7, <1>8
\* An answer as websocket_frame_construct and the routes make it
IsAnswer(a) ==
    /\ a.finished \in BOOLEAN /\ a.opcode \in Opcodes /\ a.length \in 0 .. LengthCap
    /\ a.closeCode \in Nat \cup {WS_CC_UNUSED} /\ a.data \in Seq(Byte)

Start(a) == FrameStart(a.finished, a.opcode, FALSE, a.length)
CodeBytes(a) == IF a.closeCode # WS_CC_UNUSED THEN NetworkOrder(a.closeCode, 2) ELSE <<>>
DataBytes(a) == IF a.length # 0 THEN Str(a.data) ELSE <<>>

\* What is encoded begins as RFC 6455 says, and everything is bytes.
LEMMA EncodeFacts ==
  ASSUME NEW a, IsAnswer(a)
  PROVE  /\ Encode(a) = Start(a) \o CodeBytes(a) \o DataBytes(a)
         /\ IsStart(Start(a), a.finished, a.opcode, FALSE, a.length)
         /\ CodeBytes(a) \in Seq(Byte) /\ DataBytes(a) \in Seq(Byte)
         /\ Encode(a) \in Seq(Byte) /\ Sent(a) \in Seq(Byte)
         /\ IsPrefix(Start(a), Encode(a))
<1> DEFINE s == Start(a)
           c == CodeBytes(a)
           d == DataBytes(a)
<1>1. /\ a.finished \in BOOLEAN /\ a.opcode \in Opcodes /\ a.length \in Nat
      /\ a.closeCode \in Nat \cup {WS_CC_UNUSED} /\ a.data \in Seq(Byte)
  BY CapIsNat, SMT DEF IsAnswer
<1>2. FALSE \in BOOLEAN /\ 2 \in Nat
  OBVIOUS
<1>3. IsStart(s, a.finished, a.opcode, FALSE, a.length)
  BY <1>1, <1>2, FrameStartFacts, Zenon DEF Start
<1>4. s \in Seq(Byte)
  BY <1>3, Zenon DEF IsStart
<1>5. c \in Seq(Byte)
  <2>1. CASE a.closeCode # WS_CC_UNUSED
    <3>1. a.closeCode \in Nat
      BY <1>1, <2>1, Zenon
    <3>2. NetworkOrder(a.closeCode, 2) \in Seq(Byte)
      BY <1>2, <3>1, ReversedIsNetworkOrder, Zenon
    <3> QED BY <2>1, <3>2, Zenon DEF CodeBytes
  <2>2. CASE a.closeCode = WS_CC_UNUSED
    BY <2>2, EmptySeq, Zenon DEF CodeBytes
  <2> QED BY <2>1, <2>2, Zenon
<1>6. d \in Seq(Byte)
  BY <1>1, StrFacts, EmptySeq, Zenon DEF DataBytes
<1>7. Encode(a) = s \o c \o d
  <2>1. <<FirstByte(a.finished, a.opcode)>> \o LengthHeader(a.length) = s
    BY <1>1, HeaderIsStart, Zenon DEF Start
  <2>2. (IF a.closeCode # WS_CC_UNUSED THEN InNetworkOrder(a.closeCode, 2) ELSE <<>>) = c
    BY <1>1, <1>2, ReversedIsNetworkOrder, Zenon DEF CodeBytes
  <2>3. Header(a) = s \o c
    BY <2>1, <2>2, Zenon DEF Header, FirstByte
  <2> QED BY <2>3, Zenon DEF Encode, DataBytes
<1> HIDE DEF s, c, d
<1>8. /\ s \o c \in Seq(Byte) /\ (s \o c) \o d \in Seq(Byte)
      /\ c \o d \in Seq(Byte) /\ (s \o c) \o d = s \o (c \o d)
  BY <1>4, <1>5, <1>6, Concatenated, ZenonT(60)
<1>9. Encode(a) \in Seq(Byte) /\ Sent(a) \in Seq(Byte)
  BY <1>7, <1>8, StrFacts, Zenon DEF Sent
<1>10. IsPrefix(s, Encode(a))
  <2> DEFINE t == c \o d
             e == s \o t
  <2>1. /\ e \in Seq(Byte) /\ Len(e) = Len(s) + Len(t)
        /\ \A i \in 1 .. Len(s) : e[i] = s[i]
    BY <1>4, <1>8, Concat, Zenon DEF IsConcat
  <2>2. Len(s) \in Nat /\ Len(t) \in Nat
    BY <1>4, <1>8, LenProperties, Zenon
  <2> HIDE DEF t, e
  <2>3. Len(s) <= Len(e) /\ 1 \in 1 .. Len(e) + 1 /\ Len(s) \in 1 - 1 .. Len(e)
    BY <2>1, <2>2, SMT
  <2> DEFINE u == SubSeq(e, 1, Len(s))
  <2>4. u \in Seq(Byte) /\ Len(u) = Len(s) /\ \A i \in 1 .. Len(s) : u[i] = e[i]
    BY <2>1, <2>2, <2>3, SMT
  <2> HIDE DEF u
  <2>5. u = s
    BY <1>4, <2>1, <2>4, SeqEqual, Zenon
  <2>6. SubSeq(s, 1, Len(s)) = s
    BY <1>4, SubSeqFull, Zenon
  <2>7. IsPrefix(s, e)
    BY <2>3, <2>5, <2>6, Zenon DEF IsPrefix, u
  <2>8. Encode(a) = e
    BY <1>7, <1>8, Zenon DEF e, t
  <2> QED BY <2>7, <2>8, Zenon
<1> QED BY <1>3, <1>5, <1>6, <1>7, <1>9, <1>10, Zenon DEF s, c, d

\* Every answer to a frame has the type of an answer.
LEMMA AnswersAreTyped ==
  ASSUME NEW f, f.data \in Seq(Byte), f.length \in 0 .. LengthCap
  PROVE  /\ \A a \in Answers(f) : IsAnswer(a)
         /\ IsAnswer(ConstructClose(WS_CC_1002))
         /\ IsAnswer(EmptyFrame)
<1>1. /\ NoData = <<>> /\ SizeofPointer = 8 /\ WS_CC_UNUSED = -1
      /\ CON \in Opcodes /\ TEXT \in Opcodes /\ CLOSE \in Opcodes /\ PONG \in Opcodes
  BY Zenon DEF NoData, SizeofPointer, WS_CC_UNUSED, Opcodes
<1>2. 0 \in 0 .. LengthCap /\ 2 \in 0 .. LengthCap
  BY ByteBelowCap, SMT DEF Byte
<1>3. ASSUME NEW code \in Nat
      PROVE  IsAnswer(ConstructClose(code))
  BY <1>1, <1>2 DEF ConstructClose, Construct, IsAnswer
<1>4. IsAnswer(ConstructPong)
  BY <1>1, <1>2 DEF ConstructPong, Construct, IsAnswer
<1>5. IsAnswer(EmptyFrame)
  BY <1>1, <1>2 DEF EmptyFrame, IsAnswer
<1>6. IsAnswer(Echo(f))
  BY <1>1 DEF Echo, IsAnswer
<1>7. ASSUME NEW n \in Lengths
      PROVE  IsAnswer(Text(n))
  <2>1. n \in 0 .. LengthCap
    BY WebSocketAssumption, CapIsNat, SMT DEF WebSocketAssumption
  <2>2. <<97, 97, 97>> \in Seq(Byte)
    BY SMT DEF Byte
  <2> QED BY <1>1, <2>1, <2>2 DEF Text, IsAnswer
<1>8. IsAnswer(ConstructClose(WS_CC_1000)) /\ IsAnswer(ConstructClose(WS_CC_1002))
  BY <1>3, SMT DEF WS_CC_1000, WS_CC_1002
<1>9. \A a \in RouteAnswers(f) : IsAnswer(a)
  BY <1>6, <1>7, Zenon DEF RouteAnswers
<1> QED BY <1>4, <1>5, <1>8, <1>9, SMT DEF Answers
\* Bytes that strlen counts to their end
IsText(s) == s \in Seq(Byte) /\ \A k \in 1 .. Len(s) : s[k] # 0

LEMMA TextConcat ==
  ASSUME NEW s, IsText(s), NEW t, IsText(t)
  PROVE  IsText(s \o t)
<1> DEFINE m == Len(s)
           n == Len(t)
           c == s \o t
<1>1. s \in Seq(Byte) /\ t \in Seq(Byte)
  BY Zenon DEF IsText
<1>2. m \in Nat /\ n \in Nat
  BY <1>1, LenProperties, Zenon
<1>3. /\ c \in Seq(Byte) /\ Len(c) = m + n
      /\ \A i \in 1 .. m + n : c[i] = IF i <= m THEN s[i] ELSE t[i - m]
  BY <1>1, ConcatProperties, Zenon
<1>4. (\A k \in 1 .. m : s[k] # 0) /\ \A k \in 1 .. n : t[k] # 0
  BY Zenon DEF IsText
<1> HIDE DEF m, n, c
<1>5. ASSUME NEW i \in 1 .. m + n PROVE c[i] # 0
  <2>1. CASE i <= m
    <3>1. i \in 1 .. m
      BY <1>2, <2>1, SMT
    <3> QED BY <1>3, <1>4, <2>1, <3>1, Zenon
  <2>2. CASE ~(i <= m)
    <3>1. i - m \in 1 .. n
      BY <1>2, <2>2, SMT
    <3> QED BY <1>3, <1>4, <2>2, <3>1, Zenon
  <2> QED BY <2>1, <2>2
<1> QED BY <1>3, <1>5, Zenon DEF IsText, c

\* The two bytes before a short text are a text.
LEMMA StartIsText ==
  ASSUME NEW opcode \in Opcodes, NEW n \in 1 .. 125
  PROVE  IsText(FrameStart(TRUE, opcode, FALSE, n))
<1> DEFINE s == FrameStart(TRUE, opcode, FALSE, n)
<1>1. n \in Nat /\ n <= 125 /\ TRUE \in BOOLEAN /\ FALSE \in BOOLEAN
  BY SMT
<1>2. IsStart(s, TRUE, opcode, FALSE, n)
  BY <1>1, FrameStartFacts, Zenon
<1> HIDE DEF s
<1>3. /\ s \in Seq(Byte) /\ Len(s) = 2
      /\ s[1] = FirstByte(TRUE, opcode) /\ s[2] = SecondByte(FALSE, n)
  BY <1>1, <1>2, Zenon DEF IsStart
<1>4. FirstByte(TRUE, opcode) # 0 /\ SecondByte(FALSE, n) # 0
  BY OpcodeValues, SMT DEF FirstByte, SecondByte
<1>5. Len(s) = 2 /\ s[1] # 0 /\ s[2] # 0
  BY <1>3, <1>4, Zenon
<1>6. \A k \in 1 .. 2 : k = 1 \/ k = 2
  BY SMT
<1>7. IsText(s)
  BY <1>3, <1>5, <1>6, Zenon DEF IsText
<1> QED BY <1>7, Zenon DEF s

\* A close frame whose code has no zero byte is sent whole.
LEMMA CloseIsSent ==
  ASSUME NEW code \in Nat, IsText(NetworkOrder(code, 2))
  PROVE  Sent(ConstructClose(code)) = ServerBytes(CLOSE, NetworkOrder(code, 2))
<1> DEFINE a == ConstructClose(code)
           p == NetworkOrder(code, 2)
           s == FrameStart(TRUE, CLOSE, FALSE, 2)
<1>1. /\ a.finished = TRUE /\ a.opcode = CLOSE /\ a.closeCode = code /\ a.length = 2
      /\ a.data = <<>> /\ code # WS_CC_UNUSED
  BY SMT DEF ConstructClose, Construct, NoData, WS_CC_UNUSED
<1>2. /\ TRUE \in BOOLEAN /\ CLOSE \in Opcodes /\ <<>> \in Seq(Byte) /\ 2 \in Nat /\ 2 \in 1 .. 125
      /\ 2 \in Byte /\ 2 # 0
  BY SMT DEF Opcodes, Byte
<1>3. 2 \in 0 .. LengthCap
  BY <1>2, ByteBelowCap, Zenon
<1> HIDE DEF a
<1>4. IsAnswer(a)
  BY <1>1, <1>2, <1>3, Zenon DEF IsAnswer
<1>5. Encode(a) = Start(a) \o CodeBytes(a) \o DataBytes(a)
  BY <1>4, EncodeFacts, Zenon
<1>6. Start(a) = s /\ CodeBytes(a) = p /\ DataBytes(a) = <<>>
  BY <1>1, <1>2, EmptyStr, Zenon DEF Start, CodeBytes, DataBytes
<1>7. IsText(s)
  BY <1>2, StartIsText, Zenon
<1>8. p \in Seq(Byte) /\ Len(p) = 2
  BY <1>2, ReversedIsNetworkOrder, Zenon
<1>9. ServerBytes(CLOSE, p) = s \o p
  BY <1>8, Zenon DEF ServerBytes
<1> HIDE DEF s, p
<1>10. IsText(s \o p)
  BY <1>7, TextConcat, Zenon DEF p
<1>11. s \o p \in Seq(Byte) /\ Str(s \o p) = s \o p
  BY <1>10, StrFacts, Zenon DEF IsText
<1>12. (s \o p) \o <<>> = s \o p
  BY <1>11, ConcatEmptySeq, Zenon
<1>13. Sent(a) = s \o p
  BY <1>5, <1>6, <1>11, <1>12, Zenon DEF Sent
<1> QED BY <1>9, <1>13, Zenon DEF a, p

\* The codes that the server sends have no zero byte.
LEMMA CodesAreTexts == IsText(NetworkOrder(WS_CC_1000, 2)) /\ IsText(NetworkOrder(WS_CC_1002, 2))
<1>1. ASSUME NEW v \in Nat, (v \div 256) % 256 # 0, (v \div 1) % 256 # 0
      PROVE  IsText(NetworkOrder(v, 2))
  <2> DEFINE s == NetworkOrder(v, 2)
  <2>1. 2 \in Nat
    OBVIOUS
  <2>2. s \in Seq(Byte) /\ Len(s) = 2
    BY <2>1, ReversedIsNetworkOrder, Zenon
  <2>3. s = [k \in 1 .. 2 |-> IF 2 - k <= 2 THEN (v \div Weight[2 - k + 1]) % 256 ELSE 0]
    BY Zenon DEF NetworkOrder
  <2>4. Weight[1] = 1 /\ Weight[2] = 256
    BY SMT DEF Weight
  <2> HIDE DEF s
  <2>5. ASSUME NEW k \in 1 .. 2 PROVE s[k] # 0
    <3>1. CASE k = 1
      BY <1>1, <2>3, <2>4, <3>1, SMT
    <3>2. CASE k = 2
      BY <1>1, <2>3, <2>4, <3>2, SMT
    <3> QED BY <3>1, <3>2, SMT
  <2> QED BY <2>2, <2>5, Zenon DEF IsText, s
<1>2. /\ WS_CC_1000 \in Nat /\ (WS_CC_1000 \div 256) % 256 # 0 /\ (WS_CC_1000 \div 1) % 256 # 0
      /\ WS_CC_1002 \in Nat /\ (WS_CC_1002 \div 256) % 256 # 0 /\ (WS_CC_1002 \div 1) % 256 # 0
  BY SMT DEF WS_CC_1000, WS_CC_1002
<1> QED BY <1>1, <1>2

\* An echo of a short text without a zero byte is sent whole.
LEMMA EchoIsSent ==
  ASSUME NEW f, IsText(f.data), f.length = Len(f.data), f.length \in 1 .. 125
  PROVE  Sent(Echo(f)) = ServerBytes(TEXT, f.data)
<1> DEFINE a == Echo(f)
           p == f.data
           n == f.length
           s == FrameStart(TRUE, TEXT, FALSE, n)
<1>1. /\ a.finished = TRUE /\ a.opcode = TEXT /\ a.closeCode = WS_CC_UNUSED /\ a.length = n
      /\ a.data = p
  BY SMT DEF Echo
<1>2. p \in Seq(Byte) /\ Str(p) = p
  BY StrFacts, Zenon DEF IsText
<1>3. TRUE \in BOOLEAN /\ TEXT \in Opcodes /\ n \in Byte /\ n # 0
  <2>1. TEXT \in Opcodes
    BY Zenon DEF Opcodes
  <2>2. n \in 1 .. 125
    OBVIOUS
  <2> HIDE DEF n
  <2>3. n \in Byte /\ n # 0
    BY <2>2, SMT DEF Byte
  <2> QED BY <2>1, <2>3, Zenon
<1>4. n \in 0 .. LengthCap
  BY <1>3, ByteBelowCap, Zenon
<1>5. IsText(s)
  BY <1>3, StartIsText, Zenon
<1>6. ServerBytes(TEXT, p) = s \o p
  BY Zenon DEF ServerBytes
<1> HIDE DEF a
<1>7. IsAnswer(a)
  BY <1>1, <1>2, <1>3, <1>4, Zenon DEF IsAnswer
<1>8. Encode(a) = Start(a) \o CodeBytes(a) \o DataBytes(a)
  BY <1>7, EncodeFacts, Zenon
<1>9. Start(a) = s /\ CodeBytes(a) = <<>> /\ DataBytes(a) = p
  BY <1>1, <1>2, <1>3, Zenon DEF Start, CodeBytes, DataBytes
<1> HIDE DEF s
<1>10. s \in Seq(Byte) /\ s \o <<>> = s
  BY <1>5, ConcatEmptySeq, Zenon DEF IsText
<1>11. IsText(s \o p)
  BY <1>5, TextConcat, Zenon
<1>12. Str(s \o p) = s \o p
  BY <1>11, StrFacts, Zenon DEF IsText
<1>13. Sent(a) = s \o p
  BY <1>8, <1>9, <1>10, <1>12, Zenon DEF Sent
<1> QED BY <1>6, <1>13, Zenon DEF a
-----------------------------------------------------------------------------
(* The invariant                                                           *)

\* Nothing has been made of a frame yet.
Untouched ==
    /\ in_wsf = Cleared /\ out_wsf = EmptyFrame /\ wire = <<>>
    /\ should_close = FALSE /\ called = FALSE

\* No frame has come yet; the last one waits in the buffer; it was processed, and its
\* answer and the end of the connection follow from what was decoded.
Idle == buffer = <<>> /\ Untouched /\ frame.finished \in BOOLEAN /\ frame.masked \in BOOLEAN /\ Legal(frame)
Arrived == frame \in ClientFrames /\ buffer = ClientBytes(frame) /\ Untouched
Answered ==
    /\ frame \in ClientFrames /\ buffer = <<>>
    /\ in_wsf = Decode(ClientBytes(frame))
    /\ in_wsf.ok => /\ out_wsf \in Answers(in_wsf)
                    /\ called = GoesToRoute(in_wsf)
                    /\ should_close = (in_wsf.opcode = CLOSE)
    /\ ~in_wsf.ok => /\ out_wsf = ConstructClose(WS_CC_1002)
                     /\ called = FALSE /\ should_close = FALSE
    /\ wire = Sent(out_wsf)

WsInv == Idle \/ Arrived \/ Answered

LEMMA WsInvInit == Init => WsInv
<1> SUFFICES ASSUME Init PROVE WsInv
  OBVIOUS
<1>1. frame.finished = TRUE /\ frame.masked = TRUE /\ frame.opcode = TEXT
  BY SMT DEF Init
<1>2. Legal(frame)
  BY <1>1, SMT DEF Legal, TEXT, CLOSE, PING, PONG
<1>3. buffer = <<>> /\ Untouched
  BY Zenon DEF Init, Untouched
<1> QED BY <1>1, <1>2, <1>3, Zenon DEF WsInv, Idle

LEMMA WsInvNext == WsInv /\ [Next]_vars => WsInv'
<1> SUFFICES ASSUME WsInv, [Next]_vars PROVE WsInv'
  OBVIOUS
<1>1. CASE Arrive
  <2>1. PICK f \in ClientFrames : frame' = f /\ buffer' = BytesOf[f]
    BY <1>1, Zenon DEF Arrive
  <2>2. buffer' = ClientBytes(frame')
    BY <2>1, Zenon DEF BytesOf
  <2>3. should_close = FALSE
    BY <1>1, Zenon DEF Arrive, WsInv, Idle, Arrived, Answered, Untouched
  <2>4. Untouched'
    BY <1>1, <2>3, Zenon DEF Arrive, Untouched, Cleared
  <2>5. Arrived'
    BY <2>1, <2>2, <2>4, Zenon DEF Arrived
  <2> QED BY <2>5, Zenon DEF WsInv
<1>2. CASE Process
  <2>1. Arrived
    BY <1>2, Zenon DEF Process, WsInv, Idle, Answered
  <2> DEFINE f == Decode(buffer)
  <2>2. /\ in_wsf' = f /\ buffer' = <<>> /\ frame' = frame /\ wire' = Sent(out_wsf')
        /\ f.ok => /\ out_wsf' \in Answers(f) /\ called' = GoesToRoute(f)
                   /\ should_close' = (f.opcode = CLOSE)
        /\ ~f.ok => /\ out_wsf' = ConstructClose(WS_CC_1002)
                    /\ called' = called /\ should_close' = should_close
    BY <1>2, SMT DEF Process
  <2>3. f = Decode(ClientBytes(frame'))
    BY <2>1, <2>2, Zenon DEF Arrived
  <2>4. called = FALSE /\ should_close = FALSE
    BY <2>1, Zenon DEF Arrived, Untouched
  <2>5. frame' \in ClientFrames
    BY <2>1, <2>2, Zenon DEF Arrived
  <2> HIDE DEF f
  <2>6. Answered'
    BY <2>2, <2>3, <2>4, <2>5, SMT DEF Answered
  <2> QED BY <2>6, Zenon DEF WsInv
<1>3. CASE UNCHANGED vars
  BY <1>3 DEF vars, WsInv, Idle, Arrived, Answered, Untouched
<1> QED BY <1>1, <1>2, <1>3, Zenon DEF Next

\* The last frame is what its answer was made from.
THEOREM AnswersFollowFrames == Spec => []WsInv
<1>1. Init => WsInv
  BY WsInvInit
<1>2. WsInv /\ [Next]_vars => WsInv'
  BY WsInvNext
<1> QED BY <1>1, <1>2, PTL DEF Spec
-----------------------------------------------------------------------------
(* The properties                                                          *)

\* What is processed was sent by the client.
LEMMA ProcessedIsAnswered ==
  ASSUME WsInv, Processed
  PROVE  Answered
BY Zenon DEF WsInv, Processed, Idle, Arrived, Untouched

LEMMA ClearedIsTyped ==
  /\ Cleared.data \in Seq(Byte) /\ Cleared.length \in 0 .. LengthCap
<1>1. <<>> \in Seq(Byte)
  BY EmptySeq, Zenon
<1> QED BY <1>1, DecodeIsTyped, Zenon DEF Cleared

LEMMA AnsweredIsTyped ==
  ASSUME Answered
  PROVE  /\ in_wsf.data \in Seq(Byte) /\ in_wsf.length \in 0 .. LengthCap
         /\ IsAnswer(out_wsf) /\ wire \in Seq(Byte)
<1>1. ClientBytes(frame) \in Seq(Byte)
  BY ClientBytesFacts, Zenon DEF Answered
<1>2. in_wsf.data \in Seq(Byte) /\ in_wsf.length \in 0 .. LengthCap
  BY <1>1, DecodeIsTyped, Zenon DEF Answered
<1>3. IsAnswer(out_wsf)
  <2>1. (\A a \in Answers(in_wsf) : IsAnswer(a)) /\ IsAnswer(ConstructClose(WS_CC_1002))
    BY <1>2, AnswersAreTyped, Zenon
  <2> DEFINE other == ConstructClose(WS_CC_1002)
  <2>2. out_wsf \in Answers(in_wsf) \/ out_wsf = other
    BY SMT DEF Answered
  <2>3. IsAnswer(other)
    BY <2>1, SMT
  <2> HIDE DEF other
  <2> QED BY <2>1, <2>2, <2>3, Zenon
<1>4. wire \in Seq(Byte)
  BY <1>3, EncodeFacts, Zenon DEF Answered
<1> QED BY <1>2, <1>3, <1>4, Zenon

\* The decoder and the encoder handle bytes, whatever the client sends.
LEMMA WsInvTyped == WsInv => TypeOK
<1> SUFFICES ASSUME WsInv PROVE TypeOK
  OBVIOUS
<1>1. frame.finished \in BOOLEAN /\ frame.masked \in BOOLEAN /\ Legal(frame)
  BY ClientFrameFacts, Zenon DEF WsInv, Idle, Arrived, Answered
<1>2. buffer \in Seq(Byte)
  BY ClientBytesFacts, EmptySeq, ZenonT(60) DEF WsInv, Idle, Arrived, Answered
<1>3. IsAnswer(EmptyFrame)
  BY ClearedIsTyped, AnswersAreTyped, Zenon
<1>4. wire \in Seq(Byte) /\ IsAnswer(out_wsf)
      /\ in_wsf.data \in Seq(Byte) /\ in_wsf.length \in 0 .. LengthCap
  BY <1>3, EmptySeq, ClearedIsTyped, AnsweredIsTyped, Zenon DEF WsInv, Idle, Arrived, Untouched
<1>5. should_close \in BOOLEAN /\ called \in BOOLEAN
  <2>1. \A f : GoesToRoute(f) \in BOOLEAN /\ (f.opcode = CLOSE) \in BOOLEAN
    BY Zenon DEF GoesToRoute
  <2>2. CASE Answered
    BY <2>1, <2>2, Zenon DEF Answered
  <2>3. CASE Untouched
    BY <2>3, Zenon DEF Untouched
  <2> QED BY <2>2, <2>3, Zenon DEF WsInv, Idle, Arrived
<1> QED BY <1>1, <1>2, <1>4, <1>5, Zenon DEF TypeOK, IsAnswer

\* What is in memory and on the wire is bytes, and lengths stay below the cap.
THEOREM FramesAreBytes == Spec => []TypeOK
<1>1. Spec => []WsInv
  BY AnswersFollowFrames
<1>2. WsInv => TypeOK
  BY WsInvTyped
<1> QED BY <1>1, <1>2, PTL

LEMMA WsInvRead == WsInv => ShortFrameIsRead
<1> SUFFICES ASSUME WsInv, Processed, frame.masked, Len(frame.payload) <= 125
             PROVE  /\ in_wsf.finished = frame.finished /\ in_wsf.opcode = frame.opcode
                    /\ in_wsf.length = Len(frame.payload)
                    /\ Part(in_wsf.data, 1, in_wsf.length) = frame.payload
                    /\ frame.opcode = CLOSE /\ frame.payload # <<>> =>
                        NetworkOrder(in_wsf.closeCode, 2) = Part(frame.payload, 1, 2)
  BY Zenon DEF ShortFrameIsRead
<1> DEFINE p == frame.payload
           n == Len(p)
           code == in_wsf.closeCode
<1>1. frame \in ClientFrames /\ in_wsf = Decode(ClientBytes(frame))
  BY ProcessedIsAnswered, Zenon DEF Answered
<1>2. /\ in_wsf.finished = frame.finished /\ in_wsf.opcode = frame.opcode
      /\ in_wsf.length = n /\ in_wsf.data = p
  BY <1>1, DecodedFrame, Zenon
<1>3. p \in Seq(Byte) /\ n \in Nat /\ Legal(frame)
  BY <1>1, ClientFrameFacts, Zenon
<1>4. in_wsf.opcode = CLOSE => code = 256 * At(p, 1) + At(p, 2)
  BY <1>1, <1>2, DecodeFields, ZenonT(60)
<1> HIDE DEF n, p, code
<1>5. Part(p, 1, n) = p
  <2>1. 1 \in Nat \ {0}
    OBVIOUS
  <2>2. /\ Part(p, 1, n) \in Seq(Byte) /\ Len(Part(p, 1, n)) = n
        /\ \A k \in 1 .. n : Part(p, 1, n)[k] = At(p, 1 + k - 1)
    BY <1>3, <2>1, PartIsBytes, Zenon
  <2>3. \A k \in 1 .. n : At(p, 1 + k - 1) = p[k]
    BY <1>3, SMT DEF At, n
  <2>4. \A k \in 1 .. n : Part(p, 1, n)[k] = p[k]
    BY <2>2, <2>3, Zenon
  <2> QED BY <1>3, <2>2, <2>4, SeqEqual, Zenon DEF n
<1>6. ASSUME frame.opcode = CLOSE
      PROVE  NetworkOrder(code, 2) = Part(p, 1, 2)
  <2>1. 1 \in Nat \ {0} /\ 2 \in Nat \ {0} /\ 2 \in Nat
    OBVIOUS
  <2>2. At(p, 1) \in Byte /\ At(p, 2) \in Byte
    BY <1>3, <2>1, AtIsByte, Zenon
  <2>3. code = 256 * At(p, 1) + At(p, 2)
    BY <1>2, <1>4, <1>6, Zenon
  <2>4. \A x, y \in Byte : /\ 256 * x + y \in Nat
                           /\ ((256 * x + y) \div 256) % 256 = x
                           /\ ((256 * x + y) \div 1) % 256 = y
    BY SMT DEF Byte
  <2>5. code \in Nat /\ (code \div 256) % 256 = At(p, 1) /\ (code \div 1) % 256 = At(p, 2)
    <3> DEFINE x == At(p, 1)
               y == At(p, 2)
    <3>1. x \in Byte /\ y \in Byte /\ code = 256 * x + y
      BY <2>2, <2>3, Zenon
    <3> HIDE DEF x, y
    <3>2. code \in Nat /\ (code \div 256) % 256 = x /\ (code \div 1) % 256 = y
      BY <2>4, <3>1
    <3> QED BY <3>2, Zenon DEF x, y
  <2>6. Weight[1] = 1 /\ Weight[2] = 256
    BY SMT DEF Weight
  <2>7. \A k \in 1 .. 2 : NetworkOrder(code, 2)[k] = At(p, 1 + k - 1)
    <3>1. NetworkOrder(code, 2)
            = [k \in 1 .. 2 |-> IF 2 - k <= 2 THEN (code \div Weight[2 - k + 1]) % 256 ELSE 0]
      BY Zenon DEF NetworkOrder
    <3>2. NetworkOrder(code, 2)[1] = At(p, 1) /\ NetworkOrder(code, 2)[2] = At(p, 2)
      BY <2>5, <2>6, <3>1, SMT
    <3>3. \A k \in 1 .. 2 : (k = 1 \/ k = 2) /\ 1 + k - 1 = k
      BY SMT
    <3> QED BY <3>2, <3>3, Zenon
  <2>8. NetworkOrder(code, 2) \in Seq(Byte) /\ Len(NetworkOrder(code, 2)) = 2
    BY <2>1, <2>5, ReversedIsNetworkOrder, Zenon
  <2>9. /\ Part(p, 1, 2) \in Seq(Byte) /\ Len(Part(p, 1, 2)) = 2
        /\ \A k \in 1 .. 2 : Part(p, 1, 2)[k] = At(p, 1 + k - 1)
    BY <1>3, <2>1, PartIsBytes, ZenonT(60)
  <2>10. \A k \in 1 .. 2 : NetworkOrder(code, 2)[k] = Part(p, 1, 2)[k]
    BY <2>7, <2>9, Zenon
  <2> QED BY <2>8, <2>9, <2>10, SeqEqual, ZenonT(60)
<1> QED BY <1>2, <1>5, <1>6, Zenon DEF n, p, code

\* A short masked frame is read as it was sent, for every payload and every key.
THEOREM ShortFramesAreRead == Spec => []ShortFrameIsRead
<1>1. Spec => []WsInv
  BY AnswersFollowFrames
<1>2. WsInv => ShortFrameIsRead
  BY WsInvRead
<1> QED BY <1>1, <1>2, PTL

LEMMA WsInvLength == WsInv => AnswerLengthIsNetworkOrder
<1> SUFFICES ASSUME WsInv, Processed, called
             PROVE  IsPrefix(FrameStart(TRUE, TEXT, FALSE, out_wsf.length), Encode(out_wsf))
  BY Zenon DEF AnswerLengthIsNetworkOrder
<1>1. Answered
  BY ProcessedIsAnswered, Zenon
<1>2. in_wsf.ok /\ out_wsf \in Answers(in_wsf) /\ GoesToRoute(in_wsf)
  BY <1>1, Zenon DEF Answered
<1>3. out_wsf \in RouteAnswers(in_wsf)
  BY <1>2, SMT DEF Answers, GoesToRoute
<1>4. out_wsf.finished = TRUE /\ out_wsf.opcode = TEXT
  BY <1>3, SMT DEF RouteAnswers, Echo, Text
<1>5. IsPrefix(Start(out_wsf), Encode(out_wsf))
  BY <1>1, AnsweredIsTyped, EncodeFacts, Zenon
<1> QED BY <1>4, <1>5, Zenon DEF Start

\* The length of every answer of a route, up to the cap, is in network order.
THEOREM LengthsAreInNetworkOrder == Spec => []AnswerLengthIsNetworkOrder
<1>1. Spec => []WsInv
  BY AnswersFollowFrames
<1>2. WsInv => AnswerLengthIsNetworkOrder
  BY WsInvLength
<1> QED BY <1>1, <1>2, PTL

LEMMA WsInvEcho == WsInv => EchoIsWhole
<1> SUFFICES ASSUME WsInv, Processed, frame.masked, Len(frame.payload) \in 1 .. 125,
                    out_wsf = Echo(in_wsf),
                    \A k \in DOMAIN frame.payload : frame.payload[k] # 0
             PROVE  wire = ServerBytes(TEXT, frame.payload)
  BY Zenon DEF EchoIsWhole
<1> DEFINE p == frame.payload
           n == Len(p)
<1>1. frame \in ClientFrames /\ in_wsf = Decode(ClientBytes(frame)) /\ wire = Sent(out_wsf)
  BY ProcessedIsAnswered, Zenon DEF Answered
<1>2. n <= 125
  <2>1. \A m \in 1 .. 125 : m <= 125
    BY SMT
  <2> QED BY <2>1, Zenon
<1>3. in_wsf.length = n /\ in_wsf.data = p
  BY <1>1, <1>2, DecodedFrame, Zenon
<1>4. p \in Seq(Byte) /\ DOMAIN p = 1 .. n
  BY <1>1, ClientFrameFacts, LenProperties, Zenon
<1>5. IsText(p)
  BY <1>4, Zenon DEF IsText
<1>6. Sent(Echo(in_wsf)) = ServerBytes(TEXT, in_wsf.data)
  BY <1>3, <1>5, EchoIsSent, Zenon
<1> QED BY <1>1, <1>3, <1>6, Zenon

\* If the echo route answers a masked frame whose payload has 1 to 125 bytes and
\* no zero byte, the whole payload goes out in one TEXT frame, whatever opcode the
\* client's frame had ("strlen" in websocket_frame_encode and _send cuts nothing).
THEOREM EchoesAreWhole == Spec => []EchoIsWhole
<1>1. Spec => []WsInv
  BY AnswersFollowFrames
<1>2. WsInv => EchoIsWhole
  BY WsInvEcho
<1> QED BY <1>1, <1>2, PTL

LEMMA WsInvClose == WsInv => CloseIsAnswered
<1> SUFFICES ASSUME WsInv, Processed
             PROVE  /\ frame.masked => (should_close <=> frame.opcode = CLOSE)
                    /\ should_close => wire = ServerBytes(CLOSE, NetworkOrder(WS_CC_1000, 2))
                    /\ ~frame.masked => wire = ServerBytes(CLOSE, NetworkOrder(WS_CC_1002, 2))
  BY SMT DEF CloseIsAnswered
<1>1. Answered
  BY ProcessedIsAnswered, Zenon
<1>2. in_wsf.ok = frame.masked /\ in_wsf.opcode = frame.opcode /\ in_wsf.finished = frame.finished
  BY <1>1, DecodedFrame, Zenon DEF Answered
<1>3. frame.finished \in BOOLEAN /\ frame.masked \in BOOLEAN /\ Legal(frame)
  BY <1>1, ClientFrameFacts, Zenon DEF Answered
<1>4. frame.masked => should_close = (frame.opcode = CLOSE)
  BY <1>1, <1>2, SMT DEF Answered
<1>5. ASSUME should_close
      PROVE  wire = ServerBytes(CLOSE, NetworkOrder(WS_CC_1000, 2))
  <2>1. in_wsf.ok /\ in_wsf.opcode = CLOSE /\ out_wsf \in Answers(in_wsf)
    BY <1>1, <1>5, Zenon DEF Answered
  <2>2. in_wsf.finished
    BY <1>2, <1>3, <2>1, SMT DEF Legal
  <2>3. Answers(in_wsf) = {ConstructClose(WS_CC_1000)}
    BY <2>1, <2>2, SMT DEF Answers, CLOSE, PING, PONG
  <2>4. wire = Sent(ConstructClose(WS_CC_1000))
    BY <1>1, <2>1, <2>3, SMT DEF Answered
  <2> QED BY <2>4, CloseIsSent, CodesAreTexts, SMT DEF WS_CC_1000, WS_CC_1002
<1>6. ASSUME ~frame.masked
      PROVE  wire = ServerBytes(CLOSE, NetworkOrder(WS_CC_1002, 2))
  <2>1. wire = Sent(ConstructClose(WS_CC_1002))
    BY <1>1, <1>2, <1>6, SMT DEF Answered
  <2> QED BY <2>1, CloseIsSent, CodesAreTexts, SMT DEF WS_CC_1000, WS_CC_1002
<1> QED BY <1>4, <1>5, <1>6, Zenon

\* Of masked frames exactly a close frame ends the connection, and the answer is
\* then a whole close frame with the code 1000, whatever code the client sent.  An
\* unmasked frame is answered by a whole close frame with the code 1002.
THEOREM ClosesAreAnswered == Spec => []CloseIsAnswered
<1>1. Spec => []WsInv
  BY AnswersFollowFrames
<1>2. WsInv => CloseIsAnswered
  BY WsInvClose
<1> QED BY <1>1, <1>2, PTL
=============================================================================
