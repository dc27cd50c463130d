---------------------------- MODULE PacketLemmas ----------------------------
(***************************************************************************)
(* Packets of the DCC encoder, bit by bit: what each DCC_set_ operation    *)
(* leaves in the bytes, that the finished packet is the frame DccFormat    *)
(* asks for, and that the DCC_get_ operations read back what was set, for  *)
(* every address and speed.                                                *)
(***************************************************************************)
EXTENDS Dcc, DccFormat, SequenceTheorems, TLAPS

(* The bits of a byte are those of its number. *)
LEMMA ByteBits ==
  ASSUME NEW n \in Int
  PROVE  /\ Byte(n) \in BYTE
         /\ 0 \in Byte(n) <=> n % 2 = 1
         /\ 1 \in Byte(n) <=> (n \div 2) % 2 = 1
         /\ 2 \in Byte(n) <=> (n \div 4) % 2 = 1
         /\ 3 \in Byte(n) <=> (n \div 8) % 2 = 1
         /\ 4 \in Byte(n) <=> (n \div 16) % 2 = 1
         /\ 5 \in Byte(n) <=> (n \div 32) % 2 = 1
         /\ 6 \in Byte(n) <=> (n \div 64) % 2 = 1
         /\ 7 \in Byte(n) <=> (n \div 128) % 2 = 1
  <1>1. /\ 2^0 = 1 /\ 2^1 = 2 /\ 2^2 = 4 /\ 2^3 = 8
        /\ 2^4 = 16 /\ 2^5 = 32 /\ 2^6 = 64 /\ 2^7 = 128
    OBVIOUS
  <1>2. \A k \in 0 .. 7 : k \in Byte(n) <=> (n \div 2^k) % 2 = 1  BY DEF Byte
  <1>3. Byte(n) \in BYTE  BY DEF Byte, BYTE
  <1>4. n \div 1 = n  OBVIOUS
  <1> QED  BY <1>1, <1>2, <1>3, <1>4

(* The masks of dcc.h, as sets of bits. *)
LEMMA Masks ==
  /\ DCC_MASK_PREAMBLE_1 = 0 .. 3
  /\ DCC_MASK_ADDRESS_1 = 2 .. 7
  /\ DCC_MASK_ADDRESS_2 = 0 .. 2
  /\ DCC_MASK_SD_PREAMBLE_2 = 2 .. 7
  /\ DCC_MASK_DIRECTION_3 = 0 .. 6
  /\ DCC_MASK_SPEED_3 = {0, 1, 7}
  /\ DCC_MASK_CHECKSUM_3 = 1 .. 7
  /\ DCC_MASK_CHECKSUM_4 = {0}
  /\ Byte(\hFF) = 0 .. 7 /\ Byte(\hF0) = 4 .. 7
  /\ Byte(\h80) = {7} /\ Byte(\h40) = {6} /\ Byte(\h01) = {0} /\ Byte(1) = {0}
  BY ByteBits DEF BYTE, DCC_MASK_PREAMBLE_1, DCC_MASK_ADDRESS_1, DCC_MASK_ADDRESS_2,
     DCC_MASK_SD_PREAMBLE_2, DCC_MASK_DIRECTION_3, DCC_MASK_SPEED_3,
     DCC_MASK_CHECKSUM_3, DCC_MASK_CHECKSUM_4

(* A packet under way. u: the preamble is there; a: the address; m: the    *)
(* preamble of the instruction is there; d: the direction; c: the speed.   *)
(* Its last byte may be anything.                                          *)
Draft(p, u, a, m, d, c) ==
  /\ p \in [1 .. 5 -> BYTE]
  /\ p[1] = IF u = 1 THEN 0 .. 7 ELSE {}
  /\ p[2] = (IF u = 1 THEN 4 .. 7 ELSE {}) \cup ShiftRight(a, 5)
  /\ p[3] = ShiftLeft(a, 3) \cup (IF m = 1 THEN {0} ELSE {})
  /\ p[4] = (IF d = 1 THEN {7} ELSE {}) \cup ShiftLeft(c, 2)

(* Seven bits of address, five of speed. *)
Addresses == SUBSET (0 .. 6)
Codes == SUBSET (0 .. 4)

(* Bytes are equal bit by bit. *)
LEMMA BytesEqual ==
  ASSUME NEW b \in BYTE, NEW c \in BYTE, \A k \in 0 .. 7 : k \in b <=> k \in c
  PROVE  b = c
  BY DEF BYTE

(* An address, modulo its maximum, has seven bits. *)
LEMMA AddressBits ==
  ASSUME NEW n \in Int
  PROVE  Byte(n % DCC_ADDRESS_MAX) \in Addresses
  <1>1. n % 128 \in 0 .. 127  OBVIOUS
  <1>2. ASSUME NEW x \in 0 .. 127  PROVE Byte(x) \in SUBSET (0 .. 6)
    <2>1. x \div 128 = 0  OBVIOUS
    <2> QED BY <2>1, ByteBits DEF BYTE
  <1> QED  BY <1>1, <1>2 DEF DCC_ADDRESS_MAX, Addresses

(* DCC_baseline_packet_create: nothing is set. *)
LEMMA DraftCreated == Draft(DCC_baseline_packet_create, 0, {}, 0, 0, {})
  BY DEF Draft, DCC_baseline_packet_create, DCC_packet_create, DCC_BASELINE_LEN, BYTE, ShiftLeft, ShiftRight

(* DCC_set_address sets the address, whichever was there, and nothing      *)
(* else.                                                                   *)
LEMMA DraftAddress ==
  ASSUME NEW p, NEW u \in {0, 1}, NEW a \in Addresses, NEW m \in {0, 1}, NEW d \in {0, 1},
         NEW c \in Codes, Draft(p, u, a, m, d, c), NEW n \in Int
  PROVE  Draft(DCC_set_address(p, n), u, Byte(n % DCC_ADDRESS_MAX), m, d, c)
  <1> DEFINE b == Byte(n % DCC_ADDRESS_MAX)
             q == DCC_set_address(p, n)
  <1>1. b \in Addresses  BY AddressBits
  <1> HIDE DEF b
  <1>2. /\ q = [p EXCEPT ![2] = (p[2] \cap DCC_MASK_ADDRESS_1) \cup ShiftRight(b, 5),
                 ![3] = (p[3] \cap DCC_MASK_ADDRESS_2) \cup ShiftLeft(b, 3)]
    BY DEF DCC_set_address, b
  <1>3. (p[2] \cap DCC_MASK_ADDRESS_1) = IF u = 1 THEN 4 .. 7 ELSE {}
    BY Masks DEF Draft, ShiftRight, Addresses
  <1>4. (p[3] \cap DCC_MASK_ADDRESS_2) = IF m = 1 THEN {0} ELSE {}
    BY Masks DEF Draft, ShiftLeft, Addresses
  <1>5. ShiftRight(b, 5) \in BYTE /\ ShiftLeft(b, 3) \in BYTE
    BY DEF ShiftRight, ShiftLeft, BYTE
  <1>6. /\ q \in [1 .. 5 -> BYTE]
        /\ q[1] = p[1] /\ q[4] = p[4] /\ q[5] = p[5]
        /\ q[2] = (p[2] \cap DCC_MASK_ADDRESS_1) \cup ShiftRight(b, 5)
        /\ q[3] = (p[3] \cap DCC_MASK_ADDRESS_2) \cup ShiftLeft(b, 3)
    <2> DEFINE x == (p[2] \cap DCC_MASK_ADDRESS_1) \cup ShiftRight(b, 5)
               y == (p[3] \cap DCC_MASK_ADDRESS_2) \cup ShiftLeft(b, 3)
    <2>1. x \in BYTE /\ y \in BYTE  BY <1>3, <1>4, <1>5 DEF BYTE
    <2>2. p \in [1 .. 5 -> BYTE]  BY DEF Draft
    <2>3. q = [p EXCEPT ![2] = x, ![3] = y]  BY <1>2
    <2> HIDE DEF q, x, y
    <2>4. q \in [1 .. 5 -> BYTE] /\ q[2] = x /\ q[3] = y
          /\ q[1] = p[1] /\ q[4] = p[4] /\ q[5] = p[5]
      BY <2>1, <2>2, <2>3
    <2> QED  BY <2>4 DEF x, y
  <1> HIDE DEF q
  <1>7. Draft(q, u, b, m, d, c)  BY <1>3, <1>4, <1>6 DEF Draft
  <1> QED  BY <1>7 DEF q, b

(* The table of speeds holds the codes of the standard, and none of them   *)
(* is a broadcast stop's.                                                  *)
LEMMA SpeedSteps ==
  ASSUME NEW s \in 0 .. 28
  PROVE  /\ DCC_speed_steps[s + 1] = Byte(StepCode(s))
         /\ DCC_speed_steps[s + 1] \in Codes
         /\ DCC_speed_steps[s + 1] \notin {{4}, {0, 4}}
  <1> DEFINE T == <<\h00, \h02, \h12, \h03, \h13, \h04, \h14, \h05, \h15, \h06, \h16,
            \h07, \h17, \h08, \h18, \h09, \h19, \h0A, \h1A, \h0B, \h1B, \h0C,
            \h1C, \h0D, \h1D, \h0E, \h1E, \h0F, \h1F>>
  <1>1. T[s + 1] = StepCode(s)  BY DEF StepCode
  <1>2. StepCode(s) \in 0 .. 31 \ {16, 17}  BY DEF StepCode
  <1>3. DCC_speed_steps[s + 1] = Byte(T[s + 1])
    BY DEF DCC_speed_steps, BytesOf
  <1>4. ASSUME NEW n \in 0 .. 31 \ {16, 17}
        PROVE  Byte(n) \in SUBSET (0 .. 4) /\ Byte(n) \notin {{4}, {0, 4}}
    <2>1. n \div 32 = 0 /\ n \div 64 = 0 /\ n \div 128 = 0  OBVIOUS
    <2>2. Byte(n) \in SUBSET (0 .. 4)  BY <2>1, ByteBits DEF BYTE
    <2>3. CASE n < 16
      <3>1. n \div 16 = 0  BY <2>3
      <3> QED  BY <2>2, <3>1, ByteBits
    <2>4. CASE n >= 16
      <3>1. n % 2 = 1 /\ (n \div 2) % 2 = 0 /\ (n \div 4) % 2 = 0 /\ (n \div 8) % 2 = 0
             => n = 17
        BY <2>4
      <3>2. n % 2 = 0 /\ (n \div 2) % 2 = 0 /\ (n \div 4) % 2 = 0 /\ (n \div 8) % 2 = 0
             => n = 16
        BY <2>4
      <3> QED  BY <2>2, <3>1, <3>2, ByteBits
    <2> QED  BY <2>2, <2>3, <2>4
  <1> QED  BY <1>1, <1>2, <1>3, <1>4 DEF Codes

(* DCC_set_speed sets the speed and nothing else. *)
LEMMA DraftSpeed ==
  ASSUME NEW p, NEW u \in {0, 1}, NEW a \in Addresses, NEW m \in {0, 1}, NEW d \in {0, 1},
         NEW c \in Codes, Draft(p, u, a, m, d, c), NEW n \in Int
  PROVE  Draft(DCC_set_speed(p, n), u, a, m, d, DCC_speed_steps[(n % DCC_MAX_SPEED_STEPS) + 1])
  <1> DEFINE e == DCC_speed_steps[(n % DCC_MAX_SPEED_STEPS) + 1]
             q == DCC_set_speed(p, n)
  <1>1. p[4] \cap DCC_MASK_SPEED_3 = IF d = 1 THEN {7} ELSE {}
    BY Masks DEF Draft, ShiftLeft, Codes
  <1>2. /\ q \in [1 .. 5 -> BYTE]
        /\ \A i \in {1, 2, 3, 5} : q[i] = p[i]
        /\ q[4] = (p[4] \cap DCC_MASK_SPEED_3) \cup ShiftLeft(e, 2)
    <2>1. q = [p EXCEPT ![4] = (p[4] \cap DCC_MASK_SPEED_3) \cup ShiftLeft(e, 2)]
      BY DEF DCC_set_speed
    <2>2. ShiftLeft(e, 2) \in BYTE  BY DEF ShiftLeft, BYTE
    <2> HIDE DEF q, e
    <2> QED  BY <1>1, <2>1, <2>2 DEF Draft, BYTE
  <1> HIDE DEF q, e
  <1>3. Draft(q, u, a, m, d, e)  BY <1>1, <1>2 DEF Draft
  <1> QED  BY <1>3 DEF q, e

(* DCC_set_preamble sets the preamble and leaves the address. *)
LEMMA DraftPreamble ==
  ASSUME NEW p, NEW u \in {0, 1}, NEW a \in Addresses, NEW m \in {0, 1}, NEW d \in {0, 1},
         NEW c \in Codes, Draft(p, u, a, m, d, c)
  PROVE  Draft(DCC_set_preamble(p), 1, a, m, d, c)
  <1> DEFINE q == DCC_set_preamble(p)
  <1>1. (p[2] \cap DCC_MASK_PREAMBLE_1) \cup Byte(\hF0) = (4 .. 7) \cup ShiftRight(a, 5)
    BY Masks DEF Draft, ShiftRight, Addresses
  <1>2. /\ q \in [1 .. 5 -> BYTE]
        /\ q[1] = 0 .. 7
        /\ q[2] = (4 .. 7) \cup ShiftRight(a, 5)
        /\ \A i \in {3, 4, 5} : q[i] = p[i]
    <2>1. q = [p EXCEPT ![1] = Byte(\hFF), ![2] = (p[2] \cap DCC_MASK_PREAMBLE_1) \cup Byte(\hF0)]
      BY DEF DCC_set_preamble
    <2>2. ShiftRight(a, 5) \in BYTE  BY DEF ShiftRight, BYTE
    <2> HIDE DEF q
    <2> QED  BY <1>1, <2>1, <2>2, Masks DEF Draft, BYTE
  <1> HIDE DEF q
  <1>3. Draft(q, 1, a, m, d, c)  BY <1>2 DEF Draft
  <1> QED  BY <1>3 DEF q

(* DCC_set_speed_direction_preamble leaves the rest as it was. *)
LEMMA DraftSpeedDirectionPreamble ==
  ASSUME NEW p, NEW u \in {0, 1}, NEW a \in Addresses, NEW m \in {0, 1}, NEW d \in {0, 1},
         NEW c \in Codes, Draft(p, u, a, m, d, c)
  PROVE  Draft(DCC_set_speed_direction_preamble(p), u, a, 1, d, c)
  <1> DEFINE q == DCC_set_speed_direction_preamble(p)
  <1>1. (p[3] \cap DCC_MASK_SD_PREAMBLE_2) \cup Byte(\h01) = ShiftLeft(a, 3) \cup {0}
    BY Masks DEF Draft, ShiftLeft, Addresses
  <1>2. /\ q \in [1 .. 5 -> BYTE]
        /\ q[3] = ShiftLeft(a, 3) \cup {0}
        /\ \A i \in {1, 2, 4, 5} : q[i] = p[i]
    <2>1. q = [p EXCEPT ![3] = (p[3] \cap DCC_MASK_SD_PREAMBLE_2) \cup Byte(\h01)]
      BY DEF DCC_set_speed_direction_preamble
    <2>2. ShiftLeft(a, 3) \in BYTE  BY DEF ShiftLeft, BYTE
    <2> HIDE DEF q
    <2> QED  BY <1>1, <2>1, <2>2 DEF Draft, BYTE
  <1> HIDE DEF q
  <1>3. Draft(q, u, a, 1, d, c)  BY <1>2 DEF Draft
  <1> QED  BY <1>3 DEF q

(* DCC_set_direction sets the direction and leaves the speed. *)
LEMMA DraftDirection ==
  ASSUME NEW p, NEW u \in {0, 1}, NEW a \in Addresses, NEW m \in {0, 1}, NEW d \in {0, 1},
         NEW c \in Codes, Draft(p, u, a, m, d, c), NEW r \in {0, 1}
  PROVE  Draft(DCC_set_direction(p, r), u, a, m, r, c)
  <1> DEFINE q == DCC_set_direction(p, r)
  <1>1. (p[4] \cap DCC_MASK_DIRECTION_3) \cup (IF r # 0 THEN Byte(\h80) ELSE {})
          = (IF r = 1 THEN {7} ELSE {}) \cup ShiftLeft(c, 2)
    BY Masks DEF Draft, ShiftLeft, Codes
  <1>2. /\ q \in [1 .. 5 -> BYTE]
        /\ q[4] = (IF r = 1 THEN {7} ELSE {}) \cup ShiftLeft(c, 2)
        /\ \A i \in {1, 2, 3, 5} : q[i] = p[i]
    <2>1. q = [p EXCEPT ![4] = (p[4] \cap DCC_MASK_DIRECTION_3)
                                  \cup (IF r # 0 THEN Byte(\h80) ELSE {})]
      BY DEF DCC_set_direction
    <2>2. ShiftLeft(c, 2) \in BYTE  BY DEF ShiftLeft, BYTE
    <2> HIDE DEF q
    <2> QED  BY <1>1, <2>1, <2>2 DEF Draft, BYTE
  <1> HIDE DEF q
  <1>3. Draft(q, u, a, m, r, c)  BY <1>2 DEF Draft
  <1> QED  BY <1>3 DEF q


(* The instruction byte of a packet with speed code c. *)
Instruction(d, c) == {6} \cup (IF d = 1 THEN {5} ELSE {}) \cup c

(* A sequence of n bits; u is t behind s. *)
IsBits(s, n) == s \in Seq({0, 1}) /\ Len(s) = n
Joins(u, s, t) == u = s \o t

(* The packet of three bytes, as BaselineFrame has it. *)
Frame(a, i, x) == Ones(12) \o <<0>> \o Bits(<<a>>) \o <<0>> \o Bits(<<i>>)
                    \o <<0>> \o Bits(<<x>>) \o <<1>>

(* A function on 1 .. n is a sequence of length n. *)
LEMMA FunctionIsSeq ==
  ASSUME NEW S, NEW n \in Nat, NEW f \in [1 .. n -> S]
  PROVE  f \in Seq(S) /\ Len(f) = n
  OBVIOUS

(* The eight bits of a byte, the highest first. *)
LEMMA ByteSeq ==
  ASSUME NEW b
  PROVE  /\ IsBits(Bits(<<b>>), 8)
         /\ \A k \in 1 .. 8 : Bits(<<b>>)[k] = BitOf(b, 8 - k)
  <1>1. Bits(<<b>>) = [k \in 1 .. 8 |-> BitOf(b, 8 - k)]
    <2>1. \A k \in 1 .. 8 : (k - 1) \div 8 = 0 /\ (k - 1) % 8 = k - 1  OBVIOUS
    <2>2. 8 * Len(<<b>>) = 8  OBVIOUS
    <2>3. \A k \in 1 .. 8 : BitOf(<<b>>[(k - 1) \div 8 + 1], 7 - ((k - 1) % 8)) = BitOf(b, 8 - k)
      BY <2>1
    <2> QED  BY <2>2, <2>3 DEF Bits
  <1>2. \A k \in 1 .. 8 : BitOf(b, 8 - k) \in {0, 1}  BY DEF BitOf
  <1> DEFINE s == Bits(<<b>>)
  <1>3. s \in [1 .. 8 -> {0, 1}]  BY <1>1, <1>2
  <1>4. \A k \in 1 .. 8 : s[k] = BitOf(b, 8 - k)  BY <1>1
  <1> HIDE DEF s
  <1>5. IsBits(s, 8)  BY <1>3, FunctionIsSeq DEF IsBits
  <1> QED  BY <1>4, <1>5 DEF s

(* Bit by bit, a sequence of bits behind another one. *)
LEMMA Joined ==
  ASSUME NEW m \in Nat, NEW n \in Nat, NEW s, NEW t, NEW u,
         IsBits(s, m), IsBits(t, n), Joins(u, s, t)
  PROVE  /\ IsBits(u, m + n)
         /\ \A k \in 1 .. m : u[k] = s[k]
         /\ \A k \in m + 1 .. m + n : u[k] = t[k - m]
  <1>1. /\ s \in Seq({0, 1}) /\ Len(s) = m
        /\ t \in Seq({0, 1}) /\ Len(t) = n
    BY DEF IsBits
  <1>2. /\ s \o t \in Seq({0, 1}) /\ Len(s \o t) = m + n
        /\ \A k \in 1 .. m + n : (s \o t)[k] = IF k <= m THEN s[k] ELSE t[k - m]
    BY <1>1, ConcatProperties
  <1>3. /\ IsBits(u, m + n)
        /\ \A k \in 1 .. m + n : u[k] = IF k <= m THEN s[k] ELSE t[k - m]
    BY <1>2 DEF IsBits, Joins
  <1>4. /\ \A k \in 1 .. m : u[k] = s[k]
        /\ \A k \in m + 1 .. m + n : u[k] = t[k - m]
    BY <1>3
  <1> QED  BY <1>3, <1>4

(* One more bit. *)
LEMMA ThenBit ==
  ASSUME NEW n \in Nat, NEW s, IsBits(s, n), NEW b \in {0, 1},
         NEW t, t = <<b>>, NEW u, Joins(u, s, t)
  PROVE  /\ IsBits(u, n + 1)
         /\ \A k \in 1 .. n : u[k] = s[k]
         /\ u[n + 1] = b
  <1>1. IsBits(t, 1) /\ t[1] = b  BY DEF IsBits
  <1>2. /\ IsBits(u, n + 1)
        /\ \A k \in 1 .. n : u[k] = s[k]
        /\ \A k \in n + 1 .. n + 1 : u[k] = t[k - n]
    BY ONLY <1>1, Joined, n \in Nat, IsBits(s, n), Joins(u, s, t)
  <1>3. n + 1 \in n + 1 .. n + 1 /\ n + 1 - n = 1  OBVIOUS
  <1> QED  BY ONLY <1>1, <1>2, <1>3

(* One more byte. *)
LEMMA ThenByte ==
  ASSUME NEW n \in Nat, NEW s, IsBits(s, n), NEW b,
         NEW t, t = Bits(<<b>>), NEW u, Joins(u, s, t)
  PROVE  /\ IsBits(u, n + 8)
         /\ \A k \in 1 .. n : u[k] = s[k]
         /\ \A k \in n + 1 .. n + 8 : u[k] = BitOf(b, n + 8 - k)
  <1>1. IsBits(t, 8) /\ \A k \in 1 .. 8 : t[k] = BitOf(b, 8 - k)
    BY ByteSeq
  <1>2. /\ IsBits(u, n + 8)
        /\ \A k \in 1 .. n : u[k] = s[k]
        /\ \A k \in n + 1 .. n + 8 : u[k] = t[k - n]
    BY ONLY <1>1, Joined, n \in Nat, IsBits(s, n), Joins(u, s, t)
  <1>3. \A k \in n + 1 .. n + 8 : u[k] = BitOf(b, n + 8 - k)
    <2> TAKE k \in n + 1 .. n + 8
    <2>1. k - n \in 1 .. 8 /\ 8 - (k - n) = n + 8 - k  OBVIOUS
    <2>2. t[k - n] = BitOf(b, 8 - (k - n))  BY <1>1, <2>1
    <2> QED  BY ONLY <1>2, <2>1, <2>2, n \in Nat, k \in n + 1 .. n + 8
  <1> QED  BY <1>2, <1>3

(* The forty bits of a frame of three bytes *)
LEMMA FrameBits ==
  ASSUME NEW a, NEW i, NEW x,
         NEW f, f = Frame(a, i, x)
  PROVE  /\ f \in [1 .. 40 -> {0, 1}]
         /\ \A k \in 1 .. 12 : f[k] = 1
         /\ f[13] = 0
         /\ \A k \in 14 .. 21 : f[k] = BitOf(a, 21 - k)
         /\ f[22] = 0
         /\ \A k \in 23 .. 30 : f[k] = BitOf(i, 30 - k)
         /\ f[31] = 0
         /\ \A k \in 32 .. 39 : f[k] = BitOf(x, 39 - k)
         /\ f[40] = 1
  <1> DEFINE z == <<0>>
             o == <<1>>
             ta == Bits(<<a>>)
             ti == Bits(<<i>>)
             tx == Bits(<<x>>)
             s0 == Ones(12)
             s1 == s0 \o z
             s2 == s1 \o ta
             s3 == s2 \o z
             s4 == s3 \o ti
             s5 == s4 \o z
             s6 == s5 \o tx
             s7 == s6 \o o
  <1>1. IsBits(s0, 12) /\ \A k \in 1 .. 12 : s0[k] = 1
    <2>1. s0 \in [1 .. 12 -> {0, 1}] /\ \A k \in 1 .. 12 : s0[k] = 1  BY DEF Ones
    <2> HIDE DEF s0
    <2> QED  BY <2>1, FunctionIsSeq DEF IsBits
  <1>2. /\ Joins(s1, s0, z) /\ Joins(s2, s1, ta) /\ Joins(s3, s2, z) /\ Joins(s4, s3, ti)
        /\ Joins(s5, s4, z) /\ Joins(s6, s5, tx) /\ Joins(s7, s6, o)
    BY DEF Joins
  <1>3. s7 = f  BY DEF Frame
  <1>4. z = <<0>> /\ o = <<1>> /\ ta = Bits(<<a>>) /\ ti = Bits(<<i>>) /\ tx = Bits(<<x>>)
    OBVIOUS
  <1> HIDE DEF s0, s1, s2, s3, s4, s5, s6, s7, z, o, ta, ti, tx
  <1>5. /\ IsBits(s1, 13)
        /\ \A k \in 1 .. 12 : s1[k] = s0[k]
        /\ s1[13] = 0
    BY <1>2, <1>4, <1>1, ThenBit
  <1>6. /\ IsBits(s2, 21)
        /\ \A k \in 1 .. 13 : s2[k] = s1[k]
        /\ \A k \in 14 .. 21 : s2[k] = BitOf(a, 21 - k)
    BY <1>2, <1>4, <1>5, ThenByte
  <1>7. /\ IsBits(s3, 22)
        /\ \A k \in 1 .. 21 : s3[k] = s2[k]
        /\ s3[22] = 0
    BY <1>2, <1>4, <1>6, ThenBit
  <1>8. /\ IsBits(s4, 30)
        /\ \A k \in 1 .. 22 : s4[k] = s3[k]
        /\ \A k \in 23 .. 30 : s4[k] = BitOf(i, 30 - k)
    BY <1>2, <1>4, <1>7, ThenByte
  <1>9. /\ IsBits(s5, 31)
        /\ \A k \in 1 .. 30 : s5[k] = s4[k]
        /\ s5[31] = 0
    BY <1>2, <1>4, <1>8, ThenBit
  <1>10. /\ IsBits(s6, 39)
         /\ \A k \in 1 .. 31 : s6[k] = s5[k]
         /\ \A k \in 32 .. 39 : s6[k] = BitOf(x, 39 - k)
    BY <1>2, <1>4, <1>9, ThenByte
  <1>11. /\ IsBits(s7, 40)
         /\ \A k \in 1 .. 39 : s7[k] = s6[k]
         /\ s7[40] = 1
    BY <1>2, <1>4, <1>10, ThenBit
  <1>12. s7 \in [1 .. 40 -> {0, 1}]  BY <1>11, LenProperties DEF IsBits
  <1>13. \A k \in 1 .. 12 : s7[k] = 1
    BY <1>1, <1>5, <1>6, <1>7, <1>8, <1>9, <1>10, <1>11
  <1>14. s7[13] = 0  BY <1>5, <1>6, <1>7, <1>8, <1>9, <1>10, <1>11
  <1>15. \A k \in 14 .. 21 : s7[k] = BitOf(a, 21 - k)
    BY <1>6, <1>7, <1>8, <1>9, <1>10, <1>11
  <1>16. s7[22] = 0  BY <1>7, <1>8, <1>9, <1>10, <1>11
  <1>17. \A k \in 23 .. 30 : s7[k] = BitOf(i, 30 - k)  BY <1>8, <1>9, <1>10, <1>11
  <1>18. s7[31] = 0  BY <1>9, <1>10, <1>11
  <1>19. \A k \in 32 .. 39 : s7[k] = BitOf(x, 39 - k)  BY <1>10, <1>11
  <1> QED
    BY <1>11, <1>12, <1>13, <1>14, <1>15, <1>16, <1>17, <1>18, <1>19, <1>3

(* The bits of five bytes, byte by byte. *)
LEMMA PacketBits ==
  ASSUME NEW p \in [1 .. 5 -> BYTE]
  PROVE  /\ DOMAIN Bits(p) = 1 .. 40
         /\ Bits(p) = [k \in 1 .. 40 |-> Bits(p)[k]]
         /\ \A k \in 1 .. 8 : Bits(p)[k] = BitOf(p[1], 8 - k)
         /\ \A k \in 9 .. 16 : Bits(p)[k] = BitOf(p[2], 16 - k)
         /\ \A k \in 17 .. 24 : Bits(p)[k] = BitOf(p[3], 24 - k)
         /\ \A k \in 25 .. 32 : Bits(p)[k] = BitOf(p[4], 32 - k)
         /\ \A k \in 33 .. 40 : Bits(p)[k] = BitOf(p[5], 40 - k)
  <1>1. 8 * Len(p) = 40
    <2>1. Len(p) = 5  OBVIOUS
    <2> QED  BY <2>1
  <1>2. Bits(p) = [k \in 1 .. 40 |-> BitOf(p[(k - 1) \div 8 + 1], 7 - ((k - 1) % 8))]
    BY <1>1 DEF Bits
  <1> DEFINE b == Bits(p)
  <1>3. /\ DOMAIN b = 1 .. 40 /\ b = [k \in 1 .. 40 |-> b[k]]
        /\ \A k \in 1 .. 40 : b[k] = BitOf(p[(k - 1) \div 8 + 1], 7 - ((k - 1) % 8))
    BY <1>2
  <1> HIDE DEF b
  <1>4. /\ \A k \in 1 .. 8 : (k - 1) \div 8 + 1 = 1 /\ 7 - ((k - 1) % 8) = 8 - k
        /\ \A k \in 9 .. 16 : (k - 1) \div 8 + 1 = 2 /\ 7 - ((k - 1) % 8) = 16 - k
        /\ \A k \in 17 .. 24 : (k - 1) \div 8 + 1 = 3 /\ 7 - ((k - 1) % 8) = 24 - k
        /\ \A k \in 25 .. 32 : (k - 1) \div 8 + 1 = 4 /\ 7 - ((k - 1) % 8) = 32 - k
        /\ \A k \in 33 .. 40 : (k - 1) \div 8 + 1 = 5 /\ 7 - ((k - 1) % 8) = 40 - k
    OBVIOUS
  <1>5. /\ \A k \in 1 .. 8 : b[k] = BitOf(p[1], 8 - k)
        /\ \A k \in 9 .. 16 : b[k] = BitOf(p[2], 16 - k)
        /\ \A k \in 17 .. 24 : b[k] = BitOf(p[3], 24 - k)
        /\ \A k \in 25 .. 32 : b[k] = BitOf(p[4], 32 - k)
        /\ \A k \in 33 .. 40 : b[k] = BitOf(p[5], 40 - k)
    BY <1>3, <1>4
  <1> QED  BY <1>3, <1>5 DEF b

(* DCC_get_address reads the address that was set. *)
LEMMA AddressRead ==
  ASSUME NEW a \in Addresses, NEW p,
         p[2] = (4 .. 7) \cup ShiftRight(a, 5), p[3] = ShiftLeft(a, 3) \cup {0}
  PROVE  DCC_get_address(p) = a
  <1>1. p[2] \ DCC_MASK_ADDRESS_1 = ShiftRight(a, 5)
    BY Masks DEF ShiftRight, Addresses
  <1>2. p[3] \ DCC_MASK_ADDRESS_2 = ShiftLeft(a, 3)
    BY Masks DEF ShiftLeft, Addresses
  <1>3. ShiftLeft(ShiftRight(a, 5), 5) \cup ShiftRight(ShiftLeft(a, 3), 3) = a
    <2> DEFINE y == ShiftLeft(ShiftRight(a, 5), 5)
               z == ShiftRight(ShiftLeft(a, 3), 3)
    <2>1. \A k \in 0 .. 7 : k \in y <=> k - 5 \in 0 .. 7 /\ (k - 5) + 5 \in a
      BY DEF ShiftLeft, ShiftRight
    <2>2. \A k \in 0 .. 7 : k \in z <=> k + 3 \in 0 .. 7 /\ (k + 3) - 3 \in a
      BY DEF ShiftLeft, ShiftRight
    <2>3. y \subseteq 0 .. 7 /\ z \subseteq 0 .. 7  BY DEF ShiftLeft, ShiftRight
    <2> HIDE DEF y, z
    <2>4. \A k \in 0 .. 7 : k \in y \cup z <=> k \in a  BY <2>1, <2>2 DEF Addresses
    <2>5. y \cup z \in BYTE /\ a \in BYTE  BY <2>3 DEF BYTE, Addresses
    <2>6. y \cup z = a
      <3> DEFINE w == y \cup z
      <3> HIDE DEF w
      <3>1. w = a  BY <2>4, <2>5, BytesEqual DEF w
      <3> QED  BY <3>1 DEF w
    <2> QED  BY <2>6 DEF y, z
  <1> QED  BY <1>1, <1>2, <1>3 DEF DCC_get_address

(* A speed that is shifted into place is shifted back. *)
LEMMA ThereAndBack ==
  ASSUME NEW c \in Codes
  PROVE  ShiftRight(ShiftLeft(c, 2), 2) = c
  <1>1. \A k \in 0 .. 7 : k \in ShiftRight(ShiftLeft(c, 2), 2)
                            <=> k + 2 \in 0 .. 7 /\ (k + 2) - 2 \in c
    BY DEF ShiftLeft, ShiftRight
  <1>2. \A k \in 0 .. 7 : k \in ShiftRight(ShiftLeft(c, 2), 2) <=> k \in c
    BY <1>1 DEF Codes
  <1> DEFINE y == ShiftRight(ShiftLeft(c, 2), 2)
  <1>3. y \in BYTE /\ c \in BYTE  BY DEF ShiftRight, BYTE, Codes
  <1>4. \A k \in 0 .. 7 : k \in y <=> k \in c  BY <1>2
  <1> HIDE DEF y
  <1>5. y = c  BY <1>3, <1>4, BytesEqual
  <1> QED  BY <1>5 DEF y

(* DCC_set_checksum and DCC_set_packet_end complete a draft: the first     *)
(* four bytes stay, the last holds the exclusive or and the end bit.       *)
LEMMA Finishing ==
  ASSUME NEW p, NEW a \in Addresses, NEW d \in {0, 1},
         NEW c \in Codes, Draft(p, 1, a, 1, d, c),
         NEW q, q = DCC_set_packet_end(DCC_set_checksum(p))
  PROVE  /\ q \in [1 .. 5 -> BYTE]
         /\ q[1] = 0 .. 7 /\ q[2] = (4 .. 7) \cup ShiftRight(a, 5)
         /\ q[3] = ShiftLeft(a, 3) \cup {0}
         /\ q[4] = (IF d = 1 THEN {7} ELSE {}) \cup ShiftLeft(c, 2)
         /\ q[5] = ShiftLeft(Xor(a, Instruction(d, c)), 1) \cup {0}
  <1>1. p[2] = (4 .. 7) \cup ShiftRight(a, 5) /\ p[3] = ShiftLeft(a, 3) \cup {0}
        /\ p[4] = (IF d = 1 THEN {7} ELSE {}) \cup ShiftLeft(c, 2) /\ p[1] = 0 .. 7
        /\ p \in [1 .. 5 -> BYTE]
    BY DEF Draft
  <1>2. DCC_get_address(p) = a  BY <1>1, AddressRead
  <1>3. DCC_get_speed_and_direction(p) = Instruction(d, c)
    <2>1. p[4] \ DCC_MASK_DIRECTION_3 = IF d = 1 THEN {7} ELSE {}
      BY <1>1, Masks DEF ShiftLeft, Codes
    <2>2. p[4] \ DCC_MASK_SPEED_3 = ShiftLeft(c, 2)
      BY <1>1, Masks DEF ShiftLeft, Codes
    <2>3. ShiftRight(IF d = 1 THEN {7} ELSE {}, 2) = IF d = 1 THEN {5} ELSE {}
      BY DEF ShiftRight
    <2>4. ShiftRight(ShiftLeft(c, 2), 2) = c  BY ThereAndBack
    <2> QED  BY <2>1, <2>2, <2>3, <2>4, Masks DEF DCC_get_speed_and_direction, Instruction
  <1> DEFINE x == Xor(a, Instruction(d, c))
             r == DCC_set_checksum(p)
  <1>4. 7 \notin x /\ x \in BYTE  BY DEF Xor, Instruction, Addresses, Codes, BYTE
  <1>5. r = [p EXCEPT ![4] = (p[4] \cap DCC_MASK_CHECKSUM_3) \cup ShiftRight(x, 7),
                      ![5] = (p[5] \cap DCC_MASK_CHECKSUM_4) \cup ShiftLeft(x, 1)]
    BY <1>2, <1>3 DEF DCC_set_checksum
  <1>6. (p[4] \cap DCC_MASK_CHECKSUM_3) \cup ShiftRight(x, 7)
          = (IF d = 1 THEN {7} ELSE {}) \cup ShiftLeft(c, 2)
    <2>1. ShiftRight(x, 7) = {}
      <3> HIDE DEF x
      <3> QED  BY <1>4 DEF ShiftRight, BYTE
    <2> QED  BY <1>1, <2>1, Masks DEF ShiftLeft, Codes
  <1> DEFINE y == (p[5] \cap DCC_MASK_CHECKSUM_4) \cup ShiftLeft(x, 1)
  <1>7. y \in BYTE /\ y \cup {0} \in BYTE /\ y \cup {0} = ShiftLeft(x, 1) \cup {0}
    <2>1. ShiftLeft(x, 1) \in BYTE  BY DEF ShiftLeft, BYTE
    <2>2. p[5] \cap DCC_MASK_CHECKSUM_4 \subseteq {0}  BY Masks
    <2> HIDE DEF x
    <2> QED  BY <2>1, <2>2 DEF BYTE
  <1>8. r = [p EXCEPT ![4] = p[4], ![5] = y]
    BY <1>1, <1>5, <1>6
  <1>9. p[4] \in BYTE  BY <1>1
  <1> HIDE DEF x, y
  <1>10. /\ r \in [1 .. 5 -> BYTE]
         /\ \A k \in 1 .. 4 : r[k] = p[k]
         /\ r[5] = y
    <2> HIDE DEF r
    <2> QED  BY <1>1, <1>7, <1>8, <1>9
  <1>11. q = [r EXCEPT ![5] = y \cup {0}]
    BY <1>10, Masks DEF DCC_set_packet_end, r
  <1>12. /\ q \in [1 .. 5 -> BYTE]
         /\ \A k \in 1 .. 4 : q[k] = p[k]
         /\ q[5] = y \cup {0}
    <2> HIDE DEF r
    <2> QED  BY <1>7, <1>10, <1>11
  <1> QED  BY <1>1, <1>7, <1>12 DEF x

(* Its bits are a frame of the address, the instruction and their exclusive or. *)
LEMMA FinishedFrame ==
  ASSUME NEW p, NEW a \in Addresses, NEW d \in {0, 1},
         NEW c \in Codes, Draft(p, 1, a, 1, d, c)
  PROVE  LET i == Instruction(d, c)
         IN  Bits(DCC_set_packet_end(DCC_set_checksum(p)))
               = Frame(a, i, Xor(a, i))
  <1> DEFINE q == DCC_set_packet_end(DCC_set_checksum(p))
             i == Instruction(d, c)
             x == Xor(a, i)
             f == Frame(a, i, x)
             b == Bits(q)
  <1>1. /\ q \in [1 .. 5 -> BYTE]
        /\ q[1] = 0 .. 7 /\ q[2] = (4 .. 7) \cup ShiftRight(a, 5)
        /\ q[3] = ShiftLeft(a, 3) \cup {0}
        /\ q[4] = (IF d = 1 THEN {7} ELSE {}) \cup ShiftLeft(c, 2)
        /\ q[5] = ShiftLeft(x, 1) \cup {0}
    <2>1. q = DCC_set_packet_end(DCC_set_checksum(p))  OBVIOUS
    <2> HIDE DEF q, f, b
    <2> QED  BY <2>1, Finishing
  <1>2. /\ i = {6} \cup (IF d = 1 THEN {5} ELSE {}) \cup c
        /\ x \in BYTE /\ 7 \notin x
    BY DEF Instruction, Xor, Addresses, Codes, BYTE
  <1>3. f = Frame(a, i, x)  OBVIOUS
  <1> HIDE DEF q, i, x, f
  <1>4. /\ f \in [1 .. 40 -> {0, 1}]
        /\ \A k \in 1 .. 12 : f[k] = 1
        /\ f[13] = 0
        /\ \A k \in 14 .. 21 : f[k] = BitOf(a, 21 - k)
        /\ f[22] = 0
        /\ \A k \in 23 .. 30 : f[k] = BitOf(i, 30 - k)
        /\ f[31] = 0
        /\ \A k \in 32 .. 39 : f[k] = BitOf(x, 39 - k)
        /\ f[40] = 1
    BY <1>3, FrameBits
  <1>5. /\ DOMAIN b = 1 .. 40 /\ b = [k \in 1 .. 40 |-> b[k]]
        /\ \A k \in 1 .. 8 : b[k] = BitOf(q[1], 8 - k)
        /\ \A k \in 9 .. 16 : b[k] = BitOf(q[2], 16 - k)
        /\ \A k \in 17 .. 24 : b[k] = BitOf(q[3], 24 - k)
        /\ \A k \in 25 .. 32 : b[k] = BitOf(q[4], 32 - k)
        /\ \A k \in 33 .. 40 : b[k] = BitOf(q[5], 40 - k)
    BY <1>1, PacketBits
  <1> HIDE DEF b
  <1>6. \A k \in 1 .. 8 : b[k] = f[k]  BY <1>1, <1>4, <1>5 DEF BitOf
  <1>7. \A k \in 9 .. 16 : b[k] = f[k]
    BY <1>1, <1>4, <1>5 DEF BitOf, ShiftRight, Addresses
  <1>8. \A k \in 17 .. 24 : b[k] = f[k]
    <2>1. \A k \in 17 .. 21 : b[k] = f[k]
      BY <1>1, <1>4, <1>5 DEF BitOf, ShiftLeft
    <2>2. b[22] = f[22]  BY <1>1, <1>4, <1>5 DEF BitOf, ShiftLeft, Addresses
    <2>3. \A k \in 23 .. 24 : b[k] = f[k]
      BY <1>1, <1>2, <1>4, <1>5 DEF BitOf, ShiftLeft, Addresses, Codes
    <2> QED  BY <2>1, <2>2, <2>3
  <1>9. \A k \in 25 .. 32 : b[k] = f[k]
    BY <1>1, <1>2, <1>4, <1>5 DEF BitOf, ShiftLeft, Codes
  <1>10. \A k \in 33 .. 40 : b[k] = f[k]
    BY <1>1, <1>2, <1>4, <1>5 DEF BitOf, ShiftLeft, BYTE
  <1>11. \A k \in 1 .. 40 : b[k] = f[k]  BY <1>6, <1>7, <1>8, <1>9, <1>10
  <1>12. b = f  BY <1>4, <1>5, <1>11
  <1> QED  BY <1>12 DEF b, f, q, i, x

(* The number of the instruction is its bits. *)
LEMMA InstructionByte ==
  ASSUME NEW d \in {0, 1}, NEW n \in 0 .. 31
  PROVE  Byte(64 + 32 * d + n) = Instruction(d, Byte(n))
  <1> DEFINE m == 64 + 32 * d + n
  <1>1. /\ n \div 32 = 0 /\ n \div 64 = 0 /\ n \div 128 = 0
        /\ m \div 128 = 0 /\ m \div 64 = 1 /\ (m \div 32) % 2 = d
    OBVIOUS
  <1>2. /\ m % 2 = n % 2 /\ (m \div 2) % 2 = (n \div 2) % 2
        /\ (m \div 4) % 2 = (n \div 4) % 2 /\ (m \div 8) % 2 = (n \div 8) % 2
        /\ (m \div 16) % 2 = (n \div 16) % 2
    OBVIOUS
  <1>3. m \in Int /\ n \in Int  OBVIOUS
  <1> HIDE DEF m
  <1>4. Byte(m) \in BYTE /\ Instruction(d, Byte(n)) \in BYTE
    BY <1>3, ByteBits DEF Instruction, BYTE
  <1>5. \A k \in 0 .. 7 : k \in Byte(m) <=> k \in Instruction(d, Byte(n))
    BY <1>1, <1>2, <1>3, ByteBits DEF Instruction
  <1> DEFINE b == Byte(m)
             c == Instruction(d, Byte(n))
  <1>6. b = c
    <2>1. b \in BYTE /\ c \in BYTE /\ \A k \in 0 .. 7 : k \in b <=> k \in c
      BY <1>4, <1>5
    <2> HIDE DEF b, c
    <2> QED  BY <2>1, BytesEqual
  <1> QED  BY <1>6 DEF m

(* What the standard sends for a move, in the encoder's bits. *)
LEMMA FrameOfMove ==
  ASSUME NEW n \in Int, NEW d \in {0, 1}, NEW s \in 0 .. 28
  PROVE  LET a == Byte(n % DCC_ADDRESS_MAX)
             i == Instruction(d, DCC_speed_steps[s + 1])
         IN  BaselineFrame(n % 128, SpeedInstruction(d, s)) = Frame(a, i, Xor(a, i))
  <1>1. StepCode(s) \in 0 .. 31  BY DEF StepCode
  <1>2. Byte(SpeedInstruction(d, s)) = Instruction(d, Byte(StepCode(s)))
    BY <1>1, InstructionByte DEF SpeedInstruction
  <1>3. Byte(SpeedInstruction(d, s)) = Instruction(d, DCC_speed_steps[s + 1])
    BY <1>2, SpeedSteps
  <1> QED  BY <1>3 DEF BaselineFrame, Frame, DCC_ADDRESS_MAX

(* What the standard sends for the two broadcast stops, likewise. *)
LEMMA FrameOfStop ==
  /\ StopFrame = Frame({}, Instruction(1, {4}), Xor({}, Instruction(1, {4})))
  /\ EmergencyStopFrame = Frame({}, Instruction(1, {0, 4}), Xor({}, Instruction(1, {0, 4})))
  <1>1. Byte(0) = {} /\ Byte(112) = Instruction(1, {4}) /\ Byte(113) = Instruction(1, {0, 4})
    <2>1. Byte(0) = {}  BY ByteBits DEF BYTE
    <2>2. Byte(112) = {4, 5, 6}  BY ByteBits DEF BYTE
    <2>3. Byte(113) = {0, 4, 5, 6}  BY ByteBits DEF BYTE
    <2> QED  BY <2>1, <2>2, <2>3 DEF Instruction
  <1> QED  BY <1>1 DEF StopFrame, EmergencyStopFrame, BaselineFrame, Frame

(* The two special packets are drafts of a stop to all. *)
LEMMA SpecialBytes ==
  ASSUME NEW n \in {192, 196}, NEW e \in Int
  PROVE  LET p == BytesOf(<<255, 240, 1, n, e>>)
         IN  Draft(p, 1, {}, 1, 1, IF n = 192 THEN {4} ELSE {0, 4})
  <1> DEFINE p == BytesOf(<<255, 240, 1, n, e>>)
  <1>1. /\ p = [i \in 1 .. 5 |-> Byte(<<255, 240, 1, n, e>>[i])]
    BY DEF BytesOf
  <1>2. /\ p[1] = Byte(255) /\ p[2] = Byte(240) /\ p[3] = Byte(1)
        /\ p[4] = Byte(n)
    BY <1>1
  <1>3. p \in [1 .. 5 -> BYTE]
    <2>1. \A i \in 1 .. 5 : Byte(<<255, 240, 1, n, e>>[i]) \in BYTE  BY ByteBits
    <2> QED  BY <1>1, <2>1
  <1> HIDE DEF p
  <1>4. p[1] = 0 .. 7 /\ p[2] = 4 .. 7 /\ p[3] = {0}  BY <1>2, Masks
  <1>5. Byte(192) = {6, 7} /\ Byte(196) = {2, 6, 7}
    <2>1. Byte(192) = {6, 7}  BY ByteBits DEF BYTE
    <2>2. Byte(196) = {2, 6, 7}  BY ByteBits DEF BYTE
    <2> QED  BY <2>1, <2>2
  <1>6. ShiftRight({}, 5) = {} /\ ShiftLeft({}, 3) = {}
        /\ ShiftLeft({4}, 2) = {6} /\ ShiftLeft({0, 4}, 2) = {2, 6}
    BY DEF ShiftRight, ShiftLeft
  <1>7. p[4] = {7} \cup ShiftLeft(IF n = 192 THEN {4} ELSE {0, 4}, 2)
    <2>1. CASE n = 192  BY <1>2, <1>5, <1>6, <2>1
    <2>2. CASE n = 196  BY <1>2, <1>5, <1>6, <2>2
    <2> QED  BY <2>1, <2>2
  <1>8. Draft(p, 1, {}, 1, 1, IF n = 192 THEN {4} ELSE {0, 4})
    BY <1>3, <1>4, <1>6, <1>7 DEF Draft
  <1> QED  BY <1>8 DEF p

(* What the two special stops become when they are finished. *)
LEMMA FinishedStop ==
  ASSUME NEW p \in {DCC_special_broadcast_stop_packet, DCC_special_emergency_stop_packet},
         NEW q, q = DCC_set_packet_end(DCC_set_checksum(p))
  PROVE  /\ q \in [1 .. 5 -> BYTE]
         /\ p = DCC_special_broadcast_stop_packet => Bits(q) = StopFrame
         /\ p = DCC_special_emergency_stop_packet => Bits(q) = EmergencyStopFrame
         /\ DCC_is_broadcast_stop(q)
  <1>1. /\ DCC_special_broadcast_stop_packet = BytesOf(<<255, 240, 1, 192, 225>>)
        /\ DCC_special_emergency_stop_packet = BytesOf(<<255, 240, 1, 196, 227>>)
    BY DEF DCC_special_broadcast_stop_packet, DCC_special_emergency_stop_packet
  <1>2. ASSUME NEW n \in {192, 196}, NEW e \in Int, p = BytesOf(<<255, 240, 1, n, e>>)
        PROVE  /\ q \in [1 .. 5 -> BYTE]
               /\ n = 192 => Bits(q) = StopFrame
               /\ n = 196 => Bits(q) = EmergencyStopFrame
               /\ DCC_is_broadcast_stop(q)
    <2> DEFINE c == IF n = 192 THEN {4} ELSE {0, 4}
    <2>1. c \in Codes /\ {} \in Addresses  BY DEF Codes, Addresses
    <2>2. Draft(p, 1, {}, 1, 1, c)  BY <1>2, SpecialBytes
    <2>3. n = 192 => c = {4}  OBVIOUS
    <2>4. n = 196 => c = {0, 4}  OBVIOUS
    <2> HIDE DEF c
    <2>5. Bits(q) = Frame({}, Instruction(1, c), Xor({}, Instruction(1, c)))
      BY <2>1, <2>2, FinishedFrame
    <2>6. /\ q \in [1 .. 5 -> BYTE]
          /\ q[1] = 0 .. 7 /\ q[2] = (4 .. 7) \cup ShiftRight({}, 5)
          /\ q[3] = ShiftLeft({}, 3) \cup {0}
          /\ q[4] = {7} \cup ShiftLeft(c, 2)
          /\ q[5] = ShiftLeft(Xor({}, Instruction(1, c)), 1) \cup {0}
      BY <2>1, <2>2, Finishing
    <2>7. DCC_is_broadcast_stop(q)
      <3>1. ShiftRight({}, 5) = {} /\ ShiftLeft({}, 3) = {}
        BY DEF ShiftRight, ShiftLeft
      <3>2. q[1] = Byte(255) /\ q[2] = Byte(240) /\ q[3] = Byte(1)
        BY <2>6, <3>1, Masks
      <3>3. q[4] \in {Byte(192), Byte(196)} /\ q[5] \in {Byte(225), Byte(227)}
        <4>1. Byte(192) = {6, 7} /\ Byte(196) = {2, 6, 7}
          <5>1. Byte(192) = {6, 7}  BY ByteBits DEF BYTE
          <5>2. Byte(196) = {2, 6, 7}  BY ByteBits DEF BYTE
          <5> QED  BY <5>1, <5>2
        <4>2. Byte(225) = {0, 5, 6, 7} /\ Byte(227) = {0, 1, 5, 6, 7}
          <5>1. Byte(225) = {0, 5, 6, 7}  BY ByteBits DEF BYTE
          <5>2. Byte(227) = {0, 1, 5, 6, 7}  BY ByteBits DEF BYTE
          <5> QED  BY <5>1, <5>2
        <4>3. CASE c = {4}
          <5>1. ShiftLeft({4}, 2) = {6}  BY DEF ShiftLeft
          <5>2. Xor({}, Instruction(1, {4})) = {4, 5, 6}  BY DEF Xor, Instruction
          <5>3. ShiftLeft({4, 5, 6}, 1) = {5, 6, 7}  BY DEF ShiftLeft
          <5> QED  BY <2>6, <4>1, <4>2, <4>3, <5>1, <5>2, <5>3
        <4>4. CASE c = {0, 4}
          <5>1. ShiftLeft({0, 4}, 2) = {2, 6}  BY DEF ShiftLeft
          <5>2. Xor({}, Instruction(1, {0, 4})) = {0, 4, 5, 6}  BY DEF Xor, Instruction
          <5>3. ShiftLeft({0, 4, 5, 6}, 1) = {1, 5, 6, 7}  BY DEF ShiftLeft
          <5> QED  BY <2>6, <4>1, <4>2, <4>4, <5>1, <5>2, <5>3
        <4> QED  BY <4>3, <4>4, <2>3, <2>4
      <3>4. Len(q) = 5 /\ SubSeq(q, 1, 3) = BytesOf(<<255, 240, 1>>)
        <4>1. Len(q) = 5  BY <2>6
        <4>2. SubSeq(q, 1, 3) = [i \in 1 .. 3 |-> q[i]]  BY <2>6
        <4>3. BytesOf(<<255, 240, 1>>) = [i \in 1 .. 3 |-> Byte(<<255, 240, 1>>[i])]
          BY DEF BytesOf
        <4>4. \A i \in 1 .. 3 : q[i] = Byte(<<255, 240, 1>>[i])  BY <3>2
        <4> QED  BY <4>1, <4>2, <4>3, <4>4
      <3> QED  BY <3>3, <3>4 DEF DCC_is_broadcast_stop, DCC_BASELINE_LEN
    <2> QED  BY <2>5, <2>6, <2>7, <2>3, <2>4, FrameOfStop
  <1>3. DCC_special_broadcast_stop_packet # DCC_special_emergency_stop_packet
    <2>1. DCC_special_broadcast_stop_packet[4] = Byte(192)
          /\ DCC_special_emergency_stop_packet[4] = Byte(196)
      BY <1>1 DEF BytesOf
    <2>2. 2 \notin Byte(192) /\ 2 \in Byte(196)  BY ByteBits
    <2> QED  BY <2>1, <2>2
  <1>4. CASE p = DCC_special_broadcast_stop_packet
    BY <1>1, <1>2, <1>3, <1>4
  <1>5. CASE p = DCC_special_emergency_stop_packet
    BY <1>1, <1>2, <1>3, <1>5
  <1> QED  BY <1>4, <1>5

(* Numbers of five bits are their bytes. *)
LEMMA SmallBytes ==
  ASSUME NEW n \in 0 .. 31, NEW m \in 0 .. 31, Byte(n) = Byte(m)
  PROVE  n = m
  <1>1. /\ n % 2 = 1 <=> m % 2 = 1
        /\ (n \div 2) % 2 = 1 <=> (m \div 2) % 2 = 1
        /\ (n \div 4) % 2 = 1 <=> (m \div 4) % 2 = 1
        /\ (n \div 8) % 2 = 1 <=> (m \div 8) % 2 = 1
        /\ (n \div 16) % 2 = 1 <=> (m \div 16) % 2 = 1
    BY ByteBits
  <1>2. n \div 16 \in 0 .. 1 /\ m \div 16 \in 0 .. 1  OBVIOUS
  <1>3. n \div 16 = m \div 16  BY <1>1, <1>2
  <1>4. n \div 8 = m \div 8  BY <1>1, <1>3
  <1>5. n \div 4 = m \div 4  BY <1>1, <1>4
  <1>6. n \div 2 = m \div 2  BY <1>1, <1>5
  <1> QED  BY <1>1, <1>6

(* No two steps have the same code. *)
LEMMA StepsDiffer ==
  ASSUME NEW s \in 0 .. 28, NEW t \in 0 .. 28, DCC_speed_steps[s + 1] = DCC_speed_steps[t + 1]
  PROVE  s = t
  <1>1. StepCode(s) \in 0 .. 31 /\ StepCode(t) \in 0 .. 31  BY DEF StepCode
  <1>2. Byte(StepCode(s)) = Byte(StepCode(t))  BY SpeedSteps
  <1>3. StepCode(s) = StepCode(t)  BY <1>1, <1>2, SmallBytes
  <1> QED  BY <1>3 DEF StepCode

=============================================================================
