-------------------------------- MODULE Bytes --------------------------------
(***************************************************************************)
(* An unsigned char as the set of the bits that are 1, so that the         *)
(* operators & | ~ of C are \cap, \cup and a set difference.               *)
(***************************************************************************)
EXTENDS Integers, Sequences

BYTE == SUBSET (0 .. 7)

(* The conversion of a number, what does not fit being lost. *)
Byte(n) == {k \in 0 .. 7 : (n \div 2^k) % 2 = 1}

BytesOf(numbers) == [i \in DOMAIN numbers |-> Byte(numbers[i])]

ShiftLeft(b, s) == {k \in 0 .. 7 : k - s \in b}
ShiftRight(b, s) == {k \in 0 .. 7 : k + s \in b}
Xor(b, c) == (b \ c) \cup (c \ b)

HexDigit == <<"0", "1", "2", "3", "4", "5", "6", "7", "8", "9",
              "a", "b", "c", "d", "e", "f">>
IsHexDigit(c) == \E k \in 1 .. 16 : HexDigit[k] = c
DigitValue(c) == (CHOOSE k \in 1 .. 16 : HexDigit[k] = c) - 1

BitOf(b, k) == IF k \in b THEN 1 ELSE 0

(* The bits of a sequence of bytes, most significant first. *)
Bits(p) == [k \in 1 .. 8 * Len(p) |-> BitOf(p[(k - 1) \div 8 + 1], 7 - ((k - 1) % 8))]

=============================================================================
