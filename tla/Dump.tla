-------------------------------- MODULE Dump --------------------------------
(***************************************************************************)
(* The texts that cs/dcc.c makes of a packet for cache show, each with the *)
(* length its block is allocated for; one more is for the NUL.             *)
(***************************************************************************)
EXTENDS Dcc, SequencesExt

NUL == "NUL"

(* The loop over the bytes, each with its digits, and a blank between two; *)
(* it also ends when the text is too long.                                 *)
DumpLoop(digits, length) ==
  LET Separator(i) == IF i < Len(digits) THEN <<" ">> ELSE <<>>
      dump[i \in 0 .. Len(digits)] ==
        IF i = 0 THEN <<>>
        ELSE LET before == dump[i - 1]
             IN  IF Len(before) > length THEN before ELSE before \o digits[i] \o Separator(i)
  IN  dump[Len(digits)]

Binary(b) == [j \in 1 .. 8 |-> IF 8 - j \in b THEN "1" ELSE "0"]
Hexadecimal(b) == LET n == 8 * BitOf(b, 7) + 4 * BitOf(b, 6) + 2 * BitOf(b, 5) + BitOf(b, 4)
                      m == 8 * BitOf(b, 3) + 4 * BitOf(b, 2) + 2 * BitOf(b, 1) + BitOf(b, 0)
                  IN  <<HexDigit[n + 1], HexDigit[m + 1]>>

BinaryBytes(p) == [i \in DOMAIN p |-> Binary(p[i])]
HexadecimalBytes(p) == [i \in DOMAIN p |-> Hexadecimal(p[i])]

DumpLength(p) == 8 * Len(p) + Len(p) - 2
HexDumpLength(p) == 2 * Len(p) + Len(p) - 1

(* Mutant: the length of the one dump for the other. *)
DumpCutShort(p) == Append(DumpLoop(BinaryBytes(p), HexDumpLength(p)), NUL)

DCC_dump(p) == Append(DumpLoop(BinaryBytes(p), DumpLength(p)), NUL)

(* The NUL is snprintf's. *)
DCC_hex_dump(p) == Append(DumpLoop(HexadecimalBytes(p), HexDumpLength(p)), NUL)

=============================================================================
