------------------------------- MODULE Scanner -------------------------------
(***************************************************************************)
(* DSL_next_token of cs/dsl.c over characters.  What getchar will still    *)
(* yield is a sequence, at whose end it yields EOF.  A call yields a token *)
(* of Dsl, the character it gave back, what it has not read, and whether   *)
(* it met the end.  Letters have one case here: tolower and toupper make   *)
(* no other difference.                                                    *)
(***************************************************************************)
EXTENDS Dsl, SequencesExt

CONSTANTS Letter,    \* isalpha
          Keyword,   \* the words of DSL_CMP, each with its token
          MaxTok     \* DSL_MAX_TOK_LEN

Digit == {HexDigit[k] : k \in 1 .. 10}
Blank == {" ", "\t"}

ASSUME ScannerAssumption == /\ MaxTok \in Nat \ {0} /\ MaxTok % 2 = 0
                            /\ DOMAIN Keyword \subseteq Seq(Letter)
                            /\ Letter \cap (Digit \cup Blank \cup {"\n"}) = {}

(* The first n elements, the ones behind them, and how many of the first   *)
(* are in S.                                                               *)
Taken(s, n) == SubSeq(s, 1, n)
Left(s, n) == SubSeq(s, n + 1, Len(s))
Run(s, S) == CHOOSE n \in 0 .. Len(s) : /\ \A k \in 1 .. n : s[k] \in S
                                        /\ n < Len(s) => s[n + 1] \notin S

Upto(n, limit) == IF n < limit THEN n ELSE limit

(* num_i is an int of 16 bits, and wraps. *)
Wrapped(n) == ((n + 32768) % 65536) - 32768
NumberOf(digits) ==
  LET number[n \in 0 .. Len(digits)] ==
        IF n = 0 THEN 0 ELSE Wrapped(10 * number[n - 1] + DigitValue(digits[n]))
  IN  number[Len(digits)]

-----------------------------------------------------------------------------
(* The character behind a token is read and given back; if there is none,  *)
(* seen_end is set.                                                        *)
Token(t, after) == [token |-> t, back |-> Taken(after, Upto(1, Len(after))),
                    rest |-> Left(after, 1), end |-> after = <<>>]

(* 0, with nothing given back. *)
NoToken(t, after, end) == [token |-> t, back |-> <<>>, rest |-> after, end |-> end]

(* Mutant: the character behind the digits is lost. *)
NumberLosesOne(s) ==
  LET n == Run(s, Digit)
  IN  [Token(Number(NumberOf(Taken(s, n))), Left(s, n)) EXCEPT !.back = <<>>]

ScanNumber(s) ==
  LET n == Run(s, Digit)
  IN  Token(Number(NumberOf(Taken(s, n))), Left(s, n))

ScanWord(s) ==
  LET n == Upto(Run(s, Letter), MaxTok)
      w == Taken(s, n)
  IN  Token(IF w \in DOMAIN Keyword THEN Word(Keyword[w]) ELSE unknown, Left(s, n))

(* 0x has been read.  With MaxTok digits the loop stops before it reads    *)
(* another character, and what is given back is the last digit once more.  *)
(* An odd number of digits is no token; none at all is a token.            *)
ScanHex(s) ==
  LET n == Upto(Run(s, Digit \cup Letter), MaxTok)
      digits == Taken(s, n)
      after == Left(s, n)
  IN  IF n % 2 = 1 THEN NoToken(stray, Left(after, 1), after = <<>>)
      ELSE Token(Hex(HexBytes(digits)), (IF n < MaxTok THEN <<>> ELSE <<digits[n]>>) \o after)

DSL_next_token(stream) ==
  LET s == Left(stream, Run(stream, Blank))
  IN  CASE s = <<>> -> NoToken(stray, s, TRUE)
        [] s # <<>> /\ IsPrefix(<<"0", "x">>, s) -> ScanHex(Left(s, 2))
        [] s # <<>> /\ s[1] \in Digit /\ ~ IsPrefix(<<"0", "x">>, s) -> ScanNumber(s)
        [] s # <<>> /\ s[1] \in Letter -> ScanWord(s)
        [] OTHER -> NoToken(IF s[1] = "\n" THEN newline ELSE stray, Left(s, 1), FALSE)

(* The call after one that has set seen_end. *)
EndOfInput == NoToken(stray, <<>>, TRUE)

IsToken(s) == s.token.tok \notin {"stray", "newline", "unknown"}
Remaining(s) == s.back \o s.rest
NextScan(s) == IF s.end THEN EndOfInput ELSE DSL_next_token(Remaining(s))

(* The calls for a stream, up to the first that yields 0: the parser makes *)
(* no more of them.                                                        *)
Scans(stream) ==
  LET calls[n \in 0 .. Len(stream) + 1] ==
        IF n = 0 THEN <<DSL_next_token(stream)>>
        ELSE LET before == calls[n - 1]
             IN  IF IsToken(Last(before)) THEN Append(before, NextScan(Last(before)))
                 ELSE before
  IN  calls[Len(stream) + 1]

=============================================================================
