----------------------------- MODULE TokenStream -----------------------------
(***************************************************************************)
(* The scanner of cs/dsl.c called again and again on one input, against    *)
(* the rule scanners are written by: a token is the longest piece of input *)
(* that is one, here as far as the buffer holds it.                        *)
(***************************************************************************)
EXTENDS Scanner

CONSTANT Source      \* the inputs

ASSUME SourceAssumption == Source \subseteq Seq(STRING)

VARIABLES before,    \* the input when DSL_next_token was called last
          scan       \* what the call gave

streamVars == <<before, scan>>

(* Nothing is read before DSL_advance. *)
DSL_scanner_reset == /\ before \in Source
                     /\ scan = [token |-> Word("none"), back |-> <<>>, rest |-> before,
                                end |-> FALSE]

(* DSL_accept, DSL_advance: after a 0 the parser asks for no more. *)
Advance == /\ IsToken(scan)
           /\ before' = Remaining(scan)
           /\ scan' = NextScan(scan)

StreamSpec == DSL_scanner_reset /\ [][Advance]_streamVars

-----------------------------------------------------------------------------
(* The pieces of input that are tokens, and what they mean. *)
Consists(w, S) == \A k \in DOMAIN w : w[k] \in S
IsWord(w) == w # <<>> /\ Consists(w, Letter)
IsNumber(w) == w # <<>> /\ Consists(w, Digit)
IsHex(w) == Len(w) > 2 /\ IsPrefix(<<"0", "x">>, w) /\ Consists(w, Digit \cup Letter)

Longest(s) == Max({0} \cup {n \in DOMAIN s : \/ IsWord(Taken(s, n))
                                             \/ IsNumber(Taken(s, n))
                                             \/ IsHex(Taken(s, n))})

(* The scanner's buffer holds MaxTok characters of a word, or behind the   *)
(* 0x: a longer piece is cut there, and the next begins behind the cut; of *)
(* hex digits that fill the buffer it begins with the last once more.      *)
Fitting(s) == LET n == Longest(s)
                  w == Taken(s, n)
              IN  IF IsNumber(w) THEN n ELSE Upto(n, IF IsWord(w) THEN MaxTok ELSE MaxTok + 2)
Behind(s) == LET n == Fitting(s)
             IN  IF IsHex(Taken(s, n)) /\ n = MaxTok + 2 THEN n - 1 ELSE n

(* 0x without digits. *)
Unusual(s) == IsPrefix(<<"0", "x">>, s) /\ Longest(s) <= 2

(* A number as it is written; it is used as an unsigned char. *)
Written(w) ==
  LET number[n \in 0 .. Len(w)] ==
        IF n = 0 THEN 0 ELSE 10 * number[n - 1] + DigitValue(w[n])
  IN  number[Len(w)]

Means(t, w) ==
  \/ IsNumber(w) /\ t.tok = "number" /\ t.value[1] % 256 = Written(w) % 256
  \/ IsWord(w) /\ t = IF w \in DOMAIN Keyword THEN Word(Keyword[w]) ELSE unknown
  \/ IsHex(w) /\ Len(w) % 2 = 0 /\ t = Hex(HexBytes(Left(w, 2)))
  \/ IsHex(w) /\ Len(w) % 2 = 1 /\ t = stray

Called == scan.token # Word("none")

(* Each call reads the blanks and the longest token behind them, as far as *)
(* the buffer holds it, and leaves the rest for the next, a newline with   *)
(* it: no character is lost or read twice, but for the last hex digit that *)
(* fits, whatever follows a token; a token that ends with the input is     *)
(* known to be the last; and a number that overflows an int is still the   *)
(* address or the speed that was written, as far as those are kept.        *)
LongestToken ==
  LET s == Left(before, Run(before, Blank))
      n == Fitting(s)
  IN  (Called /\ ~ Unusual(s)) =>
        /\ IsToken(scan) => n > 0 /\ Remaining(scan) = Left(s, Behind(s))
        /\ IsToken(scan) => (scan.end <=> Remaining(scan) = <<>>)
        /\ n > 0 => Means(scan.token, Taken(s, n))

=============================================================================
