--------------------------- MODULE TerminalProofs ---------------------------
(***************************************************************************)
(* The characters: what DSL_next_token takes of any input, and that of a   *)
(* line of any length, at any rate and with any errors, the ring of        *)
(* cs/io.c holds what was typed and not read. The parser is used for where *)
(* it ends only: its last token is one that the scanner gave, so what it   *)
(* takes out of the ring is what the scanner has read.                     *)
(***************************************************************************)
EXTENDS Terminal, TokenStream, DataLemmas

(* THE SCANNER *)

(* The characters: those of any text, and what IO_getc and an error make of one. *)
Chars == STRING \cup {" ", "\n", "?", "0"}

(* The run of characters of S: it is all of them up to one that is not. *)
LEMMA Running ==
  ASSUME NEW C, NEW s \in Seq(C), NEW S
  PROVE  /\ Run(s, S) \in 0 .. Len(s)
         /\ \A k \in 1 .. Run(s, S) : s[k] \in S
         /\ Run(s, S) < Len(s) => s[Run(s, S) + 1] \notin S
  <1> DEFINE N == Len(s)
             T == {n \in 0 .. N : n < N => s[n + 1] \notin S}
  <1>1. N \in Nat  OBVIOUS
  <1>2. T \in SUBSET Nat /\ N \in T  BY <1>1
  <1>3. PICK n \in T : \A m \in T : n <= m  BY <1>2, LeastNatural
  <1>4. n \in 0 .. N /\ (n < N => s[n + 1] \notin S)  BY <1>3
  <1>5. ASSUME NEW k \in 1 .. n
        PROVE  s[k] \in S
    <2>1. k - 1 \in 0 .. N /\ k - 1 < n /\ k - 1 < N /\ (k - 1) + 1 = k  BY <1>1, <1>4
    <2>2. k - 1 \notin T  BY <1>3, <2>1
    <2> QED  BY <2>1, <2>2
  <1>6. \E x \in 0 .. Len(s) : /\ \A k \in 1 .. x : s[k] \in S
                               /\ x < Len(s) => s[x + 1] \notin S
    BY <1>4, <1>5
  <1> QED  BY <1>6 DEF Run

(* What comes after n elements, and the first n. *)
LEMMA Lefts ==
  ASSUME NEW C, NEW s \in Seq(C), NEW n \in 0 .. Len(s)
  PROVE  /\ Left(s, n) \in Seq(C) /\ Len(Left(s, n)) = Len(s) - n
         /\ \A k \in 1 .. Len(s) - n : Left(s, n)[k] = s[n + k]
  <1>1. Len(s) \in Nat /\ n \in Nat /\ n <= Len(s)  OBVIOUS
  <1>2. \A j \in 1 .. Len(s) : s[j] \in C  OBVIOUS
  <1> DEFINE a == n + 1
             b == Len(s)
  <1>3. a \in Int /\ b \in Int /\ \A j \in a .. b : s[j] \in C  BY <1>1, <1>2
  <1>4. a <= b <=> n < b  BY <1>1
  <1>5. b - a + 1 = b - n /\ \A k \in 1 .. b - n : a + k - 1 = n + k  BY <1>1
  <1> HIDE DEF a, b
  <1>6. /\ SubSeq(s, a, b) \in Seq(C)
        /\ Len(SubSeq(s, a, b)) = IF a <= b THEN b - a + 1 ELSE 0
        /\ \A k \in 1 .. b - a + 1 : SubSeq(s, a, b)[k] = s[a + k - 1]
    BY <1>3, SubSeqProperties
  <1>7. Left(s, n) = SubSeq(s, a, b)  BY DEF Left, a, b
  <1>8. n = b \/ n < b  BY <1>1 DEF b
  <1>9. b - n \in Nat /\ (n = b => b - n = 0)  BY <1>1 DEF b
  <1>10. Len(SubSeq(s, a, b)) = b - n  BY <1>4, <1>5, <1>6, <1>8, <1>9
  <1>11. \A k \in 1 .. b - n : SubSeq(s, a, b)[k] = s[n + k]  BY <1>5, <1>6
  <1> QED  BY <1>6, <1>7, <1>10, <1>11 DEF b

(* The same of the first n elements. *)
LEMMA Takens ==
  ASSUME NEW C, NEW s \in Seq(C), NEW n \in 0 .. Len(s)
  PROVE  /\ Taken(s, n) \in Seq(C) /\ Len(Taken(s, n)) = n
         /\ \A k \in 1 .. n : Taken(s, n)[k] = s[k]
  <1>1. Len(s) \in Nat /\ n \in Nat /\ n <= Len(s)  OBVIOUS
  <1>2. \A j \in 1 .. Len(s) : s[j] \in C  OBVIOUS
  <1> DEFINE a == 1
  <1>3. a \in Int /\ n \in Int /\ \A j \in a .. n : s[j] \in C  BY <1>1, <1>2
  <1>4. a <= n <=> n > 0  BY <1>1
  <1>5. n - a + 1 = n /\ \A k \in 1 .. n : a + k - 1 = k  BY <1>1
  <1>6. Taken(s, n) = SubSeq(s, a, n)  BY DEF Taken, a
  <1> HIDE DEF a
  <1>7. /\ SubSeq(s, a, n) \in Seq(C)
        /\ Len(SubSeq(s, a, n)) = IF a <= n THEN n - a + 1 ELSE 0
        /\ \A k \in 1 .. n - a + 1 : SubSeq(s, a, n)[k] = s[a + k - 1]
    BY <1>3, SubSeqProperties
  <1>8. n = 0 \/ n > 0  BY <1>1
  <1>9. Len(SubSeq(s, a, n)) = n  BY <1>4, <1>5, <1>7, <1>8
  <1>10. \A k \in 1 .. n : SubSeq(s, a, n)[k] = s[k]  BY <1>5, <1>7
  <1> QED  BY <1>6, <1>7, <1>9, <1>10

(* A stream that ends with a line. *)
Ended(s) == s # <<>> /\ s[Len(s)] = "\n"

(* What is left of a line, if anything is, ends with its newline. *)
LEMMA LeftEnded ==
  ASSUME NEW C, NEW s \in Seq(C), NEW n \in 0 .. Len(s), Ended(s), n < Len(s)
  PROVE  Ended(Left(s, n))
  <1> DEFINE m == Len(s) - n
             t == Left(s, n)
  <1>1. m \in Nat /\ m >= 1 /\ m \in 1 .. m /\ n + m = Len(s)  OBVIOUS
  <1>2. Len(t) = m /\ \A k \in 1 .. m : t[k] = s[n + k]  BY Lefts
  <1> HIDE DEF m, t
  <1>3. t[Len(t)] = s[Len(s)]  BY <1>1, <1>2
  <1>4. t # <<>>
    <2>1. Len(t) # 0  BY <1>1, <1>2
    <2> QED  BY <2>1
  <1> QED  BY <1>3, <1>4 DEF Ended, t

(* The first and the rest make the whole. *)
LEMMA FirstAndRest ==
  ASSUME NEW C, NEW s \in Seq(C), NEW n \in 0 .. Len(s)
  PROVE  Taken(s, n) \o Left(s, n) = s
  <1>1. /\ Taken(s, n) \in Seq(C) /\ Len(Taken(s, n)) = n
        /\ \A k \in 1 .. n : Taken(s, n)[k] = s[k]
    BY Takens
  <1>2. /\ Left(s, n) \in Seq(C) /\ Len(Left(s, n)) = Len(s) - n
        /\ \A k \in 1 .. Len(s) - n : Left(s, n)[k] = s[n + k]
    BY Lefts
  <1> DEFINE t == Taken(s, n)
             u == Left(s, n)
             w == t \o u
             N == Len(s)
  <1>3. N \in Nat /\ n \in Nat /\ n <= N  OBVIOUS
  <1> HIDE DEF t, u
  <1>4. t \in Seq(C) /\ u \in Seq(C) /\ Len(t) = n /\ Len(u) = N - n  BY <1>1, <1>2 DEF t, u
  <1>5. w \in Seq(C) /\ Len(w) = N  BY <1>3, <1>4
  <1>6. \A k \in 1 .. N : w[k] = IF k <= n THEN t[k] ELSE u[k - n]  BY <1>3, <1>4
  <1>7. \A k \in 1 .. n : t[k] = s[k]  BY <1>1 DEF t
  <1>8. \A k \in 1 .. N - n : u[k] = s[n + k]  BY <1>2 DEF u
  <1> HIDE DEF w, N
  <1>9. \A k \in 1 .. N : w[k] = s[k]
    <2> SUFFICES ASSUME NEW k \in 1 .. N PROVE w[k] = s[k]  OBVIOUS
    <2>1. CASE k <= n
      <3>1. k \in 1 .. n  BY <1>3, <2>1
      <3> QED  BY <1>6, <1>7, <2>1, <3>1
    <2>2. CASE ~ (k <= n)
      <3>1. k - n \in 1 .. N - n /\ n + (k - n) = k  BY <1>3, <2>2
      <3> QED  BY <1>6, <1>8, <2>2, <3>1
    <2> QED  BY <2>1, <2>2
  <1>10. w \in Seq(C) /\ s \in Seq(C) /\ Len(w) = N /\ Len(s) = N  BY <1>5 DEF N
  <1>11. w = s  BY <1>9, <1>10, SeqEqual
  <1> QED  BY <1>11 DEF w, t, u

(* A scan of a token: what was read of the input behind it was given back. *)
LEMMA TokenScan ==
  ASSUME NEW C, NEW after \in Seq(C), NEW t, NEW x, x = Token(t, after)
  PROVE  /\ x.token = t /\ x.back \in Seq(C) /\ Len(x.back) <= 1 /\ x.rest \in Seq(C)
         /\ Len(x.rest) <= Len(after) /\ Remaining(x) = after
         /\ after # <<>> => Len(x.rest) = Len(after) - 1
         /\ x.end <=> after = <<>>
  <1> DEFINE m == Upto(1, Len(after))
             N == Len(after)
  <1>1. N \in Nat /\ m \in 0 .. N /\ m <= 1 /\ (N >= 1 => m = 1) /\ (N = 0 => m = 0)
    <2>1. N \in Nat  OBVIOUS
    <2>2. m = IF 1 < N THEN 1 ELSE N  BY DEF Upto
    <2> HIDE DEF m, N
    <2> QED  BY <2>1, <2>2
  <1>2. /\ x.token = t /\ x.back = Taken(after, m) /\ x.rest = Left(after, 1)
        /\ x.end = (after = <<>>)
    BY DEF Token
  <1>3. Left(after, 1) = Left(after, m)
    <2>1. CASE N >= 1  BY <1>1, <2>1
    <2>2. CASE N = 0
      <3>1. after = <<>>  BY <2>2
      <3>2. Left(after, 1) = <<>> /\ Left(after, 0) = <<>>  BY <3>1 DEF Left
      <3> QED  BY <1>1, <2>2, <3>2
    <2> QED  BY <1>1, <2>1, <2>2
  <1> HIDE DEF m
  <1>4. Taken(after, m) \in Seq(C) /\ Len(Taken(after, m)) = m  BY <1>1, Takens
  <1>5. Left(after, m) \in Seq(C) /\ Len(Left(after, m)) = N - m  BY <1>1, Lefts
  <1>6. Taken(after, m) \o Left(after, m) = after  BY <1>1, FirstAndRest
  <1>7. after # <<>> => N >= 1  OBVIOUS
  <1> HIDE DEF N
  <1>8. Len(x.rest) <= N /\ (after # <<>> => Len(x.rest) = N - 1)  BY <1>1, <1>2, <1>3, <1>5, <1>7
  <1>9. Remaining(x) = after  BY <1>2, <1>3, <1>6 DEF Remaining
  <1> QED  BY <1>1, <1>2, <1>3, <1>4, <1>5, <1>8, <1>9 DEF N

(* What a scan of s leaves: at most one character is put back, something of s has gone if
   there was any, a token is not empty, and of a line its end is left and not passed. *)
Scanning(x, s, C) ==
  /\ x.back \in Seq(C) /\ Len(x.back) <= 1 /\ x.rest \in Seq(C)
  /\ s # <<>> => Len(x.rest) <= Len(s) - 1
  /\ s = <<>> => x.rest = <<>>
  /\ IsToken(x) => Len(Remaining(x)) <= Len(s) - 1
  /\ Ended(s) => ~ x.end
  /\ Ended(s) /\ IsToken(x) => Ended(Remaining(x))

(* A newline is no part of a token and no blank. *)
LEMMA NewlineApart == "\n" \notin Digit /\ "\n" \notin Letter /\ "\n" \notin Blank
  <1>1. "\n" \notin Letter  BY ScannerAssumption
  <1>2. "\n" \notin Digit
    <2> SUFFICES ASSUME NEW k \in 1 .. 10 PROVE HexDigit[k] # "\n"  BY DEF Digit
    <2>1. k = 1 \/ k = 2 \/ k = 3 \/ k = 4 \/ k = 5 \/ k = 6 \/ k = 7 \/ k = 8 \/ k = 9 \/ k = 10
      OBVIOUS
    <2> QED  BY <2>1 DEF HexDigit
  <1> QED  BY <1>1, <1>2 DEF Blank

(* A run of what is no newline stops before the end of a line. *)
LEMMA RunStops ==
  ASSUME NEW C, NEW s \in Seq(C), NEW S, "\n" \notin S, Ended(s)
  PROVE  Run(s, S) < Len(s)
  <1>1. Run(s, S) \in 0 .. Len(s) /\ \A k \in 1 .. Run(s, S) : s[k] \in S  BY Running
  <1>2. Len(s) \in Nat /\ Len(s) >= 1 /\ s[Len(s)] = "\n"  BY DEF Ended
  <1> DEFINE n == Run(s, S)
             N == Len(s)
             c == "\n"
  <1>3. n \in 0 .. N /\ N \in Nat /\ N >= 1 /\ (\A k \in 1 .. n : s[k] \in S) /\ s[N] \notin S
    BY <1>1, <1>2
  <1> HIDE DEF n, N
  <1>4. n # N
    <2> SUFFICES ASSUME n = N PROVE FALSE  OBVIOUS
    <2>1. N \in 1 .. n  BY <1>3
    <2> QED  BY <1>3, <2>1
  <1>5. n < N  BY <1>3, <1>4
  <1> QED  BY <1>5 DEF n, N

(* A token that begins the stream, and what is behind it. *)
LEMMA TokenScanning ==
  ASSUME NEW C, NEW s \in Seq(C), NEW n \in 1 .. Len(s), NEW t, NEW x,
         x = Token(t, Left(s, n)), Ended(s) => n < Len(s)
  PROVE  Scanning(x, s, C)
  <1> DEFINE u == Left(s, n)
  <1>1. n \in 0 .. Len(s) /\ Len(s) \in Nat /\ n >= 1  OBVIOUS
  <1>2. u \in Seq(C) /\ Len(u) = Len(s) - n  BY <1>1, Lefts
  <1>3. Ended(s) => Ended(u)  BY <1>1, LeftEnded
  <1>4. x = Token(t, u)  OBVIOUS
  <1> HIDE DEF u
  <1>5. /\ x.back \in Seq(C) /\ Len(x.back) <= 1 /\ x.rest \in Seq(C)
        /\ Len(x.rest) <= Len(u) /\ Remaining(x) = u
        /\ x.end <=> u = <<>>
    BY <1>2, <1>4, TokenScan
  <1>6. Len(u) <= Len(s) - 1 /\ s # <<>>  BY <1>1, <1>2
  <1>7. Len(x.rest) <= Len(s) - 1  BY <1>1, <1>2, <1>5, <1>6
  <1>8. Ended(s) => ~ x.end  BY <1>3, <1>5 DEF Ended
  <1> QED  BY <1>3, <1>5, <1>6, <1>7, <1>8 DEF Scanning

(* A number: what it leaves of s. *)
LEMMA NumberScanning ==
  ASSUME NEW C, NEW s \in Seq(C), s # <<>>, s[1] \in Digit
  PROVE  Scanning(ScanNumber(s), s, C)
  <1> DEFINE n == Run(s, Digit)
             t == Number(NumberOf(Taken(s, n)))
  <1>1. n \in 0 .. Len(s) /\ (n < Len(s) => s[n + 1] \notin Digit)  BY Running
  <1>2. Len(s) \in Nat /\ Len(s) >= 1  OBVIOUS
  <1>3. Ended(s) => n < Len(s)  BY RunStops, NewlineApart
  <1>4. ScanNumber(s) = Token(t, Left(s, n))  BY DEF ScanNumber
  <1> HIDE DEF n, t
  <1>5. n # 0  BY <1>1, <1>2
  <1>6. n \in 1 .. Len(s)  BY <1>1, <1>5
  <1> QED  BY <1>3, <1>4, <1>6, TokenScanning

(* A word, too long or not: what it leaves of s. *)
LEMMA WordScanning ==
  ASSUME NEW C, NEW s \in Seq(C), s # <<>>, s[1] \in Letter
  PROVE  Scanning(ScanWord(s), s, C)
  <1> DEFINE r == Run(s, Letter)
             n == Upto(r, MaxTok)
             w == Taken(s, n)
             t == IF w \in DOMAIN Keyword THEN Word(Keyword[w]) ELSE unknown
  <1>1. r \in 0 .. Len(s) /\ (r < Len(s) => s[r + 1] \notin Letter)  BY Running
  <1>2. Len(s) \in Nat /\ Len(s) >= 1  OBVIOUS
  <1>3. Ended(s) => r < Len(s)  BY RunStops, NewlineApart
  <1>4. ScanWord(s) = Token(t, Left(s, n))  BY DEF ScanWord
  <1>5. n = IF r < MaxTok THEN r ELSE MaxTok  BY DEF Upto
  <1>6. MaxTok \in Nat /\ MaxTok >= 1  BY ScannerAssumption
  <1> HIDE DEF r, n, t, w
  <1>7. r # 0  BY <1>1, <1>2
  <1>8. n \in 1 .. Len(s) /\ n <= r  BY <1>1, <1>2, <1>5, <1>6, <1>7
  <1>9. Ended(s) => n < Len(s)  BY <1>1, <1>2, <1>3, <1>8
  <1> QED  BY <1>4, <1>8, <1>9, TokenScanning

(* Nothing is put back, and at least one character is gone. *)
LEMMA NoTokenScanning ==
  ASSUME NEW C, NEW s \in Seq(C), NEW u \in Seq(C), NEW t, t \in {"stray", "newline"},
         NEW e, NEW x, x = NoToken(Word(t), u, e),
         s # <<>> => Len(u) <= Len(s) - 1, s = <<>> => u = <<>>, Ended(s) => ~ e
  PROVE  Scanning(x, s, C)
  <1>1. x.token = Word(t) /\ x.back = <<>> /\ x.rest = u /\ x.end = e  BY DEF NoToken
  <1>2. Word(t).tok = t  BY DEF Word
  <1>3. ~ IsToken(x)  BY <1>1, <1>2 DEF IsToken
  <1>4. x.back \in Seq(C) /\ Len(x.back) <= 1  BY <1>1
  <1> QED  BY <1>1, <1>3, <1>4 DEF Scanning

(* One character put back in front of what was left. *)
LEMMA Prepended ==
  ASSUME NEW C, NEW u \in Seq(C), NEW d \in C
  PROVE  /\ <<d>> \o u \in Seq(C) /\ Len(<<d>> \o u) = Len(u) + 1
         /\ Ended(u) => Ended(<<d>> \o u)
  <1> DEFINE w == <<d>> \o u
             N == Len(u)
  <1>1. N \in Nat /\ w \in Seq(C) /\ Len(w) = N + 1 /\ \A k \in 1 .. N : w[k + 1] = u[k]
    OBVIOUS
  <1>2. w # <<>>  BY <1>1
  <1>3. ASSUME Ended(u) PROVE Ended(w)
    <2>1. u # <<>> /\ u[N] = "\n"  BY <1>3 DEF Ended
    <2>2. N \in 1 .. N  BY <2>1
    <2> HIDE DEF w, N
    <2> QED  BY <1>1, <1>2, <2>1, <2>2 DEF Ended
  <1> QED  BY <1>1, <1>3

(* One element less, and none when there is none. *)
LEMMA LeftOne ==
  ASSUME NEW C, NEW u \in Seq(C)
  PROVE  /\ Left(u, 1) \in Seq(C) /\ Len(Left(u, 1)) <= Len(u)
         /\ u # <<>> => Len(Left(u, 1)) = Len(u) - 1
         /\ u = <<>> => Left(u, 1) = <<>>
  <1>1. CASE u = <<>>
    <2> DEFINE z == Left(u, 1)
    <2>1. z = <<>>  BY <1>1 DEF Left
    <2> HIDE DEF z
    <2>2. z \in Seq(C) /\ Len(z) <= Len(u)  BY <1>1, <2>1
    <2> QED  BY <1>1, <2>1, <2>2 DEF z
  <1>2. CASE u # <<>>
    <2>1. 1 \in 0 .. Len(u)  BY <1>2
    <2> DEFINE one == 1
    <2>2. one \in 0 .. Len(u)  BY <2>1
    <2> HIDE DEF one
    <2>3. Left(u, one) \in Seq(C) /\ Len(Left(u, one)) = Len(u) - one  BY <2>2, Lefts
    <2>4. Left(u, 1) \in Seq(C) /\ Len(Left(u, 1)) = Len(u) - 1  BY <2>3 DEF one
    <2> QED  BY <1>2, <2>4
  <1> QED  BY <1>1, <1>2

(* The digits behind 0x, which have been read: u is left of s. *)
LEMMA HexScanning ==
  ASSUME NEW C, NEW s \in Seq(C), NEW u \in Seq(C), s # <<>>, Len(u) = Len(s) - 2,
         Ended(s) => Ended(u)
  PROVE  Scanning(ScanHex(u), s, C)
  <1> DEFINE r == Run(u, Digit \cup Letter)
             n == Upto(r, MaxTok)
             digits == Taken(u, n)
             after == Left(u, n)
             h == Hex(HexBytes(digits))
             back == (IF n < MaxTok THEN <<>> ELSE <<digits[n]>>) \o after
             x == ScanHex(u)
  <1>1. r \in 0 .. Len(u)  BY Running
  <1>2. Len(s) \in Nat /\ Len(u) \in Nat  OBVIOUS
  <1>3. Ended(u) => r < Len(u)  BY RunStops, NewlineApart
  <1>4. n = IF r < MaxTok THEN r ELSE MaxTok  BY DEF Upto
  <1>5. MaxTok \in Nat /\ MaxTok >= 1  BY ScannerAssumption
  <1>6. x = IF n % 2 = 1 THEN NoToken(stray, Left(after, 1), after = <<>>) ELSE Token(h, back)
    BY DEF ScanHex
  <1> HIDE DEF r, h, x
  <1>7. n \in 0 .. Len(u) /\ n <= r  BY <1>1, <1>2, <1>4, <1>5
  <1>8. Ended(u) => n < Len(u)  BY <1>1, <1>2, <1>3, <1>7
  <1> DEFINE m == n
  <1> HIDE DEF m
  <1>9. m \in 0 .. Len(u) /\ m = n  BY <1>7 DEF m
  <1>10. /\ Left(u, m) \in Seq(C) /\ Len(Left(u, m)) = Len(u) - m
         /\ Ended(u) => Ended(Left(u, m))
    BY <1>8, <1>9, Lefts, LeftEnded
  <1>11. after \in Seq(C) /\ Len(after) = Len(u) - n /\ (Ended(u) => Ended(after))
    BY <1>9, <1>10
  <1>12. Len(digits) = n /\ \A k \in 1 .. n : digits[k] = u[k]
    <2>1. Len(Taken(u, m)) = m /\ \A k \in 1 .. m : Taken(u, m)[k] = u[k]  BY <1>9, Takens
    <2> QED  BY <1>9, <2>1
  <1>13. CASE n % 2 = 1
    <2>1. x = NoToken(stray, Left(after, 1), after = <<>>)  BY <1>6, <1>13
    <2> DEFINE v == after
    <2>2. v \in Seq(C) /\ Len(v) <= Len(s) - 2 /\ (Ended(s) => Ended(v))
      BY <1>2, <1>7, <1>11
    <2>3. x = NoToken(stray, Left(v, 1), v = <<>>)  BY <2>1
    <2> HIDE DEF v, after
    <2>4. Left(v, 1) \in Seq(C) /\ Len(Left(v, 1)) <= Len(v)  BY <2>2, LeftOne
    <2> DEFINE z == Left(v, 1)
               e == v = <<>>
               t == "stray"
    <2>5. z \in Seq(C) /\ Len(z) <= Len(s) - 1  BY <1>2, <2>2, <2>4
    <2>6. Ended(s) => ~ e  BY <2>2 DEF Ended
    <2>7. x = NoToken(Word(t), z, e) /\ t \in {"stray", "newline"}  BY <2>3 DEF stray
    <2> HIDE DEF z, e, t
    <2>8. Scanning(x, s, C)  BY <2>5, <2>6, <2>7, NoTokenScanning
    <2> QED  BY <2>8 DEF x
  <1>14. CASE ~ (n % 2 = 1)
    <2>1. x = Token(h, back)  BY <1>6, <1>14
    <2>2. back \in Seq(C) /\ Len(back) <= Len(u) /\ (Ended(u) => Ended(back))
      <3>1. CASE n < MaxTok
        <4>1. back = <<>> \o after  BY <3>1
        <4>2. \A v \in Seq(C) : <<>> \o v = v  OBVIOUS
        <4>3. back = after  BY <1>11, <4>1, <4>2
        <4> HIDE DEF back, after
        <4> QED  BY <1>2, <1>7, <1>11, <4>3
      <3>2. CASE ~ (n < MaxTok)
        <4> DEFINE d == digits[n]
                   v == after
        <4>1. back = <<d>> \o v  BY <3>2
        <4>2. n \in 1 .. Len(u)  BY <1>1, <1>2, <1>4, <1>5, <1>7, <3>2
        <4>3. d \in C
          <5>1. n \in 1 .. n /\ u[n] \in C  BY <4>2, ElementOfSeq
          <5> QED  BY <1>12, <5>1
        <4>4. v \in Seq(C) /\ (Ended(u) => Ended(v))  BY <1>11
        <4>5. Len(v) = Len(u) - n  BY <1>11
        <4> HIDE DEF d, v, back
        <4>6. /\ <<d>> \o v \in Seq(C) /\ Len(<<d>> \o v) = Len(v) + 1
              /\ Ended(v) => Ended(<<d>> \o v)
          BY <4>3, <4>4, Prepended
        <4>7. back \in Seq(C) /\ Len(back) = Len(v) + 1 /\ (Ended(v) => Ended(back))
          BY <4>1, <4>6
        <4>8. Len(back) <= Len(u)  BY <1>2, <4>2, <4>5, <4>7
        <4> QED  BY <4>4, <4>7, <4>8
      <3> QED  BY <3>1, <3>2
    <2> HIDE DEF back
    <2>3. /\ x.back \in Seq(C) /\ Len(x.back) <= 1 /\ x.rest \in Seq(C)
          /\ Len(x.rest) <= Len(back) /\ Remaining(x) = back
          /\ x.end <=> back = <<>>
      BY <2>1, <2>2, TokenScan
    <2>4. Len(x.rest) <= Len(s) - 1 /\ Len(back) <= Len(s) - 1  BY <1>2, <2>2, <2>3
    <2>5. Ended(s) => ~ x.end /\ Ended(Remaining(x))  BY <2>2, <2>3 DEF Ended
    <2>6. Scanning(x, s, C)  BY <2>3, <2>4, <2>5 DEF Scanning
    <2> QED  BY <2>6 DEF x
  <1> QED  BY <1>13, <1>14

(* 0 is a digit, also where x follows. *)
LEMMA ZeroIsDigit == "0" \in Digit
  <1>1. HexDigit[1] = "0" /\ 1 \in 1 .. 10  BY DEF HexDigit
  <1> QED  BY <1>1 DEF Digit

(* What a call gives, by what is behind the blanks. *)
ScanCases(x, s) ==
  /\ s = <<>> => x = NoToken(stray, s, TRUE)
  /\ s # <<>> /\ IsPrefix(<<"0", "x">>, s) => x = ScanHex(Left(s, 2))
  /\ s # <<>> /\ s[1] \in Digit /\ ~ IsPrefix(<<"0", "x">>, s) => x = ScanNumber(s)
  /\ s # <<>> /\ s[1] \in Letter => x = ScanWord(s)
  /\ s # <<>> /\ ~ IsPrefix(<<"0", "x">>, s) /\ s[1] \notin Digit /\ s[1] \notin Letter
       => x = NoToken(IF s[1] = "\n" THEN newline ELSE stray, Left(s, 1), FALSE)

(* These are the cases of DSL_next_token, and no two of them overlap. *)
LEMMA NextTokenCases ==
  ASSUME NEW stream
  PROVE  ScanCases(DSL_next_token(stream), Left(stream, Run(stream, Blank)))
  <1> DEFINE s == Left(stream, Run(stream, Blank))
             x == DSL_next_token(stream)
             hex == IsPrefix(<<"0", "x">>, s)
             t == IF s[1] = "\n" THEN newline ELSE stray
  <1>1. hex => s[1] = "0"  BY DEF IsPrefix
  <1>2. \A c \in Letter : c \notin Digit  BY ScannerAssumption
  <1>3. /\ s = <<>> => x = NoToken(stray, s, TRUE)
        /\ s # <<>> /\ hex => x = ScanHex(Left(s, 2))
        /\ s # <<>> /\ s[1] \in Digit /\ ~ hex => x = ScanNumber(s)
        /\ s # <<>> /\ s[1] \in Letter => x = ScanWord(s)
        /\ s # <<>> /\ ~ hex /\ s[1] \notin Digit /\ s[1] \notin Letter
             => x = NoToken(t, Left(s, 1), FALSE)
    <2> HIDE DEF s, hex
    <2>1. x = CASE s = <<>> -> NoToken(stray, s, TRUE)
                [] s # <<>> /\ hex -> ScanHex(Left(s, 2))
                [] s # <<>> /\ s[1] \in Digit /\ ~ hex -> ScanNumber(s)
                [] s # <<>> /\ s[1] \in Letter -> ScanWord(s)
                [] OTHER -> NoToken(t, Left(s, 1), FALSE)
      BY DEF DSL_next_token, s, hex
    <2> HIDE DEF x, t
    <2> QED  BY <1>1, <1>2, <2>1, ZeroIsDigit
  <1> HIDE DEF x
  <1>4. ScanCases(x, s)  BY <1>3 DEF ScanCases
  <1> QED  BY <1>4 DEF x

(* A call of the scanner, whatever is in front of it. *)
LEMMA NextTokenScanning ==
  ASSUME NEW C, NEW stream \in Seq(C)
  PROVE  Scanning(DSL_next_token(stream), stream, C)
  <1> DEFINE n == Run(stream, Blank)
             s == Left(stream, n)
             x == DSL_next_token(stream)
             hex == IsPrefix(<<"0", "x">>, s)
             t == IF s[1] = "\n" THEN newline ELSE stray
  <1>1. n \in 0 .. Len(stream) /\ Len(stream) \in Nat  BY Running
  <1>2. s \in Seq(C) /\ Len(s) = Len(stream) - n  BY <1>1, Lefts
  <1>3. Ended(stream) => Ended(s)
    <2>1. Ended(stream) => n < Len(stream)  BY RunStops, NewlineApart
    <2> HIDE DEF n
    <2> QED  BY <1>1, <2>1, LeftEnded
  <1>4. /\ s = <<>> => x = NoToken(stray, s, TRUE)
        /\ s # <<>> /\ hex => x = ScanHex(Left(s, 2))
        /\ s # <<>> /\ s[1] \in Digit /\ ~ hex => x = ScanNumber(s)
        /\ s # <<>> /\ s[1] \in Letter => x = ScanWord(s)
        /\ s # <<>> /\ ~ hex /\ s[1] \notin Digit /\ s[1] \notin Letter
             => x = NoToken(t, Left(s, 1), FALSE)
    <2>1. ScanCases(x, s)  BY NextTokenCases
    <2> HIDE DEF s, x
    <2> QED  BY <2>1 DEF ScanCases
  <1> HIDE DEF n, x
  <1> DEFINE v == s
  <1>5. v \in Seq(C) /\ v = s /\ Len(v) = Len(stream) - n /\ (Ended(stream) => Ended(v))
    BY <1>2, <1>3
  <1> HIDE DEF v
  <1>6. Scanning(x, v, C)
    <2>1. CASE v = <<>>
      <3> DEFINE k == "stray"
                 e == TRUE
      <3>1. x = NoToken(Word(k), v, e) /\ k \in {"stray", "newline"}
        BY <1>4, <1>5, <2>1 DEF stray
      <3>2. ~ Ended(v)  BY <2>1 DEF Ended
      <3> HIDE DEF k, e
      <3> QED  BY <1>5, <2>1, <3>1, <3>2, NoTokenScanning
    <2>2. CASE v # <<>> /\ hex
      <3> DEFINE u == Left(v, 2)
                 two == 2
                 N == Len(v)
      <3>1. x = ScanHex(u)  BY <1>4, <1>5, <2>2
      <3>2. Len(v) >= 2 /\ v[2] = "x" /\ Len(v) \in Nat
        <4>1. v \in Seq(C)  BY <1>5
        <4>2. IsPrefix(<<"0", "x">>, v)  BY <1>5, <2>2
        <4>3. DOMAIN <<"0", "x">> = 1 .. 2  OBVIOUS
        <4>4. 1 .. 2 \subseteq DOMAIN v /\ v[2] = "x"  BY <4>2, <4>3 DEF IsPrefix
        <4>5. DOMAIN v = 1 .. Len(v) /\ Len(v) \in Nat  BY <4>1
        <4>6. 2 \in 1 .. 2  OBVIOUS
        <4>7. 2 \in 1 .. Len(v)  BY <4>4, <4>5, <4>6
        <4> QED  BY <4>4, <4>5, <4>7
      <3>3. two \in 0 .. Len(v) /\ two = 2  BY <3>2
      <3>4. Ended(v) => two < Len(v)
        <4>1. "x" # "\n"  OBVIOUS
        <4>2. Ended(v) => v[Len(v)] = "\n"  BY DEF Ended
        <4>3. Ended(v) => Len(v) # 2  BY <3>2, <4>1, <4>2
        <4>4. N \in Nat /\ N >= 2 /\ (Ended(v) => N # 2) /\ two = 2  BY <3>2, <4>3
        <4>5. Ended(v) => two < N
          <5> HIDE DEF two, N
          <5> QED  BY <4>4
        <4> QED  BY <4>5
      <3>5. u = Left(v, two)  OBVIOUS
      <3> HIDE DEF two, u
      <3>6. Left(v, two) \in Seq(C) /\ Len(Left(v, two)) = Len(v) - two
        BY <1>5, <3>3, Lefts
      <3>7. Ended(v) => Ended(Left(v, two))  BY <1>5, <3>3, <3>4, LeftEnded
      <3>8. u \in Seq(C) /\ Len(u) = Len(v) - 2 /\ (Ended(v) => Ended(u))
        BY <3>3, <3>5, <3>6, <3>7
      <3>9. Scanning(ScanHex(u), v, C)  BY <1>5, <2>2, <3>8, HexScanning
      <3> QED  BY <3>1, <3>9
    <2>3. CASE v # <<>> /\ v[1] \in Digit /\ ~ hex
      <3>1. x = ScanNumber(v)  BY <1>4, <1>5, <2>3
      <3>2. Scanning(ScanNumber(v), v, C)  BY <1>5, <2>3, NumberScanning
      <3> QED  BY <3>1, <3>2
    <2>4. CASE v # <<>> /\ v[1] \in Letter
      <3>1. x = ScanWord(v)  BY <1>4, <1>5, <2>4
      <3>2. Scanning(ScanWord(v), v, C)  BY <1>5, <2>4, WordScanning
      <3> QED  BY <3>1, <3>2
    <2>5. CASE v # <<>> /\ ~ hex /\ v[1] \notin Digit /\ v[1] \notin Letter
      <3> DEFINE k == IF v[1] = "\n" THEN "newline" ELSE "stray"
                 e == FALSE
                 u == Left(v, 1)
      <3>1. x = NoToken(IF v[1] = "\n" THEN newline ELSE stray, u, e)
        BY <1>4, <1>5, <2>5
      <3>2. x = NoToken(Word(k), u, e)  BY <3>1 DEF newline, stray
      <3>3. k \in {"stray", "newline"} /\ ~ e  OBVIOUS
      <3>4. u \in Seq(C) /\ Len(u) = Len(v) - 1  BY <1>5, <2>5, LeftOne
      <3>5. Len(u) <= Len(v) - 1  BY <1>5, <3>4
      <3> HIDE DEF k, e, u
      <3> QED  BY <1>5, <2>5, <3>2, <3>3, <3>4, <3>5, NoTokenScanning
    <2> QED  BY <2>1, <2>2, <2>3, <2>4, <2>5
  <1>7. Len(v) <= Len(stream) /\ Len(v) \in Nat  BY <1>1, <1>5
  <1>8. stream # <<>> => Len(stream) >= 1  OBVIOUS
  <1>9. v # <<>> => stream # <<>>
    <2> SUFFICES ASSUME v # <<>>, stream = <<>> PROVE FALSE  OBVIOUS
    <2>1. Len(stream) = 0 /\ Len(v) # 0  BY <1>5
    <2> QED  BY <1>7, <2>1
  <1>10. Len(v) = 0 <=> v = <<>>  BY <1>5
  <1>11. /\ x.back \in Seq(C) /\ Len(x.back) <= 1 /\ x.rest \in Seq(C)
         /\ v # <<>> => Len(x.rest) <= Len(v) - 1
         /\ v = <<>> => x.rest = <<>>
         /\ IsToken(x) => Len(Remaining(x)) <= Len(v) - 1
         /\ Ended(v) => ~ x.end
         /\ Ended(v) /\ IsToken(x) => Ended(Remaining(x))
    BY <1>6 DEF Scanning
  <1> DEFINE R == Remaining(x)
  <1>12. stream # <<>> => Len(x.rest) <= Len(stream) - 1
    <2>1. CASE v = <<>>
      <3>1. Len(x.rest) = 0  BY <1>11, <2>1
      <3> QED  BY <1>1, <1>8, <3>1
    <2>2. CASE v # <<>>
      <3>1. Len(x.rest) <= Len(v) - 1 /\ Len(x.rest) \in Nat  BY <1>11, <2>2
      <3> QED  BY <1>1, <1>7, <3>1
    <2> QED  BY <2>1, <2>2
  <1>13. IsToken(x) => Len(R) <= Len(stream) - 1
    <2> SUFFICES ASSUME IsToken(x) PROVE Len(R) <= Len(stream) - 1  OBVIOUS
    <2>1. Len(R) <= Len(v) - 1  BY <1>11
    <2>2. R \in Seq(C)  BY <1>11 DEF Remaining
    <2>3. Len(R) \in Nat  BY <2>2
    <2> HIDE DEF R
    <2> QED  BY <1>1, <1>7, <2>1, <2>3
  <1>14. stream = <<>> => x.rest = <<>>  BY <1>9, <1>11
  <1>15. Ended(stream) => ~ x.end /\ (IsToken(x) => Ended(R))  BY <1>5, <1>11
  <1> QED  BY <1>11, <1>12, <1>13, <1>14, <1>15 DEF Scanning, x

(* The next call goes on with what the last one left of the same stream. *)
LEMMA NextScanning ==
  ASSUME NEW C, NEW s \in Seq(C), NEW x, Scanning(x, s, C), IsToken(x)
  PROVE  /\ Scanning(NextScan(x), s, C)
         /\ IsToken(NextScan(x)) => Len(Remaining(NextScan(x))) <= Len(Remaining(x)) - 1
  <1> DEFINE R == Remaining(x)
             y == NextScan(x)
  <1>1. R \in Seq(C)  BY DEF Remaining, Scanning
  <1>2. Len(R) <= Len(s) - 1 /\ (Ended(s) => ~ x.end /\ Ended(R))  BY DEF Scanning
  <1>3. Len(R) \in Nat /\ Len(s) \in Nat  BY <1>1
  <1>4. s # <<>>
    <2> SUFFICES ASSUME s = <<>> PROVE FALSE  OBVIOUS
    <2>1. Len(s) = 0  OBVIOUS
    <2> HIDE DEF R
    <2> QED  BY <1>2, <1>3, <2>1
  <1>5. CASE x.end
    <2>1. y = EndOfInput  BY <1>5 DEF NextScan
    <2>2. /\ y.token = stray /\ y.back = <<>> /\ y.rest = <<>>
      BY <2>1 DEF EndOfInput, NoToken
    <2>3. ~ IsToken(y)  BY <2>2 DEF IsToken, stray, Word
    <2>4. y.back \in Seq(C) /\ Len(y.back) <= 1 /\ y.rest \in Seq(C) /\ Len(y.rest) = 0
      BY <2>2
    <2>5. Len(y.rest) <= Len(s) - 1
      <3> HIDE DEF R, y
      <3> QED  BY <1>2, <1>3, <2>4
    <2>6. ~ Ended(s)  BY <1>2, <1>5
    <2> HIDE DEF y
    <2>7. Scanning(y, s, C)  BY <1>4, <2>3, <2>4, <2>5, <2>6 DEF Scanning
    <2> QED  BY <2>3, <2>7 DEF y
  <1>6. CASE ~ x.end
    <2>1. y = DSL_next_token(R)  BY <1>6 DEF NextScan
    <2> HIDE DEF R, y
    <2>2. Scanning(y, R, C)  BY <1>1, <2>1, NextTokenScanning
    <2>3. /\ y.back \in Seq(C) /\ Len(y.back) <= 1 /\ y.rest \in Seq(C)
          /\ R # <<>> => Len(y.rest) <= Len(R) - 1
          /\ R = <<>> => y.rest = <<>>
          /\ IsToken(y) => Len(Remaining(y)) <= Len(R) - 1
          /\ Ended(R) => ~ y.end
          /\ Ended(R) /\ IsToken(y) => Ended(Remaining(y))
      BY <2>2 DEF Scanning
    <2>4. Len(y.rest) \in Nat  BY <2>3
    <2>5. Len(y.rest) <= Len(s) - 1
      <3>1. CASE R = <<>>
        <4>1. Len(y.rest) = 0  BY <2>3, <3>1
        <4> QED  BY <1>2, <1>3, <4>1
      <3>2. CASE R # <<>>
        <4>1. Len(y.rest) <= Len(R) - 1  BY <2>3, <3>2
        <4> QED  BY <1>2, <1>3, <2>4, <4>1
      <3> QED  BY <3>1, <3>2
    <2>6. IsToken(y) => Len(Remaining(y)) <= Len(s) - 1
      <3> SUFFICES ASSUME IsToken(y) PROVE Len(Remaining(y)) <= Len(s) - 1  OBVIOUS
      <3>1. Len(Remaining(y)) <= Len(R) - 1  BY <2>3
      <3>2. Remaining(y) \in Seq(C)  BY <2>3 DEF Remaining
      <3>3. Len(Remaining(y)) \in Nat  BY <3>2
      <3> QED  BY <1>2, <1>3, <3>1, <3>3
    <2>7. Ended(s) => ~ y.end /\ (IsToken(y) => Ended(Remaining(y)))  BY <1>2, <2>3
    <2>8. Scanning(y, s, C)  BY <1>4, <2>3, <2>5, <2>6, <2>7 DEF Scanning
    <2> QED  BY <2>3, <2>8 DEF R, y
  <1> QED  BY <1>5, <1>6

(* All that calls of the scanner may give. *)
AnyScan(C) == {DSL_next_token(u) : u \in Seq(C)} \cup {EndOfInput}

(* What NextScan gives is one of them. *)
LEMMA NextIsScan ==
  ASSUME NEW C, NEW s \in Seq(C), NEW x, Scanning(x, s, C)
  PROVE  NextScan(x) \in AnyScan(C)
  <1>1. Remaining(x) \in Seq(C)  BY DEF Remaining, Scanning
  <1>2. DSL_next_token(Remaining(x)) \in AnyScan(C)  BY <1>1 DEF AnyScan
  <1>3. EndOfInput \in AnyScan(C)  BY DEF AnyScan
  <1> QED  BY <1>2, <1>3 DEF NextScan

(* The calls so far. *)
Calling(c, s, C) == /\ c \in Seq(AnyScan(C)) /\ Len(c) >= 1
                    /\ \A k \in 1 .. Len(c) : Scanning(c[k], s, C)

(* One call more, unless the last one gave 0. *)
CallOn(c) == IF IsToken(Last(c)) THEN Append(c, NextScan(Last(c))) ELSE c

(* It is a call for the same stream, and it has less before it. *)
LEMMA CallingOn ==
  ASSUME NEW C, NEW s \in Seq(C), NEW c, Calling(c, s, C)
  PROVE  /\ Calling(CallOn(c), s, C)
         /\ IsToken(Last(CallOn(c))) =>
              /\ IsToken(Last(c))
              /\ Len(Remaining(Last(CallOn(c)))) <= Len(Remaining(Last(c))) - 1
  <1> DEFINE S == AnyScan(C)
             x == Last(c)
             y == NextScan(x)
             d == CallOn(c)
             N == Len(c)
  <1>1. c \in Seq(S) /\ N \in Nat /\ N >= 1 /\ \A k \in 1 .. N : Scanning(c[k], s, C)
    BY DEF Calling
  <1>2. x = c[N] /\ N \in 1 .. N  BY <1>1 DEF Last
  <1>3. Scanning(x, s, C)  BY <1>1, <1>2
  <1>4. y \in S  BY <1>3, NextIsScan
  <1>5. CASE ~ IsToken(x)
    <2>1. d = c  BY <1>5 DEF CallOn
    <2> QED  BY <1>5, <2>1
  <1>6. CASE IsToken(x)
    <2>1. d = Append(c, y)  BY <1>6 DEF CallOn
    <2>2. /\ Scanning(y, s, C)
          /\ IsToken(y) => Len(Remaining(y)) <= Len(Remaining(x)) - 1
      BY <1>3, <1>6, NextScanning
    <2> HIDE DEF S, x, y
    <2>3. d \in Seq(S) /\ Len(d) = N + 1 /\ d[N + 1] = y /\ \A k \in 1 .. N : d[k] = c[k]
      BY <1>1, <1>4, <2>1
    <2> HIDE DEF d, N
    <2>4. \A k \in 1 .. N + 1 : Scanning(d[k], s, C)
      <3> SUFFICES ASSUME NEW k \in 1 .. N + 1 PROVE Scanning(d[k], s, C)  OBVIOUS
      <3>1. k \in 1 .. N \/ k = N + 1  BY <1>1
      <3> QED  BY <1>1, <2>2, <2>3, <3>1
    <2>5. N + 1 >= 1  BY <1>1
    <2>6. Calling(d, s, C)  BY <2>3, <2>4, <2>5 DEF Calling, S
    <2>7. Last(d) = y  BY <2>3 DEF Last
    <2> QED  BY <1>6, <2>2, <2>6, <2>7 DEF d, x
  <1> QED  BY <1>5, <1>6

(* The calls for a stream end with one that yields 0. *)
LEMMA ScansAre ==
  ASSUME NEW C, NEW s \in Seq(C)
  PROVE  Calling(Scans(s), s, C) /\ ~ IsToken(Last(Scans(s)))
  <1> DEFINE N == Len(s) + 1
             Q == {c \in Seq(AnyScan(C)) : Calling(c, s, C)}
             a == <<DSL_next_token(s)>>
             g == [c \in Q |-> CallOn(c)]
             calls[n \in 0 .. Len(s) + 1] ==
               IF n = 0 THEN <<DSL_next_token(s)>>
               ELSE LET was == calls[n - 1]
                    IN  IF IsToken(Last(was)) THEN Append(was, NextScan(Last(was)))
                        ELSE was
  <1>1. Scans(s) = calls[Len(s) + 1]  BY DEF Scans
  <1>2. N \in Nat /\ N >= 1 /\ N = Len(s) + 1  OBVIOUS
  <1>3. a \in Q
    <2> DEFINE x == DSL_next_token(s)
    <2>1. x \in AnyScan(C)  BY DEF AnyScan
    <2>2. Scanning(x, s, C)  BY NextTokenScanning
    <2> HIDE DEF x
    <2>3. <<x>> \in Seq(AnyScan(C)) /\ Len(<<x>>) = 1 /\ <<x>>[1] = x  BY <2>1
    <2>4. \A k \in 1 .. 1 : Scanning(<<x>>[k], s, C)  BY <2>2
    <2>5. Calling(<<x>>, s, C)  BY <2>3, <2>4 DEF Calling
    <2> QED  BY <2>3, <2>5 DEF x
  <1>4. \A c \in Q : CallOn(c) \in Q
    <2> SUFFICES ASSUME NEW c \in Q PROVE CallOn(c) \in Q  OBVIOUS
    <2>1. Calling(CallOn(c), s, C)  BY CallingOn
    <2> QED  BY <2>1 DEF Calling
  <1>5. g \in [Q -> Q]  BY <1>4
  <1> HIDE DEF N, a, Q
  <1>6. PICK f \in [0 .. N -> Q] : f[0] = a /\ \A n \in 1 .. N : f[n] = g[f[n - 1]]
    <2> HIDE DEF g, calls
    <2>1. N \in Nat  BY <1>2
    <2>2. \E f : Iterates(f, Q, a, g, N)  BY <2>1, <1>3, <1>5, Iterating
    <2> QED  BY <2>2 DEF Iterates
  <1>7. \A n \in 1 .. N : f[n - 1] \in Q /\ f[n] = CallOn(f[n - 1])
    <2> SUFFICES ASSUME NEW n \in 1 .. N PROVE f[n - 1] \in Q /\ f[n] = CallOn(f[n - 1])
      OBVIOUS
    <2>1. n - 1 \in 0 .. N  BY <1>2
    <2>2. f[n - 1] \in Q  BY <1>6, <2>1
    <2> QED  BY <1>6, <2>2
  <1> HIDE DEF g
  <1>8. f = [n \in 0 .. Len(s) + 1 |->
               IF n = 0 THEN <<DSL_next_token(s)>>
               ELSE LET was == f[n - 1]
                    IN  IF IsToken(Last(was)) THEN Append(was, NextScan(Last(was)))
                        ELSE was]
    <2>1. \A n \in 0 .. N : f[n] = IF n = 0 THEN a ELSE CallOn(f[n - 1])
      <3> SUFFICES ASSUME NEW n \in 0 .. N PROVE f[n] = IF n = 0 THEN a ELSE CallOn(f[n - 1])
        OBVIOUS
      <3>1. n = 0 \/ n \in 1 .. N  BY <1>2
      <3> QED  BY <1>6, <1>7, <3>1
    <2>2. f = [n \in 0 .. N |-> IF n = 0 THEN a ELSE CallOn(f[n - 1])]  BY <1>6, <2>1
    <2> QED  BY <2>2 DEF N, a, CallOn
  <1>9. calls = [n \in 0 .. Len(s) + 1 |->
                   IF n = 0 THEN <<DSL_next_token(s)>>
                   ELSE LET was == calls[n - 1]
                        IN  IF IsToken(Last(was)) THEN Append(was, NextScan(Last(was)))
                            ELSE was]
    BY <1>8, ZenonT(60)
  <1> DEFINE b == calls
  <1>10. b = [n \in 0 .. N |-> IF n = 0 THEN a ELSE CallOn(b[n - 1])]
    <2>1. calls = [n \in 0 .. N |-> IF n = 0 THEN a ELSE CallOn(calls[n - 1])]
      BY <1>9 DEF N, a, CallOn
    <2> QED  BY <2>1, ZenonT(60)
  <1>11. Scans(s) = b[N]  BY <1>1 DEF N
  <1> HIDE DEF b, calls
  <1>12. b[0] = a /\ \A n \in 1 .. N : b[n] = CallOn(b[n - 1])
    <2>1. 0 \in 0 .. N /\ \A n \in 1 .. N : n \in 0 .. N /\ n # 0  BY <1>2
    <2> QED  BY <1>10, <2>1
  <1> DEFINE Far(n) == IsToken(Last(b[n])) => Len(Remaining(Last(b[n]))) <= Len(s) - 1 - n
             Good(n) == Calling(b[n], s, C) /\ Far(n)
             T == {n \in 0 .. N : ~ Good(n)}
  <1>13. Good(0)
    <2>1. Calling(a, s, C)  BY <1>3 DEF Q
    <2>2. Scanning(Last(a), s, C)
      <3>1. Len(a) = 1 /\ 1 \in 1 .. 1 /\ Last(a) = a[1]  BY DEF a, Last
      <3> QED  BY <2>1, <3>1 DEF Calling
    <2>3. IsToken(Last(a)) => Len(Remaining(Last(a))) <= Len(s) - 1  BY <2>2 DEF Scanning
    <2>4. Len(s) - 1 - 0 = Len(s) - 1  OBVIOUS
    <2> QED  BY <1>12, <2>1, <2>3, <2>4
  <1>14. ASSUME NEW n \in 1 .. N, Good(n - 1)
         PROVE  Good(n)
    <2> DEFINE c == b[n - 1]
    <2>1. b[n] = CallOn(c)  BY <1>12
    <2>2. Calling(c, s, C)  BY <1>14
    <2>3. IsToken(Last(c)) => Len(Remaining(Last(c))) <= Len(s) - 1 - (n - 1)  BY <1>14
    <2> HIDE DEF c
    <2>4. /\ Calling(CallOn(c), s, C)
          /\ IsToken(Last(CallOn(c))) =>
               /\ IsToken(Last(c))
               /\ Len(Remaining(Last(CallOn(c)))) <= Len(Remaining(Last(c))) - 1
      BY <2>2, CallingOn
    <2> DEFINE d == CallOn(c)
    <2>5. ASSUME IsToken(Last(d))
          PROVE  Len(Remaining(Last(d))) <= Len(s) - 1 - n
      <3> DEFINE p == Len(Remaining(Last(d)))
                 r == Len(Remaining(Last(c)))
      <3>1. p <= r - 1 /\ r <= Len(s) - 1 - (n - 1)  BY <2>3, <2>4, <2>5
      <3>2. p \in Nat
        <4>1. Scanning(Last(d), s, C)  BY <2>4 DEF Calling, Last
        <4>2. Remaining(Last(d)) \in Seq(C)  BY <4>1 DEF Scanning, Remaining
        <4> QED  BY <4>2
      <3>3. r \in Nat
        <4>1. Scanning(Last(c), s, C)  BY <2>2 DEF Calling, Last
        <4>2. Remaining(Last(c)) \in Seq(C)  BY <4>1 DEF Scanning, Remaining
        <4> QED  BY <4>2
      <3> HIDE DEF p, r
      <3>4. Len(s) \in Nat /\ n \in Nat  BY <1>2
      <3>5. p <= Len(s) - 1 - n  BY <3>1, <3>2, <3>3, <3>4
      <3> QED  BY <3>5 DEF p
    <2> QED  BY <2>1, <2>4, <2>5
  <1> HIDE DEF Good
  <1>15. T = {}
    <2> SUFFICES ASSUME T # {} PROVE FALSE  OBVIOUS
    <2>1. T \in SUBSET Nat  BY <1>2
    <2>2. PICK n \in T : \A y \in T : n <= y  BY <2>1, LeastNatural
    <2>3. n # 0 /\ n \in 0 .. N /\ ~ Good(n)  BY <1>13, <2>2
    <2>4. n \in 1 .. N /\ n - 1 \in 0 .. N /\ ~ (n <= n - 1)  BY <1>2, <2>3
    <2>5. Good(n - 1)  BY <2>2, <2>4
    <2> QED  BY <1>14, <2>3, <2>4, <2>5
  <1>16. Good(N)  BY <1>2, <1>15
  <1>17. Calling(b[N], s, C) /\ Far(N)  BY <1>16 DEF Good
  <1>18. ~ IsToken(Last(b[N]))
    <2> SUFFICES ASSUME IsToken(Last(b[N])) PROVE FALSE  OBVIOUS
    <2> DEFINE p == Len(Remaining(Last(b[N])))
    <2>1. p <= Len(s) - 1 - N  BY <1>17
    <2>2. p \in Nat
      <3>1. Scanning(Last(b[N]), s, C)  BY <1>17 DEF Calling, Last
      <3>2. Remaining(Last(b[N])) \in Seq(C)  BY <3>1 DEF Scanning, Remaining
      <3> QED  BY <3>2
    <2> HIDE DEF p
    <2>3. Len(s) \in Nat  OBVIOUS
    <2> QED  BY <1>2, <2>1, <2>2, <2>3
  <1> QED  BY <1>11, <1>17, <1>18

(* THE LONGEST TOKEN *)

(* The greatest of a set is what the library says it is. *)
LEMMA GreatestIs ==
  ASSUME NEW S \in SUBSET Int, NEW w \in S, \A j \in S : w >= j
  PROVE  Max(S) = w
  <1> DEFINE m == CHOOSE x \in S : \A y \in S : x >= y
  <1>1. m \in S /\ \A y \in S : m >= y  OBVIOUS
  <1>2. Max(S) = m  BY DEF Max
  <1> HIDE DEF m
  <1>3. m >= w /\ w >= m /\ m \in Int /\ w \in Int  BY <1>1
  <1> QED  BY <1>2, <1>3

(* The 0x in front. *)
LEMMA PrefixIs ==
  ASSUME NEW C, NEW s \in Seq(C)
  PROVE  IsPrefix(<<"0", "x">>, s) <=> Len(s) >= 2 /\ s[1] = "0" /\ s[2] = "x"
  <1> DEFINE a == "0"
             b == "x"
             D == C \cup {a, b}
             p == <<a, b>>
             N == Len(s)
             t == SubSeq(s, 1, 2)
             two == 2
  <1>1. N \in Nat  OBVIOUS
  <1>2. a \in D /\ b \in D /\ C \subseteq D  OBVIOUS
  <1>3. s \in Seq(D)  BY <1>2, SeqWider
  <1> HIDE DEF a, b, D
  <1>4. p \in Seq(D) /\ Len(p) = 2 /\ p[1] = a /\ p[2] = b  BY <1>2
  <1>5. SubSeq(p, 1, 2) = p
    <2> HIDE DEF p
    <2>1. two \in 0 .. Len(p) /\ two = Len(p)  BY <1>4
    <2> HIDE DEF two
    <2>2. /\ Taken(p, two) \in Seq(D) /\ Len(Taken(p, two)) = two
          /\ \A k \in 1 .. two : Taken(p, two)[k] = p[k]
      BY <1>4, <2>1, Takens
    <2>3. Taken(p, two) = p  BY <1>4, <2>1, <2>2, SeqEqual
    <2> QED  BY <2>3 DEF Taken, two
  <1>6. IsPrefix(p, s) <=> 2 <= N /\ p = t
    <2> HIDE DEF p
    <2> QED  BY <1>4, <1>5 DEF IsPrefix
  <1>7. ASSUME N >= 2 PROVE p = t <=> s[1] = a /\ s[2] = b
    <2>1. t \in Seq(D) /\ Len(t) = 2 /\ t[1] = s[1] /\ t[2] = s[2]
      <3>1. two \in 0 .. Len(s)  BY <1>1, <1>7
      <3> HIDE DEF two
      <3>2. /\ Taken(s, two) \in Seq(D) /\ Len(Taken(s, two)) = two
            /\ \A k \in 1 .. two : Taken(s, two)[k] = s[k]
        BY <1>3, <3>1, Takens
      <3>3. 1 \in 1 .. 2 /\ 2 \in 1 .. 2 /\ Taken(s, 2) = t  BY DEF Taken
      <3> QED  BY <3>2, <3>3 DEF two
    <2> HIDE DEF p, t
    <2>2. ASSUME s[1] = a, s[2] = b PROVE p = t
      <3>1. \A k \in 1 .. 2 : k = 1 \/ k = 2  OBVIOUS
      <3>2. \A k \in 1 .. 2 : p[k] = t[k]  BY <1>4, <2>1, <2>2, <3>1
      <3> QED  BY <1>4, <2>1, <3>2, SeqEqual
    <2> QED  BY <1>4, <2>1, <2>2
  <1> QED  BY <1>1, <1>6, <1>7 DEF a, b

(* The first n are in S as long as the run lasts. *)
LEMMA RunConsists ==
  ASSUME NEW C, NEW s \in Seq(C), NEW S, NEW n \in 1 .. Len(s)
  PROVE  Consists(Taken(s, n), S) <=> n <= Run(s, S)
  <1> DEFINE w == Taken(s, n)
             r == Run(s, S)
             N == Len(s)
  <1>1. w \in Seq(C) /\ Len(w) = n /\ \A k \in 1 .. n : w[k] = s[k]  BY Takens
  <1>2. /\ r \in 0 .. N /\ \A k \in 1 .. r : s[k] \in S
        /\ r < N => s[r + 1] \notin S
    BY Running
  <1>3. DOMAIN w = 1 .. n  BY <1>1
  <1>4. N \in Nat /\ n \in 1 .. N  OBVIOUS
  <1> HIDE DEF w, r, N
  <1>5. Consists(w, S) <=> \A k \in 1 .. n : s[k] \in S  BY <1>1, <1>3 DEF Consists
  <1>6. ASSUME n <= r PROVE \A k \in 1 .. n : s[k] \in S  BY <1>2, <1>4, <1>6
  <1>7. ASSUME ~ (n <= r) PROVE ~ \A k \in 1 .. n : s[k] \in S
    <2>1. r + 1 \in 1 .. n /\ r < N  BY <1>2, <1>4, <1>7
    <2> QED  BY <1>2, <2>1
  <1> QED  BY <1>5, <1>6, <1>7 DEF w, r

(* The pieces that are tokens. *)
IsPiece(w) == IsWord(w) \/ IsNumber(w) \/ IsHex(w)

(* The longest piece is the one that no other is longer than. *)
LEMMA LongestIs ==
  ASSUME NEW C, NEW s \in Seq(C), NEW w \in 0 .. Len(s), w > 0 => IsPiece(Taken(s, w)),
         \A n \in 1 .. Len(s) : IsPiece(Taken(s, n)) => n <= w
  PROVE  Longest(s) = w
  <1> DEFINE S == {0} \cup {n \in 1 .. Len(s) : IsPiece(Taken(s, n))}
  <1>1. Len(s) \in Nat /\ DOMAIN s = 1 .. Len(s)  OBVIOUS
  <1>2. S \in SUBSET Int  BY <1>1
  <1>3. w \in S  BY <1>1
  <1>4. \A j \in S : w >= j  BY <1>1
  <1>5. Longest(s) = Max(S)
    <2>1. S = {0} \cup {n \in DOMAIN s : \/ IsWord(Taken(s, n))
                                         \/ IsNumber(Taken(s, n))
                                         \/ IsHex(Taken(s, n))}
      BY <1>1 DEF IsPiece
    <2> HIDE DEF S
    <2> QED  BY <2>1 DEF Longest
  <1> HIDE DEF S
  <1> QED  BY <1>2, <1>3, <1>4, <1>5, GreatestIs

(* What begins with what. *)
LEMMA PieceStarts ==
  ASSUME NEW C, NEW s \in Seq(C), NEW n \in 1 .. Len(s), NEW w, w = Taken(s, n)
  PROVE  /\ IsWord(w) <=> n <= Run(s, Letter)
         /\ IsNumber(w) <=> n <= Run(s, Digit)
         /\ IsHex(w) <=> n > 2 /\ IsPrefix(<<"0", "x">>, s) /\ n <= Run(s, Digit \cup Letter)
         /\ w # <<>> /\ Len(w) = n
  <1>1. w \in Seq(C) /\ Len(w) = n /\ \A k \in 1 .. n : w[k] = s[k]  BY Takens
  <1>2. w # <<>> /\ n \in Nat /\ n <= Len(s) /\ Len(s) \in Nat
    <2>1. n # 0 /\ n \in Nat /\ n <= Len(s) /\ Len(s) \in Nat  OBVIOUS
    <2> QED  BY <1>1, <2>1
  <1>3. IsWord(w) <=> n <= Run(s, Letter)  BY <1>2, RunConsists DEF IsWord
  <1>4. IsNumber(w) <=> n <= Run(s, Digit)  BY <1>2, RunConsists DEF IsNumber
  <1>5. ASSUME n > 2
        PROVE  IsPrefix(<<"0", "x">>, w) <=> IsPrefix(<<"0", "x">>, s)
    <2>1. 1 \in 1 .. n /\ 2 \in 1 .. n /\ n >= 2 /\ Len(s) >= 2  BY <1>2, <1>5
    <2>2. w[1] = s[1] /\ w[2] = s[2]  BY <1>1, <2>1
    <2>3. IsPrefix(<<"0", "x">>, w) <=> Len(w) >= 2 /\ w[1] = "0" /\ w[2] = "x"
      BY <1>1, PrefixIs
    <2>4. IsPrefix(<<"0", "x">>, s) <=> Len(s) >= 2 /\ s[1] = "0" /\ s[2] = "x"
      BY PrefixIs
    <2> QED  BY <1>1, <2>1, <2>2, <2>3, <2>4
  <1>6. Consists(w, Digit \cup Letter) <=> n <= Run(s, Digit \cup Letter)  BY RunConsists
  <1>7. IsHex(w) <=> n > 2 /\ IsPrefix(<<"0", "x">>, w) /\ Consists(w, Digit \cup Letter)
    BY <1>1 DEF IsHex
  <1> QED  BY <1>1, <1>2, <1>3, <1>4, <1>5, <1>6, <1>7

(* How far a run goes is seen at its first character. *)
LEMMA RunBegins ==
  ASSUME NEW C, NEW s \in Seq(C), NEW S
  PROVE  /\ s = <<>> => Run(s, S) = 0
         /\ s # <<>> => (Run(s, S) >= 1 <=> s[1] \in S)
  <1> DEFINE r == Run(s, S)
             N == Len(s)
  <1>1. /\ r \in 0 .. N /\ \A k \in 1 .. r : s[k] \in S
        /\ r < N => s[r + 1] \notin S
    BY Running
  <1>2. N \in Nat /\ (s = <<>> => N = 0) /\ (s # <<>> => N >= 1)  OBVIOUS
  <1> HIDE DEF r, N
  <1>3. s = <<>> => r = 0  BY <1>1, <1>2
  <1>4. ASSUME s # <<>> PROVE r >= 1 <=> s[1] \in S
    <2>1. r >= 1 => 1 \in 1 .. r  BY <1>1, <1>2
    <2>2. ~ (r >= 1) => r = 0 /\ r < N /\ r + 1 = 1  BY <1>1, <1>2, <1>4
    <2> QED  BY <1>1, <2>1, <2>2
  <1> QED  BY <1>3, <1>4 DEF r

(* Behind a letter it is a word, all letters there are. *)
LEMMA WordLongest ==
  ASSUME NEW C, NEW s \in Seq(C), s # <<>>, s[1] \in Letter
  PROVE  /\ Longest(s) = Run(s, Letter) /\ Longest(s) \in 1 .. Len(s)
         /\ IsWord(Taken(s, Longest(s)))
  <1> DEFINE r == Run(s, Letter)
  <1>1. s[1] \notin Digit  BY ScannerAssumption
  <1>2. r \in 1 .. Len(s)
    <2>1. r >= 1 /\ r \in 0 .. Len(s)  BY RunBegins, Running
    <2> QED  BY <2>1
  <1>3. Run(s, Digit) = 0
    <2>1. ~ (Run(s, Digit) >= 1) /\ Run(s, Digit) \in 0 .. Len(s)  BY <1>1, RunBegins, Running
    <2> QED  BY <2>1
  <1>4. ~ IsPrefix(<<"0", "x">>, s)  BY <1>1, PrefixIs, ZeroIsDigit
  <1> HIDE DEF r
  <1>5. IsWord(Taken(s, r)) /\ r \in 0 .. Len(s)
    <2>1. r <= Run(s, Letter)  BY <1>2 DEF r
    <2> QED  BY <1>2, <2>1, PieceStarts
  <1>6. ASSUME NEW n \in 1 .. Len(s), IsPiece(Taken(s, n)) PROVE n <= r
    <2> DEFINE w == Taken(s, n)
    <2>1. /\ IsWord(w) => n <= r
          /\ IsNumber(w) => n <= 0
          /\ ~ IsHex(w)
      BY <1>3, <1>4, PieceStarts DEF r
    <2>2. ~ (n <= 0)  OBVIOUS
    <2> QED  BY <1>6, <2>1, <2>2 DEF IsPiece
  <1>7. Longest(s) = r  BY <1>5, <1>6, LongestIs DEF IsPiece
  <1> QED  BY <1>2, <1>5, <1>7 DEF r

(* Behind a digit it is a number, all digits there are, unless 0x is in front. *)
LEMMA NumberLongest ==
  ASSUME NEW C, NEW s \in Seq(C), s # <<>>, s[1] \in Digit, ~ IsPrefix(<<"0", "x">>, s)
  PROVE  /\ Longest(s) = Run(s, Digit) /\ Longest(s) \in 1 .. Len(s)
         /\ IsNumber(Taken(s, Longest(s)))
  <1> DEFINE r == Run(s, Digit)
  <1>1. s[1] \notin Letter  BY ScannerAssumption
  <1>2. r \in 1 .. Len(s)
    <2>1. r >= 1 /\ r \in 0 .. Len(s)  BY RunBegins, Running
    <2> QED  BY <2>1
  <1>3. Run(s, Letter) = 0
    <2>1. ~ (Run(s, Letter) >= 1) /\ Run(s, Letter) \in 0 .. Len(s)
      BY <1>1, RunBegins, Running
    <2> QED  BY <2>1
  <1> HIDE DEF r
  <1>4. IsNumber(Taken(s, r)) /\ r \in 0 .. Len(s)
    <2>1. r <= Run(s, Digit)  BY <1>2 DEF r
    <2> QED  BY <1>2, <2>1, PieceStarts
  <1>5. ASSUME NEW n \in 1 .. Len(s), IsPiece(Taken(s, n)) PROVE n <= r
    <2> DEFINE w == Taken(s, n)
    <2>1. /\ IsNumber(w) => n <= r
          /\ IsWord(w) => n <= 0
          /\ ~ IsHex(w)
      BY <1>3, PieceStarts DEF r
    <2>2. ~ (n <= 0)  OBVIOUS
    <2> QED  BY <1>5, <2>1, <2>2 DEF IsPiece
  <1>6. Longest(s) = r  BY <1>4, <1>5, LongestIs DEF IsPiece
  <1> QED  BY <1>2, <1>4, <1>6 DEF r

(* Behind anything else there is none. *)
LEMMA NoneLongest ==
  ASSUME NEW C, NEW s \in Seq(C), s # <<>> => s[1] \notin Letter /\ s[1] \notin Digit
  PROVE  Longest(s) = 0
  <1>1. Run(s, Letter) = 0 /\ Run(s, Digit) = 0
    <2>1. /\ ~ (Run(s, Digit) >= 1) /\ Run(s, Digit) \in 0 .. Len(s)
          /\ ~ (Run(s, Letter) >= 1) /\ Run(s, Letter) \in 0 .. Len(s)
      BY RunBegins, Running
    <2> QED  BY <2>1
  <1>2. ~ IsPrefix(<<"0", "x">>, s)
    <2>1. s = <<>> => ~ (Len(s) >= 2)  OBVIOUS
    <2> QED  BY <2>1, PrefixIs, ZeroIsDigit
  <1>3. ASSUME NEW n \in 1 .. Len(s) PROVE ~ IsPiece(Taken(s, n))
    <2> DEFINE w == Taken(s, n)
    <2>1. (IsNumber(w) => n <= 0) /\ (IsWord(w) => n <= 0) /\ ~ IsHex(w)
      BY <1>1, <1>2, PieceStarts
    <2>2. ~ (n <= 0)  OBVIOUS
    <2> QED  BY <2>1, <2>2 DEF IsPiece
  <1> DEFINE z == 0
  <1>4. z \in 0 .. Len(s) /\ ~ (z > 0)  OBVIOUS
  <1> HIDE DEF z
  <1>5. Longest(s) = z  BY <1>3, <1>4, LongestIs
  <1> QED  BY <1>5 DEF z

(* Behind 0x, if there are digits, it is these. *)
LEMMA HexLongest ==
  ASSUME NEW C, NEW s \in Seq(C), IsPrefix(<<"0", "x">>, s), ~ (Longest(s) <= 2)
  PROVE  /\ Longest(s) = Run(s, Digit \cup Letter) /\ Longest(s) \in 3 .. Len(s)
         /\ IsHex(Taken(s, Longest(s)))
  <1> DEFINE S == Digit \cup Letter
             r == Run(s, S)
             d == Run(s, Digit)
             N == Len(s)
  <1>1. N \in Nat /\ N >= 2 /\ s[1] \in Digit /\ s # <<>>
    <2>1. Len(s) >= 2 /\ s[1] = "0"  BY PrefixIs
    <2>2. s # <<>> /\ Len(s) \in Nat  BY <2>1
    <2> QED  BY <2>1, <2>2, ZeroIsDigit
  <1>2. r \in 0 .. N /\ d \in 1 .. N
    <2>1. r \in 0 .. N /\ d \in 0 .. N /\ d >= 1  BY <1>1, Running, RunBegins
    <2> QED  BY <2>1
  <1>3. d <= r
    <2> DEFINE w == Taken(s, d)
    <2>1. Consists(w, Digit)
      <3>1. d <= Run(s, Digit)  BY <1>2
      <3> HIDE DEF d
      <3> QED  BY <1>2, <3>1, RunConsists
    <2>2. Consists(w, S)  BY <2>1 DEF Consists
    <2> HIDE DEF d
    <2> QED  BY <1>2, <2>2, RunConsists
  <1>4. Run(s, Letter) = 0
    <2>1. s[1] \notin Letter  BY <1>1, ScannerAssumption
    <2>2. ~ (Run(s, Letter) >= 1) /\ Run(s, Letter) \in 0 .. Len(s)
      BY <1>1, <2>1, RunBegins, Running
    <2> QED  BY <2>2
  <1> HIDE DEF r, d
  <1>5. ASSUME NEW n \in 1 .. N, IsPiece(Taken(s, n)) PROVE n <= d \/ (n > 2 /\ n <= r)
    <2> DEFINE w == Taken(s, n)
    <2>1. /\ IsNumber(w) => n <= d
          /\ IsWord(w) => n <= 0
          /\ IsHex(w) => n > 2 /\ n <= r
      BY <1>4, PieceStarts DEF r, d
    <2>2. ~ (n <= 0)  OBVIOUS
    <2> QED  BY <1>5, <2>1, <2>2 DEF IsPiece
  <1>6. CASE r <= 2
    <2>1. d \in 0 .. Len(s) /\ d \in 1 .. Len(s) /\ d <= Run(s, Digit) /\ d <= 2
      BY <1>1, <1>2, <1>3, <1>6 DEF d
    <2>2. IsNumber(Taken(s, d))  BY <2>1, PieceStarts
    <2>3. \A n \in 1 .. Len(s) : IsPiece(Taken(s, n)) => n <= d  BY <1>2, <1>5, <1>6
    <2>4. Longest(s) = d  BY <2>1, <2>2, <2>3, LongestIs DEF IsPiece
    <2> QED  BY <2>1, <2>4
  <1>7. CASE r > 2
    <2>1. r \in 0 .. Len(s) /\ r \in 1 .. Len(s) /\ r \in 3 .. Len(s) /\ r <= r
      BY <1>1, <1>2, <1>7
    <2>2. IsHex(Taken(s, r))
      <3>1. r <= Run(s, Digit \cup Letter)  BY <2>1 DEF r
      <3> QED  BY <1>7, <2>1, <3>1, PieceStarts
    <2>3. \A n \in 1 .. Len(s) : IsPiece(Taken(s, n)) => n <= r  BY <1>1, <1>2, <1>3, <1>5
    <2>4. Longest(s) = r  BY <2>1, <2>2, <2>3, LongestIs DEF IsPiece
    <2> QED  BY <2>1, <2>2, <2>4 DEF r
  <1> QED  BY <1>1, <1>2, <1>6, <1>7

(* Two numbers that differ by a multiple of 256 are the same byte. *)
LEMMA SameByte ==
  ASSUME NEW x \in Int, NEW y \in Int, NEW k \in Int, x = y + 256 * k
  PROVE  x % 256 = y % 256
  <1> DEFINE n == 256
             z == y % n
             q == y \div n
             m == q + k
  <1>1. n \in Nat \ {0}  OBVIOUS
  <1>2. x = y + n * k  OBVIOUS
  <1> HIDE DEF n
  <1>3. y = n * q + z /\ z \in 0 .. n - 1 /\ q \in Int  BY <1>1, Division
  <1> HIDE DEF z, q
  <1>4. m \in Int /\ n * m = n * q + n * k /\ n * q \in Int /\ n * k \in Int  BY <1>1, <1>3
  <1> HIDE DEF m
  <1>5. x \in Int /\ x = n * m + z  BY <1>1, <1>2, <1>3, <1>4
  <1> DEFINE u == x
  <1>6. u \in Int /\ u = n * m + z  BY <1>5
  <1> HIDE DEF u
  <1>7. u % n = z  BY <1>1, <1>3, <1>4, <1>6, RemainderIs
  <1> QED  BY <1>7 DEF u, z, n

(* Two ints that are the same as an unsigned char. *)
SameBytes(x, y) == x % 256 = y % 256

(* An int that overflows wraps: it differs by a multiple of 65536. *)
LEMMA WrapIs ==
  ASSUME NEW x \in Int
  PROVE  Wrapped(x) \in Int /\ \E q \in Int : Wrapped(x) = x - 65536 * q
  <1> DEFINE n == 65536
             e == x + 32768
             q == e \div n
             r == e % n
  <1>1. n \in Nat \ {0} /\ e \in Int  OBVIOUS
  <1>2. Wrapped(x) = r - 32768  BY DEF Wrapped
  <1> HIDE DEF n, e
  <1>3. e = n * q + r /\ q \in Int /\ r \in 0 .. n - 1  BY <1>1, Division
  <1> HIDE DEF q, r
  <1>4. r \in Int  BY <1>1, <1>3
  <1>5. e = x + 32768 /\ n * q = 65536 * q  BY DEF e, n
  <1>6. Wrapped(x) = x - 65536 * q  BY <1>2, <1>3, <1>4, <1>5
  <1> QED  BY <1>2, <1>3, <1>4, <1>6

(* One more digit: the wrap of the int does not change the byte. *)
LEMMA WrapKeepsByte ==
  ASSUME NEW b \in Int, NEW w \in Int, NEW v \in Int, SameBytes(b, w),
         NEW g, g = Wrapped(10 * b + v), NEW y, y = 10 * w + v
  PROVE  SameBytes(g, y)
  <1> DEFINE x == 10 * b + v
             i == 256
             c == b % i
             p1 == b \div i
             p2 == w \div i
  <1>1. i \in Nat \ {0} /\ x \in Int /\ y \in Int /\ x = 10 * b + v /\ y = 10 * w + v
    OBVIOUS
  <1>2. b % i = w % i  BY DEF SameBytes
  <1>3. b = i * p1 + c /\ p1 \in Int /\ w = i * p2 + c /\ p2 \in Int /\ c \in 0 .. i - 1
    <2> HIDE DEF i, x
    <2> QED  BY <1>1, <1>2, Division
  <1> HIDE DEF x, c, p1, p2
  <1>4. g = Wrapped(x)  BY DEF x
  <1>5. g \in Int /\ \E q \in Int : g = x - 65536 * q  BY <1>1, <1>4, WrapIs
  <1>6. PICK q \in Int : g = x - 65536 * q  BY <1>5
  <1> DEFINE k == 10 * p1 - 10 * p2 - 256 * q
  <1>7. p1 \in Int /\ p2 \in Int /\ b = 256 * p1 + c /\ w = 256 * p2 + c  BY <1>3
  <1>8. c \in Int
    <2> HIDE DEF i
    <2> QED  BY <1>1, <1>3
  <1>9. g = y + 256 * k /\ k \in Int  BY <1>1, <1>6, <1>7, <1>8
  <1> HIDE DEF k, i
  <1>10. g % 256 = y % 256  BY <1>1, <1>5, <1>9, SameByte
  <1> QED  BY <1>10 DEF SameBytes

(* A digit has a value. *)
LEMMA DigitIs ==
  ASSUME NEW c \in Digit
  PROVE  DigitValue(c) \in Int
  <1>1. PICK j \in 1 .. 10 : HexDigit[j] = c  BY DEF Digit
  <1>2. j \in 1 .. 16  OBVIOUS
  <1> DEFINE k == CHOOSE k \in 1 .. 16 : HexDigit[k] = c
  <1>3. k \in 1 .. 16  BY <1>1, <1>2
  <1>4. DigitValue(c) = k - 1  BY DEF DigitValue
  <1> HIDE DEF k
  <1> QED  BY <1>3, <1>4

(* What is computed digit by digit. *)
Totals(b, N) == DOMAIN b = 0 .. N /\ b[0] = 0 /\ \A k \in 0 .. N : b[k] \in Int

(* NumberOf, digit by digit, with the overflow. *)
LEMMA NumberRecurs ==
  ASSUME NEW C, NEW d \in Seq(C), Consists(d, Digit)
  PROVE  \E b : /\ Totals(b, Len(d)) /\ NumberOf(d) = b[Len(d)]
                /\ \A n \in 1 .. Len(d) : b[n] = Wrapped(10 * b[n - 1] + DigitValue(d[n]))
  <1> DEFINE N == Len(d)
             h == [n \in 1 .. N |-> [x \in Int |-> Wrapped(10 * x + DigitValue(d[n]))]]
             number[n \in 0 .. Len(d)] ==
               IF n = 0 THEN 0 ELSE Wrapped(10 * number[n - 1] + DigitValue(d[n]))
  <1>1. N \in Nat /\ DOMAIN d = 1 .. N  OBVIOUS
  <1>2. \A n \in 1 .. N : DigitValue(d[n]) \in Int  BY <1>1, DigitIs DEF Consists
  <1>3. NumberOf(d) = number[N]  BY DEF NumberOf
  <1> HIDE DEF number, N
  <1>4. \A x \in Int : Wrapped(x) \in Int
    <2> SUFFICES ASSUME NEW x \in Int PROVE Wrapped(x) \in Int  OBVIOUS
    <2> DEFINE e == x + 32768
               m == 65536
    <2>1. e \in Int /\ m \in Nat \ {0}  OBVIOUS
    <2>2. Wrapped(x) = (e % m) - 32768  BY DEF Wrapped
    <2> HIDE DEF e, m
    <2>3. e % m \in 0 .. m - 1  BY <2>1, Division
    <2> QED  BY <2>1, <2>2, <2>3
  <1>5. h \in [1 .. N -> [Int -> Int]]
    <2> SUFFICES ASSUME NEW n \in 1 .. N, NEW x \in Int
                 PROVE  Wrapped(10 * x + DigitValue(d[n])) \in Int
      OBVIOUS
    <2>1. 10 * x + DigitValue(d[n]) \in Int  BY <1>2
    <2> QED  BY <1>4, <2>1
  <1>6. PICK f : Recurs(f, Int, 0, h, N)
    <2> HIDE DEF h
    <2> DEFINE z == 0
    <2>1. z \in Int  OBVIOUS
    <2> HIDE DEF z
    <2>2. \E f : Recurs(f, Int, z, h, N)  BY <1>1, <1>5, <2>1, Recurring
    <2> QED  BY <2>2 DEF z
  <1>7. /\ f \in [0 .. N -> Int] /\ f[0] = 0
        /\ \A n \in 1 .. N : f[n] = Wrapped(10 * f[n - 1] + DigitValue(d[n]))
    <2>1. /\ f \in [0 .. N -> Int] /\ f[0] = 0
          /\ \A n \in 1 .. N : f[n] = h[n][f[n - 1]]
      BY <1>6 DEF Recurs
    <2>2. ASSUME NEW n \in 1 .. N PROVE f[n - 1] \in Int
      <3>1. n - 1 \in 0 .. N  BY <1>1
      <3> QED  BY <2>1, <3>1
    <2> QED  BY <2>1, <2>2
  <1> HIDE DEF h
  <1>8. f = [n \in 0 .. Len(d) |->
               IF n = 0 THEN 0 ELSE Wrapped(10 * f[n - 1] + DigitValue(d[n]))]
    <2>1. \A n \in 0 .. N : f[n] = IF n = 0 THEN 0
                                   ELSE Wrapped(10 * f[n - 1] + DigitValue(d[n]))
      <3> SUFFICES ASSUME NEW n \in 0 .. N
                   PROVE  f[n] = IF n = 0 THEN 0
                                 ELSE Wrapped(10 * f[n - 1] + DigitValue(d[n]))
        OBVIOUS
      <3>1. n = 0 \/ n \in 1 .. N  BY <1>1
      <3> QED  BY <1>7, <3>1
    <2>2. f = [n \in 0 .. N |-> IF n = 0 THEN 0
                                ELSE Wrapped(10 * f[n - 1] + DigitValue(d[n]))]
      BY <1>7, <2>1
    <2> QED  BY <2>2 DEF N
  <1>9. number = [n \in 0 .. Len(d) |->
                    IF n = 0 THEN 0 ELSE Wrapped(10 * number[n - 1] + DigitValue(d[n]))]
    BY <1>8 DEF number
  <1> DEFINE b == number
  <1>10. b = [n \in 0 .. N |-> IF n = 0 THEN 0
                               ELSE Wrapped(10 * b[n - 1] + DigitValue(d[n]))]
    BY <1>9 DEF N
  <1> HIDE DEF b
  <1>11. DOMAIN b = 0 .. N /\ b[0] = 0
    <2>1. 0 \in 0 .. N  BY <1>1
    <2> QED  BY <1>10, <2>1
  <1>12. \A n \in 1 .. N : b[n] = Wrapped(10 * b[n - 1] + DigitValue(d[n]))
    <2>1. \A n \in 1 .. N : n \in 0 .. N /\ n # 0  BY <1>1
    <2> QED  BY <1>10, <2>1
  <1> DEFINE T == {n \in 0 .. N : b[n] \notin Int}
  <1>13. T = {}
    <2> SUFFICES ASSUME T # {} PROVE FALSE  OBVIOUS
    <2>1. T \in SUBSET Nat  BY <1>1
    <2>2. PICK n \in T : \A y \in T : n <= y  BY <2>1, LeastNatural
    <2>3. n \in 0 .. N /\ b[n] \notin Int  BY <2>2
    <2>4. n # 0  BY <1>11, <2>3
    <2>5. n \in 1 .. N /\ n - 1 \in 0 .. N /\ ~ (n <= n - 1)  BY <1>1, <2>3, <2>4
    <2>6. b[n - 1] \in Int  BY <2>2, <2>5
    <2>7. 10 * b[n - 1] + DigitValue(d[n]) \in Int  BY <1>2, <2>5, <2>6
    <2> QED  BY <1>4, <1>12, <2>3, <2>5, <2>7
  <1>14. Totals(b, N)  BY <1>11, <1>13 DEF Totals
  <1>15. NumberOf(d) = b[N]  BY <1>3 DEF b
  <1> QED  BY <1>12, <1>14, <1>15 DEF N

(* Written, digit by digit, without. *)
LEMMA WrittenRecurs ==
  ASSUME NEW C, NEW d \in Seq(C), Consists(d, Digit)
  PROVE  \E b : /\ Totals(b, Len(d)) /\ Written(d) = b[Len(d)]
                /\ \A n \in 1 .. Len(d) : b[n] = 10 * b[n - 1] + DigitValue(d[n])
  <1> DEFINE N == Len(d)
             h == [n \in 1 .. N |-> [x \in Int |-> 10 * x + DigitValue(d[n])]]
             number[n \in 0 .. Len(d)] ==
               IF n = 0 THEN 0 ELSE 10 * number[n - 1] + DigitValue(d[n])
  <1>1. N \in Nat /\ DOMAIN d = 1 .. N  OBVIOUS
  <1>2. \A n \in 1 .. N : DigitValue(d[n]) \in Int  BY <1>1, DigitIs DEF Consists
  <1>3. Written(d) = number[N]  BY DEF Written
  <1> HIDE DEF number, N
  <1>4. h \in [1 .. N -> [Int -> Int]]
    <2> SUFFICES ASSUME NEW n \in 1 .. N, NEW x \in Int
                 PROVE  10 * x + DigitValue(d[n]) \in Int
      OBVIOUS
    <2> QED  BY <1>2
  <1>5. PICK f : Recurs(f, Int, 0, h, N)
    <2> HIDE DEF h
    <2> DEFINE z == 0
    <2>1. z \in Int  OBVIOUS
    <2> HIDE DEF z
    <2>2. \E f : Recurs(f, Int, z, h, N)  BY <1>1, <1>4, <2>1, Recurring
    <2> QED  BY <2>2 DEF z
  <1>6. /\ f \in [0 .. N -> Int] /\ f[0] = 0
        /\ \A n \in 1 .. N : f[n] = 10 * f[n - 1] + DigitValue(d[n])
    <2>1. /\ f \in [0 .. N -> Int] /\ f[0] = 0
          /\ \A n \in 1 .. N : f[n] = h[n][f[n - 1]]
      BY <1>5 DEF Recurs
    <2>2. ASSUME NEW n \in 1 .. N PROVE f[n - 1] \in Int
      <3>1. n - 1 \in 0 .. N  BY <1>1
      <3> QED  BY <2>1, <3>1
    <2> QED  BY <2>1, <2>2
  <1> HIDE DEF h
  <1>7. f = [n \in 0 .. Len(d) |-> IF n = 0 THEN 0 ELSE 10 * f[n - 1] + DigitValue(d[n])]
    <2>1. \A n \in 0 .. N : f[n] = IF n = 0 THEN 0 ELSE 10 * f[n - 1] + DigitValue(d[n])
      <3> SUFFICES ASSUME NEW n \in 0 .. N
                   PROVE  f[n] = IF n = 0 THEN 0 ELSE 10 * f[n - 1] + DigitValue(d[n])
        OBVIOUS
      <3>1. n = 0 \/ n \in 1 .. N  BY <1>1
      <3> QED  BY <1>6, <3>1
    <2>2. f = [n \in 0 .. N |-> IF n = 0 THEN 0 ELSE 10 * f[n - 1] + DigitValue(d[n])]
      BY <1>6, <2>1
    <2> QED  BY <2>2 DEF N
  <1>8. number = [n \in 0 .. Len(d) |->
                    IF n = 0 THEN 0 ELSE 10 * number[n - 1] + DigitValue(d[n])]
    BY <1>7 DEF number
  <1> DEFINE b == number
  <1>9. b = [n \in 0 .. N |-> IF n = 0 THEN 0 ELSE 10 * b[n - 1] + DigitValue(d[n])]
    BY <1>8 DEF N
  <1> HIDE DEF b
  <1>10. DOMAIN b = 0 .. N /\ b[0] = 0
    <2>1. 0 \in 0 .. N  BY <1>1
    <2> QED  BY <1>9, <2>1
  <1>11. \A n \in 1 .. N : b[n] = 10 * b[n - 1] + DigitValue(d[n])
    <2>1. \A n \in 1 .. N : n \in 0 .. N /\ n # 0  BY <1>1
    <2> QED  BY <1>9, <2>1
  <1> DEFINE T == {n \in 0 .. N : b[n] \notin Int}
  <1>12. T = {}
    <2> SUFFICES ASSUME T # {} PROVE FALSE  OBVIOUS
    <2>1. T \in SUBSET Nat  BY <1>1
    <2>2. PICK n \in T : \A y \in T : n <= y  BY <2>1, LeastNatural
    <2>3. n \in 0 .. N /\ b[n] \notin Int  BY <2>2
    <2>4. n # 0  BY <1>10, <2>3
    <2>5. n \in 1 .. N /\ n - 1 \in 0 .. N /\ ~ (n <= n - 1)  BY <1>1, <2>3, <2>4
    <2>6. b[n - 1] \in Int  BY <2>2, <2>5
    <2>7. 10 * b[n - 1] + DigitValue(d[n]) \in Int  BY <1>2, <2>5, <2>6
    <2> QED  BY <1>11, <2>3, <2>5, <2>7
  <1>13. Totals(b, N)  BY <1>10, <1>12 DEF Totals
  <1>14. Written(d) = b[N]  BY <1>3 DEF b
  <1> QED  BY <1>11, <1>13, <1>14 DEF N

(* A number that wraps is still the byte that was written. *)
LEMMA NumberIsWritten ==
  ASSUME NEW C, NEW d \in Seq(C), Consists(d, Digit)
  PROVE  NumberOf(d) % 256 = Written(d) % 256
  <1> DEFINE N == Len(d)
  <1>1. PICK b : /\ Totals(b, N) /\ NumberOf(d) = b[N]
                 /\ \A n \in 1 .. N : b[n] = Wrapped(10 * b[n - 1] + DigitValue(d[n]))
    BY NumberRecurs
  <1>2. PICK w : /\ Totals(w, N) /\ Written(d) = w[N]
                 /\ \A n \in 1 .. N : w[n] = 10 * w[n - 1] + DigitValue(d[n])
    BY WrittenRecurs
  <1>3. N \in Nat /\ DOMAIN d = 1 .. N  OBVIOUS
  <1>4. \A n \in 1 .. N : DigitValue(d[n]) \in Int  BY <1>3, DigitIs DEF Consists
  <1> HIDE DEF N
  <1> DEFINE T == {n \in 0 .. N : ~ SameBytes(b[n], w[n])}
  <1>5. T = {}
    <2> SUFFICES ASSUME T # {} PROVE FALSE  OBVIOUS
    <2>1. T \in SUBSET Nat  BY <1>3
    <2>2. PICK n \in T : \A y \in T : n <= y  BY <2>1, LeastNatural
    <2>3. n \in 0 .. N /\ ~ SameBytes(b[n], w[n])  BY <2>2
    <2>4. n # 0
      <3>1. b[0] = 0 /\ w[0] = 0  BY <1>1, <1>2 DEF Totals
      <3> QED  BY <2>3, <3>1 DEF SameBytes
    <2>5. n \in 1 .. N /\ n - 1 \in 0 .. N /\ ~ (n <= n - 1)  BY <1>3, <2>3, <2>4
    <2> DEFINE c == b[n - 1]
               x == w[n - 1]
               v == DigitValue(d[n])
    <2>6. SameBytes(c, x)  BY <2>2, <2>5
    <2>7. c \in Int /\ x \in Int /\ v \in Int  BY <1>1, <1>2, <1>4, <2>5 DEF Totals
    <2>8. b[n] = Wrapped(10 * c + v) /\ w[n] = 10 * x + v  BY <1>1, <1>2, <2>5
    <2> HIDE DEF c, x, v
    <2>9. SameBytes(b[n], w[n])  BY <2>6, <2>7, <2>8, WrapKeepsByte
    <2> QED  BY <2>3, <2>9
  <1>6. N \in 0 .. N  BY <1>3
  <1> QED  BY <1>1, <1>2, <1>5, <1>6 DEF SameBytes

(* What a token leaves is one character given back and the rest. *)
LEMMA TokenParts ==
  ASSUME NEW t, NEW after, NEW x, x = Token(t, after)
  PROVE  /\ x.back = Taken(after, Upto(1, Len(after))) /\ x.rest = Left(after, 1)
         /\ x.end => after = <<>>
  <1>1. /\ x.back = Taken(after, Upto(1, Len(after))) /\ x.rest = Left(after, 1)
        /\ x.end = (after = <<>>)
    BY DEF Token
  <1> QED  BY <1>1

(* A token that met the end has left nothing. *)
LEMMA TokenEnds ==
  ASSUME NEW stream, NEW x, x = DSL_next_token(stream), IsToken(x), x.end
  PROVE  Remaining(x) = <<>>
  <1> DEFINE s == Left(stream, Run(stream, Blank))
             u == Left(s, 2)
             o == NoToken(IF s[1] = "\n" THEN newline ELSE stray, Left(s, 1), FALSE)
  <1>1. \/ x = NoToken(stray, s, TRUE)
        \/ x = ScanHex(u)
        \/ x = ScanNumber(s)
        \/ x = ScanWord(s)
        \/ x = o
    <2>1. ScanCases(x, s)  BY NextTokenCases
    <2> HIDE DEF s
    <2> QED  BY <2>1 DEF ScanCases
  <1> HIDE DEF s, u
  <1>2. ASSUME NEW t, t \in {"stray", "newline"}, NEW v, NEW e
        PROVE  x # NoToken(Word(t), v, e)
    BY <1>2 DEF NoToken, Word, IsToken
  <1>3. \E t, after : x = Token(t, after)
    <2>1. x # o
      <3> DEFINE k == IF s[1] = "\n" THEN "newline" ELSE "stray"
                 v == Left(s, 1)
                 e == FALSE
      <3>1. o = NoToken(Word(k), v, e)  BY DEF newline, stray
      <3>2. k \in {"stray", "newline"}  OBVIOUS
      <3> HIDE DEF k, o, v, e
      <3> QED  BY <1>2, <3>1, <3>2
    <2>2. x # NoToken(stray, s, TRUE)
      <3> DEFINE k == "stray"
      <3>1. k \in {"stray", "newline"} /\ stray = Word(k)  BY DEF stray
      <3> HIDE DEF k
      <3> QED  BY <1>2, <3>1
    <2>3. x = ScanHex(u) => \E t, after : x = Token(t, after)
      <3> DEFINE n == Upto(Run(u, Digit \cup Letter), MaxTok)
                 v == Left(Left(u, n), 1)
                 e == Left(u, n) = <<>>
                 h == Hex(HexBytes(Taken(u, n)))
                 g == (IF n < MaxTok THEN <<>> ELSE <<Taken(u, n)[n]>>) \o Left(u, n)
                 k == "stray"
      <3>1. x = ScanHex(u) => x = IF n % 2 = 1 THEN NoToken(stray, v, e) ELSE Token(h, g)
        BY DEF ScanHex
      <3>2. k \in {"stray", "newline"} /\ stray = Word(k)  BY DEF stray
      <3> HIDE DEF v, e, h, g, k, n
      <3>3. x # NoToken(stray, v, e)  BY <1>2, <3>2
      <3> QED  BY <3>1, <3>3
    <2>4. x = ScanNumber(s) => \E t, after : x = Token(t, after)  BY DEF ScanNumber
    <2>5. x = ScanWord(s) => \E t, after : x = Token(t, after)  BY DEF ScanWord
    <2> QED  BY <1>1, <2>1, <2>2, <2>3, <2>4, <2>5
  <1>4. PICK t, after : x = Token(t, after)  BY <1>3
  <1>5. after = <<>> /\ x.back = Taken(after, Upto(1, Len(after))) /\ x.rest = Left(after, 1)
    BY <1>4, TokenParts
  <1>6. Upto(1, Len(after)) = 0  BY <1>5 DEF Upto
  <1>7. x.back = <<>> /\ x.rest = <<>>  BY <1>5, <1>6 DEF Taken, Left
  <1> QED  BY <1>7 DEF Remaining

(* What is behind the first n is left. *)
LEMMA TokenTakes ==
  ASSUME NEW C, NEW s \in Seq(C), NEW n \in 0 .. Len(s), NEW t, NEW x,
         x = Token(t, Left(s, n))
  PROVE  /\ x.token = t /\ Remaining(x) = Left(s, n)
         /\ x.end <=> Remaining(x) = <<>>
  <1> DEFINE u == Left(s, n)
  <1>1. u \in Seq(C) /\ x = Token(t, u)  BY Lefts
  <1> HIDE DEF u
  <1>2. x.token = t /\ Remaining(x) = u /\ (x.end <=> u = <<>>)  BY <1>1, TokenScan
  <1> QED  BY <1>2 DEF u

(* There is only one run. *)
LEMMA RunIs ==
  ASSUME NEW C, NEW s \in Seq(C), NEW S, NEW n \in 0 .. Len(s),
         \A k \in 1 .. n : s[k] \in S, n < Len(s) => s[n + 1] \notin S
  PROVE  Run(s, S) = n
  <1> DEFINE r == Run(s, S)
             N == Len(s)
  <1>1. /\ r \in 0 .. N /\ \A k \in 1 .. r : s[k] \in S
        /\ r < N => s[r + 1] \notin S
    BY Running
  <1>2. N \in Nat /\ n \in 0 .. N /\ (n < N => s[n + 1] \notin S)  OBVIOUS
  <1> HIDE DEF r, N
  <1>3. ~ (r < n)
    <2> SUFFICES ASSUME r < n PROVE FALSE  OBVIOUS
    <2>1. r + 1 \in 1 .. n /\ r < N  BY <1>1, <1>2
    <2> QED  BY <1>1, <2>1
  <1>4. ~ (n < r)
    <2> SUFFICES ASSUME n < r PROVE FALSE  OBVIOUS
    <2>1. n + 1 \in 1 .. r /\ n < N  BY <1>1, <1>2
    <2> QED  BY <1>1, <1>2, <2>1
  <1>5. r = n  BY <1>1, <1>2, <1>3, <1>4
  <1> QED  BY <1>5 DEF r

(* What LongestToken says of a call that has found x in front of s. *)
TookLongest(x, s) ==
  ~ Unusual(s) =>
    /\ IsToken(x) => Fitting(s) > 0 /\ Remaining(x) = Left(s, Behind(s))
    /\ IsToken(x) => (x.end <=> Remaining(x) = <<>>)
    /\ Fitting(s) > 0 => Means(x.token, Taken(s, Fitting(s)))

(* A number is not cut. *)
LEMMA NumberFits ==
  ASSUME NEW s, IsNumber(Taken(s, Longest(s))), ~ IsHex(Taken(s, Longest(s)))
  PROVE  Fitting(s) = Longest(s) /\ Behind(s) = Longest(s)
  <1>1. Fitting(s) = Longest(s)  BY DEF Fitting
  <1> QED  BY <1>1 DEF Behind

(* A number is all the digits, and its byte the one that was written. *)
LEMMA NumberTakes ==
  ASSUME NEW C, NEW s \in Seq(C), s # <<>>, s[1] \in Digit, ~ IsPrefix(<<"0", "x">>, s),
         NEW x, x = ScanNumber(s)
  PROVE  TookLongest(x, s)
  <1> DEFINE n == Longest(s)
             w == Taken(s, n)
             v == NumberOf(w)
             t == Number(v)
  <1>1. n = Run(s, Digit) /\ n \in 1 .. Len(s) /\ IsNumber(w)  BY NumberLongest
  <1>2. x = Token(t, Left(s, n))  BY <1>1 DEF ScanNumber
  <1>3. w \in Seq(C)  BY <1>1, Takens
  <1>4. v % 256 = Written(w) % 256
    <2>1. Consists(w, Digit)  BY <1>1 DEF IsNumber
    <2> HIDE DEF w
    <2> QED  BY <1>3, <2>1, NumberIsWritten
  <1>5. ~ IsHex(w)  BY <1>1, PieceStarts
  <1>6. Fitting(s) = n /\ Behind(s) = n  BY <1>1, <1>5, NumberFits
  <1> HIDE DEF n, w, v
  <1>7. t.tok = "number" /\ t.value[1] = v  BY DEF Number
  <1>8. Means(t, w)  BY <1>1, <1>4, <1>7 DEF Means
  <1>9. n \in 0 .. Len(s) /\ n > 0  BY <1>1
  <1> HIDE DEF t
  <1>10. x.token = t /\ Remaining(x) = Left(s, n) /\ (x.end <=> Remaining(x) = <<>>)
    BY <1>2, <1>9, TokenTakes
  <1> QED  BY <1>6, <1>8, <1>9, <1>10 DEF TookLongest, w

(* A word is all the letters that the buffer holds, and its keyword the one that they are. *)
LEMMA WordTakes ==
  ASSUME NEW C, NEW s \in Seq(C), s # <<>>, s[1] \in Letter, NEW x, x = ScanWord(s)
  PROVE  TookLongest(x, s)
  <1> DEFINE r == Longest(s)
             n == Upto(r, MaxTok)
             w == Taken(s, n)
             t == IF w \in DOMAIN Keyword THEN Word(Keyword[w]) ELSE unknown
  <1>1. r = Run(s, Letter) /\ r \in 1 .. Len(s) /\ IsWord(Taken(s, r))  BY WordLongest
  <1>2. MaxTok \in Nat \ {0} /\ Len(s) \in Nat  BY ScannerAssumption
  <1>3. n \in 1 .. Len(s) /\ n <= r /\ n \in 0 .. Len(s) /\ n > 0
    <2> HIDE DEF r
    <2> QED  BY <1>1, <1>2 DEF Upto
  <1>4. ~ IsNumber(Taken(s, r))
    <2>1. s[1] \notin Digit  BY ScannerAssumption
    <2>2. ~ (Run(s, Digit) >= 1) /\ Run(s, Digit) \in 0 .. Len(s)
      BY <2>1, RunBegins, Running
    <2>3. ~ (r <= Run(s, Digit))
      <3> HIDE DEF r
      <3> QED  BY <1>1, <2>2
    <2> QED  BY <1>1, <2>3, PieceStarts
  <1>5. Fitting(s) = n  BY <1>1, <1>4 DEF Fitting
  <1>6. x = Token(t, Left(s, n))
    <2> HIDE DEF r
    <2> QED  BY <1>1 DEF ScanWord
  <1> HIDE DEF n
  <1>7. IsWord(w) /\ ~ IsHex(w)
    <2>1. ~ IsPrefix(<<"0", "x">>, s)
      <3>1. s[1] \notin Digit  BY ScannerAssumption
      <3> QED  BY <3>1, PrefixIs, ZeroIsDigit
    <2>2. n <= Run(s, Letter)  BY <1>1, <1>3
    <2> QED  BY <1>3, <2>1, <2>2, PieceStarts
  <1>8. Behind(s) = n  BY <1>5, <1>7 DEF Behind
  <1>9. Means(t, w)
    <2> HIDE DEF w
    <2> QED  BY <1>7 DEF Means
  <1> HIDE DEF r, w, t
  <1>10. x.token = t /\ Remaining(x) = Left(s, n) /\ (x.end <=> Remaining(x) = <<>>)
    BY <1>3, <1>6, TokenTakes
  <1> QED  BY <1>3, <1>5, <1>8, <1>9, <1>10 DEF TookLongest, w

(* A call that gives 0 where no token is. *)
LEMMA NoneTakes ==
  ASSUME NEW C, NEW s \in Seq(C), s # <<>> => s[1] \notin Letter /\ s[1] \notin Digit,
         NEW x, ~ IsToken(x)
  PROVE  TookLongest(x, s)
  <1>1. Longest(s) = 0  BY NoneLongest
  <1>2. Upto(0, MaxTok) = 0 /\ Upto(0, MaxTok + 2) = 0  BY ScannerAssumption DEF Upto
  <1>3. Fitting(s) = 0  BY <1>1, <1>2 DEF Fitting
  <1>4. ~ (Fitting(s) > 0)  BY <1>3
  <1> QED  BY <1>4 DEF TookLongest

(* v is s without its first n. *)
Without(v, s, n, C) == /\ v \in Seq(C) /\ Len(v) = Len(s) - n
                       /\ \A k \in 1 .. Len(s) - n : v[k] = s[n + k]

(* It is what Left leaves. *)
LEMMA LeftParts ==
  ASSUME NEW C, NEW s \in Seq(C), NEW n \in 0 .. Len(s), NEW v, v = Left(s, n)
  PROVE  Without(v, s, n, C)
  <1>1. /\ Left(s, n) \in Seq(C) /\ Len(Left(s, n)) = Len(s) - n
        /\ \A k \in 1 .. Len(s) - n : Left(s, n)[k] = s[n + k]
    BY Lefts
  <1> QED  BY <1>1 DEF Without

(* The digits behind 0x. *)
LEMMA HexRest ==
  ASSUME NEW C, NEW s \in Seq(C), NEW n \in 3 .. Len(s), NEW u, u = Left(s, 2),
         NEW m, m = n - 2
  PROVE  /\ u \in Seq(C) /\ Len(u) = Len(s) - 2 /\ m \in 1 .. Len(u)
         /\ Taken(u, m) = Left(Taken(s, n), 2) /\ Left(u, m) = Left(s, n)
         /\ \A k \in 1 .. Len(u) : u[k] = s[2 + k]
  <1> DEFINE N == Len(s)
             two == 2
             w == Taken(s, n)
  <1>1. N \in Nat /\ n \in 3 .. N /\ two \in 0 .. N /\ n \in 0 .. N  OBVIOUS
  <1>2. u \in Seq(C) /\ Len(u) = N - 2 /\ \A k \in 1 .. N - 2 : u[k] = s[2 + k]
    <2>1. u = Left(s, two)  OBVIOUS
    <2> HIDE DEF two
    <2>2. u \in Seq(C) /\ Len(u) = N - two /\ \A k \in 1 .. N - two : u[k] = s[two + k]
      BY <1>1, <2>1, Lefts, ZenonT(60)
    <2> QED  BY <2>2 DEF two
  <1>3. w \in Seq(C) /\ Len(w) = n /\ \A k \in 1 .. n : w[k] = s[k]  BY <1>1, Takens
  <1> DEFINE M == Len(u)
  <1>4. M \in Nat /\ M = N - 2 /\ m \in 1 .. M /\ m \in 0 .. M  BY <1>1, <1>2
  <1> HIDE DEF N, M, w
  <1>5. Taken(u, m) = Left(w, 2)
    <2> DEFINE d == Taken(u, m)
               e == Left(w, two)
    <2>1. d \in Seq(C) /\ Len(d) = m /\ \A k \in 1 .. m : d[k] = u[k]
      BY <1>2, <1>4, Takens DEF M
    <2>2. e \in Seq(C) /\ Len(e) = n - 2 /\ \A k \in 1 .. n - 2 : e[k] = w[2 + k]
      <3>1. two \in 0 .. Len(w) /\ two = 2  BY <1>1, <1>3
      <3>2. Without(e, w, two, C)
        <4> HIDE DEF two
        <4> QED  BY <1>3, <3>1, LeftParts
      <3> HIDE DEF e
      <3> QED  BY <1>3, <3>2 DEF Without
    <2> HIDE DEF d, e
    <2>3. \A k \in 1 .. m : d[k] = e[k]
      <3> SUFFICES ASSUME NEW k \in 1 .. m PROVE d[k] = e[k]  OBVIOUS
      <3>1. k \in 1 .. N - 2 /\ k \in 1 .. n - 2 /\ 2 + k \in 1 .. n  BY <1>1, <1>4
      <3> QED  BY <1>2, <1>3, <2>1, <2>2, <3>1
    <2>4. Len(e) = m  BY <2>2
    <2>5. d = e  BY <2>1, <2>2, <2>3, <2>4, SeqEqual
    <2> QED  BY <2>5 DEF d, e
  <1>6. Left(u, m) = Left(s, n)
    <2> DEFINE d == Left(u, m)
               e == Left(s, n)
    <2>1. d \in Seq(C) /\ Len(d) = M - m /\ \A k \in 1 .. M - m : d[k] = u[m + k]
      <3>1. u \in Seq(C) /\ m \in 0 .. Len(u)  BY <1>2, <1>4 DEF M
      <3>2. Without(d, u, m, C)  BY <3>1, LeftParts
      <3> HIDE DEF d
      <3> QED  BY <3>2 DEF M, Without
    <2>2. e \in Seq(C) /\ Len(e) = N - n /\ \A k \in 1 .. N - n : e[k] = s[n + k]
      <3>1. n \in 0 .. Len(s)  BY <1>1 DEF N
      <3>2. Without(e, s, n, C)  BY <3>1, LeftParts
      <3> HIDE DEF e
      <3> QED  BY <3>2 DEF N, Without
    <2> HIDE DEF d, e
    <2>3. M - m = N - n  BY <1>1, <1>4
    <2>4. \A k \in 1 .. N - n : d[k] = e[k]
      <3> SUFFICES ASSUME NEW k \in 1 .. N - n PROVE d[k] = e[k]  OBVIOUS
      <3> DEFINE j == m + k
                 i == 2 + j
      <3>1. j \in 1 .. N - 2 /\ i = n + k /\ j = m + k  BY <1>1, <1>4
      <3>2. u[j] = s[i]  BY <1>2, <3>1
      <3> HIDE DEF i, j
      <3>3. d[k] = u[j]  BY <2>1, <2>3, <3>1
      <3>4. e[k] = s[i]  BY <2>2, <3>1
      <3> QED  BY <3>2, <3>3, <3>4
    <2>5. d = e  BY <2>1, <2>2, <2>3, <2>4, SeqEqual
    <2> QED  BY <2>5 DEF d, e
  <1> QED  BY <1>2, <1>4, <1>5, <1>6 DEF M, N, w

(* The run of the digits begins two characters later without the 0x. *)
LEMMA HexRun ==
  ASSUME NEW C, NEW s \in Seq(C), NEW S, Run(s, S) \in 3 .. Len(s), NEW u, u = Left(s, 2)
  PROVE  Run(u, S) = Run(s, S) - 2
  <1> DEFINE n == Run(s, S)
             m == n - 2
             N == Len(s)
             M == Len(u)
  <1>1. (\A k \in 1 .. n : s[k] \in S) /\ (n < N => s[n + 1] \notin S)  BY Running
  <1>2. N \in Nat /\ n \in 3 .. N  OBVIOUS
  <1>3. u \in Seq(C) /\ M = N - 2 /\ \A k \in 1 .. M : u[k] = s[2 + k]
    <2>1. u = Left(s, 2) /\ n \in 3 .. Len(s) /\ m = n - 2  OBVIOUS
    <2> HIDE DEF n, m
    <2> QED  BY <2>1, HexRest
  <1> HIDE DEF n, N, M
  <1>4. m \in 0 .. M /\ m \in 1 .. M  BY <1>2, <1>3
  <1>5. \A k \in 1 .. m : u[k] \in S
    <2> SUFFICES ASSUME NEW k \in 1 .. m PROVE u[k] \in S  OBVIOUS
    <2>1. k \in 1 .. M /\ 2 + k \in 1 .. n  BY <1>2, <1>3
    <2> QED  BY <1>1, <1>3, <2>1
  <1>6. m < M => u[m + 1] \notin S
    <2> SUFFICES ASSUME m < M PROVE u[m + 1] \notin S  OBVIOUS
    <2>1. m + 1 \in 1 .. M /\ 2 + (m + 1) = n + 1 /\ n < N  BY <1>2, <1>3
    <2> QED  BY <1>1, <1>3, <2>1
  <1> HIDE DEF m
  <1>7. Run(u, S) = m  BY <1>3, <1>4, <1>5, <1>6, RunIs DEF M
  <1> QED  BY <1>7 DEF m, n

(* One element in front of others. *)
LEMMA InFront ==
  ASSUME NEW C, NEW u \in Seq(C), NEW c \in C
  PROVE  /\ <<c>> \o u \in Seq(C) /\ Len(<<c>> \o u) = 1 + Len(u) /\ (<<c>> \o u)[1] = c
         /\ \A k \in 2 .. 1 + Len(u) : (<<c>> \o u)[k] = u[k - 1]
  OBVIOUS

(* The last of n elements in front of the ones behind them. *)
LEMMA LastAgain ==
  ASSUME NEW C, NEW s \in Seq(C), NEW n \in 1 .. Len(s), NEW m, m = n - 1
  PROVE  <<s[n]>> \o Left(s, n) = Left(s, m)
  <1> DEFINE N == Len(s)
             c == s[n]
             u == Left(s, n)
             v == Left(s, m)
             w == <<c>> \o u
  <1>1. N \in Nat /\ n \in 1 .. N /\ n \in 0 .. N /\ m \in 0 .. N /\ n = m + 1 /\ c \in C
    <2>1. n \in 1 .. Len(s) /\ Len(s) \in Nat  OBVIOUS
    <2>2. c \in C  BY ElementOfSeq
    <2> QED  BY <2>1, <2>2
  <1>2. u \in Seq(C) /\ Len(u) = N - n /\ \A k \in 1 .. N - n : u[k] = s[n + k]
    <2>1. n \in 0 .. Len(s)  BY <1>1
    <2>2. Without(u, s, n, C)  BY <2>1, LeftParts
    <2> HIDE DEF u
    <2> QED  BY <2>2 DEF Without
  <1>3. v \in Seq(C) /\ Len(v) = N - m /\ \A k \in 1 .. N - m : v[k] = s[m + k]
    <2>1. m \in 0 .. Len(s)  BY <1>1
    <2>2. Without(v, s, m, C)  BY <2>1, LeftParts
    <2> HIDE DEF v
    <2> QED  BY <2>2 DEF Without
  <1> HIDE DEF u, v
  <1>4. /\ w \in Seq(C) /\ Len(w) = N - m /\ w[1] = c
        /\ \A k \in 2 .. N - m : w[k] = u[k - 1]
    <2> HIDE DEF N, c, w
    <2>1. N - m = 1 + Len(u)  BY <1>1, <1>2
    <2>2. u \in Seq(C) /\ c \in C  BY <1>1, <1>2
    <2>3. /\ <<c>> \o u \in Seq(C) /\ Len(<<c>> \o u) = 1 + Len(u) /\ (<<c>> \o u)[1] = c
          /\ \A k \in 2 .. 1 + Len(u) : (<<c>> \o u)[k] = u[k - 1]
      BY <2>2, InFront
    <2>4. /\ w \in Seq(C) /\ Len(w) = 1 + Len(u) /\ w[1] = c
          /\ \A k \in 2 .. 1 + Len(u) : w[k] = u[k - 1]
      BY <2>3 DEF w
    <2> QED  BY <2>1, <2>4
  <1> HIDE DEF w
  <1>5. \A k \in 1 .. N - m : w[k] = v[k]
    <2> SUFFICES ASSUME NEW k \in 1 .. N - m PROVE w[k] = v[k]  OBVIOUS
    <2>1. v[k] = s[m + k]  BY <1>3
    <2>2. CASE k = 1
      <3>1. m + k = n  BY <1>1, <2>2
      <3> QED  BY <1>4, <2>1, <2>2, <3>1
    <2>3. CASE k # 1
      <3> HIDE DEF N, c
      <3>1. k \in 2 .. N - m /\ k - 1 \in 1 .. N - n /\ n + (k - 1) = m + k  BY <1>1, <2>3
      <3>2. w[k] = u[k - 1] /\ u[k - 1] = s[n + (k - 1)]  BY <1>2, <1>4, <3>1
      <3> QED  BY <2>1, <3>1, <3>2
    <2> QED  BY <2>2, <2>3
  <1>6. w = v  BY <1>3, <1>4, <1>5, SeqEqual
  <1> QED  BY <1>6 DEF w, u, v

(* Digits behind 0x, as many as the buffer holds: the next argument, unless their number is
   odd; the last that fills the buffer comes once more. *)
LEMMA HexTakes ==
  ASSUME NEW C, NEW s \in Seq(C), IsPrefix(<<"0", "x">>, s), NEW x, x = ScanHex(Left(s, 2))
  PROVE  TookLongest(x, s)
  <1> SUFFICES ASSUME ~ Unusual(s) PROVE TookLongest(x, s)  BY DEF TookLongest
  <1> DEFINE S == Digit \cup Letter
             r == Longest(s)
             n == Upto(r, MaxTok + 2)
             m == n - 2
             b == IF n = MaxTok + 2 THEN n - 1 ELSE n
             w == Taken(s, n)
             u == Left(s, 2)
  <1>1. ~ (r <= 2)  BY DEF Unusual
  <1>2. r = Run(s, S) /\ r \in 3 .. Len(s) /\ IsHex(Taken(s, r))  BY <1>1, HexLongest
  <1>3. MaxTok \in Nat \ {0} /\ MaxTok % 2 = 0 /\ Len(s) \in Nat  BY ScannerAssumption
  <1>4. /\ n \in 3 .. Len(s) /\ n \in 0 .. Len(s) /\ n \in 1 .. Len(s) /\ n > 0 /\ n <= r /\ n > 2
        /\ n = m + 2 /\ m \in Nat /\ m <= MaxTok /\ (m < MaxTok <=> n # MaxTok + 2)
        /\ Upto(r - 2, MaxTok) = m
    <2> HIDE DEF r
    <2> QED  BY <1>2, <1>3 DEF Upto
  <1>5. ~ IsNumber(Taken(s, r)) /\ ~ IsWord(Taken(s, r))
    <2>1. s[1] = "0" /\ s[2] = "x"  BY PrefixIs
    <2>2. s[1] \notin Letter  BY <2>1, ZeroIsDigit, ScannerAssumption
    <2>3. s # <<>>  BY <1>2
    <2>4. ~ (Run(s, Letter) >= 1) /\ Run(s, Letter) \in 0 .. Len(s)
      BY <2>2, <2>3, RunBegins, Running
    <2>5. s[2] \notin Digit
      <3> SUFFICES ASSUME NEW k \in 1 .. 10 PROVE HexDigit[k] # "x"  BY <2>1 DEF Digit
      <3>1. \/ k = 1 \/ k = 2 \/ k = 3 \/ k = 4 \/ k = 5
            \/ k = 6 \/ k = 7 \/ k = 8 \/ k = 9 \/ k = 10
        OBVIOUS
      <3> QED  BY <3>1 DEF HexDigit
    <2>6. Run(s, Digit) \in 0 .. Len(s) /\ \A k \in 1 .. Run(s, Digit) : s[k] \in Digit
      BY Running
    <2>7. ~ (Run(s, Digit) >= 2)
      <3> SUFFICES ASSUME Run(s, Digit) >= 2 PROVE FALSE  OBVIOUS
      <3>1. 2 \in 1 .. Run(s, Digit)  BY <1>3, <2>6
      <3> QED  BY <2>5, <2>6, <3>1
    <2>8. ~ (r <= Run(s, Letter)) /\ ~ (r <= Run(s, Digit))
      <3> HIDE DEF r
      <3> QED  BY <1>2, <1>3, <2>4, <2>6, <2>7
    <2>9. r \in 1 .. Len(s)
      <3> HIDE DEF r
      <3> QED  BY <1>2
    <2> HIDE DEF r
    <2> QED  BY <2>8, <2>9, PieceStarts
  <1>6. Fitting(s) = n  BY <1>5 DEF Fitting
  <1> HIDE DEF n
  <1>7. IsHex(w)
    <2>1. n <= Run(s, Digit \cup Letter)  BY <1>2, <1>4
    <2> QED  BY <1>4, <2>1, PieceStarts
  <1>8. Behind(s) = b  BY <1>6, <1>7 DEF Behind
  <1>9. w \in Seq(C) /\ Len(w) = n  BY <1>4, Takens
  <1>10. /\ u \in Seq(C) /\ m \in 1 .. Len(u)
         /\ Taken(u, m) = Left(w, 2) /\ Left(u, m) = Left(s, n)
         /\ u[m] = s[n]
    <2>1. u = Left(s, 2) /\ m = n - 2  OBVIOUS
    <2> HIDE DEF u, m
    <2>2. /\ u \in Seq(C) /\ m \in 1 .. Len(u)
          /\ Taken(u, m) = Left(Taken(s, n), 2) /\ Left(u, m) = Left(s, n)
          /\ \A k \in 1 .. Len(u) : u[k] = s[2 + k]
      BY <1>4, <2>1, HexRest
    <2>3. 2 + m = n  BY <1>4, <2>1
    <2> QED  BY <2>2, <2>3 DEF w
  <1>11. Run(u, S) = r - 2
    <2>1. u = Left(s, 2)  OBVIOUS
    <2> HIDE DEF u, r, S
    <2> QED  BY <1>2, <2>1, HexRun
  <1> DEFINE h == Hex(HexBytes(Left(w, 2)))
             v == Left(Left(u, m), 1)
             e == Left(u, m) = <<>>
             d == Taken(u, m)
             g == (IF m < MaxTok THEN <<>> ELSE <<d[m]>>) \o Left(u, m)
  <1>12. x = IF m % 2 = 1 THEN NoToken(stray, v, e) ELSE Token(h, g)
    <2>1. x = ScanHex(u)  OBVIOUS
    <2>2. Upto(Run(u, S), MaxTok) = m /\ Taken(u, m) = Left(w, 2)
      <3> HIDE DEF m, u, w, S, r
      <3> QED  BY <1>4, <1>10, <1>11
    <2> HIDE DEF m, u, w
    <2> QED  BY <2>1, <2>2 DEF ScanHex
  <1>13. CASE m % 2 = 1
    <2> DEFINE q == NoToken(stray, v, e)
    <2>1. x = q
      <3> HIDE DEF m, v, e, g, h
      <3> QED  BY <1>12, <1>13
    <2>2. x.token = stray
      <3> HIDE DEF v, e
      <3> QED  BY <2>1 DEF NoToken
    <2>3. ~ IsToken(x)  BY <2>2 DEF IsToken, stray, Word
    <2>4. Len(w) % 2 = 1
      <3> HIDE DEF m, w
      <3> QED  BY <1>4, <1>9, <1>13
    <2> HIDE DEF w
    <2>5. Means(x.token, w)  BY <1>7, <2>2, <2>4 DEF Means
    <2> QED  BY <1>6, <2>3, <2>5 DEF TookLongest, w
  <1>14. CASE m % 2 # 1
    <2>1. x = Token(h, g)
      <3> HIDE DEF m, v, e, h, g
      <3> QED  BY <1>12, <1>14
    <2>2. b \in 0 .. Len(s)
      <3> HIDE DEF m
      <3> QED  BY <1>3, <1>4
    <2>3. g = Left(s, b)
      <3> DEFINE z == Left(s, n)
      <3>1. Left(u, m) = z  BY <1>10
      <3>2. z \in Seq(C)  BY <1>4, Lefts
      <3>3. CASE m < MaxTok
        <4>1. b = n /\ g = <<>> \o z  BY <1>4, <3>1, <3>3
        <4> HIDE DEF z, g, b
        <4>2. g = z  BY <3>2, <4>1
        <4> QED  BY <4>1, <4>2 DEF z
      <3>4. CASE ~ (m < MaxTok)
        <4>1. n = MaxTok + 2  BY <1>4, <3>4
        <4>2. b = n - 1  BY <4>1
        <4>3. d[m] = s[n]
          <5>1. u \in Seq(C) /\ m \in 1 .. Len(u) /\ u[m] = s[n]  BY <1>10
          <5> DEFINE y == m
          <5>2. y \in 0 .. Len(u) /\ y \in 1 .. y
            <6> HIDE DEF m
            <6> QED  BY <1>4, <5>1
          <5> HIDE DEF y, u
          <5>3. Taken(u, y)[y] = u[y]  BY <5>1, <5>2, Takens
          <5> QED  BY <5>1, <5>3 DEF y
        <4>4. g = <<s[n]>> \o Left(s, n)  BY <3>1, <3>4, <4>3
        <4> HIDE DEF g, b
        <4>5. <<s[n]>> \o Left(s, n) = Left(s, b)  BY <1>4, <4>2, LastAgain
        <4> QED  BY <4>4, <4>5
      <3> QED  BY <3>3, <3>4
    <2> HIDE DEF h, g, b
    <2>4. x = Token(h, Left(s, b))  BY <2>1, <2>3
    <2>5. Len(w) % 2 = 0
      <3> HIDE DEF m, w
      <3> QED  BY <1>4, <1>9, <1>14
    <2>6. Means(h, w)
      <3> HIDE DEF w
      <3> QED  BY <1>7, <2>5 DEF Means, h
    <2> HIDE DEF w
    <2>7. x.token = h /\ Remaining(x) = Left(s, b) /\ (x.end <=> Remaining(x) = <<>>)
      BY <2>2, <2>4, TokenTakes
    <2> QED  BY <1>4, <1>6, <1>8, <2>6, <2>7 DEF TookLongest, w
  <1> QED  BY <1>13, <1>14

(* A call, whatever is behind the blanks, takes the longest token. *)
LEMMA CallTakes ==
  ASSUME NEW C, NEW stream \in Seq(C), NEW x, x = DSL_next_token(stream)
  PROVE  TookLongest(x, Left(stream, Run(stream, Blank)))
  <1> DEFINE s == Left(stream, Run(stream, Blank))
             hex == IsPrefix(<<"0", "x">>, s)
  <1>1. s \in Seq(C)
    <2>1. Run(stream, Blank) \in 0 .. Len(stream)  BY Running
    <2> QED  BY <2>1, Lefts
  <1>2. ScanCases(x, s)  BY NextTokenCases
  <1> HIDE DEF s
  <1>3. /\ s = <<>> => x = NoToken(stray, s, TRUE)
        /\ s # <<>> /\ hex => x = ScanHex(Left(s, 2))
        /\ s # <<>> /\ s[1] \in Digit /\ ~ hex => x = ScanNumber(s)
        /\ s # <<>> /\ s[1] \in Letter => x = ScanWord(s)
        /\ s # <<>> /\ ~ hex /\ s[1] \notin Digit /\ s[1] \notin Letter
             => x = NoToken(IF s[1] = "\n" THEN newline ELSE stray, Left(s, 1), FALSE)
    BY <1>2 DEF ScanCases
  <1>4. hex => s # <<>>  BY <1>1, PrefixIs
  <1>5. ASSUME NEW t, t \in {"stray", "newline"}, NEW v, NEW e, x = NoToken(Word(t), v, e)
        PROVE  ~ IsToken(x)
    BY <1>5 DEF NoToken, Word, IsToken
  <1>6. CASE s = <<>>
    <2> DEFINE k == "stray"
               e == TRUE
    <2>1. k \in {"stray", "newline"} /\ stray = Word(k)  BY DEF stray
    <2>2. x = NoToken(Word(k), s, e)  BY <1>3, <1>6, <2>1
    <2> HIDE DEF k, e
    <2>3. ~ IsToken(x)  BY <1>5, <2>1, <2>2
    <2> QED  BY <1>1, <1>6, <2>3, NoneTakes DEF s
  <1>7. CASE hex
    <2>1. x = ScanHex(Left(s, 2))  BY <1>3, <1>4, <1>7
    <2> QED  BY <1>1, <1>7, <2>1, HexTakes DEF s
  <1>8. CASE s # <<>> /\ s[1] \in Digit /\ ~ hex
    <2>1. x = ScanNumber(s)  BY <1>3, <1>8
    <2> QED  BY <1>1, <1>8, <2>1, NumberTakes DEF s
  <1>9. CASE s # <<>> /\ s[1] \in Letter
    <2>1. x = ScanWord(s)  BY <1>3, <1>9
    <2> QED  BY <1>1, <1>9, <2>1, WordTakes DEF s
  <1>10. CASE s # <<>> /\ ~ hex /\ s[1] \notin Digit /\ s[1] \notin Letter
    <2> DEFINE k == IF s[1] = "\n" THEN "newline" ELSE "stray"
               v == Left(s, 1)
               e == FALSE
    <2>1. /\ k \in {"stray", "newline"}
          /\ Word(k) = IF s[1] = "\n" THEN newline ELSE stray
      BY DEF newline, stray
    <2>2. x = NoToken(Word(k), v, e)  BY <1>3, <1>10, <2>1
    <2> HIDE DEF k, v, e
    <2>3. ~ IsToken(x)  BY <1>5, <2>1, <2>2
    <2> QED  BY <1>1, <1>10, <2>3, NoneTakes DEF s
  <1> QED  BY <1>6, <1>7, <1>8, <1>9, <1>10 DEF s

(* What the token stream keeps. *)
StreamInv == /\ before \in Seq(STRING) /\ Remaining(scan) \in Seq(STRING)
             /\ IsToken(scan) /\ scan.end => Remaining(scan) = <<>>
             /\ Called => scan = DSL_next_token(before)

(* DSL_scanner_reset: nothing was called yet. *)
LEMMA StreamInvInit == DSL_scanner_reset => StreamInv
  <1> SUFFICES ASSUME DSL_scanner_reset PROVE StreamInv  OBVIOUS
  <1>1. before \in Seq(STRING)  BY SourceAssumption DEF DSL_scanner_reset
  <1>2. scan.token = Word("none") /\ scan.back = <<>> /\ scan.rest = before /\ scan.end = FALSE
    BY DEF DSL_scanner_reset
  <1>3. Remaining(scan) = before
    <2>1. Remaining(scan) = <<>> \o before  BY <1>2 DEF Remaining
    <2> QED  BY <1>1, <2>1
  <1>4. ~ Called /\ ~ scan.end  BY <1>2 DEF Called
  <1> QED  BY <1>1, <1>3, <1>4 DEF StreamInv

(* Where a call met the end, the next gives what it would at the end of any input. *)
LEMMA EndAgain == EndOfInput = DSL_next_token(<<>>)
  <1> DEFINE u == <<>>
             s == Left(u, Run(u, Blank))
  <1>1. s = <<>>
    <2>1. u \in Seq(STRING) /\ Len(u) = 0  OBVIOUS
    <2> HIDE DEF u
    <2>2. Run(u, Blank) \in 0 .. Len(u)  BY <2>1, Running
    <2>3. s \in Seq(STRING) /\ Len(s) = Len(u) - Run(u, Blank)  BY <2>1, <2>2, Lefts
    <2>4. Len(s) = 0  BY <2>1, <2>2, <2>3
    <2> HIDE DEF s
    <2> QED  BY <2>3, <2>4
  <1>2. ScanCases(DSL_next_token(u), s)  BY NextTokenCases
  <1>3. DSL_next_token(u) = NoToken(stray, s, TRUE)
    <2> HIDE DEF s, u
    <2> QED  BY <1>1, <1>2 DEF ScanCases
  <1> QED  BY <1>1, <1>3 DEF EndOfInput

(* Every call keeps it. *)
LEMMA StreamInvNext == StreamInv /\ [Advance]_streamVars => StreamInv'
  <1> SUFFICES ASSUME StreamInv, [Advance]_streamVars PROVE StreamInv'  OBVIOUS
  <1> USE DEF StreamInv
  <1>1. CASE Advance
    <2> DEFINE R == Remaining(scan)
               y == NextScan(scan)
               C == STRING
    <2>1. before' = R /\ scan' = y /\ IsToken(scan)  BY <1>1 DEF Advance
    <2>2. y = DSL_next_token(R)  BY <2>1, EndAgain DEF NextScan
    <2>3. R \in Seq(C)  OBVIOUS
    <2> HIDE DEF R, y, StreamInv, C
    <2>4. Scanning(y, R, C)  BY <2>2, <2>3, NextTokenScanning
    <2>5. Remaining(y) \in Seq(C)  BY <2>4 DEF Scanning, Remaining
    <2>6. IsToken(y) /\ y.end => Remaining(y) = <<>>  BY <2>2, TokenEnds
    <2>7. /\ before' \in Seq(C) /\ Remaining(scan') \in Seq(C)
          /\ IsToken(scan') /\ scan'.end => Remaining(scan') = <<>>
          /\ scan' = DSL_next_token(before')
      BY <2>1, <2>2, <2>3, <2>5, <2>6
    <2>8. /\ Remaining(scan)' = Remaining(scan') /\ IsToken(scan)' = IsToken(scan')
          /\ DSL_next_token(before)' = DSL_next_token(before')
      OBVIOUS
    <2> QED  BY <2>7, <2>8 DEF StreamInv, C
  <1>2. CASE UNCHANGED streamVars
    <2>1. before' = before /\ scan' = scan  BY <1>2 DEF streamVars
    <2> QED  BY <2>1 DEF Called, Remaining, IsToken
  <1> QED  BY <1>1, <1>2

(* LongestToken follows. *)
LEMMA InvTakes == StreamInv => LongestToken
  <1> SUFFICES ASSUME StreamInv PROVE LongestToken  OBVIOUS
  <1> DEFINE s == Left(before, Run(before, Blank))
  <1> SUFFICES ASSUME Called PROVE TookLongest(scan, s)  BY DEF LongestToken, TookLongest
  <1>1. before \in Seq(STRING) /\ scan = DSL_next_token(before)  BY DEF StreamInv
  <1> QED  BY <1>1, CallTakes

(* Of any input, call by call, the scanner takes the longest piece that is a token, leaves
   all behind it, and means by it what was written, as long as it fits the buffer. *)
THEOREM TakesLongest == StreamSpec => []LongestToken
  <1> QED  BY StreamInvInit, StreamInvNext, InvTakes, PTL DEF StreamSpec

(* WHERE A PARSE ENDS *)

(* The tokens up to the one that is none. *)
Ends(l, T) == /\ l \in Seq(T) /\ l # <<>>
              /\ l[Len(l)].tok \in {"stray", "newline", "unknown"}

(* The fields of a parse state, which are the same after every rule. *)
Fields == {"rest", "curr", "ok", "type", "packet", "cmd", "lost"}

(* The parse is at a token of l. *)
On(p, l) == /\ DOMAIN p = Fields
            /\ \E i \in 1 .. Len(l) : p.curr = l[i] /\ p.rest = SubSeq(l, i + 1, Len(l))

(* Reading on from a token of the language. *)
LEMMA AdvanceOn ==
  ASSUME NEW T, NEW l, Ends(l, T), NEW p, On(p, l),
         p.curr.tok \notin {"stray", "newline", "unknown"}
  PROVE  On(DSL_advance(p), l) /\ DSL_advance(p).ok = p.ok
  <1> DEFINE n == Len(l)
             q == DSL_advance(p)
  <1>1. PICK i \in 1 .. n : p.curr = l[i] /\ p.rest = SubSeq(l, i + 1, n)  BY DEF On
  <1>2. n \in Nat /\ l[n].tok \in {"stray", "newline", "unknown"} /\ l \in Seq(T)  BY DEF Ends
  <1>3. i # n  BY <1>1, <1>2
  <1>4. i + 1 \in 1 .. n /\ i + 2 \in Int /\ i + 1 \in Int /\ n \in Int /\ i + 1 <= n
    BY <1>1, <1>2, <1>3
  <1>5. Head(p.rest) = l[i + 1] /\ Tail(p.rest) = SubSeq(l, i + 2, n)
    <2> DEFINE a == i + 1
               b == i + 2
    <2>1. a \in 1 .. n /\ n \in a .. n /\ a + 1 = b /\ p.rest = SubSeq(l, a, n)
      BY <1>1, <1>4
    <2>2. l \in Seq(T) /\ n = Len(l)  BY <1>2
    <2> HIDE DEF a, b, n
    <2>3. Head(SubSeq(l, a, n)) = l[a] /\ Tail(SubSeq(l, a, n)) = SubSeq(l, a + 1, n)
      BY <2>1, <2>2, HeadTailOfSubSeq
    <2> QED  BY <2>1, <2>3 DEF a, b
  <1>6. DOMAIN p = Fields  BY DEF On
  <1>7. "curr" \in Fields /\ "rest" \in Fields /\ "ok" \in Fields  BY DEF Fields
  <1>8. DOMAIN q = Fields /\ q.curr = Head(p.rest) /\ q.rest = Tail(p.rest) /\ q.ok = p.ok
    BY <1>6, <1>7 DEF DSL_advance
  <1>9. (i + 1) + 1 = i + 2  BY <1>4
  <1> HIDE DEF q
  <1>10. On(q, l)  BY <1>4, <1>5, <1>8, <1>9 DEF On
  <1> QED  BY <1>8, <1>10 DEF q

(* What does not read stays where it is. *)
LEMMA StayOn ==
  ASSUME NEW l, NEW p, On(p, l), NEW q, DOMAIN q = Fields, q.curr = p.curr, q.rest = p.rest
  PROVE  On(q, l)
  BY DEF On

(* DSL_accept reads only a token of the language. *)
LEMMA AcceptOn ==
  ASSUME NEW T, NEW l, Ends(l, T), NEW p, On(p, l), NEW t,
         t \notin {"stray", "newline", "unknown"}, NEW q \in DSL_accept(t, p)
  PROVE  On(q, l)
  <1> DEFINE r == DSL_advance(p)
  <1>1. q = IF p.curr.tok = t THEN Accepted(r) ELSE Refused(p)  BY DEF DSL_accept
  <1>2. CASE p.curr.tok = t
    <2>1. On(r, l)
      <3>1. p.curr.tok \notin {"stray", "newline", "unknown"}  BY <1>2
      <3> HIDE DEF r
      <3> QED  BY <3>1, AdvanceOn DEF r
    <2> HIDE DEF r
    <2>2. DOMAIN Accepted(r) = Fields /\ Accepted(r).curr = r.curr /\ Accepted(r).rest = r.rest
      BY <2>1 DEF Accepted, On, Fields
    <2>3. On(Accepted(r), l)  BY <2>1, <2>2, StayOn
    <2> QED  BY <1>1, <1>2, <2>3
  <1>3. CASE p.curr.tok # t
    <2>1. DOMAIN Refused(p) = Fields /\ Refused(p).curr = p.curr /\ Refused(p).rest = p.rest
      BY DEF Refused, On, Fields
    <2>2. On(Refused(p), l)  BY <2>1, StayOn
    <2> QED  BY <1>1, <1>3, <2>2
  <1> QED  BY <1>2, <1>3

(* DSL_accept_no_advance reads nothing. *)
LEMMA LookOn ==
  ASSUME NEW l, NEW p, On(p, l), NEW t, NEW q \in DSL_accept_no_advance(t, p)
  PROVE  On(q, l) /\ (q.ok <=> q.curr.tok = t)
  <1>1. q = [p EXCEPT !.ok = (p.curr.tok = t)]  BY DEF DSL_accept_no_advance
  <1>2. DOMAIN p = Fields  BY DEF On
  <1>3. DOMAIN q = Fields /\ q.curr = p.curr /\ q.rest = p.rest /\ q.ok = (p.curr.tok = t)
    BY <1>1, <1>2 DEF Fields
  <1> QED  BY <1>3, StayOn

(* The packet, the command and the count are beside it. *)
LEMMA ResultOn ==
  ASSUME NEW l, NEW p, On(p, l), NEW k, NEW c, NEW a
  PROVE  /\ On([p EXCEPT !.packet = k], l)
         /\ [p EXCEPT !.packet = k].curr = p.curr
         /\ On([p EXCEPT !.type = "raw", !.packet = k], l)
         /\ [p EXCEPT !.type = "raw", !.packet = k].curr = p.curr
         /\ On(NewPacket(p, k), l)
         /\ On(Accepted([p EXCEPT !.packet = k]), l)
         /\ \A q \in NewCommand(p, c, a) : On(q, l)
  <1>1. DOMAIN p = Fields  BY DEF On
  <1> DEFINE q1 == [p EXCEPT !.packet = k]
             q2 == [p EXCEPT !.type = "raw", !.packet = k]
             q3 == NewPacket(p, k)
             q4 == Accepted(q1)
  <1>2. DOMAIN q1 = Fields /\ q1.curr = p.curr /\ q1.rest = p.rest  BY <1>1 DEF Fields
  <1>3. DOMAIN q2 = Fields /\ q2.curr = p.curr /\ q2.rest = p.rest  BY <1>1 DEF Fields
  <1>4. DOMAIN q3 = Fields /\ q3.curr = p.curr /\ q3.rest = p.rest
    BY <1>1 DEF Fields, NewPacket
  <1>5. On(q1, l)
    <2> HIDE DEF q1
    <2> QED  BY <1>2, StayOn
  <1>6. On(q2, l)
    <2> HIDE DEF q2
    <2> QED  BY <1>3, StayOn
  <1>7. On(q3, l)
    <2> HIDE DEF q3
    <2> QED  BY <1>4, StayOn
  <1>8. On(q4, l)
    <2> HIDE DEF q1
    <2>1. DOMAIN q4 = Fields /\ q4.curr = q1.curr /\ q4.rest = q1.rest
      BY <1>2 DEF Accepted, Fields
    <2> HIDE DEF q4
    <2> QED  BY <1>5, <2>1, StayOn
  <1>9. ASSUME NEW q \in NewCommand(p, c, a)
        PROVE  On(q, l)
    <2>1. DOMAIN q = Fields /\ q.curr = p.curr /\ q.rest = p.rest
      BY <1>1 DEF Fields, NewCommand
    <2> QED  BY <2>1, StayOn
  <1> QED  BY <1>2, <1>3, <1>5, <1>6, <1>7, <1>8, <1>9

(* The rules of the grammar, one by one. A packet that there was memory for, or not. *)
LEMMA UseOn ==
  ASSUME NEW T, NEW l, Ends(l, T), NEW p, On(p, l), p.curr.tok = "number", NEW k
  PROVE  On(DSL_advance([p EXCEPT !.packet = k]), l)
  <1> DEFINE r == [p EXCEPT !.packet = k]
  <1>1. On(r, l) /\ r.curr = p.curr  BY ResultOn
  <1> HIDE DEF r
  <1>2. r.curr.tok \notin {"stray", "newline", "unknown"}
    <2> DEFINE t == r.curr.tok
    <2>1. t = "number"  BY <1>1
    <2> HIDE DEF t
    <2>2. t \notin {"stray", "newline", "unknown"}  BY <2>1
    <2> QED  BY <2>2 DEF t
  <1>3. On(DSL_advance(r), l)  BY <1>1, <1>2, AdvanceOn
  <1> QED  BY <1>3 DEF r

(* A word, and behind it one that is not read. *)
Pair(t, u, p) == AndThen(DSL_accept(t, p), LAMBDA q : DSL_accept_no_advance(u, q))

(* Such a pair of tokens. *)
LEMMA PairOn ==
  ASSUME NEW T, NEW l, Ends(l, T), NEW p, On(p, l), NEW t,
         t \notin {"stray", "newline", "unknown"}, NEW u, NEW q \in Pair(t, u, p)
  PROVE  On(q, l) /\ (q.ok => q.curr.tok = u)
  <1>1. PICK r \in DSL_accept(t, p) : q \in IF r.ok THEN DSL_accept_no_advance(u, r) ELSE {r}
    BY DEF Pair, AndThen
  <1>2. On(r, l)  BY AcceptOn
  <1>3. CASE r.ok
    <2>1. q \in DSL_accept_no_advance(u, r)  BY <1>1, <1>3
    <2> QED  BY <1>2, <2>1, LookOn
  <1>4. CASE ~ r.ok  BY <1>1, <1>2, <1>4
  <1> QED  BY <1>3, <1>4

(* addr and speed with their numbers. *)
LEMMA NumberOn ==
  ASSUME NEW T, NEW l, Ends(l, T), NEW p, On(p, l),
         NEW q \in DSL_grammar_addr(p) \cup DSL_grammar_speed(p)
  PROVE  On(q, l)
  <1>1. CASE q \in DSL_grammar_addr(p)
    <2> DEFINE t == "addr"
    <2>1. PICK r \in Pair(t, "number", p) :
            q \in IF r.ok THEN {DSL_advance([r EXCEPT !.packet =
                                   DCC_set_address(r.packet, r.curr.value[1] % 256)])}
                  ELSE {r}
      BY <1>1 DEF DSL_grammar_addr, KeywordAndNumber, AndThen, Pair
    <2>2. t \notin {"stray", "newline", "unknown"}  OBVIOUS
    <2> HIDE DEF t
    <2>3. On(r, l) /\ (r.ok => r.curr.tok = "number")  BY <2>1, <2>2, PairOn
    <2> DEFINE k == DCC_set_address(r.packet, r.curr.value[1] % 256)
    <2>4. r.ok => q = DSL_advance([r EXCEPT !.packet = k])  BY <2>1
    <2>5. ~ r.ok => q = r  BY <2>1
    <2> HIDE DEF k
    <2> QED  BY <2>3, <2>4, <2>5, UseOn
  <1>2. CASE q \in DSL_grammar_speed(p)
    <2> DEFINE t == "speed"
    <2>1. PICK r \in Pair(t, "number", p) :
            q \in IF r.ok THEN {DSL_advance([r EXCEPT !.packet =
                                   DCC_set_speed(r.packet, r.curr.value[1] % 256)])}
                  ELSE {r}
      BY <1>2 DEF DSL_grammar_speed, KeywordAndNumber, AndThen, Pair
    <2>2. t \notin {"stray", "newline", "unknown"}  OBVIOUS
    <2> HIDE DEF t
    <2>3. On(r, l) /\ (r.ok => r.curr.tok = "number")  BY <2>1, <2>2, PairOn
    <2> DEFINE k == DCC_set_speed(r.packet, r.curr.value[1] % 256)
    <2>4. r.ok => q = DSL_advance([r EXCEPT !.packet = k])  BY <2>1
    <2>5. ~ r.ok => q = r  BY <2>1
    <2> HIDE DEF k
    <2> QED  BY <2>3, <2>4, <2>5, UseOn
  <1> QED  BY <1>1, <1>2

(* raw, with its bytes and without. *)
LEMMA RawOn ==
  ASSUME NEW T, NEW l, Ends(l, T), NEW p, On(p, l), NEW q \in DSL_grammar_raw(p)
  PROVE  On(q, l)
  <1> DEFINE t == "raw"
  <1>1. PICK r \in Pair(t, "hex", p) :
          q \in IF r.ok THEN {DSL_advance(r),
                              DSL_advance([r EXCEPT !.type = "raw",
                                                    !.packet = BytesOf(r.curr.value)])}
                ELSE {r}
    BY DEF DSL_grammar_raw, AndThen, Pair
  <1>2. t \notin {"stray", "newline", "unknown"}  OBVIOUS
  <1> HIDE DEF t
  <1>3. On(r, l) /\ (r.ok => r.curr.tok = "hex")  BY <1>1, <1>2, PairOn
  <1>4. CASE ~ r.ok  BY <1>1, <1>3, <1>4
  <1>5. CASE r.ok
    <2> DEFINE k == BytesOf(r.curr.value)
               r3 == [r EXCEPT !.type = "raw", !.packet = k]
               w == r.curr.tok
    <2>1. On(r3, l) /\ r3.curr = r.curr  BY <1>3, ResultOn
    <2>2. q \in {DSL_advance(r), DSL_advance(r3)}  BY <1>1, <1>5
    <2> HIDE DEF k, r3
    <2>3. w \notin {"stray", "newline", "unknown"}
      <3>1. w = "hex"  BY <1>3, <1>5
      <3> HIDE DEF w
      <3> QED  BY <3>1
    <2>4. On(DSL_advance(r), l)  BY <1>3, <2>3, AdvanceOn
    <2>5. r3.curr.tok \notin {"stray", "newline", "unknown"}  BY <2>1, <2>3
    <2>6. On(DSL_advance(r3), l)  BY <2>1, <2>5, AdvanceOn
    <2> QED  BY <2>2, <2>4, <2>6
  <1> QED  BY <1>4, <1>5

(* help, show and what stands behind them. *)
LEMMA HelpOn ==
  ASSUME NEW T, NEW l, Ends(l, T), NEW p, On(p, l),
         NEW q \in DSL_grammar_help(p) \cup DSL_grammar_show(p)
  PROVE  On(q, l)
  <1>1. CASE q \in DSL_grammar_help(p)
    <2> DEFINE t == "help"
    <2>1. PICK r \in DSL_accept(t, p) : q \in IF r.ok THEN NewCommand(r, t, <<>>) ELSE {r}
      BY <1>1 DEF DSL_grammar_help, AndThen
    <2>2. t \notin {"stray", "newline", "unknown"}  OBVIOUS
    <2> HIDE DEF t
    <2>3. On(r, l)  BY <2>1, <2>2, AcceptOn
    <2> QED  BY <2>1, <2>3, ResultOn
  <1>2. CASE q \in DSL_grammar_show(p)
    <2> DEFINE t == "show"
               u == "status"
    <2>1. PICK r \in Pair(t, u, p) : q \in IF r.ok THEN NewCommand(r, u, <<>>) ELSE {r}
      BY <1>2 DEF DSL_grammar_show, AndThen, Pair
    <2>2. t \notin {"stray", "newline", "unknown"}  OBVIOUS
    <2> HIDE DEF t, u
    <2>3. On(r, l)  BY <2>1, <2>2, PairOn
    <2> QED  BY <2>1, <2>3, ResultOn
  <1> QED  BY <1>1, <1>2

(* cache, with its subcommands. *)
LEMMA CacheOn ==
  ASSUME NEW T, NEW l, Ends(l, T), NEW p, On(p, l), NEW q \in DSL_grammar_cache(p)
  PROVE  On(q, l)
  <1> DEFINE cache == "cache"
             show == "show"
             Clear(s) == AndThen(DSL_accept_no_advance("clear", s),
                                 LAMBDA r : NewCommand(r, "clear", <<>>))
             Show(s) == AndThen(Pair(show, "number", s),
                                LAMBDA r : NewCommand(r, show, r.curr.value))
  <1>1. PICK r1 \in DSL_accept(cache, p) :
          q \in IF r1.ok THEN OrElse(Clear(r1), Show) ELSE {r1}
    BY DEF DSL_grammar_cache, AndThen, Pair
  <1>2. /\ cache \notin {"stray", "newline", "unknown"}
        /\ show \notin {"stray", "newline", "unknown"}
    OBVIOUS
  <1> HIDE DEF cache, show
  <1>3. On(r1, l)  BY <1>1, <1>2, AcceptOn
  <1>4. CASE ~ r1.ok  BY <1>1, <1>3, <1>4
  <1>5. CASE r1.ok
    <2>1. PICK r2 \in Clear(r1) : q \in IF r2.ok THEN {r2} ELSE Show(r2)
      BY <1>1, <1>5 DEF OrElse
    <2>2. PICK r3 \in DSL_accept_no_advance("clear", r1) :
            r2 \in IF r3.ok THEN NewCommand(r3, "clear", <<>>) ELSE {r3}
      BY <2>1 DEF AndThen
    <2>3. On(r3, l)  BY <1>3, <2>2, LookOn
    <2>4. On(r2, l)  BY <2>2, <2>3, ResultOn
    <2>5. CASE r2.ok  BY <2>1, <2>4, <2>5
    <2>6. CASE ~ r2.ok
      <3>1. PICK r \in Pair(show, "number", r2) :
              q \in IF r.ok THEN NewCommand(r, show, r.curr.value) ELSE {r}
        BY <2>1, <2>6 DEF AndThen
      <3> HIDE DEF Clear, Show
      <3>2. On(r, l)  BY <1>2, <2>4, <3>1, PairOn
      <3> DEFINE v == r.curr.value
      <3>3. q \in IF r.ok THEN NewCommand(r, show, v) ELSE {r}  BY <3>1
      <3> HIDE DEF v
      <3> QED  BY <3>2, <3>3, ResultOn
    <2> QED  BY <2>5, <2>6
  <1> QED  BY <1>4, <1>5

(* forward and reverse. *)
LEMMA MoveOn ==
  ASSUME NEW T, NEW l, Ends(l, T), NEW p, On(p, l), NEW t,
         t \notin {"stray", "newline", "unknown"}, NEW d, NEW q \in Move(t, d, p)
  PROVE  On(q, l)
  <1> DEFINE new(s) == NewPacket(s, DCC_baseline_packet_create)
             Baseline(s) == {new(s)}
             AddrSpeed(s) == AndThen(DSL_grammar_addr(s), DSL_grammar_speed)
             SpeedAddr(s) == AndThen(DSL_grammar_speed(s), DSL_grammar_addr)
             Finish(s) == {[s EXCEPT !.packet =
               DCC_set_direction(DCC_set_speed_direction_preamble(DCC_set_preamble(@)), d)]}
             Both(s) == OrElse(AndThen(Baseline(s), AddrSpeed), SpeedAddr)
  <1>1. PICK r1 \in DSL_accept(t, p) :
          q \in IF r1.ok THEN AndThen(Both(r1), Finish) ELSE {r1}
    BY DEF Move, AndThen
  <1>2. On(r1, l)  BY <1>1, AcceptOn
  <1>3. CASE ~ r1.ok  BY <1>1, <1>2, <1>3
  <1>4. CASE r1.ok
    <2>1. PICK r5 \in Both(r1) : q \in IF r5.ok THEN Finish(r5) ELSE {r5}
      BY <1>1, <1>4 DEF AndThen
    <2>2. PICK r4 \in AndThen(Baseline(r1), AddrSpeed) :
            r5 \in IF r4.ok THEN {r4} ELSE SpeedAddr(r4)
      BY <2>1 DEF OrElse
    <2>3. r4 \in IF new(r1).ok THEN AddrSpeed(new(r1)) ELSE {new(r1)}
      BY <2>2 DEF AndThen
    <2> DEFINE r2 == new(r1)
    <2>4. On(r2, l)  BY <1>2, ResultOn
    <2>5. On(r4, l)
      <3>1. CASE r2.ok
        <4>1. PICK r3 \in DSL_grammar_addr(r2) :
                r4 \in IF r3.ok THEN DSL_grammar_speed(r3) ELSE {r3}
          BY <2>3, <3>1 DEF AndThen
        <4> HIDE DEF r2, new, Baseline, AddrSpeed, SpeedAddr, Finish, Both
        <4>2. On(r3, l)  BY <2>4, <4>1, NumberOn
        <4>3. CASE r3.ok
          <5>1. r4 \in DSL_grammar_speed(r3)  BY <4>1, <4>3
          <5> QED  BY <4>2, <5>1, NumberOn
        <4>4. CASE ~ r3.ok  BY <4>1, <4>2, <4>4
        <4> QED  BY <4>3, <4>4
      <3>2. CASE ~ r2.ok  BY <2>3, <2>4, <3>2
      <3> QED  BY <3>1, <3>2
    <2>6. On(r5, l)
      <3>1. CASE r4.ok  BY <2>2, <2>5, <3>1
      <3>2. CASE ~ r4.ok
        <4>1. PICK r \in DSL_grammar_speed(r4) :
                r5 \in IF r.ok THEN DSL_grammar_addr(r) ELSE {r}
          BY <2>2, <3>2 DEF AndThen
        <4> HIDE DEF r2, new, Baseline, AddrSpeed, SpeedAddr, Finish, Both
        <4>2. On(r, l)  BY <2>5, <4>1, NumberOn
        <4>3. CASE r.ok
          <5>1. r5 \in DSL_grammar_addr(r)  BY <4>1, <4>3
          <5> QED  BY <4>2, <5>1, NumberOn
        <4>4. CASE ~ r.ok  BY <4>1, <4>2, <4>4
        <4> QED  BY <4>3, <4>4
      <3> QED  BY <3>1, <3>2
    <2> DEFINE k == DCC_set_direction(DCC_set_speed_direction_preamble(
                      DCC_set_preamble(r5.packet)), d)
    <2>7. q = r5 \/ q = [r5 EXCEPT !.packet = k]  BY <2>1
    <2> HIDE DEF k, r2, new, Baseline, AddrSpeed, SpeedAddr, Finish, Both
    <2> QED  BY <2>6, <2>7, ResultOn, ZenonT(60)
  <1> QED  BY <1>3, <1>4

(* The stop, of one loco or of all. *)
LEMMA StopOn ==
  ASSUME NEW T, NEW l, Ends(l, T), NEW p, On(p, l), NEW q \in DSL_grammar_stop(p)
  PROVE  On(q, l)
  <1> DEFINE stop == "stop"
             all == "all"
             new(s) == NewPacket(s, DCC_set_preamble(DCC_baseline_packet_create))
             Baseline(s) == {new(s)}
             Loco(s) == AndThen(DSL_grammar_addr(s), LAMBDA r :
               {[r EXCEPT !.packet = DCC_set_speed(DCC_set_speed_direction_preamble(@), 0)]})
             All(s) == AndThen(DSL_accept(all, s), LAMBDA r :
               {[r EXCEPT !.packet = DCC_special_emergency_stop_packet]})
             Stop(s) == {Accepted([s EXCEPT !.packet = DCC_special_broadcast_stop_packet])}
             LocoAll(s) == OrElse(AndThen(Baseline(s), Loco), All)
  <1>1. PICK r1 \in DSL_accept(stop, p) :
          q \in IF r1.ok THEN OrElse(LocoAll(r1), Stop) ELSE {r1}
    BY DEF DSL_grammar_stop, AndThen
  <1>2. /\ stop \notin {"stray", "newline", "unknown"}
        /\ all \notin {"stray", "newline", "unknown"}
    OBVIOUS
  <1> HIDE DEF stop, all
  <1>3. On(r1, l)  BY <1>1, <1>2, AcceptOn
  <1>4. CASE ~ r1.ok  BY <1>1, <1>3, <1>4
  <1>5. CASE r1.ok
    <2>1. PICK r5 \in LocoAll(r1) : q \in IF r5.ok THEN {r5} ELSE Stop(r5)
      BY <1>1, <1>5 DEF OrElse
    <2>2. PICK r4 \in AndThen(Baseline(r1), Loco) : r5 \in IF r4.ok THEN {r4} ELSE All(r4)
      BY <2>1 DEF OrElse
    <2>3. r4 \in IF new(r1).ok THEN Loco(new(r1)) ELSE {new(r1)}
      BY <2>2 DEF AndThen
    <2> DEFINE r2 == new(r1)
    <2>4. On(r2, l)  BY <1>3, ResultOn
    <2>5. On(r4, l)
      <3>1. CASE r2.ok
        <4>1. PICK r3 \in DSL_grammar_addr(r2) :
                r4 \in IF r3.ok THEN {[r3 EXCEPT !.packet =
                         DCC_set_speed(DCC_set_speed_direction_preamble(r3.packet), 0)]}
                       ELSE {r3}
          BY <2>3, <3>1 DEF AndThen
        <4> HIDE DEF r2, new, Baseline, Loco, All, Stop, LocoAll
        <4>2. On(r3, l)  BY <2>4, <4>1, NumberOn
        <4> DEFINE k == DCC_set_speed(DCC_set_speed_direction_preamble(r3.packet), 0)
        <4>3. r4 = r3 \/ r4 = [r3 EXCEPT !.packet = k]  BY <4>1
        <4> HIDE DEF k
        <4> QED  BY <4>2, <4>3, ResultOn, ZenonT(60)
      <3>2. CASE ~ r2.ok  BY <2>3, <2>4, <3>2
      <3> QED  BY <3>1, <3>2
    <2>6. On(r5, l)
      <3>1. CASE r4.ok  BY <2>2, <2>5, <3>1
      <3>2. CASE ~ r4.ok
        <4>1. PICK r \in DSL_accept(all, r4) :
                r5 \in IF r.ok THEN {[r EXCEPT !.packet = DCC_special_emergency_stop_packet]}
                       ELSE {r}
          BY <2>2, <3>2 DEF AndThen
        <4> HIDE DEF r2, new, Baseline, Loco, All, Stop, LocoAll
        <4>2. On(r, l)  BY <1>2, <2>5, <4>1, AcceptOn
        <4> DEFINE k == DCC_special_emergency_stop_packet
        <4>3. r5 = r \/ r5 = [r EXCEPT !.packet = k]  BY <4>1
        <4> HIDE DEF k
        <4> QED  BY <4>2, <4>3, ResultOn, ZenonT(60)
      <3> QED  BY <3>1, <3>2
    <2>7. q = r5 \/ q = Accepted([r5 EXCEPT !.packet = DCC_special_broadcast_stop_packet])
      BY <2>1
    <2> HIDE DEF r2, new, Baseline, Loco, All, Stop, LocoAll
    <2> QED  BY <2>6, <2>7, ResultOn
  <1> QED  BY <1>4, <1>5

(* DSL_parse tries its rules in turn, each from where the last one failed. *)
Tried(p, q, S) == IF p.ok THEN q = p ELSE q \in S

(* DSL_parse, as far as it gets. *)
LEMMA ParseOn ==
  ASSUME NEW T, NEW l, Ends(l, T), NEW p, On(p, l), NEW q \in DSL_parse(p)
  PROVE  On(q, l)
  <1> DEFINE Helped(s) == OrElse(DSL_grammar_raw(s), DSL_grammar_help)
             Shown(s) == OrElse(Helped(s), DSL_grammar_show)
             Kept(s) == OrElse(Shown(s), DSL_grammar_cache)
             Forth(s) == OrElse(Kept(s), DSL_grammar_forward)
             Back(s) == OrElse(Forth(s), DSL_grammar_reverse)
  <1>1. q \in OrElse(Back(p), DSL_grammar_stop)  BY DEF DSL_parse
  <1>2. PICK f \in Back(p) : Tried(f, q, DSL_grammar_stop(f))  BY <1>1 DEF OrElse, Tried
  <1>3. PICK e \in Forth(p) : Tried(e, f, DSL_grammar_reverse(e))  BY <1>2 DEF OrElse, Tried
  <1>4. PICK d \in Kept(p) : Tried(d, e, DSL_grammar_forward(d))  BY <1>3 DEF OrElse, Tried
  <1>5. PICK c \in Shown(p) : Tried(c, d, DSL_grammar_cache(c))  BY <1>4 DEF OrElse, Tried
  <1>6. PICK b \in Helped(p) : Tried(b, c, DSL_grammar_show(b))  BY <1>5 DEF OrElse, Tried
  <1>7. PICK a \in DSL_grammar_raw(p) : Tried(a, b, DSL_grammar_help(a))
    BY <1>6 DEF OrElse, Tried
  <1> HIDE DEF Helped, Shown, Kept, Forth, Back
  <1>8. On(a, l)  BY <1>7, RawOn
  <1>9. On(b, l)  BY <1>7, <1>8, HelpOn DEF Tried
  <1>10. On(c, l)  BY <1>6, <1>9, HelpOn DEF Tried
  <1>11. On(d, l)  BY <1>5, <1>10, CacheOn DEF Tried
  <1> DEFINE forward == "forward"
             reverse == "reverse"
  <1>12. /\ forward \notin {"stray", "newline", "unknown"}
         /\ reverse \notin {"stray", "newline", "unknown"}
         /\ DSL_grammar_forward(d) = Move(forward, 1, d)
         /\ DSL_grammar_reverse(e) = Move(reverse, 0, e)
    BY DEF DSL_grammar_forward, DSL_grammar_reverse
  <1> HIDE DEF forward, reverse
  <1>13. On(e, l)  BY <1>4, <1>11, <1>12, MoveOn DEF Tried
  <1>14. On(f, l)  BY <1>3, <1>13, <1>12, MoveOn DEF Tried
  <1> QED  BY <1>2, <1>14, StopOn DEF Tried

(* Wherever a parse ends, its last token is one of those it was given. *)
LEMMA ParserOn ==
  ASSUME NEW T, NEW l, Ends(l, T), NEW q \in DSL_parser_start(l)
  PROVE  On(q, l)
  <1> DEFINE p0 == [rest |-> l, curr |-> newline, ok |-> FALSE, type |-> "undef",
                    packet |-> <<>>, cmd |-> <<>>, lost |-> 0]
             p == DSL_advance(p0)
             n == Len(l)
  <1>1. PICK r \in DSL_parse(p) : q = IF r.ok THEN Finished(r) ELSE Trashed(r)
    BY DEF DSL_parser_start
  <1>2. DOMAIN p = Fields /\ p.curr = Head(l) /\ p.rest = Tail(l)  BY DEF DSL_advance, Fields
  <1>3. l \in Seq(T) /\ n \in Nat /\ n >= 1  BY DEF Ends
  <1>4. Head(l) = l[1] /\ Tail(l) = SubSeq(l, 1 + 1, n)
    <2>1. Tail(l) = SubSeq(l, 2, Len(l))  BY <1>3, TailIsSubSeq DEF Ends
    <2>2. Head(l) = l[1]  BY <1>3 DEF Ends
    <2> QED  BY <2>1, <2>2
  <1>5. 1 \in 1 .. n  BY <1>3
  <1> HIDE DEF p0, p, n
  <1>6. On(p, l)  BY <1>2, <1>4, <1>5 DEF On, n
  <1>7. On(r, l)  BY <1>1, <1>6, ParseOn
  <1>8. DOMAIN r = Fields  BY <1>7 DEF On
  <1>9. DOMAIN Finished(r) = Fields /\ Finished(r).curr = r.curr /\ Finished(r).rest = r.rest
    BY <1>8 DEF Finished, Fields
  <1>10. DOMAIN Trashed(r) = Fields /\ Trashed(r).curr = r.curr /\ Trashed(r).rest = r.rest
    BY <1>8 DEF Trashed, Fields
  <1>11. On(Finished(r), l)  BY <1>7, <1>9, StayOn
  <1>12. On(Trashed(r), l)  BY <1>7, <1>10, StayOn
  <1> QED  BY <1>1, <1>11, <1>12

(* THE RING OF THE TERMINAL *)

(* The rings of characters; the count may exceed the slots. *)
Rings == [buf : [0 .. RingSize - 1 -> Chars], size : {RingSize},
          count : Int, start : 0 .. RingSize - 1]

(* What each variable holds. *)
TerminalTypes ==
  /\ line \in Seq(Chars)
  /\ fifo \in Seq([char : Chars, FE0 : BOOLEAN]) /\ Len(fifo) <= FifoSize
  /\ unget \in Seq(Chars) /\ Len(unget) <= 1 /\ heard \in Seq(Chars)
  /\ rx \in Rings /\ typed \in Seq(Chars)
  /\ pc \in {"idle", "poll", "read", "cut", "ended", "prompt", "obeyed", "refused"}

(* Of what was typed the last characters, as many as there are slots, are each in its own. *)
Held(r, t) == /\ r.count = Len(t)
              /\ \A j \in 1 .. Len(t) :
                   j + RingSize > Len(t) => r.buf[(r.start + j - 1) % RingSize] = t[j]

(* A line that is not finished is being polled for, or an error ended it. *)
Unfinished(t) == t # <<>> /\ t[Len(t)] # "\n"

(* The inductive invariant: the ring holds the end of what was typed, also where more was
   typed than it has slots, main reads only where there is something to read, and leaves a
   line only with its newline or after an error. *)
TerminalInv == /\ TerminalTypes
               /\ Held(rx, typed)
               /\ pc = "read" => Stream # <<>>
               /\ Unfinished(typed) => pc = "poll" \/ Flagged

(* Two places apart by less than the slots have different slots. *)
LEMMA SlotsApart ==
  ASSUME NEW a \in Int, NEW b \in Int, a < b, b < a + RingSize
  PROVE  a % RingSize # b % RingSize
  <1> DEFINE n == RingSize
             x == a \div n
             y == b \div n
             z == a % n
  <1>1. n \in Nat \ {0}  BY TerminalAssumption
  <1>2. SUFFICES ASSUME a % n = b % n PROVE FALSE  OBVIOUS
  <1>3. /\ a = n * x + z /\ z \in 0 .. n - 1 /\ x \in Int
        /\ b = n * y + z /\ y \in Int
    BY <1>1, <1>2, Division
  <1> HIDE DEF n, x, y, z
  <1>4. a < b /\ b < a + n  BY DEF n
  <1> DEFINE d == y - x
  <1>5. d \in Int /\ n * d = b - a  BY <1>1, <1>3
  <1> HIDE DEF d
  <1>6. d >= 1 \/ d <= 0  BY <1>5
  <1>7. CASE d >= 1
    <2>1. n * d >= n  BY <1>1, <1>5, <1>7
    <2> QED  BY <1>1, <1>4, <1>5, <2>1
  <1>8. CASE d <= 0
    <2>1. n * d <= 0  BY <1>1, <1>5, <1>8
    <2> QED  BY <1>1, <1>4, <1>5, <2>1
  <1> QED  BY <1>6, <1>7, <1>8

(* A character pushed is the last one held; if the ring is full, it takes the slot of the
   first that was. *)
LEMMA PushHeld ==
  ASSUME NEW r \in Rings, NEW t \in Seq(Chars), Held(r, t), NEW c \in Chars
  PROVE  Ring_push(r, c) \in Rings /\ Held(Ring_push(r, c), Append(t, c))
  <1> DEFINE n == RingSize
             N == Len(t)
             q == Ring_push(r, c)
             u == Append(t, c)
             i == (r.start + N) % n
  <1>1. /\ n \in Nat \ {0} /\ N \in Nat
        /\ r.buf \in [0 .. n - 1 -> Chars] /\ r.size = n /\ r.start \in 0 .. n - 1
        /\ r.count = N
    BY TerminalAssumption DEF Rings, Held
  <1>2. i \in 0 .. n - 1
    <2>1. r.start + N \in Nat  BY <1>1
    <2> HIDE DEF n, N
    <2> QED  BY <1>1, <2>1, ModRange
  <1>3. /\ q = [buf |-> [r.buf EXCEPT ![i] = c], size |-> n, count |-> N + 1,
                start |-> r.start]
    BY <1>1 DEF Ring_push, RingSlot
  <1>4. Len(u) = N + 1 /\ u[N + 1] = c /\ \A j \in 1 .. N : u[j] = t[j]  OBVIOUS
  <1>5. \A j \in 1 .. N : j + n > N => r.buf[(r.start + j - 1) % n] = t[j]  BY DEF Held
  <1> HIDE DEF q, u, n, N, i
  <1>6. q \in Rings  BY <1>1, <1>2, <1>3 DEF Rings, n
  <1>7. ASSUME NEW j \in 1 .. N + 1, j + n > N + 1
        PROVE  q.buf[(q.start + j - 1) % n] = u[j]
    <2>1. CASE j = N + 1
      <3>1. (q.start + j - 1) % n = i
        <4>1. q.start + j - 1 = r.start + N  BY <1>1, <1>3, <2>1
        <4> QED  BY <4>1 DEF i
      <3>2. q.buf[i] = c  BY <1>1, <1>2, <1>3
      <3> QED  BY <1>4, <2>1, <3>1, <3>2
    <2>2. CASE j # N + 1
      <3> DEFINE a == r.start + j - 1
                 b == r.start + N
      <3>1. j \in 1 .. N /\ j + n > N /\ a \in Nat /\ b \in Nat /\ a < b /\ b < a + n
        BY <1>1, <1>7, <2>2
      <3>2. q.start + j - 1 = a  BY <1>3
      <3>3. i = b % n  BY DEF i
      <3> HIDE DEF a, b
      <3>4. a % n # i  BY <3>1, <3>3, SlotsApart DEF n
      <3>5. a % n \in 0 .. n - 1  BY <1>1, <3>1, ModRange
      <3>6. q.buf[a % n] = r.buf[a % n]  BY <1>1, <1>3, <3>4, <3>5
      <3>7. r.buf[a % n] = t[j]  BY <1>5, <3>1 DEF a
      <3> QED  BY <1>4, <3>1, <3>2, <3>6, <3>7
    <2> QED  BY <2>1, <2>2
  <1>8. q.count = N + 1  BY <1>3
  <1>9. Held(q, u)  BY <1>4, <1>7, <1>8 DEF Held, n
  <1> QED  BY <1>6, <1>9 DEF q, u

(* A remainder may be taken before something is added, too. *)
LEMMA RemainderPlus ==
  ASSUME NEW x \in Int, NEW y \in Int
  PROVE  ((x % RingSize) + y) % RingSize = (x + y) % RingSize
  <1> DEFINE n == RingSize
             z == x % n
             q == x \div n
             w == (z + y) % n
             p == (z + y) \div n
  <1>1. n \in Nat \ {0}  BY TerminalAssumption
  <1>2. x = n * q + z /\ z \in 0 .. n - 1 /\ q \in Int  BY <1>1, Division
  <1>3. z + y \in Int  BY <1>2
  <1>4. z + y = n * p + w /\ w \in 0 .. n - 1 /\ p \in Int  BY <1>1, <1>3, Division
  <1> HIDE DEF n, z, q, w, p
  <1> DEFINE k == q + p
  <1>5. k \in Int /\ n * k = n * q + n * p /\ n * q \in Int /\ n * p \in Int
    BY <1>1, <1>2, <1>4
  <1> HIDE DEF k
  <1> DEFINE b == x + y
  <1>6. b \in Int /\ b = n * k + w  BY <1>1, <1>2, <1>4, <1>5
  <1> HIDE DEF b
  <1>7. b % n = w  BY <1>1, <1>4, <1>5, <1>6, RemainderIs
  <1> QED  BY <1>7 DEF b, w, z, n

(* What m pops leave of a ring. *)
Popped(q, r, m) == /\ q.buf = r.buf /\ q.count = r.count - m
                   /\ q.start = (r.start + m) % RingSize

(* The pops of a parse, counted. *)
LEMMA Popping ==
  ASSUME NEW r \in Rings, NEW N \in Nat, NEW f \in [0 .. N -> Rings], f[0] = r,
         \A k \in 1 .. N : f[k] = Ring_pop(f[k - 1]), NEW m \in 0 .. N
  PROVE  Popped(f[m], r, m)
  <1> DEFINE n == RingSize
             T == {k \in 0 .. N : ~ Popped(f[k], r, k)}
  <1>1. n \in Nat \ {0}  BY TerminalAssumption
  <1>2. r.start \in 0 .. n - 1 /\ r.count \in Int  BY DEF Rings
  <1>3. Popped(f[0], r, 0)
    <2> DEFINE b == r.start
    <2>1. b \in Int /\ b = n * 0 + b /\ b \in 0 .. n - 1 /\ 0 \in Int  BY <1>1, <1>2
    <2> HIDE DEF b, n
    <2>2. b % n = b  BY <1>1, <2>1, RemainderIs
    <2>3. b + 0 = b /\ r.count - 0 = r.count  BY <1>2, <2>1
    <2> QED  BY <2>2, <2>3 DEF Popped, b, n
  <1>4. ASSUME NEW k \in 1 .. N, Popped(f[k - 1], r, k - 1)
        PROVE  Popped(f[k], r, k)
    <2> HIDE DEF T
    <2> DEFINE q == f[k - 1]
               a == r.start + (k - 1)
    <2>1. q \in Rings
      <3>1. k - 1 \in 0 .. N  OBVIOUS
      <3> QED  BY <3>1
    <2>2. f[k] = Ring_pop(q)  OBVIOUS
    <2>3. q.buf = r.buf /\ q.count = r.count - (k - 1) /\ q.start = a % n
      BY <1>4 DEF Popped
    <2>4. a \in Int /\ a + 1 = r.start + k /\ (r.count - (k - 1)) - 1 = r.count - k  BY <1>2
    <2> HIDE DEF q, a
    <2>5. ((a % n) + 1) % n = (a + 1) % n  BY <2>4, RemainderPlus
    <2>6. q.size = n  BY <2>1 DEF Rings
    <2>7. /\ Ring_pop(q).buf = q.buf /\ Ring_pop(q).count = q.count - 1
          /\ Ring_pop(q).start = (q.start + 1) % n
      BY <2>6 DEF Ring_pop, RingSlot
    <2> QED  BY <2>2, <2>3, <2>4, <2>5, <2>7 DEF Popped
  <1> HIDE DEF n
  <1>5. T = {}
    <2> SUFFICES ASSUME T # {} PROVE FALSE  OBVIOUS
    <2>1. T \in SUBSET Nat  OBVIOUS
    <2>2. PICK k \in T : \A y \in T : k <= y  BY <2>1, LeastNatural
    <2>3. k \in 0 .. N /\ ~ Popped(f[k], r, k)  BY <2>2
    <2>4. k # 0  BY <1>3, <2>3
    <2>5. k \in 1 .. N /\ k - 1 \in 0 .. N /\ ~ (k <= k - 1)  BY <2>3, <2>4
    <2>6. Popped(f[k - 1], r, k - 1)  BY <2>2, <2>5
    <2> QED  BY <1>4, <2>3, <2>5, <2>6
  <1> QED  BY <1>5

(* What is left holds what is left of what was typed. *)
LEMMA PoppedHeld ==
  ASSUME NEW r \in Rings, NEW t \in Seq(Chars), Held(r, t), NEW m \in 0 .. Len(t),
         NEW q \in Rings, Popped(q, r, m)
  PROVE  /\ Held(q, Left(t, m)) /\ Left(t, m) \in Seq(Chars) /\ Len(Left(t, m)) = Len(t) - m
         /\ Unfinished(Left(t, m)) => Unfinished(t)
  <1> DEFINE n == RingSize
             N == Len(t)
             u == Left(t, m)
  <1>1. /\ n \in Nat \ {0} /\ N \in Nat /\ m \in Nat /\ m <= N
        /\ r.start \in 0 .. n - 1 /\ r.count = N
    BY TerminalAssumption DEF Rings, Held
  <1>2. u \in Seq(Chars) /\ Len(u) = N - m /\ \A k \in 1 .. N - m : u[k] = t[m + k]  BY Lefts
  <1>3. \A j \in 1 .. N : j + n > N => r.buf[(r.start + j - 1) % n] = t[j]  BY DEF Held
  <1>4. q.buf = r.buf /\ q.count = N - m /\ q.start = (r.start + m) % n  BY <1>1 DEF Popped
  <1>5. Unfinished(u) => Unfinished(t)
    <2> SUFFICES ASSUME Unfinished(u) PROVE Unfinished(t)  OBVIOUS
    <2>1. u # <<>> /\ u[Len(u)] # "\n"  BY DEF Unfinished
    <2> DEFINE b == N - m
    <2>2. b \in Nat /\ Len(u) = b  BY <1>1, <1>2
    <2>3. b # 0  BY <1>2, <2>1, <2>2
    <2> HIDE DEF u
    <2>4. b \in 1 .. N - m /\ m + b = N  BY <1>1, <2>2, <2>3
    <2>5. u[b] = t[N]  BY <1>2, <2>4
    <2>6. t # <<>>  BY <1>1, <2>3
    <2> QED  BY <2>1, <2>2, <2>5, <2>6 DEF Unfinished
  <1> HIDE DEF n, N, u
  <1>6. ASSUME NEW j \in 1 .. N - m, j + n > N - m
        PROVE  q.buf[(q.start + j - 1) % n] = u[j]
    <2> DEFINE a == r.start + m
               k == m + j
    <2>1. a \in Int /\ k \in 1 .. N /\ k + n > N /\ j - 1 \in Int /\ a + (j - 1) = r.start + k - 1
      BY <1>1, <1>6
    <2>2. q.start = a % n  BY <1>4
    <2>3. a % n \in Int  BY <1>1, <2>1
    <2> HIDE DEF a
    <2>4. ((a % n) + (j - 1)) % n = (a + (j - 1)) % n  BY <2>1, RemainderPlus DEF n
    <2>5. (q.start + j - 1) % n = (r.start + k - 1) % n
      <3>1. q.start + j - 1 = (a % n) + (j - 1)  BY <2>2, <2>3
      <3> QED  BY <2>1, <2>4, <3>1
    <2>6. r.buf[(r.start + k - 1) % n] = t[k]  BY <1>3, <2>1
    <2>7. u[j] = t[k]  BY <1>2
    <2> QED  BY <1>4, <2>5, <2>6, <2>7
  <1>7. Held(q, u)  BY <1>2, <1>4, <1>6 DEF Held, n
  <1> QED  BY <1>2, <1>5, <1>7 DEF u, N

(* A pop leaves a ring. *)
LEMMA PopIsRing ==
  ASSUME NEW r \in Rings
  PROVE  Ring_pop(r) \in Rings
  <1>1. RingSize \in Nat \ {0}  BY TerminalAssumption
  <1>2. /\ r.buf \in [0 .. RingSize - 1 -> Chars] /\ r.size = RingSize
        /\ r.count \in Int /\ r.start \in Nat
    BY <1>1 DEF Rings
  <1>3. r.start + 1 \in Nat  BY <1>2
  <1>4. (r.start + 1) % RingSize \in 0 .. RingSize - 1  BY <1>1, <1>3, ModRange
  <1>5. r.count - 1 \in Int  BY <1>2
  <1> QED  BY <1>2, <1>4, <1>5 DEF Ring_pop, RingSlot, Rings

(* A parse takes what it has read out of the ring, and leaves the rest of what was typed. *)
LEMMA PopToHeld ==
  ASSUME rx \in Rings, typed \in Seq(Chars), Held(rx, typed), NEW n \in 0 .. Len(typed),
         PopTo(n)
  PROVE  /\ rx' \in Rings /\ typed' \in Seq(Chars) /\ Held(rx', typed') /\ Len(typed') = n
         /\ Unfinished(typed') => Unfinished(typed)
  <1> DEFINE N == Len(typed)
             m == N - n
             g == [r \in Rings |-> Ring_pop(r)]
             popped[k \in 0 .. rx.count] == IF k = 0 THEN rx ELSE Ring_pop(popped[k - 1])
  <1>1. N \in Nat /\ n \in Nat /\ n <= N /\ m \in 0 .. N /\ rx.count = N /\ N - m = n
    BY DEF Held
  <1>2. rx' = popped[m] /\ typed' = Left(typed, m)  BY <1>1 DEF PopTo
  <1>3. g \in [Rings -> Rings]  BY PopIsRing
  <1> HIDE DEF g, m
  <1>4. PICK f : Iterates(f, Rings, rx, g, N)
    <2> HIDE DEF N, popped
    <2> QED  BY <1>1, <1>3, Iterating
  <1>5. /\ f \in [0 .. N -> Rings] /\ f[0] = rx
        /\ \A k \in 1 .. N : f[k] = g[f[k - 1]]
    BY <1>4 DEF Iterates
  <1>6. \A k \in 1 .. N : f[k] = Ring_pop(f[k - 1])
    <2> HIDE DEF popped
    <2> SUFFICES ASSUME NEW k \in 1 .. N PROVE f[k] = Ring_pop(f[k - 1])  OBVIOUS
    <2>1. k - 1 \in 0 .. N  BY <1>1
    <2>2. f[k - 1] \in Rings  BY <1>5, <2>1
    <2> QED  BY <1>5, <2>2 DEF g
  <1>7. f = [k \in 0 .. rx.count |-> IF k = 0 THEN rx ELSE Ring_pop(f[k - 1])]
    <2> HIDE DEF popped, N
    <2>1. \A k \in 0 .. N : f[k] = IF k = 0 THEN rx ELSE Ring_pop(f[k - 1])
      <3> SUFFICES ASSUME NEW k \in 0 .. N
                   PROVE  f[k] = IF k = 0 THEN rx ELSE Ring_pop(f[k - 1])
        OBVIOUS
      <3>1. k = 0 \/ k \in 1 .. N  BY <1>1
      <3> QED  BY <1>5, <1>6, <3>1
    <2>2. f = [k \in 0 .. N |-> IF k = 0 THEN rx ELSE Ring_pop(f[k - 1])]  BY <1>5, <2>1
    <2> QED  BY <1>1, <2>2
  <1>8. popped = [k \in 0 .. rx.count |-> IF k = 0 THEN rx ELSE Ring_pop(popped[k - 1])]
    BY <1>7
  <1> DEFINE b == popped
  <1>9. b = [k \in 0 .. N |-> IF k = 0 THEN rx ELSE Ring_pop(b[k - 1])]  BY <1>1, <1>8
  <1>10. rx' = b[m]  BY <1>2
  <1> HIDE DEF b, popped, N
  <1>11. DOMAIN b = 0 .. N /\ b[0] = rx /\ \A k \in 1 .. N : b[k] = Ring_pop(b[k - 1])
    <2>1. 0 \in 0 .. N /\ \A k \in 1 .. N : k \in 0 .. N /\ k # 0  BY <1>1
    <2> QED  BY <1>9, <2>1
  <1> DEFINE T == {k \in 0 .. N : b[k] # f[k]}
  <1>12. T = {}
    <2> SUFFICES ASSUME T # {} PROVE FALSE  OBVIOUS
    <2>1. T \in SUBSET Nat  BY <1>1
    <2>2. PICK k \in T : \A y \in T : k <= y  BY <2>1, LeastNatural
    <2>3. k \in 0 .. N /\ b[k] # f[k]  BY <2>2
    <2>4. k # 0  BY <1>5, <1>11, <2>3
    <2>5. k \in 1 .. N /\ k - 1 \in 0 .. N /\ ~ (k <= k - 1)  BY <1>1, <2>3, <2>4
    <2>6. b[k - 1] = f[k - 1]  BY <2>2, <2>5
    <2> QED  BY <1>6, <1>11, <2>3, <2>5, <2>6
  <1>13. rx' = f[m]  BY <1>1, <1>10, <1>12
  <1> DEFINE q == f[m]
  <1>14. q \in Rings  BY <1>1, <1>5
  <1>15. Popped(q, rx, m)  BY <1>1, <1>5, <1>6, Popping
  <1> HIDE DEF q
  <1>16. /\ Held(q, Left(typed, m)) /\ Left(typed, m) \in Seq(Chars)
         /\ Len(Left(typed, m)) = Len(typed) - m
         /\ Unfinished(Left(typed, m)) => Unfinished(typed)
    BY <1>1, <1>14, <1>15, PoppedHeld DEF N
  <1> QED  BY <1>1, <1>2, <1>13, <1>14, <1>16 DEF q, N

(* What getchar yields is of characters, and what was typed last is at its end. *)
LEMMA StreamType ==
  ASSUME NEW r \in Rings, NEW w \in Seq(Chars), Held(r, w), NEW u \in Seq(Chars), NEW s,
         s = u \o RingSeq(r)
  PROVE  /\ s \in Seq(Chars) /\ Len(s) = Len(u) + Len(w)
         /\ RingSeq(r) \in Seq(Chars) /\ Len(RingSeq(r)) = Len(w)
         /\ w # <<>> => s # <<>> /\ s[Len(s)] = w[Len(w)]
  <1> DEFINE n == RingSize
             N == Len(w)
             t == RingSeq(r)
  <1>1. /\ n \in Nat \ {0} /\ N \in Nat /\ r.count = N
        /\ r.buf \in [0 .. n - 1 -> Chars] /\ r.size = n /\ r.start \in 0 .. n - 1
    BY TerminalAssumption DEF Rings, Held
  <1>2. \A j \in 1 .. N : j + n > N => r.buf[(r.start + j - 1) % n] = w[j]  BY DEF Held
  <1>3. t = [i \in 1 .. N |-> r.buf[(r.start + (i - 1)) % n]]  BY <1>1 DEF RingSeq, RingSlot
  <1> HIDE DEF n, N, t
  <1>4. \A i \in 1 .. N : r.buf[(r.start + (i - 1)) % n] \in Chars
    <2> SUFFICES ASSUME NEW i \in 1 .. N PROVE r.buf[(r.start + (i - 1)) % n] \in Chars
      OBVIOUS
    <2>1. r.start + (i - 1) \in Nat  BY <1>1
    <2>2. (r.start + (i - 1)) % n \in 0 .. n - 1  BY <1>1, <2>1, ModRange
    <2> QED  BY <1>1, <2>2
  <1>5. t \in [1 .. N -> Chars]  BY <1>3, <1>4
  <1>6. t \in Seq(Chars) /\ Len(t) = N  BY <1>1, <1>5
  <1>7. s = u \o t  BY DEF t
  <1>8. s \in Seq(Chars) /\ Len(s) = Len(u) + N
    <2>1. t \in Seq(Chars)  BY <1>6
    <2>2. u \o t \in Seq(Chars)  BY <2>1
    <2>3. Len(u \o t) = Len(u) + Len(t)  BY <2>1
    <2> QED  BY <1>6, <1>7, <2>2, <2>3
  <1>9. ASSUME w # <<>>
        PROVE  s # <<>> /\ s[Len(s)] = w[Len(w)]
    <2>1. N # 0  BY <1>9 DEF N
    <2> DEFINE m == Len(u)
    <2>2. m \in Nat /\ N \in 1 .. N /\ N + n > N  BY <1>1, <2>1
    <2>3. s[m + N] = t[N]
      <3>1. m + N \in 1 .. m + N /\ ~ (m + N <= m) /\ (m + N) - m = N  BY <2>2
      <3> QED  BY <1>6, <1>7, <3>1
    <2>4. t[N] = w[N]
      <3>1. r.start + (N - 1) = r.start + N - 1  BY <1>1
      <3> QED  BY <1>2, <1>3, <2>2, <3>1
    <2>5. Len(s) = m + N  BY <1>8
    <2>6. s # <<>>
      <3>1. m + N # 0  BY <1>1, <2>1, <2>2
      <3> QED  BY <2>5, <3>1
    <2> QED  BY <2>3, <2>4, <2>5, <2>6 DEF N
  <1> QED  BY <1>6, <1>8, <1>9 DEF N, t

(* The scan that a parse ended with is one of the input's. *)
LEMMA ParsesAre ==
  ASSUME Input \in Seq(Chars), NEW parse \in Parses
  PROVE  Scanning(parse.last, Input, Chars)
  <1> DEFINE s == Input
             scans == Scans(s)
             N == Len(scans)
             l == Tokens(scans)
             T == {scans[k].token : k \in 1 .. N}
  <1>1. Calling(scans, s, Chars) /\ ~ IsToken(Last(scans))
    <2> HIDE DEF scans
    <2> QED  BY ScansAre DEF scans
  <1>2. PICK p \in DSL_parser_start(l) :
          parse = [ok |-> p.ok, last |-> scans[N - Len(p.rest)]]
    BY DEF Parses, ParsesOf
  <1> HIDE DEF scans, s
  <1>3. /\ scans \in Seq(AnyScan(Chars)) /\ N \in Nat /\ N >= 1
        /\ \A k \in 1 .. N : Scanning(scans[k], s, Chars)
    BY <1>1 DEF Calling
  <1>4. Ends(l, T) /\ Len(l) = N
    <2>1. DOMAIN scans = 1 .. N  BY <1>3
    <2>2. l = [k \in 1 .. N |-> scans[k].token]  BY <2>1 DEF Tokens
    <2>3. l \in [1 .. N -> T]  BY <2>2
    <2> HIDE DEF N, T
    <2>4. l \in Seq(T) /\ Len(l) = N  BY <1>3, <2>3
    <2>5. l # <<>>
      <3>1. N # 0  BY <1>3
      <3> HIDE DEF l
      <3> QED  BY <2>4, <3>1
    <2>6. l[N] = scans[N].token
      <3>1. N \in 1 .. N  BY <1>3
      <3> QED  BY <2>2, <3>1
    <2>7. scans[N].token.tok \in {"stray", "newline", "unknown"}
      BY <1>1 DEF IsToken, Last, N
    <2> HIDE DEF l
    <2> QED  BY <2>4, <2>5, <2>6, <2>7 DEF Ends
  <1> HIDE DEF l, T
  <1>5. On(p, l)  BY <1>4, ParserOn
  <1>6. PICK i \in 1 .. N : p.rest = SubSeq(l, i + 1, N)  BY <1>4, <1>5 DEF On
  <1> HIDE DEF N
  <1>7. Len(p.rest) = N - i
    <2> DEFINE a == i + 1
    <2>1. l \in Seq(T)  BY <1>4 DEF Ends
    <2>2. a \in Int /\ N \in Int /\ \A j \in a .. N : l[j] \in T
      <3>1. a \in Int /\ N \in Int /\ \A j \in a .. N : j \in 1 .. N  BY <1>3
      <3>2. \A j \in 1 .. N : l[j] \in T  BY <1>4, <2>1
      <3> QED  BY <3>1, <3>2
    <2> HIDE DEF a
    <2>3. Len(SubSeq(l, a, N)) = IF a <= N THEN N - a + 1 ELSE 0  BY <2>2, SubSeqProperties
    <2>4. CASE i = N
      <3>1. ~ (a <= N) /\ N - i = 0  BY <1>3, <2>4 DEF a
      <3> QED  BY <1>6, <2>3, <3>1 DEF a
    <2>5. CASE i # N
      <3>1. a <= N /\ N - a + 1 = N - i  BY <1>3, <2>5 DEF a
      <3> QED  BY <1>6, <2>3, <3>1 DEF a
    <2> QED  BY <2>4, <2>5
  <1>8. N - (N - i) = i  BY <1>3
  <1>9. parse.last = scans[i]  BY <1>2, <1>7, <1>8
  <1> QED  BY <1>3, <1>9 DEF s

(* What the parse has, heard before or not, is of characters. *)
LEMMA InputType ==
  ASSUME TerminalInv
  PROVE  Input \in Seq(Chars)
  <1> DEFINE u == unget
             s == Stream
             e == <<>>
             b == IF pc = "ended" THEN e ELSE s
  <1>1. /\ rx \in Rings /\ typed \in Seq(Chars) /\ Held(rx, typed)
        /\ u \in Seq(Chars) /\ heard \in Seq(Chars)
    BY DEF TerminalInv, TerminalTypes
  <1>2. s = u \o RingSeq(rx)  BY DEF Stream
  <1>3. e \in Seq(Chars)  OBVIOUS
  <1>4. Input = heard \o b  BY DEF Input
  <1> HIDE DEF u, s, e
  <1>5. s \in Seq(Chars)  BY <1>1, <1>2, StreamType
  <1>6. b \in Seq(Chars)  BY <1>3, <1>5
  <1> HIDE DEF b
  <1> QED  BY <1>1, <1>4, <1>6

(* What a parse leaves in the ring was there, and it gives back one character at most. *)
LEMMA LeftToPop ==
  ASSUME TerminalInv, NEW parse \in Parses
  PROVE  /\ LeftInRing(parse) \in 0 .. Len(typed)
         /\ parse.last.back \in Seq(Chars) /\ Len(parse.last.back) <= 1
  <1> DEFINE s == Input
             x == parse.last
             n == Len(x.rest)
             b == Len(typed)
  <1>1. typed \in Seq(Chars) /\ rx.count = b  BY DEF TerminalInv, TerminalTypes, Held
  <1>2. s \in Seq(Chars)  BY InputType
  <1>3. Scanning(x, s, Chars)  BY <1>2, ParsesAre
  <1>4. x.rest \in Seq(Chars) /\ x.back \in Seq(Chars) /\ Len(x.back) <= 1
    BY <1>3 DEF Scanning
  <1>5. n \in Nat /\ b \in Nat  BY <1>1, <1>4
  <1>6. LeftInRing(parse) = IF pc = "ended" THEN b ELSE IF n < b THEN n ELSE b
    BY <1>1 DEF LeftInRing, Upto
  <1> HIDE DEF s, x, n, b
  <1>7. LeftInRing(parse) \in 0 .. b  BY <1>5, <1>6
  <1> QED  BY <1>4, <1>7 DEF b, x

(* IO_module_init: nothing was typed. *)
LEMMA TerminalInvInit == IO_module_init => TerminalInv
  <1> SUFFICES ASSUME IO_module_init PROVE TerminalInv  OBVIOUS
  <1> DEFINE c == "\n"
             b == [k \in 0 .. RingSize - 1 |-> c]
  <1>1. RingSize \in Nat \ {0} /\ FifoSize \in Nat  BY TerminalAssumption
  <1>2. c \in Chars  BY DEF Chars
  <1>3. rx = Ring_create(RingSize, b)  BY DEF IO_module_init
  <1> HIDE DEF c
  <1>4. b \in [0 .. RingSize - 1 -> Chars]  BY <1>2
  <1> HIDE DEF b
  <1>5. rx \in Rings /\ rx.count = 0  BY <1>1, <1>3, <1>4 DEF Ring_create, Ring_reset, Rings
  <1>6. /\ typed = <<>> /\ line = <<>> /\ fifo = <<>> /\ unget = <<>> /\ heard = <<>>
        /\ pc = "idle"
    BY DEF IO_module_init
  <1>7. TerminalTypes  BY <1>1, <1>5, <1>6 DEF TerminalTypes
  <1>8. Held(rx, typed)  BY <1>5, <1>6 DEF Held
  <1>9. ~ Unfinished(typed) /\ pc # "read"  BY <1>6 DEF Unfinished
  <1> QED  BY <1>7, <1>8, <1>9 DEF TerminalInv

(* A frame fits a receiver that is not full. *)
LEMMA AppendFits ==
  ASSUME NEW F, NEW q \in Seq(F), NEW f \in F, NEW n \in Nat, Len(q) < n
  PROVE  Append(q, f) \in Seq(F) /\ Len(Append(q, f)) <= n
  OBVIOUS

(* A text is sent. *)
LEMMA SendKeeps ==
  ASSUME TerminalInv, NEW t \in Text, Send(t)
  PROVE  TerminalInv'
  <1>1. t \in Seq(Chars)
    <2>1. t \in Seq(STRING)  BY TerminalAssumption
    <2>2. STRING \subseteq Chars  BY DEF Chars
    <2> QED  BY <2>1, <2>2, SeqWider
  <1>2. line' = t /\ UNCHANGED <<fifo, overrun, rx, unget, heard, pc, read, typed>>  BY DEF Send
  <1>3. TerminalTypes'  BY <1>1, <1>2 DEF TerminalInv, TerminalTypes
  <1> QED  BY <1>2, <1>3 DEF TerminalInv, Stream, Flagged, RXC0

(* A character comes in: the one at the head of the receiver stays what it was. *)
LEMMA ArriveKeeps ==
  ASSUME TerminalInv, NEW frame \in [char : Chars, FE0 : BOOLEAN], Arrive(frame)
  PROVE  TerminalInv'
  <1> DEFINE F == [char : Chars, FE0 : BOOLEAN]
  <1>1. /\ line \in Seq(Chars) /\ line # <<>> /\ line' = Tail(line)
        /\ fifo \in Seq(F) /\ Len(fifo) <= FifoSize /\ FifoSize \in Nat
        /\ UNCHANGED <<rx, unget, heard, pc, read, typed>>
    BY TerminalAssumption DEF TerminalInv, TerminalTypes, Arrive
  <1>2. \/ Len(fifo) < FifoSize /\ fifo' = Append(fifo, frame) /\ overrun' = overrun
        \/ fifo' = fifo /\ overrun' = TRUE
    BY DEF Arrive
  <1>3. line' \in Seq(Chars)  BY <1>1
  <1>4. fifo' \in Seq(F) /\ Len(fifo') <= FifoSize
    <2>1. frame \in F  OBVIOUS
    <2> HIDE DEF F
    <2>2. CASE Len(fifo) < FifoSize /\ fifo' = Append(fifo, frame)
      BY <1>1, <2>1, <2>2, AppendFits
    <2>3. CASE fifo' = fifo  BY <1>1, <2>3
    <2> QED  BY <1>2, <2>2, <2>3
  <1>5. Flagged => Flagged'
    <2> SUFFICES ASSUME Flagged PROVE Flagged'  OBVIOUS
    <2>1. fifo # <<>> /\ (Head(fifo).FE0 \/ overrun)  BY DEF Flagged, RXC0
    <2>2. CASE fifo' = Append(fifo, frame) /\ overrun' = overrun
      <3>1. fifo' # <<>> /\ Head(fifo') = Head(fifo)
        <4>1. frame \in F  OBVIOUS
        <4> HIDE DEF F
        <4> QED  BY <1>1, <2>1, <2>2, <4>1
      <3> QED  BY <2>1, <2>2, <3>1 DEF Flagged, RXC0
    <2>3. CASE fifo' = fifo /\ overrun' = TRUE  BY <2>1, <2>3 DEF Flagged, RXC0
    <2> QED  BY <1>2, <2>2, <2>3
  <1>6. TerminalTypes'  BY <1>1, <1>3, <1>4 DEF TerminalInv, TerminalTypes
  <1> QED  BY <1>1, <1>5, <1>6 DEF TerminalInv, Stream

(* A character of a text arrives, damaged or not. *)
LEMMA ReceiveKeeps ==
  ASSUME TerminalInv, Receive \/ ReceiveDamaged
  PROVE  TerminalInv'
  <1>1. CASE Receive
    <2> DEFINE f == [char |-> Head(line), FE0 |-> FALSE]
    <2>1. Arrive(f)  BY <1>1 DEF Receive
    <2>2. line # <<>> /\ line \in Seq(Chars)  BY <2>1 DEF Arrive, TerminalInv, TerminalTypes
    <2>3. Head(line) \in Chars  BY <2>2
    <2>4. f \in [char : Chars, FE0 : BOOLEAN]  BY <2>3
    <2> HIDE DEF f
    <2> QED  BY <2>1, <2>4, ArriveKeeps
  <1>2. CASE ReceiveDamaged
    <2> DEFINE c == "?"
               f == [char |-> c, FE0 |-> TRUE]
    <2>1. Arrive(f)  BY <1>2 DEF ReceiveDamaged
    <2>2. c \in Chars  BY DEF Chars
    <2> HIDE DEF c
    <2>3. f \in [char : Chars, FE0 : BOOLEAN]  BY <2>2
    <2> HIDE DEF f
    <2> QED  BY <2>1, <2>3, ArriveKeeps
  <1> QED  BY <1>1, <1>2

(* Where main only goes on, the ring and what was typed stay. *)
LEMMA GoingKeeps ==
  ASSUME TerminalInv, UNCHANGED <<uart, rx, unget, typed>>, heard' \in Seq(Chars),
         pc' \in {"idle", "poll", "read", "cut", "ended", "prompt", "obeyed", "refused"},
         pc' = "read" => Stream # <<>>, pc = "poll" => pc' = "poll" \/ Flagged
  PROVE  TerminalInv'
  <1>1. TerminalTypes'  BY DEF TerminalInv, TerminalTypes, uart
  <1>2. Flagged' = Flagged  BY DEF Flagged, RXC0, uart
  <1>3. Stream' = Stream  BY DEF Stream
  <1>4. Held(rx', typed')  BY DEF TerminalInv
  <1> QED  BY <1>1, <1>2, <1>3, <1>4 DEF TerminalInv

(* IO_getc puts a character into the ring. *)
LEMMA PollKeeps ==
  ASSUME TerminalInv, Poll
  PROVE  TerminalInv'
  <1> DEFINE F == [char : Chars, FE0 : BOOLEAN]
             c == Translated(Head(fifo).char)
  <1>1. /\ fifo \in Seq(F) /\ Len(fifo) <= FifoSize /\ FifoSize \in Nat
        /\ line \in Seq(Chars) /\ unget \in Seq(Chars) /\ Len(unget) <= 1
        /\ rx \in Rings /\ typed \in Seq(Chars) /\ Held(rx, typed) /\ heard \in Seq(Chars)
    BY TerminalAssumption DEF TerminalInv, TerminalTypes
  <1>2. /\ fifo # <<>> /\ fifo' = Tail(fifo) /\ UNCHANGED <<line, unget, heard>>
        /\ rx' = Ring_push(rx, c) /\ typed' = Append(typed, c)
        /\ pc' = IF EndsLine(c) THEN "read" ELSE "poll"
    BY DEF Poll, RXC0
  <1>3. c \in Chars
    <2>1. Head(fifo) \in F
      <3> HIDE DEF F, c
      <3> QED  BY <1>1, <1>2
    <2>2. Head(fifo).char \in Chars  BY <2>1
    <2> QED  BY <2>2 DEF Translated, Chars
  <1>4. fifo' \in Seq(F) /\ Len(fifo') <= FifoSize
    <2> HIDE DEF F
    <2> QED  BY <1>1, <1>2
  <1> HIDE DEF c, F
  <1>5. rx' \in Rings /\ Held(rx', typed')  BY <1>1, <1>2, <1>3, PushHeld
  <1>6. typed' \in Seq(Chars) /\ typed' # <<>> /\ typed'[Len(typed')] = c
    BY <1>1, <1>2, <1>3
  <1>7. pc' \in {"read", "poll"} /\ (c = "\n" => pc' = "read") /\ (c # "\n" => pc' = "poll")
    BY <1>2 DEF EndsLine
  <1>8. TerminalTypes'  BY <1>1, <1>2, <1>4, <1>5, <1>6, <1>7 DEF TerminalTypes, F
  <1>9. Stream' # <<>>
    <2> DEFINE r == rx'
               w == typed'
               u == unget'
               s == Stream'
    <2>1. s = u \o RingSeq(r)  BY DEF Stream
    <2>2. r \in Rings /\ w \in Seq(Chars) /\ Held(r, w) /\ u \in Seq(Chars) /\ w # <<>>
      BY <1>1, <1>2, <1>5, <1>6
    <2> HIDE DEF r, w, u, s
    <2>3. s # <<>>  BY <2>1, <2>2, StreamType
    <2> QED  BY <2>3 DEF s
  <1>10. Unfinished(typed') => pc' = "poll"  BY <1>6, <1>7 DEF Unfinished
  <1> QED  BY <1>5, <1>8, <1>9, <1>10 DEF TerminalInv

(* A parse that is done, or has to wait, takes what it has read out of the ring. *)
LEMMA PoppingKeeps ==
  ASSUME TerminalInv, NEW n \in 0 .. Len(typed), PopTo(n), UNCHANGED uart, pc # "poll",
         unget' \in Seq(Chars), Len(unget') <= 1, heard' \in Seq(Chars),
         pc' \in {"poll", "prompt", "obeyed"}
  PROVE  TerminalInv'
  <1>1. /\ rx \in Rings /\ typed \in Seq(Chars) /\ Held(rx, typed)
        /\ Unfinished(typed) => Flagged
    BY DEF TerminalInv, TerminalTypes
  <1>2. /\ rx' \in Rings /\ typed' \in Seq(Chars) /\ Held(rx', typed')
        /\ Unfinished(typed') => Unfinished(typed)
    BY <1>1, PopToHeld
  <1>3. Flagged' = Flagged  BY DEF Flagged, RXC0, uart
  <1>4. TerminalTypes'  BY <1>2 DEF TerminalInv, TerminalTypes, uart
  <1> QED  BY <1>1, <1>2, <1>3, <1>4 DEF TerminalInv

(* An empty line is read. *)
LEMMA ReadBlankKeeps ==
  ASSUME TerminalInv, ReadBlank
  PROVE  TerminalInv'
  <1> DEFINE s == Stream
             n == Len(s) - 1
             u == <<>>
  <1>1. /\ pc = "read" /\ PopTo(n) /\ unget' = u /\ UNCHANGED uart /\ pc' = "prompt"
        /\ heard' \in Seq(Chars)
    BY DEF ReadBlank, TerminalInv, TerminalTypes
  <1>2. /\ s # <<>> /\ rx \in Rings /\ typed \in Seq(Chars) /\ Held(rx, typed)
        /\ unget \in Seq(Chars) /\ Len(unget) <= 1
    BY <1>1 DEF TerminalInv, TerminalTypes
  <1>3. s = unget \o RingSeq(rx)  BY DEF Stream
  <1>4. u \in Seq(Chars) /\ Len(u) <= 1  OBVIOUS
  <1> HIDE DEF s, u
  <1>5. s \in Seq(Chars) /\ Len(s) = Len(unget) + Len(typed)  BY <1>2, <1>3, StreamType
  <1>6. n \in 0 .. Len(typed)
    <2> DEFINE a == Len(unget)
               b == Len(typed)
               c == Len(s)
    <2>1. a \in Nat /\ b \in Nat /\ a <= 1 /\ c = a + b  BY <1>2, <1>5
    <2>2. c # 0  BY <1>2, <1>5
    <2> HIDE DEF a, b, c
    <2>3. c - 1 \in 0 .. b  BY <2>1, <2>2
    <2> QED  BY <2>3 DEF b, c
  <1> HIDE DEF n
  <1> QED  BY <1>1, <1>4, <1>6, PoppingKeeps

(* A command is read. *)
LEMMA ReadCommandKeeps ==
  ASSUME TerminalInv, ReadCommand
  PROVE  TerminalInv'
  <1>1. PICK parse \in Parses : unget' = parse.last.back /\ PopTo(LeftInRing(parse))
    BY DEF ReadCommand
  <1>2. UNCHANGED uart /\ pc' = "obeyed" /\ pc # "poll"  BY DEF ReadCommand, Parsing
  <1>3. heard' \in Seq(Chars)
    <2>1. heard' = <<>>  BY DEF ReadCommand
    <2> QED  BY <2>1
  <1> DEFINE n == LeftInRing(parse)
             u == parse.last.back
  <1>4. n \in 0 .. Len(typed) /\ u \in Seq(Chars) /\ Len(u) <= 1  BY LeftToPop
  <1> HIDE DEF n, u
  <1>5. PopTo(n) /\ unget' = u  BY <1>1 DEF n, u
  <1> QED  BY <1>2, <1>4, <1>5, <1>3, PoppingKeeps

(* The parse has heard all there was. *)
LEMMA WaitForMoreKeeps ==
  ASSUME TerminalInv, WaitForMore
  PROVE  TerminalInv'
  <1> DEFINE z == 0
             u == <<>>
  <1>1. PopTo(z) /\ unget' = u /\ heard' = Input /\ UNCHANGED uart /\ pc' = "poll" /\ pc # "poll"
    BY DEF WaitForMore, Parsing
  <1>2. heard' \in Seq(Chars)  BY <1>1, InputType
  <1>3. z \in 0 .. Len(typed)
    <2>1. Len(typed) \in Nat  BY DEF TerminalInv, TerminalTypes
    <2> QED  BY <2>1
  <1>4. u \in Seq(Chars) /\ Len(u) <= 1
    <2>1. u = <<>>  OBVIOUS
    <2> QED  BY <2>1
  <1> HIDE DEF z, u
  <1> QED  BY <1>1, <1>2, <1>3, <1>4, PoppingKeeps

(* An error of the receiver: what was heard ends there, or with one digit more. *)
LEMMA PollErrorKeeps ==
  ASSUME TerminalInv, PollError
  PROVE  TerminalInv'
  <1> DEFINE d == "0"
  <1>1. /\ Flagged /\ pc' \in {"cut", "ended"} /\ UNCHANGED <<uart, rx, unget, typed>>
        /\ heard' = heard \/ heard' = Append(heard, d)
    BY DEF PollError
  <1>2. d \in Chars  BY DEF Chars
  <1>3. heard \in Seq(Chars)  BY DEF TerminalInv, TerminalTypes
  <1> HIDE DEF d
  <1>4. heard' \in Seq(Chars)  BY <1>1, <1>2, <1>3
  <1> QED  BY <1>1, <1>4, GoingKeeps

(* An error of the parser: the flush leaves nothing. *)
LEMMA ReadErrorKeeps ==
  ASSUME TerminalInv, ReadError
  PROVE  TerminalInv'
  <1>1. PICK parse \in Parses : unget' = parse.last.back  BY DEF ReadError
  <1>2. /\ rx' = Ring_reset(rx) /\ fifo' = <<>> /\ typed' = <<>> /\ pc' = "refused"
        /\ heard' = <<>> /\ line' = line
    BY DEF ReadError, IO_flush
  <1>3. unget' \in Seq(Chars) /\ Len(unget') <= 1  BY <1>1, LeftToPop
  <1>4. rx' \in Rings /\ rx'.count = 0
    <2>1. RingSize \in Nat \ {0} /\ rx \in Rings  BY TerminalAssumption DEF TerminalInv, TerminalTypes
    <2> QED  BY <1>2, <2>1 DEF Ring_reset, Rings
  <1>5. TerminalTypes'
    <2>1. line' \in Seq(Chars)  BY <1>2 DEF TerminalInv, TerminalTypes
    <2>2. Len(fifo') = 0 /\ FifoSize \in Nat  BY <1>2, TerminalAssumption
    <2>3. Len(fifo') <= FifoSize  BY <2>2
    <2>4. fifo' \in Seq([char : Chars, FE0 : BOOLEAN]) /\ typed' \in Seq(Chars)  BY <1>2
    <2> QED  BY <1>2, <1>3, <1>4, <2>1, <2>3, <2>4 DEF TerminalTypes
  <1>6. Held(rx', typed')  BY <1>2, <1>4 DEF Held
  <1>7. ~ Unfinished(typed')  BY <1>2 DEF Unfinished
  <1> QED  BY <1>2, <1>5, <1>6, <1>7 DEF TerminalInv

(* Every step keeps the invariant. *)
LEMMA TerminalInvNext == TerminalInv /\ [TerminalNext]_terminalVars => TerminalInv'
  <1> SUFFICES ASSUME TerminalInv, [TerminalNext]_terminalVars PROVE TerminalInv'  OBVIOUS
  <1>1. CASE \E t \in Text : Send(t)  BY <1>1, SendKeeps
  <1>2. CASE Receive \/ ReceiveDamaged  BY <1>2, ReceiveKeeps
  <1>3. CASE StartRead
    <2>1. /\ pc = "idle" /\ pc' = IF Stream = <<>> THEN "poll" ELSE "read"
          /\ UNCHANGED <<uart, rx, unget, typed>> /\ heard' \in Seq(Chars)
      BY <1>3 DEF StartRead, TerminalInv, TerminalTypes
    <2>2. pc' \in {"poll", "read"} /\ (pc' = "read" => Stream # <<>>) /\ pc # "poll"  BY <2>1
    <2> QED  BY <2>1, <2>2, GoingKeeps
  <1>4. CASE Poll  BY <1>4, PollKeeps
  <1>5. CASE PollError  BY <1>5, PollErrorKeeps
  <1>6. CASE ReadBlank  BY <1>6, ReadBlankKeeps
  <1>7. CASE WaitForMore  BY <1>7, WaitForMoreKeeps
  <1>8. CASE ReadCommand  BY <1>8, ReadCommandKeeps
  <1>9. CASE ReadError  BY <1>9, ReadErrorKeeps
  <1>10. CASE Prompt
    <2>1. /\ pc # "poll" /\ pc' = "idle" /\ UNCHANGED <<uart, rx, unget, typed>>
          /\ heard' \in Seq(Chars)
      BY <1>10 DEF Prompt, TerminalInv, TerminalTypes
    <2> QED  BY <2>1, GoingKeeps
  <1>11. CASE UNCHANGED terminalVars
    BY <1>11 DEF terminalVars, uart, TerminalInv, TerminalTypes, Stream, Flagged, RXC0
  <1> QED  BY <1>1, <1>2, <1>3, <1>4, <1>5, <1>6, <1>7, <1>8, <1>9, <1>10, <1>11
           DEF TerminalNext, IO_read

(* The invariant holds of the terminal: whatever is typed, at whatever rate, with whatever
   errors of the line and however often the ring is flushed. *)
THEOREM TerminalInvariant == TerminalSpec => []TerminalInv
  <1> QED  BY TerminalInvInit, TerminalInvNext, PTL DEF TerminalSpec

(* It says of each variable what TerminalTypeOK says. *)
LEMMA InvTypes == TerminalInv => TerminalTypeOK
  <1> SUFFICES ASSUME TerminalInv PROVE TerminalTypeOK  OBVIOUS
  <1>1. rx \in Rings /\ typed \in Seq(Chars) /\ rx.count = Len(typed)
    BY DEF TerminalInv, TerminalTypes, Held
  <1>2. rx.count \in Nat /\ rx.start \in 0 .. RingSize - 1  BY <1>1 DEF Rings
  <1> QED  BY <1>2 DEF TerminalInv, TerminalTypes, TerminalTypeOK

(* Each variable of the terminal keeps to its type: the count of rxBuffer is the characters
   typed, not the slots, and there is never more than one character to unget. *)
THEOREM TerminalTypeCorrect == TerminalSpec => []TerminalTypeOK
  <1> QED  BY TerminalInvariant, InvTypes, PTL

(* What is heard in front of a line does not change how it ends. *)
LEMMA HeardEnded ==
  ASSUME NEW C, NEW h \in Seq(C), NEW s \in Seq(C), Ended(s)
  PROVE  Ended(h \o s)
  <1> DEFINE w == h \o s
             a == Len(h)
             b == Len(s)
  <1>1. a \in Nat /\ b \in Nat /\ s # <<>> /\ s[b] = "\n"  BY DEF Ended
  <1>2. b # 0  BY <1>1
  <1>3. w \in Seq(C) /\ Len(w) = a + b /\ \A k \in 1 .. b : w[a + k] = s[k]
    <2>1. w \in Seq(C) /\ Len(w) = a + b  OBVIOUS
    <2>2. ASSUME NEW k \in 1 .. b PROVE w[a + k] = s[k]
      <3>1. a + k \in 1 .. a + b /\ ~ (a + k <= a) /\ (a + k) - a = k  BY <1>1
      <3> QED  BY <3>1
    <2> QED  BY <2>1, <2>2
  <1> HIDE DEF w, a, b
  <1>4. b \in 1 .. b /\ a + b # 0  BY <1>1, <1>2
  <1>5. w[a + b] = s[b]  BY <1>3, <1>4
  <1>6. w # <<>>  BY <1>3, <1>4
  <1>7. Ended(w)  BY <1>1, <1>3, <1>5, <1>6 DEF Ended
  <1> QED  BY <1>7 DEF w

(* A parse with a whole line before it never waits for the receiver, though it looks one
   character ahead of every token and one token ahead of every command: a scan ends at the
   newline at the latest. If it did not, main would block in IO_getc, and the console with
   it, until another line is typed. *)
THEOREM WholeLineSuffices == TerminalSpec => [][WaitForMore => ~ Ended(Stream)]_terminalVars
  <1>1. ASSUME TerminalInv, WaitForMore, Ended(Stream)
        PROVE  FALSE
    <2> DEFINE s == Stream
               u == unget
    <2>1. PICK parse \in Parses : pc = "read" /\ parse.last.end
      BY <1>1 DEF WaitForMore, Starved
    <2>2. Input = heard \o s
      <3>1. pc # "ended"  BY <2>1
      <3> QED  BY <3>1 DEF Input
    <2>3. /\ rx \in Rings /\ typed \in Seq(Chars) /\ Held(rx, typed)
          /\ u \in Seq(Chars) /\ heard \in Seq(Chars)
      BY <1>1 DEF TerminalInv, TerminalTypes
    <2>4. s = u \o RingSeq(rx)  BY DEF Stream
    <2>5. Ended(s)  BY <1>1
    <2> HIDE DEF s, u
    <2>6. s \in Seq(Chars)  BY <2>3, <2>4, StreamType
    <2>7. Ended(Input)  BY <2>2, <2>3, <2>5, <2>6, HeardEnded
    <2>8. Scanning(parse.last, Input, Chars)  BY <1>1, InputType, ParsesAre
    <2> QED  BY <2>1, <2>7, <2>8 DEF Scanning
  <1>2. TerminalInv /\ [TerminalNext]_terminalVars => [WaitForMore => ~ Ended(Stream)]_terminalVars
    BY <1>1
  <1> QED  BY <1>2, TerminalInvariant, PTL DEF TerminalSpec

(* The last character whose slot is that of the i-th. *)
LEMMA LastInSlot ==
  ASSUME NEW N \in Nat, NEW i \in 1 .. N
  PROVE  \E k \in Nat : LET w == i + RingSize * k
                        IN  /\ w \in 1 .. N /\ w + RingSize > N
                            /\ Max({j \in 1 .. N : (j - i) % RingSize = 0}) = w
  <1> DEFINE n == RingSize
             d == N - i
             k == d \div n
             z == d % n
             w == i + n * k
             S == {j \in 1 .. N : (j - i) % n = 0}
  <1>1. n \in Nat \ {0} /\ d \in Nat /\ i \in Nat /\ i >= 1 /\ N = i + d  BY TerminalAssumption
  <1>2. d = n * k + z /\ z \in 0 .. n - 1 /\ k \in Int  BY <1>1, Division
  <1> HIDE DEF n, d, k, z
  <1>3. k >= 0
    <2>1. CASE k <= -1
      <3>1. n * k <= - n  BY <1>1, <1>2, <2>1
      <3> QED  BY <1>1, <1>2, <3>1
    <2> QED  BY <1>2, <2>1
  <1>4. n * k \in Nat  BY <1>1, <1>2, <1>3
  <1>5. w \in 1 .. N /\ w + n > N /\ w \in Int  BY <1>1, <1>2, <1>4
  <1>6. (w - i) % n = 0
    <2> DEFINE b == w - i
    <2>1. b \in Int /\ b = n * k + 0 /\ 0 \in 0 .. n - 1  BY <1>1, <1>4
    <2> HIDE DEF b, w
    <2>2. b % n = 0  BY <1>1, <1>2, <2>1, RemainderIs
    <2> QED  BY <2>2 DEF b
  <1>7. ASSUME NEW j \in S PROVE w >= j
    <2> DEFINE b == j - i
               m == b \div n
    <2>1. b \in Int /\ b % n = 0 /\ j = i + b /\ b <= d  BY <1>1
    <2>2. b = n * m + (b % n) /\ m \in Int  BY <1>1, <2>1, Division
    <2> HIDE DEF b, m, S, w
    <2>3. b = n * m  BY <1>1, <2>1, <2>2
    <2>4. m <= k
      <3> SUFFICES ASSUME m >= k + 1 PROVE FALSE  BY <1>2, <2>2
      <3>1. n * m >= n * (k + 1)  BY <1>1, <1>2, <2>2
      <3>2. n * (k + 1) = n * k + n  BY <1>1, <1>2
      <3> QED  BY <1>1, <1>2, <1>4, <2>1, <2>3, <3>1, <3>2
    <2>5. n * m <= n * k  BY <1>1, <1>2, <2>2, <2>4
    <2>6. n * m \in Int  BY <1>1, <2>2
    <2> QED  BY <1>1, <1>4, <2>1, <2>3, <2>5, <2>6 DEF w
  <1>8. w \in S  BY <1>5, <1>6
  <1>9. S \in SUBSET Int  OBVIOUS
  <1> HIDE DEF w, S
  <1>10. Max(S) = w  BY <1>7, <1>8, <1>9, GreatestIs
  <1>11. k \in Nat  BY <1>2, <1>3
  <1> QED  BY <1>5, <1>10, <1>11 DEF w, S, n

(* Whole turns of the ring do not change the slot. *)
LEMMA RemainderTurns ==
  ASSUME NEW a \in Int, NEW k \in Int
  PROVE  (a + RingSize * k) % RingSize = a % RingSize
  <1> DEFINE n == RingSize
             p == a \div n
             z == a % n
             b == a + n * k
             m == p + k
  <1>1. n \in Nat \ {0}  BY TerminalAssumption
  <1>2. a = n * p + z /\ z \in 0 .. n - 1 /\ p \in Int  BY <1>1, Division
  <1> HIDE DEF n, p, z
  <1>3. /\ m \in Int /\ n * m = n * p + n * k
        /\ n * p \in Int /\ n * k \in Int
    BY <1>1, <1>2
  <1> HIDE DEF m
  <1>4. b \in Int /\ b = n * m + z  BY <1>1, <1>2, <1>3
  <1> HIDE DEF b
  <1>5. b % n = z  BY <1>1, <1>2, <1>3, <1>4, RemainderIs
  <1> QED  BY <1>5 DEF b, z, n

(* What TerminalInv says of each slot, read from the end of what was typed. *)
LEMMA InvHolds == TerminalInv => RingHoldsLine
  <1> SUFFICES ASSUME TerminalInv PROVE RingHoldsLine  OBVIOUS
  <1> DEFINE n == RingSize
             N == Len(typed)
             Lasting(i) == Max({j \in DOMAIN typed : (j - i) % RingSize = 0})
  <1>1. /\ n \in Nat \ {0} /\ N \in Nat /\ rx.count = N /\ DOMAIN typed = 1 .. N
        /\ rx.size = n /\ rx.start \in 0 .. n - 1
    BY TerminalAssumption DEF TerminalInv, TerminalTypes, Rings, Held
  <1>2. \A j \in 1 .. N : j + n > N => rx.buf[(rx.start + j - 1) % n] = typed[j]
    BY DEF TerminalInv, Held
  <1>3. RingSeq(rx) = [i \in 1 .. N |-> rx.buf[(rx.start + (i - 1)) % n]]
    BY <1>1 DEF RingSeq, RingSlot
  <1> HIDE DEF n, N
  <1>4. ASSUME NEW i \in 1 .. N
        PROVE  rx.buf[(rx.start + (i - 1)) % n] = typed[Lasting(i)]
    <2>1. PICK k \in Nat : LET w == i + RingSize * k
                           IN  /\ w \in 1 .. N /\ w + RingSize > N
                               /\ Max({j \in 1 .. N : (j - i) % RingSize = 0}) = w
      BY <1>1, LastInSlot
    <2> DEFINE w == i + n * k
    <2>2. w \in 1 .. N /\ w + n > N /\ Lasting(i) = w  BY <1>1, <2>1 DEF n
    <2> HIDE DEF Lasting
    <2> DEFINE a == rx.start + (i - 1)
               b == rx.start + w - 1
    <2>3. a \in Int /\ n * k \in Int  BY <1>1
    <2>4. b = a + n * k  BY <1>1, <2>3
    <2> HIDE DEF a, b, w
    <2>5. b % n = a % n  BY <2>3, <2>4, RemainderTurns DEF n
    <2>6. rx.buf[b % n] = typed[w]  BY <1>2, <2>2 DEF b
    <2> QED  BY <2>2, <2>5, <2>6 DEF a
  <1>5. RingSeq(rx) = [i \in DOMAIN typed |-> typed[Lasting(i)]]
    <2> HIDE DEF Lasting
    <2> QED  BY <1>1, <1>3, <1>4
  <1>6. ASSUME pc = "read", typed # <<>> PROVE Last(typed) = "\n" \/ Flagged
    BY <1>6 DEF TerminalInv, Unfinished, Last
  <1> QED  BY <1>5, <1>6 DEF RingHoldsLine

(* The ring of rxBuffer holds the characters that were typed and not read, of too long a
   line the last ones, whatever was pushed, popped, overwritten and flushed before. *)
THEOREM RingCorrect == TerminalSpec => []RingHoldsLine
  <1> QED  BY TerminalInvariant, InvHolds, PTL
=============================================================================
