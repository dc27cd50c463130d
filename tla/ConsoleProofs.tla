--------------------------- MODULE ConsoleProofs ----------------------------
(***************************************************************************)
(* The command loop, for every set of lines. First what DSL_parser_start   *)
(* makes of a line of any length: one lemma for each rule of the grammar   *)
(* says where the rule leaves the line and what it has put in the parse    *)
(* state; together they say what a parse may lose, that no packet is made  *)
(* up, and that a sentence of the grammar is obeyed. Then the loop:        *)
(* whatever main reads from is a line, what it says of it is what a parse  *)
(* of the line comes to, and from that its properties follow. Last the     *)
(* dumps of a packet: where each digit stands, and what is read of them.   *)
(***************************************************************************)
EXTENDS Console, PacketLemmas, DataLemmas

(* A LINE IS PARSED *)


Types == {"undef", "dcc", "sys", "raw"}
CommandWords == {"help", "status", "clear", "show"}
ParseState == [rest : Seq(Scanned), curr : Scanned, ok : BOOLEAN, type : Types,
               packet : Seq(BYTE), cmd : Seq(CommandWords \cup Int), lost : Nat]

(* A line that a parse may begin with, and where in it a parse is. *)
Parsable(l) == l \in Seq(Scanned) /\ l # <<>> /\ l[Len(l)] = newline
At(p, l, i) == /\ p \in ParseState
               /\ i \in 1 .. Len(l)
               /\ p.curr = l[i]
               /\ p.rest = SubSeq(l, i + 1, Len(l))
Kept(p, q) == q.type = p.type /\ q.packet = p.packet /\ q.cmd = p.cmd /\ q.lost = p.lost

(* The value of a token is that of its kind. *)
LEMMA ScannedFields ==
  ASSUME NEW t \in Scanned
  PROVE  /\ t.tok = "number" => t.value[1] \in Int /\ t.value = <<t.value[1]>>
         /\ t.tok = "hex" => t.value \in Seq(0 .. 255)
         /\ t.tok \notin {"number", "hex"} => t.value = <<>>
  <1>1. CASE t \in [tok : {"number"}, value : [1 .. 1 -> Int]]
    <2>1. t.value \in [1 .. 1 -> Int] /\ t.tok = "number"  BY <1>1
    <2> DEFINE v == t.value
               k == t.tok
    <2>2. v \in [1 .. 1 -> Int]  BY <2>1
    <2>3. k = "number"  BY <2>1
    <2> HIDE DEF v, k
    <2>4. v[1] \in Int /\ v = <<v[1]>>  BY <2>2
    <2>5. k # "hex"  BY <2>3
    <2> QED  BY <2>3, <2>4, <2>5 DEF v, k
  <1>2. CASE t \in [tok : {"hex"}, value : Seq(0 .. 255)]
    <2>1. t.value \in Seq(0 .. 255) /\ t.tok = "hex"  BY <1>2
    <2> DEFINE k == t.tok
    <2>2. k = "hex"  BY <2>1
    <2> HIDE DEF k
    <2>3. k # "number"  BY <2>2
    <2> QED  BY <2>1, <2>2, <2>3 DEF k
  <1>3. CASE t \in [tok : Vocabulary \cup {"newline", "blank", "unknown", "stray"}, value : {<<>>}]
    <2>1. t.tok \in Vocabulary \cup {"newline", "blank", "unknown", "stray"} /\ t.value = <<>>
      BY <1>3
    <2>2. t.tok # "number" /\ t.tok # "hex"  BY <2>1 DEF Vocabulary
    <2> QED  BY <2>1, <2>2
  <1> QED  BY <1>1, <1>2, <1>3 DEF Scanned

(* The tokens that are not scanned, but are there. *)
LEMMA Punctuation == newline \in Scanned /\ blank \in Scanned /\ unknown \in Scanned
  BY DEF newline, blank, unknown, Word, Scanned

(* DSL_advance goes one token further, unless a newline is there. *)
LEMMA Advancing ==
  ASSUME NEW l, Parsable(l), NEW i, NEW p, At(p, l, i), l[i].tok # "newline"
  PROVE  /\ At(DSL_advance(p), l, i + 1)
         /\ Kept(p, DSL_advance(p)) /\ DSL_advance(p).ok = p.ok
  <1>1. l \in Seq(Scanned) /\ Len(l) \in Nat /\ i \in 1 .. Len(l)  BY DEF Parsable, At
  <1>2. i < Len(l)  BY <1>1 DEF Parsable, newline, Word
  <1>3. /\ p.rest = SubSeq(l, i + 1, Len(l)) /\ p.rest \in Seq(Scanned)
        /\ p \in ParseState
    BY DEF At, ParseState
  <1>4. p.rest # <<>> /\ Head(p.rest) = l[i + 1] /\ Tail(p.rest) = SubSeq(l, i + 2, Len(l))
    <2>1. Head(SubSeq(l, i + 1, Len(l))) = l[i + 1]
          /\ Tail(SubSeq(l, i + 1, Len(l))) = SubSeq(l, i + 1 + 1, Len(l))
      BY <1>1, <1>2, HeadTailOfSubSeq
    <2>2. Len(SubSeq(l, i + 1, Len(l))) = Len(l) - i  BY <1>1, <1>2
    <2>3. SubSeq(l, i + 1, Len(l)) # <<>>
      <3>1. Len(l) - i # 0  BY <1>1, <1>2
      <3> HIDE <2>1
      <3> QED  BY <2>2, <3>1
    <2>4. i + 1 + 1 = i + 2  BY <1>1
    <2> DEFINE r == SubSeq(l, i + 1, Len(l))
    <2>5. r # <<>> /\ Head(r) = l[i + 1] /\ Tail(r) = SubSeq(l, i + 2, Len(l))
      BY <2>1, <2>3, <2>4
    <2>6. p.rest = r  BY <1>3
    <2> HIDE DEF r
    <2> QED  BY <2>5, <2>6
  <1>5. Head(p.rest) \in Scanned /\ Tail(p.rest) \in Seq(Scanned)
    BY <1>3, <1>4, HeadTailProperties
  <1>6. DSL_advance(p) = [p EXCEPT !.curr = Head(p.rest), !.rest = Tail(p.rest)]
    BY DEF DSL_advance
  <1> DEFINE h == Head(p.rest)
             t == Tail(p.rest)
             q == DSL_advance(p)
  <1>7. q = [p EXCEPT !.curr = h, !.rest = t]  BY <1>6
  <1>8. h \in Scanned /\ t \in Seq(Scanned)  BY <1>5
  <1> HIDE DEF h, t, q
  <1>9. /\ q \in ParseState /\ q.curr = h /\ q.rest = t /\ Kept(p, q) /\ q.ok = p.ok
    BY <1>3, <1>7, <1>8 DEF ParseState, Kept
  <1>10. i + 1 \in 1 .. Len(l) /\ i + 1 + 1 = i + 2  BY <1>1, <1>2
  <1> QED  BY <1>4, <1>9, <1>10 DEF At, h, t, q

(* Accepting and refusing do not move. *)
LEMMA Setting ==
  ASSUME NEW l, NEW i, NEW p, At(p, l, i)
  PROVE  /\ At(Accepted(p), l, i) /\ Kept(p, Accepted(p)) /\ Accepted(p).ok
         /\ At(Refused(p), l, i) /\ Kept(p, Refused(p)) /\ ~ Refused(p).ok
  BY DEF At, Kept, Accepted, Refused, ParseState

(* DSL_accept goes on exactly if its token is there. *)
LEMMA Accepting ==
  ASSUME NEW l, Parsable(l), NEW i, NEW p, At(p, l, i), NEW t, t # "newline",
         NEW q \in DSL_accept(t, p)
  PROVE  /\ Kept(p, q)
         /\ l[i].tok = t => At(q, l, i + 1) /\ q.ok
         /\ l[i].tok # t => At(q, l, i) /\ ~ q.ok
  <1>1. p.curr = l[i]  BY DEF At
  <1>2. CASE l[i].tok = t
    <2>1. q = Accepted(DSL_advance(p))  BY <1>1, <1>2 DEF DSL_accept
    <2>2. At(DSL_advance(p), l, i + 1) /\ Kept(p, DSL_advance(p))  BY <1>2, Advancing
    <2>3. At(q, l, i + 1) /\ Kept(DSL_advance(p), q) /\ q.ok  BY <2>1, <2>2, Setting
    <2> QED  BY <1>2, <2>2, <2>3 DEF Kept
  <1>3. CASE l[i].tok # t
    <2>1. q = Refused(p)  BY <1>1, <1>3 DEF DSL_accept
    <2> QED  BY <1>3, <2>1, Setting
  <1> QED  BY <1>2, <1>3

(* DSL_accept_no_advance only looks. *)
LEMMA AcceptingHere ==
  ASSUME NEW l, NEW i, NEW p, At(p, l, i), NEW t,
         NEW q \in DSL_accept_no_advance(t, p)
  PROVE  /\ Kept(p, q) /\ At(q, l, i)
         /\ q.ok <=> l[i].tok = t
  <1>1. q = [p EXCEPT !.ok = (l[i].tok = t)]  BY DEF DSL_accept_no_advance, At
  <1>2. (l[i].tok = t) \in BOOLEAN  OBVIOUS
  <1> DEFINE b == l[i].tok = t
  <1>3. q = [p EXCEPT !.ok = b] /\ b \in BOOLEAN  BY <1>1, <1>2
  <1> HIDE DEF b
  <1>4. Kept(p, q) /\ At(q, l, i) /\ q.ok = b  BY <1>3 DEF At, Kept, ParseState
  <1> QED  BY <1>4 DEF b

-----------------------------------------------------------------------------
(* ADDRESS AND SPEED *)

(* A token, and behind it another one that is not consumed. *)
Pair(t, u, p) == AndThen(DSL_accept(t, p), LAMBDA q : DSL_accept_no_advance(u, q))

(* When the second is not there, the first is consumed all the same. *)
LEMMA AcceptingPair ==
  ASSUME NEW l, Parsable(l), NEW i, NEW p, At(p, l, i), NEW t, t # "newline", NEW u,
         NEW q \in Pair(t, u, p)
  PROVE  /\ Kept(p, q)
         /\ l[i].tok # t => At(q, l, i) /\ ~ q.ok
         /\ l[i].tok = t => At(q, l, i + 1) /\ (q.ok <=> l[i + 1].tok = u)
  <1>1. PICK r \in DSL_accept(t, p) : q \in IF r.ok THEN DSL_accept_no_advance(u, r) ELSE {r}
    BY DEF Pair, AndThen
  <1>2. /\ Kept(p, r)
        /\ l[i].tok = t => At(r, l, i + 1) /\ r.ok
        /\ l[i].tok # t => At(r, l, i) /\ ~ r.ok
    BY Accepting
  <1>3. CASE l[i].tok = t
    <2>1. q \in DSL_accept_no_advance(u, r)  BY <1>1, <1>2, <1>3
    <2>2. Kept(r, q) /\ At(q, l, i + 1) /\ (q.ok <=> l[i + 1].tok = u)
      BY <1>2, <1>3, <2>1, AcceptingHere
    <2> QED  BY <1>2, <1>3, <2>2 DEF Kept
  <1>4. CASE l[i].tok # t  BY <1>1, <1>2, <1>4
  <1> QED  BY <1>3, <1>4

(* The packet that a command makes, as far as it is. *)
Building(p, l, i, u, a, m, d, c, k) ==
  At(p, l, i) /\ p.type = "dcc" /\ p.lost = k /\ Draft(p.packet, u, a, m, d, c)

(* Five bytes are a packet. *)
LEMMA BytePackets ==
  ASSUME NEW k \in [1 .. 5 -> BYTE]
  PROVE  k \in Seq(BYTE) /\ Len(k) = 5
  BY FunctionIsSeq

(* An operation on the packet of a state. *)
WithPacket(p, k) == [p EXCEPT !.packet = k]

(* Changing the packet does not move. *)
LEMMA Replacing ==
  ASSUME NEW l, NEW i, NEW p, At(p, l, i), NEW k \in [1 .. 5 -> BYTE],
         NEW q, q = WithPacket(p, k)
  PROVE  /\ At(q, l, i) /\ q.packet = k /\ q.type = p.type /\ q.lost = p.lost
         /\ q.ok = p.ok /\ q.cmd = p.cmd
  <1>1. k \in Seq(BYTE)  BY BytePackets
  <1> QED  BY <1>1 DEF At, ParseState, WithPacket

(* Its number is used, and then it is behind. *)
LEMMA Using ==
  ASSUME NEW l, Parsable(l), NEW i, NEW r, At(r, l, i), l[i].tok # "newline",
         NEW k \in [1 .. 5 -> BYTE], NEW q, q = DSL_advance(WithPacket(r, k))
  PROVE  /\ At(q, l, i + 1) /\ q.ok = r.ok
         /\ q.type = r.type /\ q.lost = r.lost /\ q.packet = k
  <1> DEFINE s == WithPacket(r, k)
  <1>1. s = WithPacket(r, k) /\ q = DSL_advance(s)  OBVIOUS
  <1> HIDE DEF s
  <1>2. /\ At(s, l, i) /\ s.packet = k /\ s.type = r.type /\ s.lost = r.lost
        /\ s.ok = r.ok
    BY <1>1, Replacing
  <1>3. At(q, l, i + 1) /\ Kept(s, q) /\ q.ok = s.ok
    BY <1>1, <1>2, Advancing
  <1> QED  BY <1>2, <1>3 DEF Kept

(* A number token holds a number. *)
LEMMA NumberHere ==
  ASSUME NEW l, Parsable(l), NEW i, i \in 1 .. Len(l), l[i].tok = "number"
  PROVE  l[i].value[1] \in Int
  BY ScannedFields DEF Parsable

(* The address of addr is set; without a number, or addr, nothing is. *)
AddrDone(q, l, i, u, a, m, d, c, k) ==
  /\ l[i].tok # "addr" => ~ q.ok /\ Building(q, l, i, u, a, m, d, c, k)
  /\ (l[i].tok = "addr" /\ l[i + 1].tok # "number") =>
       ~ q.ok /\ Building(q, l, i + 1, u, a, m, d, c, k)
  /\ (l[i].tok = "addr" /\ l[i + 1].tok = "number") =>
       q.ok /\ Building(q, l, i + 2, u, Byte(l[i + 1].value[1] % 128), m, d, c, k)

(* DSL_grammar_addr sets the address of the number it reads. *)
LEMMA AddrRule ==
  ASSUME NEW l, Parsable(l), NEW i, NEW p,
         NEW u \in {0, 1}, NEW a \in Addresses, NEW m \in {0, 1}, NEW d \in {0, 1},
         NEW c \in Codes, NEW k, Building(p, l, i, u, a, m, d, c, k),
         NEW q \in DSL_grammar_addr(p)
  PROVE  AddrDone(q, l, i, u, a, m, d, c, k)
  <1>1. PICK r \in Pair("addr", "number", p) :
          q \in IF r.ok
                THEN {DSL_advance([r EXCEPT !.packet =
                        DCC_set_address(r.packet, r.curr.value[1] % 256)])}
                ELSE {r}
    BY SMTT(30) DEF DSL_grammar_addr, KeywordAndNumber, AndThen, Pair
  <1>2. At(p, l, i)  BY DEF Building
  <1>3. /\ Kept(p, r)
        /\ l[i].tok # "addr" => At(r, l, i) /\ ~ r.ok
        /\ l[i].tok = "addr" => At(r, l, i + 1) /\ (r.ok <=> l[i + 1].tok = "number")
    BY <1>1, <1>2, AcceptingPair
  <1>4. CASE ~ r.ok  BY <1>1, <1>3, <1>4 DEF Building, Kept, AddrDone
  <1>5. CASE r.ok
    <2>1. At(r, l, i + 1) /\ l[i].tok = "addr" /\ l[i + 1].tok = "number"
      BY <1>3, <1>5
    <2> DEFINE n == l[i + 1].value[1]
               b == DCC_set_address(r.packet, n % 256)
    <2>2. n \in Int /\ r.curr = l[i + 1]  BY <2>1, NumberHere DEF At
    <2>3. q = DSL_advance(WithPacket(r, b))  BY <1>1, <1>5, <2>2 DEF WithPacket
    <2>4. Draft(b, u, Byte(n % 128), m, d, c)
      <3> HIDE DEF n
      <3>1. (n % 256) % 128 = n % 128 /\ n % 256 \in Int  BY <2>2
      <3>2. Draft(r.packet, u, a, m, d, c)  BY <1>3 DEF Kept, Building
      <3> DEFINE x == n % 256
      <3>3. Draft(DCC_set_address(r.packet, x), u, Byte(x % DCC_ADDRESS_MAX), m, d, c)
        <4>1. x \in Int  BY <3>1
        <4> HIDE DEF x
        <4> QED  BY <3>2, <4>1, DraftAddress, ZenonT(60)
      <3> QED  BY <3>1, <3>3 DEF DCC_ADDRESS_MAX
    <2>5. b \in [1 .. 5 -> BYTE]  BY <2>4 DEF Draft
    <2>6. i + 1 + 1 = i + 2  BY <1>2 DEF At
    <2> HIDE DEF b
    <2>7. /\ At(q, l, i + 2) /\ q.ok = r.ok
          /\ q.type = r.type /\ q.lost = r.lost /\ q.packet = b
      BY <2>1, <2>3, <2>5, <2>6, Using
    <2> QED  BY <1>3, <1>5, <2>1, <2>4, <2>7 DEF Kept, Building, AddrDone
  <1> QED  BY <1>4, <1>5

(* The speed likewise. *)
SpeedDone(q, l, i, u, a, m, d, c, k) ==
  /\ l[i].tok # "speed" => ~ q.ok /\ Building(q, l, i, u, a, m, d, c, k)
  /\ (l[i].tok = "speed" /\ l[i + 1].tok # "number") =>
       ~ q.ok /\ Building(q, l, i + 1, u, a, m, d, c, k)
  /\ (l[i].tok = "speed" /\ l[i + 1].tok = "number") =>
       q.ok /\ Building(q, l, i + 2, u, a, m, d,
                        DCC_speed_steps[StepOf(l[i + 1].value[1]) + 1], k)

(* DSL_grammar_speed sets the speed of the number it reads. *)
LEMMA SpeedRule ==
  ASSUME NEW l, Parsable(l), NEW i, NEW p,
         NEW u \in {0, 1}, NEW a \in Addresses, NEW m \in {0, 1}, NEW d \in {0, 1},
         NEW c \in Codes, NEW k, Building(p, l, i, u, a, m, d, c, k),
         NEW q \in DSL_grammar_speed(p)
  PROVE  SpeedDone(q, l, i, u, a, m, d, c, k)
  <1>1. PICK r \in Pair("speed", "number", p) :
          q \in IF r.ok
                THEN {DSL_advance([r EXCEPT !.packet =
                        DCC_set_speed(r.packet, r.curr.value[1] % 256)])}
                ELSE {r}
    BY ZenonT(60) DEF DSL_grammar_speed, KeywordAndNumber, AndThen, Pair
  <1>2. At(p, l, i)  BY DEF Building
  <1>3. /\ Kept(p, r)
        /\ l[i].tok # "speed" => At(r, l, i) /\ ~ r.ok
        /\ l[i].tok = "speed" => At(r, l, i + 1) /\ (r.ok <=> l[i + 1].tok = "number")
    BY <1>1, <1>2, AcceptingPair
  <1>4. CASE ~ r.ok  BY <1>1, <1>3, <1>4 DEF Building, Kept, SpeedDone
  <1>5. CASE r.ok
    <2>1. At(r, l, i + 1) /\ l[i].tok = "speed" /\ l[i + 1].tok = "number"
      BY <1>3, <1>5
    <2> DEFINE n == l[i + 1].value[1]
               b == DCC_set_speed(r.packet, n % 256)
    <2>2. n \in Int /\ r.curr = l[i + 1]  BY <2>1, NumberHere DEF At
    <2>3. q = DSL_advance(WithPacket(r, b))  BY <1>1, <1>5, <2>2 DEF WithPacket
    <2>4. Draft(b, u, a, m, d, DCC_speed_steps[StepOf(n) + 1])
      <3> HIDE DEF n
      <3>1. n % 256 \in Int  BY <2>2
      <3>2. Draft(r.packet, u, a, m, d, c)  BY <1>3 DEF Kept, Building
      <3> DEFINE x == n % 256
      <3>3. Draft(DCC_set_speed(r.packet, x), u, a, m, d,
                  DCC_speed_steps[(x % DCC_MAX_SPEED_STEPS) + 1])
        <4>1. x \in Int  BY <3>1
        <4> HIDE DEF x
        <4> QED  BY <3>2, <4>1, DraftSpeed, ZenonT(60)
      <3> QED  BY <3>3 DEF DCC_MAX_SPEED_STEPS, StepOf
    <2>5. b \in [1 .. 5 -> BYTE]  BY <2>4 DEF Draft
    <2>6. i + 1 + 1 = i + 2  BY <1>2 DEF At
    <2> HIDE DEF b
    <2>7. /\ At(q, l, i + 2) /\ q.ok = r.ok
          /\ q.type = r.type /\ q.lost = r.lost /\ q.packet = b
      BY <2>1, <2>3, <2>5, <2>6, Using
    <2> QED  BY <1>3, <1>5, <2>1, <2>4, <2>7 DEF Kept, Building, SpeedDone
  <1> QED  BY <1>4, <1>5

(* A packet under way, of which the address is in A and the speed in C. *)
Part(p, l, i, u, A, C, k) ==
  \E a \in A, c \in C : Building(p, l, i, u, a, 0, 0, c, k)

(* What the line gives for an address and a speed. *)
GivenAddresses(l) == {Byte(AddressOf(n)) : n \in Given("addr", l)}
GivenSpeeds(l) == {DCC_speed_steps[StepOf(v) + 1] : v \in Given("speed", l)}

(* A number behind a keyword is given. *)
LEMMA GivenHere ==
  ASSUME NEW l, Parsable(l), NEW i \in 1 .. Len(l), l[i + 1].tok = "number",
         l[i].tok # "newline"
  PROVE  /\ l[i].tok = "addr" => Byte(l[i + 1].value[1] % 128) \in GivenAddresses(l)
         /\ l[i].tok = "speed" =>
              DCC_speed_steps[StepOf(l[i + 1].value[1]) + 1] \in GivenSpeeds(l)
  <1>1. i \in 1 .. Len(l) - 1  BY DEF Parsable, newline, Word
  <1>2. \A t : l[i].tok = t => l[i + 1].value[1] \in Given(t, l)
    BY <1>1 DEF Given
  <1> QED  BY <1>2 DEF GivenAddresses, GivenSpeeds, AddressOf

(* What is given is an address, or a speed. *)
LEMMA GivenTyped ==
  ASSUME NEW l, Parsable(l)
  PROVE  GivenAddresses(l) \subseteq Addresses /\ GivenSpeeds(l) \subseteq Codes
  <1>1. \A t : Given(t, l) \subseteq Int
    <2>1. ASSUME NEW t, NEW k \in 1 .. Len(l) - 1, l[k + 1].tok = "number"
          PROVE  l[k + 1].value[1] \in Int
      <3>1. k + 1 \in 1 .. Len(l)  BY DEF Parsable
      <3> QED  BY <2>1, <3>1, NumberHere
    <2> QED  BY <2>1 DEF Given
  <1>2. ASSUME NEW n \in Int  PROVE Byte(AddressOf(n)) \in Addresses
    BY AddressBits DEF AddressOf, DCC_ADDRESS_MAX
  <1>3. ASSUME NEW n \in Int  PROVE DCC_speed_steps[StepOf(n) + 1] \in Codes
    <2>1. StepOf(n) \in 0 .. 28  BY DEF StepOf
    <2> QED  BY <2>1, SpeedSteps
  <1> QED  BY <1>1, <1>2, <1>3 DEF GivenAddresses, GivenSpeeds

(* A packet under way is of a parse at i. *)
LEMMA PartAt ==
  ASSUME NEW p, NEW l, NEW i, NEW u, NEW A, NEW C, NEW k, Part(p, l, i, u, A, C, k)
  PROVE  At(p, l, i) /\ p.type = "dcc" /\ p.lost = k /\ i \in 1 .. Len(l)
  BY DEF Part, Building, At

(* A larger choice of address and speed. *)
LEMMA PartWeaker ==
  ASSUME NEW p, NEW l, NEW i, NEW u, NEW A, NEW C, NEW k, Part(p, l, i, u, A, C, k),
         NEW B, A \subseteq B, NEW D, C \subseteq D
  PROVE  Part(p, l, i, u, B, D, k)
  BY DEF Part

(* Where addr, or speed, leaves the line from i on. *)
AddrLeaves(q, l, i, j, u, A, C, k) ==
  /\ j \in i .. i + 2
  /\ q.ok => Part(q, l, j, u, GivenAddresses(l), C, k)
  /\ ~ q.ok => Part(q, l, j, u, A, C, k)
  /\ q.ok <=> (l[i].tok = "addr" /\ l[i + 1].tok = "number")
  /\ q.ok => j = i + 2
  /\ l[i].tok # "addr" => j = i
  /\ (l[i].tok = "addr" /\ l[i + 1].tok # "number") => j = i + 1

SpeedLeaves(q, l, i, j, u, A, C, k) ==
  /\ j \in i .. i + 2
  /\ q.ok => Part(q, l, j, u, A, GivenSpeeds(l), k)
  /\ ~ q.ok => Part(q, l, j, u, A, C, k)
  /\ q.ok <=> (l[i].tok = "speed" /\ l[i + 1].tok = "number")
  /\ q.ok => j = i + 2

(* The address rule takes its address from the line. *)
LEMMA AddrPart ==
  ASSUME NEW l, Parsable(l), NEW i, NEW p, NEW u \in {0, 1},
         NEW A, A \subseteq Addresses, NEW C, C \subseteq Codes, NEW k,
         Part(p, l, i, u, A, C, k), NEW q \in DSL_grammar_addr(p)
  PROVE  \E j : AddrLeaves(q, l, i, j, u, A, C, k)
  <1>1. PICK a \in A, c \in C : Building(p, l, i, u, a, 0, 0, c, k)  BY DEF Part
  <1>2. a \in Addresses /\ c \in Codes /\ i \in 1 .. Len(l) /\ Len(l) \in Nat
    BY <1>1, PartAt DEF Parsable
  <1> DEFINE b == Byte(l[i + 1].value[1] % 128)
  <1>3. /\ l[i].tok # "addr" => ~ q.ok /\ Building(q, l, i, u, a, 0, 0, c, k)
        /\ (l[i].tok = "addr" /\ l[i + 1].tok # "number") =>
              ~ q.ok /\ Building(q, l, i + 1, u, a, 0, 0, c, k)
        /\ (l[i].tok = "addr" /\ l[i + 1].tok = "number") =>
              q.ok /\ Building(q, l, i + 2, u, b, 0, 0, c, k)
    <2> DEFINE z == 0
    <2>1. z \in {0, 1} /\ Building(p, l, i, u, a, z, z, c, k)  BY <1>1
    <2> HIDE DEF z
    <2>2. AddrDone(q, l, i, u, a, z, z, c, k)  BY <1>2, <2>1, AddrRule
    <2>3. AddrDone(q, l, i, u, a, 0, 0, c, k)  BY <2>2 DEF z
    <2> QED  BY <2>3 DEF AddrDone
  <1>4. (l[i].tok = "addr" /\ l[i + 1].tok = "number") => b \in GivenAddresses(l)
    BY <1>2, GivenHere
  <1> HIDE DEF b
  <1>5. CASE l[i].tok # "addr"
    <2>1. Part(q, l, i, u, A, C, k) /\ ~ q.ok  BY <1>1, <1>3, <1>5 DEF Part
    <2>2. i \in i .. i + 2  BY <1>2
    <2> QED  BY <1>5, <2>1, <2>2 DEF AddrLeaves
  <1>6. CASE l[i].tok = "addr" /\ l[i + 1].tok # "number"
    <2>1. Part(q, l, i + 1, u, A, C, k) /\ ~ q.ok  BY <1>1, <1>3, <1>6 DEF Part
    <2>2. i + 1 \in i .. i + 2  BY <1>2
    <2> QED  BY <1>6, <2>1, <2>2 DEF AddrLeaves
  <1>7. CASE l[i].tok = "addr" /\ l[i + 1].tok = "number"
    <2>1. Part(q, l, i + 2, u, GivenAddresses(l), C, k) /\ q.ok
      BY <1>1, <1>3, <1>4, <1>7 DEF Part
    <2>2. i + 2 \in i .. i + 2  BY <1>2
    <2> QED  BY <1>7, <2>1, <2>2 DEF AddrLeaves
  <1> QED  BY <1>5, <1>6, <1>7

(* The speed rule takes its speed from the line. *)
LEMMA SpeedPart ==
  ASSUME NEW l, Parsable(l), NEW i, NEW p, NEW u \in {0, 1},
         NEW A, A \subseteq Addresses, NEW C, C \subseteq Codes, NEW k,
         Part(p, l, i, u, A, C, k), NEW q \in DSL_grammar_speed(p)
  PROVE  \E j : SpeedLeaves(q, l, i, j, u, A, C, k)
  <1>1. PICK a \in A, c \in C : Building(p, l, i, u, a, 0, 0, c, k)  BY DEF Part
  <1>2. a \in Addresses /\ c \in Codes /\ i \in 1 .. Len(l) /\ Len(l) \in Nat
    BY <1>1, PartAt DEF Parsable
  <1> DEFINE b == DCC_speed_steps[StepOf(l[i + 1].value[1]) + 1]
  <1>3. /\ l[i].tok # "speed" => ~ q.ok /\ Building(q, l, i, u, a, 0, 0, c, k)
        /\ (l[i].tok = "speed" /\ l[i + 1].tok # "number") =>
              ~ q.ok /\ Building(q, l, i + 1, u, a, 0, 0, c, k)
        /\ (l[i].tok = "speed" /\ l[i + 1].tok = "number") =>
              q.ok /\ Building(q, l, i + 2, u, a, 0, 0, b, k)
    <2> DEFINE z == 0
    <2>1. z \in {0, 1} /\ Building(p, l, i, u, a, z, z, c, k)  BY <1>1
    <2> HIDE DEF z
    <2>2. SpeedDone(q, l, i, u, a, z, z, c, k)  BY <1>2, <2>1, SpeedRule
    <2>3. SpeedDone(q, l, i, u, a, 0, 0, c, k)  BY <2>2 DEF z
    <2> QED  BY <2>3 DEF SpeedDone
  <1>4. (l[i].tok = "speed" /\ l[i + 1].tok = "number") => b \in GivenSpeeds(l)
    BY <1>2, GivenHere
  <1> HIDE DEF b
  <1>5. CASE l[i].tok # "speed"
    <2>1. Part(q, l, i, u, A, C, k) /\ ~ q.ok  BY <1>1, <1>3, <1>5 DEF Part
    <2>2. i \in i .. i + 2  BY <1>2
    <2> QED  BY <1>5, <2>1, <2>2 DEF SpeedLeaves
  <1>6. CASE l[i].tok = "speed" /\ l[i + 1].tok # "number"
    <2>1. Part(q, l, i + 1, u, A, C, k) /\ ~ q.ok  BY <1>1, <1>3, <1>6 DEF Part
    <2>2. i + 1 \in i .. i + 2  BY <1>2
    <2> QED  BY <1>6, <2>1, <2>2 DEF SpeedLeaves
  <1>7. CASE l[i].tok = "speed" /\ l[i + 1].tok = "number"
    <2>1. Part(q, l, i + 2, u, A, GivenSpeeds(l), k) /\ q.ok
      BY <1>1, <1>3, <1>4, <1>7 DEF Part
    <2>2. i + 2 \in i .. i + 2  BY <1>2
    <2> QED  BY <1>7, <2>1, <2>2 DEF SpeedLeaves
  <1> QED  BY <1>5, <1>6, <1>7

(* What NewPacket makes of the counter of lost packets. *)
LostAfter(p) == IF p.type = "dcc" THEN p.lost + 1 ELSE p.lost

(* NewPacket starts a packet, and counts the one it writes over. *)
LEMMA Creating ==
  ASSUME NEW l, NEW i, NEW p, At(p, l, i), NEW k \in [1 .. 5 -> BYTE],
         NEW q, q = NewPacket(p, k)
  PROVE  /\ At(q, l, i) /\ q.type = "dcc" /\ q.packet = k /\ q.lost = LostAfter(p)
         /\ q.ok = p.ok
  <1> DEFINE n == LostAfter(p)
  <1>1. p \in ParseState /\ n \in Nat  BY DEF At, ParseState, LostAfter
  <1>2. q = [p EXCEPT !.type = "dcc", !.packet = k, !.lost = n]
    BY <1>1 DEF NewPacket, LostAfter, ParseState
  <1>3. k \in Seq(BYTE)  BY BytePackets
  <1> DEFINE t == "dcc"
  <1>4. q = [p EXCEPT !.type = t, !.packet = k, !.lost = n] /\ t \in Types
    BY <1>2 DEF Types
  <1> HIDE DEF n, t
  <1>5. /\ q \in ParseState /\ q.type = t /\ q.packet = k /\ q.lost = n /\ q.ok = p.ok
        /\ q.rest = p.rest /\ q.curr = p.curr
    BY <1>1, <1>3, <1>4 DEF ParseState
  <1> QED  BY <1>5 DEF At, n, t

(* A move that is accepted. *)
LEMMA MoveFinished ==
  ASSUME NEW l, NEW i, NEW p, NEW k, NEW r \in {0, 1},
         NEW A, A \subseteq Addresses, NEW C, C \subseteq Codes, Part(p, l, i, 0, A, C, k),
         NEW q, q = WithPacket(p,
           DCC_set_direction(DCC_set_speed_direction_preamble(DCC_set_preamble(p.packet)), r))
  PROVE  /\ At(q, l, i) /\ q.type = "dcc" /\ q.lost = k /\ q.ok = p.ok
         /\ \E a \in A, c \in C : Draft(q.packet, 1, a, 1, r, c)
  <1>1. PICK a \in A, c \in C : Building(p, l, i, 0, a, 0, 0, c, k)  BY DEF Part
  <1>2. a \in Addresses /\ c \in Codes /\ Draft(p.packet, 0, a, 0, 0, c)
    BY <1>1 DEF Building
  <1> DEFINE x == DCC_set_preamble(p.packet)
             y == DCC_set_speed_direction_preamble(x)
             z == DCC_set_direction(y, r)
  <1>3. Draft(x, 1, a, 0, 0, c)  BY <1>2, DraftPreamble
  <1>4. Draft(y, 1, a, 1, 0, c)
    <2> HIDE DEF x
    <2> QED  BY <1>2, <1>3, DraftSpeedDirectionPreamble
  <1>5. Draft(z, 1, a, 1, r, c)
    <2> HIDE DEF y
    <2> QED  BY <1>2, <1>4, DraftDirection
  <1>6. q = WithPacket(p, z)  OBVIOUS
  <1> HIDE DEF z
  <1>7. z \in [1 .. 5 -> BYTE]  BY <1>5 DEF Draft
  <1>8. At(q, l, i) /\ q.packet = z /\ q.type = p.type /\ q.lost = p.lost /\ q.ok = p.ok
    BY <1>1, <1>6, <1>7, Replacing DEF Building
  <1> QED  BY <1>1, <1>5, <1>8 DEF Building

(* Where address and speed leave the line, when the words from i on are    *)
(* the keywords s and t with a number each.                                *)
BothGiven(l, i, s, t) == /\ l[i].tok = s /\ l[i + 1].tok = "number"
                         /\ l[i + 2].tok = t /\ l[i + 3].tok = "number"
BothLeave(q, l, i, j, s, t, u, k) ==
  /\ j \in i .. i + 4
  /\ q.ok => Part(q, l, j, u, GivenAddresses(l), GivenSpeeds(l), k) /\ j = i + 4
  /\ ~ q.ok => Part(q, l, j, u, Addresses, Codes, k)
  /\ q.ok <=> BothGiven(l, i, s, t)
  /\ (s = "addr" /\ l[i].tok # "addr") => j = i

(* An address and then a speed. *)
LEMMA AddrThenSpeed ==
  ASSUME NEW l, Parsable(l), NEW i, NEW p, NEW u \in {0, 1},
         NEW A, A \subseteq Addresses, NEW C, C \subseteq Codes, NEW k,
         Part(p, l, i, u, A, C, k), NEW r \in DSL_grammar_addr(p),
         NEW q, r.ok => q \in DSL_grammar_speed(r), ~ r.ok => q = r
  PROVE  \E j : BothLeave(q, l, i, j, "addr", "speed", u, k)
  <1> DEFINE B == GivenAddresses(l)
             D == GivenSpeeds(l)
             m == i + 2
  <1>1. B \subseteq Addresses /\ D \subseteq Codes  BY GivenTyped
  <1>2. i \in Nat  BY PartAt DEF At
  <1>3. PICK j : AddrLeaves(r, l, i, j, u, A, C, k)  BY AddrPart
  <1>4. CASE ~ r.ok
    <2>1. q = r  BY <1>4
    <2>2. Part(q, l, j, u, A, C, k)  BY <1>3, <1>4, <2>1 DEF AddrLeaves
    <2>3. Part(q, l, j, u, Addresses, Codes, k)  BY <2>2, PartWeaker
    <2>4. BothLeave(q, l, i, j, "addr", "speed", u, k)
      BY <1>2, <1>3, <1>4, <2>1, <2>3 DEF AddrLeaves, BothLeave, BothGiven
    <2> QED  BY <2>4
  <1>5. CASE r.ok
    <2>1. Part(r, l, m, u, B, C, k) /\ q \in DSL_grammar_speed(r)
      BY <1>3, <1>5 DEF AddrLeaves
    <2> HIDE DEF m, B, D
    <2>2. PICK n : SpeedLeaves(q, l, m, n, u, B, C, k)  BY <1>1, <2>1, SpeedPart
    <2>3. m + 1 = i + 3 /\ m = i + 2  BY <1>2 DEF m
    <2>4. ~ q.ok => Part(q, l, n, u, Addresses, Codes, k)
      BY <1>1, <2>2, PartWeaker DEF SpeedLeaves
    <2>5. BothLeave(q, l, i, n, "addr", "speed", u, k)
      BY <1>2, <1>3, <1>5, <2>2, <2>3, <2>4
         DEF AddrLeaves, SpeedLeaves, BothLeave, BothGiven, B
    <2> QED  BY <2>5
  <1> QED  BY <1>4, <1>5

(* A speed and then an address. *)
LEMMA SpeedThenAddr ==
  ASSUME NEW l, Parsable(l), NEW i, NEW p, NEW u \in {0, 1},
         NEW A, A \subseteq Addresses, NEW C, C \subseteq Codes, NEW k,
         Part(p, l, i, u, A, C, k), NEW r \in DSL_grammar_speed(p),
         NEW q, r.ok => q \in DSL_grammar_addr(r), ~ r.ok => q = r
  PROVE  \E j : BothLeave(q, l, i, j, "speed", "addr", u, k)
  <1> DEFINE B == GivenAddresses(l)
             D == GivenSpeeds(l)
             m == i + 2
  <1>1. B \subseteq Addresses /\ D \subseteq Codes  BY GivenTyped
  <1>2. i \in Nat  BY PartAt DEF At
  <1>3. PICK j : SpeedLeaves(r, l, i, j, u, A, C, k)  BY SpeedPart
  <1>4. CASE ~ r.ok
    <2>1. q = r  BY <1>4
    <2>2. Part(q, l, j, u, A, C, k)  BY <1>3, <1>4, <2>1 DEF SpeedLeaves
    <2>3. Part(q, l, j, u, Addresses, Codes, k)  BY <2>2, PartWeaker
    <2>4. BothLeave(q, l, i, j, "speed", "addr", u, k)
      BY <1>2, <1>3, <1>4, <2>1, <2>3 DEF SpeedLeaves, BothLeave, BothGiven
    <2> QED  BY <2>4
  <1>5. CASE r.ok
    <2>1. Part(r, l, m, u, A, D, k) /\ q \in DSL_grammar_addr(r)
      BY <1>3, <1>5 DEF SpeedLeaves
    <2> HIDE DEF m, B, D
    <2>2. PICK n : AddrLeaves(q, l, m, n, u, A, D, k)  BY <1>1, <2>1, AddrPart
    <2>3. m + 1 = i + 3 /\ m = i + 2  BY <1>2 DEF m
    <2>4. ~ q.ok => Part(q, l, n, u, Addresses, Codes, k)
      BY <1>1, <2>2, PartWeaker DEF AddrLeaves
    <2>5. BothLeave(q, l, i, n, "speed", "addr", u, k)
      BY <1>2, <1>3, <1>5, <2>2, <2>3, <2>4
         DEF AddrLeaves, SpeedLeaves, BothLeave, BothGiven, D
    <2> QED  BY <2>5
  <1> QED  BY <1>4, <1>5

(* A command of address and speed from behind its keyword. *)
MoveLeaves(q, l, i, j, k) ==
  /\ j \in i .. i + 8
  /\ q.ok => Part(q, l, j, 0, GivenAddresses(l), GivenSpeeds(l), k)
  /\ ~ q.ok => Part(q, l, j, 0, Addresses, Codes, k)
  /\ BothGiven(l, i, "addr", "speed") \/ BothGiven(l, i, "speed", "addr")
       => q.ok /\ j = i + 4

(* The two orders tried in turn: what is accepted has address and speed    *)
(* from the line, and a command that is complete in either order is        *)
(* accepted.                                                               *)
LEMMA MoveAccepted ==
  ASSUME NEW l, Parsable(l), NEW i, NEW p, NEW k, Part(p, l, i, 0, {{}}, {{}}, k),
         NEW r \in DSL_grammar_addr(p),
         NEW s, r.ok => s \in DSL_grammar_speed(r), ~ r.ok => s = r,
         NEW v, ~ s.ok => v \in DSL_grammar_speed(s),
         NEW q, s.ok => q = s, (~ s.ok /\ v.ok) => q \in DSL_grammar_addr(v),
         (~ s.ok /\ ~ v.ok) => q = v
  PROVE  \E j : MoveLeaves(q, l, i, j, k)
  <1>1. {{}} \subseteq Addresses /\ {{}} \subseteq Codes
    BY DEF Addresses, Codes
  <1>2. i \in Nat  BY PartAt DEF At
  <1> DEFINE A == {{}}
  <1>3. A \subseteq Addresses /\ A \subseteq Codes /\ Part(p, l, i, 0, A, A, k)
    BY <1>1
  <1> HIDE DEF A
  <1>4. PICK j : BothLeave(s, l, i, j, "addr", "speed", 0, k)
    BY <1>3, AddrThenSpeed
  <1>5. CASE s.ok
    <2>1. q = s /\ j \in i .. i + 8  BY <1>2, <1>4, <1>5 DEF BothLeave
    <2>2. MoveLeaves(q, l, i, j, k)
      BY <1>4, <1>5, <2>1 DEF BothLeave, BothGiven, MoveLeaves
    <2> QED  BY <2>2
  <1>6. CASE ~ s.ok
    <2>1. /\ v \in DSL_grammar_speed(s)
          /\ v.ok => q \in DSL_grammar_addr(v)
          /\ ~ v.ok => q = v
      BY <1>6
    <2>2. Part(s, l, j, 0, Addresses, Codes, k)  BY <1>4, <1>6 DEF BothLeave
    <2>3. PICK n : BothLeave(q, l, j, n, "speed", "addr", 0, k)
      BY <2>1, <2>2, SpeedThenAddr
    <2>4. n \in i .. i + 8  BY <1>2, <1>4, <2>3 DEF BothLeave
    <2>5. BothGiven(l, i, "speed", "addr") => j = i
      BY <1>4 DEF BothLeave, BothGiven
    <2>6. ~ BothGiven(l, i, "addr", "speed")  BY <1>4, <1>6 DEF BothLeave
    <2>7. MoveLeaves(q, l, i, n, k)
      BY <2>3, <2>4, <2>5, <2>6 DEF BothLeave, MoveLeaves
    <2> QED  BY <2>7
  <1> QED  BY <1>5, <1>6

-----------------------------------------------------------------------------
(* FORWARD AND REVERSE *)

(* A forward or a reverse that begins at i. *)
Moved(q, l, i, j, p, r) ==
  /\ j \in i + 1 .. i + 9
  /\ At(q, l, j) /\ q.type = "dcc" /\ q.lost = LostAfter(p)
  /\ q.ok =>
       \E a \in GivenAddresses(l), c \in GivenSpeeds(l) : Draft(q.packet, 1, a, 1, r, c)
  /\ BothGiven(l, i + 1, "addr", "speed") \/ BothGiven(l, i + 1, "speed", "addr")
       => q.ok /\ j = i + 5

(* DSL_grammar_forward and DSL_grammar_reverse: nothing happens without    *)
(* the keyword; with it a packet is made, lost or not.                     *)
LEMMA MoveRule ==
  ASSUME NEW l, Parsable(l), NEW i, NEW p, At(p, l, i), NEW t, t \in {"forward", "reverse"},
         NEW r \in {0, 1}, NEW q \in Move(t, r, p)
  PROVE  /\ l[i].tok # t => ~ q.ok /\ At(q, l, i) /\ Kept(p, q)
         /\ l[i].tok = t => \E j : Moved(q, l, i, j, p, r)
  <1> DEFINE Baseline(s) == {NewPacket(s, DCC_baseline_packet_create)}
             AddrSpeed(s) == AndThen(DSL_grammar_addr(s), DSL_grammar_speed)
             SpeedAddr(s) == AndThen(DSL_grammar_speed(s), DSL_grammar_addr)
             Finish(s) == {[s EXCEPT !.packet =
               DCC_set_direction(DCC_set_speed_direction_preamble(DCC_set_preamble(@)), r)]}
             Both(s) == OrElse(AndThen(Baseline(s), AddrSpeed), SpeedAddr)
             new(s) == NewPacket(s, DCC_baseline_packet_create)
  <1>1. PICK r1 \in DSL_accept(t, p) :
          q \in IF r1.ok THEN AndThen(Both(r1), Finish) ELSE {r1}
    BY DEF Move, AndThen
  <1>2. /\ Kept(p, r1)
        /\ l[i].tok = t => At(r1, l, i + 1) /\ r1.ok
        /\ l[i].tok # t => At(r1, l, i) /\ ~ r1.ok
    BY <1>1, Accepting
  <1>3. CASE l[i].tok # t  BY <1>1, <1>2, <1>3
  <1>4. CASE l[i].tok = t
    <2>1. At(r1, l, i + 1) /\ r1.ok /\ i \in Nat  BY <1>2, <1>4 DEF At
    <2>2. PICK r5 \in Both(r1) : q \in IF r5.ok THEN Finish(r5) ELSE {r5}
      BY <1>1, <2>1 DEF AndThen
    <2>3. PICK r4 \in AndThen(Baseline(r1), AddrSpeed) :
            r5 \in IF r4.ok THEN {r4} ELSE SpeedAddr(r4)
      BY <2>2 DEF OrElse
    <2>4. r4 \in IF new(r1).ok THEN AddrSpeed(new(r1)) ELSE {new(r1)}
      BY <2>3 DEF AndThen
    <2> DEFINE r2 == new(r1)
               k == LostAfter(p)
               A == {{}}
    <2>5. /\ At(r2, l, i + 1) /\ r2.type = "dcc" /\ r2.packet = DCC_baseline_packet_create
          /\ r2.lost = LostAfter(r1) /\ r2.ok
      <3>1. DCC_baseline_packet_create \in [1 .. 5 -> BYTE]  BY DraftCreated DEF Draft
      <3>2. r2 = NewPacket(r1, DCC_baseline_packet_create)  OBVIOUS
      <3> HIDE DEF r2
      <3> QED  BY <2>1, <3>1, <3>2, Creating
    <2>6. Part(r2, l, i + 1, 0, A, A, k)
      <3>1. LostAfter(r1) = k  BY <1>2 DEF LostAfter, Kept
      <3> HIDE DEF r2, k
      <3> QED  BY <2>5, <3>1, DraftCreated DEF Part, Building
    <2>7. PICK r3 \in DSL_grammar_addr(r2) : r4 \in IF r3.ok THEN DSL_grammar_speed(r3) ELSE {r3}
      BY <2>4, <2>5 DEF AndThen
    <2>8. /\ r3.ok => r4 \in DSL_grammar_speed(r3)
          /\ ~ r3.ok => r4 = r3
      BY <2>7
    <2> HIDE DEF r2, k
    <2>9. \E v : /\ ~ r4.ok => v \in DSL_grammar_speed(r4)
                 /\ r4.ok => r5 = r4
                 /\ (~ r4.ok /\ v.ok) => r5 \in DSL_grammar_addr(v)
                 /\ (~ r4.ok /\ ~ v.ok) => r5 = v
      <3>1. CASE r4.ok  BY <2>3, <3>1
      <3>2. CASE ~ r4.ok
        <4>1. r5 \in SpeedAddr(r4)  BY <2>3, <3>2
        <4>2. PICK v \in DSL_grammar_speed(r4) :
                r5 \in IF v.ok THEN DSL_grammar_addr(v) ELSE {v}
          BY <4>1 DEF AndThen
        <4> QED  BY <3>2, <4>2
      <3> QED  BY <3>1, <3>2
    <2> HIDE DEF Baseline, AddrSpeed, SpeedAddr, Both, new
    <2>10. PICK n : MoveLeaves(r5, l, i + 1, n, k)
      <3> DEFINE m == i + 1
      <3>1. Part(r2, l, m, 0, {{}}, {{}}, k)  BY <2>6
      <3> HIDE DEF m, A
      <3>2. \E n : MoveLeaves(r5, l, m, n, k)  BY <2>7, <2>8, <2>9, <3>1, MoveAccepted
      <3> QED  BY <3>2 DEF m
    <2> DEFINE B == GivenAddresses(l)
               D == GivenSpeeds(l)
    <2>11. /\ n \in i + 1 .. i + 9
           /\ BothGiven(l, i + 1, "addr", "speed") \/ BothGiven(l, i + 1, "speed", "addr")
                => r5.ok /\ n = i + 5
      BY <2>1, <2>10 DEF MoveLeaves
    <2>12. CASE r5.ok
      <3>1. Part(r5, l, n, 0, B, D, k)  BY <2>10, <2>12 DEF MoveLeaves
      <3>2. q = WithPacket(r5,
              DCC_set_direction(DCC_set_speed_direction_preamble(DCC_set_preamble(r5.packet)), r))
        BY <2>2, <2>12 DEF WithPacket
      <3>3. B \subseteq Addresses /\ D \subseteq Codes  BY GivenTyped
      <3> HIDE DEF B, D, Finish
      <3>4. /\ At(q, l, n) /\ q.type = "dcc" /\ q.lost = k /\ q.ok = r5.ok
            /\ \E a \in B, c \in D : Draft(q.packet, 1, a, 1, r, c)
        BY <3>1, <3>2, <3>3, MoveFinished
      <3> QED  BY <1>4, <2>11, <2>12, <3>4 DEF Moved, k, B, D
    <2>13. CASE ~ r5.ok
      <3>1. q = r5  BY <2>2, <2>13
      <3>2. Part(q, l, n, 0, Addresses, Codes, k)
        BY <2>10, <2>13, <3>1 DEF MoveLeaves
      <3>3. At(q, l, n) /\ q.type = "dcc" /\ q.lost = k  BY <3>2, PartAt
      <3> QED  BY <1>4, <2>11, <2>13, <3>1, <3>3 DEF Moved, k
    <2> QED  BY <2>12, <2>13
  <1> QED  BY <1>3, <1>4

-----------------------------------------------------------------------------
(* STOP *)

(* The special packets are five bytes. *)
LEMMA SpecialPackets ==
  /\ DCC_special_broadcast_stop_packet \in [1 .. 5 -> BYTE]
  /\ DCC_special_emergency_stop_packet \in [1 .. 5 -> BYTE]
  <1>1. /\ DCC_special_broadcast_stop_packet = BytesOf(<<255, 240, 1, 192, 225>>)
        /\ DCC_special_emergency_stop_packet = BytesOf(<<255, 240, 1, 196, 227>>)
    BY DEF DCC_special_broadcast_stop_packet, DCC_special_emergency_stop_packet
  <1> QED  BY <1>1, SpecialBytes DEF Draft

(* The code of a stop is that of step 0. *)
Halting(q, l) == \E a \in GivenAddresses(l) : Draft(q.packet, 1, a, 1, 0, DCC_speed_steps[1])

(* What the rule of stop does to a packet with an address. *)
Halted(x) == DCC_set_speed(DCC_set_speed_direction_preamble(x), 0)

(* A stop of one loco is a move at step 0. *)
LEMMA LocoFinished ==
  ASSUME NEW l, NEW i, NEW p, NEW k, NEW A, A \subseteq Addresses,
         NEW C, C \subseteq Codes, Part(p, l, i, 1, A, C, k),
         NEW q, q = WithPacket(p, Halted(p.packet))
  PROVE  /\ At(q, l, i) /\ q.type = "dcc" /\ q.lost = k /\ q.ok = p.ok
         /\ \E a \in A : Draft(q.packet, 1, a, 1, 0, DCC_speed_steps[1])
  <1>1. PICK a \in A, c \in C : Building(p, l, i, 1, a, 0, 0, c, k)  BY DEF Part
  <1>2. a \in Addresses /\ c \in Codes /\ Draft(p.packet, 1, a, 0, 0, c)
    BY <1>1 DEF Building
  <1> DEFINE x == DCC_set_speed_direction_preamble(p.packet)
             y == DCC_set_speed(x, 0)
  <1>3. Draft(x, 1, a, 1, 0, c)  BY <1>2, DraftSpeedDirectionPreamble
  <1>4. Draft(y, 1, a, 1, 0, DCC_speed_steps[1])
    <2> DEFINE z == 0
    <2>1. z \in Int /\ (z % DCC_MAX_SPEED_STEPS) + 1 = 1  BY DEF DCC_MAX_SPEED_STEPS
    <2> HIDE DEF x, z
    <2>2. Draft(DCC_set_speed(x, z), 1, a, 1, 0, DCC_speed_steps[(z % DCC_MAX_SPEED_STEPS) + 1])
      BY <1>2, <1>3, <2>1, DraftSpeed
    <2> QED  BY <2>1, <2>2 DEF z
  <1>5. q = WithPacket(p, y)  BY DEF Halted
  <1> HIDE DEF y
  <1>6. y \in [1 .. 5 -> BYTE]  BY <1>4 DEF Draft
  <1>7. At(q, l, i) /\ q.packet = y /\ q.type = p.type /\ q.lost = p.lost /\ q.ok = p.ok
    BY <1>1, <1>5, <1>6, Replacing DEF Building
  <1> QED  BY <1>1, <1>4, <1>7 DEF Building

(* A stop that begins at i: it is never refused once its keyword is read. *)
Stopped(q, l, i, j, p) ==
  /\ j \in i + 1 .. i + 3
  /\ At(q, l, j) /\ q.ok /\ q.type = "dcc" /\ q.lost = LostAfter(p)
  /\ \/ Halting(q, l)
     \/ q.packet \in {DCC_special_broadcast_stop_packet, DCC_special_emergency_stop_packet}
  /\ (l[i + 1].tok = "addr" /\ l[i + 2].tok = "number") => Halting(q, l) /\ j = i + 3
  /\ l[i + 1].tok = "all" => q.packet = DCC_special_emergency_stop_packet /\ j = i + 2
  /\ l[i + 1].tok \notin {"addr", "all"} =>
       q.packet = DCC_special_broadcast_stop_packet /\ j = i + 1

(* DSL_grammar_stop: nothing happens without the keyword, and with it a    *)
(* stop is made.                                                           *)
LEMMA StopRule ==
  ASSUME NEW l, Parsable(l), NEW i, NEW p, At(p, l, i), NEW q \in DSL_grammar_stop(p)
  PROVE  /\ l[i].tok # "stop" => ~ q.ok /\ At(q, l, i) /\ Kept(p, q)
         /\ l[i].tok = "stop" => \E j : Stopped(q, l, i, j, p)
  <1> DEFINE new(s) == NewPacket(s, DCC_set_preamble(DCC_baseline_packet_create))
             Baseline(s) == {new(s)}
             Loco(s) == AndThen(DSL_grammar_addr(s), LAMBDA r :
               {[r EXCEPT !.packet = DCC_set_speed(DCC_set_speed_direction_preamble(@), 0)]})
             All(s) == AndThen(DSL_accept("all", s), LAMBDA r :
               {[r EXCEPT !.packet = DCC_special_emergency_stop_packet]})
             Stop(s) == {Accepted([s EXCEPT !.packet = DCC_special_broadcast_stop_packet])}
             LocoAll(s) == OrElse(AndThen(Baseline(s), Loco), All)
  <1>1. PICK r1 \in DSL_accept("stop", p) :
          q \in IF r1.ok THEN OrElse(LocoAll(r1), Stop) ELSE {r1}
    BY DEF DSL_grammar_stop, AndThen
  <1>2. /\ Kept(p, r1)
        /\ l[i].tok = "stop" => At(r1, l, i + 1) /\ r1.ok
        /\ l[i].tok # "stop" => At(r1, l, i) /\ ~ r1.ok
    BY <1>1, Accepting
  <1>3. CASE l[i].tok # "stop"  BY <1>1, <1>2, <1>3
  <1>4. CASE l[i].tok = "stop"
    <2>1. At(r1, l, i + 1) /\ r1.ok /\ i \in Nat /\ i + 1 \in Nat  BY <1>2, <1>4 DEF At
    <2>2. PICK r5 \in LocoAll(r1) : q \in IF r5.ok THEN {r5} ELSE Stop(r5)
      BY <1>1, <2>1 DEF OrElse
    <2>3. PICK r4 \in AndThen(Baseline(r1), Loco) : r5 \in IF r4.ok THEN {r4} ELSE All(r4)
      BY <2>2 DEF OrElse
    <2>4. r4 \in IF new(r1).ok THEN Loco(new(r1)) ELSE {new(r1)}
      BY <2>3 DEF AndThen
    <2> DEFINE r2 == new(r1)
               k == LostAfter(p)
               A == {{}}
               b == DCC_set_preamble(DCC_baseline_packet_create)
    <2>5. Draft(b, 1, {}, 0, 0, {}) /\ {{}} \subseteq Addresses /\ {{}} \subseteq Codes
      <3> DEFINE e == {}
                 x == DCC_baseline_packet_create
      <3>1. Draft(x, 0, e, 0, 0, e)  BY DraftCreated
      <3>2. e \in Addresses /\ e \in Codes  BY DEF Addresses, Codes
      <3> HIDE DEF e, x
      <3>3. Draft(DCC_set_preamble(x), 1, e, 0, 0, e)  BY <3>1, <3>2, DraftPreamble
      <3> QED  BY <3>2, <3>3 DEF e, x
    <2>6. /\ At(r2, l, i + 1) /\ r2.type = "dcc" /\ r2.packet = b
          /\ r2.lost = LostAfter(r1) /\ r2.ok
      <3>1. b \in [1 .. 5 -> BYTE]  BY <2>5 DEF Draft
      <3>2. r2 = NewPacket(r1, b)  OBVIOUS
      <3> HIDE DEF r2, b, new, Baseline, Loco, All, Stop, LocoAll
      <3> QED  BY <2>1, <3>1, <3>2, Creating
    <2>7. Part(r2, l, i + 1, 1, A, A, k)
      <3>1. LostAfter(r1) = k  BY <1>2 DEF LostAfter, Kept
      <3> HIDE DEF r2, k, b
      <3> QED  BY <2>5, <2>6, <3>1 DEF Part, Building
    <2>8. PICK r3 \in DSL_grammar_addr(r2) :
            r4 \in IF r3.ok
                   THEN {WithPacket(r3, Halted(r3.packet))} ELSE {r3}
      BY <2>4, <2>6 DEF AndThen, WithPacket, Halted
    <2>9. PICK r : /\ ~ r4.ok => r \in DSL_accept("all", r4)
                   /\ r4.ok => r5 = r4
                   /\ (~ r4.ok /\ r.ok) =>
                        r5 = WithPacket(r, DCC_special_emergency_stop_packet)
                   /\ (~ r4.ok /\ ~ r.ok) => r5 = r
      <3>1. CASE r4.ok  BY <2>3, <3>1
      <3>2. CASE ~ r4.ok
        <4>1. PICK r \in DSL_accept("all", r4) :
                r5 \in IF r.ok THEN {WithPacket(r, DCC_special_emergency_stop_packet)} ELSE {r}
          BY <2>3, <3>2 DEF AndThen, WithPacket
        <4> QED  BY <3>2, <4>1
      <3> QED  BY <3>1, <3>2
    <2>10. /\ r5.ok => q = r5
           /\ ~ r5.ok => q = Accepted(WithPacket(r5, DCC_special_broadcast_stop_packet))
      BY <2>2 DEF WithPacket
    <2> HIDE DEF r2, k, b, new, Baseline, Loco, All, Stop, LocoAll
    <2> DEFINE m == i + 1
               B == GivenAddresses(l)
    <2>11. B \subseteq Addresses  BY GivenTyped
    <2>12. PICK n : AddrLeaves(r3, l, m, n, 1, A, A, k)
      <3>1. Part(r2, l, m, 1, A, A, k) /\ A \subseteq Addresses /\ A \subseteq Codes
        BY <2>5, <2>7
      <3> HIDE DEF m, A
      <3> QED  BY <2>8, <3>1, AddrPart
    <2>13. m = i + 1 /\ m + 1 = i + 2 /\ m + 2 = i + 3  BY <2>1
    <2> HIDE DEF m
    <2>14. /\ n \in i + 1 .. i + 3
           /\ r3.ok <=> (l[i + 1].tok = "addr" /\ l[i + 2].tok = "number")
           /\ r3.ok => n = i + 3
           /\ l[i + 1].tok # "addr" => n = i + 1
           /\ (l[i + 1].tok = "addr" /\ l[i + 2].tok # "number") => n = i + 2
           /\ r3.ok => Part(r3, l, n, 1, B, A, k)
           /\ ~ r3.ok => Part(r3, l, n, 1, A, A, k)
      BY <2>1, <2>13, <2>12 DEF AddrLeaves
    <2>15. A \subseteq Addresses /\ A \subseteq Codes  BY <2>5
    <2> HIDE DEF B, A
    <2>16. CASE r3.ok
      <3>1. r4 = WithPacket(r3, Halted(r3.packet)) /\ Part(r3, l, n, 1, B, A, k)
        BY <2>8, <2>14, <2>16
      <3>2. /\ At(r4, l, n) /\ r4.type = "dcc" /\ r4.lost = k /\ r4.ok = r3.ok
            /\ \E a \in B : Draft(r4.packet, 1, a, 1, 0, DCC_speed_steps[1])
        BY <2>11, <2>15, <3>1, LocoFinished
      <3>3. q = r4  BY <2>9, <2>10, <2>16, <3>2
      <3> QED  BY <1>4, <2>14, <2>16, <3>2, <3>3 DEF Stopped, Halting, B, k
    <2>17. CASE ~ r3.ok
      <3>1. r4 = r3  BY <2>8, <2>17
      <3>2. /\ r \in DSL_accept("all", r4)
            /\ r.ok => r5 = WithPacket(r, DCC_special_emergency_stop_packet)
            /\ ~ r.ok => r5 = r
        BY <2>9, <2>17, <3>1
      <3>3. At(r4, l, n) /\ r4.type = "dcc" /\ r4.lost = k
        BY <2>14, <2>17, <3>1, PartAt
      <3>4. /\ Kept(r4, r)
            /\ l[n].tok = "all" => At(r, l, n + 1) /\ r.ok
            /\ l[n].tok # "all" => At(r, l, n) /\ ~ r.ok
        BY <3>2, <3>3, Accepting
      <3>5. CASE l[n].tok = "all"
        <4>1. r5 = WithPacket(r, DCC_special_emergency_stop_packet)
          BY <3>2, <3>4, <3>5
        <4>2. At(r, l, n + 1)  BY <3>4, <3>5
        <4>3. /\ At(r5, l, n + 1) /\ r5.packet = DCC_special_emergency_stop_packet
              /\ r5.type = r.type /\ r5.lost = r.lost /\ r5.ok = r.ok
          BY <4>2, <4>1, SpecialPackets, Replacing
        <4>4. q = r5  BY <2>10, <3>4, <3>5, <4>3
        <4>5. n + 1 \in i + 1 .. i + 3 /\ (l[i + 1].tok # "addr" => n + 1 = i + 2)
          BY <2>1, <2>14, <2>17
        <4>6. l[i + 1].tok # "addr" => l[i + 1].tok = "all"
          BY <2>14, <3>5
        <4>7. n + 1 \in i + 1 .. i + 3 /\ (l[i + 1].tok = "all" => n + 1 = i + 2)
              /\ l[i + 1].tok \in {"addr", "all"}
          BY <4>5, <4>6
        <4> QED  BY <1>4, <2>14, <2>17, <3>3, <3>4, <3>5, <4>3, <4>4, <4>7
                 DEF Stopped, Kept, k
      <3>6. CASE l[n].tok # "all"
        <4>1. r5 = r  BY <3>2, <3>4, <3>6
        <4> DEFINE v == WithPacket(r, DCC_special_broadcast_stop_packet)
        <4>2. q = Accepted(v)  BY <2>10, <3>4, <3>6, <4>1
        <4>3. At(r, l, n) /\ v = WithPacket(r, DCC_special_broadcast_stop_packet)
          BY <3>4, <3>6
        <4> HIDE DEF v
        <4>4. /\ At(v, l, n) /\ v.packet = DCC_special_broadcast_stop_packet
              /\ v.type = r.type /\ v.lost = r.lost
          BY <4>3, SpecialPackets, Replacing
        <4>5. At(q, l, n) /\ Kept(v, q) /\ q.ok  BY <4>2, <4>4, Setting
        <4>6. n \in i + 1 .. i + 3 /\ l[i + 1].tok # "all"
              /\ (l[i + 1].tok # "addr" => n = i + 1)
          BY <2>1, <2>14, <2>17, <3>6
        <4> QED  BY <1>4, <2>14, <2>17, <3>3, <3>4, <3>6, <4>4, <4>5, <4>6
                 DEF Stopped, Kept, k
      <3> QED  BY <3>5, <3>6
    <2> QED  BY <2>16, <2>17
  <1> QED  BY <1>3, <1>4

-----------------------------------------------------------------------------
(* THE OTHER COMMANDS *)

(* A rule that leaves the state to the next one. *)
Skipped(p, q, l, i) == ~ q.ok /\ At(q, l, i) /\ Kept(p, q)

(* A hex string is bytes. *)
LEMMA BytesOfHex ==
  ASSUME NEW s \in Seq(0 .. 255)
  PROVE  BytesOf(s) \in Seq(BYTE)
  <1>1. \A n \in 1 .. Len(s) : s[n] \in 0 .. 255  BY ElementOfSeq
  <1>2. \A x \in 0 .. 255 : Byte(x) \in BYTE  BY ByteBits
  <1>3. \A n \in 1 .. Len(s) : Byte(s[n]) \in BYTE  BY <1>1, <1>2
  <1>4. BytesOf(s) = [n \in 1 .. Len(s) |-> Byte(s[n])]  BY DEF BytesOf
  <1>5. BytesOf(s) \in [1 .. Len(s) -> BYTE]  BY <1>3, <1>4
  <1>6. Len(s) \in Nat  OBVIOUS
  <1> DEFINE b == BytesOf(s)
             n == Len(s)
  <1>7. b \in [1 .. n -> BYTE] /\ n \in Nat  BY <1>5, <1>6
  <1> HIDE DEF b, n
  <1>8. b \in Seq(BYTE)  BY <1>7, FunctionIsSeq
  <1> QED  BY <1>8 DEF b

(* DSL_grammar_raw: a hex string that fits is a raw packet. *)
LEMMA RawRule ==
  ASSUME NEW l, Parsable(l), NEW i, NEW p, At(p, l, i), NEW q \in DSL_grammar_raw(p)
  PROVE  /\ l[i].tok # "raw" => Skipped(p, q, l, i)
         /\ (l[i].tok = "raw" /\ l[i + 1].tok # "hex") => Skipped(p, q, l, i + 1)
         /\ (l[i].tok = "raw" /\ l[i + 1].tok = "hex") =>
              q.ok /\ At(q, l, i + 2) /\ q.type \in {p.type, "raw"} /\ q.lost = p.lost
  <1>1. PICK r \in Pair("raw", "hex", p) :
          q \in IF r.ok
                THEN {DSL_advance(r),
                      DSL_advance([r EXCEPT !.type = "raw", !.packet = BytesOf(r.curr.value)])}
                ELSE {r}
    BY DEF DSL_grammar_raw, AndThen, Pair
  <1>2. /\ Kept(p, r)
        /\ l[i].tok # "raw" => At(r, l, i) /\ ~ r.ok
        /\ l[i].tok = "raw" => At(r, l, i + 1) /\ (r.ok <=> l[i + 1].tok = "hex")
    BY <1>1, AcceptingPair
  <1>3. CASE ~ r.ok  BY <1>1, <1>2, <1>3 DEF Skipped
  <1>4. CASE r.ok
    <2>1. At(r, l, i + 1) /\ l[i].tok = "raw" /\ l[i + 1].tok = "hex"  BY <1>2, <1>4
    <2> DEFINE m == i + 1
               b == BytesOf(r.curr.value)
               t == "raw"
               s == [r EXCEPT !.type = t, !.packet = b]
    <2>2. m + 1 = i + 2 /\ At(r, l, m) /\ l[m].tok # "newline"  BY <2>1 DEF At
    <2>3. b \in Seq(BYTE)
      <3>1. r.curr = l[i + 1] /\ r.curr \in Scanned  BY <2>1 DEF At, ParseState
      <3>2. r.curr.value \in Seq(0 .. 255)  BY <2>1, <3>1, ScannedFields
      <3> QED  BY <3>2, BytesOfHex
    <2>4. q = DSL_advance(r) \/ q = DSL_advance(s)  BY <1>1, <1>4
    <2>5. t \in Types  BY DEF Types
    <2> HIDE DEF b, t
    <2>6. At(s, l, m) /\ s.type = t /\ s.lost = r.lost /\ s.ok = r.ok
      BY <2>2, <2>3, <2>5 DEF At, ParseState
    <2> HIDE DEF s, m
    <2>7. CASE q = DSL_advance(r)
      <3>1. At(q, l, m + 1) /\ Kept(r, q) /\ q.ok = r.ok  BY <2>2, <2>7, Advancing
      <3> QED  BY <1>2, <1>4, <2>1, <2>2, <3>1 DEF Kept
    <2>8. CASE q = DSL_advance(s)
      <3>1. At(q, l, m + 1) /\ Kept(s, q) /\ q.ok = s.ok
        BY <2>2, <2>6, <2>8, Advancing
      <3> QED  BY <1>2, <1>4, <2>1, <2>2, <2>6, <3>1 DEF Kept, t
    <2> QED  BY <2>4, <2>7, <2>8
  <1> QED  BY <1>3, <1>4

(* A system command. *)
Ordered(p, q, l, i, cmd) ==
  q.ok /\ At(q, l, i) /\ q.type = "sys" /\ q.cmd = cmd /\ q.lost = p.lost

(* NewCommand makes a system command of its word and arguments. *)
LEMMA Ordering ==
  ASSUME NEW l, NEW i, NEW p, At(p, l, i), p.ok, NEW c \in CommandWords, NEW a \in Seq(Int),
         NEW q \in NewCommand(p, c, a)
  PROVE  Ordered(p, q, l, i, <<c>> \o a)
  <1> DEFINE w == <<c>> \o a
             t == "sys"
  <1>1. w \in Seq(CommandWords \cup Int) /\ t \in Types
    <2>1. <<c>> \in Seq(CommandWords \cup Int) /\ a \in Seq(CommandWords \cup Int)
      OBVIOUS
    <2> QED  BY <2>1, ConcatProperties DEF Types
  <1>2. q = [p EXCEPT !.type = t, !.cmd = w]  BY DEF NewCommand
  <1> HIDE DEF w, t
  <1>3. At(q, l, i) /\ q.ok /\ q.type = t /\ q.cmd = w /\ q.lost = p.lost
    BY <1>1, <1>2 DEF At, ParseState
  <1> QED  BY <1>3 DEF Ordered, w, t

(* DSL_grammar_help. *)
LEMMA HelpRule ==
  ASSUME NEW l, Parsable(l), NEW i, NEW p, At(p, l, i), NEW q \in DSL_grammar_help(p)
  PROVE  /\ l[i].tok # "help" => Skipped(p, q, l, i)
         /\ l[i].tok = "help" => Ordered(p, q, l, i + 1, <<"help">>)
  <1>1. PICK r \in DSL_accept("help", p) :
          q \in IF r.ok THEN NewCommand(r, "help", <<>>) ELSE {r}
    BY DEF DSL_grammar_help, AndThen
  <1>2. /\ Kept(p, r)
        /\ l[i].tok = "help" => At(r, l, i + 1) /\ r.ok
        /\ l[i].tok # "help" => At(r, l, i) /\ ~ r.ok
    BY <1>1, Accepting
  <1>3. CASE l[i].tok # "help"  BY <1>1, <1>2, <1>3 DEF Skipped
  <1>4. CASE l[i].tok = "help"
    <2>1. "help" \in CommandWords /\ <<>> \in Seq(Int)  BY DEF CommandWords
    <2> DEFINE c == "help"
               a == <<>>
               w == <<c>> \o a
    <2>2. q \in NewCommand(r, c, a) /\ w = <<"help">>  BY <1>1, <1>2, <1>4
    <2>3. c \in CommandWords /\ a \in Seq(Int)  BY <2>1
    <2> HIDE DEF c, a
    <2>4. Ordered(r, q, l, i + 1, w)  BY <1>2, <1>4, <2>2, <2>3, Ordering
    <2> QED  BY <1>2, <1>4, <2>2, <2>4 DEF Ordered, Kept
  <1> QED  BY <1>3, <1>4

(* DSL_grammar_show: show status, and nothing else. *)
LEMMA ShowRule ==
  ASSUME NEW l, Parsable(l), NEW i, NEW p, At(p, l, i), NEW q \in DSL_grammar_show(p)
  PROVE  /\ l[i].tok # "show" => Skipped(p, q, l, i)
         /\ (l[i].tok = "show" /\ l[i + 1].tok # "status") => Skipped(p, q, l, i + 1)
         /\ (l[i].tok = "show" /\ l[i + 1].tok = "status") =>
              Ordered(p, q, l, i + 1, <<"status">>)
  <1>1. PICK r \in Pair("show", "status", p) :
          q \in IF r.ok THEN NewCommand(r, "status", <<>>) ELSE {r}
    BY DEF DSL_grammar_show, AndThen, Pair
  <1>2. /\ Kept(p, r)
        /\ l[i].tok # "show" => At(r, l, i) /\ ~ r.ok
        /\ l[i].tok = "show" => At(r, l, i + 1) /\ (r.ok <=> l[i + 1].tok = "status")
    BY <1>1, AcceptingPair
  <1>3. CASE ~ r.ok  BY <1>1, <1>2, <1>3 DEF Skipped
  <1>4. CASE r.ok
    <2>1. "status" \in CommandWords /\ <<>> \in Seq(Int)  BY DEF CommandWords
    <2> DEFINE c == "status"
               a == <<>>
               w == <<c>> \o a
    <2>2. q \in NewCommand(r, c, a) /\ w = <<"status">>  BY <1>1, <1>4
    <2>3. c \in CommandWords /\ a \in Seq(Int)  BY <2>1
    <2> HIDE DEF c, a
    <2>4. Ordered(r, q, l, i + 1, w)  BY <1>2, <1>4, <2>2, <2>3, Ordering
    <2> QED  BY <1>2, <1>4, <2>2, <2>4 DEF Ordered, Kept
  <1> QED  BY <1>3, <1>4


(* What may stand behind cache. *)
CacheOrder(l, i) == \/ l[i + 1].tok = "clear"
                    \/ l[i + 1].tok = "show" /\ l[i + 2].tok = "number"

(* DSL_grammar_cache: clear, or show and a number. *)
LEMMA CacheRule ==
  ASSUME NEW l, Parsable(l), NEW i, NEW p, At(p, l, i), NEW q \in DSL_grammar_cache(p)
  PROVE  /\ l[i].tok # "cache" => Skipped(p, q, l, i)
         /\ (l[i].tok = "cache" /\ ~ CacheOrder(l, i)) =>
              \E j \in i + 1 .. i + 2 : Skipped(p, q, l, j)
         /\ (l[i].tok = "cache" /\ l[i + 1].tok = "clear") =>
              Ordered(p, q, l, i + 1, <<"clear">>)
         /\ (l[i].tok = "cache" /\ l[i + 1].tok = "show" /\ l[i + 2].tok = "number") =>
              Ordered(p, q, l, i + 2, <<"show">> \o l[i + 2].value)
  <1> DEFINE Clear(s) == AndThen(DSL_accept_no_advance("clear", s),
                                 LAMBDA r : NewCommand(r, "clear", <<>>))
             Show(s) == AndThen(Pair("show", "number", s),
                                LAMBDA r : NewCommand(r, "show", r.curr.value))
  <1>1. PICK r1 \in DSL_accept("cache", p) :
          q \in IF r1.ok THEN OrElse(Clear(r1), Show) ELSE {r1}
    BY DEF DSL_grammar_cache, AndThen, Pair
  <1>2. /\ Kept(p, r1)
        /\ l[i].tok = "cache" => At(r1, l, i + 1) /\ r1.ok
        /\ l[i].tok # "cache" => At(r1, l, i) /\ ~ r1.ok
    BY <1>1, Accepting
  <1>3. CASE l[i].tok # "cache"  BY <1>1, <1>2, <1>3 DEF Skipped
  <1>4. CASE l[i].tok = "cache"
    <2>1. PICK r2 \in Clear(r1) : q \in IF r2.ok THEN {r2} ELSE Show(r2)
      BY <1>1, <1>2, <1>4 DEF OrElse
    <2>2. PICK r3 \in DSL_accept_no_advance("clear", r1) :
            r2 \in IF r3.ok THEN NewCommand(r3, "clear", <<>>) ELSE {r3}
      BY <2>1 DEF AndThen
    <2>3. Kept(r1, r3) /\ At(r3, l, i + 1) /\ (r3.ok <=> l[i + 1].tok = "clear")
      BY <1>2, <1>4, <2>2, AcceptingHere
    <2>4. /\ r2.ok => q = r2
          /\ ~ r2.ok => \E r \in Pair("show", "number", r2) :
               q \in IF r.ok THEN NewCommand(r, "show", r.curr.value) ELSE {r}
      BY <2>1 DEF AndThen
    <2> HIDE DEF Clear, Show
    <2>5. CASE r3.ok
      <3> DEFINE c == "clear"
                 a == <<>>
                 w == <<c>> \o a
      <3>1. r2 \in NewCommand(r3, c, a) /\ w = <<"clear">>  BY <2>2, <2>5
      <3>2. c \in CommandWords /\ a \in Seq(Int)  BY DEF CommandWords
      <3> HIDE DEF c, a
      <3>3. Ordered(r3, r2, l, i + 1, w)  BY <2>3, <2>5, <3>1, <3>2, Ordering
      <3>4. q = r2 /\ l[i + 1].tok = "clear"  BY <2>3, <2>4, <2>5, <3>3 DEF Ordered
      <3> QED  BY <1>2, <1>4, <2>3, <3>1, <3>3, <3>4 DEF Ordered, Kept, CacheOrder
    <2>6. CASE ~ r3.ok
      <3>1. r2 = r3 /\ l[i + 1].tok # "clear"  BY <2>2, <2>3, <2>6
      <3>2. PICK r \in Pair("show", "number", r2) :
              q \in IF r.ok THEN NewCommand(r, "show", r.curr.value) ELSE {r}
        BY <2>4, <2>6, <3>1
      <3> DEFINE m == i + 1
      <3>3. At(r2, l, m) /\ Kept(p, r2)  BY <1>2, <2>3, <3>1 DEF Kept
      <3>4. m \in Nat /\ m + 1 = i + 2 /\ m = i + 1 /\ i \in Nat
            /\ m \in i + 1 .. i + 2 /\ m + 1 \in i + 1 .. i + 2
        BY DEF At
      <3> HIDE DEF m
      <3>5. /\ Kept(r2, r)
            /\ l[m].tok # "show" => At(r, l, m) /\ ~ r.ok
            /\ l[m].tok = "show" => At(r, l, m + 1) /\ (r.ok <=> l[m + 1].tok = "number")
        BY <3>2, <3>3, AcceptingPair
      <3>6. CASE ~ r.ok
        <4>1. q = r /\ ~ CacheOrder(l, i)
          BY <3>1, <3>2, <3>5, <3>6, <3>4 DEF CacheOrder
        <4>2. Skipped(p, q, l, m) \/ Skipped(p, q, l, m + 1)
          BY <3>3, <3>5, <3>6, <4>1 DEF Skipped, Kept
        <4>3. \E j \in i + 1 .. i + 2 : Skipped(p, q, l, j)
          BY <3>4, <4>2
        <4> QED  BY <1>4, <3>1, <4>1, <4>3 DEF CacheOrder
      <3>7. CASE r.ok
        <4>1. At(r, l, i + 2) /\ l[i + 1].tok = "show" /\ l[i + 2].tok = "number"
          BY <3>5, <3>7, <3>4
        <4> DEFINE c == "show"
                   a == l[i + 2].value
                   w == <<c>> \o a
        <4>2. q \in NewCommand(r, c, a)  BY <3>2, <3>7, <4>1 DEF At
        <4>3. c \in CommandWords /\ a \in Seq(Int)
          <5>1. l[i + 2] \in Scanned  BY <4>1 DEF At, ParseState
          <5> DEFINE v == l[i + 2].value
          <5>2. v[1] \in Int /\ v = <<v[1]>>  BY <4>1, <5>1, ScannedFields
          <5> HIDE DEF v
          <5>3. v \in Seq(Int)
            <6> DEFINE x == v[1]
            <6>1. x \in Int /\ v = <<x>>  BY <5>2
            <6> HIDE DEF x
            <6>2. <<x>> \in Seq(Int)  BY <6>1
            <6> QED  BY <6>1, <6>2
          <5> QED  BY <5>3 DEF v, CommandWords
        <4>4. w = <<"show">> \o l[i + 2].value  OBVIOUS
        <4> HIDE DEF c, a
        <4>5. Ordered(r, q, l, i + 2, w)  BY <3>7, <4>1, <4>2, <4>3, Ordering
        <4> QED  BY <1>4, <3>1, <3>3, <3>5, <4>1, <4>4, <4>5 DEF Ordered, Kept, CacheOrder
      <3> QED  BY <3>6, <3>7
    <2> QED  BY <2>5, <2>6
  <1> QED  BY <1>3, <1>4

(* DSL_parse tries its rules in turn, each from where the last one failed. *)
Tried(p, q, S) == IF p.ok THEN q = p ELSE q \in S

(* DSL_parse is that chain. *)
LEMMA Chain ==
  ASSUME NEW p, NEW q \in DSL_parse(p)
  PROVE  \E a \in DSL_grammar_raw(p) : \E b, c, d, e, f :
           /\ Tried(a, b, DSL_grammar_help(a))
           /\ Tried(b, c, DSL_grammar_show(b))
           /\ Tried(c, d, DSL_grammar_cache(c))
           /\ Tried(d, e, DSL_grammar_forward(d))
           /\ Tried(e, f, DSL_grammar_reverse(e))
           /\ Tried(f, q, DSL_grammar_stop(f))
  <1> DEFINE Helped(s) == OrElse(DSL_grammar_raw(s), DSL_grammar_help)
             Shown(s) == OrElse(Helped(s), DSL_grammar_show)
             Emptied(s) == OrElse(Shown(s), DSL_grammar_cache)
             Forth(s) == OrElse(Emptied(s), DSL_grammar_forward)
             Back(s) == OrElse(Forth(s), DSL_grammar_reverse)
  <1>1. q \in OrElse(Back(p), DSL_grammar_stop)  BY DEF DSL_parse
  <1>2. PICK f \in Back(p) : Tried(f, q, DSL_grammar_stop(f))  BY <1>1 DEF OrElse, Tried
  <1>3. PICK e \in Forth(p) : Tried(e, f, DSL_grammar_reverse(e))
    BY <1>2 DEF OrElse, Tried
  <1>4. PICK d \in Emptied(p) : Tried(d, e, DSL_grammar_forward(d))
    BY <1>3 DEF OrElse, Tried
  <1>5. PICK c \in Shown(p) : Tried(c, d, DSL_grammar_cache(c))  BY <1>4 DEF OrElse, Tried
  <1>6. PICK b \in Helped(p) : Tried(b, c, DSL_grammar_show(b))  BY <1>5 DEF OrElse, Tried
  <1>7. PICK a \in DSL_grammar_raw(p) : Tried(a, b, DSL_grammar_help(a))
    BY <1>6 DEF OrElse, Tried
  <1> HIDE DEF Helped, Shown, Cached, Forth, Back
  <1> QED  BY <1>2, <1>3, <1>4, <1>5, <1>6, <1>7

-----------------------------------------------------------------------------
(* A WHOLE PARSE: WHAT IS LOST *)

(* The words of a line before i that begin a packet. *)
MoveWords == {"forward", "reverse", "stop"}
Commands(l, i) == {k \in 1 .. i - 1 : l[k].tok \in MoveWords}

(* There are more of them the further the parse is. *)
LEMMA Counting ==
  ASSUME NEW l, NEW i \in Nat, NEW j \in Nat, i <= j
  PROVE  /\ IsFiniteSet(Commands(l, i)) /\ Cardinality(Commands(l, i)) \in Nat
         /\ Cardinality(Commands(l, i)) <= Cardinality(Commands(l, j))
         /\ (i < j /\ i >= 1 /\ l[i].tok \in MoveWords) =>
              Cardinality(Commands(l, i)) + 1 <= Cardinality(Commands(l, j))
  <1> DEFINE S == Commands(l, i)
             T == Commands(l, j)
  <1>1. IsFiniteSet(S) /\ IsFiniteSet(T)
    <2>1. S \subseteq 1 .. i - 1 /\ T \subseteq 1 .. j - 1  BY DEF Commands
    <2>2. 1 \in Int /\ i - 1 \in Int /\ j - 1 \in Int  OBVIOUS
    <2>3. IsFiniteSet(1 .. i - 1) /\ IsFiniteSet(1 .. j - 1)  BY <2>2, FS_Interval
    <2> HIDE DEF S, T
    <2> QED  BY <2>1, <2>3, FS_Subset
  <1>2. S \subseteq T  BY DEF Commands
  <1>3. (i < j /\ i >= 1 /\ l[i].tok \in MoveWords) => i \in T /\ i \notin S
    BY DEF Commands
  <1>4. (i \in T /\ i \notin S) => S \cup {i} \subseteq T  BY <1>2
  <1> HIDE DEF S, T
  <1>5. Cardinality(S) <= Cardinality(T) /\ Cardinality(S) \in Nat
    BY <1>1, <1>2, FS_Subset, FS_CardinalityType
  <1>6. i \notin S =>
       IsFiniteSet(S \cup {i}) /\ Cardinality(S \cup {i}) = Cardinality(S) + 1
    BY <1>1, FS_AddElement
  <1>7. (S \cup {i} \subseteq T) => Cardinality(S \cup {i}) <= Cardinality(T)
    BY <1>1, FS_Subset
  <1> QED  BY <1>1, <1>3, <1>4, <1>5, <1>6, <1>7 DEF S, T

(* Before a packet is made, and from then on. *)
Early(p, l, i) == /\ At(p, l, i) /\ p.lost = 0
                  /\ p.type = "undef" \/ (p.ok /\ p.type \in {"raw", "sys"})

(* A packet that a command of the line has made. *)
Commanded(p, l) ==
  \/ Halting(p, l)
  \/ p.packet \in {DCC_special_broadcast_stop_packet, DCC_special_emergency_stop_packet}
  \/ \E r \in {0, 1}, a \in GivenAddresses(l), c \in GivenSpeeds(l) :
       Draft(p.packet, 1, a, 1, r, c)

(* Every packet but the last was lost, and each had a word of its own and  *)
(* one of n + 1 rules that make packets.                                   *)
Late(p, l, i, n) == \/ Early(p, l, i)
                    \/ /\ At(p, l, i) /\ p.type = "dcc"
                       /\ p.lost + 1 <= Cardinality(Commands(l, i))
                       /\ p.lost <= n
                       /\ p.ok => Commanded(p, l)

(* What has lost n has not lost more. *)
LEMMA LateMore ==
  ASSUME NEW p, NEW l, NEW i, NEW n \in Int, NEW m \in Int, n <= m, Late(p, l, i, n)
  PROVE  Late(p, l, i, m)
  <1>1. CASE Early(p, l, i)  BY <1>1 DEF Late
  <1>2. CASE ~ Early(p, l, i)
    <2>1. At(p, l, i) /\ p.lost <= n  BY <1>2 DEF Late
    <2>2. p.lost \in Nat  BY <2>1 DEF At, ParseState
    <2>3. p.lost <= m  BY <2>1, <2>2
    <2> QED  BY <1>2, <2>3 DEF Late
  <1> QED  BY <1>1, <1>2

(* A rule that fails leaves no packet. *)
LEMMA EarlySkipped ==
  ASSUME NEW l, NEW p, NEW i, Early(p, l, i), ~ p.ok, NEW q, NEW j, Skipped(p, q, l, j)
  PROVE  Early(q, l, j)
  BY DEF Early, Skipped, Kept

(* A system command is no packet either. *)
LEMMA EarlyOrdered ==
  ASSUME NEW l, NEW p, NEW i, Early(p, l, i), NEW q, NEW j, NEW c, Ordered(p, q, l, j, c)
  PROVE  Early(q, l, j)
  BY DEF Early, Ordered

(* No rule before forward makes a packet. *)
LEMMA EarlyRules ==
  ASSUME NEW l, Parsable(l), NEW p, NEW i, Early(p, l, i), ~ p.ok, NEW q,
         q \in DSL_grammar_raw(p) \cup DSL_grammar_help(p)
                 \cup DSL_grammar_show(p) \cup DSL_grammar_cache(p)
  PROVE  \E j : Early(q, l, j)
  <1>1. At(p, l, i) /\ p.type = "undef" /\ p.lost = 0  BY DEF Early
  <1>2. CASE q \in DSL_grammar_raw(p)
    <2>1. \/ \E j : Skipped(p, q, l, j)
          \/ q.ok /\ At(q, l, i + 2) /\ q.type \in {p.type, "raw"} /\ q.lost = p.lost
      BY <1>1, <1>2, RawRule
    <2>2. CASE \E j : Skipped(p, q, l, j)  BY <2>2, EarlySkipped
    <2>3. CASE q.ok /\ At(q, l, i + 2) /\ q.type \in {p.type, "raw"} /\ q.lost = p.lost
      BY <1>1, <2>3 DEF Early
    <2> QED  BY <2>1, <2>2, <2>3
  <1>3. CASE q \in DSL_grammar_help(p)
    <2>1. (\E j : Skipped(p, q, l, j)) \/ (\E j, c : Ordered(p, q, l, j, c))
      BY <1>1, <1>3, HelpRule
    <2> QED  BY <2>1, EarlySkipped, EarlyOrdered
  <1>4. CASE q \in DSL_grammar_show(p)
    <2>1. (\E j : Skipped(p, q, l, j)) \/ (\E j, c : Ordered(p, q, l, j, c))
      BY <1>1, <1>4, ShowRule
    <2> QED  BY <2>1, EarlySkipped, EarlyOrdered
  <1>5. CASE q \in DSL_grammar_cache(p)
    <2>1. (\E j : Skipped(p, q, l, j)) \/ (\E j, c : Ordered(p, q, l, j, c))
      BY <1>1, <1>5, CacheRule DEF CacheOrder
    <2> QED  BY <2>1, EarlySkipped, EarlyOrdered
  <1> QED  BY <1>2, <1>3, <1>4, <1>5

(* The next packet is lost at the cost of a word that was read. *)
LEMMA LateLost ==
  ASSUME NEW l, NEW p, NEW i, NEW n \in -1 .. 1, Late(p, l, i, n), ~ p.ok, i \in Nat
  PROVE  /\ LostAfter(p) <= Cardinality(Commands(l, i)) /\ LostAfter(p) \in Nat
         /\ LostAfter(p) <= n + 1
  <1>1. Cardinality(Commands(l, i)) \in Nat  BY Counting
  <1>2. CASE p.type = "dcc"
    BY <1>1, <1>2 DEF Late, Early, LostAfter, At, ParseState
  <1>3. CASE p.type # "dcc"
    BY <1>1, <1>3 DEF Late, Early, LostAfter, At, ParseState
  <1> QED  BY <1>2, <1>3

(* A rule that fails loses nothing. *)
LEMMA LateSkipped ==
  ASSUME NEW l, NEW p, NEW i, NEW n \in -1 .. 1, Late(p, l, i, n), ~ p.ok,
         NEW q, Skipped(p, q, l, i)
  PROVE  Late(q, l, i, n)
  BY DEF Late, Early, Skipped, Kept

(* A rule that makes a packet read a word for it. *)
LEMMA LateMade ==
  ASSUME NEW l, NEW p, NEW i, NEW n \in -1 .. 1, Late(p, l, i, n), ~ p.ok,
         l[i].tok \in MoveWords,
         NEW q, NEW j, At(q, l, j), j > i, q.type = "dcc", q.lost = LostAfter(p),
         q.ok => Commanded(q, l)
  PROVE  Late(q, l, j, n + 1)
  <1>1. i \in Nat /\ i >= 1 /\ j \in Nat  BY DEF Late, Early, At
  <1>2. /\ LostAfter(p) <= Cardinality(Commands(l, i)) /\ LostAfter(p) \in Nat
        /\ LostAfter(p) <= n + 1
    BY <1>1, LateLost
  <1>3. /\ Cardinality(Commands(l, i)) \in Nat /\ Cardinality(Commands(l, j)) \in Nat
        /\ Cardinality(Commands(l, i)) + 1 <= Cardinality(Commands(l, j))
    BY <1>1, Counting
  <1> QED  BY <1>2, <1>3 DEF Late

(* The rules that make packets lose one for each word at most; stop, which *)
(* fails only over another word, none if it fails.                         *)
LEMMA LateRules ==
  ASSUME NEW l, Parsable(l), NEW p, NEW i, NEW n \in -1 .. 1, Late(p, l, i, n),
         ~ p.ok, NEW q,
         q \in DSL_grammar_forward(p) \cup DSL_grammar_reverse(p) \cup DSL_grammar_stop(p)
  PROVE  /\ \E j : Late(q, l, j, n + 1)
         /\ q \in DSL_grammar_stop(p) /\ ~ q.ok => \E j : Late(q, l, j, n)
  <1>1. (\E j : Late(q, l, j, n)) => \E j : Late(q, l, j, n + 1)
    BY LateMore
  <1>2. At(p, l, i) /\ i \in Nat  BY DEF Late, Early, At
  <1>3. ASSUME NEW t, t \in {"forward", "reverse"}, NEW r \in {0, 1}, q \in Move(t, r, p)
        PROVE  \E j : Late(q, l, j, n + 1)
    <2>1. CASE l[i].tok # t
      <3>1. Skipped(p, q, l, i)  BY <1>2, <1>3, <2>1, MoveRule DEF Skipped
      <3> QED  BY <1>1, <3>1, LateSkipped
    <2>2. CASE l[i].tok = t
      <3>1. PICK j : Moved(q, l, i, j, p, r)  BY <1>2, <1>3, <2>2, MoveRule
      <3>2. l[i].tok \in MoveWords  BY <1>3, <2>2 DEF MoveWords
      <3>3. /\ At(q, l, j) /\ j > i /\ q.type = "dcc" /\ q.lost = LostAfter(p)
            /\ q.ok => Commanded(q, l)
        BY <1>2, <3>1 DEF Moved, Commanded
      <3> QED  BY <3>2, <3>3, LateMade
    <2> QED  BY <2>1, <2>2
  <1>4. ASSUME q \in DSL_grammar_forward(p) \cup DSL_grammar_reverse(p)
        PROVE  \E j : Late(q, l, j, n + 1)
    BY <1>3, <1>4 DEF DSL_grammar_forward, DSL_grammar_reverse
  <1>5. ASSUME q \in DSL_grammar_stop(p)
        PROVE  (\E j : Late(q, l, j, n)) \/ (q.ok /\ \E j : Late(q, l, j, n + 1))
    <2>1. CASE l[i].tok # "stop"
      <3>1. Skipped(p, q, l, i)  BY <1>2, <1>5, <2>1, StopRule DEF Skipped
      <3> QED  BY <3>1, LateSkipped
    <2>2. CASE l[i].tok = "stop"
      <3>1. PICK j : Stopped(q, l, i, j, p)  BY <1>2, <1>5, <2>2, StopRule
      <3>2. l[i].tok \in MoveWords  BY <2>2 DEF MoveWords
      <3>3. /\ At(q, l, j) /\ j > i /\ q.type = "dcc" /\ q.lost = LostAfter(p)
            /\ q.ok => Commanded(q, l)
            /\ q.ok
        BY <1>2, <3>1 DEF Stopped, Commanded
      <3> QED  BY <3>2, <3>3, LateMade
    <2> QED  BY <2>1, <2>2
  <1>6. q \in DSL_grammar_stop(p) => \E j : Late(q, l, j, n + 1)  BY <1>1, <1>5
  <1>7. q \in DSL_grammar_stop(p) /\ ~ q.ok => \E j : Late(q, l, j, n)  BY <1>5
  <1> QED  BY <1>4, <1>6, <1>7

(* So a whole parse loses fewer packets than it read words: two at most,   *)
(* one at most if it fails.                                                *)
LEMMA Parsing ==
  ASSUME NEW l, Parsable(l), NEW p, Early(p, l, 1), ~ p.ok, NEW q \in DSL_parse(p)
  PROVE  \E j : Late(q, l, j, IF q.ok THEN 2 ELSE 1)
  <1>1. PICK a \in DSL_grammar_raw(p) : \E b, c, d, e, f :
           /\ Tried(a, b, DSL_grammar_help(a))
           /\ Tried(b, c, DSL_grammar_show(b))
           /\ Tried(c, d, DSL_grammar_cache(c))
           /\ Tried(d, e, DSL_grammar_forward(d))
           /\ Tried(e, f, DSL_grammar_reverse(e))
           /\ Tried(f, q, DSL_grammar_stop(f))
    BY Chain
  <1>2. PICK b, c, d, e, f :
           /\ Tried(a, b, DSL_grammar_help(a))
           /\ Tried(b, c, DSL_grammar_show(b))
           /\ Tried(c, d, DSL_grammar_cache(c))
           /\ Tried(d, e, DSL_grammar_forward(d))
           /\ Tried(e, f, DSL_grammar_reverse(e))
           /\ Tried(f, q, DSL_grammar_stop(f))
    BY <1>1
  <1>3. \E j : Early(a, l, j)  BY <1>1, EarlyRules
  <1>4. \E j : Early(b, l, j)  BY <1>2, <1>3, EarlyRules DEF Tried
  <1>5. \E j : Early(c, l, j)  BY <1>2, <1>4, EarlyRules DEF Tried
  <1>6. \E j : Early(d, l, j)  BY <1>2, <1>5, EarlyRules DEF Tried
  <1>7. \E j : Late(d, l, j, -1)  BY <1>6 DEF Late
  <1>8. \E j : Late(e, l, j, 0)
    <2>1. CASE d.ok  BY <1>2, <1>6, <2>1 DEF Tried, Late
    <2>2. CASE ~ d.ok
      <3>1. e \in DSL_grammar_forward(d)  BY <1>2, <2>2 DEF Tried
      <3>2. \E j : Late(e, l, j, -1 + 1)  BY <1>7, <2>2, <3>1, LateRules
      <3> QED  BY <3>2
    <2> QED  BY <2>1, <2>2
  <1>9. \E j : Late(f, l, j, 1)
    <2>1. CASE e.ok
      <3>1. f = e  BY <1>2, <2>1 DEF Tried
      <3> QED  BY <1>8, <3>1, LateMore
    <2>2. CASE ~ e.ok
      <3>1. f \in DSL_grammar_reverse(e)  BY <1>2, <2>2 DEF Tried
      <3>2. \E j : Late(f, l, j, 0 + 1)  BY <1>8, <2>2, <3>1, LateRules
      <3> QED  BY <3>2
    <2> QED  BY <2>1, <2>2
  <1>10. CASE f.ok
    <2>1. q = f  BY <1>2, <1>10 DEF Tried
    <2>2. \E j : Late(q, l, j, 2)  BY <1>9, <2>1, LateMore
    <2> QED  BY <1>10, <2>1, <2>2
  <1>11. CASE ~ f.ok
    <2>1. q \in DSL_grammar_stop(f)  BY <1>2, <1>11 DEF Tried
    <2>2. (\E j : Late(q, l, j, 1 + 1)) /\ (~ q.ok => \E j : Late(q, l, j, 1))
      BY <1>9, <1>11, <2>1, LateRules
    <2> QED  BY <2>2
  <1> QED  BY <1>10, <1>11

-----------------------------------------------------------------------------
(* WHAT A PARSE LEAVES *)

(* A packet that moves, or halts, the loco of address n. *)
IsMove(q, n, d, s) ==
  /\ q \in [1 .. 5 -> BYTE]
  /\ Bits(q) = BaselineFrame(AddressOf(n), SpeedInstruction(d, s))
  /\ DCC_get_address(q) = Byte(AddressOf(n))
  /\ DCC_get_speed_step(q) = s
  /\ DCC_get_direction(q) = d
  /\ ~ DCC_is_broadcast_stop(q)

(* The packet of a move is what it is meant to be, and is read as that. *)
LEMMA FinishedMove ==
  ASSUME NEW p, NEW n \in Int, NEW d \in {0, 1}, NEW s \in 0 .. 28,
         Draft(p, 1, Byte(AddressOf(n)), 1, d, DCC_speed_steps[s + 1]),
         NEW q, q = DCC_set_packet_end(DCC_set_checksum(p))
  PROVE  IsMove(q, n, d, s)
  <1> DEFINE a == Byte(AddressOf(n))
             c == DCC_speed_steps[s + 1]
  <1>1. a \in Addresses  BY AddressBits DEF AddressOf, DCC_ADDRESS_MAX
  <1>2. c \in Codes /\ c # {4} /\ c # {0, 4}  BY SpeedSteps
  <1>3. Draft(p, 1, a, 1, d, c)  OBVIOUS
  <1>4. BaselineFrame(AddressOf(n), SpeedInstruction(d, s))
          = Frame(a, Instruction(d, c), Xor(a, Instruction(d, c)))
    BY FrameOfMove DEF AddressOf, DCC_ADDRESS_MAX
  <1>5. \A t \in 0 .. 28 : DCC_speed_steps[t + 1] = c => t = s  BY StepsDiffer
  <1>6. c = DCC_speed_steps[s + 1]  OBVIOUS
  <1> HIDE DEF a, c
  <1>7. Bits(q) = Frame(a, Instruction(d, c), Xor(a, Instruction(d, c)))
    BY <1>1, <1>2, <1>3, FinishedFrame
  <1>8. /\ q \in [1 .. 5 -> BYTE]
        /\ q[1] = 0 .. 7 /\ q[2] = (4 .. 7) \cup ShiftRight(a, 5)
        /\ q[3] = ShiftLeft(a, 3) \cup {0}
        /\ q[4] = (IF d = 1 THEN {7} ELSE {}) \cup ShiftLeft(c, 2)
    BY <1>1, <1>2, <1>3, Finishing
  <1>9. DCC_get_address(q) = a  BY <1>1, <1>8, AddressRead
  <1>10. DCC_get_speed_step(q) = s
    <2>1. q[4] \ DCC_MASK_SPEED_3 = ShiftLeft(c, 2)
      BY <1>2, <1>8, Masks DEF ShiftLeft, Codes
    <2>2. ShiftRight(q[4] \ DCC_MASK_SPEED_3, 2) = c  BY <1>2, <2>1, ThereAndBack
    <2> DEFINE U == {i \in 0 .. DCC_MAX_SPEED_STEPS - 1 :
                       DCC_speed_steps[i + 1] = ShiftRight(q[4] \ DCC_MASK_SPEED_3, 2)}
    <2>3. DCC_get_speed_step(q) = IF U = {} THEN 0 ELSE CHOOSE i \in U : \A j \in U : i <= j
      BY DEF DCC_get_speed_step
    <2>4. U = {s}
      <3>1. DCC_MAX_SPEED_STEPS - 1 = 28  BY DEF DCC_MAX_SPEED_STEPS
      <3>2. U = {i \in 0 .. 28 : DCC_speed_steps[i + 1] = c}  BY <2>2, <3>1
      <3> QED  BY <1>5, <1>6, <3>2
    <2>5. (CHOOSE i \in {s} : \A j \in {s} : i <= j) = s  OBVIOUS
    <2> HIDE DEF U
    <2> QED  BY <2>3, <2>4, <2>5
  <1>11. DCC_get_direction(q) = d
    <2>1. q[4] \ DCC_MASK_DIRECTION_3 = IF d = 1 THEN {7} ELSE {}
      BY <1>2, <1>8, Masks DEF ShiftLeft, Codes
    <2>2. ShiftRight({7}, 7) = {0} /\ ShiftRight({}, 7) = {}  BY DEF ShiftRight
    <2>3. Byte(1) = {0}  BY Masks
    <2> QED  BY <2>1, <2>2, <2>3 DEF DCC_get_direction
  <1>12. ~ DCC_is_broadcast_stop(q)
    <2>1. Byte(192) = {6, 7} /\ Byte(196) = {2, 6, 7}
      <3>1. Byte(192) = {6, 7}  BY ByteBits DEF BYTE
      <3>2. Byte(196) = {2, 6, 7}  BY ByteBits DEF BYTE
      <3> QED  BY <3>1, <3>2
    <2>2. SUFFICES ASSUME q[4] \in {{6, 7}, {2, 6, 7}}  PROVE FALSE
      BY <2>1 DEF DCC_is_broadcast_stop
    <2>3. ShiftLeft(c, 2) = q[4] \ {7}
      <3>1. 7 \notin ShiftLeft(c, 2)  BY <1>2 DEF ShiftLeft, Codes
      <3> QED  BY <1>8, <3>1
    <2>4. c = ShiftRight(q[4] \ {7}, 2)  BY <1>2, <2>3, ThereAndBack
    <2>5. ShiftRight({6}, 2) = {4} /\ ShiftRight({2, 6}, 2) = {0, 4}  BY DEF ShiftRight
    <2>6. q[4] \ {7} \in {{6}, {2, 6}}
      <3>1. {6, 7} \ {7} = {6} /\ {2, 6, 7} \ {7} = {2, 6}  OBVIOUS
      <3> QED  BY <2>2, <3>1
    <2> QED  BY <1>2, <2>4, <2>5, <2>6
  <1> QED  BY <1>4, <1>7, <1>8, <1>9, <1>10, <1>11, <1>12 DEF IsMove, a

(* The state with which DSL_parser_start calls DSL_parse. *)
Begun(l) == DSL_advance([rest |-> l, curr |-> newline, ok |-> FALSE, type |-> "undef",
                         packet |-> <<>>, cmd |-> <<>>, lost |-> 0])

(* Before DSL_parse nothing was made or lost. *)
LEMMA Beginning ==
  ASSUME NEW l, Parsable(l)
  PROVE  Early(Begun(l), l, 1) /\ ~ Begun(l).ok
  <1> DEFINE t == "undef"
             p == Begun(l)
             h == Head(l)
             r == Tail(l)
             b == [rest |-> l, curr |-> newline, ok |-> FALSE, type |-> t,
                   packet |-> <<>>, cmd |-> <<>>, lost |-> 0]
  <1>1. p = DSL_advance(b)  BY DEF Begun
  <1>2. h \in Scanned /\ r \in Seq(Scanned) /\ Len(l) \in Nat /\ Len(l) >= 1
        /\ h = l[1] /\ r = SubSeq(l, 2, Len(l)) /\ l \in Seq(Scanned)
    BY HeadTailProperties, TailIsSubSeq, EmptySeq DEF Parsable
  <1>3. t \in Types /\ <<>> \in Seq(BYTE) /\ <<>> \in Seq(CommandWords \cup Int)
    BY DEF Types
  <1>4. t = "undef"  OBVIOUS
  <1> DEFINE n == newline
             R == [rest : Seq(Scanned), curr : Scanned \cup {n}, ok : BOOLEAN, type : Types,
                   packet : Seq(BYTE), cmd : Seq(CommandWords \cup Int), lost : Nat]
  <1> HIDE DEF t, n
  <1>5. b \in R /\ b.rest = l /\ b.type = t /\ b.lost = 0 /\ ~ b.ok
    BY <1>2, <1>3 DEF n
  <1> HIDE DEF b, h, r, p
  <1>6. p = [b EXCEPT !.curr = h, !.rest = r]  BY <1>1, <1>5 DEF DSL_advance, h, r
  <1>7. p \in R /\ p.rest = r /\ p.curr = h /\ p.type = t /\ p.lost = 0 /\ ~ p.ok
    BY <1>2, <1>5, <1>6
  <1>8. p \in ParseState /\ p.rest = r /\ p.curr = h /\ p.type = t /\ p.lost = 0 /\ ~ p.ok
    <2>1. p.curr \in Scanned  BY <1>2, <1>7
    <2> QED  BY <1>7, <2>1 DEF ParseState
  <1>9. 1 \in 1 .. Len(l) /\ 1 + 1 = 2  BY <1>2
  <1>10. At(p, l, 1)  BY <1>2, <1>8, <1>9 DEF At
  <1> QED  BY <1>8, <1>10, <1>4 DEF Early, p

(* What the packet of a command is in the end. *)
IsStop(q) == /\ q \in [1 .. 5 -> BYTE] /\ DCC_is_broadcast_stop(q)
             /\ Bits(q) \in {StopFrame, EmergencyStopFrame}

(* What DSL_parser_start adds to a packet. *)
Ends(p) == DCC_set_packet_end(DCC_set_checksum(p))

(* A finished move has address and speed from the line. *)
LEMMA GivenMove ==
  ASSUME NEW l, Parsable(l), NEW r \in {0, 1}, NEW a \in GivenAddresses(l),
         NEW c \in GivenSpeeds(l), NEW p, Draft(p, 1, a, 1, r, c)
  PROVE  \E n \in Given("addr", l), v \in Given("speed", l) : IsMove(Ends(p), n, r, StepOf(v))
  <1>1. PICK n \in Given("addr", l) : a = Byte(AddressOf(n))  BY DEF GivenAddresses
  <1>2. PICK v \in Given("speed", l) : c = DCC_speed_steps[StepOf(v) + 1]
    BY DEF GivenSpeeds
  <1>3. n \in Int /\ v \in Int
    <2>1. ASSUME NEW t, NEW k \in 1 .. Len(l) - 1, l[k + 1].tok = "number"
          PROVE  l[k + 1].value[1] \in Int
      <3>1. k + 1 \in 1 .. Len(l)  BY DEF Parsable
      <3> QED  BY <2>1, <3>1, NumberHere
    <2> QED  BY <2>1 DEF Given
  <1>4. StepOf(v) \in 0 .. 28  BY <1>3 DEF StepOf
  <1> DEFINE s == StepOf(v)
             q == Ends(p)
  <1>5. Draft(p, 1, Byte(AddressOf(n)), 1, r, DCC_speed_steps[s + 1])  BY <1>1, <1>2
  <1>6. s \in 0 .. 28 /\ q = DCC_set_packet_end(DCC_set_checksum(p))  BY <1>4 DEF Ends
  <1> HIDE DEF s, q
  <1>7. IsMove(q, n, r, s)  BY <1>3, <1>5, <1>6, FinishedMove
  <1> QED  BY <1>7 DEF s, q

(* A finished stop of a loco has its address from the line. *)
LEMMA GivenHalt ==
  ASSUME NEW l, Parsable(l), NEW p, Halting(p, l)
  PROVE  \E n \in Given("addr", l) : IsMove(Ends(p.packet), n, 0, 0)
  <1>1. PICK a \in GivenAddresses(l) : Draft(p.packet, 1, a, 1, 0, DCC_speed_steps[1])
    BY DEF Halting
  <1>2. PICK n \in Given("addr", l) : a = Byte(AddressOf(n))  BY <1>1 DEF GivenAddresses
  <1>3. n \in Int
    <2>1. ASSUME NEW t, NEW k \in 1 .. Len(l) - 1, l[k + 1].tok = "number"
          PROVE  l[k + 1].value[1] \in Int
      <3>1. k + 1 \in 1 .. Len(l)  BY DEF Parsable
      <3> QED  BY <2>1, <3>1, NumberHere
    <2> QED  BY <2>1 DEF Given
  <1> DEFINE s == 0
             d == 0
             q == Ends(p.packet)
             x == p.packet
  <1>4. s \in 0 .. 28 /\ d \in {0, 1} /\ s + 1 = 1
        /\ q = DCC_set_packet_end(DCC_set_checksum(x))
    BY DEF Ends
  <1>5. Draft(x, 1, Byte(AddressOf(n)), 1, d, DCC_speed_steps[s + 1])
    BY <1>1, <1>2, <1>4
  <1> HIDE DEF s, d, q, x
  <1>6. IsMove(q, n, d, s)  BY <1>3, <1>4, <1>5, FinishedMove
  <1> QED  BY <1>6 DEF s, d, q

(* What DSL_parser_start may leave. *)
Parsed(q, l) ==
  /\ q.type = "dcc" =>
       \/ IsStop(q.packet)
       \/ \E n \in Given("addr", l) : IsMove(q.packet, n, 0, 0)
       \/ \E d \in {0, 1}, n \in Given("addr", l), v \in Given("speed", l) :
            IsMove(q.packet, n, d, StepOf(v))
  /\ ~ q.ok => q.type = "undef" /\ q.packet = <<>>
  /\ q.lost > 0 => q.lost < Cardinality({k \in DOMAIN l : l[k].tok \in MoveWords})
  /\ q.lost <= IF q.ok THEN 2 ELSE 1

(* Finishing a packet does not move. *)
LEMMA FinishedHere ==
  ASSUME NEW l, NEW i, NEW p, At(p, l, i), p.type # "dcc" \/ Ends(p.packet) \in [1 .. 5 -> BYTE],
         NEW q, q = Finished(p)
  PROVE  /\ At(q, l, i) /\ q.type = p.type /\ q.lost = p.lost /\ q.ok = p.ok /\ q.cmd = p.cmd
         /\ q.packet = IF p.type = "dcc" THEN Ends(p.packet) ELSE p.packet
  <1>1. CASE p.type # "dcc"  BY <1>1 DEF Finished
  <1>2. CASE p.type = "dcc"
    <2> DEFINE k == Ends(p.packet)
    <2>1. k \in [1 .. 5 -> BYTE] /\ q = WithPacket(p, k)
      BY <1>2 DEF Finished, WithPacket, Ends
    <2> HIDE DEF k
    <2>2. At(q, l, i) /\ q.packet = k /\ q.type = p.type /\ q.lost = p.lost
          /\ q.ok = p.ok /\ q.cmd = p.cmd
      BY <2>1, Replacing
    <2> QED  BY <1>2, <2>2 DEF k
  <1> QED  BY <1>1, <1>2

(* A packet that a command has made is finished as that command's. *)
LEMMA CommandedEnds ==
  ASSUME NEW l, Parsable(l), NEW p, Commanded(p, l)
  PROVE  /\ Ends(p.packet) \in [1 .. 5 -> BYTE]
         /\ \/ IsStop(Ends(p.packet))
            \/ \E n \in Given("addr", l) : IsMove(Ends(p.packet), n, 0, 0)
            \/ \E d \in {0, 1}, n \in Given("addr", l), v \in Given("speed", l) :
                 IsMove(Ends(p.packet), n, d, StepOf(v))
  <1>1. CASE Halting(p, l)
    BY <1>1, GivenHalt DEF IsMove
  <1>2. CASE p.packet \in {DCC_special_broadcast_stop_packet, DCC_special_emergency_stop_packet}
    <2> DEFINE q == Ends(p.packet)
               x == p.packet
    <2>1. q = DCC_set_packet_end(DCC_set_checksum(x))
          /\ x \in {DCC_special_broadcast_stop_packet, DCC_special_emergency_stop_packet}
      BY <1>2 DEF Ends
    <2> HIDE DEF q, x
    <2>2. /\ q \in [1 .. 5 -> BYTE]
          /\ x = DCC_special_broadcast_stop_packet => Bits(q) = StopFrame
          /\ x = DCC_special_emergency_stop_packet => Bits(q) = EmergencyStopFrame
          /\ DCC_is_broadcast_stop(q)
      BY <2>1, FinishedStop
    <2>3. IsStop(q)  BY <2>1, <2>2 DEF IsStop
    <2> QED  BY <2>2, <2>3 DEF q
  <1>3. CASE \E r \in {0, 1}, a \in GivenAddresses(l), c \in GivenSpeeds(l) :
               Draft(p.packet, 1, a, 1, r, c)
    <2>1. PICK r \in {0, 1}, a \in GivenAddresses(l), c \in GivenSpeeds(l) :
            Draft(p.packet, 1, a, 1, r, c)
      BY <1>3
    <2>2. \E n \in Given("addr", l), v \in Given("speed", l) :
            IsMove(Ends(p.packet), n, r, StepOf(v))
      BY <2>1, GivenMove
    <2> QED  BY <2>2 DEF IsMove
  <1> QED  BY <1>1, <1>2, <1>3 DEF Commanded

(* DSL_parser_start: the packet it returns was commanded, a parse that     *)
(* fails returns none, and what it loses had a command of its own.         *)
LEMMA ParserStart ==
  ASSUME NEW l, Parsable(l), NEW q \in DSL_parser_start(l)
  PROVE  /\ \E i : At(q, l, i)
         /\ Parsed(q, l)
         /\ \E p \in DSL_parse(Begun(l)) : q = IF p.ok THEN Finished(p) ELSE Trashed(p)
  <1>1. PICK p \in DSL_parse(Begun(l)) : q = IF p.ok THEN Finished(p) ELSE Trashed(p)
    BY DEF DSL_parser_start, Begun
  <1>2. PICK i : Late(p, l, i, IF p.ok THEN 2 ELSE 1)
    <2> DEFINE b == Begun(l)
    <2>1. Early(b, l, 1) /\ ~ b.ok /\ p \in DSL_parse(b)  BY <1>1, Beginning
    <2> HIDE DEF b
    <2> QED  BY <2>1, Parsing
  <1>3. At(p, l, i) /\ i \in 1 .. Len(l) /\ Len(l) \in Nat
    BY <1>2 DEF Late, Early, At, Parsable
  <1> DEFINE C == {k \in DOMAIN l : l[k].tok \in MoveWords}
  <1>4. p.lost > 0 => p.lost < Cardinality(C)
    <2>1. Commands(l, i) \subseteq C
      <3>1. DOMAIN l = 1 .. Len(l)  BY DEF Parsable
      <3> QED  BY <1>3, <3>1 DEF Commands
    <2>2. IsFiniteSet(C)
      <3>1. C \subseteq 1 .. Len(l)  BY DEF Parsable
      <3>2. IsFiniteSet(1 .. Len(l))  BY <1>3, FS_Interval
      <3> HIDE DEF C
      <3> QED  BY <3>1, <3>2, FS_Subset
    <2> HIDE DEF C
    <2>3. Cardinality(Commands(l, i)) <= Cardinality(C) /\ Cardinality(C) \in Nat
          /\ Cardinality(Commands(l, i)) \in Nat
      <3>1. i \in Nat  BY <1>3
      <3> QED  BY <2>1, <2>2, <3>1, FS_Subset, FS_CardinalityType, Counting
    <2>4. p.lost \in Nat  BY <1>3 DEF At, ParseState
    <2> QED  BY <1>2, <2>3, <2>4 DEF Late, Early
  <1> HIDE DEF C
  <1>5. p.lost <= IF p.ok THEN 2 ELSE 1  BY <1>2 DEF Late, Early
  <1>6. CASE ~ p.ok
    <2>1. q = Trashed(p)  BY <1>1, <1>6
    <2> DEFINE t == "undef"
               e == <<>>
    <2>2. q = [p EXCEPT !.type = t, !.packet = e] /\ t \in Types /\ e \in Seq(BYTE)
      BY <2>1 DEF Trashed, Types
    <2> HIDE DEF t, e
    <2>3. At(q, l, i) /\ q.type = t /\ q.packet = e /\ q.lost = p.lost /\ q.ok = p.ok
      BY <1>3, <2>2 DEF At, ParseState
    <2> QED  BY <1>1, <1>4, <1>6, <1>5, <2>3 DEF Parsed, t, e, C
  <1>7. CASE p.ok
    <2>1. q = Finished(p)  BY <1>1, <1>7
    <2>2. p.type = "dcc" => Commanded(p, l)  BY <1>2, <1>7 DEF Late, Early
    <2>3. p.type # "dcc" \/ Ends(p.packet) \in [1 .. 5 -> BYTE]
      BY <2>2, CommandedEnds
    <2>4. /\ At(q, l, i) /\ q.type = p.type /\ q.lost = p.lost /\ q.ok = p.ok
          /\ q.packet = IF p.type = "dcc" THEN Ends(p.packet) ELSE p.packet
      BY <1>3, <2>1, <2>3, FinishedHere
    <2>5. p.type = "dcc" =>
            \/ IsStop(q.packet)
            \/ \E n \in Given("addr", l) : IsMove(q.packet, n, 0, 0)
            \/ \E d \in {0, 1}, n \in Given("addr", l), v \in Given("speed", l) :
                 IsMove(q.packet, n, d, StepOf(v))
      <3>1. SUFFICES ASSUME p.type = "dcc"
            PROVE  \/ IsStop(q.packet)
                   \/ \E n \in Given("addr", l) : IsMove(q.packet, n, 0, 0)
                   \/ \E d \in {0, 1}, n \in Given("addr", l), v \in Given("speed", l) :
                        IsMove(q.packet, n, d, StepOf(v))
        OBVIOUS
      <3>2. q.packet = Ends(p.packet)  BY <2>4, <3>1
      <3> QED  BY <2>2, <3>1, <3>2, CommandedEnds
    <2> QED  BY <1>1, <1>4, <1>7, <1>5, <2>4, <2>5 DEF Parsed, C
  <1> QED  BY <1>6, <1>7

-----------------------------------------------------------------------------
(* SENTENCES OF THE GRAMMAR *)

(* The line without its newline. *)
LEMMA FrontOf ==
  ASSUME NEW l, Parsable(l)
  PROVE  /\ Len(Front(l)) = Len(l) - 1 /\ Len(l) \in Nat /\ Len(l) >= 1
         /\ \A k \in 1 .. Len(l) - 1 : Front(l)[k] = l[k]
         /\ Front(l) \in Seq(Scanned) /\ DOMAIN Front(l) = 1 .. Len(l) - 1
  <1>1. l \in Seq(Scanned) /\ Len(l) \in Nat /\ Len(l) >= 1  BY EmptySeq DEF Parsable
  <1>2. Front(l) = SubSeq(l, 1, Len(l) - 1)  BY DEF Front
  <1>3. /\ SubSeq(l, 1, Len(l) - 1) \in Seq(Scanned)
        /\ Len(SubSeq(l, 1, Len(l) - 1)) = Len(l) - 1
        /\ \A k \in 1 .. Len(l) - 1 : SubSeq(l, 1, Len(l) - 1)[k] = l[k]
    <2> DEFINE n == Len(l) - 1
               S == Scanned
               o == 1
    <2>1. \A k \in 1 .. n : l[k] \in S  BY <1>1
    <2>2. n \in Nat /\ n \in Int /\ o \in Int  BY <1>1
    <2> HIDE DEF n, S, o
    <2>3. \A k \in o .. n : l[k] \in S  BY <2>1 DEF o
    <2>4. /\ SubSeq(l, o, n) \in Seq(S)
          /\ Len(SubSeq(l, o, n)) = IF o <= n THEN n - o + 1 ELSE 0
          /\ \A k \in 1 .. n - o + 1 : SubSeq(l, o, n)[k] = l[o + k - 1]
      BY <2>2, <2>3, SubSeqProperties
    <2> DEFINE s == SubSeq(l, o, n)
    <2>5. /\ s \in Seq(S) /\ Len(s) = (IF o <= n THEN n - o + 1 ELSE 0)
          /\ \A k \in 1 .. n - o + 1 : s[k] = l[o + k - 1]
      BY <2>4
    <2> HIDE DEF s
    <2>6. s \in Seq(S) /\ Len(s) = n /\ \A k \in 1 .. n : s[k] = l[k]
      BY <2>2, <2>5 DEF o
    <2> QED  BY <2>6 DEF s, o, n, S
  <1> DEFINE s == SubSeq(l, 1, Len(l) - 1)
  <1>4. /\ s \in Seq(Scanned) /\ Len(s) = Len(l) - 1
        /\ \A k \in 1 .. Len(l) - 1 : s[k] = l[k]
    BY <1>3
  <1> HIDE DEF s
  <1>5. DOMAIN s = 1 .. Len(l) - 1  BY <1>1, <1>4
  <1> QED  BY <1>1, <1>2, <1>4, <1>5 DEF s

(* The tokens of a sentence are one of the shapes of the grammar. *)
LEMMA Shaped ==
  ASSUME NEW l, Parsable(l), NEW G, Sentence(l, G)
  PROVE  \E g \in G : Kinds(Front(l)) = g /\ DOMAIN g = 1 .. Len(l) - 1
                      /\ \A k \in 1 .. Len(l) - 1 : l[k].tok = g[k]
  <1> DEFINE f == Front(l)
  <1>1. /\ DOMAIN f = 1 .. Len(l) - 1 /\ Len(l) \in Nat
        /\ \A k \in 1 .. Len(l) - 1 : f[k] = l[k]
    BY FrontOf
  <1>2. Kinds(f) \in G  BY DEF Sentence
  <1> HIDE DEF f
  <1>3. Kinds(f) = [k \in 1 .. Len(l) - 1 |-> l[k].tok]  BY <1>1 DEF Kinds
  <1> QED  BY <1>2, <1>3 DEF f

(* A shape fixes the length and the tokens. *)
LEMMA ShapedBy ==
  ASSUME NEW l, Parsable(l), NEW n \in Nat, NEW g, DOMAIN g = 1 .. n,
         DOMAIN g = 1 .. Len(l) - 1, \A k \in 1 .. Len(l) - 1 : l[k].tok = g[k]
  PROVE  Len(l) = n + 1 /\ \A k \in 1 .. n : l[k].tok = g[k]
  <1>1. Len(l) \in Nat /\ Len(l) >= 1  BY FrontOf
  <1>2. 1 .. n = 1 .. Len(l) - 1  OBVIOUS
  <1>3. n = Len(l) - 1
    <2>1. n >= 1 => n \in 1 .. Len(l) - 1  BY <1>2
    <2>2. Len(l) - 1 >= 1 => Len(l) - 1 \in 1 .. n  BY <1>1, <1>2
    <2> QED  BY <1>1, <2>1, <2>2
  <1> QED  BY <1>1, <1>3

(* The sentences of the grammar. *)
LEMMA Shapes ==
  ASSUME NEW l, Parsable(l), Sentence(l, Grammar)
  PROVE  \/ Len(l) = 3 /\ l[1].tok = "raw" /\ l[2].tok = "hex"
         \/ Len(l) = 3 /\ l[1].tok = "show" /\ l[2].tok = "status"
         \/ Len(l) = 2 /\ l[1].tok = "help"
         \/ Len(l) = 3 /\ l[1].tok = "cache" /\ l[2].tok = "clear"
         \/ Len(l) = 4 /\ l[1].tok = "cache" /\ l[2].tok = "show" /\ l[3].tok = "number"
         \/ /\ Len(l) = 6 /\ l[1].tok \in {"forward", "reverse"}
            /\ BothGiven(l, 2, "addr", "speed") \/ BothGiven(l, 2, "speed", "addr")
         \/ Len(l) = 4 /\ l[1].tok = "stop" /\ l[2].tok = "addr" /\ l[3].tok = "number"
         \/ Len(l) = 3 /\ l[1].tok = "stop" /\ l[2].tok = "all"
         \/ Len(l) = 2 /\ l[1].tok = "stop"
  <1>1. PICK g \in Grammar : DOMAIN g = 1 .. Len(l) - 1
                             /\ \A k \in 1 .. Len(l) - 1 : l[k].tok = g[k]
    BY Shaped
  <1>2. CASE g = <<"raw", "hex">>
    <2>1. DOMAIN g = 1 .. 2 /\ g[1] = "raw" /\ g[2] = "hex"  BY <1>2
    <2>2. Len(l) = 3 /\ \A k \in 1 .. 2 : l[k].tok = g[k]
      <3> DEFINE n == 2
      <3>1. n \in Nat /\ DOMAIN g = 1 .. n  BY <2>1
      <3> HIDE DEF n
      <3>2. Len(l) = n + 1 /\ \A k \in 1 .. n : l[k].tok = g[k]  BY <1>1, <3>1, ShapedBy
      <3> QED  BY <3>2 DEF n
    <2>3. l[1].tok = "raw" /\ l[2].tok = "hex"  BY <2>1, <2>2
    <2> QED  BY <2>2, <2>3
  <1>3. CASE g = <<"show", "status">>
    <2>1. DOMAIN g = 1 .. 2 /\ g[1] = "show" /\ g[2] = "status"  BY <1>3
    <2>2. Len(l) = 3 /\ \A k \in 1 .. 2 : l[k].tok = g[k]
      <3> DEFINE n == 2
      <3>1. n \in Nat /\ DOMAIN g = 1 .. n  BY <2>1
      <3> HIDE DEF n
      <3>2. Len(l) = n + 1 /\ \A k \in 1 .. n : l[k].tok = g[k]  BY <1>1, <3>1, ShapedBy
      <3> QED  BY <3>2 DEF n
    <2>3. l[1].tok = "show" /\ l[2].tok = "status"  BY <2>1, <2>2
    <2> QED  BY <2>2, <2>3
  <1>4. CASE g = <<"help">>
    <2>1. DOMAIN g = 1 .. 1 /\ g[1] = "help"  BY <1>4
    <2>2. Len(l) = 2 /\ \A k \in 1 .. 1 : l[k].tok = g[k]
      <3> DEFINE n == 1
      <3>1. n \in Nat /\ DOMAIN g = 1 .. n  BY <2>1
      <3> HIDE DEF n
      <3>2. Len(l) = n + 1 /\ \A k \in 1 .. n : l[k].tok = g[k]  BY <1>1, <3>1, ShapedBy
      <3> QED  BY <3>2 DEF n
    <2>3. l[1].tok = "help"  BY <2>1, <2>2
    <2> QED  BY <2>2, <2>3
  <1>5. CASE g = <<"cache", "clear">>
    <2>1. DOMAIN g = 1 .. 2 /\ g[1] = "cache" /\ g[2] = "clear"  BY <1>5
    <2>2. Len(l) = 3 /\ \A k \in 1 .. 2 : l[k].tok = g[k]
      <3> DEFINE n == 2
      <3>1. n \in Nat /\ DOMAIN g = 1 .. n  BY <2>1
      <3> HIDE DEF n
      <3>2. Len(l) = n + 1 /\ \A k \in 1 .. n : l[k].tok = g[k]  BY <1>1, <3>1, ShapedBy
      <3> QED  BY <3>2 DEF n
    <2>3. l[1].tok = "cache" /\ l[2].tok = "clear"  BY <2>1, <2>2
    <2> QED  BY <2>2, <2>3
  <1>6. CASE g = <<"cache", "show", "number">>
    <2>1. DOMAIN g = 1 .. 3 /\ g[1] = "cache" /\ g[2] = "show" /\ g[3] = "number"  BY <1>6
    <2>2. Len(l) = 4 /\ \A k \in 1 .. 3 : l[k].tok = g[k]
      <3> DEFINE n == 3
      <3>1. n \in Nat /\ DOMAIN g = 1 .. n  BY <2>1
      <3> HIDE DEF n
      <3>2. Len(l) = n + 1 /\ \A k \in 1 .. n : l[k].tok = g[k]  BY <1>1, <3>1, ShapedBy
      <3> QED  BY <3>2 DEF n
    <2>3. l[1].tok = "cache" /\ l[2].tok = "show" /\ l[3].tok = "number"  BY <2>1, <2>2
    <2> QED  BY <2>2, <2>3
  <1>7. ASSUME NEW t \in {"forward", "reverse"}, NEW s, NEW u,
               g = <<t, s, "number", u, "number">>,
               (s = "addr" /\ u = "speed") \/ (s = "speed" /\ u = "addr")
        PROVE  /\ Len(l) = 6 /\ l[1].tok \in {"forward", "reverse"}
               /\ BothGiven(l, 2, "addr", "speed") \/ BothGiven(l, 2, "speed", "addr")
    <2>1. /\ DOMAIN g = 1 .. 5 /\ g[1] = t /\ g[2] = s /\ g[3] = "number"
          /\ g[4] = u /\ g[5] = "number"
      BY <1>7
    <2>2. /\ Len(l) = 6 /\ l[1].tok = t /\ l[2].tok = s /\ l[3].tok = "number"
          /\ l[4].tok = u /\ l[5].tok = "number"
      <3> DEFINE n == 5
      <3>1. n \in Nat /\ DOMAIN g = 1 .. n  BY <2>1
      <3> HIDE DEF n
      <3>2. Len(l) = n + 1 /\ \A k \in 1 .. n : l[k].tok = g[k]  BY <1>1, <3>1, ShapedBy
      <3>3. Len(l) = 6 /\ \A k \in 1 .. 5 : l[k].tok = g[k]  BY <3>2 DEF n
      <3> QED  BY <2>1, <3>3
    <2>3. 2 + 1 = 3 /\ 2 + 2 = 4 /\ 2 + 3 = 5  OBVIOUS
    <2> QED  BY <1>7, <2>2, <2>3 DEF BothGiven
  <1>8. CASE g = <<"stop", "addr", "number">>
    <2>1. DOMAIN g = 1 .. 3 /\ g[1] = "stop" /\ g[2] = "addr" /\ g[3] = "number"  BY <1>8
    <2>2. Len(l) = 4 /\ \A k \in 1 .. 3 : l[k].tok = g[k]
      <3> DEFINE n == 3
      <3>1. n \in Nat /\ DOMAIN g = 1 .. n  BY <2>1
      <3> HIDE DEF n
      <3>2. Len(l) = n + 1 /\ \A k \in 1 .. n : l[k].tok = g[k]  BY <1>1, <3>1, ShapedBy
      <3> QED  BY <3>2 DEF n
    <2>3. l[1].tok = "stop" /\ l[2].tok = "addr" /\ l[3].tok = "number"  BY <2>1, <2>2
    <2> QED  BY <2>2, <2>3
  <1>9. CASE g = <<"stop", "all">>
    <2>1. DOMAIN g = 1 .. 2 /\ g[1] = "stop" /\ g[2] = "all"  BY <1>9
    <2>2. Len(l) = 3 /\ \A k \in 1 .. 2 : l[k].tok = g[k]
      <3> DEFINE n == 2
      <3>1. n \in Nat /\ DOMAIN g = 1 .. n  BY <2>1
      <3> HIDE DEF n
      <3>2. Len(l) = n + 1 /\ \A k \in 1 .. n : l[k].tok = g[k]  BY <1>1, <3>1, ShapedBy
      <3> QED  BY <3>2 DEF n
    <2>3. l[1].tok = "stop" /\ l[2].tok = "all"  BY <2>1, <2>2
    <2> QED  BY <2>2, <2>3
  <1>10. CASE g = <<"stop">>
    <2>1. DOMAIN g = 1 .. 1 /\ g[1] = "stop"  BY <1>10
    <2>2. Len(l) = 2 /\ \A k \in 1 .. 1 : l[k].tok = g[k]
      <3> DEFINE n == 1
      <3>1. n \in Nat /\ DOMAIN g = 1 .. n  BY <2>1
      <3> HIDE DEF n
      <3>2. Len(l) = n + 1 /\ \A k \in 1 .. n : l[k].tok = g[k]  BY <1>1, <3>1, ShapedBy
      <3> QED  BY <3>2 DEF n
    <2>3. l[1].tok = "stop"  BY <2>1, <2>2
    <2> QED  BY <2>2, <2>3
  <1> QED  BY <1>1, <1>2, <1>3, <1>4, <1>5, <1>6, <1>7, <1>8, <1>9, <1>10 DEF Grammar

(* Nothing has been accepted so far. *)
Still(p, l) == At(p, l, 1) /\ ~ p.ok /\ p.type = "undef" /\ p.lost = 0

(* A rule that fails at the first word changes nothing. *)
LEMMA StillSkipped ==
  ASSUME NEW l, NEW p, Still(p, l), NEW q, Skipped(p, q, l, 1)
  PROVE  Still(q, l)
  BY DEF Still, Skipped, Kept

(* The packet of a move, and of a stop, before they are finished. *)
Made(q, l, r) == /\ q.type = "dcc"
                 /\ \E a \in GivenAddresses(l), c \in GivenSpeeds(l) : Draft(q.packet, 1, a, 1, r, c)

Stops(q, l) ==
  /\ q.type = "dcc"
  /\ Len(l) = 4 => Halting(q, l)
  /\ Len(l) = 3 => q.packet = DCC_special_emergency_stop_packet
  /\ Len(l) = 2 => q.packet = DCC_special_broadcast_stop_packet

(* What DSL_parse makes of a sentence. *)
Understood(q, l, t) ==
  /\ q.ok /\ q.lost = 0
  /\ At(q, l, Len(l)) \/ At(q, l, Len(l) - 1)
  /\ t = "raw" => q.type \in {"undef", "raw"}
  /\ t = "help" => q.type = "sys" /\ q.cmd = <<"help">>
  /\ t = "show" => q.type = "sys" /\ q.cmd = <<"status">>
  /\ t = "cache" => q.type = "sys" /\ q.cmd = <<l[2].tok>> \o l[Len(l) - 1].value
  /\ t = "forward" => Made(q, l, 1)
  /\ t = "reverse" => Made(q, l, 0)
  /\ t = "stop" => Stops(q, l)

(* Every alternative before that of the first word leaves the parse as it was. *)
LEMMA Reaching ==
  ASSUME NEW l, Parsable(l), NEW p, Still(p, l), NEW q \in DSL_parse(p)
  PROVE  \E a \in DSL_grammar_raw(p) : \E b, c, d, e, f :
           /\ Tried(a, b, DSL_grammar_help(a))
           /\ Tried(b, c, DSL_grammar_show(b))
           /\ Tried(c, d, DSL_grammar_cache(c))
           /\ Tried(d, e, DSL_grammar_forward(d))
           /\ Tried(e, f, DSL_grammar_reverse(e))
           /\ Tried(f, q, DSL_grammar_stop(f))
           /\ l[1].tok # "raw" => Still(a, l)
           /\ l[1].tok \notin {"raw", "help"} => Still(b, l)
           /\ l[1].tok \notin {"raw", "help", "show"} => Still(c, l)
           /\ l[1].tok \notin {"raw", "help", "show", "cache"} => Still(d, l)
           /\ l[1].tok \notin {"raw", "help", "show", "cache", "forward"} => Still(e, l)
           /\ l[1].tok \notin {"raw", "help", "show", "cache", "forward", "reverse"} =>
                Still(f, l)
  <1>1. PICK a \in DSL_grammar_raw(p) : \E b, c, d, e, f :
           /\ Tried(a, b, DSL_grammar_help(a))
           /\ Tried(b, c, DSL_grammar_show(b))
           /\ Tried(c, d, DSL_grammar_cache(c))
           /\ Tried(d, e, DSL_grammar_forward(d))
           /\ Tried(e, f, DSL_grammar_reverse(e))
           /\ Tried(f, q, DSL_grammar_stop(f))
    BY Chain
  <1>2. PICK b, c, d, e, f :
           /\ Tried(a, b, DSL_grammar_help(a))
           /\ Tried(b, c, DSL_grammar_show(b))
           /\ Tried(c, d, DSL_grammar_cache(c))
           /\ Tried(d, e, DSL_grammar_forward(d))
           /\ Tried(e, f, DSL_grammar_reverse(e))
           /\ Tried(f, q, DSL_grammar_stop(f))
    BY <1>1
  <1> DEFINE t == l[1].tok
  <1>3. t # "raw" => Still(a, l)
    <2>1. t # "raw" => Skipped(p, a, l, 1)  BY RawRule DEF Still
    <2> QED  BY <2>1, StillSkipped
  <1>4. Still(a, l) /\ t # "help" => Still(b, l)
    <2>1. Still(a, l) =>
         At(a, l, 1) /\ b \in DSL_grammar_help(a)
      BY <1>2 DEF Tried, Still
    <2>2. Still(a, l) /\ t # "help" => Skipped(a, b, l, 1)  BY <2>1, HelpRule
    <2> QED  BY <2>2, StillSkipped
  <1>5. Still(b, l) /\ t # "show" => Still(c, l)
    <2>1. Still(b, l) =>
         At(b, l, 1) /\ c \in DSL_grammar_show(b)
      BY <1>2 DEF Tried, Still
    <2>2. Still(b, l) /\ t # "show" => Skipped(b, c, l, 1)  BY <2>1, ShowRule
    <2> QED  BY <2>2, StillSkipped
  <1>6. Still(c, l) /\ t # "cache" => Still(d, l)
    <2>1. Still(c, l) =>
         At(c, l, 1) /\ d \in DSL_grammar_cache(c)
      BY <1>2 DEF Tried, Still
    <2>2. Still(c, l) /\ t # "cache" => Skipped(c, d, l, 1)  BY <2>1, CacheRule
    <2> QED  BY <2>2, StillSkipped
  <1>7. ASSUME NEW x, NEW y, NEW w \in {"forward", "reverse"}, NEW r \in {0, 1},
               NEW S, S = Move(w, r, x), Tried(x, y, S)
        PROVE  Still(x, l) /\ t # w => Still(y, l)
    <2>1. Still(x, l) => At(x, l, 1) /\ y \in Move(w, r, x)  BY <1>7 DEF Tried, Still
    <2>2. Still(x, l) /\ t # w => Skipped(x, y, l, 1)  BY <2>1, <1>7, MoveRule DEF Skipped
    <2> QED  BY <2>2, StillSkipped
  <1>8. Still(d, l) /\ t # "forward" => Still(e, l)
    <2>1. Tried(d, e, DSL_grammar_forward(d)) /\ DSL_grammar_forward(d) = Move("forward", 1, d)
      BY <1>2 DEF DSL_grammar_forward
    <2> QED  BY <1>7, <2>1
  <1>9. Still(e, l) /\ t # "reverse" => Still(f, l)
    <2>1. Tried(e, f, DSL_grammar_reverse(e)) /\ DSL_grammar_reverse(e) = Move("reverse", 0, e)
      BY <1>2 DEF DSL_grammar_reverse
    <2> QED  BY <1>7, <2>1
  <1> HIDE DEF t
  <1>10. /\ t # "raw" => Still(a, l)
         /\ t \notin {"raw", "help"} => Still(b, l)
         /\ t \notin {"raw", "help", "show"} => Still(c, l)
         /\ t \notin {"raw", "help", "show", "cache"} => Still(d, l)
         /\ t \notin {"raw", "help", "show", "cache", "forward"} => Still(e, l)
         /\ t \notin {"raw", "help", "show", "cache", "forward", "reverse"} => Still(f, l)
    BY <1>3, <1>4, <1>5, <1>6, <1>8, <1>9
  <1> QED  BY <1>2, <1>10 DEF t

(* The first words of sentences. *)
LeadingWords == {"raw", "help", "show", "cache", "forward", "reverse", "stop"}

(* The rule of the first word is reached, and decides if it accepts. *)
Decided(x, y, q, t) ==
  /\ y.ok => q = y
  /\ t = "raw" => y \in DSL_grammar_raw(x)
  /\ t = "help" => y \in DSL_grammar_help(x)
  /\ t = "show" => y \in DSL_grammar_show(x)
  /\ t = "cache" => y \in DSL_grammar_cache(x)
  /\ t = "forward" => y \in Move("forward", 1, x)
  /\ t = "reverse" => y \in Move("reverse", 0, x)
  /\ t = "stop" => y \in DSL_grammar_stop(x)

(* The rule of the first word is reached. *)
LEMMA Reaches ==
  ASSUME NEW l, Parsable(l), NEW p, Still(p, l), NEW q \in DSL_parse(p),
         NEW t \in LeadingWords, t = l[1].tok
  PROVE  \E x, y : Still(x, l) /\ Decided(x, y, q, t)
  <1>1. PICK a \in DSL_grammar_raw(p) : \E b, c, d, e, f :
           /\ Tried(a, b, DSL_grammar_help(a))
           /\ Tried(b, c, DSL_grammar_show(b))
           /\ Tried(c, d, DSL_grammar_cache(c))
           /\ Tried(d, e, DSL_grammar_forward(d))
           /\ Tried(e, f, DSL_grammar_reverse(e))
           /\ Tried(f, q, DSL_grammar_stop(f))
           /\ t # "raw" => Still(a, l)
           /\ t \notin {"raw", "help"} => Still(b, l)
           /\ t \notin {"raw", "help", "show"} => Still(c, l)
           /\ t \notin {"raw", "help", "show", "cache"} => Still(d, l)
           /\ t \notin {"raw", "help", "show", "cache", "forward"} => Still(e, l)
           /\ t \notin {"raw", "help", "show", "cache", "forward", "reverse"} =>
                Still(f, l)
    BY Reaching
  <1>2. PICK b, c, d, e, f :
           /\ Tried(a, b, DSL_grammar_help(a))
           /\ Tried(b, c, DSL_grammar_show(b))
           /\ Tried(c, d, DSL_grammar_cache(c))
           /\ Tried(d, e, DSL_grammar_forward(d))
           /\ Tried(e, f, DSL_grammar_reverse(e))
           /\ Tried(f, q, DSL_grammar_stop(f))
           /\ t # "raw" => Still(a, l)
           /\ t \notin {"raw", "help"} => Still(b, l)
           /\ t \notin {"raw", "help", "show"} => Still(c, l)
           /\ t \notin {"raw", "help", "show", "cache"} => Still(d, l)
           /\ t \notin {"raw", "help", "show", "cache", "forward"} => Still(e, l)
           /\ t \notin {"raw", "help", "show", "cache", "forward", "reverse"} =>
                Still(f, l)
    BY <1>1
  <1>3. /\ a.ok => q = a
        /\ b.ok => q = b
        /\ c.ok => q = c
        /\ d.ok => q = d
        /\ e.ok => q = e
        /\ f.ok => q = f
    BY <1>2 DEF Tried
  <1>4. CASE t = "raw"
    <2>1. Still(p, l)  BY <1>2, <1>4
    <2>2. a \in DSL_grammar_raw(p)  OBVIOUS
    <2>3. Decided(p, a, q, t)  BY <1>3, <1>4, <2>2 DEF Decided
    <2> QED  BY <2>1, <2>3
  <1>5. CASE t = "help"
    <2>1. Still(a, l)  BY <1>2, <1>5
    <2>2. b \in DSL_grammar_help(a)  BY <1>2, <2>1 DEF Tried, Still
    <2>3. Decided(a, b, q, t)  BY <1>3, <1>5, <2>2 DEF Decided
    <2> QED  BY <2>1, <2>3
  <1>6. CASE t = "show"
    <2>1. Still(b, l)  BY <1>2, <1>6
    <2>2. c \in DSL_grammar_show(b)  BY <1>2, <2>1 DEF Tried, Still
    <2>3. Decided(b, c, q, t)  BY <1>3, <1>6, <2>2 DEF Decided
    <2> QED  BY <2>1, <2>3
  <1>7. CASE t = "cache"
    <2>1. Still(c, l)  BY <1>2, <1>7
    <2>2. d \in DSL_grammar_cache(c)  BY <1>2, <2>1 DEF Tried, Still
    <2>3. Decided(c, d, q, t)  BY <1>3, <1>7, <2>2 DEF Decided
    <2> QED  BY <2>1, <2>3
  <1>8. CASE t = "forward"
    <2>1. Still(d, l)  BY <1>2, <1>8
    <2>2. e \in Move("forward", 1, d)  BY <1>2, <2>1 DEF Tried, Still, DSL_grammar_forward
    <2>3. Decided(d, e, q, t)  BY <1>3, <1>8, <2>2 DEF Decided
    <2> QED  BY <2>1, <2>3
  <1>9. CASE t = "reverse"
    <2>1. Still(e, l)  BY <1>2, <1>9
    <2>2. f \in Move("reverse", 0, e)  BY <1>2, <2>1 DEF Tried, Still, DSL_grammar_reverse
    <2>3. Decided(e, f, q, t)  BY <1>3, <1>9, <2>2 DEF Decided
    <2> QED  BY <2>1, <2>3
  <1>10. CASE t = "stop"
    <2>1. Still(f, l)  BY <1>2, <1>10
    <2>2. q \in DSL_grammar_stop(f)  BY <1>2, <2>1 DEF Tried, Still
    <2>3. Decided(f, q, q, t)  BY <1>3, <1>10, <2>2 DEF Decided
    <2> QED  BY <2>1, <2>3
  <1> QED  BY <1>4, <1>5, <1>6, <1>7, <1>8, <1>9, <1>10 DEF LeadingWords

(* The words of a sentence, from its first. *)
Phrase(l, t) ==
  /\ t \in LeadingWords
  /\ t = "raw" => Len(l) = 3 /\ l[2].tok = "hex"
  /\ t = "show" => Len(l) = 3 /\ l[2].tok = "status"
  /\ t = "help" => Len(l) = 2
  /\ t = "cache" => \/ Len(l) = 3 /\ l[2].tok = "clear"
                    \/ Len(l) = 4 /\ l[2].tok = "show" /\ l[3].tok = "number"
  /\ t \in {"forward", "reverse"} =>
       /\ Len(l) = 6
       /\ BothGiven(l, 2, "addr", "speed") \/ BothGiven(l, 2, "speed", "addr")
  /\ t = "stop" => \/ Len(l) = 4 /\ l[2].tok = "addr" /\ l[3].tok = "number"
                   \/ Len(l) = 3 /\ l[2].tok = "all"
                   \/ Len(l) = 2

(* Sentences are phrases. *)
LEMMA Phrases ==
  ASSUME NEW l, Parsable(l), Sentence(l, Grammar)
  PROVE  Phrase(l, l[1].tok)
  <1> DEFINE t == l[1].tok
             u == l[2].tok
             v == l[3].tok
             b == BothGiven(l, 2, "addr", "speed") \/ BothGiven(l, 2, "speed", "addr")
  <1>1. \/ Len(l) = 3 /\ t = "raw" /\ u = "hex"
        \/ Len(l) = 3 /\ t = "show" /\ u = "status"
        \/ Len(l) = 2 /\ t = "help"
        \/ Len(l) = 3 /\ t = "cache" /\ u = "clear"
        \/ Len(l) = 4 /\ t = "cache" /\ u = "show" /\ v = "number"
        \/ Len(l) = 6 /\ t \in {"forward", "reverse"} /\ b
        \/ Len(l) = 4 /\ t = "stop" /\ u = "addr" /\ v = "number"
        \/ Len(l) = 3 /\ t = "stop" /\ u = "all"
        \/ Len(l) = 2 /\ t = "stop"
    BY Shapes
  <1> DEFINE n == Len(l)
  <1> HIDE DEF t, u, v, b, n
  <1>2. /\ t \in LeadingWords
        /\ t = "raw" => n = 3 /\ u = "hex"
        /\ t = "show" => n = 3 /\ u = "status"
        /\ t = "help" => n = 2
        /\ t = "cache" => (n = 3 /\ u = "clear") \/ (n = 4 /\ u = "show" /\ v = "number")
        /\ t \in {"forward", "reverse"} => n = 6 /\ b
        /\ t = "stop" =>
             (n = 4 /\ u = "addr" /\ v = "number") \/ (n = 3 /\ u = "all") \/ n = 2
    BY <1>1 DEF n, LeadingWords
  <1> QED  BY <1>2 DEF t, u, v, b, n, Phrase

(* A newline is no word. *)
LEMMA LastWord ==
  ASSUME NEW l, Parsable(l)
  PROVE  l[Len(l)].tok = "newline"
  BY DEF Parsable, newline, Word

(* A raw packet, help and show are understood. *)
LEMMA UnderstoodOrders ==
  ASSUME NEW l, Parsable(l), NEW t, Phrase(l, t), t = l[1].tok,
         t \in {"raw", "help", "show"},
         NEW x, Still(x, l), NEW q, NEW y, Decided(x, y, q, t)
  PROVE  Understood(q, l, t)
  <1>1. At(x, l, 1) /\ x.type = "undef" /\ x.lost = 0  BY DEF Still
  <1>2. CASE t = "raw"
    <2>1. y \in DSL_grammar_raw(x) /\ Len(l) = 3 /\ l[2].tok = "hex"
      BY <1>2 DEF Decided, Phrase
    <2>2. 1 + 1 = 2 /\ 1 + 2 = 3  OBVIOUS
    <2>3. y.ok /\ At(y, l, 3) /\ y.type \in {x.type, "raw"} /\ y.lost = x.lost
      <3> DEFINE i == 1
      <3>1. At(x, l, i)  BY <1>1
      <3>2. l[i].tok = "raw" /\ l[i + 1].tok = "hex"  BY <1>2, <2>1, <2>2
      <3> HIDE DEF i
      <3>3. y.ok /\ At(y, l, i + 2) /\ y.type \in {x.type, "raw"} /\ y.lost = x.lost
        BY <2>1, <3>1, <3>2, RawRule
      <3>4. i + 2 = 3  BY DEF i
      <3> QED  BY <3>3, <3>4
    <2>4. q = y  BY <2>3 DEF Decided
    <2>5. t \notin {"help", "show", "cache", "forward", "reverse", "stop"}  BY <1>2
    <2> QED  BY <1>1, <1>2, <2>1, <2>3, <2>4, <2>5 DEF Understood
  <1>3. CASE t = "help"
    <2>1. y \in DSL_grammar_help(x) /\ Len(l) = 2  BY <1>3 DEF Decided, Phrase
    <2>2. 1 + 1 = 2  OBVIOUS
    <2>3. Ordered(x, y, l, 2, <<"help">>)  BY <1>1, <1>3, <2>1, <2>2, HelpRule
    <2>4. y.ok  BY <2>3 DEF Ordered
    <2>5. q = y  BY <2>4 DEF Decided
    <2>6. t \notin {"raw", "show", "cache", "forward", "reverse", "stop"}  BY <1>3
    <2> QED  BY <1>1, <2>1, <2>3, <2>5, <2>6 DEF Understood, Ordered
  <1>4. CASE t = "show"
    <2>1. y \in DSL_grammar_show(x) /\ Len(l) = 3 /\ l[2].tok = "status"
      BY <1>4 DEF Decided, Phrase
    <2>2. 1 + 1 = 2  OBVIOUS
    <2>3. Ordered(x, y, l, 2, <<"status">>)  BY <1>1, <1>4, <2>1, <2>2, ShowRule
    <2>4. y.ok  BY <2>3 DEF Ordered
    <2>5. q = y  BY <2>4 DEF Decided
    <2>6. t \notin {"raw", "help", "cache", "forward", "reverse", "stop"}  BY <1>4
    <2>7. Len(l) - 1 = 2  BY <2>1
    <2> QED  BY <1>1, <2>3, <2>5, <2>6, <2>7 DEF Understood, Ordered
  <1> QED  BY <1>2, <1>3, <1>4

(* The cache commands are understood. *)
LEMMA UnderstoodCache ==
  ASSUME NEW l, Parsable(l), NEW t, Phrase(l, t), t = l[1].tok, t = "cache",
         NEW x, Still(x, l), NEW q, NEW y, Decided(x, y, q, t)
  PROVE  Understood(q, l, t)
  <1>1. At(x, l, 1) /\ x.type = "undef" /\ x.lost = 0  BY DEF Still
  <1>2. y \in DSL_grammar_cache(x)  BY DEF Decided
  <1>3. 1 + 1 = 2 /\ 1 + 2 = 3  OBVIOUS
  <1>4. t \notin {"raw", "help", "show", "forward", "reverse", "stop"}  OBVIOUS
  <1>5. CASE Len(l) = 3 /\ l[2].tok = "clear"
    <2>1. Ordered(x, y, l, 2, <<"clear">>)  BY <1>1, <1>2, <1>3, <1>5, CacheRule
    <2>2. y.ok  BY <2>1 DEF Ordered
    <2>3. q = y  BY <2>2 DEF Decided
    <2>4. Len(l) - 1 = 2  BY <1>5
    <2>5. l[2] \in Scanned
      <3>1. At(y, l, 2)  BY <2>1 DEF Ordered
      <3> QED  BY <3>1 DEF At, ParseState
    <2>6. l[2].value = <<>>
      <3> DEFINE w == l[2]
                 k == w.tok
      <3>1. k = "clear" /\ w \in Scanned  BY <1>5, <2>5
      <3> HIDE DEF k
      <3>2. k \notin {"number", "hex"}  BY <3>1
      <3> QED  BY <3>1, <3>2, ScannedFields DEF k
    <2>7. <<l[2].tok>> \o l[2].value = <<"clear">>
      <3> DEFINE k == "clear"
      <3>1. l[2].tok = k  BY <1>5
      <3> HIDE DEF k
      <3>2. <<k>> \o <<>> = <<k>>  OBVIOUS
      <3> QED  BY <2>6, <3>1, <3>2 DEF k
    <2>8. q.cmd = <<l[2].tok>> \o l[Len(l) - 1].value
      BY <2>1, <2>3, <2>4, <2>7 DEF Ordered
    <2> QED  BY <1>1, <1>4, <2>1, <2>3, <2>4, <2>8 DEF Understood, Ordered
  <1>6. CASE Len(l) = 4 /\ l[2].tok = "show" /\ l[3].tok = "number"
    <2>1. Ordered(x, y, l, 3, <<"show">> \o l[3].value)
      BY <1>1, <1>2, <1>3, <1>6, CacheRule
    <2>2. y.ok  BY <2>1 DEF Ordered
    <2>3. q = y  BY <2>2 DEF Decided
    <2>4. Len(l) - 1 = 3  BY <1>6
    <2>5. q.cmd = <<l[2].tok>> \o l[Len(l) - 1].value
      BY <1>6, <2>1, <2>3, <2>4 DEF Ordered
    <2> QED  BY <1>1, <1>4, <2>1, <2>3, <2>4, <2>5 DEF Understood, Ordered
  <1> QED  BY <1>5, <1>6 DEF Phrase

(* A move in either order is understood. *)
LEMMA UnderstoodMove ==
  ASSUME NEW l, Parsable(l), NEW t, Phrase(l, t), t = l[1].tok, t \in {"forward", "reverse"},
         NEW x, Still(x, l), NEW q, NEW y, Decided(x, y, q, t)
  PROVE  Understood(q, l, t)
  <1>1. At(x, l, 1) /\ x.type = "undef" /\ x.lost = 0  BY DEF Still
  <1>2. LostAfter(x) = 0  BY <1>1 DEF LostAfter
  <1>3. 1 + 1 = 2 /\ 1 + 5 = 6  OBVIOUS
  <1>4. /\ BothGiven(l, 1 + 1, "addr", "speed") \/ BothGiven(l, 1 + 1, "speed", "addr")
        /\ Len(l) = 6
    BY <1>3 DEF Phrase
  <1>5. ASSUME NEW r \in {0, 1}, y \in Move(t, r, x)
        PROVE  q.ok /\ q.lost = 0 /\ At(q, l, Len(l)) /\ Made(q, l, r)
    <2>1. PICK j : Moved(y, l, 1, j, x, r)  BY <1>1, <1>5, MoveRule
    <2>2. y.ok /\ j = 6  BY <1>3, <1>4, <2>1 DEF Moved
    <2>3. q = y  BY <2>2 DEF Decided
    <2> QED  BY <1>2, <1>4, <2>1, <2>2, <2>3 DEF Moved, Made
  <1>6. CASE t = "forward"
    <2>1. y \in Move(t, 1, x)  BY <1>6 DEF Decided
    <2>2. t \notin {"raw", "help", "show", "cache", "reverse", "stop"}  BY <1>6
    <2> QED  BY <1>5, <2>1, <2>2 DEF Understood
  <1>7. CASE t = "reverse"
    <2>1. y \in Move(t, 0, x)  BY <1>7 DEF Decided
    <2>2. t \notin {"raw", "help", "show", "cache", "forward", "stop"}  BY <1>7
    <2> QED  BY <1>5, <2>1, <2>2 DEF Understood
  <1> QED  BY <1>6, <1>7

(* The three stops are understood. *)
LEMMA UnderstoodStop ==
  ASSUME NEW l, Parsable(l), NEW t, Phrase(l, t), t = l[1].tok, t = "stop",
         NEW x, Still(x, l), NEW q, NEW y, Decided(x, y, q, t)
  PROVE  Understood(q, l, t)
  <1>1. At(x, l, 1) /\ x.type = "undef" /\ x.lost = 0  BY DEF Still
  <1>2. LostAfter(x) = 0  BY <1>1 DEF LostAfter
  <1>3. 1 + 1 = 2 /\ 1 + 2 = 3 /\ 1 + 3 = 4  OBVIOUS
  <1>4. y \in DSL_grammar_stop(x)  BY DEF Decided
  <1>5. t \notin {"raw", "help", "show", "cache", "forward", "reverse"}  OBVIOUS
  <1>6. PICK j : Stopped(y, l, 1, j, x)  BY <1>1, <1>4, StopRule
  <1>7. y.ok /\ y.type = "dcc" /\ y.lost = 0 /\ At(y, l, j)  BY <1>2, <1>6 DEF Stopped
  <1>8. q = y  BY <1>7 DEF Decided
  <1>9. CASE Len(l) = 4 /\ l[2].tok = "addr" /\ l[3].tok = "number"
    <2>1. Halting(y, l) /\ j = 4  BY <1>3, <1>6, <1>9 DEF Stopped
    <2>2. Len(l) # 3 /\ Len(l) # 2  BY <1>9
    <2> QED  BY <1>5, <1>7, <1>8, <1>9, <2>1, <2>2 DEF Understood, Stops
  <1>10. CASE Len(l) = 3 /\ l[2].tok = "all"
    <2>1. y.packet = DCC_special_emergency_stop_packet /\ j = 3
      BY <1>3, <1>6, <1>10 DEF Stopped
    <2>2. Len(l) # 4 /\ Len(l) # 2  BY <1>10
    <2> QED  BY <1>5, <1>7, <1>8, <1>10, <2>1, <2>2 DEF Understood, Stops
  <1>11. CASE Len(l) = 2
    <2>1. l[2].tok \notin {"addr", "all"}
      <3> DEFINE k == l[2].tok
      <3>1. k = "newline"  BY <1>11, LastWord
      <3> HIDE DEF k
      <3>2. k \notin {"addr", "all"}  BY <3>1
      <3> QED  BY <3>2 DEF k
    <2>2. y.packet = DCC_special_broadcast_stop_packet /\ j = 2
      BY <1>3, <1>6, <2>1 DEF Stopped
    <2>3. Len(l) # 4 /\ Len(l) # 3  BY <1>11
    <2> QED  BY <1>5, <1>7, <1>8, <1>11, <2>2, <2>3 DEF Understood, Stops
  <1> QED  BY <1>9, <1>10, <1>11 DEF Phrase

(* DSL_parse does what a sentence says, whatever was tried before its rule. *)
LEMMA SentenceParsed ==
  ASSUME NEW l, Parsable(l), Sentence(l, Grammar), NEW q \in DSL_parse(Begun(l))
  PROVE  Phrase(l, l[1].tok) /\ Understood(q, l, l[1].tok)
  <1>1. Still(Begun(l), l)
    <2>1. Early(Begun(l), l, 1) /\ ~ Begun(l).ok  BY Beginning
    <2> QED  BY <2>1 DEF Early, Still
  <1> DEFINE t == l[1].tok
  <1>2. Phrase(l, t)  BY Phrases
  <1>3. t \in LeadingWords  BY <1>2 DEF Phrase
  <1>4. PICK x, y : Still(x, l) /\ Decided(x, y, q, t)  BY <1>1, <1>3, Reaches
  <1>5. \/ t \in {"raw", "help", "show"} \/ t = "cache" \/ t \in {"forward", "reverse"}
        \/ t = "stop"
    BY <1>3 DEF LeadingWords
  <1> HIDE DEF t
  <1>6. t = l[1].tok  BY DEF t
  <1>7. Understood(q, l, t)
    BY <1>2, <1>4, <1>5, <1>6, UnderstoodOrders, UnderstoodCache, UnderstoodMove, UnderstoodStop
  <1> QED  BY <1>2, <1>7 DEF t

(* What DSL_parser_start makes of a sentence. *)
Moves(q, l, r) == /\ q.type = "dcc"
                  /\ \E n \in Given("addr", l), v \in Given("speed", l) :
                       IsMove(q.packet, n, r, StepOf(v))

Halts(q, l) ==
  /\ q.type = "dcc"
  /\ Len(l) = 4 => \E n \in Given("addr", l) : IsMove(q.packet, n, 0, 0)
  /\ Len(l) = 3 => DCC_is_broadcast_stop(q.packet) /\ Bits(q.packet) = EmergencyStopFrame
  /\ Len(l) = 2 => DCC_is_broadcast_stop(q.packet) /\ Bits(q.packet) = StopFrame

Answers(q, l, t) ==
  /\ q.ok /\ q.lost = 0
  /\ At(q, l, Len(l)) \/ At(q, l, Len(l) - 1)
  /\ t = "raw" => q.type \in {"undef", "raw"}
  /\ t = "help" => q.type = "sys" /\ q.cmd = <<"help">>
  /\ t = "show" => q.type = "sys" /\ q.cmd = <<"status">>
  /\ t = "cache" => q.type = "sys" /\ q.cmd = <<l[2].tok>> \o l[Len(l) - 1].value
  /\ t = "forward" => Moves(q, l, 1)
  /\ t = "reverse" => Moves(q, l, 0)
  /\ t = "stop" => Halts(q, l)

(* The packet of a move is finished as the move. *)
LEMMA MadeMoves ==
  ASSUME NEW l, Parsable(l), NEW p, NEW r \in {0, 1}, Made(p, l, r)
  PROVE  /\ Ends(p.packet) \in [1 .. 5 -> BYTE]
         /\ \E n \in Given("addr", l), v \in Given("speed", l) :
              IsMove(Ends(p.packet), n, r, StepOf(v))
  <1>1. PICK a \in GivenAddresses(l), c \in GivenSpeeds(l) : Draft(p.packet, 1, a, 1, r, c)
    BY DEF Made
  <1>2. PICK n \in Given("addr", l), v \in Given("speed", l) :
          IsMove(Ends(p.packet), n, r, StepOf(v))
    BY <1>1, GivenMove
  <1>3. Ends(p.packet) \in [1 .. 5 -> BYTE]  BY <1>2 DEF IsMove
  <1> QED  BY <1>2, <1>3

(* The packet of a stop is finished as the stop. *)
LEMMA StopsHalt ==
  ASSUME NEW l, Parsable(l), NEW p, Stops(p, l), Len(l) \in {2, 3, 4}
  PROVE  /\ Ends(p.packet) \in [1 .. 5 -> BYTE]
         /\ Len(l) = 4 => \E n \in Given("addr", l) : IsMove(Ends(p.packet), n, 0, 0)
         /\ Len(l) = 3 => /\ DCC_is_broadcast_stop(Ends(p.packet))
                          /\ Bits(Ends(p.packet)) = EmergencyStopFrame
         /\ Len(l) = 2 => /\ DCC_is_broadcast_stop(Ends(p.packet))
                          /\ Bits(Ends(p.packet)) = StopFrame
  <1>1. CASE Len(l) = 4
    <2>1. PICK n \in Given("addr", l) : IsMove(Ends(p.packet), n, 0, 0)
      BY <1>1, GivenHalt DEF Stops
    <2>2. Ends(p.packet) \in [1 .. 5 -> BYTE]  BY <2>1 DEF IsMove
    <2>3. Len(l) # 3 /\ Len(l) # 2  BY <1>1
    <2> QED  BY <2>1, <2>2, <2>3
  <1>2. CASE Len(l) = 3
    <2>1. p.packet = DCC_special_emergency_stop_packet  BY <1>2 DEF Stops
    <2>2. /\ Ends(p.packet) \in [1 .. 5 -> BYTE] /\ DCC_is_broadcast_stop(Ends(p.packet))
          /\ Bits(Ends(p.packet)) = EmergencyStopFrame
      BY <2>1, FinishedStop DEF Ends
    <2>3. Len(l) # 4 /\ Len(l) # 2  BY <1>2
    <2> QED  BY <2>2, <2>3
  <1>3. CASE Len(l) = 2
    <2>1. p.packet = DCC_special_broadcast_stop_packet  BY <1>3 DEF Stops
    <2>2. /\ Ends(p.packet) \in [1 .. 5 -> BYTE] /\ DCC_is_broadcast_stop(Ends(p.packet))
          /\ Bits(Ends(p.packet)) = StopFrame
      BY <2>1, FinishedStop DEF Ends
    <2>3. Len(l) # 4 /\ Len(l) # 3  BY <1>3
    <2> QED  BY <2>2, <2>3
  <1> QED  BY <1>1, <1>2, <1>3

(* DSL_parser_start answers a sentence with what it says. *)
LEMMA SentenceAnswered ==
  ASSUME NEW l, Parsable(l), Sentence(l, Grammar), NEW q \in DSL_parser_start(l)
  PROVE  Phrase(l, l[1].tok) /\ Answers(q, l, l[1].tok)
  <1> DEFINE t == l[1].tok
  <1>1. PICK p \in DSL_parse(Begun(l)) : q = IF p.ok THEN Finished(p) ELSE Trashed(p)
    BY ParserStart
  <1>2. Phrase(l, t) /\ Understood(p, l, t)  BY SentenceParsed
  <1> HIDE DEF t
  <1>3. q = Finished(p) /\ p.ok /\ p.lost = 0  BY <1>1, <1>2 DEF Understood
  <1>4. t \in LeadingWords  BY <1>2 DEF Phrase
  <1>5. PICK i \in {Len(l) - 1, Len(l)} : At(p, l, i)  BY <1>2 DEF Understood
  <1>6. ASSUME p.type # "dcc" \/ Ends(p.packet) \in [1 .. 5 -> BYTE]
        PROVE  /\ q.ok /\ q.lost = 0
               /\ At(q, l, Len(l)) \/ At(q, l, Len(l) - 1)
               /\ q.type = p.type /\ q.cmd = p.cmd
               /\ q.packet = IF p.type = "dcc" THEN Ends(p.packet) ELSE p.packet
    BY <1>3, <1>5, <1>6, FinishedHere
  <1>7. CASE t \in {"raw", "help", "show", "cache"}
    <2>1. t \notin {"forward", "reverse", "stop"}  BY <1>7
    <2>2. p.type # "dcc"  BY <1>2, <1>7 DEF Understood
    <2> QED  BY <1>2, <1>6, <2>1, <2>2 DEF Answers, Understood, t
  <1>8. CASE t = "forward"
    <2>1. t \notin {"raw", "help", "show", "cache", "reverse", "stop"}  BY <1>8
    <2>2. Made(p, l, 1)  BY <1>2, <1>8 DEF Understood
    <2>3. p.type = "dcc"  BY <2>2 DEF Made
    <2>4. /\ Ends(p.packet) \in [1 .. 5 -> BYTE]
          /\ \E n \in Given("addr", l), v \in Given("speed", l) :
               IsMove(Ends(p.packet), n, 1, StepOf(v))
      BY <2>2, MadeMoves
    <2>5. Moves(q, l, 1)  BY <1>6, <2>3, <2>4 DEF Moves
    <2> QED  BY <1>2, <1>6, <2>1, <2>4, <2>5 DEF Answers, t
  <1>9. CASE t = "reverse"
    <2>1. t \notin {"raw", "help", "show", "cache", "forward", "stop"}  BY <1>9
    <2>2. Made(p, l, 0)  BY <1>2, <1>9 DEF Understood
    <2>3. p.type = "dcc"  BY <2>2 DEF Made
    <2>4. /\ Ends(p.packet) \in [1 .. 5 -> BYTE]
          /\ \E n \in Given("addr", l), v \in Given("speed", l) :
               IsMove(Ends(p.packet), n, 0, StepOf(v))
      BY <2>2, MadeMoves
    <2>5. Moves(q, l, 0)  BY <1>6, <2>3, <2>4 DEF Moves
    <2> QED  BY <1>2, <1>6, <2>1, <2>4, <2>5 DEF Answers, t
  <1>10. CASE t = "stop"
    <2>1. t \notin {"raw", "help", "show", "cache", "forward", "reverse"}  BY <1>10
    <2>2. Stops(p, l)  BY <1>2, <1>10 DEF Understood
    <2>3. p.type = "dcc" /\ Len(l) \in {2, 3, 4}  BY <1>2, <1>10, <2>2 DEF Stops, Phrase
    <2>4. /\ Ends(p.packet) \in [1 .. 5 -> BYTE]
          /\ Len(l) = 4 => \E n \in Given("addr", l) : IsMove(Ends(p.packet), n, 0, 0)
          /\ Len(l) = 3 => /\ DCC_is_broadcast_stop(Ends(p.packet))
                           /\ Bits(Ends(p.packet)) = EmergencyStopFrame
          /\ Len(l) = 2 => /\ DCC_is_broadcast_stop(Ends(p.packet))
                           /\ Bits(Ends(p.packet)) = StopFrame
      BY <2>2, <2>3, StopsHalt
    <2>5. Halts(q, l)  BY <1>6, <2>3, <2>4 DEF Halts
    <2> QED  BY <1>2, <1>6, <2>1, <2>4, <2>5 DEF Answers, t
  <1> QED  BY <1>4, <1>7, <1>8, <1>9, <1>10 DEF LeadingWords, t

(* The last token of a line is a newline, and no number. *)
LEMMA GivenFront ==
  ASSUME NEW l, Parsable(l), NEW t
  PROVE  Given(t, Front(l)) = Given(t, l)
  <1> DEFINE f == Front(l)
             n == Len(l)
  <1>1. /\ Len(f) = n - 1 /\ n \in Nat /\ n >= 1
        /\ \A k \in 1 .. n - 1 : f[k] = l[k]
    BY FrontOf
  <1>2. l[n].tok # "number"
    <2> DEFINE k == l[n].tok
    <2>1. k = "newline"  BY LastWord
    <2> HIDE DEF k
    <2>2. k # "number"  BY <2>1
    <2> QED  BY <2>2 DEF k
  <1> HIDE DEF f, n
  <1> DEFINE A == {k \in 1 .. Len(f) - 1 : f[k].tok = t /\ f[k + 1].tok = "number"}
             B == {k \in 1 .. n - 1 : l[k].tok = t /\ l[k + 1].tok = "number"}
  <1>3. \A k : k \in A <=> k \in B
    <2> TAKE k
    <2>1. k \in A =>
         k \in 1 .. n - 1 /\ k + 1 \in 1 .. n - 1 /\ f[k] = l[k] /\ f[k + 1] = l[k + 1]
      BY <1>1
    <2>2. k \in B => k # n - 1
      <3>1. k = n - 1 => k + 1 = n  BY <1>1
      <3> QED  BY <1>2, <3>1
    <2>3. k \in B => k \in 1 .. Len(f) - 1 /\ k \in 1 .. n - 1 /\ k + 1 \in 1 .. n - 1
      BY <1>1, <2>2
    <2>4. k \in B => f[k] = l[k] /\ f[k + 1] = l[k + 1]  BY <1>1, <2>3
    <2> QED  BY <2>1, <2>3, <2>4
  <1>4. \A k \in A : f[k + 1] = l[k + 1]
    <2> TAKE k \in A
    <2>1. k + 1 \in 1 .. n - 1  BY <1>1
    <2> QED  BY <1>1, <2>1
  <1>5. Given(t, f) = {f[k + 1].value[1] : k \in A}  BY DEF Given
  <1>6. Given(t, l) = {l[k + 1].value[1] : k \in B}  BY DEF Given, n
  <1> HIDE DEF A, B
  <1>7. A = B  BY <1>3
  <1>8. {f[k + 1].value[1] : k \in A} = {l[k + 1].value[1] : k \in B}  BY <1>4, <1>7
  <1> QED  BY <1>5, <1>6, <1>8 DEF f

(* A sentence is read to its end, and at most its newline is left. *)
LEMMA UsedUp ==
  ASSUME NEW l, Parsable(l), NEW q, At(q, l, Len(l)) \/ At(q, l, Len(l) - 1)
  PROVE  Unread(q) \in {<<>>, <<newline>>}
  <1> DEFINE n == Len(l)
  <1>1. l \in Seq(Scanned) /\ n \in Nat /\ n >= 1 /\ l[n] = newline
    BY EmptySeq DEF Parsable
  <1>2. CASE At(q, l, n)
    <2>1. q.curr = newline /\ q.rest = SubSeq(l, n + 1, n)  BY <1>1, <1>2 DEF At
    <2>2. SubSeq(l, n + 1, n) = <<>>
      <3> DEFINE j == n + 1
                 k == n
      <3>1. j \in Int /\ k \in Int /\ k < j  BY <1>1
      <3> HIDE DEF n, j, k
      <3>2. SubSeq(l, j, k) = <<>>  BY <3>1, SubSeqEmpty
      <3> QED  BY <3>2 DEF j, k
    <2>3. Unread(q) = <<>>  BY <2>1, <2>2 DEF Unread
    <2> QED  BY <2>3
  <1>3. CASE At(q, l, n - 1)
    <2>1. q.rest = SubSeq(l, n, n)
      <3>1. q.rest = SubSeq(l, n - 1 + 1, n) /\ n - 1 + 1 = n  BY <1>1, <1>3 DEF At
      <3> QED  BY <3>1
    <2>2. SubSeq(l, n, n) = <<newline>>
      <3> DEFINE s == SubSeq(l, n, n)
                 j == n
      <3>1. j \in Int /\ \A k \in j .. j : l[k] \in Scanned  BY <1>1
      <3> HIDE DEF j
      <3>2. /\ SubSeq(l, j, j) \in Seq(Scanned)
            /\ Len(SubSeq(l, j, j)) = IF j <= j THEN j - j + 1 ELSE 0
            /\ \A k \in 1 .. j - j + 1 : SubSeq(l, j, j)[k] = l[j + k - 1]
        BY <3>1, SubSeqProperties
      <3>3. /\ s \in Seq(Scanned) /\ Len(s) = IF j <= j THEN j - j + 1 ELSE 0
            /\ \A k \in 1 .. j - j + 1 : s[k] = l[j + k - 1]
        BY <3>2 DEF j
      <3> HIDE DEF s
      <3>4. s \in Seq(Scanned) /\ Len(s) = 1 /\ s[1] = l[j]
        <4>1. j - j + 1 = 1 /\ j <= j /\ j + 1 - 1 = j  BY <3>1
        <4>2. s \in Seq(Scanned) /\ Len(s) = 1  BY <3>3, <4>1
        <4>3. \A k \in 1 .. 1 : s[k] = l[j + k - 1]  BY <3>3, <4>1
        <4>4. s[1] = l[j + 1 - 1]  BY <4>3
        <4> QED  BY <4>1, <4>2, <4>4
      <3>5. s = <<newline>>  BY <1>1, <3>4 DEF j
      <3> QED  BY <3>5 DEF s
    <2>3. Head(q.rest) = newline  BY <2>1, <2>2
    <2>4. Unread(q) = q.rest  BY <2>3 DEF Unread
    <2> QED  BY <2>1, <2>2, <2>4
  <1> QED  BY <1>2, <1>3

-----------------------------------------------------------------------------
(* SENTENCES ARE OBEYED *)

(* Where the words of a phrase are in the line without its newline. *)
LEMMA PhraseFront ==
  ASSUME NEW l, Parsable(l), Phrase(l, l[1].tok)
  PROVE  /\ Len(Front(l)) = Len(l) - 1 /\ Len(l) \in 2 .. 6
         /\ Front(l)[1] = l[1]
         /\ Len(l) > 2 => Front(l)[2] = l[2]
         /\ Front(l)[Len(Front(l))] = l[Len(l) - 1]
  <1> DEFINE n == Len(l)
             t == l[1].tok
             f == Front(l)
  <1>1. Len(f) = n - 1 /\ n \in Nat /\ \A k \in 1 .. n - 1 : f[k] = l[k]  BY FrontOf
  <1>2. Phrase(l, t)  OBVIOUS
  <1> HIDE DEF t
  <1>3. n \in 2 .. 6
    <2>1. n \in {2, 3, 4, 6}  BY <1>2 DEF Phrase, LeadingWords
    <2> QED  BY <2>1
  <1> HIDE DEF f, n
  <1>4. f[1] = l[1] /\ (n > 2 => f[2] = l[2]) /\ f[n - 1] = l[n - 1]
    <2>1. 1 \in 1 .. n - 1 /\ n - 1 \in 1 .. n - 1 /\ (n > 2 => 2 \in 1 .. n - 1)  BY <1>3
    <2> QED  BY <1>1, <2>1
  <1>5. f[Len(f)] = l[n - 1]  BY <1>1, <1>4
  <1> QED  BY <1>1, <1>3, <1>4, <1>5 DEF f, n

(* What is answered obeys the sentence. *)
LEMMA AnswerObeys ==
  ASSUME NEW l, Parsable(l), Sentence(l, Grammar), l[1].tok # "raw",
         NEW q \in DSL_parser_start(l), NEW s, s = Outcome(q, q.type)
  PROVE  Obeys(s, Front(l))
  <1> DEFINE t == l[1].tok
             f == Front(l)
  <1>1. Phrase(l, t) /\ Answers(q, l, t)  BY SentenceAnswered
  <1>2. s.type = q.type /\ s.packet = q.packet /\ s.cmd = q.cmd /\ s.lost = 0
    BY <1>1 DEF Outcome, Answers
  <1>3. /\ Len(f) = Len(l) - 1 /\ Len(l) \in 2 .. 6 /\ f[1] = l[1]
        /\ Len(l) > 2 => f[2] = l[2]
        /\ f[Len(f)] = l[Len(l) - 1]
    BY <1>1, PhraseFront
  <1>4. Given("addr", f) = Given("addr", l) /\ Given("speed", f) = Given("speed", l)
    BY GivenFront
  <1>5. t = f[1].tok  BY <1>3
  <1> HIDE DEF t, f
  <1>6. t \in LeadingWords /\ t # "raw"  BY <1>1 DEF Phrase, t
  <1>7. CASE t = "help"
    <2>1. SysCommand(<<"help">>, s)  BY <1>1, <1>2, <1>7 DEF Answers, SysCommand
    <2> QED  BY <1>2, <1>5, <1>7, <2>1 DEF Obeys, f
  <1>8. CASE t = "show"
    <2>1. SysCommand(<<"status">>, s)  BY <1>1, <1>2, <1>8 DEF Answers, SysCommand
    <2> QED  BY <1>2, <1>5, <1>8, <2>1 DEF Obeys, f
  <1>9. CASE t = "cache"
    <2>1. f[2] = l[2]  BY <1>1, <1>3, <1>9 DEF Phrase
    <2>2. SysCommand(<<f[2].tok>> \o f[Len(f)].value, s)
      BY <1>1, <1>2, <1>3, <1>9, <2>1 DEF Answers, SysCommand
    <2> QED  BY <1>2, <1>5, <1>9, <2>2 DEF Obeys, f
  <1>10. ASSUME NEW r \in {0, 1}, Moves(q, l, r)
         PROVE  Moving(r, s, f)
    <2>1. PICK n \in Given("addr", l), v \in Given("speed", l) : IsMove(q.packet, n, r, StepOf(v))
      BY <1>10 DEF Moves
    <2>2. Bits(s.packet) = BaselineFrame(AddressOf(n), SpeedInstruction(r, StepOf(v)))
      BY <1>2, <2>1 DEF IsMove
    <2>3. n \in Given("addr", f) /\ v \in Given("speed", f)  BY <1>4
    <2>4. s.type = "dcc"  BY <1>2, <1>10 DEF Moves
    <2> QED  BY <2>2, <2>3, <2>4 DEF Moving
  <1>11. CASE t = "forward"
    <2>1. Moving(1, s, f)  BY <1>1, <1>10, <1>11 DEF Answers
    <2> QED  BY <1>2, <1>5, <1>11, <2>1 DEF Obeys, f
  <1>12. CASE t = "reverse"
    <2>1. Moving(0, s, f)  BY <1>1, <1>10, <1>12 DEF Answers
    <2> QED  BY <1>2, <1>5, <1>12, <2>1 DEF Obeys, f
  <1>13. CASE t = "stop"
    <2>1. Halts(q, l)  BY <1>1, <1>13 DEF Answers
    <2>2. s.type = "dcc"  BY <1>2, <2>1 DEF Halts
    <2>3. Len(l) \in {2, 3, 4}  BY <1>1, <1>13 DEF Phrase
    <2>4. CASE Len(l) = 4
      <3>1. PICK n \in Given("addr", l) : IsMove(q.packet, n, 0, 0)
        BY <2>1, <2>4 DEF Halts
      <3>2. Bits(s.packet) = BaselineFrame(AddressOf(n), SpeedInstruction(0, 0))
        BY <1>2, <3>1 DEF IsMove
      <3>3. StoppingLoco(s, f)  BY <1>4, <2>2, <3>2 DEF StoppingLoco
      <3>4. Len(f) = 3  BY <1>3, <2>4
      <3> QED  BY <1>2, <1>5, <1>13, <3>3, <3>4 DEF Obeys, f
    <2>5. CASE Len(l) = 3
      <3>1. Bits(s.packet) = EmergencyStopFrame  BY <1>2, <2>1, <2>5 DEF Halts
      <3>2. Len(f) = 2  BY <1>3, <2>5
      <3> QED  BY <1>2, <1>5, <1>13, <2>2, <3>1, <3>2 DEF Obeys, f
    <2>6. CASE Len(l) = 2
      <3>1. Bits(s.packet) = StopFrame  BY <1>2, <2>1, <2>6 DEF Halts
      <3>2. Len(f) = 1  BY <1>3, <2>6
      <3> QED  BY <1>2, <1>5, <1>13, <2>2, <3>1, <3>2 DEF Obeys, f
    <2> QED  BY <2>3, <2>4, <2>5, <2>6
  <1> QED  BY <1>6, <1>7, <1>8, <1>9, <1>11, <1>12, <1>13 DEF LeadingWords, f

(* A line is a sentence of a part of the grammar when it begins so. *)
LEMMA NotRaw ==
  ASSUME NEW l, Parsable(l), Sentence(l, Grammar \ {<<"raw", "hex">>})
  PROVE  Sentence(l, Grammar) /\ l[1].tok # "raw"
  <1> DEFINE G == Grammar \ {<<"raw", "hex">>}
  <1>1. PICK g \in G : /\ DOMAIN g = 1 .. Len(l) - 1
                       /\ \A k \in 1 .. Len(l) - 1 : l[k].tok = g[k]
    BY Shaped
  <1>2. g[1] # "raw" /\ 1 \in DOMAIN g
    <2>1. g \in {<<"show", "status">>, <<"help">>,
            <<"cache", "clear">>, <<"cache", "show", "number">>,
            <<"forward", "addr", "number", "speed", "number">>,
            <<"forward", "speed", "number", "addr", "number">>,
            <<"reverse", "addr", "number", "speed", "number">>,
            <<"reverse", "speed", "number", "addr", "number">>,
            <<"stop", "addr", "number">>, <<"stop", "all">>, <<"stop">>}
      BY DEF Grammar
    <2> QED  BY <2>1
  <1>3. l[1].tok = g[1]  BY <1>1, <1>2
  <1>4. Sentence(l, Grammar)  BY DEF Sentence
  <1> QED  BY <1>2, <1>3, <1>4

(* The sentences that stop all locos. *)
LEMMA StopSentences ==
  ASSUME NEW l, Parsable(l), Sentence(l, Grammar)
  PROVE  Sentence(l, {<<"stop">>, <<"stop", "all">>})
           <=> l[1].tok = "stop" /\ Len(l) \in {2, 3}
  <1> DEFINE S == {<<"stop">>, <<"stop", "all">>}
  <1>1. Phrase(l, l[1].tok)  BY Phrases
  <1>2. PICK g \in Grammar : /\ Kinds(Front(l)) = g /\ DOMAIN g = 1 .. Len(l) - 1
                             /\ \A k \in 1 .. Len(l) - 1 : l[k].tok = g[k]
    BY Shaped
  <1>3. Sentence(l, S) <=> g \in S  BY <1>2 DEF Sentence
  <1>4. Len(l) \in 2 .. 6  BY <1>1, PhraseFront
  <1>5. ASSUME g \in S
        PROVE  l[1].tok = "stop" /\ Len(l) \in {2, 3}
    <2>1. 1 \in DOMAIN g /\ g[1] = "stop" /\ 3 \notin DOMAIN g  BY <1>5
    <2>2. l[1].tok = "stop"  BY <1>2, <2>1
    <2>3. ~ (3 <= Len(l) - 1)  BY <1>2, <1>4, <2>1
    <2> QED  BY <1>4, <2>2, <2>3
  <1>6. ASSUME l[1].tok = "stop", Len(l) \in {2, 3}
        PROVE  g \in S
    <2>1. 1 \in DOMAIN g /\ g[1] = "stop"
      <3>1. 1 \in 1 .. Len(l) - 1  BY <1>4
      <3> QED  BY <1>2, <1>6, <3>1
    <2>2. 3 \notin DOMAIN g
      <3> DEFINE n == Len(l)
      <3>1. n \in {2, 3}  BY <1>6
      <3> HIDE DEF n
      <3>2. \A j \in 1 .. n - 1 : j <= 2  BY <3>1
      <3>3. \A j \in DOMAIN g : j <= 2  BY <1>2, <3>2 DEF n
      <3> QED  BY <3>3
    <2>3. g \in {<<"stop", "addr", "number">>, <<"stop", "all">>, <<"stop">>}
      BY <2>1 DEF Grammar
    <2>4. g # <<"stop", "addr", "number">>  BY <2>2
    <2> QED  BY <2>3, <2>4
  <1> HIDE DEF S
  <1>7. Sentence(l, S) <=> l[1].tok = "stop" /\ Len(l) \in {2, 3}  BY <1>3, <1>5, <1>6
  <1> QED  BY <1>7 DEF S

(* LINES ARE READ *)


(* What IO_getc has or is going to have: the receiver holds a line or nothing, IO_getc
   also a blank behind which there was nothing more. *)
Waiting == /\ uart = <<>> \/ Parsable(uart)
           /\ rx = <<>> \/ rx = <<blank>> \/ Parsable(rx)

(* What was said is what a parse of the line comes to. *)
Told(q) == IF q.ok THEN said = Outcome(q, q.type) /\ rx = Unread(q)
           ELSE said = Outcome(q, "error")

Answered == \/ said = Nothing /\ line = <<>>
            \/ Parsable(line) /\ \E q \in DSL_parser_start(line) : Told(q)

(* The inductive invariant of the command loop. *)
ConsoleInv == Waiting /\ Answered

(* A line with its newline is a line to parse. *)
LEMMA LineTyped ==
  ASSUME NEW l \in Seq(Scanned)
  PROVE  Parsable(Append(l, newline))
  <1> DEFINE n == newline
             S == Scanned
             m == Append(l, n)
  <1>1. n \in S /\ l \in Seq(S)  BY Punctuation
  <1> HIDE DEF n, S
  <1>2. m \in Seq(S) /\ Len(m) = Len(l) + 1 /\ m[Len(l) + 1] = n  BY <1>1
  <1>3. m # <<>> /\ m[Len(m)] = n
    <2>1. Len(l) \in Nat  BY <1>1
    <2> HIDE DEF m
    <2>2. Len(m) # 0  BY <1>2, <2>1
    <2> QED  BY <1>2, <2>2
  <1> QED  BY <1>2, <1>3 DEF n, S, Parsable

(* The end of a line is a line. *)
LEMMA Remainder ==
  ASSUME NEW l, Parsable(l), NEW k \in 1 .. Len(l) + 1
  PROVE  /\ k = Len(l) + 1 => SubSeq(l, k, Len(l)) = <<>>
         /\ k \in 1 .. Len(l) => Parsable(SubSeq(l, k, Len(l)))
  <1> DEFINE n == Len(l)
             S == Scanned
             s == SubSeq(l, k, n)
  <1>1. l \in Seq(S) /\ n \in Nat /\ n >= 1 /\ l[n] = newline
    BY EmptySeq DEF Parsable
  <1>2. \A j \in 1 .. n : l[j] \in S  BY <1>1
  <1> HIDE DEF n, S
  <1>3. k \in Int /\ n \in Int /\ k >= 1  BY <1>1 DEF n
  <1>4. \A j \in k .. n : l[j] \in S  BY <1>2, <1>3
  <1>5. /\ SubSeq(l, k, n) \in Seq(S)
        /\ Len(SubSeq(l, k, n)) = IF k <= n THEN n - k + 1 ELSE 0
        /\ \A j \in 1 .. n - k + 1 : SubSeq(l, k, n)[j] = l[k + j - 1]
    BY <1>3, <1>4, SubSeqProperties
  <1>6. n < k => s = <<>>  BY <1>3, SubSeqEmpty
  <1>7. /\ s \in Seq(S) /\ Len(s) = IF k <= n THEN n - k + 1 ELSE 0
        /\ \A j \in 1 .. n - k + 1 : s[j] = l[k + j - 1]
    BY <1>5
  <1> HIDE DEF s
  <1>8. k <= n => s # <<>> /\ s[Len(s)] = newline
    <2> SUFFICES ASSUME k <= n
                 PROVE  s # <<>> /\ s[Len(s)] = newline
      OBVIOUS
    <2> DEFINE v == n - k + 1
    <2>1. Len(s) = v  BY <1>7
    <2>2. v \in Int /\ v >= 1 /\ k + v - 1 = n  BY <1>3
    <2>3. Len(s) = v /\ v \in Int /\ v >= 1 /\ k + v - 1 = n  BY <2>1, <2>2
    <2>4. \A j \in 1 .. v : s[j] = l[k + j - 1]  BY <1>7
    <2> HIDE DEF v
    <2>5. v \in 1 .. v  BY <2>3
    <2>6. s[v] = l[n]  BY <2>3, <2>4, <2>5
    <2>7. Len(s) # 0  BY <2>3
    <2> QED  BY <1>1, <2>3, <2>6, <2>7
  <1>9. k = n + 1 => s = <<>>  BY <1>3, <1>6
  <1>10. k \in 1 .. n => Parsable(s)  BY <1>7, <1>8 DEF Parsable, S
  <1> QED  BY <1>9, <1>10 DEF s, n

(* A token in front of a line makes a line. *)
LEMMA Prefixed ==
  ASSUME NEW l, Parsable(l), NEW t \in Scanned
  PROVE  Parsable(<<t>> \o l)
  <1> DEFINE n == Len(l)
             S == Scanned
             s == <<t>> \o l
  <1>1. l \in Seq(S) /\ n \in Nat /\ n >= 1 /\ l[n] = newline /\ t \in S
    BY EmptySeq DEF Parsable
  <1> HIDE DEF S
  <1>2. s \in Seq(S) /\ Len(s) = n + 1 /\ \A j \in 1 .. n : s[j + 1] = l[j]
    BY <1>1
  <1> HIDE DEF s, n
  <1>3. s[n + 1] = newline /\ Len(s) # 0
    <2>1. n \in 1 .. n  BY <1>1
    <2> QED  BY <1>1, <1>2, <2>1
  <1> QED  BY <1>2, <1>3 DEF Parsable, S, s

(* The first token, and none. *)
LEMMA FirstOf ==
  ASSUME NEW S, NEW u \in Seq(S), u # <<>>
  PROVE  SubSeq(u, 1, 1) = <<Head(u)>> /\ SubSeq(u, 1, 0) = <<>>
  <1>1. u[1] \in S /\ Head(u) = u[1]
    <2>1. Len(u) \in Nat /\ Len(u) # 0  BY EmptySeq
    <2>2. 1 \in 1 .. Len(u)  BY <2>1
    <2> QED  BY <2>2, ElementOfSeq
  <1> DEFINE m == 1
             s == SubSeq(u, m, m)
  <1>2. m \in Int /\ \A j \in m .. m : u[j] \in S  BY <1>1
  <1> HIDE DEF m
  <1>3. /\ SubSeq(u, m, m) \in Seq(S)
        /\ Len(SubSeq(u, m, m)) = IF m <= m THEN m - m + 1 ELSE 0
        /\ \A j \in 1 .. m - m + 1 : SubSeq(u, m, m)[j] = u[m + j - 1]
    BY <1>2, SubSeqProperties
  <1>4. s \in Seq(S) /\ Len(s) = (IF m <= m THEN m - m + 1 ELSE 0)
        /\ \A j \in 1 .. m - m + 1 : s[j] = u[m + j - 1]
    BY <1>3
  <1> HIDE DEF s
  <1>5. s \in Seq(S) /\ Len(s) = 1 /\ s[1] = u[1]  BY <1>4 DEF m
  <1>6. s = <<Head(u)>>  BY <1>1, <1>5
  <1>7. SubSeq(u, 1, 0) = <<>>
    <2> DEFINE o == 1
               z == 0
    <2>1. o \in Int /\ z \in Int /\ z < o  OBVIOUS
    <2> HIDE DEF o, z
    <2>2. SubSeq(u, o, z) = <<>>  BY <2>1, SubSeqEmpty
    <2> QED  BY <2>2 DEF o, z
  <1> QED  BY <1>6, <1>7 DEF s, m

(* What a parse leaves is a line, or nothing, and begins with a blank or a *)
(* newline when a character was given back.                                *)
LEMMA LeftOver ==
  ASSUME NEW l, Parsable(l), NEW i, NEW q, At(q, l, i)
  PROVE  /\ Unread(q) = <<>> \/ Parsable(Unread(q))
         /\ SubSeq(Unread(q), 1, 0) = <<>>
         /\ q.curr \notin {newline, stray} =>
              SubSeq(Unread(q), 1, 1) \in {<<blank>>, <<newline>>}
  <1> DEFINE n == Len(l)
             r == SubSeq(l, i + 1, n)
             u == <<blank>> \o r
  <1>1. /\ q.rest = r /\ q.curr = l[i] /\ i \in 1 .. n /\ l[n] = newline /\ n \in Nat
        /\ i + 1 \in 1 .. n + 1
    <2>1. i \in 1 .. n /\ n \in Nat  BY DEF At, Parsable
    <2>2. i + 1 \in 1 .. n + 1  BY <2>1
    <2> QED  BY <2>1, <2>2 DEF At, Parsable
  <1>2. i + 1 = n + 1 => r = <<>>  BY <1>1, Remainder
  <1>3. i + 1 \in 1 .. n => Parsable(r)  BY <1>1, Remainder
  <1>4. Parsable(r) => Parsable(u)  BY Prefixed, Punctuation
  <1>5. Unread(q) = IF q.curr \in {newline, stray} \/ Head(r) = newline THEN r ELSE u
    BY <1>1 DEF Unread
  <1>6. ASSUME NEW s, Parsable(s)
        PROVE  SubSeq(s, 1, 1) = <<Head(s)>> /\ SubSeq(s, 1, 0) = <<>>
    <2> DEFINE S == Scanned
    <2>1. s \in Seq(S) /\ s # <<>>  BY <1>6 DEF Parsable
    <2> HIDE DEF S
    <2> QED  BY <2>1, FirstOf
  <1>7. Parsable(r) => Head(u) = blank
    <2> DEFINE b == blank
               S == Scanned
    <2>1. Parsable(r) => r \in Seq(S)  BY DEF Parsable
    <2> HIDE DEF b, S, r
    <2>2. r \in Seq(S) => Head(<<b>> \o r) = b  OBVIOUS
    <2> QED  BY <2>1, <2>2 DEF b
  <1> HIDE DEF r, u
  <1>8. CASE i = n
    <2>1. q.curr \in {newline, stray} /\ r = <<>>  BY <1>1, <1>2, <1>8
    <2>2. Unread(q) = <<>>  BY <1>5, <2>1
    <2>3. SubSeq(<<>>, 1, 0) = <<>>  OBVIOUS
    <2> QED  BY <2>1, <2>2, <2>3
  <1>9. CASE i # n
    <2>1. i + 1 \in 1 .. n  BY <1>1, <1>9
    <2>2. Parsable(r) /\ Parsable(u) /\ Head(u) = blank  BY <1>3, <1>4, <1>7, <2>1
    <2>3. Unread(q) \in {r, u}  BY <1>5
    <2>4. Parsable(Unread(q))  BY <2>2, <2>3
    <2>5. q.curr \notin {newline, stray} => Head(Unread(q)) \in {blank, newline}
      BY <1>5, <2>2
    <2>6. SubSeq(Unread(q), 1, 1) = <<Head(Unread(q))>> /\ SubSeq(Unread(q), 1, 0) = <<>>
      BY <1>6, <2>4
    <2> QED  BY <2>4, <2>5, <2>6
  <1> QED  BY <1>8, <1>9

(* At the start nothing waits and nothing was said. *)
LEMMA InvInit == ConsoleInit => ConsoleInv
  BY DEF ConsoleInit, ConsoleInv, Waiting, Answered

(* What IO_getc reads from, and what is still coming in. *)
LEMMA InputWaits ==
  ASSUME Waiting, Reading
  PROVE  /\ Input = <<blank>> \/ Parsable(Input)
         /\ Coming = <<>> \/ Parsable(Coming)
  BY DEF Waiting, Reading, Input, Coming

(* If something was typed, a line is read. *)
LEMMA CommandLine ==
  ASSUME Waiting, Reading, ~ NothingTyped
  PROVE  Parsable(Input)
  <1>1. Input = <<blank>> \/ Parsable(Input)  BY InputWaits
  <1>2. Input # <<blank>>
    <2>1. Head(<<blank>>) = blank  OBVIOUS
    <2>2. Head(Input) # blank  BY DEF NothingTyped
    <2> QED  BY <2>1, <2>2
  <1> QED  BY <1>1, <1>2

(* Behind a token there is a line or nothing. *)
LEMMA TailLeft ==
  ASSUME NEW l, Parsable(l)
  PROVE  Tail(l) = <<>> \/ Parsable(Tail(l))
  <1>1. l \in Seq(Scanned) /\ l # <<>> /\ Len(l) \in Nat /\ Len(l) >= 1
    BY EmptySeq DEF Parsable
  <1>2. Tail(l) = SubSeq(l, 2, Len(l))  BY <1>1
  <1>3. 2 \in 1 .. Len(l) + 1  BY <1>1
  <1>4. 2 = Len(l) + 1 \/ 2 \in 1 .. Len(l)  BY <1>1
  <1> DEFINE k == 2
  <1>5. k \in 1 .. Len(l) + 1 /\ (k = Len(l) + 1 \/ k \in 1 .. Len(l))  BY <1>3, <1>4
  <1> HIDE DEF k
  <1>6. SubSeq(l, k, Len(l)) = <<>> \/ Parsable(SubSeq(l, k, Len(l)))  BY <1>5, Remainder
  <1> QED  BY <1>2, <1>6 DEF k

(* What is left of a line when the receiver drops its end is a line or     *)
(* nothing.                                                                *)
LEMMA CutLeft ==
  ASSUME NEW l, l = <<>> \/ Parsable(l), NEW c \in Cut(l)
  PROVE  c = <<>> \/ Parsable(c)
  <1>1. CASE l = <<>>
    <2>1. Len(l) = 0  BY <1>1
    <2>2. Cut(l) \subseteq {<<>>}
      <3>1. \A k \in 1 .. Len(l) + 1 : SubSeq(l, k, Len(l)) = <<>>
        <4> TAKE k \in 1 .. Len(l) + 1
        <4> DEFINE z == Len(l)
        <4>1. z \in Int /\ k \in Int /\ z < k  BY <2>1
        <4> HIDE DEF z
        <4>2. SubSeq(l, k, z) = <<>>  BY <4>1, SubSeqEmpty
        <4> QED  BY <4>2 DEF z
      <3>2. 1 .. Len(l) = {}  BY <2>1
      <3> QED  BY <3>1, <3>2 DEF Cut
    <2> QED  BY <2>2
  <1>2. CASE Parsable(l)
    <2>1. CASE c \in {SubSeq(l, k, Len(l)) : k \in 1 .. Len(l) + 1}
      <3>1. PICK k \in 1 .. Len(l) + 1 : c = SubSeq(l, k, Len(l))  BY <2>1
      <3>2. k = Len(l) + 1 \/ k \in 1 .. Len(l)
        <4>1. Len(l) \in Nat  BY <1>2 DEF Parsable
        <4> QED  BY <4>1
      <3> QED  BY <1>2, <3>1, <3>2, Remainder
    <2>2. CASE c \in {<<unknown>> \o SubSeq(l, k, Len(l)) : k \in 1 .. Len(l)}
      <3>1. PICK k \in 1 .. Len(l) : c = <<unknown>> \o SubSeq(l, k, Len(l))  BY <2>2
      <3>2. k \in 1 .. Len(l) + 1
        <4>1. Len(l) \in Nat  BY <1>2 DEF Parsable
        <4> QED  BY <4>1
      <3>3. Parsable(SubSeq(l, k, Len(l)))  BY <1>2, <3>2, Remainder
      <3> QED  BY <3>1, <3>3, Prefixed, Punctuation
    <2> QED  BY <2>1, <2>2 DEF Cut
  <1> QED  BY <1>1, <1>2

(* A newline alone is a line. *)
LEMMA NewlineLine == Parsable(<<newline>>)
  <1> DEFINE n == newline
  <1>1. n \in Scanned  BY Punctuation
  <1> HIDE DEF n
  <1>2. <<n>> \in Seq(Scanned) /\ <<n>> # <<>> /\ Len(<<n>>) = 1 /\ <<n>>[1] = n  BY <1>1
  <1> QED  BY <1>2 DEF Parsable, n

(* What is said is never the prompt. *)
LEMMA Speaking ==
  ASSUME NEW l, Parsable(l), NEW q \in DSL_parser_start(l),
         NEW s, s = Outcome(q, q.type) \/ s = Outcome(q, "error")
  PROVE  s # Nothing /\ s.type \in Types \cup {"error"}
  <1>1. PICK i : At(q, l, i)  BY ParserStart
  <1>2. q.type \in Types  BY <1>1 DEF At, ParseState
  <1>3. s.type = q.type \/ s.type = "error"  BY DEF Outcome
  <1> DEFINE t == s.type
  <1>4. t = q.type \/ t = "error"  BY <1>3
  <1> HIDE DEF t
  <1>5. t \in Types \cup {"error"} /\ t # "prompt"  BY <1>2, <1>4 DEF Types
  <1>6. Nothing.type = "prompt"  BY DEF Nothing
  <1> QED  BY <1>5, <1>6 DEF t

(* The prompt is said before a line is read. *)
LEMMA Silent ==
  ASSUME ConsoleInv, said = Nothing
  PROVE  line = <<>>
  <1>1. ASSUME NEW q \in DSL_parser_start(line), Parsable(line), Told(q)
        PROVE  FALSE
    <2>1. said = Outcome(q, q.type) \/ said = Outcome(q, "error")  BY <1>1 DEF Told
    <2> QED  BY <1>1, <2>1, Speaking
  <1> QED  BY <1>1 DEF ConsoleInv, Answered

(* A line that comes in disturbs neither what was said nor what is left. *)
LEMMA InvType ==
  ASSUME ConsoleInv, NEW l \in Line, Type(l)
  PROVE  ConsoleInv'
  <1>1. l \in Seq(Scanned)  BY LineAssumption
  <1>2. Parsable(Append(l, newline))  BY <1>1, LineTyped
  <1>3. Waiting'  BY <1>2 DEF ConsoleInv, Waiting, Type
  <1>4. Answered'
    <2>1. said = Nothing /\ line = <<>>  BY Silent DEF Type
    <2> QED  BY <2>1 DEF Type, Answered
  <1> QED  BY <1>3, <1>4 DEF ConsoleInv

(* Reading a blank leaves what waits. *)
LEMMA InvBlank ==
  ASSUME ConsoleInv, ReadBlank
  PROVE  ConsoleInv'
  <1>1. Waiting /\ Reading /\ said = Nothing  BY DEF ConsoleInv, ReadBlank, Reading
  <1>2. Tail(Input) = <<>> \/ Parsable(Tail(Input))
    <2>1. Input = <<blank>> \/ Parsable(Input)  BY <1>1, InputWaits
    <2>2. Tail(<<blank>>) = <<>>
      <3> DEFINE b == blank
      <3> HIDE DEF b
      <3>1. Tail(<<b>>) = <<>>  OBVIOUS
      <3> QED  BY <3>1 DEF b
    <2> QED  BY <2>1, <2>2, TailLeft
  <1>3. Waiting'  BY <1>1, <1>2, InputWaits DEF Waiting, ReadBlank
  <1>4. Answered'
    <2>1. line = <<>>  BY <1>1, Silent
    <2> QED  BY <1>1, <2>1 DEF Answered, ReadBlank
  <1> QED  BY <1>3, <1>4 DEF ConsoleInv

(* A command that is read is parsed, and what is said is that. *)
LEMMA InvCommand ==
  ASSUME ConsoleInv, ReadCommand
  PROVE  ConsoleInv'
  <1>1. Waiting /\ Reading /\ ~ NothingTyped  BY DEF ConsoleInv, ReadCommand
  <1>2. Parsable(Input)  BY <1>1, CommandLine
  <1>3. PICK q \in DSL_parser_start(Input) :
          q.ok /\ rx' = Unread(q) /\ said' = Outcome(q, q.type)
    BY DEF ReadCommand, Parses
  <1>4. PICK i : At(q, Input, i)  BY <1>2, ParserStart
  <1>5. Unread(q) = <<>> \/ Parsable(Unread(q))  BY <1>2, <1>4, LeftOver
  <1>6. uart' = Coming /\ line' = Input  BY DEF ReadCommand
  <1>7. Waiting'  BY <1>1, <1>3, <1>5, <1>6, InputWaits DEF Waiting
  <1>8. Answered'  BY <1>2, <1>3, <1>6 DEF Answered, Told
  <1> QED  BY <1>7, <1>8 DEF ConsoleInv

(* An error likewise; the rest of its line is discarded. *)
LEMMA InvError ==
  ASSUME ConsoleInv, ReadError
  PROVE  ConsoleInv'
  <1>1. Waiting /\ Reading /\ ~ NothingTyped  BY DEF ConsoleInv, ReadError
  <1>2. Parsable(Input)  BY <1>1, CommandLine
  <1>3. PICK q \in DSL_parser_start(Input) :
          /\ ~ q.ok
          /\ rx' = SubSeq(Unread(q), 1, IF q.curr \in {newline, stray} THEN 0 ELSE 1)
          /\ said' = Outcome(q, "error")
    BY DEF ReadError, Parses
  <1>4. PICK i : At(q, Input, i)  BY <1>2, ParserStart
  <1>5. rx' \in {<<>>, <<blank>>, <<newline>>}  BY <1>2, <1>3, <1>4, LeftOver
  <1>6. uart' \in Cut(Coming) /\ line' = Input  BY DEF ReadError
  <1>7. uart' = <<>> \/ Parsable(uart')
    <2>1. Coming = <<>> \/ Parsable(Coming)  BY <1>1, InputWaits
    <2> QED  BY <1>6, <2>1, CutLeft
  <1>8. Waiting'
    <2>1. (uart = <<>> \/ Parsable(uart))'  BY <1>7 DEF Parsable
    <2>2. (rx = <<>> \/ rx = <<blank>> \/ Parsable(rx))'
      <3>1. rx' = <<newline>> => Parsable(rx')  BY NewlineLine
      <3> QED  BY <1>5, <3>1 DEF Parsable
    <2> QED  BY <2>1, <2>2 DEF Waiting
  <1>9. Answered'  BY <1>2, <1>3, <1>6 DEF Answered, Told
  <1> QED  BY <1>8, <1>9 DEF ConsoleInv

(* The invariant is inductive. *)
LEMMA InvNext == ConsoleInv /\ [ConsoleNext]_consoleVars => ConsoleInv'
  <1> SUFFICES ASSUME ConsoleInv, [ConsoleNext]_consoleVars
               PROVE  ConsoleInv'
    OBVIOUS
  <1>1. ASSUME NEW l \in Line, Type(l)
        PROVE  ConsoleInv'
    BY <1>1, InvType
  <1>2. CASE ReadBlank  BY <1>2, InvBlank
  <1>3. CASE ReadCommand  BY <1>3, InvCommand
  <1>4. CASE ReadError  BY <1>4, InvError
  <1>5. CASE MainGoesOn
    <2>1. Waiting'  BY <1>5 DEF ConsoleInv, Waiting, MainGoesOn
    <2>2. Answered'  BY <1>5 DEF Answered, MainGoesOn
    <2> QED  BY <2>1, <2>2 DEF ConsoleInv
  <1>6. CASE UNCHANGED consoleVars
    <2>1. UNCHANGED <<uart, rx, said, line>>  BY <1>6 DEF consoleVars
    <2>2. Waiting'  BY <2>1 DEF ConsoleInv, Waiting
    <2>3. Answered'  BY <2>1 DEF ConsoleInv, Answered, Told
    <2> QED  BY <2>2, <2>3 DEF ConsoleInv
  <1> QED  BY <1>1, <1>2, <1>3, <1>4, <1>5, <1>6 DEF ConsoleNext, IO_read

(* Whatever is read from is a line, and what is said of it is what its parse comes to. *)
THEOREM ConsoleInvariant == ConsoleSpec => []ConsoleInv
  <1>1. ConsoleInit => ConsoleInv  BY InvInit
  <1>2. ConsoleInv /\ [ConsoleNext]_consoleVars => ConsoleInv'  BY InvNext
  <1> QED  BY <1>1, <1>2, PTL DEF ConsoleSpec

-----------------------------------------------------------------------------
(* TYPE *)
LEMMA InvTypeOK == ConsoleInv => ConsoleTypeOK
  <1> SUFFICES ASSUME ConsoleInv
               PROVE  ConsoleTypeOK
    OBVIOUS
  <1>1. \A l \in {uart, rx} : l = <<>> \/ l = <<blank>> \/ Last(l) = newline
    BY DEF ConsoleInv, Waiting, Parsable, Last
  <1>2. CASE said = Nothing
    <2>1. said.type = "prompt" /\ said.packet = <<>>  BY <1>2 DEF Nothing
    <2>2. said.type # "dcc"
      <3> DEFINE t == said.type
      <3>1. t = "prompt"  BY <2>1
      <3> HIDE DEF t
      <3>2. t # "dcc"  BY <3>1
      <3> QED  BY <3>2 DEF t
    <2>3. <<>> \in Seq(BYTE)  OBVIOUS
    <2> QED  BY <1>1, <2>1, <2>2, <2>3 DEF ConsoleTypeOK
  <1>3. ASSUME Parsable(line), NEW q \in DSL_parser_start(line), Told(q)
        PROVE  ConsoleTypeOK
    <2>1. PICK i : At(q, line, i)  BY <1>3, ParserStart
    <2>2. Parsed(q, line)  BY <1>3, ParserStart
    <2>3. said = Outcome(q, q.type) \/ said = Outcome(q, "error")  BY <1>3 DEF Told
    <2>4. said.packet = q.packet /\ q.packet \in Seq(BYTE)
      BY <2>1, <2>3 DEF Outcome, At, ParseState
    <2>5. said.type \in Types \cup {"error"}  BY <1>3, <2>3, Speaking
    <2>6. said.type = "dcc" => q.type = "dcc"
      <3> DEFINE t == said.type
      <3>1. t = q.type \/ t = "error"  BY <2>3 DEF Outcome
      <3> HIDE DEF t
      <3>2. t = "dcc" => q.type = "dcc"  BY <3>1
      <3> QED  BY <3>2 DEF t
    <2>7. q.type = "dcc" => Len(q.packet) = 5
      <3>1. q.type = "dcc" =>
           q.packet \in [1 .. 5 -> BYTE]
        BY <2>2 DEF Parsed, IsStop, IsMove
      <3> QED  BY <3>1, BytePackets
    <2>8. said.type \in {"prompt", "error", "undef", "dcc", "sys", "raw"}
      BY <2>5 DEF Types
    <2> QED  BY <1>1, <2>4, <2>6, <2>7, <2>8 DEF ConsoleTypeOK
  <1> QED  BY <1>2, <1>3 DEF ConsoleInv, Answered

(* A sentence that was parsed is obeyed. *)
LEMMA InvObeyed == ConsoleInv => SentencesObeyed
  <1> SUFFICES ASSUME ConsoleInv, Sentence(line, Grammar \ {<<"raw", "hex">>})
               PROVE  Obeys(said, Front(line)) /\ rx \in {<<>>, <<newline>>}
    BY DEF SentencesObeyed
  <1>1. line # <<>>  BY DEF Sentence
  <1>2. PICK q \in DSL_parser_start(line) : Parsable(line) /\ Told(q)
    BY <1>1 DEF ConsoleInv, Answered
  <1>3. Sentence(line, Grammar) /\ line[1].tok # "raw"  BY <1>2, NotRaw
  <1>4. Answers(q, line, line[1].tok)  BY <1>2, <1>3, SentenceAnswered
  <1>5. q.ok /\ (At(q, line, Len(line)) \/ At(q, line, Len(line) - 1))
    BY <1>4 DEF Answers
  <1>6. said = Outcome(q, q.type) /\ rx = Unread(q)  BY <1>2, <1>5 DEF Told
  <1>7. Obeys(said, Front(line))  BY <1>2, <1>3, <1>6, AnswerObeys
  <1> QED  BY <1>2, <1>5, <1>6, <1>7, UsedUp

(* A packet of a parse was commanded by its line. *)
LEMMA InvNotInvented == ConsoleInv => NothingInvented
  <1> SUFFICES ASSUME ConsoleInv, said.type = "dcc"
               PROVE  \/ StoppingAll(said) \/ StoppingLoco(said, line)
                      \/ Moving(0, said, line) \/ Moving(1, said, line)
    BY DEF NothingInvented
  <1>1. said # Nothing
    <2> DEFINE t == said.type
    <2>1. t = "dcc"  OBVIOUS
    <2> HIDE DEF t
    <2>2. t # "prompt"  BY <2>1
    <2>3. Nothing.type = "prompt"  BY DEF Nothing
    <2> QED  BY <2>2, <2>3 DEF t
  <1>2. PICK q \in DSL_parser_start(line) : Parsable(line) /\ Told(q)
    BY <1>1 DEF ConsoleInv, Answered
  <1>3. Parsed(q, line)  BY <1>2, ParserStart
  <1>4. said = Outcome(q, q.type) \/ said = Outcome(q, "error")  BY <1>2 DEF Told
  <1>5. q.type = "dcc" /\ said.packet = q.packet
    <2> DEFINE t == said.type
    <2>1. (t = q.type \/ t = "error") /\ t = "dcc" /\ said.packet = q.packet
      BY <1>4 DEF Outcome
    <2> HIDE DEF t
    <2>2. t # "error"  BY <2>1
    <2> QED  BY <2>1, <2>2
  <1>6. \/ IsStop(q.packet)
        \/ \E n \in Given("addr", line) : IsMove(q.packet, n, 0, 0)
        \/ \E d \in {0, 1}, n \in Given("addr", line), v \in Given("speed", line) :
             IsMove(q.packet, n, d, StepOf(v))
    BY <1>3, <1>5 DEF Parsed
  <1>7. CASE IsStop(q.packet)  BY <1>5, <1>7 DEF IsStop, StoppingAll
  <1>8. CASE \E n \in Given("addr", line) : IsMove(q.packet, n, 0, 0)
    BY <1>5, <1>8 DEF IsMove, StoppingLoco
  <1>9. ASSUME NEW d \in {0, 1}, NEW n \in Given("addr", line), NEW v \in Given("speed", line),
               IsMove(q.packet, n, d, StepOf(v))
        PROVE  Moving(d, said, line)
    BY <1>5, <1>9 DEF IsMove, Moving
  <1> QED  BY <1>6, <1>7, <1>8, <1>9

(* What a parse lost had a command of its own, besides the last. *)
LEMMA InvLoss == ConsoleInv => LossNeedsTwoCommands
  <1> SUFFICES ASSUME ConsoleInv, said # Nothing
               PROVE  /\ said.lost > 0 =>
                           said.lost < Cardinality({k \in DOMAIN line :
                                        line[k].tok \in {"forward", "reverse", "stop"}})
                      /\ said.lost <= IF said.type = "error" THEN 1 ELSE 2
    BY DEF LossNeedsTwoCommands, Nothing
  <1>1. PICK q \in DSL_parser_start(line) : Parsable(line) /\ Told(q)
    BY DEF ConsoleInv, Answered
  <1>2. Parsed(q, line)  BY <1>1, ParserStart
  <1>3. said.lost = q.lost /\ (said.type = "error" => ~ q.ok) /\ (~ q.ok => said.type = "error")
    <2>1. q.type # "error"
      <3>1. q \in ParseState  BY <1>1, ParserStart DEF At
      <3> QED  BY <3>1 DEF ParseState, Types
    <2> QED  BY <1>1, <2>1 DEF Told, Outcome
  <1> QED  BY <1>2, <1>3 DEF Parsed, MoveWords

(* Of a sentence's packet: a stop for all, or a move with the sentence's numbers. *)
LEMMA PacketOfSentence ==
  ASSUME ConsoleInv, Sentence(line, Grammar), said.type = "dcc"
  PROVE  \E q : /\ Parsable(line) /\ said.packet = q.packet
                /\ Phrase(line, line[1].tok) /\ Answers(q, line, line[1].tok)
                /\ q.type = "dcc"
  <1>1. line # <<>>  BY DEF Sentence
  <1>2. PICK q \in DSL_parser_start(line) : Parsable(line) /\ Told(q)
    BY <1>1 DEF ConsoleInv, Answered
  <1>3. Phrase(line, line[1].tok) /\ Answers(q, line, line[1].tok)
    BY <1>2, SentenceAnswered
  <1>4. q.ok  BY <1>3 DEF Answers
  <1>5. said = Outcome(q, q.type)  BY <1>2, <1>4 DEF Told
  <1>6. said.packet = q.packet /\ q.type = "dcc"  BY <1>5 DEF Outcome
  <1> QED  BY <1>2, <1>3, <1>6

(* Only the commands that move or stop have a packet. *)
LEMMA PacketWord ==
  ASSUME NEW q, NEW l, NEW t, Phrase(l, t), Answers(q, l, t), q.type = "dcc"
  PROVE  t \in {"forward", "reverse", "stop"}
  <1> DEFINE u == q.type
  <1>1. /\ u = "dcc" /\ t \in LeadingWords
        /\ t = "raw" => u \in {"undef", "raw"}
        /\ t \in {"help", "show", "cache"} => u = "sys"
    BY DEF Phrase, Answers
  <1> HIDE DEF u
  <1> QED  BY <1>1 DEF LeadingWords

(* A packet is a broadcast stop exactly for a sentence that says so. *)
LEMMA InvStops == ConsoleInv => StopsAreStops
  <1> SUFFICES ASSUME ConsoleInv, Sentence(line, Grammar), said.type = "dcc"
               PROVE  DCC_is_broadcast_stop(said.packet)
                        <=> Sentence(line, {<<"stop">>, <<"stop", "all">>})
    BY DEF StopsAreStops
  <1> DEFINE t == line[1].tok
  <1>1. PICK q : /\ Parsable(line) /\ said.packet = q.packet
                 /\ Phrase(line, t) /\ Answers(q, line, t) /\ q.type = "dcc"
    BY PacketOfSentence
  <1>2. t \in {"forward", "reverse", "stop"}  BY <1>1, PacketWord
  <1>3. Sentence(line, {<<"stop">>, <<"stop", "all">>}) <=> t = "stop" /\ Len(line) \in {2, 3}
    BY <1>1, StopSentences
  <1> HIDE DEF t
  <1>4. CASE t \in {"forward", "reverse"}
    <2>1. t # "stop"  BY <1>4
    <2>2. Moves(q, line, 1) \/ Moves(q, line, 0)  BY <1>1, <1>4 DEF Answers
    <2>3. ~ DCC_is_broadcast_stop(q.packet)  BY <2>2 DEF Moves, IsMove
    <2> QED  BY <1>1, <1>3, <2>1, <2>3
  <1>5. CASE t = "stop"
    <2>1. Halts(q, line)  BY <1>1, <1>5 DEF Answers
    <2>2. Len(line) = 4 \/ Len(line) \in {2, 3}  BY <1>1, <1>5 DEF Phrase
    <2>3. CASE Len(line) = 4
      <3>1. ~ DCC_is_broadcast_stop(q.packet)  BY <2>1, <2>3 DEF Halts, IsMove
      <3>2. Len(line) \notin {2, 3}  BY <2>3
      <3> QED  BY <1>1, <1>3, <3>1, <3>2
    <2>4. CASE Len(line) \in {2, 3}
      <3>1. DCC_is_broadcast_stop(q.packet)  BY <2>1, <2>4 DEF Halts
      <3> QED  BY <1>1, <1>3, <1>5, <2>4, <3>1
    <2> QED  BY <2>2, <2>3, <2>4
  <1> QED  BY <1>2, <1>4, <1>5

(* The packets that are made read back as they were meant. *)
LEMMA InvReadsBack == ConsoleInv => ReadsBack
  <1> DEFINE t == line[1].tok
  <1> SUFFICES ASSUME ConsoleInv, Sentence(line, Grammar), said.type = "dcc", t # "stop"
               PROVE  /\ DCC_get_address(said.packet)
                           \in {Byte(AddressOf(a)) : a \in Given("addr", line)}
                      /\ DCC_get_speed_step(said.packet) \in {StepOf(v) : v \in Given("speed", line)}
                      /\ DCC_get_direction(said.packet) = IF t = "forward" THEN 1 ELSE 0
    BY DEF ReadsBack
  <1>1. PICK q : /\ Parsable(line) /\ said.packet = q.packet
                 /\ Phrase(line, t) /\ Answers(q, line, t) /\ q.type = "dcc"
    BY PacketOfSentence
  <1>2. t \in {"forward", "reverse", "stop"}  BY <1>1, PacketWord
  <1> HIDE DEF t
  <1>3. t \in {"forward", "reverse"}  BY <1>2
  <1>4. PICK r \in {0, 1} : Moves(q, line, r) /\ r = IF t = "forward" THEN 1 ELSE 0
    <2>1. CASE t = "forward"  BY <1>1, <2>1 DEF Answers
    <2>2. CASE t = "reverse"
      <3>1. t # "forward"  BY <2>2
      <3> QED  BY <1>1, <2>2, <3>1 DEF Answers
    <2> QED  BY <1>3, <2>1, <2>2
  <1>5. PICK n \in Given("addr", line), v \in Given("speed", line) :
          IsMove(q.packet, n, r, StepOf(v))
    BY <1>4 DEF Moves
  <1> QED  BY <1>1, <1>4, <1>5 DEF IsMove

-----------------------------------------------------------------------------
(* THE DUMPS *)

(* The elements of a part. *)
LEMMA PartIs ==
  ASSUME NEW C, NEW t \in Seq(C), NEW i \in 0 .. Len(t), NEW j \in 0 .. Len(t), i <= j,
         NEW v, v = SubSeq(t, i + 1, j)
  PROVE  v \in Seq(C) /\ Len(v) = j - i /\ \A k \in 1 .. j - i : v[k] = t[i + k]
  <1> DEFINE a == i + 1
  <1>1. Len(t) \in Nat /\ i \in Nat /\ j \in Nat /\ i <= Len(t) /\ j <= Len(t)  OBVIOUS
  <1>2. \A k \in 1 .. Len(t) : t[k] \in C  OBVIOUS
  <1>3. a \in Int /\ j \in Int /\ \A k \in a .. j : t[k] \in C  BY <1>1, <1>2
  <1>4. a <= j <=> i < j  BY <1>1
  <1>5. j - a + 1 = j - i /\ \A k \in 1 .. j - i : a + k - 1 = i + k  BY <1>1
  <1>6. i = j \/ i < j  BY <1>1
  <1>7. i = j => j - i = 0  BY <1>1
  <1> HIDE DEF a
  <1>8. /\ SubSeq(t, a, j) \in Seq(C)
        /\ Len(SubSeq(t, a, j)) = IF a <= j THEN j - a + 1 ELSE 0
        /\ \A k \in 1 .. j - a + 1 : SubSeq(t, a, j)[k] = t[a + k - 1]
    BY <1>3, SubSeqProperties
  <1>9. v = SubSeq(t, a, j)  BY DEF a
  <1> QED  BY <1>4, <1>5, <1>6, <1>7, <1>8, <1>9

(* A part from the beginning, and the part behind it. *)
LEMMA PartsJoin ==
  ASSUME NEW C, NEW t \in Seq(C), NEW i \in 0 .. Len(t), NEW j \in 0 .. Len(t), i <= j
  PROVE  SubSeq(t, 1, i) \o SubSeq(t, i + 1, j) = SubSeq(t, 1, j)
  <1> DEFINE u == SubSeq(t, 1, i)
             v == SubSeq(t, i + 1, j)
             w == SubSeq(t, 1, j)
             z == 0
  <1>1. z \in 0 .. Len(t) /\ z <= i /\ z <= j /\ z + 1 = 1 /\ i - z = i /\ j - z = j  OBVIOUS
  <1>2. Len(t) \in Nat /\ i \in Nat /\ j \in Nat /\ i <= Len(t) /\ j <= Len(t)  OBVIOUS
  <1>3. u = SubSeq(t, z + 1, i) /\ w = SubSeq(t, z + 1, j)  OBVIOUS
  <1>4. \A k \in 1 .. Len(t) : z + k = k  OBVIOUS
  <1> HIDE DEF z, u, v, w
  <1>5. u \in Seq(C) /\ Len(u) = i - z /\ \A k \in 1 .. i - z : u[k] = t[z + k]
    BY <1>1, <1>3, PartIs
  <1>6. w \in Seq(C) /\ Len(w) = j - z /\ \A k \in 1 .. j - z : w[k] = t[z + k]
    BY <1>1, <1>3, PartIs
  <1>7. v \in Seq(C) /\ Len(v) = j - i /\ \A k \in 1 .. j - i : v[k] = t[i + k]
    BY PartIs DEF v
  <1>8. u \in Seq(C) /\ Len(u) = i /\ \A k \in 1 .. i : u[k] = t[k]
    <2>1. \A k \in 1 .. i : k \in 1 .. Len(t)  BY <1>2
    <2> QED  BY <1>1, <1>4, <1>5, <2>1
  <1>9. w \in Seq(C) /\ Len(w) = j /\ \A k \in 1 .. j : w[k] = t[k]
    <2>1. \A k \in 1 .. j : k \in 1 .. Len(t)  BY <1>2
    <2> QED  BY <1>1, <1>4, <1>6, <2>1
  <1> DEFINE x == u \o v
  <1>10. u \in Seq(C) /\ v \in Seq(C)  BY <1>8, <1>7
  <1>11. x \in Seq(C) /\ Len(x) = Len(u) + Len(v)  BY <1>10
  <1>12. \A k \in 1 .. Len(u) + Len(v) : x[k] = IF k <= Len(u) THEN u[k] ELSE v[k - Len(u)]
    BY <1>10
  <1>13. Len(x) = j
    <2> HIDE DEF x
    <2> QED  BY <1>2, <1>8, <1>7, <1>11
  <1>14. \A k \in 1 .. j : x[k] = w[k]
    <2> SUFFICES ASSUME NEW k \in 1 .. j PROVE x[k] = w[k]  OBVIOUS
    <2> DEFINE m == Len(u)
               n == Len(v)
    <2>1. m = i /\ n = j - i  BY <1>8, <1>7
    <2>2. x[k] = IF k <= i THEN u[k] ELSE v[k - i]
      <3>1. k \in 1 .. m + n  BY <1>2, <2>1
      <3>2. x[k] = IF k <= m THEN u[k] ELSE v[k - m]  BY <1>12, <3>1
      <3> HIDE DEF x, m, n
      <3> QED  BY <2>1, <3>2
    <2> HIDE DEF x, m, n
    <2>3. CASE k <= i
      <3>1. k \in 1 .. i  BY <1>2, <2>3
      <3> QED  BY <1>8, <1>9, <2>2, <2>3, <3>1
    <2>4. CASE ~ (k <= i)
      <3>1. k - i \in 1 .. j - i /\ i + (k - i) = k  BY <1>2, <2>4
      <3>2. v[k - i] = t[k]  BY <1>7, <3>1
      <3> QED  BY <1>9, <2>2, <2>4, <3>2
    <2> QED  BY <2>3, <2>4
  <1> HIDE DEF x
  <1>15. x = w  BY <1>9, <1>11, <1>13, <1>14, SeqEqual
  <1> QED  BY <1>15 DEF x, u, v, w

(* Two functions that begin alike and go on alike are the same. *)
LEMMA StepByStep ==
  ASSUME NEW N \in Nat, NEW b, NEW f, b[0] = f[0],
         \A k \in 1 .. N : b[k - 1] = f[k - 1] => b[k] = f[k]
  PROVE  b[N] = f[N]
  <1> DEFINE T == {k \in 0 .. N : b[k] # f[k]}
  <1>1. T = {}
    <2> SUFFICES ASSUME T # {} PROVE FALSE  OBVIOUS
    <2>1. T \in SUBSET Nat  OBVIOUS
    <2> HIDE DEF T
    <2>2. PICK k \in T : \A m \in T : k <= m  BY <2>1, LeastNatural
    <2>3. k \in 0 .. N /\ b[k] # f[k]  BY <2>2 DEF T
    <2>4. k # 0  BY <2>3
    <2>5. k \in 1 .. N /\ k - 1 \in 0 .. N /\ ~ (k <= k - 1)  BY <2>3, <2>4
    <2>6. k - 1 \notin T  BY <2>2, <2>5
    <2>7. b[k - 1] = f[k - 1]  BY <2>5, <2>6 DEF T
    <2> QED  BY <2>3, <2>5, <2>7
  <1>2. N \in 0 .. N  OBVIOUS
  <1> QED  BY <1>1, <1>2

(* The blank between the digits of two bytes. *)
Gap(i, n) == IF i < n THEN <<" ">> ELSE <<>>

(* y and z make the part of t from a on to b. *)
Piece(t, a, b, y, z) == y \o z = SubSeq(t, a + 1, b)

(* t is made of the digits of n bytes with blanks between them; e says where each of these
   pieces ends, and none but the last goes beyond the length. *)
Laid(t, d, e, n, length, C) ==
  /\ t \in Seq(C) /\ " " \in C /\ Len(d) = n
  /\ e[0] = 0 /\ e[n] = Len(t)
  /\ \A i \in 1 .. n :
       /\ e[i - 1] \in 0 .. Len(t) /\ e[i] \in 0 .. Len(t)
       /\ e[i - 1] <= e[i] /\ e[i - 1] <= length
       /\ d[i] \in Seq(C) /\ Piece(t, e[i - 1], e[i], d[i], Gap(i, n))

(* The beginning of a sequence. *)
LEMMA FirstIs ==
  ASSUME NEW C, NEW t \in Seq(C), NEW a \in 0 .. Len(t), NEW x, x = SubSeq(t, 1, a)
  PROVE  x \in Seq(C) /\ Len(x) = a /\ \A k \in 1 .. a : x[k] = t[k]
  <1> DEFINE o == 0
  <1>1. /\ o \in 0 .. Len(t) /\ o <= a /\ o + 1 = 1 /\ a - o = a
        /\ \A k \in 1 .. a : o + k = k
    OBVIOUS
  <1>2. x = SubSeq(t, o + 1, a)  OBVIOUS
  <1> HIDE DEF o
  <1>3. x \in Seq(C) /\ Len(x) = a - o /\ \A k \in 1 .. a - o : x[k] = t[o + k]
    BY <1>1, <1>2, PartIs
  <1>4. a - o = a /\ \A k \in 1 .. a : o + k = k  BY <1>1
  <1> QED  BY <1>3, <1>4

(* A sequence of one, and of none. *)
LEMMA SingleIs ==
  ASSUME NEW C, NEW s \in C
  PROVE  <<s>> \in Seq(C) /\ <<>> \in Seq(C)
  OBVIOUS

(* The gap is a sequence. *)
LEMMA GapIs ==
  ASSUME NEW C, " " \in C, NEW i, NEW n
  PROVE  Gap(i, n) \in Seq(C)
  <1> DEFINE s == " "
  <1>1. s \in C  OBVIOUS
  <1> HIDE DEF s
  <1>2. <<s>> \in Seq(C) /\ <<>> \in Seq(C)  BY <1>1, SingleIs
  <1>3. <<s>> = <<" ">>  BY DEF s
  <1>4. Gap(i, n) = <<s>> \/ Gap(i, n) = <<>>  BY <1>3 DEF Gap
  <1> QED  BY <1>2, <1>4

(* One turn of the loop. *)
Turn(t, length, b, x, y, z) == ~ (Len(x) > length) /\ SubSeq(t, 1, b) = x \o y \o z

(* Three sequences, one behind the other. *)
Regrouped(x, y, z) == (x \o y) \o z = x \o (y \o z)

(* They may be put together in either order. *)
LEMMA ThreeJoin ==
  ASSUME NEW C, NEW x \in Seq(C), NEW y \in Seq(C), NEW z \in Seq(C)
  PROVE  Regrouped(x, y, z)
  BY ConcatAssociative DEF Regrouped

(* That turn comes to the end of the piece. *)
LEMMA LoopTurn ==
  ASSUME NEW C, NEW t \in Seq(C), NEW a \in 0 .. Len(t), NEW b \in 0 .. Len(t), a <= b,
         NEW length \in Int, a <= length, NEW y \in Seq(C), NEW z \in Seq(C),
         Piece(t, a, b, y, z), NEW x, x = SubSeq(t, 1, a)
  PROVE  Turn(t, length, b, x, y, z)
  <1>1. x \o SubSeq(t, a + 1, b) = SubSeq(t, 1, b)  BY PartsJoin
  <1>2. x \in Seq(C) /\ Len(x) = a  BY FirstIs
  <1>3. Regrouped(x, y, z)
    <2>1. x \in Seq(C) /\ y \in Seq(C) /\ z \in Seq(C)  BY <1>2
    <2> QED  BY <2>1, ThreeJoin
  <1>4. ~ (Len(x) > length)
    <2>1. a \in Int /\ a <= length /\ length \in Int  OBVIOUS
    <2> QED  BY <1>2, <2>1
  <1>5. y \o z = SubSeq(t, a + 1, b)  BY DEF Piece
  <1> QED  BY <1>1, <1>3, <1>4, <1>5 DEF Turn, Regrouped

(* Then the loop comes to t. *)
LEMMA LoopDumps ==
  ASSUME NEW n \in Nat, NEW length \in Int, NEW t, NEW d, NEW e, NEW C,
         Laid(t, d, e, n, length, C)
  PROVE  DumpLoop(d, length) = t
  <1> DEFINE Separator(i) == IF i < Len(d) THEN <<" ">> ELSE <<>>
             dump[i \in 0 .. Len(d)] ==
               IF i = 0 THEN <<>>
               ELSE LET before == dump[i - 1]
                    IN  IF Len(before) > length THEN before
                        ELSE before \o d[i] \o Separator(i)
             f == [i \in 0 .. n |-> SubSeq(t, 1, e[i])]
  <1>1. DumpLoop(d, length) = dump[Len(d)]  BY DEF DumpLoop
  <1> HIDE DEF dump
  <1>2. f[0] = <<>> /\ f[n] = t
    <2>1. t \in Seq(C) /\ e[0] = 0 /\ e[n] = Len(t)  BY DEF Laid
    <2>2. f[0] = SubSeq(t, 1, 0) /\ f[n] = SubSeq(t, 1, Len(t))  BY <2>1
    <2> HIDE DEF f
    <2>3. SubSeq(t, 1, 0) = <<>> /\ SubSeq(t, 1, Len(t)) = t  BY <2>1
    <2> QED  BY <2>2, <2>3
  <1>3. ASSUME NEW i \in 1 .. n
        PROVE  ~ (Len(f[i - 1]) > length) /\ f[i] = f[i - 1] \o d[i] \o Gap(i, n)
    <2> DEFINE a == e[i - 1]
               b == e[i]
               x == SubSeq(t, 1, a)
               y == d[i]
               z == Gap(i, n)
    <2>1. i \in 0 .. n /\ i - 1 \in 0 .. n  OBVIOUS
    <2>2. f[i - 1] = x /\ f[i] = SubSeq(t, 1, b)  BY <2>1
    <2> HIDE DEF f
    <2>3. /\ t \in Seq(C) /\ " " \in C /\ a \in 0 .. Len(t) /\ b \in 0 .. Len(t)
          /\ a <= b /\ a <= length /\ y \in Seq(C) /\ Piece(t, a, b, y, z)
      BY DEF Laid
    <2>4. z \in Seq(C)  BY <2>3, GapIs
    <2> HIDE DEF a, b, x, y, z
    <2>5. Turn(t, length, b, x, y, z)
      <3>1. x = SubSeq(t, 1, a)  BY DEF x
      <3> QED  BY <2>3, <2>4, <3>1, LoopTurn
    <2> QED  BY <2>2, <2>5 DEF y, z, Turn
  <1>4. Len(d) = n  BY DEF Laid
  <1> HIDE DEF f
  <1>5. \A i \in 0 .. n : Separator(i) = Gap(i, n)  BY <1>4 DEF Gap
  <1> HIDE DEF Separator
  <1>6. \E g : g = [i \in 0 .. Len(d) |->
                     IF i = 0 THEN <<>>
                     ELSE LET before == g[i - 1]
                          IN  IF Len(before) > length THEN before
                              ELSE before \o d[i] \o Separator(i)]
    <2> DEFINE F == [i \in 0 .. n |-> f[i]]
               G(i) == IF i = 0 THEN <<>>
                       ELSE LET before == F[i - 1]
                            IN  IF Len(before) > length THEN before
                                ELSE before \o d[i] \o Separator(i)
    <2>1. \A i \in 0 .. n : F[i] = G(i)
      <3> SUFFICES ASSUME NEW i \in 0 .. n PROVE F[i] = G(i)  OBVIOUS
      <3>1. CASE i = 0  BY <1>2, <3>1
      <3>2. CASE i # 0
        <4>1. i \in 1 .. n /\ i - 1 \in 0 .. n  BY <3>2
        <4>2. F[i] = f[i] /\ F[i - 1] = f[i - 1]  BY <4>1
        <4> HIDE DEF F
        <4> QED  BY <1>3, <1>5, <3>2, <4>1, <4>2
      <3> QED  BY <3>1, <3>2
    <2>2. F = [i \in 0 .. n |-> G(i)]  BY <2>1
    <2> HIDE DEF F
    <2>3. F = [i \in 0 .. Len(d) |-> G(i)]  BY <1>4, <2>2
    <2> QED  BY <2>3
  <1>7. dump = [i \in 0 .. Len(d) |->
                  IF i = 0 THEN <<>>
                  ELSE LET before == dump[i - 1]
                       IN  IF Len(before) > length THEN before
                           ELSE before \o d[i] \o Separator(i)]
    BY <1>6 DEF dump
  <1>8. \A i \in 0 .. n :
          dump[i] = IF i = 0 THEN <<>>
                    ELSE IF Len(dump[i - 1]) > length THEN dump[i - 1]
                         ELSE dump[i - 1] \o d[i] \o Separator(i)
    BY <1>4, <1>7
  <1>9. dump[0] = f[0]
    <2>1. 0 \in 0 .. n  OBVIOUS
    <2>2. dump[0] = <<>>  BY <1>8, <2>1
    <2> QED  BY <1>2, <2>2
  <1>10. ASSUME NEW i \in 1 .. n, dump[i - 1] = f[i - 1]
         PROVE  dump[i] = f[i]
    <2>1. i \in 0 .. n /\ i # 0  OBVIOUS
    <2>2. dump[i] = IF Len(dump[i - 1]) > length THEN dump[i - 1]
                    ELSE dump[i - 1] \o d[i] \o Separator(i)
      BY <1>8, <2>1
    <2> QED  BY <1>3, <1>5, <1>10, <2>1, <2>2
  <1>11. dump[n] = f[n]  BY <1>9, <1>10, StepByStep
  <1> QED  BY <1>1, <1>2, <1>4, <1>11

(* The beginning of a sequence with one element more. *)
Grown(r, a, b, x, c) == SubSeq(r, 1, b) = x \o <<c>>

(* It is the beginning that ends with that element. *)
LEMMA OneMore ==
  ASSUME NEW C, NEW r \in Seq(C), NEW a \in 0 .. Len(r), NEW b \in 0 .. Len(r), b = a + 1,
         NEW x, x = SubSeq(r, 1, a), NEW c, c = r[b]
  PROVE  Grown(r, a, b, x, c)
  <1>1. Len(r) \in Nat /\ a \in Nat /\ b \in Nat /\ b \in 1 .. Len(r)  OBVIOUS
  <1>2. c \in C
    <2>1. \A k \in 1 .. Len(r) : r[k] \in C  OBVIOUS
    <2> QED  BY <1>1, <2>1
  <1>3. x \in Seq(C) /\ Len(x) = a /\ \A k \in 1 .. a : x[k] = r[k]  BY FirstIs
  <1> DEFINE w == SubSeq(r, 1, b)
             z == <<c>>
  <1>4. w \in Seq(C) /\ Len(w) = b /\ \A k \in 1 .. b : w[k] = r[k]
    <2>1. w = SubSeq(r, 1, b)  OBVIOUS
    <2> HIDE DEF w
    <2> QED  BY <2>1, FirstIs
  <1>5. z \in Seq(C) /\ Len(z) = 1 /\ z[1] = c
    <2>1. z \in Seq(C)  BY <1>2, SingleIs
    <2>2. Len(z) = 1 /\ z[1] = c  OBVIOUS
    <2> QED  BY <2>1, <2>2
  <1> HIDE DEF w, z
  <1>6. w = x \o z
    <2> DEFINE y == x \o z
    <2>1. x \in Seq(C) /\ z \in Seq(C)  BY <1>3, <1>5
    <2>2. /\ y \in Seq(C) /\ Len(y) = Len(x) + Len(z)
          /\ \A k \in 1 .. Len(x) + Len(z) :
               y[k] = IF k <= Len(x) THEN x[k] ELSE z[k - Len(x)]
      BY <2>1
    <2> HIDE DEF y
    <2>3. Len(y) = b  BY <1>1, <1>3, <1>5, <2>2
    <2>4. \A k \in 1 .. b : y[k] = w[k]
      <3> SUFFICES ASSUME NEW k \in 1 .. b PROVE y[k] = w[k]  OBVIOUS
      <3>1. k \in 1 .. Len(x) + Len(z)  BY <1>1, <1>3, <1>5
      <3>2. y[k] = IF k <= a THEN x[k] ELSE z[k - a]
        <4>1. Len(x) = a  BY <1>3
        <4> QED  BY <2>2, <3>1, <4>1
      <3>3. CASE k <= a
        <4>1. k \in 1 .. a  BY <3>3
        <4> QED  BY <1>3, <1>4, <3>2, <3>3, <4>1
      <3>4. CASE ~ (k <= a)
        <4>1. k = b /\ k - a = 1  BY <1>1, <3>4
        <4> QED  BY <1>4, <1>5, <3>2, <3>4, <4>1
      <3> QED  BY <3>3, <3>4
    <2>5. y \in Seq(C) /\ w \in Seq(C) /\ Len(y) = b /\ Len(w) = b  BY <1>4, <2>2, <2>3
    <2>6. y = w  BY <2>4, <2>5, SeqEqual
    <2> QED  BY <2>6 DEF y
  <1> QED  BY <1>6 DEF w, z, Grown

(* The NUL behind a text leaves the text alone. *)
LEMMA TextThenNUL ==
  ASSUME NEW C, NEW t \in Seq(C), NEW dump, dump = Append(t, NUL)
  PROVE  Len(t) \in Nat /\ Len(dump) - 1 = Len(t) /\ \A k \in 1 .. Len(t) : dump[k] = t[k]
  <1> DEFINE D == C \cup {NUL}
  <1>1. t \in Seq(D) /\ NUL \in D  BY SeqWider
  <1> HIDE DEF D
  <1> QED  BY <1>1, AppendProperties

(* Of the elements of t the k-th one is kept, unless it is a blank. *)
Retained(t, k, r, a, b) ==
  /\ t[k] = " " => b = a
  /\ t[k] # " " => b = a + 1 /\ t[k] = r[b]

(* r is t without its blanks; g counts the elements that are left. *)
Spaceless(t, r, g, C) ==
  /\ t \in Seq(C) /\ r \in Seq(C)
  /\ g[0] = 0 /\ g[Len(t)] = Len(r)
  /\ \A k \in 1 .. Len(t) :
       /\ g[k - 1] \in 0 .. Len(r) /\ g[k] \in 0 .. Len(r)
       /\ Retained(t, k, r, g[k - 1], g[k])

(* Nothing is added. *)
LEMMA NothingMore ==
  ASSUME NEW C, NEW x \in Seq(C)
  PROVE  x \o <<>> = x
  BY ConcatEmptySeq

(* What is printed after one element more. *)
Advance(t, k, x) == IF t[k] = " " THEN x \o <<>> ELSE x \o <<t[k]>>

(* x is the beginning of r. *)
Begins(x, r, a) == x = SubSeq(r, 1, a)

(* What is printed grows by the element that is kept. *)
LEMMA BlankOrNot ==
  ASSUME NEW C, NEW t, NEW r \in Seq(C), NEW k, NEW a \in 0 .. Len(r), NEW b \in 0 .. Len(r),
         Retained(t, k, r, a, b),
         NEW x, Begins(x, r, a), NEW y, Begins(y, r, b)
  PROVE  y = Advance(t, k, x)
  <1>1. x = SubSeq(r, 1, a) /\ y = SubSeq(r, 1, b)  BY DEF Begins
  <1>2. CASE t[k] = " "
    <2>1. x \in Seq(C)  BY <1>1, FirstIs
    <2>2. x \o <<>> = x  BY <2>1, NothingMore
    <2>3. x = y
      <3>1. b = a  BY <1>2 DEF Retained
      <3> QED  BY <1>1, <3>1
    <2> QED  BY <1>2, <2>2, <2>3 DEF Advance
  <1>3. CASE t[k] # " "
    <2> DEFINE c == t[k]
    <2>1. b = a + 1 /\ c = r[b]  BY <1>3 DEF Retained
    <2> HIDE DEF c
    <2>2. Grown(r, a, b, x, c)  BY <1>1, <2>1, OneMore
    <2> QED  BY <1>3, <2>2 DEF Grown, Advance, c, Begins
  <1> QED  BY <1>2, <1>3

(* Then r is what is printed of t. *)
LEMMA PrintedIs ==
  ASSUME NEW C, NEW t, NEW r, NEW g, Spaceless(t, r, g, C)
  PROVE  Printed(Append(t, NUL)) = r
  <1> DEFINE dump == Append(t, NUL)
             n == Len(t)
             printed[k \in 0 .. Len(dump) - 1] ==
               IF k = 0 THEN <<>>
               ELSE printed[k - 1] \o (IF dump[k] = " " THEN <<>> ELSE <<dump[k]>>)
             f == [k \in 0 .. n |-> SubSeq(r, 1, g[k])]
  <1>1. Printed(dump) = printed[Len(dump) - 1]  BY DEF Printed
  <1> HIDE DEF printed
  <1>2. n \in Nat /\ Len(dump) - 1 = n /\ \A k \in 1 .. n : dump[k] = t[k]
    <2>1. t \in Seq(C)  BY DEF Spaceless
    <2> QED  BY <2>1, TextThenNUL
  <1>3. f[0] = <<>> /\ f[n] = r
    <2>1. r \in Seq(C) /\ g[0] = 0 /\ g[n] = Len(r)  BY DEF Spaceless
    <2>2. f[0] = SubSeq(r, 1, 0) /\ f[n] = SubSeq(r, 1, Len(r))  BY <1>2, <2>1
    <2> HIDE DEF f
    <2>3. SubSeq(r, 1, 0) = <<>> /\ SubSeq(r, 1, Len(r)) = r  BY <2>1
    <2> QED  BY <2>2, <2>3
  <1>4. ASSUME NEW k \in 1 .. n
        PROVE  f[k] = Advance(t, k, f[k - 1])
    <2> DEFINE a == g[k - 1]
               b == g[k]
               x == SubSeq(r, 1, a)
               y == SubSeq(r, 1, b)
    <2>1. k \in 0 .. n /\ k - 1 \in 0 .. n  BY <1>2
    <2>2. f[k - 1] = x /\ f[k] = y  BY <2>1
    <2> HIDE DEF f
    <2>3. /\ r \in Seq(C) /\ a \in 0 .. Len(r) /\ b \in 0 .. Len(r)
          /\ Retained(t, k, r, a, b)
      BY DEF Spaceless
    <2> HIDE DEF a, b, n, dump
    <2>4. y = Advance(t, k, x)
      <3>1. Begins(x, r, a) /\ Begins(y, r, b)  BY DEF Begins
      <3> HIDE DEF x, y
      <3> QED  BY <2>3, <3>1, BlankOrNot
    <2> QED  BY <2>2, <2>4
  <1> HIDE DEF dump, f
  <1> DEFINE G(k, x) == x \o (IF dump[k] = " " THEN <<>> ELSE <<dump[k]>>)
  <1>5. \A k \in 1 .. n : \A x : G(k, x) = Advance(t, k, x)  BY <1>2 DEF Advance
  <1> HIDE DEF G, n
  <1>6. \E h : h = [k \in 0 .. n |-> IF k = 0 THEN <<>> ELSE G(k, h[k - 1])]
    <2> DEFINE F == [k \in 0 .. n |-> f[k]]
    <2>1. \A k \in 0 .. n : F[k] = IF k = 0 THEN <<>> ELSE G(k, F[k - 1])
      <3> SUFFICES ASSUME NEW k \in 0 .. n
                   PROVE  F[k] = IF k = 0 THEN <<>> ELSE G(k, F[k - 1])
        OBVIOUS
      <3>1. CASE k = 0  BY <1>3, <3>1
      <3>2. CASE k # 0
        <4>1. k \in 1 .. n /\ k - 1 \in 0 .. n  BY <1>2, <3>2
        <4>2. F[k] = f[k] /\ F[k - 1] = f[k - 1]  BY <4>1
        <4> HIDE DEF F
        <4> QED  BY <1>4, <1>5, <3>2, <4>1, <4>2
      <3> QED  BY <3>1, <3>2
    <2>2. F = [k \in 0 .. n |-> IF k = 0 THEN <<>> ELSE G(k, F[k - 1])]  BY <2>1
    <2> QED  BY <2>2
  <1>7. printed = [k \in 0 .. n |-> IF k = 0 THEN <<>> ELSE G(k, printed[k - 1])]
    BY <1>2, <1>6 DEF printed, G
  <1>8. \A k \in 0 .. n : printed[k] = IF k = 0 THEN <<>> ELSE G(k, printed[k - 1])
    BY <1>7
  <1>9. printed[0] = f[0]
    <2>1. 0 \in 0 .. n  BY <1>2
    <2> QED  BY <1>3, <1>8, <2>1
  <1>10. ASSUME NEW k \in 1 .. n, printed[k - 1] = f[k - 1]
         PROVE  printed[k] = f[k]
    <2>1. k \in 0 .. n /\ k # 0  BY <1>2
    <2>2. printed[k] = G(k, printed[k - 1])  BY <1>8, <2>1
    <2> QED  BY <1>4, <1>5, <1>10, <2>2
  <1>11. printed[n] = f[n]  BY <1>2, <1>9, <1>10, StepByStep
  <1> QED  BY <1>1, <1>2, <1>3, <1>11 DEF dump

(* d has the v - 1 digits of each of n bytes, and no blank. *)
Digits(d, v, n, C) ==
  /\ n \in Nat \ {0} /\ Len(d) = n /\ " " \in C
  /\ \A i \in 1 .. n : d[i] \in Seq(C) /\ Len(d[i]) = v - 1
  /\ \A i \in 1 .. n : \A j \in 1 .. v - 1 : d[i][j] # " "

(* t has these digits, and blanks between those of two bytes. *)
Text(t, d, v, n, C) ==
  /\ t \in Seq(C) /\ Len(t) = v * n - 1
  /\ \A q \in 0 .. n - 1 : \A j \in 1 .. v - 1 : t[v * q + j] = d[q + 1][j]
  /\ \A q \in 1 .. n - 1 : t[v * q] = " "

(* r has them without blanks. *)
Plain(r, d, v, n, C) ==
  /\ r \in Seq(C) /\ Len(r) = (v - 1) * n
  /\ \A q \in 0 .. n - 1 : \A j \in 1 .. v - 1 : r[(v - 1) * q + j] = d[q + 1][j]

(* What a sequence consists of. *)
LEMMA ElementIn ==
  ASSUME NEW C, NEW s \in Seq(C), NEW j \in 1 .. Len(s)
  PROVE  s[j] \in C
  OBVIOUS

(* Where the digit j of byte q + 1 stands. *)
LEMMA Place ==
  ASSUME NEW v \in {3, 9}, NEW n \in Nat \ {0}, NEW k \in 1 .. v * n - 1,
         NEW q, q = k \div v, NEW j, j = k % v
  PROVE  /\ k = v * q + j /\ q \in 0 .. n - 1 /\ j \in 0 .. v - 1
         /\ j = 0 => q \in 1 .. n - 1
  <1>1. v \in Nat \ {0} /\ k \in Int  OBVIOUS
  <1>2. k = v * q + j /\ j \in 0 .. v - 1 /\ q \in Int  BY <1>1, Division
  <1>3. k \in Int /\ 1 <= k /\ k <= v * n - 1  OBVIOUS
  <1>4. CASE v = 3  BY <1>2, <1>3, <1>4
  <1>5. CASE v = 9  BY <1>2, <1>3, <1>5
  <1> QED  BY <1>4, <1>5

(* The other way round: the place gives the byte and the digit. *)
LEMMA PlaceIs ==
  ASSUME NEW v \in {3, 9}, NEW n \in Nat \ {0}, NEW q \in 0 .. n - 1, NEW j \in 0 .. v - 1,
         NEW k, k = v * q + j
  PROVE  k \div v = q /\ k % v = j /\ k \in 0 .. v * n - 1 /\ (1 <= k => k \in 1 .. v * n - 1)
  <1>1. v \in Nat \ {0} /\ k \in Int /\ q \in Int
    <2>1. CASE v = 3  BY <2>1
    <2>2. CASE v = 9  BY <2>2
    <2> QED  BY <2>1, <2>2
  <1>2. k \div v = q /\ k % v = j  BY <1>1, QuotientIs
  <1>3. k \in 0 .. v * n - 1 /\ (1 <= k => k \in 1 .. v * n - 1)
    <2>1. CASE v = 3  BY <2>1
    <2>2. CASE v = 9  BY <2>2
    <2> QED  BY <2>1, <2>2
  <1> QED  BY <1>2, <1>3

(* For any digits there is such a text. *)
LEMMA Texts ==
  ASSUME NEW C, NEW v \in {3, 9}, NEW n, NEW d, Digits(d, v, n, C)
  PROVE  \E t : Text(t, d, v, n, C)
  <1> DEFINE N == v * n - 1
             t == [k \in 1 .. N |-> IF k % v = 0 THEN " " ELSE d[k \div v + 1][k % v]]
  <1>1. n \in Nat \ {0}  BY DEF Digits
  <1>2. " " \in C  BY DEF Digits
  <1>3. N \in Nat
    <2>1. CASE v = 3  BY <1>1, <2>1
    <2>2. CASE v = 9  BY <1>1, <2>2
    <2> QED  BY <2>1, <2>2
  <1>4. ASSUME NEW q \in 0 .. n - 1, NEW j \in 1 .. v - 1
        PROVE  d[q + 1][j] \in C
    <2> DEFINE s == d[q + 1]
    <2>1. q + 1 \in 1 .. n  BY <1>1
    <2>2. s \in Seq(C) /\ Len(s) = v - 1  BY <2>1 DEF Digits
    <2> HIDE DEF s
    <2>3. s[j] \in C  BY <2>2, ElementIn
    <2> QED  BY <2>3 DEF s
  <1>5. \A k \in 1 .. N : t[k] \in C
    <2> SUFFICES ASSUME NEW k \in 1 .. N PROVE t[k] \in C  OBVIOUS
    <2> DEFINE q == k \div v
               j == k % v
    <2>1. /\ k = v * q + j /\ q \in 0 .. n - 1 /\ j \in 0 .. v - 1
      BY <1>1, Place
    <2>2. t[k] = IF j = 0 THEN " " ELSE d[q + 1][j]  OBVIOUS
    <2> HIDE DEF q, j, t, N
    <2>3. j # 0 => j \in 1 .. v - 1  BY <2>1
    <2> QED  BY <1>2, <1>4, <2>1, <2>2, <2>3
  <1>6. t \in Seq(C) /\ Len(t) = N
    <2>1. t \in [1 .. N -> C]  BY <1>5
    <2> HIDE DEF t, N
    <2> QED  BY <1>3, <2>1, FunctionIsSeq
  <1>7. ASSUME NEW q \in 0 .. n - 1, NEW j \in 1 .. v - 1
        PROVE  t[v * q + j] = d[q + 1][j]
    <2> DEFINE k == v * q + j
    <2>1. j \in 0 .. v - 1 /\ j # 0  OBVIOUS
    <2>2. 1 <= k
      <3>1. CASE v = 3  BY <3>1
      <3>2. CASE v = 9  BY <3>2
      <3> QED  BY <3>1, <3>2
    <2>3. k = v * q + j  OBVIOUS
    <2> HIDE DEF k
    <2>4. k \div v = q /\ k % v = j /\ k \in 1 .. N  BY <1>1, <2>1, <2>2, <2>3, PlaceIs
    <2>5. t[k] = d[q + 1][j]  BY <2>1, <2>4
    <2> QED  BY <2>5 DEF k
  <1>8. ASSUME NEW q \in 1 .. n - 1
        PROVE  t[v * q] = " "
    <2> DEFINE k == v * q
               o == 0
    <2>1. q \in 0 .. n - 1 /\ o \in 0 .. v - 1 /\ o = 0  BY <1>1
    <2>2. 1 <= k /\ k = v * q + o
      <3>1. CASE v = 3  BY <3>1
      <3>2. CASE v = 9  BY <3>2
      <3> QED  BY <3>1, <3>2
    <2> HIDE DEF k, o
    <2>3. k % v = o /\ k \in 1 .. N  BY <1>1, <2>1, <2>2, PlaceIs
    <2>4. t[k] = " "  BY <2>1, <2>3
    <2> QED  BY <2>4 DEF k
  <1> HIDE DEF t
  <1>9. Text(t, d, v, n, C)  BY <1>6, <1>7, <1>8 DEF Text
  <1> QED  BY <1>9

(* y stands in t behind the a-th element. *)
Stands(t, a, y) == \A k \in 1 .. Len(y) : t[a + k] = y[k]

(* Two parts, one behind the other, make the piece. *)
LEMMA PieceIs ==
  ASSUME NEW C, NEW t \in Seq(C), NEW a \in 0 .. Len(t), NEW b \in 0 .. Len(t), a <= b,
         NEW y \in Seq(C), NEW z \in Seq(C), NEW m, m = Len(y), NEW c, c = a + m, b = c + Len(z),
         Stands(t, a, y), Stands(t, c, z)
  PROVE  Piece(t, a, b, y, z)
  <1>1. a \in Nat /\ b \in Nat /\ m \in Nat /\ c \in Nat /\ Len(z) \in Nat  OBVIOUS
  <1> DEFINE w == SubSeq(t, a + 1, b)
             u == y \o z
             l == Len(z)
  <1>2. w \in Seq(C) /\ Len(w) = b - a /\ \A k \in 1 .. b - a : w[k] = t[a + k]
    <2>1. w = SubSeq(t, a + 1, b)  OBVIOUS
    <2> HIDE DEF w
    <2> QED  BY <2>1, PartIs
  <1> HIDE DEF w
  <1>3. u \in Seq(C) /\ Len(u) = m + l
        /\ \A k \in 1 .. m + l : u[k] = IF k <= m THEN y[k] ELSE z[k - m]
    BY ConcatProperties
  <1> HIDE DEF u, l
  <1>4. b - a = m + l  BY <1>1 DEF l
  <1>5. \A k \in 1 .. b - a : u[k] = w[k]
    <2> SUFFICES ASSUME NEW k \in 1 .. b - a PROVE u[k] = w[k]  OBVIOUS
    <2>1. w[k] = t[a + k]  BY <1>2
    <2>2. k \in 1 .. m + l  BY <1>4
    <2>3. u[k] = IF k <= m THEN y[k] ELSE z[k - m]  BY <1>3, <2>2
    <2>4. CASE k <= m
      <3>1. k \in 1 .. m  BY <1>1, <2>4
      <3>2. t[a + k] = y[k]  BY <3>1 DEF Stands
      <3> QED  BY <2>1, <2>3, <2>4, <3>2
    <2>5. CASE ~ (k <= m)
      <3>1. k - m \in 1 .. l /\ c + (k - m) = a + k  BY <1>1, <2>2, <2>5 DEF l
      <3>2. t[c + (k - m)] = z[k - m]  BY <3>1 DEF Stands, l
      <3> QED  BY <2>1, <2>3, <2>5, <3>1, <3>2
    <2> QED  BY <2>4, <2>5
  <1>6. u = w
    <2>1. Len(u) = b - a /\ Len(w) = b - a  BY <1>2, <1>3, <1>4
    <2>2. u \in Seq(C) /\ w \in Seq(C)  BY <1>2, <1>3
    <2> QED  BY <1>5, <2>1, <2>2, SeqEqual
  <1> QED  BY <1>6 DEF Piece, u, w

(* Where the piece of byte i begins and ends. *)
EndOf(v, n, i) == IF i = n THEN v * n - 1 ELSE v * i

(* The piece goes from a to b: the digits, and a blank if another byte comes. *)
Borders(v, n, i, a, b, m, N) ==
  /\ a \in 0 .. N /\ b \in 0 .. N /\ a <= b /\ a = v * (i - 1) /\ a <= v * (n - 1)
  /\ i = n => b = a + m
  /\ i < n => b = a + m + 1 /\ b = v * i

(* So it does. *)
LEMMA EndIs ==
  ASSUME NEW v \in {3, 9}, NEW n \in Nat \ {0}, NEW i \in 1 .. n,
         NEW a, a = EndOf(v, n, i - 1), NEW b, b = EndOf(v, n, i), NEW m, m = v - 1, NEW N, N = v * n - 1
  PROVE  Borders(v, n, i, a, b, m, N)
  <1>1. i - 1 # n  OBVIOUS
  <1>2. a = v * (i - 1)  BY <1>1 DEF EndOf
  <1>3. CASE v = 3  BY <1>2, <1>3 DEF EndOf, Borders
  <1>4. CASE v = 9  BY <1>2, <1>4 DEF EndOf, Borders
  <1> QED  BY <1>3, <1>4

(* A sequence of one stands where its element does, *)
LEMMA OneStands ==
  ASSUME NEW t, NEW c \in Nat, NEW s, t[c + 1] = s
  PROVE  Stands(t, c, <<s>>) /\ Len(<<s>>) = 1
  BY DEF Stands

(* and one of none stands anywhere. *)
LEMMA NoneStands ==
  ASSUME NEW t, NEW c
  PROVE  Stands(t, c, <<>>) /\ Len(<<>>) = 0
  BY DEF Stands

(* Behind the digits of byte i comes a blank, if another byte does. *)
BlankNext(t, c, i, n) == i < n => t[c + 1] = " "

(* The gap stands behind the digits. *)
LEMMA GapStands ==
  ASSUME NEW n \in Nat, NEW i \in 1 .. n, NEW t, NEW c \in Nat, BlankNext(t, c, i, n)
  PROVE  /\ Stands(t, c, Gap(i, n))
         /\ i = n => Len(Gap(i, n)) = 0
         /\ i < n => Len(Gap(i, n)) = 1
  <1>1. CASE i < n
    <2> DEFINE s == " "
    <2>1. t[c + 1] = s /\ Gap(i, n) = <<s>>  BY <1>1 DEF BlankNext, Gap
    <2> HIDE DEF s
    <2>2. Stands(t, c, <<s>>) /\ Len(<<s>>) = 1  BY <2>1, OneStands
    <2>3. i # n  BY <1>1
    <2> QED  BY <1>1, <2>1, <2>2, <2>3
  <1>2. CASE ~ (i < n)
    <2>1. Gap(i, n) = <<>>  BY <1>2 DEF Gap
    <2>2. Stands(t, c, <<>>) /\ Len(<<>>) = 0  BY NoneStands
    <2> QED  BY <1>2, <2>1, <2>2
  <1> QED  BY <1>1, <1>2

(* The loop makes that text. *)
LEMMA TextLaid ==
  ASSUME NEW C, NEW v \in {3, 9}, NEW n, NEW d, Digits(d, v, n, C), NEW t, Text(t, d, v, n, C),
         NEW length \in Int, v * (n - 1) <= length,
         NEW e, e = [i \in 0 .. n |-> EndOf(v, n, i)]
  PROVE  Laid(t, d, e, n, length, C)
  <1>1. n \in Nat \ {0}  BY DEF Digits
  <1>2. " " \in C /\ Len(d) = n  BY DEF Digits
  <1>3. t \in Seq(C) /\ Len(t) = v * n - 1  BY DEF Text
  <1>4. e[0] = 0 /\ e[n] = Len(t)
    <2>1. 0 \in 0 .. n /\ n \in 0 .. n /\ 0 # n  BY <1>1
    <2>2. v * 0 = 0
      <3>1. CASE v = 3  BY <3>1
      <3>2. CASE v = 9  BY <3>2
      <3> QED  BY <3>1, <3>2
    <2> QED  BY <1>3, <2>1, <2>2 DEF EndOf
  <1>5. ASSUME NEW i \in 1 .. n
        PROVE  /\ e[i - 1] \in 0 .. Len(t) /\ e[i] \in 0 .. Len(t)
               /\ e[i - 1] <= e[i] /\ e[i - 1] <= length
               /\ d[i] \in Seq(C) /\ Piece(t, e[i - 1], e[i], d[i], Gap(i, n))
    <2> DEFINE a == e[i - 1]
               b == e[i]
               m == v - 1
               c == a + m
               N == v * n - 1
               y == d[i]
               z == Gap(i, n)
    <2>1. i \in 0 .. n /\ i - 1 \in 0 .. n /\ i - 1 \in 0 .. n - 1 /\ (i - 1) + 1 = i
      BY <1>1
    <2>2. a = EndOf(v, n, i - 1) /\ b = EndOf(v, n, i)  BY <2>1
    <2> HIDE DEF a, b
    <2>3. /\ a \in 0 .. N /\ b \in 0 .. N /\ a <= b /\ a = v * (i - 1) /\ a <= v * (n - 1)
          /\ i = n => b = a + m
          /\ i < n => b = a + m + 1 /\ b = v * i
      <3>1. m = v - 1 /\ N = v * n - 1  OBVIOUS
      <3> HIDE DEF m, N
      <3>2. Borders(v, n, i, a, b, m, N)  BY <1>1, <2>2, <3>1, EndIs
      <3> QED  BY <3>2 DEF Borders
    <2>4. m \in Nat /\ c \in Nat /\ v * (n - 1) \in Int
      <3>1. CASE v = 3  BY <1>1, <2>3, <3>1
      <3>2. CASE v = 9  BY <1>1, <2>3, <3>2
      <3> QED  BY <3>1, <3>2
    <2>5. a <= length
      <3> DEFINE x == v * (n - 1)
      <3>1. x \in Int /\ a \in Int /\ a <= x /\ x <= length  BY <2>3, <2>4
      <3> HIDE DEF x
      <3> QED  BY <3>1
    <2>6. y \in Seq(C) /\ Len(y) = m  BY DEF Digits
    <2>7. Stands(t, a, y)
      <3> DEFINE q == i - 1
      <3>1. \A j \in 1 .. m : t[v * q + j] = d[q + 1][j]  BY <2>1 DEF Text
      <3>2. a = v * q /\ q + 1 = i  BY <2>1, <2>3
      <3> HIDE DEF q
      <3>3. \A j \in 1 .. m : t[a + j] = y[j]  BY <3>1, <3>2
      <3> HIDE DEF y, m
      <3> QED  BY <2>6, <3>3 DEF Stands
    <2>8. BlankNext(t, c, i, n)
      <3> SUFFICES ASSUME i < n PROVE t[c + 1] = " "  BY DEF BlankNext
      <3>1. i \in 1 .. n - 1  BY <1>1
      <3>2. t[v * i] = " "  BY <3>1 DEF Text
      <3>3. c + 1 = v * i  BY <2>3
      <3> QED  BY <3>2, <3>3
    <2>9. /\ z \in Seq(C) /\ Stands(t, c, z)
          /\ i = n => Len(z) = 0
          /\ i < n => Len(z) = 1
      <3>1. n \in Nat  BY <1>1
      <3> HIDE DEF c
      <3>2. z \in Seq(C)  BY <1>2, GapIs
      <3>3. /\ Stands(t, c, z)
            /\ i = n => Len(z) = 0
            /\ i < n => Len(z) = 1
        BY <2>4, <2>8, <3>1, GapStands
      <3> QED  BY <3>2, <3>3
    <2>10. b = c + Len(z)
      <3>1. i = n \/ i < n  BY <1>1
      <3>2. a \in Int /\ m \in Int  BY <2>3, <2>4
      <3>3. CASE i = n
        <4>1. b = a + m /\ Len(z) = 0  BY <2>3, <2>9, <3>3
        <4> HIDE DEF m, z
        <4> QED  BY <3>2, <4>1
      <3>4. CASE i < n
        <4>1. b = a + m + 1 /\ Len(z) = 1  BY <2>3, <2>9, <3>4
        <4> HIDE DEF m, z
        <4> QED  BY <3>2, <4>1
      <3> QED  BY <3>1, <3>3, <3>4
    <2>11. Piece(t, a, b, y, z)
      <3>1. a \in 0 .. Len(t) /\ b \in 0 .. Len(t) /\ a <= b  BY <1>3, <2>3
      <3>2. m = Len(y) /\ c = a + m  BY <2>6
      <3> HIDE DEF c, m, y, z
      <3> QED  BY <1>3, <2>6, <2>7, <2>9, <2>10, <3>1, <3>2, PieceIs
    <2>12. a \in 0 .. Len(t) /\ b \in 0 .. Len(t)  BY <1>3, <2>3
    <2> QED  BY <2>3, <2>5, <2>6, <2>11, <2>12 DEF a, b
  <1> QED  BY <1>2, <1>3, <1>4, <1>5 DEF Laid

(* The elements of t up to the k-th that are digits. *)
Counts(v, n, k, q, j, a, b, M) ==
  /\ k = v * q + j /\ q \in 0 .. n - 1 /\ j \in 0 .. v - 1
  /\ a \in 0 .. M /\ b \in 0 .. M
  /\ j = 0 => q \in 1 .. n - 1 /\ b = a
  /\ j # 0 => b = a + 1 /\ b = (v - 1) * q + j

(* That is what the difference of place and quotient counts. *)
LEMMA CountIs ==
  ASSUME NEW v \in {3, 9}, NEW n \in Nat \ {0}, NEW k \in 1 .. v * n - 1,
         NEW q, q = k \div v, NEW j, j = k % v,
         NEW a, a = (k - 1) - ((k - 1) \div v), NEW b, b = k - q, NEW M, M = (v - 1) * n
  PROVE  Counts(v, n, k, q, j, a, b, M)
  <1>1. k = v * q + j /\ q \in 0 .. n - 1 /\ j \in 0 .. v - 1 /\ (j = 0 => q \in 1 .. n - 1)
    BY Place
  <1> DEFINE p == IF j = 0 THEN q - 1 ELSE q
             i == IF j = 0 THEN v - 1 ELSE j - 1
             h == k - 1
  <1>2. v \in Nat \ {0} /\ h \in Int /\ p \in Int /\ i \in 0 .. v - 1 /\ h = v * p + i
    <2>1. CASE v = 3  BY <1>1, <2>1
    <2>2. CASE v = 9  BY <1>1, <2>2
    <2> QED  BY <2>1, <2>2
  <1> HIDE DEF p, i, h
  <1>3. h \div v = p  BY <1>2, QuotientIs
  <1>4. a = h - p /\ h = k - 1  BY <1>3 DEF h
  <1>5. CASE v = 3  BY <1>1, <1>2, <1>4, <1>5 DEF Counts, p
  <1>6. CASE v = 9  BY <1>1, <1>2, <1>4, <1>6 DEF Counts, p
  <1> QED  BY <1>5, <1>6

(* Without its blanks the text is the digits. *)
LEMMA TextSpaceless ==
  ASSUME NEW C, NEW v \in {3, 9}, NEW n, NEW d, Digits(d, v, n, C), NEW t, Text(t, d, v, n, C),
         NEW r, Plain(r, d, v, n, C),
         NEW g, g = [k \in 0 .. v * n - 1 |-> k - (k \div v)]
  PROVE  Spaceless(t, r, g, C)
  <1> DEFINE N == v * n - 1
             M == (v - 1) * n
  <1>1. n \in Nat \ {0}  BY DEF Digits
  <1>2. t \in Seq(C) /\ Len(t) = N  BY DEF Text
  <1>3. r \in Seq(C) /\ Len(r) = M  BY DEF Plain
  <1>4. g[0] = 0 /\ g[N] = M
    <2> DEFINE q == n - 1
               j == v - 1
    <2>1. 0 \in 0 .. N /\ 0 \div v = 0 /\ v \in Nat \ {0}
      <3>1. CASE v = 3  BY <1>1, <3>1
      <3>2. CASE v = 9  BY <1>1, <3>2
      <3> QED  BY <3>1, <3>2
    <2>2. /\ N \in Int /\ q \in Int /\ j \in 0 .. v - 1 /\ N = v * q + j /\ N - q = M
          /\ N \in 0 .. N
      <3>1. CASE v = 3  BY <1>1, <3>1
      <3>2. CASE v = 9  BY <1>1, <3>2
      <3> QED  BY <3>1, <3>2
    <2>3. g[0] = 0  BY <2>1
    <2>4. g[N] = N - (N \div v)  BY <2>2
    <2> HIDE DEF q, j, N, M
    <2>5. N \div v = q  BY <2>1, <2>2, QuotientIs
    <2> QED  BY <2>2, <2>3, <2>4, <2>5
  <1>5. ASSUME NEW k \in 1 .. N
        PROVE  /\ g[k - 1] \in 0 .. M /\ g[k] \in 0 .. M
               /\ Retained(t, k, r, g[k - 1], g[k])
    <2> DEFINE q == k \div v
               j == k % v
               a == g[k - 1]
               b == g[k]
    <2>1. k \in 0 .. N /\ k - 1 \in 0 .. N
      <3>1. CASE v = 3  BY <1>1, <3>1
      <3>2. CASE v = 9  BY <1>1, <3>2
      <3> QED  BY <3>1, <3>2
    <2>2. a = (k - 1) - ((k - 1) \div v) /\ b = k - q  BY <2>1
    <2>3. Counts(v, n, k, q, j, a, b, M)
      <3>1. q = k \div v /\ j = k % v /\ M = (v - 1) * n /\ N = v * n - 1  OBVIOUS
      <3> HIDE DEF q, j, a, b, M, N
      <3>2. k \in 1 .. v * n - 1  BY <3>1
      <3> QED  BY <1>1, <2>2, <3>1, <3>2, CountIs
    <2> HIDE DEF q, j, a, b
    <2>4. CASE j = 0
      <3>1. q \in 1 .. n - 1 /\ b = a /\ k = v * q  
        <4>1. q \in 1 .. n - 1 /\ b = a /\ k = v * q + 0  BY <2>3, <2>4 DEF Counts
        <4>2. v * q + 0 = v * q
          <5>1. CASE v = 3  BY <1>1, <4>1, <5>1
          <5>2. CASE v = 9  BY <1>1, <4>1, <5>2
          <5> QED  BY <5>1, <5>2
        <4> QED  BY <4>1, <4>2
      <3>2. t[k] = " "  BY <3>1 DEF Text
      <3> QED  BY <2>3, <3>1, <3>2 DEF Retained, Counts, a, b
    <2>5. CASE j # 0
      <3>1. /\ q \in 0 .. n - 1 /\ j \in 1 .. v - 1 /\ k = v * q + j
            /\ b = a + 1 /\ b = (v - 1) * q + j
        BY <2>3, <2>5 DEF Counts
      <3>2. t[v * q + j] = d[q + 1][j]  BY <3>1 DEF Text
      <3>3. r[(v - 1) * q + j] = d[q + 1][j]  BY <3>1 DEF Plain
      <3>4. d[q + 1][j] # " "
        <4>1. q + 1 \in 1 .. n  BY <1>1, <3>1
        <4> QED  BY <3>1, <4>1 DEF Digits
      <3>5. t[k] # " " /\ t[k] = r[b]  BY <3>1, <3>2, <3>3, <3>4
      <3> QED  BY <2>3, <3>1, <3>5 DEF Retained, Counts, a, b
    <2> QED  BY <2>4, <2>5
  <1> HIDE DEF N, M
  <1> QED  BY <1>2, <1>3, <1>4, <1>5 DEF Spaceless

(* The text is not cut short before the last byte. *)
Suffices(length, v, n) == length \in Int /\ v * (n - 1) <= length

(* What is to be printed, and how long the block is. *)
Prints(dump, r, v, n) == Printed(dump) = r /\ Len(dump) = v * n

(* What is printed is the digits, and how long the block is. *)
LEMMA DigitsPrinted ==
  ASSUME NEW C, NEW v \in {3, 9}, NEW n, NEW d, Digits(d, v, n, C),
         NEW r, Plain(r, d, v, n, C), NEW length, Suffices(length, v, n),
         NEW dump, dump = Append(DumpLoop(d, length), NUL)
  PROVE  Prints(dump, r, v, n)
  <1>1. n \in Nat \ {0}  BY DEF Digits
  <1>2. PICK t : Text(t, d, v, n, C)  BY Texts
  <1> DEFINE e == [i \in 0 .. n |-> EndOf(v, n, i)]
             g == [k \in 0 .. v * n - 1 |-> k - (k \div v)]
  <1>3. Laid(t, d, e, n, length, C)
    <2>1. e = [i \in 0 .. n |-> EndOf(v, n, i)]  OBVIOUS
    <2> HIDE DEF e
    <2> QED  BY <1>2, <2>1, TextLaid DEF Suffices
  <1>4. Spaceless(t, r, g, C)
    <2>1. g = [k \in 0 .. v * n - 1 |-> k - (k \div v)]  OBVIOUS
    <2> HIDE DEF g
    <2> QED  BY <1>2, <2>1, TextSpaceless
  <1> HIDE DEF e, g
  <1>5. DumpLoop(d, length) = t
    <2>1. n \in Nat  BY <1>1
    <2>2. length \in Int  BY DEF Suffices
    <2> QED  BY <1>3, <2>1, <2>2, LoopDumps
  <1>6. dump = Append(t, NUL)  BY <1>5
  <1>7. Printed(dump) = r  BY <1>4, <1>6, PrintedIs
  <1>8. Len(dump) = v * n
    <2> DEFINE N == v * n
    <2>1. t \in Seq(C) /\ Len(t) = N - 1  BY <1>2 DEF Text
    <2>2. N \in Int
      <3>1. CASE v = 3  BY <1>1, <3>1
      <3>2. CASE v = 9  BY <1>1, <3>2
      <3> QED  BY <3>1, <3>2
    <2>3. Len(dump) - 1 = Len(t)  BY <1>6, <2>1, TextThenNUL
    <2>4. Len(dump) \in Int
      <3> DEFINE D == C \cup {NUL}
      <3>1. t \in Seq(D) /\ NUL \in D  BY <2>1, SeqWider
      <3> HIDE DEF D
      <3> QED  BY <1>6, <3>1, AppendProperties
    <2> HIDE DEF N
    <2>5. Len(dump) = N  BY <2>1, <2>2, <2>3, <2>4
    <2> QED  BY <2>5 DEF N
  <1> QED  BY <1>7, <1>8 DEF Prints

(* What a dump is made of. *)
Characters == {HexDigit[k] : k \in 1 .. 16} \cup {" "}

(* The hex digits differ, and none is a blank. *)
LEMMA HexDigits ==
  ASSUME NEW k \in 1 .. 16
  PROVE  /\ HexDigit[k] \in Characters /\ HexDigit[k] # " "
         /\ \A j \in 1 .. 16 : HexDigit[j] = HexDigit[k] => j = k
  <1>1. HexDigit[k] \in Characters  BY DEF Characters
  <1>2. HexDigit[k] # " "
    <2> DEFINE space == " "
    <2>1. /\ "0" # " " /\ "1" # " " /\ "2" # " " /\ "3" # " " /\ "4" # " " /\ "5" # " "
          /\ "6" # " " /\ "7" # " " /\ "8" # " " /\ "9" # " " /\ "a" # " " /\ "b" # " "
          /\ "c" # " " /\ "d" # " " /\ "e" # " " /\ "f" # " "
      BY Zenon
    <2>2. /\ "0" # space /\ "1" # space /\ "2" # space /\ "3" # space /\ "4" # space
          /\ "5" # space /\ "6" # space /\ "7" # space /\ "8" # space /\ "9" # space
          /\ "a" # space /\ "b" # space /\ "c" # space /\ "d" # space /\ "e" # space
          /\ "f" # space
      BY <2>1
    <2> HIDE DEF space
    <2>3. HexDigit[k] # space  BY <2>2 DEF HexDigit
    <2> QED  BY <2>3 DEF space
  <1>3. \A j \in 1 .. 16 : HexDigit[j] = HexDigit[k] => j = k  BY DEF HexDigit
  <1> QED  BY <1>1, <1>2, <1>3

(* A hex digit has its value. *)
LEMMA DigitValueIs ==
  ASSUME NEW n \in 0 .. 15
  PROVE  IsHexDigit(HexDigit[n + 1]) /\ DigitValue(HexDigit[n + 1]) = n
  <1> DEFINE c == HexDigit[n + 1]
             k == CHOOSE k \in 1 .. 16 : HexDigit[k] = c
  <1>1. n + 1 \in 1 .. 16  OBVIOUS
  <1>2. IsHexDigit(c)  BY <1>1 DEF IsHexDigit
  <1>3. k \in 1 .. 16 /\ HexDigit[k] = c  BY <1>1
  <1>4. DigitValue(c) = k - 1  BY DEF DigitValue
  <1> HIDE DEF k
  <1>5. k = n + 1  BY <1>1, <1>3, HexDigits
  <1>6. k - 1 = n  BY <1>5
  <1> QED  BY <1>2, <1>4, <1>6

(* The digits of a byte give the byte. *)
LEMMA HexByteIs ==
  ASSUME NEW b \in BYTE, NEW h, h = Hexadecimal(b)
  PROVE  /\ Byte(HexByte(h[1], h[2])) = b
         /\ \E n \in 1 .. 16, m \in 1 .. 16 : h = <<HexDigit[n], HexDigit[m]>>
  <1> DEFINE n == 8 * BitOf(b, 7) + 4 * BitOf(b, 6) + 2 * BitOf(b, 5) + BitOf(b, 4)
             m == 8 * BitOf(b, 3) + 4 * BitOf(b, 2) + 2 * BitOf(b, 1) + BitOf(b, 0)
             x == 16 * n + m
  <1>1. \A k \in 0 .. 7 : BitOf(b, k) \in {0, 1} /\ (k \in b <=> BitOf(b, k) = 1)
    BY DEF BitOf
  <1>2. n \in 0 .. 15 /\ m \in 0 .. 15  BY <1>1
  <1>3. h = <<HexDigit[n + 1], HexDigit[m + 1]>>  BY DEF Hexadecimal
  <1>4. x = 128 * BitOf(b, 7) + 64 * BitOf(b, 6) + 32 * BitOf(b, 5) + 16 * BitOf(b, 4)
            + 8 * BitOf(b, 3) + 4 * BitOf(b, 2) + 2 * BitOf(b, 1) + BitOf(b, 0)
    BY <1>1
  <1>5. /\ x % 2 = BitOf(b, 0)
        /\ (x \div 2) % 2 = BitOf(b, 1)
        /\ (x \div 4) % 2 = BitOf(b, 2)
        /\ (x \div 8) % 2 = BitOf(b, 3)
        /\ (x \div 16) % 2 = BitOf(b, 4)
        /\ (x \div 32) % 2 = BitOf(b, 5)
        /\ (x \div 64) % 2 = BitOf(b, 6)
        /\ (x \div 128) % 2 = BitOf(b, 7)
    <2> DEFINE b0 == BitOf(b, 0)
               b1 == BitOf(b, 1)
               b2 == BitOf(b, 2)
               b3 == BitOf(b, 3)
               b4 == BitOf(b, 4)
               b5 == BitOf(b, 5)
               b6 == BitOf(b, 6)
               b7 == BitOf(b, 7)
    <2>1. /\ b0 \in 0 .. 1 /\ b1 \in 0 .. 1 /\ b2 \in 0 .. 1 /\ b3 \in 0 .. 1
          /\ b4 \in 0 .. 1 /\ b5 \in 0 .. 1 /\ b6 \in 0 .. 1 /\ b7 \in 0 .. 1
      BY <1>1
    <2>2. x = 128 * b7 + 64 * b6 + 32 * b5 + 16 * b4 + 8 * b3 + 4 * b2 + 2 * b1 + b0
      BY <1>4
    <2> HIDE DEF b0, b1, b2, b3, b4, b5, b6, b7, x
    <2>3. x % 2 = b0 /\ (x \div 2) % 2 = b1 /\ (x \div 4) % 2 = b2 /\ (x \div 8) % 2 = b3
      BY <2>1, <2>2
    <2>4. /\ (x \div 16) % 2 = b4 /\ (x \div 32) % 2 = b5
          /\ (x \div 64) % 2 = b6 /\ (x \div 128) % 2 = b7
      BY <2>1, <2>2
    <2> QED  BY <2>3, <2>4 DEF b0, b1, b2, b3, b4, b5, b6, b7
  <1>6. x \in Int  BY <1>2
  <1> HIDE DEF n, m
  <1>7. HexByte(h[1], h[2]) = x
    <2> DEFINE u == HexDigit[n + 1]
               v == HexDigit[m + 1]
    <2>1. h[1] = u /\ h[2] = v  BY <1>3
    <2>2. IsHexDigit(u) /\ DigitValue(u) = n /\ IsHexDigit(v) /\ DigitValue(v) = m
      BY <1>2, DigitValueIs
    <2> HIDE DEF u, v
    <2> QED  BY <2>1, <2>2 DEF HexByte
  <1> HIDE DEF x
  <1>8. Byte(x) \in BYTE /\ \A k \in 0 .. 7 : k \in Byte(x) <=> BitOf(b, k) = 1
    BY <1>5, <1>6, ByteBits
  <1>9. Byte(x) = b  BY <1>1, <1>8, BytesEqual
  <1>10. n + 1 \in 1 .. 16 /\ m + 1 \in 1 .. 16  BY <1>2
  <1> QED  BY <1>3, <1>7, <1>9, <1>10

(* The binary digits of a byte. *)
LEMMA BinaryIs ==
  ASSUME NEW b, NEW s, s = Binary(b)
  PROVE  /\ s \in Seq(Characters) /\ Len(s) = 8
         /\ \A j \in 1 .. 8 : s[j] = HexDigit[BitOf(b, 8 - j) + 1] /\ s[j] # " "
  <1>1. HexDigit[1] = "0" /\ HexDigit[2] = "1"  BY DEF HexDigit
  <1>2. ASSUME NEW j \in 1 .. 8
        PROVE  /\ BitOf(b, 8 - j) + 1 \in 1 .. 16
               /\ (IF 8 - j \in b THEN "1" ELSE "0") = HexDigit[BitOf(b, 8 - j) + 1]
    <2>1. CASE 8 - j \in b
      <3>1. BitOf(b, 8 - j) = 1  BY <2>1 DEF BitOf
      <3> QED  BY <1>1, <2>1, <3>1
    <2>2. CASE 8 - j \notin b
      <3>1. BitOf(b, 8 - j) = 0  BY <2>2 DEF BitOf
      <3> QED  BY <1>1, <2>2, <3>1
    <2> QED  BY <2>1, <2>2
  <1>3. s = [j \in 1 .. 8 |-> HexDigit[BitOf(b, 8 - j) + 1]]  BY <1>2 DEF Binary
  <1>4. \A j \in 1 .. 8 : s[j] = HexDigit[BitOf(b, 8 - j) + 1]  BY <1>3
  <1>5. \A j \in 1 .. 8 : s[j] \in Characters /\ s[j] # " "  BY <1>2, <1>4, HexDigits
  <1>6. s \in [1 .. 8 -> Characters]  BY <1>3, <1>5
  <1>7. s \in Seq(Characters) /\ Len(s) = 8
    <2>1. 8 \in Nat  OBVIOUS
    <2> QED  BY <1>6, <2>1, FunctionIsSeq
  <1> QED  BY <1>4, <1>5, <1>7

(* The hex digits of a byte, and the byte that is read from them. *)
LEMMA HexadecimalIs ==
  ASSUME NEW b \in BYTE, NEW s, s = Hexadecimal(b)
  PROVE  /\ s \in Seq(Characters) /\ Len(s) = 2
         /\ \A j \in 1 .. 2 : s[j] # " "
         /\ Byte(HexByte(s[1], s[2])) = b
  <1>1. Byte(HexByte(s[1], s[2])) = b  BY HexByteIs
  <1>2. PICK n \in 1 .. 16, m \in 1 .. 16 : s = <<HexDigit[n], HexDigit[m]>>  BY HexByteIs
  <1> DEFINE u == HexDigit[n]
             v == HexDigit[m]
  <1>3. u \in Characters /\ u # " " /\ v \in Characters /\ v # " "  BY HexDigits
  <1>4. s = <<u, v>>  BY <1>2
  <1> HIDE DEF u, v
  <1>5. s[1] = u /\ s[2] = v /\ Len(s) = 2  BY <1>4
  <1>6. s \in Seq(Characters)
    <2>1. u \in Characters /\ v \in Characters  BY <1>3
    <2> QED  BY <1>4, <2>1
  <1>7. \A j \in 1 .. 2 : s[j] # " "
    <2>1. \A j \in 1 .. 2 : j = 1 \/ j = 2  OBVIOUS
    <2> QED  BY <1>3, <1>5, <2>1
  <1> QED  BY <1>1, <1>5, <1>6, <1>7

(* A packet, as far as its dumps go. *)
LEMMA PacketIs ==
  ASSUME NEW p \in Seq(BYTE), p # <<>>, NEW n, n = Len(p)
  PROVE  n \in Nat \ {0} /\ DOMAIN p = 1 .. n /\ \A i \in 1 .. n : p[i] \in BYTE
  OBVIOUS

(* A blank may stand in a dump. *)
LEMMA SpaceIsCharacter == " " \in Characters
  BY Zenon DEF Characters

(* The length of what is numbered from 1 to n. *)
LEMMA FunctionLen ==
  ASSUME NEW n \in Nat, NEW d, DOMAIN d = 1 .. n
  PROVE  Len(d) = n
  OBVIOUS

(* The binary dump has the bits. *)
LEMMA BinaryDump ==
  ASSUME NEW p \in Seq(BYTE), p # <<>>
  PROVE  Printed(DCC_dump(p)) = [k \in DOMAIN Bits(p) |-> HexDigit[Bits(p)[k] + 1]]
  <1> DEFINE n == Len(p)
             v == 9
             N == 8 * n
             d == BinaryBytes(p)
             c == Bits(p)
             r == [k \in DOMAIN c |-> HexDigit[c[k] + 1]]
             length == DumpLength(p)
             dump == DCC_dump(p)
  <1>1. n \in Nat \ {0} /\ DOMAIN p = 1 .. n /\ \A i \in 1 .. n : p[i] \in BYTE  BY PacketIs
  <1>2. /\ Suffices(length, v, n) /\ v \in {3, 9} /\ v - 1 = 8
        /\ (v - 1) * n = N /\ N \in Nat
    BY <1>1 DEF DumpLength, Suffices
  <1>3. dump = Append(DumpLoop(d, length), NUL)  BY DEF DCC_dump
  <1>4. DOMAIN d = 1 .. n /\ \A i \in 1 .. n : d[i] = Binary(p[i])  BY <1>1 DEF BinaryBytes
  <1>5. c = [k \in 1 .. N |-> BitOf(p[(k - 1) \div 8 + 1], 7 - ((k - 1) % 8))]  BY DEF Bits
  <1> HIDE DEF d, c
  <1>6. /\ DOMAIN c = 1 .. N
        /\ \A k \in 1 .. N : c[k] = BitOf(p[(k - 1) \div 8 + 1], 7 - ((k - 1) % 8))
    BY <1>5
  <1>7. DOMAIN r = 1 .. N /\ \A k \in 1 .. N : r[k] = HexDigit[c[k] + 1]  BY <1>6
  <1> HIDE DEF n, N, v, length, dump
  <1>8. Digits(d, v, n, Characters)
    <2>1. Len(d) = n  BY <1>1, <1>4, FunctionLen
    <2>2. \A i \in 1 .. n : d[i] \in Seq(Characters) /\ Len(d[i]) = v - 1
      <3> SUFFICES ASSUME NEW i \in 1 .. n
                   PROVE  d[i] \in Seq(Characters) /\ Len(d[i]) = v - 1
        OBVIOUS
      <3> DEFINE s == d[i]
      <3>1. s = Binary(p[i])  BY <1>4
      <3> HIDE DEF s
      <3>2. s \in Seq(Characters) /\ Len(s) = 8  BY <3>1, BinaryIs
      <3> QED  BY <1>2, <3>2 DEF s
    <2>3. \A i \in 1 .. n : \A j \in 1 .. v - 1 : d[i][j] # " "
      <3> SUFFICES ASSUME NEW i \in 1 .. n, NEW j \in 1 .. v - 1
                   PROVE  d[i][j] # " "
        OBVIOUS
      <3> DEFINE s == d[i]
      <3>1. s = Binary(p[i])  BY <1>4
      <3> HIDE DEF s
      <3>2. j \in 1 .. 8  BY <1>2
      <3>3. s[j] # " "  BY <3>1, <3>2, BinaryIs
      <3> QED  BY <3>3 DEF s
    <2> QED  BY <1>1, <2>1, <2>2, <2>3, SpaceIsCharacter DEF Digits
  <1>9. \A k \in 1 .. N : r[k] \in Characters
    <2> SUFFICES ASSUME NEW k \in 1 .. N PROVE r[k] \in Characters  OBVIOUS
    <2>1. c[k] \in 0 .. 1  BY <1>6 DEF BitOf
    <2>2. c[k] + 1 \in 1 .. 16  BY <2>1
    <2> QED  BY <1>7, <2>2, HexDigits
  <1>10. r \in Seq(Characters) /\ Len(r) = N
    <2>1. r \in [1 .. N -> Characters]  BY <1>6, <1>9
    <2> HIDE DEF r
    <2> QED  BY <1>2, <2>1, FunctionIsSeq
  <1> HIDE DEF r
  <1>11. ASSUME NEW q \in 0 .. n - 1, NEW j \in 1 .. v - 1
         PROVE  r[(v - 1) * q + j] = d[q + 1][j]
    <2> DEFINE k == 8 * q + j
               x == k - 1
               i == j - 1
               o == 8
               s == d[q + 1]
               b == p[q + 1]
    <2>1. /\ j \in 1 .. 8 /\ q \in Int /\ q + 1 \in 1 .. n /\ (v - 1) * q + j = k
          /\ 7 - i = 8 - j
      BY <1>1, <1>2
    <2>2. k \in 1 .. N  BY <1>1, <2>1 DEF N
    <2>3. x = o * q + i /\ o \in Nat \ {0} /\ x \in Int /\ i \in 0 .. o - 1  BY <2>1
    <2> HIDE DEF x, i, o
    <2>4. x \div o = q /\ x % o = i  BY <2>1, <2>3, QuotientIs
    <2>5. x = k - 1 /\ o = 8  BY DEF x, o
    <2>6. s = Binary(b)  BY <1>4, <2>1
    <2> HIDE DEF s, k
    <2>7. s[j] = HexDigit[BitOf(b, 8 - j) + 1]  BY <2>1, <2>6, BinaryIs
    <2>8. c[k] = BitOf(b, 8 - j)
      <3>1. c[k] = BitOf(p[(k - 1) \div 8 + 1], 7 - ((k - 1) % 8))  BY <1>6, <2>2
      <3>2. (k - 1) \div 8 = q /\ (k - 1) % 8 = i  BY <2>4, <2>5
      <3> QED  BY <2>1, <3>1, <3>2
    <2>9. r[k] = HexDigit[c[k] + 1]  BY <1>7, <2>2
    <2>10. r[k] = s[j]  BY <2>7, <2>8, <2>9
    <2> QED  BY <2>1, <2>10 DEF s
  <1>12. Plain(r, d, v, n, Characters)  BY <1>2, <1>10, <1>11 DEF Plain
  <1>13. Prints(dump, r, v, n)  BY <1>2, <1>3, <1>8, <1>12, DigitsPrinted
  <1> QED  BY <1>13 DEF dump, r, c, Prints

(* The digits of the bytes of p, two by two. *)
Pairs(d, p, n) ==
  /\ n \in Nat \ {0} /\ p \in Seq(BYTE) /\ Len(p) = n /\ DOMAIN d = 1 .. n
  /\ \A i \in 1 .. n : p[i] \in BYTE /\ d[i] = Hexadecimal(p[i])

(* Two digits, and the byte that is read from them. *)
TwoDigits(s, b) ==
  /\ s \in Seq(Characters) /\ Len(s) = 2
  /\ \A j \in 1 .. 2 : s[j] # " "
  /\ Byte(HexByte(s[1], s[2])) = b

(* The digits of one of the bytes. *)
LEMMA PairIs ==
  ASSUME NEW d, NEW p, NEW n, Pairs(d, p, n), NEW i \in 1 .. n
  PROVE  TwoDigits(d[i], p[i])
  <1> DEFINE s == d[i]
             b == p[i]
  <1>1. b \in BYTE /\ s = Hexadecimal(b)  BY DEF Pairs
  <1> HIDE DEF s, b
  <1>2. TwoDigits(s, b)  BY <1>1, HexadecimalIs DEF TwoDigits
  <1> QED  BY <1>2 DEF s, b

(* All the digits, one behind the other. *)
Unbroken(r, d, n) == r = [k \in 1 .. 2 * n |-> d[(k - 1) \div 2 + 1][((k - 1) % 2) + 1]]

(* They are digits of the hex dump, *)
LEMMA PairDigits ==
  ASSUME NEW d, NEW p, NEW n, Pairs(d, p, n), NEW v, v = 3
  PROVE  Digits(d, v, n, Characters)
  <1>1. n \in Nat \ {0} /\ DOMAIN d = 1 .. n  BY DEF Pairs
  <1>2. Len(d) = n  BY <1>1, FunctionLen
  <1>3. v - 1 = 2  OBVIOUS
  <1>4. \A i \in 1 .. n : d[i] \in Seq(Characters) /\ Len(d[i]) = v - 1
    <2> SUFFICES ASSUME NEW i \in 1 .. n
                 PROVE  d[i] \in Seq(Characters) /\ Len(d[i]) = v - 1
      OBVIOUS
    <2>1. TwoDigits(d[i], p[i])  BY PairIs
    <2> QED  BY <1>3, <2>1 DEF TwoDigits
  <1>5. \A i \in 1 .. n : \A j \in 1 .. v - 1 : d[i][j] # " "
    <2> SUFFICES ASSUME NEW i \in 1 .. n, NEW j \in 1 .. v - 1
                 PROVE  d[i][j] # " "
      OBVIOUS
    <2>1. j \in 1 .. 2  BY <1>3
    <2>2. TwoDigits(d[i], p[i])  BY PairIs
    <2> QED  BY <2>1, <2>2 DEF TwoDigits
  <1> QED  BY <1>1, <1>2, <1>4, <1>5, SpaceIsCharacter DEF Digits

(* and stand one behind the other when nothing separates them. *)
LEMMA PairsPlain ==
  ASSUME NEW d, NEW p, NEW n, Pairs(d, p, n), NEW v, v = 3, NEW r, Unbroken(r, d, n)
  PROVE  Plain(r, d, v, n, Characters) /\ Len(r) = 2 * n
  <1>1. n \in Nat \ {0}  BY DEF Pairs
  <1> DEFINE N == 2 * n
             o == 2
  <1>2. N \in Nat /\ v - 1 = 2 /\ (v - 1) * n = N /\ o \in Nat \ {0}  BY <1>1
  <1>3. DOMAIN r = 1 .. N /\ r = [k \in 1 .. N |-> r[k]]  BY DEF Unbroken
  <1>4. \A k \in 1 .. N : r[k] = d[(k - 1) \div 2 + 1][((k - 1) % 2) + 1]  BY DEF Unbroken
  <1>5. ASSUME NEW q \in 0 .. n - 1, NEW j \in 1 .. 2, NEW k, k = 2 * q + j
        PROVE  k \in 1 .. N /\ r[k] = d[q + 1][j]
    <2> DEFINE x == k - 1
               i == j - 1
    <2>1. k \in 1 .. N /\ q \in Int /\ i + 1 = j  BY <1>1, <1>5
    <2>2. x = o * q + i /\ x \in Int /\ i \in 0 .. o - 1  BY <1>5, <2>1
    <2> HIDE DEF x, i, o
    <2>3. x \div o = q /\ x % o = i  BY <1>2, <2>1, <2>2, QuotientIs
    <2>4. (k - 1) \div 2 = q /\ (k - 1) % 2 = i  BY <2>3 DEF x, o
    <2>5. r[k] = d[(k - 1) \div 2 + 1][((k - 1) % 2) + 1]  BY <1>4, <2>1
    <2> QED  BY <2>1, <2>4, <2>5
  <1>6. \A k \in 1 .. N : r[k] \in Characters
    <2> SUFFICES ASSUME NEW k \in 1 .. N PROVE r[k] \in Characters  OBVIOUS
    <2> DEFINE x == k - 1
               q == x \div o
               i == x % o
               j == i + 1
    <2>1. x \in Int  OBVIOUS
    <2>2. x = o * q + i /\ i \in 0 .. o - 1 /\ q \in Int
      <3> HIDE DEF x, o
      <3> QED  BY <1>2, <2>1, Division
    <2> HIDE DEF q, i
    <2>3. q \in 0 .. n - 1 /\ j \in 1 .. 2 /\ k = 2 * q + j /\ q + 1 \in 1 .. n
      BY <1>1, <2>2
    <2> HIDE DEF j
    <2>4. r[k] = d[q + 1][j]  BY <1>5, <2>3
    <2> DEFINE s == d[q + 1]
    <2>5. s = d[q + 1] /\ TwoDigits(s, p[q + 1])  BY <2>3, PairIs
    <2> HIDE DEF s
    <2>6. s \in Seq(Characters) /\ Len(s) = 2  BY <2>5 DEF TwoDigits
    <2>7. s[j] \in Characters  BY <2>3, <2>6, ElementIn
    <2> QED  BY <2>4, <2>5, <2>7
  <1>7. r \in Seq(Characters) /\ Len(r) = N
    <2>1. r \in [1 .. N -> Characters]  BY <1>3, <1>6
    <2> HIDE DEF N
    <2> QED  BY <1>2, <2>1, FunctionIsSeq
  <1>8. \A q \in 0 .. n - 1 : \A j \in 1 .. v - 1 : r[(v - 1) * q + j] = d[q + 1][j]
    <2> SUFFICES ASSUME NEW q \in 0 .. n - 1, NEW j \in 1 .. v - 1
                 PROVE  r[(v - 1) * q + j] = d[q + 1][j]
      OBVIOUS
    <2> DEFINE k == 2 * q + j
    <2>1. j \in 1 .. 2 /\ (v - 1) * q + j = k  BY <1>1, <1>2
    <2>2. k = 2 * q + j  OBVIOUS
    <2> HIDE DEF k
    <2>3. r[k] = d[q + 1][j]  BY <1>5, <2>1, <2>2
    <2> QED  BY <2>1, <2>3
  <1> QED  BY <1>2, <1>7, <1>8 DEF Plain

(* The bytes that are read from these digits. *)
LEMMA PairsRead ==
  ASSUME NEW d, NEW p, NEW n, Pairs(d, p, n), NEW v, v = 3,
         NEW r, Plain(r, d, v, n, Characters), Len(r) = 2 * n
  PROVE  BytesOf(HexBytes(r)) = p
  <1>1. n \in Nat \ {0} /\ DOMAIN p = 1 .. n /\ p \in Seq(BYTE)
    <2>1. n \in Nat \ {0} /\ p \in Seq(BYTE) /\ Len(p) = n  BY DEF Pairs
    <2> QED  BY <2>1
  <1> DEFINE h == HexBytes(r)
             c == BytesOf(h)
  <1>2. Len(r) \div 2 = n
    <2>1. (2 * n) \div 2 = n  BY <1>1
    <2> QED  BY <2>1
  <1>3. h = [k \in 1 .. n |-> HexByte(r[2 * k - 1], r[2 * k])]  BY <1>2 DEF HexBytes
  <1> HIDE DEF h
  <1>4. DOMAIN h = 1 .. n /\ \A k \in 1 .. n : h[k] = HexByte(r[2 * k - 1], r[2 * k])
    BY <1>3
  <1>5. c = [k \in 1 .. n |-> Byte(h[k])]  BY <1>4 DEF BytesOf
  <1>6. \A k \in 1 .. n : Byte(h[k]) = p[k]
    <2> SUFFICES ASSUME NEW k \in 1 .. n PROVE Byte(h[k]) = p[k]  OBVIOUS
    <2> DEFINE q == k - 1
               s == d[k]
               u == 1
               w == 2
    <2>1. /\ q \in 0 .. n - 1 /\ q + 1 = k /\ u \in 1 .. v - 1 /\ w \in 1 .. v - 1
          /\ (v - 1) * q + u = 2 * k - 1 /\ (v - 1) * q + w = 2 * k
      BY <1>1
    <2>2. s = d[k] /\ TwoDigits(s, p[k])  BY PairIs
    <2> HIDE DEF q, s, u, w
    <2>3. r[(v - 1) * q + u] = d[q + 1][u] /\ r[(v - 1) * q + w] = d[q + 1][w]
      BY <2>1 DEF Plain
    <2>4. r[2 * k - 1] = s[1] /\ r[2 * k] = s[2]  BY <2>1, <2>2, <2>3 DEF u, w
    <2>5. Byte(HexByte(s[1], s[2])) = p[k]  BY <2>2 DEF TwoDigits
    <2> QED  BY <1>4, <2>4, <2>5
  <1>7. p = [k \in 1 .. n |-> p[k]]  BY <1>1
  <1>8. c = p  BY <1>5, <1>6, <1>7
  <1> QED  BY <1>8 DEF c, h

(* The hex dump is read back as the packet, and fits its block. *)
LEMMA HexadecimalDump ==
  ASSUME NEW p \in Seq(BYTE), p # <<>>
  PROVE  /\ BytesOf(HexBytes(Printed(DCC_hex_dump(p)))) = p
         /\ Len(DCC_hex_dump(p)) <= HexDumpLength(p) + 1
  <1> DEFINE n == Len(p)
             v == 3
             d == HexadecimalBytes(p)
             r == [k \in 1 .. 2 * n |-> d[(k - 1) \div 2 + 1][((k - 1) % 2) + 1]]
             length == HexDumpLength(p)
             dump == DCC_hex_dump(p)
  <1>1. n \in Nat \ {0} /\ DOMAIN p = 1 .. n /\ \A i \in 1 .. n : p[i] \in BYTE  BY PacketIs
  <1>2. Suffices(length, v, n) /\ v \in {3, 9} /\ v = 3 /\ length + 1 = v * n
    BY <1>1 DEF HexDumpLength, Suffices
  <1>3. dump = Append(DumpLoop(d, length), NUL)  BY DEF DCC_hex_dump
  <1>4. Pairs(d, p, n)
    <2>1. DOMAIN d = 1 .. n /\ \A i \in 1 .. n : d[i] = Hexadecimal(p[i])
      BY <1>1 DEF HexadecimalBytes
    <2> HIDE DEF d
    <2> QED  BY <1>1, <2>1 DEF Pairs
  <1>5. Unbroken(r, d, n)  BY DEF Unbroken
  <1> HIDE DEF n, v, d, r, length, dump
  <1>6. Digits(d, v, n, Characters)  BY <1>2, <1>4, PairDigits
  <1>7. Plain(r, d, v, n, Characters) /\ Len(r) = 2 * n  BY <1>2, <1>4, <1>5, PairsPlain
  <1>8. Prints(dump, r, v, n)  BY <1>2, <1>3, <1>6, <1>7, DigitsPrinted
  <1>9. BytesOf(HexBytes(r)) = p  BY <1>2, <1>4, <1>7, PairsRead
  <1>10. Printed(dump) = r /\ Len(dump) = v * n  BY <1>8 DEF Prints
  <1>11. v * n \in Int  BY <1>1, <1>2
  <1>12. Len(dump) <= length + 1  BY <1>2, <1>10, <1>11
  <1> QED  BY <1>9, <1>10, <1>12 DEF dump, length

(* What a command or a raw line made can be dumped and read again. *)
LEMMA InvDumps == ConsoleTypeOK => DumpsRead
  <1> SUFFICES ASSUME ConsoleTypeOK, HasPacket PROVE DumpsRead  BY DEF DumpsRead
  <1> DEFINE p == said.packet
  <1>1. p \in Seq(BYTE) /\ p # <<>>  BY DEF ConsoleTypeOK, HasPacket
  <1> HIDE DEF p
  <1>2. Printed(DCC_dump(p)) = [k \in DOMAIN Bits(p) |-> HexDigit[Bits(p)[k] + 1]]
    BY <1>1, BinaryDump
  <1>3. /\ BytesOf(HexBytes(Printed(DCC_hex_dump(p)))) = p
        /\ Len(DCC_hex_dump(p)) <= HexDumpLength(p) + 1
    BY <1>1, HexadecimalDump
  <1> QED  BY <1>2, <1>3 DEF DumpsRead, p

-----------------------------------------------------------------------------
(* For every set of lines the console keeps its types. *)
THEOREM TypeCorrect == ConsoleSpec => []ConsoleTypeOK
  <1>1. ConsoleInv => ConsoleTypeOK  BY InvTypeOK
  <1> QED  BY <1>1, ConsoleInvariant, PTL

(* For every set of lines: a sentence of the grammar, other than raw, has  *)
(* exactly the effect it says, whatever alternatives DSL_parse tried       *)
(* before its own and whatever they left in the parse state.               *)
THEOREM Obeyed == ConsoleSpec => []SentencesObeyed
  <1>1. ConsoleInv => SentencesObeyed  BY InvObeyed
  <1> QED  BY <1>1, ConsoleInvariant, PTL

(* For every set of lines: no packet is sent whose address and speed the   *)
(* line does not give, or that is not a stop the line asks for.            *)
THEOREM NotInvented == ConsoleSpec => []NothingInvented
  <1>1. ConsoleInv => NothingInvented  BY InvNotInvented
  <1> QED  BY <1>1, ConsoleInvariant, PTL

(* For every set of lines: a packet is lost (dsl.c allocates the next      *)
(* without freeing it) only when the line holds one command more.          *)
THEOREM LossNeedsTwo == ConsoleSpec => []LossNeedsTwoCommands
  <1>1. ConsoleInv => LossNeedsTwoCommands  BY InvLoss
  <1> QED  BY <1>1, ConsoleInvariant, PTL

(* For every set of lines: of the packets of sentences exactly those of a  *)
(* stop to all are recognised as a broadcast stop.                         *)
THEOREM StopsStop == ConsoleSpec => []StopsAreStops
  <1>1. ConsoleInv => StopsAreStops  BY InvStops
  <1> QED  BY <1>1, ConsoleInvariant, PTL

(* For every set of lines: the getters read from the packet of a sentence  *)
(* the direction, address and speed that it gave.                          *)
THEOREM SettersKeep == ConsoleSpec => []ReadsBack
  <1>1. ConsoleInv => ReadsBack  BY InvReadsBack
  <1> QED  BY <1>1, ConsoleInvariant, PTL

(* For every set of lines, and so for every packet that a command or a raw *)
(* line makes, of whatever length: the binary dump shows its bits, the hex *)
(* dump is the hex string the raw command would make it again of, and it   *)
(* fits the block allocated for it.                                        *)
THEOREM DumpsAreRead == ConsoleSpec => []DumpsRead
  <1>1. ConsoleTypeOK => DumpsRead  BY InvDumps
  <1> QED  BY <1>1, TypeCorrect, PTL

=============================================================================
