--------------------------------- MODULE Dsl ---------------------------------
(***************************************************************************)
(* The parser of cs/dsl.c over tokens.  The state of a parse is a record:  *)
(* the current token and the ones behind it, the result object with the    *)
(* packet or the system command it points to, and how many packets have    *)
(* been lost.  A function of the grammar takes a state to the set of       *)
(* states it may leave, ok being what it returns: what it consumed before  *)
(* it failed stays consumed, and what it allocated stays in the result.    *)
(* The scanner yields 0, which no rule accepts, for a newline, for a word  *)
(* that is unknown and for a stray character; the blanks between tokens    *)
(* are left out.                                                           *)
(***************************************************************************)
EXTENDS Dcc

(* A number carries its value, a hex string its bytes. *)
Word(t) == [tok |-> t, value |-> <<>>]
Number(n) == [tok |-> "number", value |-> <<n>>]
Hex(bytes) == [tok |-> "hex", value |-> bytes]

(* sscanf with "%2hhx": what is no hex digit ends the number. *)
HexByte(a, b) == IF ~ IsHexDigit(a) THEN 0
                 ELSE IF ~ IsHexDigit(b) THEN DigitValue(a)
                 ELSE 16 * DigitValue(a) + DigitValue(b)
HexBytes(d) == [k \in 1 .. Len(d) \div 2 |-> HexByte(d[2 * k - 1], d[2 * k])]

newline == Word("newline")
blank == Word("blank")
unknown == Word("unknown")
stray == Word("stray")

(* DSL_next_token *)
DSL_advance(p) == [p EXCEPT !.curr = Head(p.rest), !.rest = Tail(p.rest)]

Accepted(p) == [p EXCEPT !.ok = TRUE]
Refused(p) == [p EXCEPT !.ok = FALSE]

DSL_accept(t, p) == {IF p.curr.tok = t THEN Accepted(DSL_advance(p)) ELSE Refused(p)}

DSL_accept_no_advance(t, p) == {[p EXCEPT !.ok = (p.curr.tok = t)]}

(* The && and the || of the code. *)
AndThen(S, B(_)) == UNION {IF p.ok THEN B(p) ELSE {p} : p \in S}
OrElse(S, B(_)) == UNION {IF p.ok THEN {p} ELSE B(p) : p \in S}

(* A keyword and a number, which is consumed when it has been used. *)
KeywordAndNumber(t, Use(_, _), p) ==
  AndThen(AndThen(DSL_accept(t, p), LAMBDA q : DSL_accept_no_advance("number", q)),
          LAMBDA q : {DSL_advance([q EXCEPT !.packet = Use(@, q.curr.value[1] % 256)])})

DSL_grammar_addr(p) == KeywordAndNumber("addr", DCC_set_address, p)
DSL_grammar_speed(p) == KeywordAndNumber("speed", DCC_set_speed, p)

(* Overwrites the result's pointer. *)
NewPacket(p, packet) ==
  [p EXCEPT !.type = "dcc", !.packet = packet,
            !.lost = IF p.type = "dcc" THEN @ + 1 ELSE @]

NewCommand(p, cmd, args) == {[p EXCEPT !.type = "sys", !.cmd = <<cmd>> \o args]}

(* The payload of a new result is what malloc left there, and a packet is  *)
(* made only if that is not null.                                          *)
DSL_grammar_raw(p) ==
  AndThen(AndThen(DSL_accept("raw", p), LAMBDA q : DSL_accept_no_advance("hex", q)),
          LAMBDA q : {DSL_advance(q),
                      DSL_advance([q EXCEPT !.type = "raw", !.packet = BytesOf(q.curr.value)])})

DSL_grammar_help(p) ==
  AndThen(DSL_accept("help", p), LAMBDA q : NewCommand(q, "help", <<>>))

DSL_grammar_show(p) ==
  AndThen(AndThen(DSL_accept("show", p), LAMBDA q : DSL_accept_no_advance("status", q)),
          LAMBDA q : NewCommand(q, "status", <<>>))

DSL_grammar_cache(p) ==
  LET Clear(q) == AndThen(DSL_accept_no_advance("clear", q),
                          LAMBDA r : NewCommand(r, "clear", <<>>))
      Show(q) == AndThen(AndThen(DSL_accept("show", q),
                                 LAMBDA r : DSL_accept_no_advance("number", r)),
                         LAMBDA r : NewCommand(r, "show", r.curr.value))
  IN  AndThen(DSL_accept("cache", p), LAMBDA q : OrElse(Clear(q), Show))

(* forward and reverse *)
Move(t, direction, p) ==
  LET Baseline(q) == {NewPacket(q, DCC_baseline_packet_create)}
      AddrSpeed(q) == AndThen(DSL_grammar_addr(q), DSL_grammar_speed)
      SpeedAddr(q) == AndThen(DSL_grammar_speed(q), DSL_grammar_addr)
      Finish(q) == {[q EXCEPT !.packet =
        DCC_set_direction(DCC_set_speed_direction_preamble(DCC_set_preamble(@)), direction)]}
  IN  AndThen(DSL_accept(t, p), LAMBDA q :
        AndThen(OrElse(AndThen(Baseline(q), AddrSpeed), SpeedAddr), Finish))

DSL_grammar_forward(p) == Move("forward", 1, p)

(* Mutant: copied from forward. *)
ReverseIsForward(p) == Move("reverse", 1, p)

DSL_grammar_reverse(p) == Move("reverse", 0, p)

DSL_grammar_stop(p) ==
  LET Baseline(q) == {NewPacket(q, DCC_set_preamble(DCC_baseline_packet_create))}
      Loco(q) == AndThen(DSL_grammar_addr(q), LAMBDA r :
        {[r EXCEPT !.packet = DCC_set_speed(DCC_set_speed_direction_preamble(@), 0)]})
      All(q) == AndThen(DSL_accept("all", q), LAMBDA r :
        {[r EXCEPT !.packet = DCC_special_emergency_stop_packet]})
      Stop(q) == {Accepted([q EXCEPT !.packet = DCC_special_broadcast_stop_packet])}
  IN  AndThen(DSL_accept("stop", p),
              LAMBDA q : OrElse(OrElse(AndThen(Baseline(q), Loco), All), Stop))

DSL_parse(p) ==
  LET Helped(q) == OrElse(DSL_grammar_raw(q), DSL_grammar_help)
      Shown(q) == OrElse(Helped(q), DSL_grammar_show)
      Cached(q) == OrElse(Shown(q), DSL_grammar_cache)
      Moved(q) == OrElse(OrElse(Cached(q), DSL_grammar_forward), DSL_grammar_reverse)
  IN  OrElse(Moved(p), DSL_grammar_stop)

(* Mutant: the result is freed and its packet is not. *)
ResultOnly(p) == [p EXCEPT !.type = "undef", !.packet = <<>>,
                           !.lost = IF p.type = "dcc" THEN @ + 1 ELSE @]

(* The result of a failed parse is destroyed, a packet in it included. *)
Trashed(p) == [p EXCEPT !.type = "undef", !.packet = <<>>]

Finished(p) == IF p.type # "dcc" THEN p
               ELSE [p EXCEPT !.packet = DCC_set_packet_end(DCC_set_checksum(@))]

DSL_parser_start(input) ==
  {IF p.ok THEN Finished(p) ELSE Trashed(p) :
     p \in DSL_parse(DSL_advance([rest |-> input, curr |-> newline, ok |-> FALSE,
                                  type |-> "undef", packet |-> <<>>, cmd |-> <<>>,
                                  lost |-> 0]))}

(* The scanner reads the character after a word and puts it back: the rest *)
(* of the line begins with the blank before the next word.                 *)
Unread(p) == IF p.curr \in {newline, stray} \/ Head(p.rest) = newline THEN p.rest
             ELSE <<blank>> \o p.rest

=============================================================================
