------------------------------- MODULE Console -------------------------------
(***************************************************************************)
(* The operator's side of the station: lines typed at the terminal, and    *)
(* IO_read of cs/io.c, which reads them through the parser of cs/dsl.c and *)
(* hands packets over.  IO_read looks for a new character before it reads  *)
(* from what it has, so what is left of a line waits until the next line   *)
(* comes in.  What then becomes of a command is Station's subject.         *)
(***************************************************************************)
EXTENDS Dsl, Dump, DccFormat, FiniteSets

CONSTANTS Line,        \* what may be typed, up to the newline
          LaterLine    \* what may be typed while a line is not used up

(* What the scanner may yield: a number, a hex string, a word of the       *)
(* language, or what is none to the parser.                                *)
Vocabulary == {"raw", "forward", "reverse", "stop", "addr", "speed", "all",
               "show", "cache", "clear", "status", "help"}
Scanned == [tok : {"number"}, value : [1 .. 1 -> Int]]
             \cup [tok : {"hex"}, value : Seq(0 .. 255)]
             \cup [tok : Vocabulary \cup {"newline", "blank", "unknown", "stray"},
                   value : {<<>>}]

ASSUME LineAssumption == LaterLine \subseteq Line /\ Line \subseteq Seq(Scanned)

VARIABLES uart,        \* the line that is coming in
          rx,          \* what IO_getc, or the stream's ungetc, still has
          said,        \* what the last IO_read did
          line         \* the input it read from (auxiliary)

consoleVars == <<uart, rx, said, line>>

Nothing == [type |-> "prompt", packet |-> <<>>, cmd |-> <<>>, lost |-> 0]

(* A line may come in at any time; what main does with a packet meanwhile  *)
(* does not show here, so it is enough to let it come when main is idle.   *)
Type(l) == /\ uart = <<>> /\ said = Nothing
           /\ l \in LaterLine \/ rx = <<>>
           /\ uart' = Append(l, newline)
           /\ UNCHANGED <<rx, said, line>>

(* IO_getc reads a whole line when its ring is empty, and only then. *)
Input == IF rx = <<>> THEN uart ELSE rx
Coming == IF rx = <<>> THEN <<>> ELSE uart

(* RXC0 is set, and main has done with the last packet. *)
Reading == uart # <<>> /\ said = Nothing
NothingTyped == Head(Input) \in {newline, blank}

ReadBlank == /\ Reading /\ NothingTyped
             /\ rx' = Tail(Input)
             /\ uart' = Coming
             /\ UNCHANGED <<said, line>>

Outcome(p, type) == [type |-> type, packet |-> p.packet, cmd |-> p.cmd, lost |-> p.lost]

Parses == DSL_parser_start(Input)

ReadCommand == /\ Reading /\ ~ NothingTyped
               /\ \E p \in Parses :
                    /\ p.ok
                    /\ rx' = Unread(p)
                    /\ said' = Outcome(p, p.type)
               /\ uart' = Coming
               /\ line' = Input

(* What IO_flush leaves of a line: the rest of it, from any place on. *)
Cut(l) == {SubSeq(l, k, Len(l)) : k \in 1 .. Len(l) + 1}
            \cup {<<unknown>> \o SubSeq(l, k, Len(l)) : k \in 1 .. Len(l)}

(* A parse error.  IO_flush empties the ring and the receiver, and not the *)
(* character that the stream was given back.                               *)
ReadError == /\ Reading /\ ~ NothingTyped
             /\ \E p \in Parses :
                  /\ ~ p.ok
                  /\ rx' = SubSeq(Unread(p), 1, IF p.curr \in {newline, stray} THEN 0 ELSE 1)
                  /\ said' = Outcome(p, "error")
             /\ uart' \in Cut(Coming)
             /\ line' = Input

IO_read == ReadBlank \/ ReadCommand \/ ReadError

(* main queues a packet, if it was given one, and calls IO_read again. *)
MainGoesOn == /\ said # Nothing
              /\ said' = Nothing /\ line' = <<>>
              /\ UNCHANGED <<uart, rx>>

ConsoleNext == (\E l \in Line : Type(l)) \/ IO_read \/ MainGoesOn

ConsoleInit == uart = <<>> /\ rx = <<>> /\ said = Nothing /\ line = <<>>

ConsoleSpec == ConsoleInit /\ [][ConsoleNext]_consoleVars

-----------------------------------------------------------------------------
(* The grammar of dsl.h; the address and the speed in either order, as     *)
(* dsl.c takes them.                                                       *)
Grammar == {<<"raw", "hex">>, <<"show", "status">>, <<"help">>,
            <<"cache", "clear">>, <<"cache", "show", "number">>,
            <<"forward", "addr", "number", "speed", "number">>,
            <<"forward", "speed", "number", "addr", "number">>,
            <<"reverse", "addr", "number", "speed", "number">>,
            <<"reverse", "speed", "number", "addr", "number">>,
            <<"stop", "addr", "number">>, <<"stop", "all">>, <<"stop">>}

Kinds(l) == [k \in DOMAIN l |-> l[k].tok]

(* The numbers that follow a keyword in a line. *)
Given(t, l) == {l[k + 1].value[1] : k \in {k \in 1 .. Len(l) - 1 :
                                           l[k].tok = t /\ l[k + 1].tok = "number"}}

(* What is left of a number in an unsigned char, and after that in range. *)
AddressOf(n) == n % 128
StepOf(n) == (n % 256) % 29

Moving(direction, s, l) ==
  /\ s.type = "dcc"
  /\ \E a \in Given("addr", l), v \in Given("speed", l) :
       Bits(s.packet) = BaselineFrame(AddressOf(a), SpeedInstruction(direction, StepOf(v)))

StoppingLoco(s, l) ==
  /\ s.type = "dcc"
  /\ \E a \in Given("addr", l) :
       Bits(s.packet) = BaselineFrame(AddressOf(a), SpeedInstruction(0, 0))

StoppingAll(s) == s.type = "dcc" /\ Bits(s.packet) \in {StopFrame, EmergencyStopFrame}

SysCommand(cmd, s) == s.type = "sys" /\ s.cmd = cmd

(* What IO_read did is what the sentence l asks for. *)
Obeys(s, l) ==
  LET t == l[1].tok
  IN  /\ s.lost = 0
      /\ \/ t = "raw" /\ s.type = "raw" /\ s.packet = BytesOf(l[2].value)
         \/ t = "help" /\ SysCommand(<<"help">>, s)
         \/ t = "show" /\ SysCommand(<<"status">>, s)
         \/ t = "cache" /\ SysCommand(<<l[2].tok>> \o l[Len(l)].value, s)
         \/ t = "forward" /\ Moving(1, s, l)
         \/ t = "reverse" /\ Moving(0, s, l)
         \/ t = "stop" /\ Len(l) = 3 /\ StoppingLoco(s, l)
         \/ t = "stop" /\ Len(l) = 2 /\ s.type = "dcc" /\ Bits(s.packet) = EmergencyStopFrame
         \/ t = "stop" /\ Len(l) = 1 /\ s.type = "dcc" /\ Bits(s.packet) = StopFrame

Sentence(l, grammar) == l # <<>> /\ Kinds(Front(l)) \in grammar

-----------------------------------------------------------------------------
(* TYPE: a byte is a byte, and whatever is parsed ends with its line. *)
ConsoleTypeOK ==
  /\ \A l \in {uart, rx} : l = <<>> \/ l = <<blank>> \/ Last(l) = newline
  /\ said.type \in {"prompt", "error", "undef", "dcc", "sys", "raw"}
  /\ said.packet \in Seq(BYTE)
  /\ said.type = "dcc" => Len(said.packet) = 5

(* A line that is a sentence has its meaning, all of it is used up and     *)
(* nothing is allocated in vain.  (raw is the exception: RawObeyed.)       *)
SentencesObeyed ==
  Sentence(line, Grammar \ {<<"raw", "hex">>}) =>
    Obeys(said, Front(line)) /\ rx \in {<<>>, <<newline>>}

(* Whatever was typed, however many alternatives of the grammar failed     *)
(* over it: a packet is a correct frame with the numbers of the line in    *)
(* their places, or a stop for all.                                        *)
NothingInvented ==
  said.type = "dcc" => \/ StoppingAll(said)
                       \/ StoppingLoco(said, line)
                       \/ Moving(0, said, line) \/ Moving(1, said, line)

(* Only a stop for all is taken for one: by then DSL_parser_start has      *)
(* worked on the bytes that DCC_is_broadcast_stop compares, and no speed   *)
(* for address 0 has the code of a stop.                                   *)
StopsAreStops ==
  (Sentence(line, Grammar) /\ said.type = "dcc") =>
    (DCC_is_broadcast_stop(said.packet) <=> Sentence(line, {<<"stop">>, <<"stop", "all">>}))

(* The setters share bytes: what one has set the others have left alone,   *)
(* and the getters find it (the cache files packets by DCC_get_address).   *)
ReadsBack ==
  (Sentence(line, Grammar) /\ said.type = "dcc" /\ line[1].tok # "stop") =>
    /\ DCC_get_address(said.packet) \in {Byte(AddressOf(a)) : a \in Given("addr", line)}
    /\ DCC_get_speed_step(said.packet) \in {StepOf(v) : v \in Given("speed", line)}
    /\ DCC_get_direction(said.packet) = IF line[1].tok = "forward" THEN 1 ELSE 0

(* A parse that loses packets has met a second command on its way, and no  *)
(* rule is tried twice: it loses two at most, one if it fails, as much as  *)
(* Station lets it.                                                        *)
LossNeedsTwoCommands ==
  /\ said.lost > 0 =>
       said.lost < Cardinality({k \in DOMAIN line : line[k].tok \in {"forward", "reverse", "stop"}})
  /\ said.lost <= IF said.type = "error" THEN 1 ELSE 2

(* What cache show prints of a packet is that packet: the binary dump has  *)
(* its bits, and the raw command would make it again of the hex dump.      *)
HasPacket == said.type \in {"dcc", "raw"} /\ said.packet # <<>>
Printed(dump) ==
  LET printed[k \in 0 .. Len(dump) - 1] ==
        IF k = 0 THEN <<>>
        ELSE printed[k - 1] \o (IF dump[k] = " " THEN <<>> ELSE <<dump[k]>>)
  IN  printed[Len(dump) - 1]

DumpsRead ==
  HasPacket =>
    /\ Printed(DCC_dump(said.packet)) = [k \in DOMAIN Bits(said.packet) |->
                                           HexDigit[Bits(said.packet)[k] + 1]]
    /\ BytesOf(HexBytes(Printed(DCC_hex_dump(said.packet)))) = said.packet
    /\ Len(DCC_hex_dump(said.packet)) <= HexDumpLength(said.packet) + 1

(* dcc.c, "Calculate the dump length": the block has room for the dump and *)
(* its NUL.  (Stops are not cached, so cache show does not meet them.)     *)
DumpFits == (HasPacket /\ ~ DCC_is_broadcast_stop(said.packet)) =>
              Len(DCC_dump(said.packet)) <= DumpLength(said.packet) + 1

(* README.md, "raw DCC packet passthrough": a raw command gives its bytes. *)
RawObeyed == Sentence(line, {<<"raw", "hex">>}) => Obeys(said, Front(line))

=============================================================================
