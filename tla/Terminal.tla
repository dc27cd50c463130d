------------------------------ MODULE Terminal ------------------------------
(***************************************************************************)
(* cs/io.c, character by character: the serial line, the receiver with its *)
(* error flags, IO_getc, which fills its ring with a line when it is       *)
(* empty, the character that the parser puts back, IO_flush, and IO_read   *)
(* above them.  Between two of its looks at the receiver a parse touches   *)
(* nothing that changes under it, so it is one step.  When the parser asks *)
(* for more than there is, it has heard all there was: the parse is taken  *)
(* up, from what it has heard, with the line that comes, or ends with it   *)
(* when the receiver reports an error instead.                             *)
(***************************************************************************)
EXTENDS Scanner, Ring

CONSTANTS Text,        \* what is sent: sequences of characters
          RingSize,    \* IO_RINGSIZE
          FifoSize,    \* how many characters the receiver holds
          MaxTyped     \* bound: how long an unfinished line may become

ASSUME TerminalAssumption == /\ RingSize \in Nat \ {0} /\ FifoSize \in Nat \ {0}
                             /\ MaxTyped \in Nat
                             /\ Text \subseteq Seq(STRING) \ {<<>>}

VARIABLES line,        \* what is still to come over the line
          fifo,        \* the receiver: characters, each with its FE0
          overrun,     \* DOR0
          rx,          \* IO_rx_ring
          unget,       \* the character that the stream was given back
          heard,       \* what a parse that has to wait has read
          pc,          \* where main is
          read,        \* what the last parse had before it (auxiliary)
          typed        \* what was put into the ring, but for what was taken out (auxiliary)

uart == <<line, fifo, overrun>>
terminalVars == <<uart, rx, unget, heard, pc, read, typed>>

(* What getchar yields before it must poll; and what the parse has of it,  *)
(* with what it has heard: none of it, when an error has ended the token   *)
(* that the parse was waiting in.                                          *)
Stream == unget \o RingSeq(rx)
Input == heard \o (IF pc = "ended" THEN <<>> ELSE Stream)

RXC0 == fifo # <<>>
Flagged == RXC0 /\ (Head(fifo).FE0 \/ overrun)

IO_module_init == /\ line = <<>>
                  /\ fifo = <<>> /\ overrun = FALSE
                  /\ rx = Ring_create(RingSize, [k \in 0 .. RingSize - 1 |-> "\n"])
                  /\ unget = <<>> /\ heard = <<>>
                  /\ pc = "idle"
                  /\ read = <<>> /\ typed = <<>>

-----------------------------------------------------------------------------
(* Mutant: a terminal that ends its lines with a carriage return.          *)
ReturnsPass(c) == IF c = "\t" THEN " " ELSE c

Translated(c) == IF c = "\t" THEN " " ELSE IF c = "\r" THEN "\n" ELSE c

EndsLine(c) == c = "\n"

(* The other end of the line. *)
Send(t) == /\ line = <<>>
           /\ Last(t) \in {"\n", "\r"} \/ Len(typed) + Len(fifo) + Len(t) <= MaxTyped
           /\ line' = t
           /\ UNCHANGED <<fifo, overrun, rx, unget, heard, pc, read, typed>>

(* A character comes in.  main, when it is looking at the receiver, has    *)
(* seen the last one before the next is complete; when it prints, it has   *)
(* not.                                                                    *)
Arrive(frame) ==
  /\ line # <<>>
  /\ pc \in {"idle", "poll"} => ~ RXC0
  /\ line' = Tail(line)
  /\ IF Len(fifo) < FifoSize
     THEN fifo' = Append(fifo, frame) /\ UNCHANGED overrun
     ELSE overrun' = TRUE /\ UNCHANGED fifo
  /\ UNCHANGED <<rx, unget, heard, pc, read, typed>>

Receive == Arrive([char |-> Head(line), FE0 |-> FALSE])
ReceiveDamaged == Arrive([char |-> "?", FE0 |-> TRUE])

-----------------------------------------------------------------------------
(* IO_read goes on only if RXC0 is set; then getchar takes what is there   *)
(* before it polls.                                                        *)
StartRead == /\ pc = "idle" /\ RXC0
             /\ pc' = IF Stream = <<>> THEN "poll" ELSE "read"
             /\ UNCHANGED <<uart, rx, unget, heard, read, typed>>

(* IO_getc, one turn of its loop. *)
Poll == /\ pc = "poll" /\ RXC0 /\ ~ Flagged
        /\ LET c == Translated(Head(fifo).char)
           IN  /\ rx' = Ring_push(rx, c)
               /\ typed' = Append(typed, c)
               /\ pc' = IF EndsLine(c) THEN "read" ELSE "poll"
        /\ fifo' = Tail(fifo)
        /\ UNCHANGED <<line, overrun, unget, heard, read>>

(* The token that s ends in is a 0 alone. *)
LoneZero(s) == \E b \in {s} \cup {Remaining(scan) : scan \in Range(Scans(s))} :
                 Left(b, Run(b, Blank)) = <<"0">>

(* EOF; UDR0 is not read, so the flag stays.  At the beginning of a parse  *)
(* IO_read does not tell EOF from a character, and getchar is called       *)
(* again; so it is behind a 0 alone, where EOF is no x and the digits go   *)
(* on, as after a second 0.  Elsewhere the token ends, or fails, with what *)
(* was heard, and the characters that came meanwhile stay in the ring.     *)
PollError ==
  /\ pc = "poll" /\ Flagged
  /\ \/ heard = <<>> /\ pc' = "cut" /\ UNCHANGED heard
     \/ LoneZero(heard) /\ pc' = "cut" /\ heard' = Append(heard, "0")
     \/ heard # <<>> /\ ~ LoneZero(heard) /\ pc' = "ended" /\ UNCHANGED heard
  /\ UNCHANGED <<uart, rx, unget, read, typed>>

-----------------------------------------------------------------------------
(* What leaves n elements in the ring. *)
PopTo(n) ==
  LET popped[k \in 0 .. rx.count] == IF k = 0 THEN rx ELSE Ring_pop(popped[k - 1])
  IN  /\ rx' = popped[rx.count - n]
      /\ typed' = Left(typed, rx.count - n)

(* After an EOF nothing is there to look at: what is in the ring is left   *)
(* to the parser.                                                          *)
ReadBlank == /\ pc = "read" /\ heard = <<>> /\ Head(Stream) \in {"\n", " "}
             /\ unget' = <<>>
             /\ PopTo(Len(Stream) - 1)
             /\ read' = Stream
             /\ pc' = "prompt"
             /\ UNCHANGED <<uart, heard>>

Parsing == \/ pc \in {"cut", "ended"}
           \/ pc = "read" /\ (heard = <<>> => Head(Stream) \notin {"\n", " "})

Tokens(scans) == [k \in DOMAIN scans |-> scans[k].token]

(* The parses of a stream, each with the scan that it ended with.          *)
ParsesOf(stream) ==
  LET scans == Scans(stream)
  IN  {[ok |-> p.ok, last |-> scans[Len(scans) - Len(p.rest)]] :
         p \in DSL_parser_start(Tokens(scans))}

Parses == ParsesOf(Input)

(* The parser asks for a character that is not there. *)
Starved(parse) == pc = "read" /\ parse.last.end

WaitForMore == /\ Parsing
               /\ \E parse \in Parses : Starved(parse)
               /\ heard' = Input /\ unget' = <<>>
               /\ PopTo(0)
               /\ pc' = "poll"
               /\ UNCHANGED <<uart, read>>

(* Mutant: a command clears the input, as an error does. *)
NothingLeft(parse) == 0

(* How much a parse leaves in the ring: a parse that has heard something   *)
(* has at least read that.                                                 *)
LeftInRing(parse) == IF pc = "ended" THEN rx.count ELSE Upto(Len(parse.last.rest), rx.count)

ReadCommand == /\ Parsing
               /\ \E parse \in Parses :
                    /\ parse.ok /\ ~ Starved(parse)
                    /\ unget' = parse.last.back
                    /\ PopTo(LeftInRing(parse))
               /\ heard' = <<>>
               /\ read' = Input
               /\ pc' = "obeyed"
               /\ UNCHANGED uart

(* Mutant: the receiver keeps what it has. *)
FlushRingOnly == rx' = Ring_reset(rx) /\ UNCHANGED <<fifo, overrun>>

(* Mutant: the ring keeps what it has. *)
FlushReceiverOnly == UNCHANGED rx /\ fifo' = <<>> /\ overrun' = FALSE

IO_flush == rx' = Ring_reset(rx) /\ fifo' = <<>> /\ overrun' = FALSE

ReadError == /\ Parsing
             /\ \E parse \in Parses : /\ ~ parse.ok /\ ~ Starved(parse)
                                      /\ unget' = parse.last.back
             /\ IO_flush
             /\ heard' = <<>> /\ typed' = <<>>
             /\ read' = Input
             /\ pc' = "refused"
             /\ UNCHANGED line

(* The answer and the prompt are out, and main calls IO_read again. *)
Prompt == /\ pc \in {"prompt", "obeyed", "refused"}
          /\ pc' = "idle" /\ read' = <<>>
          /\ UNCHANGED <<uart, rx, unget, heard, typed>>

IO_read == \/ StartRead \/ Poll \/ PollError \/ ReadBlank
           \/ WaitForMore \/ ReadCommand \/ ReadError \/ Prompt

TerminalNext == (\E t \in Text : Send(t)) \/ Receive \/ ReceiveDamaged \/ IO_read

(* main calls IO_read for ever: weak fairness of IO_read, written out,     *)
(* for every step of IO_read changes one of these two.  And a text that    *)
(* has begun comes to its end.                                             *)
CanGoOn == pc \in {"idle", "poll"} => RXC0
GoesOn == <<pc, rx>>' # <<pc, rx>>
MainRuns == []<>~CanGoOn \/ []<><<GoesOn>>_terminalVars

TerminalSpec == /\ IO_module_init /\ [][TerminalNext]_terminalVars
                /\ MainRuns /\ WF_terminalVars(Receive)

-----------------------------------------------------------------------------
(* TYPE: the control points and the sizes; count may exceed the ring. *)
TerminalTypeOK ==
  /\ pc \in {"idle", "poll", "read", "cut", "ended", "prompt", "obeyed", "refused"}
  /\ Len(fifo) <= FifoSize /\ Len(unget) <= 1
  /\ rx.count \in Nat /\ rx.start \in 0 .. RingSize - 1
  /\ pc = "read" => Stream # <<>>

(* The ring against the text that was put into it: a line that fits comes  *)
(* out as it was typed; of one that is longer the later characters have    *)
(* overwritten the earlier, but what comes out was typed, and never what   *)
(* an earlier line left in a slot.  It is read when its newline has come,  *)
(* or the receiver has reported an error, never while it is being typed.   *)
RingHoldsLine ==
  LET Lasting(i) == Max({j \in DOMAIN typed : (j - i) % RingSize = 0})
  IN  /\ RingSeq(rx) = [i \in DOMAIN typed |-> typed[Lasting(i)]]
      /\ pc = "read" /\ typed # <<>> => Last(typed) = "\n" \/ Flagged

(* An error of the receiver does not make main refuse for ever. *)
FlagsClear == Flagged ~> ~ Flagged

(* A text that comes to a main that is waiting with nothing left over is   *)
(* parsed as it was typed, to its end, unless it came damaged: however     *)
(* many errors there were before.                                          *)
Quiet == pc = "idle" /\ ~ RXC0 /\ Stream = <<>>
IsLine(t) == /\ Len(t) <= RingSize /\ t[1] \notin {" ", "\t", "\r", "\n"}
             /\ \A k \in DOMAIN t : t[k] \in {"\r", "\n"} <=> k = Len(t)
Damaged == \E k \in DOMAIN fifo : fifo[k].FE0
Arrived(t) == [k \in DOMAIN t |-> IF k = Len(t) THEN "\n" ELSE IF t[k] = "\t" THEN " " ELSE t[k]]

TypedIsRead == \A t \in Text : IsLine(t) => (line = t /\ Quiet ~> read = Arrived(t) \/ Damaged)

(* What a line has behind its first command is not lost: when another      *)
(* character comes, and main looks again, it is read, from its beginning,  *)
(* as the next command, whatever else comes and with whatever errors.      *)
RestIsRead ==
  \A t \in Text : \A parse \in ParsesOf(Arrived(t)) :
    parse.ok => (pc = "obeyed" /\ read = Arrived(t) /\ line # <<>>
                   ~> IsPrefix(Remaining(parse.last), read))

(* dsl.c, "Clear the input": after a parse error nothing of it is left. *)
ErrorsClearInput == pc = "refused" => Stream = <<>>

=============================================================================
