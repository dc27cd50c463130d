-------------------------------- MODULE Signal --------------------------------
(***************************************************************************)
(* The signal generator of cs/signal.c, with the two timers it lives by.   *)
(* Timer1 counts up to OCR1A, toggles the output pin, starts again from    *)
(* zero and asks for its interrupt, which on the rising edge puts the half *)
(* period of the next bit into OCR1A: a bit is a high and a low half of    *)
(* equal length.  Timer0 calls Signal_send once a period, from a handler   *)
(* that keeps the interrupt of Timer1 waiting while it runs.               *)
(***************************************************************************)
EXTENDS Bytes, FiniteSets

CONSTANTS Half1, Half0,    \* SIGNAL_HALF_PERIOD_1 and _0, in units of time
          Wrap,            \* after so long TCNT1 starts again from zero
          Period,          \* from one Timer0 interrupt to the next
          Packet,          \* what may be sent: sequences of bytes
          TimeBefore,      \* how long Timer0's handler may run before it
          TimeAfter        \* calls Signal_send, and after that

ASSUME SignalAssumption ==
  /\ {Half1, Half0, Wrap, Period} \subseteq Nat \ {0}
  /\ Half1 < Half0 /\ Half0 < Wrap
  /\ Packet \subseteq Seq(BYTE) \ {<<>>}
  /\ TimeBefore \subseteq Nat /\ TimeAfter \subseteq Nat
  /\ \A b \in TimeBefore, a \in TimeAfter : b + a < Period

VARIABLES bytes,           \* Signal_state, of bytes the part in use,
          cur_byte,        \* ...
          cur_bit,         \* ... bit by bit
          ocr,             \* the bit whose half period is in OCR1A
          pin,             \* PIND & SIGNAL_OUT
          pending,         \* Timer1's interrupt is asked for
          age, ends,       \* time since the last edge, and until the next one
          clock,           \* time since Timer0's interrupt
          handler, busy,   \* where its handler is, and for how long
          high,            \* how long the high half of this bit was (auxiliary)
          ones, at, clean  \* what the track has shown of bytes (auxiliary)

stateVars == <<bytes, cur_byte, cur_bit>>
timerVars == <<ocr, pin, pending, age, ends>>
timer0Vars == <<clock, handler, busy>>
trackVars == <<high, ones, at, clean>>
signalVars == <<stateVars, timerVars, timer0Vars, trackVars>>

HalfPeriod(b) == IF b = 0 THEN Half0 ELSE Half1

Signal_module_init ==
  /\ bytes = <<>> /\ cur_byte = 0 /\ cur_bit = 0
  /\ ocr = 1 /\ pin = 0 /\ pending = FALSE
  /\ age = 0 /\ ends = HalfPeriod(1)
  /\ clock = 0 /\ handler = "none" /\ busy = 0
  /\ high = Half1 /\ ones = 0 /\ at = 0 /\ clean = TRUE

size == Len(bytes)
CurrentBit == BitOf(bytes[cur_byte + 1], cur_bit)

TCNT1 == age % Wrap

(* The counter compares for equality: below the new value it goes on to    *)
(* it, beyond it the counter has to come round first.                      *)
Signal_generate_bit(b) ==
  /\ ocr' = b
  /\ ends' = age - TCNT1 + HalfPeriod(b)
               + (IF TCNT1 < HalfPeriod(b) THEN 0 ELSE Wrap)
  /\ UNCHANGED <<pin, age>>

-----------------------------------------------------------------------------
(* ISR(TIMER1_COMPA_vect).  It runs at once, or when Timer0's is over. *)
Timer1Due == pending /\ handler = "none"

RisingEdge == /\ Timer1Due
              /\ pin = 1
              /\ pending' = FALSE
              /\ UNCHANGED <<timer0Vars, trackVars, bytes>>

(* The second half of a bit has the length of the first. *)
SecondHalf == /\ Timer1Due
              /\ pin = 0
              /\ pending' = FALSE
              /\ UNCHANGED <<stateVars, ocr, pin, age, ends, timer0Vars, trackVars>>

InByte == cur_byte < size /\ cur_bit > 0
LastBit == cur_byte < size - 1 /\ cur_bit = 0
VeryLastBit == cur_byte = size - 1 /\ cur_bit = 0

NextInByte == /\ RisingEdge
              /\ InByte
              /\ Signal_generate_bit(CurrentBit)
              /\ cur_bit' = cur_bit - 1
              /\ UNCHANGED cur_byte

(* Mutant: the next byte starts with its second bit. *)
NextByteLate == /\ RisingEdge
                /\ LastBit
                /\ Signal_generate_bit(CurrentBit)
                /\ cur_byte' = cur_byte + 1
                /\ cur_bit' = 6

(* Mutant: ... or with one bit too many. *)
NextByteEarly == /\ RisingEdge
                 /\ LastBit
                 /\ Signal_generate_bit(CurrentBit)
                 /\ cur_byte' = cur_byte + 1
                 /\ cur_bit' = 8

NextByte == /\ RisingEdge
            /\ LastBit
            /\ Signal_generate_bit(CurrentBit)
            /\ cur_byte' = cur_byte + 1
            /\ cur_bit' = 7

EndPacket == /\ RisingEdge
             /\ VeryLastBit
             /\ Signal_generate_bit(CurrentBit)
             /\ cur_byte' = cur_byte + 1
             /\ UNCHANGED cur_bit

(* Mutant: zeros while there is nothing to send. *)
IdleZero == /\ RisingEdge
            /\ ~ InByte /\ ~ LastBit /\ ~ VeryLastBit
            /\ Signal_generate_bit(0)
            /\ UNCHANGED <<cur_byte, cur_bit>>

Idle == /\ RisingEdge
        /\ ~ InByte /\ ~ LastBit /\ ~ VeryLastBit
        /\ Signal_generate_bit(1)
        /\ UNCHANGED <<cur_byte, cur_bit>>

Timer1 == SecondHalf \/ NextInByte \/ NextByte \/ EndPacket \/ Idle

-----------------------------------------------------------------------------
(* Timer0's handler: it may begin when Timer1's has nothing to do. *)
Timer0Fires == /\ handler = "none" /\ ~ pending
               /\ clock = Period
               /\ clock' = 0
               /\ handler' = "before"
               /\ busy' \in TimeBefore
               /\ UNCHANGED <<stateVars, timerVars, trackVars>>

(* Mutant: the position in the packet is not reset. *)
SendOn(p) == /\ handler = "before" /\ busy = 0
             /\ bytes' = p
             /\ Signal_generate_bit(BitOf(p[1], 7))
             /\ ones' = 0 /\ at' = 0 /\ clean' = TRUE
             /\ handler' = "after"
             /\ busy' \in TimeAfter
             /\ UNCHANGED <<cur_byte, cur_bit, pending, clock, high>>

(* Mutant: the second bit is skipped. *)
SendSkipping(p) == /\ handler = "before" /\ busy = 0
                   /\ bytes' = p
                   /\ cur_byte' = 0
                   /\ cur_bit' = 5
                   /\ Signal_generate_bit(BitOf(p[1], 7))
                   /\ ones' = 0 /\ at' = 0 /\ clean' = TRUE
                   /\ handler' = "after"
                   /\ busy' \in TimeAfter
                   /\ UNCHANGED <<pending, clock, high>>

Signal_send(p) == /\ handler = "before" /\ busy = 0
                  /\ bytes' = p
                  /\ cur_byte' = 0
                  /\ cur_bit' = 6
                  /\ Signal_generate_bit(BitOf(p[1], 7))
                  /\ ones' = 0 /\ at' = 0 /\ clean' = TRUE
                  /\ handler' = "after"
                  /\ busy' \in TimeAfter
                  /\ UNCHANGED <<pending, clock, high>>

Timer0Returns == /\ handler = "after" /\ busy = 0
                 /\ handler' = "none"
                 /\ UNCHANGED <<stateVars, timerVars, clock, busy, trackVars>>

-----------------------------------------------------------------------------
(* The ones a packet begins with, and the bits behind them.  The track may *)
(* show more ones before a packet and after it, for that is what it shows  *)
(* while there is nothing to send.                                         *)
Preamble(p) == LET Z == {k \in 1 .. 8 * Len(p) : Bits(p)[k] = 0}
               IN  IF Z = {} THEN 8 * Len(p)
                   ELSE (CHOOSE k \in Z : \A j \in Z : k <= j) - 1

Rest(p) == SubSeq(Bits(p), Preamble(p) + 1, 8 * Len(p))

(* A decoder's reading of two halves: a bit if they are equal and of the   *)
(* right length, nothing otherwise.                                        *)
Shown(first, second) == IF first = second /\ first = Half1 THEN 1
                        ELSE IF first = second /\ first = Half0 THEN 0
                        ELSE 2

(* The track has shown a whole bit b of a packet that began with n ones.   *)
Show(b, rest, n) ==
  LET early == at = 0 /\ b = 1
      late == at = Len(rest) /\ b = 1
      next == at < Len(rest) /\ b = rest[at + 1]
  IN  /\ ones' = IF early /\ ones < n THEN ones + 1 ELSE ones
      /\ at' = IF next THEN at + 1 ELSE at
      /\ clean' = (clean /\ (early \/ late \/ next))
      /\ UNCHANGED high

(* Timer1 reaches OCR1A: the pin toggles without any code. *)
Edge == /\ pin' = 1 - pin
        /\ pending' = TRUE
        /\ age' = 0
        /\ ends' = HalfPeriod(ocr)
        /\ UNCHANGED ocr
        /\ \/ pin = 1 /\ high' = ends /\ UNCHANGED <<ones, at, clean>>
           \/ pin = 0 /\ Show(Shown(high, ends), Rest(bytes), Preamble(bytes))

(* Time passes until the next thing happens: an edge, an interrupt of      *)
(* Timer0, the end of a part of its handler.                               *)
Least(S) == CHOOSE d \in S : \A e \in S : d <= e

Elapse ==
  LET d == Least({ends - age, Period - clock}
                   \cup (IF handler = "none" THEN {} ELSE {busy}))
  IN  /\ ~ Timer1Due /\ d > 0
      /\ clock' = clock + d
      /\ busy' = IF handler = "none" THEN busy ELSE busy - d
      /\ \/ d = ends - age /\ Edge
         \/ d < ends - age /\ age' = age + d
              /\ UNCHANGED <<ocr, pin, pending, ends, trackVars>>
      /\ UNCHANGED <<stateVars, handler>>

SignalNext == \/ Timer1
              \/ Timer0Fires
              \/ \E p \in Packet : Signal_send(p)
              \/ Timer0Returns
              \/ Elapse

SignalSpec == Signal_module_init /\ [][SignalNext]_signalVars

-----------------------------------------------------------------------------
(* What the properties below depend on.  Packets begin with a one, and the *)
(* handler and all the bits of a packet fit in a period of Timer0.         *)
Zeros(p, g) == {k \in g + 1 .. 8 * Len(p) : Bits(p)[k] = 0}

(* How long the bits of p after the first g are on the track. *)
BitsTime(p, g) == 2 * (Half1 * (8 * Len(p) - g)
                        + (Half0 - Half1) * Cardinality(Zeros(p, g)))

BeginWithOne == \A p \in Packet : 7 \in p[1]
PacketsFit == \A p \in Packet, b \in TimeBefore, a \in TimeAfter :
                b + a + BitsTime(p, 0) <= Period

-----------------------------------------------------------------------------
(* TYPE: the indices stay inside the packet, the timers inside their turns. *)
SignalTypeOK ==
  /\ bytes \in Packet \cup {<<>>}
  /\ cur_byte \in 0 .. size /\ cur_bit \in 0 .. 7
  /\ ocr \in {0, 1} /\ pin \in {0, 1} /\ pending \in BOOLEAN
  /\ age \in Nat /\ ends \in Nat /\ age < ends
  /\ clock \in 0 .. Period
  /\ handler \in {"none", "before", "after"} /\ busy \in Nat
  /\ high \in Nat /\ ones \in Nat /\ at \in Nat /\ clean \in BOOLEAN

(* signal.h, "modulates each bit in sequence": from one Signal_send to the *)
(* next, nothing but the bits of the packet is on the track, in order and  *)
(* undistorted, with ones before and after: whatever the bit it interrupts *)
(* and however many interrupts of Timer1 the handler of Timer0 holds up.   *)
EachBitInSequence == clean

(* A packet is over before the next one is sent. *)
ShownInTime == handler = "before" => at = Len(Rest(bytes))

(* Of the ones a packet begins with, at most one is lost to the bit that   *)
(* Signal_send interrupts.                                                 *)
PreambleKept == at > 0 => ones >= Preamble(bytes) - 1

(* OCR1A is never set to a value the counter has passed: no half lasts     *)
(* until the counter comes round.                                          *)
NoStretch == ends <= Half0

=============================================================================
