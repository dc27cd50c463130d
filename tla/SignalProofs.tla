----------------------------- MODULE SignalProofs -----------------------------
(***************************************************************************)
(* The signal on the track, for any lengths of the half periods, the       *)
(* period, the packets and the handler: types without any condition; and   *)
(* if packets begin with a one and fit in a period with the handler that   *)
(* sends them, every packet is on the track undistorted, in order and in   *)
(* time.                                                                   *)
(***************************************************************************)
EXTENDS Signal, SequenceTheorems, FiniteSetTheorems, WellFoundedInduction, TLAPS

(* The numbers of the module are positive, and a half of a one is the      *)
(* shorter one.                                                            *)
LEMMA Times ==
  /\ Half1 \in Nat /\ Half0 \in Nat /\ Wrap \in Nat /\ Period \in Nat
  /\ 0 < Half1 /\ Half1 < Half0 /\ Half0 < Wrap /\ 0 < Period
  /\ \A b : HalfPeriod(b) \in {Half1, Half0}
  /\ HalfPeriod(1) = Half1 /\ HalfPeriod(0) = Half0
  BY SignalAssumption DEF HalfPeriod

(* The counter is in its turn, and before the end of the first turn it is  *)
(* the age of the half.                                                    *)
LEMMA CounterTurns ==
  ASSUME age \in Nat
  PROVE  TCNT1 \in 0 .. Wrap - 1 /\ (age < Wrap => TCNT1 = age)
  <1> DEFINE w == Wrap
             x == age
  <1>1. w \in Nat /\ w > 0 /\ x \in Nat  BY Times
  <1> HIDE DEF w, x
  <1>2. x % w \in 0 .. w - 1 /\ (x < w => x % w = x)  BY <1>1
  <1> QED  BY <1>2 DEF TCNT1, w, x

(* The least of two or three numbers. *)
LEMMA LeastOfThree ==
  ASSUME NEW x \in Int, NEW y \in Int, NEW z \in Int, NEW S, S = {x, y, z}
  PROVE  Least(S) \in S /\ \A e \in S : Least(S) <= e
  <1>1. CASE x <= y /\ x <= z
    <2>1. \E d \in S : \A e \in S : d <= e  BY <1>1
    <2> QED  BY <2>1 DEF Least
  <1>2. CASE y <= x /\ y <= z
    <2>1. \E d \in S : \A e \in S : d <= e  BY <1>2
    <2> QED  BY <2>1 DEF Least
  <1>3. CASE z <= x /\ z <= y
    <2>1. \E d \in S : \A e \in S : d <= e  BY <1>3
    <2> QED  BY <2>1 DEF Least
  <1> QED  BY <1>1, <1>2, <1>3

(* Time passes: d units of it, up to the next edge, the next interrupt of  *)
(* Timer0 or the end of a part of its handler.                             *)
Passes(d) ==
  /\ d \in Nat /\ d > 0 /\ age + d <= ends /\ clock + d <= Period
  /\ clock' = clock + d
  /\ handler = "none" => ~ pending /\ busy' = busy
  /\ handler # "none" => d <= busy /\ busy' = busy - d
  /\ UNCHANGED <<stateVars, handler>>
  /\ \/ age + d = ends /\ Edge
     \/ age + d < ends /\ age' = age + d
          /\ UNCHANGED <<ocr, pin, pending, ends, trackVars>>

(* Elapse lets time pass. *)
LEMMA ElapsePasses ==
  ASSUME SignalTypeOK, Elapse
  PROVE  \E d \in Nat : Passes(d)
  <1> DEFINE T == {ends - age, Period - clock}
                    \cup (IF handler = "none" THEN {} ELSE {busy})
             d == Least(T)
             z == IF handler = "none" THEN ends - age ELSE busy
  <1>1. age \in Nat /\ ends \in Nat /\ clock \in Nat /\ busy \in Nat /\ age < ends
    BY Times DEF SignalTypeOK
  <1>2. T = {ends - age, Period - clock, z}  OBVIOUS
  <1>3. ends - age \in Int /\ Period - clock \in Int /\ z \in Int  BY <1>1, Times
  <1>4. d \in T /\ \A e \in T : d <= e
    <2> HIDE DEF T, z
    <2> QED  BY <1>2, <1>3, LeastOfThree
  <1>5. /\ ~ Timer1Due /\ d > 0
        /\ clock' = clock + d
        /\ busy' = IF handler = "none" THEN busy ELSE busy - d
        /\ \/ d = ends - age /\ Edge
           \/ d < ends - age /\ age' = age + d
                /\ UNCHANGED <<ocr, pin, pending, ends, trackVars>>
        /\ UNCHANGED <<stateVars, handler>>
    BY DEF Elapse
  <1>6. d <= ends - age /\ d <= Period - clock /\ (handler # "none" => d <= busy)
    BY <1>4
  <1>7. d \in Nat  BY <1>2, <1>3, <1>4, <1>5
  <1> HIDE DEF d
  <1>8. handler = "none" => ~ pending  BY <1>5 DEF Timer1Due
  <1>9. age + d <= ends /\ clock + d <= Period /\ (d = ends - age <=> age + d = ends)
        /\ (d < ends - age <=> age + d < ends)
    BY <1>1, <1>6, <1>7, Times
  <1> QED  BY <1>5, <1>6, <1>7, <1>8, <1>9 DEF Passes

(* OCR1A gets a half period, and the half that is on ends after now. *)
LEMMA GenerateTypes ==
  ASSUME age \in Nat, NEW b \in {0, 1}, Signal_generate_bit(b)
  PROVE  ocr' \in {0, 1} /\ ends' \in Nat /\ age' = age /\ pin' = pin /\ age' < ends'
  <1>1. TCNT1 \in 0 .. Wrap - 1  BY CounterTurns
  <1>2. TCNT1 <= age
    <2>1. CASE age < Wrap  BY <2>1, CounterTurns
    <2>2. CASE age >= Wrap  BY <1>1, <2>2, Times
    <2> QED  BY <2>1, <2>2, Times
  <1>3. HalfPeriod(b) \in Nat /\ 0 < HalfPeriod(b)  BY Times
  <1> DEFINE h == HalfPeriod(b)
             t == TCNT1
  <1>4. ocr' = b /\ age' = age /\ pin' = pin
        /\ ends' = age - t + h + (IF t < h THEN 0 ELSE Wrap)
    BY DEF Signal_generate_bit
  <1> HIDE DEF h, t
  <1>5. t \in Nat /\ t < Wrap /\ t <= age /\ h \in Nat /\ 0 < h /\ Wrap \in Nat
    BY <1>1, <1>2, <1>3, Times DEF h, t
  <1> QED  BY <1>4, <1>5

(* The types at power-up. *)
LEMMA InitTypes == Signal_module_init => SignalTypeOK
  <1>1. HalfPeriod(1) \in Nat /\ 0 < HalfPeriod(1) /\ 0 \in 0 .. Period  BY Times
  <1> SUFFICES ASSUME Signal_module_init PROVE SignalTypeOK
    OBVIOUS
  <1>2. bytes = <<>> /\ cur_byte = 0 /\ size = 0
    BY DEF Signal_module_init, size
  <1>3. bytes \in Packet \cup {<<>>} /\ cur_byte \in 0 .. size
    BY <1>2
  <1>4. age \in Nat /\ ends \in Nat /\ age < ends /\ high \in Nat
    BY <1>1, Times DEF Signal_module_init
  <1>5. /\ cur_bit \in 0 .. 7 /\ ocr \in {0, 1} /\ pin \in {0, 1}
        /\ clock \in 0 .. Period /\ busy \in Nat /\ ones \in Nat /\ at \in Nat
    BY <1>1 DEF Signal_module_init
  <1>6. /\ pending \in BOOLEAN /\ clean \in BOOLEAN
        /\ handler \in {"none", "before", "after"}
    BY DEF Signal_module_init
  <1> QED  BY <1>3, <1>4, <1>5, <1>6 DEF SignalTypeOK

(* Every step keeps the types. *)
LEMMA StepTypes == SignalTypeOK /\ [SignalNext]_signalVars => SignalTypeOK'
  <1> SUFFICES ASSUME SignalTypeOK, [SignalNext]_signalVars PROVE SignalTypeOK'
    OBVIOUS
  <1> USE DEF stateVars, timerVars, timer0Vars, trackVars, size
  <1>1. /\ bytes \in Seq(BYTE) /\ Len(bytes) \in Nat /\ age \in Nat
        /\ CurrentBit \in {0, 1} /\ 1 \in {0, 1}
    <2>1. <<>> \in Seq(BYTE)  OBVIOUS
    <2>2. bytes \in Seq(BYTE)  BY <2>1, SignalAssumption DEF SignalTypeOK
    <2> QED  BY <2>2 DEF SignalTypeOK, CurrentBit, BitOf
  <1>2. CASE SecondHalf  BY <1>2 DEF SecondHalf, SignalTypeOK
  <1>3. CASE NextInByte
    <2>1. /\ cur_bit' = cur_bit - 1 /\ cur_bit > 0 /\ cur_byte' = cur_byte
          /\ bytes' = bytes /\ pending' = FALSE
          /\ UNCHANGED <<timer0Vars, trackVars>> /\ Signal_generate_bit(CurrentBit)
      BY <1>3 DEF NextInByte, RisingEdge, InByte
    <2>2. ocr' \in {0, 1} /\ ends' \in Nat /\ age' = age /\ pin' = pin /\ age' < ends'
      BY <1>1, <2>1, GenerateTypes
    <2>3. cur_bit' \in 0 .. 7 /\ cur_byte' \in 0 .. Len(bytes')
      BY <1>1, <2>1 DEF SignalTypeOK
    <2> QED  BY <2>1, <2>2, <2>3 DEF SignalTypeOK
  <1>4. CASE NextByte
    <2>1. /\ cur_bit' = 7 /\ cur_byte' = cur_byte + 1 /\ cur_byte < Len(bytes) - 1
          /\ bytes' = bytes /\ pending' = FALSE
          /\ UNCHANGED <<timer0Vars, trackVars>> /\ Signal_generate_bit(CurrentBit)
      BY <1>4 DEF NextByte, RisingEdge, LastBit
    <2>2. ocr' \in {0, 1} /\ ends' \in Nat /\ age' = age /\ pin' = pin /\ age' < ends'
      BY <1>1, <2>1, GenerateTypes
    <2>3. cur_bit' \in 0 .. 7 /\ cur_byte' \in 0 .. Len(bytes')
      BY <1>1, <2>1 DEF SignalTypeOK
    <2> QED  BY <2>1, <2>2, <2>3 DEF SignalTypeOK
  <1>5. CASE EndPacket
    <2>1. /\ cur_bit' = cur_bit /\ cur_byte' = cur_byte + 1 /\ cur_byte = Len(bytes) - 1
          /\ bytes' = bytes /\ pending' = FALSE
          /\ UNCHANGED <<timer0Vars, trackVars>> /\ Signal_generate_bit(CurrentBit)
      BY <1>5 DEF EndPacket, RisingEdge, VeryLastBit
    <2>2. ocr' \in {0, 1} /\ ends' \in Nat /\ age' = age /\ pin' = pin /\ age' < ends'
      BY <1>1, <2>1, GenerateTypes
    <2>3. cur_bit' \in 0 .. 7 /\ cur_byte' \in 0 .. Len(bytes')
      BY <1>1, <2>1 DEF SignalTypeOK
    <2> QED  BY <2>1, <2>2, <2>3 DEF SignalTypeOK
  <1>6. CASE Idle
    <2>1. /\ cur_bit' = cur_bit /\ cur_byte' = cur_byte
          /\ bytes' = bytes /\ pending' = FALSE
          /\ UNCHANGED <<timer0Vars, trackVars>> /\ Signal_generate_bit(1)
      BY <1>6 DEF Idle, RisingEdge
    <2>2. ocr' \in {0, 1} /\ ends' \in Nat /\ age' = age /\ pin' = pin /\ age' < ends'
      BY <1>1, <2>1, GenerateTypes
    <2> QED  BY <2>1, <2>2 DEF SignalTypeOK
  <1>7. CASE Timer0Fires
    <2>1. 0 \in 0 .. Period /\ TimeBefore \subseteq Nat  BY Times, SignalAssumption
    <2> QED  BY <1>7, <2>1 DEF Timer0Fires, SignalTypeOK
  <1>8. ASSUME NEW p \in Packet, Signal_send(p)  PROVE SignalTypeOK'
    <2>1. /\ bytes' = p /\ cur_byte' = 0 /\ cur_bit' = 6
          /\ Signal_generate_bit(BitOf(p[1], 7))
          /\ ones' = 0 /\ at' = 0 /\ clean' = TRUE /\ handler' = "after"
          /\ busy' \in TimeAfter /\ UNCHANGED <<pending, clock, high>>
      BY <1>8 DEF Signal_send
    <2>2. BitOf(p[1], 7) \in {0, 1}  BY DEF BitOf
    <2>3. ocr' \in {0, 1} /\ ends' \in Nat /\ age' = age /\ pin' = pin /\ age' < ends'
      BY <1>1, <2>1, <2>2, GenerateTypes
    <2>4. p \in Seq(BYTE) /\ TimeAfter \subseteq Nat  BY SignalAssumption
    <2>5. 0 \in 0 .. Len(p) /\ busy' \in Nat  BY <2>1, <2>4
    <2> QED  BY <2>1, <2>3, <2>5 DEF SignalTypeOK
  <1>9. CASE Timer0Returns  BY <1>9 DEF Timer0Returns, SignalTypeOK
  <1>10. CASE Elapse
    <2> PICK d \in Nat : Passes(d)  BY <1>10, ElapsePasses
    <2>1. busy' \in Nat /\ clock' \in 0 .. Period /\ UNCHANGED <<stateVars, handler>>
      BY Times DEF Passes, SignalTypeOK
    <2>2. CASE Edge
      <3>1. /\ pin' \in {0, 1} /\ pending' = TRUE /\ age' = 0 /\ ocr' = ocr
            /\ ends' = HalfPeriod(ocr)
        BY <2>2 DEF Edge, SignalTypeOK
      <3>2. high' \in Nat /\ ones' \in Nat /\ at' \in Nat /\ clean' \in BOOLEAN
        <4>1. CASE pin = 1  BY <2>2, <4>1 DEF Edge, SignalTypeOK
        <4>2. CASE pin = 0
          <5>1. Show(Shown(high, ends), Rest(bytes), Preamble(bytes))
            BY <2>2, <4>2 DEF Edge
          <5> QED  BY <5>1 DEF Show, SignalTypeOK
        <4> QED  BY <4>1, <4>2 DEF SignalTypeOK
      <3>3. ends' \in Nat /\ age' < ends'  BY <3>1, Times
      <3> QED  BY <2>1, <3>1, <3>2, <3>3 DEF SignalTypeOK
    <2>3. CASE age + d < ends /\ age' = age + d
                 /\ UNCHANGED <<ocr, pin, pending, ends, trackVars>>
      <3>1. age' \in Nat /\ age' < ends'  BY <2>3 DEF SignalTypeOK
      <3> QED  BY <2>1, <2>3, <3>1 DEF SignalTypeOK
    <2> QED  BY <2>2, <2>3 DEF Passes
  <1>11. CASE UNCHANGED signalVars  BY <1>11 DEF signalVars, SignalTypeOK
  <1> QED
    BY <1>2, <1>3, <1>4, <1>5, <1>6, <1>7, <1>8, <1>9, <1>10, <1>11
    DEF SignalNext, Timer1

(* The indices stay inside the packet and the timers inside their turns,   *)
(* whatever the packets and however long the handlers of Timer0.           *)
THEOREM SignalTypes == SignalSpec => []SignalTypeOK
  BY InitTypes, StepTypes, PTL DEF SignalSpec

-----------------------------------------------------------------------------
(* A set of natural numbers has a least element. *)
LEMMA LeastOfNaturals ==
  ASSUME NEW S \in SUBSET Nat, S # {}
  PROVE  \E k \in S : \A j \in S : k <= j
  <1> DEFINE R == {pair \in Nat \X Nat : pair[1] < pair[2]}
  <1>1. IsWellFoundedOn(R, Nat)  BY NatLessThanWellFounded DEF OpToRel
  <1>2. \A k, j \in Nat : j < k => <<j, k>> \in R  OBVIOUS
  <1> HIDE DEF R
  <1>3. PICK k \in S : \A j \in S : <<j, k>> \notin R  BY <1>1, WFMin
  <1>4. \A j \in S : ~ (j < k)  BY <1>2, <1>3
  <1> QED  BY <1>3, <1>4

(* Bits, and the ones a packet begins with. *)
LEMMA BitsOfPacket ==
  ASSUME NEW p \in Seq(BYTE), NEW i \in 0 .. Len(p) - 1, NEW k \in 0 .. 7
  PROVE  /\ 8 * i + 8 - k \in 1 .. 8 * Len(p)
         /\ Bits(p)[8 * i + 8 - k] = BitOf(p[i + 1], k)
  <1> DEFINE j == 8 * i + 8 - k
  <1>1. Len(p) \in Nat  OBVIOUS
  <1>2. j \in 1 .. 8 * Len(p)  BY <1>1
  <1>3. j - 1 = 8 * i + (7 - k) /\ 7 - k \in 0 .. 7  OBVIOUS
  <1>4. (j - 1) \div 8 = i /\ (j - 1) % 8 = 7 - k  BY <1>3
  <1>5. 7 - (7 - k) = k  OBVIOUS
  <1> HIDE DEF j
  <1>6. Bits(p)[j] = BitOf(p[(j - 1) \div 8 + 1], 7 - ((j - 1) % 8))
    BY <1>2 DEF Bits
  <1> QED  BY <1>2, <1>4, <1>5, <1>6 DEF j

(* Eight bits a byte, each 0 or 1. *)
LEMMA BitsAreBits ==
  ASSUME NEW p \in Seq(BYTE)
  PROVE  /\ Bits(p) \in Seq({0, 1}) /\ Len(Bits(p)) = 8 * Len(p)
         /\ 8 * Len(p) \in Nat
         /\ \A k \in 1 .. 8 * Len(p) : Bits(p)[k] \in {0, 1}
  <1>1. 8 * Len(p) \in Nat  OBVIOUS
  <1> QED  BY <1>1 DEF Bits, BitOf

(* The preamble is all ones, ends at the first zero, and the rest is the   *)
(* bits behind it.                                                         *)
LEMMA PreambleAndRest ==
  ASSUME NEW p \in Seq(BYTE), NEW N, N = 8 * Len(p)
  PROVE  /\ N \in Nat /\ Preamble(p) \in 0 .. N
         /\ \A k \in 1 .. Preamble(p) : Bits(p)[k] = 1
         /\ Preamble(p) < N => Bits(p)[Preamble(p) + 1] = 0
         /\ Len(Rest(p)) = N - Preamble(p)
         /\ \A k \in 1 .. N - Preamble(p) : Rest(p)[k] = Bits(p)[Preamble(p) + k]
  <1> DEFINE Z == {k \in 1 .. N : Bits(p)[k] = 0}
             z == CHOOSE k \in Z : \A j \in Z : k <= j
  <1>1. N \in Nat /\ Bits(p) \in Seq({0, 1}) /\ Len(Bits(p)) = N
        /\ \A k \in 1 .. N : Bits(p)[k] \in {0, 1}
    BY BitsAreBits
  <1>2. Preamble(p) = IF Z = {} THEN N ELSE z - 1  BY DEF Preamble
  <1>3. CASE Z = {}
    <2>1. Preamble(p) = N  BY <1>2, <1>3
    <2>2. \A k \in 1 .. N : Bits(p)[k] = 1  BY <1>1, <1>3
    <2>3. Rest(p) = <<>>  BY <1>1, <2>1 DEF Rest
    <2> QED  BY <1>1, <2>1, <2>2, <2>3
  <1>4. CASE Z # {}
    <2>1. Z \subseteq Nat  BY <1>1
    <2>2. \E k \in Z : \A j \in Z : k <= j
      <3> HIDE DEF Z
      <3> QED  BY <1>4, <2>1, LeastOfNaturals
    <2>3. z \in Z /\ \A j \in Z : z <= j  BY <2>2
    <2> HIDE DEF z
    <2>4. Preamble(p) = z - 1 /\ z \in 1 .. N /\ Bits(p)[z] = 0  BY <1>2, <1>4, <2>3
    <2>5. \A k \in 1 .. z - 1 : Bits(p)[k] = 1  BY <1>1, <2>3, <2>4
    <2>6. Rest(p) = SubSeq(Bits(p), z, N)  BY <2>4 DEF Rest
    <2>7. /\ Len(Rest(p)) = N - (z - 1)
          /\ \A k \in 1 .. N - (z - 1) : Rest(p)[k] = Bits(p)[z - 1 + k]
      BY <1>1, <2>4, <2>6
    <2> QED  BY <1>1, <2>4, <2>5, <2>7
  <1> QED  BY <1>3, <1>4

(* The bits of a packet behind the first g take the two halves of the next *)
(* one, and the time of the bits behind that.                              *)
LEMMA TimeOfBits ==
  ASSUME NEW p \in Seq(BYTE), NEW N, N = 8 * Len(p), NEW g \in 0 .. N
  PROVE  /\ BitsTime(p, g) \in Nat
         /\ g < N => BitsTime(p, g) = 2 * HalfPeriod(Bits(p)[g + 1]) + BitsTime(p, g + 1)
  <1>1. N \in Nat /\ \A k \in 1 .. N : Bits(p)[k] \in {0, 1}  BY BitsAreBits
  <1>2. \A i \in Nat : IsFiniteSet(Zeros(p, i)) /\ Cardinality(Zeros(p, i)) \in Nat
    <2> SUFFICES ASSUME NEW i \in Nat
                 PROVE  IsFiniteSet(Zeros(p, i)) /\ Cardinality(Zeros(p, i)) \in Nat
      OBVIOUS
    <2>1. IsFiniteSet(i + 1 .. N)  BY <1>1, FS_Interval
    <2>2. Zeros(p, i) \in SUBSET (i + 1 .. N)  BY DEF Zeros
    <2> QED  BY <2>1, <2>2, FS_Subset, FS_CardinalityType
  <1> DEFINE Z(i) == Cardinality(Zeros(p, i))
             D == Half0 - Half1
  <1>3. \A i \in 0 .. N : BitsTime(p, i) = 2 * (Half1 * (N - i) + D * Z(i))
    BY DEF BitsTime
  <1>4. D \in Nat /\ Half1 \in Nat  BY Times
  <1>5. \A i \in 0 .. N : Z(i) \in Nat /\ N - i \in Nat  BY <1>1, <1>2
  <1> HIDE DEF Z, D
  <1>6. \A x, y \in Nat : x * y \in Nat  OBVIOUS
  <1>7. ASSUME NEW i \in 0 .. N  PROVE BitsTime(p, i) \in Nat
    <2>1. Half1 * (N - i) \in Nat /\ D * Z(i) \in Nat  BY <1>4, <1>5, <1>6
    <2>2. BitsTime(p, i) = 2 * (Half1 * (N - i) + D * Z(i))  BY <1>3
    <2> DEFINE a == Half1 * (N - i)
               b == D * Z(i)
    <2> HIDE DEF a, b
    <2> QED  BY <2>1, <2>2 DEF a, b
  <1>8. ASSUME g < N
        PROVE  BitsTime(p, g) = 2 * HalfPeriod(Bits(p)[g + 1]) + BitsTime(p, g + 1)
    <2>1. g + 1 \in 0 .. N /\ g + 1 \in 1 .. N /\ g \in Nat /\ g + 1 \in Nat
      BY <1>1, <1>8
    <2>2. N - g = (N - (g + 1)) + 1  BY <1>1
    <2>3. Half1 * (N - g) = Half1 * (N - (g + 1)) + Half1
      <3> DEFINE m == N - (g + 1)
      <3>1. m \in Int  BY <1>1
      <3> HIDE DEF m
      <3>2. Half1 * (m + 1) = Half1 * m + Half1  BY <1>4, <3>1
      <3> QED  BY <2>2, <3>2 DEF m
    <2>4. CASE Bits(p)[g + 1] = 0
      <3>1. Zeros(p, g) = Zeros(p, g + 1) \cup {g + 1} /\ g + 1 \notin Zeros(p, g + 1)
        BY <1>1, <2>1, <2>4 DEF Zeros
      <3>2. Z(g) = Z(g + 1) + 1  BY <1>2, <2>1, <3>1, FS_AddElement DEF Z
      <3>3. D * Z(g) = D * Z(g + 1) + D
        BY <1>4, <1>5, <2>1, <3>2
      <3>4. HalfPeriod(Bits(p)[g + 1]) = Half1 + D  BY <2>4, Times DEF D
      <3> DEFINE a == Half1 * (N - (g + 1))
                 b == D * Z(g + 1)
      <3>5. a \in Nat /\ b \in Nat  BY <1>4, <1>5, <1>6, <2>1
      <3>6. /\ BitsTime(p, g) = 2 * ((a + Half1) + (b + D))
            /\ BitsTime(p, g + 1) = 2 * (a + b)
        BY <1>3, <2>1, <2>3, <3>3
      <3> HIDE DEF a, b
      <3> QED  BY <1>4, <3>4, <3>5, <3>6
    <2>5. CASE Bits(p)[g + 1] # 0
      <3>1. Zeros(p, g) = Zeros(p, g + 1)
        BY <1>1, <2>1, <2>5 DEF Zeros
      <3>2. Z(g) = Z(g + 1)  BY <3>1 DEF Z
      <3>3. HalfPeriod(Bits(p)[g + 1]) = Half1  BY <2>5 DEF HalfPeriod
      <3> DEFINE a == Half1 * (N - (g + 1))
                 b == D * Z(g + 1)
      <3>4. a \in Nat /\ b \in Nat  BY <1>4, <1>5, <1>6, <2>1
      <3>5. /\ BitsTime(p, g) = 2 * ((a + Half1) + b)
            /\ BitsTime(p, g + 1) = 2 * (a + b)
        BY <1>3, <2>1, <2>3, <3>2
      <3> HIDE DEF a, b
      <3> QED  BY <1>4, <3>3, <3>4, <3>5
    <2> QED  BY <2>4, <2>5
  <1> QED  BY <1>7, <1>8

-----------------------------------------------------------------------------
(* How many bits of the packet Timer1 has been given. *)
Begun == IF cur_byte = size THEN 8 * size ELSE 8 * cur_byte + 7 - cur_bit

(* A bit has ended, and Timer1 has not been told of the next. *)
Between == pin = 1 /\ pending

(* How much n is more than nothing. *)
Over(n) == IF n > 0 THEN n ELSE 0

(* Every half is as long as OCR1A says, and when the next bit is given the *)
(* counter has not passed its value.                                       *)
HalvesOK == /\ ends = HalfPeriod(ocr)
            /\ pin = 0 => high = HalfPeriod(ocr)
            /\ Between => age < Half1

(* Timer0's handler begins when the packet is over, and ends before the    *)
(* second bit of the new one is given.                                     *)
HandlerOK == /\ handler = "before" => at = Len(Rest(bytes)) /\ ocr = 1
             /\ handler = "after" => bytes # <<>> /\ Begun = 1 /\ ocr = 1

(* The track has shown the bits that were given, without the last one if   *)
(* it is still on the track; or it idles.                                  *)
InOrder ==
  /\ clean
  /\ size > 0 => Begun > 0
  /\ Between => at = Over(Begun - Preamble(bytes))
  /\ ~ Between => \/ /\ Begun > 0
                     /\ ocr = Bits(bytes)[Begun]
                     /\ at = Over(Begun - 1 - Preamble(bytes))
                  \/ /\ Begun = 8 * size
                     /\ ocr = 1
                     /\ at = Len(Rest(bytes))

(* The ones shown are those that were given, but for one. *)
OnesOK == \/ ones >= Preamble(bytes) - 1
          \/ ones >= Begun - (IF Between THEN 1 ELSE 2)

(* What is left of the bit on the track; between bits the time it has      *)
(* already been going on is the next one's.                                *)
BitLeft == IF Between THEN 0 - age
           ELSE IF pin = 1 THEN ends - age + HalfPeriod(ocr)
           ELSE ends - age

(* The packet will be over in time. *)
OnSchedule ==
  /\ handler = "before" => clock + busy \in TimeBefore
  /\ handler = "after" => clock + busy + BitsTime(bytes, 0) <= Period
  /\ handler = "none" /\ at < Len(Rest(bytes))
       => clock + BitLeft + BitsTime(bytes, Begun) <= Period

(* The packet that is being sent, seen through its bits: where Timer1 is   *)
(* in it, and what it gives next.                                          *)
LEMMA PacketView ==
  ASSUME SignalTypeOK, NEW N, N = 8 * size, NEW P, P = Preamble(bytes)
  PROVE  /\ size \in Nat /\ N \in Nat /\ P \in 0 .. N /\ Begun \in 0 .. N
         /\ bytes \in Seq(BYTE) /\ N = 8 * Len(bytes)
         /\ \A k \in 1 .. N : Bits(bytes)[k] \in {0, 1}
         /\ \A k \in 1 .. P : Bits(bytes)[k] = 1
         /\ P < N => Bits(bytes)[P + 1] = 0
         /\ Len(Rest(bytes)) = N - P
         /\ \A k \in 1 .. N - P : Rest(bytes)[k] = Bits(bytes)[P + k]
         /\ cur_byte = size => Begun = N
         /\ cur_byte < size => Begun < N /\ Bits(bytes)[Begun + 1] = CurrentBit
         /\ \A g \in 0 .. N : BitsTime(bytes, g) \in Nat
         /\ \A g \in 0 .. N : g < N => BitsTime(bytes, g)
              = 2 * HalfPeriod(Bits(bytes)[g + 1]) + BitsTime(bytes, g + 1)
  <1>1. bytes \in Seq(BYTE) /\ N = 8 * Len(bytes) /\ size = Len(bytes) /\ size \in Nat
    <2>1. <<>> \in Seq(BYTE)  OBVIOUS
    <2>2. bytes \in Seq(BYTE)  BY <2>1, SignalAssumption DEF SignalTypeOK
    <2> QED  BY <2>2 DEF size
  <1>2. cur_byte \in 0 .. size /\ cur_bit \in 0 .. 7  BY DEF SignalTypeOK
  <1>3. /\ N \in Nat /\ P \in 0 .. N
        /\ \A k \in 1 .. P : Bits(bytes)[k] = 1
        /\ P < N => Bits(bytes)[P + 1] = 0
        /\ Len(Rest(bytes)) = N - P
        /\ \A k \in 1 .. N - P : Rest(bytes)[k] = Bits(bytes)[P + k]
    BY <1>1, PreambleAndRest
  <1>4. \A k \in 1 .. N : Bits(bytes)[k] \in {0, 1}  BY <1>1, BitsAreBits
  <1>5. cur_byte = size => Begun = N  BY DEF Begun
  <1>6. ASSUME cur_byte < size
        PROVE  Begun \in 0 .. N /\ Begun < N /\ Bits(bytes)[Begun + 1] = CurrentBit
    <2>1. Begun = 8 * cur_byte + 7 - cur_bit  BY <1>1, <1>2, <1>6 DEF Begun
    <2>2. cur_byte \in 0 .. Len(bytes) - 1  BY <1>1, <1>2, <1>6
    <2>3. Bits(bytes)[8 * cur_byte + 8 - cur_bit] = BitOf(bytes[cur_byte + 1], cur_bit)
      BY <1>1, <1>2, <2>2, BitsOfPacket
    <2>4. Begun + 1 = 8 * cur_byte + 8 - cur_bit /\ Begun \in 0 .. N /\ Begun < N
      BY <1>1, <1>2, <2>1, <2>2
    <2> QED  BY <2>3, <2>4 DEF CurrentBit
  <1>7. Begun \in 0 .. N
    <2>1. cur_byte = size \/ cur_byte < size  BY <1>1, <1>2
    <2> QED  BY <1>3, <1>5, <1>6, <2>1
  <1>8. ASSUME NEW g \in 0 .. N
        PROVE  /\ BitsTime(bytes, g) \in Nat
               /\ g < N => BitsTime(bytes, g)
                    = 2 * HalfPeriod(Bits(bytes)[g + 1]) + BitsTime(bytes, g + 1)
    BY <1>1, TimeOfBits
  <1> QED  BY <1>1, <1>3, <1>4, <1>5, <1>6, <1>7, <1>8

(* While the same packet is sent, its preamble and its rest are the same. *)
LEMMA SamePacket ==
  ASSUME bytes' = bytes
  PROVE  /\ Preamble(bytes)' = Preamble(bytes) /\ Rest(bytes)' = Rest(bytes)
         /\ Bits(bytes)' = Bits(bytes) /\ size' = size
         /\ BitsTime(bytes, Begun)' = BitsTime(bytes, Begun')
         /\ BitsTime(bytes, 0)' = BitsTime(bytes, 0)
  BY DEF Preamble, Rest, Bits, BitOf, size, BitsTime, Zeros

(* A half period given in time ends the half after just that. *)
LEMMA GivenInTime ==
  ASSUME age \in Nat, NEW b \in {0, 1}, age < HalfPeriod(b), Signal_generate_bit(b)
  PROVE  ocr' = b /\ ends' = HalfPeriod(b) /\ age' = age /\ pin' = pin
  <1>1. age < Wrap  BY Times
  <1>2. TCNT1 = age  BY <1>1, CounterTurns
  <1>3. HalfPeriod(b) \in Nat  BY Times
  <1> QED  BY <1>2, <1>3 DEF Signal_generate_bit

(* The first bit of a packet is a one. *)
LEMMA FirstBit ==
  ASSUME BeginWithOne, NEW p \in Packet
  PROVE  Bits(p)[1] = 1
  <1>1. p \in Seq(BYTE) /\ p # <<>> /\ Len(p) \in Nat \ {0}  BY SignalAssumption
  <1>2. 0 \in 0 .. Len(p) - 1 /\ 7 \in 0 .. 7 /\ 8 * 0 + 8 - 7 = 1 /\ 0 + 1 = 1
    BY <1>1
  <1>3. Bits(p)[8 * 0 + 8 - 7] = BitOf(p[0 + 1], 7)  BY <1>1, <1>2, BitsOfPacket
  <1>4. BitOf(p[1], 7) = 1  BY DEF BeginWithOne, BitOf
  <1> QED  BY <1>2, <1>3, <1>4

(* What the signal keeps, apart from the types. *)
Sound == HalvesOK /\ HandlerOK /\ InOrder /\ OnesOK /\ OnSchedule

(* Timer1 gives the next bit of the packet: in order, and in time for it. *)
LEMMA GiveBit ==
  ASSUME SignalTypeOK, Sound, Timer1Due, pin = 1,
         NEW b, b = Bits(bytes)[Begun + 1], Begun < 8 * size,
         Signal_generate_bit(b), Begun' = Begun + 1,
         pending' = FALSE, UNCHANGED <<timer0Vars, trackVars, bytes>>
  PROVE  Sound'
  <1> DEFINE N == 8 * size
             P == Preamble(bytes)
             g == Begun
             R == Len(Rest(bytes))
  <1>1. /\ N \in Nat /\ P \in 0 .. N /\ g \in 0 .. N /\ R = N - P
        /\ \A k \in 1 .. N : Bits(bytes)[k] \in {0, 1}
        /\ BitsTime(bytes, g) = 2 * HalfPeriod(b) + BitsTime(bytes, g + 1)
        /\ BitsTime(bytes, g + 1) \in Nat
    <2>1. /\ N \in Nat /\ P \in 0 .. N /\ g \in 0 .. N /\ R = N - P
          /\ \A k \in 1 .. N : Bits(bytes)[k] \in {0, 1}
          /\ \A i \in 0 .. N : BitsTime(bytes, i) \in Nat
          /\ \A i \in 0 .. N : i < N => BitsTime(bytes, i)
               = 2 * HalfPeriod(Bits(bytes)[i + 1]) + BitsTime(bytes, i + 1)
      BY PacketView
    <2>2. g + 1 \in 0 .. N  BY <2>1
    <2> QED  BY <2>1, <2>2
  <1>2. /\ Between /\ handler = "none" /\ age < Half1 /\ age \in Nat
        /\ at = Over(g - P) /\ clean /\ at \in Nat /\ clock \in Nat
    BY DEF Timer1Due, Sound, HalvesOK, InOrder, Between, SignalTypeOK
  <1>3. b \in {0, 1}
    <2>1. g + 1 \in 1 .. N  BY <1>1
    <2> QED  BY <1>1, <2>1
  <1>4. ocr' = b /\ ends' = HalfPeriod(b) /\ age' = age /\ pin' = pin
    <2>1. age < HalfPeriod(b)  BY <1>2, Times
    <2> QED  BY <1>2, <1>3, <2>1, GivenInTime
  <1>5. /\ ~ Between' /\ pin' = 1 /\ handler' = "none"
        /\ UNCHANGED <<clean, at, ones, high, clock>>
        /\ bytes' = bytes
    BY <1>2, <1>4 DEF Between, timer0Vars, trackVars
  <1>6. /\ Preamble(bytes)' = P /\ Rest(bytes)' = Rest(bytes)
        /\ Bits(bytes)' = Bits(bytes) /\ size' = size
        /\ BitsTime(bytes, Begun)' = BitsTime(bytes, g + 1)
    BY <1>5, SamePacket
  <1>7. HalvesOK' /\ HandlerOK'
    BY <1>4, <1>5 DEF HalvesOK, HandlerOK
  <1>8. InOrder'
    <2>1. Begun' > 0 /\ Begun' - 1 - P = g - P  BY <1>1
    <2> QED  BY <1>2, <1>4, <1>5, <1>6, <2>1 DEF InOrder
  <1>9. OnesOK'
    <2>1. ones >= P - 1 \/ ones >= g - 1  BY <1>2 DEF Sound, OnesOK
    <2>2. g - 1 = (g + 1) - 2  BY <1>1
    <2> QED  BY <1>5, <1>6, <2>1, <2>2 DEF OnesOK
  <1>10. OnSchedule'
    <2>1. ASSUME at < R
          PROVE  clock + (ends' - age + HalfPeriod(b)) + BitsTime(bytes, g + 1) <= Period
      <3>1. clock + (0 - age) + BitsTime(bytes, g) <= Period
        BY <1>2, <2>1 DEF Sound, OnSchedule, BitLeft
      <3> DEFINE h == HalfPeriod(b)
                 t == BitsTime(bytes, g)
                 u == BitsTime(bytes, g + 1)
      <3>2. h \in Nat /\ Period \in Nat /\ ends' = h /\ t = 2 * h + u /\ u \in Nat
        BY <1>1, <1>4, Times
      <3> HIDE DEF g, h, t, u
      <3>3. clock + (0 - age) + t <= Period  BY <3>1 DEF t
      <3>4. clock + (ends' - age + h) + u <= Period  BY <1>2, <3>2, <3>3
      <3> QED  BY <3>4 DEF h, u
    <2> QED  BY <1>4, <1>5, <1>6, <2>1 DEF OnSchedule, BitLeft
  <1> QED  BY <1>7, <1>8, <1>9, <1>10 DEF Sound

(* A decoder reads the bit of which both halves are. *)
LEMMA ShownBit ==
  ASSUME NEW b \in {0, 1}  PROVE Shown(HalfPeriod(b), HalfPeriod(b)) = b
  BY Times DEF Shown, HalfPeriod

(* The interrupt on the falling edge gives nothing. *)
LEMMA KeepSecondHalf ==
  ASSUME SignalTypeOK, Sound, SecondHalf
  PROVE  Sound'
  <1>1. /\ pin = 0 /\ handler = "none" /\ pending' = FALSE
        /\ UNCHANGED <<stateVars, ocr, pin, age, ends, timer0Vars, trackVars>>
    BY DEF SecondHalf, Timer1Due
  <1>2. bytes' = bytes /\ Begun' = Begun /\ ~ Between /\ ~ Between'
    BY <1>1 DEF stateVars, Begun, size, Between
  <1>3. /\ Preamble(bytes)' = Preamble(bytes) /\ Rest(bytes)' = Rest(bytes)
        /\ Bits(bytes)' = Bits(bytes) /\ size' = size
        /\ BitsTime(bytes, Begun)' = BitsTime(bytes, Begun)
        /\ BitsTime(bytes, 0)' = BitsTime(bytes, 0)
    BY <1>2, SamePacket
  <1>4. HalvesOK'  BY <1>1, <1>2 DEF Sound, HalvesOK, trackVars
  <1>5. HandlerOK'
    BY <1>1, <1>2, <1>3 DEF Sound, HandlerOK, timer0Vars, trackVars
  <1>6. InOrder'  BY <1>1, <1>2, <1>3 DEF Sound, InOrder, trackVars
  <1>7. OnesOK'  BY <1>1, <1>2, <1>3 DEF Sound, OnesOK, trackVars
  <1>8. OnSchedule'
    BY <1>1, <1>2, <1>3 DEF Sound, OnSchedule, BitLeft, timer0Vars, trackVars
  <1> QED  BY <1>4, <1>5, <1>6, <1>7, <1>8 DEF Sound

(* With nothing left to give, Timer1 gives ones. *)
LEMMA KeepIdle ==
  ASSUME SignalTypeOK, Sound, Idle
  PROVE  Sound'
  <1> DEFINE N == 8 * size
             P == Preamble(bytes)
             R == Len(Rest(bytes))
  <1>1. /\ Timer1Due /\ pin = 1 /\ pending' = FALSE
        /\ UNCHANGED <<timer0Vars, trackVars, bytes>>
        /\ ~ InByte /\ ~ LastBit /\ ~ VeryLastBit
        /\ Signal_generate_bit(1) /\ UNCHANGED <<cur_byte, cur_bit>>
    BY DEF Idle, RisingEdge
  <1>2. /\ Between /\ handler = "none" /\ age < Half1 /\ age \in Nat /\ clean
        /\ at = Over(Begun - P)
    BY <1>1 DEF Timer1Due, Sound, HalvesOK, InOrder, Between, SignalTypeOK
  <1>3. /\ size \in Nat /\ N \in Nat /\ P \in 0 .. N /\ R = N - P
        /\ (cur_byte = size => Begun = N)
    BY PacketView
  <1>4. cur_byte = size
    <2>1. cur_byte \in 0 .. size /\ cur_bit \in 0 .. 7  BY DEF SignalTypeOK
    <2> QED  BY <1>1, <1>3, <2>1 DEF InByte, LastBit, VeryLastBit
  <1>5. ocr' = 1 /\ ends' = HalfPeriod(1) /\ age' = age /\ pin' = pin
    <2>1. age < HalfPeriod(1) /\ 1 \in {0, 1}  BY <1>2, Times
    <2> QED  BY <1>1, <1>2, <2>1, GivenInTime
  <1>6. /\ ~ Between' /\ pin' = 1 /\ handler' = "none" /\ bytes' = bytes
        /\ Begun' = N /\ Begun = N /\ UNCHANGED <<clean, at, ones, high, clock>>
    BY <1>1, <1>2, <1>3, <1>4, <1>5 DEF Between, timer0Vars, trackVars, Begun, size
  <1>7. /\ Preamble(bytes)' = P /\ Rest(bytes)' = Rest(bytes)
        /\ Bits(bytes)' = Bits(bytes) /\ size' = size
    BY <1>6, SamePacket
  <1>8. at = R
    <2> HIDE DEF P, R, N
    <2> QED  BY <1>2, <1>3, <1>6 DEF Over
  <1>9. HalvesOK' /\ HandlerOK'  BY <1>5, <1>6 DEF HalvesOK, HandlerOK
  <1>10. InOrder'
    <2>1. size > 0 => Begun' > 0  BY <1>3, <1>6
    <2> QED  BY <1>2, <1>5, <1>6, <1>7, <1>8, <2>1 DEF InOrder
  <1>11. OnesOK'
    <2>1. ones >= P - 1 \/ ones >= N - 1  BY <1>2, <1>6 DEF Sound, OnesOK
    <2>2. ones \in Nat  BY DEF SignalTypeOK
    <2> HIDE DEF P, N
    <2>3. ones >= P - 1  BY <1>3, <2>1, <2>2
    <2> QED  BY <1>6, <1>7, <2>3 DEF OnesOK
  <1>12. OnSchedule'  BY <1>6, <1>7, <1>8, <1>3 DEF OnSchedule
  <1> QED  BY <1>9, <1>10, <1>11, <1>12 DEF Sound

(* When Timer0's interrupt comes, the packet is over. *)
LEMMA PacketOver ==
  ASSUME SignalTypeOK, Sound, Timer0Fires
  PROVE  at = Len(Rest(bytes)) /\ ocr = 1
  <1> DEFINE N == 8 * size
             P == Preamble(bytes)
             R == Len(Rest(bytes))
             g == Begun
             t == BitsTime(bytes, g)
  <1>1. /\ N \in Nat /\ P \in 0 .. N /\ g \in 0 .. N /\ R = N - P
        /\ \A k \in 1 .. P : Bits(bytes)[k] = 1
        /\ t \in Nat
    <2>1. /\ N \in Nat /\ P \in 0 .. N /\ g \in 0 .. N /\ R = N - P
          /\ \A k \in 1 .. P : Bits(bytes)[k] = 1
          /\ \A i \in 0 .. N : BitsTime(bytes, i) \in Nat
      BY PacketView
    <2> QED  BY <2>1
  <1>2. handler = "none" /\ ~ pending /\ clock = Period /\ ~ Between
    BY DEF Timer0Fires, Between
  <1>3. \/ g > 0 /\ ocr = Bits(bytes)[g] /\ at = Over(g - 1 - P)
        \/ g = N /\ ocr = 1 /\ at = R
    BY <1>2 DEF Sound, InOrder
  <1>4. at < R => clock + BitLeft + t <= Period
    BY <1>2 DEF Sound, OnSchedule
  <1>5. BitLeft \in Nat /\ BitLeft > 0
    <2>1. age \in Nat /\ ends \in Nat /\ age < ends /\ HalfPeriod(ocr) \in Nat
      BY Times DEF SignalTypeOK
    <2> DEFINE h == HalfPeriod(ocr)
    <2> HIDE DEF h
    <2>2. BitLeft = ends - age + h \/ BitLeft = ends - age  BY <1>2 DEF BitLeft, h
    <2>3. h \in Nat  BY <2>1 DEF h
    <2> QED  BY <2>1, <2>2, <2>3
  <1>6. at \in Nat /\ Period \in Nat  BY Times DEF SignalTypeOK
  <1> HIDE DEF N, P, R, g, t
  <1>7. at >= R  BY <1>1, <1>2, <1>4, <1>5, <1>6
  <1>8. CASE g = N /\ ocr = 1 /\ at = R  BY <1>8 DEF R
  <1>9. CASE g > 0 /\ ocr = Bits(bytes)[g] /\ at = Over(g - 1 - P)
    <2>1. at = 0 /\ R = 0 /\ N = P  BY <1>1, <1>6, <1>7, <1>9 DEF Over
    <2>2. g \in 1 .. P  BY <1>1, <1>9, <2>1
    <2> QED  BY <1>1, <1>9, <2>1, <2>2 DEF R
  <1> QED  BY <1>3, <1>8, <1>9

(* The handler begins, and has nothing of a packet to spoil. *)
LEMMA KeepTimer0Fires ==
  ASSUME SignalTypeOK, Sound, Timer0Fires
  PROVE  Sound'
  <1>1. /\ handler' = "before" /\ busy' \in TimeBefore /\ clock' = 0
        /\ UNCHANGED <<stateVars, timerVars, trackVars>>
    BY DEF Timer0Fires
  <1>2. bytes' = bytes /\ Begun' = Begun /\ Between' = Between
    BY <1>1 DEF stateVars, timerVars, Begun, size, Between
  <1>3. /\ Preamble(bytes)' = Preamble(bytes) /\ Rest(bytes)' = Rest(bytes)
        /\ Bits(bytes)' = Bits(bytes) /\ size' = size
    BY <1>2, SamePacket
  <1>4. HalvesOK'  BY <1>1, <1>2 DEF Sound, HalvesOK, timerVars, trackVars
  <1>5. HandlerOK'
    BY <1>1, <1>3, PacketOver DEF HandlerOK, timerVars, trackVars
  <1>6. InOrder'
    BY <1>1, <1>2, <1>3 DEF Sound, InOrder, timerVars, trackVars
  <1>7. OnesOK'  BY <1>1, <1>2, <1>3 DEF Sound, OnesOK, trackVars
  <1>8. OnSchedule'
    <2>1. busy' \in Nat  BY <1>1, SignalAssumption
    <2>2. clock' + busy' \in TimeBefore  BY <1>1, <2>1
    <2> QED  BY <1>1, <2>2 DEF OnSchedule
  <1> QED  BY <1>4, <1>5, <1>6, <1>7, <1>8 DEF Sound

(* A new packet begins where the track shows ones, with a one. *)
LEMMA KeepSend ==
  ASSUME SignalTypeOK, Sound, BeginWithOne, PacketsFit,
         NEW p \in Packet, Signal_send(p)
  PROVE  Sound'
  <1>1. /\ handler = "before" /\ busy = 0 /\ handler' = "after" /\ busy' \in TimeAfter
        /\ bytes' = p /\ cur_byte' = 0 /\ cur_bit' = 6
        /\ ones' = 0 /\ at' = 0 /\ clean' = TRUE
        /\ UNCHANGED <<pending, clock, high>> /\ Signal_generate_bit(BitOf(p[1], 7))
    BY DEF Signal_send
  <1>2. BitOf(p[1], 7) = 1  BY DEF BitOf, BeginWithOne
  <1>3. ocr = 1 /\ ends = Half1 /\ age \in Nat /\ age < Half1 /\ (pin = 0 => high = Half1)
    BY <1>1, Times DEF Sound, HandlerOK, HalvesOK, SignalTypeOK
  <1>4. ocr' = 1 /\ ends' = HalfPeriod(1) /\ age' = age /\ pin' = pin
    <2>1. age < HalfPeriod(1) /\ 1 \in {0, 1} /\ Signal_generate_bit(1)
      BY <1>1, <1>2, <1>3, Times
    <2> QED  BY <1>3, <2>1, GivenInTime
  <1>5. p \in Seq(BYTE) /\ p # <<>> /\ Len(p) \in Nat \ {0}
    BY SignalAssumption
  <1>6. size' = Len(p) /\ Begun' = 1
    BY <1>1, <1>5 DEF size, Begun
  <1>7. /\ Preamble(p) \in Nat /\ Preamble(p) >= 1
        /\ Bits(p)[1] = 1
    <2>3. Bits(p)[1] = 1  BY FirstBit
    <2>4. /\ Preamble(p) \in 0 .. 8 * Len(p)
          /\ Preamble(p) < 8 * Len(p) => Bits(p)[Preamble(p) + 1] = 0
      BY <1>5, PreambleAndRest
    <2>5. Preamble(p) # 0
      <3> SUFFICES ASSUME Preamble(p) = 0  PROVE FALSE
        OBVIOUS
      <3>1. Bits(p)[0 + 1] = 0  BY <1>5, <2>4
      <3> QED  BY <2>3, <3>1
    <2> QED  BY <2>3, <2>4, <2>5
  <1>8. /\ Preamble(bytes)' = Preamble(p) /\ Rest(bytes)' = Rest(p)
        /\ Bits(bytes)' = Bits(p) /\ BitsTime(bytes, 0)' = BitsTime(p, 0)
    BY <1>1 DEF Preamble, Rest, Bits, BitOf, BitsTime, Zeros
  <1>9. Between' = Between  BY <1>1, <1>4 DEF Between
  <1>10. HalvesOK'  BY <1>1, <1>3, <1>4, Times DEF HalvesOK
  <1>11. HandlerOK'  BY <1>1, <1>4, <1>5, <1>6 DEF HandlerOK
  <1>12. InOrder'
    <2>1. Over(1 - Preamble(p)) = 0 /\ Over(1 - 1 - Preamble(p)) = 0 /\ 1 > 0
      BY <1>7 DEF Over
    <2> QED  BY <1>1, <1>4, <1>6, <1>7, <1>8, <2>1 DEF InOrder
  <1>13. OnesOK'  BY <1>1, <1>6 DEF OnesOK
  <1>14. OnSchedule'
    <2>1. clock \in TimeBefore
      <3>1. clock + busy \in TimeBefore /\ clock \in Nat
        BY <1>1 DEF Sound, OnSchedule, SignalTypeOK
      <3> QED  BY <1>1, <3>1
    <2>2. clock + busy' + BitsTime(p, 0) <= Period  BY <1>1, <2>1 DEF PacketsFit
    <2> QED  BY <1>1, <1>8, <2>2 DEF OnSchedule
  <1> QED  BY <1>10, <1>11, <1>12, <1>13, <1>14 DEF Sound

(* The handler is over, and what it held up of the first bit is allowed    *)
(* for.                                                                    *)
LEMMA KeepTimer0Returns ==
  ASSUME SignalTypeOK, Sound, Timer0Returns
  PROVE  Sound'
  <1> DEFINE N == 8 * size
  <1>1. /\ handler = "after" /\ busy = 0 /\ handler' = "none"
        /\ UNCHANGED <<stateVars, timerVars, clock, busy, trackVars>>
    BY DEF Timer0Returns
  <1>2. bytes' = bytes /\ Begun' = Begun /\ Between' = Between
    BY <1>1 DEF stateVars, timerVars, Begun, size, Between
  <1>3. /\ Preamble(bytes)' = Preamble(bytes) /\ Rest(bytes)' = Rest(bytes)
        /\ Bits(bytes)' = Bits(bytes) /\ size' = size
        /\ BitsTime(bytes, Begun)' = BitsTime(bytes, Begun)
    BY <1>2, SamePacket
  <1>4. Begun = 1 /\ ocr = 1 /\ clock + busy + BitsTime(bytes, 0) <= Period
    BY <1>1 DEF Sound, HandlerOK, OnSchedule
  <1>5. HalvesOK'  BY <1>1, <1>2 DEF Sound, HalvesOK, timerVars, trackVars
  <1>6. HandlerOK'  BY <1>1 DEF HandlerOK
  <1>7. InOrder'
    BY <1>1, <1>2, <1>3 DEF Sound, InOrder, timerVars, trackVars
  <1>8. OnesOK'  BY <1>1, <1>2, <1>3 DEF Sound, OnesOK, trackVars
  <1>9. OnSchedule'
    <2> DEFINE t == BitsTime(bytes, 0)
               u == BitsTime(bytes, 1)
    <2>1. t \in Nat /\ u \in Nat /\ (t = 2 * Half1 + u \/ t = 2 * Half0 + u)
      <3>1. /\ N \in Nat /\ Begun \in 0 .. N
            /\ \A g \in 0 .. N : BitsTime(bytes, g) \in Nat
            /\ \A g \in 0 .. N : g < N => BitsTime(bytes, g)
                 = 2 * HalfPeriod(Bits(bytes)[g + 1]) + BitsTime(bytes, g + 1)
        BY PacketView
      <3>2. 0 \in 0 .. N /\ 1 \in 0 .. N /\ 0 < N /\ 0 + 1 = 1  BY <1>4, <3>1
      <3>3. t = 2 * HalfPeriod(Bits(bytes)[1]) + u  BY <3>1, <3>2
      <3>4. HalfPeriod(Bits(bytes)[1]) \in {Half1, Half0}  BY Times
      <3> QED  BY <3>1, <3>2, <3>3, <3>4
    <2>2. ends = Half1 /\ age \in Nat /\ age < ends /\ clock \in Nat
      BY <1>4, Times DEF Sound, HalvesOK, SignalTypeOK
    <2>3. BitLeft <= 2 * Half1 /\ BitLeft \in Int
      BY <1>4, <2>2, Times DEF BitLeft
    <2> HIDE DEF t, u
    <2>4. clock + t <= Period  BY <1>1, <1>4, <2>1, <2>2 DEF t
    <2>5. clock + BitLeft + u <= Period  BY <2>1, <2>2, <2>3, <2>4, Times
    <2>6. BitLeft' = BitLeft  BY <1>1, <1>2 DEF BitLeft, timerVars
    <2> QED  BY <1>1, <1>3, <1>4, <2>5, <2>6 DEF OnSchedule, u
  <1> QED  BY <1>5, <1>6, <1>7, <1>8, <1>9 DEF Sound

(* Time passes without an edge. *)
LEMMA KeepWaiting ==
  ASSUME SignalTypeOK, Sound, NEW d \in Nat, Passes(d), ~ Edge
  PROVE  Sound'
  <1>1. /\ age + d < ends /\ age' = age + d /\ clock' = clock + d
        /\ handler = "none" => ~ pending /\ busy' = busy
        /\ handler # "none" => d <= busy /\ busy' = busy - d
        /\ UNCHANGED <<stateVars, handler>>
        /\ UNCHANGED <<ocr, pin, pending, ends, trackVars>>
    BY DEF Passes
  <1>2. bytes' = bytes /\ Begun' = Begun /\ Between' = Between
    BY <1>1 DEF stateVars, Begun, size, Between
  <1>3. /\ Preamble(bytes)' = Preamble(bytes) /\ Rest(bytes)' = Rest(bytes)
        /\ Bits(bytes)' = Bits(bytes) /\ size' = size
        /\ BitsTime(bytes, Begun)' = BitsTime(bytes, Begun)
        /\ BitsTime(bytes, 0)' = BitsTime(bytes, 0)
    BY <1>2, SamePacket
  <1>4. /\ age \in Nat /\ ends \in Nat /\ clock \in Nat /\ busy \in Nat
        /\ BitsTime(bytes, 0) \in Nat /\ BitsTime(bytes, Begun) \in Nat
        /\ handler \in {"none", "before", "after"}
    <2> DEFINE N == 8 * size
    <2>1. /\ N \in Nat /\ Begun \in 0 .. N
          /\ \A g \in 0 .. N : BitsTime(bytes, g) \in Nat
      BY PacketView
    <2>2. 0 \in 0 .. N  BY <2>1
    <2> QED  BY <2>1, <2>2 DEF SignalTypeOK
  <1>5. HalvesOK'
    <2>1. ASSUME Between  PROVE age' < Half1
      <3>1. handler # "none"  BY <1>1, <2>1 DEF Between
      <3>2. ocr = 1  BY <1>4, <3>1 DEF Sound, HandlerOK
      <3>3. ends = Half1  BY <3>2, Times DEF Sound, HalvesOK
      <3> QED  BY <1>1, <3>3
    <2> QED  BY <1>1, <1>2, <2>1 DEF Sound, HalvesOK, trackVars
  <1>6. HandlerOK'
    BY <1>1, <1>2, <1>3 DEF Sound, HandlerOK, trackVars
  <1>7. InOrder'  BY <1>1, <1>2, <1>3 DEF Sound, InOrder, trackVars
  <1>8. OnesOK'  BY <1>1, <1>2, <1>3 DEF Sound, OnesOK, trackVars
  <1>9. OnSchedule'
    <2>1. ASSUME handler' = "before"  PROVE clock' + busy' \in TimeBefore
      <3>1. clock' + busy' = clock + busy  BY <1>1, <1>4, <2>1
      <3> QED  BY <1>1, <2>1, <3>1 DEF Sound, OnSchedule
    <2>2. ASSUME handler' = "after"  PROVE clock' + busy' + BitsTime(bytes, 0) <= Period
      <3>1. clock' + busy' = clock + busy  BY <1>1, <1>4, <2>2
      <3>2. clock + busy + BitsTime(bytes, 0) <= Period
        BY <1>1, <2>2 DEF Sound, OnSchedule
      <3> QED  BY <3>1, <3>2
    <2>3. ASSUME handler' = "none", at < Len(Rest(bytes))
          PROVE  clock' + BitLeft' + BitsTime(bytes, Begun) <= Period
      <3>1. clock + BitLeft + BitsTime(bytes, Begun) <= Period /\ ~ Between
        BY <1>1, <2>3 DEF Sound, OnSchedule, Between
      <3> DEFINE h == HalfPeriod(ocr)
                 t == BitsTime(bytes, Begun)
      <3>2. h \in Nat /\ t \in Nat  BY <1>4, Times
      <3>3. h' = h  BY <1>1 DEF HalfPeriod
      <3>4. BitLeft = IF pin = 1 THEN ends - age + h ELSE ends - age
        BY <3>1 DEF BitLeft
      <3>5. BitLeft' = IF pin = 1 THEN ends - (age + d) + h ELSE ends - (age + d)
        BY <1>1, <1>2, <3>1, <3>3 DEF BitLeft
      <3> HIDE DEF h, t
      <3>6. clock + BitLeft + t <= Period  BY <3>1 DEF t
      <3>7. clock' + BitLeft' + t <= Period
        BY <1>1, <1>4, <3>2, <3>4, <3>5, <3>6, Times
      <3> QED  BY <3>7 DEF t
    <2> QED  BY <1>1, <1>3, <2>1, <2>2, <2>3 DEF OnSchedule, trackVars
  <1> QED  BY <1>5, <1>6, <1>7, <1>8, <1>9 DEF Sound

(* While Timer0's handler runs the track shows ones, whether between two   *)
(* bits or in one.                                                         *)
LEMMA OnesInHandler ==
  ASSUME SignalTypeOK, Sound, BeginWithOne, Between, handler # "none",
         NEW P, P = Preamble(bytes)
  PROVE  /\ ocr = 1
         /\ \/ /\ Begun > 0
               /\ ocr = Bits(bytes)[Begun]
               /\ at = Over(Begun - 1 - P)
            \/ /\ Begun = 8 * size
               /\ ocr = 1
               /\ at = Len(Rest(bytes))
  <1> DEFINE N == 8 * size
             R == Len(Rest(bytes))
             g == Begun
  <1>1. /\ size \in Nat /\ N \in Nat /\ P \in 0 .. N /\ g \in 0 .. N /\ R = N - P
        /\ \A k \in 1 .. P : Bits(bytes)[k] = 1
        /\ P < N => Bits(bytes)[P + 1] = 0
    BY PacketView
  <1>2. at = Over(g - P) /\ at \in Nat /\ handler \in {"before", "after"}
    BY DEF Sound, InOrder, SignalTypeOK
  <1>3. ocr = 1  BY <1>2 DEF Sound, HandlerOK
  <1>4. CASE handler = "before"
    <2>1. at = R  BY <1>4 DEF Sound, HandlerOK
    <2>2. g = N \/ g > 0
      <3>1. size > 0 => g > 0  BY DEF Sound, InOrder
      <3>3. size = 0 \/ size > 0  BY <1>1
      <3>4. size = 0 => N = 0  OBVIOUS
      <3> HIDE DEF N, g
      <3> QED  BY <1>1, <3>1, <3>3, <3>4
    <2>3. CASE g = N  BY <1>3, <2>1, <2>3
    <2>4. CASE g # N /\ g > 0
      <3> HIDE DEF N, R, g
      <3>1. g \in 1 .. P /\ Over(g - 1 - P) = 0 /\ at = 0
        BY <1>1, <1>2, <2>1, <2>4 DEF Over
      <3>2. Bits(bytes)[g] = 1  BY <1>1, <3>1
      <3> QED  BY <1>3, <2>4, <3>1, <3>2 DEF g
    <2> QED  BY <2>2, <2>3, <2>4
  <1>5. CASE handler = "after"
    <2>1. g = 1 /\ bytes # <<>>  BY <1>5 DEF Sound, HandlerOK
    <2>2. bytes \in Packet /\ bytes \in Seq(BYTE) /\ Len(bytes) \in Nat \ {0}
      BY <2>1, SignalAssumption DEF SignalTypeOK
    <2>3. Bits(bytes)[1] = 1  BY <2>2, FirstBit
    <2>4. P # 0
      <3> SUFFICES ASSUME P = 0  PROVE FALSE
        OBVIOUS
      <3>1. N # 0  BY <2>2 DEF size
      <3> HIDE DEF N
      <3>2. Bits(bytes)[0 + 1] = 0  BY <1>1, <3>1
      <3> QED  BY <2>3, <3>2
    <2> HIDE DEF N, g
    <2>5. g > 0 /\ Over(g - P) = 0 /\ Over(g - 1 - P) = 0
      BY <1>1, <2>1, <2>4 DEF Over
    <2> QED  BY <1>2, <1>3, <2>1, <2>3, <2>5 DEF g
  <1> QED  BY <1>2, <1>4, <1>5

(* The track after a falling edge: the second half of the same bit. *)
LEMMA KeepFallingEdge ==
  ASSUME SignalTypeOK, Sound, BeginWithOne, NEW d \in Nat, Passes(d), Edge, pin = 1
  PROVE  Sound'
  <1> DEFINE N == 8 * size
             P == Preamble(bytes)
             R == Len(Rest(bytes))
             g == Begun
             t == BitsTime(bytes, g)
  <1>1. /\ pin' = 0 /\ pending' = TRUE /\ age' = 0 /\ ends' = HalfPeriod(ocr)
        /\ ocr' = ocr /\ high' = ends /\ UNCHANGED <<ones, at, clean>>
    BY DEF Edge
  <1>0. age \in Nat /\ ends \in Nat  BY DEF SignalTypeOK
  <1>2. /\ clock' = clock + d /\ age + d = ends
        /\ handler = "none" => ~ pending /\ busy' = busy
        /\ handler # "none" => d <= busy /\ busy' = busy - d
        /\ UNCHANGED <<stateVars, handler>>
    <2>1. age + d < ends => age' = age + d  BY <1>0 DEF Passes
    <2>2. d > 0 /\ age \in Nat  BY DEF Passes, SignalTypeOK
    <2>3. ~ (age + d < ends)  BY <1>1, <2>1, <2>2
    <2> QED  BY <2>3 DEF Passes
  <1>3. bytes' = bytes /\ g' = g /\ ~ Between'
    BY <1>1, <1>2 DEF stateVars, Begun, size, Between
  <1>4. /\ Preamble(bytes)' = P /\ Rest(bytes)' = Rest(bytes)
        /\ Bits(bytes)' = Bits(bytes) /\ size' = size
        /\ BitsTime(bytes, Begun)' = t
        /\ BitsTime(bytes, 0)' = BitsTime(bytes, 0)
    BY <1>3, SamePacket
  <1>5. /\ N \in Nat /\ P \in 0 .. N /\ g \in 0 .. N /\ R = N - P
        /\ \A k \in 1 .. P : Bits(bytes)[k] = 1
        /\ t \in Nat /\ BitsTime(bytes, 0) \in Nat
    <2>1. /\ N \in Nat /\ P \in 0 .. N /\ g \in 0 .. N /\ R = N - P
          /\ \A k \in 1 .. P : Bits(bytes)[k] = 1
          /\ \A i \in 0 .. N : BitsTime(bytes, i) \in Nat
      BY PacketView
    <2>2. 0 \in 0 .. N  BY <2>1
    <2> QED  BY <2>1, <2>2
  <1>6. /\ age \in Nat /\ ends \in Nat /\ clock \in Nat /\ busy \in Nat /\ ones \in Nat
        /\ at \in Nat /\ handler \in {"none", "before", "after"}
    BY DEF SignalTypeOK
  <1>7. HalvesOK'
    <2>1. ends = HalfPeriod(ocr)  BY DEF Sound, HalvesOK
    <2> QED  BY <1>1, <1>3, <2>1 DEF HalvesOK
  <1>8. HandlerOK'
    BY <1>1, <1>2, <1>3, <1>4 DEF Sound, HandlerOK
  <1>9. InOrder'
    <2>1. CASE ~ Between
      BY <1>1, <1>3, <1>4, <2>1 DEF Sound, InOrder
    <2>2. CASE Between
      <3>1. handler # "none" /\ clean /\ (size > 0 => g > 0)
        BY <1>2, <2>2 DEF Sound, InOrder, Between
      <3>2. \/ g > 0 /\ ocr = Bits(bytes)[g] /\ at = Over(g - 1 - P)
            \/ g = N /\ ocr = 1 /\ at = R
        BY <2>2, <3>1, OnesInHandler
      <3> QED  BY <1>1, <1>3, <1>4, <3>1, <3>2 DEF InOrder
    <2> QED  BY <2>1, <2>2
  <1>10. OnesOK'
    <2>1. ones >= P - 1 \/ ones >= g - 2
      <3> DEFINE lag == IF Between THEN 1 ELSE 2
      <3>1. ones >= P - 1 \/ ones >= g - lag  BY DEF Sound, OnesOK
      <3>2. lag \in {1, 2}  OBVIOUS
      <3> HIDE DEF P, g, lag
      <3> QED  BY <1>5, <1>6, <3>1, <3>2
    <2> QED  BY <1>1, <1>3, <1>4, <2>1 DEF OnesOK
  <1>11. OnSchedule'
    <2>1. ASSUME handler' = "before"  PROVE clock' + busy' \in TimeBefore
      <3>1. clock' + busy' = clock + busy  BY <1>2, <1>6, <2>1
      <3> QED  BY <1>2, <2>1, <3>1 DEF Sound, OnSchedule
    <2>2. ASSUME handler' = "after"  PROVE clock' + busy' + BitsTime(bytes, 0) <= Period
      <3>1. clock' + busy' = clock + busy  BY <1>2, <1>6, <2>2
      <3>2. clock + busy + BitsTime(bytes, 0) <= Period
        BY <1>2, <2>2 DEF Sound, OnSchedule
      <3> QED  BY <3>1, <3>2
    <2>3. ASSUME handler' = "none", at < R
          PROVE  clock' + BitLeft' + t <= Period
      <3>1. clock + BitLeft + t <= Period /\ ~ Between
        BY <1>2, <2>3 DEF Sound, OnSchedule, Between
      <3> DEFINE h == HalfPeriod(ocr)
      <3>2. h \in Nat /\ BitLeft = ends - age + h  BY <3>1, Times DEF BitLeft
      <3>3. BitLeft' = h  BY <1>1, <1>3, <3>2 DEF BitLeft
      <3> HIDE DEF h, t
      <3> QED  BY <1>2, <1>5, <1>6, <3>1, <3>2, <3>3, Times
    <2> QED  BY <1>1, <1>2, <1>4, <2>1, <2>2, <2>3 DEF OnSchedule
  <1> QED  BY <1>7, <1>8, <1>9, <1>10, <1>11 DEF Sound

(* The track after a rising edge: it has shown one more bit, which is the  *)
(* next of the packet, or one of the ones in front of it or behind it.     *)
LEMMA KeepRisingEdge ==
  ASSUME SignalTypeOK, Sound, BeginWithOne, NEW d \in Nat, Passes(d), Edge, pin = 0
  PROVE  Sound'
  <1> DEFINE N == 8 * size
             P == Preamble(bytes)
             R == Len(Rest(bytes))
             g == Begun
             t == BitsTime(bytes, g)
  <1>1. /\ pin' = 1 /\ pending' = TRUE /\ age' = 0 /\ ends' = HalfPeriod(ocr)
        /\ ocr' = ocr /\ Show(Shown(high, ends), Rest(bytes), P)
    BY DEF Edge
  <1>2. /\ age \in Nat /\ ends \in Nat /\ clock \in Nat /\ busy \in Nat /\ ones \in Nat
        /\ at \in Nat /\ ocr \in {0, 1} /\ handler \in {"none", "before", "after"}
    BY DEF SignalTypeOK
  <1>3. /\ clock' = clock + d /\ age + d = ends
        /\ handler = "none" => ~ pending /\ busy' = busy
        /\ handler # "none" => d <= busy /\ busy' = busy - d
        /\ UNCHANGED <<stateVars, handler>>
    <2>1. age + d < ends => age' = age + d  BY <1>2 DEF Passes
    <2>2. d > 0  BY DEF Passes
    <2>3. ~ (age + d < ends)  BY <1>1, <1>2, <2>1, <2>2
    <2> QED  BY <2>3 DEF Passes
  <1>4. bytes' = bytes /\ g' = g /\ Between' /\ ~ Between
    BY <1>1, <1>3 DEF stateVars, Begun, size, Between
  <1>5. /\ Preamble(bytes)' = P /\ Rest(bytes)' = Rest(bytes)
        /\ Bits(bytes)' = Bits(bytes) /\ size' = size
        /\ BitsTime(bytes, Begun)' = t
        /\ BitsTime(bytes, 0)' = BitsTime(bytes, 0)
    BY <1>4, SamePacket
  <1>6. /\ N \in Nat /\ P \in 0 .. N /\ g \in 0 .. N /\ R = N - P
        /\ \A k \in 1 .. P : Bits(bytes)[k] = 1
        /\ P < N => Bits(bytes)[P + 1] = 0
        /\ \A k \in 1 .. N - P : Rest(bytes)[k] = Bits(bytes)[P + k]
        /\ t \in Nat /\ BitsTime(bytes, 0) \in Nat
    <2>1. /\ N \in Nat /\ P \in 0 .. N /\ g \in 0 .. N /\ R = N - P
          /\ \A k \in 1 .. P : Bits(bytes)[k] = 1
          /\ P < N => Bits(bytes)[P + 1] = 0
          /\ \A k \in 1 .. N - P : Rest(bytes)[k] = Bits(bytes)[P + k]
          /\ \A i \in 0 .. N : BitsTime(bytes, i) \in Nat
      BY PacketView
    <2>2. 0 \in 0 .. N  BY <2>1
    <2> QED  BY <2>1, <2>2
  <1>7. Shown(high, ends) = ocr
    <2>1. high = HalfPeriod(ocr) /\ ends = HalfPeriod(ocr)  BY DEF Sound, HalvesOK
    <2> QED  BY <1>2, <2>1, ShownBit
  <1> DEFINE early == at = 0 /\ ocr = 1
             late == at = R /\ ocr = 1
             next == at < R /\ ocr = Rest(bytes)[at + 1]
  <1>8. /\ ones' = IF early /\ ones < P THEN ones + 1 ELSE ones
        /\ at' = IF next THEN at + 1 ELSE at
        /\ clean' = (clean /\ (early \/ late \/ next))
    BY <1>1, <1>7 DEF Show
  <1>9. /\ clean /\ (size > 0 => g > 0)
        /\ \/ g > 0 /\ ocr = Bits(bytes)[g] /\ at = Over(g - 1 - P)
           \/ g = N /\ ocr = 1 /\ at = R
    BY <1>4 DEF Sound, InOrder
  <1>10. ones >= P - 1 \/ ones >= g - 2  BY <1>4 DEF Sound, OnesOK
  <1>11. /\ clean' = TRUE /\ at' = Over(g - P) /\ at' >= at /\ at' \in Nat
         /\ ones' \in Nat
         /\ ones' >= P - 1 \/ ones' >= g - 1
         /\ at = R => at' = R
    <2>1. ones' \in Nat /\ ones' >= ones /\ (early /\ ones < P => ones' = ones + 1)
      <3> HIDE DEF P, early
      <3> QED  BY <1>2, <1>8
    <2>2. CASE g > 0 /\ ocr = Bits(bytes)[g] /\ at = Over(g - 1 - P) /\ g <= P
      <3> HIDE DEF N, P, R, g
      <3>1. at = 0 /\ g \in 1 .. P /\ Over(g - P) = 0  BY <1>6, <2>2 DEF Over
      <3>2. ocr = 1  BY <1>6, <2>2, <3>1
      <3>3. ~ next
        <4> SUFFICES ASSUME next  PROVE FALSE
          OBVIOUS
        <4>1. P < N /\ at + 1 \in 1 .. N - P /\ P + (at + 1) = P + 1
          BY <1>6, <3>1
        <4>2. ocr = Bits(bytes)[P + 1]  BY <1>6, <4>1
        <4> QED  BY <1>6, <3>2, <4>1, <4>2
      <3>4. clean' = TRUE /\ at' = 0  BY <1>8, <1>9, <3>1, <3>2, <3>3
      <3>5. ones >= P \/ ones' = ones + 1  BY <1>2, <1>6, <2>1, <3>1, <3>2
      <3>6. ones' >= P - 1 \/ ones' >= g - 1
        BY <1>2, <1>6, <1>10, <2>1, <3>5
      <3> QED  BY <1>2, <2>1, <3>1, <3>4, <3>6
    <2>3. CASE g > 0 /\ ocr = Bits(bytes)[g] /\ at = Over(g - 1 - P) /\ g > P
      <3> HIDE DEF N, P, R, g
      <3>1. /\ at = g - 1 - P /\ Over(g - P) = g - P /\ at < R
            /\ at + 1 \in 1 .. N - P /\ P + (at + 1) = g
        BY <1>6, <2>3 DEF Over
      <3>2. Rest(bytes)[at + 1] = Bits(bytes)[P + (at + 1)]  BY <1>6, <3>1
      <3>3. next  BY <2>3, <3>1, <3>2
      <3>4. clean' = TRUE /\ at' = at + 1  BY <1>8, <1>9, <3>3
      <3>6. at' = g - P /\ at # R /\ at' >= at /\ at' \in Nat
        BY <1>2, <1>6, <3>1, <3>4
      <3>5. ones' >= P - 1
        BY <1>2, <1>6, <1>10, <2>1, <2>3
      <3> QED  BY <2>1, <3>1, <3>4, <3>5, <3>6
    <2>4. CASE g = N /\ ocr = 1 /\ at = R
      <3> HIDE DEF N, P, R, g
      <3>1. ~ next /\ late  BY <1>2, <1>6, <2>4
      <3>2. clean' = TRUE /\ at' = R  BY <1>8, <1>9, <2>4, <3>1
      <3>3. Over(g - P) = R  BY <1>6, <2>4 DEF Over
      <3>4. ones' >= P - 1
        <4>1. CASE N = P
          <5>1. early  BY <1>6, <2>4, <4>1
          <5>2. ones >= P \/ ones' = ones + 1  BY <1>2, <1>6, <2>1, <5>1
          <5> QED  BY <1>2, <1>6, <1>10, <2>1, <2>4, <4>1, <5>2
        <4>2. CASE N # P
          BY <1>2, <1>6, <1>10, <2>1, <2>4, <4>2
        <4> QED  BY <4>1, <4>2
      <3> QED  BY <1>2, <2>1, <2>4, <3>2, <3>3, <3>4
    <2>5. g <= P \/ g > P  BY <1>6
    <2> QED  BY <1>9, <2>2, <2>3, <2>4, <2>5
  <1>12. HalvesOK'
    BY <1>1, Times DEF HalvesOK
  <1>13. HandlerOK'
    BY <1>1, <1>3, <1>4, <1>5, <1>11 DEF Sound, HandlerOK
  <1>14. InOrder'  BY <1>4, <1>5, <1>9, <1>11 DEF InOrder
  <1>15. OnesOK'  BY <1>4, <1>5, <1>11 DEF OnesOK
  <1>16. OnSchedule'
    <2>1. ASSUME handler' = "before"  PROVE clock' + busy' \in TimeBefore
      <3>1. clock' + busy' = clock + busy  BY <1>2, <1>3, <2>1
      <3> QED  BY <1>3, <2>1, <3>1 DEF Sound, OnSchedule
    <2>2. ASSUME handler' = "after"  PROVE clock' + busy' + BitsTime(bytes, 0) <= Period
      <3>1. clock' + busy' = clock + busy  BY <1>2, <1>3, <2>2
      <3>2. clock + busy + BitsTime(bytes, 0) <= Period
        BY <1>3, <2>2 DEF Sound, OnSchedule
      <3> QED  BY <3>1, <3>2
    <2>3. ASSUME handler' = "none", at' < R
          PROVE  clock' + BitLeft' + t <= Period
      <3> HIDE DEF R
      <3>1. at < R  BY <1>2, <1>6, <1>11, <2>3
      <3>2. clock + BitLeft + t <= Period
        BY <1>3, <2>3, <3>1 DEF Sound, OnSchedule, R
      <3>3. BitLeft = ends - age  BY <1>4 DEF BitLeft
      <3>4. BitLeft' = 0  BY <1>1, <1>4 DEF BitLeft
      <3> HIDE DEF t
      <3> QED  BY <1>2, <1>3, <1>6, <3>2, <3>3, <3>4, Times
    <2> QED  BY <1>1, <1>3, <1>5, <2>1, <2>2, <2>3 DEF OnSchedule
  <1> QED  BY <1>12, <1>13, <1>14, <1>15, <1>16 DEF Sound

-----------------------------------------------------------------------------
(* The inductive invariant. *)
SignalInv == SignalTypeOK /\ Sound

(* At power-up ones are on the track. *)
LEMMA InitSignalInv == Signal_module_init => SignalInv
  <1> SUFFICES ASSUME Signal_module_init PROVE Sound
    BY InitTypes DEF SignalInv
  <1>1. /\ bytes = <<>> /\ cur_byte = 0 /\ size = 0 /\ Begun = 0 /\ ~ Between
        /\ ocr = 1 /\ pin = 0 /\ handler = "none" /\ ends = HalfPeriod(1)
        /\ high = Half1 /\ at = 0 /\ ones = 0 /\ clean = TRUE
    BY DEF Signal_module_init, size, Begun, Between
  <1>2. SignalTypeOK  BY InitTypes
  <1> DEFINE N == 8 * size
             P == Preamble(bytes)
  <1>3. P \in 0 .. N /\ Len(Rest(bytes)) = N - P  BY <1>2, PacketView
  <1>4. P = 0 /\ Len(Rest(bytes)) = 0  BY <1>1, <1>3
  <1>5. HalvesOK  BY <1>1, Times DEF HalvesOK
  <1>6. HandlerOK  BY <1>1 DEF HandlerOK
  <1>7. InOrder  BY <1>1, <1>4 DEF InOrder
  <1>8. OnesOK  BY <1>1, <1>4 DEF OnesOK
  <1>9. OnSchedule  BY <1>1, <1>4 DEF OnSchedule
  <1> QED  BY <1>5, <1>6, <1>7, <1>8, <1>9 DEF Sound

(* A step of Timer1 inside a packet gives its next bit. *)
LEMMA KeepNextBit ==
  ASSUME SignalTypeOK, Sound, NextInByte \/ NextByte \/ EndPacket
  PROVE  Sound'
  <1> DEFINE N == 8 * size
  <1>1. /\ Timer1Due /\ pin = 1 /\ pending' = FALSE
        /\ UNCHANGED <<timer0Vars, trackVars, bytes>> /\ Signal_generate_bit(CurrentBit)
    BY DEF NextInByte, NextByte, EndPacket, RisingEdge
  <1>2. size \in Nat /\ cur_byte \in 0 .. size /\ cur_bit \in 0 .. 7
    BY PacketView DEF SignalTypeOK
  <1>3. size' = size  BY <1>1 DEF size
  <1>4. cur_byte < size /\ Begun' = Begun + 1
    <2>1. CASE NextInByte
      BY <1>2, <1>3, <2>1 DEF NextInByte, InByte, Begun
    <2>2. CASE NextByte
      BY <1>2, <1>3, <2>2 DEF NextByte, LastBit, Begun
    <2>3. CASE EndPacket
      BY <1>2, <1>3, <2>3 DEF EndPacket, VeryLastBit, Begun
    <2> QED  BY <2>1, <2>2, <2>3
  <1>5. Begun < 8 * size /\ CurrentBit = Bits(bytes)[Begun + 1]
    BY <1>4, PacketView
  <1> QED  BY <1>1, <1>4, <1>5, GiveBit

(* The invariant is inductive. *)
LEMMA StepSignalInv ==
  ASSUME BeginWithOne, PacketsFit
  PROVE  SignalInv /\ [SignalNext]_signalVars => SignalInv'
  <1> SUFFICES ASSUME SignalInv, [SignalNext]_signalVars PROVE Sound'
    BY StepTypes DEF SignalInv
  <1>1. SignalTypeOK /\ Sound  BY DEF SignalInv
  <1>2. CASE SecondHalf  BY <1>1, <1>2, KeepSecondHalf
  <1>3. CASE NextInByte \/ NextByte \/ EndPacket  BY <1>1, <1>3, KeepNextBit
  <1>4. CASE Idle  BY <1>1, <1>4, KeepIdle
  <1>5. CASE Timer0Fires  BY <1>1, <1>5, KeepTimer0Fires
  <1>6. ASSUME NEW p \in Packet, Signal_send(p)  PROVE Sound'
    BY <1>1, <1>6, KeepSend
  <1>7. CASE Timer0Returns  BY <1>1, <1>7, KeepTimer0Returns
  <1>8. CASE Elapse
    <2> PICK d \in Nat : Passes(d)  BY <1>1, <1>8, ElapsePasses
    <2>1. CASE ~ Edge  BY <1>1, <2>1, KeepWaiting
    <2>2. CASE Edge /\ pin = 1  BY <1>1, <2>2, KeepFallingEdge
    <2>3. CASE Edge /\ pin = 0  BY <1>1, <2>3, KeepRisingEdge
    <2>4. pin \in {0, 1}  BY <1>1 DEF SignalTypeOK
    <2> QED  BY <2>1, <2>2, <2>3, <2>4
  <1>9. CASE UNCHANGED signalVars
    <2>1. UNCHANGED <<stateVars, timerVars, timer0Vars, trackVars>>
      BY <1>9 DEF signalVars
    <2>2. bytes' = bytes /\ Begun' = Begun /\ Between' = Between /\ BitLeft' = BitLeft
      BY <2>1 DEF stateVars, timerVars, Begun, size, Between, BitLeft, HalfPeriod
    <2>3. /\ Preamble(bytes)' = Preamble(bytes) /\ Rest(bytes)' = Rest(bytes)
          /\ Bits(bytes)' = Bits(bytes) /\ size' = size
          /\ BitsTime(bytes, Begun)' = BitsTime(bytes, Begun)
          /\ BitsTime(bytes, 0)' = BitsTime(bytes, 0)
      BY <2>2, SamePacket
    <2>4. HalvesOK' /\ HandlerOK'
      BY <1>1, <2>1, <2>2, <2>3
      DEF Sound, HalvesOK, HandlerOK, timerVars, timer0Vars, trackVars
    <2>5. InOrder' /\ OnesOK'
      BY <1>1, <2>1, <2>2, <2>3 DEF Sound, InOrder, OnesOK, timerVars, trackVars
    <2>6. OnSchedule'
      BY <1>1, <2>1, <2>2, <2>3 DEF Sound, OnSchedule, timer0Vars, trackVars
    <2> QED  BY <2>4, <2>5, <2>6 DEF Sound
  <1> QED
    BY <1>2, <1>3, <1>4, <1>5, <1>6, <1>7, <1>8, <1>9 DEF SignalNext, Timer1

(* The invariant holds for packets that begin with a one and that fit in   *)
(* a period of Timer0 together with the handler that sends them.           *)
LEMMA SignalSound ==
  ASSUME BeginWithOne, PacketsFit  PROVE SignalSpec => []SignalInv
  <1>1. SignalInv /\ [SignalNext]_signalVars => SignalInv'  BY StepSignalInv
  <1> QED  BY <1>1, InitSignalInv, PTL DEF SignalSpec

(* Nothing but the bits of a packet is on the track from one Signal_send   *)
(* to the next, in order and undistorted, whatever part of a bit it        *)
(* interrupts and however many interrupts its handler holds up.            *)
THEOREM BitsInSequence ==
  ASSUME BeginWithOne, PacketsFit  PROVE SignalSpec => []EachBitInSequence
  <1>1. SignalInv => EachBitInSequence
    BY DEF SignalInv, Sound, InOrder, EachBitInSequence
  <1> QED  BY <1>1, SignalSound, PTL

(* A packet is over when Timer0's next interrupt comes. *)
THEOREM PacketsShownInTime ==
  ASSUME BeginWithOne, PacketsFit  PROVE SignalSpec => []ShownInTime
  <1>1. SignalInv => ShownInTime
    BY DEF SignalInv, Sound, HandlerOK, ShownInTime
  <1> QED  BY <1>1, SignalSound, PTL

(* All the ones of a packet's preamble but at most one are on the track    *)
(* before its first zero.                                                  *)
THEOREM PreamblesKept ==
  ASSUME BeginWithOne, PacketsFit  PROVE SignalSpec => []PreambleKept
  <1>1. SignalInv => PreambleKept
    <2> SUFFICES ASSUME SignalInv, at > 0  PROVE ones >= Preamble(bytes) - 1
      BY DEF PreambleKept
    <2> DEFINE N == 8 * size
               P == Preamble(bytes)
               g == Begun
    <2>1. SignalTypeOK /\ InOrder /\ OnesOK  BY DEF SignalInv, Sound
    <2>2. /\ N \in Nat /\ P \in 0 .. N /\ g \in 0 .. N /\ Len(Rest(bytes)) = N - P
      BY <2>1, PacketView
    <2>3. ones \in Nat /\ at \in Nat  BY <2>1 DEF SignalTypeOK
    <2>4. CASE Between
      <3>1. at = Over(g - P) /\ (ones >= P - 1 \/ ones >= g - 1)
        BY <2>1, <2>4 DEF InOrder, OnesOK
      <3> HIDE DEF P, g
      <3>2. ones >= P - 1  BY <2>2, <2>3, <3>1 DEF Over
      <3> QED  BY <3>2 DEF P
    <2>5. CASE ~ Between
      <3>1. /\ ones >= P - 1 \/ ones >= g - 2
            /\ at = Over(g - 1 - P) \/ (g = N /\ at = N - P)
        BY <2>1, <2>2, <2>5 DEF InOrder, OnesOK
      <3> HIDE DEF P, g, N
      <3>2. ones >= P - 1  BY <2>2, <2>3, <3>1 DEF Over
      <3> QED  BY <3>2 DEF P
    <2> QED  BY <2>4, <2>5
  <1> QED  BY <1>1, SignalSound, PTL

(* OCR1A is never set to a value that the counter has passed: no half of a *)
(* bit lasts until the counter comes round.                                *)
THEOREM NeverStretched ==
  ASSUME BeginWithOne, PacketsFit  PROVE SignalSpec => []NoStretch
  <1>1. SignalInv => NoStretch
    BY Times DEF SignalInv, Sound, HalvesOK, NoStretch
  <1> QED  BY <1>1, SignalSound, PTL

=============================================================================
