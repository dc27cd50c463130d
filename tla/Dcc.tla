--------------------------------- MODULE Dcc ---------------------------------
(***************************************************************************)
(* The packets of cs/dcc.c bit by bit.  A packet is its sequence of bytes; *)
(* bytes[i] of the code is element i + 1.                                  *)
(***************************************************************************)
EXTENDS Bytes

DCC_ADDRESS_MAX == 128
DCC_MAX_SPEED_STEPS == 29
DCC_BASELINE_LEN == 5

DCC_MASK_PREAMBLE_1 == Byte(\h0F)
DCC_MASK_ADDRESS_1 == Byte(\hFC)
DCC_MASK_ADDRESS_2 == Byte(\h07)
DCC_MASK_SD_PREAMBLE_2 == Byte(\hFC)
DCC_MASK_DIRECTION_3 == Byte(\h7F)
DCC_MASK_SPEED_3 == Byte(\h83)
DCC_MASK_CHECKSUM_3 == Byte(\hFE)
DCC_MASK_CHECKSUM_4 == Byte(\h01)

DCC_speed_steps ==
  BytesOf(<<\h00, \h02, \h12, \h03, \h13, \h04, \h14, \h05, \h15, \h06, \h16,
            \h07, \h17, \h08, \h18, \h09, \h19, \h0A, \h1A, \h0B, \h1B, \h0C,
            \h1C, \h0D, \h1D, \h0E, \h1E, \h0F, \h1F>>)

(* Mutant: one byte too few. *)
CreateShort(size) == [i \in 1 .. size - 1 |-> {}]

DCC_packet_create(size) == [i \in 1 .. size |-> {}]

DCC_baseline_packet_create == DCC_packet_create(DCC_BASELINE_LEN)

DCC_special_reset_packet == BytesOf(<<\hFF, \hF0, \h00, \h00, \h01>>)
DCC_special_idle_packet == BytesOf(<<\hFF, \hF7, \hF8, \h01, \hFF>>)
DCC_special_broadcast_stop_packet == BytesOf(<<\hFF, \hF0, \h01, \hC0, \hE1>>)
DCC_special_emergency_stop_packet == BytesOf(<<\hFF, \hF0, \h01, \hC4, \hE3>>)

DCC_is_broadcast_stop(p) ==
  /\ Len(p) = DCC_BASELINE_LEN
  /\ SubSeq(p, 1, 3) = BytesOf(<<\hFF, \hF0, \h01>>)
  /\ p[4] \in {Byte(\hC0), Byte(\hC4)}
  /\ p[5] \in {Byte(\hE1), Byte(\hE3)}

DCC_set_preamble(p) ==
  [p EXCEPT ![1] = Byte(\hFF), ![2] = (@ \cap DCC_MASK_PREAMBLE_1) \cup Byte(\hF0)]

(* Mutant: the bits of an earlier address are not cleared. *)
SetAddressOver(p, address) ==
  LET a == Byte(address % DCC_ADDRESS_MAX)
  IN  [p EXCEPT ![2] = @ \cup ShiftRight(a, 5), ![3] = @ \cup ShiftLeft(a, 3)]

DCC_set_address(p, address) ==
  LET a == Byte(address % DCC_ADDRESS_MAX)
  IN  [p EXCEPT ![2] = (@ \cap DCC_MASK_ADDRESS_1) \cup ShiftRight(a, 5),
                ![3] = (@ \cap DCC_MASK_ADDRESS_2) \cup ShiftLeft(a, 3)]

DCC_set_speed_direction_preamble(p) ==
  [p EXCEPT ![3] = (@ \cap DCC_MASK_SD_PREAMBLE_2) \cup Byte(\h01)]

(* Mutant: the mask of the speed for the mask of the direction. *)
SetDirectionOnly(p, direction) ==
  [p EXCEPT ![4] = (@ \cap DCC_MASK_SPEED_3) \cup (IF direction # 0 THEN Byte(\h80) ELSE {})]

DCC_set_direction(p, direction) ==
  [p EXCEPT ![4] = (@ \cap DCC_MASK_DIRECTION_3) \cup (IF direction # 0 THEN Byte(\h80) ELSE {})]

(* Mutant: the step itself for its code. *)
SetSpeedPlain(p, step) ==
  [p EXCEPT ![4] = (@ \cap DCC_MASK_SPEED_3)
                     \cup ShiftLeft(Byte(step % DCC_MAX_SPEED_STEPS), 2)]

DCC_set_speed(p, step) ==
  [p EXCEPT ![4] = (@ \cap DCC_MASK_SPEED_3)
                     \cup ShiftLeft(DCC_speed_steps[(step % DCC_MAX_SPEED_STEPS) + 1], 2)]

DCC_get_address(p) == ShiftLeft(p[2] \ DCC_MASK_ADDRESS_1, 5)
                        \cup ShiftRight(p[3] \ DCC_MASK_ADDRESS_2, 3)

DCC_get_speed_and_direction(p) ==
  Byte(\h40) \cup ShiftRight(p[4] \ DCC_MASK_DIRECTION_3, 2)
             \cup ShiftRight(p[4] \ DCC_MASK_SPEED_3, 2)

(* The step of the first entry that fits, and 0 when none does. *)
DCC_get_speed_step(p) ==
  LET S == {i \in 0 .. DCC_MAX_SPEED_STEPS - 1 :
              DCC_speed_steps[i + 1] = ShiftRight(p[4] \ DCC_MASK_SPEED_3, 2)}
  IN  IF S = {} THEN 0 ELSE CHOOSE i \in S : \A j \in S : i <= j

DCC_get_direction(p) ==
  IF ShiftRight(p[4] \ DCC_MASK_DIRECTION_3, 7) = Byte(1) THEN 1 ELSE 0

DCC_set_checksum(p) ==
  LET checksum == Xor(DCC_get_address(p), DCC_get_speed_and_direction(p))
  IN  [p EXCEPT ![4] = (@ \cap DCC_MASK_CHECKSUM_3) \cup ShiftRight(checksum, 7),
                ![5] = (@ \cap DCC_MASK_CHECKSUM_4) \cup ShiftLeft(checksum, 1)]

DCC_set_packet_end(p) == [p EXCEPT ![5] = @ \cup Byte(\h01)]

=============================================================================
