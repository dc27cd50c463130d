------------------------------ MODULE DccFormat ------------------------------
(***************************************************************************)
(* The baseline packet of NMRA S-9.2, which src/README.md says the station *)
(* sends: at least ten ones, then three bytes (address, instruction, their *)
(* exclusive or), a zero before each and a one after the last.             *)
(***************************************************************************)
EXTENDS Bytes

Ones(n) == [k \in 1 .. n |-> 1]

(* Twelve ones make the packet a whole number of bytes. *)
BaselineFrame(address, instruction) ==
  LET a == Byte(address)
      i == Byte(instruction)
  IN  Ones(12) \o <<0>> \o Bits(<<a>>) \o <<0>> \o Bits(<<i>>)
        \o <<0>> \o Bits(<<Xor(a, i)>>) \o <<1>>

(* Speed step 0 is a stop; of step s > 0 the code is s + 3 with its lowest *)
(* bit moved to the front.                                                 *)
StepCode(step) == IF step = 0 THEN 0
                  ELSE 16 * ((step + 3) % 2) + (step + 3) \div 2

SpeedInstruction(direction, step) == 64 + 32 * direction + StepCode(step)

(* Address 0, direction ignored: slow down, or cut the motors' power. *)
StopFrame == BaselineFrame(0, 112)
EmergencyStopFrame == BaselineFrame(0, 113)

=============================================================================
