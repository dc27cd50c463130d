------------------------------- MODULE MCSignal -------------------------------
(* Time in units of 106.6 cycles: 852 of them are 8, 1617 are 15, the 128000 *)
(* of a Timer0 period are 1200 and a turn of the 16 bit counter is 614.      *)
EXTENDS Signal, Dcc

(* The idle packet, the one with the most zeros, and a loco's. *)
SpeedPacket == BytesOf(<<\hFF, \hF0, \h19, \h88, \hC3>>)
StationPackets == {DCC_special_idle_packet, DCC_special_reset_packet, SpeedPacket}

(* What the theorems about the signal suppose holds of these. *)
ASSUME MCSignalAssumption == BeginWithOne /\ PacketsFit

=============================================================================
