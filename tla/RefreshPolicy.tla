---------------------------- MODULE RefreshPolicy ----------------------------
(***************************************************************************)
(* What the command station promises about the track, at each tick of its  *)
(* scheduler: a new command goes out first; a broadcast stop is repeated,  *)
(* and everything said before it is forgotten, until a loco is commanded;  *)
(* otherwise the locos' last commands are repeated in turns; otherwise the *)
(* track idles.  The track shows what was served last.                     *)
(***************************************************************************)
EXTENDS LocoRegister

CONSTANT Stop        \* the broadcast stops

VARIABLES pending,   \* the command accepted and not yet sent, or None
          halted     \* the broadcast stop in force, or None

policyVars == <<registerVars, pending, halted>>

PolicyInit == RegisterInit /\ pending = None /\ halted = None

Accept(m) == /\ pending = None
             /\ pending' = m
             /\ UNCHANGED <<registerVars, halted>>

SendStop == /\ pending \in Stop
            /\ served' = pending
            /\ halted' = pending
            /\ pending' = None
            /\ Forget

SendCommand(l, c) == /\ pending = [loco |-> l, cmd |-> c]
                     /\ served' = pending
                     /\ halted' = None
                     /\ pending' = None
                     /\ Record(l, c)

RepeatStop == /\ pending = None /\ halted # None
              /\ served' = halted
              /\ UNCHANGED <<last, rota, pending, halted>>

RepeatCommand == /\ pending = None /\ halted = None
                 /\ Serve \/ ServeNothing
                 /\ UNCHANGED <<pending, halted>>

Purge == Empty /\ UNCHANGED <<pending, halted>>

PolicyNext == \/ \E m \in [loco : Loco, cmd : Cmd] \cup Stop : Accept(m)
              \/ SendStop
              \/ \E l \in Loco, c \in Cmd : SendCommand(l, c)
              \/ RepeatStop
              \/ RepeatCommand
              \/ Purge

PolicySpec == PolicyInit /\ [][PolicyNext]_policyVars

=============================================================================
