----------------------------- MODULE LocoRegister -----------------------------
(***************************************************************************)
(* What cs/cache.h promises: the last command of each loco is stored, the  *)
(* active locos are listed, and they are served in turns.  No pointers, no *)
(* slots, no probing.                                                      *)
(***************************************************************************)
EXTENDS Sequences

CONSTANTS Loco, Cmd, None

VARIABLES last,      \* the last command stored for each loco
          rota,      \* the active locos, the one to be served next first
          served     \* what was handed out last

registerVars == <<last, rota, served>>

RegisterInit == /\ last = [l \in Loco |-> None]
                /\ rota = <<>>
                /\ served = None

(* The command of l is now c, and l is on the list. *)
Record(l, c) == /\ last' = [last EXCEPT ![l] = c]
                /\ rota' = IF last[l] = None THEN Append(rota, l) ELSE rota

Forget == /\ last' = [l \in Loco |-> None]
          /\ rota' = <<>>

Store(l, c) == Record(l, c) /\ UNCHANGED served

Serve == /\ rota # <<>>
         /\ served' = [loco |-> Head(rota), cmd |-> last[Head(rota)]]
         /\ rota' = Append(Tail(rota), Head(rota))
         /\ UNCHANGED last

ServeNothing == /\ rota = <<>>
                /\ served' = None
                /\ UNCHANGED <<last, rota>>

Empty == Forget /\ UNCHANGED served

RegisterNext == \/ \E l \in Loco, c \in Cmd : Store(l, c)
                \/ Serve
                \/ ServeNothing
                \/ Empty

RegisterSpec == RegisterInit /\ [][RegisterNext]_registerVars

=============================================================================
