------------------------------- MODULE NodeCycle -------------------------------
(***************************************************************************)
(* What the sensor node promises: it sleeps, sends at most one uplink,     *)
(* waits for its ACK, and goes back to sleep, numbering the cycles one by  *)
(* one whatever their outcome.  A cycle counts as acknowledged only if the *)
(* gateway has heard the uplink of that very cycle.  A node that has       *)
(* stopped for a fault never sends again.                                  *)
(***************************************************************************)
EXTENDS Naturals

CONSTANT SeqMod   \* cycle numbers count modulo this

VARIABLES phase, cycle, heard, outcome
vars == <<phase, cycle, heard, outcome>>

Phases   == {"asleep", "sending", "waiting", "stopped"}
Outcomes == {"none", "acknowledged", "timeout", "failed"}

Init ==
  /\ phase = "asleep" /\ cycle = 0 /\ heard = FALSE /\ outcome = "none"

Wake ==
  /\ phase = "asleep"
  /\ phase' = "sending" /\ outcome' = "none"
  /\ UNCHANGED <<cycle, heard>>

GatewayHears ==
  /\ phase = "sending" /\ ~heard
  /\ heard' = TRUE
  /\ UNCHANGED <<phase, cycle, outcome>>

Sent ==
  /\ phase = "sending"
  /\ phase' = "waiting"
  /\ UNCHANGED <<cycle, heard, outcome>>

Finish(result) ==
  /\ phase' = "asleep" /\ cycle' = (cycle + 1) % SeqMod
  /\ heard' = FALSE /\ outcome' = result

NotSent      == phase = "sending" /\ Finish("failed")
Acknowledged == phase = "waiting" /\ heard /\ Finish("acknowledged")
TimedOut     == phase = "waiting" /\ Finish("timeout")

Stop ==
  /\ phase = "asleep"
  /\ phase' = "stopped"
  /\ UNCHANGED <<cycle, heard, outcome>>

Next ==
  Wake \/ GatewayHears \/ Sent \/ NotSent \/ Acknowledged \/ TimedOut \/ Stop

\* Every cycle runs to its end and the next one follows, or the node stops.
Progress ==
  \A n \in 0..(SeqMod - 1) :
    cycle = n ~> (cycle = (n + 1) % SeqMod \/ phase = "stopped")

Spec == Init /\ [][Next]_vars /\ Progress
================================================================================
