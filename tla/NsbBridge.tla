----------------------------- MODULE NsbBridge -----------------------------
(***************************************************************************)
(* What NSB is for, without daemon, channels or clients: a payload that an *)
(* application sends goes out to the simulator, crosses the simulated      *)
(* network, comes back and is delivered.  It never skips a part of the way *)
(* and never turns back.  It may be lost anywhere before it is delivered,  *)
(* also several at a time.                                                 *)
(***************************************************************************)
CONSTANT Payload

VARIABLE stage      \* how far each payload has come

Stage == {"unsent", "outgoing", "network", "returning", "delivered", "lost"}

Onward(s) ==
    CASE s = "unsent" -> "outgoing"
      [] s = "outgoing" -> "network"
      [] s = "network" -> "returning"
      [] s = "returning" -> "delivered"

Init == stage = [p \in Payload |-> "unsent"]

Lossy(p) == stage'[p] = stage[p] \/ (stage[p] # "delivered" /\ stage'[p] = "lost")

(* Payload p comes one part of the way further. *)
Advance(p) ==
    /\ stage[p] \notin {"delivered", "lost"}
    /\ stage' \in [Payload -> Stage]
    /\ stage'[p] = Onward(stage[p])
    /\ \A q \in Payload \ {p} : Lossy(q)

Lose ==
    /\ stage' \in [Payload -> Stage]
    /\ \A q \in Payload : Lossy(q)

Next == Lose \/ \E p \in Payload : Advance(p)

Spec == Init /\ [][Next]_stage
=============================================================================
