------------------------------ MODULE Delivery ------------------------------
(***************************************************************************)
(* What client.Pull promises its caller, with no server, wire or buffer:   *)
(* the paths worth downloading are first collected; they are then asked    *)
(* for group by group, a new group only when all of the last was           *)
(* delivered; success is reported only when every one of them was.         *)
(***************************************************************************)
CONSTANT Path

VARIABLES
  wanted,     \* paths the diff found
  asked,      \* paths requested so far
  delivered,  \* paths whose delivery was acknowledged
  outcome     \* "running", "ok" or "failed"

vars == <<wanted, asked, delivered, outcome>>

Init ==
  /\ wanted = {}
  /\ asked = {}
  /\ delivered = {}
  /\ outcome = "running"

Want(p) ==
  /\ outcome = "running" /\ asked = {}
  /\ wanted' = wanted \cup {p}
  /\ UNCHANGED <<asked, delivered, outcome>>

Ask ==
  /\ outcome = "running" /\ delivered = asked
  /\ \E group \in SUBSET (wanted \ asked) :
       group # {} /\ asked' = asked \cup group
  /\ UNCHANGED <<wanted, delivered, outcome>>

Deliver(p) ==
  /\ outcome = "running" /\ p \in asked \ delivered
  /\ delivered' = delivered \cup {p}
  /\ UNCHANGED <<wanted, asked, outcome>>

Succeed ==
  /\ outcome = "running" /\ delivered = wanted
  /\ outcome' = "ok"
  /\ UNCHANGED <<wanted, asked, delivered>>

Fail ==
  /\ outcome = "running"
  /\ outcome' = "failed"
  /\ UNCHANGED <<wanted, asked, delivered>>

Next ==
  \/ \E p \in Path : Want(p) \/ Deliver(p)
  \/ Ask \/ Succeed \/ Fail

Spec == Init /\ [][Next]_vars
=============================================================================
