--------------------------- MODULE EventLifecycle ---------------------------
(***************************************************************************)
(* What the shadow log and the daemon promise about an event, without the  *)
(* way they keep the promise: an at-least-once work queue with leases.     *)
(* An event is logged once; a live daemon takes a pending event in hand    *)
(* (dispatched) and only an event in hand, or one it could not classify,   *)
(* is ever settled; an event in hand is never taken a second time; a       *)
(* settled event stays settled; when the daemon dies it loses what it had  *)
(* in hand, and dispatched events go back to pending.                      *)
(***************************************************************************)
EXTENDS Naturals

CONSTANT Events

VARIABLES
  status,  \* event_state.status of every event, "absent" before it is logged
  held     \* the events the running daemon has taken and not yet settled

lifecycleVars == <<status, held>>

Settled == {"completed", "failed"}

Init ==
  /\ status = [e \in Events |-> "absent"]
  /\ held = {}

Log(e) ==
  /\ status[e] = "absent"
  /\ status' = [status EXCEPT ![e] = "pending"]
  /\ UNCHANGED held

Take(e) ==
  /\ status[e] = "pending"
  /\ e \notin held
  /\ status' = [status EXCEPT ![e] = "dispatched"]
  /\ held' = held \cup {e}

Unclassifiable(e) ==
  /\ status[e] = "pending"
  /\ e \notin held
  /\ status' = [status EXCEPT ![e] = "failed"]
  /\ UNCHANGED held

Settle(e) ==
  /\ e \in held
  /\ status[e] \notin Settled
  /\ \E s \in Settled : status' = [status EXCEPT ![e] = s]
  /\ held' = held \ {e}

Reset(S) ==
  /\ \A e \in S : status[e] = "dispatched"
  /\ status' = [e \in Events |-> IF e \in S THEN "pending" ELSE status[e]]
  /\ UNCHANGED held

LoseHeld ==
  /\ held' = {}
  /\ UNCHANGED status

Next ==
  \/ \E e \in Events : Log(e) \/ Take(e) \/ Unclassifiable(e) \/ Settle(e)
  \/ \E S \in SUBSET Events : Reset(S)
  \/ LoseHeld

Spec == Init /\ [][Next]_lifecycleVars
=============================================================================
