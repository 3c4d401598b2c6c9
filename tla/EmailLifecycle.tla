--------------------------- MODULE EmailLifecycle ---------------------------
(***************************************************************************)
(* What a user may count on when nothing interferes with the pipeline: an  *)
(* email moves along the status machine, its results are stored and its    *)
(* relay event is published while it is PROCESSING, in this order, and it  *)
(* is a SUCCESS only with its results.                                     *)
(***************************************************************************)
EXTENDS EmailStateMachine

CONSTANT Emails

VARIABLES
  status,   \* a Status, or "unfetched" or "deleted"
  synced,   \* the emails the results of whose last run are stored
  event     \* the emails whose relay event is published

vars == <<status, synced, event>>

Init ==
  /\ status = [e \in Emails |-> "unfetched"]
  /\ synced = {}
  /\ event = {}

Become(e, s) ==
  /\ status' = [status EXCEPT ![e] = s]
  /\ UNCHANGED <<synced, event>>

Fetch(e) == status[e] = "unfetched" /\ Become(e, "fetched")

(* A retry marks the email.  Its workflow, when it begins, marks it again    *)
(* and the results of an earlier run no longer count.                        *)
Mark(e) == CanTransitionTo(status[e], "processing") /\ Become(e, "processing")

Begin(e) ==
  /\ SaveAccepts(status[e], "processing")
  /\ status' = [status EXCEPT ![e] = "processing"]
  /\ synced' = synced \ {e}
  /\ UNCHANGED event

Store(e) ==
  /\ status[e] = "processing"
  /\ synced' = synced \cup {e}
  /\ UNCHANGED <<status, event>>

Announce(e) ==
  /\ status[e] = "processing"
  /\ e \in synced
  /\ event' = event \cup {e}
  /\ UNCHANGED <<status, synced>>

Succeed(e) ==
  /\ CanTransitionTo(status[e], "success")
  /\ e \in synced
  /\ Become(e, "success")

Fail(e) == CanTransitionTo(status[e], "failed") /\ Become(e, "failed")

Delete(e) == status[e] \in Status /\ Become(e, "deleted")

Next ==
  \E e \in Emails :
    \/ Fetch(e) \/ Mark(e) \/ Begin(e) \/ Store(e) \/ Announce(e)
    \/ Succeed(e) \/ Fail(e) \/ Delete(e)

Spec == Init /\ [][Next]_vars
=============================================================================
