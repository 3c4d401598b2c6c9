------------------------- MODULE EmailStateMachine -------------------------
(***************************************************************************)
(* The status machine of an email (threadline/state_machine.py): the four  *)
(* statuses, the transitions EMAIL_STATE_MACHINE lists and the test        *)
(* can_transition_to makes of them.  EmailMessage.save consults it before  *)
(* a write that changes the status; it lets a write that does not change   *)
(* the status through.                                                     *)
(***************************************************************************)

(* EmailStatus *)
Status == {"fetched", "processing", "success", "failed"}

(* EMAIL_STATE_MACHINE: the "next" list of every status *)
NextStates ==
  [fetched    |-> {"processing", "failed"},
   processing |-> {"success", "failed"},
   failed     |-> {"processing"},
   success    |-> {"processing"}]

CanTransitionTo(current, target) ==
  current \in Status /\ target \in NextStates[current]

(* The condition under which EmailMessage.save lets a write of "target" over *)
(* a row it has just read with status "current" through.                     *)
SaveAccepts(current, target) ==
  current # target => CanTransitionTo(current, target)
=============================================================================
