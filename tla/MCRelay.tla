------------------------------- MODULE MCRelay -------------------------------
(***************************************************************************)
(* An instance of Relay for TLC: an email and another one merged into it.  *)
(***************************************************************************)
EXTENDS Relay

CONSTANTS e1, e2, s1, s2, w1, w2

First(e) == [email |-> e, retried |-> FALSE]
Again(e) == [email |-> e, retried |-> TRUE]

(* One worker for an email and its retry, for two merged emails, and for two *)
(* subscriptions; two workers for one email.                                 *)
FourScenes ==
  {[staff |-> {w1}, subs |-> {s1}, runs |-> <<First(e1), Again(e1)>>],
   [staff |-> {w1}, subs |-> {s1}, runs |-> <<First(e1), First(e2)>>],
   [staff |-> {w1}, subs |-> {s1, s2}, runs |-> <<First(e1)>>],
   [staff |-> {w1, w2}, subs |-> {s1}, runs |-> <<First(e1)>>]}

Child == (e1 :> None) @@ (e2 :> e1)
Order == <<s1, s2>>

(* The defaults of resolve_delivery_plan. *)
Defaults == [s \in Subs |-> [explicit |-> None, auto |-> "new",
                             retry |-> "update", manual |-> "linked"]]
=============================================================================
