--------------------------- MODULE CreditsAccount ---------------------------
(***************************************************************************)
(* What the credits of devify promise, without saying how: every user has  *)
(* a balance that is never overdrawn, a workflow is paid for under a key,  *)
(* a key is charged at most once, and a charge is given back at most once, *)
(* in full and to the user who paid it.  Plan changes, renewals and bonus  *)
(* grants set a balance to any other value that is not negative.           *)
(***************************************************************************)
EXTENDS Integers

CONSTANTS Users, Keys, Amounts

VARIABLES
  balance,    \* balance[u]: what user u can still spend
  charged,    \* the charges made: [key, user, amount]
  refunded    \* the keys whose charge was given back

vars == <<balance, charged, refunded>>

Charge == [key : Keys, user : Users, amount : Amounts]

TypeOK ==
  /\ balance \in [Users -> Nat]
  /\ charged \subseteq Charge
  /\ refunded \subseteq Keys

Init ==
  /\ balance \in [Users -> Nat]
  /\ charged = {}
  /\ refunded = {}

Pay(u, k, a) ==
  /\ \A c \in charged : c.key # k
  /\ balance[u] >= a
  /\ balance' = [balance EXCEPT ![u] = @ - a]
  /\ charged' = charged \cup {[key |-> k, user |-> u, amount |-> a]}
  /\ UNCHANGED refunded

GiveBack(c) ==
  /\ c.key \notin refunded
  /\ balance' = [balance EXCEPT ![c.user] = @ + c.amount]
  /\ refunded' = refunded \cup {c.key}
  /\ UNCHANGED charged

Adjust(u) ==
  /\ balance' \in [Users -> Nat]
  /\ \A v \in Users \ {u} : balance'[v] = balance[v]
  /\ UNCHANGED <<charged, refunded>>

Next ==
  \/ \E u \in Users, k \in Keys, a \in Amounts : Pay(u, k, a)
  \/ \E c \in charged : GiveBack(c)
  \/ \E u \in Users : Adjust(u)

Spec == Init /\ [][Next]_vars
=============================================================================
