---------------------------- MODULE CreditsLedger ----------------------------
(***************************************************************************)
(* The credits of devify: the active UserCredits row of every user (the    *)
(* wallet), the EmailCreditsTransaction rows with their unique             *)
(* idempotency_key, the runs of CreditsCheckNode that pay for a workflow,  *)
(* and everything else that writes a wallet: refunds, bonus grants, period *)
(* resets, plan changes and the payment check's repair                     *)
(* (billing/services/credits_service.py, subscription_service.py and       *)
(* payment_check/stripe.py, billing/tasks.py,                              *)
(* threadline/agents/nodes/credits_check_node.py).                         *)
(*                                                                         *)
(* A database transaction that locks the row it decides on is one action;  *)
(* a read made before the lock is an action of its own, so what it saw can *)
(* be stale when it is used.                                               *)
(***************************************************************************)
EXTENDS Integers, FiniteSets, FiniteSetsExt

CONSTANTS
  Users, Emails,
  Owner,         \* Owner[e]: the user whose email e is
  Runs,          \* executions of the credits node, each used once
  PlanWriters,   \* plan changes and repairs under way
  Amounts,       \* the values workflow_cost_credits takes
  PlanCredits,   \* the values credits_per_period takes
  FreeCredits,   \* default_free_credits
  None,          \* no key, no user
  MaxRows,       \* bound: EmailCreditsTransaction rows
  MaxBonus,      \* bound: bonus credits granted to one user
  MaxSecond      \* bound: the clock, in seconds

(* An idempotency key: email_{uuid}_workflow_execution, the same for every   *)
(* unforced run of the email, or email_{uuid}_retry_{second}.                *)
Keys == [email : Emails, kind : {"workflow", "retry"}, second : 0..MaxSecond]

WorkflowKey(e) == [email |-> e, kind |-> "workflow", second |-> 0]
RetryKey(e, s) == [email |-> e, kind |-> "retry", second |-> s]

ASSUME LedgerAssumption ==
  /\ Owner \in [Emails -> Users]
  /\ Amounts \subseteq Nat
  /\ PlanCredits \subseteq Nat
  /\ FreeCredits \in Nat
  /\ None \notin Keys \cup Users
  /\ MaxRows \in Nat /\ MaxBonus \in Nat /\ MaxSecond \in Nat

VARIABLES
  wallet,    \* the active UserCredits row of a user
  txns,      \* EmailCreditsTransaction; the key of a refund is its charge's
  serial,    \* the id the next row gets
  granted,   \* bonus credits granted to a user (CreditsTransaction rows)
  since,     \* history: the serial when a wallet was last reset
  stale,     \* history: wallets whose consumed_credits a repair overwrote
             \* with an older value, until they are reset
  second,    \* the clock a forced run reads
  run,       \* the local state of a run of the credits node
  plan       \* the local state of a plan change

vars == <<wallet, txns, serial, granted, since, stale, second, run, plan>>
rows == <<txns, serial>>
periods == <<since, stale>>

Wallet == [active : BOOLEAN, base : Nat, bonus : Nat, consumed : Int]

Row == [id : Nat, kind : {"consume", "refund"}, key : Keys, user : Users,
        amount : Amounts]

Run == [pc : {"idle", "check", "checkRefund", "lookup", "charge",
              "paid", "refused", "failed"},
        key : Keys \cup {None}, cost : Amounts \cup {0}, again : BOOLEAN]

Plan == [pc : {"idle", "loaded"}, user : Users \cup {None}, row : Wallet]

TypeOK ==
  /\ wallet \in [Users -> Wallet]
  /\ txns \subseteq Row
  /\ serial \in Nat
  /\ granted \in [Users -> Nat]
  /\ since \in [Users -> Nat]
  /\ stale \subseteq Users
  /\ second \in 0..MaxSecond
  /\ run \in [Runs -> Run]
  /\ plan \in [PlanWriters -> Plan]

(* UserCredits.available_credits *)
Available(u) == wallet[u].base + wallet[u].bonus - wallet[u].consumed

Charges == {t \in txns : t.kind = "consume"}
Refunds == {t \in txns : t.kind = "refund"}

(* Mutant of Charged: the lookup filters by user, not by key. *)
ChargedUser(k) == \E t \in Charges : t.user = Owner[k.email]

Charged(k) == \E t \in Charges : t.key = k
Refunded(k) == \E t \in Refunds : t.key = k

NoWallet == [active |-> FALSE, base |-> 0, bonus |-> 0, consumed |-> 0]
NoRun == [pc |-> "idle", key |-> None, cost |-> 0, again |-> FALSE]
NoPlan == [pc |-> "idle", user |-> None, row |-> NoWallet]

Init ==
  /\ wallet = [u \in Users |-> NoWallet]
  /\ txns = {}
  /\ serial = 0
  /\ granted = [u \in Users |-> 0]
  /\ since = [u \in Users |-> 0]
  /\ stale = {}
  /\ second = 0
  /\ run = [r \in Runs |-> NoRun]
  /\ plan = [p \in PlanWriters |-> NoPlan]
-----------------------------------------------------------------------------
(* The credits service *)

AddRow(kind, key, user, amount) ==
  /\ serial < MaxRows
  /\ txns' = txns \cup {[id |-> serial, kind |-> kind, key |-> key,
                         user |-> user, amount |-> amount]}
  /\ serial' = serial + 1

(* get_user_credits of a user without an active wallet *)
GetUserCredits(u) ==
  /\ ~wallet[u].active
  /\ wallet' = [wallet EXCEPT ![u] =
       [active |-> TRUE, base |-> FreeCredits, bonus |-> 0, consumed |-> 0]]
  /\ UNCHANGED <<rows, granted, periods, second, run, plan>>

(* Mutants of RefundCredits: a charge is refunded again; the price of today  *)
(* is refunded.                                                              *)
RefundAgain(t) ==
  /\ wallet' = [wallet EXCEPT ![t.user].consumed = @ - t.amount]
  /\ AddRow("refund", t.key, t.user, t.amount)
  /\ UNCHANGED <<granted, periods, second, run, plan>>

RefundPrice(t) ==
  /\ ~Refunded(t.key)
  /\ \E a \in Amounts :
       wallet' = [wallet EXCEPT ![t.user].consumed = @ - a]
  /\ AddRow("refund", t.key, t.user, t.amount)
  /\ UNCHANGED <<granted, periods, second, run, plan>>

(* refund_credits: the charge's row is locked, so two refunds of one charge  *)
(* follow one another.                                                       *)
RefundCredits(t) ==
  /\ ~Refunded(t.key)
  /\ wallet' = [wallet EXCEPT ![t.user].consumed = @ - t.amount]
  /\ AddRow("refund", t.key, t.user, t.amount)
  /\ UNCHANGED <<granted, periods, second, run, plan>>

NewPeriod(u) ==
  /\ since' = [since EXCEPT ![u] = serial]
  /\ stale' = stale \ {u}

(* reset_period_credits of an active wallet; a wallet without a plan gets a  *)
(* base of 0.                                                                *)
ResetPeriodCredits(u) ==
  /\ wallet[u].active
  /\ \E b \in PlanCredits \cup {0} :
       wallet' = [wallet EXCEPT ![u] =
         [active |-> TRUE, base |-> b, bonus |-> wallet[u].bonus,
          consumed |-> 0]]
  /\ NewPeriod(u)
  /\ UNCHANGED <<rows, granted, second, run, plan>>

(* grant_bonus_credits: creates the wallet when there is none *)
GrantBonusCredits(u) ==
  /\ granted[u] < MaxBonus
  /\ granted' = [granted EXCEPT ![u] = @ + 1]
  /\ wallet' = [wallet EXCEPT ![u] =
       IF wallet[u].active THEN [wallet[u] EXCEPT !.bonus = @ + 1]
       ELSE [active |-> TRUE, base |-> FreeCredits, bonus |-> 1,
             consumed |-> 0]]
  /\ UNCHANGED <<rows, periods, second, run, plan>>
-----------------------------------------------------------------------------
(* Plan changes (switch_plan_for_user, create_subscription,                  *)
(* sync_from_djstripe, the downgrade task) and the repair of the payment     *)
(* check: the wallet is loaded without a lock, fields are assigned and the   *)
(* whole row is saved, with the values loaded for the other columns.  A plan *)
(* change starts a period, at the latest with reset_period_credits in the    *)
(* transaction of the save.                                                  *)

PlanLoad(p, u) ==
  /\ plan[p].pc = "idle"
  /\ wallet[u].active
  /\ plan' = [plan EXCEPT ![p] =
       [pc |-> "loaded", user |-> u, row |-> wallet[u]]]
  /\ UNCHANGED <<wallet, rows, granted, periods, second, run>>

PlanSave(p) ==
  LET u == plan[p].user IN
  /\ plan[p].pc = "loaded"
  /\ \E b \in PlanCredits :
       wallet' = [wallet EXCEPT ![u] =
         [active |-> TRUE, base |-> b, bonus |-> plan[p].row.bonus,
          consumed |-> 0]]
  /\ NewPeriod(u)
  /\ plan' = [plan EXCEPT ![p] = NoPlan]
  /\ UNCHANGED <<rows, granted, second, run>>

(* The repair assigns subscription and customer only: credits and            *)
(* consumption go back to what they were at the load.  A reset, of an active *)
(* subscription, follows in a transaction of its own.                        *)
RepairSave(p) ==
  LET u == plan[p].user IN
  /\ plan[p].pc = "loaded"
  /\ wallet' = [wallet EXCEPT ![u] = plan[p].row]
  /\ stale' = stale \cup {v \in {u} : wallet[v].consumed # plan[p].row.consumed}
  /\ plan' = [plan EXCEPT ![p] = NoPlan]
  /\ UNCHANGED <<rows, granted, since, second, run>>
-----------------------------------------------------------------------------
(* A run of CreditsCheckNode *)

Tick ==
  /\ second < MaxSecond
  /\ second' = second + 1
  /\ UNCHANGED <<wallet, rows, granted, periods, run, plan>>

(* The node reads the price and names its key; a forced run skips the check  *)
(* for an earlier charge.                                                    *)
Begin(r, e, force) ==
  /\ run[r].pc = "idle"
  /\ \E a \in Amounts :
       run' = [run EXCEPT ![r] =
         [pc |-> IF force THEN "lookup" ELSE "check",
          key |-> IF force THEN RetryKey(e, second) ELSE WorkflowKey(e),
          cost |-> a, again |-> FALSE]]
  /\ UNCHANGED <<wallet, rows, granted, periods, second, plan>>

(* Was this email charged before? *)
CheckCharge(r) ==
  /\ run[r].pc = "check"
  /\ run' = [run EXCEPT ![r].pc =
       IF Charged(run[r].key) THEN "checkRefund" ELSE "lookup"]
  /\ UNCHANGED <<wallet, rows, granted, periods, second, plan>>

(* Is there a refund of this email, of whichever charge, that is younger     *)
(* than that charge?  If not the charge is reused (scenario A); if so the    *)
(* node goes on to charge again (scenario B).                                *)
RefundSince(k) ==
  \E c \in Charges, t \in Refunds :
    c.key = k /\ t.key.email = k.email /\ t.id > c.id

CheckRefund(r) ==
  /\ run[r].pc = "checkRefund"
  /\ \/ /\ RefundSince(run[r].key)
        /\ run' = [run EXCEPT ![r] =
             [pc |-> "lookup", key |-> run[r].key, cost |-> run[r].cost,
              again |-> TRUE]]
     \/ /\ ~RefundSince(run[r].key)
        /\ run' = [run EXCEPT ![r].pc = "paid"]
  /\ UNCHANGED <<wallet, rows, granted, periods, second, plan>>

(* consume_credits, before the lock: a row with this key is the answer *)
ConsumeLookup(r) ==
  /\ run[r].pc = "lookup"
  /\ run' = [run EXCEPT ![r].pc =
       IF Charged(run[r].key) THEN "paid" ELSE "charge"]
  /\ UNCHANGED <<wallet, rows, granted, periods, second, plan>>

(* Mutant of Affords: something left is enough. *)
HasCredits(u, cost) == Available(u) > 0

Affords(u, cost) == Available(u) >= cost

(* Mutant of KeyIsFree: idempotency_key is not unique. *)
AnyKeyIsFree(k) == TRUE

(* The unique constraint on idempotency_key *)
KeyIsFree(k) == ~Charged(k)

(* consume_credits, under the lock of the wallet.  InsufficientCreditsError  *)
(* refuses the run; a missing wallet or a key that another run has inserted  *)
(* meanwhile (IntegrityError) fails it and rolls the update back.            *)
ConsumeCharge(r) ==
  LET k == run[r].key
      u == Owner[k.email]
  IN
  /\ run[r].pc = "charge"
  /\ \/ /\ ~wallet[u].active
        /\ run' = [run EXCEPT ![r].pc = "failed"]
        /\ UNCHANGED <<wallet, rows>>
     \/ /\ wallet[u].active
        /\ ~Affords(u, run[r].cost)
        /\ run' = [run EXCEPT ![r].pc = "refused"]
        /\ UNCHANGED <<wallet, rows>>
     \/ /\ wallet[u].active
        /\ Affords(u, run[r].cost)
        /\ ~KeyIsFree(k)
        /\ run' = [run EXCEPT ![r].pc = "failed"]
        /\ UNCHANGED <<wallet, rows>>
     \/ /\ wallet[u].active
        /\ Affords(u, run[r].cost)
        /\ KeyIsFree(k)
        /\ wallet' = [wallet EXCEPT ![u].consumed = @ + run[r].cost]
        /\ AddRow("consume", k, u, run[r].cost)
        /\ run' = [run EXCEPT ![r].pc = "paid"]
  /\ UNCHANGED <<granted, periods, second, plan>>
-----------------------------------------------------------------------------
RunStep(r) ==
  \/ \E e \in Emails, force \in BOOLEAN : Begin(r, e, force)
  \/ CheckCharge(r)
  \/ CheckRefund(r)
  \/ ConsumeLookup(r)
  \/ ConsumeCharge(r)

ServiceStep ==
  \/ \E u \in Users :
       GetUserCredits(u) \/ ResetPeriodCredits(u) \/ GrantBonusCredits(u)
  \/ \E t \in Charges : RefundCredits(t)

PlanStep(p) == (\E u \in Users : PlanLoad(p, u)) \/ PlanSave(p) \/ RepairSave(p)

Next ==
  \/ \E r \in Runs : RunStep(r)
  \/ ServiceStep
  \/ \E p \in PlanWriters : PlanStep(p)
  \/ Tick

Spec == Init /\ [][Next]_vars
-----------------------------------------------------------------------------
(* Properties *)

(* No interleaving of runs, refunds, renewals, grants, plan changes and      *)
(* repairs leaves a user with less than no credits: the check                *)
(* consume_credits makes under the lock is still true when the amount is     *)
(* taken.                                                                    *)
NeverOverdrawn == \A u \in Users : Available(u) >= 0

(* However many runs of an email race, a key pays once: the lookup without a *)
(* lock, the unique key and the rollback together keep a single charge.      *)
OneChargePerKey ==
  \A s, t \in Charges : s.key = t.key => s = t

(* A refund gives back one charge that was made, to the user who paid it and *)
(* in full, though the price may have changed since; no charge is given back *)
(* twice.                                                                    *)
RefundsMatchCharges ==
  /\ \A t \in Refunds :
       \E c \in Charges :
         /\ c.key = t.key /\ c.id < t.id
         /\ c.user = t.user /\ c.amount = t.amount
  /\ \A s, t \in Refunds : s.key = t.key => s = t

(* The wallet agrees with the ledger: consumed_credits is what was charged   *)
(* since the wallet was last reset less what was refunded since then.  A     *)
(* charge that failed after the update (rolled back) or a refund counted     *)
(* twice would break it, and so does the one lost update there is: a repair  *)
(* of the payment check that was loaded before a charge, a refund or a reset *)
(* and saved after it, until the next reset.                                 *)
Total(S) == MapThenSumSet(LAMBDA t : t.amount, S)
LedgerBalances ==
  \A u \in Users \ stale :
    LET period == {t \in txns : t.user = u /\ t.id >= since[u]} IN
    wallet[u].consumed = Total(period \cap Charges) - Total(period \cap Refunds)

(* A run that goes on to the workflow can show the charge it goes on with:   *)
(* a row of its own email, paid by the email's owner.                        *)
PaidRunsHoldCharge ==
  \A r \in Runs :
    run[r].pc = "paid" =>
      \E c \in Charges :
        c.key = run[r].key /\ c.user = Owner[run[r].key.email]

(* The ledger is an implementation of CreditsAccount.                        *)
Account == INSTANCE CreditsAccount WITH
  balance <- [u \in Users |-> Available(u)],
  charged <- {[key |-> c.key, user |-> c.user, amount |-> c.amount] :
                c \in Charges},
  refunded <- {t.key : t \in Refunds}
AccountSpec == Account!Spec
=============================================================================
