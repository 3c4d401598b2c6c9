------------------------- MODULE CreditsLedgerProofs -------------------------
(***************************************************************************)
(* Proofs about CreditsLedger, for any users, emails, runs, plan changes,  *)
(* prices and bounds.                                                      *)
(*                                                                         *)
(* The inductive invariants: TypeInv adds to the type invariant what a run *)
(* and a plan change know (RunsWellFormed); LoadedSolvent says that a      *)
(* wallet somebody is about to write back was not overdrawn; LedgerInv     *)
(* says besides the safety invariants that every row has an id below the   *)
(* serial and that a charge is filed under the owner of its email;         *)
(* SawCharge is what a run past its lookups has seen.                      *)
(***************************************************************************)
EXTENDS CreditsLedger, FiniteSetTheorems, WellFoundedInduction, TLAPS

USE LedgerAssumption

(* What the local state of a process says while it is under way. *)
RunsWellFormed ==
  /\ \A r \in Runs : run[r].pc # "idle" =>
       run[r].key \in Keys /\ run[r].cost \in Amounts
  /\ \A p \in PlanWriters : plan[p].pc = "loaded" =>
       plan[p].user \in Users /\ plan[p].row.active

(* A run that is past its lookups has seen a charge under its key. *)
SawCharge ==
  \A r \in Runs : run[r].pc \in {"checkRefund", "paid"} => Charged(run[r].key)

RowsBelowSerial == \A t \in txns : t.id < serial

ChargesOwned == \A t \in Charges : t.user = Owner[t.key.email]

TypeInv == TypeOK /\ RunsWellFormed

(* The keys a run names are keys. *)
LEMMA KeysAreKeys ==
  \A e \in Emails, s \in 0..MaxSecond :
    WorkflowKey(e) \in Keys /\ RetryKey(e, s) \in Keys
BY DEF WorkflowKey, RetryKey, Keys

LEMMA TypeInit == Init => TypeInv
BY DEF Init, TypeInv, TypeOK, RunsWellFormed, NoWallet, NoRun, NoPlan,
       Wallet, Run, Plan

LEMMA TypeStep == TypeInv /\ [Next]_vars => TypeInv'
<1> SUFFICES ASSUME TypeInv, [Next]_vars PROVE TypeInv'
  OBVIOUS
<1> USE DEF TypeInv, TypeOK, RunsWellFormed, periods
<1>1. ASSUME NEW u \in Users, GetUserCredits(u) PROVE TypeInv'
  BY <1>1 DEF GetUserCredits, Wallet, rows
<1>2. ASSUME NEW u \in Users, ResetPeriodCredits(u) PROVE TypeInv'
  <2>1. PICK b \in PlanCredits \cup {0} :
          wallet' = [wallet EXCEPT ![u] =
            [active |-> TRUE, base |-> b, bonus |-> wallet[u].bonus,
             consumed |-> 0]]
    BY <1>2 DEF ResetPeriodCredits
  <2>2. b \in Nat
    BY PlanCredits \subseteq Nat
  <2>3. wallet' \in [Users -> Wallet]
    BY <2>1, <2>2 DEF Wallet
  <2>4. QED
    BY <1>2, <2>3 DEF ResetPeriodCredits, NewPeriod, rows
<1>3. ASSUME NEW u \in Users, GrantBonusCredits(u) PROVE TypeInv'
  BY <1>3 DEF GrantBonusCredits, Wallet, rows
<1>4. ASSUME NEW t \in Charges, RefundCredits(t) PROVE TypeInv'
  BY <1>4 DEF RefundCredits, AddRow, Charges, Row, Wallet
<1>5. ASSUME NEW p \in PlanWriters, NEW u \in Users, PlanLoad(p, u)
      PROVE TypeInv'
  BY <1>5 DEF PlanLoad, Plan, Wallet, rows
<1>6. ASSUME NEW p \in PlanWriters, PlanSave(p) PROVE TypeInv'
  BY <1>6 DEF PlanSave, NewPeriod, Plan, NoPlan, NoWallet, Wallet, rows
<1>15. ASSUME NEW p \in PlanWriters, RepairSave(p) PROVE TypeInv'
  BY <1>15 DEF RepairSave, Plan, NoPlan, NoWallet, Wallet, rows
<1>7. ASSUME NEW r \in Runs, NEW e \in Emails, NEW force \in BOOLEAN,
             Begin(r, e, force)
      PROVE TypeInv'
  <2>1. PICK a \in Amounts :
          run' = [run EXCEPT ![r] =
            [pc |-> IF force THEN "lookup" ELSE "check",
             key |-> IF force THEN RetryKey(e, second) ELSE WorkflowKey(e),
             cost |-> a, again |-> FALSE]]
    BY <1>7 DEF Begin
  <2>2. RetryKey(e, second) \in Keys /\ WorkflowKey(e) \in Keys
    BY KeysAreKeys
  <2>3. /\ run'[r].pc \in {"lookup", "check"}
        /\ run'[r].key \in Keys
        /\ run'[r].cost \in Amounts
        /\ run'[r] \in Run
    BY <2>1, <2>2 DEF Run
  <2>4. run' \in [Runs -> Run] /\ \A q \in Runs \ {r} : run'[q] = run[q]
    BY <2>1, <2>3
  <2>5. QED
    BY <1>7, <2>3, <2>4 DEF Begin, rows
<1>8. ASSUME NEW r \in Runs, CheckCharge(r) PROVE TypeInv'
  BY <1>8 DEF CheckCharge, Run, rows
<1>9. ASSUME NEW r \in Runs, CheckRefund(r) PROVE TypeInv'
  <2>1. CASE run' = [run EXCEPT ![r].pc = "paid"]
    BY <1>9, <2>1 DEF CheckRefund, Run, rows
  <2>2. CASE run' = [run EXCEPT ![r] =
               [pc |-> "lookup", key |-> run[r].key, cost |-> run[r].cost,
                again |-> TRUE]]
    BY <1>9, <2>2 DEF CheckRefund, Run, rows
  <2>3. QED
    BY <1>9, <2>1, <2>2 DEF CheckRefund
<1>10. ASSUME NEW r \in Runs, ConsumeLookup(r) PROVE TypeInv'
  BY <1>10 DEF ConsumeLookup, Run, rows
<1>11. ASSUME NEW r \in Runs, ConsumeCharge(r) PROVE TypeInv'
  <2> DEFINE k == run[r].key
             u == Owner[k.email]
  <2>1. k \in Keys /\ u \in Users /\ run[r].cost \in Amounts
    BY <1>11 DEF ConsumeCharge, Affords, KeyIsFree, Keys
  <2>2. CASE UNCHANGED <<wallet, rows>>
    <3>1. \E pc \in {"failed", "refused", "paid"} :
            run' = [run EXCEPT ![r].pc = pc]
      BY <1>11 DEF ConsumeCharge, Affords, KeyIsFree
    <3>2. PICK pc \in {"failed", "refused", "paid"} :
            run' = [run EXCEPT ![r].pc = pc]
      BY <3>1
    <3>3. run' \in [Runs -> Run]
      BY <3>2 DEF Run
    <3>4. \A q \in Runs : run'[q].key = run[q].key /\ run'[q].cost = run[q].cost
      BY <3>2 DEF Run
    <3>5. run[r].pc # "idle" /\ \A q \in Runs \ {r} : run'[q] = run[q]
      BY <1>11, <3>2 DEF ConsumeCharge, Affords, KeyIsFree
    <3>6. UNCHANGED <<wallet, txns, serial, granted, since, stale, second, plan>>
      BY <1>11, <2>2 DEF ConsumeCharge, Affords, KeyIsFree, rows
    <3>7. QED
      BY <3>3, <3>4, <3>5, <3>6
  <2>3. CASE /\ wallet' = [wallet EXCEPT ![u].consumed = @ + run[r].cost]
             /\ AddRow("consume", k, u, run[r].cost)
             /\ run' = [run EXCEPT ![r].pc = "paid"]
    <3>1. wallet' \in [Users -> Wallet]
      <4> DEFINE cost == run[r].cost
      <4>1. u \in Users /\ cost \in Int /\ wallet' = [wallet EXCEPT ![u].consumed = @ + cost]
        BY <2>1, <2>3
      <4>2. wallet \in [Users -> Wallet]
        OBVIOUS
      <4> HIDE DEF u, cost, TypeInv
      <4>3. QED
        BY <4>1, <4>2 DEF Wallet
    <3>2. txns' \subseteq Row /\ serial' \in Nat
      BY <2>1, <2>3 DEF AddRow, Row
    <3>3. run' \in [Runs -> Run]
      BY <2>3 DEF Run
    <3>4. RunsWellFormed'
      <4>1. /\ run[r].pc # "idle" /\ run'[r].key = run[r].key /\ run'[r].cost = run[r].cost
            /\ \A q \in Runs \ {r} : run'[q] = run[q]
        BY <1>11, <2>3 DEF ConsumeCharge, Run
      <4>2. UNCHANGED plan
        BY <1>11 DEF ConsumeCharge
      <4>3. QED
        BY <4>1, <4>2
    <3>5. QED
      BY <1>11, <3>1, <3>2, <3>3, <3>4 DEF ConsumeCharge, Affords, KeyIsFree
  <2>4. QED
    BY <1>11, <2>2, <2>3 DEF ConsumeCharge, Affords, KeyIsFree
<1>12. CASE Tick
  BY <1>12 DEF Tick, rows
<1>13. CASE UNCHANGED vars
  BY <1>13 DEF vars
<1>14. QED
  BY <1>1, <1>2, <1>3, <1>4, <1>5, <1>6, <1>7, <1>8, <1>9, <1>10, <1>11,
     <1>12, <1>13, <1>15 DEF Next, RunStep, ServiceStep, PlanStep

(* Every state of the ledger is well typed. *)
THEOREM TypeCorrect == Spec => []TypeOK
<1>1. TypeInv => TypeOK
  BY DEF TypeInv
<1>2. QED
  BY TypeInit, TypeStep, <1>1, PTL DEF Spec
-----------------------------------------------------------------------------
(* The lock of the wallet: what is taken was there when it was taken.        *)
(* A wallet that is written back as it was loaded was not overdrawn then.    *)
LoadedSolvent ==
  \A p \in PlanWriters : plan[p].pc = "loaded" =>
    plan[p].row.base + plan[p].row.bonus - plan[p].row.consumed >= 0

LEMMA BalanceInit == Init => NeverOverdrawn /\ LoadedSolvent
BY DEF Init, NeverOverdrawn, Available, NoWallet, LoadedSolvent, NoPlan

LEMMA LoadedStep ==
  TypeInv /\ NeverOverdrawn /\ LoadedSolvent /\ [Next]_vars => LoadedSolvent'
<1> SUFFICES ASSUME TypeInv, NeverOverdrawn, LoadedSolvent, [Next]_vars
             PROVE  LoadedSolvent'
  OBVIOUS
<1>0. plan \in [PlanWriters -> Plan]
  BY DEF TypeInv, TypeOK
<1>1. CASE plan' = plan
  BY <1>1 DEF LoadedSolvent
<1>2. ASSUME NEW p \in PlanWriters, NEW u \in Users, PlanLoad(p, u)
      PROVE  LoadedSolvent'
  <2>1. plan' = [plan EXCEPT ![p] = [pc |-> "loaded", user |-> u, row |-> wallet[u]]]
    BY <1>2 DEF PlanLoad
  <2>2. wallet[u].base + wallet[u].bonus - wallet[u].consumed >= 0
    BY DEF NeverOverdrawn, Available
  <2> QED BY <1>0, <2>1, <2>2 DEF LoadedSolvent
<1>3. ASSUME NEW p \in PlanWriters, PlanSave(p) \/ RepairSave(p)
      PROVE  LoadedSolvent'
  <2>1. plan' = [plan EXCEPT ![p] = NoPlan]
    BY <1>3 DEF PlanSave, RepairSave
  <2> QED BY <1>0, <2>1 DEF LoadedSolvent, NoPlan
<1> QED
  BY <1>1, <1>2, <1>3
  DEF Next, RunStep, ServiceStep, PlanStep, vars, Begin, CheckCharge,
      CheckRefund, ConsumeLookup, ConsumeCharge, Tick, GetUserCredits,
      ResetPeriodCredits, GrantBonusCredits, RefundCredits

LEMMA BalanceStep ==
  TypeInv /\ NeverOverdrawn /\ LoadedSolvent /\ [Next]_vars => NeverOverdrawn'
<1> SUFFICES ASSUME TypeInv, NeverOverdrawn, LoadedSolvent, [Next]_vars
             PROVE  NeverOverdrawn'
  OBVIOUS
<1> USE DEF NeverOverdrawn, Available
<1>0. wallet \in [Users -> Wallet] /\ txns \subseteq Row
  BY DEF TypeInv, TypeOK
<1>1. CASE wallet' = wallet
  BY <1>1
<1>2. ASSUME NEW u \in Users, GetUserCredits(u) PROVE NeverOverdrawn'
  BY <1>0, <1>2 DEF GetUserCredits, Wallet
<1>3. ASSUME NEW u \in Users, ResetPeriodCredits(u) PROVE NeverOverdrawn'
  BY <1>0, <1>3 DEF ResetPeriodCredits, Wallet
<1>4. ASSUME NEW u \in Users, GrantBonusCredits(u) PROVE NeverOverdrawn'
  BY <1>0, <1>4 DEF GrantBonusCredits, Wallet
<1>5. ASSUME NEW t \in Charges, RefundCredits(t) PROVE NeverOverdrawn'
  BY <1>0, <1>5 DEF RefundCredits, Charges, Row, Wallet
<1>6. ASSUME NEW p \in PlanWriters, PlanSave(p) PROVE NeverOverdrawn'
  BY <1>0, <1>6 DEF PlanSave, Wallet, TypeInv, TypeOK, RunsWellFormed, Plan
<1>9. ASSUME NEW p \in PlanWriters, RepairSave(p) PROVE NeverOverdrawn'
  BY <1>0, <1>9 DEF RepairSave, LoadedSolvent
<1>7. ASSUME NEW r \in Runs, ConsumeCharge(r), wallet' # wallet
      PROVE  NeverOverdrawn'
  <2> DEFINE u == Owner[run[r].key.email]
  <2>1. run[r].key \in Keys /\ run[r].cost \in Nat
    BY <1>7 DEF ConsumeCharge, Affords, KeyIsFree, TypeInv, RunsWellFormed
  <2>2. u \in Users
    BY <2>1 DEF Keys
  <2>3. /\ Available(u) >= run[r].cost
        /\ wallet' = [wallet EXCEPT ![u].consumed = @ + run[r].cost]
    BY <1>7 DEF ConsumeCharge, Affords, KeyIsFree
  <2>4. /\ wallet'[u].base = wallet[u].base
        /\ wallet'[u].bonus = wallet[u].bonus
        /\ wallet'[u].consumed = wallet[u].consumed + run[r].cost
    BY <1>0, <2>2, <2>3 DEF Wallet
  <2>5. \A v \in Users \ {u} : wallet'[v] = wallet[v]
    BY <1>0, <2>2, <2>3
  <2>6. /\ wallet[u].base \in Nat /\ wallet[u].bonus \in Nat
        /\ wallet[u].consumed \in Int
    BY <1>0, <2>2 DEF Wallet
  <2>7. wallet'[u].base + wallet'[u].bonus - wallet'[u].consumed >= 0
    <3>1. wallet[u].base + wallet[u].bonus - wallet[u].consumed >= run[r].cost
      BY <2>3
    <3>2. wallet[u].base + wallet[u].bonus
            - (wallet[u].consumed + run[r].cost) >= 0
      BY <2>1, <2>6, <3>1
    <3>3. QED
      BY <2>4, <3>2
  <2>8. QED
    BY <2>5, <2>7
<1>8. QED
  BY <1>1, <1>2, <1>3, <1>4, <1>5, <1>6, <1>7, <1>9
  DEF Next, RunStep, ServiceStep, PlanStep, vars, PlanLoad, Begin,
      CheckCharge, CheckRefund, ConsumeLookup, Tick

(* No interleaving overdraws a wallet, whatever the prices and the plans.    *)
THEOREM BalancesNeverOverdrawn == Spec => []NeverOverdrawn
BY TypeInit, TypeStep, BalanceInit, BalanceStep, LoadedStep, PTL DEF Spec
-----------------------------------------------------------------------------
(* The rows: how the set of transactions can change.                         *)
LEMMA RowsStep ==
  ASSUME TypeInv, [Next]_vars
  PROVE  \/ UNCHANGED <<txns, serial>>
         \/ \E t \in Charges :
              /\ ~Refunded(t.key)
              /\ AddRow("refund", t.key, t.user, t.amount)
         \/ \E r \in Runs :
              /\ run[r].key \in Keys /\ ~Charged(run[r].key)
              /\ AddRow("consume", run[r].key, Owner[run[r].key.email],
                        run[r].cost)
<1>1. ASSUME NEW r \in Runs, ConsumeCharge(r)
      PROVE  \/ UNCHANGED rows
             \/ /\ run[r].key \in Keys /\ ~Charged(run[r].key)
                /\ AddRow("consume", run[r].key, Owner[run[r].key.email],
                          run[r].cost)
  BY <1>1 DEF ConsumeCharge, Affords, KeyIsFree, TypeInv, RunsWellFormed
<1>2. ASSUME NEW t \in Charges, RefundCredits(t)
      PROVE  ~Refunded(t.key) /\ AddRow("refund", t.key, t.user, t.amount)
  BY <1>2 DEF RefundCredits
<1>3. QED
  BY <1>1, <1>2
  DEF Next, RunStep, ServiceStep, PlanStep, vars, rows, PlanLoad, PlanSave,
      RepairSave, Begin, CheckCharge, CheckRefund, ConsumeLookup, Tick, GetUserCredits,
      ResetPeriodCredits, GrantBonusCredits

LedgerInv ==
  /\ RowsBelowSerial
  /\ ChargesOwned
  /\ OneChargePerKey
  /\ RefundsMatchCharges

LEMMA LedgerInit == Init => LedgerInv
BY DEF Init, LedgerInv, RowsBelowSerial, ChargesOwned, OneChargePerKey,
       RefundsMatchCharges, Charges, Refunds

LEMMA LedgerStep == TypeInv /\ LedgerInv /\ [Next]_vars => LedgerInv'
<1> SUFFICES ASSUME TypeInv, LedgerInv, [Next]_vars PROVE LedgerInv'
  OBVIOUS
<1> USE DEF LedgerInv, RowsBelowSerial, ChargesOwned, OneChargePerKey,
            RefundsMatchCharges, Charges, Refunds
<1>0. txns \subseteq Row /\ serial \in Nat
  BY DEF TypeInv, TypeOK
<1>1. CASE UNCHANGED <<txns, serial>>
  BY <1>1
<1>2. ASSUME NEW c \in Charges, ~Refunded(c.key),
             AddRow("refund", c.key, c.user, c.amount)
      PROVE  LedgerInv'
  <2> DEFINE row == [id |-> serial, kind |-> "refund", key |-> c.key,
                     user |-> c.user, amount |-> c.amount]
  <2>1. txns' = txns \cup {row} /\ serial' = serial + 1
    BY <1>2 DEF AddRow
  <2>2. Charges' = Charges /\ Refunds' = Refunds \cup {row}
    BY <2>1
  <2>3. RowsBelowSerial'
    BY <1>0, <2>1 DEF Row
  <2>4. ChargesOwned' /\ OneChargePerKey'
    BY <2>2
  <2>5. c.id < serial /\ \A t \in Refunds : t.key # c.key
    BY <1>2 DEF Refunded
  <2>6. RefundsMatchCharges'
    BY <2>2, <2>5
  <2>7. QED
    BY <2>3, <2>4, <2>6
<1>3. ASSUME NEW r \in Runs, run[r].key \in Keys, ~Charged(run[r].key),
             AddRow("consume", run[r].key, Owner[run[r].key.email],
                    run[r].cost)
      PROVE  LedgerInv'
  <2> DEFINE row == [id |-> serial, kind |-> "consume", key |-> run[r].key,
                     user |-> Owner[run[r].key.email], amount |-> run[r].cost]
  <2>1. txns' = txns \cup {row} /\ serial' = serial + 1
    BY <1>3 DEF AddRow
  <2>2. Charges' = Charges \cup {row} /\ Refunds' = Refunds
    BY <2>1
  <2>3. RowsBelowSerial'
    BY <1>0, <2>1 DEF Row
  <2>4. ChargesOwned' /\ OneChargePerKey'
    BY <1>3, <2>2 DEF Charged
  <2>5. RefundsMatchCharges'
    BY <2>2
  <2>6. QED
    BY <2>3, <2>4, <2>5
<1>4. QED
  BY <1>1, <1>2, <1>3, RowsStep

(* However runs interleave, an idempotency key is charged once.              *)
THEOREM KeysPayOnce == Spec => []OneChargePerKey
<1>1. LedgerInv => OneChargePerKey
  BY DEF LedgerInv
<1>2. QED
  BY TypeInit, TypeStep, LedgerInit, LedgerStep, <1>1, PTL DEF Spec

(* A refund gives one charge back, once, in full, to the user who paid it.   *)
THEOREM RefundsAreBacked == Spec => []RefundsMatchCharges
<1>1. LedgerInv => RefundsMatchCharges
  BY DEF LedgerInv
<1>2. QED
  BY TypeInit, TypeStep, LedgerInit, LedgerStep, <1>1, PTL DEF Spec
-----------------------------------------------------------------------------
LEMMA SawChargeInit == Init => SawCharge
BY DEF Init, SawCharge, NoRun

LEMMA SawChargeStep == TypeInv /\ SawCharge /\ [Next]_vars => SawCharge'
<1> SUFFICES ASSUME TypeInv, SawCharge, [Next]_vars PROVE SawCharge'
  OBVIOUS
<1> USE DEF SawCharge
<1>0. run \in [Runs -> Run]
  BY DEF TypeInv, TypeOK
<1>1. Charges \subseteq Charges'
  BY RowsStep DEF Charges, AddRow
<1>2. CASE run' = run
  BY <1>1, <1>2 DEF Charged
<1>3. ASSUME NEW r \in Runs, RunStep(r) PROVE SawCharge'
  <2>1. run' \in [Runs -> Run] /\ \A q \in Runs \ {r} : run'[q] = run[q]
    <3>1. \E x : run' = [run EXCEPT ![r] = x]
      BY <1>0, <1>3 DEF RunStep, Begin, CheckCharge, CheckRefund,
                        ConsumeLookup, ConsumeCharge, Affords, KeyIsFree
    <3>2. TypeInv'
      BY TypeStep
    <3>3. QED
      BY <1>0, <3>1, <3>2 DEF TypeInv, TypeOK
  <2>2. (run[r].pc \in {"checkRefund", "paid"} => Charged(run[r].key))'
    <3>1. CASE \E e \in Emails, force \in BOOLEAN : Begin(r, e, force)
      <4>1. run'[r].pc \in {"lookup", "check"}
        BY <1>0, <3>1 DEF Begin
      <4>2. QED
        BY <4>1
    <3>2. CASE CheckCharge(r)
      BY <1>0, <1>1, <3>2 DEF CheckCharge, Run, Charged
    <3>3. CASE CheckRefund(r)
      <4>1. Charged(run[r].key)
        BY <3>3 DEF CheckRefund
      <4>2. run'[r].key = run[r].key
        BY <1>0, <3>3 DEF CheckRefund, Run
      <4>3. QED
        BY <1>1, <4>1, <4>2 DEF Charged
    <3>4. CASE ConsumeLookup(r)
      BY <1>0, <1>1, <3>4 DEF ConsumeLookup, Run, Charged
    <3>5. CASE ConsumeCharge(r)
      <4>1. run'[r].key = run[r].key
        <5>1. \E pc \in {"failed", "refused", "paid"} : run' = [run EXCEPT ![r].pc = pc]
          BY <3>5 DEF ConsumeCharge
        <5>2. QED
          BY <1>0, <5>1 DEF Run
      <4>2. CASE run' = [run EXCEPT ![r].pc = "paid"]
                 /\ AddRow("consume", run[r].key, Owner[run[r].key.email],
                           run[r].cost)
        <5> DEFINE row == [id |-> serial, kind |-> "consume",
                           key |-> run[r].key,
                           user |-> Owner[run[r].key.email],
                           amount |-> run[r].cost]
        <5>1. row \in txns' /\ row.kind = "consume" /\ row.key = run[r].key
          BY <4>2 DEF AddRow
        <5> HIDE DEF row
        <5>2. QED
          BY <4>1, <5>1 DEF Charged, Charges
      <4>3. CASE \E pc \in {"failed", "refused"} :
                   run' = [run EXCEPT ![r].pc = pc]
        BY <1>0, <4>3 DEF Run
      <4>4. QED
        BY <3>5, <4>2, <4>3 DEF ConsumeCharge, Affords, KeyIsFree
    <3>6. QED
      BY <1>3, <3>1, <3>2, <3>3, <3>4, <3>5 DEF RunStep
  <2>3. QED
    BY <1>1, <2>1, <2>2 DEF Charged
<1>4. QED
  BY <1>2, <1>3
  DEF Next, ServiceStep, PlanStep, vars, PlanLoad, PlanSave, RepairSave, Tick,
      GetUserCredits, ResetPeriodCredits, GrantBonusCredits, RefundCredits

(* A run that goes on to the workflow holds a charge of its email's owner.   *)
THEOREM PaidRunsAreBacked == Spec => []PaidRunsHoldCharge
<1>1. TypeInv /\ LedgerInv /\ SawCharge => PaidRunsHoldCharge
  BY DEF LedgerInv, ChargesOwned, SawCharge, PaidRunsHoldCharge, Charged,
         Charges
<1>2. QED
  BY TypeInit, TypeStep, LedgerInit, LedgerStep, SawChargeInit,
     SawChargeStep, <1>1, PTL DEF Spec
-----------------------------------------------------------------------------
(* The refinement of CreditsAccount.                                         *)

LEMMA AccountInit == Init => Account!Init
<1> SUFFICES ASSUME Init PROVE Account!Init
  OBVIOUS
<1>1. \A u \in Users : Available(u) = 0
  BY DEF Init, Available, NoWallet
<1>2. Charges = {} /\ Refunds = {}
  BY DEF Init, Charges, Refunds
<1>3. QED
  BY <1>1, <1>2 DEF Account!Init

LEMMA AccountStep ==
  TypeInv /\ NeverOverdrawn /\ LoadedSolvent /\ LedgerInv /\ [Next]_vars
    => [Account!Next]_(Account!vars)
<1> SUFFICES ASSUME TypeInv, NeverOverdrawn, LoadedSolvent, LedgerInv, [Next]_vars
             PROVE  [Account!Next]_(Account!vars)
  OBVIOUS
<1> DEFINE balance == [u \in Users |-> Available(u)]
           charged == {[key |-> c.key, user |-> c.user, amount |-> c.amount] :
                         c \in Charges}
           refunded == {t.key : t \in Refunds}
<1>0. /\ wallet \in [Users -> Wallet] /\ wallet' \in [Users -> Wallet]
      /\ txns \subseteq Row
      /\ NeverOverdrawn'
  BY TypeStep, BalanceStep DEF TypeInv, TypeOK
<1>1. ASSUME NEW u \in Users, UNCHANGED rows,
             \A v \in Users \ {u} : wallet'[v] = wallet[v]
      PROVE  Account!Adjust(u)
  <2>1. balance' \in [Users -> Nat]
    BY <1>0 DEF NeverOverdrawn, Available, Wallet
  <2>2. \A v \in Users \ {u} : balance'[v] = balance[v]
    BY <1>1 DEF Available
  <2>3. charged' = charged /\ refunded' = refunded
    BY <1>1 DEF rows, Charges, Refunds
  <2>4. QED
    BY <2>1, <2>2, <2>3 DEF Account!Adjust
<1>2. CASE UNCHANGED <<wallet, txns>>
  <2>1. balance' = balance
    BY <1>2 DEF Available
  <2>2. charged' = charged /\ refunded' = refunded
    BY <1>2 DEF Charges, Refunds
  <2>3. QED
    BY <2>1, <2>2 DEF Account!vars
<1>3. ASSUME NEW u \in Users,
             GetUserCredits(u) \/ ResetPeriodCredits(u) \/ GrantBonusCredits(u)
      PROVE  Account!Next
  <2>1. UNCHANGED rows /\ \A v \in Users \ {u} : wallet'[v] = wallet[v]
    BY <1>0, <1>3 DEF GetUserCredits, ResetPeriodCredits, GrantBonusCredits
  <2>2. QED
    BY <1>1, <2>1 DEF Account!Next
<1>4. ASSUME NEW p \in PlanWriters, PlanSave(p) \/ RepairSave(p)
      PROVE  Account!Next
  <2>1. plan[p].user \in Users
    BY <1>4 DEF PlanSave, RepairSave, TypeInv, RunsWellFormed
  <2>2. UNCHANGED rows
        /\ \A v \in Users \ {plan[p].user} : wallet'[v] = wallet[v]
    BY <1>0, <1>4, <2>1 DEF PlanSave, RepairSave
  <2>3. QED
    BY <1>1, <2>1, <2>2 DEF Account!Next
<1>5. ASSUME NEW c \in Charges, RefundCredits(c) PROVE Account!Next
  <2> DEFINE charge == [key |-> c.key, user |-> c.user, amount |-> c.amount]
  <2>1. c \in Row
    BY <1>0 DEF Charges
  <2>2. charge \in charged /\ charge.key \notin refunded
    BY <1>5 DEF RefundCredits, Refunded
  <2>3. balance' = [balance EXCEPT ![charge.user] = @ + charge.amount]
    <3>1. /\ wallet'[c.user].base = wallet[c.user].base
          /\ wallet'[c.user].bonus = wallet[c.user].bonus
          /\ wallet'[c.user].consumed = wallet[c.user].consumed - c.amount
      BY <1>0, <1>5, <2>1 DEF RefundCredits, Wallet, Row
    <3>2. \A v \in Users \ {c.user} : wallet'[v] = wallet[v]
      BY <1>0, <1>5, <2>1 DEF RefundCredits, Row
    <3>3. /\ wallet[c.user].base \in Nat /\ wallet[c.user].bonus \in Nat
          /\ wallet[c.user].consumed \in Int /\ c.amount \in Nat
          /\ c.user \in Users
      BY <1>0, <2>1 DEF Wallet, Row
    <3>4. wallet[c.user].base + wallet[c.user].bonus
             - (wallet[c.user].consumed - c.amount)
           = (wallet[c.user].base + wallet[c.user].bonus
                - wallet[c.user].consumed) + c.amount
      BY <3>3
    <3>5. balance'[c.user] = balance[c.user] + c.amount
      BY <3>1, <3>3, <3>4 DEF Available
    <3>6. \A v \in Users \ {c.user} : balance'[v] = balance[v]
      BY <3>2 DEF Available
    <3>7. QED
      BY <3>3, <3>5, <3>6
  <2>4. Charges' = Charges
        /\ \E t : t.key = c.key /\ Refunds' = Refunds \cup {t}
    <3> DEFINE t == [id |-> serial, kind |-> "refund", key |-> c.key,
                     user |-> c.user, amount |-> c.amount]
    <3>1. txns' = txns \cup {t}
      BY <1>5 DEF RefundCredits, AddRow
    <3>2. Charges' = Charges /\ Refunds' = Refunds \cup {t}
      BY <3>1 DEF Charges, Refunds
    <3>3. QED
      BY <3>2
  <2>5. charged' = charged /\ refunded' = refunded \cup {charge.key}
    BY <2>4
  <2>6. QED
    BY <2>2, <2>3, <2>5 DEF Account!GiveBack, Account!Next
<1>6. ASSUME NEW r \in Runs, ConsumeCharge(r), ~UNCHANGED <<wallet, rows>>
      PROVE  Account!Next
  <2> DEFINE k == run[r].key
             u == Owner[k.email]
             a == run[r].cost
  <2>1. k \in Keys /\ u \in Users /\ a \in Amounts /\ a \in Nat
    BY <1>6 DEF ConsumeCharge, Affords, KeyIsFree, TypeInv, RunsWellFormed, Keys
  <2>2. /\ Available(u) >= a /\ ~Charged(k)
        /\ wallet' = [wallet EXCEPT ![u].consumed = @ + a]
        /\ AddRow("consume", k, u, a)
    BY <1>6 DEF ConsumeCharge, Affords, KeyIsFree
  <2> HIDE DEF k, u, a
  <2>3. balance' = [balance EXCEPT ![u] = @ - a]
    <3>1. /\ wallet'[u].base = wallet[u].base
          /\ wallet'[u].bonus = wallet[u].bonus
          /\ wallet'[u].consumed = wallet[u].consumed + a
      BY <1>0, <2>1, <2>2 DEF Wallet
    <3>2. \A v \in Users \ {u} : wallet'[v] = wallet[v]
      BY <1>0, <2>1, <2>2
    <3>3. /\ wallet[u].base \in Nat /\ wallet[u].bonus \in Nat
          /\ wallet[u].consumed \in Int
      BY <1>0, <2>1 DEF Wallet
    <3>4. wallet[u].base + wallet[u].bonus - (wallet[u].consumed + a)
           = (wallet[u].base + wallet[u].bonus - wallet[u].consumed) - a
      BY <2>1, <3>3
    <3>5. balance'[u] = balance[u] - a
      BY <2>1, <3>1, <3>4 DEF Available
    <3>6. \A v \in Users \ {u} : balance'[v] = balance[v]
      BY <3>2 DEF Available
    <3>7. QED
      BY <2>1, <3>5, <3>6
  <2> DEFINE row == [id |-> serial, kind |-> "consume",
                     key |-> k, user |-> u, amount |-> a]
  <2>4. /\ Refunds' = Refunds /\ Charges' = Charges \cup {row}
        /\ row.key = k /\ row.user = u /\ row.amount = a
    BY <2>2 DEF AddRow, Charges, Refunds
  <2>5. refunded' = refunded
        /\ charged' = charged \cup {[key |-> k, user |-> u, amount |-> a]}
    <3> HIDE DEF row
    <3> QED
      BY <2>4
  <2>6. balance[u] >= a /\ \A c \in charged : c.key # k
    BY <2>1, <2>2 DEF Charged
  <2>7. QED
    BY <2>1, <2>3, <2>5, <2>6 DEF Account!Pay, Account!Next
<1>7. QED
  BY <1>2, <1>3, <1>4, <1>5, <1>6
  DEF Next, RunStep, ServiceStep, PlanStep, vars, rows, PlanLoad, Begin,
      CheckCharge, CheckRefund, ConsumeLookup, Tick

(* The locked, idempotent, concurrent ledger implements the plain account.   *)
THEOREM LedgerImplementsAccount == Spec => AccountSpec
BY TypeInit, TypeStep, BalanceInit, BalanceStep, LoadedStep, LedgerInit, LedgerStep,
   AccountInit, AccountStep, PTL DEF Spec, AccountSpec, Account!Spec
-----------------------------------------------------------------------------
(* Sums of amounts.  Total takes the rows of a set one by one, in an order   *)
(* of its own; that the order does not matter follows from the smallest set  *)
(* for which it would.                                                       *)

Pick(s) == CHOOSE t \in s : TRUE
Sums(g, S) ==
  g = [s \in SUBSET S |-> IF s = {} THEN 0 ELSE Pick(s).amount + g[s \ {Pick(s)}]]
Sound(S) == IsFiniteSet(S) /\ \A t \in S : t.amount \in Int

LEMMA PickIn == ASSUME NEW s, s # {} PROVE Pick(s) \in s
BY DEF Pick

LEMMA TotalIs ==
  ASSUME NEW S
  PROVE  Total(S) = (CHOOSE g : Sums(g, S))[S]
BY DEF Total, MapThenSumSet, MapThenFoldSet, Sums, Pick

LEMMA SizeOf ==
  ASSUME NEW S, IsFiniteSet(S), NEW s \in SUBSET S
  PROVE  /\ IsFiniteSet(s) /\ Cardinality(s) \in Nat
         /\ s = {} <=> Cardinality(s) = 0
         /\ \A x \in s : Cardinality(s \ {x}) = Cardinality(s) - 1
<1>1. IsFiniteSet(s)
  BY FS_Subset
<1> QED BY <1>1, FS_CardinalityType, FS_EmptySet, FS_RemoveElement

(* What holds of the sets that are smaller holds of a set: there is no       *)
(* smallest one for which it does not.                                       *)
LEMMA SmallestSize ==
  ASSUME NEW B \in SUBSET Nat, B # {}
  PROVE  \E n \in B : \A m \in B : ~(m < n)
<1>1. PICK n \in B : \A m \in B : ~(<<m, n>> \in OpToRel(<, Nat))
  BY NatLessThanWellFounded, WFMin
<1>2. \A m \in B : ~(m < n)
  BY <1>1 DEF OpToRel
<1> QED BY <1>2

LEMMA SumsExist ==
  ASSUME NEW S, Sound(S)
  PROVE  \E g \in [SUBSET S -> Int] : Sums(g, S)
<1> DEFINE upto(n) == {s \in SUBSET S : Cardinality(s) <= n}
           good(n) == \E g \in [upto(n) -> Int] : \A s \in upto(n) :
                        g[s] = IF s = {} THEN 0 ELSE Pick(s).amount + g[s \ {Pick(s)}]
           bad == {n \in Nat : ~good(n)}
<1>1. \A s \in SUBSET S :
        /\ Cardinality(s) \in Nat /\ (s = {} <=> Cardinality(s) = 0)
        /\ s # {} => /\ Pick(s) \in s /\ Pick(s).amount \in Int
                     /\ s \ {Pick(s)} \in SUBSET S
                     /\ Cardinality(s \ {Pick(s)}) = Cardinality(s) - 1
  <2> SUFFICES ASSUME NEW s \in SUBSET S
               PROVE  /\ Cardinality(s) \in Nat /\ (s = {} <=> Cardinality(s) = 0)
                      /\ s # {} => /\ Pick(s) \in s /\ Pick(s).amount \in Int
                                   /\ s \ {Pick(s)} \in SUBSET S
                                   /\ Cardinality(s \ {Pick(s)}) = Cardinality(s) - 1
    OBVIOUS
  <2>1. /\ Cardinality(s) \in Nat /\ (s = {} <=> Cardinality(s) = 0)
        /\ \A x \in s : Cardinality(s \ {x}) = Cardinality(s) - 1
    BY SizeOf DEF Sound
  <2>2. s # {} => Pick(s) \in s
    BY PickIn
  <2> QED BY <2>1, <2>2 DEF Sound
<1>2. good(0)
  <2> DEFINE g == [s \in upto(0) |-> 0]
  <2>1. \A s \in upto(0) : s = {}
    <3> TAKE s \in upto(0)
    <3>1. Cardinality(s) <= 0 /\ Cardinality(s) \in Nat /\ (s = {} <=> Cardinality(s) = 0)
      BY <1>1
    <3> QED BY <3>1
  <2>2. g \in [upto(0) -> Int]
    OBVIOUS
  <2>3. \A s \in upto(0) : g[s] = IF s = {} THEN 0 ELSE Pick(s).amount + g[s \ {Pick(s)}]
    BY <2>1
  <2> QED BY <2>2, <2>3
<1>3. ASSUME NEW n \in Nat, good(n) PROVE good(n + 1)
  <2>1. PICK g \in [upto(n) -> Int] : \A s \in upto(n) :
          g[s] = IF s = {} THEN 0 ELSE Pick(s).amount + g[s \ {Pick(s)}]
    BY <1>3
  <2> DEFINE h == [s \in upto(n + 1) |->
                    IF s \in upto(n) THEN g[s] ELSE Pick(s).amount + g[s \ {Pick(s)}]]
  <2>2. \A s \in upto(n + 1) :
          /\ s # {} => s \ {Pick(s)} \in upto(n) /\ s \ {Pick(s)} \in upto(n + 1)
          /\ s \notin upto(n) => s # {} /\ Pick(s).amount \in Int
    BY <1>1
  <2> HIDE DEF upto
  <2>3. h \in [upto(n + 1) -> Int]
    BY <2>2
  <2>4. \A s \in upto(n + 1) :
          h[s] = IF s = {} THEN 0 ELSE Pick(s).amount + h[s \ {Pick(s)}]
    BY <2>1, <2>2
  <2> HIDE DEF h
  <2> QED BY <2>3, <2>4
<1>4. bad = {}
  <2> SUFFICES ASSUME bad # {} PROVE FALSE
    OBVIOUS
  <2> HIDE DEF good
  <2>1. PICK n \in bad : \A m \in bad : ~(m < n)
    BY SmallestSize
  <2>2. n # 0 /\ n \in Nat /\ n - 1 \in Nat /\ n - 1 < n
    BY <1>2, <2>1
  <2>3. good(n - 1)
    BY <2>1, <2>2
  <2>4. good(n - 1 + 1) /\ n - 1 + 1 = n
    BY <1>3, <2>2, <2>3
  <2> QED BY <2>1, <2>4
<1>5. Cardinality(S) \in Nat /\ upto(Cardinality(S)) = SUBSET S
  <2>1. \A s \in SUBSET S : Cardinality(s) <= Cardinality(S)
    BY FS_Subset DEF Sound
  <2> QED BY <1>1, <2>1
<1>6. PICK g \in [SUBSET S -> Int] : \A s \in SUBSET S :
        g[s] = IF s = {} THEN 0 ELSE Pick(s).amount + g[s \ {Pick(s)}]
  <2>1. good(Cardinality(S))
    <3> HIDE DEF good
    <3> QED BY <1>4, <1>5
  <2>2. PICK g \in [upto(Cardinality(S)) -> Int] : \A s \in upto(Cardinality(S)) :
          g[s] = IF s = {} THEN 0 ELSE Pick(s).amount + g[s \ {Pick(s)}]
    BY <2>1
  <2> HIDE DEF upto
  <2> QED BY <1>5, <2>2
<1>7. Sums(g, S)
  BY <1>6 DEF Sums
<1> QED BY <1>7

LEMMA SumsAgree ==
  ASSUME NEW S, IsFiniteSet(S), NEW T \in SUBSET S, NEW g, NEW h, Sums(g, S), Sums(h, T)
  PROVE  \A s \in SUBSET T : g[s] = h[s]
<1> DEFINE bad == {n \in Nat : \E s \in SUBSET T : Cardinality(s) = n /\ g[s] # h[s]}
<1>1. \A s \in SUBSET T :
        /\ g[s] = IF s = {} THEN 0 ELSE Pick(s).amount + g[s \ {Pick(s)}]
        /\ h[s] = IF s = {} THEN 0 ELSE Pick(s).amount + h[s \ {Pick(s)}]
  BY DEF Sums
<1>2. bad = {}
  <2> SUFFICES ASSUME bad # {} PROVE FALSE
    OBVIOUS
  <2>1. PICK n \in bad : \A m \in bad : ~(m < n)
    BY SmallestSize
  <2>2. PICK s \in SUBSET T : Cardinality(s) = n /\ g[s] # h[s]
    OBVIOUS
  <2>3. s # {} /\ g[s \ {Pick(s)}] # h[s \ {Pick(s)}]
    BY <1>1, <2>2
  <2>4. Pick(s) \in s /\ s \ {Pick(s)} \in SUBSET T
    BY <2>3, PickIn
  <2>5. Cardinality(s \ {Pick(s)}) = n - 1 /\ n - 1 \in Nat
    BY <2>2, <2>3, <2>4, SizeOf
  <2>6. n - 1 \in bad
    BY <2>3, <2>4, <2>5
  <2> QED BY <2>1, <2>5, <2>6
<1>3. \A s \in SUBSET T : Cardinality(s) \in Nat
  BY SizeOf
<1> QED BY <1>2, <1>3

(* A total is a number, and starts with the row it picks. *)
LEMMA TotalStarts ==
  ASSUME NEW S, Sound(S)
  PROVE  /\ Total(S) \in Int
         /\ Total(S) = IF S = {} THEN 0 ELSE Pick(S).amount + Total(S \ {Pick(S)})
<1> DEFINE T == S \ {Pick(S)}
           g == CHOOSE g : Sums(g, S)
           h == CHOOSE h : Sums(h, T)
<1>1. Sound(T) /\ T \in SUBSET S
  BY FS_Subset DEF Sound
<1>2. Sums(g, S) /\ Sums(h, T)
  <2>1. (\E f : Sums(f, S)) /\ (\E f : Sums(f, T))
    BY <1>1, SumsExist
  <2> QED BY <2>1
<1>3. Total(S) = g[S] /\ Total(T) = h[T]
  BY TotalIs
<1> HIDE DEF g, h
<1>4. PICK f \in [SUBSET S -> Int] : Sums(f, S)
  BY SumsExist
<1>5. g[S] = f[S] /\ g[T] = h[T]
  <2> HIDE DEF T
  <2>1. IsFiniteSet(S) /\ S \in SUBSET S /\ T \in SUBSET S /\ T \in SUBSET T
    BY <1>1 DEF Sound
  <2>2. \A s \in SUBSET S : g[s] = f[s]
    BY <1>2, <1>4, <2>1, SumsAgree
  <2>3. \A s \in SUBSET T : f[s] = h[s]
    BY <1>2, <1>4, <2>1, SumsAgree
  <2> QED BY <2>1, <2>2, <2>3
<1>6. f[S] \in Int
  BY <1>4
<1>7. g[S] = IF S = {} THEN 0 ELSE Pick(S).amount + g[T]
  BY <1>2 DEF Sums
<1> QED BY <1>3, <1>5, <1>6, <1>7

(* Any row of a set may be taken first. *)
LEMMA TotalOf ==
  ASSUME NEW U, Sound(U), NEW x \in U
  PROVE  Total(U) = x.amount + Total(U \ {x})
<1> DEFINE fails(S, y) == Total(S) # y.amount + Total(S \ {y})
           bad == {n \in Nat : \E S \in SUBSET U : Cardinality(S) = n /\ \E y \in S : fails(S, y)}
<1>1. \A S \in SUBSET U : Sound(S)
  BY FS_Subset DEF Sound
<1>2. bad = {}
  <2> SUFFICES ASSUME bad # {} PROVE FALSE
    OBVIOUS
  <2>1. PICK n \in bad : \A m \in bad : ~(m < n)
    BY SmallestSize
  <2>2. PICK S \in SUBSET U : Cardinality(S) = n /\ \E y \in S : fails(S, y)
    OBVIOUS
  <2>3. PICK y \in S : fails(S, y)
    BY <2>2
  <2> DEFINE p == Pick(S)
  <2>4. p \in S /\ Total(S) = p.amount + Total(S \ {p})
    BY <1>1, <2>3, PickIn, TotalStarts
  <2>5. p # y
    BY <2>3, <2>4
  <2> HIDE DEF p, bad
  <2>6. /\ n - 1 \in Nat /\ n - 1 < n
        /\ Cardinality(S \ {p}) = n - 1 /\ Cardinality(S \ {y}) = n - 1
    <3>1. S # {} /\ Cardinality(S) = n
      BY <2>2, <2>3
    <3>2. Cardinality(S) \in Nat /\ Cardinality(S) # 0
          /\ \A z \in S : Cardinality(S \ {z}) = Cardinality(S) - 1
      BY <3>1, SizeOf DEF Sound
    <3> QED BY <2>4, <3>1, <3>2
  <2>7. n - 1 \notin bad
    BY <2>1, <2>6
  <2>8. ~fails(S \ {p}, y) /\ ~fails(S \ {y}, p)
    BY <2>4, <2>5, <2>6, <2>7 DEF bad
  <2>9. (S \ {p}) \ {y} = (S \ {y}) \ {p}
    OBVIOUS
  <2>10. p.amount \in Int /\ y.amount \in Int /\ Total((S \ {y}) \ {p}) \in Int
    BY <1>1, <2>4, TotalStarts DEF Sound
  <2>11. /\ Total(S \ {p}) = y.amount + Total((S \ {y}) \ {p})
         /\ Total(S \ {y}) = p.amount + Total((S \ {y}) \ {p})
    BY <2>8, <2>9
  <2>12. Total(S) = y.amount + Total(S \ {y})
    BY <2>4, <2>10, <2>11
  <2> QED BY <2>3, <2>12
<1>3. Cardinality(U) \in Nat
  BY SizeOf DEF Sound
<1>4. ~fails(U, x)
  BY <1>2, <1>3
<1> QED BY <1>4

(* A row that is new adds its amount. *)
LEMMA TotalAdds ==
  ASSUME NEW S, Sound(S), NEW x, x \notin S, x.amount \in Int
  PROVE  /\ Sound(S \cup {x})
         /\ Total(S \cup {x}) = Total(S) + x.amount
<1>1. Sound(S \cup {x}) /\ (S \cup {x}) \ {x} = S
  BY FS_AddElement DEF Sound
<1>2. Total(S \cup {x}) = x.amount + Total(S)
  BY <1>1, TotalOf
<1>3. Total(S) \in Int
  BY TotalStarts
<1> QED BY <1>1, <1>2, <1>3
-----------------------------------------------------------------------------
(* The wallet and the ledger                                                 *)

Period(u) == {t \in txns : t.user = u /\ t.id >= since[u]}

(* The rows are finite in number, a period starts at the serial of a reset,  *)
(* and a wallet that was never made has nothing charged to it.               *)
PeriodsWellFormed ==
  /\ IsFiniteSet(txns)
  /\ \A u \in Users : since[u] <= serial
  /\ \A u \in Users : ~wallet[u].active =>
       wallet[u].consumed = 0 /\ \A t \in Charges : t.user # u

SumsInv == PeriodsWellFormed /\ LedgerBalances

LEMMA PeriodsSound ==
  ASSUME TypeInv, SumsInv, NEW u \in Users
  PROVE  /\ Sound(Period(u) \cap Charges) /\ Sound(Period(u) \cap Refunds)
         /\ u \notin stale => wallet[u].consumed =
              Total(Period(u) \cap Charges) - Total(Period(u) \cap Refunds)
<1>1. \A t \in txns : t.amount \in Int
  <2>1. txns \subseteq Row /\ Amounts \subseteq Int
    BY DEF TypeInv, TypeOK
  <2>2. \A t \in Row : t.amount \in Amounts
    BY DEF Row
  <2> QED BY <2>1, <2>2
<1>2. \A S \in SUBSET txns : Sound(S)
  BY <1>1, FS_Subset DEF Sound, SumsInv, PeriodsWellFormed
<1>3. Period(u) \cap Charges \in SUBSET txns /\ Period(u) \cap Refunds \in SUBSET txns
  BY DEF Period
<1> QED BY <1>2, <1>3 DEF SumsInv, LedgerBalances, Period

(* A row that is added counts for its user's period, and for no other. *)
LEMMA PeriodsGrow ==
  ASSUME TypeInv, SumsInv, RowsBelowSerial, NEW row \in Row, row.id = serial,
         txns' = txns \cup {row}, UNCHANGED since, NEW u \in Users
  PROVE  /\ Total(Period(u)' \cap Charges') = Total(Period(u) \cap Charges)
              + IF row.user = u /\ row.kind = "consume" THEN row.amount ELSE 0
         /\ Total(Period(u)' \cap Refunds') = Total(Period(u) \cap Refunds)
              + IF row.user = u /\ row.kind = "refund" THEN row.amount ELSE 0
<1>1. row \notin txns /\ row.amount \in Int /\ serial \in Nat /\ since[u] \in Nat
      /\ row.id >= since[u]
  <2>1. serial \in Nat /\ since[u] \in Nat /\ since[u] <= serial
    BY DEF TypeInv, TypeOK, SumsInv, PeriodsWellFormed
  <2>2. row \notin txns
    BY <2>1 DEF RowsBelowSerial
  <2>3. row.amount \in Amounts /\ Amounts \subseteq Int
    BY DEF Row
  <2> QED BY <2>1, <2>2, <2>3
<1>2. /\ Period(u)' = IF row.user = u THEN Period(u) \cup {row} ELSE Period(u)
      /\ Charges' = IF row.kind = "consume" THEN Charges \cup {row} ELSE Charges
      /\ Refunds' = IF row.kind = "refund" THEN Refunds \cup {row} ELSE Refunds
      /\ row \notin Period(u) /\ row \notin Charges /\ row \notin Refunds
      /\ row.kind \in {"consume", "refund"}
  BY <1>1 DEF Period, Charges, Refunds, Row
<1>3. /\ Period(u)' \cap Charges' =
           IF row.user = u /\ row.kind = "consume"
           THEN (Period(u) \cap Charges) \cup {row} ELSE Period(u) \cap Charges
      /\ Period(u)' \cap Refunds' =
           IF row.user = u /\ row.kind = "refund"
           THEN (Period(u) \cap Refunds) \cup {row} ELSE Period(u) \cap Refunds
  BY <1>2
<1>4. /\ Total((Period(u) \cap Charges) \cup {row}) = Total(Period(u) \cap Charges) + row.amount
      /\ Total((Period(u) \cap Refunds) \cup {row}) = Total(Period(u) \cap Refunds) + row.amount
      /\ Total(Period(u) \cap Charges) \in Int /\ Total(Period(u) \cap Refunds) \in Int
  BY <1>1, <1>2, PeriodsSound, TotalAdds, TotalStarts
<1>5. Total(Period(u)' \cap Charges') = Total(Period(u) \cap Charges)
        + IF row.user = u /\ row.kind = "consume" THEN row.amount ELSE 0
  <2>1. CASE row.user = u /\ row.kind = "consume"
    BY <1>3, <1>4, <2>1
  <2>2. CASE ~(row.user = u /\ row.kind = "consume")
    <3>1. Total(Period(u)' \cap Charges') = Total(Period(u) \cap Charges)
      BY <1>3, <2>2
    <3>2. Total(Period(u) \cap Charges) + 0 = Total(Period(u) \cap Charges)
      BY <1>4
    <3> QED BY <2>2, <3>1, <3>2
  <2> QED BY <2>1, <2>2
<1>6. Total(Period(u)' \cap Refunds') = Total(Period(u) \cap Refunds)
        + IF row.user = u /\ row.kind = "refund" THEN row.amount ELSE 0
  <2>1. CASE row.user = u /\ row.kind = "refund"
    BY <1>3, <1>4, <2>1
  <2>2. CASE ~(row.user = u /\ row.kind = "refund")
    <3>1. Total(Period(u)' \cap Refunds') = Total(Period(u) \cap Refunds)
      BY <1>3, <2>2
    <3>2. Total(Period(u) \cap Refunds) + 0 = Total(Period(u) \cap Refunds)
      BY <1>4
    <3> QED BY <2>2, <3>1, <3>2
  <2> QED BY <2>1, <2>2
<1> QED BY <1>5, <1>6

(* A step that adds a row takes its amount from the wallet of its user, or   *)
(* gives it back.                                                            *)
LEMMA RowStep ==
  ASSUME TypeInv, SumsInv, RowsBelowSerial,
         NEW kind \in {"consume", "refund"}, NEW k \in Keys, NEW v \in Users,
         NEW a \in Amounts, AddRow(kind, k, v, a), wallet[v].active,
         wallet' = [wallet EXCEPT ![v].consumed = IF kind = "consume" THEN @ + a ELSE @ - a],
         UNCHANGED periods
  PROVE  SumsInv'
<1> DEFINE row == [id |-> serial, kind |-> kind, key |-> k, user |-> v, amount |-> a]
<1>1. /\ row \in Row /\ row.id = serial /\ row.user = v /\ row.kind = kind /\ row.amount = a
      /\ a \in Nat /\ serial \in Nat
  BY DEF TypeInv, TypeOK, Row
<1>2. txns' = txns \cup {row} /\ serial' = serial + 1
  BY DEF AddRow
<1> HIDE DEF row
<1>3. wallet \in [Users -> Wallet] /\ since \in [Users -> Nat]
      /\ since' = since /\ stale' = stale
  BY DEF TypeInv, TypeOK, periods
<1>4. \A u \in Users :
        /\ wallet'[u].active = wallet[u].active
        /\ wallet'[u].consumed =
             wallet[u].consumed + IF u = v THEN (IF kind = "consume" THEN a ELSE 0 - a) ELSE 0
  BY <1>1, <1>3 DEF Wallet
<1>5. PeriodsWellFormed'
  <2>1. IsFiniteSet(txns')
    BY <1>2, FS_AddElement DEF SumsInv, PeriodsWellFormed
  <2>2. \A u \in Users : since'[u] <= serial'
    BY <1>1, <1>2, <1>3 DEF SumsInv, PeriodsWellFormed
  <2>3. \A u \in Users : ~wallet'[u].active =>
          wallet'[u].consumed = 0 /\ \A t \in Charges' : t.user # u
    <3> SUFFICES ASSUME NEW u \in Users, ~wallet'[u].active
                 PROVE  wallet'[u].consumed = 0 /\ \A t \in Charges' : t.user # u
      OBVIOUS
    <3>1. u # v /\ wallet[u].consumed = 0 /\ \A t \in Charges : t.user # u
      BY <1>4 DEF SumsInv, PeriodsWellFormed
    <3> QED BY <1>1, <1>2, <1>4, <3>1 DEF Charges
  <2> QED BY <2>1, <2>2, <2>3 DEF PeriodsWellFormed
<1>6. \A u \in Users \ stale' : wallet'[u].consumed =
        Total(Period(u)' \cap Charges') - Total(Period(u)' \cap Refunds')
  <2> TAKE u \in Users \ stale'
  <2>1. /\ Total(Period(u)' \cap Charges') = Total(Period(u) \cap Charges)
             + IF row.user = u /\ row.kind = "consume" THEN row.amount ELSE 0
        /\ Total(Period(u)' \cap Refunds') = Total(Period(u) \cap Refunds)
             + IF row.user = u /\ row.kind = "refund" THEN row.amount ELSE 0
    BY <1>1, <1>2, <1>3, PeriodsGrow
  <2>2. /\ wallet[u].consumed = Total(Period(u) \cap Charges) - Total(Period(u) \cap Refunds)
        /\ Total(Period(u) \cap Charges) \in Int /\ Total(Period(u) \cap Refunds) \in Int
    BY <1>3, PeriodsSound, TotalStarts
  <2> QED BY <1>1, <1>4, <2>1, <2>2
<1>7. LedgerBalances'
  BY <1>6 DEF LedgerBalances, Period
<1> QED BY <1>5, <1>7 DEF SumsInv

(* A wallet that is reset starts a period in which there are no rows yet. *)
LEMMA ResetStep ==
  ASSUME TypeInv, SumsInv, RowsBelowSerial, NEW u \in Users, NEW w \in Wallet,
         wallet' = [wallet EXCEPT ![u] = w], w.active, w.consumed = 0,
         NewPeriod(u), UNCHANGED rows
  PROVE  SumsInv'
<1>1. /\ wallet \in [Users -> Wallet] /\ since \in [Users -> Nat] /\ serial \in Nat
      /\ txns \subseteq Row
      /\ since' = [since EXCEPT ![u] = serial] /\ stale' = stale \ {u}
  BY DEF TypeInv, TypeOK, NewPeriod
<1>2. PeriodsWellFormed'
  <2>1. \A v \in Users : v # u => wallet'[v] = wallet[v] /\ since'[v] = since[v]
    BY <1>1
  <2>2. wallet'[u] = w /\ since'[u] = serial /\ serial' = serial /\ txns' = txns
    BY <1>1 DEF rows
  <2> QED BY <1>1, <2>1, <2>2 DEF SumsInv, PeriodsWellFormed, Charges
<1>3. \A v \in Users \ stale' : wallet'[v].consumed =
        Total(Period(v)' \cap Charges') - Total(Period(v)' \cap Refunds')
  <2> TAKE v \in Users \ stale'
  <2>1. CASE v = u
    <3>1. \A t \in txns : ~(t.id >= serial)
      BY <1>1 DEF Row, RowsBelowSerial
    <3>2. Period(v)' = {}
      BY <1>1, <2>1, <3>1 DEF Period, rows
    <3>3. Sound({}) /\ Total({}) = 0
      BY FS_EmptySet, TotalStarts DEF Sound
    <3>4. Period(v)' \cap Charges' = {} /\ Period(v)' \cap Refunds' = {}
      BY <3>2
    <3>5. wallet'[v].consumed = 0
      BY <1>1, <2>1
    <3>6. Total(Period(v)' \cap Charges') = 0 /\ Total(Period(v)' \cap Refunds') = 0
      BY <3>3, <3>4
    <3> QED BY <3>5, <3>6
  <2>2. CASE v # u
    <3>1. /\ wallet'[v] = wallet[v] /\ since'[v] = since[v]
          /\ Charges' = Charges /\ Refunds' = Refunds /\ txns' = txns
      BY <1>1, <2>2 DEF Charges, Refunds, rows
    <3>2. Period(v)' = Period(v)
      BY <3>1 DEF Period
    <3>3. v \notin stale
      BY <1>1, <2>2
    <3> QED BY <3>1, <3>2, <3>3, PeriodsSound
  <2> QED BY <2>1, <2>2
<1>4. LedgerBalances'
  BY <1>3 DEF LedgerBalances, Period
<1> QED BY <1>2, <1>4 DEF SumsInv

(* A step that leaves the rows as they are, and what is consumed, but in a   *)
(* wallet that is stale from then on.                                        *)
LEMMA QuietStep ==
  ASSUME TypeInv, SumsInv, UNCHANGED <<txns, serial, since>>, stale \subseteq stale',
         \A u \in Users :
           /\ u \in stale' \/ wallet'[u].consumed = wallet[u].consumed
           /\ wallet[u].active => wallet'[u].active
           /\ ~wallet'[u].active => wallet'[u].consumed = wallet[u].consumed
  PROVE  SumsInv'
<1>1. Charges' = Charges /\ Refunds' = Refunds
  BY DEF Charges, Refunds
<1>2. PeriodsWellFormed'
  BY <1>1 DEF SumsInv, PeriodsWellFormed
<1>3. \A v \in Users \ stale' : wallet'[v].consumed =
        Total(Period(v)' \cap Charges') - Total(Period(v)' \cap Refunds')
  <2> TAKE v \in Users \ stale'
  <2>1. Period(v)' = Period(v)
    BY DEF Period
  <2> QED BY <1>1, <2>1, PeriodsSound
<1>4. LedgerBalances'
  BY <1>3 DEF LedgerBalances, Period
<1> QED BY <1>2, <1>4 DEF SumsInv

LEMMA SumsInit == Init => SumsInv
<1> SUFFICES ASSUME Init PROVE SumsInv
  OBVIOUS
<1>1. PeriodsWellFormed
  BY FS_EmptySet DEF Init, PeriodsWellFormed, NoWallet, Charges
<1>2. Sound({}) /\ Total({}) = 0
  BY FS_EmptySet, TotalStarts DEF Sound
<1>3. \A u \in Users : Period(u) \cap Charges = {} /\ Period(u) \cap Refunds = {}
  BY DEF Init, Period
<1>4. \A u \in Users : wallet[u].consumed = 0
  BY DEF Init, NoWallet
<1>5. \A u \in Users :
        wallet[u].consumed = Total(Period(u) \cap Charges) - Total(Period(u) \cap Refunds)
  <2> TAKE u \in Users
  <2>1. Total(Period(u) \cap Charges) = 0 /\ Total(Period(u) \cap Refunds) = 0
    BY <1>2, <1>3
  <2> QED BY <1>4, <2>1
<1>6. LedgerBalances
  BY <1>5 DEF LedgerBalances, Period
<1> QED BY <1>1, <1>6 DEF SumsInv

LEMMA SumsStep ==
  ASSUME TypeInv, SumsInv, LedgerInv, [Next]_vars
  PROVE  SumsInv'
<1>0. /\ wallet \in [Users -> Wallet] /\ txns \subseteq Row /\ RowsBelowSerial
      /\ \A u \in Users : wallet[u] \in Wallet
  BY DEF TypeInv, TypeOK, LedgerInv
<1>1. ASSUME NEW r \in Runs, ConsumeCharge(r)
      PROVE  SumsInv'
  <2> DEFINE k == run[r].key
             u == Owner[run[r].key.email]
             a == run[r].cost
  <2>1. CASE UNCHANGED <<wallet, rows>>
    BY <1>1, <2>1, QuietStep DEF ConsumeCharge, rows, periods
  <2>2. CASE /\ wallet[u].active /\ AddRow("consume", k, u, a)
             /\ wallet' = [wallet EXCEPT ![u].consumed = @ + a]
    <3>1. k \in Keys /\ a \in Amounts /\ u \in Users
      BY <1>1, KeysAreKeys DEF TypeInv, RunsWellFormed, ConsumeCharge, Keys
    <3>2. UNCHANGED periods
      BY <1>1 DEF ConsumeCharge
    <3> HIDE DEF k, u, a
    <3> QED BY <1>0, <2>2, <3>1, <3>2, RowStep
  <2> QED BY <1>1, <2>1, <2>2 DEF ConsumeCharge
<1>2. ASSUME NEW t \in Charges, RefundCredits(t)
      PROVE  SumsInv'
  <2>1. /\ t.key \in Keys /\ t.user \in Users /\ t.amount \in Amounts
        /\ wallet[t.user].active
    BY <1>0 DEF Charges, Row, SumsInv, PeriodsWellFormed
  <2>2. /\ AddRow("refund", t.key, t.user, t.amount) /\ UNCHANGED periods
        /\ wallet' = [wallet EXCEPT ![t.user].consumed = @ - t.amount]
    BY <1>2 DEF RefundCredits
  <2> QED BY <1>0, <2>1, <2>2, RowStep
<1>3. ASSUME NEW u \in Users, GetUserCredits(u)
      PROVE  SumsInv'
  <2>1. ~wallet[u].active /\ wallet[u].consumed = 0
    BY <1>3 DEF GetUserCredits, SumsInv, PeriodsWellFormed
  <2>2. \A v \in Users : /\ wallet'[v].consumed = wallet[v].consumed
                         /\ wallet[v].active => wallet'[v].active
    BY <1>0, <1>3, <2>1 DEF GetUserCredits
  <2> QED BY <1>3, <2>2, QuietStep DEF GetUserCredits, rows, periods
<1>4. ASSUME NEW u \in Users, ResetPeriodCredits(u)
      PROVE  SumsInv'
  <2>1. PICK b \in PlanCredits \cup {0} : wallet' = [wallet EXCEPT ![u] =
          [active |-> TRUE, base |-> b, bonus |-> wallet[u].bonus, consumed |-> 0]]
    BY <1>4 DEF ResetPeriodCredits
  <2> DEFINE w == [active |-> TRUE, base |-> b, bonus |-> wallet[u].bonus, consumed |-> 0]
  <2>2. w \in Wallet /\ w.active /\ w.consumed = 0 /\ wallet' = [wallet EXCEPT ![u] = w]
    BY <1>0, <2>1 DEF Wallet
  <2> HIDE DEF w
  <2> QED BY <1>0, <1>4, <2>2, ResetStep DEF ResetPeriodCredits
<1>5. ASSUME NEW u \in Users, GrantBonusCredits(u)
      PROVE  SumsInv'
  <2>1. ~wallet[u].active => wallet[u].consumed = 0
    BY DEF SumsInv, PeriodsWellFormed
  <2>2. \A v \in Users : /\ wallet'[v].consumed = wallet[v].consumed
                         /\ wallet[v].active => wallet'[v].active
    BY <1>0, <1>5, <2>1 DEF GrantBonusCredits, Wallet
  <2> QED BY <1>5, <2>2, QuietStep DEF GrantBonusCredits, rows, periods
<1>6. ASSUME NEW p \in PlanWriters, PlanSave(p)
      PROVE  SumsInv'
  <2> DEFINE u == plan[p].user
  <2>1. PICK b \in PlanCredits : wallet' = [wallet EXCEPT ![u] =
          [active |-> TRUE, base |-> b, bonus |-> plan[p].row.bonus, consumed |-> 0]]
    BY <1>6 DEF PlanSave
  <2>2. u \in Users /\ plan[p].row.bonus \in Nat
    BY <1>6 DEF PlanSave, TypeInv, RunsWellFormed, TypeOK, Plan, Wallet
  <2> DEFINE w == [active |-> TRUE, base |-> b, bonus |-> plan[p].row.bonus, consumed |-> 0]
  <2>3. w \in Wallet /\ w.active /\ w.consumed = 0 /\ wallet' = [wallet EXCEPT ![u] = w]
    <3>1. b \in Nat
      OBVIOUS
    <3> HIDE DEF u
    <3> QED BY <2>1, <2>2, <3>1 DEF Wallet
  <2>4. NewPeriod(u) /\ UNCHANGED rows
    BY <1>6 DEF PlanSave, rows
  <2> HIDE DEF w, u
  <2> QED BY <1>0, <2>2, <2>3, <2>4, ResetStep
<1>8. ASSUME NEW p \in PlanWriters, RepairSave(p)
      PROVE  SumsInv'
  <2> DEFINE u == plan[p].user
  <2>1. u \in Users /\ plan[p].row.active
    BY <1>8 DEF RepairSave, TypeInv, RunsWellFormed
  <2>2. /\ wallet' = [wallet EXCEPT ![u] = plan[p].row]
        /\ stale' = stale \cup {v \in {u} : wallet[v].consumed # plan[p].row.consumed}
        /\ UNCHANGED <<txns, serial, since>>
    BY <1>8 DEF RepairSave, rows
  <2> HIDE DEF u
  <2>3. /\ wallet'[u] = plan[p].row
        /\ \A v \in Users \ {u} : wallet'[v] = wallet[v]
    BY <1>0, <2>1, <2>2
  <2> QED BY <2>1, <2>2, <2>3, QuietStep
<1>7. CASE UNCHANGED <<wallet, txns, serial, since, stale>>
  BY <1>7, QuietStep
<1> QED
  BY <1>1, <1>2, <1>3, <1>4, <1>5, <1>6, <1>7, <1>8
  DEF Next, RunStep, ServiceStep, PlanStep, vars, rows, periods, PlanLoad,
      Begin, CheckCharge, CheckRefund, ConsumeLookup, Tick

(* The credits a wallet counts as consumed are those charged since it was    *)
(* last reset less those refunded since then, however charges, refunds,      *)
(* renewals, grants, plan changes and repairs interleave, but where a repair *)
(* of the payment check has written back an older count.                     *)
THEOREM WalletsMatchLedger == Spec => []LedgerBalances
<1>1. SumsInv => LedgerBalances
  BY DEF SumsInv
<1>2. TypeInv /\ LedgerInv /\ SumsInv /\ [Next]_vars => SumsInv'
  BY SumsStep
<1> QED
  BY TypeInit, TypeStep, LedgerInit, LedgerStep, SumsInit, <1>1, <1>2, PTL DEF Spec
=============================================================================
