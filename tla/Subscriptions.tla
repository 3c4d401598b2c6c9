---------------------------- MODULE Subscriptions ----------------------------
(***************************************************************************)
(* The subscription of one devify user.  Stripe holds its own              *)
(* subscriptions and tells of them in webhook events that may come late,   *)
(* twice or never; devify keeps a row per Stripe subscription, rows for    *)
(* plans that the platform assigned, and a wallet that follows one of the  *)
(* rows.  These write the rows:                                            *)
(*                                                                         *)
(*   - webhook requests: dj-stripe first mirrors the Stripe object, then   *)
(*     the receiver of devify runs;                                        *)
(*   - the daily tasks: payment check, renewal of credits, downgrade of    *)
(*     subscriptions that are past due, backfill of payment records;       *)
(*   - the user, who subscribes, cancels, resumes or changes the plan, and *)
(*     the administrator, who assigns a plan.                              *)
(*                                                                         *)
(* A transaction of the code is one step; what the code does in several    *)
(* transactions, or reads before one, is several steps.                    *)
(***************************************************************************)
EXTENDS Naturals, FiniteSets, Sequences

CONSTANTS
  LastRemote,   \* bound: Stripe subscriptions of the user
  LastPeriod,   \* bound: billing periods of one
  PaidPlans,    \* plans sold through Stripe
  Bought,       \* bound: the plan of each checkout
  Hooks,        \* web processes that handle webhooks
  None,
  MaxSubs,      \* bound: subscription rows
  Scheduled,    \* the tasks the operator has switched on: off by default
  Scenes        \* bound: how often what starts by itself may happen

Remotes == 1..LastRemote         \* by creation
Platform == {"free", "internal"}
Plans == PaidPlans \cup Platform

(* What the user, the administrator, Stripe, time and bad luck start. *)
Kind == {"checkout", "period", "end", "expire", "grace", "renewal", "plan",
         "admin", "command", "sync", "lost", "again", "death", "late", "old"}

Statuses == {"incomplete", "active", "past_due", "canceled"}
Periods == 0..LastPeriod
Invoices == Remotes \X Periods
Copy == [status : Statuses, plan : PaidPlans, ending : BOOLEAN, period : Periods]
Event == [type : {"created", "updated", "paid", "failed", "deleted"},
          remote : Remotes, period : Periods]

ASSUME SubscriptionsAssumption ==
  /\ Scheduled \subseteq {"check", "backfill"}
  /\ LastRemote \in Nat /\ LastPeriod \in Nat /\ MaxSubs \in Nat
  /\ \A scene \in Scenes : DOMAIN scene \subseteq Kind
                           /\ scene \in [DOMAIN scene -> Nat]
  /\ PaidPlans \cap Platform = {}
  /\ Bought \in [Remotes -> PaidPlans]
  /\ None \notin Plans /\ None \notin Remotes
  /\ None \notin Copy /\ None \notin Event

VARIABLES
  remote,    \* the subscriptions as Stripe has them
  paid,      \* the invoices that Stripe has as paid
  reported,  \* history: plans of subscriptions that were active once
  old,       \* the invoices the backfill no longer looks back to
  events,    \* webhook events that Stripe still delivers
  mirror,    \* the copies dj-stripe keeps
  subs,      \* the Subscription rows, by creation
  wallet,    \* the UserCredits row
  record,    \* the status of the PaymentRecord of each invoice
  hook,      \* the event a web process handles
  check,     \* the payment check under way
  down,      \* the downgrade task under way
  renew,     \* the renewal has put the wallet on its list
  budget     \* what is left of the scene

vars == <<remote, paid, reported, old, events, mirror, subs, wallet, record,
          hook, check, down, renew, budget>>
stripeSide == <<remote, paid, reported, old>>
tasks == <<check, down, renew>>

(* of: the Stripe subscription, or None for a plan the platform assigned.    *)
(* overdue: not updated for the seven days of grace.                         *)
FreeSub == [plan |-> "free", of |-> None, status |-> "active",
            renews |-> TRUE, period |-> 0, overdue |-> FALSE]

NoCheck == [pc |-> "idle", picked |-> None, seen |-> None, read |-> None]
NoDown == [pc |-> "idle", todo |-> {}, sub |-> 0]

(* A user who has registered: the free plan. *)
Init ==
  /\ remote = [r \in Remotes |-> None]
  /\ paid = {}
  /\ reported = {}
  /\ old = {}
  /\ events = {}
  /\ mirror = [r \in Remotes |-> None]
  /\ subs = <<FreeSub>>
  /\ wallet = [sub |-> 1, base |-> "free", expired |-> FALSE]
  /\ record = [i \in Invoices |-> None]
  /\ hook = [h \in Hooks |-> None]
  /\ check = NoCheck
  /\ down = NoDown
  /\ renew = FALSE
  /\ budget \in Scenes
-----------------------------------------------------------------------------
(* Rows and the wallet *)

Holding == {"active", "past_due"}    \* trialing is not modelled

RowsOf(ss, r) == {i \in DOMAIN ss : ss[i].of = r}
ActiveRows(ss) == {i \in DOMAIN ss : ss[i].status = "active"}
HoldingRows(ss) == {i \in DOMAIN ss : ss[i].status \in Holding}
Newest(I) == CHOOSE i \in I : \A j \in I : j <= i

Canceled(s) == [s EXCEPT !.status = "canceled", !.renews = FALSE,
                         !.overdue = FALSE]
CancelRows(ss, I) ==
  [i \in DOMAIN ss |-> IF i \in I THEN Canceled(ss[i]) ELSE ss[i]]

(* reset_period_credits: the credits of the plan of the row it follows. *)
ResetCredits(w, ss) ==
  [w EXCEPT !.base = ss[w.sub].plan, !.expired = FALSE]

Starts(k) ==
  /\ k \in DOMAIN budget
  /\ budget[k] > 0
  /\ budget' = [budget EXCEPT ![k] = @ - 1]

(* A bound: the events under way when a period is paid or ends. *)
Unhurried ==
  Cardinality(events) <= IF "late" \in DOMAIN budget THEN budget["late"] ELSE 0

(* Only an event of an invoice tells a period. *)
EventOf(type, r, period) ==
  [type |-> type, remote |-> r,
   period |-> IF type \in {"paid", "failed"} THEN period ELSE 0]
EmitFor(types, r, period) ==
  events' = events \cup {EventOf(t, r, period) : t \in types}
Emit(types, r) == EmitFor(types, r, remote[r].period)
-----------------------------------------------------------------------------
(* Stripe *)

NoDevify == UNCHANGED <<mirror, subs, wallet, record, hook, tasks>>

(* create_checkout_session, then the customer checks out at Stripe; a user   *)
(* with an active internal plan is refused.                                  *)
HasInternal == \E i \in ActiveRows(subs) : subs[i].plan = "internal"

Checkout(r) ==
  /\ Starts("checkout")
  /\ remote[r] = None
  /\ r > 1 => remote[r - 1] # None
  /\ ~HasInternal
  /\ remote' = [remote EXCEPT ![r] = [status |-> "incomplete", plan |-> Bought[r],
                                      ending |-> FALSE, period |-> 0]]
  /\ EmitFor({"created"}, r, 0)
  /\ UNCHANGED <<paid, reported, old>> /\ NoDevify

(* The invoice of the period is paid, perhaps after it failed. *)
InvoicePaid(r) ==
  /\ remote[r] # None
  /\ remote[r].status \in {"incomplete", "past_due"}
  /\ Unhurried
  /\ remote' = [remote EXCEPT ![r].status = "active"]
  /\ paid' = paid \cup {<<r, remote[r].period>>}
  /\ reported' = reported \cup {remote[r].plan}
  /\ Emit({"updated", "paid"}, r)
  /\ UNCHANGED <<old, budget>> /\ NoDevify

(* A period ends: the subscription ends with it if it was canceled, renews,  *)
(* or becomes past due.                                                      *)
PeriodEnds(r) ==
  /\ Starts("period")
  /\ remote[r] # None /\ remote[r].status = "active"
  /\ Unhurried
  /\ LET next == remote[r].period + 1 IN
     \/ /\ remote[r].ending
        /\ remote' = [remote EXCEPT ![r].status = "canceled"]
        /\ Emit({"deleted"}, r)
        /\ UNCHANGED paid
     \/ /\ ~remote[r].ending /\ next <= LastPeriod
        /\ remote' = [remote EXCEPT ![r].period = next]
        /\ paid' = paid \cup {<<r, next>>}
        /\ EmitFor({"updated", "paid"}, r, next)
     \/ /\ ~remote[r].ending /\ next <= LastPeriod
        /\ remote' = [remote EXCEPT ![r].period = next,
                                    ![r].status = "past_due"]
        /\ EmitFor({"updated", "failed"}, r, next)
        /\ UNCHANGED paid
  /\ UNCHANGED <<reported, old>> /\ NoDevify

(* Stripe gives up on a subscription, or the customer ends it in the portal. *)
RemoteEnds(r) ==
  /\ Starts("end")
  /\ remote[r] # None /\ remote[r].status # "canceled"
  /\ Unhurried
  /\ remote' = [remote EXCEPT ![r].status = "canceled"]
  /\ Emit({"deleted"}, r)
  /\ UNCHANGED <<paid, reported, old>> /\ NoDevify

LoseEvent(ev) ==
  /\ Starts("lost")
  /\ events' = events \ {ev}
  /\ UNCHANGED stripeSide /\ NoDevify
-----------------------------------------------------------------------------
(* sync_from_djstripe *)

SyncedRow(r, m) ==
  [plan |-> m.plan, of |-> r, status |-> m.status, renews |-> ~m.ending,
   period |-> remote[r].period, overdue |-> FALSE]

(* Mutant of FollowIfActive: the wallet follows whatever was synced. *)
FollowAlways(w, ss, i) == ResetCredits([w EXCEPT !.sub = i], ss)

(* The wallet follows an active subscription, and its credits are reset.     *)
FollowIfActive(w, ss, i) ==
  IF ss[i].status = "active" THEN ResetCredits([w EXCEPT !.sub = i], ss) ELSE w

(* Status, plan and ending come from the mirror m, the period is retrieved   *)
(* from Stripe.  Only a row that is new and active cancels the other active  *)
(* rows.                                                                     *)
Sync(r, m) ==
  LET known == RowsOf(subs, r)
      i == IF known = {} THEN Len(subs) + 1 ELSE Newest(known)
      kept == IF known = {} /\ m.status = "active"
              THEN CancelRows(subs, ActiveRows(subs)) ELSE subs
      synced == IF known = {} THEN Append(kept, SyncedRow(r, m))
                ELSE [kept EXCEPT ![i] = SyncedRow(r, m)]
  IN /\ subs' = synced
     /\ wallet' = FollowIfActive(wallet, synced, i)
-----------------------------------------------------------------------------
(* Webhooks *)

(* dj-stripe retrieves the subscription and stores it.  Stripe delivers an   *)
(* event again when the answer was an error or came too late.                *)
HookMirror(h, ev) ==
  /\ hook[h] = None
  /\ ev \in events
  /\ \/ events' = events \ {ev} /\ UNCHANGED budget
     \/ Starts("again") /\ UNCHANGED events
  /\ mirror' = [mirror EXCEPT ![ev.remote] = remote[ev.remote]]
  /\ hook' = [hook EXCEPT ![h] = ev]
  /\ UNCHANGED <<stripeSide, subs, wallet, record, tasks>>

HookDone(h) ==
  /\ hook' = [hook EXCEPT ![h] = None]
  /\ UNCHANGED <<stripeSide, events, mirror, tasks, budget>>

(* customer.subscription.created and .updated *)
HookSync(h) ==
  /\ hook[h] # None
  /\ hook[h].type \in {"created", "updated"}
  /\ Sync(hook[h].remote, mirror[hook[h].remote])
  /\ HookDone(h)
  /\ UNCHANGED record

(* customer.subscription.deleted: handle_cancellation *)
HookDeleted(h) ==
  /\ hook[h] # None
  /\ hook[h].type = "deleted"
  /\ subs' = CancelRows(subs, RowsOf(subs, hook[h].remote))
  /\ HookDone(h)
  /\ UNCHANGED <<wallet, record>>

InvoiceOf(ev) == <<ev.remote, ev.period>>

(* invoice.payment_succeeded: the record, then a row that was past due is    *)
(* active again, and a wallet that follows an active row is reset.           *)
HookPaid(h) ==
  LET late == {i \in RowsOf(subs, hook[h].remote) : subs[i].status = "past_due"}
      recovered == [i \in DOMAIN subs |->
                      IF i \in late THEN [subs[i] EXCEPT !.status = "active",
                                                         !.overdue = FALSE]
                      ELSE subs[i]]
  IN
  /\ hook[h] # None
  /\ hook[h].type = "paid"
  /\ record' = [record EXCEPT ![InvoiceOf(hook[h])] = "succeeded"]
  /\ subs' = recovered
  /\ wallet' = IF late # {} /\ recovered[wallet.sub].status = "active"
               THEN ResetCredits(wallet, recovered) ELSE wallet
  /\ HookDone(h)

(* invoice.payment_failed *)
HookFailed(h) ==
  /\ hook[h] # None
  /\ hook[h].type = "failed"
  /\ record' = [record EXCEPT ![InvoiceOf(hook[h])] = "failed"]
  /\ subs' = [i \in DOMAIN subs |->
       IF subs[i].of = hook[h].remote /\ subs[i].status = "active"
       THEN [subs[i] EXCEPT !.status = "past_due"] ELSE subs[i]]
  /\ HookDone(h)
  /\ UNCHANGED wallet
-----------------------------------------------------------------------------
(* The payment check, in the mode auto_fix_safe *)

(* _pick_remote_subscription: by status, then the newest. *)
Pick ==
  LET known == {r \in Remotes : remote[r] # None}
      with(s) == {r \in known : remote[r].status = s}
  IN IF with("active") # {} THEN Newest(with("active"))
     ELSE IF with("past_due") # {} THEN Newest(with("past_due"))
     ELSE IF with("incomplete") # {} THEN Newest(with("incomplete"))
     ELSE IF known # {} THEN Newest(known) ELSE None

(* compare_local_and_remote: does the active row l say what r says? *)
InSync(l, r) ==
  /\ l.of # None
  /\ l.plan = remote[r].plan
  /\ l.status = remote[r].status
  /\ l.period = remote[r].period
  /\ l.renews # remote[r].ending

(* Mutant of NeedsRepair: a user who has an active row is left alone. *)
NeedsRepairIfMissing(r) ==
  IF remote[r].status = "canceled" THEN ActiveRows(subs) # {}
  ELSE ActiveRows(subs) = {}

NeedsRepair(r) ==
  LET active == ActiveRows(subs) IN
  IF remote[r].status = "canceled" THEN active # {}
  ELSE active # {} => ~InSync(subs[Newest(active)], r)

(* check_target: Stripe is asked, and the answer compared. *)
CheckTarget ==
  LET r == Pick IN
  /\ check.pc = "idle"
  /\ r # None
  /\ NeedsRepair(r)
  /\ check' = [pc |-> "sync", picked |-> r, seen |-> remote[r], read |-> None]
  /\ UNCHANGED <<stripeSide, events, mirror, subs, wallet, record, hook, down,
                 renew, budget>>

(* repair_local_state: sync_from_stripe_subscription stores what was read    *)
(* and syncs from it.                                                        *)
CheckSync ==
  LET r == check.picked IN
  /\ check.pc = "sync"
  /\ mirror' = [mirror EXCEPT ![r] = check.seen]
  /\ Sync(r, check.seen)
  /\ check' = [check EXCEPT !.pc = "look"]
  /\ UNCHANGED <<stripeSide, events, record, hook, down, renew, budget>>

(* The wallet is read, without a lock. *)
CheckLook ==
  /\ check.pc = "look"
  /\ check' = [check EXCEPT
       !.pc = IF check.seen.status = "canceled" THEN "others" ELSE "save",
       !.read = wallet]
  /\ UNCHANGED <<stripeSide, events, mirror, subs, wallet, record, hook, down,
                 renew, budget>>

Adopted == Newest(RowsOf(subs, check.picked))

(* A canceled subscription takes every other active row with it. *)
CheckOthers ==
  /\ check.pc = "others"
  /\ subs' = CancelRows(subs, ActiveRows(subs) \ {Adopted})
  /\ check' = [check EXCEPT !.pc = "save"]
  /\ UNCHANGED <<stripeSide, events, mirror, wallet, record, hook, down, renew,
                 budget>>

(* The wallet is saved as it was read, but follows the row, whatever the     *)
(* status of the row.                                                        *)
CheckSave ==
  /\ check.pc = "save"
  /\ wallet' = [check.read EXCEPT !.sub = Adopted]
  /\ check' = IF check.seen.status = "active" THEN [check EXCEPT !.pc = "reset"]
              ELSE NoCheck
  /\ UNCHANGED <<stripeSide, events, mirror, subs, record, hook, down, renew,
                 budget>>

(* The reset takes the row that the wallet follows by then. *)
CheckReset ==
  /\ check.pc = "reset"
  /\ wallet' = ResetCredits(wallet, subs)
  /\ check' = NoCheck
  /\ UNCHANGED <<stripeSide, events, mirror, subs, record, hook, down, renew,
                 budget>>

(* The worker of the check dies between two commits. *)
CheckDies ==
  /\ check.pc # "idle"
  /\ Starts("death")
  /\ check' = NoCheck
  /\ UNCHANGED <<stripeSide, events, mirror, subs, wallet, record, hook, down,
                 renew>>

(* A paid invoice leaves the days that the backfill looks back.              *)
Ages(i) ==
  /\ Starts("old")
  /\ i \in paid \ old
  /\ old' = old \cup {i}
  /\ UNCHANGED <<remote, paid, reported, events>> /\ NoDevify

(* Mutant of Backfill: a record that exists is left alone. *)
BackfillMissing ==
  /\ \E i \in paid \ old : record[i] = None
  /\ record' = [i \in Invoices |->
       IF i \in paid \ old /\ record[i] = None THEN "succeeded" ELSE record[i]]
  /\ UNCHANGED <<stripeSide, events, mirror, subs, wallet, hook, tasks, budget>>

(* payment_record_backfill: every paid invoice of the last days. *)
Backfill ==
  /\ \E i \in paid \ old : record[i] # "succeeded"
  /\ record' = [i \in Invoices |->
       IF i \in paid \ old THEN "succeeded" ELSE record[i]]
  /\ UNCHANGED <<stripeSide, events, mirror, subs, wallet, hook, tasks, budget>>
-----------------------------------------------------------------------------
(* Renewal and downgrade *)

CreditsExpire ==
  /\ Starts("expire")
  /\ ~wallet.expired
  /\ wallet' = [wallet EXCEPT !.expired = TRUE]
  /\ UNCHANGED <<stripeSide, events, mirror, subs, record, hook, tasks>>

RenewList ==
  /\ ~renew
  /\ wallet.expired
  /\ subs[wallet.sub].status = "active"
  /\ renew' = TRUE
  /\ UNCHANGED <<stripeSide, events, mirror, subs, wallet, record, hook, check,
                 down, budget>>

RenewReset ==
  /\ renew
  /\ wallet' = ResetCredits(wallet, subs)
  /\ renew' = FALSE
  /\ UNCHANGED <<stripeSide, events, mirror, subs, record, hook, check, down,
                 budget>>

Grace(i) ==
  /\ Starts("grace")
  /\ subs[i].status = "past_due" /\ ~subs[i].overdue
  /\ subs' = [subs EXCEPT ![i].overdue = TRUE]
  /\ UNCHANGED <<stripeSide, events, mirror, wallet, record, hook, tasks>>

DownList ==
  LET late == {i \in DOMAIN subs : subs[i].status = "past_due"
                                   /\ subs[i].overdue} IN
  /\ down.pc = "idle"
  /\ late # {}
  /\ Len(subs) < MaxSubs
  /\ down' = [pc |-> "cancel", todo |-> late, sub |-> Newest(late)]
  /\ UNCHANGED <<stripeSide, events, mirror, subs, wallet, record, hook, check,
                 renew, budget>>

(* cancel_subscription: Stripe ends the subscription with its period, the    *)
(* row does not renew.  Stripe refuses for a subscription that has ended: on *)
(* to the next of the list.                                                  *)
DownCancel ==
  LET i == down.sub
      r == subs[i].of
      rest == down.todo \ {i}
  IN
  /\ down.pc = "cancel"
  /\ IF remote[r].status = "canceled"
     THEN /\ down' = IF rest = {} THEN NoDown
                     ELSE [pc |-> "cancel", todo |-> rest, sub |-> Newest(rest)]
          /\ UNCHANGED <<remote, events, subs>>
     ELSE /\ remote' = [remote EXCEPT ![r].ending = TRUE]
          /\ Emit({"updated"}, r)
          /\ subs' = [subs EXCEPT ![i].renews = FALSE, ![i].overdue = FALSE]
          /\ down' = [down EXCEPT !.pc = "row", !.todo = rest]
  /\ UNCHANGED <<paid, reported, old, mirror, wallet, record, hook, check, renew,
                 budget>>

(* The row is canceled in a commit of its own, whatever it is by then. *)
DownRow ==
  /\ down.pc = "row"
  /\ subs' = CancelRows(subs, {down.sub})
  /\ down' = [down EXCEPT !.pc = "create"]
  /\ UNCHANGED <<stripeSide, events, mirror, wallet, record, hook, check, renew,
                 budget>>

DownCreate ==
  /\ down.pc = "create"
  /\ subs' = Append(subs, [FreeSub EXCEPT !.renews = FALSE])
  /\ down' = [down EXCEPT !.pc = "credit", !.sub = Len(subs) + 1]
  /\ UNCHANGED <<stripeSide, events, mirror, wallet, record, hook, check, renew,
                 budget>>

DownCredit ==
  /\ down.pc = "credit"
  /\ wallet' = ResetCredits([wallet EXCEPT !.sub = down.sub], subs)
  /\ down' = IF down.todo = {} \/ Len(subs) >= MaxSubs THEN NoDown
             ELSE [pc |-> "cancel", todo |-> down.todo,
                   sub |-> Newest(down.todo)]
  /\ UNCHANGED <<stripeSide, events, mirror, subs, record, hook, check, renew,
                 budget>>

(* The worker of the downgrade dies between two commits. *)
DownDies ==
  /\ down.pc # "idle"
  /\ Starts("death")
  /\ down' = NoDown
  /\ UNCHANGED <<stripeSide, events, mirror, subs, wallet, record, hook, check,
                 renew>>
-----------------------------------------------------------------------------
(* The user and the administrator *)

(* cancel_subscription and resume_subscription of any row of the user; a row *)
(* of the platform is not known to Stripe.                                   *)
SetRenewal(i, keep) ==
  LET r == subs[i].of IN
  /\ Starts("renewal")
  /\ ~HasInternal
  /\ r # None => remote[r].status # "canceled"
  /\ IF r = None THEN UNCHANGED <<remote, events>>
     ELSE /\ remote' = [remote EXCEPT ![r].ending = ~keep]
          /\ Emit({"updated"}, r)
  /\ subs' = [subs EXCEPT ![i].renews = keep, ![i].overdue = FALSE]
  /\ UNCHANGED <<paid, reported, old, mirror, wallet, record, hook, tasks>>

(* schedule_downgrade: Stripe changes the price of the newest active row. *)
ScheduleDowngrade(p) ==
  LET active == ActiveRows(subs)
      r == subs[Newest(active)].of IN
  /\ Starts("plan")
  /\ ~HasInternal
  /\ active # {} /\ r # None /\ remote[r].status # "canceled"
  /\ remote' = [remote EXCEPT ![r].plan = p, ![r].ending = FALSE]
  /\ reported' = IF remote[r].status \in Holding THEN reported \cup {p}
                 ELSE reported
  /\ Emit({"updated"}, r)
  /\ UNCHANGED <<paid, old>> /\ NoDevify

(* switch_plan_for_user: the newest row that holds is kept if it is the plan *)
(* already; everything else is canceled.                                     *)
SwitchPlan(p) ==
  LET holding == HoldingRows(subs)
      reuse == /\ holding # {}
               /\ LET s == subs[Newest(holding)] IN
                  s.plan = p /\ s.of = None /\ s.status = "active"
      kept == CancelRows(subs, IF reuse THEN holding \ {Newest(holding)}
                               ELSE holding)
      switched == IF reuse THEN kept
                  ELSE Append(kept, [FreeSub EXCEPT !.plan = p])
  IN /\ subs' = switched
     /\ wallet' = ResetCredits(
          [wallet EXCEPT !.sub = IF reuse THEN Newest(holding)
                                 ELSE Len(switched)], switched)

(* The administrator assigns any plan, also one that is sold, but may not    *)
(* touch a subscription of Stripe.                                           *)
AdminAssigns(p) ==
  LET holding == HoldingRows(subs) IN
  /\ Starts("admin")
  /\ Len(subs) < MaxSubs
  /\ holding # {} => subs[Newest(holding)].of = None
  /\ SwitchPlan(p)
  /\ UNCHANGED <<stripeSide, events, mirror, record, hook, tasks>>

(* The command assign_internal_plan: from the free plan to the internal one, *)
(* and back.                                                                 *)
CommandAssigns(p) ==
  LET active == ActiveRows(subs) IN
  /\ Starts("command")
  /\ Len(subs) < MaxSubs
  /\ active # {}
  /\ subs[Newest(active)].of = None
  /\ subs[Newest(active)].plan # p
  /\ LET switched == Append(CancelRows(subs, {Newest(active)}),
                            [FreeSub EXCEPT !.plan = p]) IN
     /\ subs' = switched
     /\ wallet' = ResetCredits([wallet EXCEPT !.sub = Len(switched)], switched)
  /\ UNCHANGED <<stripeSide, events, mirror, record, hook, tasks>>

(* sync_user_subscription_from_stripe, for the administrator: the latest of  *)
(* Stripe's answer, synced at once.                                          *)
AdminSyncs ==
  /\ Starts("sync")
  /\ Pick # None
  /\ mirror' = [mirror EXCEPT ![Pick] = remote[Pick]]
  /\ Sync(Pick, remote[Pick])
  /\ UNCHANGED <<stripeSide, events, record, hook, tasks>>
-----------------------------------------------------------------------------
HookStep(h) ==
  \/ \E ev \in events : HookMirror(h, ev)
  \/ HookSync(h) \/ HookDeleted(h) \/ HookPaid(h) \/ HookFailed(h)

CheckStep ==
  \/ CheckTarget \/ CheckSync \/ CheckLook \/ CheckOthers \/ CheckSave
  \/ CheckReset
DownStep == DownList \/ DownCancel \/ DownRow \/ DownCreate \/ DownCredit
RenewStep == RenewList \/ RenewReset

StripeStep ==
  \/ \E r \in Remotes : InvoicePaid(r) \/ PeriodEnds(r) \/ RemoteEnds(r)
  \/ \E ev \in events : LoseEvent(ev)
  \/ \E i \in paid : Ages(i)

UserStep ==
  \/ \E r \in Remotes : Checkout(r)
  \/ \E i \in DOMAIN subs, keep \in BOOLEAN : SetRenewal(i, keep)
  \/ \E p \in PaidPlans : ScheduleDowngrade(p)
  \/ \E p \in Plans : AdminAssigns(p)
  \/ \E p \in Platform : CommandAssigns(p)
  \/ AdminSyncs

Next ==
  \/ \E h \in Hooks : HookStep(h)
  \/ CheckStep \/ CheckDies \/ Backfill \/ DownStep \/ DownDies \/ RenewStep
  \/ StripeStep \/ UserStep
  \/ CreditsExpire \/ \E i \in DOMAIN subs : Grace(i)

Spec == Init /\ [][Next]_vars

(* Requests go on.  Beat always schedules the renewal and the downgrade; it  *)
(* schedules the check and the backfill only when the operator has switched  *)
(* them on (periodic_tasks.py registers both as disabled).  Either may be    *)
(* run by hand.                                                              *)
Fairness ==
  /\ \A h \in Hooks : WF_vars(HookStep(h))
  /\ WF_vars(DownStep) /\ WF_vars(RenewStep)
  /\ "check" \in Scheduled => WF_vars(CheckStep)
  /\ "backfill" \in Scheduled => WF_vars(Backfill)

FairSpec == Spec /\ Fairness
-----------------------------------------------------------------------------
(* Properties *)

(* A plan that an operator gave: the row is never deleted. *)
Assigned(ss, p) == \E i \in DOMAIN ss : ss[i].of = None /\ ss[i].plan = p

(* sync_from_djstripe: the credits of a paid plan are granted only for a     *)
(* plan of a subscription that was active once, or that an operator gave,    *)
(* whatever events were late, repeated or lost and whichever task ran in     *)
(* between: an abandoned checkout never pays out.  The renewal may break     *)
(* this: it works through a list and does not look at the subscription       *)
(* again.  The save of the payment check grants nothing, but puts back the   *)
(* credits that the wallet had when it was read.                             *)
PaidPlanIsPaid ==
  [][wallet'.base # wallet.base /\ wallet'.base \in PaidPlans =>
       \/ wallet'.base \in reported \/ Assigned(subs', wallet'.base)
       \/ RenewReset \/ CheckSave]_vars

(* payment_record_service.py: "Webhook retries and scheduled backfills must  *)
(* converge".  When the backfill is scheduled, the record of an invoice that *)
(* Stripe has as paid, and that is not too old for it, ends as succeeded,    *)
(* even when the event of an earlier failure comes last.                     *)
PaidInvoicesSettle ==
  "backfill" \in Scheduled =>
    \A i \in Invoices :
      (<>[](i \in paid \ old)) => <>[](record[i] = "succeeded")

(* When the payment check is scheduled it repairs what webhooks lost: if the *)
(* subscription that Stripe has as active stays so, its row ends as active   *)
(* with the plan of Stripe, and if it is the only one the wallet follows it. *)
(* The credits may stay those of the plan before until the next renewal.     *)
Only(r) == \A q \in Remotes : remote[q] # None => q = r
Served(r) ==
  \E i \in RowsOf(subs, r) :
    /\ subs[i].status = "active" /\ subs[i].plan = remote[r].plan
    /\ Only(r) => wallet.sub = i
ActiveIsServed ==
  "check" \in Scheduled =>
    \A r \in Remotes :
      (<>[](Pick = r /\ remote[r].status = "active")) => <>[]Served(r)
=============================================================================
