------------------------- MODULE SubscriptionsProofs -------------------------
(***************************************************************************)
(* What holds of Subscriptions for every number of Stripe subscriptions,   *)
(* periods, web processes and rows, and every scene: the credits of a paid *)
(* plan are granted only for a plan that Stripe had as active or that an   *)
(* operator gave.                                                          *)
(*                                                                         *)
(* The rows are kept true to Stripe: a row that holds is of a subscription *)
(* that was paid for once, and its plan was reported (RowInv).  What makes *)
(* this inductive is that a copy that may still be stored, in the mirror   *)
(* of dj-stripe or in the hands of the payment check, names the plan that  *)
(* the subscription has until it is paid for, and then one that was        *)
(* reported (Fitting, MirrorInv, CheckInv), and that a subscription with a *)
(* paid invoice was reported with the plan it has now (StripeInv).         *)
(***************************************************************************)
EXTENDS Subscriptions, TLAPS, SequenceTheorems, WellFoundedInduction

-----------------------------------------------------------------------------
(* The state *)

SubRow == [plan : Plans, of : Remotes \cup {None}, status : Statuses,
           renews : BOOLEAN, period : Periods, overdue : BOOLEAN]
Wallet == [sub : Nat, base : Plans, expired : BOOLEAN]
Check == [pc : {"idle", "sync", "look", "others", "save", "reset"},
          picked : Remotes \cup {None}, seen : Copy \cup {None},
          read : Wallet \cup {None}]
Down == [pc : {"idle", "cancel", "row", "create", "credit"}, todo : SUBSET Nat, sub : Nat]

TypeInv ==
  /\ remote \in [Remotes -> Copy \cup {None}]
  /\ paid \in SUBSET Invoices /\ old \in SUBSET Invoices
  /\ reported \in SUBSET PaidPlans
  /\ events \in SUBSET Event
  /\ mirror \in [Remotes -> Copy \cup {None}]
  /\ subs \in Seq(SubRow)
  /\ wallet \in Wallet /\ wallet.sub \in DOMAIN subs
  /\ record \in [Invoices -> {None, "succeeded", "failed"}]
  /\ hook \in [Hooks -> Event \cup {None}]
  /\ check \in Check
  /\ down \in Down
  /\ renew \in BOOLEAN
  /\ budget \in [DOMAIN budget -> Nat]

Once(r) == \E k \in Periods : <<r, k>> \in paid
Charged == {r \in Remotes : Once(r)}

(* The plans a copy of a subscription may name.                              *)
Fitting ==
  {x \in Remotes \X PaidPlans :
     /\ remote[x[1]] # None
     /\ IF x[1] \in Charged THEN x[2] \in reported
        ELSE x[2] = remote[x[1]].plan}

(* A row belongs to a subscription that Stripe has, one row for each, or is  *)
(* of the platform; a row that holds was paid for, and its plan reported.    *)
RowInv ==
  /\ \A i \in DOMAIN subs : subs[i].of = None => subs[i].status \in {"active", "canceled"}
  /\ \A i \in DOMAIN subs : subs[i].of # None =>
       /\ remote[subs[i].of] # None /\ <<subs[i].of, subs[i].plan>> \in Fitting
       /\ subs[i].status \in Holding => subs[i].of \in Charged
  /\ \A i, j \in DOMAIN subs : subs[i].of = subs[j].of /\ subs[i].of # None => i = j

LEMMA ChargedFits ==
  ASSUME NEW r \in Charged, NEW p, <<r, p>> \in Fitting
  PROVE  p \in reported
BY DEF Fitting

LEMMA FittingIs ==
  ASSUME NEW r \in Remotes, NEW p \in PaidPlans
  PROVE  <<r, p>> \in Fitting <=> /\ remote[r] # None
                                 /\ IF r \in Charged THEN p \in reported
                                    ELSE p = remote[r].plan
BY DEF Fitting

-----------------------------------------------------------------------------
(* Rows *)

(* A row keeps its owner and its plan, and does not come back to life.       *)
SameRow(x, y) ==
  /\ y.of = x.of /\ y.plan = x.plan
  /\ y.status \in Holding => x.status \in Holding
  /\ x.of = None => y.status \in {x.status, "canceled"}

Follows(ss, tt) ==
  /\ tt \in Seq(SubRow) /\ Len(tt) = Len(ss)
  /\ \A i \in DOMAIN ss : SameRow(ss[i], tt[i])

(* A row of the platform is added.                                           *)
Added(ss, tt) ==
  /\ tt \in Seq(SubRow) /\ Len(tt) = Len(ss) + 1
  /\ \A i \in DOMAIN ss : SameRow(ss[i], tt[i])
  /\ tt[Len(tt)].of = None /\ tt[Len(tt)].status = "active"

(* Row i, old or new, is what the copy m of r says.                          *)
Synced(ss, tt, r, m, i) ==
  /\ tt \in Seq(SubRow) /\ Len(ss) \in Nat /\ Len(tt) \in Nat
  /\ \/ Len(tt) = Len(ss) /\ i \in DOMAIN ss /\ ss[i].of = r
     \/ Len(tt) = Len(ss) + 1 /\ i = Len(tt) /\ \A j \in DOMAIN ss : ss[j].of # r
  /\ tt[i].of = r /\ tt[i].plan = m.plan /\ tt[i].status = m.status
  /\ \A j \in DOMAIN ss : j # i => SameRow(ss[j], tt[j])

LEMMA NewestIsOne ==
  ASSUME NEW n \in Nat, NEW I, I \subseteq 0 .. n, I # {}
  PROVE  Newest(I) \in I
<1> DEFINE T == {n - i : i \in I}
<1>1. T \subseteq Nat /\ T # {}
  <2>1. \A i \in I : n - i \in Nat
    OBVIOUS
  <2>2. PICK i : i \in I
    OBVIOUS
  <2>3. n - i \in T
    BY <2>2
  <2> QED
    BY <2>1, <2>3
<1>2. PICK m \in T : \A k \in T : ~(<<k, m>> \in OpToRel(<, Nat))
  BY <1>1, NatLessThanWellFounded, WFMin
<1>3. PICK i \in I : m = n - i
  OBVIOUS
<1>4. \A j \in I : j <= i
  <2> SUFFICES ASSUME NEW j \in I, ~(j <= i) PROVE FALSE
    OBVIOUS
  <2>1. n - j \in T /\ n - j < m /\ n - j \in Nat /\ m \in Nat
    BY <1>3
  <2> QED
    BY <1>2, <2>1 DEF OpToRel
<1> QED
  BY <1>4 DEF Newest

LEMMA FunctionIsSeq ==
  ASSUME NEW S, NEW s \in Seq(S), NEW t \in [DOMAIN s -> S]
  PROVE  t \in Seq(S) /\ Len(t) = Len(s)
BY SeqDef

LEMMA AppendIsSeq ==
  ASSUME NEW S, NEW s \in Seq(S), NEW x \in S
  PROVE  /\ Append(s, x) \in Seq(S) /\ Len(Append(s, x)) = Len(s) + 1 /\ Len(s) \in Nat
         /\ \A i \in DOMAIN s : Append(s, x)[i] = s[i]
         /\ Append(s, x)[Len(s) + 1] = x
BY AppendProperties

LEMMA CanceledRow ==
  ASSUME NEW s \in SubRow
  PROVE  Canceled(s) \in SubRow /\ SameRow(s, Canceled(s)) /\ SameRow(s, s)
BY DEF Canceled, SubRow, SameRow, Holding, Statuses

LEMMA CancelFollows ==
  ASSUME NEW ss \in Seq(SubRow), NEW I
  PROVE  Follows(ss, CancelRows(ss, I))
<1> DEFINE t == CancelRows(ss, I)
<1>1. \A i \in DOMAIN ss : ss[i] \in SubRow
  OBVIOUS
<1>2. t = [i \in DOMAIN ss |-> IF i \in I THEN Canceled(ss[i]) ELSE ss[i]]
  BY DEF CancelRows
<1>3. t \in [DOMAIN ss -> SubRow]
  BY <1>1, <1>2, CanceledRow
<1>4. \A i \in DOMAIN ss : SameRow(ss[i], t[i])
  BY <1>1, <1>2, CanceledRow
<1> HIDE DEF t
<1> QED
  BY <1>3, <1>4, FunctionIsSeq DEF Follows, t

LEMMA FollowsSelf ==
  ASSUME NEW ss \in Seq(SubRow)
  PROVE  Follows(ss, ss)
<1>1. \A i \in DOMAIN ss : ss[i] \in SubRow
  OBVIOUS
<1> QED
  BY <1>1, CanceledRow DEF Follows

LEMMA FollowsAppend ==
  ASSUME NEW ss \in Seq(SubRow), NEW tt, Follows(ss, tt), NEW x \in SubRow
  PROVE  /\ Append(tt, x) \in Seq(SubRow) /\ Len(Append(tt, x)) = Len(ss) + 1
         /\ Len(ss) \in Nat
         /\ \A i \in DOMAIN ss : SameRow(ss[i], Append(tt, x)[i])
         /\ Append(tt, x)[Len(ss) + 1] = x
<1>1. tt \in Seq(SubRow) /\ Len(tt) = Len(ss) /\ DOMAIN tt = DOMAIN ss
  BY DEF Follows
<1> QED
  BY <1>1, AppendIsSeq DEF Follows

LEMMA AppendAdds ==
  ASSUME NEW ss \in Seq(SubRow), NEW tt, Follows(ss, tt), NEW x \in SubRow,
         x.of = None, x.status = "active"
  PROVE  Added(ss, Append(tt, x))
BY FollowsAppend DEF Added

LEMMA PlatformRow ==
  ASSUME NEW p \in Plans, NEW keep \in BOOLEAN
  PROVE  /\ [FreeSub EXCEPT !.plan = p] \in SubRow /\ [FreeSub EXCEPT !.renews = keep] \in SubRow
         /\ [FreeSub EXCEPT !.plan = p].of = None /\ [FreeSub EXCEPT !.plan = p].plan = p
         /\ [FreeSub EXCEPT !.plan = p].status = "active"
         /\ [FreeSub EXCEPT !.renews = keep].of = None
         /\ [FreeSub EXCEPT !.renews = keep].plan = "free"
         /\ [FreeSub EXCEPT !.renews = keep].status = "active"
<1>1. p \in Plans /\ "free" \in Plans /\ "free" \in Platform /\ 0 \in Periods
  BY SubscriptionsAssumption DEF Plans, Platform, Periods
<1>2. FreeSub \in SubRow
  BY <1>1 DEF FreeSub, SubRow, Statuses
<1> QED
  BY <1>1, <1>2 DEF FreeSub, SubRow

LEMMA ResetEffect ==
  ASSUME NEW w \in Wallet, NEW ss, ss[w.sub].plan \in Plans
  PROVE  /\ ResetCredits(w, ss) \in Wallet /\ ResetCredits(w, ss).sub = w.sub
         /\ ResetCredits(w, ss).base = ss[w.sub].plan
BY DEF ResetCredits, Wallet

LEMMA MovedWallet ==
  ASSUME NEW w \in Wallet, NEW i \in Nat
  PROVE  /\ [w EXCEPT !.sub = i] \in Wallet /\ [w EXCEPT !.sub = i].sub = i
         /\ [w EXCEPT !.sub = i].base = w.base
BY DEF Wallet

(* The wallet is moved to row i and reset.                                   *)
LEMMA MoveAndReset ==
  ASSUME NEW w \in Wallet, NEW ss, NEW i \in Nat, ss[i].plan \in Plans
  PROVE  LET v == ResetCredits([w EXCEPT !.sub = i], ss) IN
         v \in Wallet /\ v.sub = i /\ v.base = ss[i].plan
<1> DEFINE x == [w EXCEPT !.sub = i]
<1>1. x \in Wallet /\ x.sub = i
  BY MovedWallet
<1> HIDE DEF x
<1>2. /\ ResetCredits(x, ss) \in Wallet /\ ResetCredits(x, ss).sub = i
      /\ ResetCredits(x, ss).base = ss[i].plan
  BY <1>1, ResetEffect
<1> QED
  BY <1>2 DEF x

LEMMA SyncedRowIs ==
  ASSUME TypeInv, NEW r \in Remotes, remote[r] # None, NEW m \in Copy
  PROVE  /\ SyncedRow(r, m) \in SubRow /\ SyncedRow(r, m).of = r
         /\ SyncedRow(r, m).plan = m.plan /\ SyncedRow(r, m).status = m.status
<1>1. remote[r] \in Copy
  BY DEF TypeInv
<1>2. remote[r].period \in Periods
  BY <1>1 DEF Copy
<1> QED
  BY <1>2 DEF SyncedRow, SubRow, Copy, Plans

LEMMA SyncEffect ==
  ASSUME TypeInv, NEW r \in Remotes, remote[r] # None, NEW m \in Copy, Sync(r, m)
  PROVE  \E i : /\ Synced(subs, subs', r, m, i)
                /\ \/ UNCHANGED wallet
                   \/ /\ m.status = "active" /\ wallet' \in Wallet
                      /\ wallet'.sub = i /\ wallet'.base = m.plan
<1> DEFINE known == RowsOf(subs, r)
           i == IF known = {} THEN Len(subs) + 1 ELSE Newest(known)
           kept == IF known = {} /\ m.status = "active"
                   THEN CancelRows(subs, ActiveRows(subs)) ELSE subs
           row == SyncedRow(r, m)
<1>1. subs \in Seq(SubRow) /\ wallet \in Wallet
  BY DEF TypeInv
<1>2. row \in SubRow /\ row.of = r /\ row.plan = m.plan /\ row.status = m.status
  BY SyncedRowIs
<1>3. Follows(subs, kept)
  BY <1>1, CancelFollows, FollowsSelf
<1>4. /\ subs' = IF known = {} THEN Append(kept, row) ELSE [kept EXCEPT ![i] = row]
      /\ wallet' = FollowIfActive(wallet, subs', i)
  BY DEF Sync
<1>5. known \subseteq DOMAIN subs /\ \A j \in DOMAIN subs : j \in known <=> subs[j].of = r
  BY DEF RowsOf
<1> HIDE DEF kept, row
<1>6. Synced(subs, subs', r, m, i) /\ i \in Nat
  <2>1. CASE known = {}
    <3>1. subs' = Append(kept, row) /\ i = Len(subs) + 1
      BY <1>4, <2>1
    <3>2. /\ subs' \in Seq(SubRow) /\ Len(subs') = Len(subs) + 1 /\ Len(subs) \in Nat
          /\ \A j \in DOMAIN subs : SameRow(subs[j], subs'[j])
          /\ subs'[Len(subs) + 1] = row
      BY <1>1, <1>2, <1>3, <3>1, FollowsAppend
    <3>3. \A j \in DOMAIN subs : subs[j].of # r
      BY <1>5, <2>1
    <3> HIDE DEF i, known
    <3> QED
      BY <1>2, <3>1, <3>2, <3>3 DEF Synced
  <2>2. CASE known # {}
    <3>1. i = Newest(known) /\ subs' = [kept EXCEPT ![i] = row]
      BY <1>4, <2>2
    <3>2. Len(subs) \in Nat /\ DOMAIN subs = 1 .. Len(subs)
      BY <1>1
    <3>3. known \subseteq 0 .. Len(subs)
      BY <1>5, <3>2
    <3>4. i \in known
      BY <2>2, <3>1, <3>2, <3>3, NewestIsOne
    <3>5. i \in DOMAIN subs /\ subs[i].of = r
      BY <1>5, <3>4
    <3> HIDE DEF i, known
    <3>6. kept \in Seq(SubRow) /\ Len(kept) = Len(subs)
          /\ \A j \in DOMAIN subs : SameRow(subs[j], kept[j])
      BY <1>3 DEF Follows
    <3>7. /\ subs' \in Seq(SubRow) /\ Len(subs') = Len(subs)
          /\ \A j \in 1 .. Len(subs) : subs'[j] = IF j = i THEN row ELSE kept[j]
      BY <1>2, <3>1, <3>2, <3>5, <3>6, ExceptSeq
    <3>8. \A j \in DOMAIN subs : j # i => SameRow(subs[j], subs'[j])
      BY <3>2, <3>6, <3>7
    <3>9. subs'[i] = row /\ i \in DOMAIN subs /\ Len(subs') = Len(subs) /\ i \in Nat
      BY <3>2, <3>5, <3>7
    <3> QED
      BY <1>2, <3>2, <3>5, <3>7, <3>8, <3>9 DEF Synced
  <2> QED
    BY <2>1, <2>2
<1> HIDE DEF i, known
<1>7. subs'[i].plan = m.plan /\ subs'[i].status = m.status /\ m.plan \in Plans
  BY <1>6 DEF Synced, Copy, Plans
<1>8. CASE m.status = "active"
  <2>1. wallet' = ResetCredits([wallet EXCEPT !.sub = i], subs')
    BY <1>4, <1>7, <1>8 DEF FollowIfActive
  <2>2. wallet' \in Wallet /\ wallet'.sub = i /\ wallet'.base = m.plan
    BY <1>1, <1>6, <1>7, <2>1, MoveAndReset
  <2> QED
    BY <1>6, <1>8, <2>2
<1>9. CASE m.status # "active"
  BY <1>4, <1>6, <1>7, <1>9 DEF FollowIfActive
<1> QED
  BY <1>8, <1>9

-----------------------------------------------------------------------------
(* Stripe's side *)

(* What is paid for was active once, and its plan was reported.              *)
StripeInv ==
  /\ \A ev \in events : remote[ev.remote] # None
  /\ \A r \in Remotes : remote[r] = None => ~Once(r)
  /\ \A r \in Remotes : remote[r] # None /\ remote[r].status = "incomplete" => ~Once(r)
  /\ \A r \in Remotes : remote[r] # None /\ Once(r) => remote[r].plan \in reported
  /\ \A r \in Remotes : remote[r] # None /\ remote[r].status \in Holding => Once(r)

(* Subscription r becomes c at Stripe.                                       *)
Turn(r, c) ==
  /\ r \in Remotes /\ c \in Copy
  /\ remote' = [remote EXCEPT ![r] = c]
  /\ paid \subseteq paid' /\ paid' \in SUBSET Invoices
  /\ \A q \in Remotes, k \in Periods : <<q, k>> \in paid' => <<q, k>> \in paid \/ q = r
  /\ reported \subseteq reported' /\ reported' \in SUBSET PaidPlans
  /\ old' \in SUBSET Invoices
  /\ events' \in SUBSET Event
  /\ remote[r] # None /\ ~Once(r) => c.plan = remote[r].plan
  /\ \A ev \in events' : ev \in events \/ ev.remote = r
  /\ c.status = "incomplete" => \A k \in Periods : <<r, k>> \notin paid'
  /\ (\E k \in Periods : <<r, k>> \in paid') => c.plan \in reported'
  /\ c.status \in Holding => \E k \in Periods : <<r, k>> \in paid'

(* What was known or paid for stays so.                                      *)
Grows ==
  /\ \A q \in Remotes : remote[q] # None => remote'[q] # None
  /\ paid \subseteq paid' /\ reported \subseteq reported'
  /\ Charged \subseteq Charged' /\ Fitting \subseteq Fitting'

LEMMA TurnStep ==
  ASSUME TypeInv, StripeInv, NEW r, NEW c, Turn(r, c)
  PROVE  /\ StripeInv' /\ Grows
         /\ remote' \in [Remotes -> Copy \cup {None}] /\ paid' \in SUBSET Invoices
         /\ reported' \in SUBSET PaidPlans /\ events' \in SUBSET Event
         /\ old' \in SUBSET Invoices
<1> USE DEF Turn
<1>1. None \notin Copy
  BY SubscriptionsAssumption
<1>2. remote \in [Remotes -> Copy \cup {None}]
  BY DEF TypeInv
<1>3. /\ remote' \in [Remotes -> Copy \cup {None}] /\ remote'[r] = c /\ remote'[r] # None
      /\ \A q \in Remotes : q # r => remote'[q] = remote[q]
  BY <1>1, <1>2
<1>4. \A q \in Remotes : q # r => (Once(q)' <=> Once(q))
  BY DEF Once
<1>5. \A ev \in events' : remote'[ev.remote] # None
  <2> SUFFICES ASSUME NEW ev \in events' PROVE remote'[ev.remote] # None
    OBVIOUS
  <2>1. ev.remote \in Remotes
    BY DEF Event
  <2> QED
    BY <1>3, <2>1 DEF StripeInv
<1>6. /\ \A q \in Remotes : remote'[q] = None => ~Once(q)'
      /\ \A q \in Remotes : remote'[q] # None /\ remote'[q].status = "incomplete" => ~Once(q)'
      /\ \A q \in Remotes : remote'[q] # None /\ Once(q)' => remote'[q].plan \in reported'
      /\ \A q \in Remotes : remote'[q] # None /\ remote'[q].status \in Holding => Once(q)'
  <2> SUFFICES ASSUME NEW q \in Remotes
               PROVE  /\ remote'[q] = None => ~Once(q)'
                      /\ remote'[q] # None /\ remote'[q].status = "incomplete" => ~Once(q)'
                      /\ remote'[q] # None /\ Once(q)' => remote'[q].plan \in reported'
                      /\ remote'[q] # None /\ remote'[q].status \in Holding => Once(q)'
    OBVIOUS
  <2>1. CASE q = r
    BY <1>3, <2>1 DEF Once
  <2>2. CASE q # r
    BY <1>3, <1>4, <2>2 DEF StripeInv
  <2> QED
    BY <2>1, <2>2
<1>7. Charged \subseteq Charged'
  BY DEF Charged, Once
<1>8. ASSUME NEW x \in Fitting PROVE x \in Fitting'
  <2>1. /\ x \in Remotes \X PaidPlans /\ x[1] \in Remotes /\ remote[x[1]] # None
        /\ IF Once(x[1]) THEN x[2] \in reported ELSE x[2] = remote[x[1]].plan
    BY DEF Fitting, Charged
  <2>2. remote'[x[1]] # None
    BY <1>3, <2>1
  <2>3. IF Once(x[1])' THEN x[2] \in reported' ELSE x[2] = remote'[x[1]].plan
    <3>1. CASE x[1] = r /\ Once(r)
      BY <2>1, <3>1 DEF Once
    <3>2. CASE x[1] = r /\ ~Once(r)
      BY <1>3, <2>1, <3>2 DEF Once
    <3>3. CASE x[1] # r
      BY <1>3, <1>4, <2>1, <3>3
    <3> QED
      BY <3>1, <3>2, <3>3
  <2> QED
    BY <2>1, <2>2, <2>3 DEF Fitting, Charged
<1>9. Grows
  BY <1>3, <1>7, <1>8 DEF Grows
<1> QED
  BY <1>3, <1>5, <1>6, <1>9 DEF StripeInv

LEMMA StripeSame ==
  ASSUME StripeInv, UNCHANGED stripeSide, events' \subseteq events
  PROVE  StripeInv' /\ Grows
BY DEF StripeInv, Grows, Charged, Fitting, Once, stripeSide

LEMMA EmitEffect ==
  ASSUME TypeInv, NEW types, types \subseteq {"created", "updated", "paid", "failed", "deleted"},
         NEW r \in Remotes, NEW period \in Periods, EmitFor(types, r, period)
  PROVE  events' \in SUBSET Event /\ \A ev \in events' : ev \in events \/ ev.remote = r
<1>1. 0 \in Periods
  BY SubscriptionsAssumption DEF Periods
<1>2. \A t \in types : EventOf(t, r, period) \in Event /\ EventOf(t, r, period).remote = r
  BY <1>1 DEF EventOf, Event
<1>3. \A ev \in events' : ev \in events \/ \E t \in types : ev = EventOf(t, r, period)
  BY DEF EmitFor
<1> QED
  BY <1>2, <1>3 DEF TypeInv

LEMMA CheckoutTurn ==
  ASSUME TypeInv, StripeInv, NEW r \in Remotes, Checkout(r)
  PROVE  \E c : Turn(r, c)
<1> DEFINE c == [status |-> "incomplete", plan |-> Bought[r], ending |-> FALSE, period |-> 0]
<1>1. remote[r] = None /\ remote' = [remote EXCEPT ![r] = c] /\ EmitFor({"created"}, r, 0)
      /\ UNCHANGED <<paid, reported, old>>
  BY DEF Checkout
<1>2. c \in Copy /\ c.status = "incomplete" /\ 0 \in Periods
  BY SubscriptionsAssumption DEF Copy, Statuses, Periods
<1> HIDE DEF c
<1>3. events' \in SUBSET Event /\ \A ev \in events' : ev \in events \/ ev.remote = r
  BY <1>1, <1>2, EmitEffect
<1>4. (\A k \in Periods : <<r, k>> \notin paid) /\ "incomplete" \notin Holding
  BY <1>1 DEF StripeInv, Holding, Once
<1>5. /\ paid' = paid /\ reported' = reported /\ old' = old /\ paid \in SUBSET Invoices
      /\ reported \in SUBSET PaidPlans /\ old \in SUBSET Invoices
  BY <1>1 DEF TypeInv
<1> QED
  BY <1>1, <1>2, <1>3, <1>4, <1>5 DEF Turn

(* A copy whose status, period, ending or plan changes.                      *)
LEMMA CopyStatus ==
  ASSUME NEW m \in Copy, NEW s \in Statuses
  PROVE  /\ [m EXCEPT !.status = s] \in Copy /\ [m EXCEPT !.status = s].status = s
         /\ [m EXCEPT !.status = s].plan = m.plan
BY DEF Copy

LEMMA CopyPeriod ==
  ASSUME NEW m \in Copy, NEW k \in Periods
  PROVE  /\ [m EXCEPT !.period = k] \in Copy /\ [m EXCEPT !.period = k].status = m.status
         /\ [m EXCEPT !.period = k].plan = m.plan
BY DEF Copy

LEMMA CopyPeriodStatus ==
  ASSUME NEW m \in Copy, NEW k \in Periods, NEW s \in Statuses
  PROVE  /\ [m EXCEPT !.period = k, !.status = s] \in Copy
         /\ [m EXCEPT !.period = k, !.status = s].status = s
         /\ [m EXCEPT !.period = k, !.status = s].plan = m.plan
BY DEF Copy

LEMMA CopyEnding ==
  ASSUME NEW m \in Copy, NEW e \in BOOLEAN
  PROVE  /\ [m EXCEPT !.ending = e] \in Copy /\ [m EXCEPT !.ending = e].status = m.status
         /\ [m EXCEPT !.ending = e].plan = m.plan
BY DEF Copy

LEMMA CopyPlan ==
  ASSUME NEW m \in Copy, NEW p \in PaidPlans, NEW e \in BOOLEAN
  PROVE  /\ [m EXCEPT !.plan = p, !.ending = e] \in Copy
         /\ [m EXCEPT !.plan = p, !.ending = e].status = m.status
         /\ [m EXCEPT !.plan = p, !.ending = e].plan = p
BY DEF Copy

LEMMA KnownIsCopy ==
  ASSUME TypeInv, NEW r \in Remotes, remote[r] # None
  PROVE  remote[r] \in Copy /\ remote[r].period \in Periods /\ remote[r].plan \in PaidPlans
BY DEF TypeInv, Copy

LEMMA PaidTurn ==
  ASSUME TypeInv, StripeInv, NEW r \in Remotes, InvoicePaid(r)
  PROVE  \E c : Turn(r, c)
<1> DEFINE m == remote[r]
           c == [m EXCEPT !.status = "active"]
<1>1. m # None /\ UNCHANGED budget /\ old' = old
      /\ paid' = paid \cup {<<r, m.period>>} /\ reported' = reported \cup {m.plan}
      /\ EmitFor({"updated", "paid"}, r, m.period)
      /\ remote' = [remote EXCEPT ![r].status = "active"]
  BY DEF InvoicePaid, Emit
<1>2. m \in Copy /\ m.period \in Periods /\ m.plan \in PaidPlans
  BY <1>1, KnownIsCopy
<1>3. remote' = [remote EXCEPT ![r] = c] /\ m = remote[r]
  BY <1>1, <1>2 DEF TypeInv
<1> HIDE DEF m
<1>4. c \in Copy /\ c.status = "active" /\ c.plan = m.plan
  BY <1>2, CopyStatus DEF Statuses
<1> HIDE DEF c
<1>5. events' \in SUBSET Event /\ \A ev \in events' : ev \in events \/ ev.remote = r
  BY <1>1, <1>2, EmitEffect
<1>6. paid' \in SUBSET Invoices /\ reported' \in SUBSET PaidPlans /\ old' \in SUBSET Invoices
  BY <1>1, <1>2 DEF TypeInv, Invoices
<1> QED
  BY <1>1, <1>2, <1>3, <1>4, <1>5, <1>6 DEF Turn

LEMMA EndsTurn ==
  ASSUME TypeInv, StripeInv, NEW r \in Remotes, RemoteEnds(r)
  PROVE  \E c : Turn(r, c)
<1> DEFINE m == remote[r]
           c == [m EXCEPT !.status = "canceled"]
<1>1. /\ m # None /\ UNCHANGED <<paid, reported, old>>
      /\ EmitFor({"deleted"}, r, m.period)
      /\ remote' = [remote EXCEPT ![r].status = "canceled"]
  BY DEF RemoteEnds, Emit
<1>2. m \in Copy /\ m.period \in Periods /\ m.plan \in PaidPlans
  BY <1>1, KnownIsCopy
<1>3. remote' = [remote EXCEPT ![r] = c]
  BY <1>1, <1>2 DEF TypeInv
<1>4. (Once(r) => m.plan \in reported) /\ m = remote[r]
  BY <1>1 DEF StripeInv
<1> HIDE DEF m
<1>5. c \in Copy /\ c.status = "canceled" /\ c.plan = m.plan
  BY <1>2, CopyStatus DEF Statuses
<1> HIDE DEF c
<1>6. events' \in SUBSET Event /\ \A ev \in events' : ev \in events \/ ev.remote = r
  BY <1>1, <1>2, EmitEffect
<1> QED
  BY <1>1, <1>3, <1>4, <1>5, <1>6 DEF Turn, Once, TypeInv, Holding

LEMMA PeriodTurn ==
  ASSUME TypeInv, StripeInv, NEW r \in Remotes, PeriodEnds(r)
  PROVE  \E c : Turn(r, c)
<1> DEFINE m == remote[r]
           k == m.period + 1
           a == [m EXCEPT !.status = "canceled"]
           b == [m EXCEPT !.period = k]
           d == [m EXCEPT !.period = k, !.status = "past_due"]
<1>1. m # None /\ m.status = "active" /\ reported' = reported /\ old' = old
  BY DEF PeriodEnds
<1>2. m \in Copy /\ m.period \in Periods /\ m.plan \in PaidPlans
  BY <1>1, KnownIsCopy
<1>3. Once(r) /\ m.plan \in reported
  BY <1>1 DEF StripeInv, Holding
<1>4. \/ /\ remote' = [remote EXCEPT ![r].status = "canceled"]
         /\ EmitFor({"deleted"}, r, m.period) /\ paid' = paid
      \/ /\ k <= LastPeriod /\ remote' = [remote EXCEPT ![r].period = k]
         /\ EmitFor({"updated", "paid"}, r, k) /\ paid' = paid \cup {<<r, k>>}
      \/ /\ k <= LastPeriod
         /\ remote' = [remote EXCEPT ![r].period = k, ![r].status = "past_due"]
         /\ EmitFor({"updated", "failed"}, r, k) /\ paid' = paid
  BY DEF PeriodEnds, Emit
<1>5. k <= LastPeriod => k \in Periods
  BY <1>2, SubscriptionsAssumption DEF Periods
<1>6. \/ /\ remote' = [remote EXCEPT ![r] = a]
         /\ EmitFor({"deleted"}, r, m.period) /\ paid' = paid
      \/ /\ k \in Periods /\ remote' = [remote EXCEPT ![r] = b]
         /\ EmitFor({"updated", "paid"}, r, k) /\ paid' = paid \cup {<<r, k>>}
      \/ /\ k \in Periods /\ remote' = [remote EXCEPT ![r] = d]
         /\ EmitFor({"updated", "failed"}, r, k) /\ paid' = paid
  BY <1>2, <1>4, <1>5 DEF TypeInv
<1> HIDE DEF m, k
<1>7. a \in Copy /\ a.status = "canceled" /\ a.plan = m.plan
  BY <1>2, CopyStatus DEF Statuses
<1>8. k \in Periods => b \in Copy /\ b.status = m.status /\ b.plan = m.plan
  BY <1>2, CopyPeriod
<1>9. k \in Periods => d \in Copy /\ d.status = "past_due" /\ d.plan = m.plan
  BY <1>2, CopyPeriodStatus DEF Statuses
<1> HIDE DEF a, b, d
<1>10. events' \in SUBSET Event /\ \A ev \in events' : ev \in events \/ ev.remote = r
  BY <1>2, <1>6, EmitEffect
<1>11. paid' \in SUBSET Invoices
  BY <1>6 DEF TypeInv, Invoices
<1>12. paid \subseteq paid'
       /\ \A q \in Remotes, j \in Periods : <<q, j>> \in paid' => <<q, j>> \in paid \/ q = r
  BY <1>6
<1>13. \E c \in Copy : /\ remote' = [remote EXCEPT ![r] = c] /\ c.status # "incomplete"
                       /\ c.plan = m.plan
  BY <1>1, <1>6, <1>7, <1>8, <1>9
<1>14. \E j \in Periods : <<r, j>> \in paid'
  BY <1>3, <1>12 DEF Once
<1> QED
  BY <1>1, <1>3, <1>10, <1>11, <1>12, <1>13, <1>14 DEF Turn, TypeInv

(* Nothing changes at Stripe but the end, or the price.                      *)
LEMMA EndingTurn ==
  ASSUME TypeInv, StripeInv, NEW r \in Remotes, remote[r] # None, NEW e \in BOOLEAN,
         remote' = [remote EXCEPT ![r].ending = e], Emit({"updated"}, r),
         UNCHANGED <<paid, reported, old>>
  PROVE  \E c : Turn(r, c)
<1> DEFINE m == remote[r]
           c == [m EXCEPT !.ending = e]
<1>1. EmitFor({"updated"}, r, m.period)
  BY DEF Emit
<1>2. m \in Copy /\ m.period \in Periods /\ m.plan \in PaidPlans
  BY KnownIsCopy
<1>3. remote' = [remote EXCEPT ![r] = c]
  BY <1>2 DEF TypeInv
<1>4. /\ Once(r) => m.plan \in reported
      /\ m = remote[r]
      /\ m.status = "incomplete" => ~Once(r)
      /\ m.status \in Holding => Once(r)
  BY DEF StripeInv
<1> HIDE DEF m
<1>5. c \in Copy /\ c.status = m.status /\ c.plan = m.plan
  BY <1>2, CopyEnding
<1> HIDE DEF c
<1>6. events' \in SUBSET Event /\ \A ev \in events' : ev \in events \/ ev.remote = r
  BY <1>1, <1>2, EmitEffect
<1> QED
  BY <1>3, <1>4, <1>5, <1>6 DEF Turn, Once, TypeInv

LEMMA ActiveIsRow ==
  ASSUME TypeInv, ActiveRows(subs) # {}
  PROVE  Newest(ActiveRows(subs)) \in ActiveRows(subs)
<1>1. Len(subs) \in Nat /\ DOMAIN subs = 1 .. Len(subs)
  BY DEF TypeInv
<1>2. ActiveRows(subs) \subseteq 0 .. Len(subs)
  BY <1>1 DEF ActiveRows
<1> QED
  BY <1>1, <1>2, NewestIsOne

LEMMA RowOwner ==
  ASSUME TypeInv, NEW i \in DOMAIN subs
  PROVE  subs[i] \in SubRow /\ subs[i].of \in Remotes \cup {None}
<1>1. subs[i] \in SubRow
  BY DEF TypeInv
<1> QED
  BY <1>1 DEF SubRow

LEMMA DowngradeTurn ==
  ASSUME TypeInv, StripeInv, RowInv, NEW p \in PaidPlans, ScheduleDowngrade(p)
  PROVE  \E r, c : Turn(r, c)
<1> DEFINE i == Newest(ActiveRows(subs))
           r == subs[i].of
           m == remote[r]
           c == [m EXCEPT !.plan = p, !.ending = FALSE]
<1>1. /\ ActiveRows(subs) # {} /\ r # None /\ m.status # "canceled" /\ UNCHANGED <<paid, old>>
      /\ reported' = IF m.status \in Holding THEN reported \cup {p} ELSE reported
      /\ EmitFor({"updated"}, r, m.period)
      /\ remote' = [remote EXCEPT ![r].plan = p, ![r].ending = FALSE]
  BY DEF ScheduleDowngrade, Emit
<1>2. i \in DOMAIN subs /\ subs[i].status \in Holding
  BY <1>1, ActiveIsRow DEF ActiveRows, Holding
<1>3. r \in Remotes /\ m # None /\ Once(r)
  BY <1>1, <1>2, RowOwner DEF RowInv, Charged
<1> HIDE DEF i, r
<1>4. m \in Copy /\ m.period \in Periods
  BY <1>3, KnownIsCopy
<1>5. remote' = [remote EXCEPT ![r] = c]
  BY <1>1, <1>3, <1>4 DEF TypeInv
<1>6. /\ m.status = "incomplete" => ~Once(r)
      /\ m.status \in Holding => Once(r)
      /\ m.status \in Holding \cup {"incomplete"}
  BY <1>1, <1>3, <1>4 DEF StripeInv, Copy, Statuses, Holding
<1> HIDE DEF m
<1>7. c \in Copy /\ c.status = m.status /\ c.plan = p
  BY <1>4, CopyPlan
<1> HIDE DEF c
<1>8. events' \in SUBSET Event /\ \A ev \in events' : ev \in events \/ ev.remote = r
  BY <1>1, <1>3, <1>4, EmitEffect
<1>9. Turn(r, c)
  BY <1>1, <1>3, <1>5, <1>6, <1>7, <1>8 DEF Turn, Once, TypeInv
<1> QED
  BY <1>9
-----------------------------------------------------------------------------
(* The invariant *)

(* m is a copy of r that may be stored.                                      *)
Fine(r, m) ==
  /\ r \in Remotes /\ m \in Copy /\ remote[r] # None
  /\ m.status \in Holding => r \in Charged
  /\ <<r, m.plan>> \in Fitting

(* dj-stripe copies what Stripe has, before a receiver reads the copy.       *)
MirrorInv ==
  /\ \A r \in Remotes : mirror[r] # None => Fine(r, mirror[r])
  /\ \A h \in Hooks : hook[h] # None => mirror[hook[h].remote] # None

(* A row whose plan may be granted.                                          *)
Sold(s) == s.of = None \/ s.of \in Charged

(* What the payment check has read stays true enough to be stored later, and *)
(* what the wallet follows when the check resets it was paid for or given.   *)
CheckInv ==
  /\ check.pc # "idle" => Fine(check.picked, check.seen)
  /\ check.pc \notin {"idle", "sync"} => \E i \in DOMAIN subs : subs[i].of = check.picked
  /\ check.pc \in {"others", "save"} => check.read \in Wallet
  /\ check.pc = "reset" => Sold(subs[wallet.sub])

(* The downgrade works on rows of Stripe and credits a row of the platform.  *)
DownInv ==
  /\ \A i \in down.todo : i \in DOMAIN subs /\ subs[i].of # None
  /\ down.pc \in {"cancel", "row"} => down.sub \in DOMAIN subs /\ subs[down.sub].of # None
  /\ down.pc = "credit" => down.sub \in DOMAIN subs /\ subs[down.sub].of = None

PaidInv == TypeInv /\ RowInv /\ StripeInv /\ MirrorInv /\ CheckInv /\ DownInv

-----------------------------------------------------------------------------
(* What a step may do *)

StripeOk ==
  /\ StripeInv' /\ Grows
  /\ remote' \in [Remotes -> Copy \cup {None}] /\ paid' \in SUBSET Invoices
  /\ reported' \in SUBSET PaidPlans /\ events' \in SUBSET Event
  /\ old' \in SUBSET Invoices

RowsOk ==
  \/ Follows(subs, subs')
  \/ Added(subs, subs')
  \/ \E r, m, i : Fine(r, m) /\ Synced(subs, subs', r, m, i)

MirrorOk == mirror' = mirror
            \/ \E r, m : Fine(r, m) /\ mirror' = [mirror EXCEPT ![r] = m]

HookOk ==
  \/ hook' = hook
  \/ \E h \in Hooks : hook' = [hook EXCEPT ![h] = None]
  \/ \E h \in Hooks, ev \in Event : /\ hook' = [hook EXCEPT ![h] = ev]
                                    /\ mirror'[ev.remote] # None

(* The wallet goes on with its row, or with one whose plan may be granted.   *)
Moves == wallet'.sub = wallet.sub \/ Sold(subs[wallet.sub])'
WalletOk ==
  /\ wallet' \in Wallet /\ wallet'.sub \in DOMAIN subs'
  /\ check' = check => Moves
RecordOk == record' \in [Invoices -> {None, "succeeded", "failed"}]
CheckOk == check' \in Check /\ CheckInv'
DownOk == down' \in Down /\ DownInv'
BudgetOk == budget' \in [DOMAIN budget' -> Nat]

PaidOk == wallet'.base # wallet.base /\ wallet'.base \in PaidPlans =>
            \/ wallet'.base \in reported \/ Assigned(subs', wallet'.base)
            \/ RenewReset \/ CheckSave

StepOk ==
  /\ StripeOk /\ RowsOk /\ MirrorOk /\ HookOk
  /\ WalletOk /\ RecordOk /\ CheckOk /\ DownOk /\ BudgetOk
  /\ renew' \in BOOLEAN /\ PaidOk

LEMMA TurnOk ==
  ASSUME TypeInv, StripeInv, NEW r, NEW c, Turn(r, c)
  PROVE  StripeOk
BY TurnStep DEF StripeOk

LEMMA StripeStays ==
  ASSUME TypeInv, StripeInv, UNCHANGED stripeSide, events' \subseteq events
  PROVE  StripeOk
<1>1. StripeInv' /\ Grows
  BY StripeSame
<1> QED
  BY <1>1 DEF StripeOk, TypeInv, stripeSide

LEMMA StartsOk ==
  ASSUME TypeInv, NEW k, Starts(k)
  PROVE  BudgetOk
<1>1. /\ budget \in [DOMAIN budget -> Nat] /\ k \in DOMAIN budget /\ budget[k] > 0
      /\ budget' = [budget EXCEPT ![k] = @ - 1]
  BY DEF TypeInv, Starts
<1>2. budget[k] - 1 \in Nat
  BY <1>1
<1> QED
  BY <1>1, <1>2 DEF BudgetOk

(* What the rows keep, whichever way they change.                            *)
LEMMA RowsStep ==
  ASSUME TypeInv, RowInv, Grows, RowsOk
  PROVE  /\ subs' \in Seq(SubRow) /\ RowInv'
         /\ \A i \in DOMAIN subs : i \in DOMAIN subs' /\ subs'[i].of = subs[i].of
<1> DEFINE Result ==
      /\ subs' \in Seq(SubRow) /\ RowInv'
      /\ \A i \in DOMAIN subs : i \in DOMAIN subs' /\ subs'[i].of = subs[i].of
<1>1. /\ subs \in Seq(SubRow) /\ Len(subs) \in Nat /\ DOMAIN subs = 1 .. Len(subs)
      /\ None \notin Remotes
  BY SubscriptionsAssumption DEF TypeInv
<1>2. /\ \A q \in Remotes : remote[q] # None => remote'[q] # None
      /\ Charged \subseteq Charged' /\ Fitting \subseteq Fitting'
  BY DEF Grows
<1>3. \A i \in DOMAIN subs : subs[i].of \in Remotes \cup {None}
  BY RowOwner
<1>4. ASSUME Follows(subs, subs') PROVE Result
  <2>1. subs' \in Seq(SubRow) /\ DOMAIN subs' = DOMAIN subs
        /\ \A i \in DOMAIN subs : SameRow(subs[i], subs'[i])
    BY <1>1, <1>4 DEF Follows
  <2>2. RowInv'
    BY <1>2, <1>3, <2>1 DEF RowInv, SameRow
  <2> QED
    BY <2>1, <2>2 DEF SameRow
<1>5. ASSUME Added(subs, subs') PROVE Result
  <2> DEFINE n == Len(subs) + 1
  <2>1. /\ subs' \in Seq(SubRow) /\ Len(subs') = n
        /\ \A i \in DOMAIN subs : SameRow(subs[i], subs'[i])
        /\ subs'[n].of = None /\ subs'[n].status = "active"
    BY <1>5 DEF Added
  <2>2. DOMAIN subs' = DOMAIN subs \cup {n} /\ n \notin DOMAIN subs
    BY <1>1, <2>1
  <2> HIDE DEF n
  <2>4. \A j \in DOMAIN subs' : subs'[j].of = None =>
          subs'[j].status \in {"active", "canceled"}
    BY <2>1, <2>2 DEF RowInv, SameRow
  <2>5. \A j \in DOMAIN subs' : subs'[j].of # None =>
          /\ remote'[subs'[j].of] # None /\ <<subs'[j].of, subs'[j].plan>> \in Fitting'
          /\ subs'[j].status \in Holding => subs'[j].of \in Charged'
    BY <1>2, <1>3, <2>1, <2>2 DEF RowInv, SameRow
  <2>6. \A j, k \in DOMAIN subs' : subs'[j].of = subs'[k].of /\ subs'[j].of # None => j = k
    BY <2>1, <2>2 DEF RowInv, SameRow
  <2>3. RowInv'
    BY <2>4, <2>5, <2>6 DEF RowInv
  <2> QED
    BY <1>1, <2>1, <2>2, <2>3 DEF SameRow
<1>6. ASSUME NEW r, NEW m, NEW i, Fine(r, m), Synced(subs, subs', r, m, i) PROVE Result
  <2>1. /\ r \in Remotes /\ m \in Copy /\ remote[r] # None
        /\ m.status \in Holding => r \in Charged
        /\ <<r, m.plan>> \in Fitting
    BY <1>6 DEF Fine
  <2>2. /\ subs' \in Seq(SubRow)
        /\ subs'[i].of = r /\ subs'[i].plan = m.plan /\ subs'[i].status = m.status
        /\ \A j \in DOMAIN subs : j # i => SameRow(subs[j], subs'[j])
        /\ DOMAIN subs' = DOMAIN subs \cup {i}
        /\ \A j \in DOMAIN subs : j # i => subs[j].of # r
        /\ i \in DOMAIN subs => subs[i].of = r
    <3>1. /\ subs' \in Seq(SubRow) /\ Len(subs') \in Nat
          /\ \/ Len(subs') = Len(subs) /\ i \in DOMAIN subs /\ subs[i].of = r
             \/ Len(subs') = Len(subs) + 1 /\ i = Len(subs') /\ \A j \in DOMAIN subs : subs[j].of # r
          /\ subs'[i].of = r /\ subs'[i].plan = m.plan /\ subs'[i].status = m.status
          /\ \A j \in DOMAIN subs : j # i => SameRow(subs[j], subs'[j])
      BY <1>6 DEF Synced
    <3>2. DOMAIN subs' = 1 .. Len(subs')
      BY <3>1
    <3>3. r # None
      BY <1>1, <2>1
    <3>4. DOMAIN subs' = DOMAIN subs \cup {i}
      <4>1. CASE Len(subs') = Len(subs) /\ i \in DOMAIN subs
        BY <1>1, <3>2, <4>1
      <4>2. CASE Len(subs') = Len(subs) + 1 /\ i = Len(subs')
        <5>1. 1 .. Len(subs') = (1 .. Len(subs)) \cup {i}
          BY <1>1, <4>2
        <5> QED
          BY <1>1, <3>2, <5>1
      <4> QED
        BY <3>1, <4>1, <4>2
    <3>5. \A j \in DOMAIN subs : j # i => subs[j].of # r
      BY <3>1, <3>3 DEF RowInv
    <3>6. i \in DOMAIN subs => subs[i].of = r
      <4>1. CASE Len(subs') = Len(subs) /\ subs[i].of = r
        BY <4>1
      <4>2. CASE Len(subs') = Len(subs) + 1 /\ i = Len(subs')
        <5>1. i \notin 1 .. Len(subs)
          BY <1>1, <4>2
        <5> QED
          BY <1>1, <5>1
      <4> QED
        BY <3>1, <4>1, <4>2
    <3> QED
      BY <3>1, <3>4, <3>5, <3>6
  <2>3. /\ r # None /\ \A j \in DOMAIN subs' : j = i \/ (j # i /\ j \in DOMAIN subs)
        /\ \A j \in DOMAIN subs : j # i => subs'[j].of = subs[j].of /\ subs'[j].of # r
    BY <1>1, <2>1, <2>2 DEF SameRow
  <2>4. \A j \in DOMAIN subs' : subs'[j].of = None =>
          subs'[j].status \in {"active", "canceled"}
    BY <2>2, <2>3 DEF RowInv, SameRow
  <2>5. \A j \in DOMAIN subs' : subs'[j].of # None =>
          /\ remote'[subs'[j].of] # None /\ <<subs'[j].of, subs'[j].plan>> \in Fitting'
          /\ subs'[j].status \in Holding => subs'[j].of \in Charged'
    <3> SUFFICES ASSUME NEW j \in DOMAIN subs', subs'[j].of # None
                 PROVE  /\ remote'[subs'[j].of] # None
                        /\ <<subs'[j].of, subs'[j].plan>> \in Fitting'
                        /\ subs'[j].status \in Holding => subs'[j].of \in Charged'
      OBVIOUS
    <3>1. CASE j = i
      BY <1>2, <2>1, <2>2, <3>1
    <3>2. CASE j # i
      BY <1>2, <1>3, <2>2, <2>3, <3>2 DEF RowInv, SameRow
    <3> QED
      BY <3>1, <3>2
  <2>6. \A j, k \in DOMAIN subs' : subs'[j].of = subs'[k].of /\ subs'[j].of # None => j = k
    BY <2>2, <2>3 DEF RowInv
  <2>8. RowInv'
    BY <2>4, <2>5, <2>6 DEF RowInv
  <2>9. \A j \in DOMAIN subs : j \in DOMAIN subs' /\ subs'[j].of = subs[j].of
    BY <2>2, <2>3
  <2> QED
    BY <2>2, <2>8, <2>9
<1> QED
  BY <1>4, <1>5, <1>6 DEF RowsOk

(* A copy that could be stored still can.                                    *)
LEMMA FineStays ==
  ASSUME Grows, NEW r, NEW m, Fine(r, m)
  PROVE  /\ r \in Remotes /\ m \in Copy /\ remote'[r] # None
         /\ m.status \in Holding => r \in Charged'
         /\ <<r, m.plan>> \in Fitting'
BY DEF Grows, Fine

LEMMA MirrorStep ==
  ASSUME TypeInv, MirrorInv, StripeInv, Grows, MirrorOk, HookOk
  PROVE  /\ mirror' \in [Remotes -> Copy \cup {None}] /\ hook' \in [Hooks -> Event \cup {None}]
         /\ MirrorInv'
<1> DEFINE Copies ==
             /\ mirror' \in [Remotes -> Copy \cup {None}]
             /\ \A r \in Remotes : mirror[r] # None => mirror'[r] # None
             /\ \A r \in Remotes : mirror'[r] # None => Fine(r, mirror'[r])
           Handled ==
             /\ hook' \in [Hooks -> Event \cup {None}]
             /\ \A h \in Hooks : hook'[h] # None => mirror'[hook'[h].remote] # None
<1>1. /\ mirror \in [Remotes -> Copy \cup {None}] /\ hook \in [Hooks -> Event \cup {None}]
      /\ None \notin Copy /\ None \notin Event
      /\ \A ev \in Event : ev.remote \in Remotes
  BY SubscriptionsAssumption DEF TypeInv, Event
<1>3. Copies
  <2>1. CASE mirror' = mirror
    BY <1>1, <2>1 DEF MirrorInv
  <2>2. ASSUME NEW r, NEW m, Fine(r, m), mirror' = [mirror EXCEPT ![r] = m] PROVE Copies
    <3>1. r \in Remotes /\ m \in Copy
      BY <2>2 DEF Fine
    <3>2. \A q \in Remotes : mirror'[q] = IF q = r THEN m ELSE mirror[q]
      BY <1>1, <2>2
    <3> QED
      BY <1>1, <2>2, <3>1, <3>2 DEF MirrorInv
  <2> QED
    BY <2>1, <2>2 DEF MirrorOk
<1>4. Handled
  <2>1. \A h \in Hooks : hook[h] # None => hook[h] \in Event /\ mirror'[hook[h].remote] # None
    BY <1>1, <1>3 DEF MirrorInv
  <2>2. CASE hook' = hook
    BY <1>1, <2>1, <2>2
  <2>3. ASSUME NEW h \in Hooks, hook' = [hook EXCEPT ![h] = None] PROVE Handled
    BY <1>1, <2>1, <2>3
  <2>4. ASSUME NEW h \in Hooks, NEW ev \in Event, hook' = [hook EXCEPT ![h] = ev],
               mirror'[ev.remote] # None
        PROVE  Handled
    BY <1>1, <2>1, <2>4
  <2> QED
    BY <2>2, <2>3, <2>4 DEF HookOk
<1>5. \A r \in Remotes : mirror'[r] # None => Fine(r, mirror[r])'
  BY <1>3, FineStays DEF Fine
<1> QED
  BY <1>3, <1>4, <1>5 DEF MirrorInv

LEMMA CheckStays ==
  ASSUME PaidInv, StripeOk, RowsOk, WalletOk, check' = check
  PROVE  CheckOk
<1>1. TypeInv /\ RowInv /\ StripeInv /\ MirrorInv /\ CheckInv /\ Grows
  BY DEF PaidInv, StripeOk
<1>2. \A i \in DOMAIN subs : i \in DOMAIN subs' /\ subs'[i].of = subs[i].of
  BY <1>1, RowsStep
<1>3. check'.pc # "idle" => Fine(check.picked, check.seen)'
  BY <1>1, FineStays DEF CheckInv, Fine
<1>4. check'.pc \notin {"idle", "sync"} => \E i \in DOMAIN subs' : subs'[i].of = check'.picked
  BY <1>1, <1>2 DEF CheckInv
<1>5. check'.pc = "reset" => Sold(subs[wallet.sub])'
  <2>1. CASE wallet'.sub = wallet.sub
    <3>1. wallet.sub \in DOMAIN subs
      BY <1>1 DEF TypeInv
    <3>2. subs'[wallet'.sub].of = subs[wallet.sub].of
      BY <1>2, <2>1, <3>1
    <3> QED
      BY <1>1, <3>2 DEF CheckInv, Sold, Grows
  <2>2. CASE wallet'.sub # wallet.sub
    BY <2>2 DEF WalletOk, Moves
  <2> QED
    BY <2>1, <2>2
<1>6. CheckInv'
  BY <1>1, <1>3, <1>4, <1>5 DEF CheckInv
<1> QED
  BY <1>1, <1>6 DEF CheckOk, TypeInv

LEMMA CheckEnds ==
  ASSUME check' = NoCheck
  PROVE  CheckOk
BY DEF CheckOk, NoCheck, Check, CheckInv

LEMMA DownStays ==
  ASSUME PaidInv, Grows, RowsOk, down' = down
  PROVE  DownOk
<1>1. \A i \in DOMAIN subs : i \in DOMAIN subs' /\ subs'[i].of = subs[i].of
  BY RowsStep DEF PaidInv
<1> QED
  BY <1>1 DEF PaidInv, TypeInv, DownInv, DownOk

LEMMA DownEnds ==
  ASSUME down' = NoDown
  PROVE  DownOk
BY DEF DownOk, NoDown, Down, DownInv

LEMMA OkStep ==
  ASSUME PaidInv, StepOk
  PROVE  PaidInv'
<1>1. TypeInv /\ RowInv /\ StripeInv /\ MirrorInv /\ Grows /\ StripeInv'
  BY DEF PaidInv, StepOk, StripeOk
<1>2. subs' \in Seq(SubRow) /\ RowInv'
  BY <1>1, RowsStep DEF StepOk
<1>3. mirror' \in [Remotes -> Copy \cup {None}] /\ hook' \in [Hooks -> Event \cup {None}]
      /\ MirrorInv'
  BY <1>1, MirrorStep DEF StepOk
<1>4. TypeInv'
  BY <1>2, <1>3
     DEF TypeInv, StepOk, StripeOk, WalletOk, RecordOk, CheckOk, DownOk, BudgetOk
<1> QED
  BY <1>1, <1>2, <1>3, <1>4 DEF PaidInv, StepOk, CheckOk, DownOk
-----------------------------------------------------------------------------
(* Parts of a step *)

LEMMA RowsStay ==
  ASSUME TypeInv, subs' = subs
  PROVE  RowsOk
BY FollowsSelf DEF TypeInv, RowsOk

LEMMA WalletStays ==
  ASSUME PaidInv, StripeOk, RowsOk, wallet' = wallet
  PROVE  WalletOk /\ PaidOk
<1>1. \A i \in DOMAIN subs : i \in DOMAIN subs'
  BY RowsStep DEF PaidInv, StripeOk
<1> QED
  BY <1>1 DEF PaidInv, TypeInv, WalletOk, Moves, PaidOk

(* The wallet is moved to, or stays with, an active row after the step.      *)
LEMMA ActiveIsSold ==
  ASSUME PaidInv, StripeOk, RowsOk, NEW i \in DOMAIN subs', subs'[i].status = "active"
  PROVE  /\ subs'[i].of = None \/ subs'[i].of \in Charged'
         /\ subs'[i].of # None => <<subs'[i].of, subs'[i].plan>> \in Fitting'
<1>1. RowInv'
  BY RowsStep DEF PaidInv, StripeOk
<1> QED
  BY <1>1 DEF RowInv, Holding

(* A wallet that is reset for an active row of the rows after the step.      *)
LEMMA WalletFollows ==
  ASSUME PaidInv, StripeOk, RowsOk, UNCHANGED stripeSide, wallet'.sub \in DOMAIN subs',
         wallet'.base = subs'[wallet'.sub].plan, subs'[wallet'.sub].status = "active"
  PROVE  PaidOk /\ Moves
<1> DEFINE s == subs'[wallet'.sub]
<1>1. /\ s.of = None \/ s.of \in Charged'
      /\ s.of # None => <<s.of, s.plan>> \in Fitting'
  BY ActiveIsSold
<1>2. Charged' = Charged /\ Fitting' = Fitting
  BY DEF stripeSide, Charged, Fitting, Once
<1>3. CASE s.of = None
  BY <1>3 DEF PaidOk, Assigned, Moves, Sold
<1>4. CASE s.of # None
  <2>1. s.of \in Charged /\ s.plan \in reported
    BY <1>1, <1>2, <1>4, ChargedFits
  <2> QED
    BY <1>1, <2>1 DEF PaidOk, Moves, Sold
<1> QED
  BY <1>3, <1>4

LEMMA FineNow ==
  ASSUME PaidInv, NEW r \in Remotes, remote[r] # None
  PROVE  Fine(r, remote[r])
<1>1. /\ remote[r] \in Copy /\ remote[r].plan \in PaidPlans
      /\ remote[r].status \in Holding => Once(r)
      /\ Once(r) => remote[r].plan \in reported
  BY KnownIsCopy DEF PaidInv, StripeInv
<1> QED
  BY <1>1, FittingIs DEF Fine, Charged

LEMMA FineMirror ==
  ASSUME PaidInv, NEW r \in Remotes, mirror[r] # None
  PROVE  Fine(r, mirror[r])
BY DEF PaidInv, MirrorInv

LEMMA SyncOk ==
  ASSUME PaidInv, NEW r, NEW m, Fine(r, m), Sync(r, m), UNCHANGED stripeSide
  PROVE  RowsOk /\ WalletOk /\ PaidOk
<1>1. r \in Remotes /\ m \in Copy /\ remote[r] # None /\ TypeInv
      /\ (m.status \in Holding => r \in Charged) /\ <<r, m.plan>> \in Fitting
  BY DEF Fine, PaidInv
<1>2. PICK i : /\ Synced(subs, subs', r, m, i)
               /\ \/ UNCHANGED wallet
                  \/ /\ m.status = "active" /\ wallet' \in Wallet
                     /\ wallet'.sub = i /\ wallet'.base = m.plan
  BY <1>1, SyncEffect
<1>3. i \in DOMAIN subs' /\ (\A j \in DOMAIN subs : j \in DOMAIN subs') /\ subs'[i].of = r
  BY <1>1, <1>2 DEF Synced, TypeInv
<1>4. RowsOk
  BY <1>2 DEF RowsOk
<1>5. CASE UNCHANGED wallet
  BY <1>1, <1>3, <1>4, <1>5 DEF WalletOk, Moves, PaidOk, TypeInv
<1>6. CASE /\ m.status = "active" /\ wallet' \in Wallet
           /\ wallet'.sub = i /\ wallet'.base = m.plan
  <2>1. r \in Charged /\ m.plan \in reported
    BY <1>1, <1>6, ChargedFits DEF Holding
  <2>2. Charged' = Charged
    BY DEF stripeSide, Charged, Once
  <2>3. Sold(subs[wallet.sub])'
    BY <1>3, <1>6, <2>1, <2>2 DEF Sold
  <2> QED
    BY <1>3, <1>4, <1>6, <2>1, <2>3 DEF WalletOk, Moves, PaidOk
<1> QED
  BY <1>2, <1>4, <1>5, <1>6

-----------------------------------------------------------------------------
(* Stripe, the user and the administrator at Stripe *)

LEMMA StripeMoves ==
  ASSUME PaidInv, StripeOk, NoDevify, BudgetOk
  PROVE  StepOk
<1>1. TypeInv /\ Grows /\ subs' = subs /\ mirror' = mirror /\ hook' = hook /\ wallet' = wallet
      /\ record' = record /\ check' = check /\ down' = down /\ renew' = renew
  BY DEF NoDevify, tasks, PaidInv, StripeOk
<1>2. RowsOk /\ MirrorOk /\ HookOk
  BY <1>1, RowsStay DEF MirrorOk, HookOk
<1>3. WalletOk /\ PaidOk
  BY <1>1, <1>2, WalletStays
<1>4. CheckOk /\ DownOk
  BY <1>1, <1>2, <1>3, CheckStays, DownStays
<1> QED
  BY <1>1, <1>2, <1>3, <1>4 DEF StepOk, RecordOk, TypeInv

LEMMA BudgetStays ==
  ASSUME TypeInv, budget' = budget
  PROVE  BudgetOk
BY DEF TypeInv, BudgetOk

LEMMA CheckoutOk ==
  ASSUME PaidInv, NEW r \in Remotes, Checkout(r)
  PROVE  StepOk
<1>1. TypeInv /\ StripeInv /\ Starts("checkout") /\ NoDevify
  BY DEF PaidInv, Checkout
<1> QED
  BY <1>1, CheckoutTurn, TurnOk, StartsOk, StripeMoves

LEMMA InvoicePaidOk ==
  ASSUME PaidInv, NEW r \in Remotes, InvoicePaid(r)
  PROVE  StepOk
<1>1. TypeInv /\ StripeInv /\ budget' = budget /\ NoDevify
  BY DEF PaidInv, InvoicePaid
<1> QED
  BY <1>1, PaidTurn, TurnOk, BudgetStays, StripeMoves

LEMMA PeriodEndsOk ==
  ASSUME PaidInv, NEW r \in Remotes, PeriodEnds(r)
  PROVE  StepOk
<1>1. TypeInv /\ StripeInv /\ Starts("period") /\ NoDevify
  BY DEF PaidInv, PeriodEnds
<1> QED
  BY <1>1, PeriodTurn, TurnOk, StartsOk, StripeMoves

LEMMA RemoteEndsOk ==
  ASSUME PaidInv, NEW r \in Remotes, RemoteEnds(r)
  PROVE  StepOk
<1>1. TypeInv /\ StripeInv /\ Starts("end") /\ NoDevify
  BY DEF PaidInv, RemoteEnds
<1> QED
  BY <1>1, EndsTurn, TurnOk, StartsOk, StripeMoves

LEMMA LoseEventOk ==
  ASSUME PaidInv, NEW ev, LoseEvent(ev)
  PROVE  StepOk
<1>1. /\ TypeInv /\ StripeInv /\ Starts("lost") /\ NoDevify
      /\ UNCHANGED stripeSide /\ events' \subseteq events
  BY DEF PaidInv, LoseEvent
<1> QED
  BY <1>1, StripeStays, StartsOk, StripeMoves

LEMMA ScheduleDowngradeOk ==
  ASSUME PaidInv, NEW p \in PaidPlans, ScheduleDowngrade(p)
  PROVE  StepOk
<1>1. TypeInv /\ StripeInv /\ RowInv /\ Starts("plan") /\ NoDevify
  BY DEF PaidInv, ScheduleDowngrade
<1> QED
  BY <1>1, DowngradeTurn, TurnOk, StartsOk, StripeMoves

-----------------------------------------------------------------------------
(* Webhooks *)

(* A step that leaves Stripe and the tasks alone.                            *)
LEMMA QuietStep ==
  ASSUME PaidInv, UNCHANGED <<stripeSide, tasks>>, events' \subseteq events,
         RowsOk, MirrorOk, HookOk, WalletOk, RecordOk, BudgetOk, PaidOk
  PROVE  StepOk
<1>1. TypeInv /\ StripeInv /\ UNCHANGED stripeSide
      /\ check' = check /\ down' = down /\ renew' = renew
  BY DEF tasks, PaidInv
<1>2. StripeOk /\ Grows
  BY <1>1, StripeStays DEF StripeOk
<1>3. CheckOk /\ DownOk
  BY <1>1, <1>2, CheckStays, DownStays
<1> QED
  BY <1>1, <1>2, <1>3 DEF StepOk, TypeInv

LEMMA HookMirrorOk ==
  ASSUME PaidInv, NEW h \in Hooks, NEW ev \in events, HookMirror(h, ev)
  PROVE  StepOk
<1>1. /\ TypeInv /\ StripeInv /\ UNCHANGED stripeSide /\ events' \subseteq events
      /\ UNCHANGED tasks /\ subs' = subs /\ wallet' = wallet /\ record' = record
      /\ mirror' = [mirror EXCEPT ![ev.remote] = remote[ev.remote]]
      /\ hook' = [hook EXCEPT ![h] = ev]
  BY DEF PaidInv, HookMirror
<1>2. ev \in Event /\ ev.remote \in Remotes /\ remote[ev.remote] # None
  BY <1>1 DEF TypeInv, StripeInv, Event
<1>3. Fine(ev.remote, remote[ev.remote])
  BY <1>2, FineNow
<1>4. MirrorOk
  BY <1>1, <1>3 DEF MirrorOk
<1>5. HookOk
  <2>1. mirror'[ev.remote] # None
    BY <1>1, <1>2 DEF TypeInv
  <2> QED
    BY <1>1, <1>2, <2>1 DEF HookOk
<1>6. BudgetOk
  BY <1>1, BudgetStays, StartsOk DEF HookMirror
<1>7. StripeOk /\ RowsOk
  BY <1>1, StripeStays, RowsStay
<1>8. WalletOk /\ PaidOk
  BY <1>1, <1>7, WalletStays
<1>9. RecordOk
  BY <1>1 DEF RecordOk, TypeInv
<1> QED
  BY <1>1, <1>4, <1>5, <1>6, <1>7, <1>8, <1>9, QuietStep

LEMMA HookDoneOk ==
  ASSUME PaidInv, NEW h \in Hooks, HookDone(h)
  PROVE  /\ UNCHANGED <<stripeSide, tasks>> /\ events' \subseteq events /\ reported' = reported
         /\ MirrorOk /\ HookOk /\ BudgetOk /\ StripeOk
<1>1. /\ UNCHANGED stripeSide /\ UNCHANGED tasks /\ events' = events /\ mirror' = mirror
      /\ budget' = budget /\ hook' = [hook EXCEPT ![h] = None] /\ TypeInv /\ StripeInv
  BY DEF HookDone, PaidInv
<1> QED
  BY <1>1, StripeStays, BudgetStays DEF MirrorOk, HookOk, stripeSide

LEMMA HookEvent ==
  ASSUME PaidInv, NEW h \in Hooks, hook[h] # None
  PROVE  /\ hook[h] \in Event /\ hook[h].remote \in Remotes /\ mirror[hook[h].remote] # None
         /\ InvoiceOf(hook[h]) \in Invoices
BY DEF PaidInv, TypeInv, MirrorInv, Event, InvoiceOf, Invoices

LEMMA HookSyncOk ==
  ASSUME PaidInv, NEW h \in Hooks, HookSync(h)
  PROVE  StepOk
<1> DEFINE r == hook[h].remote
<1>1. hook[h] # None /\ Sync(r, mirror[r]) /\ HookDone(h) /\ record' = record
  BY DEF HookSync
<1>2. r \in Remotes /\ mirror[r] # None
  BY <1>1, HookEvent
<1>3. Fine(r, mirror[r])
  BY <1>2, FineMirror
<1> HIDE DEF r
<1>4. /\ UNCHANGED <<stripeSide, tasks>> /\ events' \subseteq events /\ reported' = reported
      /\ MirrorOk /\ HookOk /\ BudgetOk
  BY <1>1, HookDoneOk
<1>5. RowsOk /\ WalletOk /\ PaidOk
  BY <1>1, <1>3, <1>4, SyncOk
<1>6. RecordOk
  BY <1>1 DEF RecordOk, TypeInv, PaidInv
<1> QED
  BY <1>4, <1>5, <1>6, QuietStep

LEMMA CancelOk ==
  ASSUME PaidInv, NEW I, subs' = CancelRows(subs, I)
  PROVE  RowsOk
BY CancelFollows DEF RowsOk, PaidInv, TypeInv

LEMMA HookDeletedOk ==
  ASSUME PaidInv, NEW h \in Hooks, HookDeleted(h)
  PROVE  StepOk
<1>1. /\ subs' = CancelRows(subs, RowsOf(subs, hook[h].remote)) /\ HookDone(h)
      /\ wallet' = wallet /\ record' = record
  BY DEF HookDeleted
<1>2. /\ UNCHANGED <<stripeSide, tasks>> /\ events' \subseteq events /\ reported' = reported
      /\ MirrorOk /\ HookOk /\ BudgetOk /\ StripeOk
  BY <1>1, HookDoneOk
<1>3. RowsOk
  BY <1>1, CancelOk
<1>4. WalletOk /\ PaidOk
  BY <1>1, <1>2, <1>3, WalletStays
<1>5. RecordOk
  BY <1>1 DEF RecordOk, TypeInv, PaidInv
<1> QED
  BY <1>2, <1>3, <1>4, <1>5, QuietStep

(* Rows that change their status between active and past due.                *)
LEMMA StatusRow ==
  ASSUME NEW s \in SubRow, s.status \in Holding, s.of # None
  PROVE  /\ [s EXCEPT !.status = "active", !.overdue = FALSE] \in SubRow
         /\ SameRow(s, [s EXCEPT !.status = "active", !.overdue = FALSE])
         /\ [s EXCEPT !.status = "past_due"] \in SubRow
         /\ SameRow(s, [s EXCEPT !.status = "past_due"])
BY DEF SubRow, SameRow, Holding, Statuses

LEMMA MapFollows ==
  ASSUME NEW ss \in Seq(SubRow), NEW tt, DOMAIN tt = DOMAIN ss,
         tt = [i \in DOMAIN tt |-> tt[i]],
         \A i \in DOMAIN ss : tt[i] \in SubRow /\ SameRow(ss[i], tt[i])
  PROVE  Follows(ss, tt)
<1>1. tt \in [DOMAIN ss -> SubRow]
  OBVIOUS
<1> QED
  BY <1>1, FunctionIsSeq DEF Follows

LEMMA RowStays ==
  ASSUME TypeInv, NEW i \in DOMAIN subs
  PROVE  subs[i] \in SubRow /\ SameRow(subs[i], subs[i])
BY RowOwner, CanceledRow

LEMMA HookPaidOk ==
  ASSUME PaidInv, NEW h \in Hooks, HookPaid(h)
  PROVE  StepOk
<1> DEFINE late == {i \in RowsOf(subs, hook[h].remote) : subs[i].status = "past_due"}
           up(s) == [s EXCEPT !.status = "active", !.overdue = FALSE]
<1>1. /\ hook[h] # None /\ HookDone(h)
      /\ record' = [record EXCEPT ![InvoiceOf(hook[h])] = "succeeded"]
      /\ subs' = [i \in DOMAIN subs |-> IF i \in late THEN up(subs[i]) ELSE subs[i]]
      /\ wallet' = IF late # {} /\ subs'[wallet.sub].status = "active"
                   THEN ResetCredits(wallet, subs') ELSE wallet
  BY DEF HookPaid
<1>2. TypeInv /\ hook[h].remote \in Remotes /\ InvoiceOf(hook[h]) \in Invoices
      /\ None \notin Remotes
  BY <1>1, HookEvent, SubscriptionsAssumption DEF PaidInv
<1>3. /\ UNCHANGED <<stripeSide, tasks>> /\ events' \subseteq events /\ reported' = reported
      /\ MirrorOk /\ HookOk /\ BudgetOk /\ StripeOk
  BY <1>1, HookDoneOk
<1>4. \A i \in DOMAIN subs : /\ IF i \in late THEN subs'[i] = up(subs[i]) ELSE subs'[i] = subs[i]
                             /\ i \in late => subs[i].status \in Holding /\ subs[i].of # None
  BY <1>1, <1>2 DEF RowsOf, Holding
<1>5. \A i \in DOMAIN subs : i \in late => up(subs[i]) \in SubRow /\ SameRow(subs[i], up(subs[i]))
  BY <1>2, <1>4, RowStays, StatusRow
<1> HIDE DEF late, up
<1>6. DOMAIN subs' = DOMAIN subs /\ subs' = [i \in DOMAIN subs' |-> subs'[i]]
      /\ \A i \in DOMAIN subs : subs'[i] \in SubRow /\ SameRow(subs[i], subs'[i])
  BY <1>1, <1>2, <1>4, <1>5, RowStays
<1>7. Follows(subs, subs')
  BY <1>2, <1>6, MapFollows DEF TypeInv
<1>8. RowsOk
  BY <1>7 DEF RowsOk
<1>9. WalletOk /\ PaidOk
  <2>1. CASE wallet' = wallet
    BY <1>3, <1>8, <2>1, WalletStays
  <2>2. CASE subs'[wallet.sub].status = "active" /\ wallet' = ResetCredits(wallet, subs')
    <3>1. wallet \in Wallet /\ wallet.sub \in DOMAIN subs
      BY <1>2 DEF TypeInv
    <3>2. subs'[wallet.sub].plan \in Plans
      BY <1>6, <3>1 DEF SubRow
    <3>3. wallet' \in Wallet /\ wallet'.sub = wallet.sub /\ wallet'.base = subs'[wallet.sub].plan
      BY <2>2, <3>1, <3>2, ResetEffect
    <3>4. wallet'.sub \in DOMAIN subs'
      BY <1>6, <3>1, <3>3
    <3>5. PaidOk /\ Moves
      BY <1>3, <1>8, <2>2, <3>3, <3>4, WalletFollows
    <3> QED
      BY <3>3, <3>4, <3>5 DEF WalletOk
  <2> QED
    BY <1>1, <2>1, <2>2
<1>10. RecordOk
  BY <1>1, <1>2 DEF RecordOk, TypeInv
<1> QED
  BY <1>3, <1>8, <1>9, <1>10, QuietStep

LEMMA HookFailedOk ==
  ASSUME PaidInv, NEW h \in Hooks, HookFailed(h)
  PROVE  StepOk
<1> DEFINE down1(s) == [s EXCEPT !.status = "past_due"]
           hit(i) == subs[i].of = hook[h].remote /\ subs[i].status = "active"
<1>1. /\ hook[h] # None /\ HookDone(h) /\ wallet' = wallet
      /\ record' = [record EXCEPT ![InvoiceOf(hook[h])] = "failed"]
      /\ subs' = [i \in DOMAIN subs |-> IF hit(i) THEN down1(subs[i]) ELSE subs[i]]
  BY DEF HookFailed
<1>2. TypeInv /\ hook[h].remote \in Remotes /\ InvoiceOf(hook[h]) \in Invoices
      /\ None \notin Remotes
  BY <1>1, HookEvent, SubscriptionsAssumption DEF PaidInv
<1>3. /\ UNCHANGED <<stripeSide, tasks>> /\ events' \subseteq events /\ reported' = reported
      /\ MirrorOk /\ HookOk /\ BudgetOk /\ StripeOk
  BY <1>1, HookDoneOk
<1>4. \A i \in DOMAIN subs : /\ IF hit(i) THEN subs'[i] = down1(subs[i]) ELSE subs'[i] = subs[i]
                             /\ hit(i) => subs[i].status \in Holding /\ subs[i].of # None
  BY <1>1, <1>2 DEF Holding
<1>5. \A i \in DOMAIN subs : hit(i) =>
        down1(subs[i]) \in SubRow /\ SameRow(subs[i], down1(subs[i]))
  BY <1>2, <1>4, RowStays, StatusRow
<1> HIDE DEF hit, down1
<1>6. DOMAIN subs' = DOMAIN subs /\ subs' = [i \in DOMAIN subs' |-> subs'[i]]
      /\ \A i \in DOMAIN subs : subs'[i] \in SubRow /\ SameRow(subs[i], subs'[i])
  BY <1>1, <1>2, <1>4, <1>5, RowStays
<1>7. RowsOk
  BY <1>2, <1>6, MapFollows DEF TypeInv, RowsOk
<1>8. WalletOk /\ PaidOk
  BY <1>1, <1>3, <1>7, WalletStays
<1>9. RecordOk
  BY <1>1, <1>2 DEF RecordOk, TypeInv
<1> QED
  BY <1>3, <1>7, <1>8, <1>9, QuietStep

-----------------------------------------------------------------------------
(* The payment check *)

LEMMA PickIsKnown ==
  ASSUME Pick # None
  PROVE  Pick \in Remotes /\ remote[Pick] # None
<1> DEFINE known == {r \in Remotes : remote[r] # None}
           with(s) == {r \in known : remote[r].status = s}
<1>1. \A I : I \subseteq known /\ I # {} => Newest(I) \in I
  <2>1. LastRemote \in Nat /\ known \subseteq 0 .. LastRemote
    BY SubscriptionsAssumption DEF Remotes
  <2> HIDE DEF known
  <2> QED
    BY <2>1, NewestIsOne
<1>2. /\ Pick = IF with("active") # {} THEN Newest(with("active"))
                ELSE IF with("past_due") # {} THEN Newest(with("past_due"))
                ELSE IF with("incomplete") # {} THEN Newest(with("incomplete"))
                ELSE IF known # {} THEN Newest(known) ELSE None
      /\ \A s : with(s) \subseteq known
  BY DEF Pick
<1> HIDE DEF with
<1>3. Pick \in known
  <2>1. \A s : with(s) # {} => Newest(with(s)) \in known
    BY <1>1, <1>2
  <2>2. known # {} => Newest(known) \in known
    BY <1>1
  <2> HIDE DEF known
  <2> QED
    BY <1>2, <2>1, <2>2
<1> QED
  BY <1>3

(* The newest of some rows.                                                  *)
LEMMA NewestListed ==
  ASSUME TypeInv, NEW I, I \subseteq DOMAIN subs, I # {}
  PROVE  Newest(I) \in I
<1>1. Len(subs) \in Nat /\ DOMAIN subs = 1 .. Len(subs)
  BY DEF TypeInv
<1>2. I \subseteq 0 .. Len(subs)
  BY <1>1
<1> QED
  BY <1>1, <1>2, NewestIsOne

(* A step of the check.                                                      *)
LEMMA CheckMoves ==
  ASSUME PaidInv, UNCHANGED <<stripeSide, events, record, hook, down, renew, budget>>,
         RowsOk, MirrorOk, WalletOk, CheckOk, PaidOk
  PROVE  StepOk
<1>1. TypeInv /\ StripeInv /\ UNCHANGED stripeSide /\ events' = events /\ record' = record
      /\ hook' = hook /\ down' = down /\ renew' = renew /\ budget' = budget
  BY DEF PaidInv
<1>2. StripeOk /\ Grows
  BY <1>1, StripeStays DEF StripeOk
<1>3. DownOk /\ HookOk /\ BudgetOk
  BY <1>1, <1>2, DownStays, BudgetStays DEF HookOk
<1> QED
  BY <1>1, <1>2, <1>3 DEF StepOk, RecordOk, TypeInv

LEMMA CheckTargetOk ==
  ASSUME PaidInv, CheckTarget
  PROVE  StepOk
<1> DEFINE r == Pick
           m == remote[r]
<1>1. /\ Pick # None
      /\ check' = [pc |-> "sync", picked |-> r, seen |-> m, read |-> None]
      /\ UNCHANGED <<stripeSide, events, record, hook, down, renew, budget>>
      /\ subs' = subs /\ mirror' = mirror /\ wallet' = wallet /\ TypeInv /\ StripeInv
      /\ events' \subseteq events
  BY DEF CheckTarget, PaidInv
<1>2. r \in Remotes /\ remote[r] # None
  BY <1>1, PickIsKnown
<1>3. Fine(r, m)
  BY <1>2, FineNow
<1>4. RowsOk /\ MirrorOk /\ StripeOk /\ Grows
  BY <1>1, RowsStay, StripeStays DEF MirrorOk, StripeOk
<1>5. WalletOk /\ PaidOk
  BY <1>1, <1>4, WalletStays
<1> HIDE DEF r, m
<1>6. CheckOk
  <2>1. /\ check'.pc = "sync" /\ check'.picked = r /\ check'.seen = m /\ check' \in Check
    BY <1>1, <1>3 DEF Check, Fine
  <2>2. Fine(check.picked, check.seen)'
    BY <1>3, <1>4, <2>1, FineStays DEF Fine
  <2> QED
    BY <2>1, <2>2 DEF CheckOk, CheckInv
<1> QED
  BY <1>1, <1>4, <1>5, <1>6, CheckMoves

LEMMA CheckSyncOk ==
  ASSUME PaidInv, CheckSync
  PROVE  StepOk
<1> DEFINE r == check.picked
           m == check.seen
<1>1. /\ check.pc = "sync" /\ Sync(r, m) /\ mirror' = [mirror EXCEPT ![r] = m]
      /\ check' = [check EXCEPT !.pc = "look"]
      /\ UNCHANGED <<stripeSide, events, record, hook, down, renew, budget>>
      /\ UNCHANGED stripeSide /\ events' \subseteq events
  BY DEF CheckSync
<1>2. TypeInv /\ RowInv /\ StripeInv /\ CheckInv
  BY DEF PaidInv
<1>3. Fine(r, m) /\ r \in Remotes /\ m \in Copy /\ remote[r] # None
  BY <1>1, <1>2 DEF CheckInv, Fine
<1>5. check \in Check
  BY <1>2 DEF TypeInv
<1>6. /\ check' \in Check /\ check'.pc = "look" /\ check'.picked = r /\ check'.seen = m
  BY <1>1, <1>5 DEF Check
<1> HIDE DEF r, m
<1>7. RowsOk /\ WalletOk /\ PaidOk
  BY <1>1, <1>3, SyncOk
<1>8. MirrorOk /\ StripeOk /\ Grows
  BY <1>1, <1>2, <1>3, StripeStays DEF MirrorOk, StripeOk
<1>10. PICK i : Synced(subs, subs', r, m, i)
  BY <1>1, <1>2, <1>3, SyncEffect
<1>11. i \in DOMAIN subs' /\ subs'[i].of = r
  BY <1>2, <1>10 DEF Synced, TypeInv
<1>12. Fine(check.picked, check.seen)'
  BY <1>3, <1>6, <1>8, FineStays DEF Fine
<1>14. CheckInv'
  BY <1>6, <1>11, <1>12 DEF CheckInv
<1> QED
  BY <1>1, <1>6, <1>7, <1>8, <1>14, CheckMoves DEF CheckOk

(* A later step of the check, which goes on with what it has read.           *)
LEMMA CheckGoes ==
  ASSUME PaidInv, UNCHANGED stripeSide, RowsOk, check.pc \notin {"idle", "sync"},
         NEW pc \in {"look", "others", "save", "reset"}, NEW read \in Wallet,
         check' = [check EXCEPT !.pc = pc, !.read = read],
         pc = "reset" => Sold(subs[wallet.sub])'
  PROVE  CheckOk
<1>1. TypeInv /\ RowInv /\ StripeInv /\ CheckInv /\ check \in Check
  BY DEF PaidInv, TypeInv
<1>2. Grows
  BY <1>1 DEF Grows, Charged, Fitting, Once, stripeSide
<1>3. /\ check' \in Check /\ check'.pc = pc /\ check'.picked = check.picked
      /\ check'.seen = check.seen /\ check'.read = read
  BY <1>1 DEF Check
<1>4. Fine(check.picked, check.seen)'
  BY <1>1, <1>2, <1>3, FineStays DEF CheckInv, Fine
<1>5. \E i \in DOMAIN subs' : subs'[i].of = check'.picked
  BY <1>1, <1>2, <1>3, RowsStep DEF CheckInv
<1> QED
  BY <1>3, <1>4, <1>5 DEF CheckOk, CheckInv

LEMMA CheckLookOk ==
  ASSUME PaidInv, CheckLook
  PROVE  StepOk
<1> DEFINE pc == IF check.seen.status = "canceled" THEN "others" ELSE "save"
<1>1. /\ check.pc = "look" /\ check' = [check EXCEPT !.pc = pc, !.read = wallet]
      /\ UNCHANGED <<stripeSide, events, record, hook, down, renew, budget>>
      /\ UNCHANGED stripeSide /\ events' \subseteq events /\ subs' = subs
      /\ mirror' = mirror /\ wallet' = wallet /\ TypeInv /\ StripeInv
  BY DEF CheckLook, PaidInv
<1>2. RowsOk /\ MirrorOk /\ StripeOk
  BY <1>1, RowsStay, StripeStays DEF MirrorOk
<1>3. WalletOk /\ PaidOk
  BY <1>1, <1>2, WalletStays
<1>4. pc \in {"others", "save"} /\ wallet \in Wallet
  BY <1>1 DEF TypeInv
<1> HIDE DEF pc
<1>5. CheckOk
  BY <1>1, <1>2, <1>4, CheckGoes
<1> QED
  BY <1>1, <1>2, <1>3, <1>5, CheckMoves

(* A step whose program counter alone moves in the check.                    *)
LEMMA ReadStays ==
  ASSUME check \in Check, NEW pc, check' = [check EXCEPT !.pc = pc]
  PROVE  check' = [check EXCEPT !.pc = pc, !.read = check.read]
BY DEF Check

LEMMA CheckOthersOk ==
  ASSUME PaidInv, CheckOthers
  PROVE  StepOk
<1>1. /\ check.pc = "others" /\ check' = [check EXCEPT !.pc = "save"]
      /\ UNCHANGED <<stripeSide, events, record, hook, down, renew, budget>>
      /\ UNCHANGED stripeSide /\ events' \subseteq events
      /\ subs' = CancelRows(subs, ActiveRows(subs) \ {Adopted})
      /\ mirror' = mirror /\ wallet' = wallet /\ TypeInv /\ StripeInv /\ CheckInv
  BY DEF CheckOthers, PaidInv
<1>2. RowsOk /\ MirrorOk /\ StripeOk
  BY <1>1, CancelOk, StripeStays DEF MirrorOk
<1>3. WalletOk /\ PaidOk
  BY <1>1, <1>2, WalletStays
<1>4. check.read \in Wallet /\ check' = [check EXCEPT !.pc = "save", !.read = check.read]
  BY <1>1, ReadStays DEF TypeInv, CheckInv
<1>5. CheckOk
  BY <1>1, <1>2, <1>4, CheckGoes
<1> QED
  BY <1>1, <1>2, <1>3, <1>5, CheckMoves

LEMMA AdoptedIs ==
  ASSUME PaidInv, check.pc = "save"
  PROVE  Adopted \in DOMAIN subs /\ subs[Adopted].of = check.picked /\ Adopted \in Nat
<1>1. RowsOf(subs, check.picked) # {} /\ RowsOf(subs, check.picked) \subseteq DOMAIN subs
  BY DEF CheckInv, RowsOf, PaidInv
<1>2. Adopted \in RowsOf(subs, check.picked)
  BY <1>1, NewestListed DEF Adopted, PaidInv
<1>3. \A i \in DOMAIN subs : i \in Nat
  BY DEF PaidInv, TypeInv
<1> QED
  BY <1>2, <1>3 DEF RowsOf

LEMMA CheckSaveOk ==
  ASSUME PaidInv, CheckSave
  PROVE  StepOk
<1>1. /\ check.pc = "save" /\ wallet' = [check.read EXCEPT !.sub = Adopted]
      /\ check' = IF check.seen.status = "active" THEN [check EXCEPT !.pc = "reset"]
                  ELSE NoCheck
      /\ UNCHANGED <<stripeSide, events, record, hook, down, renew, budget>>
      /\ UNCHANGED stripeSide /\ events' \subseteq events /\ subs' = subs
      /\ mirror' = mirror /\ TypeInv /\ StripeInv /\ CheckInv
  BY DEF CheckSave, PaidInv
<1>2. RowsOk /\ MirrorOk /\ StripeOk
  BY <1>1, RowsStay, StripeStays DEF MirrorOk
<1>3. /\ check \in Check /\ check.read \in Wallet /\ check.seen \in Copy
      /\ check.seen.status \in Holding => check.picked \in Charged
  BY <1>1 DEF TypeInv, CheckInv, Fine
<1>4. Adopted \in DOMAIN subs /\ subs[Adopted].of = check.picked /\ Adopted \in Nat
  BY <1>1, AdoptedIs
<1>5. wallet' \in Wallet /\ wallet'.sub = Adopted
  BY <1>1, <1>3, <1>4, MovedWallet
<1>6. check' # check
  BY <1>1, <1>3 DEF Check, NoCheck
<1>7. WalletOk /\ PaidOk
  BY <1>1, <1>4, <1>5, <1>6 DEF WalletOk, PaidOk
<1>8. CheckOk
  <2>1. CASE check.seen.status = "active"
    <3>1. Charged' = Charged
      BY <1>1 DEF stripeSide, Charged, Once
    <3>2. Sold(subs[wallet.sub])'
      BY <1>1, <1>3, <1>4, <1>5, <2>1, <3>1 DEF Sold, Holding
    <3>3. check' = [check EXCEPT !.pc = "reset", !.read = check.read]
      BY <1>1, <1>3, <2>1, ReadStays
    <3> QED
      BY <1>1, <1>2, <1>3, <3>2, <3>3, CheckGoes
  <2>2. CASE check.seen.status # "active"
    BY <1>1, <2>2, CheckEnds
  <2> QED
    BY <2>1, <2>2
<1> QED
  BY <1>1, <1>2, <1>7, <1>8, CheckMoves

LEMMA CheckResetOk ==
  ASSUME PaidInv, CheckReset
  PROVE  StepOk
<1> DEFINE w == subs[wallet.sub]
<1>1. /\ check.pc = "reset" /\ wallet' = ResetCredits(wallet, subs) /\ check' = NoCheck
      /\ UNCHANGED <<stripeSide, events, record, hook, down, renew, budget>>
      /\ UNCHANGED stripeSide /\ events' \subseteq events /\ subs' = subs
      /\ mirror' = mirror /\ TypeInv /\ StripeInv /\ CheckInv /\ RowInv
  BY DEF CheckReset, PaidInv
<1>2. RowsOk /\ MirrorOk /\ StripeOk /\ CheckOk
  BY <1>1, RowsStay, StripeStays, CheckEnds DEF MirrorOk
<1>3. wallet \in Wallet /\ wallet.sub \in DOMAIN subs
  BY <1>1 DEF TypeInv
<1>4. w.plan \in Plans
  BY <1>1, <1>3, RowOwner DEF SubRow
<1>5. wallet' \in Wallet /\ wallet'.sub = wallet.sub /\ wallet'.base = w.plan
  BY <1>3, <1>4, <1>1, ResetEffect
<1>6. WalletOk
  BY <1>1, <1>3, <1>5 DEF WalletOk, Moves
<1>7. PaidOk
  <2>1. CASE w.of = None
    BY <1>1, <1>3, <1>5, <2>1 DEF PaidOk, Assigned
  <2>2. CASE w.of # None
    <3>1. w.of \in Charged /\ <<w.of, w.plan>> \in Fitting
      BY <1>1, <1>3, <2>2 DEF CheckInv, Sold, RowInv
    <3>2. w.plan \in reported
      BY <3>1, ChargedFits
    <3> QED
      BY <1>5, <3>2 DEF PaidOk
  <2> QED
    BY <2>1, <2>2
<1> QED
  BY <1>1, <1>2, <1>6, <1>7, CheckMoves

LEMMA CheckDiesOk ==
  ASSUME PaidInv, CheckDies
  PROVE  StepOk
<1>1. /\ check' = NoCheck /\ Starts("death") /\ UNCHANGED stripeSide /\ events' \subseteq events
      /\ subs' = subs /\ mirror' = mirror /\ wallet' = wallet /\ record' = record
      /\ hook' = hook /\ down' = down /\ renew' = renew /\ TypeInv /\ StripeInv
  BY DEF CheckDies, PaidInv
<1>2. StripeOk /\ Grows /\ RowsOk /\ MirrorOk /\ HookOk /\ BudgetOk /\ CheckOk
  BY <1>1, StripeStays, RowsStay, StartsOk, CheckEnds DEF StripeOk, MirrorOk, HookOk
<1>3. WalletOk /\ PaidOk /\ DownOk
  BY <1>1, <1>2, WalletStays, DownStays
<1> QED
  BY <1>1, <1>2, <1>3 DEF StepOk, RecordOk, TypeInv

LEMMA AgesOk ==
  ASSUME PaidInv, NEW i, Ages(i)
  PROVE  StepOk
<1>1. /\ Starts("old") /\ i \in paid /\ old' = old \cup {i} /\ NoDevify
      /\ UNCHANGED <<remote, paid, reported, events>> /\ TypeInv /\ StripeInv
  BY DEF Ages, PaidInv
<1>2. StripeInv' /\ Grows
  BY <1>1 DEF StripeInv, Grows, Charged, Fitting, Once
<1>3. StripeOk
  BY <1>1, <1>2 DEF StripeOk, TypeInv
<1> QED
  BY <1>1, <1>3, StartsOk, StripeMoves

LEMMA BackfillOk ==
  ASSUME PaidInv, Backfill
  PROVE  StepOk
<1>1. /\ record' = [i \in Invoices |-> IF i \in paid \ old THEN "succeeded" ELSE record[i]]
      /\ subs' = subs /\ mirror' = mirror /\ hook' = hook /\ wallet' = wallet
      /\ budget' = budget /\ UNCHANGED <<stripeSide, tasks>> /\ events' \subseteq events
      /\ UNCHANGED stripeSide /\ TypeInv /\ StripeInv
  BY DEF Backfill, PaidInv
<1>2. RowsOk /\ MirrorOk /\ HookOk /\ BudgetOk /\ StripeOk
  BY <1>1, RowsStay, BudgetStays, StripeStays DEF MirrorOk, HookOk
<1>3. WalletOk /\ PaidOk
  BY <1>1, <1>2, WalletStays
<1>4. RecordOk
  BY <1>1 DEF RecordOk, TypeInv
<1> QED
  BY <1>1, <1>2, <1>3, <1>4, QuietStep

-----------------------------------------------------------------------------
(* Renewal *)

LEMMA CreditsExpireOk ==
  ASSUME PaidInv, CreditsExpire
  PROVE  StepOk
<1>1. /\ wallet' = [wallet EXCEPT !.expired = TRUE] /\ Starts("expire") /\ record' = record
      /\ subs' = subs /\ mirror' = mirror /\ hook' = hook
      /\ UNCHANGED <<stripeSide, tasks>> /\ events' \subseteq events
      /\ TypeInv
  BY DEF CreditsExpire, PaidInv
<1>2. RowsOk /\ MirrorOk /\ HookOk /\ BudgetOk
  BY <1>1, RowsStay, StartsOk DEF MirrorOk, HookOk
<1>3. wallet' \in Wallet /\ wallet'.sub = wallet.sub /\ wallet'.base = wallet.base
  BY <1>1 DEF TypeInv, Wallet
<1>4. WalletOk /\ PaidOk
  BY <1>1, <1>3 DEF TypeInv, WalletOk, Moves, PaidOk
<1>5. RecordOk
  BY <1>1 DEF RecordOk, TypeInv
<1> QED
  BY <1>1, <1>2, <1>4, <1>5, QuietStep

(* A step of the renewal.                                                    *)
LEMMA RenewMoves ==
  ASSUME PaidInv,
         UNCHANGED <<stripeSide, events, mirror, subs, record, hook, check, down, budget>>,
         WalletOk, PaidOk, renew' \in BOOLEAN
  PROVE  StepOk
<1>1. TypeInv /\ StripeInv /\ UNCHANGED stripeSide /\ events' = events /\ record' = record
      /\ mirror' = mirror /\ subs' = subs
      /\ hook' = hook /\ down' = down /\ check' = check /\ budget' = budget
  BY DEF PaidInv
<1>2. StripeOk /\ Grows /\ RowsOk /\ MirrorOk /\ HookOk /\ BudgetOk
  BY <1>1, StripeStays, RowsStay, BudgetStays DEF StripeOk, MirrorOk, HookOk
<1>3. DownOk /\ CheckOk
  BY <1>1, <1>2, DownStays, CheckStays
<1> QED
  BY <1>1, <1>2, <1>3 DEF StepOk, RecordOk, TypeInv

LEMMA RenewListOk ==
  ASSUME PaidInv, RenewList
  PROVE  StepOk
<1>1. /\ UNCHANGED <<stripeSide, events, mirror, subs, record, hook, check, down, budget>>
      /\ wallet' = wallet /\ renew' \in BOOLEAN /\ subs' = subs
  BY DEF RenewList
<1>2. WalletOk /\ PaidOk
  BY <1>1 DEF WalletOk, Moves, PaidOk, PaidInv, TypeInv
<1> QED
  BY <1>1, <1>2, RenewMoves

LEMMA RenewResetOk ==
  ASSUME PaidInv, RenewReset
  PROVE  StepOk
<1>1. /\ UNCHANGED <<stripeSide, events, mirror, subs, record, hook, check, down, budget>>
      /\ wallet' = ResetCredits(wallet, subs) /\ RenewReset /\ renew' = FALSE /\ subs' = subs
      /\ TypeInv
  BY DEF RenewReset, PaidInv
<1>2. wallet \in Wallet /\ wallet.sub \in DOMAIN subs
  BY <1>1 DEF TypeInv
<1>3. subs[wallet.sub].plan \in Plans
  BY <1>1, <1>2, RowOwner DEF SubRow
<1>4. wallet' \in Wallet /\ wallet'.sub = wallet.sub
  BY <1>1, <1>2, <1>3, ResetEffect
<1>5. WalletOk /\ PaidOk
  BY <1>1, <1>2, <1>4 DEF WalletOk, Moves, PaidOk
<1> QED
  BY <1>1, <1>5, RenewMoves

-----------------------------------------------------------------------------
(* The downgrade *)

LEMMA OverdueRow ==
  ASSUME NEW s \in SubRow, NEW keep \in BOOLEAN
  PROVE  /\ [s EXCEPT !.overdue = TRUE] \in SubRow /\ SameRow(s, [s EXCEPT !.overdue = TRUE])
         /\ [s EXCEPT !.renews = keep, !.overdue = FALSE] \in SubRow
         /\ SameRow(s, [s EXCEPT !.renews = keep, !.overdue = FALSE])
BY DEF SubRow, SameRow

(* One row is written.                                                       *)
LEMMA OneFollows ==
  ASSUME TypeInv, NEW i \in DOMAIN subs, NEW x \in SubRow, SameRow(subs[i], x),
         subs' = [subs EXCEPT ![i] = x]
  PROVE  RowsOk
<1>1. subs \in Seq(SubRow)
  BY DEF TypeInv
<1>2. DOMAIN subs' = DOMAIN subs /\ subs' = [j \in DOMAIN subs' |-> subs'[j]]
      /\ \A j \in DOMAIN subs : subs'[j] = IF j = i THEN x ELSE subs[j]
  OBVIOUS
<1>3. \A j \in DOMAIN subs : subs'[j] \in SubRow /\ SameRow(subs[j], subs'[j])
  BY <1>2, RowStays
<1>4. Follows(subs, subs')
  BY <1>1, <1>2, <1>3, MapFollows
<1> QED
  BY <1>4 DEF RowsOk

LEMMA GraceOk ==
  ASSUME PaidInv, NEW i \in DOMAIN subs, Grace(i)
  PROVE  StepOk
<1> DEFINE x == [subs[i] EXCEPT !.overdue = TRUE]
<1>1. /\ Starts("grace") /\ subs' = [subs EXCEPT ![i].overdue = TRUE]
      /\ wallet' = wallet /\ record' = record /\ mirror' = mirror /\ hook' = hook
      /\ UNCHANGED <<stripeSide, tasks>> /\ events' \subseteq events
      /\ UNCHANGED stripeSide /\ TypeInv /\ StripeInv
  BY DEF Grace, PaidInv
<1>2. x \in SubRow /\ SameRow(subs[i], x) /\ subs' = [subs EXCEPT ![i] = x]
  BY <1>1, RowOwner, OverdueRow
<1> HIDE DEF x
<1>3. RowsOk
  BY <1>1, <1>2, OneFollows
<1>4. MirrorOk /\ HookOk /\ BudgetOk /\ StripeOk
  BY <1>1, StartsOk, StripeStays DEF MirrorOk, HookOk
<1>5. WalletOk /\ PaidOk
  BY <1>1, <1>3, <1>4, WalletStays
<1>6. RecordOk
  BY <1>1 DEF RecordOk, TypeInv
<1> QED
  BY <1>1, <1>3, <1>4, <1>5, <1>6, QuietStep

(* A step of the downgrade.                                                  *)
LEMMA DownMoves ==
  ASSUME PaidInv, StripeOk, UNCHANGED <<mirror, record, hook, check, renew>>,
         RowsOk, WalletOk, DownOk, BudgetOk, PaidOk
  PROVE  StepOk
<1>1. TypeInv /\ record' = record /\ mirror' = mirror
      /\ hook' = hook /\ renew' = renew /\ check' = check
  BY DEF PaidInv
<1>2. MirrorOk /\ HookOk
  BY <1>1 DEF MirrorOk, HookOk
<1>3. CheckOk
  BY <1>1, <1>2, CheckStays
<1> QED
  BY <1>1, <1>2, <1>3 DEF StepOk, RecordOk, TypeInv

(* The task goes on with the rows of the list that are left.                 *)
LEMMA DownLists ==
  ASSUME TypeInv, NEW I, \A i \in I : i \in DOMAIN subs /\ subs[i].of # None, I # {},
         down' = [pc |-> "cancel", todo |-> I, sub |-> Newest(I)], subs' = subs
  PROVE  DownOk
<1>1. Newest(I) \in I
  BY NewestListed
<1>2. \A i \in DOMAIN subs : i \in Nat
  BY DEF TypeInv
<1> DEFINE n == Newest(I)
<1> HIDE DEF n
<1>3. down' = [pc |-> "cancel", todo |-> I, sub |-> n] /\ n \in I
  BY <1>1 DEF n
<1> QED
  BY <1>2, <1>3 DEF DownOk, Down, DownInv

LEMMA DownListOk ==
  ASSUME PaidInv, DownList
  PROVE  StepOk
<1> DEFINE late == {i \in DOMAIN subs : subs[i].status = "past_due" /\ subs[i].overdue}
<1>1. /\ late # {} /\ down' = [pc |-> "cancel", todo |-> late, sub |-> Newest(late)]
      /\ UNCHANGED <<mirror, record, hook, check, renew>> /\ UNCHANGED stripeSide
      /\ events' \subseteq events /\ subs' = subs /\ wallet' = wallet /\ budget' = budget
      /\ TypeInv /\ StripeInv /\ RowInv
  BY DEF DownList, PaidInv
<1>2. \A i \in late : i \in DOMAIN subs /\ subs[i].of # None
  BY <1>1 DEF RowInv
<1> HIDE DEF late
<1>3. DownOk
  BY <1>1, <1>2, DownLists
<1>4. StripeOk /\ RowsOk /\ BudgetOk
  BY <1>1, StripeStays, RowsStay, BudgetStays
<1>5. WalletOk /\ PaidOk
  BY <1>1, <1>4, WalletStays
<1> QED
  BY <1>1, <1>3, <1>4, <1>5, DownMoves

LEMMA DownCancelOk ==
  ASSUME PaidInv, DownCancel
  PROVE  StepOk
<1> DEFINE i == down.sub
           r == subs[i].of
           rest == down.todo \ {i}
           x == [subs[i] EXCEPT !.renews = FALSE, !.overdue = FALSE]
<1>1. /\ down.pc = "cancel" /\ UNCHANGED <<mirror, record, hook, check, renew>>
      /\ wallet' = wallet /\ budget' = budget /\ UNCHANGED <<paid, reported, old>>
      /\ TypeInv /\ StripeInv /\ RowInv /\ DownInv /\ down \in Down
  BY DEF DownCancel, PaidInv, TypeInv
<1>2. \/ /\ down' = IF rest = {} THEN NoDown
                    ELSE [pc |-> "cancel", todo |-> rest, sub |-> Newest(rest)]
         /\ UNCHANGED <<remote, events, subs>>
      \/ /\ remote' = [remote EXCEPT ![r].ending = TRUE] /\ Emit({"updated"}, r)
         /\ subs' = [subs EXCEPT ![i].renews = FALSE, ![i].overdue = FALSE]
         /\ down' = [down EXCEPT !.pc = "row", !.todo = rest]
  BY DEF DownCancel
<1>3. i \in DOMAIN subs /\ r # None /\ \A j \in rest : j \in DOMAIN subs /\ subs[j].of # None
  BY <1>1 DEF DownInv
<1>4. r \in Remotes /\ remote[r] # None
  BY <1>1, <1>3, RowOwner DEF RowInv
<1> HIDE DEF r, rest
<1>5. CASE /\ down' = IF rest = {} THEN NoDown
                      ELSE [pc |-> "cancel", todo |-> rest, sub |-> Newest(rest)]
           /\ UNCHANGED <<remote, events, subs>>
  <2>1. DownOk
    BY <1>1, <1>3, <1>5, DownLists, DownEnds
  <2>2. UNCHANGED stripeSide /\ events' \subseteq events /\ subs' = subs
    BY <1>1, <1>5 DEF stripeSide
  <2>3. StripeOk /\ RowsOk /\ BudgetOk
    BY <1>1, <2>2, StripeStays, RowsStay, BudgetStays
  <2>4. WalletOk /\ PaidOk
    BY <1>1, <2>3, WalletStays
  <2> QED
    BY <1>1, <2>1, <2>3, <2>4, DownMoves
<1>6. CASE /\ remote' = [remote EXCEPT ![r].ending = TRUE] /\ Emit({"updated"}, r)
           /\ subs' = [subs EXCEPT ![i].renews = FALSE, ![i].overdue = FALSE]
           /\ down' = [down EXCEPT !.pc = "row", !.todo = rest]
  <2>1. StripeOk /\ Grows
    BY <1>1, <1>4, <1>6, EndingTurn, TurnOk DEF StripeOk
  <2>2. x \in SubRow /\ SameRow(subs[i], x) /\ subs' = [subs EXCEPT ![i] = x]
    BY <1>1, <1>3, <1>6, RowOwner, OverdueRow
  <2> HIDE DEF x
  <2>3. RowsOk
    BY <1>1, <1>3, <2>2, OneFollows
  <2>4. WalletOk /\ PaidOk
    BY <1>1, <2>1, <2>3, WalletStays
  <2>5. \A j \in DOMAIN subs : j \in DOMAIN subs' /\ subs'[j].of = subs[j].of
    BY <1>1, <2>1, <2>3, RowsStep
  <2>6. i \in DOMAIN subs' /\ subs'[i].of # None
        /\ \A j \in rest : j \in DOMAIN subs' /\ subs'[j].of # None /\ j \in Nat
    <3>1. \A j \in DOMAIN subs : j \in Nat
      BY <1>1 DEF TypeInv
    <3>2. subs[i].of # None
      BY <1>3 DEF r
    <3> HIDE DEF i
    <3> QED
      BY <1>3, <2>5, <3>1, <3>2
  <2>7. DownOk
    <3>1. /\ down' \in Down /\ down'.pc = "row" /\ down'.todo = rest /\ down'.sub = i
      BY <1>1, <1>6, <2>6 DEF Down
    <3> QED
      BY <2>6, <3>1 DEF DownOk, DownInv
  <2> QED
    BY <1>1, <2>1, <2>3, <2>4, <2>7, BudgetStays, DownMoves
<1> QED
  BY <1>2, <1>5, <1>6

LEMMA DownRowOk ==
  ASSUME PaidInv, DownRow
  PROVE  StepOk
<1>1. /\ down.pc = "row" /\ UNCHANGED <<mirror, record, hook, check, renew>>
      /\ subs' = CancelRows(subs, {down.sub}) /\ down' = [down EXCEPT !.pc = "create"]
      /\ wallet' = wallet /\ budget' = budget /\ UNCHANGED stripeSide /\ events' \subseteq events
      /\ TypeInv /\ StripeInv /\ RowInv /\ DownInv /\ down \in Down
  BY DEF DownRow, PaidInv, TypeInv
<1>2. RowsOk /\ StripeOk /\ BudgetOk /\ Grows
  BY <1>1, CancelOk, StripeStays, BudgetStays DEF StripeOk
<1>3. WalletOk /\ PaidOk
  BY <1>1, <1>2, WalletStays
<1>4. \A j \in down.todo : j \in DOMAIN subs' /\ subs'[j].of # None
  BY <1>1, <1>2, RowsStep DEF DownInv
<1>5. down' \in Down /\ down'.pc = "create" /\ down'.todo = down.todo
  BY <1>1 DEF Down
<1>6. DownOk
  BY <1>4, <1>5 DEF DownOk, DownInv
<1> QED
  BY <1>1, <1>2, <1>3, <1>6, DownMoves

LEMMA DownCreateOk ==
  ASSUME PaidInv, DownCreate
  PROVE  StepOk
<1> DEFINE x == [FreeSub EXCEPT !.renews = FALSE]
           n == Len(subs) + 1
<1>1. /\ subs' = Append(subs, x) /\ down' = [down EXCEPT !.pc = "credit", !.sub = n]
      /\ UNCHANGED <<mirror, record, hook, check, renew>> /\ UNCHANGED stripeSide
      /\ events' \subseteq events /\ wallet' = wallet /\ budget' = budget
      /\ TypeInv /\ StripeInv /\ DownInv
  BY DEF DownCreate, PaidInv
<1>2. x \in SubRow /\ x.of = None /\ x.status = "active"
  BY PlatformRow DEF Plans, Platform
<1> HIDE DEF x
<1>3. subs \in Seq(SubRow) /\ down \in Down
  BY <1>1 DEF TypeInv
<1>4. Added(subs, subs')
  BY <1>1, <1>2, <1>3, AppendAdds, FollowsSelf
<1>5. RowsOk /\ StripeOk /\ BudgetOk /\ Grows
  BY <1>1, <1>4, StripeStays, BudgetStays DEF RowsOk, StripeOk
<1>6. WalletOk /\ PaidOk
  BY <1>1, <1>5, WalletStays
<1>7. DownOk
  <2>1. n \in DOMAIN subs' /\ subs'[n].of = None /\ n \in Nat
    <3>1. subs' \in Seq(SubRow) /\ Len(subs') = n /\ n \in Nat /\ n > 0 /\ subs'[Len(subs')].of = None
      BY <1>3, <1>4 DEF Added
    <3> QED
      BY <3>1
  <2>2. \A j \in down.todo : j \in DOMAIN subs' /\ subs'[j].of # None
    BY <1>1, <1>5, RowsStep DEF DownInv, PaidInv
  <2> HIDE DEF n
  <2>3. down' \in Down /\ down'.pc = "credit" /\ down'.sub = n /\ down'.todo = down.todo
    BY <1>1, <1>3, <2>1 DEF Down
  <2> QED
    BY <2>1, <2>2, <2>3 DEF DownOk, DownInv
<1> QED
  BY <1>1, <1>5, <1>6, <1>7, DownMoves

LEMMA DownCreditOk ==
  ASSUME PaidInv, DownCredit
  PROVE  StepOk
<1>1. /\ down.pc = "credit" /\ wallet' = ResetCredits([wallet EXCEPT !.sub = down.sub], subs)
      /\ \/ down' = NoDown
         \/ /\ down.todo # {}
            /\ down' = [pc |-> "cancel", todo |-> down.todo, sub |-> Newest(down.todo)]
      /\ UNCHANGED <<mirror, record, hook, check, renew>> /\ UNCHANGED stripeSide
      /\ events' \subseteq events /\ subs' = subs /\ budget' = budget
      /\ TypeInv /\ StripeInv /\ DownInv /\ RowInv
  BY DEF DownCredit, PaidInv
<1>2. /\ down.sub \in DOMAIN subs /\ subs[down.sub].of = None
      /\ \A i \in down.todo : i \in DOMAIN subs /\ subs[i].of # None
  BY <1>1 DEF DownInv
<1>3. wallet \in Wallet /\ down.sub \in Nat /\ subs[down.sub].plan \in Plans
  BY <1>1, <1>2, RowOwner DEF TypeInv, Down, SubRow
<1>4. /\ wallet' \in Wallet /\ wallet'.sub = down.sub /\ wallet'.base = subs[down.sub].plan
  BY <1>1, <1>3, MoveAndReset
<1>6. WalletOk /\ PaidOk
  BY <1>1, <1>2, <1>4 DEF WalletOk, Moves, Sold, PaidOk, Assigned
<1>7. DownOk
  BY <1>1, <1>2, DownLists, DownEnds
<1> QED
  BY <1>1, <1>6, <1>7, StripeStays, RowsStay, BudgetStays, DownMoves

LEMMA DownDiesOk ==
  ASSUME PaidInv, DownDies
  PROVE  StepOk
<1>1. /\ down' = NoDown /\ Starts("death")
      /\ UNCHANGED <<mirror, record, hook, check, renew>> /\ UNCHANGED stripeSide
      /\ events' \subseteq events /\ subs' = subs /\ wallet' = wallet
      /\ TypeInv /\ StripeInv
  BY DEF DownDies, PaidInv
<1>2. DownOk /\ StripeOk /\ RowsOk /\ BudgetOk
  BY <1>1, DownEnds, StripeStays, RowsStay, StartsOk
<1>3. WalletOk /\ PaidOk
  BY <1>1, <1>2, WalletStays
<1> QED
  BY <1>1, <1>2, <1>3, DownMoves

-----------------------------------------------------------------------------
(* The user and the administrator *)

LEMMA SetRenewalOk ==
  ASSUME PaidInv, NEW i \in DOMAIN subs, NEW keep \in BOOLEAN, SetRenewal(i, keep)
  PROVE  StepOk
<1> DEFINE r == subs[i].of
           x == [subs[i] EXCEPT !.renews = keep, !.overdue = FALSE]
<1>1. /\ Starts("renewal") /\ UNCHANGED <<paid, reported, old, mirror, wallet, record, hook, tasks>>
      /\ IF r = None THEN UNCHANGED <<remote, events>>
         ELSE remote' = [remote EXCEPT ![r].ending = ~keep] /\ Emit({"updated"}, r)
      /\ subs' = [subs EXCEPT ![i].renews = keep, ![i].overdue = FALSE]
      /\ TypeInv /\ StripeInv /\ RowInv
  BY DEF SetRenewal, PaidInv
<1>2. mirror' = mirror /\ wallet' = wallet /\ record' = record /\ hook' = hook
      /\ check' = check /\ down' = down /\ renew' = renew
  BY <1>1 DEF tasks
<1>3. x \in SubRow /\ SameRow(subs[i], x) /\ subs' = [subs EXCEPT ![i] = x]
  BY <1>1, RowOwner, OverdueRow
<1> HIDE DEF x
<1>4. RowsOk
  BY <1>1, <1>3, OneFollows
<1>5. StripeOk /\ Grows
  <2>1. CASE r = None
    <3>1. UNCHANGED stripeSide /\ events' \subseteq events
      BY <1>1, <2>1 DEF stripeSide
    <3> QED
      BY <1>1, <3>1, StripeStays DEF StripeOk
  <2>2. CASE r # None
    <3>1. r \in Remotes /\ remote[r] # None
      BY <1>1, <2>2, RowOwner DEF RowInv
    <3> HIDE DEF r
    <3>2. (~keep) \in BOOLEAN
      OBVIOUS
    <3>3. /\ remote' = [remote EXCEPT ![r].ending = ~keep] /\ Emit({"updated"}, r)
          /\ UNCHANGED <<paid, reported, old>>
      BY <1>1, <2>2
    <3>4. \E c : Turn(r, c)
      BY <1>1, <3>1, <3>2, <3>3, EndingTurn
    <3> QED
      BY <1>1, <3>4, TurnOk DEF StripeOk
  <2> QED
    BY <2>1, <2>2
<1>6. MirrorOk /\ HookOk /\ BudgetOk
  BY <1>1, <1>2, StartsOk DEF MirrorOk, HookOk
<1>7. WalletOk /\ PaidOk /\ CheckOk /\ DownOk
  BY <1>2, <1>4, <1>5, <1>6, WalletStays, CheckStays, DownStays
<1> QED
  BY <1>1, <1>2, <1>4, <1>5, <1>6, <1>7 DEF StepOk, RecordOk, TypeInv

(* A wallet that is reset for a row of the platform.                         *)
LEMMA WalletOfPlatform ==
  ASSUME wallet' \in Wallet, wallet'.sub \in DOMAIN subs',
         wallet'.base = subs'[wallet'.sub].plan, subs'[wallet'.sub].of = None
  PROVE  WalletOk /\ PaidOk
BY DEF WalletOk, Moves, Sold, PaidOk, Assigned

(* A step of the administrator.                                              *)
LEMMA AdminMoves ==
  ASSUME PaidInv, UNCHANGED <<stripeSide, events, mirror, record, hook, tasks>>,
         RowsOk, WalletOk, PaidOk, BudgetOk
  PROVE  StepOk
<1>1. /\ TypeInv /\ UNCHANGED <<stripeSide, tasks>> /\ events' \subseteq events
      /\ mirror' = mirror /\ record' = record /\ hook' = hook
  BY DEF PaidInv
<1> QED
  BY <1>1, QuietStep DEF MirrorOk, HookOk, RecordOk, TypeInv

LEMMA SwitchPlanOk ==
  ASSUME PaidInv, StripeOk, NEW p \in Plans, SwitchPlan(p)
  PROVE  RowsOk /\ WalletOk /\ PaidOk
<1> DEFINE holding == HoldingRows(subs)
           i == Newest(holding)
           x == [FreeSub EXCEPT !.plan = p]
           n == Len(subs) + 1
<1>1. TypeInv /\ subs \in Seq(SubRow) /\ Len(subs) \in Nat /\ DOMAIN subs = 1 .. Len(subs)
      /\ wallet \in Wallet
  BY DEF PaidInv, TypeInv
<1>2. /\ x \in SubRow /\ x.of = None /\ x.status = "active"
  BY PlatformRow
<1> HIDE DEF x
<1>3. \/ /\ holding # {} /\ subs[i].of = None
         /\ subs' = CancelRows(subs, holding \ {i})
         /\ wallet' = ResetCredits([wallet EXCEPT !.sub = i], subs')
      \/ /\ subs' = Append(CancelRows(subs, holding), x)
         /\ wallet' = ResetCredits([wallet EXCEPT !.sub = Len(subs')], subs')
  BY DEF SwitchPlan, x
<1>4. holding \subseteq DOMAIN subs
  BY DEF HoldingRows
<1>5. holding # {} => i \in DOMAIN subs
  BY <1>1, <1>4, NewestListed
<1> HIDE DEF i, holding
<1>6. CASE /\ holding # {} /\ subs[i].of = None
           /\ subs' = CancelRows(subs, holding \ {i})
           /\ wallet' = ResetCredits([wallet EXCEPT !.sub = i], subs')
  <2>1. RowsOk /\ Follows(subs, subs')
    BY <1>1, <1>6, CancelOk, CancelFollows
  <2>2. i \in DOMAIN subs' /\ subs'[i].of = None /\ subs'[i] \in SubRow /\ i \in Nat
    <3>1. i \in DOMAIN subs /\ i \in Nat
      BY <1>1, <1>5, <1>6
    <3>2. subs' \in Seq(SubRow) /\ Len(subs') = Len(subs) /\ SameRow(subs[i], subs'[i])
      BY <2>1, <3>1 DEF Follows
    <3>3. i \in DOMAIN subs' /\ subs'[i] \in SubRow
      BY <1>1, <3>1, <3>2
    <3> QED
      BY <1>6, <3>1, <3>2, <3>3 DEF SameRow
  <2>3. subs'[i].plan \in Plans
    BY <2>2 DEF SubRow
  <2>4. wallet' \in Wallet /\ wallet'.sub = i /\ wallet'.base = subs'[i].plan
    BY <1>1, <1>6, <2>2, <2>3, MoveAndReset
  <2> QED
    BY <2>1, <2>2, <2>4, WalletOfPlatform
<1>7. CASE /\ subs' = Append(CancelRows(subs, holding), x)
           /\ wallet' = ResetCredits([wallet EXCEPT !.sub = Len(subs')], subs')
  <2>1. Follows(subs, CancelRows(subs, holding))
    BY <1>1, CancelFollows
  <2>2. /\ subs' \in Seq(SubRow) /\ Len(subs') = n /\ subs'[n] = x
    BY <1>1, <1>2, <1>7, <2>1, FollowsAppend
  <2>3. Added(subs, subs')
    BY <1>1, <1>2, <1>7, <2>1, AppendAdds
  <2>4. RowsOk
    BY <2>3 DEF RowsOk
  <2>5. n \in Nat /\ n \in DOMAIN subs' /\ Len(subs') = n
    BY <1>1, <2>2
  <2> HIDE DEF n
  <2>6. subs'[n].of = None /\ subs'[n].plan \in Plans
    BY <1>2, <2>2 DEF SubRow
  <2>7. wallet' = ResetCredits([wallet EXCEPT !.sub = n], subs')
    BY <1>7, <2>5
  <2>8. wallet' \in Wallet /\ wallet'.sub = n /\ wallet'.base = subs'[n].plan
    BY <1>1, <2>5, <2>6, <2>7, MoveAndReset
  <2> QED
    BY <2>4, <2>5, <2>6, <2>8, WalletOfPlatform
<1> QED
  BY <1>3, <1>6, <1>7

LEMMA AdminAssignsOk ==
  ASSUME PaidInv, NEW p \in Plans, AdminAssigns(p)
  PROVE  StepOk
<1>1. /\ Starts("admin") /\ SwitchPlan(p) /\ TypeInv /\ StripeInv
      /\ UNCHANGED <<stripeSide, events, mirror, record, hook, tasks>>
      /\ UNCHANGED stripeSide /\ events' \subseteq events
  BY DEF AdminAssigns, PaidInv
<1>2. StripeOk
  BY <1>1, StripeStays
<1> QED
  BY <1>1, <1>2, SwitchPlanOk, StartsOk, AdminMoves

LEMMA CommandAssignsOk ==
  ASSUME PaidInv, NEW p \in Platform, CommandAssigns(p)
  PROVE  StepOk
<1> DEFINE I == {Newest(ActiveRows(subs))}
           x == [FreeSub EXCEPT !.plan = p]
           n == Len(subs) + 1
<1>1. /\ subs' = Append(CancelRows(subs, I), x)
      /\ wallet' = ResetCredits([wallet EXCEPT !.sub = Len(subs')], subs')
      /\ Starts("command") /\ TypeInv /\ StripeInv
      /\ UNCHANGED <<stripeSide, events, mirror, record, hook, tasks>>
      /\ UNCHANGED stripeSide /\ events' \subseteq events
  BY DEF CommandAssigns, PaidInv
<1>2. StripeOk
  BY <1>1, StripeStays
<1>3. subs \in Seq(SubRow) /\ Len(subs) \in Nat /\ wallet \in Wallet
  BY <1>1 DEF TypeInv
<1>4. /\ x \in SubRow /\ x.of = None /\ x.status = "active"
  BY PlatformRow DEF Plans
<1> HIDE DEF x, I
<1>5. Follows(subs, CancelRows(subs, I))
  BY <1>3, CancelFollows
<1>6. subs' \in Seq(SubRow) /\ Len(subs') = n /\ subs'[n] = x
  BY <1>1, <1>3, <1>4, <1>5, FollowsAppend
<1>7. RowsOk
  BY <1>1, <1>3, <1>4, <1>5, AppendAdds DEF RowsOk
<1>8. n \in Nat /\ n \in DOMAIN subs' /\ Len(subs') = n
  BY <1>3, <1>6
<1> HIDE DEF n
<1>9. subs'[n].of = None /\ subs'[n].plan \in Plans
  BY <1>4, <1>6 DEF SubRow
<1>10. wallet' = ResetCredits([wallet EXCEPT !.sub = n], subs')
  BY <1>1, <1>8
<1>11. wallet' \in Wallet /\ wallet'.sub = n /\ wallet'.base = subs'[n].plan
  BY <1>3, <1>8, <1>9, <1>10, MoveAndReset
<1>12. WalletOk /\ PaidOk
  BY <1>8, <1>9, <1>11, WalletOfPlatform
<1> QED
  BY <1>1, <1>7, <1>12, StartsOk, AdminMoves

LEMMA AdminSyncsOk ==
  ASSUME PaidInv, AdminSyncs
  PROVE  StepOk
<1>1. /\ Starts("sync") /\ Pick # None /\ mirror' = [mirror EXCEPT ![Pick] = remote[Pick]]
      /\ Sync(Pick, remote[Pick]) /\ record' = record /\ hook' = hook
      /\ UNCHANGED <<stripeSide, tasks>> /\ events' \subseteq events /\ UNCHANGED stripeSide
      /\ TypeInv
  BY DEF AdminSyncs, PaidInv
<1> DEFINE r == Pick
<1>2. r \in Remotes /\ remote[r] # None
  BY <1>1, PickIsKnown
<1>3. Fine(r, remote[r])
  BY <1>2, FineNow
<1>4. mirror' = [mirror EXCEPT ![r] = remote[r]] /\ Sync(r, remote[r])
  BY <1>1
<1> HIDE DEF r
<1>5. RowsOk /\ WalletOk /\ PaidOk
  BY <1>1, <1>3, <1>4, SyncOk
<1>6. MirrorOk /\ HookOk /\ BudgetOk /\ RecordOk
  BY <1>1, <1>3, <1>4, StartsOk DEF MirrorOk, HookOk, RecordOk, TypeInv
<1> QED
  BY <1>1, <1>5, <1>6, QuietStep

-----------------------------------------------------------------------------
(* The theorem *)

LEMMA PaidInit ==
  ASSUME Init
  PROVE  PaidInv
<1>1. "free" \in Plans /\ 0 \in Periods
  BY SubscriptionsAssumption DEF Plans, Platform, Periods
<1>2. /\ FreeSub \in SubRow /\ FreeSub.of = None /\ FreeSub.status = "active"
      /\ FreeSub.plan = "free"
  BY <1>1 DEF FreeSub, SubRow, Statuses
<1>3. /\ subs = <<FreeSub>> /\ subs \in Seq(SubRow) /\ Len(subs) = 1 /\ DOMAIN subs = {1}
      /\ subs[1] = FreeSub
  BY <1>2 DEF Init
<1> HIDE DEF FreeSub
<1>4. wallet \in Wallet /\ wallet.sub = 1
  BY DEF Init, Wallet, Plans, Platform
<1>5. budget \in [DOMAIN budget -> Nat]
  BY SubscriptionsAssumption DEF Init
<1>6. check \in Check /\ check.pc = "idle" /\ down \in Down /\ down.pc = "idle" /\ down.todo = {}
  BY DEF Init, NoCheck, NoDown, Check, Down
<1>7. TypeInv
  BY <1>3, <1>4, <1>5, <1>6 DEF TypeInv, Init
<1>8. RowInv
  BY <1>2, <1>3, SubscriptionsAssumption DEF RowInv, Platform
<1>9. StripeInv
  BY DEF StripeInv, Init, Once
<1>10. MirrorInv
  BY DEF MirrorInv, Init
<1>11. CheckInv /\ DownInv
  BY <1>6 DEF CheckInv, DownInv
<1> QED
  BY <1>7, <1>8, <1>9, <1>10, <1>11 DEF PaidInv

LEMMA PaidNext ==
  ASSUME PaidInv, Next
  PROVE  StepOk
<1>1. ASSUME NEW h \in Hooks, HookStep(h) PROVE StepOk
  BY <1>1, HookMirrorOk, HookSyncOk, HookDeletedOk, HookPaidOk, HookFailedOk DEF HookStep
<1>2. CASE CheckStep \/ CheckDies \/ Backfill
  BY <1>2, CheckTargetOk, CheckSyncOk, CheckLookOk, CheckOthersOk, CheckSaveOk, CheckResetOk,
     CheckDiesOk, BackfillOk DEF CheckStep
<1>3. CASE DownStep \/ DownDies
  BY <1>3, DownListOk, DownCancelOk, DownRowOk, DownCreateOk, DownCreditOk, DownDiesOk DEF DownStep
<1>4. CASE RenewStep \/ CreditsExpire
  BY <1>4, RenewListOk, RenewResetOk, CreditsExpireOk DEF RenewStep
<1>5. CASE StripeStep
  BY <1>5, InvoicePaidOk, PeriodEndsOk, RemoteEndsOk, LoseEventOk, AgesOk DEF StripeStep
<1>6. CASE UserStep
  BY <1>6, CheckoutOk, SetRenewalOk, ScheduleDowngradeOk, AdminAssignsOk, CommandAssignsOk,
     AdminSyncsOk DEF UserStep
<1>7. ASSUME NEW i \in DOMAIN subs, Grace(i) PROVE StepOk
  BY <1>7, GraceOk
<1> QED
  BY <1>1, <1>2, <1>3, <1>4, <1>5, <1>6, <1>7 DEF Next

LEMMA PaidStutter ==
  ASSUME PaidInv, UNCHANGED vars
  PROVE  PaidInv'
<1>1. /\ UNCHANGED <<stripeSide, tasks>> /\ UNCHANGED <<remote, paid, reported, old, events>>
      /\ UNCHANGED <<mirror, subs, wallet, record, hook, check, down, renew, budget>>
  BY DEF vars, stripeSide, tasks
<1>2. TypeInv'
  BY <1>1 DEF PaidInv, TypeInv
<1>3. Charged' = Charged /\ Fitting' = Fitting
  BY <1>1 DEF Charged, Fitting, Once
<1>4. RowInv' /\ StripeInv' /\ DownInv'
  BY <1>1, <1>3 DEF PaidInv, RowInv, StripeInv, DownInv, Once
<1>5. MirrorInv' /\ CheckInv'
  BY <1>1, <1>3 DEF PaidInv, MirrorInv, CheckInv, Fine, Sold
<1> QED
  BY <1>2, <1>4, <1>5 DEF PaidInv

(* Whatever the webhooks, the tasks, the user and the administrator do, the  *)
(* credits of a paid plan come from a subscription that Stripe had as active *)
(* or from a plan that an operator gave, unless the renewal grants them or   *)
(* the payment check puts them back: sync_from_djstripe,                     *)
(* subscription_service.py.                                                  *)
THEOREM PaidIsPaid == Spec => PaidPlanIsPaid
<1>1. Init => PaidInv
  BY PaidInit
<1>2. PaidInv /\ [Next]_vars => PaidInv'
  BY PaidNext, OkStep, PaidStutter
<1>3. PaidInv /\ [Next]_vars =>
        [wallet'.base # wallet.base /\ wallet'.base \in PaidPlans =>
           \/ wallet'.base \in reported \/ Assigned(subs', wallet'.base)
           \/ RenewReset \/ CheckSave]_vars
  BY PaidNext DEF StepOk, PaidOk
<1> QED
  BY <1>1, <1>2, <1>3, PTL DEF Spec, PaidPlanIsPaid

(* The types, and what the rows say of their subscriptions.                  *)
THEOREM SubscriptionsTypes == Spec => [](TypeInv /\ RowInv)
<1>1. Init => PaidInv
  BY PaidInit
<1>2. PaidInv /\ [Next]_vars => PaidInv'
  BY PaidNext, OkStep, PaidStutter
<1>3. PaidInv => TypeInv /\ RowInv
  BY DEF PaidInv
<1> QED
  BY <1>1, <1>2, <1>3, PTL DEF Spec
=============================================================================
