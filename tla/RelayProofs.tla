---------------------------- MODULE RelayProofs ----------------------------
(***************************************************************************)
(* Theorems about the relay, for every number of workers, requests,        *)
(* events, subscriptions and issues, with proofs that the TLA+ proof       *)
(* system checks:                                                          *)
(*                                                                         *)
(*   RelayTypes                 every variable keeps its type;             *)
(*   IssuesStayWithTheirEmail   a delivery records, and an issue links to, *)
(*                              only issues of its subscription and email  *)
(*                              or of merged emails;                       *)
(*   OneIssue                   the idempotency key and the two kinds of   *)
(*                              locks leave a delivery with one issue;     *)
(*   CompletedIsComplete        one worker completes no event of which a   *)
(*                              delivery failed.                           *)
(*                                                                         *)
(* The base invariant BaseInv holds the types and what a worker holds at   *)
(* each label.  The effect lemmas say what each step does to the row and   *)
(* the memory it touches; the invariants Published, Refers, LockInv,       *)
(* LocalInv and FailureInv are proved from them, without looking at the    *)
(* actions again where that can be helped.                                 *)
(***************************************************************************)
EXTENDS Relay, TLAPS, SequenceTheorems, FiniteSetTheorems, WellFoundedInduction

-----------------------------------------------------------------------------
(* The state and what a worker holds *)

Row == [status : {"none", "pending", "processing", "success", "failed"},
        issue : Nat \cup {None}, retry : BOOLEAN]
Mem == [todo : SUBSET Subs, cur : Deliveries \cup {None}, row : Row,
        failed : BOOLEAN, won : BOOLEAN, any : BOOLEAN, action : Actions,
        ref : Nat \cup {None}, links : SUBSET Nat]
EventRow == [status : {"none", "pending", "processing", "completed", "failed"},
             email : Emails \cup {None}, retried : BOOLEAN]

Issue == [of : Deliveries, links : SUBSET Nat, gone : BOOLEAN, away : BOOLEAN]

EventLabels == {"start", "list", "open", "reopen", "abort"}
BothLabels == {"plan", "update", "create", "save", "fail", "release"}
RetryLabels == {"load", "retry", "count", "settle", "failEvent", "failDelivery"}
AtDelivery == {"reopen", "plan", "update", "create", "save", "fail", "retry",
               "failEvent", "failDelivery"}
Labels == {"idle"} \cup EventLabels \cup BothLabels \cup RetryLabels

TypeOK ==
  /\ scene \in Scenes
  /\ sub \in [Subs -> {"enabled", "disabled", "deleted"}]
  /\ event \in [Events -> EventRow]
  /\ delivery \in [Deliveries -> Row]
  /\ order \in Seq(Deliveries)
  /\ issues \in Seq(Issue)
  /\ queue \in [Message -> Nat]
  /\ locks \subseteq Message
  /\ pc \in [Workers -> Labels]
  /\ msg \in [Workers -> Message \cup {None}]
  /\ mem \in [Workers -> Mem]
  /\ client \in [Clients -> [pc : {"idle", "event", "queue"},
                             target : Message \cup {None}]]
  /\ excused \subseteq Deliveries
  /\ budget \in [retries : Nat, faults : Nat, crashes : Nat, edits : Nat]

UnderWay(w) ==
  /\ pc[w] = "idle" <=> msg[w] = None
  /\ msg[w] = None => mem[w].cur = None
  /\ pc[w] \in EventLabels => IsEventTask(msg[w])
  /\ pc[w] \in RetryLabels => ~IsEventTask(msg[w])
  /\ pc[w] \in AtDelivery => mem[w].cur # None
  /\ pc[w] \in {"start", "list", "open", "load", "count", "settle"} => mem[w].cur = None
  /\ mem[w].cur # None => Concerns(msg[w], mem[w].cur)
  /\ pc[w] = "update" => mem[w].ref # None

ClientKnows(c) == client[c].pc # "idle" => client[c].target # None

BaseInv ==
  /\ TypeOK
  /\ \A w \in Workers : UnderWay(w)
  /\ \A c \in Clients : ClientKnows(c)
-----------------------------------------------------------------------------

(* A message names an event or a delivery, and which it is can be told. *)
LEMMA MessageFacts ==
  /\ \A x \in Events : EventTask(x) \in Message /\ IsEventTask(EventTask(x))
                       /\ EventTask(x).event = x
  /\ \A d \in Deliveries : DeliveryTask(d) \in Message /\ ~IsEventTask(DeliveryTask(d))
                           /\ DeliveryTask(d).delivery = d
  /\ \A m \in Message :
       \/ IsEventTask(m) /\ m.event \in Events /\ m = EventTask(m.event)
       \/ ~IsEventTask(m) /\ m.delivery \in Deliveries /\ m = DeliveryTask(m.delivery)
BY DEF Message, EventTask, DeliveryTask, IsEventTask

(* A delivery is an event and a subscription. *)
LEMMA DeliveryFacts ==
  /\ \A d \in Deliveries : d[1] \in Events /\ d[2] \in Subs /\ d = <<d[1], d[2]>>
  /\ \A x \in Events, s \in Subs : <<x, s>> \in Deliveries
BY DEF Deliveries

(* None is nothing else. *)
LEMMA NoneApart == None \notin Emails \cup Message \cup Deliveries \cup Actions \cup Nat
BY RelayAssumption

(* A row with another status and flag is a row. *)
LEMMA RowWith ==
  ASSUME NEW r \in Row, NEW b \in BOOLEAN,
         NEW s \in {"none", "pending", "processing", "success", "failed"}
  PROVE  [r EXCEPT !.status = s, !.retry = b] \in Row
BY DEF Row

(* At first every value has its type and nobody works. *)
LEMMA BaseInit == Init => BaseInv
<1> SUFFICES ASSUME Init PROVE BaseInv
  OBVIOUS
<1>1. TypeOK
  BY RelayAssumption
     DEF Init, TypeOK, NoEvent, NoRow, NoMem, NoClient, EventRow, Row, Mem,
         Actions, Labels
<1>2. ASSUME NEW w \in Workers PROVE UnderWay(w)
  BY DEF Init, UnderWay, NoMem, EventLabels, RetryLabels, AtDelivery
<1>3. \A c \in Clients : ClientKnows(c)
  BY DEF Init, ClientKnows, NoClient
<1> QED BY <1>1, <1>2, <1>3 DEF BaseInv

(* Places in a sequence have a last one. *)
LEMMA LastPlace ==
  ASSUME NEW n \in Nat, NEW S \in SUBSET (1..n), S # {}
  PROVE  Max(S) \in S
<1> DEFINE T == {n - k : k \in S}
           R == OpToRel(<, Nat)
<1>1. T \subseteq Nat
  OBVIOUS
<1>0. T # {}
  OBVIOUS
<1>2. PICK x \in T : \A y \in T : ~ (<<y, x>> \in R)
  <2>1. IsWellFoundedOn(R, Nat)
    BY NatLessThanWellFounded
  <2> HIDE DEF T, R
  <2> QED BY <1>1, <1>0, <2>1, WFMin
<1>3. \A y \in T : ~ (y < x)
  <2> SUFFICES ASSUME NEW y \in T, y < x PROVE FALSE
    OBVIOUS
  <2>1. <<y, x>> \in Nat \X Nat
    BY <1>1
  <2>2. <<y, x>> \in R
    BY <2>1 DEF OpToRel
  <2> QED BY <1>2, <2>2
<1>4. PICK k \in S : x = n - k
  OBVIOUS
<1>5. \A j \in S : k >= j
  <2> SUFFICES ASSUME NEW j \in S PROVE k >= j
    OBVIOUS
  <2>1. n - j \in T
    OBVIOUS
  <2>2. ~ (n - j < n - k)
    BY <1>3, <1>4, <2>1
  <2>3. j \in Nat /\ k \in Nat
    OBVIOUS
  <2> HIDE DEF T, R
  <2> QED BY <2>2, <2>3
<1> QED BY <1>5 DEF Max

(* A place of a sequence holds one of its elements. *)
LEMMA SeqElement ==
  ASSUME NEW S, NEW q \in Seq(S), NEW i \in DOMAIN q
  PROVE  q[i] \in S /\ i \in 1..Len(q)
BY ElementOfSeq, LenProperties

(* A workflow that completes has an email. *)
LEMMA RunFacts ==
  ASSUME BaseInv, NEW x \in DOMAIN scene.runs
  PROVE  scene.runs[x].email \in Emails /\ scene.runs[x].retried \in BOOLEAN
<1>1. scene.runs \in Seq([email : Emails, retried : BOOLEAN])
  BY RelayAssumption DEF BaseInv, TypeOK
<1>2. scene.runs[x] \in [email : Emails, retried : BOOLEAN]
  BY <1>1, SeqElement
<1> QED BY <1>2

(* What a worker holds where it is. *)
LEMMA AtWork ==
  ASSUME BaseInv, NEW w \in Workers
  PROVE  /\ mem[w] \in Mem /\ mem[w].row \in Row
         /\ pc[w] \in Labels /\ msg[w] \in Message \cup {None}
         /\ pc[w] # "idle" => msg[w] \in Message
         /\ pc[w] \in {"start", "list", "open", "reopen", "abort"} =>
              IsEventTask(msg[w]) /\ msg[w].event \in Events
         /\ pc[w] \in {"load", "retry", "count", "settle", "failEvent", "failDelivery"} =>
              ~IsEventTask(msg[w]) /\ msg[w].delivery \in Deliveries
              /\ msg[w].delivery[1] \in Events
         /\ pc[w] \in {"reopen", "plan", "update", "create", "save", "fail", "retry",
                      "failEvent", "failDelivery"} => mem[w].cur \in Deliveries
         /\ pc[w] = "update" => mem[w].ref \in Nat
<1>1. /\ mem[w] \in Mem /\ pc[w] \in Labels /\ msg[w] \in Message \cup {None}
      /\ UnderWay(w)
  BY DEF BaseInv, TypeOK
<1>2. mem[w].row \in Row /\ mem[w].cur \in Deliveries \cup {None}
      /\ mem[w].ref \in Nat \cup {None}
  BY <1>1 DEF Mem
<1>3. pc[w] # "idle" => msg[w] \in Message
  BY <1>1 DEF UnderWay
<1>4. /\ pc[w] \in EventLabels => IsEventTask(msg[w])
      /\ pc[w] \in RetryLabels => ~IsEventTask(msg[w])
      /\ pc[w] \in AtDelivery => mem[w].cur \in Deliveries
      /\ pc[w] = "update" => mem[w].ref \in Nat
  BY <1>1, <1>2 DEF UnderWay
<1>5. /\ pc[w] \in EventLabels => msg[w].event \in Events
      /\ pc[w] \in RetryLabels =>
           msg[w].delivery \in Deliveries /\ msg[w].delivery[1] \in Events
  BY <1>3, <1>4, MessageFacts, DeliveryFacts DEF EventLabels, RetryLabels
<1> QED BY <1>1, <1>2, <1>3, <1>4, <1>5 DEF EventLabels, RetryLabels, AtDelivery

(* The empty memory and the empty row have their types. *)
LEMMA NoMemType == NoMem \in Mem /\ NoRow \in Row /\ NoMem.cur = None
BY RelayAssumption DEF NoMem, NoRow, Mem, Row, Actions

(* _latest_successful_delivery finds an issue that a delivery of the         *)
(* subscription and the email records.                                       *)
LEMMA LatestIsStored ==
  ASSUME BaseInv, NEW s, NEW e, LatestIssue(s, e) # None
  PROVE  \E d \in Deliveries :
           /\ d[2] = s /\ EmailOf(d[1]) = e
           /\ delivery[d].issue # None /\ delivery[d].issue = LatestIssue(s, e)
<1> DEFINE found == {k \in Successes(s) : EmailOf(order[k][1]) = e}
           k == Max(found)
<1>1. found # {} /\ LatestIssue(s, e) = delivery[order[k]].issue
  BY DEF LatestIssue, LatestOf
<1>2. /\ Len(order) \in Nat /\ DOMAIN order = 1..Len(order)
      /\ \A j \in DOMAIN order : order[j] \in Deliveries
  BY DEF BaseInv, TypeOK
<1>3. found \in SUBSET (1..Len(order))
  BY <1>2 DEF Successes
<1>4. k \in found
  <2> HIDE DEF found
  <2> QED BY <1>1, <1>2, <1>3, LastPlace
<1>5. /\ k \in DOMAIN order /\ order[k][2] = s /\ EmailOf(order[k][1]) = e
      /\ delivery[order[k]].issue # None
  BY <1>4 DEF Successes
<1> HIDE DEF k
<1> QED BY <1>1, <1>2, <1>5

(* _collect_related_issue_references finds issues that deliveries of the     *)
(* subscription and the cluster record.                                      *)
LEMMA RelatedAreStored ==
  ASSUME NEW s, NEW e, NEW i \in RelatedIssues(s, e)
  PROVE  /\ i # None
         /\ \E d \in Deliveries : /\ d[2] = s /\ EmailOf(d[1]) \in ClusterOf(e)
                                  /\ delivery[d].issue = i
BY DEF RelatedIssues

(* The strategies name an action. *)
LEMMA WantedType ==
  ASSUME NEW d \in Deliveries, NEW row, NEW ref, NEW related
  PROVE  WantedAction(d, row, ref, related) \in Actions
<1>1. d[2] \in Subs
  BY DeliveryFacts
<1>2. /\ Policy[d[2]].explicit \in Actions \cup {None}
  BY <1>1, RelayAssumption
<1> QED BY <1>2 DEF WantedAction, Actions

(* resolve_delivery_plan: where its reference and its links come from, and   *)
(* that an update has a reference.                                           *)
LEMMA PlanFacts ==
  ASSUME BaseInv, NEW d \in Deliveries, NEW row \in Row
  PROVE  LET plan == PlanFor(d, row)
             e == EmailOf(d[1]) IN
         /\ plan.action \in Actions
         /\ plan.ref = IF row.issue # None THEN row.issue
                       ELSE LatestIssue(d[2], e)
         /\ plan.links \in SUBSET RelatedIssues(d[2], e)
         /\ plan.action = "update" => plan.ref # None
<1> DEFINE e == EmailOf(d[1])
           ref == IF row.issue # None THEN row.issue ELSE LatestIssue(d[2], e)
           related == RelatedIssues(d[2], e)
           wanted == WantedAction(d, row, ref, related)
<1>1. wanted \in Actions
  BY WantedType
<1> DEFINE action == IF \/ wanted = "update" /\ ref = None
                        \/ wanted = "new_and_link" /\ related = {}
                     THEN "new" ELSE wanted
           links == IF wanted = "new_and_link" THEN related ELSE {}
<1>2. PlanFor(d, row) = [action |-> action, ref |-> ref, links |-> links]
  BY DEF PlanFor
<1> HIDE DEF wanted, ref, related
<1>3. /\ PlanFor(d, row).action \in Actions
      /\ PlanFor(d, row).ref = ref
      /\ PlanFor(d, row).links \in SUBSET related
      /\ PlanFor(d, row).action = "update" => PlanFor(d, row).ref # None
  <2>1. action \in Actions /\ (action = "update" => ref # None)
    BY <1>1 DEF Actions
  <2>2. links \in SUBSET related
    OBVIOUS
  <2> HIDE DEF action, links
  <2> QED BY <1>2, <2>1, <2>2 DEF action, links
<1> QED BY <1>3 DEF ref, related

(* The plan has its type. *)
LEMMA PlanTypes ==
  ASSUME BaseInv, NEW d \in Deliveries, NEW row \in Row
  PROVE  LET plan == PlanFor(d, row) IN
         /\ plan.action \in Actions
         /\ plan.ref \in Nat \cup {None}
         /\ plan.links \in SUBSET Nat
         /\ plan.action = "update" => plan.ref # None
<1> DEFINE e == EmailOf(d[1])
<1>0. \A c \in Deliveries : delivery[c].issue \in Nat \cup {None}
  BY DEF BaseInv, TypeOK, Row
<1>1. LatestIssue(d[2], e) \in Nat \cup {None}
  BY <1>0, LatestIsStored
<1>2. RelatedIssues(d[2], e) \in SUBSET Nat
  BY <1>0, RelatedAreStored
<1>3. row.issue \in Nat \cup {None}
  BY DEF Row
<1> QED BY <1>1, <1>2, <1>3, PlanFacts

(* StartEvent keeps the base invariant. *)
LEMMA BaseStartEvent ==
  ASSUME BaseInv, NEW w \in Workers, StartEvent(w)
  PROVE  BaseInv'
<1>0. msg[w].event \in Events
  BY AtWork, NoMemType DEF StartEvent, Mem, Row
<1>a. event \in [Events -> EventRow] /\ pc \in [Workers -> Labels]
  BY DEF BaseInv, TypeOK
<1>1. event' \in [Events -> EventRow]
  BY <1>0, <1>a DEF StartEvent, SetEvent, EventRow, EventVerdict
<1>2. pc' \in [Workers -> Labels]
  BY <1>0, <1>a
     DEF StartEvent, Goto, Labels, EventLabels, RetryLabels, BothLabels
<1>3. TypeOK'
  BY <1>1, <1>2
     DEF BaseInv, TypeOK, StartEvent, rows, worker, others, SetEvent, Goto
<1>4. ASSUME NEW v \in Workers PROVE UnderWay(v)'
  BY AtWork, NoMemType, NoneApart
     DEF BaseInv, TypeOK, UnderWay, StartEvent, rows, worker, others, Goto,
         Concerns, EventLabels, RetryLabels, AtDelivery, Mem
<1>5. \A c \in Clients : ClientKnows(c)'
  BY DEF BaseInv, ClientKnows, StartEvent, others
<1> QED BY <1>3, <1>4, <1>5 DEF BaseInv

(* ListSubscriptions keeps the base invariant. *)
LEMMA BaseListSubscriptions ==
  ASSUME BaseInv, NEW w \in Workers, ListSubscriptions(w)
  PROVE  BaseInv'
<1>0. mem[w] \in Mem
  BY AtWork, NoMemType DEF ListSubscriptions, Mem, Row
<1>a. mem \in [Workers -> Mem] /\ pc \in [Workers -> Labels]
  BY DEF BaseInv, TypeOK
<1>1. mem' \in [Workers -> Mem]
  <2> DEFINE S == {s \in Subs : sub[s] = "enabled"}
  <2>1. PICK b \in BOOLEAN : b = (S # {})
    OBVIOUS
  <2> DEFINE m == [mem[w] EXCEPT !.todo = S, !.any = b]
  <2>2. m \in Mem
    BY <1>0, <1>a, <2>1 DEF Mem
  <2>3. mem' = [mem EXCEPT ![w] = m] \/ mem' = mem
    BY <2>1 DEF ListSubscriptions
  <2> HIDE DEF m
  <2> QED BY <1>a, <2>2, <2>3
<1>2. pc' \in [Workers -> Labels]
  BY <1>0, <1>a
     DEF ListSubscriptions, Goto, Labels, EventLabels, RetryLabels, BothLabels
<1>3. TypeOK'
  BY <1>1, <1>2
     DEF BaseInv, TypeOK, ListSubscriptions, rows, worker, others, SetEvent,
         Goto
<1>4. ASSUME NEW v \in Workers PROVE UnderWay(v)'
  BY AtWork, NoMemType, NoneApart
     DEF BaseInv, TypeOK, UnderWay, ListSubscriptions, rows, worker, others,
         Goto, Concerns, EventLabels, RetryLabels, AtDelivery, Mem
<1>5. \A c \in Clients : ClientKnows(c)'
  BY DEF BaseInv, ClientKnows, ListSubscriptions, others
<1> QED BY <1>3, <1>4, <1>5 DEF BaseInv

(* ReopenDelivery keeps the base invariant. *)
LEMMA BaseReopenDelivery ==
  ASSUME BaseInv, NEW w \in Workers, ReopenDelivery(w)
  PROVE  BaseInv'
<1>0. mem[w].cur \in Deliveries
  BY AtWork, NoMemType DEF ReopenDelivery, Mem, Row
<1>a. delivery \in [Deliveries -> Row] /\ pc \in [Workers -> Labels]
  BY DEF BaseInv, TypeOK
<1>1. delivery' \in [Deliveries -> Row]
  BY <1>0, <1>a DEF ReopenDelivery, Row
<1>2. pc' \in [Workers -> Labels]
  BY <1>0, <1>a
     DEF ReopenDelivery, Goto, Labels, EventLabels, RetryLabels, BothLabels
<1>3. TypeOK'
  BY <1>1, <1>2
     DEF BaseInv, TypeOK, ReopenDelivery, rows, worker, others, SetEvent, Goto
<1>4. ASSUME NEW v \in Workers PROVE UnderWay(v)'
  BY AtWork, NoMemType, NoneApart
     DEF BaseInv, TypeOK, UnderWay, ReopenDelivery, rows, worker, others,
         Goto, Concerns, EventLabels, RetryLabels, AtDelivery, Mem
<1>5. \A c \in Clients : ClientKnows(c)'
  BY DEF BaseInv, ClientKnows, ReopenDelivery, others
<1> QED BY <1>3, <1>4, <1>5 DEF BaseInv

(* FinishEvent keeps the base invariant. *)
LEMMA BaseFinishEvent ==
  ASSUME BaseInv, NEW w \in Workers, FinishEvent(w)
  PROVE  BaseInv'
<1>0. msg[w].event \in Events
  BY AtWork, NoMemType DEF FinishEvent, Mem, Row
<1>a. event \in [Events -> EventRow] /\ pc \in [Workers -> Labels]
  BY DEF BaseInv, TypeOK
<1>1. event' \in [Events -> EventRow]
  BY <1>0, <1>a DEF FinishEvent, SetEvent, EventRow, EventVerdict
<1>2. pc' \in [Workers -> Labels]
  BY <1>0, <1>a
     DEF FinishEvent, Goto, Labels, EventLabels, RetryLabels, BothLabels
<1>3. TypeOK'
  BY <1>1, <1>2
     DEF BaseInv, TypeOK, FinishEvent, rows, worker, others, SetEvent, Goto
<1>4. ASSUME NEW v \in Workers PROVE UnderWay(v)'
  BY AtWork, NoMemType, NoneApart
     DEF BaseInv, TypeOK, UnderWay, FinishEvent, rows, worker, others, Goto,
         Concerns, EventLabels, RetryLabels, AtDelivery, Mem
<1>5. \A c \in Clients : ClientKnows(c)'
  BY DEF BaseInv, ClientKnows, FinishEvent, others
<1> QED BY <1>3, <1>4, <1>5 DEF BaseInv

(* AbortEvent keeps the base invariant. *)
LEMMA BaseAbortEvent ==
  ASSUME BaseInv, NEW w \in Workers, AbortEvent(w)
  PROVE  BaseInv'
<1>0. msg[w].event \in Events
  BY AtWork, NoMemType DEF AbortEvent, Mem, Row
<1>a. event \in [Events -> EventRow] /\ pc \in [Workers -> Labels]
  BY DEF BaseInv, TypeOK
<1>1. event' \in [Events -> EventRow]
  BY <1>0, <1>a DEF AbortEvent, SetEvent, EventRow, EventVerdict
<1>2. pc' \in [Workers -> Labels]
  BY <1>0, <1>a
     DEF AbortEvent, Goto, Labels, EventLabels, RetryLabels, BothLabels
<1>3. TypeOK'
  BY <1>1, <1>2
     DEF BaseInv, TypeOK, AbortEvent, rows, worker, others, SetEvent, Goto
<1>4. ASSUME NEW v \in Workers PROVE UnderWay(v)'
  BY AtWork, NoMemType, NoneApart
     DEF BaseInv, TypeOK, UnderWay, AbortEvent, rows, worker, others, Goto,
         Concerns, EventLabels, RetryLabels, AtDelivery, Mem
<1>5. \A c \in Clients : ClientKnows(c)'
  BY DEF BaseInv, ClientKnows, AbortEvent, others
<1> QED BY <1>3, <1>4, <1>5 DEF BaseInv

(* PlanDelivery keeps the base invariant. *)
LEMMA BasePlanDelivery ==
  ASSUME BaseInv, NEW w \in Workers, PlanDelivery(w)
  PROVE  BaseInv'
<1>0. mem[w].cur \in Deliveries
  BY AtWork, NoMemType DEF PlanDelivery, Mem, Row
<1>a. /\ delivery \in [Deliveries -> Row]
      /\ mem \in [Workers -> Mem]
      /\ pc \in [Workers -> Labels]
  BY DEF BaseInv, TypeOK
<1> DEFINE d == mem[w].cur
           plan == PlanFor(d, mem[w].row)
           adopted == IF plan.action = "update" /\ mem[w].row.issue = None
                      THEN plan.ref ELSE mem[w].row.issue
           r == [mem[w].row EXCEPT !.status = "processing", !.issue = adopted]
           m == [mem[w] EXCEPT !.row = r, !.action = plan.action,
                               !.ref = plan.ref, !.links = plan.links]
<1>b. mem[w].row \in Row
  BY <1>a DEF Mem
<1>c. /\ plan.action \in Actions /\ plan.ref \in Nat \cup {None}
      /\ plan.links \in SUBSET Nat
      /\ plan.action = "update" => plan.ref # None
  BY <1>0, <1>b, PlanTypes
<1>d. r \in Row
  <2> HIDE DEF plan
  <2> QED BY <1>b, <1>c DEF Row
<1>e. m \in Mem
  <2> HIDE DEF plan, r
  <2> QED BY <1>a, <1>c, <1>d DEF Mem
<1>f. \/ /\ delivery' = [delivery EXCEPT ![d] = r] 
         /\ mem' = [mem EXCEPT ![w] = m]
         /\ Goto(w, IF plan.action = "update" THEN "update" ELSE "create")
      \/ delivery' = delivery /\ mem' = mem /\ Goto(w, "fail")
  BY DEF PlanDelivery
<1>g. m.cur = d /\ m.ref = plan.ref
  <2> DEFINE act == plan.action
             ref == plan.ref
             links == plan.links
  <2>1. m = [mem[w] EXCEPT !.row = r, !.action = act, !.ref = ref, !.links = links]
    OBVIOUS
  <2> HIDE DEF m, plan, r, act, ref, links
  <2>2. m.cur = mem[w].cur /\ m.ref = ref
    BY <1>a, <2>1 DEF Mem
  <2> QED BY <2>2 DEF ref
<1>1. delivery' \in [Deliveries -> Row]
  <2> HIDE DEF r
  <2> QED BY <1>0, <1>a, <1>d, <1>f
<1>2. mem' \in [Workers -> Mem]
  <2> HIDE DEF m
  <2> QED BY <1>a, <1>e, <1>f
<1>3. pc' \in [Workers -> Labels]
  BY <1>a, <1>f DEF Goto, Labels, EventLabels, RetryLabels, BothLabels
<1>4. TypeOK'
  BY <1>1, <1>2, <1>3
     DEF BaseInv, TypeOK, PlanDelivery, rows, worker, others, SetEvent, Goto
<1>5. ASSUME NEW v \in Workers PROVE UnderWay(v)'
  <2>1. UnderWay(v)
    BY DEF BaseInv
  <2>2. v # w => pc'[v] = pc[v] /\ mem'[v] = mem[v] /\ msg'[v] = msg[v]
    BY <1>a DEF PlanDelivery, Goto
  <2>3. CASE v # w
    BY <2>1, <2>2, <2>3 DEF UnderWay
  <2>4. CASE v = w
    <3>1. /\ msg'[w] = msg[w] /\ mem'[w].cur = d /\ pc[w] = "plan"
          /\ \/ pc'[w] = "update" /\ mem'[w].ref # None
             \/ pc'[w] \in {"create", "fail"}
      <4> HIDE DEF m, d, r, plan
      <4> QED BY <1>a, <1>c, <1>f, <1>g DEF PlanDelivery, Goto, d
    <3> QED BY <2>1, <2>4, <3>1
               DEF UnderWay, Concerns, EventLabels, RetryLabels, AtDelivery
  <2> QED BY <2>3, <2>4
<1>6. \A c \in Clients : ClientKnows(c)'
  BY DEF BaseInv, ClientKnows, PlanDelivery, others
<1> QED BY <1>4, <1>5, <1>6 DEF BaseInv

(* CallFails keeps the base invariant. *)
LEMMA BaseCallFails ==
  ASSUME BaseInv, NEW w \in Workers, CallFails(w)
  PROVE  BaseInv'
<1>0. mem[w] \in Mem
  BY AtWork, NoMemType DEF CallFails, Mem, Row
<1>a. /\ pc \in [Workers -> Labels]
      /\ budget \in [retries : Nat, faults : Nat, crashes : Nat, edits : Nat]
  BY DEF BaseInv, TypeOK
<1>1. pc' \in [Workers -> Labels]
  BY <1>0, <1>a
     DEF CallFails, Goto, Labels, EventLabels, RetryLabels, BothLabels
<1>2. budget' \in [retries : Nat, faults : Nat, crashes : Nat, edits : Nat]
  BY <1>0, <1>a DEF CallFails, Trouble
<1>3. TypeOK'
  BY <1>1, <1>2
     DEF BaseInv, TypeOK, CallFails, rows, worker, others, SetEvent, Goto
<1>4. ASSUME NEW v \in Workers PROVE UnderWay(v)'
  BY AtWork, NoMemType, NoneApart
     DEF BaseInv, TypeOK, UnderWay, CallFails, rows, worker, others, Goto,
         Concerns, EventLabels, RetryLabels, AtDelivery, Mem
<1>5. \A c \in Clients : ClientKnows(c)'
  BY DEF BaseInv, ClientKnows, CallFails, others
<1> QED BY <1>3, <1>4, <1>5 DEF BaseInv

(* UpdateMistaken keeps the base invariant. *)
LEMMA BaseUpdateMistaken ==
  ASSUME BaseInv, NEW w \in Workers, UpdateMistaken(w)
  PROVE  BaseInv'
<1>0. mem[w].cur \in Deliveries
  BY AtWork, NoMemType DEF UpdateMistaken, Mem, Row
<1>a. /\ pc \in [Workers -> Labels] /\ excused \subseteq Deliveries
      /\ budget \in [retries : Nat, faults : Nat, crashes : Nat, edits : Nat]
  BY DEF BaseInv, TypeOK
<1>1. pc' \in [Workers -> Labels]
  BY <1>a
     DEF UpdateMistaken, Goto, Labels, EventLabels, RetryLabels, BothLabels
<1>2. budget' \in [retries : Nat, faults : Nat, crashes : Nat, edits : Nat]
  BY <1>a DEF UpdateMistaken, Trouble
<1>3. excused' \subseteq Deliveries
  BY <1>0, <1>a DEF UpdateMistaken
<1>4. TypeOK'
  BY <1>1, <1>2, <1>3 DEF BaseInv, TypeOK, UpdateMistaken, rows, Goto
<1>5. ASSUME NEW v \in Workers PROVE UnderWay(v)'
  BY AtWork, NoMemType, NoneApart
     DEF BaseInv, TypeOK, UnderWay, UpdateMistaken, rows, worker, Goto,
         Concerns, EventLabels, RetryLabels, AtDelivery, Mem
<1>6. \A c \in Clients : ClientKnows(c)'
  BY DEF BaseInv, ClientKnows, UpdateMistaken
<1> QED BY <1>4, <1>5, <1>6 DEF BaseInv

(* UpdateIssue keeps the base invariant. *)
LEMMA BaseUpdateIssue ==
  ASSUME BaseInv, NEW w \in Workers, UpdateIssue(w)
  PROVE  BaseInv'
<1>0. mem[w].ref \in Nat
  BY AtWork, NoMemType DEF UpdateIssue, Mem, Row
<1>a. mem \in [Workers -> Mem] /\ pc \in [Workers -> Labels]
  BY DEF BaseInv, TypeOK
<1>1. mem' \in [Workers -> Mem]
  <2> DEFINE r == [mem[w].row EXCEPT !.issue = mem[w].ref]
             m == [mem[w] EXCEPT !.row = r]
  <2>0. mem[w].row \in Row
    BY <1>a DEF Mem
  <2>1. r \in Row
    BY <1>0, <2>0 DEF Row
  <2>2. m \in Mem
    BY <1>0, <1>a, <2>1 DEF Mem
  <2>3. mem' = [mem EXCEPT ![w] = m] \/ mem' = mem
    BY DEF UpdateIssue
  <2> HIDE DEF m
  <2> QED BY <1>a, <2>2, <2>3
<1>2. pc' \in [Workers -> Labels]
  BY <1>0, <1>a
     DEF UpdateIssue, Goto, Labels, EventLabels, RetryLabels, BothLabels
<1>3. TypeOK'
  BY <1>1, <1>2
     DEF BaseInv, TypeOK, UpdateIssue, rows, worker, others, SetEvent, Goto
<1>4. ASSUME NEW v \in Workers PROVE UnderWay(v)'
  <2>1. /\ msg' = msg /\ mem'[v].cur = mem[v].cur /\ mem'[v].ref = mem[v].ref
        /\ pc'[v] = pc[v] \/ (v = w /\ pc[w] = "update" /\ pc'[v] \in {"create", "save"})
    BY <1>0, <1>a DEF UpdateIssue, Goto, Mem, Row
  <2>2. UnderWay(v)
    BY DEF BaseInv
  <2> QED BY <2>1, <2>2
     DEF UnderWay, EventLabels, RetryLabels, AtDelivery, Concerns
<1>5. \A c \in Clients : ClientKnows(c)'
  BY DEF BaseInv, ClientKnows, UpdateIssue, others
<1> QED BY <1>3, <1>4, <1>5 DEF BaseInv

(* CreateIssue keeps the base invariant. *)
LEMMA BaseCreateIssue ==
  ASSUME BaseInv, NEW w \in Workers, CreateIssue(w)
  PROVE  BaseInv'
<1>0. mem[w].cur \in Deliveries /\ mem[w].links \in SUBSET Nat
  BY AtWork, NoMemType DEF CreateIssue, Mem, Row
<1>a. /\ issues \in Seq(Issue)
      /\ mem \in [Workers -> Mem]
      /\ pc \in [Workers -> Labels]
  BY DEF BaseInv, TypeOK
<1>1. issues' \in Seq(Issue)
  BY <1>0, <1>a DEF CreateIssue, NewIssue, Issue
<1>2. mem' \in [Workers -> Mem]
  <2> DEFINE r == [mem[w].row EXCEPT !.issue = Len(issues) + 1]
             m == [mem[w] EXCEPT !.row = r]
  <2>0. Len(issues) + 1 \in Nat /\ mem[w].row \in Row
    BY <1>a DEF Mem
  <2>1. r \in Row
    BY <2>0 DEF Row
  <2>2. m \in Mem
    BY <1>0, <1>a, <2>1 DEF Mem
  <2>3. mem' = [mem EXCEPT ![w] = m] \/ mem' = mem
    BY DEF CreateIssue
  <2> HIDE DEF m
  <2> QED BY <1>a, <2>2, <2>3
<1>3. pc' \in [Workers -> Labels]
  BY <1>0, <1>a
     DEF CreateIssue, Goto, Labels, EventLabels, RetryLabels, BothLabels
<1>4. TypeOK'
  BY <1>1, <1>2, <1>3
     DEF BaseInv, TypeOK, CreateIssue, rows, worker, others, SetEvent, Goto
<1>5. ASSUME NEW v \in Workers PROVE UnderWay(v)'
  BY AtWork, NoMemType, NoneApart
     DEF BaseInv, TypeOK, UnderWay, CreateIssue, rows, worker, others, Goto,
         Concerns, EventLabels, RetryLabels, AtDelivery, Mem
<1>6. \A c \in Clients : ClientKnows(c)'
  BY DEF BaseInv, ClientKnows, CreateIssue, others
<1> QED BY <1>4, <1>5, <1>6 DEF BaseInv

(* CreateUnanswered keeps the base invariant. *)
LEMMA BaseCreateUnanswered ==
  ASSUME BaseInv, NEW w \in Workers, CreateUnanswered(w)
  PROVE  BaseInv'
<1>0. mem[w].cur \in Deliveries /\ mem[w].links \in SUBSET Nat
  BY AtWork, NoMemType DEF CreateUnanswered, Mem, Row
<1>a. /\ issues \in Seq(Issue)
      /\ pc \in [Workers -> Labels]
      /\ budget \in [retries : Nat, faults : Nat, crashes : Nat, edits : Nat]
      /\ excused \subseteq Deliveries
  BY DEF BaseInv, TypeOK
<1>1. issues' \in Seq(Issue)
  BY <1>0, <1>a DEF CreateUnanswered, NewIssue, Issue
<1>2. pc' \in [Workers -> Labels]
  BY <1>0, <1>a
     DEF CreateUnanswered, Goto, Labels, EventLabels, RetryLabels, BothLabels
<1>3. budget' \in [retries : Nat, faults : Nat, crashes : Nat, edits : Nat]
  BY <1>0, <1>a DEF CreateUnanswered, Trouble
<1>4. excused' \subseteq Deliveries
  BY <1>0, <1>a DEF CreateUnanswered, Excuse
<1>5. TypeOK'
  BY <1>1, <1>2, <1>3, <1>4
     DEF BaseInv, TypeOK, CreateUnanswered, rows, worker, others, SetEvent,
         Goto
<1>6. ASSUME NEW v \in Workers PROVE UnderWay(v)'
  BY AtWork, NoMemType, NoneApart
     DEF BaseInv, TypeOK, UnderWay, CreateUnanswered, rows, worker, others,
         Goto, Concerns, EventLabels, RetryLabels, AtDelivery, Mem
<1>7. \A c \in Clients : ClientKnows(c)'
  BY DEF BaseInv, ClientKnows, CreateUnanswered, others
<1> QED BY <1>5, <1>6, <1>7 DEF BaseInv

(* SaveDelivery keeps the base invariant. *)
LEMMA BaseSaveDelivery ==
  ASSUME BaseInv, NEW w \in Workers, SaveDelivery(w)
  PROVE  BaseInv'
<1>0. mem[w].cur \in Deliveries /\ mem[w].row \in Row
  BY AtWork, NoMemType DEF SaveDelivery, Mem, Row
<1>a. /\ delivery \in [Deliveries -> Row]
      /\ mem \in [Workers -> Mem]
      /\ pc \in [Workers -> Labels]
  BY DEF BaseInv, TypeOK
<1>1. delivery' \in [Deliveries -> Row]
  BY <1>0, <1>a DEF SaveDelivery, Row
<1>2. mem' \in [Workers -> Mem]
  <2> DEFINE m == [mem[w] EXCEPT !.won = TRUE, !.cur = None]
  <2>1. m \in Mem
    BY <1>0, <1>a DEF Mem
  <2>2. mem' = [mem EXCEPT ![w] = m] \/ mem' = mem
    BY DEF SaveDelivery
  <2> HIDE DEF m
  <2> QED BY <1>a, <2>1, <2>2
<1>3. pc' \in [Workers -> Labels]
  BY <1>0, <1>a
     DEF SaveDelivery, Goto, Labels, EventLabels, RetryLabels, BothLabels
<1>4. TypeOK'
  BY <1>1, <1>2, <1>3
     DEF BaseInv, TypeOK, SaveDelivery, rows, worker, others, SetEvent, Goto
<1>5. ASSUME NEW v \in Workers PROVE UnderWay(v)'
  BY AtWork, NoMemType, NoneApart
     DEF BaseInv, TypeOK, UnderWay, SaveDelivery, rows, worker, others, Goto,
         Concerns, EventLabels, RetryLabels, AtDelivery, Mem
<1>6. \A c \in Clients : ClientKnows(c)'
  BY DEF BaseInv, ClientKnows, SaveDelivery, others
<1> QED BY <1>4, <1>5, <1>6 DEF BaseInv

(* FailDelivery keeps the base invariant. *)
LEMMA BaseFailDelivery ==
  ASSUME BaseInv, NEW w \in Workers, FailDelivery(w)
  PROVE  BaseInv'
<1>0. mem[w].cur \in Deliveries /\ mem[w].row.retry \in BOOLEAN
  BY AtWork, NoMemType DEF FailDelivery, Mem, Row
<1>a. /\ delivery \in [Deliveries -> Row]
      /\ mem \in [Workers -> Mem]
      /\ pc \in [Workers -> Labels]
  BY DEF BaseInv, TypeOK
<1>1. delivery' \in [Deliveries -> Row]
  <2> DEFINE r == [delivery[mem[w].cur] EXCEPT !.status = "failed",
                                               !.retry = mem[w].row.retry]
  <2>1. r \in Row
    BY <1>0, <1>a, RowWith
  <2>2. delivery' = [delivery EXCEPT ![mem[w].cur] = r] \/ delivery' = delivery
    BY DEF FailDelivery
  <2> HIDE DEF r
  <2> QED BY <1>0, <1>a, <2>1, <2>2
<1>2. mem' \in [Workers -> Mem]
  <2> DEFINE m == [mem[w] EXCEPT !.failed = TRUE, !.cur = None]
  <2>1. m \in Mem
    BY <1>0, <1>a DEF Mem
  <2>2. mem' = [mem EXCEPT ![w] = m] \/ mem' = mem
    BY DEF FailDelivery
  <2> HIDE DEF m
  <2> QED BY <1>a, <2>1, <2>2
<1>3. pc' \in [Workers -> Labels]
  BY <1>0, <1>a
     DEF FailDelivery, Goto, Labels, EventLabels, RetryLabels, BothLabels
<1>4. TypeOK'
  BY <1>1, <1>2, <1>3
     DEF BaseInv, TypeOK, FailDelivery, rows, worker, others, SetEvent, Goto
<1>5. ASSUME NEW v \in Workers PROVE UnderWay(v)'
  BY AtWork, NoMemType, NoneApart
     DEF BaseInv, TypeOK, UnderWay, FailDelivery, rows, worker, others, Goto,
         Concerns, EventLabels, RetryLabels, AtDelivery, Mem
<1>6. \A c \in Clients : ClientKnows(c)'
  BY DEF BaseInv, ClientKnows, FailDelivery, others
<1> QED BY <1>4, <1>5, <1>6 DEF BaseInv

(* LoadDelivery keeps the base invariant. *)
LEMMA BaseLoadDelivery ==
  ASSUME BaseInv, NEW w \in Workers, LoadDelivery(w)
  PROVE  BaseInv'
<1>0. msg[w].delivery \in Deliveries
  BY AtWork, NoMemType DEF LoadDelivery, Mem, Row
<1>a. /\ delivery \in [Deliveries -> Row]
      /\ mem \in [Workers -> Mem]
      /\ pc \in [Workers -> Labels]
      /\ excused \subseteq Deliveries
  BY DEF BaseInv, TypeOK
<1>1. mem' \in [Workers -> Mem]
  <2> DEFINE r == [delivery[msg[w].delivery] EXCEPT !.retry = TRUE]
             m == [mem[w] EXCEPT !.cur = msg[w].delivery, !.row = r]
  <2>0. delivery[msg[w].delivery] \in Row
    BY <1>0, <1>a
  <2>1. r \in Row
    BY <2>0 DEF Row
  <2>2. m \in Mem
    BY <1>0, <1>a, <2>1 DEF Mem
  <2>3. mem' = [mem EXCEPT ![w] = m] \/ mem' = mem
    BY DEF LoadDelivery
  <2> HIDE DEF m
  <2> QED BY <1>a, <2>2, <2>3
<1>2. pc' \in [Workers -> Labels]
  BY <1>0, <1>a
     DEF LoadDelivery, Goto, Labels, EventLabels, RetryLabels, BothLabels
<1>3. excused' \subseteq Deliveries
  BY <1>0, <1>a DEF LoadDelivery, Excuse
<1>4. TypeOK'
  BY <1>1, <1>2, <1>3
     DEF BaseInv, TypeOK, LoadDelivery, rows, worker, others, SetEvent, Goto
<1>5. ASSUME NEW v \in Workers PROVE UnderWay(v)'
  <2>1. UnderWay(v)
    BY DEF BaseInv
  <2>2. v # w => pc'[v] = pc[v] /\ mem'[v] = mem[v] /\ msg'[v] = msg[v]
    BY <1>a DEF LoadDelivery, Goto
  <2>3. CASE v # w
    BY <2>1, <2>2, <2>3 DEF UnderWay
  <2>4. CASE v = w
    <3>1. /\ msg'[w] = msg[w] /\ pc[w] = "load"
          /\ \/ pc'[w] = "release" /\ mem'[w].cur = mem[w].cur
             \/ pc'[w] = "retry" /\ mem'[w].cur = msg[w].delivery
      BY <1>a DEF LoadDelivery, Goto, Mem
    <3> QED BY <1>0, <2>1, <2>4, <3>1, RelayAssumption
               DEF UnderWay, Concerns, EventLabels, RetryLabels, AtDelivery
  <2> QED BY <2>3, <2>4
<1>6. \A c \in Clients : ClientKnows(c)'
  BY DEF BaseInv, ClientKnows, LoadDelivery, others
<1> QED BY <1>4, <1>5, <1>6 DEF BaseInv

(* RetryDelivery keeps the base invariant. *)
LEMMA BaseRetryDelivery ==
  ASSUME BaseInv, NEW w \in Workers, RetryDelivery(w)
  PROVE  BaseInv'
<1>0. mem[w].cur \in Deliveries
  BY AtWork, NoMemType DEF RetryDelivery, Mem, Row
<1>a. delivery \in [Deliveries -> Row] /\ pc \in [Workers -> Labels]
  BY DEF BaseInv, TypeOK
<1>1. delivery' \in [Deliveries -> Row]
  <2> DEFINE r == [delivery[mem[w].cur] EXCEPT !.status = "pending", !.retry = TRUE]
  <2>1. r \in Row
    BY <1>0, <1>a DEF Row
  <2>2. delivery' = [delivery EXCEPT ![mem[w].cur] = r] \/ delivery' = delivery
    BY DEF RetryDelivery
  <2> HIDE DEF r
  <2> QED BY <1>0, <1>a, <2>1, <2>2
<1>2. pc' \in [Workers -> Labels]
  BY <1>0, <1>a
     DEF RetryDelivery, Goto, Labels, EventLabels, RetryLabels, BothLabels
<1>3. TypeOK'
  BY <1>1, <1>2
     DEF BaseInv, TypeOK, RetryDelivery, rows, worker, others, SetEvent, Goto
<1>4. ASSUME NEW v \in Workers PROVE UnderWay(v)'
  BY AtWork, NoMemType, NoneApart
     DEF BaseInv, TypeOK, UnderWay, RetryDelivery, rows, worker, others, Goto,
         Concerns, EventLabels, RetryLabels, AtDelivery, Mem
<1>5. \A c \in Clients : ClientKnows(c)'
  BY DEF BaseInv, ClientKnows, RetryDelivery, others
<1> QED BY <1>3, <1>4, <1>5 DEF BaseInv

(* CountFailed keeps the base invariant. *)
LEMMA BaseCountFailed ==
  ASSUME BaseInv, NEW w \in Workers, CountFailed(w)
  PROVE  BaseInv'
<1>0. mem[w] \in Mem
  BY AtWork, NoMemType DEF CountFailed, Mem, Row
<1>a. mem \in [Workers -> Mem] /\ pc \in [Workers -> Labels]
  BY DEF BaseInv, TypeOK
<1>1. mem' \in [Workers -> Mem]
  <2>1. PICK b \in BOOLEAN :
          b = (\E s \in Subs : delivery[<<msg[w].delivery[1], s>>].status = "failed")
    OBVIOUS
  <2> DEFINE m == [mem[w] EXCEPT !.failed = b]
  <2>2. m \in Mem
    BY <1>0, <1>a, <2>1 DEF Mem
  <2>3. mem' = [mem EXCEPT ![w] = m] \/ mem' = mem
    BY <2>1 DEF CountFailed
  <2> HIDE DEF m
  <2> QED BY <1>a, <2>2, <2>3
<1>2. pc' \in [Workers -> Labels]
  BY <1>0, <1>a
     DEF CountFailed, Goto, Labels, EventLabels, RetryLabels, BothLabels
<1>3. TypeOK'
  BY <1>1, <1>2
     DEF BaseInv, TypeOK, CountFailed, rows, worker, others, SetEvent, Goto
<1>4. ASSUME NEW v \in Workers PROVE UnderWay(v)'
  BY AtWork, NoMemType, NoneApart
     DEF BaseInv, TypeOK, UnderWay, CountFailed, rows, worker, others, Goto,
         Concerns, EventLabels, RetryLabels, AtDelivery, Mem
<1>5. \A c \in Clients : ClientKnows(c)'
  BY DEF BaseInv, ClientKnows, CountFailed, others
<1> QED BY <1>3, <1>4, <1>5 DEF BaseInv

(* SettleEvent keeps the base invariant. *)
LEMMA BaseSettleEvent ==
  ASSUME BaseInv, NEW w \in Workers, SettleEvent(w)
  PROVE  BaseInv'
<1>0. msg[w].delivery[1] \in Events
  BY AtWork, NoMemType DEF SettleEvent, Mem, Row
<1>a. event \in [Events -> EventRow] /\ pc \in [Workers -> Labels]
  BY DEF BaseInv, TypeOK
<1>1. event' \in [Events -> EventRow]
  BY <1>0, <1>a DEF SettleEvent, SetEvent, EventRow, EventVerdict
<1>2. pc' \in [Workers -> Labels]
  BY <1>0, <1>a
     DEF SettleEvent, Goto, Labels, EventLabels, RetryLabels, BothLabels
<1>3. TypeOK'
  BY <1>1, <1>2
     DEF BaseInv, TypeOK, SettleEvent, rows, worker, others, SetEvent, Goto
<1>4. ASSUME NEW v \in Workers PROVE UnderWay(v)'
  BY AtWork, NoMemType, NoneApart
     DEF BaseInv, TypeOK, UnderWay, SettleEvent, rows, worker, others, Goto,
         Concerns, EventLabels, RetryLabels, AtDelivery, Mem
<1>5. \A c \in Clients : ClientKnows(c)'
  BY DEF BaseInv, ClientKnows, SettleEvent, others
<1> QED BY <1>3, <1>4, <1>5 DEF BaseInv

(* FailEvent keeps the base invariant. *)
LEMMA BaseFailEvent ==
  ASSUME BaseInv, NEW w \in Workers, FailEvent(w)
  PROVE  BaseInv'
<1>0. msg[w].delivery[1] \in Events
  BY AtWork, NoMemType DEF FailEvent, Mem, Row
<1>a. event \in [Events -> EventRow] /\ pc \in [Workers -> Labels]
  BY DEF BaseInv, TypeOK
<1>1. event' \in [Events -> EventRow]
  BY <1>0, <1>a DEF FailEvent, SetEvent, EventRow, EventVerdict
<1>2. pc' \in [Workers -> Labels]
  BY <1>0, <1>a
     DEF FailEvent, Goto, Labels, EventLabels, RetryLabels, BothLabels
<1>3. TypeOK'
  BY <1>1, <1>2
     DEF BaseInv, TypeOK, FailEvent, rows, worker, others, SetEvent, Goto
<1>4. ASSUME NEW v \in Workers PROVE UnderWay(v)'
  BY AtWork, NoMemType, NoneApart
     DEF BaseInv, TypeOK, UnderWay, FailEvent, rows, worker, others, Goto,
         Concerns, EventLabels, RetryLabels, AtDelivery, Mem
<1>5. \A c \in Clients : ClientKnows(c)'
  BY DEF BaseInv, ClientKnows, FailEvent, others
<1> QED BY <1>3, <1>4, <1>5 DEF BaseInv

(* FailRetry keeps the base invariant. *)
LEMMA BaseFailRetry ==
  ASSUME BaseInv, NEW w \in Workers, FailRetry(w)
  PROVE  BaseInv'
<1>0. mem[w].cur \in Deliveries
  BY AtWork, NoMemType DEF FailRetry, Mem, Row
<1>a. delivery \in [Deliveries -> Row] /\ pc \in [Workers -> Labels]
  BY DEF BaseInv, TypeOK
<1>1. delivery' \in [Deliveries -> Row]
  BY <1>0, <1>a DEF FailRetry, Row
<1>2. pc' \in [Workers -> Labels]
  BY <1>0, <1>a
     DEF FailRetry, Goto, Labels, EventLabels, RetryLabels, BothLabels
<1>3. TypeOK'
  BY <1>1, <1>2
     DEF BaseInv, TypeOK, FailRetry, rows, worker, others, SetEvent, Goto
<1>4. ASSUME NEW v \in Workers PROVE UnderWay(v)'
  BY AtWork, NoMemType, NoneApart
     DEF BaseInv, TypeOK, UnderWay, FailRetry, rows, worker, others, Goto,
         Concerns, EventLabels, RetryLabels, AtDelivery, Mem
<1>5. \A c \in Clients : ClientKnows(c)'
  BY DEF BaseInv, ClientKnows, FailRetry, others
<1> QED BY <1>3, <1>4, <1>5 DEF BaseInv

(* Release keeps the base invariant. *)
LEMMA BaseRelease ==
  ASSUME BaseInv, NEW w \in Workers, Release(w)
  PROVE  BaseInv'
<1>0. NoMem \in Mem
  BY AtWork, NoMemType DEF Release, Mem, Row
<1>a. /\ locks \subseteq Message
      /\ msg \in [Workers -> Message \cup {None}]
      /\ mem \in [Workers -> Mem]
      /\ pc \in [Workers -> Labels]
  BY DEF BaseInv, TypeOK
<1>1. locks' \subseteq Message
  BY <1>0, <1>a DEF Release
<1>2. msg' \in [Workers -> Message \cup {None}]
  BY <1>0, <1>a DEF Release
<1>3. mem' \in [Workers -> Mem]
  BY <1>0, <1>a DEF Release
<1>4. pc' \in [Workers -> Labels]
  BY <1>0, <1>a DEF Release, Goto, Labels, EventLabels, RetryLabels, BothLabels
<1>5. TypeOK'
  BY <1>1, <1>2, <1>3, <1>4
     DEF BaseInv, TypeOK, Release, rows, worker, others, SetEvent, Goto
<1>6. ASSUME NEW v \in Workers PROVE UnderWay(v)'
  BY AtWork, NoMemType, NoneApart
     DEF BaseInv, TypeOK, UnderWay, Release, rows, worker, others, Goto,
         Concerns, EventLabels, RetryLabels, AtDelivery, Mem
<1>7. \A c \in Clients : ClientKnows(c)'
  BY DEF BaseInv, ClientKnows, Release, others
<1> QED BY <1>5, <1>6, <1>7 DEF BaseInv

(* Crash keeps the base invariant. *)
LEMMA BaseCrash ==
  ASSUME BaseInv, NEW w \in Workers, Crash(w)
  PROVE  BaseInv'
<1>0. NoMem \in Mem /\ msg[w] \in Message /\ (pc[w] = "save" => mem[w].cur \in Deliveries)
  BY AtWork, NoMemType DEF Crash, Mem, Row
<1>a. /\ queue \in [Message -> Nat]
      /\ excused \subseteq Deliveries
      /\ pc \in [Workers -> Labels]
      /\ msg \in [Workers -> Message \cup {None}]
      /\ mem \in [Workers -> Mem]
      /\ budget \in [retries : Nat, faults : Nat, crashes : Nat, edits : Nat]
  BY DEF BaseInv, TypeOK
<1>1. queue' \in [Message -> Nat]
  BY <1>0, <1>a DEF Crash, Put
<1>2. excused' \subseteq Deliveries
  BY <1>0, <1>a DEF Crash, Excuse
<1>3. pc' \in [Workers -> Labels]
  BY <1>0, <1>a DEF Crash, Goto, Labels, EventLabels, RetryLabels, BothLabels
<1>4. msg' \in [Workers -> Message \cup {None}]
  BY <1>0, <1>a DEF Crash
<1>5. mem' \in [Workers -> Mem]
  BY <1>0, <1>a DEF Crash
<1>6. budget' \in [retries : Nat, faults : Nat, crashes : Nat, edits : Nat]
  BY <1>0, <1>a DEF Crash, Trouble
<1>7. TypeOK'
  BY <1>1, <1>2, <1>3, <1>4, <1>5, <1>6
     DEF BaseInv, TypeOK, Crash, rows, worker, others, SetEvent, Goto
<1>8. ASSUME NEW v \in Workers PROVE UnderWay(v)'
  BY AtWork, NoMemType, NoneApart
     DEF BaseInv, TypeOK, UnderWay, Crash, rows, worker, others, Goto,
         Concerns, EventLabels, RetryLabels, AtDelivery, Mem
<1>9. \A c \in Clients : ClientKnows(c)'
  BY DEF BaseInv, ClientKnows, Crash, others
<1> QED BY <1>7, <1>8, <1>9 DEF BaseInv

(* The next delivery of an event, and what becomes of it: a new row, no row  *)
(* because the subscription is gone, a row that is skipped, a row to reopen. *)
OpenEffect(w, s, m, d) ==
  /\ d = <<msg[w].event, s>> /\ d \in Deliveries
  /\ m.failed = mem[w].failed /\ m.won = mem[w].won /\ m.any = mem[w].any
  /\ mem' = [mem EXCEPT ![w] = m]
  /\ \/ /\ ~Exists(d) /\ sub[s] # "deleted"
        /\ delivery' = [delivery EXCEPT ![d] = [NoRow EXCEPT !.status = "pending"]]
        /\ order' = Append(order, d)
        /\ m.cur = d /\ m.row = NoRow /\ m.todo = mem[w].todo \ {s}
        /\ Excuse(w, d)
        /\ Goto(w, "plan")
     \/ /\ ~Exists(d) /\ sub[s] = "deleted"
        /\ m = mem[w]
        /\ Goto(w, "abort")
        /\ UNCHANGED <<delivery, order, excused>>
     \/ /\ Exists(d) /\ MustSkip(delivery[d].status)
        /\ m.cur = None /\ m.todo = mem[w].todo \ {s}
        /\ UNCHANGED <<delivery, order, pc, excused>>
     \/ /\ Exists(d) /\ ~MustSkip(delivery[d].status)
        /\ m.cur = d /\ m.row = delivery[d] /\ m.todo = mem[w].todo \ {s}
        /\ Excuse(w, d)
        /\ Goto(w, "reopen")
        /\ UNCHANGED <<delivery, order>>

(* get_or_create does one of those. *)
LEMMA Opened ==
  ASSUME BaseInv, NEW w \in Workers, OpenDelivery(w)
  PROVE  \E s \in mem[w].todo, m \in Mem, d \in Deliveries : OpenEffect(w, s, m, d)
<1>0. /\ mem[w] \in Mem /\ msg[w].event \in Events /\ mem[w].cur = None
      /\ mem \in [Workers -> Mem] /\ delivery \in [Deliveries -> Row]
  BY AtWork DEF BaseInv, UnderWay, OpenDelivery, TypeOK
<1>1. PICK s \in mem[w].todo :
        LET d == <<msg[w].event, s>>
            rest == mem[w].todo \ {s} IN
  \/ /\ ~Exists(d)
        /\ sub[s] # "deleted"
        /\ delivery' = [delivery EXCEPT ![d] = [NoRow EXCEPT !.status = "pending"]]
        /\ order' = Append(order, d)
        /\ mem' = [mem EXCEPT ![w] =
             [@ EXCEPT !.todo = rest, !.cur = d, !.row = NoRow]]
        /\ Excuse(w, d)
        /\ Goto(w, "plan")
     \/ /\ ~Exists(d)
        /\ sub[s] = "deleted"
        /\ Goto(w, "abort")
        /\ UNCHANGED <<delivery, order, mem, excused>>
     \/ /\ Exists(d)
        /\ MustSkip(delivery[d].status)
        /\ mem' = [mem EXCEPT ![w].todo = rest]
        /\ UNCHANGED <<delivery, order, pc, excused>>
     \/ /\ Exists(d)
        /\ ~MustSkip(delivery[d].status)
        /\ mem' = [mem EXCEPT ![w] =
             [@ EXCEPT !.todo = rest, !.cur = d, !.row = delivery[d]]]
        /\ Excuse(w, d)
        /\ Goto(w, "reopen")
        /\ UNCHANGED <<delivery, order>>
  BY DEF OpenDelivery
<1> DEFINE d == <<msg[w].event, s>>
           rest == mem[w].todo \ {s}
<1>2. d \in Deliveries /\ rest \in SUBSET Subs
  BY <1>0, DeliveryFacts DEF Mem
<1>3. CASE /\ ~Exists(d)
           /\ sub[s] # "deleted"
           /\ delivery' = [delivery EXCEPT ![d] = [NoRow EXCEPT !.status = "pending"]]
           /\ order' = Append(order, d)
           /\ mem' = [mem EXCEPT ![w] =
                [@ EXCEPT !.todo = rest, !.cur = d, !.row = NoRow]]
           /\ Excuse(w, d)
           /\ Goto(w, "plan")
  <2> DEFINE m == [mem[w] EXCEPT !.todo = rest, !.cur = d, !.row = NoRow]
  <2>1. mem' = [mem EXCEPT ![w] = m]
    BY <1>3
  <2> HIDE DEF d, rest
  <2>2. /\ m \in Mem /\ m.todo = rest /\ m.cur = d /\ m.row = NoRow
        /\ m.failed = mem[w].failed /\ m.won = mem[w].won /\ m.any = mem[w].any
    BY <1>0, <1>2, NoMemType DEF Mem
  <2> HIDE DEF m
  <2>3. OpenEffect(w, s, m, d)
    BY <1>2, <1>3, <2>1, <2>2 DEF d, rest, OpenEffect
  <2> QED BY <1>2, <2>2, <2>3
<1>4. CASE /\ ~Exists(d)
           /\ sub[s] = "deleted"
           /\ Goto(w, "abort")
           /\ UNCHANGED <<delivery, order, mem, excused>>
  <2>1. mem' = [mem EXCEPT ![w] = mem[w]]
    BY <1>0, <1>4
  <2>2. OpenEffect(w, s, mem[w], d)
    BY <1>0, <1>2, <1>4, <2>1 DEF OpenEffect
  <2> QED BY <1>0, <1>2, <2>2
<1>5. CASE /\ Exists(d)
           /\ MustSkip(delivery[d].status)
           /\ mem' = [mem EXCEPT ![w].todo = rest]
           /\ UNCHANGED <<delivery, order, pc, excused>>
  <2> DEFINE m == [mem[w] EXCEPT !.todo = rest]
  <2>1. mem' = [mem EXCEPT ![w] = m]
    BY <1>5
  <2> HIDE DEF d, rest
  <2>2. /\ m \in Mem /\ m.todo = rest /\ m.cur = None
        /\ m.failed = mem[w].failed /\ m.won = mem[w].won /\ m.any = mem[w].any
    BY <1>0, <1>2 DEF Mem
  <2> HIDE DEF m
  <2>3. OpenEffect(w, s, m, d)
    BY <1>2, <1>5, <2>1, <2>2 DEF d, rest, OpenEffect
  <2> QED BY <1>2, <2>2, <2>3
<1>6. CASE /\ Exists(d)
           /\ ~MustSkip(delivery[d].status)
           /\ mem' = [mem EXCEPT ![w] =
                [@ EXCEPT !.todo = rest, !.cur = d, !.row = delivery[d]]]
           /\ Excuse(w, d)
           /\ Goto(w, "reopen")
           /\ UNCHANGED <<delivery, order>>
  <2> DEFINE m == [mem[w] EXCEPT !.todo = rest, !.cur = d, !.row = delivery[d]]
  <2>1. mem' = [mem EXCEPT ![w] = m]
    BY <1>6
  <2> HIDE DEF d, rest
  <2>3. delivery[d] \in Row
    BY <1>0, <1>2
  <2>2. /\ m \in Mem /\ m.todo = rest /\ m.cur = d /\ m.row = delivery[d]
        /\ m.failed = mem[w].failed /\ m.won = mem[w].won /\ m.any = mem[w].any
    BY <1>0, <1>2, <2>3 DEF Mem
  <2> HIDE DEF m
  <2>4. OpenEffect(w, s, m, d)
    BY <1>2, <1>6, <2>1, <2>2 DEF d, rest, OpenEffect
  <2> QED BY <1>2, <2>2, <2>4
<1> QED BY <1>1, <1>3, <1>4, <1>5, <1>6

(* OpenDelivery keeps the base invariant. *)
LEMMA BaseOpenDelivery ==
  ASSUME BaseInv, NEW w \in Workers, OpenDelivery(w)
  PROVE  BaseInv'
<1>0. /\ msg[w].event \in Events /\ mem[w].cur = None /\ IsEventTask(msg[w])
      /\ pc[w] = "open" /\ msg[w] # None /\ UnderWay(w)
  BY AtWork, RelayAssumption DEF BaseInv, UnderWay, OpenDelivery
<1>a. /\ delivery \in [Deliveries -> Row] /\ order \in Seq(Deliveries)
      /\ mem \in [Workers -> Mem] /\ pc \in [Workers -> Labels]
      /\ excused \subseteq Deliveries
  BY DEF BaseInv, TypeOK
<1>b. PICK s \in mem[w].todo, m \in Mem, d \in Deliveries : OpenEffect(w, s, m, d)
  BY Opened
<1>c. [NoRow EXCEPT !.status = "pending"] \in Row
  BY NoMemType DEF Row
<1>1. delivery' \in [Deliveries -> Row]
  BY <1>a, <1>b, <1>c DEF OpenEffect
<1>2. order' \in Seq(Deliveries)
  <2>1. order' = Append(order, d) \/ order' = order
    BY <1>b DEF OpenEffect
  <2> QED BY <1>a, <2>1, AppendProperties
<1>3. mem' \in [Workers -> Mem]
  BY <1>a, <1>b DEF OpenEffect
<1>4. pc' \in [Workers -> Labels]
  BY <1>a, <1>b
     DEF OpenEffect, Goto, Labels, EventLabels, RetryLabels, BothLabels
<1>5. excused' \subseteq Deliveries
  BY <1>a, <1>b DEF OpenEffect, Excuse
<1>6. TypeOK'
  BY <1>1, <1>2, <1>3, <1>4, <1>5 DEF BaseInv, TypeOK, OpenDelivery, others
<1>7. ASSUME NEW v \in Workers PROVE UnderWay(v)'
  <2>1. UnderWay(v) /\ msg'[v] = msg[v]
    BY DEF BaseInv, OpenDelivery
  <2>2. CASE v # w
    BY <1>a, <1>b, <2>1, <2>2 DEF OpenEffect, UnderWay, Goto
  <2>3. CASE v = w
    <3>1. /\ mem'[w] = m
          /\ \/ m.cur = d /\ pc'[w] \in {"plan", "reopen"}
             \/ m.cur = None /\ pc'[w] \in {"open", "abort"}
      BY <1>0, <1>a, <1>b DEF OpenEffect, Goto
    <3>2. d[1] = msg[w].event
      BY <1>b DEF OpenEffect
    <3> QED BY <1>0, <3>2, <2>1, <2>3, <3>1, RelayAssumption
               DEF UnderWay, Concerns, EventLabels, RetryLabels, AtDelivery
  <2> QED BY <2>2, <2>3
<1>8. \A c \in Clients : ClientKnows(c)'
  BY DEF BaseInv, ClientKnows, OpenDelivery, others
<1> QED BY <1>6, <1>7, <1>8 DEF BaseInv

(* Take keeps the base invariant. *)
LEMMA BaseTake ==
  ASSUME BaseInv, NEW w \in Workers, NEW m \in Message, Take(w, m)
  PROVE  BaseInv'
<1>1. TypeOK'
  BY DEF BaseInv, TypeOK, Take, AcquireTaskLock, Goto, rows, others, Labels,
         EventLabels, RetryLabels, BothLabels
<1>2. ASSUME NEW v \in Workers PROVE UnderWay(v)'
  BY RelayAssumption
     DEF BaseInv, TypeOK, UnderWay, Take, Goto, Concerns, EventLabels,
         RetryLabels, AtDelivery
<1>3. \A c \in Clients : ClientKnows(c)'
  BY DEF BaseInv, ClientKnows, Take, others
<1> QED BY <1>1, <1>2, <1>3 DEF BaseInv

(* Skip keeps the base invariant. *)
LEMMA BaseSkip ==
  ASSUME BaseInv, NEW w \in Workers, NEW m \in Message, Skip(w, m)
  PROVE  BaseInv'
BY DEF BaseInv, TypeOK, Skip, rows, others, worker, UnderWay, ClientKnows

(* Publish keeps the base invariant. *)
LEMMA BasePublish ==
  ASSUME BaseInv, NEW x \in Events, Publish(x)
  PROVE  BaseInv'
<1>1. event' \in [Events -> EventRow]
  <2> DEFINE r == [status |-> "pending", email |-> scene.runs[x].email,
                   retried |-> scene.runs[x].retried]
  <2>1. r \in EventRow
    BY RunFacts DEF Publish, EventRow
  <2>2. event' = [event EXCEPT ![x] = r]
    BY DEF Publish
  <2> HIDE DEF r
  <2> QED BY <2>1, <2>2 DEF BaseInv, TypeOK
<1>2. queue' \in [Message -> Nat]
  <2>1. queue \in [Message -> Nat] /\ EventTask(x) \in Message
    BY MessageFacts DEF BaseInv, TypeOK
  <2> QED BY <2>1 DEF Publish, Send, Put
<1>3. budget' \in [retries : Nat, faults : Nat, crashes : Nat, edits : Nat]
  <2>1. budget \in [retries : Nat, faults : Nat, crashes : Nat, edits : Nat]
    BY DEF BaseInv, TypeOK
  <2> QED BY <2>1 DEF Publish, Send, Trouble
<1>4. TypeOK'
  BY <1>1, <1>2, <1>3 DEF BaseInv, TypeOK, Publish, worker
<1> QED BY <1>4 DEF BaseInv, Publish, worker, UnderWay, ClientKnows

(* RequestDelivery keeps the base invariant. *)
LEMMA BaseRequestDelivery ==
  ASSUME BaseInv, NEW c \in Clients, NEW d \in Deliveries, RequestDelivery(c, d)
  PROVE  BaseInv'
<1>a. /\ delivery \in [Deliveries -> Row]
      /\ client \in [Clients -> [pc : {"idle", "event", "queue"},
                                 target : Message \cup {None}]]
      /\ budget \in [retries : Nat, faults : Nat, crashes : Nat, edits : Nat]
      /\ DeliveryTask(d) \in Message
  BY MessageFacts DEF BaseInv, TypeOK
<1>1. delivery' \in [Deliveries -> Row]
  <2> DEFINE r == [delivery[d] EXCEPT !.status = "processing", !.retry = TRUE]
  <2>1. r \in Row
    BY <1>a, RowWith
  <2>2. delivery' = [delivery EXCEPT ![d] = r]
    BY DEF RequestDelivery
  <2> HIDE DEF r
  <2> QED BY <1>a, <2>1, <2>2
<1>2. client' \in [Clients -> [pc : {"idle", "event", "queue"},
                              target : Message \cup {None}]]
  BY <1>a DEF RequestDelivery
<1>3. budget' \in [retries : Nat, faults : Nat, crashes : Nat, edits : Nat]
  BY <1>a DEF RequestDelivery
<1>4. TypeOK'
  BY <1>1, <1>2, <1>3 DEF BaseInv, TypeOK, RequestDelivery, worker
<1>5. \A b \in Clients : ClientKnows(b)'
  BY <1>a, RelayAssumption DEF BaseInv, ClientKnows, RequestDelivery
<1> QED BY <1>4, <1>5 DEF BaseInv, RequestDelivery, worker, UnderWay

(* RequestEvent keeps the base invariant. *)
LEMMA BaseRequestEvent ==
  ASSUME BaseInv, NEW c \in Clients, NEW x \in Events, RequestEvent(c, x)
  PROVE  BaseInv'
<1>a. /\ client \in [Clients -> [pc : {"idle", "event", "queue"},
                                 target : Message \cup {None}]]
      /\ budget \in [retries : Nat, faults : Nat, crashes : Nat, edits : Nat]
      /\ EventTask(x) \in Message
  BY MessageFacts DEF BaseInv, TypeOK
<1>2. client' \in [Clients -> [pc : {"idle", "event", "queue"},
                              target : Message \cup {None}]]
  BY <1>a DEF RequestEvent
<1>3. budget' \in [retries : Nat, faults : Nat, crashes : Nat, edits : Nat]
  BY <1>a DEF RequestEvent
<1>4. TypeOK'
  BY <1>2, <1>3 DEF BaseInv, TypeOK, RequestEvent, worker, rows
<1>5. \A b \in Clients : ClientKnows(b)'
  BY <1>a, RelayAssumption DEF BaseInv, ClientKnows, RequestEvent
<1> QED BY <1>4, <1>5 DEF BaseInv, RequestEvent, worker, rows, UnderWay

(* MarkEvent keeps the base invariant. *)
LEMMA BaseMarkEvent ==
  ASSUME BaseInv, NEW c \in Clients, MarkEvent(c)
  PROVE  BaseInv'
<1>a. /\ client \in [Clients -> [pc : {"idle", "event", "queue"},
                                 target : Message \cup {None}]]
      /\ event \in [Events -> EventRow] /\ EventOf(client[c].target) \in Events
  BY MessageFacts, DeliveryFacts
     DEF BaseInv, TypeOK, ClientKnows, MarkEvent, EventOf
<1>1. event' \in [Events -> EventRow]
  BY <1>a DEF MarkEvent, SetEvent, EventRow
<1>2. client' \in [Clients -> [pc : {"idle", "event", "queue"},
                              target : Message \cup {None}]]
  BY <1>a DEF MarkEvent
<1>4. TypeOK'
  BY <1>1, <1>2 DEF BaseInv, TypeOK, MarkEvent, worker
<1>5. \A b \in Clients : ClientKnows(b)'
  BY <1>a DEF BaseInv, ClientKnows, MarkEvent
<1> QED BY <1>4, <1>5 DEF BaseInv, MarkEvent, worker, UnderWay

(* QueueRetry keeps the base invariant. *)
LEMMA BaseQueueRetry ==
  ASSUME BaseInv, NEW c \in Clients, QueueRetry(c)
  PROVE  BaseInv'
<1>a. /\ client \in [Clients -> [pc : {"idle", "event", "queue"},
                                 target : Message \cup {None}]]
      /\ queue \in [Message -> Nat]
      /\ budget \in [retries : Nat, faults : Nat, crashes : Nat, edits : Nat]
  BY DEF BaseInv, TypeOK
<1>1. queue' \in [Message -> Nat]
  BY <1>a DEF QueueRetry, Send, Put
<1>2. client' \in [Clients -> [pc : {"idle", "event", "queue"},
                              target : Message \cup {None}]]
  BY <1>a DEF QueueRetry, NoClient
<1>3. budget' \in [retries : Nat, faults : Nat, crashes : Nat, edits : Nat]
  BY <1>a DEF QueueRetry, Send, Trouble
<1>4. TypeOK'
  BY <1>1, <1>2, <1>3 DEF BaseInv, TypeOK, QueueRetry, worker, rows
<1>5. \A b \in Clients : ClientKnows(b)'
  BY <1>a DEF BaseInv, ClientKnows, QueueRetry, NoClient
<1> QED BY <1>4, <1>5 DEF BaseInv, QueueRetry, worker, UnderWay

(* ToggleSubscription keeps the base invariant. *)
LEMMA BaseToggleSubscription ==
  ASSUME BaseInv, NEW s \in Subs, ToggleSubscription(s)
  PROVE  BaseInv'
<1>1. budget' \in [retries : Nat, faults : Nat, crashes : Nat, edits : Nat]
  <2>1. budget \in [retries : Nat, faults : Nat, crashes : Nat, edits : Nat]
    BY DEF BaseInv, TypeOK
  <2> QED BY <2>1 DEF ToggleSubscription, Trouble
<1>2. sub' \in [Subs -> {"enabled", "disabled", "deleted"}]
  BY DEF BaseInv, TypeOK, ToggleSubscription
<1>3. TypeOK'
  BY <1>1, <1>2 DEF BaseInv, TypeOK, ToggleSubscription, worker, rows
<1> QED BY <1>3 DEF BaseInv, ToggleSubscription, worker, UnderWay, ClientKnows

(* DeleteSubscription keeps the base invariant. *)
LEMMA BaseDeleteSubscription ==
  ASSUME BaseInv, NEW s \in Subs, DeleteSubscription(s)
  PROVE  BaseInv'
<1>1. budget' \in [retries : Nat, faults : Nat, crashes : Nat, edits : Nat]
  <2>1. budget \in [retries : Nat, faults : Nat, crashes : Nat, edits : Nat]
    BY DEF BaseInv, TypeOK
  <2> QED BY <2>1 DEF DeleteSubscription, Trouble
<1>2. /\ sub' \in [Subs -> {"enabled", "disabled", "deleted"}]
      /\ delivery' \in [Deliveries -> Row]
  BY NoMemType DEF BaseInv, TypeOK, DeleteSubscription
<1>3. TypeOK'
  BY <1>1, <1>2 DEF BaseInv, TypeOK, DeleteSubscription, worker
<1> QED BY <1>3 DEF BaseInv, DeleteSubscription, worker, UnderWay, ClientKnows

(* DeleteIssue keeps the base invariant. *)
LEMMA BaseDeleteIssue ==
  ASSUME BaseInv, NEW i \in DOMAIN issues, DeleteIssue(i)
  PROVE  BaseInv'
<1>1. budget' \in [retries : Nat, faults : Nat, crashes : Nat, edits : Nat]
  <2>1. budget \in [retries : Nat, faults : Nat, crashes : Nat, edits : Nat]
    BY DEF BaseInv, TypeOK
  <2> QED BY <2>1 DEF DeleteIssue, Trouble
<1>2. /\ issues' \in Seq(Issue)
      /\ excused' \subseteq Deliveries
  <2>1. issues \in Seq(Issue) /\ excused \subseteq Deliveries
    BY DEF BaseInv, TypeOK
  <2>2. issues[i] \in Issue
    BY <2>1, SeqElement
  <2>3. [issues[i] EXCEPT !.gone = TRUE] \in Issue
    BY <2>2 DEF Issue
  <2>4. issues[i].of \in Deliveries
    BY <2>2 DEF Issue
  <2>5. issues' = [issues EXCEPT ![i] = [issues[i] EXCEPT !.gone = TRUE]]
    BY DEF DeleteIssue
  <2>6. issues' \in Seq(Issue)
    BY <2>1, <2>3, <2>5
  <2> QED BY <2>1, <2>4, <2>6 DEF DeleteIssue
<1>3. TypeOK'
  BY <1>1, <1>2 DEF BaseInv, TypeOK, DeleteIssue, worker, rows
<1> QED BY <1>3 DEF BaseInv, DeleteIssue, worker, UnderWay, ClientKnows

(* MoveSubscription keeps the base invariant. *)
LEMMA BaseMoveSubscription ==
  ASSUME BaseInv, NEW s \in Subs, MoveSubscription(s)
  PROVE  BaseInv'
<1>1. budget' \in [retries : Nat, faults : Nat, crashes : Nat, edits : Nat]
  <2>1. budget \in [retries : Nat, faults : Nat, crashes : Nat, edits : Nat]
    BY DEF BaseInv, TypeOK
  <2> QED BY <2>1 DEF MoveSubscription, Trouble
<1>2. /\ issues' \in Seq(Issue)
      /\ excused' \subseteq Deliveries
  <2>1. /\ issues \in Seq(Issue) /\ excused \subseteq Deliveries
        /\ Len(issues) \in Nat /\ DOMAIN issues = 1..Len(issues)
    BY LenProperties DEF BaseInv, TypeOK
  <2>2. \A i \in DOMAIN issues : issues[i] \in Issue
    BY <2>1, SeqElement
  <2>3. \A i \in DOMAIN issues :
          /\ [issues[i] EXCEPT !.away = ~@] \in Issue
          /\ issues[i].of \in Deliveries
    BY <2>2 DEF Issue
  <2> DEFINE moved(i) == IF issues[i].of[2] = s
                         THEN [issues[i] EXCEPT !.away = ~@] ELSE issues[i]
  <2>4. issues' = [i \in 1..Len(issues) |-> moved(i)]
    BY <2>1 DEF MoveSubscription
  <2>5. \A i \in 1..Len(issues) : moved(i) \in Issue
    BY <2>1, <2>2, <2>3
  <2> HIDE DEF moved
  <2>6. issues' \in Seq(Issue)
    BY <2>1, <2>4, <2>5
  <2> QED BY <2>1, <2>3, <2>6 DEF MoveSubscription
<1>3. TypeOK'
  BY <1>1, <1>2 DEF BaseInv, TypeOK, MoveSubscription, worker, rows
<1> QED BY <1>3 DEF BaseInv, MoveSubscription, worker, UnderWay, ClientKnows

(* Expire keeps the base invariant. *)
LEMMA BaseExpire ==
  ASSUME BaseInv, NEW m \in Message, Expire(m)
  PROVE  BaseInv'
<1>1. TypeOK'
  BY DEF BaseInv, TypeOK, Expire, worker, rows, others
<1> QED BY <1>1
           DEF BaseInv, Expire, worker, rows, others, UnderWay, ClientKnows

(* Overrun keeps the base invariant. *)
LEMMA BaseOverrun ==
  ASSUME BaseInv, NEW m \in Message, Overrun(m)
  PROVE  BaseInv'
<1>1. budget' \in [retries : Nat, faults : Nat, crashes : Nat, edits : Nat]
  <2>1. budget \in [retries : Nat, faults : Nat, crashes : Nat, edits : Nat]
    BY DEF BaseInv, TypeOK
  <2> QED BY <2>1 DEF Overrun, Trouble
<1>2. excused' \subseteq Deliveries /\ locks' \subseteq Message
  BY DEF BaseInv, TypeOK, Overrun
<1>3. TypeOK'
  BY <1>1, <1>2 DEF BaseInv, TypeOK, Overrun, worker, rows
<1> QED BY <1>3 DEF BaseInv, Overrun, worker, UnderWay, ClientKnows

(* A stutter changes nothing. *)
LEMMA BaseStutter ==
  ASSUME BaseInv, UNCHANGED vars
  PROVE  BaseInv'
BY DEF BaseInv, TypeOK, UnderWay, ClientKnows, vars

(* The base invariant is inductive. *)
LEMMA BaseStep == BaseInv /\ [Next]_vars => BaseInv'
<1> SUFFICES ASSUME BaseInv, [Next]_vars PROVE BaseInv'
  OBVIOUS
<1>1. ASSUME NEW w \in Workers, WorkerStep(w) PROVE BaseInv'
  BY <1>1, BaseTake, BaseSkip, BaseStartEvent, BaseListSubscriptions,
     BaseOpenDelivery, BaseReopenDelivery, BaseFinishEvent, BaseAbortEvent,
     BasePlanDelivery, BaseCallFails, BaseUpdateIssue, BaseUpdateMistaken,
     BaseCreateIssue,
     BaseCreateUnanswered, BaseSaveDelivery, BaseFailDelivery,
     BaseLoadDelivery, BaseRetryDelivery, BaseCountFailed, BaseSettleEvent,
     BaseFailEvent, BaseFailRetry, BaseRelease
     DEF WorkerStep
<1>2. ASSUME NEW c \in Clients, ClientStep(c) PROVE BaseInv'
  BY <1>2, BaseMarkEvent, BaseQueueRetry DEF ClientStep
<1>3. ASSUME Environment PROVE BaseInv'
  BY <1>3, BasePublish, BaseRequestDelivery, BaseRequestEvent,
     BaseToggleSubscription, BaseDeleteSubscription, BaseDeleteIssue,
     BaseMoveSubscription, BaseCrash, BaseExpire, BaseOverrun
     DEF Environment
<1> QED BY <1>1, <1>2, <1>3, BaseStutter DEF Next

-----------------------------------------------------------------------------
(* What the steps of a worker do *)

(* What the steps of a worker do to the rows and to its memory *)
OthersStay(w) ==
  \A v \in Workers \ {w} : pc'[v] = pc[v] /\ msg'[v] = msg[v] /\ mem'[v] = mem[v]

(* The row of d is written, and no other. *)
Writes(d, status, issue, retry) ==
  /\ \A c \in Deliveries \ {d} : delivery'[c] = delivery[c]
  /\ delivery'[d].status = status
  /\ delivery'[d].issue = issue
  /\ delivery'[d].retry = retry

(* A row is written as a whole. *)
LEMMA WriteRow ==
  ASSUME delivery \in [Deliveries -> Row], NEW d \in Deliveries, NEW r,
         delivery' = [delivery EXCEPT ![d] = r]
  PROVE  Writes(d, r.status, r.issue, r.retry)
BY DEF Writes

(* The parts of the type invariant that most steps need. *)
LEMMA Types ==
  ASSUME BaseInv
  PROVE  /\ delivery \in [Deliveries -> Row] /\ mem \in [Workers -> Mem]
         /\ pc \in [Workers -> Labels] /\ msg \in [Workers -> Message \cup {None}]
         /\ event \in [Events -> EventRow]
BY DEF BaseInv, TypeOK

(* ReopenDelivery keeps the issue and the retry flag of the row. *)
LEMMA ReopenEffect ==
  ASSUME BaseInv, NEW w \in Workers, ReopenDelivery(w)
  PROVE  LET d == mem[w].cur IN
         /\ OthersStay(w) /\ mem' = mem /\ msg' = msg
         /\ \/ ~Exists(d) /\ pc'[w] = "abort" /\ delivery' = delivery
            \/ /\ Exists(d) /\ pc'[w] = "plan"
               /\ Writes(d, "pending", delivery[d].issue, delivery[d].retry)
<1>1. mem[w].cur \in Deliveries
  BY AtWork DEF ReopenDelivery
<1> QED BY <1>1, Types DEF ReopenDelivery, Goto, Gone, OthersStay, Writes, Row

(* SaveDelivery writes the copy of the row. *)
LEMMA SaveEffect ==
  ASSUME BaseInv, NEW w \in Workers, SaveDelivery(w)
  PROVE  LET d == mem[w].cur IN
         /\ OthersStay(w) /\ msg' = msg
         /\ \/ ~Exists(d) /\ pc'[w] = "fail" /\ delivery' = delivery /\ mem' = mem
            \/ /\ Exists(d) /\ mem'[w].cur = None
               /\ mem'[w].todo = mem[w].todo /\ mem'[w].failed = mem[w].failed
               /\ mem'[w].won = TRUE /\ mem'[w].any = mem[w].any
               /\ pc'[w] = IF IsEventTask(msg[w]) THEN "open" ELSE "count"
               /\ Writes(d, "success", mem[w].row.issue, mem[w].row.retry)
<1>1. mem[w].cur \in Deliveries /\ mem[w].row \in Row
  BY AtWork DEF SaveDelivery
<1> QED BY <1>1, Types
           DEF SaveDelivery, Goto, Gone, OthersStay, Writes, Mem, Row

(* FailDelivery keeps the issue and writes the retry flag of the copy. *)
LEMMA FailEffect ==
  ASSUME BaseInv, NEW w \in Workers, FailDelivery(w)
  PROVE  LET d == mem[w].cur IN
         /\ OthersStay(w) /\ msg' = msg
         /\ \/ /\ ~IsEventTask(msg[w]) /\ pc'[w] = "failEvent"
               /\ delivery' = delivery /\ mem' = mem
            \/ /\ IsEventTask(msg[w]) /\ ~Exists(d) /\ pc'[w] = "abort"
               /\ delivery' = delivery /\ mem' = mem
            \/ /\ IsEventTask(msg[w]) /\ Exists(d) /\ pc'[w] = "open"
               /\ mem'[w].cur = None /\ mem'[w].failed = TRUE
               /\ mem'[w].todo = mem[w].todo
               /\ mem'[w].won = mem[w].won /\ mem'[w].any = mem[w].any
               /\ Writes(d, "failed", delivery[d].issue, mem[w].row.retry)
<1>1. mem[w].cur \in Deliveries /\ mem[w].row \in Row /\ mem[w] \in Mem
  BY AtWork DEF FailDelivery
<1>2. delivery[mem[w].cur] \in Row
  BY <1>1, Types
<1> DEFINE d == mem[w].cur
           b == mem[w].row.retry
           r == [delivery[d] EXCEPT !.status = "failed", !.retry = b]
           m == [mem[w] EXCEPT !.failed = TRUE, !.cur = None]
<1>3. r.status = "failed" /\ r.issue = delivery[d].issue /\ r.retry = b
  BY <1>1, <1>2 DEF Row
<1>4. /\ m.cur = None /\ m.failed = TRUE /\ m.todo = mem[w].todo
      /\ m.won = mem[w].won /\ m.any = mem[w].any
  BY <1>1 DEF Mem
<1>5. \/ ~IsEventTask(msg[w]) /\ pc'[w] = "failEvent" /\ delivery' = delivery /\ mem' = mem
      \/ /\ IsEventTask(msg[w]) /\ ~Exists(d) /\ pc'[w] = "abort"
         /\ delivery' = delivery /\ mem' = mem
      \/ /\ IsEventTask(msg[w]) /\ Exists(d) /\ pc'[w] = "open"
         /\ delivery' = [delivery EXCEPT ![d] = r] /\ mem' = [mem EXCEPT ![w] = m]
  BY Types DEF FailDelivery, Goto, Gone
<1>6. OthersStay(w) /\ msg' = msg
  BY Types DEF FailDelivery, Goto, OthersStay
<1> HIDE DEF r, m, b
<1> QED BY <1>1, <1>3, <1>4, <1>5, <1>6, Types DEF Writes, b

(* RetryDelivery marks the row as retried. *)
LEMMA RetryEffect ==
  ASSUME BaseInv, NEW w \in Workers, RetryDelivery(w)
  PROVE  LET d == mem[w].cur IN
         /\ OthersStay(w) /\ msg' = msg /\ mem' = mem
         /\ \/ ~Exists(d) /\ pc'[w] = "release" /\ delivery' = delivery
            \/ /\ Exists(d) /\ pc'[w] = "plan"
               /\ Writes(d, "pending", delivery[d].issue, TRUE)
<1>1. mem[w].cur \in Deliveries
  BY AtWork DEF RetryDelivery
<1> DEFINE d == mem[w].cur
           r == [delivery[d] EXCEPT !.status = "pending", !.retry = TRUE]
<1>2. r.status = "pending" /\ r.issue = delivery[d].issue /\ r.retry = TRUE
  BY <1>1, Types DEF Row
<1>3. \/ ~Exists(d) /\ pc'[w] = "release" /\ delivery' = delivery
      \/ Exists(d) /\ pc'[w] = "plan" /\ delivery' = [delivery EXCEPT ![d] = r]
  BY Types DEF RetryDelivery, Goto, Gone
<1>4. OthersStay(w) /\ msg' = msg /\ mem' = mem
  BY Types DEF RetryDelivery, Goto, OthersStay
<1> HIDE DEF r
<1> QED BY <1>1, <1>2, <1>3, <1>4, Types DEF Writes

(* FailRetry keeps the issue and the retry flag. *)
LEMMA FailRetryEffect ==
  ASSUME BaseInv, NEW w \in Workers, FailRetry(w)
  PROVE  LET d == mem[w].cur IN
         /\ OthersStay(w) /\ msg' = msg /\ mem' = mem /\ pc'[w] = "release"
         /\ \/ ~Exists(d) /\ delivery' = delivery
            \/ Exists(d) /\ Writes(d, "failed", delivery[d].issue, delivery[d].retry)
<1>1. mem[w].cur \in Deliveries
  BY AtWork DEF FailRetry
<1> QED BY <1>1, Types DEF FailRetry, Goto, Gone, OthersStay, Writes, Row

(* LoadDelivery copies the row and marks the copy as retried. *)
LEMMA LoadEffect ==
  ASSUME BaseInv, NEW w \in Workers, LoadDelivery(w)
  PROVE  LET d == msg[w].delivery IN
         /\ OthersStay(w) /\ msg' = msg /\ delivery' = delivery
         /\ d \in Deliveries /\ ~IsEventTask(msg[w])
         /\ \/ ~Exists(d) /\ pc'[w] = "release" /\ mem' = mem /\ excused' = excused
            \/ /\ Exists(d) /\ pc'[w] = "retry" /\ mem'[w].cur = d
               /\ mem'[w].row.issue = delivery[d].issue /\ mem'[w].row.retry = TRUE
               /\ Excuse(w, d)
<1>1. msg[w].delivery \in Deliveries /\ ~IsEventTask(msg[w])
  BY AtWork DEF LoadDelivery
<1>2. delivery[msg[w].delivery] \in Row
  BY <1>1, Types
<1> DEFINE d == msg[w].delivery
           r == [delivery[d] EXCEPT !.retry = TRUE]
           m == [mem[w] EXCEPT !.cur = d, !.row = r]
<1>3. r.issue = delivery[d].issue /\ r.retry = TRUE
  BY <1>2 DEF Row
<1>4. m.cur = d /\ m.row = r
  <2> HIDE DEF d, r
  <2> QED BY Types DEF Mem
<1>5. \/ ~Exists(d) /\ pc'[w] = "release" /\ mem' = mem /\ excused' = excused
      \/ /\ Exists(d) /\ pc'[w] = "retry" /\ mem' = [mem EXCEPT ![w] = m]
         /\ Excuse(w, d)
  BY Types DEF LoadDelivery, Goto
<1>6. OthersStay(w) /\ msg' = msg /\ delivery' = delivery
  BY Types DEF LoadDelivery, Goto, OthersStay, rows
<1> HIDE DEF m, r
<1> QED BY <1>1, <1>3, <1>4, <1>5, <1>6, Types

(* UpdateIssue goes on with the reference, or creates when it is gone or in  *)
(* a repository that was left.                                               *)
LEMMA UpdateEffect ==
  ASSUME BaseInv, NEW w \in Workers, UpdateIssue(w)
  PROVE  /\ OthersStay(w) /\ msg' = msg
         /\ \/ /\ issues[mem[w].ref].gone \/ issues[mem[w].ref].away
               /\ pc'[w] = "create" /\ mem' = mem
            \/ /\ pc'[w] = "save"
               /\ mem'[w].cur = mem[w].cur /\ mem'[w].failed = mem[w].failed
               /\ mem'[w].todo = mem[w].todo
               /\ mem'[w].won = mem[w].won /\ mem'[w].any = mem[w].any
               /\ mem'[w].ref = mem[w].ref
               /\ mem'[w].row.issue = mem[w].ref /\ mem'[w].row.retry = mem[w].row.retry
<1>1. mem[w] \in Mem /\ mem[w].row \in Row
  BY AtWork
<1> QED BY <1>1, Types DEF UpdateIssue, Goto, OthersStay, Mem, Row

(* UpdateMistaken goes on to create. *)
LEMMA MistakenEffect ==
  ASSUME BaseInv, NEW w \in Workers, UpdateMistaken(w)
  PROVE  /\ OthersStay(w) /\ msg' = msg /\ mem' = mem
         /\ pc[w] = "update" /\ pc'[w] = "create"
BY Types DEF UpdateMistaken, Goto, OthersStay

(* CreateIssue records the new issue in the copy of the row. *)
LEMMA CreateEffect ==
  ASSUME BaseInv, NEW w \in Workers, CreateIssue(w)
  PROVE  /\ OthersStay(w) /\ msg' = msg /\ pc'[w] = "save"
         /\ mem'[w].cur = mem[w].cur /\ mem'[w].failed = mem[w].failed
         /\ mem'[w].todo = mem[w].todo
         /\ mem'[w].won = mem[w].won /\ mem'[w].any = mem[w].any
         /\ mem'[w].row.issue = Len(issues) + 1 /\ mem'[w].row.retry = mem[w].row.retry
<1>1. mem[w] \in Mem /\ mem[w].row \in Row
  BY AtWork
<1> QED BY <1>1, Types DEF CreateIssue, Goto, OthersStay, Mem, Row

(* PlanDelivery writes the plan and adopts the issue of an update. *)
LEMMA PlanEffect ==
  ASSUME BaseInv, NEW w \in Workers, PlanDelivery(w)
  PROVE  LET d == mem[w].cur
             row == mem[w].row
             plan == PlanFor(d, row) IN
         /\ OthersStay(w) /\ msg' = msg /\ d \in Deliveries
         /\ \/ ~Exists(d) /\ pc'[w] = "fail" /\ delivery' = delivery /\ mem' = mem
            \/ \E adopted \in Nat \cup {None} :
               /\ Exists(d)
               /\ adopted = IF plan.action = "update" /\ row.issue = None
                            THEN plan.ref ELSE row.issue
               /\ pc'[w] = IF plan.action = "update" THEN "update" ELSE "create"
               /\ Writes(d, "processing", adopted, row.retry)
               /\ mem'[w].row.issue = adopted /\ mem'[w].row.retry = row.retry
               /\ mem'[w].cur = d /\ mem'[w].ref = plan.ref /\ mem'[w].links = plan.links
               /\ mem'[w].failed = mem[w].failed /\ mem'[w].todo = mem[w].todo
               /\ mem'[w].won = mem[w].won /\ mem'[w].any = mem[w].any
<1>1. mem[w] \in Mem /\ mem[w].row \in Row /\ mem[w].cur \in Deliveries
  BY AtWork DEF PlanDelivery
<1>2. OthersStay(w) /\ msg' = msg
  BY Types DEF PlanDelivery, Goto, OthersStay
<1> DEFINE d == mem[w].cur
           row == mem[w].row
           plan == PlanFor(d, row)
           action == plan.action
           ref == plan.ref
           links == plan.links
           adopted == IF action = "update" /\ row.issue = None THEN ref ELSE row.issue
           r == [row EXCEPT !.status = "processing", !.issue = adopted]
           m == [mem[w] EXCEPT !.row = r, !.action = action, !.ref = ref, !.links = links]
<1>3. \/ ~Exists(d) /\ pc'[w] = "fail" /\ delivery' = delivery /\ mem' = mem
      \/ /\ Exists(d) /\ mem' = [mem EXCEPT ![w] = m]
         /\ delivery' = [delivery EXCEPT ![d] = r]
         /\ pc'[w] = IF action = "update" THEN "update" ELSE "create"
  BY Types DEF PlanDelivery, Goto, Gone
<1>4. ref \in Nat \cup {None}
  BY <1>1, PlanTypes
<1>5. adopted \in Nat \cup {None}
  <2> HIDE DEF ref, action
  <2> QED BY <1>1, <1>4 DEF Row
<1>6. r.status = "processing" /\ r.issue = adopted /\ r.retry = row.retry
  <2> HIDE DEF adopted
  <2> QED BY <1>1 DEF Row
<1>7. /\ m.row = r /\ m.cur = d /\ m.ref = ref /\ m.links = links
      /\ m.failed = mem[w].failed /\ m.todo = mem[w].todo
      /\ m.won = mem[w].won /\ m.any = mem[w].any
  <2> HIDE DEF r, action, ref, links
  <2> QED BY <1>1 DEF Mem
<1>8. Exists(d) => mem'[w] = m
  <2> HIDE DEF m
  <2> QED BY <1>3, Types
<1> HIDE DEF m
<1>9. CASE Exists(d)
  <2>1. Writes(d, "processing", adopted, row.retry)
    <3>1. /\ delivery' = [delivery EXCEPT ![d] = r] /\ d \in Deliveries
          /\ delivery \in [Deliveries -> Row]
      BY <1>1, <1>3, <1>9, Types
    <3>2. Writes(d, r.status, r.issue, r.retry)
      <4> HIDE DEF d, r
      <4> QED BY <3>1, WriteRow
    <3> QED BY <1>6, <3>2
  <2>2. mem'[w] = m /\ pc'[w] = IF action = "update" THEN "update" ELSE "create"
    BY <1>3, <1>8, <1>9
  <2>3. /\ mem'[w].row.issue = adopted /\ mem'[w].row.retry = row.retry
        /\ mem'[w].cur = d /\ mem'[w].ref = ref /\ mem'[w].links = links
        /\ mem'[w].failed = mem[w].failed /\ mem'[w].todo = mem[w].todo
        /\ mem'[w].won = mem[w].won /\ mem'[w].any = mem[w].any
    <3> HIDE DEF d, r, adopted, ref, links, row
    <3> QED BY <1>6, <1>7, <2>2
  <2> HIDE DEF m, r
  <2> QED BY <1>1, <1>2, <1>5, <1>9, <2>1, <2>2, <2>3
<1> QED BY <1>1, <1>2, <1>3, <1>9

-----------------------------------------------------------------------------
(* How the rows, the issues and the memories may change *)

Known(x) == event[x].status # "none"

EventsStay ==
  \A x \in Events : Known(x) =>
    /\ event'[x].status # "none"
    /\ event'[x].email = event[x].email /\ event'[x].retried = event[x].retried

IssuesStay ==
  \A i \in DOMAIN issues :
    /\ i \in DOMAIN issues'
    /\ issues'[i].of = issues[i].of /\ issues'[i].links = issues[i].links

(* A status other than none keeps an event. *)
LEMMA SetEventStays ==
  ASSUME BaseInv, NEW x \in Events, NEW s, s # "none", SetEvent(x, s)
  PROVE  EventsStay
BY Types DEF SetEvent, EventsStay, EventRow, Known

(* These steps of a worker leave the events alone. *)
LEMMA EventUntouched ==
  ASSUME NEW w,
         \/ \E m \in Message : Take(w, m) \/ Skip(w, m)
         \/ ListSubscriptions(w) \/ OpenDelivery(w) \/ ReopenDelivery(w)
         \/ PlanDelivery(w) \/ CallFails(w) \/ UpdateIssue(w)
         \/ UpdateMistaken(w) \/ CreateIssue(w) \/ CreateUnanswered(w)
         \/ SaveDelivery(w) \/ FailDelivery(w)
         \/ LoadDelivery(w) \/ RetryDelivery(w) \/ CountFailed(w)
         \/ FailRetry(w) \/ Release(w) \/ Crash(w)
  PROVE  event' = event
BY DEF Take, Skip, ListSubscriptions, OpenDelivery, ReopenDelivery,
       PlanDelivery, CallFails, UpdateIssue, UpdateMistaken, CreateIssue,
       CreateUnanswered, SaveDelivery, FailDelivery, LoadDelivery,
       RetryDelivery, CountFailed, FailRetry, Release, Crash, rows

(* Every step keeps published events, their emails and their triggers. *)
LEMMA EventStep ==
  ASSUME BaseInv, [Next]_vars
  PROVE  EventsStay
<1>1. event' = event => EventsStay
  BY DEF EventsStay, Known
<1>2. ASSUME NEW w \in Workers, WorkerStep(w) PROVE EventsStay
  <2>1. StartEvent(w) => EventsStay
    BY AtWork, SetEventStays DEF StartEvent
  <2>2. FinishEvent(w) => EventsStay
    BY AtWork, SetEventStays DEF FinishEvent, EventVerdict
  <2>3. AbortEvent(w) => EventsStay
    BY AtWork, SetEventStays DEF AbortEvent
  <2>4. SettleEvent(w) => EventsStay
    BY AtWork, SetEventStays DEF SettleEvent
  <2>5. FailEvent(w) => EventsStay
    BY AtWork, SetEventStays DEF FailEvent
  <2> QED BY <1>1, <1>2, <2>1, <2>2, <2>3, <2>4, <2>5, EventUntouched
             DEF WorkerStep
<1>3. ASSUME NEW c \in Clients, ClientStep(c) PROVE EventsStay
  <2>1. QueueRetry(c) => event' = event
    BY DEF QueueRetry, rows
  <2>2. MarkEvent(c) => EventsStay
    <3>1. MarkEvent(c) => EventOf(client[c].target) \in Events
      BY MessageFacts, DeliveryFacts
         DEF BaseInv, TypeOK, ClientKnows, MarkEvent, EventOf
    <3> QED BY <3>1, SetEventStays DEF MarkEvent
  <2> QED BY <1>1, <1>3, <2>1, <2>2 DEF ClientStep
<1>4. ASSUME Environment PROVE EventsStay
  <2>1. ASSUME NEW x \in Events, Publish(x) PROVE EventsStay
    BY <2>1, Types DEF Publish, EventsStay, Known
  <2>2. ASSUME NEW c \in Clients, NEW d \in Deliveries, RequestDelivery(c, d)
        PROVE  event' = event
    BY <2>2 DEF RequestDelivery
  <2>3. ASSUME NEW c \in Clients, NEW x \in Events, RequestEvent(c, x)
        PROVE  event' = event
    BY <2>3 DEF RequestEvent, rows
  <2>4. ASSUME NEW s \in Subs, \/ ToggleSubscription(s) \/ DeleteSubscription(s)
                                \/ MoveSubscription(s)
        PROVE  event' = event
    BY <2>4 DEF ToggleSubscription, DeleteSubscription, MoveSubscription, rows
  <2>5. ASSUME NEW i \in DOMAIN issues, DeleteIssue(i) PROVE event' = event
    BY <2>5 DEF DeleteIssue, rows
  <2>6. ASSUME NEW m \in Message, Expire(m) \/ Overrun(m) PROVE event' = event
    BY <2>6 DEF Expire, Overrun, rows
  <2> QED BY <1>1, <1>4, <2>1, <2>2, <2>3, <2>4, <2>5, <2>6, EventUntouched
             DEF Environment
<1>5. UNCHANGED vars => event' = event
  BY DEF vars
<1> QED BY <1>1, <1>2, <1>3, <1>4, <1>5 DEF Next

(* These steps of a worker leave the issues alone. *)
LEMMA IssuesUntouched ==
  ASSUME NEW w,
         \/ \E m \in Message : Take(w, m) \/ Skip(w, m)
         \/ StartEvent(w) \/ ListSubscriptions(w) \/ OpenDelivery(w)
         \/ ReopenDelivery(w) \/ FinishEvent(w) \/ AbortEvent(w)
         \/ PlanDelivery(w) \/ CallFails(w) \/ UpdateIssue(w)
         \/ UpdateMistaken(w) \/ SaveDelivery(w) \/ FailDelivery(w)
         \/ LoadDelivery(w) \/ RetryDelivery(w) \/ CountFailed(w) \/ SettleEvent(w)
         \/ FailEvent(w) \/ FailRetry(w) \/ Release(w) \/ Crash(w)
  PROVE  issues' = issues
BY DEF Take, Skip, StartEvent, ListSubscriptions, OpenDelivery, ReopenDelivery,
       FinishEvent, AbortEvent, SettleEvent, FailEvent, PlanDelivery,
       CallFails, UpdateIssue, UpdateMistaken, SaveDelivery, FailDelivery,
       LoadDelivery, RetryDelivery, CountFailed, FailRetry, Release, Crash

(* The issues have their types. *)
LEMMA IssueTypes ==
  ASSUME BaseInv
  PROVE  /\ Len(issues) \in Nat /\ DOMAIN issues = 1..Len(issues)
         /\ \A i \in DOMAIN issues :
              /\ issues[i].of \in Deliveries /\ issues[i].links \in SUBSET Nat
              /\ issues[i] \in Issue
<1>1. issues \in Seq(Issue)
  BY DEF BaseInv, TypeOK
<1>2. Len(issues) \in Nat /\ DOMAIN issues = 1..Len(issues)
  BY <1>1, LenProperties
<1>3. \A i \in DOMAIN issues : issues[i] \in Issue
  BY <1>1, SeqElement
<1> QED BY <1>2, <1>3 DEF Issue

(* The issue that worker w makes *)
Makes(w) ==
  /\ DOMAIN issues' = 1..(Len(issues) + 1)
  /\ \A i \in DOMAIN issues : issues'[i] = issues[i]
  /\ issues'[Len(issues) + 1].of = mem[w].cur
  /\ issues'[Len(issues) + 1].links = mem[w].links
  /\ issues'[Len(issues) + 1].gone = FALSE
  /\ issues'[Len(issues) + 1].away = FALSE

(* A creation adds the issue of the delivery at work. *)
LEMMA NewIssueMakes ==
  ASSUME BaseInv, NEW w \in Workers, NewIssue(w), pc[w] = "create"
  PROVE  Makes(w)
<1> DEFINE new == [of |-> mem[w].cur, links |-> mem[w].links, gone |-> FALSE,
                   away |-> FALSE]
<1>1. issues \in Seq(Issue) /\ new \in Issue
  BY AtWork DEF BaseInv, TypeOK, Mem, Issue
<1>2. issues' = Append(issues, new)
  BY DEF NewIssue
<1>3. /\ Len(issues) \in Nat /\ DOMAIN issues = 1..Len(issues)
      /\ Len(issues') = Len(issues) + 1 /\ DOMAIN issues' = 1..(Len(issues) + 1)
      /\ \A i \in 1..Len(issues) : issues'[i] = issues[i]
      /\ issues'[Len(issues) + 1] = new
  <2> HIDE DEF new
  <2> QED BY <1>1, <1>2, AppendProperties, LenProperties
<1> QED BY <1>3 DEF Makes

(* Issues change when one is deleted or made or a subscription moves, and    *)
(* only then.                                                                *)
LEMMA IssueCases ==
  ASSUME BaseInv, [Next]_vars
  PROVE  \/ issues' = issues
         \/ \E i \in DOMAIN issues : DeleteIssue(i)
         \/ \E s \in Subs : MoveSubscription(s)
         \/ \E w \in Workers : /\ CreateIssue(w) \/ CreateUnanswered(w)
                               /\ pc[w] = "create" /\ Makes(w)
<1>1. ASSUME NEW w \in Workers, CreateIssue(w) \/ CreateUnanswered(w)
      PROVE  pc[w] = "create" /\ Makes(w)
  BY <1>1, NewIssueMakes DEF CreateIssue, CreateUnanswered
<1>2. ASSUME NEW c \in Clients, ClientStep(c) PROVE issues' = issues
  BY <1>2 DEF ClientStep, MarkEvent, QueueRetry
<1>3. ASSUME NEW x \in Events, Publish(x) PROVE issues' = issues
  BY <1>3 DEF Publish
<1>4. ASSUME NEW c \in Clients, NEW d \in Deliveries, RequestDelivery(c, d)
      PROVE  issues' = issues
  BY <1>4 DEF RequestDelivery
<1>5. ASSUME NEW c \in Clients, NEW x \in Events, RequestEvent(c, x)
      PROVE  issues' = issues
  BY <1>5 DEF RequestEvent
<1>6. ASSUME NEW s \in Subs, ToggleSubscription(s) \/ DeleteSubscription(s)
      PROVE  issues' = issues
  BY <1>6 DEF ToggleSubscription, DeleteSubscription
<1>7. ASSUME NEW m \in Message, Expire(m) \/ Overrun(m) PROVE issues' = issues
  BY <1>7 DEF Expire, Overrun
<1>8. UNCHANGED vars => issues' = issues
  BY DEF vars
<1>9. ASSUME NEW w \in Workers, WorkerStep(w)
      PROVE  issues' = issues \/ CreateIssue(w) \/ CreateUnanswered(w)
  BY <1>9, IssuesUntouched DEF WorkerStep
<1>10. ASSUME Environment
       PROVE  \/ issues' = issues \/ \E i \in DOMAIN issues : DeleteIssue(i)
              \/ \E s \in Subs : MoveSubscription(s)
  BY <1>10, <1>3, <1>4, <1>5, <1>6, <1>7, IssuesUntouched DEF Environment
<1> QED BY <1>1, <1>2, <1>8, <1>9, <1>10 DEF Next

(* A subscription that moves marks its issues, and no others. *)
LEMMA Moved ==
  ASSUME BaseInv, NEW s, MoveSubscription(s)
  PROVE  /\ DOMAIN issues' = DOMAIN issues
         /\ \A i \in DOMAIN issues :
              /\ issues'[i].of = issues[i].of /\ issues'[i].links = issues[i].links
              /\ issues'[i].gone = issues[i].gone
              /\ issues'[i] = issues[i] \/ issues[i].of \in excused'
<1>1. issues' = [i \in DOMAIN issues |->
        IF issues[i].of[2] = s THEN [issues[i] EXCEPT !.away = ~@] ELSE issues[i]]
  BY DEF MoveSubscription
<1>2. \A i \in DOMAIN issues :
        issues[i] \in [of : Deliveries, links : SUBSET Nat, gone : BOOLEAN,
                       away : BOOLEAN]
  BY IssueTypes DEF Issue
<1>3. \A i \in DOMAIN issues : issues[i].of[2] = s => issues[i].of \in excused'
  BY DEF MoveSubscription
<1> QED BY <1>1, <1>2, <1>3

(* Every step keeps the issues that were made. *)
LEMMA IssueStep ==
  ASSUME BaseInv, [Next]_vars
  PROVE  /\ IssuesStay
         /\ \/ DOMAIN issues' = DOMAIN issues
            \/ \E w \in Workers : pc[w] = "create" /\ Makes(w)
<1>1. issues' = issues => IssuesStay
  BY DEF IssuesStay
<1>2. ASSUME NEW w \in Workers, pc[w] = "create", Makes(w) PROVE IssuesStay
  BY <1>2, IssueTypes DEF IssuesStay, Makes
<1>3. ASSUME NEW i \in DOMAIN issues, DeleteIssue(i)
      PROVE  IssuesStay /\ DOMAIN issues' = DOMAIN issues
  BY <1>3, IssueTypes DEF DeleteIssue, IssuesStay
<1>4. ASSUME NEW s \in Subs, MoveSubscription(s)
      PROVE  IssuesStay /\ DOMAIN issues' = DOMAIN issues
  BY <1>4, Moved DEF IssuesStay
<1> QED BY <1>1, <1>2, <1>3, <1>4, IssueCases

(* How a delivery row may change *)
RowKept(d) ==
  /\ delivery'[d].issue = delivery[d].issue
  /\ delivery'[d].status = "none" <=> delivery[d].status = "none"

RowMoves(d) ==
  \/ RowKept(d)
  \/ delivery'[d] = NoRow
  \/ \E w \in Workers :
       /\ pc[w] = "open" /\ d[1] = msg[w].event
       /\ delivery'[d].issue = None
  \/ \E w \in Workers :
       /\ mem[w].cur = d /\ Exists(d) /\ delivery'[d].status # "none"
       /\ \/ delivery'[d].issue = mem[w].row.issue
          \/ delivery'[d].issue = PlanFor(d, mem[w].row).ref

(* These steps of a worker leave the delivery rows alone. *)
LEMMA DeliveryUntouched ==
  ASSUME NEW w,
         \/ \E m \in Message : Take(w, m) \/ Skip(w, m)
         \/ StartEvent(w) \/ ListSubscriptions(w)
         \/ FinishEvent(w) \/ AbortEvent(w)
         \/ CallFails(w) \/ UpdateIssue(w) \/ UpdateMistaken(w)
         \/ CreateIssue(w) \/ CreateUnanswered(w) \/ LoadDelivery(w) \/ CountFailed(w)
         \/ SettleEvent(w) \/ FailEvent(w) \/ Release(w) \/ Crash(w)
  PROVE  delivery' = delivery
BY DEF Take, Skip, StartEvent, ListSubscriptions, FinishEvent, AbortEvent,
       CallFails, UpdateIssue, UpdateMistaken, CreateIssue, CreateUnanswered,
       LoadDelivery, CountFailed, SettleEvent, FailEvent, Release, Crash, rows

(* Every step changes a delivery row in one of those ways. *)
LEMMA DeliveryStep ==
  ASSUME BaseInv, [Next]_vars, NEW d \in Deliveries
  PROVE  RowMoves(d)
<1>1. delivery' = delivery => RowMoves(d)
  BY DEF RowMoves, RowKept
<1>2. ASSUME NEW w \in Workers, OpenDelivery(w) PROVE RowMoves(d)
  <2>1. PICK s \in mem[w].todo, m \in Mem, c \in Deliveries : OpenEffect(w, s, m, c)
    BY <1>2, Opened
  <2>2. c[1] = msg[w].event /\ pc[w] = "open"
    BY <1>2, <2>1 DEF OpenEffect, OpenDelivery
  <2>3. \/ delivery' = delivery
        \/ delivery' = [delivery EXCEPT ![c] = [NoRow EXCEPT !.status = "pending"]]
    BY <2>1 DEF OpenEffect
  <2>4. [NoRow EXCEPT !.status = "pending"].issue = None
    BY DEF NoRow
  <2>5. CASE c = d
    BY <1>1, <2>2, <2>3, <2>4, <2>5, Types DEF RowMoves
  <2>6. CASE c # d
    BY <1>1, <2>3, <2>6, Types DEF RowMoves, RowKept
  <2> QED BY <2>5, <2>6
<1>3. ASSUME NEW w \in Workers, NEW st, NEW is, NEW re, NEW c \in Deliveries,
             Writes(c, st, is, re), st # "none", Exists(c),
             \/ is = delivery[c].issue
             \/ mem[w].cur = c /\ (is = mem[w].row.issue \/ is = PlanFor(c, mem[w].row).ref)
      PROVE  RowMoves(d)
  <2>1. CASE c = d
    BY <1>3, <2>1 DEF RowMoves, RowKept, Writes, Exists
  <2>2. CASE c # d
    BY <1>3, <2>2 DEF RowMoves, RowKept, Writes
  <2> QED BY <2>1, <2>2
<1>4. ASSUME NEW w \in Workers, ReopenDelivery(w) PROVE RowMoves(d)
  BY <1>1, <1>3, <1>4, ReopenEffect, AtWork DEF ReopenDelivery
<1>5. ASSUME NEW w \in Workers, PlanDelivery(w) PROVE RowMoves(d)
  <2>1. \/ delivery' = delivery
        \/ \E is : /\ Exists(mem[w].cur)
                   /\ Writes(mem[w].cur, "processing", is, mem[w].row.retry)
                   /\ is = mem[w].row.issue \/ is = PlanFor(mem[w].cur, mem[w].row).ref
    BY <1>5, PlanEffect
  <2>2. mem[w].cur \in Deliveries
    BY <1>5, AtWork DEF PlanDelivery
  <2> QED BY <1>1, <1>3, <2>1, <2>2
<1>6. ASSUME NEW w \in Workers, SaveDelivery(w) PROVE RowMoves(d)
  BY <1>1, <1>3, <1>6, SaveEffect, AtWork DEF SaveDelivery
<1>7. ASSUME NEW w \in Workers, FailDelivery(w) PROVE RowMoves(d)
  BY <1>1, <1>3, <1>7, FailEffect, AtWork DEF FailDelivery
<1>8. ASSUME NEW w \in Workers, RetryDelivery(w) PROVE RowMoves(d)
  BY <1>1, <1>3, <1>8, RetryEffect, AtWork DEF RetryDelivery
<1>9. ASSUME NEW w \in Workers, FailRetry(w) PROVE RowMoves(d)
  BY <1>1, <1>3, <1>9, FailRetryEffect, AtWork DEF FailRetry
<1>10. ASSUME NEW w \in Workers, WorkerStep(w) PROVE RowMoves(d)
  BY <1>1, <1>2, <1>4, <1>5, <1>6, <1>7, <1>8, <1>9, <1>10, DeliveryUntouched
     DEF WorkerStep
<1>11. ASSUME NEW c \in Clients, ClientStep(c) PROVE delivery' = delivery
  BY <1>11 DEF ClientStep, MarkEvent, QueueRetry, rows
<1>12. ASSUME Environment PROVE RowMoves(d)
  <2>1. ASSUME NEW x \in Events, Publish(x) PROVE delivery' = delivery
    BY <2>1 DEF Publish
  <2>2. ASSUME NEW c \in Clients, NEW b \in Deliveries, RequestDelivery(c, b)
        PROVE  RowMoves(d)
    <3>1. delivery' = [delivery EXCEPT ![b].status = "processing", ![b].retry = TRUE]
      BY <2>2, Types DEF RequestDelivery
    <3> QED BY <2>2, Types DEF RequestDelivery, RowMoves, RowKept, Exists, Row
  <2>3. ASSUME NEW c \in Clients, NEW x \in Events, RequestEvent(c, x)
        PROVE  delivery' = delivery
    BY <2>3 DEF RequestEvent, rows
  <2>4. ASSUME NEW s \in Subs, ToggleSubscription(s) \/ MoveSubscription(s)
        PROVE  delivery' = delivery
    BY <2>4 DEF ToggleSubscription, MoveSubscription, rows
  <2>5. ASSUME NEW s \in Subs, DeleteSubscription(s) PROVE RowMoves(d)
    BY <2>5 DEF DeleteSubscription, RowMoves, RowKept
  <2>6. ASSUME NEW i \in DOMAIN issues, DeleteIssue(i) PROVE delivery' = delivery
    BY <2>6 DEF DeleteIssue, rows
  <2>7. ASSUME NEW m \in Message, Expire(m) \/ Overrun(m) PROVE delivery' = delivery
    BY <2>7 DEF Expire, Overrun, rows
  <2> QED BY <1>1, <1>12, <2>1, <2>2, <2>3, <2>4, <2>5, <2>6, <2>7,
             DeliveryUntouched
             DEF Environment
<1>13. UNCHANGED vars => delivery' = delivery
  BY DEF vars
<1> QED BY <1>1, <1>10, <1>11, <1>12, <1>13 DEF Next

(* How the memory of a worker may change *)
MemKept(w) ==
  /\ mem'[w].cur = mem[w].cur /\ mem'[w].row.issue = mem[w].row.issue
  /\ pc'[w] \in {"update", "create"} =>
       /\ pc[w] \in {"update", "create"}
       /\ mem'[w].ref = mem[w].ref /\ mem'[w].links = mem[w].links

MemMoves(w) ==
  \/ MemKept(w)
  \/ mem'[w].cur = None
  \/ /\ pc'[w] \notin {"update", "create"}
     /\ \/ mem'[w].row.issue = None
        \/ mem'[w].row.issue = delivery[mem'[w].cur].issue
  \/ /\ mem'[w].cur = mem[w].cur
     /\ mem'[w].row.issue \in {mem[w].row.issue, PlanFor(mem[w].cur, mem[w].row).ref}
     /\ mem'[w].ref = PlanFor(mem[w].cur, mem[w].row).ref
     /\ mem'[w].links = PlanFor(mem[w].cur, mem[w].row).links
  \/ /\ pc[w] = "update" /\ pc'[w] = "save" /\ mem'[w].cur = mem[w].cur
     /\ mem'[w].row.issue = mem[w].ref
  \/ /\ CreateIssue(w) /\ pc'[w] = "save" /\ mem'[w].cur = mem[w].cur
     /\ mem'[w].row.issue = Len(issues) + 1

(* A worker does not touch what another has in memory. *)
LEMMA OthersUntouched ==
  ASSUME BaseInv, NEW w \in Workers, WorkerStep(w)
  PROVE  OthersStay(w)
<1>1. ASSUME NEW m \in Message, Take(w, m) PROVE OthersStay(w)
  BY <1>1, Types DEF Take, Goto, OthersStay
<1>2. ASSUME NEW m \in Message, Skip(w, m) PROVE OthersStay(w)
  BY <1>2 DEF Skip, worker, OthersStay
<1>3. OpenDelivery(w) => OthersStay(w)
  <2> SUFFICES ASSUME OpenDelivery(w) PROVE OthersStay(w)
    OBVIOUS
  <2>1. PICK s \in mem[w].todo, m \in Mem, d \in Deliveries : OpenEffect(w, s, m, d)
    BY Opened
  <2>2. /\ mem' = [mem EXCEPT ![w] = m] /\ msg' = msg
        /\ Goto(w, "plan") \/ Goto(w, "abort") \/ Goto(w, "reopen") \/ pc' = pc
    BY <2>1 DEF OpenEffect, OpenDelivery
  <2> QED BY <2>2, Types DEF Goto, OthersStay
<1>4. StartEvent(w) => OthersStay(w)
  BY Types DEF StartEvent, Goto, OthersStay, rows, worker
<1>5. ListSubscriptions(w) => OthersStay(w)
  BY Types DEF ListSubscriptions, Goto, OthersStay, rows, worker
<1>6. FinishEvent(w) => OthersStay(w)
  BY Types DEF FinishEvent, Goto, OthersStay, rows, worker
<1>7. AbortEvent(w) => OthersStay(w)
  BY Types DEF AbortEvent, Goto, OthersStay, rows, worker
<1>8. CallFails(w) => OthersStay(w)
  BY Types DEF CallFails, Goto, OthersStay, rows, worker
<1>9. CreateUnanswered(w) => OthersStay(w)
  BY Types DEF CreateUnanswered, Goto, OthersStay, rows, worker
<1>10. CountFailed(w) => OthersStay(w)
  BY Types DEF CountFailed, Goto, OthersStay, rows, worker
<1>11. SettleEvent(w) => OthersStay(w)
  BY Types DEF SettleEvent, Goto, OthersStay, rows, worker
<1>12. FailEvent(w) => OthersStay(w)
  BY Types DEF FailEvent, Goto, OthersStay, rows, worker
<1>13. Release(w) => OthersStay(w)
  BY Types DEF Release, Goto, OthersStay, rows, worker
<1> QED BY <1>1, <1>2, <1>3, <1>4, <1>5, <1>6, <1>7, <1>8, <1>9, <1>10, <1>11,
           <1>12, <1>13, ReopenEffect, PlanEffect, UpdateEffect, MistakenEffect,
           CreateEffect, SaveEffect, FailEffect, LoadEffect, RetryEffect, FailRetryEffect
           DEF WorkerStep

(* Every step changes the memory of a worker in one of those ways. *)
LEMMA MemStep ==
  ASSUME BaseInv, [Next]_vars, NEW v \in Workers
  PROVE  MemMoves(v)
<1>1. pc'[v] = pc[v] /\ mem'[v] = mem[v] => MemMoves(v)
  BY DEF MemMoves, MemKept
<1>2. ASSUME mem'[v] = mem[v], pc'[v] # "update",
             pc'[v] = "create" => pc[v] \in {"update", "create"}
      PROVE  MemMoves(v)
  BY <1>2 DEF MemMoves, MemKept
<1>3. ASSUME NEW w \in Workers, WorkerStep(w) PROVE MemMoves(v)
  <2>0. CASE v # w
    <3>1. OthersStay(w)
      BY <1>3, OthersUntouched
    <3> QED BY <1>1, <2>0, <3>1 DEF OthersStay
  <2>1. CASE v = w
    <3>1. StartEvent(w) => MemMoves(w)
      BY <1>2, <2>1, Types DEF StartEvent, Goto
    <3>2. FinishEvent(w) => MemMoves(w)
      BY <1>2, <2>1, Types DEF FinishEvent, Goto
    <3>3. AbortEvent(w) => MemMoves(w)
      BY <1>2, <2>1, Types DEF AbortEvent, Goto
    <3>4. CallFails(w) => MemMoves(w)
      BY <1>2, <2>1, Types DEF CallFails, Goto
    <3>5. CreateUnanswered(w) => MemMoves(w)
      BY <1>2, <2>1, Types DEF CreateUnanswered, Goto
    <3>6. SettleEvent(w) => MemMoves(w)
      BY <1>2, <2>1, Types DEF SettleEvent, Goto
    <3>7. FailEvent(w) => MemMoves(w)
      BY <1>2, <2>1, Types DEF FailEvent, Goto
    <3>8. ASSUME NEW m \in Message, Take(w, m) PROVE MemMoves(w)
      BY <1>2, <2>1, <3>8, Types DEF Take, Goto
    <3>9. ASSUME NEW m \in Message, Skip(w, m) PROVE MemMoves(w)
      BY <1>1, <2>1, <3>9 DEF Skip, worker
    <3>10. Release(w) => MemMoves(w)
      BY Types, NoMemType DEF Release, MemMoves
    <3>11. ListSubscriptions(w) => MemMoves(w)
      BY AtWork, Types DEF ListSubscriptions, MemMoves, MemKept, Mem, Goto
    <3>12. CountFailed(w) => MemMoves(w)
      BY AtWork, Types DEF CountFailed, MemMoves, MemKept, Mem, Goto
    <3>13. OpenDelivery(w) => MemMoves(w)
      <4> SUFFICES ASSUME OpenDelivery(w) PROVE MemMoves(w)
        OBVIOUS
      <4>1. PICK s \in mem[w].todo, m \in Mem, d \in Deliveries : OpenEffect(w, s, m, d)
        BY Opened
      <4>2. mem'[w] = m /\ mem[w].cur = None
        BY <4>1, Types DEF OpenEffect, BaseInv, UnderWay, OpenDelivery
      <4>3. \/ m.cur = None
            \/ /\ m.cur = d /\ pc'[w] \in {"plan", "reopen"}
               /\ m.row = NoRow \/ m.row = delivery[d]
        BY <4>1, <4>2, Types DEF OpenEffect, Goto
      <4> QED BY <4>2, <4>3 DEF MemMoves, NoRow
    <3>14. ReopenDelivery(w) => MemMoves(w)
      BY ReopenEffect, <1>2, <2>1
    <3>15. PlanDelivery(w) => MemMoves(w)
      <4> SUFFICES ASSUME PlanDelivery(w) PROVE MemMoves(w)
        OBVIOUS
      <4>1. CASE mem' = mem /\ pc'[w] = "fail"
        BY <1>2, <2>1, <4>1
      <4>2. ASSUME NEW is, mem'[w].row.issue = is,
                   is = mem[w].row.issue \/ is = PlanFor(mem[w].cur, mem[w].row).ref,
                   mem'[w].cur = mem[w].cur,
                   mem'[w].ref = PlanFor(mem[w].cur, mem[w].row).ref,
                   mem'[w].links = PlanFor(mem[w].cur, mem[w].row).links
            PROVE  MemMoves(w)
        BY <4>2 DEF MemMoves
      <4> QED BY <4>1, <4>2, PlanEffect
    <3>16. UpdateIssue(w) => MemMoves(w)
      BY UpdateEffect, <1>2, <2>1 DEF UpdateIssue, MemMoves
    <3>23. UpdateMistaken(w) => MemMoves(w)
      BY MistakenEffect, <1>2, <2>1
    <3>17. CreateIssue(w) => MemMoves(w)
      BY CreateEffect DEF CreateIssue, MemMoves
    <3>18. SaveDelivery(w) => MemMoves(w)
      BY SaveEffect, <1>2, <2>1 DEF MemMoves
    <3>19. FailDelivery(w) => MemMoves(w)
      BY FailEffect, <1>2, <2>1 DEF MemMoves
    <3>20. LoadDelivery(w) => MemMoves(w)
      BY LoadEffect, <1>2, <2>1 DEF MemMoves
    <3>21. RetryDelivery(w) => MemMoves(w)
      BY RetryEffect, <1>2, <2>1
    <3>22. FailRetry(w) => MemMoves(w)
      BY FailRetryEffect, <1>2, <2>1
    <3> QED BY <1>3, <2>1, <3>1, <3>2, <3>3, <3>4, <3>5, <3>6, <3>7, <3>8,
               <3>9, <3>10, <3>11, <3>12, <3>13, <3>14, <3>15, <3>16, <3>17,
               <3>18, <3>19, <3>20, <3>21, <3>22, <3>23
               DEF WorkerStep
  <2> QED BY <2>0, <2>1
<1>4. ASSUME NEW c \in Clients, ClientStep(c) PROVE UNCHANGED <<pc, mem>>
  BY <1>4 DEF ClientStep, MarkEvent, QueueRetry, worker
<1>5. ASSUME Environment PROVE MemMoves(v)
  <2>1. ASSUME NEW w \in Workers, Crash(w) PROVE MemMoves(v)
    <3>1. CASE v = w
      <4>1. mem'[w] = NoMem
        BY <2>1, Types DEF Crash
      <4> QED BY <3>1, <4>1, NoMemType DEF MemMoves
    <3>2. CASE v # w
      BY <1>1, <2>1, <3>2, Types DEF Crash, Goto
    <3> QED BY <3>1, <3>2
  <2>2. UNCHANGED <<pc, mem>> \/ \E w \in Workers : Crash(w)
    BY <1>5
       DEF Environment, Publish, RequestDelivery, RequestEvent,
           ToggleSubscription, DeleteSubscription, DeleteIssue,
           MoveSubscription, Expire, Overrun, worker
  <2> QED BY <1>1, <2>1, <2>2
<1>6. UNCHANGED vars => UNCHANGED <<pc, mem>>
  BY DEF vars
<1> QED BY <1>1, <1>3, <1>4, <1>5, <1>6 DEF Next

-----------------------------------------------------------------------------
(* Only published events are worked on *)

(* Only events that were published are worked on, and what refers to an      *)
(* event stays true of it.                                                   *)
Published ==
  /\ \A m \in Message : queue[m] > 0 => Known(EventOf(m))
  /\ \A w \in Workers : msg[w] # None => Known(EventOf(msg[w]))
  /\ \A c \in Clients : client[c].pc # "idle" => Known(EventOf(client[c].target))
  /\ \A d \in Deliveries : Exists(d) => Known(d[1])
  /\ \A d \in Deliveries : delivery[d].issue # None => Exists(d)
  /\ \A i \in DOMAIN issues : Known(issues[i].of[1])

Own(d, i) ==
  /\ i \in DOMAIN issues
  /\ issues[i].of[2] = d[2]
  /\ EmailOf(issues[i].of[1]) = EmailOf(d[1])

Near(d, i) ==
  /\ i \in DOMAIN issues
  /\ issues[i].of[2] = d[2]
  /\ EmailOf(issues[i].of[1]) \in ClusterOf(EmailOf(d[1]))

Holds(w) ==
  mem[w].cur # None =>
    /\ mem[w].row.issue # None => Own(mem[w].cur, mem[w].row.issue)
    /\ pc[w] \in {"update", "create"} =>
         /\ mem[w].ref # None => Own(mem[w].cur, mem[w].ref)
         /\ \A j \in mem[w].links : Near(mem[w].cur, j)

Refers ==
  /\ \A d \in Deliveries : delivery[d].issue # None => Own(d, delivery[d].issue)
  /\ \A i \in DOMAIN issues : \A j \in issues[i].links : Near(issues[i].of, j)
  /\ \A w \in Workers : Holds(w)

(* A message is about an event. *)
LEMMA EventOfType == \A m \in Message : EventOf(m) \in Events
BY MessageFacts, DeliveryFacts DEF EventOf

(* What takes its place in the queue, at a worker, at a request *)
LEMMA QueueStep ==
  ASSUME BaseInv, [Next]_vars, NEW m \in Message, queue'[m] > 0
  PROVE  \/ queue[m] > 0
         \/ event'[EventOf(m)].status # "none"
         \/ \E w \in Workers : msg[w] = m
         \/ \E c \in Clients : client[c].pc # "idle" /\ client[c].target = m
<1> DEFINE Right == \/ queue[m] > 0
                    \/ event'[EventOf(m)].status # "none"
                    \/ \E w \in Workers : msg[w] = m
                    \/ \E c \in Clients : client[c].pc # "idle" /\ client[c].target = m
<1>0. queue \in [Message -> Nat]
  BY DEF BaseInv, TypeOK
<1>1. ASSUME NEW n \in Message, Put(n) PROVE queue[m] > 0 \/ m = n
  BY <1>0, <1>1 DEF Put
<1>2. ASSUME NEW n \in Message, Send(n) PROVE queue[m] > 0 \/ m = n
  BY <1>0, <1>1, <1>2 DEF Send
<1>3. ASSUME NEW w \in Workers, WorkerStep(w) PROVE Right
  <2>1. ASSUME NEW n \in Message, Take(w, n) \/ Skip(w, n) PROVE queue[m] > 0
    BY <1>0, <2>1 DEF Take, Skip
  <2>2. \/ queue' = queue
        \/ \E n \in Message : Take(w, n) \/ Skip(w, n)
    BY <1>3
       DEF WorkerStep, StartEvent, ListSubscriptions, OpenDelivery,
           ReopenDelivery, FinishEvent, AbortEvent, PlanDelivery, CallFails,
           UpdateIssue, UpdateMistaken, CreateIssue, CreateUnanswered,
           SaveDelivery, FailDelivery, LoadDelivery, RetryDelivery,
           CountFailed, SettleEvent, FailEvent, FailRetry, Release
  <2> QED BY <2>1, <2>2
<1>4. ASSUME NEW c \in Clients, ClientStep(c) PROVE Right
  <2>1. MarkEvent(c) => queue' = queue
    BY DEF MarkEvent
  <2>2. QueueRetry(c) => /\ client[c].target \in Message
                         /\ client[c].pc # "idle" /\ Send(client[c].target)
    BY DEF QueueRetry, BaseInv, TypeOK, ClientKnows
  <2> QED BY <1>2, <1>4, <2>1, <2>2 DEF ClientStep
<1>5. ASSUME NEW x \in Events, Publish(x) PROVE Right
  <2>1. EventTask(x) \in Message /\ EventOf(EventTask(x)) = x
    BY MessageFacts DEF EventOf
  <2>2. event'[x].status # "none" /\ Send(EventTask(x))
    BY <1>5, Types DEF Publish
  <2> QED BY <1>2, <2>1, <2>2
<1>6. ASSUME NEW w \in Workers, Crash(w) PROVE Right
  <2>1. msg[w] \in Message
    BY <1>6, AtWork DEF Crash
  <2> QED BY <1>1, <1>6, <2>1 DEF Crash
<1>7. ASSUME Environment PROVE Right
  <2>1. \/ queue' = queue \/ \E x \in Events : Publish(x)
        \/ \E w \in Workers : Crash(w)
    BY <1>7
       DEF Environment, RequestDelivery, RequestEvent, ToggleSubscription,
           DeleteSubscription, DeleteIssue, MoveSubscription, Expire, Overrun
  <2> QED BY <1>5, <1>6, <2>1
<1>8. UNCHANGED vars => queue' = queue
  BY DEF vars
<1> QED BY <1>3, <1>4, <1>7, <1>8 DEF Next

(* A worker takes a message only from the queue, with its lock. *)
LEMMA MessageStep ==
  ASSUME BaseInv, [Next]_vars, NEW w \in Workers
  PROVE  \/ msg'[w] = msg[w] \/ msg'[w] = None
         \/ pc[w] = "idle" /\ msg'[w] \in Message /\ queue[msg'[w]] > 0
            /\ msg'[w] \notin locks /\ locks' = locks \cup {msg'[w]}
<1> DEFINE Right == \/ msg'[w] = msg[w] \/ msg'[w] = None
                    \/ pc[w] = "idle" /\ msg'[w] \in Message /\ queue[msg'[w]] > 0
                       /\ msg'[w] \notin locks /\ locks' = locks \cup {msg'[w]}
<1>1. ASSUME NEW v \in Workers, NEW m \in Message, Take(v, m) PROVE Right
  BY <1>1, Types DEF Take, AcquireTaskLock
<1>2. ASSUME NEW v \in Workers, Release(v) \/ Crash(v) PROVE Right
  BY <1>2, Types DEF Release, Crash
<1>3. ASSUME NEW v \in Workers, WorkerStep(v)
      PROVE  msg' = msg \/ (\E m \in Message : Take(v, m)) \/ Release(v)
  BY <1>3
     DEF WorkerStep, Skip, worker, StartEvent, ListSubscriptions, OpenDelivery,
         ReopenDelivery, FinishEvent, AbortEvent, PlanDelivery, CallFails,
         UpdateIssue, UpdateMistaken, CreateIssue, CreateUnanswered,
         SaveDelivery, FailDelivery, LoadDelivery, RetryDelivery, CountFailed,
         SettleEvent, FailEvent, FailRetry
<1>4. ASSUME NEW c \in Clients, ClientStep(c) PROVE msg' = msg
  BY <1>4 DEF ClientStep, MarkEvent, QueueRetry, worker
<1>5. ASSUME Environment PROVE msg' = msg \/ \E v \in Workers : Crash(v)
  BY <1>5
     DEF Environment, Publish, RequestDelivery, RequestEvent,
         ToggleSubscription, DeleteSubscription, DeleteIssue, MoveSubscription,
         Expire, Overrun, worker
<1>6. UNCHANGED vars => msg' = msg
  BY DEF vars
<1> QED BY <1>1, <1>2, <1>3, <1>4, <1>5, <1>6 DEF Next

(* A request is about a published event. *)
LEMMA ClientMoves ==
  ASSUME BaseInv, Published, [Next]_vars, NEW c \in Clients, client'[c].pc # "idle"
  PROVE  \E m \in Message : client'[c].target = m /\ Known(EventOf(m))
<1> DEFINE CT == [pc : {"idle", "event", "queue"}, target : Message \cup {None}]
           Right == \E m \in Message : client'[c].target = m /\ Known(EventOf(m))
<1>0. client \in [Clients -> CT]
  BY DEF BaseInv, TypeOK
<1>1. ASSUME client[c].pc # "idle", client'[c].target = client[c].target PROVE Right
  BY <1>0, <1>1 DEF BaseInv, ClientKnows, Published
<1>2. client'[c] = client[c] => Right
  BY <1>1
<1>3. ASSUME NEW b \in Clients, NEW d \in Deliveries, RequestDelivery(b, d) PROVE Right
  <2>1. DeliveryTask(d) \in Message /\ EventOf(DeliveryTask(d)) = d[1] /\ Known(d[1])
    BY <1>3, MessageFacts DEF EventOf, RequestDelivery, Published
  <2>2. CASE b = c
    <3>1. client'[c].target = DeliveryTask(d)
      BY <1>0, <1>3, <2>2 DEF RequestDelivery
    <3> QED BY <2>1, <3>1
  <2>3. CASE b # c
    BY <1>0, <1>2, <1>3, <2>3 DEF RequestDelivery
  <2> QED BY <2>2, <2>3
<1>4. ASSUME NEW b \in Clients, NEW x \in Events, RequestEvent(b, x) PROVE Right
  <2>1. EventTask(x) \in Message /\ EventOf(EventTask(x)) = x /\ Known(x)
    BY <1>4, MessageFacts DEF EventOf, RequestEvent, Known
  <2>2. CASE b = c
    <3>1. client'[c].target = EventTask(x)
      BY <1>0, <1>4, <2>2 DEF RequestEvent
    <3> QED BY <2>1, <3>1
  <2>3. CASE b # c
    BY <1>0, <1>2, <1>4, <2>3 DEF RequestEvent
  <2> QED BY <2>2, <2>3
<1>5. ASSUME NEW b \in Clients, MarkEvent(b) PROVE Right
  BY <1>0, <1>1, <1>2, <1>5 DEF MarkEvent
<1>6. ASSUME NEW b \in Clients, QueueRetry(b) PROVE Right
  BY <1>0, <1>2, <1>6 DEF QueueRetry, NoClient
<1>7. ASSUME NEW w \in Workers, WorkerStep(w) PROVE client' = client
  BY <1>7
     DEF WorkerStep, Take, Skip, others, StartEvent, ListSubscriptions,
         OpenDelivery, ReopenDelivery, FinishEvent, AbortEvent, PlanDelivery,
         CallFails, UpdateIssue, UpdateMistaken, CreateIssue, CreateUnanswered,
         SaveDelivery, FailDelivery, LoadDelivery, RetryDelivery, CountFailed,
         SettleEvent, FailEvent, FailRetry, Release
<1>8. ASSUME Environment
      PROVE  \/ client' = client
             \/ \E b \in Clients : \/ \E d \in Deliveries : RequestDelivery(b, d)
                                  \/ \E x \in Events : RequestEvent(b, x)
  BY <1>8
     DEF Environment, Publish, ToggleSubscription, DeleteSubscription,
         DeleteIssue, MoveSubscription, Expire, Overrun, Crash, others
<1>9. UNCHANGED vars => client' = client
  BY DEF vars
<1> QED BY <1>2, <1>3, <1>4, <1>5, <1>6, <1>7, <1>8, <1>9 DEF Next, ClientStep

(* Nothing is worked on at first. *)
LEMMA PublishedInit == Init => Published
BY DEF Init, Published, NoClient, NoRow, Exists

(* Work stays with published events: the rows a step refers to exist. *)
LEMMA PublishedStep ==
  ASSUME BaseInv, Published, [Next]_vars
  PROVE  Published'
<1>1. EventsStay /\ IssuesStay
  BY EventStep, IssueStep
<1>2. ASSUME NEW x \in Events, Known(x) PROVE event'[x].status # "none"
  BY <1>1, <1>2 DEF EventsStay
<1>3. ASSUME NEW w \in Workers, msg[w] # None
      PROVE  msg[w] \in Message /\ event'[EventOf(msg[w])].status # "none"
  <2>1. msg[w] \in Message /\ Known(EventOf(msg[w]))
    BY <1>3, Types DEF Published
  <2> QED BY <2>1, <1>2, EventOfType
<1>4. ASSUME NEW m \in Message, queue'[m] > 0
      PROVE  event'[EventOf(m)].status # "none"
  <2>1. ASSUME NEW c \in Clients, client[c].pc # "idle", client[c].target = m
        PROVE  Known(EventOf(m))
    BY <2>1 DEF Published
  <2>2. queue[m] > 0 => Known(EventOf(m))
    BY DEF Published
  <2>3. EventOf(m) \in Events
    BY EventOfType
  <2>4. CASE queue[m] > 0 \/ event'[EventOf(m)].status # "none"
    BY <1>2, <2>2, <2>3, <2>4
  <2>5. ASSUME NEW w \in Workers, msg[w] = m PROVE event'[EventOf(m)].status # "none"
    <3>1. m # None
      BY RelayAssumption
    <3> QED BY <1>3, <2>5, <3>1
  <2>6. ASSUME NEW c \in Clients, client[c].pc # "idle", client[c].target = m
        PROVE  event'[EventOf(m)].status # "none"
    BY <1>2, <2>1, <2>3, <2>6
  <2> QED BY <1>4, <2>4, <2>5, <2>6, QueueStep
<1>5. ASSUME NEW w \in Workers, msg'[w] # None
      PROVE  event'[EventOf(msg'[w])].status # "none"
  <2>1. CASE msg'[w] = msg[w]
    BY <1>3, <1>5, <2>1
  <2>2. CASE msg'[w] \in Message /\ queue[msg'[w]] > 0
    <3>1. PICK m \in Message : m = msg'[w] /\ queue[m] > 0
      BY <2>2
    <3>2. Known(EventOf(m))
      BY <3>1 DEF Published
    <3> QED BY <1>2, <3>1, <3>2, EventOfType
  <2> QED BY <1>5, <2>1, <2>2, MessageStep
<1>6. ASSUME NEW c \in Clients, client'[c].pc # "idle"
      PROVE  event'[EventOf(client'[c].target)].status # "none"
  <2>1. PICK m \in Message : client'[c].target = m /\ Known(EventOf(m))
    BY <1>6, ClientMoves
  <2> QED BY <1>2, <2>1, EventOfType
<1>7. ASSUME NEW d \in Deliveries
      PROVE  /\ delivery'[d].status # "none" => event'[d[1]].status # "none"
             /\ delivery'[d].issue # None => delivery'[d].status # "none"
  <2>1. d[1] \in Events
    BY DeliveryFacts
  <2>2. CASE RowKept(d)
    BY <1>2, <2>1, <2>2 DEF RowKept, Published, Exists
  <2>3. CASE delivery'[d] = NoRow
    BY <2>3 DEF NoRow
  <2>4. ASSUME NEW w \in Workers, pc[w] = "open", d[1] = msg[w].event
        PROVE  event'[d[1]].status # "none"
    <3>1. msg[w] # None /\ EventOf(msg[w]) = d[1]
      BY <2>4, AtWork, RelayAssumption DEF EventOf
    <3> QED BY <1>3, <3>1
  <2>5. ASSUME Exists(d) PROVE event'[d[1]].status # "none"
    BY <1>2, <2>1, <2>5 DEF Published
  <2> QED BY <2>2, <2>3, <2>4, <2>5, DeliveryStep DEF RowMoves
<1>8. ASSUME NEW i \in DOMAIN issues' PROVE event'[issues'[i].of[1]].status # "none"
  <2>1. CASE i \in DOMAIN issues
    <3>1. issues'[i].of = issues[i].of /\ Known(issues[i].of[1]) /\ issues[i].of \in Deliveries
      BY <1>1, <2>1, IssueTypes DEF IssuesStay, Published
    <3> QED BY <1>2, <3>1, DeliveryFacts
  <2>2. CASE i \notin DOMAIN issues
    <3>1. PICK w \in Workers : pc[w] = "create" /\ Makes(w)
      BY <2>2, IssueStep
    <3>2. i = Len(issues) + 1 /\ issues'[i].of = mem[w].cur
      BY <2>2, <3>1, IssueTypes DEF Makes
    <3>3. UnderWay(w) /\ mem[w].cur \in Deliveries /\ msg[w] \in Message
      BY <3>1, AtWork DEF BaseInv
    <3>4. msg[w] # None /\ EventOf(msg[w]) = mem[w].cur[1]
      BY <3>3, RelayAssumption DEF UnderWay, Concerns, EventOf
    <3> QED BY <1>3, <3>2, <3>4
  <2> QED BY <2>1, <2>2
<1> QED BY <1>4, <1>5, <1>6, <1>7, <1>8 DEF Published, Known, EventOf, Exists

-----------------------------------------------------------------------------
(* Issues stay with their own email *)

(* A worker is at a delivery of a published event. *)
LEMMA CurKnown ==
  ASSUME BaseInv, Published, NEW w \in Workers, mem[w].cur # None
  PROVE  mem[w].cur \in Deliveries /\ Known(mem[w].cur[1])
<1>1. mem[w].cur \in Deliveries
  BY Types DEF Mem
<1>2. msg[w] # None /\ UnderWay(w) /\ msg[w] \in Message
  BY Types DEF BaseInv, UnderWay
<1>3. EventOf(msg[w]) = mem[w].cur[1]
  BY <1>2 DEF UnderWay, Concerns, EventOf
<1> QED BY <1>1, <1>2, <1>3 DEF Published

(* A published event keeps its email. *)
LEMMA EmailStays ==
  ASSUME BaseInv, [Next]_vars, NEW x \in Events, Known(x)
  PROVE  event'[x].email = event[x].email
BY EventStep DEF EventsStay

(* An issue keeps its delivery, its links and the email of its event. *)
LEMMA IssueStays ==
  ASSUME BaseInv, Published, [Next]_vars, NEW i \in DOMAIN issues
  PROVE  /\ i \in DOMAIN issues' /\ issues'[i].of = issues[i].of
         /\ issues'[i].links = issues[i].links
         /\ issues[i].of \in Deliveries /\ Known(issues[i].of[1])
         /\ event'[issues[i].of[1]].email = event[issues[i].of[1]].email
<1>1. issues[i].of \in Deliveries /\ Known(issues[i].of[1])
  BY IssueTypes DEF Published
<1>2. issues[i].of[1] \in Events
  BY <1>1, DeliveryFacts
<1> QED BY <1>1, <1>2, EmailStays, IssueStep DEF IssuesStay

(* An issue that is right for a delivery stays so. *)
LEMMA OwnStays ==
  ASSUME BaseInv, Published, [Next]_vars,
         NEW d \in Deliveries, Known(d[1]), NEW i, Own(d, i)
  PROVE  Own(d, i)'
<1>1. event'[d[1]].email = event[d[1]].email
  BY EmailStays, DeliveryFacts
<1>2. i \in DOMAIN issues
  BY DEF Own
<1> QED BY <1>1, <1>2, IssueStays DEF Own, EmailOf

(* A link that is right for a delivery stays so. *)
LEMMA NearStays ==
  ASSUME BaseInv, Published, [Next]_vars,
         NEW d \in Deliveries, Known(d[1]), NEW i, Near(d, i)
  PROVE  Near(d, i)'
<1>1. event'[d[1]].email = event[d[1]].email
  BY EmailStays, DeliveryFacts
<1>2. i \in DOMAIN issues
  BY DEF Near
<1>3. /\ i \in DOMAIN issues' /\ issues'[i].of = issues[i].of
      /\ event'[issues[i].of[1]].email = event[issues[i].of[1]].email
  BY <1>2, IssueStays
<1>4. event[issues[i].of[1]].email \in ClusterOf(event[d[1]].email) /\ issues[i].of[2] = d[2]
  BY DEF Near, EmailOf
<1> QED BY <1>1, <1>3, <1>4 DEF Near, EmailOf

(* resolve_delivery_plan refers only to issues that are right for the        *)
(* delivery.                                                                 *)
LEMMA PlanRefers ==
  ASSUME BaseInv, Refers, NEW d \in Deliveries, NEW row \in Row,
         row.issue # None => Own(d, row.issue)
  PROVE  LET plan == PlanFor(d, row) IN
         /\ plan.ref # None => Own(d, plan.ref)
         /\ \A j \in plan.links : Near(d, j)
<1> DEFINE plan == PlanFor(d, row)
<1>1. /\ plan.ref = IF row.issue # None THEN row.issue
                    ELSE LatestIssue(d[2], EmailOf(d[1]))
      /\ plan.links \in SUBSET RelatedIssues(d[2], EmailOf(d[1]))
  BY PlanFacts
<1>2. ASSUME LatestIssue(d[2], EmailOf(d[1])) # None
      PROVE  Own(d, LatestIssue(d[2], EmailOf(d[1])))
  <2>1. PICK c \in Deliveries : /\ c[2] = d[2] /\ EmailOf(c[1]) = EmailOf(d[1])
                                /\ delivery[c].issue # None
                                /\ delivery[c].issue = LatestIssue(d[2], EmailOf(d[1]))
    BY <1>2, LatestIsStored
  <2>2. Own(c, delivery[c].issue)
    BY <2>1 DEF Refers
  <2> QED BY <2>1, <2>2 DEF Own
<1>3. ASSUME NEW j \in RelatedIssues(d[2], EmailOf(d[1])) PROVE Near(d, j)
  <2>1. j # None
    BY RelatedAreStored
  <2>2. PICK c \in Deliveries : /\ c[2] = d[2] /\ EmailOf(c[1]) \in ClusterOf(EmailOf(d[1]))
                                /\ delivery[c].issue = j
    BY RelatedAreStored
  <2>3. Own(c, j)
    BY <2>1, <2>2 DEF Refers
  <2> QED BY <2>2, <2>3 DEF Own, Near
<1>4. plan.ref # None => Own(d, plan.ref)
  BY <1>1, <1>2
<1>5. \A j \in plan.links : Near(d, j)
  BY <1>1, <1>3
<1> QED BY <1>4, <1>5

(* There are no issues at first. *)
LEMMA RefersInit == Init => Refers
BY DEF Init, Refers, Holds, NoRow, NoMem

(* Every step keeps references and links right. *)
LEMMA RefersStep ==
  ASSUME BaseInv, Published, Refers, [Next]_vars
  PROVE  Refers'
<1>0. BaseInv'
  BY BaseStep
<1>1. ASSUME NEW d \in Deliveries, delivery'[d].issue # None
      PROVE  \E i : i = delivery'[d].issue /\ Own(d, i)'
  <2>1. CASE RowKept(d)
    <3>1. PICK i : i = delivery[d].issue
      OBVIOUS
    <3>2. i # None /\ delivery'[d].issue = i
      BY <1>1, <2>1, <3>1 DEF RowKept
    <3>3. Own(d, i) /\ Known(d[1])
      BY <3>1, <3>2 DEF Refers, Published
    <3>4. Own(d, i)'
      BY <3>3, OwnStays
    <3> QED BY <3>2, <3>4
  <2>2. ASSUME NEW w \in Workers, mem[w].cur = d, Exists(d),
               \/ delivery'[d].issue = mem[w].row.issue
               \/ delivery'[d].issue = PlanFor(d, mem[w].row).ref
        PROVE  \E i : i = delivery'[d].issue /\ Own(d, i)'
    <3>0. mem[w].row \in Row
      BY AtWork
    <3>1. Known(d[1])
      BY <2>2 DEF Published
    <3>2. d # None
      BY RelayAssumption
    <3>3. mem[w].row.issue # None => Own(d, mem[w].row.issue)
      BY <2>2, <3>2 DEF Refers, Holds
    <3>4. PICK i : i = delivery'[d].issue
      OBVIOUS
    <3>5. Own(d, i)
      BY <1>1, <2>2, <3>0, <3>3, <3>4, PlanRefers
    <3>6. Own(d, i)'
      BY <3>1, <3>5, OwnStays
    <3> QED BY <3>4, <3>6
  <2> QED BY <1>1, <2>1, <2>2, DeliveryStep DEF RowMoves, NoRow
<1>2. ASSUME NEW i \in DOMAIN issues', NEW j \in issues'[i].links
      PROVE  \E d \in Deliveries : d = issues'[i].of /\ Near(d, j)'
  <2>1. CASE i \in DOMAIN issues
    <3>1. /\ issues'[i].of = issues[i].of /\ j \in issues[i].links
          /\ issues[i].of \in Deliveries /\ Known(issues[i].of[1])
      BY <1>2, <2>1, IssueStays
    <3>2. PICK d \in Deliveries : d = issues[i].of
      BY <3>1
    <3>3. Near(d, j) /\ Known(d[1])
      BY <2>1, <3>1, <3>2 DEF Refers
    <3> QED BY <3>1, <3>2, <3>3, NearStays
  <2>2. CASE i \notin DOMAIN issues
    <3>1. PICK w \in Workers : pc[w] = "create" /\ Makes(w)
      BY <2>2, IssueStep
    <3>2. i = Len(issues) + 1 /\ issues'[i].of = mem[w].cur /\ issues'[i].links = mem[w].links
      BY <2>2, <3>1, IssueTypes DEF Makes
    <3>3. mem[w].cur \in Deliveries
      BY <3>1, AtWork
    <3>4. PICK d \in Deliveries : d = mem[w].cur
      BY <3>3
    <3>5. d # None
      BY RelayAssumption
    <3>6. Near(d, j) /\ Known(d[1])
      BY <1>2, <3>1, <3>2, <3>4, <3>5, CurKnown DEF Refers, Holds
    <3> QED BY <3>2, <3>4, <3>6, NearStays
  <2> QED BY <2>1, <2>2
<1>3. ASSUME NEW w \in Workers, mem'[w].cur # None PROVE Holds(w)'
  <2>1. mem'[w].cur \in Deliveries
    BY <1>0, <1>3 DEF BaseInv, TypeOK, Mem
  <2>2. PICK d \in Deliveries : d = mem'[w].cur
    BY <2>1
  <2>3. d # None
    BY RelayAssumption
  <2>4. ASSUME NEW r, r = mem'[w].row.issue, r # None => Own(d, r),
               pc'[w] \in {"update", "create"} =>
                 /\ mem'[w].ref # None => Own(d, mem'[w].ref)
                 /\ \A j \in mem'[w].links : Near(d, j),
               Known(d[1])
        PROVE  Holds(w)'
    <3>1. r # None => Own(d, r)'
      BY <2>4, OwnStays
    <3>2. ASSUME pc'[w] \in {"update", "create"}
          PROVE  /\ \A ref : ref = mem'[w].ref /\ ref # None => Own(d, ref)'
                 /\ \A j \in mem'[w].links : Near(d, j)'
      BY <2>4, <3>2, OwnStays, NearStays
    <3> QED BY <2>2, <2>4, <3>1, <3>2 DEF Holds, Own, Near
  <2>5. CASE mem[w].cur = d
    <3>1. Known(d[1])
      BY <2>3, <2>5, CurKnown
    <3>2. mem[w].row.issue # None => Own(d, mem[w].row.issue)
      BY <2>3, <2>5 DEF Refers, Holds
    <3>3. ASSUME pc[w] \in {"update", "create"}
          PROVE  /\ mem[w].ref # None => Own(d, mem[w].ref)
                 /\ \A j \in mem[w].links : Near(d, j)
      BY <2>3, <2>5, <3>3 DEF Refers, Holds
    <3>4. CASE MemKept(w)
      BY <2>4, <3>1, <3>2, <3>3, <3>4 DEF MemKept
    <3>5. CASE /\ pc'[w] \notin {"update", "create"}
               /\ \/ mem'[w].row.issue = None
                  \/ mem'[w].row.issue = delivery[d].issue
      BY <2>4, <3>1, <3>5 DEF Refers
    <3>6. CASE /\ mem'[w].row.issue \in {mem[w].row.issue, PlanFor(d, mem[w].row).ref}
               /\ mem'[w].ref = PlanFor(d, mem[w].row).ref
               /\ mem'[w].links = PlanFor(d, mem[w].row).links
      <4>1. mem[w].row \in Row
        BY AtWork
      <4>2. /\ PlanFor(d, mem[w].row).ref # None => Own(d, PlanFor(d, mem[w].row).ref)
            /\ \A j \in PlanFor(d, mem[w].row).links : Near(d, j)
        BY <3>2, <4>1, PlanRefers
      <4> QED BY <2>4, <3>1, <3>2, <3>6, <4>2
    <3>7. CASE pc[w] = "update" /\ pc'[w] = "save" /\ mem'[w].row.issue = mem[w].ref
      BY <2>4, <3>1, <3>3, <3>7
    <3>8. CASE CreateIssue(w) /\ pc'[w] = "save" /\ mem'[w].row.issue = Len(issues) + 1
      <4>1. Makes(w)
        BY <3>8, NewIssueMakes DEF CreateIssue
      <4>2. Len(issues) + 1 \in DOMAIN issues' /\ issues'[Len(issues) + 1].of = d
        BY <2>5, <4>1, IssueTypes DEF Makes
      <4> QED BY <2>2, <3>8, <4>2 DEF Holds, Own
    <3> QED BY <2>2, <2>3, <2>5, <3>4, <3>5, <3>6, <3>7, <3>8, MemStep
               DEF MemMoves
  <2>6. CASE mem[w].cur # d
    <3>1. /\ pc'[w] \notin {"update", "create"}
          /\ \/ mem'[w].row.issue = None
             \/ mem'[w].row.issue = delivery[d].issue
      BY <2>2, <2>3, <2>6, MemStep DEF MemMoves, MemKept
    <3>2. CASE mem'[w].row.issue = None
      BY <3>1, <3>2 DEF Holds
    <3>3. CASE mem'[w].row.issue # None
      <4>1. delivery[d].issue # None
        BY <3>1, <3>3
      <4>2. Own(d, delivery[d].issue) /\ Known(d[1])
        BY <4>1 DEF Refers, Published
      <4> QED BY <2>4, <3>1, <4>2
    <3> QED BY <3>2, <3>3
  <2> QED BY <2>5, <2>6
<1>4. \A w \in Workers : Holds(w)'
  BY <1>3 DEF Holds
<1>5. \A d \in Deliveries : (delivery[d].issue # None => Own(d, delivery[d].issue))'
  BY <1>1 DEF Own
<1>6. \A i \in DOMAIN issues' : \A j \in issues'[i].links : Near(issues[i].of, j)'
  BY <1>2 DEF Near
<1> QED BY <1>4, <1>5, <1>6 DEF Refers

RefersInv == BaseInv /\ Published /\ Refers

(* Every variable keeps its type: the rows, the queue, the locks and what    *)
(* the workers of dispatcher.py hold.                                        *)
THEOREM RelayTypes == Spec => []TypeOK
<1>1. BaseInv /\ [Next]_vars => BaseInv'
  BY BaseStep
<1>2. BaseInv => TypeOK
  BY DEF BaseInv
<1> QED BY BaseInit, <1>1, <1>2, PTL DEF Spec

(* delivery_strategy.py: whatever retries, merges, crashes and deletions     *)
(* come, a delivery records an issue of its own subscription and email, and  *)
(* links lead to issues of merged emails.                                    *)
THEOREM IssuesStayWithTheirEmail == Spec => []IssuesOfOwnEmail
<1>1. Init => RefersInv
  BY BaseInit, PublishedInit, RefersInit DEF RefersInv
<1>2. RefersInv /\ [Next]_vars => RefersInv'
  BY BaseStep, PublishedStep, RefersStep DEF RefersInv
<1>3. RefersInv => IssuesOfOwnEmail
  BY DEF RefersInv, Refers, Own, Near, IssuesOfOwnEmail
<1> QED BY <1>1, <1>2, <1>3, PTL DEF Spec

-----------------------------------------------------------------------------
(* Locks, and what a step leaves alone *)

(* A task that overran its time limit may have lost its lock: its deliveries *)
(* are excused.                                                              *)
Lapsed(m) == \A d \in Deliveries : Concerns(m, d) => d \in excused

(* Any other task holds its lock, and no other worker runs it. *)
LockInv ==
  /\ \A w \in Workers : msg[w] # None => msg[w] \in locks \/ Lapsed(msg[w])
  /\ \A v, w \in Workers :
       msg[v] = msg[w] /\ msg[v] # None => v = w \/ Lapsed(msg[v])

(* The steps that touch messages at work or locks *)
LEMMA LockCases ==
  ASSUME BaseInv, [Next]_vars
  PROVE  \/ UNCHANGED <<msg, locks>>
         \/ \E w \in Workers, m \in Message : Take(w, m)
         \/ \E w \in Workers : Release(w) \/ Crash(w)
         \/ \E m \in Message : Expire(m) \/ Overrun(m)
<1>1. ASSUME NEW w \in Workers, WorkerStep(w)
      PROVE  \/ UNCHANGED <<msg, locks>> \/ Release(w)
             \/ \E m \in Message : Take(w, m)
  BY <1>1
     DEF WorkerStep, Skip, worker, StartEvent, ListSubscriptions, OpenDelivery,
         ReopenDelivery, FinishEvent, AbortEvent, PlanDelivery, CallFails,
         UpdateIssue, UpdateMistaken, CreateIssue, CreateUnanswered,
         SaveDelivery, FailDelivery, LoadDelivery, RetryDelivery, CountFailed,
         SettleEvent, FailEvent, FailRetry
<1>2. ASSUME NEW c \in Clients, ClientStep(c) PROVE UNCHANGED <<msg, locks>>
  BY <1>2 DEF ClientStep, MarkEvent, QueueRetry, worker
<1>3. ASSUME Environment
      PROVE  \/ UNCHANGED <<msg, locks>> \/ \E v \in Workers : Crash(v)
             \/ \E m \in Message : Expire(m) \/ Overrun(m)
  BY <1>3
     DEF Environment, Publish, RequestDelivery, RequestEvent,
         ToggleSubscription, DeleteSubscription, DeleteIssue, MoveSubscription,
         worker
<1>4. UNCHANGED vars => UNCHANGED <<msg, locks>>
  BY DEF vars
<1> QED BY <1>1, <1>2, <1>3, <1>4 DEF Next

(* A delivery that is excused stays so. *)
LEMMA ExcusedGrows ==
  ASSUME BaseInv, [Next]_vars
  PROVE  excused \subseteq excused'
<1>1. ASSUME NEW w \in Workers, WorkerStep(w) PROVE excused \subseteq excused'
  <2>1. ASSUME OpenDelivery(w) PROVE excused \subseteq excused'
    BY <2>1 DEF OpenDelivery, Excuse
  <2>2. ASSUME LoadDelivery(w) PROVE excused \subseteq excused'
    BY <2>2 DEF LoadDelivery, Excuse
  <2>3. ASSUME CreateUnanswered(w) PROVE excused \subseteq excused'
    BY <2>3 DEF CreateUnanswered
  <2>5. ASSUME UpdateMistaken(w) PROVE excused \subseteq excused'
    BY <2>5 DEF UpdateMistaken
  <2>4. \/ excused' = excused \/ OpenDelivery(w) \/ LoadDelivery(w)
        \/ CreateUnanswered(w) \/ UpdateMistaken(w)
    BY <1>1
       DEF WorkerStep, Take, Skip, StartEvent, ListSubscriptions,
           ReopenDelivery, FinishEvent, AbortEvent, PlanDelivery, CallFails,
           UpdateIssue, CreateIssue, SaveDelivery,
           FailDelivery, RetryDelivery, CountFailed, SettleEvent, FailEvent,
           FailRetry, Release
  <2> QED BY <2>1, <2>2, <2>3, <2>4, <2>5
<1>2. ASSUME NEW c \in Clients, ClientStep(c) PROVE excused' = excused
  BY <1>2 DEF ClientStep, MarkEvent, QueueRetry
<1>3. ASSUME Environment PROVE excused \subseteq excused'
  <2>1. ASSUME NEW w \in Workers, Crash(w) PROVE excused \subseteq excused'
    BY <2>1 DEF Crash
  <2>2. ASSUME NEW i \in DOMAIN issues, DeleteIssue(i) PROVE excused \subseteq excused'
    BY <2>2 DEF DeleteIssue
  <2>4. ASSUME NEW s \in Subs, MoveSubscription(s) PROVE excused \subseteq excused'
    BY <2>4 DEF MoveSubscription
  <2>5. ASSUME NEW m \in Message, Overrun(m) PROVE excused \subseteq excused'
    BY <2>5 DEF Overrun
  <2>3. \/ excused' = excused \/ \E w \in Workers : Crash(w)
        \/ \E i \in DOMAIN issues : DeleteIssue(i)
        \/ \E s \in Subs : MoveSubscription(s)
        \/ \E m \in Message : Overrun(m)
    BY <1>3
       DEF Environment, Publish, RequestDelivery, RequestEvent,
           ToggleSubscription, DeleteSubscription, Expire
  <2> QED BY <2>1, <2>2, <2>3, <2>4, <2>5
<1>4. UNCHANGED vars => excused' = excused
  BY DEF vars
<1> QED BY <1>1, <1>2, <1>3, <1>4 DEF Next

(* Every step keeps a lock with its one task, or lets the task lapse. *)
LEMMA LockStep ==
  ASSUME BaseInv, LockInv, [Next]_vars
  PROVE  LockInv'
<1>0. ASSUME NEW m, Lapsed(m) PROVE Lapsed(m)'
  BY <1>0, ExcusedGrows DEF Lapsed
<1>1. CASE UNCHANGED <<msg, locks>>
  BY <1>0, <1>1 DEF LockInv
<1>2. ASSUME NEW w \in Workers, NEW m \in Message, Take(w, m) PROVE LockInv'
  <2>1. \A v \in Workers : msg[v] = m => Lapsed(m)
    BY <1>2, RelayAssumption DEF Take, AcquireTaskLock, LockInv
  <2>2. /\ msg'[w] = m /\ \A v \in Workers \ {w} : msg'[v] = msg[v]
        /\ locks' = locks \cup {m}
    BY <1>2, Types DEF Take, AcquireTaskLock
  <2> QED BY <1>0, <2>1, <2>2 DEF LockInv
<1>3. ASSUME NEW w \in Workers, Release(w) PROVE LockInv'
  <2>1. /\ msg'[w] = None /\ \A v \in Workers \ {w} : msg'[v] = msg[v]
        /\ locks' = locks \ {msg[w]}
    BY <1>3, Types DEF Release
  <2> QED BY <1>0, <2>1 DEF LockInv
<1>4. ASSUME NEW w \in Workers, Crash(w) PROVE LockInv'
  <2>1. /\ msg'[w] = None /\ \A v \in Workers \ {w} : msg'[v] = msg[v]
        /\ locks' = locks
    BY <1>4, Types DEF Crash
  <2> QED BY <1>0, <2>1 DEF LockInv
<1>5. ASSUME NEW m \in Message, Expire(m) PROVE LockInv'
  BY <1>0, <1>5 DEF Expire, worker, LockInv
<1>6. ASSUME NEW m \in Message, Overrun(m) PROVE LockInv'
  <2>1. Lapsed(m)' /\ locks' = locks \ {m} /\ msg' = msg
    BY <1>6 DEF Overrun, Lapsed, worker
  <2> QED BY <1>0, <2>1 DEF LockInv
<1> QED BY <1>1, <1>2, <1>3, <1>4, <1>5, <1>6, LockCases

(* A deleted subscription stays deleted. *)
LEMMA SubStep ==
  ASSUME BaseInv, [Next]_vars, NEW s \in Subs, sub[s] = "deleted"
  PROVE  sub'[s] = "deleted"
<1>0. sub \in [Subs -> {"enabled", "disabled", "deleted"}]
  BY DEF BaseInv, TypeOK
<1>1. ASSUME NEW w \in Workers, WorkerStep(w) PROVE sub' = sub
  BY <1>1
     DEF WorkerStep, others, Take, Skip, StartEvent, ListSubscriptions,
         OpenDelivery, ReopenDelivery, FinishEvent, AbortEvent, PlanDelivery,
         CallFails, UpdateIssue, UpdateMistaken, CreateIssue, CreateUnanswered,
         SaveDelivery, FailDelivery, LoadDelivery, RetryDelivery, CountFailed,
         SettleEvent, FailEvent, FailRetry, Release
<1>2. ASSUME NEW c \in Clients, ClientStep(c) PROVE sub' = sub
  BY <1>2 DEF ClientStep, MarkEvent, QueueRetry
<1>3. ASSUME NEW t \in Subs, ToggleSubscription(t) \/ DeleteSubscription(t)
      PROVE  sub'[s] = "deleted"
  BY <1>0, <1>3 DEF ToggleSubscription, DeleteSubscription
<1>4. ASSUME Environment
      PROVE  sub' = sub \/ \E t \in Subs : ToggleSubscription(t) \/ DeleteSubscription(t)
  BY <1>4
     DEF Environment, Publish, RequestDelivery, RequestEvent, DeleteIssue,
         MoveSubscription, Crash, Expire, Overrun, others
<1>5. UNCHANGED vars => sub' = sub
  BY DEF vars
<1>6. sub' = sub \/ \E t \in Subs : ToggleSubscription(t) \/ DeleteSubscription(t)
  BY <1>1, <1>2, <1>4, <1>5 DEF Next
<1> QED BY <1>3, <1>6

(* A worker writes only to the row of the delivery it is or comes to be at. *)
LEMMA RowFrame ==
  ASSUME BaseInv, NEW w \in Workers, WorkerStep(w), NEW c \in Deliveries,
         mem[w].cur # c, mem'[w].cur # c
  PROVE  delivery'[c] = delivery[c]
<1>1. ASSUME OpenDelivery(w) PROVE delivery'[c] = delivery[c]
  <2>1. PICK s \in mem[w].todo, m \in Mem, d \in Deliveries : OpenEffect(w, s, m, d)
    BY <1>1, Opened
  <2>2. mem'[w] = m
    BY <2>1, Types DEF OpenEffect
  <2>3. delivery' = delivery \/ (m.cur = d /\ \A e \in Deliveries \ {d} : delivery'[e] = delivery[e])
    BY <2>1, Types DEF OpenEffect
  <2> QED BY <2>2, <2>3
<1>2. ASSUME ReopenDelivery(w) PROVE delivery'[c] = delivery[c]
  BY <1>2, ReopenEffect DEF Writes
<1>3. ASSUME PlanDelivery(w) PROVE delivery'[c] = delivery[c]
  BY <1>3, PlanEffect DEF Writes
<1>4. ASSUME SaveDelivery(w) PROVE delivery'[c] = delivery[c]
  <2>1. \A e \in Deliveries \ {mem[w].cur} : delivery'[e] = delivery[e]
    <3>1. \/ delivery' = delivery
          \/ Writes(mem[w].cur, "success", mem[w].row.issue, mem[w].row.retry)
      BY <1>4, SaveEffect
    <3> QED BY <3>1 DEF Writes
  <2> QED BY <2>1
<1>5. ASSUME FailDelivery(w) PROVE delivery'[c] = delivery[c]
  BY <1>5, FailEffect DEF Writes
<1>6. ASSUME RetryDelivery(w) PROVE delivery'[c] = delivery[c]
  BY <1>6, RetryEffect DEF Writes
<1>7. ASSUME FailRetry(w) PROVE delivery'[c] = delivery[c]
  BY <1>7, FailRetryEffect DEF Writes
<1>8. \/ delivery' = delivery \/ OpenDelivery(w) \/ ReopenDelivery(w)
      \/ PlanDelivery(w) \/ SaveDelivery(w) \/ FailDelivery(w)
      \/ RetryDelivery(w) \/ FailRetry(w)
  BY DeliveryUntouched DEF WorkerStep
<1> QED BY <1>1, <1>2, <1>3, <1>4, <1>5, <1>6, <1>7, <1>8

(* The issues of a delivery *)
Of(d) == {i \in DOMAIN issues : issues[i].of = d}

OfStays(d) ==
  /\ Of(d)' = Of(d)
  /\ \A i \in Of(d) : /\ issues'[i].gone = issues[i].gone
                       /\ issues'[i].away = issues[i].away

(* The issues of a delivery that is not excused change only when a worker    *)
(* creates one.                                                              *)
LEMMA OfStep ==
  ASSUME BaseInv, [Next]_vars, NEW d \in Deliveries, d \notin excused'
  PROVE  \/ OfStays(d)
         \/ \E w \in Workers : CreateIssue(w) /\ mem[w].cur = d
<1>1. CASE issues' = issues
  BY <1>1 DEF OfStays, Of
<1>2. ASSUME NEW i \in DOMAIN issues, DeleteIssue(i) PROVE OfStays(d)
  <2>1. issues[i].of # d /\ issues' = [issues EXCEPT ![i].gone = TRUE]
    BY <1>2 DEF DeleteIssue
  <2>2. /\ DOMAIN issues' = DOMAIN issues
        /\ \A j \in DOMAIN issues : issues'[j].of = issues[j].of
        /\ \A j \in DOMAIN issues : j # i => issues'[j] = issues[j]
    BY <2>1, IssueTypes
  <2> QED BY <2>1, <2>2 DEF OfStays, Of
<1>3. ASSUME NEW w \in Workers, Makes(w), mem[w].cur # d PROVE OfStays(d)
  BY <1>3, IssueTypes DEF Makes, OfStays, Of
<1>4. ASSUME NEW w \in Workers, CreateUnanswered(w) PROVE mem[w].cur # d
  BY <1>4 DEF CreateUnanswered
<1>5. ASSUME NEW s \in Subs, MoveSubscription(s) PROVE OfStays(d)
  BY <1>5, Moved DEF OfStays, Of
<1> QED BY <1>1, <1>2, <1>3, <1>4, <1>5, IssueCases

-----------------------------------------------------------------------------
(* One issue per delivery *)

(* The deliveries the property is about *)
Careful(d) ==
  /\ d \notin excused
  /\ Policy[d[2]].explicit \in {None, "update"} /\ Policy[d[2]].retry = "update"

(* What a worker knows of the delivery it is at *)
Attempt(w, d) ==
  /\ pc[w] \in {"reopen", "retry", "plan", "update", "save"} =>
       \A i \in Of(d) : mem[w].row.issue = i
  /\ pc[w] = "create" => Of(d) = {}
  /\ pc[w] = "update" => mem[w].row.issue = mem[w].ref
  /\ pc[w] \in {"reopen", "plan", "update", "fail"} /\ Exists(d) /\ Of(d) # {} =>
       IsRetry(d[1], mem[w].row)
  /\ pc[w] \in {"update", "create"} /\ Exists(d) => delivery[d].status # "failed"
  /\ ~IsEventTask(msg[w]) => mem[w].row.retry
  /\ ~IsEventTask(msg[w]) /\ pc[w] # "retry" /\ Exists(d) => delivery[d].retry

Alone(d) == \A v, w \in Workers : mem[v].cur = d /\ mem[w].cur = d => v = w

Saving(w, d, i) == pc[w] = "save" /\ mem[w].cur = d /\ mem[w].row.issue = i

(* The issue of a delivery is in its row, or about to be. *)
Issued(d) ==
  /\ (\E w \in Workers : mem[w].cur = d) \/ Of(d) # {} =>
       Exists(d) \/ sub[d[2]] = "deleted"
  /\ \A i \in Of(d) : ~issues[i].gone /\ ~issues[i].away
  /\ \A i \in Of(d) : \/ delivery[d].issue = i \/ ~Exists(d)
                      \/ \E w \in Workers : Saving(w, d, i)
  /\ \A i, j \in Of(d) : i = j
  /\ Of(d) # {} /\ delivery[d].status = "failed" => IsRetry(d[1], delivery[d])

LocalInv(d) ==
  Alone(d) /\ Issued(d) /\ \A w \in Workers : mem[w].cur = d => Attempt(w, d)

(* The trigger of an event that was delivered stays. *)
LEMMA RetriedStays ==
  ASSUME BaseInv, Published, [Next]_vars, NEW d \in Deliveries, Exists(d) \/ Of(d) # {}
  PROVE  event'[d[1]].retried = event[d[1]].retried
<1>1. Known(d[1])
  BY DEF Published, Of
<1> QED BY <1>1, EventStep, DeliveryFacts DEF EventsStay

(* The row changes at most as a request or the deletion of its subscription  *)
(* changes it.                                                               *)
RowQuiet(d) ==
  \/ delivery'[d].status = "none" /\ sub'[d[2]] = "deleted"
  \/ /\ delivery'[d].issue = delivery[d].issue
     /\ delivery'[d].status = "none" <=> delivery[d].status = "none"
     /\ delivery'[d].status = "failed" =>
          delivery[d].status = "failed" /\ delivery'[d].retry = delivery[d].retry
     /\ delivery[d].retry => delivery'[d].retry

(* Nothing happens at d. *)
LEMMA Frame ==
  ASSUME BaseInv, Published, [Next]_vars, NEW d \in Deliveries, LocalInv(d),
         OfStays(d), RowQuiet(d),
         \A w \in Workers : mem'[w].cur = d =>
           /\ mem[w].cur = d /\ mem'[w] = mem[w]
           /\ pc'[w] = pc[w] /\ msg'[w] = msg[w],
         \A w \in Workers : mem[w].cur = d /\ pc[w] = "save" => mem'[w].cur = d
  PROVE  LocalInv(d)'
<1>0. d[2] \in Subs
  BY DeliveryFacts
<1>1. Alone(d)'
  BY DEF LocalInv, Alone
<1>2. ASSUME (\E w \in Workers : mem'[w].cur = d) \/ Of(d) # {}
      PROVE  delivery'[d].status # "none" \/ sub'[d[2]] = "deleted"
  <2>1. Exists(d) \/ sub[d[2]] = "deleted"
    BY <1>2 DEF LocalInv, Issued
  <2> QED BY <1>0, <2>1, SubStep DEF RowQuiet, Exists
<1>3. \A i \in Of(d) : ~issues'[i].gone /\ ~issues'[i].away
  BY DEF LocalInv, Issued, OfStays
<1>4. ASSUME NEW i \in Of(d)
      PROVE  \/ delivery'[d].issue = i \/ delivery'[d].status = "none"
             \/ \E w \in Workers : Saving(w, d, i)'
  <2>1. ASSUME NEW w \in Workers, Saving(w, d, i) PROVE Saving(w, d, i)'
    BY <2>1 DEF Saving
  <2>2. \/ delivery[d].issue = i \/ ~Exists(d) \/ \E w \in Workers : Saving(w, d, i)
    BY DEF LocalInv, Issued
  <2> QED BY <2>1, <2>2 DEF RowQuiet, Exists
<1>5. \A i, j \in Of(d) : i = j
  BY DEF LocalInv, Issued
<1>6. ASSUME Of(d) # {}, delivery'[d].status = "failed"
      PROVE  delivery'[d].retry \/ event'[d[1]].retried
  <2>1. delivery[d].status = "failed" /\ delivery'[d].retry = delivery[d].retry
    BY <1>6 DEF RowQuiet
  <2>2. delivery[d].retry \/ event[d[1]].retried
    BY <1>6, <2>1 DEF LocalInv, Issued, IsRetry
  <2> QED BY <1>6, <2>1, <2>2, RetriedStays
<1>7. Issued(d)'
  BY <1>2, <1>3, <1>4, <1>5, <1>6 DEF Issued, OfStays, Exists, IsRetry
<1>8. ASSUME NEW w \in Workers, mem'[w].cur = d PROVE Attempt(w, d)'
  <2>1. /\ mem[w].cur = d /\ mem'[w] = mem[w] /\ pc'[w] = pc[w] /\ msg'[w] = msg[w]
    BY <1>8
  <2>2. Attempt(w, d)
    BY <2>1 DEF LocalInv
  <2>3. ASSUME delivery'[d].status # "none"
        PROVE  /\ Exists(d) /\ (delivery[d].retry => delivery'[d].retry)
               /\ delivery'[d].status = "failed" => delivery[d].status = "failed"
    BY <2>3 DEF RowQuiet, Exists
  <2>4. ASSUME delivery'[d].status # "none"
        PROVE  event'[d[1]].retried = event[d[1]].retried
    BY <2>3, <2>4, RetriedStays
  <2> QED BY <2>1, <2>2, <2>3, <2>4 DEF Attempt, OfStays, Exists, IsRetry
<1> QED BY <1>1, <1>7, <1>8 DEF LocalInv

(* A worker does something at the delivery it is at. *)
LEMMA AtStep ==
  ASSUME BaseInv, Published, [Next]_vars, NEW d \in Deliveries, LocalInv(d),
         NEW w \in Workers, mem[w].cur = d, OthersStay(w), OfStays(d),
         Exists(d) <=> delivery'[d].status # "none",
         \A i \in Of(d) : Exists(d) => delivery'[d].issue = i \/ Saving(w, d, i)',
         Of(d) # {} /\ delivery'[d].status = "failed" =>
           delivery'[d].retry \/ event[d[1]].retried,
         mem'[w].cur = d => Attempt(w, d)'
  PROVE  LocalInv(d)'
<1>0. d[2] \in Subs
  BY DeliveryFacts
<1>1. \A v \in Workers \ {w} : mem'[v].cur # d
  BY DEF LocalInv, Alone, OthersStay
<1>2. Alone(d)'
  BY <1>1 DEF Alone
<1>3. delivery'[d].status # "none" \/ sub'[d[2]] = "deleted"
  BY <1>0, SubStep DEF LocalInv, Issued
<1>4. \A i \in Of(d) : ~issues'[i].gone /\ ~issues'[i].away
  BY DEF LocalInv, Issued, OfStays
<1>5. \A i, j \in Of(d) : i = j
  BY DEF LocalInv, Issued
<1>6. ASSUME Of(d) # {}, delivery'[d].status = "failed"
      PROVE  delivery'[d].retry \/ event'[d[1]].retried
  BY <1>6, RetriedStays
<1>7. Issued(d)'
  BY <1>3, <1>4, <1>5, <1>6 DEF Issued, OfStays, Exists, IsRetry
<1> QED BY <1>1, <1>2, <1>7 DEF LocalInv

(* Nothing happens to the issues. *)
LEMMA QuietOf ==
  ASSUME NEW d, issues' = issues
  PROVE  OfStays(d)
BY DEF OfStays, Of

(* A retry that has an issue updates it. *)
LEMMA PlanUpdates ==
  ASSUME BaseInv, NEW d \in Deliveries, NEW row \in Row, Careful(d),
         row.issue # None, IsRetry(d[1], row)
  PROVE  PlanFor(d, row).action = "update" /\ PlanFor(d, row).ref = row.issue
<1> DEFINE related == RelatedIssues(d[2], EmailOf(d[1]))
           i == row.issue
<1>1. WantedAction(d, row, i, related) = "update"
  <2> HIDE DEF related, i
  <2> QED BY DEF WantedAction, Careful, i
<1>2. "update" # "new_and_link"
  OBVIOUS
<1> HIDE DEF related
<1> QED BY <1>1, <1>2 DEF PlanFor, related

(* The steps of a worker at a delivery, one by one: the row is marked        *)
(* PENDING again.                                                            *)
LEMMA AtReopen ==
  ASSUME BaseInv, Published, [Next]_vars, NEW d \in Deliveries, LocalInv(d),
         NEW w \in Workers, mem[w].cur = d, ReopenDelivery(w)
  PROVE  LocalInv(d)'
<1>1. OfStays(d) /\ OthersStay(w) /\ mem' = mem /\ msg' = msg
  BY ReopenEffect, QuietOf DEF ReopenDelivery
<1>2. Attempt(w, d) /\ IsEventTask(msg[w]) /\ pc[w] = "reopen"
  BY AtWork DEF LocalInv, ReopenDelivery
<1>3. CASE ~Exists(d) /\ pc'[w] = "abort" /\ delivery' = delivery
  <2>1. Attempt(w, d)'
    BY <1>1, <1>2, <1>3 DEF Attempt, Exists
  <2> QED BY <1>1, <1>3, <2>1, AtStep DEF Exists
<1>4. CASE /\ Exists(d) /\ pc'[w] = "plan"
           /\ Writes(d, "pending", delivery[d].issue, delivery[d].retry)
  <2>1. event'[d[1]].retried = event[d[1]].retried
    BY <1>4, RetriedStays
  <2>2. Attempt(w, d)'
    BY <1>1, <1>2, <1>4, <2>1 DEF Attempt, Writes, OfStays, IsRetry
  <2>3. \A i \in Of(d) : delivery[d].issue = i
    BY <1>2, <1>4 DEF LocalInv, Issued, Saving, Alone
  <2> QED BY <1>1, <1>4, <2>2, <2>3, AtStep DEF Writes
<1> QED BY <1>3, <1>4, ReopenEffect

(* The retry of a delivery marks its row. *)
LEMMA AtRetry ==
  ASSUME BaseInv, Published, [Next]_vars, NEW d \in Deliveries, LocalInv(d),
         NEW w \in Workers, mem[w].cur = d, RetryDelivery(w)
  PROVE  LocalInv(d)'
<1>1. OfStays(d) /\ OthersStay(w) /\ mem' = mem /\ msg' = msg
  BY RetryEffect, QuietOf DEF RetryDelivery
<1>2. Attempt(w, d) /\ ~IsEventTask(msg[w]) /\ pc[w] = "retry"
  BY AtWork DEF LocalInv, RetryDelivery
<1>3. CASE ~Exists(d) /\ pc'[w] = "release" /\ delivery' = delivery
  <2>1. Attempt(w, d)'
    BY <1>1, <1>2, <1>3 DEF Attempt, Exists
  <2> QED BY <1>1, <1>3, <2>1, AtStep DEF Exists
<1>4. CASE /\ Exists(d) /\ pc'[w] = "plan"
           /\ Writes(d, "pending", delivery[d].issue, TRUE)
  <2>1. Attempt(w, d)'
    BY <1>1, <1>2, <1>4 DEF Attempt, Writes, OfStays, IsRetry
  <2>2. \A i \in Of(d) : delivery[d].issue = i
    BY <1>2, <1>4 DEF LocalInv, Issued, Saving, Alone
  <2> QED BY <1>1, <1>4, <2>1, <2>2, AtStep DEF Writes
<1> QED BY <1>3, <1>4, RetryEffect

(* The plan of a delivery that has an issue is to update it. *)
LEMMA AtPlan ==
  ASSUME BaseInv, Published, [Next]_vars, NEW d \in Deliveries, Careful(d), LocalInv(d),
         NEW w \in Workers, mem[w].cur = d, PlanDelivery(w)
  PROVE  LocalInv(d)'
<1> DEFINE plan == PlanFor(d, mem[w].row)
<1>1. OfStays(d) /\ OthersStay(w) /\ msg' = msg
  BY PlanEffect, QuietOf DEF PlanDelivery
<1>2. Attempt(w, d) /\ pc[w] = "plan" /\ mem[w].row \in Row
  BY AtWork DEF LocalInv, PlanDelivery
<1>3. CASE ~Exists(d) /\ pc'[w] = "fail" /\ delivery' = delivery /\ mem' = mem
  <2>1. Attempt(w, d)'
    BY <1>1, <1>2, <1>3 DEF Attempt, Exists
  <2> QED BY <1>1, <1>3, <2>1, AtStep DEF Exists
<1>4. ASSUME NEW adopted,
             Exists(d),
             adopted = IF plan.action = "update" /\ mem[w].row.issue = None
                       THEN plan.ref ELSE mem[w].row.issue,
             pc'[w] = IF plan.action = "update" THEN "update" ELSE "create",
             Writes(d, "processing", adopted, mem[w].row.retry),
             mem'[w].row.issue = adopted, mem'[w].row.retry = mem[w].row.retry,
             mem'[w].ref = plan.ref
      PROVE  LocalInv(d)'
  <2>1. event'[d[1]].retried = event[d[1]].retried
    BY <1>4, RetriedStays
  <2>2. ASSUME NEW i \in Of(d)
        PROVE  adopted = i /\ plan.action = "update" /\ IsRetry(d[1], mem[w].row)
    <3>1. mem[w].row.issue = i /\ IsRetry(d[1], mem[w].row)
      BY <1>2, <1>4, <2>2 DEF Attempt
    <3>2. i # None
      BY <2>2, IssueTypes, RelayAssumption DEF Of
    <3>3. plan.action = "update" /\ plan.ref = mem[w].row.issue
      BY <1>2, <3>1, <3>2, PlanUpdates
    <3> QED BY <1>4, <3>1, <3>3
  <2>3. plan.action = "update" => adopted = plan.ref
    BY <1>2, <1>4, PlanFacts
  <2>4. ~IsEventTask(msg[w]) => mem[w].row.retry
    BY <1>2 DEF Attempt
  <2> HIDE DEF plan
  <2>5. Attempt(w, d)'
    BY <1>1, <1>4, <2>1, <2>2, <2>3, <2>4 DEF Attempt, Writes, OfStays, IsRetry
  <2> QED BY <1>1, <1>4, <2>2, <2>5, AtStep DEF Writes
<1> QED BY <1>3, <1>4, PlanEffect

(* The external call fails. *)
LEMMA AtCallFails ==
  ASSUME BaseInv, Published, [Next]_vars, NEW d \in Deliveries, LocalInv(d),
         NEW w \in Workers, mem[w].cur = d, CallFails(w)
  PROVE  LocalInv(d)'
<1>1. /\ OfStays(d) /\ OthersStay(w) /\ msg' = msg /\ mem' = mem
      /\ delivery' = delivery /\ pc'[w] = "fail"
  BY QuietOf, Types DEF CallFails, rows, Goto, OthersStay
<1>2. Attempt(w, d) /\ pc[w] \in {"update", "create"}
  BY DEF LocalInv, CallFails
<1>3. Exists(d) => event'[d[1]].retried = event[d[1]].retried
  BY RetriedStays
<1>4. Attempt(w, d)'
  BY <1>1, <1>2, <1>3 DEF Attempt, Exists, OfStays, IsRetry
<1>5. \A i \in Of(d) : Exists(d) => delivery[d].issue = i
  BY <1>2 DEF LocalInv, Issued, Saving, Alone
<1> QED BY <1>1, <1>4, <1>5, AtStep DEF Exists, LocalInv, Issued, IsRetry

(* The update of an issue that is there makes none. *)
LEMMA AtUpdate ==
  ASSUME BaseInv, Published, [Next]_vars, NEW d \in Deliveries, LocalInv(d),
         NEW w \in Workers, mem[w].cur = d, UpdateIssue(w)
  PROVE  LocalInv(d)'
<1>1. OfStays(d) /\ OthersStay(w) /\ msg' = msg /\ delivery' = delivery
  BY UpdateEffect, QuietOf DEF UpdateIssue, rows
<1>2. Attempt(w, d) /\ pc[w] = "update"
  BY DEF LocalInv, UpdateIssue
<1>3. \A i \in Of(d) : delivery[d].issue = i \/ ~Exists(d)
  BY <1>2 DEF LocalInv, Issued, Saving, Alone
<1>4. Of(d) # {} /\ delivery[d].status = "failed" => delivery[d].retry \/ event[d[1]].retried
  BY DEF LocalInv, Issued, IsRetry
<1>5. CASE /\ issues[mem[w].ref].gone \/ issues[mem[w].ref].away
           /\ pc'[w] = "create" /\ mem' = mem
  <2>1. Of(d) = {}
    BY <1>2, <1>5 DEF Attempt, LocalInv, Issued
  <2>2. Attempt(w, d)'
    BY <1>1, <1>2, <1>5, <2>1 DEF Attempt, Exists, OfStays
  <2> QED BY <1>1, <1>3, <1>4, <2>2, AtStep DEF Exists
<1>6. CASE /\ pc'[w] = "save"
           /\ mem'[w].row.issue = mem[w].ref /\ mem'[w].row.retry = mem[w].row.retry
  <2>1. Attempt(w, d)'
    BY <1>1, <1>2, <1>6 DEF Attempt, Exists, OfStays
  <2> QED BY <1>1, <1>3, <1>4, <2>1, AtStep DEF Exists
<1> QED BY <1>5, <1>6, UpdateEffect

(* The issue is saved in the row. *)
LEMMA AtSave ==
  ASSUME BaseInv, Published, [Next]_vars, NEW d \in Deliveries, LocalInv(d),
         NEW w \in Workers, mem[w].cur = d, SaveDelivery(w)
  PROVE  LocalInv(d)'
<1>0. d # None
  BY RelayAssumption
<1>1. OfStays(d) /\ OthersStay(w) /\ msg' = msg
  BY SaveEffect, QuietOf DEF SaveDelivery
<1>2. Attempt(w, d) /\ pc[w] = "save"
  BY DEF LocalInv, SaveDelivery
<1>3. CASE ~Exists(d) /\ pc'[w] = "fail" /\ delivery' = delivery /\ mem' = mem
  <2>1. Attempt(w, d)'
    BY <1>1, <1>2, <1>3 DEF Attempt, Exists
  <2> QED BY <1>1, <1>3, <2>1, AtStep DEF Exists
<1>4. CASE /\ Exists(d) /\ mem'[w].cur = None
           /\ Writes(d, "success", mem[w].row.issue, mem[w].row.retry)
  <2>1. \A i \in Of(d) : mem[w].row.issue = i
    BY <1>2 DEF Attempt
  <2> QED BY <1>0, <1>1, <1>4, <2>1, AtStep DEF Writes
<1> QED BY <1>3, <1>4, SaveEffect

(* A failure keeps what the next attempt needs. *)
LEMMA AtFail ==
  ASSUME BaseInv, Published, [Next]_vars, NEW d \in Deliveries, LocalInv(d),
         NEW w \in Workers, mem[w].cur = d, FailDelivery(w)
  PROVE  LocalInv(d)'
<1>0. d # None
  BY RelayAssumption
<1>1. OfStays(d) /\ OthersStay(w) /\ msg' = msg
  BY FailEffect, QuietOf DEF FailDelivery
<1>2. Attempt(w, d) /\ pc[w] = "fail"
  BY DEF LocalInv, FailDelivery
<1>3. \A i \in Of(d) : delivery[d].issue = i \/ ~Exists(d)
  BY <1>2 DEF LocalInv, Issued, Saving, Alone
<1>4. Of(d) # {} /\ delivery[d].status = "failed" => delivery[d].retry \/ event[d[1]].retried
  BY DEF LocalInv, Issued, IsRetry
<1>5. CASE pc'[w] \in {"failEvent", "abort"} /\ delivery' = delivery /\ mem' = mem
  <2>1. Attempt(w, d)'
    BY <1>1, <1>2, <1>5 DEF Attempt, Exists
  <2> QED BY <1>1, <1>3, <1>4, <1>5, <2>1, AtStep DEF Exists
<1>6. CASE /\ Exists(d) /\ mem'[w].cur = None
           /\ Writes(d, "failed", delivery[d].issue, mem[w].row.retry)
  <2>1. Of(d) # {} => mem[w].row.retry \/ event[d[1]].retried
    BY <1>2, <1>6 DEF Attempt, IsRetry
  <2> QED BY <1>0, <1>1, <1>3, <1>6, <2>1, AtStep DEF Writes
<1> QED BY <1>5, <1>6, FailEffect

(* A retry that failed leaves the row marked as a retry. *)
LEMMA AtFailRetry ==
  ASSUME BaseInv, Published, [Next]_vars, NEW d \in Deliveries, LocalInv(d),
         NEW w \in Workers, mem[w].cur = d, FailRetry(w)
  PROVE  LocalInv(d)'
<1>1. OfStays(d) /\ OthersStay(w) /\ msg' = msg /\ mem' = mem /\ pc'[w] = "release"
  BY FailRetryEffect, QuietOf DEF FailRetry
<1>2. Attempt(w, d) /\ pc[w] = "failDelivery" /\ ~IsEventTask(msg[w])
  BY AtWork DEF LocalInv, FailRetry
<1>3. \A i \in Of(d) : delivery[d].issue = i \/ ~Exists(d)
  BY <1>2 DEF LocalInv, Issued, Saving, Alone
<1>4. CASE ~Exists(d) /\ delivery' = delivery
  <2>1. Attempt(w, d)'
    BY <1>1, <1>2, <1>4 DEF Attempt, Exists
  <2> QED BY <1>1, <1>4, <2>1, AtStep DEF Exists
<1>5. CASE Exists(d) /\ Writes(d, "failed", delivery[d].issue, delivery[d].retry)
  <2>1. delivery[d].retry
    BY <1>2, <1>5 DEF Attempt
  <2>2. Attempt(w, d)'
    BY <1>1, <1>2, <1>5, <2>1 DEF Attempt, Writes
  <2> QED BY <1>1, <1>3, <1>5, <2>1, <2>2, AtStep DEF Writes
<1> QED BY <1>4, <1>5, FailRetryEffect

(* The steps that end or leave a task without touching the row *)
LEMMA AtEnd ==
  ASSUME BaseInv, Published, [Next]_vars, NEW d \in Deliveries, LocalInv(d),
         NEW w \in Workers, mem[w].cur = d,
         AbortEvent(w) \/ FailEvent(w) \/ Release(w)
  PROVE  LocalInv(d)'
<1>0. d # None
  BY RelayAssumption
<1>1. OfStays(d) /\ OthersStay(w) /\ delivery' = delivery
  BY QuietOf, Types DEF AbortEvent, FailEvent, Release, rows, Goto, OthersStay
<1>2. Attempt(w, d) /\ pc[w] \in {"abort", "failEvent", "release"}
  BY DEF LocalInv, AbortEvent, FailEvent, Release
<1>3. \/ mem' = mem /\ msg' = msg /\ pc'[w] \in {"release", "failDelivery"}
      \/ mem'[w].cur = None
  BY Types, NoMemType DEF AbortEvent, FailEvent, Release, Goto
<1>4. \A i \in Of(d) : delivery[d].issue = i \/ ~Exists(d)
  BY <1>2 DEF LocalInv, Issued, Saving, Alone
<1>5. Of(d) # {} /\ delivery[d].status = "failed" => delivery[d].retry \/ event[d[1]].retried
  BY DEF LocalInv, Issued, IsRetry
<1>6. ASSUME mem'[w].cur = d PROVE Attempt(w, d)'
  BY <1>0, <1>1, <1>2, <1>3, <1>6 DEF Attempt, Exists
<1> QED BY <1>1, <1>4, <1>5, <1>6, AtStep DEF Exists

(* The first issue is made. *)
LEMMA AtCreate ==
  ASSUME BaseInv, Published, [Next]_vars, NEW d \in Deliveries, LocalInv(d),
         NEW w \in Workers, mem[w].cur = d, CreateIssue(w)
  PROVE  LocalInv(d)'
<1>0. PICK n : n = Len(issues) + 1
  OBVIOUS
<1>1. /\ OthersStay(w) /\ msg' = msg /\ delivery' = delivery /\ pc'[w] = "save"
      /\ mem'[w].cur = d /\ mem'[w].row.issue = n /\ mem'[w].row.retry = mem[w].row.retry
  BY <1>0, CreateEffect DEF CreateIssue, rows
<1>2. Attempt(w, d) /\ pc[w] = "create" /\ Makes(w)
  BY NewIssueMakes DEF LocalInv, CreateIssue
<1>3. Of(d) = {} /\ (Exists(d) => delivery[d].status # "failed")
  BY <1>2 DEF Attempt
<1>4. Of(d)' = {n} /\ issues'[n].gone = FALSE /\ issues'[n].away = FALSE
  BY <1>0, <1>2, <1>3, IssueTypes DEF Of, Makes
<1>5. Exists(d) \/ sub[d[2]] = "deleted"
  BY DEF LocalInv, Issued
<1>6. delivery'[d].status # "none" \/ sub'[d[2]] = "deleted"
  BY <1>1, <1>5, SubStep, DeliveryFacts DEF Exists
<1>7. \A v \in Workers \ {w} : mem'[v].cur # d
  BY <1>1 DEF LocalInv, Alone, OthersStay
<1>8. Saving(w, d, n)'
  BY <1>1 DEF Saving
<1>9. delivery'[d].status # "failed"
  BY <1>1, <1>3 DEF Exists
<1>10. Issued(d)'
  <2>1. ASSUME NEW i \in Of(d)' PROVE i = n
    BY <1>4, <2>1
  <2> QED BY <1>4, <1>6, <1>8, <1>9, <2>1 DEF Issued, Exists
<1>11. Attempt(w, d)'
  <2>1. /\ ~IsEventTask(msg[w]) => mem[w].row.retry
        /\ ~IsEventTask(msg[w]) /\ Exists(d) => delivery[d].retry
    BY <1>2 DEF Attempt
  <2> QED BY <1>1, <1>4, <2>1 DEF Attempt, Exists
<1> QED BY <1>7, <1>10, <1>11 DEF LocalInv, Alone

(* Two tasks of one kind that are at the same delivery are the same task,    *)
(* unless the delivery is excused.                                           *)
LEMMA OnlyOne ==
  ASSUME BaseInv, LockInv, NEW d \in Deliveries, d \notin excused,
         NEW v \in Workers, NEW w \in Workers, mem[v].cur = d, msg[w] \in Message,
         IsEventTask(msg[v]) = IsEventTask(msg[w]), Concerns(msg[w], d)
  PROVE  v = w
<1>1. d # None
  BY RelayAssumption
<1>2. msg[v] \in Message /\ Concerns(msg[v], d)
  BY <1>1, Types DEF BaseInv, UnderWay
<1>3. msg[v] = msg[w]
  BY <1>2, MessageFacts DEF Concerns
<1>4. msg[v] # None
  BY <1>2, RelayAssumption
<1> QED BY <1>2, <1>3, <1>4 DEF LockInv, Lapsed

(* A task that comes to a delivery finds no other there. *)
LEMMA Arrival ==
  ASSUME BaseInv, LockInv, NEW d \in Deliveries, NEW w \in Workers,
         mem[w].cur = None, Concerns(msg[w], d), msg[w] \in Message,
         Excuse(w, d), d \notin excused'
  PROVE  \A v \in Workers : mem[v].cur # d
<1> SUFFICES ASSUME NEW v \in Workers, mem[v].cur = d PROVE FALSE
  OBVIOUS
<1>1. d # None
  BY RelayAssumption
<1>2. v # w
  BY <1>1
<1>3. ~Overlaps(w, d)
  BY DEF Excuse
<1>4. IsEventTask(msg[v]) = IsEventTask(msg[w]) /\ d \notin excused
  BY <1>2, <1>3 DEF Overlaps, Excuse
<1> QED BY <1>2, <1>4, OnlyOne

(* A retry comes to a delivery. *)
LEMMA AtLoad ==
  ASSUME BaseInv, LockInv, Published, [Next]_vars, NEW d \in Deliveries, LocalInv(d),
         d \notin excused', NEW w \in Workers, LoadDelivery(w), mem'[w].cur = d
  PROVE  LocalInv(d)'
<1>0. d # None
  BY RelayAssumption
<1>1. /\ mem[w].cur = None /\ msg[w] \in Message /\ pc[w] = "load"
      /\ ~IsEventTask(msg[w]) /\ UnderWay(w)
  BY AtWork DEF BaseInv, UnderWay, LoadDelivery
<1>2. OfStays(d) /\ OthersStay(w) /\ msg' = msg /\ delivery' = delivery /\ event' = event
  BY LoadEffect, QuietOf DEF LoadDelivery, rows
<1>3. /\ d = msg[w].delivery /\ Exists(d) /\ pc'[w] = "retry" /\ Excuse(w, d)
      /\ mem'[w].row.issue = delivery[d].issue /\ mem'[w].row.retry = TRUE
  BY <1>0, <1>1, LoadEffect
<1>4. \A v \in Workers : mem[v].cur # d
  BY <1>1, <1>3, Arrival DEF Concerns
<1>5. \A i \in Of(d) : delivery[d].issue = i
  BY <1>3, <1>4 DEF LocalInv, Issued, Saving
<1>6. Attempt(w, d)'
  BY <1>2, <1>3, <1>5 DEF Attempt, OfStays
<1>7. \A v \in Workers \ {w} : mem'[v].cur # d
  BY <1>2, <1>4 DEF OthersStay
<1>8. Issued(d)'
  BY <1>2, <1>3, <1>5 DEF LocalInv, Issued, OfStays, Exists, IsRetry
<1> QED BY <1>6, <1>7, <1>8 DEF LocalInv, Alone

(* A run of the event comes to a delivery. *)
LEMMA AtOpen ==
  ASSUME BaseInv, LockInv, Published, [Next]_vars, NEW d \in Deliveries, LocalInv(d),
         d \notin excused', NEW w \in Workers, OpenDelivery(w), mem'[w].cur = d
  PROVE  LocalInv(d)'
<1>0. d # None
  BY RelayAssumption
<1>1. /\ mem[w].cur = None /\ msg[w] \in Message /\ pc[w] = "open"
      /\ IsEventTask(msg[w])
  BY AtWork DEF BaseInv, UnderWay, OpenDelivery
<1>2. PICK s \in mem[w].todo, m \in Mem, c \in Deliveries : OpenEffect(w, s, m, c)
  BY Opened
<1>3. mem'[w] = m /\ m.cur = d
  BY <1>2, Types DEF OpenEffect
<1>4. c = d /\ d = <<msg[w].event, s>> /\ Excuse(w, d)
  BY <1>0, <1>1, <1>2, <1>3 DEF OpenEffect
<1>5. /\ OfStays(d) /\ OthersStay(w) /\ msg' = msg /\ event' = event /\ sub' = sub
  BY QuietOf, OthersUntouched, Types DEF OpenDelivery, others, WorkerStep
<1>6. d[1] = msg[w].event /\ d[2] = s
  BY <1>4
<1>7. \A v \in Workers : mem[v].cur # d
  BY <1>1, <1>4, <1>6, Arrival DEF Concerns
<1>8. \A v \in Workers \ {w} : mem'[v].cur # d
  BY <1>5, <1>7 DEF OthersStay
<1>9. CASE /\ ~Exists(d) /\ sub[s] # "deleted"
           /\ delivery' = [delivery EXCEPT ![d] = [NoRow EXCEPT !.status = "pending"]]
           /\ m.row = NoRow /\ Goto(w, "plan")
  <2>1. Of(d) = {}
    BY <1>6, <1>9 DEF LocalInv, Issued
  <2>2. delivery'[d].status = "pending" /\ pc'[w] = "plan"
    BY <1>9, Types DEF NoRow, Goto
  <2>3. Attempt(w, d)'
    BY <1>1, <1>5, <2>1, <2>2 DEF Attempt, OfStays
  <2>4. Issued(d)'
    BY <1>5, <2>1, <2>2 DEF Issued, OfStays, Exists
  <2> QED BY <1>8, <2>3, <2>4 DEF LocalInv, Alone
<1>10. CASE /\ Exists(d) /\ ~MustSkip(delivery[d].status) /\ m.row = delivery[d]
            /\ delivery' = delivery /\ Goto(w, "reopen")
  <2>1. delivery[d].status = "failed" /\ pc'[w] = "reopen"
    BY <1>10, Types DEF Row, MustSkip, Exists, Goto
  <2>2. \A i \in Of(d) : delivery[d].issue = i
    BY <1>7, <1>10 DEF LocalInv, Issued, Saving
  <2>3. Of(d) # {} => IsRetry(d[1], delivery[d])
    BY <2>1 DEF LocalInv, Issued
  <2>4. Attempt(w, d)'
    BY <1>1, <1>3, <1>5, <1>10, <2>1, <2>2, <2>3 DEF Attempt, OfStays, IsRetry
  <2>5. Issued(d)'
    BY <1>5, <1>10, <2>2, <2>3 DEF LocalInv, Issued, OfStays, Exists, IsRetry
  <2> QED BY <1>8, <2>4, <2>5 DEF LocalInv, Alone
<1> QED BY <1>0, <1>1, <1>2, <1>3, <1>4, <1>9, <1>10 DEF OpenEffect

(* Only two steps bring a worker to a delivery. *)
LEMMA Comes ==
  ASSUME BaseInv, [Next]_vars, NEW w \in Workers, WorkerStep(w),
         mem'[w].cur # None, mem'[w].cur # mem[w].cur
  PROVE  OpenDelivery(w) \/ LoadDelivery(w)
<1>1. ASSUME NEW m \in Message, Take(w, m) \/ Skip(w, m) PROVE mem' = mem
  BY <1>1 DEF Take, Skip, worker
<1>2. ASSUME ListSubscriptions(w) \/ CountFailed(w) PROVE mem'[w].cur = mem[w].cur
  BY <1>2, Types DEF ListSubscriptions, CountFailed, Mem
<1>3. ASSUME Release(w) PROVE mem'[w].cur = None
  BY <1>3, Types, NoMemType DEF Release
<1>4. ASSUME \/ StartEvent(w) \/ FinishEvent(w) \/ AbortEvent(w) \/ CallFails(w)
             \/ UpdateMistaken(w) \/ CreateUnanswered(w) \/ SettleEvent(w)
             \/ FailEvent(w)
      PROVE  mem' = mem
  BY <1>4
     DEF StartEvent, FinishEvent, AbortEvent, CallFails, UpdateMistaken,
         CreateUnanswered, SettleEvent, FailEvent
<1>5. ASSUME \/ ReopenDelivery(w) \/ PlanDelivery(w) \/ UpdateIssue(w) \/ CreateIssue(w)
             \/ SaveDelivery(w) \/ FailDelivery(w) \/ RetryDelivery(w) \/ FailRetry(w)
      PROVE  mem'[w].cur = mem[w].cur \/ mem'[w].cur = None
  BY <1>5, ReopenEffect, PlanEffect, UpdateEffect, CreateEffect, SaveEffect,
     FailEffect, RetryEffect, FailRetryEffect
<1> QED BY <1>1, <1>2, <1>3, <1>4, <1>5 DEF WorkerStep

(* No step of a worker disturbs a delivery. *)
LEMMA AtWorker ==
  ASSUME BaseInv, LockInv, Published, [Next]_vars, NEW d \in Deliveries,
         Careful(d), d \notin excused', LocalInv(d), NEW w \in Workers, WorkerStep(w)
  PROVE  LocalInv(d)'
<1>0. d # None
  BY RelayAssumption
<1>1. CASE mem[w].cur # d /\ mem'[w].cur = d
  BY <1>0, <1>1, Comes, AtOpen, AtLoad
<1>2. CASE mem[w].cur # d /\ mem'[w].cur # d
  <2>1. delivery'[d] = delivery[d]
    BY <1>2, RowFrame
  <2>2. RowQuiet(d)
    BY <2>1 DEF RowQuiet
  <2>3. OthersStay(w)
    BY OthersUntouched
  <2>4. OfStays(d)
    <3>1. CASE issues' = issues
      BY <3>1, QuietOf
    <3>2. CASE CreateIssue(w) \/ CreateUnanswered(w)
      <4>1. Makes(w)
        BY <3>2, NewIssueMakes DEF CreateIssue, CreateUnanswered
      <4> QED BY <1>2, <4>1, IssueTypes DEF Makes, OfStays, Of
    <3> QED BY <3>1, <3>2, IssuesUntouched DEF WorkerStep
  <2> QED BY <1>2, <2>2, <2>3, <2>4, Frame DEF OthersStay
<1>3. CASE mem[w].cur = d
  <2>1. UnderWay(w)
    BY DEF BaseInv
  <2>2. ASSUME NEW m \in Message, Take(w, m) \/ Skip(w, m) PROVE FALSE
    BY <1>0, <1>3, <2>1, <2>2 DEF UnderWay, Take, Skip
  <2>3. ~CreateUnanswered(w) /\ ~UpdateMistaken(w)
    BY <1>3 DEF CreateUnanswered, UpdateMistaken
  <2>4. ~(\/ StartEvent(w) \/ ListSubscriptions(w) \/ OpenDelivery(w) \/ FinishEvent(w)
          \/ LoadDelivery(w) \/ CountFailed(w) \/ SettleEvent(w))
    BY <1>0, <1>3, <2>1
       DEF UnderWay, StartEvent, ListSubscriptions, OpenDelivery, FinishEvent,
           LoadDelivery, CountFailed, SettleEvent
  <2> QED BY <1>3, <2>2, <2>3, <2>4, AtReopen, AtRetry, AtPlan, AtCallFails,
             AtUpdate, AtCreate, AtSave, AtFail, AtFailRetry, AtEnd
             DEF WorkerStep
<1> QED BY <1>1, <1>2, <1>3

(* Nor does a crash before the save, *)
LEMMA AtCrash ==
  ASSUME BaseInv, Published, [Next]_vars, NEW d \in Deliveries,
         d \notin excused', LocalInv(d), NEW w \in Workers, Crash(w)
  PROVE  LocalInv(d)'
<1>0. d # None
  BY RelayAssumption
<1>1. /\ OthersStay(w) /\ mem'[w].cur = None /\ OfStays(d)
      /\ delivery' = delivery
  BY QuietOf, Types, NoMemType DEF Crash, rows, Goto, OthersStay
<1>2. mem[w].cur = d => pc[w] # "save"
  BY DEF Crash
<1> QED BY <1>0, <1>1, <1>2, Frame DEF RowQuiet, OthersStay

(* nor a request or a user. *)
LEMMA AtUser ==
  ASSUME BaseInv, Published, [Next]_vars, NEW d \in Deliveries,
         LocalInv(d), OfStays(d), UNCHANGED worker, RowQuiet(d)
  PROVE  LocalInv(d)'
BY Frame DEF worker

(* Every step keeps what is known of a delivery that is not excused. *)
LEMMA LocalStep ==
  ASSUME BaseInv, LockInv, Published, [Next]_vars, NEW d \in Deliveries,
         Careful(d) => LocalInv(d)
  PROVE  Careful(d)' => LocalInv(d)'
<1> SUFFICES ASSUME Careful(d)' PROVE LocalInv(d)'
  OBVIOUS
<1>1. d \notin excused' /\ Careful(d) /\ LocalInv(d)
  BY ExcusedGrows DEF Careful
<1>2. delivery' = delivery => RowQuiet(d)
  BY DEF RowQuiet
<1>3. ASSUME NEW c \in Clients, ClientStep(c) PROVE LocalInv(d)'
  BY <1>1, <1>2, <1>3, AtUser, QuietOf
     DEF ClientStep, MarkEvent, QueueRetry, rows
<1>4. ASSUME Environment PROVE LocalInv(d)'
  <2>1. ASSUME NEW x \in Events, Publish(x) PROVE LocalInv(d)'
    BY <1>1, <1>2, <2>1, AtUser, QuietOf DEF Publish
  <2>2. ASSUME NEW c \in Clients, NEW b \in Deliveries, RequestDelivery(c, b)
        PROVE  LocalInv(d)'
    <3>1. RowQuiet(d)
      BY <2>2, Types DEF RequestDelivery, RowQuiet, Row, Exists
    <3> QED BY <1>1, <2>2, <3>1, AtUser, QuietOf DEF RequestDelivery
  <2>3. ASSUME NEW c \in Clients, NEW x \in Events, RequestEvent(c, x) PROVE LocalInv(d)'
    BY <1>1, <1>2, <2>3, AtUser, QuietOf DEF RequestEvent, rows
  <2>4. ASSUME NEW s \in Subs, ToggleSubscription(s) PROVE LocalInv(d)'
    BY <1>1, <1>2, <2>4, AtUser, QuietOf DEF ToggleSubscription, rows
  <2>5. ASSUME NEW s \in Subs, DeleteSubscription(s) PROVE LocalInv(d)'
    <3>1. RowQuiet(d)
      BY <2>5 DEF DeleteSubscription, RowQuiet, NoRow, BaseInv, TypeOK
    <3> QED BY <1>1, <2>5, <3>1, AtUser, QuietOf DEF DeleteSubscription
  <2>6. ASSUME NEW i \in DOMAIN issues, DeleteIssue(i) PROVE LocalInv(d)'
    <3>1. OfStays(d)
      <4>1. issues[i].of # d /\ issues' = [issues EXCEPT ![i].gone = TRUE]
        BY <1>1, <2>6 DEF DeleteIssue
      <4>2. /\ DOMAIN issues' = DOMAIN issues
            /\ \A j \in DOMAIN issues : issues'[j].of = issues[j].of
            /\ \A j \in DOMAIN issues : j # i => issues'[j] = issues[j]
        BY <4>1, IssueTypes
      <4> QED BY <4>1, <4>2 DEF OfStays, Of
    <3> QED BY <1>1, <1>2, <2>6, <3>1, AtUser DEF DeleteIssue, rows
  <2>7. ASSUME NEW m \in Message, Expire(m) \/ Overrun(m) PROVE LocalInv(d)'
    BY <1>1, <1>2, <2>7, AtUser, QuietOf DEF Expire, Overrun, rows
  <2>8. ASSUME NEW s \in Subs, MoveSubscription(s) PROVE LocalInv(d)'
    <3>1. OfStays(d)
      BY <1>1, <2>8, Moved DEF OfStays, Of
    <3> QED BY <1>1, <1>2, <2>8, <3>1, AtUser DEF MoveSubscription, rows
  <2> QED BY <1>1, <1>4, <2>1, <2>2, <2>3, <2>4, <2>5, <2>6, <2>7, <2>8, AtCrash
             DEF Environment
<1>5. ASSUME UNCHANGED vars PROVE LocalInv(d)'
  <2>1. issues' = issues /\ delivery' = delivery /\ UNCHANGED worker
    BY <1>5 DEF vars, worker
  <2> QED BY <1>1, <1>2, <2>1, AtUser, QuietOf
<1> QED BY <1>1, <1>3, <1>4, <1>5, AtWorker DEF Next

OneInv ==
  /\ BaseInv /\ Published /\ LockInv
  /\ \A d \in Deliveries : Careful(d) => LocalInv(d)

(* It holds at first. *)
LEMMA OneInit == Init => OneInv
<1> SUFFICES ASSUME Init PROVE OneInv
  OBVIOUS
<1>1. LockInv
  BY DEF Init, LockInv
<1>2. ASSUME NEW d \in Deliveries PROVE LocalInv(d)
  <2>1. Of(d) = {} /\ \A w \in Workers : mem[w].cur # d
    BY RelayAssumption DEF Init, Of, NoMem
  <2> QED BY <2>1 DEF LocalInv, Alone, Issued
<1> QED BY <1>1, <1>2, BaseInit, PublishedInit DEF OneInv

(* dispatcher.py and the task locks: with a strategy that updates on a       *)
(* retry, a delivery that is not excused has at most one issue.              *)
THEOREM OneIssue == Spec => []OneIssuePerDelivery
<1>1. OneInv /\ [Next]_vars => OneInv'
  <2> SUFFICES ASSUME OneInv, [Next]_vars PROVE OneInv'
    OBVIOUS
  <2>1. BaseInv' /\ Published' /\ LockInv'
    BY BaseStep, PublishedStep, LockStep DEF OneInv
  <2>2. \A d \in Deliveries : Careful(d)' => LocalInv(d)'
    BY LocalStep DEF OneInv
  <2> QED BY <2>1, <2>2 DEF OneInv
<1>2. OneInv => OneIssuePerDelivery
  <2> SUFFICES ASSUME OneInv, NEW d \in Deliveries \ excused,
                      Policy[d[2]].explicit \in {None, "update"},
                      Policy[d[2]].retry = "update"
               PROVE  Cardinality(Of(d)) <= 1
    BY DEF OneIssuePerDelivery, Of
  <2>1. \A i, j \in Of(d) : i = j
    BY DEF OneInv, Careful, LocalInv, Issued
  <2>2. Of(d) = {} \/ \E i : Of(d) = {i}
    BY <2>1
  <2>3. CASE Of(d) = {}
    BY <2>3, FS_EmptySet
  <2>4. ASSUME NEW i, Of(d) = {i} PROVE Cardinality(Of(d)) <= 1
    <3>1. Cardinality({i}) = 1
      BY FS_Singleton
    <3> QED BY <2>4, <3>1
  <2> QED BY <2>2, <2>3, <2>4
<1> QED BY OneInit, <1>1, <1>2, PTL DEF Spec

-----------------------------------------------------------------------------
(* A completed event has no failed delivery *)

(* One worker is deployed and nobody edits. *)
Calm == Cardinality(scene.staff) = 1 /\ budget.edits = 0

Dispatching == {"open", "reopen", "plan", "update", "create", "save", "fail"}

Failed(x, s) == delivery[<<x, s>>].status = "failed"

(* An event task has each failure before it, behind it or at hand, and a     *)
(* retry has counted them.                                                   *)
Tracked(w) ==
  /\ pc[w] \in Dispatching /\ IsEventTask(msg[w]) =>
       \A s \in Subs : Failed(msg[w].event, s) =>
         s \in mem[w].todo \/ mem[w].failed \/ mem[w].cur = <<msg[w].event, s>>
  /\ pc[w] = "settle" /\ ~mem[w].failed =>
       \A s \in Subs : ~Failed(msg[w].delivery[1], s)

Enabled ==
  /\ \A d \in Deliveries : Exists(d) => sub[d[2]] = "enabled"
  /\ \A w \in Workers : \A s \in mem[w].todo : sub[s] = "enabled"

FailureInv ==
  /\ \A w \in Workers : pc[w] # "idle" => w \in scene.staff
  /\ Calm => Enabled /\ \A w \in Workers : Tracked(w)

(* Nobody changes who is deployed, and only who is deployed moves.           *)
LEMMA StaffStep ==
  ASSUME BaseInv, [Next]_vars, \A w \in Workers : pc[w] # "idle" => w \in scene.staff
  PROVE  /\ scene' = scene
         /\ \A w \in Workers : pc'[w] # "idle" => w \in scene.staff
         /\ \A w \in Workers : WorkerStep(w) => w \in scene.staff
<1>1. scene' = scene
  <2>1. ASSUME NEW w \in Workers, WorkerStep(w) PROVE scene' = scene
    BY <2>1
       DEF WorkerStep, others, Take, Skip, StartEvent, ListSubscriptions,
           OpenDelivery, ReopenDelivery, FinishEvent, AbortEvent, PlanDelivery,
           CallFails, UpdateIssue, UpdateMistaken, CreateIssue,
           CreateUnanswered, SaveDelivery, FailDelivery, LoadDelivery,
           RetryDelivery, CountFailed, SettleEvent, FailEvent, FailRetry,
           Release
  <2>2. ASSUME NEW c \in Clients, ClientStep(c) PROVE scene' = scene
    BY <2>2 DEF ClientStep, MarkEvent, QueueRetry
  <2>3. Environment => scene' = scene
    BY DEF Environment, Publish, RequestDelivery, RequestEvent,
           ToggleSubscription, DeleteSubscription, DeleteIssue,
           MoveSubscription, Crash, Expire, Overrun, others
  <2> QED BY <2>1, <2>2, <2>3 DEF Next, vars
<1>2. ASSUME NEW w \in Workers, WorkerStep(w) PROVE w \in scene.staff
  BY <1>2
     DEF WorkerStep, Take, Skip, StartEvent, ListSubscriptions, OpenDelivery,
         ReopenDelivery, FinishEvent, AbortEvent, PlanDelivery, CallFails,
         UpdateIssue, UpdateMistaken, CreateIssue, CreateUnanswered,
         SaveDelivery, FailDelivery, LoadDelivery, RetryDelivery, CountFailed,
         SettleEvent, FailEvent, FailRetry, Release
<1>3. ASSUME NEW v \in Workers, pc'[v] # "idle" PROVE v \in scene.staff
  <2>1. ASSUME NEW w \in Workers, WorkerStep(w) PROVE v \in scene.staff
    BY <1>2, <1>3, <2>1, OthersUntouched DEF OthersStay
  <2>2. ASSUME NEW w \in Workers, Crash(w) PROVE v \in scene.staff
    BY <1>3, <2>2, Types DEF Crash, Goto
  <2>3. ASSUME Environment PROVE pc' = pc \/ \E w \in Workers : Crash(w)
    BY <2>3 DEF Environment, Publish, RequestDelivery, RequestEvent,
                ToggleSubscription, DeleteSubscription, DeleteIssue,
                MoveSubscription, Expire, Overrun, worker
  <2>4. ASSUME NEW c \in Clients, ClientStep(c) PROVE pc' = pc
    BY <2>4 DEF ClientStep, MarkEvent, QueueRetry, worker
  <2>5. UNCHANGED vars => pc' = pc
    BY DEF vars
  <2> QED BY <1>3, <2>1, <2>2, <2>3, <2>4, <2>5 DEF Next
<1> QED BY <1>1, <1>2, <1>3

(* Of one worker, only that one is at work.                                  *)
LEMMA OneAtWork ==
  ASSUME BaseInv, Cardinality(scene.staff) = 1,
         NEW v \in scene.staff, NEW w \in scene.staff
  PROVE  v = w
<1>1. IsFiniteSet(scene.staff)
  BY RelayAssumption DEF BaseInv, TypeOK
<1>2. \E x : scene.staff = {x}
  BY <1>1, FS_Singleton
<1> QED BY <1>2

(* Edits are counted: a state without edits had none before, and no          *)
(* subscription has changed.                                                 *)
LEMMA NoEdits ==
  ASSUME BaseInv, [Next]_vars, budget'.edits = 0
  PROVE  /\ budget.edits = 0 /\ sub' = sub
         /\ ~ \E s \in Subs : DeleteSubscription(s)
<1>0. budget \in [retries : Nat, faults : Nat, crashes : Nat, edits : Nat]
  BY DEF BaseInv, TypeOK
<1>1. Trouble("edits") => budget'.edits # 0
  BY <1>0 DEF Trouble
<1>2. /\ Trouble("faults") => budget'.edits = budget.edits
      /\ Trouble("crashes") => budget'.edits = budget.edits
  BY <1>0 DEF Trouble
<1>3. \A s \in Subs : ~ToggleSubscription(s) /\ ~DeleteSubscription(s)
  BY <1>1 DEF ToggleSubscription, DeleteSubscription
<1>4. /\ \A i \in DOMAIN issues : ~DeleteIssue(i)
      /\ \A s \in Subs : ~MoveSubscription(s)
  BY <1>1 DEF DeleteIssue, MoveSubscription
<1>5. ASSUME NEW w \in Workers, WorkerStep(w)
      PROVE  sub' = sub /\ budget'.edits = budget.edits
  BY <1>2, <1>5
     DEF WorkerStep, others, Take, Skip, StartEvent, ListSubscriptions,
         OpenDelivery, ReopenDelivery, FinishEvent, AbortEvent, PlanDelivery,
         CallFails, UpdateIssue, UpdateMistaken, CreateIssue, CreateUnanswered,
         SaveDelivery, FailDelivery, LoadDelivery, RetryDelivery, CountFailed,
         SettleEvent, FailEvent, FailRetry, Release
<1>6. ASSUME NEW c \in Clients, ClientStep(c)
      PROVE  sub' = sub /\ budget'.edits = budget.edits
  BY <1>2, <1>6 DEF ClientStep, MarkEvent, QueueRetry, Send
<1>7. ASSUME NEW c \in Clients, NEW d \in Deliveries, RequestDelivery(c, d)
      PROVE  sub' = sub /\ budget'.edits = budget.edits
  BY <1>0, <1>7 DEF RequestDelivery
<1>8. ASSUME NEW c \in Clients, NEW x \in Events, RequestEvent(c, x)
      PROVE  sub' = sub /\ budget'.edits = budget.edits
  BY <1>0, <1>8 DEF RequestEvent
<1>9. ASSUME NEW x \in Events, Publish(x)
      PROVE  sub' = sub /\ budget'.edits = budget.edits
  BY <1>2, <1>9 DEF Publish, Send
<1>10. ASSUME NEW w \in Workers, Crash(w)
       PROVE  sub' = sub /\ budget'.edits = budget.edits
  BY <1>2, <1>10 DEF Crash
<1>11. ASSUME NEW m \in Message, Expire(m) \/ Overrun(m)
       PROVE  sub' = sub /\ budget'.edits = budget.edits
  BY <1>2, <1>11 DEF Expire, Overrun, others
<1>12. UNCHANGED vars => sub' = sub /\ budget'.edits = budget.edits
  BY DEF vars
<1>13. sub' = sub /\ budget'.edits = budget.edits
  BY <1>3, <1>4, <1>5, <1>6, <1>7, <1>8, <1>9, <1>10, <1>11, <1>12
     DEF Next, Environment
<1> QED BY <1>3, <1>13

(* Without deletions: a row is new only if it was the next of an event task. *)
LEMMA NewRows ==
  ASSUME BaseInv, [Next]_vars, ~ \E s \in Subs : DeleteSubscription(s),
         NEW d \in Deliveries, Exists(d)'
  PROVE  Exists(d) \/ \E w \in Workers : OpenDelivery(w) /\ d[2] \in mem[w].todo
<1> SUFFICES ASSUME ~Exists(d)
             PROVE  \E w \in Workers : OpenDelivery(w) /\ d[2] \in mem[w].todo
  OBVIOUS
<1>1. delivery'[d] # delivery[d]
  BY DEF Exists
<1>2. ASSUME NEW w \in Workers, OpenDelivery(w) PROVE d[2] \in mem[w].todo
  <2>1. PICK s \in mem[w].todo, m \in Mem, c \in Deliveries : OpenEffect(w, s, m, c)
    BY <1>2, Opened
  <2>2. c = <<msg[w].event, s>> /\ \A b \in Deliveries \ {c} : delivery'[b] = delivery[b]
    BY <2>1, Types DEF OpenEffect
  <2>3. d = c
    BY <1>1, <2>2
  <2> QED BY <2>2, <2>3
<1>3. ASSUME NEW w \in Workers, NEW c \in Deliveries, NEW st, NEW is, NEW re,
             Exists(c), Writes(c, st, is, re)
      PROVE  FALSE
  BY <1>1, <1>3 DEF Writes
<1>4. ASSUME NEW w \in Workers, ReopenDelivery(w) PROVE FALSE
  BY <1>1, <1>3, <1>4, ReopenEffect, AtWork DEF ReopenDelivery
<1>5. ASSUME NEW w \in Workers, PlanDelivery(w) PROVE FALSE
  BY <1>1, <1>3, <1>5, PlanEffect
<1>6. ASSUME NEW w \in Workers, SaveDelivery(w) PROVE FALSE
  BY <1>1, <1>3, <1>6, SaveEffect, AtWork DEF SaveDelivery
<1>7. ASSUME NEW w \in Workers, FailDelivery(w) PROVE FALSE
  BY <1>1, <1>3, <1>7, FailEffect, AtWork DEF FailDelivery
<1>8. ASSUME NEW w \in Workers, RetryDelivery(w) PROVE FALSE
  BY <1>1, <1>3, <1>8, RetryEffect, AtWork DEF RetryDelivery
<1>9. ASSUME NEW w \in Workers, FailRetry(w) PROVE FALSE
  BY <1>1, <1>3, <1>9, FailRetryEffect, AtWork DEF FailRetry
<1>10. \E w \in Workers : OpenDelivery(w)
  <2>1. ASSUME NEW w \in Workers, WorkerStep(w) PROVE OpenDelivery(w)
    BY <1>1, <1>4, <1>5, <1>6, <1>7, <1>8, <1>9, <2>1, DeliveryUntouched
       DEF WorkerStep
  <2>2. ASSUME NEW c \in Clients, ClientStep(c) PROVE delivery' = delivery
    BY <2>2 DEF ClientStep, MarkEvent, QueueRetry, rows
  <2>3. ASSUME NEW c \in Clients, NEW b \in Deliveries, RequestDelivery(c, b)
        PROVE  FALSE
    BY <1>1, <2>3, Types DEF RequestDelivery
  <2>4. ASSUME Environment PROVE FALSE
    <3>1. delivery' = delivery
      BY <2>3, <2>4, DeliveryUntouched
         DEF Environment, Publish, RequestEvent, ToggleSubscription,
             DeleteIssue, MoveSubscription, Expire, Overrun, rows
    <3> QED BY <1>1, <3>1
  <2>5. UNCHANGED vars => delivery' = delivery
    BY DEF vars
  <2> QED BY <1>1, <2>1, <2>2, <2>4, <2>5 DEF Next
<1> QED BY <1>2, <1>10

(* A delivery fails only at the hands of a worker that knows it.             *)
LEMMA NewFailures ==
  ASSUME BaseInv, NEW w \in Workers, WorkerStep(w),
         NEW d \in Deliveries, delivery'[d].status = "failed"
  PROVE  \/ delivery[d].status = "failed"
         \/ FailDelivery(w) /\ mem'[w].failed
         \/ FailRetry(w)
<1>1. ASSUME NEW c \in Deliveries, NEW st, NEW is, NEW re,
             Writes(c, st, is, re), st # "failed"
      PROVE  delivery[d].status = "failed"
  BY <1>1 DEF Writes
<1>2. ASSUME OpenDelivery(w) PROVE delivery[d].status = "failed"
  <2>1. PICK s \in mem[w].todo, m \in Mem, c \in Deliveries : OpenEffect(w, s, m, c)
    BY <1>2, Opened
  <2>2. \/ delivery' = delivery
        \/ delivery' = [delivery EXCEPT ![c] = [NoRow EXCEPT !.status = "pending"]]
    BY <2>1 DEF OpenEffect
  <2>3. [NoRow EXCEPT !.status = "pending"].status = "pending"
    BY DEF NoRow
  <2> QED BY <2>2, <2>3, Types
<1>3. ASSUME ReopenDelivery(w) PROVE delivery[d].status = "failed"
  BY <1>1, <1>3, ReopenEffect, AtWork DEF ReopenDelivery
<1>4. ASSUME PlanDelivery(w) PROVE delivery[d].status = "failed"
  <2>1. /\ mem[w].cur \in Deliveries
        /\ \/ delivery' = delivery
           \/ \E is, re : Writes(mem[w].cur, "processing", is, re)
    BY <1>4, PlanEffect
  <2> QED BY <1>1, <2>1
<1>5. ASSUME SaveDelivery(w) PROVE delivery[d].status = "failed"
  <2>1. /\ mem[w].cur \in Deliveries
        /\ \/ delivery' = delivery
           \/ \E is, re : Writes(mem[w].cur, "success", is, re)
    BY <1>5, SaveEffect, AtWork DEF SaveDelivery
  <2> QED BY <1>1, <2>1
<1>6. ASSUME FailDelivery(w) PROVE delivery[d].status = "failed" \/ mem'[w].failed
  BY <1>6, FailEffect
<1>7. ASSUME RetryDelivery(w) PROVE delivery[d].status = "failed"
  BY <1>1, <1>7, RetryEffect, AtWork DEF RetryDelivery
<1> QED BY <1>2, <1>3, <1>4, <1>5, <1>6, <1>7, DeliveryUntouched DEF WorkerStep

(* Only a listing adds subscriptions to visit.                               *)
LEMMA TodoStep ==
  ASSUME BaseInv, NEW w \in Workers, WorkerStep(w)
  PROVE  ListSubscriptions(w) \/ mem'[w].todo \subseteq mem[w].todo
<1>1. OpenDelivery(w) => mem'[w].todo \subseteq mem[w].todo
  <2> SUFFICES ASSUME OpenDelivery(w) PROVE mem'[w].todo \subseteq mem[w].todo
    OBVIOUS
  <2>1. PICK s \in mem[w].todo, m \in Mem, c \in Deliveries : OpenEffect(w, s, m, c)
    BY Opened
  <2>2. mem'[w] = m /\ m.todo \subseteq mem[w].todo
    BY <2>1, Types DEF OpenEffect
  <2> QED BY <2>2
<1>2. LoadDelivery(w) => mem'[w].todo = mem[w].todo
  <2> SUFFICES ASSUME LoadDelivery(w) PROVE mem'[w].todo = mem[w].todo
    OBVIOUS
  <2> DEFINE d == msg[w].delivery
             r == [delivery[d] EXCEPT !.retry = TRUE]
             m == [mem[w] EXCEPT !.cur = d, !.row = r]
  <2>1. mem' = mem \/ mem' = [mem EXCEPT ![w] = m]
    BY DEF LoadDelivery
  <2>2. m.todo = mem[w].todo
    <3> HIDE DEF d, r
    <3> QED BY Types DEF Mem
  <2> HIDE DEF m
  <2> QED BY <2>1, <2>2, Types
<1>3. CountFailed(w) => mem'[w].todo = mem[w].todo
  <2> SUFFICES ASSUME CountFailed(w) PROVE mem'[w].todo = mem[w].todo
    OBVIOUS
  <2> DEFINE b == \E s \in Subs : delivery[<<msg[w].delivery[1], s>>].status = "failed"
  <2>1. mem' = [mem EXCEPT ![w].failed = b]
    BY DEF CountFailed
  <2> HIDE DEF b
  <2> QED BY <2>1, Types DEF Mem
<1>4. Release(w) => mem'[w].todo = {}
  BY Types DEF Release, NoMem
<1>5. SaveDelivery(w) => mem'[w].todo = mem[w].todo
  BY SaveEffect
<1>6. PlanDelivery(w) => mem'[w].todo = mem[w].todo
  BY PlanEffect
<1>7. /\ UpdateIssue(w) => mem'[w].todo = mem[w].todo
      /\ CreateIssue(w) => mem'[w].todo = mem[w].todo
      /\ FailDelivery(w) => mem'[w].todo = mem[w].todo
  BY UpdateEffect, CreateEffect, FailEffect
<1>8. \/ \E m \in Message : Take(w, m) \/ Skip(w, m)
      \/ StartEvent(w) \/ ReopenDelivery(w) \/ FinishEvent(w)
      \/ AbortEvent(w) \/ CallFails(w) \/ UpdateMistaken(w)
      \/ CreateUnanswered(w) \/ RetryDelivery(w) \/ SettleEvent(w) \/ FailEvent(w) \/ FailRetry(w)
      => mem' = mem
  BY DEF Take, Skip, StartEvent, ReopenDelivery, FinishEvent, AbortEvent,
         CallFails, UpdateMistaken, CreateUnanswered, RetryDelivery,
         SettleEvent, FailEvent, FailRetry, worker
<1> QED BY <1>1, <1>2, <1>3, <1>4, <1>5, <1>6, <1>7, <1>8 DEF WorkerStep

(* Where no edits happen, rows and lists know only enabled subscriptions.    *)
LEMMA EnabledStep ==
  ASSUME BaseInv, [Next]_vars, budget'.edits = 0, Enabled
  PROVE  Enabled'
<1>1. sub' = sub /\ ~ \E s \in Subs : DeleteSubscription(s)
  BY NoEdits
<1>2. ASSUME NEW d \in Deliveries, Exists(d)' PROVE sub[d[2]] = "enabled"
  BY <1>1, <1>2, NewRows DEF Enabled
<1>3. ASSUME NEW v \in Workers, NEW s \in mem'[v].todo PROVE sub[s] = "enabled"
  <2>1. ASSUME NEW w \in Workers, WorkerStep(w) PROVE sub[s] = "enabled"
    <3>1. CASE v # w
      BY <1>3, <2>1, <3>1, OthersUntouched DEF OthersStay, Enabled
    <3>2. CASE v = w /\ ListSubscriptions(w)
      <4> DEFINE E == {t \in Subs : sub[t] = "enabled"}
      <4>1. mem' = [mem EXCEPT ![w].todo = E, ![w].any = (E # {})]
        BY <3>2 DEF ListSubscriptions
      <4>2. s \in E
        <5> HIDE DEF E
        <5> QED BY <3>2, <4>1, Types DEF Mem
      <4> QED BY <4>2
    <3>3. CASE v = w /\ mem'[w].todo \subseteq mem[w].todo
      BY <3>3 DEF Enabled
    <3> QED BY <2>1, <3>1, <3>2, <3>3, TodoStep
  <2>2. ASSUME NEW w \in Workers, Crash(w) PROVE sub[s] = "enabled"
    BY <2>2, Types DEF Crash, Enabled, NoMem
  <2>3. ASSUME Environment PROVE mem' = mem \/ \E w \in Workers : Crash(w)
    BY <2>3 DEF Environment, Publish, RequestDelivery, RequestEvent,
                ToggleSubscription, DeleteSubscription, DeleteIssue,
                MoveSubscription, Expire, Overrun, worker
  <2>4. ASSUME NEW c \in Clients, ClientStep(c) PROVE mem' = mem
    BY <2>4 DEF ClientStep, MarkEvent, QueueRetry, worker
  <2>5. UNCHANGED vars => mem' = mem
    BY DEF vars
  <2> QED BY <2>1, <2>2, <2>3, <2>4, <2>5 DEF Next, Enabled
<1> QED BY <1>1, <1>2, <1>3 DEF Enabled

(* The memory of a worker is kept where it matters here.                     *)
Keeps(w) ==
  /\ mem'[w].todo = mem[w].todo /\ mem'[w].cur = mem[w].cur
  /\ mem'[w].failed = mem[w].failed

(* A worker that goes on with the same memory still knows the failures,      *)
(* if there are no new ones.                                                 *)
LEMMA TrackedStays ==
  ASSUME NEW w \in Workers, msg[w] # None => msg[w] \in Message, Tracked(w),
         Keeps(w), msg'[w] = msg[w],
         pc'[w] \in Dispatching /\ IsEventTask(msg[w]) => pc[w] \in Dispatching,
         pc'[w] # "settle" \/ pc[w] = "settle",
         pc'[w] \in Dispatching \cup {"settle"} => msg[w] # None,
         pc'[w] = "settle" => ~IsEventTask(msg[w]),
         \A d \in Deliveries : delivery'[d].status = "failed"
                                 => delivery[d].status = "failed"
  PROVE  Tracked(w)'
<1>1. ASSUME NEW s \in Subs, pc'[w] \in Dispatching, IsEventTask(msg[w]),
             delivery'[<<msg[w].event, s>>].status = "failed"
      PROVE  s \in mem[w].todo \/ mem[w].failed \/ mem[w].cur = <<msg[w].event, s>>
  BY <1>1, MessageFacts, DeliveryFacts DEF Tracked, Failed
<1>2. ASSUME NEW s \in Subs, pc'[w] = "settle", ~mem[w].failed
      PROVE  delivery'[<<msg[w].delivery[1], s>>].status # "failed"
  BY <1>2, MessageFacts, DeliveryFacts DEF Tracked, Failed
<1> QED BY <1>1, <1>2 DEF Tracked, Failed, Keeps

(* The step of a worker keeps what it knows of failures.                     *)
LEMMA TrackedWorker ==
  ASSUME BaseInv, Enabled, NEW w \in Workers, WorkerStep(w), Tracked(w)
  PROVE  Tracked(w)'
<1>0. /\ pc \in [Workers -> Labels] /\ mem \in [Workers -> Mem]
      /\ delivery \in [Deliveries -> Row]
      /\ msg[w] # None => msg[w] \in Message
      /\ UnderWay(w)
  BY DEF BaseInv, TypeOK
<1>1. pc'[w] \notin Dispatching \cup {"settle"} => Tracked(w)'
  BY DEF Tracked
<1>2. \A m \in Message : Take(w, m) => pc'[w] \in {"start", "load"}
  BY <1>0 DEF Take, Goto
<1>3. \A m \in Message : Skip(w, m) => pc'[w] = "idle"
  BY <1>0 DEF Skip, worker
<1>4. StartEvent(w) => pc'[w] = "list"
  BY <1>0 DEF StartEvent, Goto
<1>5. FinishEvent(w) \/ AbortEvent(w) \/ SettleEvent(w) \/ Release(w)
        => pc'[w] \in {"release", "idle"}
  BY <1>0 DEF FinishEvent, AbortEvent, SettleEvent, Release, Goto
<1>6. FailEvent(w) \/ FailRetry(w) => pc'[w] \in {"failDelivery", "release"}
  BY <1>0 DEF FailEvent, FailRetry, Goto
<1>7. LoadDelivery(w) => pc'[w] \in {"retry", "release"}
  BY LoadEffect
<1>8. RetryDelivery(w) => Tracked(w)'
  <2> SUFFICES ASSUME RetryDelivery(w) PROVE Tracked(w)'
    OBVIOUS
  <2>1. ~IsEventTask(msg[w]) /\ msg' = msg /\ pc'[w] # "settle"
    BY <1>0, RetryEffect DEF RetryDelivery, UnderWay, RetryLabels
  <2> QED BY <2>1 DEF Tracked
<1>9. CountFailed(w) => Tracked(w)'
  <2> SUFFICES ASSUME CountFailed(w) PROVE Tracked(w)'
    OBVIOUS
  <2> DEFINE b == \E s \in Subs : delivery[<<msg[w].delivery[1], s>>].status = "failed"
  <2>1. /\ mem' = [mem EXCEPT ![w].failed = b] /\ pc'[w] = "settle"
        /\ msg' = msg /\ delivery' = delivery
    BY <1>0 DEF CountFailed, Goto, rows
  <2>2. mem'[w].failed = b
    <3> HIDE DEF b
    <3> QED BY <1>0, <2>1 DEF Mem
  <2> QED BY <2>1, <2>2 DEF Tracked, Failed, Dispatching
<1>10. ListSubscriptions(w) => Tracked(w)'
  <2> SUFFICES ASSUME ListSubscriptions(w) PROVE Tracked(w)'
    OBVIOUS
  <2> DEFINE E == {t \in Subs : sub[t] = "enabled"}
  <2>1. /\ mem' = [mem EXCEPT ![w].todo = E, ![w].any = (E # {})]
        /\ pc'[w] = "open" /\ msg' = msg /\ delivery' = delivery
        /\ IsEventTask(msg[w]) /\ msg[w] # None
    BY <1>0 DEF ListSubscriptions, Goto, rows, UnderWay, EventLabels
  <2>2. mem'[w].todo = E
    <3> HIDE DEF E
    <3> QED BY <1>0, <2>1 DEF Mem
  <2>3. ASSUME NEW s \in Subs, delivery[<<msg[w].event, s>>].status = "failed"
        PROVE  s \in E
    BY <1>0, <2>1, <2>3, MessageFacts, DeliveryFacts DEF Enabled, Exists
  <2> QED BY <2>1, <2>2, <2>3 DEF Tracked, Failed
<1>11. OpenDelivery(w) => Tracked(w)'
  <2> SUFFICES ASSUME OpenDelivery(w) PROVE Tracked(w)'
    OBVIOUS
  <2>1. PICK s \in mem[w].todo, m \in Mem, c \in Deliveries : OpenEffect(w, s, m, c)
    BY Opened
  <2>2. /\ mem'[w] = m /\ m.failed = mem[w].failed /\ c = <<msg[w].event, s>>
        /\ msg' = msg /\ pc[w] = "open" /\ mem[w].cur = None
        /\ IsEventTask(msg[w]) /\ msg[w] # None
    BY <1>0, <2>1 DEF OpenEffect, OpenDelivery, UnderWay, EventLabels
  <2>3. pc'[w] # "settle"
    BY <1>0, <2>1, <2>2 DEF OpenEffect, Goto
  <2>4. \A d \in Deliveries : delivery'[d].status = "failed" => delivery[d].status = "failed"
    BY NewFailures, <2>2 DEF FailDelivery, FailRetry
  <2>5. \A d \in Deliveries : mem[w].cur # d
    BY <2>2, RelayAssumption
  <2>6. ASSUME NEW t \in Subs, delivery'[<<msg[w].event, t>>].status = "failed"
        PROVE  t \in m.todo \/ m.failed \/ m.cur = <<msg[w].event, t>>
    <3>1. delivery[<<msg[w].event, t>>].status = "failed" /\ <<msg[w].event, t>> \in Deliveries
      BY <1>0, <2>2, <2>4, <2>6, MessageFacts, DeliveryFacts
    <3>2. t \in mem[w].todo \/ mem[w].failed
      BY <2>2, <2>5, <3>1 DEF Tracked, Failed, Dispatching
    <3>3. t # s => t \in m.todo \/ m.failed
      BY <2>1, <2>2, <3>2 DEF OpenEffect
    <3>4. t = s => t \in m.todo \/ m.cur = c
      BY <2>1, <2>2, <3>1 DEF OpenEffect, MustSkip, Exists
    <3> QED BY <2>2, <3>3, <3>4
  <2> QED BY <2>2, <2>3, <2>6 DEF Tracked, Failed
<1>12. ASSUME Keeps(w), msg'[w] = msg[w], pc[w] \in Dispatching, pc'[w] # "settle",
              ~FailDelivery(w)
       PROVE  Tracked(w)'
  <2>1. msg[w] # None
    BY <1>0, <1>12 DEF UnderWay, Dispatching
  <2>2. \A d \in Deliveries : delivery'[d].status = "failed" => delivery[d].status = "failed"
    BY <1>12, NewFailures DEF FailRetry, Dispatching
  <2> QED BY <1>0, <1>12, <2>1, <2>2, TrackedStays
<1>13. ReopenDelivery(w) => Tracked(w)'
  BY <1>12, ReopenEffect DEF ReopenDelivery, Keeps, Dispatching, FailDelivery
<1>14. PlanDelivery(w) => Tracked(w)'
  BY <1>12, PlanEffect DEF PlanDelivery, Keeps, Dispatching, FailDelivery
<1>15. CallFails(w) => Tracked(w)'
  BY <1>0, <1>12 DEF CallFails, Goto, Keeps, Dispatching, FailDelivery
<1>16. UpdateIssue(w) => Tracked(w)'
  BY <1>12, UpdateEffect DEF UpdateIssue, Keeps, Dispatching, FailDelivery
<1>17. CreateIssue(w) => Tracked(w)'
  BY <1>12, CreateEffect DEF CreateIssue, Keeps, Dispatching, FailDelivery
<1>18. CreateUnanswered(w) => Tracked(w)'
  BY <1>0, <1>12 DEF CreateUnanswered, Goto, Keeps, Dispatching, FailDelivery
<1>21. UpdateMistaken(w) => Tracked(w)'
  BY <1>0, <1>12, MistakenEffect DEF UpdateMistaken, Keeps, Dispatching, FailDelivery
<1>19. SaveDelivery(w) => Tracked(w)'
  <2> SUFFICES ASSUME SaveDelivery(w) PROVE Tracked(w)'
    OBVIOUS
  <2> DEFINE d == mem[w].cur
  <2>1. CASE ~Exists(d) /\ pc'[w] = "fail" /\ mem' = mem /\ msg' = msg
    BY <1>12, <2>1 DEF SaveDelivery, Keeps, Dispatching, FailDelivery
  <2>2. CASE /\ pc'[w] = IF IsEventTask(msg[w]) THEN "open" ELSE "count"
             /\ delivery'[d].status = "success" /\ msg' = msg
             /\ mem'[w].todo = mem[w].todo /\ mem'[w].failed = mem[w].failed
    <3>1. msg[w] \in Message /\ pc[w] = "save"
      BY <1>0 DEF SaveDelivery, UnderWay
    <3>2. \A c \in Deliveries : delivery'[c].status = "failed" => delivery[c].status = "failed"
      BY <3>1, NewFailures DEF FailDelivery, FailRetry
    <3>3. ASSUME NEW s \in Subs, IsEventTask(msg[w]),
                 delivery'[<<msg[w].event, s>>].status = "failed"
          PROVE  s \in mem[w].todo \/ mem[w].failed
      <4>1. <<msg[w].event, s>> \in Deliveries
        BY <3>1, <3>3, MessageFacts, DeliveryFacts
      <4>2. <<msg[w].event, s>> # d
        BY <2>2, <3>3
      <4> QED BY <3>1, <3>2, <3>3, <4>1, <4>2 DEF Tracked, Failed, Dispatching
    <3> QED BY <2>2, <3>3 DEF Tracked, Failed
  <2> QED BY <2>1, <2>2, SaveEffect DEF Writes
<1>20. FailDelivery(w) => Tracked(w)'
  <2> SUFFICES ASSUME FailDelivery(w) PROVE Tracked(w)'
    OBVIOUS
  <2>1. \/ pc'[w] \in {"failEvent", "abort"}
        \/ pc'[w] = "open" /\ mem'[w].failed
    BY FailEffect
  <2> QED BY <1>1, <2>1 DEF Tracked, Dispatching
<1> QED BY <1>1, <1>2, <1>3, <1>4, <1>5, <1>6, <1>7, <1>8, <1>9, <1>10, <1>11,
           <1>13, <1>14, <1>15, <1>16, <1>17, <1>18, <1>19, <1>20, <1>21
           DEF WorkerStep, Dispatching

(* With one worker, every step keeps what it knows of failures.              *)
LEMMA TrackedStep ==
  ASSUME BaseInv, FailureInv, [Next]_vars, Calm', NEW v \in Workers
  PROVE  Tracked(v)'
<1>1. /\ scene' = scene
      /\ \A w \in Workers : pc'[w] # "idle" => w \in scene.staff
      /\ \A w \in Workers : WorkerStep(w) => w \in scene.staff
  BY StaffStep DEF FailureInv
<1>2. Calm /\ ~ \E s \in Subs : DeleteSubscription(s)
  BY <1>1, NoEdits DEF Calm
<1>3. Enabled /\ Tracked(v) /\ UnderWay(v) /\ (msg[v] # None => msg[v] \in Message)
  BY <1>2 DEF FailureInv, BaseInv, TypeOK
<1>4. pc'[v] = "idle" => Tracked(v)'
  BY DEF Tracked, Dispatching
<1>5. ASSUME NEW w \in Workers, WorkerStep(w) PROVE Tracked(v)'
  <2>1. CASE v = w
    BY <1>3, <1>5, <2>1, TrackedWorker
  <2>2. CASE v # w
    <3>1. ~(v \in scene.staff)
      BY <1>1, <1>2, <1>5, <2>2, OneAtWork DEF Calm
    <3> QED BY <1>1, <1>4, <3>1
  <2> QED BY <2>1, <2>2
<1>6. ASSUME pc' = pc, msg' = msg, mem' = mem,
             \A d \in Deliveries : delivery'[d].status = "failed"
                                     => delivery[d].status = "failed"
      PROVE  Tracked(v)'
  BY <1>3, <1>6, TrackedStays DEF Keeps, UnderWay, RetryLabels, Dispatching
<1>7. ASSUME NEW c \in Clients, ClientStep(c) PROVE Tracked(v)'
  BY <1>6, <1>7 DEF ClientStep, MarkEvent, QueueRetry, worker, rows
<1>8. ASSUME NEW c \in Clients, NEW d \in Deliveries, RequestDelivery(c, d)
      PROVE  Tracked(v)'
  <2>1. delivery' = [delivery EXCEPT ![d].status = "processing", ![d].retry = TRUE]
    BY <1>8, Types DEF RequestDelivery
  <2>2. \A b \in Deliveries : delivery'[b].status = "failed" => delivery[b].status = "failed"
    BY <2>1, Types DEF Row
  <2> QED BY <1>6, <1>8, <2>2 DEF RequestDelivery, worker
<1>9. ASSUME NEW w \in Workers, Crash(w) PROVE Tracked(v)'
  <2>1. CASE v = w
    BY <1>4, <1>9, <2>1, Types DEF Crash, Goto
  <2>2. CASE v # w
    <3>1. ~(v \in scene.staff)
      BY <1>2, <1>9, <2>2, OneAtWork DEF Calm, Crash, FailureInv
    <3> QED BY <1>1, <1>4, <3>1
  <2> QED BY <2>1, <2>2
<1>10. ASSUME Environment PROVE Tracked(v)'
  <2>1. ASSUME NEW x \in Events, Publish(x) PROVE Tracked(v)'
    BY <1>6, <2>1 DEF Publish, worker
  <2>2. ASSUME NEW c \in Clients, NEW x \in Events, RequestEvent(c, x)
        PROVE  Tracked(v)'
    BY <1>6, <2>2 DEF RequestEvent, worker, rows
  <2>3. ASSUME NEW s \in Subs, ToggleSubscription(s) PROVE Tracked(v)'
    BY <1>6, <2>3 DEF ToggleSubscription, worker, rows
  <2>4. ASSUME NEW i \in DOMAIN issues, DeleteIssue(i) PROVE Tracked(v)'
    BY <1>6, <2>4 DEF DeleteIssue, worker, rows
  <2>5. ASSUME NEW m \in Message, Expire(m) \/ Overrun(m) PROVE Tracked(v)'
    BY <1>6, <2>5 DEF Expire, Overrun, worker, rows
  <2>6. ASSUME NEW s \in Subs, MoveSubscription(s) PROVE Tracked(v)'
    BY <1>6, <2>6 DEF MoveSubscription, worker, rows
  <2> QED BY <1>2, <1>8, <1>9, <1>10, <2>1, <2>2, <2>3, <2>4, <2>5, <2>6
          DEF Environment
<1>11. UNCHANGED vars => Tracked(v)'
  BY <1>6 DEF vars
<1> QED BY <1>5, <1>7, <1>10, <1>11 DEF Next

(* It holds at first. *)
LEMMA FailureInit == Init => FailureInv
BY DEF Init, FailureInv, Enabled, Tracked, Dispatching, Exists, NoRow, NoMem

(* Every step keeps it. *)
LEMMA FailureStep == BaseInv /\ FailureInv /\ [Next]_vars => FailureInv'
<1> SUFFICES ASSUME BaseInv, FailureInv, [Next]_vars PROVE FailureInv'
  OBVIOUS
<1>1. scene' = scene /\ \A w \in Workers : pc'[w] # "idle" => w \in scene.staff
  BY StaffStep DEF FailureInv
<1>2. ASSUME Calm' PROVE Enabled'
  <2>1. Calm /\ budget'.edits = 0
    BY <1>1, <1>2, NoEdits DEF Calm
  <2> QED BY <2>1, EnabledStep DEF FailureInv
<1>3. ASSUME Calm' PROVE \A w \in Workers : Tracked(w)'
  BY <1>3, TrackedStep
<1> QED BY <1>1, <1>2, <1>3 DEF FailureInv

(* Only a task that counted no failure completes an event.                   *)
LEMMA Completes ==
  ASSUME BaseInv, [Next]_vars, NEW x \in Events,
         event'[x].status = "completed", event[x].status # "completed"
  PROVE  \E w \in Workers : ~mem[w].failed /\
           \/ pc[w] = "open" /\ mem[w].todo = {} /\ x = msg[w].event
           \/ pc[w] = "settle" /\ x = msg[w].delivery[1]
<1>1. event' # event
  OBVIOUS
<1>2. ASSUME NEW y \in Events, NEW s, SetEvent(y, s), s # "completed" PROVE FALSE
  BY <1>2, Types DEF SetEvent, EventRow
<1>3. ASSUME NEW y \in Events, NEW s, SetEvent(y, s) PROVE x = y /\ s = "completed"
  BY <1>3, Types DEF SetEvent, EventRow
<1>4. ASSUME NEW w \in Workers, FinishEvent(w)
      PROVE  ~mem[w].failed /\ pc[w] = "open" /\ mem[w].todo = {} /\ x = msg[w].event
  BY <1>3, <1>4, AtWork DEF FinishEvent, EventVerdict
<1>5. ASSUME NEW w \in Workers, SettleEvent(w)
      PROVE  ~mem[w].failed /\ pc[w] = "settle" /\ x = msg[w].delivery[1]
  BY <1>3, <1>5, AtWork DEF SettleEvent
<1>6. ASSUME NEW w \in Workers, StartEvent(w) \/ AbortEvent(w) \/ FailEvent(w)
      PROVE  FALSE
  BY <1>2, <1>6, AtWork DEF StartEvent, AbortEvent, FailEvent
<1>7. ASSUME NEW c \in Clients, ClientStep(c) PROVE FALSE
  <2>1. QueueRetry(c) => event' = event
    BY DEF QueueRetry, rows
  <2>2. MarkEvent(c) => client[c].target \in Message
    BY DEF MarkEvent, BaseInv, TypeOK, ClientKnows
  <2>3. ~MarkEvent(c)
    BY <1>2, <2>2, EventOfType DEF MarkEvent
  <2> QED BY <1>1, <1>7, <2>1, <2>3 DEF ClientStep
<1>8. ASSUME NEW y \in Events, Publish(y) PROVE FALSE
  <2> DEFINE r == [status |-> "pending", email |-> scene.runs[y].email,
                   retried |-> scene.runs[y].retried]
  <2>1. event' = [event EXCEPT ![y] = r] /\ r.status = "pending"
    BY <1>8 DEF Publish
  <2> HIDE DEF r
  <2> QED BY <2>1, Types
<1>9. Environment => event' = event
  BY <1>8, EventUntouched
     DEF Environment, RequestDelivery, RequestEvent, ToggleSubscription,
         DeleteSubscription, DeleteIssue, MoveSubscription, Expire, Overrun,
         rows
<1>10. ASSUME NEW w \in Workers, WorkerStep(w) PROVE FinishEvent(w) \/ SettleEvent(w)
  BY <1>1, <1>6, <1>10, EventUntouched DEF WorkerStep
<1> QED BY <1>1, <1>4, <1>5, <1>7, <1>9, <1>10 DEF Next, vars

(* dispatch_event, retry_delivery: while one worker runs the tasks and       *)
(* nobody edits, an event becomes COMPLETED only when no delivery of it has  *)
(* failed.                                                                   *)
THEOREM CompletedIsComplete == Spec => CompletedHasNoFailure
<1> DEFINE Inv == BaseInv /\ FailureInv
<1>1. Init => Inv
  BY BaseInit, FailureInit
<1>2. Inv /\ [Next]_vars => Inv'
  BY BaseStep, FailureStep
<1>3. ASSUME Inv, [Next]_vars, NEW x \in Events,
             event'[x].status = "completed", event[x].status # "completed",
             Cardinality(scene.staff) = 1, budget.edits = 0
      PROVE  \A s \in Subs : delivery[<<x, s>>].status # "failed"
  <2>1. PICK w \in Workers : ~mem[w].failed /\
           \/ pc[w] = "open" /\ mem[w].todo = {} /\ x = msg[w].event
           \/ pc[w] = "settle" /\ x = msg[w].delivery[1]
    BY <1>3, Completes
  <2>2. Tracked(w) /\ UnderWay(w)
    BY <1>3 DEF FailureInv, Calm, BaseInv
  <2>3. \A s \in Subs : <<x, s>> # None
    BY DeliveryFacts, RelayAssumption
  <2> QED BY <2>1, <2>2, <2>3
     DEF Tracked, UnderWay, Dispatching, EventLabels, Failed
<1>4. Inv /\ [Next]_vars =>
        [\A x \in Events :
           (event'[x].status = "completed" /\ event[x].status # "completed"
              /\ Cardinality(scene.staff) = 1 /\ budget.edits = 0)
             => \A s \in Subs : delivery[<<x, s>>].status # "failed"]_vars
  BY <1>3
<1> QED BY <1>1, <1>2, <1>4, PTL DEF Spec, CompletedHasNoFailure
=============================================================================
