-------------------------------- MODULE Relay --------------------------------
(***************************************************************************)
(* The relay of devify: a workflow that completes publishes an event, and  *)
(* a Celery task delivers the event to every enabled subscription of the   *)
(* user, as an issue in an external system.  These actors share the rows   *)
(* RelayEvent and RelayDelivery and the issues outside:                    *)
(*                                                                         *)
(*   - workers run process_relay_event, which visits the subscriptions     *)
(*     one by one, and process_relay_delivery, which retries one delivery; *)
(*   - API requests ask for the retry of an event or of a delivery;        *)
(*   - users enable, disable and delete subscriptions, point them to       *)
(*     another repository, and delete issues in the external system.       *)
(*                                                                         *)
(* The two tasks take different locks: the first one per event, the second *)
(* one per delivery.  Reads and writes of rows and calls of the external   *)
(* system are steps of their own.                                          *)
(***************************************************************************)
EXTENDS Naturals, FiniteSets, Sequences, SequencesExt

CONSTANTS
  Emails,
  MergedInto,   \* MergedInto[e]: the email e was merged into, or None
  SubOrder,     \* the subscriptions of the user, by creation
  Policy,       \* Policy[s]: the delivery strategies of subscription s
  Scenes,       \* what happens: [staff, the workers deployed; subs, the
                \* subscriptions enabled at first; runs, the workflows that
                \* complete, each [email, retried]]
  Clients,      \* API requests
  None,
  MaxCopies,    \* bound: equal messages in the queue
  MaxRetries,   \* bound: retries asked for
  MaxTrouble    \* bound: failures, crashes, and edits of subscriptions and
                \* issues, together

Subs == Range(SubOrder)
Workers == UNION {n.staff : n \in Scenes}
Events == UNION {DOMAIN n.runs : n \in Scenes}   \* by creation
Deliveries == Events \X Subs     \* the idempotency key of a delivery
Actions == {"new", "new_and_link", "update"}

(* A message names the row its task works on; the lock of the task has the   *)
(* same name.                                                                *)
Message == [event : Events] \cup [delivery : Deliveries]
EventTask(x) == [event |-> x]
DeliveryTask(d) == [delivery |-> d]
IsEventTask(m) == "event" \in DOMAIN m
EventOf(m) == IF IsEventTask(m) THEN m.event ELSE m.delivery[1]

ASSUME RelayAssumption ==
  /\ None \notin Emails \cup Message \cup Deliveries \cup Actions \cup Nat
  /\ MergedInto \in [Emails -> Emails \cup {None}]
  /\ Policy \in [Subs -> [explicit : Actions \cup {None},
                          auto : {"new", "update"},
                          retry : {"new", "update"},
                          manual : {"linked", "separate"}]]
  /\ \A n \in Scenes :
       /\ n.runs \in Seq([email : Emails, retried : BOOLEAN])
       /\ IsFiniteSet(n.staff)
  /\ MaxRetries \in Nat /\ MaxTrouble \in Nat
  /\ MaxCopies \in Nat \ {0}

VARIABLES
  scene,     \* the workers deployed and the workflows that complete
  sub,       \* sub[s]: enabled, disabled or deleted
  event,     \* the RelayEvent rows
  delivery,  \* the RelayDelivery rows
  order,     \* the keys of the delivery rows, by creation; those of rows
             \* that were deleted stay
  issues,    \* the issues of the external system, by creation
  queue,     \* queue[m]: the copies of message m that wait for a worker
  locks,     \* the task locks that are held
  pc, msg,   \* where a worker is, and the message it works on
  mem,       \* what a worker has in memory for that message
  client,    \* the local state of an API request
  excused,   \* history: deliveries that may rightly have two issues
  budget     \* retries, faults that are handled, crashes and edits so far

vars == <<scene, sub, event, delivery, order, issues, queue, locks, pc, msg,
          mem, client, excused, budget>>
rows == <<event, delivery, order>>
worker == <<pc, msg, mem>>
others == <<scene, sub, client, budget>>

(* retried: the trigger source in the snapshot is that of a retry.           *)
NoEvent == [status |-> "none", email |-> None, retried |-> FALSE]

(* issue: external_id.  retry: the flag relay_retry_requested.               *)
NoRow == [status |-> "none", issue |-> None, retry |-> FALSE]

(* todo: subscriptions the loop has not visited.  cur: the delivery at work. *)
(* row: the copy of its row.  failed, won: the summary counts.               *)
(* action, ref, links: the delivery plan.                                    *)
NoMem == [todo |-> {}, cur |-> None, row |-> NoRow, failed |-> FALSE,
          won |-> FALSE, any |-> FALSE,
          action |-> "new", ref |-> None, links |-> {}]

NoClient == [pc |-> "idle", target |-> None]

Init ==
  /\ scene \in Scenes
  /\ sub = [s \in Subs |->
              IF s \in scene.subs THEN "enabled" ELSE "disabled"]
  /\ event = [x \in Events |-> NoEvent]
  /\ delivery = [d \in Deliveries |-> NoRow]
  /\ order = <<>>
  /\ issues = <<>>
  /\ queue = [m \in Message |-> 0]
  /\ locks = {}
  /\ pc = [w \in Workers |-> "idle"]
  /\ msg = [w \in Workers |-> None]
  /\ mem = [w \in Workers |-> NoMem]
  /\ client = [c \in Clients |-> NoClient]
  /\ excused = {}
  /\ budget = [retries |-> 0, faults |-> 0, crashes |-> 0, edits |-> 0]
-----------------------------------------------------------------------------
Exists(d) == delivery[d].status # "none"

Put(m) ==
  /\ queue[m] < MaxCopies
  /\ queue' = [queue EXCEPT ![m] = @ + 1]

Goto(w, l) == pc' = [pc EXCEPT ![w] = l]

SetEvent(x, s) == event' = [event EXCEPT ![x].status = s]

EmailOf(x) == event[x].email

(* kind: "faults" for failing or late calls, "crashes" for a worker or a      *)
(* message that is lost, "edits" for what users change.                      *)
Trouble(kind) ==
  /\ budget.faults + budget.crashes + budget.edits < MaxTrouble
  /\ budget' = [budget EXCEPT ![kind] = @ + 1]

(* The message goes out, or the broker refuses it. *)
Send(m) ==
  \/ Put(m) /\ UNCHANGED budget
  \/ Trouble("crashes") /\ UNCHANGED queue

(* publish_workflow_completed: the row is committed first; a message that    *)
(* cannot be queued is only logged, and the event stays PENDING.             *)
Publish(x) ==
  /\ event[x].status = "none"
  /\ x \in DOMAIN scene.runs
  /\ x > 1 => event[x - 1].status # "none"
  /\ event' = [event EXCEPT ![x] =
       [status |-> "pending", email |-> scene.runs[x].email,
        retried |-> scene.runs[x].retried]]
  /\ Send(EventTask(x))
  /\ UNCHANGED <<scene, sub, delivery, order, issues, locks, worker, client,
                 excused>>
-----------------------------------------------------------------------------
(* resolve_delivery_plan *)

(* The places in order of the deliveries that made an issue *)
Successes(s) ==
  {k \in DOMAIN order : /\ order[k][2] = s
                        /\ delivery[order[k]].status = "success"
                        /\ delivery[order[k]].issue # None}

LatestOf(found) ==
  IF found = {} THEN None ELSE delivery[order[Max(found)]].issue

(* Mutant of LatestIssue: the issue of any email. *)
LatestIssueOfAny(s, e) == LatestOf(Successes(s))

(* _latest_successful_delivery of a subscription for an email *)
LatestIssue(s, e) ==
  LatestOf({k \in Successes(s) : EmailOf(order[k][1]) = e})

(* _walk_email_cluster: what can be reached over merge links, either way *)
ClusterOf(e) ==
  LET closed(C) == \A a \in Emails : MergedInto[a] # None =>
                     (a \in C <=> MergedInto[a] \in C)
  IN {b \in Emails : \A C \in SUBSET Emails : e \in C /\ closed(C) => b \in C}

(* _collect_related_issue_references *)
RelatedIssues(s, e) ==
  {delivery[d].issue : d \in {d \in Deliveries :
     /\ d[2] = s
     /\ EmailOf(d[1]) \in ClusterOf(e)
     /\ delivery[d].status = "success"}} \ {None}

HasMergeContext(e) ==
  MergedInto[e] # None \/ \E a \in Emails : MergedInto[a] = e

(* Mutant of IsRetry: a retried delivery is not told from the first attempt. *)
IsRetryByTrigger(x, row) == event[x].retried

IsRetry(x, row) == row.retry \/ event[x].retried

(* The explicit strategy wins; a retry updates what there is; a merged email *)
(* links; an update without a reference and links without issues are new.    *)
WantedAction(d, row, ref, related) ==
  LET p == Policy[d[2]] IN
  IF p.explicit # None THEN p.explicit
  ELSE IF IsRetry(d[1], row) /\ ref # None /\ p.retry = "update"
  THEN "update"
  ELSE IF HasMergeContext(EmailOf(d[1])) /\ p.manual = "linked"
          /\ related # {}
  THEN "new_and_link"
  ELSE IF ref # None /\ p.auto = "update" THEN "update"
  ELSE "new"

PlanFor(d, row) ==
  LET e == EmailOf(d[1])
      ref == IF row.issue # None THEN row.issue ELSE LatestIssue(d[2], e)
      related == RelatedIssues(d[2], e)
      wanted == WantedAction(d, row, ref, related)
  IN [action |-> IF \/ wanted = "update" /\ ref = None
                    \/ wanted = "new_and_link" /\ related = {}
                 THEN "new" ELSE wanted,
      ref |-> ref,
      links |-> IF wanted = "new_and_link" THEN related ELSE {}]
-----------------------------------------------------------------------------
(* A worker takes a message and the lock of its task, or drops the message.  *)

AcquireTaskLock(m) == m \notin locks /\ locks' = locks \cup {m}

Take(w, m) ==
  /\ w \in scene.staff
  /\ pc[w] = "idle"
  /\ queue[m] > 0
  /\ queue' = [queue EXCEPT ![m] = @ - 1]
  /\ AcquireTaskLock(m)
  /\ msg' = [msg EXCEPT ![w] = m]
  /\ Goto(w, IF IsEventTask(m) THEN "start" ELSE "load")
  /\ UNCHANGED <<rows, issues, mem, excused, others>>

Skip(w, m) ==
  /\ w \in scene.staff
  /\ pc[w] = "idle"
  /\ queue[m] > 0
  /\ queue' = [queue EXCEPT ![m] = @ - 1]
  /\ m \in locks
  /\ UNCHANGED <<rows, issues, locks, worker, excused, others>>

Release(w) ==
  /\ pc[w] = "release"
  /\ locks' = locks \ {msg[w]}
  /\ msg' = [msg EXCEPT ![w] = None]
  /\ mem' = [mem EXCEPT ![w] = NoMem]
  /\ Goto(w, "idle")
  /\ UNCHANGED <<rows, issues, queue, excused, others>>
-----------------------------------------------------------------------------
(* process_relay_event and dispatch_event *)

StartEvent(w) ==
  /\ pc[w] = "start"
  /\ SetEvent(msg[w].event, "processing")
  /\ Goto(w, "list")
  /\ UNCHANGED <<delivery, order, issues, queue, locks, msg, mem, excused,
                 others>>

(* The enabled subscriptions are read once. *)
ListSubscriptions(w) ==
  /\ pc[w] = "list"
  /\ LET enabled == {s \in Subs : sub[s] = "enabled"} IN
     mem' = [mem EXCEPT ![w].todo = enabled, ![w].any = (enabled # {})]
  /\ Goto(w, "open")
  /\ UNCHANGED <<rows, issues, queue, locks, msg, excused, others>>

(* A delivery that an event run and a retry of the delivery work on at the   *)
(* same time may get two issues: the two tasks have different locks.         *)
Overlaps(w, d) ==
  \E v \in Workers \ {w} :
    mem[v].cur = d /\ IsEventTask(msg[v]) # IsEventTask(msg[w])

Excuse(w, d) == excused' = IF Overlaps(w, d) THEN excused \cup {d} ELSE excused

(* A row found with one of these states is skipped. *)
MustSkip(status) == status \in {"success", "processing", "pending"}

(* get_or_create of the next delivery: a new row is PENDING; a row that is   *)
(* SUCCESS, PROCESSING or PENDING is left alone.  No row can be created for  *)
(* a subscription that is gone.                                              *)
(* The one of the subscriptions T that was created first *)
IsFirst(s, T) ==
  \E k \in DOMAIN SubOrder : /\ SubOrder[k] = s
                            /\ \A j \in 1..(k - 1) : SubOrder[j] \notin T

OpenDelivery(w) == \E s \in mem[w].todo :
  LET d == <<msg[w].event, s>>
      rest == mem[w].todo \ {s} IN
  /\ pc[w] = "open"
  /\ IsFirst(s, mem[w].todo)
  /\ \/ /\ ~Exists(d)
        /\ sub[s] # "deleted"
        /\ delivery' = [delivery EXCEPT ![d] = [NoRow EXCEPT !.status = "pending"]]
        /\ order' = Append(order, d)
        /\ mem' = [mem EXCEPT ![w] =
             [@ EXCEPT !.todo = rest, !.cur = d, !.row = NoRow]]
        /\ Excuse(w, d)
        /\ Goto(w, "plan")
     \/ /\ ~Exists(d)
        /\ sub[s] = "deleted"
        /\ Goto(w, "abort")
        /\ UNCHANGED <<delivery, order, mem, excused>>
     \/ /\ Exists(d)
        /\ MustSkip(delivery[d].status)
        /\ mem' = [mem EXCEPT ![w].todo = rest]
        /\ UNCHANGED <<delivery, order, pc, excused>>
     \/ /\ Exists(d)
        /\ ~MustSkip(delivery[d].status)
        /\ mem' = [mem EXCEPT ![w] =
             [@ EXCEPT !.todo = rest, !.cur = d, !.row = delivery[d]]]
        /\ Excuse(w, d)
        /\ Goto(w, "reopen")
        /\ UNCHANGED <<delivery, order>>
  /\ UNCHANGED <<event, issues, queue, locks, msg, others>>

Gone(w) == ~Exists(mem[w].cur)

ReopenDelivery(w) ==
  /\ pc[w] = "reopen"
  /\ IF Gone(w)
     THEN Goto(w, "abort") /\ UNCHANGED delivery
     ELSE /\ delivery' = [delivery EXCEPT ![mem[w].cur].status = "pending"]
          /\ Goto(w, "plan")
  /\ UNCHANGED <<event, order, issues, queue, locks, msg, mem, excused,
                 others>>

(* Mutants of EventVerdict: one success is enough; the status of a delivery  *)
(* is written to the event.                                                  *)
VerdictOfAnySuccess(m) ==
  IF m.won \/ ~m.any THEN "completed" ELSE "failed"
(* A failure, or subscriptions without one success, fail the event. *)
EventVerdict(m) ==
  IF m.failed \/ (m.any /\ ~m.won) THEN "failed" ELSE "completed"

FinishEvent(w) ==
  /\ pc[w] = "open"
  /\ mem[w].todo = {}
  /\ SetEvent(msg[w].event, EventVerdict(mem[w]))
  /\ Goto(w, "release")
  /\ UNCHANGED <<delivery, order, issues, queue, locks, msg, mem, excused,
                 others>>

(* An exception leaves the loop: the task marks the event FAILED. *)
AbortEvent(w) ==
  /\ pc[w] = "abort"
  /\ SetEvent(msg[w].event, "failed")
  /\ Goto(w, "release")
  /\ UNCHANGED <<delivery, order, issues, queue, locks, msg, mem, excused,
                 others>>
-----------------------------------------------------------------------------
(* _dispatch_one and the adapters *)

(* The plan is resolved; an update adopts the issue it refers to before the  *)
(* external call.  metadata is written as the worker read it.                *)
PlanDelivery(w) ==
  LET d == mem[w].cur
      plan == PlanFor(d, mem[w].row)
      adopted == IF plan.action = "update" /\ mem[w].row.issue = None
                 THEN plan.ref ELSE mem[w].row.issue
      row == [mem[w].row EXCEPT !.status = "processing", !.issue = adopted]
  IN
  /\ pc[w] = "plan"
  /\ IF Gone(w)
     THEN Goto(w, "fail") /\ UNCHANGED <<delivery, mem>>
     ELSE /\ delivery' = [delivery EXCEPT ![d] = row]
          /\ mem' = [mem EXCEPT ![w] =
               [@ EXCEPT !.row = row, !.action = plan.action,
                         !.ref = plan.ref, !.links = plan.links]]
          /\ Goto(w, IF plan.action = "update" THEN "update" ELSE "create")
  /\ UNCHANGED <<event, order, issues, queue, locks, msg, excused, others>>

CallFails(w) ==
  /\ pc[w] \in {"update", "create"}
  /\ Trouble("faults")
  /\ Goto(w, "fail")
  /\ UNCHANGED <<rows, issues, queue, locks, msg, mem, excused, scene, sub,
                 client>>

(* An update of an issue that is missing creates another, and so does that   *)
(* of an issue in a repository the subscription has left; there the code may *)
(* take the number for one of the new repository (see IssueDrivers).         *)
UpdateIssue(w) ==
  LET i == mem[w].ref IN
  /\ pc[w] = "update"
  /\ \/ /\ issues[i].gone \/ issues[i].away
        /\ Goto(w, "create")
        /\ UNCHANGED mem
     \/ /\ ~issues[i].gone \/ issues[i].away
        /\ mem' = [mem EXCEPT ![w].row.issue = i]
        /\ Goto(w, "save")
  /\ UNCHANGED <<rows, issues, queue, locks, msg, excused, others>>

(* is_missing_issue_error: the update of an issue that is there fails with a *)
(* text that holds "404" or "not found", and is taken for a missing one.     *)
UpdateMistaken(w) ==
  /\ pc[w] = "update"
  /\ Trouble("faults")
  /\ Goto(w, "create")
  /\ excused' = excused \cup {mem[w].cur}
  /\ UNCHANGED <<rows, issues, queue, locks, msg, mem, scene, sub, client>>

NewIssue(w) ==
  issues' = Append(issues,
    [of |-> mem[w].cur, links |-> mem[w].links, gone |-> FALSE,
     away |-> FALSE])

CreateIssue(w) ==
  /\ pc[w] = "create"
  /\ NewIssue(w)
  /\ mem' = [mem EXCEPT ![w].row.issue = Len(issues) + 1]
  /\ Goto(w, "save")
  /\ UNCHANGED <<rows, queue, locks, msg, excused, others>>

(* The issue is created, but its answer is lost: the handler posts again, or *)
(* raises.                                                                   *)
CreateUnanswered(w) ==
  /\ pc[w] = "create"
  /\ Trouble("faults")
  /\ NewIssue(w)
  /\ Goto(w, "create") \/ Goto(w, "fail")
  /\ excused' = excused \cup {mem[w].cur}
  /\ UNCHANGED <<rows, queue, locks, msg, mem, scene, sub, client>>

SaveDelivery(w) ==
  /\ pc[w] = "save"
  /\ IF Gone(w)
     THEN Goto(w, "fail") /\ UNCHANGED <<delivery, mem>>
     ELSE /\ delivery' = [delivery EXCEPT ![mem[w].cur] =
               [mem[w].row EXCEPT !.status = "success"]]
          /\ mem' = [mem EXCEPT ![w].won = TRUE, ![w].cur = None]
          /\ Goto(w, IF IsEventTask(msg[w]) THEN "open" ELSE "count")
  /\ UNCHANGED <<event, order, issues, queue, locks, msg, excused, others>>

(* The failure of one delivery does not stop the loop, unless its row is     *)
(* gone.  A retry marks the event first.                                     *)
FailDelivery(w) ==
  /\ pc[w] = "fail"
  /\ IF ~IsEventTask(msg[w])
     THEN Goto(w, "failEvent") /\ UNCHANGED <<delivery, mem>>
     ELSE IF Gone(w)
     THEN Goto(w, "abort") /\ UNCHANGED <<delivery, mem>>
     ELSE /\ delivery' = [delivery EXCEPT ![mem[w].cur] =
               [@ EXCEPT !.status = "failed", !.retry = mem[w].row.retry]]
          /\ mem' = [mem EXCEPT ![w].failed = TRUE, ![w].cur = None]
          /\ Goto(w, "open")
  /\ UNCHANGED <<event, order, issues, queue, locks, msg, excused, others>>
-----------------------------------------------------------------------------
(* process_relay_delivery and retry_delivery *)

(* The row is read; a row that is gone raises before anything is written.    *)
LoadDelivery(w) ==
  LET d == msg[w].delivery IN
  /\ pc[w] = "load"
  /\ IF ~Exists(d)
     THEN Goto(w, "release") /\ UNCHANGED <<mem, excused>>
     ELSE /\ mem' = [mem EXCEPT ![w] =
               [@ EXCEPT !.cur = d, !.row = [delivery[d] EXCEPT !.retry = TRUE]]]
          /\ Excuse(w, d)
          /\ Goto(w, "retry")
  /\ UNCHANGED <<rows, issues, queue, locks, msg, others>>

RetryDelivery(w) ==
  /\ pc[w] = "retry"
  /\ IF Gone(w)
     THEN Goto(w, "release") /\ UNCHANGED delivery
     ELSE /\ delivery' = [delivery EXCEPT ![mem[w].cur] =
               [@ EXCEPT !.status = "pending", !.retry = TRUE]]
          /\ Goto(w, "plan")
  /\ UNCHANGED <<event, order, issues, queue, locks, msg, mem, excused,
                 others>>

(* The deliveries that failed are counted, then the event is written. *)
CountFailed(w) ==
  LET x == msg[w].delivery[1] IN
  /\ pc[w] = "count"
  /\ mem' = [mem EXCEPT ![w].failed =
       \E s \in Subs : delivery[<<x, s>>].status = "failed"]
  /\ Goto(w, "settle")
  /\ UNCHANGED <<rows, issues, queue, locks, msg, excused, others>>

SettleEvent(w) ==
  /\ pc[w] = "settle"
  /\ SetEvent(msg[w].delivery[1],
              IF mem[w].failed THEN "failed" ELSE "completed")
  /\ Goto(w, "release")
  /\ UNCHANGED <<delivery, order, issues, queue, locks, msg, mem, excused,
                 others>>

(* On a failure the finally clause writes the event, then the task writes    *)
(* the delivery.                                                             *)
FailEvent(w) ==
  /\ pc[w] = "failEvent"
  /\ SetEvent(msg[w].delivery[1], "failed")
  /\ Goto(w, "failDelivery")
  /\ UNCHANGED <<delivery, order, issues, queue, locks, msg, mem, excused,
                 others>>

(* Mutant of FailRetry: the delivery stays as it is. *)
FailRetryForgets(w) ==
  /\ pc[w] = "failDelivery"
  /\ Goto(w, "release")
  /\ UNCHANGED <<rows, issues, queue, locks, msg, mem, excused, others>>

FailRetry(w) ==
  /\ pc[w] = "failDelivery"
  /\ delivery' = IF Gone(w) THEN delivery
                 ELSE [delivery EXCEPT ![mem[w].cur].status = "failed"]
  /\ Goto(w, "release")
  /\ UNCHANGED <<event, order, issues, queue, locks, msg, mem, excused,
                 others>>
-----------------------------------------------------------------------------
(* Requests of the API *)

(* RelayDeliveryRetryAPIView: the delivery is marked PROCESSING whatever its *)
(* status, then its event, then the message is queued.                       *)
RequestDelivery(c, d) ==
  /\ client[c].pc = "idle"
  /\ budget.retries < MaxRetries
  /\ Exists(d)
  /\ delivery' = [delivery EXCEPT ![d] =
       [@ EXCEPT !.status = "processing", !.retry = TRUE]]
  /\ client' = [client EXCEPT ![c] = [pc |-> "event", target |-> DeliveryTask(d)]]
  /\ budget' = [budget EXCEPT !.retries = @ + 1]
  /\ UNCHANGED <<scene, sub, event, order, issues, queue, locks, worker,
                 excused>>

(* RelayEventRetryAPIView starts here. *)
RequestEvent(c, x) ==
  /\ client[c].pc = "idle"
  /\ budget.retries < MaxRetries
  /\ event[x].status # "none"
  /\ client' = [client EXCEPT ![c] = [pc |-> "event", target |-> EventTask(x)]]
  /\ budget' = [budget EXCEPT !.retries = @ + 1]
  /\ UNCHANGED <<scene, sub, rows, issues, queue, locks, worker, excused>>

MarkEvent(c) ==
  /\ client[c].pc = "event"
  /\ SetEvent(EventOf(client[c].target), "processing")
  /\ client' = [client EXCEPT ![c].pc = "queue"]
  /\ UNCHANGED <<scene, sub, delivery, order, issues, queue, locks, worker,
                 excused, budget>>

QueueRetry(c) ==
  /\ client[c].pc = "queue"
  /\ Send(client[c].target)
  /\ client' = [client EXCEPT ![c] = NoClient]
  /\ UNCHANGED <<scene, sub, rows, issues, locks, worker, excused>>
-----------------------------------------------------------------------------
(* Users, crashes and expiries *)

ToggleSubscription(s) ==
  /\ Trouble("edits")
  /\ sub[s] # "deleted"
  /\ sub' = [sub EXCEPT ![s] = IF @ = "enabled" THEN "disabled" ELSE "enabled"]
  /\ UNCHANGED <<scene, rows, issues, queue, locks, worker, client, excused>>

(* The deliveries of a subscription are deleted with it. *)
DeleteSubscription(s) ==
  /\ Trouble("edits")
  /\ sub[s] # "deleted"
  /\ sub' = [sub EXCEPT ![s] = "deleted"]
  /\ delivery' = [d \in Deliveries |-> IF d[2] = s THEN NoRow ELSE delivery[d]]
  /\ UNCHANGED <<scene, event, order, issues, queue, locks, worker, client, excused>>

(* Someone deletes an issue in the external system. *)
DeleteIssue(i) ==
  /\ Trouble("edits")
  /\ ~issues[i].gone
  /\ issues' = [issues EXCEPT ![i].gone = TRUE]
  /\ excused' = excused \cup {issues[i].of}
  /\ UNCHANGED <<scene, sub, rows, queue, locks, worker, client>>

(* Someone points a subscription to another repository, or back. *)
MoveSubscription(s) ==
  /\ Trouble("edits")
  /\ sub[s] # "deleted"
  /\ issues' = [i \in DOMAIN issues |->
       IF issues[i].of[2] = s THEN [issues[i] EXCEPT !.away = ~@] ELSE issues[i]]
  /\ excused' = excused \cup
       {issues[i].of : i \in {i \in DOMAIN issues : issues[i].of[2] = s}}
  /\ UNCHANGED <<scene, sub, rows, queue, locks, worker, client>>

(* A worker dies.  Its lock stays; its message comes back when the whole     *)
(* worker was lost, and is gone when only the process was.                   *)
Crash(w) ==
  /\ pc[w] # "idle"
  /\ Trouble("crashes")
  /\ Put(msg[w]) \/ UNCHANGED queue
  /\ excused' = IF pc[w] = "save" THEN excused \cup {mem[w].cur} ELSE excused
  /\ Goto(w, "idle")
  /\ msg' = [msg EXCEPT ![w] = None]
  /\ mem' = [mem EXCEPT ![w] = NoMem]
  /\ UNCHANGED <<scene, sub, rows, issues, locks, client>>

(* The lock of a worker that died expires. *)
Expire(m) ==
  /\ m \in locks
  /\ \A w \in Workers : msg[w] # m
  /\ locks' = locks \ {m}
  /\ UNCHANGED <<rows, issues, queue, worker, excused, others>>

Concerns(m, d) == IF IsEventTask(m) THEN d[1] = m.event ELSE d = m.delivery

(* A task that runs longer than its time limit loses its lock and goes on;   *)
(* at its end it deletes the lock, whoever has it by then.                   *)
Overrun(m) ==
  /\ m \in locks
  /\ \E w \in Workers : msg[w] = m
  /\ Trouble("faults")
  /\ locks' = locks \ {m}
  /\ excused' = excused \cup {d \in Deliveries : Concerns(m, d)}
  /\ UNCHANGED <<rows, issues, queue, worker, scene, sub, client>>
-----------------------------------------------------------------------------
WorkerStep(w) ==
  \/ \E m \in Message : Take(w, m) \/ Skip(w, m)
  \/ StartEvent(w) \/ ListSubscriptions(w) \/ OpenDelivery(w)
  \/ ReopenDelivery(w) \/ FinishEvent(w) \/ AbortEvent(w)
  \/ PlanDelivery(w) \/ CallFails(w) \/ UpdateIssue(w)
  \/ UpdateMistaken(w) \/ CreateIssue(w) \/ CreateUnanswered(w)
  \/ SaveDelivery(w) \/ FailDelivery(w)
  \/ LoadDelivery(w) \/ RetryDelivery(w) \/ CountFailed(w) \/ SettleEvent(w)
  \/ FailEvent(w) \/ FailRetry(w)
  \/ Release(w)

ClientStep(c) == MarkEvent(c) \/ QueueRetry(c)

Environment ==
  \/ \E x \in Events : Publish(x)
  \/ \E c \in Clients : \/ \E d \in Deliveries : RequestDelivery(c, d)
                        \/ \E x \in Events : RequestEvent(c, x)
  \/ \E s \in Subs : ToggleSubscription(s) \/ DeleteSubscription(s)
                     \/ MoveSubscription(s)
  \/ \E i \in DOMAIN issues : DeleteIssue(i)
  \/ \E w \in Workers : Crash(w)
  \/ \E m \in Message : Expire(m) \/ Overrun(m)

Next ==
  \/ \E w \in Workers : WorkerStep(w)
  \/ \E c \in Clients : ClientStep(c)
  \/ Environment

Spec == Init /\ [][Next]_vars

(* A worker that is deployed and alive goes on, and so does a request. *)
Fairness ==
  /\ \A w \in Workers : WF_vars(WorkerStep(w))
  /\ \A c \in Clients : WF_vars(ClientStep(c))

FairSpec == Spec /\ Fairness
-----------------------------------------------------------------------------
(* Properties *)

(* The idempotency key of a delivery and the locks: with a strategy that     *)
(* updates on a retry, a delivery makes a second issue only when the answer  *)
(* of the first was lost, the first was deleted or taken for missing, the    *)
(* subscription was pointed to another repository, a worker died between the *)
(* call and the save, a retry of the delivery ran beside a run of its event, *)
(* or a task lost its lock to the time limit.  Repeated messages, retries of *)
(* the event and redeliveries never add one.                                 *)
OneIssuePerDelivery ==
  \A d \in Deliveries \ excused :
    (Policy[d[2]].explicit \in {None, "update"} /\ Policy[d[2]].retry = "update")
      => Cardinality({i \in DOMAIN issues : issues[i].of = d}) <= 1

(* delivery_strategy.py: a delivery records, and an update writes to, only   *)
(* an issue that its own subscription made for its own email; links lead     *)
(* only to issues of the same subscription and of merged emails.             *)
IssuesOfOwnEmail ==
  /\ \A d \in Deliveries : delivery[d].issue # None =>
       LET o == issues[delivery[d].issue].of IN
       o[2] = d[2] /\ EmailOf(o[1]) = EmailOf(d[1])
  /\ \A i \in DOMAIN issues : \A j \in issues[i].links :
       /\ issues[j].of[2] = issues[i].of[2]
       /\ EmailOf(issues[j].of[1]) \in ClusterOf(EmailOf(issues[i].of[1]))

(* dispatch_event and retry_delivery: an event that the only worker turns    *)
(* into COMPLETED has no enabled subscription whose delivery failed,         *)
(* whatever requests, crashes and redeliveries came before.                  *)
CompletedHasNoFailure ==
  [][\A x \in Events :
       (event'[x].status = "completed" /\ event[x].status # "completed"
          /\ Cardinality(scene.staff) = 1 /\ budget.edits = 0)
         => \A s \in Subs : delivery[<<x, s>>].status # "failed"]_vars

(* Without crashes, lost messages and deleted rows, one worker settles every *)
(* event and every delivery it has, retries included.                        *)
Disturbed ==
  Cardinality(scene.staff) # 1 \/ budget.crashes + budget.edits > 0
Open(x) ==
  \/ event[x].status \in {"pending", "processing"}
  \/ \E s \in Subs : delivery[<<x, s>>].status \in {"pending", "processing"}
RelaySettles == \A x \in Events : Open(x) ~> (~Open(x) \/ Disturbed)
=============================================================================
