---------------------------- MODULE EmailPipeline ----------------------------
(***************************************************************************)
(* The processing of an email in devify, from the row a fetch saves to the *)
(* verdict of the workflow.  These actors share the EmailMessage rows, the *)
(* Celery queue and the task locks:                                        *)
(*                                                                         *)
(*   - worker processes run process_email_merge, which queues              *)
(*     process_email_workflow, which runs the LangGraph nodes prepare,     *)
(*     credits, the LLM nodes, error handler and finalize;                 *)
(*   - API requests retry an email (enqueue_merge_workflow), delete it, or *)
(*     reprocess it from the admin site;                                   *)
(*   - a periodic task resets emails that are stuck, and a worker that     *)
(*     starts requeues stale ones.                                         *)
(*                                                                         *)
(* Every read and every write of a row is a step of its own.  In           *)
(* particular EmailMessage.save validates the status against a read and    *)
(* writes it later.  Both tasks take a lock per email, in the cache, with  *)
(* a time limit; a message whose lock is taken is dropped.                 *)
(***************************************************************************)
EXTENDS Naturals, FiniteSets, EmailStateMachine

CONSTANTS
  Emails,
  Workers,      \* prefork processes of the Celery workers
  Clients,      \* API requests that retry an email
  None,
  StuckReset,   \* BOOLEAN: is the periodic reset scheduled?
  Faults,       \* what can fail in a step that is under way
  MaxCopies,    \* bound: equal messages in the queue
  MaxRetries,   \* bound: retries and reprocessings asked for
  MaxCrashes,   \* bound: processes that die
  MaxOverruns,  \* bound: locks that expire while their task still runs
  MaxDeletes    \* bound: emails deleted

Task == {"merge", "workflow"}

(* A queued task.  The lock of the task has the same name, so that it is     *)
(* written as the message it protects.                                       *)
Message == [task : Task, email : Emails]
Merge(e) == [task |-> "merge", email |-> e]
Workflow(e) == [task |-> "workflow", email |-> e]

(* broker: a message cannot be queued.  database: a transaction fails.       *)
(* graph: LangGraph fails between two nodes.                                 *)
FaultKind == {"broker", "database", "graph"}

ASSUME PipelineAssumption ==
  /\ None \notin Emails \cup Message
  /\ StuckReset \in BOOLEAN
  /\ Faults \subseteq FaultKind
  /\ MaxCopies \in Nat \ {0}
  /\ {MaxRetries, MaxCrashes, MaxOverruns, MaxDeletes} \subseteq Nat

VARIABLES
  row,       \* the EmailMessage rows
  queue,     \* queue[m]: the copies of message m that wait for a worker
  locks,     \* the task locks that are held
  pc, msg,   \* where a worker is, and the message it works on
  mem,       \* what a worker has in memory for that message
  node,      \* self.email of the finalize node of a worker process, which
             \* outlives the message: the graph is built once per process
  event,     \* emails whose workflow_completed relay event was published
  client,    \* the local state of an API request
  reset,     \* the local state of the stuck-email reset
  budget     \* how much of each bound is used

vars == <<row, queue, locks, pc, msg, mem, node, event, client, reset, budget>>

Gone == {"unfetched", "deleted"}

(* age 1: not updated for TASK_TIMEOUT_MINUTES; age 2: for the 30 minutes of *)
(* the reset.  retried: fetch_retry_count.  synced: history, the results of  *)
(* the run that set PROCESSING last are stored.  dropped: history, a         *)
(* database error has ended the step that would have moved the email on, and *)
(* its status was not written since.                                         *)
Row == [status : Status \cup Gone, age : 0..2, retried : BOOLEAN,
        synced : BOOLEAN, dropped : BOOLEAN]

WorkerPc == {"idle", "reconcile", "enqueue", "markFailed",
             "start", "prepare", "credits", "nodes", "errorHandler",
             "load", "sync", "publish", "settle", "write",
             "rescue", "rescueWrite", "release"}

(* seen: the status the merge task read.  err: the errors of the nodes.      *)
(* target: the email whose status is about to be written.                    *)
Mem == [seen : Status \cup {None}, err : {"none", "system", "user"},
        charged : BOOLEAN, refunded : BOOLEAN, target : Emails \cup {None}]

NoMem == [seen |-> None, err |-> "none", charged |-> FALSE,
          refunded |-> FALSE, target |-> None]

NoClient == [pc |-> "idle", email |-> None, seen |-> None]
NoReset == [pc |-> "idle", todo |-> {}, email |-> None]

Snapshot == [email : Emails, status : {"fetched", "processing"},
             retried : BOOLEAN]

Budget == [retries : 0..MaxRetries, crashes : 0..MaxCrashes,
           restarts : 0..MaxCrashes, overruns : 0..MaxOverruns,
           deletes : 0..MaxDeletes]

TypeOK ==
  /\ row \in [Emails -> Row]
  /\ queue \in [Message -> 0..MaxCopies]
  /\ locks \subseteq Message
  /\ pc \in [Workers -> WorkerPc]
  /\ msg \in [Workers -> Message \cup {None}]
  /\ mem \in [Workers -> Mem]
  /\ node \in [Workers -> Emails \cup {None}]
  /\ event \subseteq Emails
  /\ client \in [Clients ->
       [pc : {"idle", "mark", "queue", "undo", "undoWrite"},
        email : Emails \cup {None}, seen : Status \cup {None}]]
  /\ reset \in [pc : {"idle", "loop", "write"}, todo : SUBSET Snapshot,
                email : Emails \cup {None}]
  /\ budget \in Budget

Init ==
  /\ row = [e \in Emails |-> [status |-> "unfetched", age |-> 0,
                              retried |-> FALSE, synced |-> FALSE,
                              dropped |-> FALSE]]
  /\ queue = [m \in Message |-> 0]
  /\ locks = {}
  /\ pc = [w \in Workers |-> "idle"]
  /\ msg = [w \in Workers |-> None]
  /\ mem = [w \in Workers |-> NoMem]
  /\ node = [w \in Workers |-> None]
  /\ event = {}
  /\ client = [c \in Clients |-> NoClient]
  /\ reset = NoReset
  /\ budget = [retries |-> 0, crashes |-> 0, restarts |-> 0, overruns |-> 0,
               deletes |-> 0]
-----------------------------------------------------------------------------
Present(e) == row[e].status \notin Gone

Put(m) == queue[m] < MaxCopies /\ queue' = [queue EXCEPT ![m] = @ + 1]

Goto(w, label) == pc' = [pc EXCEPT ![w] = label]

(* An UPDATE of status and updated_at, and one of the progress alone.        *)
WriteStatus(e, s) ==
  row' = [row EXCEPT ![e] = [status |-> s, age |-> 0,
            retried |-> row[e].retried, synced |-> row[e].synced,
            dropped |-> FALSE]]
Touch(e) ==
  row' = [row EXCEPT ![e].age = IF Present(e) THEN 0 ELSE @]

(* A database error ends a step that nothing repeats: the row stays.         *)
Drop(e) ==
  /\ "database" \in Faults
  /\ row' = [row EXCEPT ![e].dropped = @ \/ row[e].status = "processing"]

Renew(S) ==
  row' = [e \in Emails |-> IF e \in S /\ Present(e)
                           THEN [row[e] EXCEPT !.age = 0] ELSE row[e]]

shared == <<row, queue, locks, event>>
worker == <<pc, msg, mem, node>>
others == <<client, reset, budget>>
-----------------------------------------------------------------------------
(* The fetch tasks save an email and queue its merge; a crash or a broker    *)
(* error in between leaves the row without a message.                        *)
Ingest(e) ==
  /\ row[e].status = "unfetched"
  /\ WriteStatus(e, "fetched")
  /\ \/ Put(Merge(e))
     \/ UNCHANGED queue
  /\ UNCHANGED <<locks, event, worker, others>>

(* Time passes without an update of the row. *)
Age(e) ==
  /\ row[e].status \in {"fetched", "processing"}
  /\ row[e].age < 2
  /\ row' = [row EXCEPT ![e].age = @ + 1]
  /\ UNCHANGED <<queue, locks, event, worker, others>>

Delete(e) ==
  /\ budget.deletes < MaxDeletes
  /\ Present(e)
  /\ WriteStatus(e, "deleted")
  /\ budget' = [budget EXCEPT !.deletes = @ + 1]
  /\ UNCHANGED <<queue, locks, event, worker, client, reset>>

(* The force-reprocess action of the admin site queues a merge and leaves    *)
(* the row alone.                                                            *)
AdminReprocess(e) ==
  /\ budget.retries < MaxRetries
  /\ Present(e)
  /\ Put(Merge(e))
  /\ budget' = [budget EXCEPT !.retries = @ + 1]
  /\ UNCHANGED <<row, locks, event, worker, client, reset>>
-----------------------------------------------------------------------------
(* enqueue_merge_workflow, called by a retry request: the message it holds   *)
(* was read earlier, the row is marked PROCESSING unless that message says   *)
(* it is, and the merge is queued.  A move to PROCESSING is legal from every *)
(* other status, so the validation of this save never fails; the save, or    *)
(* that of the progress after it, may.                                       *)

RetryRead(c, e) ==
  /\ client[c].pc = "idle"
  /\ budget.retries < MaxRetries
  /\ Present(e)
  /\ client' = [client EXCEPT ![c] =
       [pc |-> "mark", email |-> e, seen |-> row[e].status]]
  /\ budget' = [budget EXCEPT !.retries = @ + 1]
  /\ UNCHANGED <<shared, worker, reset>>

RetryMark(c) ==
  LET e == client[c].email IN
  /\ client[c].pc = "mark"
  /\ \/ /\ ~Present(e)
        /\ client' = [client EXCEPT ![c] = NoClient]
        /\ UNCHANGED row
     \/ /\ Present(e)
        /\ IF client[c].seen = "processing" THEN Touch(e)
                                            ELSE WriteStatus(e, "processing")
        /\ client' = [client EXCEPT ![c].pc = "queue"]
     \/ /\ "database" \in Faults
        /\ \/ UNCHANGED row
           \/ Present(e) /\ client[c].seen # "processing"
                         /\ WriteStatus(e, "processing")
        /\ client' = [client EXCEPT ![c].pc = "undo"]
  /\ UNCHANGED <<queue, locks, event, worker, reset, budget>>

RetryQueue(c) ==
  /\ client[c].pc = "queue"
  /\ \/ /\ Put(Merge(client[c].email))
        /\ client' = [client EXCEPT ![c] = NoClient]
     \/ /\ "broker" \in Faults
        /\ client' = [client EXCEPT ![c].pc = "undo"]
        /\ UNCHANGED queue
  /\ UNCHANGED <<row, locks, event, worker, reset, budget>>

(* Mutant of RetryUndo: the email stays as it is. *)
RetryForget(c) ==
  /\ client[c].pc = "undo"
  /\ client' = [client EXCEPT ![c] = NoClient]
  /\ UNCHANGED <<shared, worker, reset, budget>>

(* The message could not be queued: the email is marked FAILED, if it can.   *)
(* An error of this save is logged and forgotten.                            *)
RetryUndo(c) ==
  LET e == client[c].email IN
  /\ client[c].pc = "undo"
  /\ \/ /\ client' = [client EXCEPT ![c] =
             IF SaveAccepts(row[e].status, "failed")
             THEN [pc |-> "undoWrite", email |-> e, seen |-> client[c].seen]
             ELSE NoClient]
        /\ UNCHANGED row
     \/ Drop(e) /\ client' = [client EXCEPT ![c] = NoClient]
  /\ UNCHANGED <<queue, locks, event, worker, reset, budget>>

RetryUndoWrite(c) ==
  LET e == client[c].email IN
  /\ client[c].pc = "undoWrite"
  /\ \/ IF Present(e) THEN WriteStatus(e, "failed") ELSE UNCHANGED row
     \/ Drop(e)
  /\ client' = [client EXCEPT ![c] = NoClient]
  /\ UNCHANGED <<queue, locks, event, worker, reset, budget>>

ClientDies(c) ==
  /\ client[c].pc # "idle"
  /\ budget.crashes < MaxCrashes
  /\ client' = [client EXCEPT ![c] = NoClient]
  /\ budget' = [budget EXCEPT !.crashes = @ + 1]
  /\ UNCHANGED <<shared, worker, reset>>
-----------------------------------------------------------------------------
(* A worker takes a message and the lock of its task, or drops the message.  *)

(* Mutant of AcquireLock: the lock is set without a test. *)
AcquireAnyway(m) == locks' = locks \cup {m}

AcquireLock(m) == m \notin locks /\ locks' = locks \cup {m}

Take(w, m) ==
  /\ pc[w] = "idle"
  /\ queue[m] > 0
  /\ queue' = [queue EXCEPT ![m] = @ - 1]
  /\ AcquireLock(m)
  /\ msg' = [msg EXCEPT ![w] = m]
  /\ Goto(w, IF m.task = "merge" THEN "reconcile" ELSE "start")
  /\ UNCHANGED <<row, event, mem, node, others>>

Skip(w, m) ==
  /\ pc[w] = "idle"
  /\ queue[m] > 0
  /\ queue' = [queue EXCEPT ![m] = @ - 1]
  /\ m \in locks
  /\ UNCHANGED <<row, locks, event, worker, others>>

(* The decorator deletes the lock, whoever has it by now, and the message is *)
(* acknowledged.                                                             *)
Release(w) ==
  /\ pc[w] = "release"
  /\ locks' = locks \ {msg[w]}
  /\ msg' = [msg EXCEPT ![w] = None]
  /\ mem' = [mem EXCEPT ![w] = NoMem]
  /\ Goto(w, "idle")
  /\ UNCHANGED <<row, queue, event, node, others>>

(* A worker process that has served its share is replaced. *)
Recycle(w) ==
  /\ pc[w] = "idle"
  /\ node[w] # None
  /\ node' = [node EXCEPT ![w] = None]
  /\ UNCHANGED <<shared, pc, msg, mem, others>>
-----------------------------------------------------------------------------
(* process_email_merge *)

(* The status is read first.  EmailMergeService.reconcile, a transaction,    *)
(* then links emails of one conversation: that renews updated_at of this     *)
(* email and of those it absorbs.  An email that is linked already, or has   *)
(* children, stays as it is.  If the first read fails, there is no email to  *)
(* mark as failed.                                                           *)
Reconcile(w) ==
  LET e == msg[w].email IN
  /\ pc[w] = "reconcile"
  /\ \/ /\ ~Present(e)
        /\ Goto(w, "release")
        /\ UNCHANGED <<row, mem>>
     \/ /\ Present(e)
        /\ mem' = [mem EXCEPT ![w].seen = row[e].status]
        /\ \/ /\ \E linked \in SUBSET Emails :
                   (linked = {} \/ e \in linked) /\ Renew(linked)
              /\ Goto(w, "enqueue")
           \/ /\ "database" \in Faults
              /\ Goto(w, "markFailed")
              /\ UNCHANGED row
     \/ Drop(e) /\ Goto(w, "release") /\ UNCHANGED mem
  /\ UNCHANGED <<queue, locks, event, msg, node, others>>

EnqueueWorkflow(w) ==
  /\ pc[w] = "enqueue"
  /\ \/ Put(Workflow(msg[w].email)) /\ Goto(w, "release")
     \/ "broker" \in Faults /\ Goto(w, "markFailed") /\ UNCHANGED queue
  /\ UNCHANGED <<row, locks, event, msg, mem, node, others>>

(* _mark_email_failed asks the state machine about the status it read before *)
(* it sets FAILED.                                                           *)
MarkFailed(w) ==
  /\ pc[w] = "markFailed"
  /\ Goto(w, IF CanTransitionTo(mem[w].seen, "failed") THEN "rescue"
                                                       ELSE "release")
  /\ mem' = [mem EXCEPT ![w].target = msg[w].email]
  /\ UNCHANGED <<shared, msg, node, others>>
-----------------------------------------------------------------------------
(* process_email_workflow and the nodes of its graph *)

StartWorkflow(w) ==
  LET e == msg[w].email IN
  /\ pc[w] = "start"
  /\ \/ Touch(e) /\ Goto(w, IF Present(e) THEN "prepare" ELSE "release")
     \/ Drop(e) /\ Goto(w, "release")
  /\ UNCHANGED <<queue, locks, event, msg, mem, node, others>>

(* WorkflowPrepareNode: PROCESSING is set whatever the status was, then the  *)
(* data are loaded and checked.  An exception becomes an error of the node.  *)
Prepare(w) ==
  LET e == msg[w].email IN
  /\ pc[w] = "prepare"
  /\ \/ /\ ~Present(e)
        /\ mem' = [mem EXCEPT ![w].err = "user"]
        /\ UNCHANGED row
     \/ /\ Present(e)
        /\ row' = [row EXCEPT ![e] =
             [status |-> "processing", age |-> 0,
              retried |-> row[e].retried, synced |-> FALSE,
              dropped |-> FALSE]]
        /\ \E err \in {"none", "user"} : mem' = [mem EXCEPT ![w].err = err]
     \/ /\ "database" \in Faults
        /\ \E err \in {"user", "system"} : mem' = [mem EXCEPT ![w].err = err]
        /\ UNCHANGED row
  /\ Goto(w, "credits")
  /\ UNCHANGED <<queue, locks, event, msg, node, others>>

(* BaseLangGraphNode.can_enter_node *)
CanEnterNode(w) == mem[w].err = "none"

(* CreditsCheckNode, seen from here: it charges or reuses a charge, or it    *)
(* adds an error; CreditsLedger has the details.                             *)
Credits(w) ==
  LET e == msg[w].email IN
  /\ pc[w] = "credits"
  /\ \/ ~CanEnterNode(w) /\ UNCHANGED <<row, mem>>
     \/ /\ CanEnterNode(w)
        /\ Touch(e)
        /\ \/ Present(e) /\ mem' = [mem EXCEPT ![w].charged = TRUE]
           \/ \E err \in {"user", "system"} :
                mem' = [mem EXCEPT ![w].err = err]
  /\ Goto(w, "nodes")
  /\ UNCHANGED <<queue, locks, event, msg, node, others>>

(* ImageIntentNode, LLMEmailNode, SummaryNode and MetadataNode, and the      *)
(* conditional edge after them.                                              *)
ShouldHandleError(err) == IF err # "none" THEN "errorHandler" ELSE "load"

Nodes(w) ==
  /\ pc[w] = "nodes"
  /\ \/ /\ ~CanEnterNode(w)
        /\ Goto(w, ShouldHandleError(mem[w].err))
        /\ UNCHANGED <<row, mem>>
     \/ /\ CanEnterNode(w)
        /\ Touch(msg[w].email)
        /\ \E err \in {"none", "user", "system"} :
             /\ mem' = [mem EXCEPT ![w].err = err]
             /\ Goto(w, ShouldHandleError(err))
  /\ UNCHANGED <<queue, locks, event, msg, node, others>>

(* ErrorHandlerNode has the entry condition of every node; inside, a charge  *)
(* is refunded when the errors are the system's.                             *)
ErrorHandler(w) ==
  /\ pc[w] = "errorHandler"
  /\ mem' = [mem EXCEPT ![w].refunded =
       CanEnterNode(w) /\ mem[w].charged /\ mem[w].err = "system"]
  /\ Goto(w, "load")
  /\ UNCHANGED <<shared, msg, node, others>>

(* LangGraph fails between two nodes, a checkpoint that cannot be saved say: *)
(* _update_email_status_on_fatal_error.                                      *)
GraphFails(w) ==
  /\ "graph" \in Faults
  /\ pc[w] \in {"prepare", "credits", "nodes", "errorHandler", "load"}
  /\ mem' = [mem EXCEPT ![w].target = msg[w].email]
  /\ Goto(w, "rescue")
  /\ UNCHANGED <<shared, msg, node, others>>
-----------------------------------------------------------------------------
(* WorkflowFinalizeNode *)

(* before_processing reads the email into self.email.  If that raises,       *)
(* self.email is still the email this process finalized last.                *)
Load(w) ==
  LET e == msg[w].email IN
  /\ pc[w] = "load"
  /\ \/ /\ \/ ~Present(e) /\ UNCHANGED row
           \/ Drop(e)
        /\ mem' = [mem EXCEPT ![w].target = node[w]]
        /\ Goto(w, IF node[w] = None THEN "release" ELSE "rescue")
        /\ UNCHANGED node
     \/ /\ Present(e)
        /\ node' = [node EXCEPT ![w] = e]
        /\ mem' = [mem EXCEPT ![w].target = e]
        /\ Goto(w, "sync")
        /\ Touch(e)
  /\ UNCHANGED <<queue, locks, event, msg, others>>

(* Mutant of AfterSync: partial results are published, too. *)
AlwaysPublish(err) == "publish"

AfterSync(err) == IF err = "none" THEN "publish" ELSE "settle"

(* _sync_data_to_database, in a transaction: what there is of the results,   *)
(* and the progress.                                                         *)
Sync(w) ==
  LET e == msg[w].email IN
  /\ pc[w] = "sync"
  /\ \/ /\ ~Present(e) \/ "database" \in Faults
        /\ Goto(w, "rescue")
        /\ UNCHANGED row
     \/ /\ Present(e)
        /\ row' = [row EXCEPT ![e] =
             [status |-> row[e].status, age |-> 0, retried |-> row[e].retried,
              synced |-> row[e].synced \/ mem[w].err = "none",
              dropped |-> row[e].dropped]]
        /\ Goto(w, AfterSync(mem[w].err))
  /\ UNCHANGED <<queue, locks, event, msg, mem, node, others>>

(* _publish_relay_event; its errors are logged and forgotten. *)
Publish(w) ==
  LET e == msg[w].email IN
  /\ pc[w] = "publish"
  /\ \/ Present(e) /\ event' = event \cup {e}
     \/ (~Present(e) \/ "database" \in Faults) /\ UNCHANGED event
  /\ Goto(w, "settle")
  /\ UNCHANGED <<row, queue, locks, msg, mem, node, others>>

(* Mutant of Verdict: has_node_errors is not asked. *)
VerdictOfRun(w) == "success"

Verdict(w) == IF mem[w].err = "none" THEN "success" ELSE "failed"

(* set_status of the verdict: the read that validates it, then the write. A  *)
(* rejected or lost row and a database error raise, which _handle_error      *)
(* rescues.                                                                  *)
Settle(w) ==
  LET e == mem[w].target IN
  /\ pc[w] = "settle"
  /\ Goto(w, IF Present(e) /\ SaveAccepts(row[e].status, Verdict(w))
             THEN "write" ELSE "rescue")
  /\ UNCHANGED <<shared, msg, mem, node, others>>

Write(w) ==
  LET e == mem[w].target IN
  /\ pc[w] = "write"
  /\ \/ Present(e) /\ WriteStatus(e, Verdict(w)) /\ Goto(w, "release")
     \/ /\ ~Present(e) \/ "database" \in Faults
        /\ Goto(w, "rescue")
        /\ UNCHANGED row
  /\ UNCHANGED <<queue, locks, event, msg, mem, node, others>>

(* Best-effort set_status(FAILED) of mem.target: the error handling of the   *)
(* finalize node, of the merge task and of a failed graph.  Its own errors   *)
(* are logged and forgotten.                                                 *)
Rescue(w) ==
  LET e == mem[w].target IN
  /\ pc[w] = "rescue"
  /\ \/ /\ Goto(w, IF Present(e) /\ SaveAccepts(row[e].status, "failed")
                   THEN "rescueWrite" ELSE "release")
        /\ UNCHANGED row
     \/ Drop(e) /\ Goto(w, "release")
  /\ UNCHANGED <<queue, locks, event, msg, mem, node, others>>

RescueWrite(w) ==
  LET e == mem[w].target IN
  /\ pc[w] = "rescueWrite"
  /\ \/ IF Present(e) THEN WriteStatus(e, "failed") ELSE UNCHANGED row
     \/ Drop(e)
  /\ Goto(w, "release")
  /\ UNCHANGED <<queue, locks, event, msg, mem, node, others>>
-----------------------------------------------------------------------------
(* Crashes, expiries and recovery *)

(* A worker process dies.  Its lock stays.  Its message comes back when the  *)
(* whole worker was lost, and is gone when only the process was.             *)
Crash(w) ==
  /\ pc[w] # "idle"
  /\ budget.crashes < MaxCrashes
  /\ \/ Put(msg[w])
     \/ UNCHANGED queue
  /\ pc' = [pc EXCEPT ![w] = "idle"]
  /\ msg' = [msg EXCEPT ![w] = None]
  /\ mem' = [mem EXCEPT ![w] = NoMem]
  /\ node' = [node EXCEPT ![w] = None]
  /\ budget' = [budget EXCEPT !.crashes = @ + 1]
  /\ UNCHANGED <<row, locks, event, client, reset>>

(* A lock expires, after its holder died or, when the task takes longer than *)
(* the time limit, while the holder still runs.                              *)
Expire(m) ==
  /\ m \in locks
  /\ locks' = locks \ {m}
  /\ \/ (\A w \in Workers : msg[w] # m) /\ UNCHANGED budget
     \/ /\ \E w \in Workers : msg[w] = m
        /\ budget.overruns < MaxOverruns
        /\ budget' = [budget EXCEPT !.overruns = @ + 1]
  /\ UNCHANGED <<row, queue, event, worker, client, reset>>

(* recover_stuck_processing_emails, when a worker becomes ready: every email *)
(* that is PROCESSING and stale is merged again, if it can be queued.        *)
Recover ==
  LET stale == {m \in Message : m.task = "merge"
                                /\ row[m.email].status = "processing"
                                /\ row[m.email].age >= 1}
  IN
  /\ budget.restarts < budget.crashes
  /\ \E sent \in SUBSET stale :
       /\ sent = stale \/ "broker" \in Faults
       /\ \A m \in sent : queue[m] < MaxCopies
       /\ queue' = [m \in Message |->
            IF m \in sent THEN queue[m] + 1 ELSE queue[m]]
  /\ budget' = [budget EXCEPT !.restarts = @ + 1]
  /\ UNCHANGED <<row, locks, event, worker, client, reset>>
-----------------------------------------------------------------------------
(* schedule_reset_stuck_processing_emails: a query takes a snapshot of the   *)
(* stuck emails, which are then handled one by one.  An exception ends the   *)
(* loop.  The saves leave updated_at alone.                                  *)

(* Mutant of IsStuck: FETCHED emails are overlooked. *)
IsStuckProcessing(e) == row[e].status = "processing" /\ row[e].age = 2

IsStuck(e) == row[e].status \in {"fetched", "processing"} /\ row[e].age = 2

ResetScan ==
  LET stuck == {e \in Emails : IsStuck(e)} IN
  /\ StuckReset
  /\ reset.pc = "idle"
  /\ stuck # {}
  /\ reset' = [pc |-> "loop", email |-> None,
               todo |-> {[email |-> e, status |-> row[e].status,
                          retried |-> row[e].retried] : e \in stuck}]
  /\ UNCHANGED <<shared, worker, client, budget>>

NextStuck(todo) ==
  IF todo = {} THEN NoReset ELSE [pc |-> "loop", todo |-> todo, email |-> None]

(* The first time a FETCHED email is stuck its workflow is queued. *)
ResetRetries(x) ==
  LET e == x.email IN
  /\ reset.pc = "loop"
  /\ x.status = "fetched" /\ ~x.retried
  /\ \/ /\ ~Present(e)
        /\ reset' = NoReset
        /\ UNCHANGED <<row, queue>>
     \/ /\ Present(e)
        /\ row' = [row EXCEPT ![e].retried = TRUE]
        /\ \/ Put(Workflow(e)) /\ reset' = NextStuck(reset.todo \ {x})
           \/ "broker" \in Faults /\ reset' = NoReset /\ UNCHANGED queue
  /\ UNCHANGED <<locks, event, worker, client, budget>>

(* The second time, and any other stuck email, becomes FAILED. *)
ResetFails(x) ==
  /\ reset.pc = "loop"
  /\ x.status = "processing" \/ x.retried
  /\ reset' = IF Present(x.email) /\ SaveAccepts(row[x.email].status, "failed")
              THEN [pc |-> "write", todo |-> reset.todo \ {x},
                    email |-> x.email]
              ELSE NoReset
  /\ UNCHANGED <<shared, worker, client, budget>>

ResetWrite ==
  LET e == reset.email IN
  /\ reset.pc = "write"
  /\ \/ /\ ~Present(e)
        /\ reset' = NoReset
        /\ UNCHANGED row
     \/ /\ Present(e)
        /\ row' = [row EXCEPT ![e].status = "failed", ![e].dropped = FALSE]
        /\ reset' = NextStuck(reset.todo)
  /\ UNCHANGED <<queue, locks, event, worker, client, budget>>
-----------------------------------------------------------------------------
WorkerStep(w) ==
  \/ \E m \in Message : Take(w, m) \/ Skip(w, m)
  \/ Release(w)
  \/ Reconcile(w) \/ EnqueueWorkflow(w) \/ MarkFailed(w)
  \/ StartWorkflow(w) \/ Prepare(w) \/ Credits(w) \/ Nodes(w)
  \/ ErrorHandler(w) \/ GraphFails(w)
  \/ Load(w) \/ Sync(w) \/ Publish(w) \/ Settle(w) \/ Write(w)
  \/ Rescue(w) \/ RescueWrite(w)

ClientStep(c) ==
  RetryMark(c) \/ RetryQueue(c) \/ RetryUndo(c) \/ RetryUndoWrite(c)

ResetStep ==
  \/ ResetScan
  \/ \E x \in reset.todo : ResetRetries(x) \/ ResetFails(x)
  \/ ResetWrite

Environment ==
  \/ \E e \in Emails : Ingest(e) \/ Delete(e) \/ AdminReprocess(e)
  \/ \E c \in Clients, e \in Emails : RetryRead(c, e)
  \/ \E c \in Clients : ClientDies(c)
  \/ \E w \in Workers : Crash(w) \/ Recycle(w)
  \/ \E m \in Message : Expire(m)
  \/ Recover

Next ==
  \/ \E w \in Workers : WorkerStep(w)
  \/ \E c \in Clients : ClientStep(c)
  \/ \E e \in Emails : Age(e)
  \/ ResetStep
  \/ Environment

Spec == Init /\ [][Next]_vars

(* A live worker goes on and takes messages, a live request goes on, time    *)
(* passes and beat keeps scheduling the reset; nothing obliges users,        *)
(* crashes, expiries and restarts.                                           *)
Fairness ==
  /\ \A w \in Workers : WF_vars(WorkerStep(w))
  /\ \A c \in Clients : WF_vars(ClientStep(c))
  /\ \A e \in Emails : WF_vars(Age(e))
  /\ WF_vars(ResetStep)

FairSpec == Spec /\ Fairness
-----------------------------------------------------------------------------
(* Properties *)

(* The decorator prevent_duplicate_task: however messages are duplicated, by *)
(* retries, redeliveries, recovery and the reset, two workers never run the  *)
(* same task for the same email, crashes included, as long as no task        *)
(* outlasts its lock (MaxOverruns = 0).                                      *)
OneRunPerEmail ==
  \A v, w \in Workers : v # w /\ msg[v] # None => msg[v] # msg[w]

(* A SUCCESS can be shown: the results of the run that set PROCESSING last   *)
(* are stored, whatever the reset, retries and crashes did to the row        *)
(* between the sync and the verdict.                                         *)
SuccessHasResults ==
  \A e \in Emails : row[e].status = "success" => row[e].synced

(* Downstream integrations hear of an email only after its results are in    *)
(* the database (finalize syncs, then publishes, then sets SUCCESS).         *)
AnnouncesStoredResults ==
  [][\A e \in event' \ event : row[e].synced]_vars

(* Without a reset, broker and database errors, the pipeline is a lifecycle. *)
Lifecycle == INSTANCE EmailLifecycle WITH
  status <- [e \in Emails |-> row[e].status],
  synced <- {e \in Emails : row[e].synced}
LifecycleSpec == Lifecycle!Spec

(* Whatever fails and whoever dies, an email does not stay FETCHED or        *)
(* PROCESSING for good: the periodic reset sees to it.                       *)
Unsettled(e) == row[e].status \in {"fetched", "processing"}
EmailSettles == \A e \in Emails : Unsettled(e) ~> ~Unsettled(e)

(* admin.py, force_reprocess: "For system errors, credits are automatically  *)
(* refunded."  A run that charged and failed for a system error has refunded *)
(* when it reaches the finalize node.                                        *)
SystemErrorsRefunded ==
  \A w \in Workers :
    (pc[w] = "load" /\ mem[w].charged /\ mem[w].err = "system")
      => mem[w].refunded

(* merge_workflow.py: an email is marked PROCESSING before it is queued "so  *)
(* the detail page reflects that work is already in progress".  An email     *)
(* that is PROCESSING has a message, a worker or a request to show for it,   *)
(* whatever fails, unless what failed was a database call nobody repeats:    *)
(* the read a task or the finalize node begins with, or the save of FAILED   *)
(* after another error.  That email waits for the reset or a retry.          *)
ProcessingIsOwned ==
  \A e \in Emails :
    row[e].status = "processing" /\ ~row[e].dropped =>
      \/ \E m \in Message : m.email = e /\ queue[m] > 0
      \/ \E w \in Workers : msg[w] # None /\ msg[w].email = e
                            /\ pc[w] # "release"
      \/ \E c \in Clients : client[c].email = e
=============================================================================
