------------------------ MODULE EmailPipelineProofs ------------------------
(***************************************************************************)
(* Proofs about EmailPipeline, for any emails, workers, requests, faults   *)
(* and bounds.  The type invariant holds of every instance.  That the task *)
(* locks exclude a second run, and what follows from it, is proved for     *)
(* tasks that do not outlast their locks (MaxOverruns = 0); that the       *)
(* pipeline is a lifecycle, for runs that nothing disturbs (Calm); that an *)
(* email that is PROCESSING is in somebody's hands, for one worker         *)
(* (Single).                                                               *)
(***************************************************************************)
EXTENDS EmailPipeline, TLAPS

USE PipelineAssumption

(* What a process that is under way knows. *)
UnderWay ==
  /\ \A w \in Workers :
       /\ pc[w] # "idle" => msg[w] \in Message
       /\ pc[w] \in {"sync", "publish", "settle", "write", "rescue",
                    "rescueWrite"} => mem[w].target \in Emails
  /\ \A c \in Clients : client[c].pc # "idle" => client[c].email \in Emails
  /\ reset.pc = "write" => reset.email \in Emails

TypeInv == TypeOK /\ UnderWay

LEMMA TypeInit == Init => TypeInv
BY DEF Init, TypeInv, TypeOK, UnderWay, Row, Gone, WorkerPc, Mem, NoMem,
       NoClient, NoReset, Snapshot, Budget

(* Renewing updated_at changes nothing else of a row.                        *)
LEMMA RenewRow ==
  ASSUME TypeOK, NEW S \in SUBSET Emails, Renew(S)
  PROVE  /\ row' \in [Emails -> Row]
         /\ \A x \in Emails : /\ row'[x].status = row[x].status
                             /\ row'[x].synced = row[x].synced
                             /\ row'[x].dropped = row[x].dropped
<1>1. \A x \in Emails : row'[x] = row[x] \/ row'[x] = [row[x] EXCEPT !.age = 0]
  BY DEF Renew
<1>2. \A r \in Row : /\ [r EXCEPT !.age = 0] \in Row
                    /\ [r EXCEPT !.age = 0].status = r.status
                    /\ [r EXCEPT !.age = 0].synced = r.synced
                    /\ [r EXCEPT !.age = 0].dropped = r.dropped
  BY DEF Row
<1>3. \A x \in Emails : row[x] \in Row
  BY DEF TypeOK
<1>4. QED
  BY <1>1, <1>2, <1>3 DEF Renew

(* A write of the status keeps the rows well typed, and changes no other row *)
(* and no stored result.                                                     *)
LEMMA WriteStatusRow ==
  ASSUME row \in [Emails -> Row], NEW e \in Emails, NEW s \in Status \cup Gone,
         WriteStatus(e, s)
  PROVE  /\ row' \in [Emails -> Row]
         /\ \A x \in Emails :
              /\ row'[x].synced = row[x].synced
              /\ x = e => row'[x].status = s
              /\ x # e => row'[x] = row[x]
BY DEF WriteStatus, Row

LEMMA TouchRow ==
  ASSUME row \in [Emails -> Row], NEW e \in Emails, Touch(e)
  PROVE  /\ row' \in [Emails -> Row]
         /\ \A x \in Emails :
              /\ row'[x].synced = row[x].synced
              /\ row'[x].status = row[x].status
              /\ row'[x].dropped = row[x].dropped
BY DEF Touch, Row

(* An email whose step ended in a database error is excused from then on.    *)
LEMMA DropRow ==
  ASSUME row \in [Emails -> Row], NEW e \in Emails, Drop(e)
  PROVE  /\ row' \in [Emails -> Row]
         /\ \A x \in Emails :
              /\ row'[x].synced = row[x].synced
              /\ row'[x].status = row[x].status
              /\ row[x].dropped => row'[x].dropped
         /\ row'[e].status = "processing" => row'[e].dropped
BY DEF Drop, Row

LEMMA RetriedRow ==
  ASSUME row \in [Emails -> Row], NEW e \in Emails,
         row' = [row EXCEPT ![e].retried = TRUE]
  PROVE  /\ row' \in [Emails -> Row]
         /\ \A x \in Emails :
              /\ row'[x].synced = row[x].synced
              /\ row'[x].status = row[x].status
              /\ row'[x].dropped = row[x].dropped
BY DEF Row

LEMMA PutQueue ==
  ASSUME queue \in [Message -> 0..MaxCopies], NEW m \in Message, Put(m)
  PROVE  queue' \in [Message -> 0..MaxCopies]
BY DEF Put

LEMMA Messages ==
  /\ \A e \in Emails : Merge(e) \in Message /\ Workflow(e) \in Message
  /\ \A m \in Message : m.email \in Emails /\ m.task \in Task
  /\ \A m, n \in Message : m.task = n.task /\ m.email = n.email => m = n
BY DEF Merge, Workflow, Message, Task
-----------------------------------------------------------------------------
(* The type invariant: users, time and requests *)

LEMMA TypeUsers ==
  ASSUME TypeInv, NEW e \in Emails,
         Ingest(e) \/ Age(e) \/ Delete(e) \/ AdminReprocess(e)
  PROVE  TypeInv'
<1> USE DEF TypeInv, TypeOK, UnderWay, worker, others
<1>1. CASE Ingest(e)
  <2>1. row' \in [Emails -> Row]
    BY <1>1, WriteStatusRow DEF Ingest, Status
  <2>2. queue' \in [Message -> 0..MaxCopies]
    BY <1>1, PutQueue, Messages DEF Ingest
  <2>3. QED
    BY <1>1, <2>1, <2>2 DEF Ingest
<1>2. CASE Age(e)
  BY <1>2 DEF Age, Row
<1>3. CASE Delete(e)
  <2>1. row' \in [Emails -> Row]
    BY <1>3, WriteStatusRow DEF Delete, Gone
  <2>2. budget' \in Budget
    BY <1>3 DEF Delete, Budget
  <2>3. QED
    BY <1>3, <2>1, <2>2 DEF Delete
<1>4. CASE AdminReprocess(e)
  <2>1. budget' \in Budget
    BY <1>4 DEF AdminReprocess, Budget
  <2>2. queue' \in [Message -> 0..MaxCopies]
    BY <1>4, PutQueue, Messages DEF AdminReprocess
  <2>3. QED
    BY <1>4, <2>1, <2>2 DEF AdminReprocess
<1>5. QED
  BY <1>1, <1>2, <1>3, <1>4

LEMMA TypeClients ==
  ASSUME TypeInv, NEW c \in Clients,
         ClientStep(c) \/ ClientDies(c)
           \/ \E e \in Emails : RetryRead(c, e)
  PROVE  TypeInv'
<1> USE DEF TypeInv, TypeOK, UnderWay, worker, shared, NoClient
<1>1. ASSUME NEW e \in Emails, RetryRead(c, e) PROVE TypeInv'
  <2>1. row[e].status \in Status
    BY <1>1 DEF RetryRead, Present, Row
  <2>2. budget' \in Budget
    BY <1>1 DEF RetryRead, Budget
  <2>3. QED
    BY <1>1, <2>1, <2>2 DEF RetryRead
<1>2. CASE RetryMark(c)
  <2>1. row' \in [Emails -> Row]
    BY <1>2, WriteStatusRow, TouchRow DEF RetryMark, Status
  <2>2. QED
    BY <1>2, <2>1 DEF RetryMark
<1>3. CASE RetryQueue(c)
  <2>1. client[c].email \in Emails
    BY <1>3 DEF RetryQueue
  <2>2. CASE Put(Merge(client[c].email))
               /\ client' = [client EXCEPT ![c] = NoClient]
    <3>1. queue' \in [Message -> 0..MaxCopies]
      BY <2>1, <2>2, PutQueue, Messages
    <3>2. QED
      BY <1>3, <2>2, <3>1 DEF RetryQueue
  <2>3. CASE client' = [client EXCEPT ![c].pc = "undo"] /\ UNCHANGED queue
    BY <1>3, <2>3 DEF RetryQueue
  <2>4. QED
    BY <1>3, <2>2, <2>3 DEF RetryQueue
<1>4. CASE RetryUndo(c)
  <2>1. row' \in [Emails -> Row]
    BY <1>4, DropRow DEF RetryUndo
  <2>2. CASE client' = [client EXCEPT ![c] = NoClient]
    BY <1>4, <2>1, <2>2 DEF RetryUndo
  <2>3. CASE client' = [client EXCEPT ![c] =
               [pc |-> "undoWrite", email |-> client[c].email,
                seen |-> client[c].seen]]
    <3>1. client[c].email \in Emails /\ client[c].seen \in Status \cup {None}
      BY <1>4 DEF RetryUndo
    <3>2. QED
      BY <1>4, <2>1, <2>3, <3>1 DEF RetryUndo
  <2>4. QED
    BY <1>4, <2>2, <2>3 DEF RetryUndo
<1>5. CASE RetryUndoWrite(c)
  <2>1. row' \in [Emails -> Row]
    BY <1>5, WriteStatusRow, DropRow DEF RetryUndoWrite, Status
  <2>2. QED
    BY <1>5, <2>1 DEF RetryUndoWrite
<1>6. CASE ClientDies(c)
  <2>1. budget' \in Budget
    BY <1>6 DEF ClientDies, Budget
  <2>2. QED
    BY <1>6, <2>1 DEF ClientDies
<1>7. QED
  BY <1>1, <1>2, <1>3, <1>4, <1>5, <1>6 DEF ClientStep
-----------------------------------------------------------------------------
(* The type invariant: workers *)

LEMMA TypeTaking ==
  ASSUME TypeInv, NEW w \in Workers,
         \/ \E m \in Message : Take(w, m) \/ Skip(w, m)
         \/ Release(w) \/ Recycle(w)
  PROVE  TypeInv'
<1> USE DEF TypeInv, TypeOK, UnderWay, worker, shared, others, Goto
<1>1. ASSUME NEW m \in Message, Take(w, m) PROVE TypeInv'
  <2>1. queue' \in [Message -> 0..MaxCopies]
    BY <1>1 DEF Take
  <2>2. locks' \subseteq Message
    BY <1>1 DEF Take, AcquireLock
  <2>3. pc' \in [Workers -> WorkerPc]
    BY <1>1 DEF Take, WorkerPc
  <2>4. QED
    BY <1>1, <2>1, <2>2, <2>3 DEF Take
<1>2. ASSUME NEW m \in Message, Skip(w, m) PROVE TypeInv'
  BY <1>2 DEF Skip
<1>3. CASE Release(w)
  <2>1. NoMem \in Mem
    BY DEF NoMem, Mem
  <2>2. QED
    BY <1>3, <2>1 DEF Release, WorkerPc
<1>4. CASE Recycle(w)
  BY <1>4 DEF Recycle
<1>5. QED
  BY <1>1, <1>2, <1>3, <1>4

(* A worker that updates its memory leaves the memory of the others alone.   *)
LEMMA MemUpdates ==
  ASSUME mem \in [Workers -> Mem], NEW w \in Workers,
         \/ UNCHANGED mem
         \/ \E s \in Status : mem' = [mem EXCEPT ![w].seen = s]
         \/ \E x \in {"none", "system", "user"} :
              mem' = [mem EXCEPT ![w].err = x]
         \/ mem' = [mem EXCEPT ![w].charged = TRUE]
         \/ \E b \in BOOLEAN : mem' = [mem EXCEPT ![w].refunded = b]
         \/ \E t \in Emails \cup {None} : mem' = [mem EXCEPT ![w].target = t]
  PROVE  mem' \in [Workers -> Mem] /\ \A v \in Workers \ {w} : mem'[v] = mem[v]
<1>1. CASE UNCHANGED mem
  BY <1>1
<1>2. ASSUME NEW s \in Status, mem' = [mem EXCEPT ![w].seen = s]
      PROVE  mem' \in [Workers -> Mem]
  BY <1>2 DEF Mem
<1>3. ASSUME NEW x \in {"none", "system", "user"},
             mem' = [mem EXCEPT ![w].err = x]
      PROVE  mem' \in [Workers -> Mem]
  BY <1>3 DEF Mem
<1>4. ASSUME mem' = [mem EXCEPT ![w].charged = TRUE]
      PROVE  mem' \in [Workers -> Mem]
  BY <1>4 DEF Mem
<1>5. ASSUME NEW b \in BOOLEAN, mem' = [mem EXCEPT ![w].refunded = b]
      PROVE  mem' \in [Workers -> Mem]
  BY <1>5 DEF Mem
<1>6. ASSUME NEW t \in Emails \cup {None}, mem' = [mem EXCEPT ![w].target = t]
      PROVE  mem' \in [Workers -> Mem]
  BY <1>6 DEF Mem
<1>7. mem' \in [Workers -> Mem]
  BY <1>1, <1>2, <1>3, <1>4, <1>5, <1>6
<1>8. \A v \in Workers \ {w} : mem'[v] = mem[v]
  OBVIOUS
<1>9. QED
  BY <1>7, <1>8

(* A step of a busy worker: it moves to a label, and has a target when the   *)
(* label is one that writes to it.                                           *)
Targeted == {"sync", "publish", "settle", "write", "rescue", "rescueWrite"}

LEMMA WorkerMoves ==
  ASSUME TypeInv, NEW w \in Workers, pc[w] # "idle",
         NEW label \in WorkerPc, Goto(w, label),
         label \in Targeted => mem'[w].target \in Emails,
         mem' \in [Workers -> Mem],
         \A v \in Workers \ {w} : mem'[v] = mem[v],
         row' \in [Emails -> Row],
         queue' \in [Message -> 0..MaxCopies],
         node' \in [Workers -> Emails \cup {None}],
         event' \subseteq Emails,
         UNCHANGED <<msg, locks, others>>
  PROVE  TypeInv'
<1> USE DEF TypeInv, TypeOK, UnderWay
<1>1. pc' \in [Workers -> WorkerPc] /\ pc'[w] = label
  BY DEF Goto
<1>2. \A v \in Workers \ {w} : pc'[v] = pc[v]
  BY DEF Goto
<1>3. TypeOK'
  BY <1>1 DEF others
<1>4. UnderWay'
  BY <1>1, <1>2 DEF others, Targeted
<1>5. QED
  BY <1>3, <1>4

LEMMA TypeMerge ==
  ASSUME TypeInv, NEW w \in Workers,
         Reconcile(w) \/ EnqueueWorkflow(w) \/ MarkFailed(w)
  PROVE  TypeInv'
<1> DEFINE e == msg[w].email
<1>0. e \in Emails /\ pc[w] # "idle"
  BY Messages DEF Reconcile, EnqueueWorkflow, MarkFailed, TypeInv, UnderWay
<1>a. TypeOK
  BY DEF TypeInv
<1> HIDE DEF e
<1>1. CASE Reconcile(w)
  <2>1. \E label \in {"release", "enqueue", "markFailed"} : Goto(w, label)
    BY <1>1 DEF Reconcile
  <2>2. Present(e) => row[e].status \in Status
    BY <1>0, <1>a DEF Present, Row, TypeOK
  <2>3. mem' \in [Workers -> Mem] /\ \A v \in Workers \ {w} : mem'[v] = mem[v]
    BY <1>1, <1>a, <2>2, MemUpdates DEF Reconcile, TypeOK, e
  <2>4. row' \in [Emails -> Row]
    <3>1. UNCHANGED row \/ Drop(e) \/ \E S \in SUBSET Emails : Renew(S)
      BY <1>1 DEF Reconcile, e
    <3>2. QED
      BY <1>0, <1>a, <3>1, RenewRow, DropRow DEF TypeOK
  <2>5. QED
    BY <1>0, <1>1, <1>a, <2>1, <2>3, <2>4, WorkerMoves
    DEF Reconcile, TypeOK, shared, WorkerPc, Targeted
<1>2. CASE EnqueueWorkflow(w)
  <2>1. \E label \in {"release", "markFailed"} : Goto(w, label)
    BY <1>2 DEF EnqueueWorkflow
  <2>2. queue' \in [Message -> 0..MaxCopies]
    BY <1>0, <1>2, <1>a, PutQueue, Messages DEF EnqueueWorkflow, TypeOK, e
  <2>3. QED
    BY <1>0, <1>2, <1>a, <2>1, <2>2, WorkerMoves
    DEF EnqueueWorkflow, TypeOK, WorkerPc, Targeted
<1>3. CASE MarkFailed(w)
  <2>1. \E label \in {"release", "rescue"} : Goto(w, label)
    BY <1>3 DEF MarkFailed
  <2>2. /\ mem' \in [Workers -> Mem] /\ mem'[w].target = e
        /\ \A v \in Workers \ {w} : mem'[v] = mem[v]
    BY <1>0, <1>3, <1>a DEF MarkFailed, Mem, TypeOK, e
  <2>3. QED
    BY <1>0, <1>3, <1>a, <2>1, <2>2, WorkerMoves
    DEF MarkFailed, TypeOK, shared, WorkerPc
<1>4. QED
  BY <1>1, <1>2, <1>3

LEMMA TypeNodes ==
  ASSUME TypeInv, NEW w \in Workers,
         \/ StartWorkflow(w) \/ Prepare(w) \/ Credits(w) \/ Nodes(w)
         \/ ErrorHandler(w) \/ GraphFails(w)
  PROVE  TypeInv'
<1> DEFINE e == msg[w].email
<1>0. e \in Emails /\ pc[w] # "idle"
  BY Messages DEF StartWorkflow, Prepare, Credits, Nodes, ErrorHandler,
                  GraphFails, TypeInv, UnderWay
<1>a. TypeOK
  BY DEF TypeInv
<1> HIDE DEF e
<1>1. CASE StartWorkflow(w)
  <2>1. \E label \in {"prepare", "release"} : Goto(w, label)
    BY <1>1 DEF StartWorkflow
  <2>2. row' \in [Emails -> Row]
    BY <1>0, <1>1, <1>a, TouchRow, DropRow DEF StartWorkflow, TypeOK, e
  <2>3. QED
    BY <1>0, <1>1, <1>a, <2>1, <2>2, WorkerMoves
    DEF StartWorkflow, TypeOK, WorkerPc, Targeted
<1>2. CASE Prepare(w)
  <2>1. row' \in [Emails -> Row]
    <3>1. row[e].retried \in BOOLEAN
      BY <1>0, <1>a DEF TypeOK, Row
    <3>2. [status |-> "processing", age |-> 0, retried |-> row[e].retried,
           synced |-> FALSE, dropped |-> FALSE] \in Row
      BY <3>1 DEF Row, Status
    <3>3. QED
      BY <1>0, <1>2, <1>a, <3>2 DEF Prepare, TypeOK, e
  <2>2. mem' \in [Workers -> Mem] /\ \A v \in Workers \ {w} : mem'[v] = mem[v]
    BY <1>2, <1>a, MemUpdates DEF Prepare, TypeOK
  <2>3. QED
    BY <1>0, <1>2, <1>a, <2>1, <2>2, WorkerMoves
    DEF Prepare, TypeOK, WorkerPc, Targeted
<1>3. CASE Credits(w)
  <2>1. row' \in [Emails -> Row]
    BY <1>0, <1>3, <1>a, TouchRow DEF Credits, TypeOK, e
  <2>2. mem' \in [Workers -> Mem] /\ \A v \in Workers \ {w} : mem'[v] = mem[v]
    BY <1>3, <1>a, MemUpdates DEF Credits, TypeOK
  <2>3. QED
    BY <1>0, <1>3, <1>a, <2>1, <2>2, WorkerMoves
    DEF Credits, TypeOK, WorkerPc, Targeted
<1>4. CASE Nodes(w)
  <2>1. row' \in [Emails -> Row]
    BY <1>0, <1>4, <1>a, TouchRow DEF Nodes, TypeOK, e
  <2>2. mem' \in [Workers -> Mem] /\ \A v \in Workers \ {w} : mem'[v] = mem[v]
    BY <1>4, <1>a, MemUpdates DEF Nodes, TypeOK
  <2>3. \E label \in {"errorHandler", "load"} : Goto(w, label)
    BY <1>4 DEF Nodes, ShouldHandleError, Goto
  <2>4. QED
    BY <1>0, <1>4, <1>a, <2>1, <2>2, <2>3, WorkerMoves
    DEF Nodes, TypeOK, WorkerPc, Targeted
<1>5. CASE ErrorHandler(w)
  <2>1. mem' \in [Workers -> Mem] /\ \A v \in Workers \ {w} : mem'[v] = mem[v]
    <3>1. mem[w].charged \in BOOLEAN
      BY <1>a DEF TypeOK, Mem
    <3>2. \E b \in BOOLEAN : mem' = [mem EXCEPT ![w].refunded = b]
      BY <1>5, <3>1 DEF ErrorHandler, CanEnterNode
    <3>3. QED
      BY <1>a, <3>2, MemUpdates DEF TypeOK
  <2>2. QED
    BY <1>0, <1>5, <1>a, <2>1, WorkerMoves
    DEF ErrorHandler, TypeOK, shared, WorkerPc, Targeted
<1>6. CASE GraphFails(w)
  <2>0. mem' = [mem EXCEPT ![w].target = e]
    BY <1>6 DEF GraphFails, e
  <2>1. /\ mem' \in [Workers -> Mem] /\ mem'[w].target = e
        /\ \A v \in Workers \ {w} : mem'[v] = mem[v]
    <3>1. mem' \in [Workers -> Mem] /\ \A v \in Workers \ {w} : mem'[v] = mem[v]
      BY <1>0, <1>a, <2>0, MemUpdates DEF TypeOK
    <3>2. mem'[w].target = e
      BY <1>a, <2>0 DEF Mem, TypeOK
    <3>3. QED
      BY <3>1, <3>2
  <2>2. QED
    BY <1>0, <1>6, <1>a, <2>1, WorkerMoves
    DEF GraphFails, TypeOK, shared, WorkerPc
<1>7. QED
  BY <1>1, <1>2, <1>3, <1>4, <1>5, <1>6

LEMMA TypeFinalize ==
  ASSUME TypeInv, NEW w \in Workers,
         \/ Load(w) \/ Sync(w) \/ Publish(w) \/ Settle(w) \/ Write(w)
         \/ Rescue(w) \/ RescueWrite(w)
  PROVE  TypeInv'
<1> DEFINE e == msg[w].email
           t == mem[w].target
<1>0. e \in Emails /\ pc[w] # "idle"
  BY Messages DEF Load, Sync, Publish, Settle, Write, Rescue, RescueWrite,
                  TypeInv, UnderWay
<1>t. pc[w] \in Targeted => t \in Emails
  BY DEF TypeInv, UnderWay, Targeted
<1>a. TypeOK
  BY DEF TypeInv
<1> HIDE DEF e, t
<1>1. CASE Load(w)
  <2>1. row' \in [Emails -> Row]
    BY <1>0, <1>1, <1>a, TouchRow, DropRow DEF Load, TypeOK, e
  <2>2. node' \in [Workers -> Emails \cup {None}]
    BY <1>0, <1>1, <1>a DEF Load, TypeOK, e
  <2>3. mem' \in [Workers -> Mem] /\ \A v \in Workers \ {w} : mem'[v] = mem[v]
    <3>1. \E x \in Emails \cup {None} : mem' = [mem EXCEPT ![w].target = x]
      BY <1>0, <1>1, <1>a DEF Load, TypeOK, e
    <3>2. QED
      BY <1>a, <3>1, MemUpdates DEF TypeOK
  <2>4. CASE Goto(w, "release")
    BY <1>0, <1>1, <1>a, <2>1, <2>2, <2>3, <2>4, WorkerMoves
    DEF Load, TypeOK, WorkerPc, Targeted
  <2>5. ~Goto(w, "release") =>
          \E label \in {"rescue", "sync"} :
            Goto(w, label) /\ mem'[w].target \in Emails
    BY <1>0, <1>1, <1>a DEF Load, Mem, TypeOK, e
  <2>6. QED
    BY <1>0, <1>1, <1>a, <2>1, <2>2, <2>3, <2>4, <2>5, WorkerMoves
    DEF Load, TypeOK, WorkerPc
<1>2. CASE Sync(w)
  <2>1. row' \in [Emails -> Row]
    <3>1. row[e] \in Row
      BY <1>0, <1>a DEF TypeOK
    <3>2. [status |-> row[e].status, age |-> 0, retried |-> row[e].retried,
           synced |-> row[e].synced \/ mem[w].err = "none",
           dropped |-> row[e].dropped] \in Row
      BY <3>1 DEF Row
    <3>3. QED
      BY <1>0, <1>2, <1>a, <3>2 DEF Sync, TypeOK, e
  <2>2. \E label \in {"rescue", "publish", "settle"} : Goto(w, label)
    BY <1>2 DEF Sync, AfterSync
  <2>3. QED
    BY <1>0, <1>2, <1>a, <1>t, <2>1, <2>2, WorkerMoves
    DEF Sync, TypeOK, WorkerPc, Targeted, t
<1>3. CASE Publish(w)
  <2>1. event' \subseteq Emails
    BY <1>0, <1>3, <1>a DEF Publish, TypeOK, e
  <2>2. QED
    BY <1>0, <1>3, <1>a, <1>t, <2>1, WorkerMoves
    DEF Publish, TypeOK, WorkerPc, Targeted, t
<1>4. CASE Settle(w)
  <2>1. \E label \in {"write", "rescue"} : Goto(w, label)
    BY <1>4 DEF Settle
  <2>2. QED
    BY <1>0, <1>4, <1>a, <1>t, <2>1, WorkerMoves
    DEF Settle, TypeOK, shared, WorkerPc, Targeted, t
<1>5. CASE Write(w)
  <2>1. row' \in [Emails -> Row]
    <3>1. Verdict(w) \in Status /\ t \in Emails
      BY <1>5, <1>t DEF Write, Verdict, Status, Targeted
    <3>2. QED
      BY <1>5, <1>a, <3>1, WriteStatusRow DEF Write, TypeOK, t
  <2>2. \E label \in {"release", "rescue"} : Goto(w, label)
    BY <1>5 DEF Write
  <2>3. QED
    BY <1>0, <1>5, <1>a, <1>t, <2>1, <2>2, WorkerMoves
    DEF Write, TypeOK, WorkerPc, Targeted, t
<1>6. CASE Rescue(w)
  <2>1. \E label \in {"release", "rescueWrite"} : Goto(w, label)
    BY <1>6 DEF Rescue
  <2>2. row' \in [Emails -> Row]
    BY <1>6, <1>a, <1>t, DropRow DEF Rescue, TypeOK, Targeted, t
  <2>3. QED
    BY <1>0, <1>6, <1>a, <1>t, <2>1, <2>2, WorkerMoves
    DEF Rescue, TypeOK, WorkerPc, Targeted, t
<1>7. CASE RescueWrite(w)
  <2>1. row' \in [Emails -> Row]
    BY <1>7, <1>a, <1>t, WriteStatusRow, DropRow
    DEF RescueWrite, TypeOK, Status, Targeted, t
  <2>2. QED
    BY <1>0, <1>7, <1>a, <2>1, WorkerMoves
    DEF RescueWrite, TypeOK, WorkerPc, Targeted
<1>8. QED
  BY <1>1, <1>2, <1>3, <1>4, <1>5, <1>6, <1>7
-----------------------------------------------------------------------------
(* The type invariant: crashes, expiries, recovery and the reset *)

LEMMA TypeEnvironment ==
  ASSUME TypeInv,
         \/ \E w \in Workers : Crash(w)
         \/ \E m \in Message : Expire(m)
         \/ Recover
  PROVE  TypeInv'
<1> USE DEF TypeInv, TypeOK, UnderWay, worker
<1>1. ASSUME NEW w \in Workers, Crash(w) PROVE TypeInv'
  <2>1. queue' \in [Message -> 0..MaxCopies]
    BY <1>1, PutQueue DEF Crash
  <2>2. budget' \in Budget
    BY <1>1 DEF Crash, Budget
  <2>3. NoMem \in Mem
    BY DEF NoMem, Mem
  <2>4. QED
    BY <1>1, <2>1, <2>2, <2>3 DEF Crash, WorkerPc
<1>2. ASSUME NEW m \in Message, Expire(m) PROVE TypeInv'
  <2>1. budget' \in Budget
    BY <1>2 DEF Expire, Budget
  <2>2. QED
    BY <1>2, <2>1 DEF Expire
<1>3. CASE Recover
  <2>1. queue' \in [Message -> 0..MaxCopies]
    BY <1>3 DEF Recover
  <2>2. budget' \in Budget
    BY <1>3 DEF Recover, Budget
  <2>3. QED
    BY <1>3, <2>1, <2>2 DEF Recover
<1>4. QED
  BY <1>1, <1>2, <1>3

ResetType == [pc : {"idle", "loop", "write"}, todo : SUBSET Snapshot,
              email : Emails \cup {None}]

LEMMA TypeReset == TypeInv /\ ResetStep => TypeInv'
<1> SUFFICES ASSUME TypeInv, ResetStep PROVE TypeInv'
  OBVIOUS
<1> USE DEF TypeInv, TypeOK, UnderWay, worker, shared
<1>0. reset \in ResetType /\ reset.todo \subseteq Snapshot
  BY DEF ResetType
<1>a. \A todo \in SUBSET Snapshot :
        NextStuck(todo) \in ResetType /\ NextStuck(todo).pc # "write"
  BY DEF NextStuck, NoReset, ResetType
<1>b. NoReset \in ResetType /\ NoReset.pc = "idle"
  BY DEF NoReset, ResetType
<1>1. CASE ResetScan
  <2>1. {[email |-> e, status |-> row[e].status, retried |-> row[e].retried] :
           e \in {x \in Emails : IsStuck(x)}} \subseteq Snapshot
    BY DEF IsStuck, Snapshot, Row
  <2>2. QED
    BY <1>1, <2>1 DEF ResetScan
<1>2. ASSUME NEW x \in reset.todo, ResetRetries(x) PROVE TypeInv'
  <2>1. x.email \in Emails
    BY <1>0 DEF Snapshot
  <2>2. row' \in [Emails -> Row]
    <3>1. CASE UNCHANGED row
      BY <3>1
    <3>2. CASE row' = [row EXCEPT ![x.email].retried = TRUE]
      BY <2>1, <3>2, RetriedRow
    <3>3. QED
      BY <1>2, <3>1, <3>2 DEF ResetRetries
  <2>3. queue' \in [Message -> 0..MaxCopies]
    BY <1>2, <2>1, PutQueue, Messages DEF ResetRetries
  <2>4. reset' \in ResetType /\ reset'.pc # "write"
    BY <1>0, <1>2, <1>a, <1>b DEF ResetRetries
  <2>5. QED
    BY <1>2, <2>2, <2>3, <2>4 DEF ResetRetries, ResetType
<1>3. ASSUME NEW x \in reset.todo, ResetFails(x) PROVE TypeInv'
  <2>1. x.email \in Emails
    BY <1>0 DEF Snapshot
  <2>2. reset' \in ResetType /\ (reset'.pc = "write" => reset'.email \in Emails)
    BY <1>0, <1>3, <1>b, <2>1 DEF ResetFails, ResetType
  <2>3. QED
    BY <1>3, <2>2 DEF ResetFails, ResetType
<1>4. CASE ResetWrite
  <2>1. row' \in [Emails -> Row]
    BY <1>4 DEF ResetWrite, Row, Status
  <2>2. reset' \in ResetType /\ reset'.pc # "write"
    BY <1>0, <1>4, <1>a, <1>b DEF ResetWrite
  <2>3. QED
    BY <1>4, <2>1, <2>2 DEF ResetWrite, ResetType
<1>5. QED
  BY <1>1, <1>2, <1>3, <1>4 DEF ResetStep

LEMMA TypeStep == TypeInv /\ [Next]_vars => TypeInv'
<1>1. ASSUME TypeInv, Next PROVE TypeInv'
  BY <1>1, TypeUsers, TypeClients, TypeTaking, TypeMerge, TypeNodes,
     TypeFinalize, TypeEnvironment, TypeReset
  DEF Next, WorkerStep, Environment
<1>2. ASSUME TypeInv, UNCHANGED vars PROVE TypeInv'
  BY <1>2 DEF vars, TypeInv, TypeOK, UnderWay
<1>3. QED
  BY <1>1, <1>2

(* Every variable keeps its type, whatever races, fails or dies. *)
THEOREM PipelineTypeCorrect == Spec => []TypeOK
<1>1. TypeInv => TypeOK
  BY DEF TypeInv
<1>2. QED
  BY <1>1, TypeInit, TypeStep, PTL DEF Spec
-----------------------------------------------------------------------------
(* Mutual exclusion by the task locks *)

(* No task outlasts its lock. *)
NoOverruns == MaxOverruns = 0

(* A worker that runs a message holds its lock. *)
RunsHoldLocks == \A w \in Workers : msg[w] # None => msg[w] \in locks

LockInv == TypeInv /\ RunsHoldLocks /\ OneRunPerEmail

LEMMA LockInit == Init => LockInv
BY TypeInit DEF Init, LockInv, RunsHoldLocks, OneRunPerEmail

(* Only these four actions touch a lock or the message of a worker. *)
LEMMA LockActions ==
  Next => \/ UNCHANGED <<msg, locks>>
          \/ \E w \in Workers, m \in Message : Take(w, m)
          \/ \E w \in Workers : Release(w) \/ Crash(w)
          \/ \E m \in Message : Expire(m)
BY DEF Next, WorkerStep, ClientStep, ResetStep, Environment,
       Ingest, Age, Delete, AdminReprocess,
       RetryRead, RetryMark, RetryQueue, RetryUndo, RetryUndoWrite, ClientDies,
       Skip, Recycle, Reconcile, EnqueueWorkflow, MarkFailed, StartWorkflow,
       Prepare, Credits, Nodes, ErrorHandler, GraphFails,
       Load, Sync, Publish, Settle, Write, Rescue, RescueWrite, Recover,
       ResetScan, ResetRetries, ResetFails, ResetWrite,
       shared, worker

LEMMA LockStep == NoOverruns /\ LockInv /\ [Next]_vars => LockInv'
<1> SUFFICES ASSUME NoOverruns, LockInv, [Next]_vars PROVE LockInv'
  OBVIOUS
<1> USE DEF LockInv, RunsHoldLocks, OneRunPerEmail
<1>0. TypeInv'
  BY TypeStep
<1>t. msg \in [Workers -> Message \cup {None}] /\ None \notin Message
  BY DEF TypeInv, TypeOK
<1>1. CASE UNCHANGED <<msg, locks>>
  BY <1>0, <1>1
<1>2. ASSUME NEW w \in Workers, NEW m \in Message, Take(w, m) PROVE LockInv'
  <2>1. m \notin locks /\ locks' = locks \cup {m} /\ msg' = [msg EXCEPT ![w] = m]
    BY <1>2 DEF Take, AcquireLock
  <2>2. QED
    BY <1>0, <1>t, <2>1
<1>3. ASSUME NEW w \in Workers, Release(w) PROVE LockInv'
  <2>1. locks' = locks \ {msg[w]} /\ msg' = [msg EXCEPT ![w] = None]
    BY <1>3 DEF Release
  <2>2. QED
    BY <1>0, <1>t, <2>1
<1>4. ASSUME NEW w \in Workers, Crash(w) PROVE LockInv'
  <2>1. locks' = locks /\ msg' = [msg EXCEPT ![w] = None]
    BY <1>4 DEF Crash
  <2>2. QED
    BY <1>0, <1>t, <2>1
<1>5. ASSUME NEW m \in Message, Expire(m) PROVE LockInv'
  <2>1. locks' = locks \ {m} /\ msg' = msg
    BY <1>5 DEF Expire, worker
  <2>2. \A w \in Workers : msg[w] # m
    BY <1>5 DEF Expire, NoOverruns, TypeInv, TypeOK, Budget
  <2>3. QED
    BY <1>0, <1>t, <2>1, <2>2
<1>6. CASE UNCHANGED vars
  BY <1>1, <1>6 DEF vars
<1>7. QED
  BY <1>1, <1>2, <1>3, <1>4, <1>5, <1>6, LockActions

(* As long as no task outlasts its lock, two workers never run the same task *)
(* for the same email: not with duplicated or redelivered messages, crashes, *)
(* stale locks, recovery or the reset (prevent_duplicate_task).              *)
THEOREM LocksExclude ==
  ASSUME NoOverruns
  PROVE  Spec => []OneRunPerEmail
<1>1. LockInv => OneRunPerEmail
  BY DEF LockInv
<1>2. LockInv /\ [Next]_vars => LockInv'
  BY LockStep
<1>3. QED
  BY <1>1, <1>2, LockInit, PTL DEF Spec
-----------------------------------------------------------------------------
(* The results of a run are stored before its verdict *)

WorkflowPc == {"start", "prepare", "credits", "nodes", "errorHandler", "load",
               "sync", "publish", "settle", "write"}

(* A worker in a node runs a workflow; in the finalize node it is about its  *)
(* own email; past the sync of a run without errors, the results of that     *)
(* email are stored.  The last holds as no other run may begin meanwhile.    *)
RunInv ==
  \A w \in Workers :
    /\ pc[w] \in WorkflowPc => msg[w].task = "workflow"
    /\ pc[w] \in {"sync", "publish", "settle", "write"} =>
         mem[w].target = msg[w].email
    /\ pc[w] = "publish" => mem[w].err = "none"
    /\ pc[w] \in {"publish", "settle", "write"} /\ mem[w].err = "none" =>
         row[msg[w].email].synced

ResultsInv == LockInv /\ RunInv /\ SuccessHasResults

LEMMA ResultsInit == Init => ResultsInv
BY LockInit DEF Init, ResultsInv, RunInv, SuccessHasResults, WorkflowPc

RowsKept ==
  \A e \in Emails :
    /\ row'[e].synced = row[e].synced
    /\ row'[e].status = "success" => row[e].status = "success"

(* A step that neither moves a worker into a node nor makes an email a       *)
(* SUCCESS nor forgets a result.                                             *)
LEMMA ResultsKept ==
  ASSUME ResultsInv, LockInv',
         \A w \in Workers :
           \/ pc'[w] \notin WorkflowPc
           \/ pc'[w] = pc[w] /\ msg'[w] = msg[w] /\ mem'[w] = mem[w],
         RowsKept
  PROVE  ResultsInv'
<1> USE DEF ResultsInv
<1>1. \A w \in Workers : pc[w] \in WorkflowPc => msg[w].email \in Emails
  BY Messages DEF LockInv, TypeInv, UnderWay, WorkflowPc
<1>2. RunInv'
  BY <1>1 DEF RunInv, RowsKept, WorkflowPc
<1>3. SuccessHasResults'
  BY DEF SuccessHasResults, RowsKept
<1>4. QED
  BY <1>2, <1>3

(* The same for one worker w that goes on in its workflow to a label before  *)
(* the sync.                                                                 *)
LEMMA ResultsEarly ==
  ASSUME ResultsInv, LockInv', NEW w \in Workers,
         NEW label \in WorkflowPc \ {"sync", "publish", "settle", "write"},
         Goto(w, label), msg'[w] \in Message, msg'[w].task = "workflow",
         \A v \in Workers \ {w} : msg'[v] = msg[v] /\ mem'[v] = mem[v],
         RowsKept
  PROVE  ResultsInv'
<1> USE DEF ResultsInv
<1>0. pc'[w] = label /\ \A v \in Workers \ {w} : pc'[v] = pc[v]
  BY DEF Goto, LockInv, TypeInv, TypeOK
<1>1. \A v \in Workers : pc[v] \in WorkflowPc => msg[v].email \in Emails
  BY Messages DEF LockInv, TypeInv, UnderWay, WorkflowPc
<1>2. RunInv'
  BY <1>0, <1>1 DEF RunInv, RowsKept, WorkflowPc
<1>3. SuccessHasResults'
  BY DEF SuccessHasResults, RowsKept
<1>4. QED
  BY <1>2, <1>3

LEMMA ResultsOutside ==
  ASSUME ResultsInv, LockInv',
         \/ \E e \in Emails : Ingest(e) \/ Age(e) \/ Delete(e) \/ AdminReprocess(e)
         \/ \E c \in Clients : ClientStep(c) \/ ClientDies(c)
         \/ \E c \in Clients, e \in Emails : RetryRead(c, e)
         \/ ResetStep \/ Recover
         \/ \E m \in Message : Expire(m)
  PROVE  ResultsInv'
<1> USE DEF worker, shared
<1>0. row \in [Emails -> Row] /\ UnderWay
  BY DEF ResultsInv, LockInv, TypeInv, TypeOK
<1>r. reset.todo \subseteq Snapshot
  BY DEF ResultsInv, LockInv, TypeInv, TypeOK
<1>1. UNCHANGED <<pc, msg, mem>>
  BY DEF Ingest, Age, Delete, AdminReprocess, ClientStep, ClientDies, RetryRead,
         RetryMark, RetryQueue, RetryUndo, RetryUndoWrite, ResetStep,
         ResetScan, ResetRetries, ResetFails, ResetWrite, Recover, Expire
<1>u. UNCHANGED row => RowsKept
  BY DEF RowsKept
<1>w. ASSUME NEW e \in Emails,
             NEW s \in {"fetched", "processing", "failed", "deleted"},
             WriteStatus(e, s)
      PROVE  RowsKept
  BY <1>0, <1>w, WriteStatusRow DEF RowsKept, Status, Gone
<1>2. ASSUME NEW e \in Emails,
             Ingest(e) \/ Age(e) \/ Delete(e) \/ AdminReprocess(e)
      PROVE  RowsKept
  <2>1. CASE Age(e)
    BY <1>0, <2>1 DEF Age, Row, RowsKept
  <2>2. QED
    BY <1>2, <1>u, <1>w, <2>1 DEF Ingest, Delete, AdminReprocess
<1>3. ASSUME NEW c \in Clients, ClientStep(c) PROVE RowsKept
  <2>1. client[c].email \in Emails
    BY <1>0, <1>3 DEF UnderWay, ClientStep, RetryMark, RetryQueue, RetryUndo,
                      RetryUndoWrite
  <2>2. Touch(client[c].email) \/ Drop(client[c].email) => RowsKept
    BY <1>0, <2>1, TouchRow, DropRow DEF RowsKept
  <2>3. QED
    BY <1>3, <1>u, <1>w, <2>1, <2>2
    DEF ClientStep, RetryMark, RetryQueue, RetryUndo, RetryUndoWrite
<1>4. ASSUME ResetStep PROVE RowsKept
  <2>1. ASSUME NEW x \in reset.todo, ResetRetries(x) PROVE RowsKept
    <3>1. x.email \in Emails
      BY <1>r DEF Snapshot
    <3>2. row' = [row EXCEPT ![x.email].retried = TRUE] => RowsKept
      BY <1>0, <3>1, RetriedRow DEF RowsKept
    <3>3. QED
      BY <1>u, <2>1, <3>2 DEF ResetRetries
  <2>2. CASE ResetWrite
    <3>1. reset.email \in Emails
      BY <1>0, <2>2 DEF UnderWay, ResetWrite
    <3>2. row' = [row EXCEPT ![reset.email].status = "failed"] => RowsKept
      BY <1>0, <3>1 DEF RowsKept, Row
    <3>3. UNCHANGED row \/ row' = [row EXCEPT ![reset.email].status = "failed"]
      BY <2>2 DEF ResetWrite
    <3>4. QED
      BY <1>u, <3>2, <3>3
  <2>3. ASSUME ResetScan \/ \E x \in reset.todo : ResetFails(x)
        PROVE  UNCHANGED row
    BY <2>3 DEF ResetScan, ResetFails
  <2>4. QED
    BY <1>4, <1>u, <2>1, <2>2, <2>3 DEF ResetStep
<1>5. ASSUME \/ \E c \in Clients : ClientDies(c)
             \/ \E c \in Clients, e \in Emails : RetryRead(c, e)
             \/ Recover
             \/ \E m \in Message : Expire(m)
      PROVE  UNCHANGED row
  BY <1>5 DEF ClientDies, RetryRead, Recover, Expire
<1>6. RowsKept
  BY <1>2, <1>3, <1>4, <1>5, <1>u
<1>7. QED
  BY <1>1, <1>6, ResultsKept

LEMMA ResultsLeaving ==
  ASSUME ResultsInv, LockInv', NEW w \in Workers,
         \/ \E m \in Message : Skip(w, m)
         \/ Release(w) \/ Recycle(w) \/ Crash(w)
         \/ Reconcile(w) \/ EnqueueWorkflow(w) \/ MarkFailed(w)
         \/ GraphFails(w) \/ Rescue(w) \/ RescueWrite(w)
  PROVE  ResultsInv'
<1> USE DEF worker, shared
<1>0. TypeOK /\ UnderWay
  BY DEF ResultsInv, LockInv, TypeInv
<1>1. \A v \in Workers :
        \/ pc'[v] \notin WorkflowPc
        \/ pc'[v] = pc[v] /\ msg'[v] = msg[v] /\ mem'[v] = mem[v]
  BY <1>0 DEF Skip, Release, Recycle, Crash, Reconcile, EnqueueWorkflow,
              MarkFailed, GraphFails, Rescue, RescueWrite, Goto, WorkflowPc,
              TypeOK
<1>2. RowsKept
  <2>1. CASE UNCHANGED row
    BY <2>1 DEF RowsKept
  <2>2. CASE RescueWrite(w)
    <3>1. mem[w].target \in Emails
      BY <1>0, <2>2 DEF UnderWay, RescueWrite
    <3>2. WriteStatus(mem[w].target, "failed") => RowsKept
      BY <1>0, <3>1, WriteStatusRow DEF TypeOK, RowsKept, Status
    <3>3. Drop(mem[w].target) => RowsKept
      BY <1>0, <3>1, DropRow DEF TypeOK, RowsKept
    <3>4. QED
      BY <2>1, <2>2, <3>2, <3>3 DEF RescueWrite
  <2>3. CASE Reconcile(w)
    <3>1. \/ UNCHANGED row \/ Drop(msg[w].email)
          \/ \E S \in SUBSET Emails : Renew(S)
      BY <2>3 DEF Reconcile
    <3>2. msg[w].email \in Emails
      BY <1>0, <2>3, Messages DEF Reconcile, UnderWay
    <3>3. QED
      BY <1>0, <2>1, <3>1, <3>2, RenewRow, DropRow DEF RowsKept, TypeOK
  <2>4. CASE Rescue(w)
    BY <1>0, <2>1, <2>4, DropRow DEF Rescue, RowsKept, UnderWay, TypeOK
  <2>5. QED
    BY <2>1, <2>2, <2>3, <2>4 DEF Skip, Release, Recycle, Crash,
                                  EnqueueWorkflow, MarkFailed, GraphFails
<1>3. QED
  BY <1>1, <1>2, ResultsKept

LEMMA ResultsBefore ==
  ASSUME ResultsInv, LockInv', NEW w \in Workers,
         \/ \E m \in Message : Take(w, m)
         \/ StartWorkflow(w) \/ Credits(w) \/ Nodes(w) \/ ErrorHandler(w)
  PROVE  ResultsInv'
<1> USE DEF worker, shared
<1>0. TypeOK /\ UnderWay
  BY DEF ResultsInv, LockInv, TypeInv
<1>m. \A v \in Workers : pc[v] \in WorkflowPc =>
        msg[v] \in Message /\ msg[v].task = "workflow" /\ msg[v].email \in Emails
  BY <1>0, Messages DEF ResultsInv, RunInv, UnderWay, WorkflowPc
<1>u. UNCHANGED row => RowsKept
  BY DEF RowsKept
<1>t. ASSUME pc[w] \in WorkflowPc, Touch(msg[w].email) PROVE RowsKept
  BY <1>0, <1>m, <1>t, TouchRow DEF TypeOK, RowsKept
<1>1. ASSUME NEW m \in Message, Take(w, m) PROVE ResultsInv'
  <2>1. /\ msg' = [msg EXCEPT ![w] = m] /\ mem' = mem /\ UNCHANGED row
        /\ Goto(w, IF m.task = "merge" THEN "reconcile" ELSE "start")
    BY <1>1 DEF Take
  <2>2. msg'[w] = m /\ \A v \in Workers \ {w} : msg'[v] = msg[v]
    BY <1>0, <2>1 DEF TypeOK
  <2>3. CASE m.task = "merge"
    <3>1. \A v \in Workers :
            \/ pc'[v] \notin WorkflowPc
            \/ pc'[v] = pc[v] /\ msg'[v] = msg[v] /\ mem'[v] = mem[v]
      BY <1>0, <2>1, <2>2, <2>3 DEF TypeOK, Goto, WorkflowPc
    <3>2. QED
      BY <1>u, <2>1, <3>1, ResultsKept
  <2>4. CASE m.task = "workflow"
    <3>1. Goto(w, "start")
      BY <2>1, <2>4
    <3>2. QED
      BY <1>u, <2>1, <2>2, <2>4, <3>1, ResultsEarly DEF WorkflowPc
  <2>5. QED
    BY <2>3, <2>4, Messages DEF Task
<1>2. CASE StartWorkflow(w)
  <2>1. pc[w] \in WorkflowPc /\ RowsKept
    BY <1>0, <1>2, <1>m, <1>t, DropRow
    DEF StartWorkflow, WorkflowPc, RowsKept, TypeOK
  <2>2. CASE Goto(w, "prepare")
    BY <1>2, <1>m, <2>1, <2>2, ResultsEarly DEF StartWorkflow, WorkflowPc
  <2>3. CASE Goto(w, "release")
    <3>1. \A v \in Workers : pc'[v] \notin WorkflowPc \/ pc'[v] = pc[v]
      BY <1>0, <2>3 DEF TypeOK, Goto, WorkflowPc
    <3>2. QED
      BY <1>2, <2>1, <3>1, ResultsKept DEF StartWorkflow
  <2>4. QED
    BY <1>2, <2>2, <2>3 DEF StartWorkflow
<1>3. CASE Credits(w)
  <2>1. pc[w] \in WorkflowPc /\ RowsKept
    BY <1>3, <1>t, <1>u DEF Credits, WorkflowPc
  <2>2. \A v \in Workers \ {w} : mem'[v] = mem[v]
    BY <1>0, <1>3 DEF Credits, TypeOK
  <2>3. QED
    BY <1>3, <1>m, <2>1, <2>2, ResultsEarly DEF Credits, WorkflowPc
<1>4. CASE Nodes(w)
  <2>1. pc[w] \in WorkflowPc /\ RowsKept
    BY <1>4, <1>t, <1>u DEF Nodes, WorkflowPc
  <2>2. \A v \in Workers \ {w} : mem'[v] = mem[v]
    BY <1>0, <1>4 DEF Nodes, TypeOK
  <2>3. \E label \in {"errorHandler", "load"} : Goto(w, label)
    BY <1>4 DEF Nodes, ShouldHandleError
  <2>4. QED
    BY <1>4, <1>m, <2>1, <2>2, <2>3, ResultsEarly DEF Nodes, WorkflowPc
<1>5. CASE ErrorHandler(w)
  <2>1. pc[w] \in WorkflowPc /\ RowsKept
    BY <1>5, <1>u DEF ErrorHandler, WorkflowPc
  <2>2. \A v \in Workers \ {w} : mem'[v] = mem[v]
    BY <1>0, <1>5 DEF ErrorHandler, TypeOK
  <2>3. QED
    BY <1>5, <1>m, <2>1, <2>2, ResultsEarly DEF ErrorHandler, WorkflowPc
<1>6. QED
  BY <1>1, <1>2, <1>3, <1>4, <1>5

(* Prepare forgets the results of an earlier run.  No other worker is past   *)
(* the sync of this email: it would run the same message.                    *)
LEMMA ResultsPrepare ==
  ASSUME ResultsInv, LockInv', NEW w \in Workers, Prepare(w)
  PROVE  ResultsInv'
<1> USE DEF worker, shared
<1>0. TypeOK /\ UnderWay /\ OneRunPerEmail /\ RunInv /\ SuccessHasResults
  BY DEF ResultsInv, LockInv, TypeInv
<1>m. \A v \in Workers : pc[v] \in WorkflowPc =>
        msg[v] \in Message /\ msg[v].task = "workflow" /\ msg[v].email \in Emails
  BY <1>0, Messages DEF RunInv, UnderWay, WorkflowPc
<1>w. pc[w] \in WorkflowPc /\ msg' = msg
  BY DEF Prepare, WorkflowPc
<1>1. \A v \in Workers \ {w} : pc[v] \in WorkflowPc =>
        msg[v].email # msg[w].email
  BY <1>0, <1>m, <1>w, Messages DEF OneRunPerEmail
<1>2. /\ pc'[w] = "credits"
      /\ \A v \in Workers \ {w} : pc'[v] = pc[v] /\ mem'[v] = mem[v]
  BY <1>0 DEF Prepare, Goto, TypeOK
<1>3. \A e \in Emails \ {msg[w].email} : row'[e] = row[e]
  BY <1>0, <1>m, <1>w DEF Prepare, TypeOK
<1>4. row'[msg[w].email].status = "success" =>
        row'[msg[w].email] = row[msg[w].email]
  BY <1>0, <1>m, <1>w DEF Prepare, TypeOK
<1>5. RunInv'
  BY <1>0, <1>m, <1>w, <1>1, <1>2, <1>3 DEF RunInv, WorkflowPc
<1>6. SuccessHasResults'
  BY <1>0, <1>3, <1>4 DEF SuccessHasResults
<1>7. QED
  BY <1>5, <1>6 DEF ResultsInv

LEMMA ResultsFinalize ==
  ASSUME ResultsInv, LockInv', NEW w \in Workers,
         Load(w) \/ Sync(w) \/ Publish(w) \/ Settle(w) \/ Write(w)
  PROVE  ResultsInv'
<1> USE DEF worker, shared
<1>0. TypeOK /\ UnderWay /\ RunInv /\ SuccessHasResults
  BY DEF ResultsInv, LockInv, TypeInv
<1>m. \A v \in Workers : pc[v] \in WorkflowPc =>
        msg[v].task = "workflow" /\ msg[v].email \in Emails
  BY <1>0, Messages DEF RunInv, UnderWay, WorkflowPc
<1>w. pc[w] \in WorkflowPc /\ msg' = msg
  BY DEF Load, Sync, Publish, Settle, Write, WorkflowPc
<1>p. \A v \in Workers \ {w} : pc'[v] = pc[v] /\ mem'[v] = mem[v]
  BY <1>0 DEF Load, Sync, Publish, Settle, Write, Goto, TypeOK
<1>k. ASSUME RowsKept
      PROVE  /\ SuccessHasResults'
             /\ \A e \in Emails : row[e].synced => row'[e].synced
  BY <1>0, <1>k DEF RowsKept, SuccessHasResults
<1>u. UNCHANGED row => RowsKept
  BY DEF RowsKept
<1> DEFINE OwnRun ==
      /\ pc'[w] \in {"sync", "publish", "settle", "write"} =>
           mem'[w].target = msg[w].email
      /\ pc'[w] = "publish" => mem'[w].err = "none"
      /\ pc'[w] \in {"publish", "settle", "write"} /\ mem'[w].err = "none" =>
           row'[msg[w].email].synced
<1>f. ASSUME OwnRun, \A e \in Emails : row[e].synced => row'[e].synced
      PROVE  RunInv'
  BY <1>0, <1>f, <1>m, <1>w, <1>p DEF RunInv, WorkflowPc
<1> HIDE DEF OwnRun
<1>1. CASE Load(w)
  <2>1. RowsKept
    BY <1>0, <1>1, <1>m, <1>w, TouchRow, DropRow DEF Load, TypeOK, RowsKept
  <2>2. CASE Goto(w, "sync") /\ mem' = [mem EXCEPT ![w].target = msg[w].email]
    BY <1>0, <1>f, <1>k, <2>1, <2>2 DEF OwnRun, Goto, TypeOK, Mem, ResultsInv
  <2>3. CASE pc'[w] \in {"release", "rescue"}
    BY <1>f, <1>k, <2>1, <2>3 DEF OwnRun, ResultsInv
  <2>4. QED
    BY <1>0, <1>1, <2>2, <2>3 DEF Load, Goto, TypeOK
<1>2. CASE Sync(w)
  <2>1. mem[w].target = msg[w].email
    BY <1>0, <1>2 DEF Sync, RunInv
  <2>2. CASE Goto(w, "rescue") /\ UNCHANGED row
    BY <1>0, <1>f, <1>k, <1>u, <2>2 DEF OwnRun, Goto, TypeOK, ResultsInv
  <2>3. CASE /\ row' = [row EXCEPT ![msg[w].email] =
                  [status |-> row[msg[w].email].status, age |-> 0,
                   retried |-> row[msg[w].email].retried,
                   synced |-> row[msg[w].email].synced
                                \/ mem[w].err = "none",
                   dropped |-> row[msg[w].email].dropped]]
             /\ Goto(w, AfterSync(mem[w].err))
    <3>1. \A e \in Emails : /\ row'[e].status = row[e].status
                            /\ row[e].synced => row'[e].synced
      BY <1>0, <1>m, <1>w, <2>3 DEF TypeOK
    <3>2. mem[w].err = "none" => row'[msg[w].email].synced
      BY <1>0, <1>m, <1>w, <2>3 DEF TypeOK
    <3>3. pc'[w] = AfterSync(mem[w].err) /\ mem' = mem
      BY <1>0, <1>2, <2>3 DEF Sync, Goto, TypeOK
    <3>4. OwnRun
      BY <2>1, <3>2, <3>3 DEF OwnRun, AfterSync
    <3>5. SuccessHasResults'
      BY <1>0, <3>1 DEF SuccessHasResults
    <3>6. QED
      BY <1>f, <3>1, <3>4, <3>5 DEF ResultsInv
  <2>4. QED
    BY <1>2, <2>2, <2>3 DEF Sync
<1>3. CASE Publish(w)
  BY <1>0, <1>3, <1>f, <1>k, <1>u
  DEF Publish, OwnRun, RunInv, Goto, TypeOK, ResultsInv
<1>4. CASE Settle(w)
  <2>1. pc'[w] \in {"write", "rescue"}
    BY <1>0, <1>4 DEF Settle, Goto, TypeOK
  <2>2. QED
    BY <1>0, <1>4, <1>f, <1>k, <1>u, <2>1
    DEF Settle, OwnRun, RunInv, ResultsInv
<1>5. CASE Write(w)
  <2>1. pc'[w] \in {"release", "rescue"}
    BY <1>0, <1>5 DEF Write, Goto, TypeOK
  <2>2. CASE UNCHANGED row
    BY <1>f, <1>k, <1>u, <2>1, <2>2 DEF OwnRun, ResultsInv
  <2>3. CASE WriteStatus(msg[w].email, Verdict(w))
    <3>1. Verdict(w) \in Status
      BY DEF Verdict, Status
    <3>2. \A e \in Emails :
            /\ row'[e].synced = row[e].synced
            /\ e = msg[w].email => row'[e].status = Verdict(w)
            /\ e # msg[w].email => row'[e] = row[e]
      BY <1>0, <1>m, <1>w, <2>3, <3>1, WriteStatusRow DEF TypeOK
    <3>3. Verdict(w) = "success" => row[msg[w].email].synced
      BY <1>0, <1>5 DEF Verdict, Write, RunInv
    <3>4. SuccessHasResults'
      BY <1>0, <3>2, <3>3 DEF SuccessHasResults
    <3>5. QED
      BY <1>f, <2>1, <3>2, <3>4 DEF OwnRun, ResultsInv
  <2>4. QED
    BY <1>0, <1>5, <2>2, <2>3 DEF Write, RunInv
<1>6. QED
  BY <1>1, <1>2, <1>3, <1>4, <1>5

LEMMA ResultsStep == NoOverruns /\ ResultsInv /\ [Next]_vars => ResultsInv'
<1> SUFFICES ASSUME NoOverruns, ResultsInv, [Next]_vars PROVE ResultsInv'
  OBVIOUS
<1>1. LockInv'
  BY LockStep DEF ResultsInv
<1>2. CASE Next
  BY <1>1, <1>2, ResultsOutside, ResultsLeaving, ResultsBefore,
     ResultsPrepare, ResultsFinalize
  DEF Next, WorkerStep, Environment
<1>3. CASE UNCHANGED vars
  <2>1. RowsKept /\ UNCHANGED <<pc, msg, mem>>
    BY <1>3 DEF RowsKept, vars
  <2>2. QED
    BY <1>1, <2>1, ResultsKept
<1>4. QED
  BY <1>2, <1>3

(* A SUCCESS has the results of the run that started last in the database,   *)
(* whatever the reset, retries, crashes and redeliveries did, as long as no  *)
(* task outlasts its lock (workflow_finalize syncs before set_status).       *)
THEOREM SuccessIsBacked ==
  ASSUME NoOverruns
  PROVE  Spec => []SuccessHasResults
<1>1. ResultsInv => SuccessHasResults
  BY DEF ResultsInv
<1>2. ResultsInv /\ [Next]_vars => ResultsInv'
  BY ResultsStep
<1>3. QED
  BY <1>1, <1>2, ResultsInit, PTL DEF Spec

LEMMA OnlyPublishPublishes ==
  [Next]_vars => UNCHANGED event \/ \E w \in Workers : Publish(w)
BY DEF Next, vars, WorkerStep, ClientStep, ResetStep, Environment,
       Ingest, Age, Delete, AdminReprocess,
       RetryRead, RetryMark, RetryQueue, RetryUndo, RetryUndoWrite, ClientDies,
       Take, Skip, Release, Crash, Expire,
       Recycle, Reconcile, EnqueueWorkflow, MarkFailed, StartWorkflow,
       Prepare, Credits, Nodes, ErrorHandler, GraphFails,
       Load, Sync, Settle, Write, Rescue, RescueWrite, Recover,
       ResetScan, ResetRetries, ResetFails, ResetWrite,
       shared, worker

(* The relay hears of an email only when the results of the run that         *)
(* publishes are in the database (workflow_finalize syncs before it calls    *)
(* _publish_relay_event).                                                    *)
THEOREM AnnouncementsAreBacked ==
  ASSUME NoOverruns
  PROVE  Spec => AnnouncesStoredResults
<1>1. ResultsInv /\ [Next]_vars =>
        [\A e \in event' \ event : row[e].synced]_vars
  <2> SUFFICES ASSUME ResultsInv, [Next]_vars, NEW e \in event' \ event
               PROVE  row[e].synced
    OBVIOUS
  <2>1. PICK w \in Workers : Publish(w)
    BY OnlyPublishPublishes
  <2>2. e = msg[w].email
    BY <2>1 DEF Publish
  <2>3. QED
    BY <2>1, <2>2 DEF Publish, ResultsInv, RunInv
<1>2. ResultsInv /\ [Next]_vars => ResultsInv'
  BY ResultsStep
<1>3. QED
  BY <1>1, <1>2, ResultsInit, PTL DEF Spec, AnnouncesStoredResults
-----------------------------------------------------------------------------
(* Who an email can be waiting for *)

Known(e) == row[e].status # "unfetched"

(* Whatever waits or works is about an email that was saved.                 *)
AllKnown ==
  /\ \A m \in Message : queue[m] > 0 => Known(m.email)
  /\ \A w \in Workers : msg[w] # None => Known(msg[w].email)
  /\ \A c \in Clients : client[c].pc # "idle" => Known(client[c].email)
  /\ \A x \in reset.todo : Known(x.email)
  /\ MaxDeletes = 0 => \A e \in Emails : row[e].status # "deleted"

SameStatus == \A e \in Emails : row'[e].status = row[e].status
SameSynced == \A e \in Emails : row'[e].synced = row[e].synced

DropsKept == \A e \in Emails : row[e].dropped => row'[e].dropped

(* Only these actions change a status or forget a database error.            *)
LEMMA StatusActions ==
  ASSUME TypeInv, Next
  PROVE  \/ SameStatus /\ DropsKept
         \/ \E e \in Emails : Ingest(e) \/ Delete(e)
         \/ \E c \in Clients : RetryMark(c) \/ RetryUndoWrite(c)
         \/ \E w \in Workers : Prepare(w) \/ Write(w) \/ RescueWrite(w)
         \/ ResetWrite
<1> USE DEF worker, shared, others
<1>0. row \in [Emails -> Row] /\ UnderWay /\ reset.todo \subseteq Snapshot
  BY DEF TypeInv, TypeOK
<1>u. UNCHANGED row => SameStatus /\ DropsKept
  BY DEF SameStatus, DropsKept
<1>t. ASSUME NEW e \in Emails, Touch(e) \/ Drop(e)
      PROVE  SameStatus /\ DropsKept
  BY <1>0, <1>t, TouchRow, DropRow DEF SameStatus, DropsKept
<1>1. ASSUME NEW e \in Emails, Age(e) \/ AdminReprocess(e) PROVE SameStatus /\ DropsKept
  BY <1>0, <1>1, <1>u DEF Age, AdminReprocess, Row, SameStatus, DropsKept
<1>2. ASSUME NEW c \in Clients,
             \/ RetryQueue(c) \/ RetryUndo(c) \/ ClientDies(c)
             \/ \E e \in Emails : RetryRead(c, e)
      PROVE  SameStatus /\ DropsKept
  <2>1. RetryUndo(c) => client[c].email \in Emails
    BY <1>0 DEF RetryUndo, UnderWay
  <2>2. QED
    BY <1>2, <1>t, <1>u, <2>1 DEF RetryQueue, RetryUndo, ClientDies, RetryRead
<1>3. ASSUME NEW x \in reset.todo, ResetRetries(x) PROVE SameStatus /\ DropsKept
  <2>1. x.email \in Emails
    BY <1>0 DEF Snapshot
  <2>2. UNCHANGED row \/ row' = [row EXCEPT ![x.email].retried = TRUE]
    BY <1>3 DEF ResetRetries
  <2>3. QED
    BY <1>0, <1>u, <2>1, <2>2, RetriedRow DEF SameStatus, DropsKept
<1>4. ASSUME \/ ResetScan \/ \E x \in reset.todo : ResetFails(x)
             \/ Recover \/ \E m \in Message : Expire(m)
      PROVE  SameStatus /\ DropsKept
  BY <1>4, <1>u DEF ResetScan, ResetFails, Recover, Expire
<1>5. ASSUME NEW w \in Workers,
             \/ \E m \in Message : Take(w, m) \/ Skip(w, m)
             \/ Release(w) \/ Recycle(w) \/ Crash(w)
             \/ EnqueueWorkflow(w) \/ MarkFailed(w) \/ ErrorHandler(w)
             \/ GraphFails(w) \/ Publish(w) \/ Settle(w)
      PROVE  UNCHANGED row
  BY <1>5 DEF Take, Skip, Release, Recycle, Crash, EnqueueWorkflow, MarkFailed,
              ErrorHandler, GraphFails, Publish, Settle
<1>6. ASSUME NEW w \in Workers,
             Reconcile(w) \/ StartWorkflow(w) \/ Credits(w) \/ Nodes(w)
               \/ Load(w) \/ Sync(w)
      PROVE  SameStatus /\ DropsKept
  <2>1. msg[w].email \in Emails
    BY <1>0, <1>6, Messages
    DEF UnderWay, Reconcile, StartWorkflow, Credits, Nodes, Load, Sync
  <2>2. CASE Reconcile(w)
    <3>1. \/ UNCHANGED row \/ Drop(msg[w].email)
          \/ \E S \in SUBSET Emails : Renew(S)
      BY <2>2 DEF Reconcile
    <3>2. QED
      BY <1>t, <1>u, <2>1, <3>1, RenewRow DEF SameStatus, DropsKept, TypeInv
  <2>3. CASE Sync(w)
    BY <1>0, <2>1, <2>3 DEF Sync, SameStatus, DropsKept
  <2>4. QED
    BY <1>6, <1>t, <1>u, <2>1, <2>2, <2>3
    DEF StartWorkflow, Credits, Nodes, Load
<1>7. ASSUME NEW w \in Workers, Rescue(w) PROVE SameStatus /\ DropsKept
  <2>1. mem[w].target \in Emails
    BY <1>0, <1>7 DEF UnderWay, Rescue
  <2>2. QED
    BY <1>7, <1>t, <1>u, <2>1 DEF Rescue
<1>8. QED
  BY <1>1, <1>2, <1>3, <1>4, <1>5, <1>6, <1>7, <1>u
  DEF Next, WorkerStep, ClientStep, ResetStep, Environment

(* What they do to it.                                                       *)
LEMMA StatusMoves ==
  ASSUME TypeInv, Next
  PROVE  \/ SameStatus
         \/ \E e \in Emails, s \in Status \cup {"deleted"} :
              /\ row'[e].status = s
              /\ \A x \in Emails \ {e} : row'[x].status = row[x].status
              /\ s = "deleted" => MaxDeletes > 0
              /\ s = "fetched" => row[e].status = "unfetched"
<1>0. row \in [Emails -> Row] /\ UnderWay
  BY DEF TypeInv, TypeOK
<1> DEFINE Moves(e, s) ==
      /\ row'[e].status = s
      /\ \A x \in Emails \ {e} : row'[x].status = row[x].status
<1>w. ASSUME NEW e \in Emails, NEW s \in Status \cup {"deleted"},
             WriteStatus(e, s)
      PROVE  Moves(e, s)
  BY <1>0, <1>w, WriteStatusRow DEF Gone
<1> HIDE DEF Moves
<1>1. ASSUME NEW e \in Emails, Ingest(e)
      PROVE  Moves(e, "fetched") /\ row[e].status = "unfetched"
  BY <1>1, <1>w DEF Ingest, Status
<1>2. ASSUME NEW e \in Emails, Delete(e)
      PROVE  Moves(e, "deleted") /\ MaxDeletes > 0
  <2>1. MaxDeletes > 0
    BY <1>0, <1>2 DEF Delete, TypeInv, TypeOK, Budget
  <2>2. QED
    BY <1>2, <1>w, <2>1 DEF Delete
<1>3. ASSUME NEW c \in Clients, RetryMark(c)
      PROVE  SameStatus \/ \E e \in Emails : Moves(e, "processing")
  <2>1. client[c].email \in Emails
    BY <1>0, <1>3 DEF RetryMark, UnderWay
  <2>2. Touch(client[c].email) => SameStatus
    BY <1>0, <2>1, TouchRow DEF SameStatus
  <2>3. QED
    BY <1>3, <1>w, <2>1, <2>2 DEF RetryMark, SameStatus, Status
<1>4. ASSUME NEW w \in Workers, Prepare(w)
      PROVE  SameStatus \/ \E e \in Emails : Moves(e, "processing")
  <2>1. msg[w].email \in Emails
    BY <1>0, <1>4, Messages DEF Prepare, UnderWay
  <2>2. QED
    BY <1>0, <1>4, <2>1 DEF Prepare, SameStatus, Moves
<1>5. ASSUME NEW w \in Workers, Write(w)
      PROVE  \/ SameStatus
             \/ \E e \in Emails, s \in {"success", "failed"} : Moves(e, s)
  <2>1. mem[w].target \in Emails
    BY <1>0, <1>5 DEF Write, UnderWay
  <2>2. Verdict(w) \in {"success", "failed"}
    BY DEF Verdict
  <2>3. QED
    BY <1>5, <1>w, <2>1, <2>2 DEF Write, SameStatus, Status
<1>6. ASSUME NEW w \in Workers, RescueWrite(w)
      PROVE  SameStatus \/ \E e \in Emails : Moves(e, "failed")
  <2>1. mem[w].target \in Emails
    BY <1>0, <1>6 DEF RescueWrite, UnderWay
  <2>2. QED
    BY <1>0, <1>6, <1>w, <2>1, DropRow DEF RescueWrite, SameStatus, Status
<1>7. ASSUME ResetWrite \/ \E c \in Clients : RetryUndoWrite(c)
      PROVE  SameStatus \/ \E e \in Emails : Moves(e, "failed")
  <2>1. ASSUME NEW c \in Clients, RetryUndoWrite(c)
        PROVE  SameStatus \/ \E e \in Emails : Moves(e, "failed")
    <3>1. client[c].email \in Emails
      BY <1>0, <2>1 DEF RetryUndoWrite, UnderWay
    <3>2. QED
      BY <1>0, <1>w, <2>1, <3>1, DropRow
      DEF RetryUndoWrite, SameStatus, Status
  <2>2. CASE ResetWrite
    <3>1. reset.email \in Emails
      BY <1>0, <2>2 DEF ResetWrite, UnderWay
    <3>2. QED
      BY <1>0, <2>2, <3>1 DEF ResetWrite, SameStatus, Moves, Row
  <2>3. QED
    BY <1>7, <2>1, <2>2
<1>8. QED
  BY <1>0, <1>1, <1>2, <1>3, <1>4, <1>5, <1>6, <1>7, StatusActions
  DEF Moves, Status

KnownNext(e) == row'[e].status # "unfetched"

LEMMA KnownStep ==
  ASSUME TypeInv, AllKnown, Next
  PROVE  AllKnown'
<1> USE DEF worker, shared, others
<1>0. TypeOK /\ UnderWay /\ reset.todo \subseteq Snapshot
  BY DEF TypeInv, TypeOK
<1>1. \A e \in Emails : Known(e) => KnownNext(e)
  BY StatusMoves DEF SameStatus, Known, KnownNext, Status
<1>2. MaxDeletes = 0 => \A e \in Emails : row'[e].status # "deleted"
  BY <1>0, StatusMoves DEF AllKnown, SameStatus
<1>3. \A m \in Message : queue'[m] > 0 => KnownNext(m.email)
  <2>p. ASSUME NEW n \in Message, Put(n), KnownNext(n.email)
        PROVE  \A m \in Message : queue'[m] > 0 => KnownNext(m.email)
    BY <1>0, <1>1, <2>p, Messages DEF Put, AllKnown, TypeOK
  <2>q. ASSUME \A m \in Message : queue'[m] > 0 => queue[m] > 0
        PROVE  \A m \in Message : queue'[m] > 0 => KnownNext(m.email)
    BY <1>0, <1>1, <2>q, Messages DEF AllKnown
  <2>1. ASSUME NEW e \in Emails, Ingest(e) \/ AdminReprocess(e)
        PROVE  UNCHANGED queue \/ (Put(Merge(e)) /\ KnownNext(e))
    <3>1. CASE Ingest(e)
      BY <1>0, <3>1, WriteStatusRow DEF Ingest, KnownNext, TypeOK, Status
    <3>2. CASE AdminReprocess(e)
      BY <3>2 DEF AdminReprocess, KnownNext, Present, Gone
    <3>3. QED
      BY <2>1, <3>1, <3>2
  <2>2. ASSUME NEW c \in Clients, RetryQueue(c)
        PROVE  \/ UNCHANGED queue
               \/ Put(Merge(client[c].email)) /\ KnownNext(client[c].email)
    BY <1>0, <1>1, <2>2 DEF RetryQueue, AllKnown, UnderWay
  <2>3. ASSUME NEW w \in Workers, EnqueueWorkflow(w) \/ Crash(w)
        PROVE  \/ UNCHANGED queue
               \/ \E n \in {Workflow(msg[w].email), msg[w]} :
                    Put(n) /\ n \in Message /\ KnownNext(n.email)
    <3>1. msg[w] \in Message
      BY <1>0, <2>3 DEF EnqueueWorkflow, Crash, UnderWay
    <3>2. KnownNext(msg[w].email) /\ Workflow(msg[w].email).email = msg[w].email
      BY <1>0, <1>1, <3>1, Messages DEF AllKnown, Workflow
    <3>3. Workflow(msg[w].email) \in Message
      BY <3>1, Messages
    <3>4. QED
      BY <2>3, <3>1, <3>2, <3>3 DEF EnqueueWorkflow, Crash
  <2>4. CASE Recover
    <3>1. \A m \in Message : queue'[m] > 0 =>
            queue[m] > 0 \/ row[m.email].status = "processing"
      BY <1>0, <2>4 DEF Recover, TypeOK
    <3>2. QED
      BY <1>0, <1>1, <3>1, Messages DEF AllKnown, Known
  <2>5. ASSUME NEW w \in Workers, NEW n \in Message, Take(w, n) \/ Skip(w, n)
        PROVE  \A m \in Message : queue'[m] > 0 => queue[m] > 0
    BY <1>0, <2>5 DEF Take, Skip, TypeOK
  <2>r. ASSUME NEW x \in reset.todo, ResetRetries(x)
        PROVE  \/ UNCHANGED queue
               \/ \E n \in Message : Put(n) /\ KnownNext(n.email)
    <3>1. x.email \in Emails /\ KnownNext(x.email)
      BY <1>0, <1>1 DEF Snapshot, AllKnown
    <3>2. /\ Workflow(x.email) \in Message
          /\ Workflow(x.email).email = x.email
      BY <3>1, Messages DEF Workflow
    <3>3. QED
      BY <2>r, <3>1, <3>2 DEF ResetRetries
  <2>6. \A e \in Emails : Merge(e) \in Message /\ Merge(e).email = e
    BY Messages DEF Merge
  <2>7. \A c \in Clients : RetryQueue(c) => client[c].email \in Emails
    BY <1>0 DEF UnderWay, RetryQueue
  <2>u. \/ UNCHANGED queue
        \/ \E e \in Emails : Ingest(e) \/ AdminReprocess(e)
        \/ \E c \in Clients : RetryQueue(c)
        \/ \E w \in Workers : EnqueueWorkflow(w) \/ Crash(w)
        \/ Recover
        \/ \E x \in reset.todo : ResetRetries(x)
        \/ \E w \in Workers, n \in Message : Take(w, n) \/ Skip(w, n)
    BY DEF Next, WorkerStep, ClientStep, ResetStep, Environment,
       ResetScan, ResetFails, ResetWrite, Age, Delete, RetryRead, RetryMark,
       RetryUndo, RetryUndoWrite, ClientDies,
       Release, Expire, Recycle, Reconcile, MarkFailed, StartWorkflow,
       Prepare, Credits, Nodes, ErrorHandler, GraphFails,
       Load, Sync, Publish, Settle, Write, Rescue, RescueWrite
  <2>8. QED
    BY <2>p, <2>q, <2>1, <2>2, <2>3, <2>4, <2>5, <2>6, <2>7, <2>r, <2>u
<1>4. \A w \in Workers : msg'[w] # None => KnownNext(msg'[w].email)
  <2>1. \/ UNCHANGED msg
        \/ \E w \in Workers : msg' = [msg EXCEPT ![w] = None]
        \/ \E w \in Workers, m \in Message :
             queue[m] > 0 /\ msg' = [msg EXCEPT ![w] = m]
    BY LockActions DEF Take, Release, Crash, Expire
  <2>2. \A m \in Message : queue[m] > 0 => KnownNext(m.email)
    BY <1>0, <1>1, Messages DEF AllKnown
  <2>3. \A w \in Workers : msg[w] # None => KnownNext(msg[w].email)
    BY <1>0, <1>1, Messages DEF AllKnown, TypeOK
  <2>4. QED
    BY <1>0, <2>1, <2>2, <2>3 DEF TypeOK
<1>5. \A c \in Clients : client'[c].pc # "idle" => KnownNext(client'[c].email)
  <2>1. \A c \in Clients : client[c].pc # "idle" => KnownNext(client[c].email)
    BY <1>0, <1>1 DEF AllKnown, UnderWay
  <2>2. ASSUME NEW d \in Clients, NEW e \in Emails, RetryRead(d, e)
        PROVE  /\ KnownNext(e)
               /\ client' = [client EXCEPT ![d] =
                    [pc |-> "mark", email |-> e, seen |-> row[e].status]]
    BY <1>1, <2>2 DEF RetryRead, Known, Present, Gone
  <2> DEFINE Goes(d) == /\ client[d].pc # "idle"
                        /\ \E s \in {"queue", "undo"} :
                             client' = [client EXCEPT ![d].pc = s]
             Undoes(d) == /\ client[d].pc # "idle"
                          /\ client' = [client EXCEPT ![d] =
                               [pc |-> "undoWrite", email |-> client[d].email,
                                seen |-> client[d].seen]]
             Ends(d) == client' = [client EXCEPT ![d] = NoClient]
  <2>3. \/ UNCHANGED client
        \/ \E d \in Clients : \/ Ends(d) \/ Goes(d) \/ Undoes(d)
                              \/ \E e \in Emails : RetryRead(d, e)
    <3>1. ASSUME NEW d \in Clients, ClientStep(d) \/ ClientDies(d)
          PROVE  Ends(d) \/ Goes(d) \/ Undoes(d)
      BY <3>1 DEF ClientStep, RetryMark, RetryQueue, RetryUndo, RetryUndoWrite,
                  ClientDies
    <3>2. QED
      BY <3>1 DEF Next, WorkerStep, ResetStep, Environment,
       ResetScan, ResetRetries, ResetFails, ResetWrite,
       Ingest, Age, Delete, AdminReprocess,
       Take, Skip, Release, Crash, Expire,
       Recycle, Reconcile, EnqueueWorkflow, MarkFailed, StartWorkflow,
       Prepare, Credits, Nodes, ErrorHandler, GraphFails,
       Load, Sync, Publish, Settle, Write, Rescue, RescueWrite, Recover
  <2>4. ASSUME NEW d \in Clients, Goes(d)
        PROVE  \A c \in Clients :
                 client'[c].pc # "idle" => KnownNext(client'[c].email)
    BY <1>0, <2>1, <2>4 DEF TypeOK
  <2>5. ASSUME NEW d \in Clients, Ends(d)
        PROVE  \A c \in Clients :
                 client'[c].pc # "idle" => KnownNext(client'[c].email)
    BY <1>0, <2>1, <2>5 DEF NoClient, TypeOK
  <2>6. ASSUME NEW d \in Clients, NEW e \in Emails, RetryRead(d, e)
        PROVE  \A c \in Clients :
                 client'[c].pc # "idle" => KnownNext(client'[c].email)
    BY <1>0, <2>1, <2>2, <2>6 DEF TypeOK
  <2>8. ASSUME NEW d \in Clients, Undoes(d)
        PROVE  \A c \in Clients :
                 client'[c].pc # "idle" => KnownNext(client'[c].email)
    BY <1>0, <2>1, <2>8 DEF TypeOK
  <2>7. QED
    BY <2>1, <2>3, <2>4, <2>5, <2>6, <2>8
<1>6. \A x \in reset'.todo : KnownNext(x.email)
  <2>1. \A x \in reset.todo : KnownNext(x.email)
    BY <1>0, <1>1 DEF AllKnown, Snapshot
  <2>2. CASE ResetScan
    <3>1. \A x \in reset'.todo : x.email \in Emails /\ Known(x.email)
      BY <2>2 DEF ResetScan, IsStuck, Known
    <3>2. QED
      BY <1>1, <3>1
  <2>3. CASE reset'.todo \subseteq reset.todo
    BY <2>1, <2>3
  <2>4. ResetStep => ResetScan \/ reset'.todo \subseteq reset.todo
    <3>1. \A todo : NextStuck(todo).todo \subseteq todo
      BY DEF NextStuck, NoReset
    <3>2. NoReset.todo = {}
      BY DEF NoReset
    <3>3. ASSUME NEW x \in reset.todo, ResetRetries(x)
          PROVE  reset'.todo \subseteq reset.todo
      BY <3>1, <3>2, <3>3 DEF ResetRetries
    <3>4. ASSUME NEW x \in reset.todo, ResetFails(x)
          PROVE  reset'.todo \subseteq reset.todo
      BY <3>2, <3>4 DEF ResetFails
    <3>5. ResetWrite => reset'.todo \subseteq reset.todo
      BY <3>1, <3>2 DEF ResetWrite
    <3>6. QED
      BY <3>3, <3>4, <3>5 DEF ResetStep
  <2>5. ResetStep \/ UNCHANGED reset
    BY DEF Next, WorkerStep, ClientStep, Environment,
       Ingest, Age, Delete, AdminReprocess,
       RetryRead, RetryMark, RetryQueue, RetryUndo, RetryUndoWrite, ClientDies,
       Take, Skip, Release, Crash, Expire,
       Recycle, Reconcile, EnqueueWorkflow, MarkFailed, StartWorkflow,
       Prepare, Credits, Nodes, ErrorHandler, GraphFails,
       Load, Sync, Publish, Settle, Write, Rescue, RescueWrite, Recover
  <2>6. QED
    BY <2>2, <2>3, <2>4, <2>5
<1>7. QED
  BY <1>2, <1>3, <1>4, <1>5, <1>6 DEF AllKnown, Known, KnownNext

LEMMA KnownInit == Init => AllKnown
BY DEF Init, AllKnown, NoReset, NoClient
-----------------------------------------------------------------------------
(* Refinement: undisturbed, the pipeline is a lifecycle *)

(* Nothing disturbs the runs: no task outlasts its lock, there is no reset,  *)
(* and no transaction and no message is lost.  Retries, reprocessings,       *)
(* redeliveries, crashes, restarts and failures of the graph remain.  Emails *)
(* may be deleted when there is only one: the failed load of a deleted email *)
(* makes a worker fail the email it finalized before, whatever that one is   *)
(* doing.                                                                    *)
Calm ==
  /\ NoOverruns
  /\ ~StuckReset
  /\ Faults \subseteq {"graph"}
  /\ MaxDeletes = 0 \/ \A d, e \in Emails : d = e

(* Nobody undoes, resets or fails an email from outside of its run.          *)
Quiet ==
  /\ reset.pc = "idle"
  /\ \A c \in Clients : client[c].pc \in {"idle", "mark", "queue"}
  /\ \A w \in Workers : pc[w] # "markFailed"

AfterPrepare == {"credits", "nodes", "errorHandler", "load", "sync",
                 "publish", "settle", "write"}

(* Between prepare and verdict an email stays PROCESSING, if it stays: no    *)
(* other run can touch it.  A run that failed finds an email it may fail.    *)
OwnRun(w) ==
  /\ pc[w] \in Targeted => mem[w].target = msg[w].email
  /\ pc[w] \in {"rescue", "rescueWrite"} => msg[w].task = "workflow"
  /\ pc[w] \in AfterPrepare =>
       row[msg[w].email].status \in {"processing", "deleted"}
  /\ pc[w] = "rescueWrite" =>
       row[msg[w].email].status \in {"fetched", "processing", "failed", "deleted"}

CalmInv == Quiet /\ AllKnown /\ \A w \in Workers : OwnRun(w)

LEMMA CalmInit == Init => CalmInv
BY DEF Init, CalmInv, Quiet, AllKnown, Known, OwnRun, NoReset, NoClient,
       Targeted, AfterPrepare

(* Two runs of the workflow are about two emails.                            *)
LEMMA RunsApart ==
  ASSUME ResultsInv, NEW v \in Workers, NEW w \in Workers, v # w,
         pc[v] # "idle", pc[w] # "idle",
         msg[v].task = "workflow", msg[w].task = "workflow"
  PROVE  msg[v].email # msg[w].email
BY Messages DEF ResultsInv, LockInv, OneRunPerEmail, TypeInv, TypeOK, UnderWay

(* A step that leaves a run and the status of its email alone.  The status   *)
(* may become PROCESSING or "deleted", too: a request marks the email, or a  *)
(* user deletes it.                                                          *)
LEMMA OwnRunKept ==
  ASSUME TypeInv, NEW w \in Workers, OwnRun(w),
         pc'[w] = pc[w], msg'[w] = msg[w], mem'[w] = mem[w],
         pc[w] # "idle" =>
           LET e == msg[w].email IN
           row'[e].status \in {row[e].status, "processing", "deleted"}
  PROVE  OwnRun(w)'
BY DEF OwnRun, AfterPrepare, Targeted

LEMMA CalmActions ==
  ASSUME Calm, CalmInv
  PROVE  /\ ~ResetStep
         /\ \A c \in Clients : ~RetryUndo(c) /\ ~RetryUndoWrite(c)
         /\ \A w \in Workers : ~MarkFailed(w)
         /\ "broker" \notin Faults /\ "database" \notin Faults
         /\ \A e : ~Drop(e)
BY DEF Calm, Drop, CalmInv, Quiet, ResetStep, ResetScan, ResetRetries, ResetFails,
       ResetWrite, RetryUndo, RetryUndoWrite, MarkFailed
-----------------------------------------------------------------------------
LEMMA QuietStep ==
  ASSUME Calm, ResultsInv, CalmInv, Next
  PROVE  Quiet'
<1> USE DEF worker, shared, others
<1>0. Quiet /\ TypeOK
  BY DEF CalmInv, ResultsInv, LockInv, TypeInv
<1>1. reset' = reset
  BY CalmActions DEF Next, WorkerStep, ClientStep, Environment,
       Ingest, Age, Delete, AdminReprocess,
       RetryRead, RetryMark, RetryQueue, RetryUndo, RetryUndoWrite, ClientDies,
       Take, Skip, Release, Crash, Expire,
       Recycle, Reconcile, EnqueueWorkflow, MarkFailed, StartWorkflow,
       Prepare, Credits, Nodes, ErrorHandler, GraphFails,
       Load, Sync, Publish, Settle, Write, Rescue, RescueWrite, Recover
<1>2. \A c \in Clients : client'[c].pc \in {"idle", "mark", "queue"}
  <2>1. \/ UNCHANGED client
        \/ \E d \in Clients : \/ client' = [client EXCEPT ![d] = NoClient]
                              \/ client' = [client EXCEPT ![d].pc = "queue"]
                              \/ \E e \in Emails : RetryRead(d, e)
    BY CalmActions DEF Next, WorkerStep, ClientStep, Environment,
       Ingest, Age, Delete, AdminReprocess,
       RetryMark, RetryQueue, RetryUndo, RetryUndoWrite, ClientDies,
       Take, Skip, Release, Crash, Expire,
       Recycle, Reconcile, EnqueueWorkflow, MarkFailed, StartWorkflow,
       Prepare, Credits, Nodes, ErrorHandler, GraphFails,
       Load, Sync, Publish, Settle, Write, Rescue, RescueWrite, Recover
  <2>2. QED
    BY <1>0, <2>1 DEF Quiet, TypeOK, RetryRead, NoClient
<1>3. \A w \in Workers : pc'[w] # "markFailed"
  <2>1. \/ UNCHANGED pc
        \/ \E w \in Workers, label \in WorkerPc \ {"markFailed"} :
             pc' = [pc EXCEPT ![w] = label]
    <3>1. ASSUME NEW w \in Workers, WorkerStep(w)
          PROVE  \/ UNCHANGED pc
                 \/ \E label \in WorkerPc \ {"markFailed"} : Goto(w, label)
      BY <3>1, CalmActions
      DEF WorkerStep, Take, Skip, Release, Reconcile, EnqueueWorkflow,
          MarkFailed, StartWorkflow, Prepare, Credits, Nodes, ErrorHandler,
          GraphFails, Load, Sync, Publish, Settle, Write, Rescue, RescueWrite,
          WorkerPc, AfterSync, ShouldHandleError
    <3>2. ASSUME NEW w \in Workers, Crash(w)
          PROVE  pc' = [pc EXCEPT ![w] = "idle"]
      BY <3>2 DEF Crash
    <3>3. QED
      BY <3>1, <3>2, CalmActions DEF Next, ClientStep, Environment,
       Ingest, Age, Delete, AdminReprocess, RetryRead,
       RetryMark, RetryQueue, RetryUndo, RetryUndoWrite, ClientDies,
       Expire, Recycle, Recover, Goto, WorkerPc
  <2>2. QED
    BY <1>0, <2>1 DEF Quiet, TypeOK
<1>4. QED
  BY <1>0, <1>1, <1>2, <1>3 DEF Quiet
-----------------------------------------------------------------------------
(* A worker that goes on in its run, over a status that stays what it is.    *)
LEMMA OwnRunGoesOn ==
  ASSUME ResultsInv, \A w \in Workers : OwnRun(w), TypeInv',
         NEW w \in Workers, NEW label \in WorkerPc, Goto(w, label),
         \A v \in Workers \ {w} : msg'[v] = msg[v] /\ mem'[v] = mem[v],
         SameStatus,
         label \in Targeted => mem'[w].target = msg'[w].email,
         label \in {"rescue", "rescueWrite"} => msg'[w].task = "workflow",
         label \in AfterPrepare =>
           row[msg'[w].email].status \in {"processing", "deleted"},
         label = "rescueWrite" =>
           row[msg'[w].email].status \in {"fetched", "processing", "failed"}
  PROVE  \A v \in Workers : OwnRun(v)'
<1>0. TypeInv /\ TypeOK /\ UnderWay /\ UnderWay'
  BY DEF ResultsInv, LockInv, TypeInv
<1>1. pc'[w] = label /\ \A v \in Workers \ {w} : pc'[v] = pc[v]
  BY <1>0 DEF Goto, TypeOK
<1>2. ASSUME NEW v \in Workers \ {w} PROVE OwnRun(v)'
  <2>1. pc[v] # "idle" => msg[v].email \in Emails
    BY <1>0, Messages DEF UnderWay
  <2>2. QED
    BY <1>0, <1>1, <2>1, OwnRunKept DEF SameStatus
<1>3. OwnRun(w)'
  <2>1. label # "idle" => msg'[w].email \in Emails
    BY <1>0, <1>1, Messages DEF UnderWay
  <2>2. QED
    BY <1>1, <2>1 DEF OwnRun, SameStatus, AfterPrepare
<1>4. QED
  BY <1>2, <1>3

(* No worker moves, and no status but to PROCESSING or "deleted".            *)
LEMMA OwnRunOutside ==
  ASSUME Calm, ResultsInv, CalmInv, Next, UNCHANGED <<pc, msg, mem>>
  PROVE  \A w \in Workers : OwnRun(w)'
<1>0. TypeInv /\ UnderWay /\ AllKnown /\ row \in [Emails -> Row]
  BY DEF ResultsInv, LockInv, TypeInv, TypeOK, CalmInv
<1>1. \A e \in Emails : Known(e) =>
        row'[e].status \in {row[e].status, "processing", "deleted"}
  <2>1. CASE SameStatus
    BY <2>1 DEF SameStatus
  <2>2. ASSUME NEW e \in Emails, Ingest(e) \/ Delete(e)
        PROVE  \A x \in Emails : Known(x) =>
                 row'[x].status \in {row[x].status, "deleted"}
    BY <1>0, <2>2, WriteStatusRow DEF Ingest, Delete, Known, Status, Gone
  <2>3. ASSUME NEW c \in Clients, RetryMark(c)
        PROVE  \A x \in Emails :
                 row'[x].status \in {row[x].status, "processing"}
    <3>1. client[c].email \in Emails
      BY <1>0, <2>3 DEF RetryMark, UnderWay
    <3>2. Touch(client[c].email) \/ UNCHANGED row
            \/ WriteStatus(client[c].email, "processing")
      BY <2>3 DEF RetryMark
    <3>3. QED
      BY <1>0, <3>1, <3>2, TouchRow, WriteStatusRow DEF Status
  <2>4. ASSUME NEW w \in Workers PROVE ~Prepare(w) /\ ~Write(w) /\ ~RescueWrite(w)
    BY <1>0 DEF Prepare, Write, RescueWrite, Goto, TypeInv, TypeOK
  <2>5. QED
    BY <1>0, <2>1, <2>2, <2>3, <2>4, StatusActions, CalmActions DEF ResetStep
<1>2. \A w \in Workers : pc[w] # "idle" =>
        msg[w].email \in Emails /\ Known(msg[w].email)
  BY <1>0, Messages DEF UnderWay, AllKnown, TypeInv, TypeOK
<1>3. QED
  BY <1>0, <1>1, <1>2, OwnRunKept DEF CalmInv

LEMMA OwnRunStarts ==
  ASSUME Calm, ResultsInv, CalmInv, TypeInv', NEW w \in Workers,
         \/ \E m \in Message : Take(w, m)
         \/ Release(w) \/ Crash(w)
         \/ Reconcile(w) \/ EnqueueWorkflow(w) \/ StartWorkflow(w)
  PROVE  \A v \in Workers : OwnRun(v)'
<1> USE DEF worker, shared, others
<1>0. TypeOK /\ UnderWay /\ \A v \in Workers : OwnRun(v)
  BY DEF ResultsInv, LockInv, TypeInv, CalmInv
<1>1. \E label \in {"reconcile", "enqueue", "start", "prepare", "release",
                    "idle"} : Goto(w, label)
  BY CalmActions DEF Take, Release, Crash, Reconcile, EnqueueWorkflow,
                     StartWorkflow, Goto
<1>2. \A v \in Workers \ {w} : msg'[v] = msg[v] /\ mem'[v] = mem[v]
  BY <1>0 DEF TypeOK, Take, Release, Crash, Reconcile, EnqueueWorkflow,
              StartWorkflow
<1>3. SameStatus
  <2>1. CASE Reconcile(w)
    <3>1. UNCHANGED row \/ \E S \in SUBSET Emails : Renew(S)
      BY <2>1, CalmActions DEF Reconcile
    <3>2. QED
      BY <1>0, <3>1, RenewRow DEF SameStatus
  <2>2. CASE StartWorkflow(w)
    <3>1. msg[w].email \in Emails
      BY <1>0, <2>2, Messages DEF StartWorkflow, UnderWay
    <3>2. QED
      BY <1>0, <2>2, <3>1, TouchRow, CalmActions
      DEF StartWorkflow, SameStatus, TypeOK
  <2>3. QED
    BY <2>1, <2>2 DEF Take, Release, Crash, EnqueueWorkflow, SameStatus
<1>4. QED
  BY <1>0, <1>1, <1>2, <1>3, OwnRunGoesOn
  DEF WorkerPc, Targeted, AfterPrepare

(* In the nodes of the workflow, up to the verdict.                          *)
LEMMA OwnRunInNodes ==
  ASSUME Calm, ResultsInv, CalmInv, TypeInv', NEW w \in Workers,
         \/ Credits(w) \/ Nodes(w) \/ ErrorHandler(w) \/ GraphFails(w)
         \/ Sync(w) \/ Publish(w) \/ Settle(w) \/ Rescue(w)
  PROVE  \A v \in Workers : OwnRun(v)'
<1> USE DEF worker, shared, others
<1> DEFINE e == msg[w].email
<1>0. TypeOK /\ UnderWay /\ RunInv /\ \A v \in Workers : OwnRun(v)
  BY DEF ResultsInv, LockInv, TypeInv, CalmInv
<1>e. e \in Emails /\ msg' = msg /\ msg[w].task = "workflow"
  BY <1>0, Messages DEF UnderWay, Credits, Nodes, ErrorHandler, GraphFails,
     Sync, Publish, Settle, Rescue, RunInv, OwnRun, WorkflowPc
<1>o. OwnRun(w)
  BY <1>0
<1> HIDE DEF e
<1>2. \A v \in Workers \ {w} : mem'[v] = mem[v]
  BY <1>0 DEF TypeOK, Credits, Nodes, ErrorHandler, GraphFails, Sync, Publish,
              Settle, Rescue
<1>3. SameStatus
  <2>1. CASE Credits(w) \/ Nodes(w)
    BY <1>0, <1>e, <2>1, TouchRow DEF Credits, Nodes, SameStatus, TypeOK, e
  <2>2. CASE Sync(w)
    BY <1>0, <1>e, <2>2 DEF Sync, SameStatus, TypeOK, e
  <2>3. QED
    BY <2>1, <2>2, CalmActions
    DEF ErrorHandler, GraphFails, Publish, Settle, Rescue, SameStatus
<1>4. CASE Credits(w) \/ Nodes(w) \/ ErrorHandler(w)
  <2>1. \E label \in {"nodes", "errorHandler", "load"} : Goto(w, label)
    BY <1>4 DEF Credits, Nodes, ErrorHandler, ShouldHandleError
  <2>2. row[e].status \in {"processing", "deleted"}
    BY <1>4, <1>o DEF Credits, Nodes, ErrorHandler, OwnRun, AfterPrepare, e
  <2>3. QED
    BY <1>0, <1>e, <1>2, <1>3, <2>1, <2>2, OwnRunGoesOn
    DEF WorkerPc, Targeted, e
<1>5. CASE GraphFails(w)
  <2>1. mem'[w].target = e
    BY <1>0, <1>e, <1>5 DEF GraphFails, TypeOK, Mem, e
  <2>2. QED
    BY <1>0, <1>e, <1>2, <1>3, <1>5, <2>1, OwnRunGoesOn
    DEF GraphFails, WorkerPc, AfterPrepare, e
<1>6. CASE Sync(w) \/ Publish(w) \/ Settle(w)
  <2>1. \E label \in {"rescue", "publish", "settle", "write"} : Goto(w, label)
    BY <1>6 DEF Sync, Publish, Settle, AfterSync
  <2>2. row[e].status \in {"processing", "deleted"}
    BY <1>6, <1>o DEF Sync, Publish, Settle, OwnRun, AfterPrepare, e
  <2>3. mem' = mem /\ mem[w].target = e
    BY <1>6, <1>o DEF Sync, Publish, Settle, OwnRun, Targeted, e
  <2>4. QED
    BY <1>0, <1>e, <1>2, <1>3, <2>1, <2>2, <2>3, OwnRunGoesOn
    DEF WorkerPc, Targeted, AfterPrepare, e
<1>7. CASE Rescue(w)
  <2>1. mem' = mem /\ mem[w].target = e
    BY <1>7, <1>o DEF Rescue, OwnRun, Targeted, e
  <2>2. CASE Goto(w, "release")
    BY <1>0, <1>e, <1>2, <1>3, <2>2, OwnRunGoesOn
    DEF WorkerPc, Targeted, AfterPrepare
  <2>3. CASE Goto(w, "rescueWrite") /\ SaveAccepts(row[e].status, "failed")
             /\ Present(e)
    <3>1. row[e].status \in {"fetched", "processing", "failed"}
      BY <1>0, <1>e, <2>3
      DEF Present, SaveAccepts, CanTransitionTo, NextStates, Status
    <3>2. QED
      BY <1>0, <1>e, <1>2, <1>3, <2>1, <2>3, <3>1, OwnRunGoesOn
      DEF WorkerPc, Targeted, AfterPrepare, e
  <2>4. QED
    BY <1>7, <2>1, <2>2, <2>3, CalmActions DEF Rescue
<1>8. QED
  BY <1>4, <1>5, <1>6, <1>7

(* The load of an email succeeds unless it was deleted.  Then the worker has *)
(* finalized no other email before.                                          *)
LEMMA OwnRunLoad ==
  ASSUME Calm, ResultsInv, CalmInv, TypeInv', NEW w \in Workers, Load(w)
  PROVE  \A v \in Workers : OwnRun(v)'
<1> USE DEF worker, shared, others
<1> DEFINE e == msg[w].email
<1>0. TypeOK /\ UnderWay /\ RunInv /\ AllKnown /\ \A v \in Workers : OwnRun(v)
  BY DEF ResultsInv, LockInv, TypeInv, CalmInv
<1>e. /\ e \in Emails /\ msg' = msg /\ msg[w].task = "workflow"
      /\ row[e].status \in {"processing", "deleted"}
  BY <1>0, Messages DEF UnderWay, Load, RunInv, WorkflowPc, OwnRun, AfterPrepare
<1> HIDE DEF e
<1>1. \A v \in Workers \ {w} : mem'[v] = mem[v]
  BY <1>0 DEF TypeOK, Load
<1>2. SameStatus
  BY <1>0, <1>e, TouchRow, CalmActions DEF Load, SameStatus, TypeOK, e
<1>3. CASE ~Present(e)
  <2>1. \A d \in Emails : d = e
    BY <1>0, <1>e, <1>3 DEF Calm, AllKnown, Present, Gone
  <2>2. Goto(w, "release") \/ (Goto(w, "rescue") /\ mem'[w].target = e)
    <3>1. CASE node[w] = None
      BY <1>3, <3>1 DEF Load, e
    <3>2. CASE node[w] # None
      <4>1. node[w] = e
        BY <1>0, <2>1, <3>2 DEF TypeOK
      <4>2. Goto(w, "rescue") /\ mem' = [mem EXCEPT ![w].target = e]
        BY <1>3, <3>2, <4>1 DEF Load, e
      <4>3. mem'[w].target = e
        BY <1>0, <4>2 DEF TypeOK, Mem
      <4>4. QED
        BY <4>2, <4>3
    <3>3. QED
      BY <3>1, <3>2
  <2>3. QED
    BY <1>0, <1>e, <1>1, <1>2, <2>2, OwnRunGoesOn
    DEF WorkerPc, Targeted, AfterPrepare, e
<1>4. CASE Present(e)
  <2>1. Goto(w, "sync") /\ mem'[w].target = e
    BY <1>0, <1>e, <1>4, CalmActions DEF Load, TypeOK, Mem, e
  <2>2. QED
    BY <1>0, <1>e, <1>1, <1>2, <2>1, OwnRunGoesOn
    DEF WorkerPc, Targeted, AfterPrepare, e
<1>5. QED
  BY <1>3, <1>4

(* The three writes of a run change the status of its own email, which no    *)
(* other run is about.                                                       *)
LEMMA OwnRunWrites ==
  ASSUME Calm, ResultsInv, CalmInv, TypeInv', NEW w \in Workers,
         Prepare(w) \/ Write(w) \/ RescueWrite(w)
  PROVE  \A v \in Workers : OwnRun(v)'
<1> USE DEF worker, shared, others
<1> DEFINE e == msg[w].email
<1>0. TypeInv /\ TypeOK /\ UnderWay /\ RunInv /\ \A v \in Workers : OwnRun(v)
  BY DEF ResultsInv, LockInv, TypeInv, CalmInv
<1>e. e \in Emails /\ msg' = msg /\ msg[w].task = "workflow" /\ pc[w] # "idle"
  BY <1>0, Messages
  DEF UnderWay, Prepare, Write, RescueWrite, RunInv, WorkflowPc, OwnRun
<1>t. Write(w) \/ RescueWrite(w) => mem[w].target = e
  BY <1>0 DEF Write, RescueWrite, OwnRun, Targeted
<1> HIDE DEF e
<1>1. \A x \in Emails \ {e} : row'[x] = row[x]
  <2>1. CASE Prepare(w)
    BY <1>0, <1>e, <2>1 DEF Prepare, TypeOK, e
  <2>2. CASE Write(w)
    BY <1>0, <1>e, <1>t, <2>2, WriteStatusRow
    DEF Write, TypeOK, Verdict, Status
  <2>3. CASE RescueWrite(w)
    BY <1>0, <1>e, <1>t, <2>3, WriteStatusRow, CalmActions
    DEF RescueWrite, TypeOK, Status
  <2>4. QED
    BY <2>1, <2>2, <2>3
<1>2. \A v \in Workers \ {w} : pc'[v] = pc[v] /\ mem'[v] = mem[v]
  BY <1>0 DEF Prepare, Write, RescueWrite, Goto, TypeOK
<1>3. ASSUME NEW v \in Workers \ {w} PROVE OwnRun(v)'
  <2>1. CASE pc[v] = "idle" \/ msg[v].task # "workflow"
    <3>1. pc[v] \notin AfterPrepare \cup {"rescue", "rescueWrite"}
      BY <1>0, <2>1 DEF RunInv, OwnRun, WorkflowPc, AfterPrepare
    <3>2. QED
      BY <1>0, <1>e, <1>2, <3>1 DEF OwnRun
  <2>2. CASE pc[v] # "idle" /\ msg[v].task = "workflow"
    <3>1. msg[v].email \in Emails \ {e}
      BY <1>0, <1>e, <2>2, RunsApart, Messages DEF UnderWay, e
    <3>2. QED
      BY <1>0, <1>1, <1>2, <1>e, <3>1, OwnRunKept
  <2>3. QED
    BY <2>1, <2>2
<1>4. OwnRun(w)'
  <2>1. CASE Prepare(w)
    <3>1. pc'[w] = "credits"
      BY <1>0, <2>1 DEF Prepare, Goto, TypeOK
    <3>2. row'[e].status \in {"processing", "deleted"}
      <4>1. row[e].status # "unfetched"
        BY <1>0, <1>e DEF CalmInv, AllKnown, Known, TypeOK, UnderWay, e
      <4>2. QED
        BY <1>0, <1>e, <2>1, <4>1, CalmActions
        DEF Prepare, TypeOK, Present, Gone, e
    <3>3. QED
      BY <1>e, <3>1, <3>2 DEF OwnRun, Targeted, e
  <2>2. CASE Write(w) \/ RescueWrite(w)
    <3>1. pc'[w] = "release" \/ pc'[w] = "rescue"
      BY <1>0, <2>2 DEF Write, RescueWrite, Goto, TypeOK
    <3>2. mem' = mem
      BY <2>2 DEF Write, RescueWrite
    <3>3. QED
      BY <1>e, <1>t, <2>2, <3>1, <3>2 DEF OwnRun, Targeted, AfterPrepare, e
  <2>3. QED
    BY <2>1, <2>2
<1>5. QED
  BY <1>3, <1>4

LEMMA CalmStep == Calm /\ ResultsInv /\ CalmInv /\ [Next]_vars => CalmInv'
<1> SUFFICES ASSUME Calm, ResultsInv, CalmInv, [Next]_vars PROVE CalmInv'
  OBVIOUS
<1>1. CASE Next
  <2>1. TypeInv'
    BY TypeStep DEF ResultsInv, LockInv
  <2>2. \A w \in Workers : OwnRun(w)'
    <3>1. \/ UNCHANGED <<pc, msg, mem>>
          \/ \E w \in Workers : WorkerStep(w) \/ Crash(w)
      BY <1>1, CalmActions DEF Next, ClientStep, Environment, Ingest, Age,
         Delete, AdminReprocess, RetryRead, RetryMark, RetryQueue, RetryUndo,
         RetryUndoWrite, ClientDies, Recycle, Expire, Recover, worker, shared
    <3>2. ASSUME NEW w \in Workers, NEW m \in Message, Skip(w, m)
          PROVE  UNCHANGED <<pc, msg, mem>>
      BY <3>2 DEF Skip, worker
    <3>3. QED
      BY <1>1, <2>1, <3>1, <3>2, OwnRunOutside, OwnRunStarts, OwnRunInNodes,
         OwnRunLoad, OwnRunWrites, CalmActions DEF WorkerStep
  <2>3. QED
    BY <1>1, <2>2, QuietStep, KnownStep DEF CalmInv, ResultsInv, LockInv
<1>2. CASE UNCHANGED vars
  BY <1>2 DEF vars, CalmInv, Quiet, AllKnown, Known, OwnRun
<1>3. QED
  BY <1>1, <1>2
-----------------------------------------------------------------------------
(* The simulation, step by step                                              *)

LEMMA LifecycleInit == Init => Lifecycle!Init
BY DEF Init, Lifecycle!Init

(* A step of the pipeline that changes one status, and nothing else the      *)
(* lifecycle knows of.                                                       *)
LEMMA StatusBecomes ==
  ASSUME row \in [Emails -> Row], row' \in [Emails -> Row],
         NEW e \in Emails, NEW s \in Status \cup Gone,
         WriteStatus(e, s), UNCHANGED event
  PROVE  Lifecycle!Become(e, s)
<1> DEFINE status == [x \in Emails |-> row[x].status]
           synced == {x \in Emails : row[x].synced}
<1>1. \A x \in Emails : /\ row'[x].synced = row[x].synced
                        /\ x = e => row'[x].status = s
                        /\ x # e => row'[x] = row[x]
  BY WriteStatusRow
<1>2. status' = [status EXCEPT ![e] = s]
  BY <1>1
<1>3. synced' = synced
  BY <1>1
<1>4. QED
  BY <1>2, <1>3 DEF Lifecycle!Become

LEMMA Stutters ==
  ASSUME SameStatus, SameSynced, UNCHANGED event
  PROVE  UNCHANGED Lifecycle!vars
<1>1. [x \in Emails |-> row'[x].status] = [x \in Emails |-> row[x].status]
  BY DEF SameStatus
<1>2. {x \in Emails : row'[x].synced} = {x \in Emails : row[x].synced}
  BY DEF SameSynced
<1>3. QED
  BY <1>1, <1>2 DEF Lifecycle!vars

(* Users and requests: Fetch, Delete and Mark.                               *)
LEMMA UsersSimulate ==
  ASSUME TypeInv, TypeInv',
         \/ \E e \in Emails : Ingest(e) \/ Delete(e)
         \/ \E c \in Clients : RetryMark(c)
  PROVE  [Lifecycle!Next]_(Lifecycle!vars)
<1>0. UnderWay /\ row \in [Emails -> Row] /\ row' \in [Emails -> Row]
  BY DEF TypeInv, TypeOK
<1>s. \A e \in Emails :
        [x \in Emails |-> row[x].status][e] = row[e].status
  OBVIOUS
<1>1. ASSUME NEW e \in Emails, Ingest(e) PROVE Lifecycle!Fetch(e)
  BY <1>0, <1>1, StatusBecomes DEF Ingest, Status, Lifecycle!Fetch
<1>2. ASSUME NEW e \in Emails, Delete(e) PROVE Lifecycle!Delete(e)
  <2>1. row[e].status \in Status
    BY <1>0, <1>2 DEF Delete, Present, Row
  <2>2. Lifecycle!Become(e, "deleted")
    BY <1>0, <1>2, StatusBecomes DEF Delete, Gone
  <2>3. QED
    BY <2>1, <2>2 DEF Lifecycle!Delete, Status, Lifecycle!Status
<1>3. ASSUME NEW c \in Clients, RetryMark(c)
      PROVE  [Lifecycle!Next]_(Lifecycle!vars)
  <2>1. PICK e \in Emails : e = client[c].email
    BY <1>0, <1>3 DEF RetryMark, UnderWay
  <2>2. CASE UNCHANGED row \/ Touch(e)
    <3>1. SameStatus /\ SameSynced
      BY <1>0, <2>1, <2>2, TouchRow DEF SameStatus, SameSynced
    <3>2. QED
      BY <1>3, <3>1, Stutters DEF RetryMark
  <2>3. CASE Present(e) /\ WriteStatus(e, "processing")
    <3>1. row[e].status \in Status
      BY <1>0, <2>1, <2>3 DEF Present, Row
    <3>2. CASE row[e].status = "processing"
      <4>1. SameStatus /\ SameSynced
        BY <1>0, <2>1, <2>3, <3>2, WriteStatusRow
        DEF Status, SameStatus, SameSynced
      <4>2. QED
        BY <1>3, <4>1, Stutters DEF RetryMark
    <3>3. CASE row[e].status # "processing"
      <4>1. CanTransitionTo(row[e].status, "processing")
        BY <3>1, <3>3 DEF CanTransitionTo, NextStates, Status
      <4>2. Lifecycle!Become(e, "processing")
        BY <1>0, <1>3, <2>1, <2>3, StatusBecomes DEF RetryMark, Status
      <4>3. Lifecycle!Mark(e)
        BY <2>1, <4>1, <4>2
        DEF Lifecycle!Mark, CanTransitionTo, Lifecycle!CanTransitionTo,
            NextStates, Lifecycle!NextStates, Status, Lifecycle!Status
      <4>4. QED
        BY <2>1, <4>3 DEF Lifecycle!Next
    <3>4. QED
      BY <3>2, <3>3
  <2>4. QED
    BY <1>3, <2>1, <2>2, <2>3 DEF RetryMark
<1>4. QED
  BY <1>1, <1>2, <1>3 DEF Lifecycle!Next

(* The run of an email: Begin, Store and Announce.                           *)
LEMMA RunsSimulate ==
  ASSUME ResultsInv, CalmInv, NEW w \in Workers,
         Prepare(w) \/ Sync(w) \/ Publish(w)
  PROVE  [Lifecycle!Next]_(Lifecycle!vars)
<1> DEFINE status == [x \in Emails |-> row[x].status]
           synced == {x \in Emails : row[x].synced}
<1>0. UnderWay /\ RunInv /\ OwnRun(w) /\ row \in [Emails -> Row]
  BY DEF ResultsInv, LockInv, TypeInv, TypeOK, CalmInv
<1>e. PICK e \in Emails : e = msg[w].email
  BY <1>0, Messages DEF Prepare, Sync, Publish, UnderWay
<1>1. CASE Prepare(w)
  <2>1. CASE UNCHANGED row
    <3>1. SameStatus /\ SameSynced
      BY <2>1 DEF SameStatus, SameSynced
    <3>2. QED
      BY <1>1, <3>1, Stutters DEF Prepare
  <2>2. CASE Present(e) /\ row' = [row EXCEPT ![e] =
               [status |-> "processing", age |-> 0,
                retried |-> row[e].retried, synced |-> FALSE,
                dropped |-> FALSE]]
    <3>1. status[e] \in Status
      BY <1>0, <1>e, <2>2 DEF Present, Row
    <3>2. SaveAccepts(status[e], "processing")
      BY <3>1 DEF SaveAccepts, CanTransitionTo, NextStates, Status
    <3>3. /\ row'[e].status = "processing" /\ ~row'[e].synced
          /\ \A x \in Emails \ {e} : row'[x] = row[x]
      BY <1>0, <1>e, <2>2
    <3>4. status' = [status EXCEPT ![e] = "processing"]
      BY <1>e, <3>3
    <3>5. synced' = synced \ {e}
      BY <1>e, <3>3
    <3>6. Lifecycle!Begin(e)
      BY <1>1, <3>2, <3>4, <3>5
      DEF Prepare, Lifecycle!Begin, SaveAccepts, Lifecycle!SaveAccepts,
          CanTransitionTo, Lifecycle!CanTransitionTo,
          NextStates, Lifecycle!NextStates, Status, Lifecycle!Status
    <3>7. QED
      BY <1>e, <3>6 DEF Lifecycle!Next
  <2>3. QED
    BY <1>1, <1>e, <2>1, <2>2 DEF Prepare
<1>2. CASE Sync(w)
  <2>1. CASE UNCHANGED row
    <3>1. SameStatus /\ SameSynced
      BY <2>1 DEF SameStatus, SameSynced
    <3>2. QED
      BY <1>2, <3>1, Stutters DEF Sync
  <2>2. CASE Present(e) /\ row' = [row EXCEPT ![e] =
               [status |-> row[e].status, age |-> 0,
                retried |-> row[e].retried,
                synced |-> row[e].synced \/ mem[w].err = "none",
                dropped |-> row[e].dropped]]
    <3>1. /\ SameStatus
          /\ row'[e].synced = (row[e].synced \/ mem[w].err = "none")
          /\ \A x \in Emails \ {e} : row'[x] = row[x]
      BY <1>0, <1>e, <2>2 DEF SameStatus
    <3>2. CASE row'[e].synced = row[e].synced
      <4>1. SameSynced
        BY <1>e, <3>1, <3>2 DEF SameSynced
      <4>2. QED
        BY <1>2, <3>1, <4>1, Stutters DEF Sync
    <3>3. CASE row'[e].synced # row[e].synced
      <4>1. row[e].status = "processing"
        BY <1>0, <1>2, <1>e, <2>2 DEF Sync, OwnRun, AfterPrepare, Present, Gone
      <4>2. status' = status
        BY <3>1 DEF SameStatus
      <4>3. row'[e].synced
        <5>1. row[e].synced \in BOOLEAN
          BY <1>0, <1>e DEF Row
        <5>2. QED
          BY <3>1, <3>3, <5>1
      <4>4. synced' = synced \cup {e}
        BY <1>e, <3>1, <4>3
      <4>5. Lifecycle!Store(e)
        BY <1>2, <1>e, <4>1, <4>2, <4>4 DEF Sync, Lifecycle!Store
      <4>6. QED
        BY <1>e, <4>5 DEF Lifecycle!Next
    <3>4. QED
      BY <3>2, <3>3
  <2>3. QED
    BY <1>2, <1>e, <2>1, <2>2 DEF Sync
<1>3. CASE Publish(w)
  <2>1. SameStatus /\ SameSynced /\ status' = status /\ synced' = synced
    BY <1>3 DEF Publish, SameStatus, SameSynced
  <2>2. CASE UNCHANGED event
    BY <2>1, <2>2, Stutters
  <2>3. CASE Present(e) /\ event' = event \cup {e}
    <3>1. row[e].status = "processing" /\ row[e].synced
      BY <1>0, <1>3, <1>e, <2>3
      DEF Publish, OwnRun, RunInv, AfterPrepare, Present, Gone
    <3>2. Lifecycle!Announce(e)
      BY <1>e, <2>1, <2>3, <3>1 DEF Lifecycle!Announce
    <3>3. QED
      BY <1>e, <3>2 DEF Lifecycle!Next
  <2>4. QED
    BY <1>3, <1>e, <2>2, <2>3 DEF Publish
<1>4. QED
  BY <1>1, <1>2, <1>3

(* The verdict: Succeed or Fail.                                             *)
LEMMA VerdictsSimulate ==
  ASSUME ResultsInv, CalmInv, TypeInv', NEW w \in Workers,
         Write(w) \/ RescueWrite(w)
  PROVE  [Lifecycle!Next]_(Lifecycle!vars)
<1> USE DEF CanTransitionTo, Lifecycle!CanTransitionTo,
            NextStates, Lifecycle!NextStates, Status, Lifecycle!Status
<1>0. /\ UnderWay /\ RunInv /\ OwnRun(w)
      /\ row \in [Emails -> Row] /\ row' \in [Emails -> Row]
  BY DEF ResultsInv, LockInv, TypeInv, TypeOK, CalmInv
<1>e. PICK e \in Emails : e = msg[w].email /\ mem[w].target = e
  BY <1>0, Messages DEF Write, RescueWrite, UnderWay, OwnRun, Targeted
<1>u. event' = event
  BY DEF Write, RescueWrite
<1>1. CASE UNCHANGED row
  <2>1. SameStatus /\ SameSynced
    BY <1>1 DEF SameStatus, SameSynced
  <2>2. QED
    BY <1>u, <2>1, Stutters
<1>2. CASE Write(w) /\ Present(e) /\ WriteStatus(e, Verdict(w))
  <2>1. row[e].status = "processing"
    BY <1>0, <1>2, <1>e DEF Write, OwnRun, AfterPrepare, Present, Gone
  <2>2. ASSUME NEW s \in {"success", "failed"}, Verdict(w) = s
        PROVE  Lifecycle!Become(e, s)
    BY <1>0, <1>2, <1>u, <2>2, StatusBecomes
  <2>3. CASE Verdict(w) = "success"
    <3>1. row[e].synced
      BY <1>0, <1>2, <1>e, <2>3 DEF Write, Verdict, RunInv
    <3>2. Lifecycle!Succeed(e)
      BY <1>e, <2>1, <2>2, <2>3, <3>1 DEF Lifecycle!Succeed
    <3>3. QED
      BY <1>e, <3>2 DEF Lifecycle!Next
  <2>4. CASE Verdict(w) = "failed"
    <3>1. Lifecycle!Fail(e)
      BY <1>e, <2>1, <2>2, <2>4 DEF Lifecycle!Fail
    <3>2. QED
      BY <1>e, <3>1 DEF Lifecycle!Next
  <2>5. QED
    BY <2>3, <2>4 DEF Verdict
<1>3. CASE RescueWrite(w) /\ Present(e) /\ WriteStatus(e, "failed")
  <2>1. row[e].status \in {"fetched", "processing", "failed"}
    BY <1>0, <1>3, <1>e DEF RescueWrite, OwnRun, Present, Gone
  <2>2. CASE row[e].status = "failed"
    <3>1. SameStatus /\ SameSynced
      BY <1>0, <1>3, <1>e, <2>2, WriteStatusRow DEF SameStatus, SameSynced
    <3>2. QED
      BY <1>u, <3>1, Stutters
  <2>3. CASE row[e].status # "failed"
    <3>1. Lifecycle!Become(e, "failed")
      BY <1>0, <1>3, <1>e, <1>u, StatusBecomes
    <3>2. Lifecycle!Fail(e)
      BY <1>e, <2>1, <2>3, <3>1 DEF Lifecycle!Fail
    <3>3. QED
      BY <1>e, <3>2 DEF Lifecycle!Next
  <2>4. QED
    BY <2>2, <2>3
<1>4. CASE RescueWrite(w) /\ Drop(e)
  <2>1. SameStatus /\ SameSynced
    BY <1>0, <1>4, <1>e, DropRow DEF SameStatus, SameSynced
  <2>2. QED
    BY <1>u, <2>1, Stutters
<1>5. QED
  BY <1>1, <1>2, <1>3, <1>4, <1>e DEF Write, RescueWrite

(* Every other step is a stutter.                                            *)
LEMMA SyncedActions ==
  ASSUME TypeInv, Next
  PROVE  SameSynced \/ \E w \in Workers : Prepare(w) \/ Sync(w)
<1> USE DEF worker, shared, others
<1>0. row \in [Emails -> Row] /\ UnderWay /\ reset.todo \subseteq Snapshot
  BY DEF TypeInv, TypeOK
<1>u. UNCHANGED row => SameSynced
  BY DEF SameSynced
<1>t. ASSUME NEW e \in Emails, Touch(e) \/ Drop(e) PROVE SameSynced
  BY <1>0, <1>t, TouchRow, DropRow DEF SameSynced
<1>w. ASSUME NEW e \in Emails, NEW s \in Status \cup Gone, WriteStatus(e, s)
      PROVE  SameSynced
  BY <1>0, <1>w, WriteStatusRow DEF SameSynced
<1>1. ASSUME NEW e \in Emails,
             Ingest(e) \/ Delete(e) \/ Age(e) \/ AdminReprocess(e)
      PROVE  SameSynced
  <2>1. CASE Age(e)
    BY <1>0, <2>1 DEF Age, Row, SameSynced
  <2>2. QED
    BY <1>1, <1>u, <1>w, <2>1
    DEF Ingest, Delete, AdminReprocess, Status, Gone
<1>2. ASSUME NEW c \in Clients, ClientStep(c) PROVE SameSynced
  <2>1. client[c].email \in Emails
    BY <1>0, <1>2 DEF ClientStep, RetryMark, RetryQueue, RetryUndo,
                      RetryUndoWrite, UnderWay
  <2>2. QED
    BY <1>2, <1>t, <1>u, <1>w, <2>1
    DEF ClientStep, RetryMark, RetryQueue, RetryUndo, RetryUndoWrite, Status
<1>3. CASE ResetStep
  <2>1. ASSUME NEW x \in reset.todo, ResetRetries(x) PROVE SameSynced
    <3>1. x.email \in Emails
      BY <1>0 DEF Snapshot
    <3>2. UNCHANGED row \/ row' = [row EXCEPT ![x.email].retried = TRUE]
      BY <2>1 DEF ResetRetries
    <3>3. QED
      BY <1>0, <1>u, <3>1, <3>2, RetriedRow DEF SameSynced
  <2>2. CASE ResetWrite
    BY <1>0, <1>u, <2>2 DEF ResetWrite, UnderWay, SameSynced, Row
  <2>3. ResetScan \/ (\E x \in reset.todo : ResetFails(x)) => UNCHANGED row
    BY DEF ResetScan, ResetFails
  <2>4. QED
    BY <1>3, <1>u, <2>1, <2>2, <2>3 DEF ResetStep
<1>4. ASSUME NEW w \in Workers, WorkerStep(w), ~Prepare(w), ~Sync(w)
      PROVE  SameSynced
  <2>1. pc[w] # "idle" => msg[w].email \in Emails
    BY <1>0, Messages DEF UnderWay
  <2>2. CASE Reconcile(w)
    <3>1. \/ UNCHANGED row \/ Drop(msg[w].email)
          \/ \E S \in SUBSET Emails : Renew(S)
      BY <2>2 DEF Reconcile
    <3>2. msg[w].email \in Emails
      BY <2>1, <2>2 DEF Reconcile
    <3>3. QED
      BY <1>t, <1>u, <3>1, <3>2, RenewRow DEF SameSynced, TypeInv
  <2>3. CASE StartWorkflow(w) \/ Credits(w) \/ Nodes(w) \/ Load(w)
    BY <1>t, <1>u, <2>1, <2>3 DEF StartWorkflow, Credits, Nodes, Load
  <2>4. CASE Write(w) \/ RescueWrite(w)
    <3>1. mem[w].target \in Emails /\ Verdict(w) \in Status
      BY <1>0, <2>4 DEF Write, RescueWrite, UnderWay, Verdict, Status
    <3>2. QED
      BY <1>t, <1>u, <1>w, <2>4, <3>1 DEF Write, RescueWrite, Status
  <2>5. \/ UNCHANGED row
        \/ Reconcile(w) \/ StartWorkflow(w) \/ Credits(w) \/ Nodes(w)
        \/ Load(w) \/ Write(w) \/ RescueWrite(w) \/ Rescue(w)
    BY <1>4 DEF WorkerStep, Take, Skip, Release, EnqueueWorkflow, MarkFailed,
                ErrorHandler, GraphFails, Publish, Settle
  <2>6. CASE Rescue(w)
    <3>1. mem[w].target \in Emails
      BY <1>0, <2>6 DEF Rescue, UnderWay
    <3>2. QED
      BY <1>t, <1>u, <2>6, <3>1 DEF Rescue
  <2>7. QED
    BY <1>u, <2>2, <2>3, <2>4, <2>5, <2>6
<1>5. ASSUME \/ \E c \in Clients, e \in Emails : RetryRead(c, e)
             \/ \E c \in Clients : ClientDies(c)
             \/ \E w \in Workers : Crash(w) \/ Recycle(w)
             \/ \E m \in Message : Expire(m)
             \/ Recover
      PROVE  UNCHANGED row
  BY <1>5 DEF RetryRead, ClientDies, Crash, Recycle, Expire, Recover
<1>6. QED
  BY <1>1, <1>2, <1>3, <1>4, <1>5, <1>u DEF Next, Environment

LEMMA LifecycleStep ==
  Calm /\ ResultsInv /\ CalmInv /\ [Next]_vars
    => [Lifecycle!Next]_(Lifecycle!vars)
<1> SUFFICES ASSUME Calm, ResultsInv, CalmInv, [Next]_vars
             PROVE  [Lifecycle!Next]_(Lifecycle!vars)
  OBVIOUS
<1>0. TypeInv /\ TypeInv'
  BY TypeStep DEF ResultsInv, LockInv
<1>1. CASE UNCHANGED vars
  BY <1>1, Stutters DEF vars, SameStatus, SameSynced
<1>2. CASE Next
  <2>1. CASE SameStatus /\ SameSynced /\ UNCHANGED event
    BY <2>1, Stutters
  <2>2. QED
    BY <1>0, <1>2, <2>1, CalmActions, StatusActions, SyncedActions,
       OnlyPublishPublishes, UsersSimulate, RunsSimulate, VerdictsSimulate
    DEF ResetStep
<1>3. QED
  BY <1>1, <1>2

(* When nothing disturbs the runs, the pipeline, with its queue, its locks,  *)
(* its retries, duplicates, crashes and recovery, is the lifecycle a user is *)
(* promised: every change of a status is one EMAIL_STATE_MACHINE lists, and  *)
(* results, event and verdict come in this order while it is PROCESSING.     *)
THEOREM PipelineIsLifecycle ==
  ASSUME Calm
  PROVE  Spec => LifecycleSpec
<1>1. Init => ResultsInv /\ CalmInv /\ Lifecycle!Init
  BY ResultsInit, CalmInit, LifecycleInit
<1>2. ResultsInv /\ CalmInv /\ [Next]_vars => (ResultsInv /\ CalmInv)'
  BY ResultsStep, CalmStep DEF Calm
<1>3. ResultsInv /\ CalmInv /\ [Next]_vars
        => [Lifecycle!Next]_(Lifecycle!vars)
  BY LifecycleStep
<1>4. QED
  BY <1>1, <1>2, <1>3, PTL DEF Spec, LifecycleSpec, Lifecycle!Spec
-----------------------------------------------------------------------------
(* An email that is PROCESSING is in somebody's hands                        *)

(* One worker process that does not die, and no task outlasts its lock.      *)
(* Anything else may happen, the periodic reset included.  With a second     *)
(* worker a message can be dropped while the other one, done with the email, *)
(* still holds the lock.                                                     *)
Single ==
  /\ NoOverruns
  /\ MaxCrashes = 0
  /\ \A v, w \in Workers : v = w

Waiting(e) ==
  \/ \E m \in Message : m.email = e /\ queue[m] > 0
  \/ \E c \in Clients : client[c].email = e

AtRest ==
  /\ \A w \in Workers : pc[w] = "idle" => msg[w] = None
  /\ \A c \in Clients : client[c].pc = "idle" => client[c].email = None

LocksOwned == \A m \in locks : \E w \in Workers : msg[w] = m

(* No worker is needed for this email.                                       *)
Accounted(e) ==
  row[e].status = "processing" /\ ~row[e].dropped => Waiting(e)

(* A rescue is about the email of its message, unless that one was deleted   *)
(* or could not be read.                                                     *)
RescuesOwn ==
  \A w \in Workers : pc[w] \in {"rescue", "rescueWrite"} =>
    mem[w].target = msg[w].email \/ Accounted(msg[w].email)

(* The merge task read a status that it may not fail.  If the email is       *)
(* PROCESSING by now, whoever marked it is going to queue it, or has.        *)
NotForgotten ==
  \A w \in Workers :
    pc[w] \in {"enqueue", "markFailed"}
      /\ mem[w].seen \notin {"fetched", "processing"}
        => Accounted(msg[w].email)

SingleInv ==
  AllKnown /\ AtRest /\ LocksOwned /\ RescuesOwn /\ NotForgotten
    /\ ProcessingIsOwned

LEMMA SingleInit == Init => SingleInv
BY KnownInit DEF Init, SingleInv, AtRest, LocksOwned, RescuesOwn, NotForgotten,
                 ProcessingIsOwned, NoClient

LEMMA SingleActions ==
  ASSUME Single, TypeInv, SingleInv
  PROVE  /\ \A w \in Workers : ~Crash(w)
         /\ \A c \in Clients : ~ClientDies(c)
         /\ \A w \in Workers, m \in Message : ~Skip(w, m)
<1>1. budget.crashes = 0
  BY DEF Single, TypeInv, TypeOK, Budget
<1>2. (\A w \in Workers : ~Crash(w)) /\ \A c \in Clients : ~ClientDies(c)
  BY <1>1 DEF Single, Crash, ClientDies
<1>3. ASSUME NEW w \in Workers, NEW m \in Message, Skip(w, m) PROVE FALSE
  BY <1>3 DEF Single, Skip, SingleInv, AtRest, LocksOwned
<1>4. QED
  BY <1>2, <1>3

LEMMA QueueGrows ==
  ASSUME TypeInv, Next,
         \A w \in Workers, m \in Message : ~Take(w, m) /\ ~Skip(w, m)
  PROVE  \A m \in Message : queue[m] > 0 => queue'[m] > 0
<1> USE DEF worker, shared, others
<1>0. TypeOK /\ UnderWay /\ reset.todo \subseteq Snapshot
  BY DEF TypeInv, TypeOK
<1>1. ASSUME NEW n \in Message, Put(n)
      PROVE  \A m \in Message : queue[m] > 0 => queue'[m] > 0
  BY <1>0, <1>1 DEF Put, TypeOK
<1>2. CASE Recover
  BY <1>0, <1>2 DEF Recover, TypeOK
<1>3. UNCHANGED queue \/ Recover \/ \E n \in Message : Put(n)
  <2>1. ASSUME NEW e \in Emails, Ingest(e) \/ AdminReprocess(e)
        PROVE  UNCHANGED queue \/ \E n \in Message : Put(n)
    BY <2>1, Messages DEF Ingest, AdminReprocess
  <2>2. ASSUME NEW c \in Clients, RetryQueue(c)
        PROVE  UNCHANGED queue \/ \E n \in Message : Put(n)
    BY <1>0, <2>2, Messages DEF RetryQueue, UnderWay
  <2>3. ASSUME NEW w \in Workers, EnqueueWorkflow(w) \/ Crash(w)
        PROVE  UNCHANGED queue \/ \E n \in Message : Put(n)
    BY <1>0, <2>3, Messages DEF EnqueueWorkflow, Crash, UnderWay
  <2>4. ASSUME NEW x \in reset.todo, ResetRetries(x)
        PROVE  UNCHANGED queue \/ \E n \in Message : Put(n)
    BY <1>0, <2>4, Messages DEF ResetRetries, Snapshot
  <2>5. QED
    BY <2>1, <2>2, <2>3, <2>4 DEF Next, WorkerStep, ClientStep, ResetStep,
       Environment, ResetScan, ResetFails, ResetWrite, Age, Delete, RetryRead,
       RetryMark, RetryUndo, RetryUndoWrite, ClientDies,
       Release, Expire, Recycle, Reconcile, MarkFailed, StartWorkflow,
       Prepare, Credits, Nodes, ErrorHandler, GraphFails,
       Load, Sync, Publish, Settle, Write, Rescue, RescueWrite
<1>4. QED
  BY <1>1, <1>2, <1>3

(* Nobody who waits for an email lets go of it while it is PROCESSING,       *)
(* except a worker that takes its message and a request whose save of FAILED *)
(* is an error itself.                                                       *)
LEMMA WaitingStep ==
  ASSUME TypeInv, AtRest, Next,
         \A w \in Workers, m \in Message : ~Take(w, m) /\ ~Skip(w, m),
         \A c \in Clients : ~ClientDies(c),
         NEW e \in Emails, Waiting(e),
         row'[e].status = "processing", ~row'[e].dropped
  PROVE  Waiting(e)'
<1> USE DEF worker, shared, others
<1>0. TypeOK /\ UnderWay /\ row \in [Emails -> Row]
  BY DEF TypeInv, TypeOK
<1>1. CASE \E m \in Message : m.email = e /\ queue[m] > 0
  BY <1>1, QueueGrows DEF Waiting
<1>2. ASSUME NEW c \in Clients, client[c].email = e PROVE Waiting(e)'
  <2>0. client[c].pc # "idle"
    BY <1>2 DEF AtRest
  <2>1. CASE client'[c] = client[c]
    BY <1>2, <2>1 DEF Waiting
  <2>2. CASE RetryMark(c)
    <3>1. CASE Present(e)
      <4>1. \E label \in {"queue", "undo"} :
              client' = [client EXCEPT ![c].pc = label]
        BY <1>2, <2>2, <3>1 DEF RetryMark
      <4>2. client'[c].email = e
        BY <1>0, <1>2, <4>1 DEF TypeOK
      <4>3. QED
        BY <4>2 DEF Waiting
    <3>2. CASE ~Present(e)
      <4>1. UNCHANGED row
        BY <1>2, <2>2, <3>2 DEF RetryMark
      <4>2. QED
        BY <3>2, <4>1 DEF Present, Gone
    <3>3. QED
      BY <3>1, <3>2
  <2>3. CASE RetryQueue(c)
    <3>1. CASE Put(Merge(e))
      <4>1. queue'[Merge(e)] > 0 /\ Merge(e) \in Message /\ Merge(e).email = e
        BY <1>0, <3>1, Messages DEF Put, TypeOK, Merge
      <4>2. QED
        BY <4>1 DEF Waiting
    <3>2. CASE client' = [client EXCEPT ![c].pc = "undo"]
      <4>1. client'[c].email = e
        BY <1>0, <1>2, <3>2 DEF TypeOK
      <4>2. QED
        BY <4>1 DEF Waiting
    <3>3. QED
      BY <1>2, <2>3, <3>1, <3>2 DEF RetryQueue
  <2>4. CASE RetryUndo(c)
    <3>1. ~Drop(e)
      BY <1>0, DropRow
    <3>2. row[e].status = "processing"
      BY <1>2, <2>4, <3>1 DEF RetryUndo
    <3>3. SaveAccepts(row[e].status, "failed")
      BY <3>2 DEF SaveAccepts, CanTransitionTo, NextStates, Status
    <3>4. client'[c].email = e
      BY <1>0, <1>2, <2>4, <3>1, <3>3 DEF RetryUndo, TypeOK
    <3>5. QED
      BY <3>4 DEF Waiting
  <2>5. CASE RetryUndoWrite(c)
    BY <1>0, <1>2, <2>5, WriteStatusRow, DropRow
    DEF RetryUndoWrite, Present, Gone, Status
  <2>6. client'[c] # client[c] => ClientStep(c)
    <3>1. ASSUME NEW d \in Clients, d # c,
                 ClientStep(d) \/ \E x \in Emails : RetryRead(d, x)
          PROVE  client'[c] = client[c]
      BY <1>0, <3>1 DEF ClientStep, RetryMark, RetryQueue, RetryUndo,
                        RetryUndoWrite, RetryRead, TypeOK
    <3>2. ~\E x \in Emails : RetryRead(c, x)
      BY <2>0 DEF RetryRead
    <3>3. QED
      BY <3>1, <3>2 DEF Next, WorkerStep, ResetStep, Environment,
       ResetScan, ResetRetries, ResetFails, ResetWrite,
       Ingest, Age, Delete, AdminReprocess,
       Take, Skip, Release, Crash, Expire,
       Recycle, Reconcile, EnqueueWorkflow, MarkFailed, StartWorkflow,
       Prepare, Credits, Nodes, ErrorHandler, GraphFails,
       Load, Sync, Publish, Settle, Write, Rescue, RescueWrite, Recover
  <2>7. QED
    BY <2>1, <2>2, <2>3, <2>4, <2>5, <2>6 DEF ClientStep
<1>3. QED
  BY <1>1, <1>2 DEF Waiting

(* An email becomes PROCESSING, or is written again as such after a database *)
(* error, by a request or by a run of its own.                               *)
LEMMA MarksWait ==
  ASSUME TypeInv, Next, NEW e \in Emails,
         row'[e].status = "processing", ~row'[e].dropped,
         row[e].status # "processing" \/ row[e].dropped
  PROVE  \/ Waiting(e)'
         \/ \E w \in Workers : Prepare(w) /\ msg[w].email = e
<1>0. TypeOK /\ UnderWay /\ row \in [Emails -> Row]
  BY DEF TypeInv, TypeOK
<1>1. ASSUME NEW x \in Emails, NEW s \in Status \cup Gone, s # "processing"
      PROVE  ~WriteStatus(x, s)
  BY <1>0, <1>1, WriteStatusRow
<1>d. ~UNCHANGED row /\ \A x \in Emails : ~Drop(x) /\ ~Touch(x)
  BY <1>0, DropRow, TouchRow
<1>2. ASSUME NEW x \in Emails PROVE ~Ingest(x) /\ ~Delete(x)
  BY <1>1 DEF Ingest, Delete, Status, Gone
<1>3. ASSUME NEW c \in Clients, RetryMark(c) PROVE Waiting(e)'
  <2>1. client[c].email \in Emails
    BY <1>0, <1>3 DEF RetryMark, UnderWay
  <2>2. WriteStatus(client[c].email, "processing")
          /\ \E label \in {"queue", "undo"} :
               client' = [client EXCEPT ![c].pc = label]
    BY <1>3, <1>d, <2>1 DEF RetryMark
  <2>3. client[c].email = e
    BY <1>0, <2>1, <2>2, WriteStatusRow DEF Status
  <2>4. client'[c].email = e
    BY <1>0, <2>2, <2>3 DEF TypeOK
  <2>5. QED
    BY <2>4 DEF Waiting
<1>4. ASSUME NEW c \in Clients PROVE ~RetryUndoWrite(c)
  <2>1. RetryUndoWrite(c) => client[c].email \in Emails
    BY <1>0 DEF RetryUndoWrite, UnderWay
  <2>2. QED
    BY <1>1, <1>d, <2>1 DEF RetryUndoWrite, Status
<1>5. ASSUME NEW w \in Workers PROVE ~Write(w) /\ ~RescueWrite(w)
  <2>1. Write(w) \/ RescueWrite(w) => mem[w].target \in Emails
    BY <1>0 DEF Write, RescueWrite, UnderWay
  <2>2. Verdict(w) \in {"success", "failed"}
    BY DEF Verdict
  <2>3. QED
    BY <1>1, <1>d, <2>1, <2>2 DEF Write, RescueWrite, Status
<1>6. ASSUME NEW w \in Workers, Prepare(w) PROVE msg[w].email = e
  BY <1>0, <1>6, <1>d DEF Prepare
<1>7. ~ResetWrite
  BY <1>0, <1>d DEF ResetWrite, UnderWay, Row
<1>8. QED
  BY <1>2, <1>3, <1>4, <1>5, <1>6, <1>7, StatusActions
  DEF SameStatus, DropsKept

(* An email that needs no worker goes on needing none until one prepares it. *)
LEMMA AccountedStep ==
  ASSUME TypeInv, AtRest, Next,
         \A w \in Workers, m \in Message : ~Take(w, m) /\ ~Skip(w, m),
         \A c \in Clients : ~ClientDies(c),
         NEW e \in Emails, Accounted(e),
         \A w \in Workers : Prepare(w) => msg[w].email # e
  PROVE  Accounted(e)'
<1> SUFFICES ASSUME row'[e].status = "processing", ~row'[e].dropped
             PROVE  Waiting(e)'
  BY DEF Accounted
<1>1. CASE row[e].status = "processing" /\ ~row[e].dropped
  BY <1>1, WaitingStep DEF Accounted
<1>2. CASE row[e].status # "processing" \/ row[e].dropped
  BY <1>2, MarksWait
<1>3. QED
  BY <1>1, <1>2

LEMMA RestStep ==
  ASSUME TypeInv, AtRest, Next
  PROVE  AtRest'
<1> USE DEF worker, shared, others
<1>0. TypeOK /\ UnderWay
  BY DEF TypeInv, TypeOK
<1>1. \A c \in Clients : client'[c].pc = "idle" => client'[c].email = None
  <2>1. ASSUME NEW d \in Clients,
               ClientStep(d) \/ ClientDies(d) \/ \E e \in Emails : RetryRead(d, e)
        PROVE  /\ \A c \in Clients \ {d} : client'[c] = client[c]
               /\ client'[d].pc = "idle" => client'[d].email = None
    BY <1>0, <2>1 DEF ClientStep, RetryMark, RetryQueue, RetryUndo,
       RetryUndoWrite, RetryRead, ClientDies, TypeOK, NoClient
  <2>2. \/ UNCHANGED client
        \/ \E d \in Clients : ClientStep(d) \/ ClientDies(d)
                                \/ \E e \in Emails : RetryRead(d, e)
    BY DEF Next, WorkerStep, ResetStep, Environment,
       ResetScan, ResetRetries, ResetFails, ResetWrite,
       Ingest, Age, Delete, AdminReprocess,
       Take, Skip, Release, Crash, Expire,
       Recycle, Reconcile, EnqueueWorkflow, MarkFailed, StartWorkflow,
       Prepare, Credits, Nodes, ErrorHandler, GraphFails,
       Load, Sync, Publish, Settle, Write, Rescue, RescueWrite, Recover
  <2>3. QED
    BY <2>1, <2>2 DEF AtRest
<1>2. \A w \in Workers : pc'[w] = "idle" => msg'[w] = None
  <2>1. \/ UNCHANGED <<pc, msg>>
        \/ \E w \in Workers :
             \/ UNCHANGED msg /\ \E label \in WorkerPc \ {"idle"} : Goto(w, label)
             \/ /\ pc' = [pc EXCEPT ![w] = "idle"]
                /\ msg' = [msg EXCEPT ![w] = None]
             \/ \E m \in Message : Take(w, m)
    <3>1. ASSUME NEW w \in Workers,
                 \/ Reconcile(w) \/ EnqueueWorkflow(w) \/ MarkFailed(w)
                 \/ StartWorkflow(w) \/ Prepare(w) \/ Credits(w) \/ Nodes(w)
                 \/ ErrorHandler(w) \/ GraphFails(w)
                 \/ Load(w) \/ Sync(w) \/ Publish(w) \/ Settle(w) \/ Write(w)
                 \/ Rescue(w) \/ RescueWrite(w)
          PROVE  /\ UNCHANGED msg
                 /\ \E label \in WorkerPc \ {"idle"} : Goto(w, label)
      BY <3>1 DEF Reconcile, EnqueueWorkflow, MarkFailed, StartWorkflow,
         Prepare, Credits, Nodes, ErrorHandler, GraphFails, Load, Sync,
         Publish, Settle, Write, Rescue, RescueWrite, WorkerPc, AfterSync,
         ShouldHandleError
    <3>2. ASSUME NEW w \in Workers, Release(w) \/ Crash(w)
          PROVE  /\ pc' = [pc EXCEPT ![w] = "idle"]
                 /\ msg' = [msg EXCEPT ![w] = None]
      BY <3>2 DEF Release, Crash, Goto
    <3>3. QED
      BY <3>1, <3>2 DEF Next, WorkerStep, ClientStep, ResetStep, Environment,
         ResetScan, ResetRetries, ResetFails, ResetWrite,
         Ingest, Age, Delete, AdminReprocess,
         RetryRead, RetryMark, RetryQueue, RetryUndo, RetryUndoWrite,
         ClientDies, Skip, Expire, Recycle, Recover
  <2>2. ASSUME NEW w \in Workers, NEW m \in Message, Take(w, m)
        PROVE  \A v \in Workers : pc'[v] = "idle" => msg'[v] = None
    BY <1>0, <2>2 DEF Take, Goto, TypeOK, AtRest
  <2>3. QED
    BY <1>0, <2>1, <2>2 DEF Goto, TypeOK, AtRest
<1>3. QED
  BY <1>1, <1>2 DEF AtRest

LEMMA LocksOwnedStep ==
  ASSUME Single, TypeInv, SingleInv, Next
  PROVE  LocksOwned'
<1> USE DEF LocksOwned
<1>0. TypeOK /\ LocksOwned
  BY DEF TypeInv, SingleInv
<1>1. CASE UNCHANGED <<msg, locks>>
  BY <1>0, <1>1
<1>2. ASSUME NEW w \in Workers, NEW m \in Message, Take(w, m)
      PROVE  LocksOwned'
  <2>1. /\ locks' = locks \cup {m} /\ msg' = [msg EXCEPT ![w] = m]
        /\ msg[w] = None
    BY <1>2 DEF Take, AcquireLock, SingleInv, AtRest
  <2>2. QED
    BY <1>0, <2>1 DEF TypeOK
<1>3. ASSUME NEW w \in Workers, Release(w) PROVE LocksOwned'
  <2>1. locks' = locks \ {msg[w]} /\ msg' = [msg EXCEPT ![w] = None]
    BY <1>3 DEF Release
  <2>2. QED
    BY <1>0, <2>1 DEF TypeOK
<1>4. ASSUME NEW m \in Message, Expire(m) PROVE LocksOwned'
  BY <1>0, <1>4 DEF Expire, worker
<1>5. QED
  BY <1>1, <1>2, <1>3, <1>4, LockActions, SingleActions

(* Steps outside of the workers.                                             *)
LEMMA SingleOutside ==
  ASSUME Single, TypeInv, SingleInv, Next, UNCHANGED <<pc, msg, mem>>
  PROVE  RescuesOwn' /\ NotForgotten' /\ ProcessingIsOwned'
<1>0. TypeOK /\ UnderWay
  BY DEF TypeInv
<1>t. \A w \in Workers, m \in Message : ~Take(w, m) /\ ~Skip(w, m)
  BY <1>0, SingleActions DEF Take, TypeOK, Goto, SingleInv, AtRest
<1>p. \A w \in Workers : ~Prepare(w)
  BY <1>0 DEF Prepare, TypeOK, Goto
<1>1. \A e \in Emails : Accounted(e) => Accounted(e)'
  BY <1>t, <1>p, SingleActions, AccountedStep DEF SingleInv
<1>2. ASSUME NEW w \in Workers, pc[w] # "idle", Accounted(msg[w].email)
      PROVE  Accounted(msg[w].email)'
  <2>1. PICK e \in Emails : e = msg[w].email
    BY <1>0, <1>2, Messages DEF UnderWay
  <2>2. Accounted(e)'
    BY <1>1, <1>2, <2>1
  <2>3. QED
    BY <2>1, <2>2 DEF Accounted, Waiting
<1>3. RescuesOwn'
  BY <1>2 DEF SingleInv, RescuesOwn
<1>4. NotForgotten'
  BY <1>2 DEF SingleInv, NotForgotten
<1>5. ProcessingIsOwned'
  <2> SUFFICES ASSUME NEW e \in Emails, ~Accounted(e)'
               PROVE  \E w \in Workers : /\ msg[w] # None /\ msg[w].email = e
                                         /\ pc[w] # "release"
    BY DEF ProcessingIsOwned, Accounted, Waiting
  <2>1. ~Accounted(e)
    BY <1>1
  <2>2. QED
    BY <2>1 DEF SingleInv, ProcessingIsOwned, Accounted, Waiting
<1>6. QED
  BY <1>3, <1>4, <1>5

(* A worker takes a message: its email is in hand.  The one worker has no    *)
(* other.                                                                    *)
LEMMA SingleTakes ==
  ASSUME Single, TypeInv, SingleInv, Next,
         NEW w \in Workers, NEW m \in Message, Take(w, m)
  PROVE  RescuesOwn' /\ NotForgotten' /\ ProcessingIsOwned'
<1>0. TypeOK
  BY DEF TypeInv
<1>1. /\ pc'[w] \in {"reconcile", "start"} /\ msg'[w] = m /\ msg[w] = None
      /\ UNCHANGED <<row, client>>
      /\ \A n \in Message \ {m} : queue'[n] = queue[n]
  BY <1>0 DEF Take, Goto, TypeOK, SingleInv, AtRest, others
<1>2. \A v \in Workers : v = w
  BY DEF Single
<1>3. RescuesOwn' /\ NotForgotten'
  BY <1>1, <1>2 DEF RescuesOwn, NotForgotten
<1>4. ProcessingIsOwned'
  BY <1>0, <1>1, <1>2 DEF SingleInv, ProcessingIsOwned
<1>5. QED
  BY <1>3, <1>4

LEMMA SingleReleases ==
  ASSUME Single, TypeInv, SingleInv, Next, NEW w \in Workers, Release(w)
  PROVE  RescuesOwn' /\ NotForgotten' /\ ProcessingIsOwned'
<1>0. TypeOK
  BY DEF TypeInv
<1>1. /\ pc[w] = "release" /\ pc'[w] = "idle"
      /\ UNCHANGED <<row, client, queue>>
  BY <1>0 DEF Release, Goto, TypeOK, others
<1>2. \A v \in Workers : v = w
  BY DEF Single
<1>3. RescuesOwn' /\ NotForgotten'
  BY <1>1, <1>2 DEF RescuesOwn, NotForgotten
<1>4. ProcessingIsOwned'
  BY <1>1, <1>2 DEF SingleInv, ProcessingIsOwned
<1>5. QED
  BY <1>3, <1>4

(* A worker goes on.  It lets go of its email only when nobody is needed for *)
(* it.                                                                       *)
LEMMA SingleGoesOn ==
  ASSUME Single, TypeInv, SingleInv, Next, NEW w \in Workers,
         pc[w] # "idle", UNCHANGED msg,
         NEW e \in Emails, e = msg[w].email,
         pc'[w] = "release" => Accounted(e)',
         pc'[w] \in {"rescue", "rescueWrite"} =>
           mem'[w].target = e \/ Accounted(e)',
         pc'[w] \in {"enqueue", "markFailed"}
           /\ mem'[w].seen \notin {"fetched", "processing"}
             => Accounted(e)'
  PROVE  RescuesOwn' /\ NotForgotten' /\ ProcessingIsOwned'
<1>0. TypeOK /\ UnderWay
  BY DEF TypeInv
<1>t. \A v \in Workers, m \in Message : ~Take(v, m) /\ ~Skip(v, m)
  BY <1>0, SingleActions DEF Take, TypeOK, SingleInv, AtRest
<1>s. \A v \in Workers : v = w
  BY DEF Single
<1>a. Accounted(e)' => Accounted(msg[w].email)'
  BY DEF Accounted, Waiting
<1>1. RescuesOwn'
  BY <1>a, <1>s DEF RescuesOwn
<1>2. NotForgotten'
  BY <1>a, <1>s DEF NotForgotten
<1>3. ProcessingIsOwned'
  <2> SUFFICES ASSUME NEW x \in Emails, ~Accounted(x)'
               PROVE  /\ msg'[w] # None /\ msg'[w].email = x
                      /\ pc'[w] # "release"
    BY DEF ProcessingIsOwned, Accounted, Waiting
  <2>1. msg[w] # None
    BY <1>0 DEF UnderWay
  <2>2. x = e
    <3>1. CASE Accounted(x) /\ x # e
      BY <1>s, <1>t, <3>1, AccountedStep, SingleActions DEF SingleInv
    <3>2. CASE ~Accounted(x)
      BY <1>s, <3>2 DEF SingleInv, ProcessingIsOwned, Accounted, Waiting
    <3>3. QED
      BY <3>1, <3>2
  <2>3. QED
    BY <2>1, <2>2
<1>4. QED
  BY <1>1, <1>2, <1>3

(* The merge task.                                                           *)
LEMMA SingleMerges ==
  ASSUME Single, TypeInv, SingleInv, Next, NEW w \in Workers,
         Reconcile(w) \/ EnqueueWorkflow(w) \/ MarkFailed(w)
  PROVE  RescuesOwn' /\ NotForgotten' /\ ProcessingIsOwned'
<1> USE DEF worker, shared, others
<1>0. TypeOK /\ UnderWay /\ row \in [Emails -> Row]
  BY DEF TypeInv, TypeOK
<1>e. PICK e \in Emails : e = msg[w].email
  BY <1>0, Messages DEF UnderWay, Reconcile, EnqueueWorkflow, MarkFailed
<1>1. CASE Reconcile(w)
  <2>1. pc[w] # "idle" /\ UNCHANGED msg
    BY <1>1 DEF Reconcile
  <2>2. CASE Drop(e) /\ Goto(w, "release")
    <3>1. Accounted(e)'
      BY <1>0, <2>2, DropRow DEF Accounted
    <3>2. pc'[w] = "release"
      BY <1>0, <2>2 DEF Goto, TypeOK
    <3>3. QED
      BY <1>e, <2>1, <3>1, <3>2, SingleGoesOn
  <2>3. CASE ~Present(e) /\ Goto(w, "release") /\ UNCHANGED row
    <3>1. Accounted(e)'
      BY <2>3 DEF Accounted, Present, Gone
    <3>2. pc'[w] = "release"
      BY <1>0, <2>3 DEF Goto, TypeOK
    <3>3. QED
      BY <1>e, <2>1, <3>1, <3>2, SingleGoesOn
  <2>4. CASE /\ Present(e) /\ mem' = [mem EXCEPT ![w].seen = row[e].status]
             /\ UNCHANGED row \/ \E S \in SUBSET Emails : Renew(S)
             /\ Goto(w, "enqueue") \/ Goto(w, "markFailed")
    <3>1. pc'[w] \in {"enqueue", "markFailed"}
      BY <1>0, <2>4 DEF Goto, TypeOK
    <3>2. mem'[w].seen = row[e].status
      BY <1>0, <2>4 DEF TypeOK, Mem
    <3>3. row'[e].status = row[e].status
      BY <1>0, <2>4, RenewRow
    <3>4. QED
      BY <1>e, <2>1, <3>1, <3>2, <3>3, SingleGoesOn DEF Accounted
  <2>5. QED
    BY <1>1, <1>e, <2>2, <2>3, <2>4 DEF Reconcile
<1>2. CASE EnqueueWorkflow(w)
  <2>1. pc[w] = "enqueue" /\ UNCHANGED <<msg, mem, row, client>>
    BY <1>2 DEF EnqueueWorkflow
  <2>2. CASE Put(Workflow(e)) /\ Goto(w, "release")
    <3>1. /\ Workflow(e) \in Message /\ Workflow(e).email = e
          /\ queue'[Workflow(e)] > 0
      BY <1>0, <2>2, Messages DEF Put, TypeOK, Workflow
    <3>2. Waiting(e)'
      BY <3>1 DEF Waiting
    <3>3. pc'[w] = "release"
      BY <1>0, <2>2 DEF Goto, TypeOK
    <3>4. QED
      BY <1>e, <2>1, <3>2, <3>3, SingleGoesOn DEF Accounted
  <2>3. CASE Goto(w, "markFailed") /\ UNCHANGED queue
    <3>1. pc'[w] = "markFailed"
      BY <1>0, <2>3 DEF Goto, TypeOK
    <3>2. mem'[w].seen \notin {"fetched", "processing"} => Accounted(e)'
      BY <1>e, <2>1, <2>3 DEF SingleInv, NotForgotten, Accounted, Waiting
    <3>3. QED
      BY <1>e, <2>1, <3>1, <3>2, SingleGoesOn
  <2>4. QED
    BY <1>2, <1>e, <2>2, <2>3 DEF EnqueueWorkflow
<1>3. CASE MarkFailed(w)
  <2>1. pc[w] = "markFailed" /\ UNCHANGED <<msg, row, queue, client>>
    BY <1>3 DEF MarkFailed
  <2>2. mem'[w].target = e
    BY <1>0, <1>3, <1>e DEF MarkFailed, TypeOK, Mem
  <2>3. CASE CanTransitionTo(mem[w].seen, "failed")
    <3>1. pc'[w] = "rescue"
      BY <1>0, <1>3, <2>3 DEF MarkFailed, Goto, TypeOK
    <3>2. QED
      BY <1>e, <2>1, <2>2, <3>1, SingleGoesOn
  <2>4. CASE ~CanTransitionTo(mem[w].seen, "failed")
    <3>1. pc'[w] = "release"
      BY <1>0, <1>3, <2>4 DEF MarkFailed, Goto, TypeOK
    <3>2. mem[w].seen \notin {"fetched", "processing"}
      BY <2>4 DEF CanTransitionTo, NextStates, Status
    <3>3. Accounted(e)'
      BY <1>e, <2>1, <3>2 DEF SingleInv, NotForgotten, Accounted, Waiting
    <3>4. QED
      BY <1>e, <2>1, <3>1, <3>3, SingleGoesOn
  <2>5. QED
    BY <2>3, <2>4
<1>4. QED
  BY <1>1, <1>2, <1>3

(* The workflow and its nodes, up to the finalize node.                      *)
LEMMA SingleNodes ==
  ASSUME Single, TypeInv, SingleInv, Next, NEW w \in Workers,
         \/ StartWorkflow(w) \/ Prepare(w) \/ Credits(w) \/ Nodes(w)
         \/ ErrorHandler(w) \/ GraphFails(w)
  PROVE  RescuesOwn' /\ NotForgotten' /\ ProcessingIsOwned'
<1> USE DEF worker, shared, others
<1>0. TypeOK /\ UnderWay /\ row \in [Emails -> Row]
  BY DEF TypeInv, TypeOK
<1>e. PICK e \in Emails : e = msg[w].email
  BY <1>0, Messages DEF UnderWay, StartWorkflow, Prepare, Credits, Nodes,
                        ErrorHandler, GraphFails
<1>1. pc[w] # "idle" /\ UNCHANGED msg
  BY DEF StartWorkflow, Prepare, Credits, Nodes, ErrorHandler, GraphFails
<1>2. CASE StartWorkflow(w)
  <2>1. CASE Touch(e) /\ Goto(w, IF Present(e) THEN "prepare" ELSE "release")
    <3>1. row'[e].status = row[e].status
      BY <1>0, <2>1, TouchRow
    <3>2. \/ pc'[w] = "prepare"
          \/ pc'[w] = "release" /\ row[e].status # "processing"
      BY <1>0, <2>1 DEF Goto, TypeOK, Present, Gone
    <3>3. QED
      BY <1>1, <1>e, <3>1, <3>2, SingleGoesOn DEF Accounted
  <2>2. CASE Drop(e) /\ Goto(w, "release")
    <3>1. Accounted(e)' /\ pc'[w] = "release"
      BY <1>0, <2>2, DropRow DEF Accounted, Goto, TypeOK
    <3>2. QED
      BY <1>1, <1>e, <3>1, SingleGoesOn
  <2>3. QED
    BY <1>2, <1>e, <2>1, <2>2 DEF StartWorkflow
<1>3. CASE Prepare(w) \/ Credits(w) \/ Nodes(w) \/ ErrorHandler(w)
  <2>1. pc'[w] \in {"credits", "nodes", "errorHandler", "load"}
    BY <1>0, <1>3 DEF Prepare, Credits, Nodes, ErrorHandler, Goto, TypeOK,
                      ShouldHandleError
  <2>2. QED
    BY <1>1, <1>e, <2>1, SingleGoesOn
<1>4. CASE GraphFails(w)
  <2>1. pc'[w] = "rescue" /\ mem'[w].target = e
    BY <1>0, <1>4, <1>e DEF GraphFails, Goto, TypeOK, Mem
  <2>2. QED
    BY <1>1, <1>e, <2>1, SingleGoesOn
<1>5. QED
  BY <1>2, <1>3, <1>4

(* The finalize node and the rescue.                                         *)
LEMMA SingleFinalizes ==
  ASSUME Single, ResultsInv, SingleInv, Next, NEW w \in Workers,
         \/ Load(w) \/ Sync(w) \/ Publish(w) \/ Settle(w) \/ Write(w)
         \/ Rescue(w) \/ RescueWrite(w)
  PROVE  RescuesOwn' /\ NotForgotten' /\ ProcessingIsOwned'
<1> USE DEF worker, shared, others
<1>0. TypeInv /\ TypeOK /\ UnderWay /\ RunInv /\ row \in [Emails -> Row]
  BY DEF ResultsInv, LockInv, TypeInv, TypeOK
<1>b. pc[w] # "idle" /\ UNCHANGED msg
  BY DEF Load, Sync, Publish, Settle, Write, Rescue, RescueWrite
<1>e. PICK e \in Emails : e = msg[w].email
  BY <1>0, <1>b, Messages DEF UnderWay
<1>1. CASE Load(w)
  <2>1. CASE (~Present(e) /\ UNCHANGED row) \/ Drop(e)
    <3>1. Accounted(e)'
      BY <1>0, <2>1, DropRow DEF Accounted, Present, Gone
    <3>2. pc'[w] \in {"release", "rescue", "sync"}
      BY <1>0, <1>1 DEF Load, Goto, TypeOK
    <3>3. QED
      BY <1>0, <1>b, <1>e, <3>1, <3>2, SingleGoesOn
  <2>2. CASE Goto(w, "sync")
    <3>1. pc'[w] = "sync"
      BY <1>0, <2>2 DEF Goto, TypeOK
    <3>2. QED
      BY <1>0, <1>b, <1>e, <3>1, SingleGoesOn
  <2>3. QED
    BY <1>1, <1>e, <2>1, <2>2 DEF Load
<1>2. CASE Sync(w) \/ Publish(w) \/ Settle(w)
  <2>1. mem' = mem /\ mem[w].target = e
    BY <1>0, <1>2, <1>e DEF Sync, Publish, Settle, RunInv
  <2>2. pc'[w] \in {"rescue", "publish", "settle", "write"}
    BY <1>0, <1>2 DEF Sync, Publish, Settle, Goto, AfterSync, TypeOK
  <2>3. QED
    BY <1>0, <1>b, <1>e, <2>1, <2>2, SingleGoesOn
<1>3. CASE Write(w)
  <2>1. mem' = mem /\ mem[w].target = e
    BY <1>0, <1>3, <1>e DEF Write, RunInv
  <2>2. Verdict(w) \in {"success", "failed"}
    BY DEF Verdict
  <2>3. \/ pc'[w] = "release" /\ row'[e].status # "processing"
        \/ pc'[w] = "rescue"
    BY <1>0, <1>3, <2>1, <2>2, WriteStatusRow DEF Write, Goto, TypeOK, Status
  <2>4. QED
    BY <1>0, <1>b, <1>e, <2>1, <2>3, SingleGoesOn DEF Accounted
<1>4. CASE Rescue(w) \/ RescueWrite(w)
  <2>1. mem' = mem /\ (mem[w].target = e \/ Accounted(e))
    BY <1>4, <1>e DEF Rescue, RescueWrite, SingleInv, RescuesOwn
  <2>2. pc'[w] \in {"release", "rescueWrite"}
    BY <1>0, <1>4 DEF Rescue, RescueWrite, Goto, TypeOK
  <2>3. ASSUME mem[w].target = e, pc'[w] = "release" PROVE Accounted(e)'
    <3>1. CASE Drop(e)
      BY <1>0, <3>1, DropRow DEF Accounted
    <3>2. CASE Rescue(w) /\ ~Drop(e)
      <4>1. ~(Present(e) /\ SaveAccepts(row[e].status, "failed"))
              /\ UNCHANGED row
        BY <1>0, <2>3, <3>2 DEF Rescue, Goto, TypeOK
      <4>2. row[e].status # "processing"
        BY <4>1 DEF Present, Gone, SaveAccepts, CanTransitionTo, NextStates,
                    Status
      <4>3. QED
        BY <4>1, <4>2 DEF Accounted
    <3>3. CASE RescueWrite(w) /\ ~Drop(e)
      BY <1>0, <2>3, <3>3, WriteStatusRow
      DEF RescueWrite, Present, Gone, Status, Accounted
    <3>4. QED
      BY <1>4, <3>1, <3>2, <3>3
  <2>4. ASSUME Accounted(e) PROVE Accounted(e)'
    <3>1. pc[w] \in {"rescue", "rescueWrite"} /\ \A v \in Workers : v = w
      BY <1>4 DEF Rescue, RescueWrite, Single
    <3>2. \A v \in Workers : ~Prepare(v) /\ \A m \in Message : ~Take(v, m)
      BY <3>1 DEF Prepare, Take
    <3>3. QED
      BY <1>0, <2>4, <3>2, AccountedStep, SingleActions DEF SingleInv
  <2>5. QED
    BY <1>0, <1>b, <1>e, <2>1, <2>2, <2>3, <2>4, SingleGoesOn
<1>5. QED
  BY <1>1, <1>2, <1>3, <1>4

LEMMA SingleStep ==
  Single /\ ResultsInv /\ SingleInv /\ [Next]_vars => SingleInv'
<1> SUFFICES ASSUME Single, ResultsInv, SingleInv, [Next]_vars
             PROVE  SingleInv'
  OBVIOUS
<1>0. TypeInv
  BY DEF ResultsInv, LockInv
<1>1. CASE Next
  <2>1. AllKnown' /\ AtRest' /\ LocksOwned'
    BY <1>0, <1>1, KnownStep, RestStep, LocksOwnedStep DEF SingleInv
  <2>2. CASE UNCHANGED <<pc, msg, mem>>
    BY <1>0, <1>1, <2>1, <2>2, SingleOutside DEF SingleInv
  <2>3. UNCHANGED <<pc, msg, mem>> \/ \E w \in Workers : WorkerStep(w)
    BY <1>0, <1>1, SingleActions
    DEF Next, ClientStep, ResetStep, Environment,
        ResetScan, ResetRetries, ResetFails, ResetWrite,
        Ingest, Age, Delete, AdminReprocess,
        RetryRead, RetryMark, RetryQueue, RetryUndo, RetryUndoWrite,
        ClientDies, Expire, Recycle, Recover, worker, shared
  <2>4. ASSUME NEW w \in Workers, WorkerStep(w)
        PROVE  RescuesOwn' /\ NotForgotten' /\ ProcessingIsOwned'
    BY <1>0, <1>1, <2>4, SingleActions, SingleTakes, SingleReleases,
       SingleMerges, SingleNodes, SingleFinalizes DEF WorkerStep
  <2>5. QED
    BY <2>1, <2>2, <2>3, <2>4 DEF SingleInv
<1>2. CASE UNCHANGED vars
  BY <1>2 DEF vars, SingleInv, AllKnown, Known, AtRest, LocksOwned, RescuesOwn,
              NotForgotten, Accounted, Waiting, ProcessingIsOwned
<1>3. QED
  BY <1>1, <1>2

(* With one worker process that does not die, an email that is PROCESSING    *)
(* has a message, a worker or a request to show for it, whatever is retried, *)
(* reset, reprocessed or fails (merge_workflow marks an email before it      *)
(* queues it, and marks it FAILED when it cannot), unless a database error   *)
(* ended the step that would have moved it on.                               *)
THEOREM ProcessingIsInHand ==
  ASSUME Single
  PROVE  Spec => []ProcessingIsOwned
<1>1. Init => ResultsInv /\ SingleInv
  BY ResultsInit, SingleInit
<1>2. ResultsInv /\ SingleInv /\ [Next]_vars => (ResultsInv /\ SingleInv)'
  BY ResultsStep, SingleStep DEF Single
<1>3. ResultsInv /\ SingleInv => ProcessingIsOwned
  BY DEF SingleInv
<1>4. QED
  BY <1>1, <1>2, <1>3, PTL DEF Spec
=============================================================================
