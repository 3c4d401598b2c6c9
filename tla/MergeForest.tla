----------------------------- MODULE MergeForest -----------------------------
(***************************************************************************)
(* The merge relation between the emails of one user: EmailMessage has a   *)
(* column merged_into, and the emails that point to each other through it  *)
(* are one conversation.  These write it:                                  *)
(*                                                                         *)
(*   - the task process_email_merge of each email, whose reconcile is one  *)
(*     transaction that locks rows one after the other;                    *)
(*   - the batch merge of the user, one transaction over locked rows, and  *)
(*     the command merge_threadlines, which checks rows it has not locked; *)
(*   - the deletion of an email, which clears the pointers to it.          *)
(*                                                                         *)
(* The database runs with committed reads and row locks.  What a task has  *)
(* written is kept with the task until its transaction commits.            *)
(***************************************************************************)
EXTENDS Naturals, FiniteSets, Functions

CONSTANTS
  Mails,      \* bound: the emails received, by id
  Manuals,    \* bound: ids that manual merges take
  Mail,       \* Mails -> [day, refs, subject, forward, body, images]; a body
              \* is the set of its passages, empty if there is no text
  Today,      \* the day of all manual merges
  Long,       \* bodies of 120 characters or more
  Close,      \* pairs of bodies above a threshold of RapidFuzz
  Inside,     \* pairs of bodies: the first is a large part of the second
  Crews,      \* bound: the sets of workers that may run
  Budgets,    \* bound: what users and operators do, by kind
  None

Ids == Mails \cup Manuals
CrewMembers == UNION Crews
Auto == {"thread_relation", "forward_chain", "text_similarity"}

VARIABLES
  crew,      \* the workers that run
  budget,    \* what users and operators may still do
  fresh,     \* ids no manual merge has taken
  here,      \* the emails in the database
  mail,      \* what an email says
  into,      \* merged_into
  why,       \* merge_reason
  proof,     \* merge_evidence
  lock,      \* who locks the row of an email
  queue,     \* emails with a merge task in the broker
  task,      \* the merge task each worker runs
  command    \* the sources a running command has checked

vars == <<crew, budget, fresh, here, mail, into, why, proof, lock, queue, task, command>>
texts == <<fresh, mail>>
rows == <<texts, here, into, why, proof>>

NoHeads == [c \in {} |-> c]
Idle == [pc |-> "idle", email |-> None, heads |-> NoHeads, moved |-> {},
         target |-> None, proof |-> None]

Blank == [day |-> 0, refs |-> {}, subject |-> "", forward |-> FALSE,
          body |-> {}, images |-> {}]

Init ==
  /\ crew \in Crews
  /\ budget \in Budgets
  /\ fresh = Manuals
  /\ here = Mails
  /\ mail = [e \in Ids |-> IF e \in Mails THEN Mail[e] ELSE Blank]
  /\ into = [e \in Ids |-> None]
  /\ why = [e \in Ids |-> ""]
  /\ proof = [e \in Ids |-> None]
  /\ lock = [e \in Ids |-> None]
  /\ queue = Mails
  /\ task = [w \in CrewMembers |-> Idle]
  /\ command = {}

Starts(k) ==
  /\ k \in DOMAIN budget
  /\ budget[k] > 0
  /\ budget' = [budget EXCEPT ![k] = @ - 1]
-----------------------------------------------------------------------------
(* The relation *)

Children(e) == {c \in here : into[c] = e}

(* The emails that a walk along merged_into meets: the least set with the    *)
(* first one that no pointer leaves.                                         *)
Upward(S) == \A x \in S : into[x] \in S \cup {None}
Above(e) == {x \in Ids : \A S \in SUBSET Ids : e \in S /\ Upward(S) => x \in S}
OnCircle(x) == into[x] # None /\ x \in Above(into[x])

(* Mutant of HeadOf: the email itself. *)
SelfAsHead(e) == e

(* resolve_canonical: where the walk ends, or meets an email again. *)
HeadOf(e) ==
  IF into[e] = None THEN e
  ELSE CHOOSE r \in Above(e) :
    \/ into[r] = None
    \/ /\ OnCircle(r)
       /\ r = e \/ \E x \in Above(e) : into[x] = r /\ ~OnCircle(x)

(* _serialize_issue_cluster and _collect_issue_cluster walk to the parent    *)
(* and to the children.                                                      *)
Together(S) == Upward(S) /\ \A x \in S : Children(x) \subseteq S
Cluster(e) == {x \in Ids : \A S \in SUBSET Ids : e \in S /\ Together(S) => x \in S}
-----------------------------------------------------------------------------
(* What makes two emails one conversation *)

Within(e, c, days) ==
  LET a == mail[e].day
      b == mail[c].day
  IN IF a >= b THEN a - b <= days ELSE b - a <= days

MatchesThread(e, c) == Within(e, c, 30) /\ c \in mail[e].refs

SameSubject(e, c) ==
  mail[e].subject # "" /\ mail[e].subject = mail[c].subject

(* _text_bodies_match: short bodies must be equal unless the subject already *)
(* tells a forward.                                                          *)
BodiesMatch(e, c, floor) ==
  LET a == mail[e].body
      b == mail[c].body
  IN /\ a # {} /\ b # {}
     /\ IF floor /\ {a, b} \cap Long # {a, b} THEN a = b
        ELSE a = b \/ <<a, b>> \in Close

MatchesForward(e, c) ==
  /\ Within(e, c, 3) /\ SameSubject(e, c)
  /\ mail[e].forward
  /\ BodiesMatch(e, c, FALSE)

MatchesSimilar(e, c) ==
  /\ Within(e, c, 3) /\ SameSubject(e, c)
  /\ BodiesMatch(e, c, TRUE)

MatchesContainment(e, c) ==
  /\ Within(e, c, 3)
  /\ <<mail[c].body, mail[e].body>> \in Inside

DisjointImages(e, c) ==
  /\ mail[e].images # {} /\ mail[c].images # {}
  /\ mail[e].images \cap mail[c].images = {}

(* _candidate_matches: images have no say about a reply. *)
Matches(e, c) ==
  \/ MatchesThread(e, c)
  \/ /\ ~DisjointImages(e, c)
     /\ MatchesForward(e, c) \/ MatchesSimilar(e, c) \/ MatchesContainment(e, c)

(* _collect_evidence names the matcher that fired for a pair ... *)
SignalOf(e, c) ==
  IF MatchesThread(e, c) THEN "thread_relation"
  ELSE IF MatchesForward(e, c) THEN "forward_chain"
  ELSE IF MatchesSimilar(e, c) THEN "text_similarity" ELSE "containment"

(* ... and _candidate_match_reason the reason that matcher stands for. *)
ReasonOf(e, c) ==
  IF SignalOf(e, c) = "containment" THEN "text_similarity" ELSE SignalOf(e, c)

(* _determine_merge_reason: the strongest among the sources. *)
StrongestReason(e, S) ==
  LET all == {ReasonOf(e, c) : c \in S} IN
  IF "thread_relation" \in all THEN "thread_relation"
  ELSE IF "forward_chain" \in all THEN "forward_chain" ELSE "text_similarity"

(* Candidates come by the day they were received. *)
Before(a, b) ==
  mail[a].day < mail[b].day \/ (mail[a].day = mail[b].day /\ a < b)
First(S) == CHOOSE x \in S : \A y \in S : ~Before(y, x)

(* Mutant of PrimarySource: the first source, whatever the reason. *)
FirstSource(e, S) == First(S)

PrimarySource(e, S) == First({c \in S : ReasonOf(e, c) = StrongestReason(e, S)})

EvidenceFor(e, S) ==
  [reason |-> StrongestReason(e, S), signal |-> SignalOf(e, PrimarySource(e, S))]

(* _distinct_cluster_heads: each head, at the first source that has it. *)
HeadsOf(e, S) ==
  LET head == [c \in S |-> HeadOf(c)]
      firsts == {c \in S : head[c] # e /\ \A d \in S : head[d] = head[c] => ~Before(d, c)}
  IN Restrict(head, firsts)
-----------------------------------------------------------------------------
(* The task process_email_merge *)

Free(e, w) == lock[e] \in {None, w}
Unlock(w) == lock' = [e \in Ids |-> IF lock[e] = w THEN None ELSE lock[e]]
End(w) == task' = [task EXCEPT ![w] = Idle]

(* prevent_duplicate_task: one task of an email at a time.  An email that    *)
(* has children is left alone, as is one that is gone.                       *)
TaskStart(w, e) ==
  /\ w \in crew /\ task[w] = Idle
  /\ e \in queue
  /\ \A v \in CrewMembers : task[v].email # e
  /\ queue' = queue \ {e}
  /\ IF e \in here /\ Children(e) = {}
     THEN task' = [task EXCEPT ![w] = [Idle EXCEPT !.pc = "own", !.email = e]]
     ELSE UNCHANGED task
  /\ UNCHANGED <<crew, budget, rows, lock, command>>

(* Mutant of LockOwn: the row of the email is read, not locked. *)
LockNothing(w, e) == UNCHANGED lock

(* select_for_update of the email itself *)
LockOwn(w, e) == Free(e, w) /\ lock' = [lock EXCEPT ![e] = w]

(* reconcile locks the email and decides.  One that is merged by now stays   *)
(* as it is; one without a match is canonical; else the heads of what it     *)
(* matches are locked next: the first manual one, or all of them.            *)
Decide(w) ==
  LET e == task[w].email
      found == {c \in here \ {e} : Matches(e, c)}
      heads == HeadsOf(e, found)
      manual == {c \in DOMAIN heads : heads[c] \in Manuals}
  IN
  /\ task[w].pc = "own"
  /\ Free(e, w)
  /\ IF e \notin here \/ into[e] # None
     THEN End(w) /\ UNCHANGED <<lock, why>>
     ELSE IF found = {}
     THEN End(w) /\ why' = [why EXCEPT ![e] = ""] /\ UNCHANGED lock
     ELSE /\ LockOwn(w, e)
          /\ task' = [task EXCEPT ![w] =
               [pc |-> IF manual = {} THEN "absorb" ELSE "link", email |-> e,
                heads |-> heads, moved |-> {},
                target |-> IF manual = {} THEN None ELSE heads[First(manual)],
                proof |-> EvidenceFor(e, found)]]
          /\ UNCHANGED why
  /\ UNCHANGED <<crew, budget, texts, here, into, proof, queue, command>>

Marked(S, target, ev, reasons) ==
  /\ into' = [e \in Ids |-> IF e \in S THEN target ELSE into[e]]
  /\ why' = [e \in Ids |-> IF e \in S THEN ev.reason ELSE reasons[e]]
  /\ proof' = [e \in Ids |-> IF e \in S THEN ev ELSE proof[e]]

(* A manual merge is authoritative: the email is linked to its canonical.    *)
Link(w) ==
  LET t == task[w] IN
  /\ t.pc = "link"
  /\ t.target \in here /\ Free(t.target, w)
  /\ Marked({t.email}, t.target, t.proof, why)
  /\ Unlock(w) /\ End(w)
  /\ UNCHANGED <<crew, budget, texts, here, queue, command>>

(* The next head is locked and will point to the email. *)
AbsorbNext(w) ==
  LET t == task[w]
      c == First(DOMAIN t.heads)
      h == t.heads[c]
  IN
  /\ t.pc = "absorb" /\ DOMAIN t.heads # {}
  /\ h \in here /\ Free(h, w)
  /\ lock' = [lock EXCEPT ![h] = w]
  /\ task' = [task EXCEPT ![w].heads = Restrict(@, DOMAIN @ \ {c}),
                          ![w].moved = IF into[h] = t.email THEN @ ELSE @ \cup {h}]
  /\ UNCHANGED <<crew, budget, rows, queue, command>>

(* The commit; the email itself is canonical. *)
AbsorbDone(w) ==
  LET t == task[w] IN
  /\ t.pc = "absorb" /\ DOMAIN t.heads = {}
  /\ Marked(t.moved, t.email, t.proof, [why EXCEPT ![t.email] = ""])
  /\ Unlock(w) /\ End(w)
  /\ UNCHANGED <<crew, budget, texts, here, queue, command>>

(* A head that is locked by another transaction: a deadlock, or the wait for *)
(* the lock is too long.  One that is gone: DoesNotExist.  The transaction   *)
(* is rolled back and the email marked as failed (EmailPipeline).            *)
Awaited(w) ==
  LET t == task[w] IN
  CASE t.pc = "link" -> {t.target}
    [] t.pc = "absorb" /\ DOMAIN t.heads # {} -> {t.heads[First(DOMAIN t.heads)]}
    [] OTHER -> {}
RolledBack(w) ==
  /\ \E h \in Awaited(w) : h \notin here \/ ~Free(h, w)
  /\ Unlock(w) /\ End(w)
  /\ UNCHANGED <<crew, budget, rows, queue, command>>
-----------------------------------------------------------------------------
(* Users and operators *)

Unlocked(S) == \A e \in S : lock[e] = None
NewId == CHOOSE m \in fresh : \A n \in fresh : m <= n

(* The canonical has the subject of the first source and all their texts,    *)
(* each below a heading, and their images.                                   *)
Merged(S) ==
  LET first == mail[First(S)] IN
  [day |-> Today, refs |-> {},
   subject |-> IF first.subject = "" THEN "(No Subject)" ELSE first.subject,
   forward |-> first.forward,
   body |-> {"[Source]"} \cup UNION {mail[e].body : e \in S},
   images |-> UNION {mail[e].images : e \in S}]

(* ManualMergeService.merge: a canonical of its own, and every source points *)
(* to it.  The evidence of a source stays.                                   *)
ManualMerge(S) ==
  /\ fresh' = fresh \ {NewId}
  /\ here' = here \cup {NewId}
  /\ mail' = [mail EXCEPT ![NewId] = Merged(S)]
  /\ into' = [e \in Ids |-> IF e \in S THEN NewId ELSE into[e]]
  /\ why' = [e \in Ids |-> IF e \in S THEN "manual" ELSE why[e]]
  /\ UNCHANGED proof
  /\ queue' = queue \cup {NewId}

Mergeable(S) ==
  /\ Cardinality(S) \in 2..5
  /\ \A e \in S : into[e] = None

BatchMerge(S) ==
  /\ fresh # {}
  /\ Mergeable(S) /\ Unlocked(S)
  /\ Starts("batch")
  /\ ManualMerge(S)
  /\ UNCHANGED <<crew, lock, task, command>>

(* The command merge_threadlines checks its sources, and merges later. *)
CommandChecks(S) ==
  /\ fresh # {}
  /\ command = {}
  /\ Mergeable(S)
  /\ Starts("command")
  /\ command' = S
  /\ UNCHANGED <<crew, rows, lock, queue, task>>

(* A source that is gone fails the command. *)
CommandMerges ==
  /\ command # {} /\ Unlocked(command \cap here)
  /\ IF command \subseteq here /\ fresh # {} THEN ManualMerge(command)
     ELSE UNCHANGED <<rows, queue>>
  /\ command' = {}
  /\ UNCHANGED <<crew, budget, lock, task>>

(* on_delete=SET_NULL *)
Orphans(e) == Children(e)

DeleteEmail(e) ==
  /\ Starts("delete")
  /\ Unlocked({e} \cup Children(e))
  /\ here' = here \ {e}
  /\ into' = [c \in Ids |-> IF c = e \/ c \in Orphans(e) THEN None ELSE into[c]]
  /\ why' = [why EXCEPT ![e] = ""]
  /\ proof' = [proof EXCEPT ![e] = None]
  /\ UNCHANGED <<crew, texts, lock, queue, task, command>>

(* A retry of a child is a retry of the email it points to.  A retry of a    *)
(* batch takes the children themselves.                                      *)
RetryEmail(e) ==
  /\ Starts("retry")
  /\ \E batch \in BOOLEAN :
       queue' = queue \cup {IF into[e] = None \/ batch THEN e ELSE into[e]}
  /\ UNCHANGED <<crew, rows, lock, task, command>>
-----------------------------------------------------------------------------
TaskStep(w) ==
  \/ \E e \in queue : TaskStart(w, e)
  \/ Decide(w) \/ Link(w) \/ AbsorbNext(w) \/ AbsorbDone(w) \/ RolledBack(w)

Next ==
  \/ \E w \in CrewMembers : TaskStep(w)
  \/ \E S \in SUBSET here : BatchMerge(S) \/ CommandChecks(S)
  \/ CommandMerges
  \/ \E e \in here : DeleteEmail(e) \/ RetryEmail(e)

Spec == Init /\ [][Next]_vars
-----------------------------------------------------------------------------
(* Properties *)

(* resolve_canonical follows the pointers from email to email: whatever      *)
(* tasks, merges and deletions overlap, the pointers never form a circle,    *)
(* and every conversation has a canonical record that lists show.  This      *)
(* holds for one worker process, which is the default, and for two.          *)
NoCircle ==
  Cardinality(crew) <= 2 => \A e \in here : into[HeadOf(e)] = None

(* _primary_source: the evidence kept for an automatic merge never           *)
(* disagrees with its reason.                                                *)
Agrees(ev) ==
  ev.reason = IF ev.signal = "containment" THEN "text_similarity" ELSE ev.signal
EvidenceAgrees ==
  \A e \in here :
    into[e] # None /\ why[e] \in Auto => proof[e].reason = why[e] /\ Agrees(proof[e])

(* _distinct_cluster_heads re-points heads, not leaves: emails that are one  *)
(* conversation stay one unless an email is deleted.  This holds while one   *)
(* worker runs all tasks and nobody merges by hand.                          *)
Serial == Cardinality(crew) = 1 /\ DOMAIN budget \subseteq {"retry", "delete"}
KeptTogether ==
  here \subseteq here' /\ into' # into =>
    \A e \in here : Cluster(e) \subseteq Cluster(e)'
SerialMergesKeepTogether == [][Serial => KeptTogether]_vars
=============================================================================
