--------------------------- MODULE IngestionProofs ---------------------------
(***************************************************************************)
(* Theorems about the ingestion of mails, for every set of mails, users,   *)
(* workers and faults, with proofs that the TLA+ proof system checks:      *)
(*                                                                         *)
(*   IngestionTypes   every variable keeps its type;                       *)
(*   OneRow           a user has one row for a mail that states its date;  *)
(*   DeletedIsSaved   what a fetch deletes on the server is saved for the  *)
(*                    owner of the mailbox, or excused.                    *)
(*                                                                         *)
(* RowsInv is the uniqueness of the message id for a user.  For the        *)
(* deletion, BoxInv says that the lock of a user keeps every other worker  *)
(* out of the mailbox, so that HandInv holds: the number a worker          *)
(* remembers still means the message it parsed; and SavedInv that this     *)
(* message is dealt with by the time it is deleted.  An effect lemma says  *)
(* what each step does to the worker that takes it.                        *)
(***************************************************************************)
EXTENDS Ingestion, TLAPS, SequenceTheorems, FiniteSetTheorems,
        WellFoundedInduction

-----------------------------------------------------------------------------
(* The state and what a worker has in hand *)

Handling == {"attachment", "writing", "move", "broken", "save", "attach",
             "queue", "delete"}
Labels == {"idle", "scan", "load", "user", "search"} \cup Handling

Ids == {Sameness[m] : m \in Mails} \X Nat

Row == [user : Users, id : Ids, mail : Mails, part : {"none", "cut", "whole"},
        task : {"none", "queued", "failed"}, tries : {0, 1}]

Maps == SUBSET (Addresses \X Users)
Keys == (Users \X Ids) \cup {None}

Run == [pc : Labels, task : {None, "haraka", "imap"}, box : Users \cup {None},
        map : Maps, todo : SUBSET (Mails \cup Nat), left : Seq(Users),
        mail : Mails \cup {None}, number : Nat, row : Keys]

TypeInv ==
  /\ outgoing \in SUBSET Mails
  /\ eml \in [Haraka -> {"none", "partial", "inbox", "processed", "failed"}]
  /\ meta \in [Haraka -> {"none", "inbox", "processed", "failed"}]
  /\ old \in SUBSET Haraka
  /\ mailbox \in [Users -> Seq(Mails)]
  /\ seen \in SUBSET Mails /\ expired \in SUBSET Mails
  /\ alias \in [Users -> Addresses \cup {None}]
  /\ rows \in SUBSET Row
  /\ temp \in [Contents -> {"none", "cut", "whole"}]
  /\ locked \in SUBSET Locks
  /\ run \in [Workers -> Run]
  /\ undated \in Nat
  /\ excused \in SUBSET (Users \X Mails) /\ shared \in SUBSET Users
  /\ budget \in [DOMAIN budget -> Nat]
  /\ \A w \in Workers : /\ run[w].pc \in Handling => run[w].mail \in Mails
                        /\ run[w].pc = "search" => run[w].box \in Users

(* A step of a worker leaves the others where they are.                      *)
Others(w) == \A v \in Workers : v # w => run'[v] = run[v]

(* The message in hand stays the same.                                       *)
SameMail(w) ==
  /\ run'[w].box = run[w].box /\ run'[w].mail = run[w].mail
  /\ run'[w].number = run[w].number

-----------------------------------------------------------------------------
(* What each step does to its worker *)

LEMMA GotoEffect ==
  ASSUME TypeInv, NEW w \in Workers, NEW pc \in Labels, Goto(w, pc)
  PROVE  /\ run' \in [Workers -> Run] /\ Others(w) /\ SameMail(w)
         /\ run'[w].pc = pc /\ run'[w].row = run[w].row
<1>1. run \in [Workers -> Run] /\ run' = [run EXCEPT ![w].pc = pc]
  BY DEF TypeInv, Goto
<1>2. run[w] \in Run
  BY <1>1
<1>3. [run[w] EXCEPT !.pc = pc] \in Run
  BY <1>2 DEF Run
<1>4. run' = [run EXCEPT ![w] = [run[w] EXCEPT !.pc = pc]]
  BY <1>1, <1>2 DEF Run
<1>5. Others(w) /\ run' \in [Workers -> Run] /\ run'[w] = [run[w] EXCEPT !.pc = pc]
  BY <1>1, <1>3, <1>4 DEF Others
<1> QED
  BY <1>2, <1>5 DEF SameMail, Run

LEMMA NothingIsType == {} \in Maps /\ None \in Keys
BY DEF Maps, Keys

LEMMA IdleIsRun == Idle \in Run
BY NothingIsType DEF Idle, Run, Labels

(* A worker begins a task, or has ended one.                                 *)
LEMMA FreshEffect ==
  ASSUME TypeInv, NEW w \in Workers, NEW r \in Run, r.box = None,
         run' = [run EXCEPT ![w] = r]
  PROVE  /\ run' \in [Workers -> Run] /\ Others(w)
         /\ run'[w].box = None /\ run'[w].pc = r.pc
BY DEF TypeInv, Others

LEMMA MapIsType == AddressMap \in Maps
BY DEF AddressMap, Maps

LEMMA StartEffect ==
  ASSUME TypeInv, NEW w \in Workers, StartHaraka(w) \/ StartImap(w) \/ FinishImap(w)
  PROVE  /\ run' \in [Workers -> Run] /\ Others(w)
         /\ run'[w].box = None /\ run'[w].pc \in {"scan", "user", "idle"}
         /\ locked \ {"imap"} \subseteq locked' /\ locked' \in SUBSET Locks
         /\ UNCHANGED <<files, server, alias, rows, temp, marks, budget>>
<1>1. CASE StartHaraka(w)
  <2> DEFINE r == [Idle EXCEPT !.pc = "scan", !.task = "haraka", !.map = AddressMap]
  <2>1. r \in Run /\ r.box = None /\ r.pc = "scan"
    BY MapIsType, IdleIsRun DEF Idle, Run, Labels
  <2>2. run' = [run EXCEPT ![w] = r]
    BY <1>1 DEF StartHaraka
  <2> HIDE DEF r
  <2>3. run' \in [Workers -> Run] /\ Others(w) /\ run'[w].box = None /\ run'[w].pc = "scan"
    BY <2>1, <2>2, FreshEffect
  <2> QED
    BY <1>1, <2>3 DEF StartHaraka, Handling, TypeInv, Locks
<1>2. CASE StartImap(w)
  <2> DEFINE r == [Idle EXCEPT !.pc = "user", !.task = "imap", !.left = ImapUsers]
  <2>1. r \in Run /\ r.box = None /\ r.pc = "user"
    <3>1. ImapUsers \in Seq(Users)
      BY IngestionAssumption
    <3> QED
      BY <3>1, NothingIsType DEF Idle, Run, Labels
  <2>2. run' = [run EXCEPT ![w] = r]
    BY <1>2 DEF StartImap
  <2> HIDE DEF r
  <2>3. run' \in [Workers -> Run] /\ Others(w) /\ run'[w].box = None /\ run'[w].pc = "user"
    BY <2>1, <2>2, FreshEffect
  <2> QED
    BY <1>2, <2>3 DEF StartImap, Handling, TypeInv, Locks
<1>3. CASE FinishImap(w)
  <2>1. run' = [run EXCEPT ![w] = Idle]
    BY <1>3 DEF FinishImap
  <2>2. run' \in [Workers -> Run] /\ Others(w) /\ run'[w].box = None /\ run'[w].pc = "idle"
    BY <2>1, IdleIsRun, FreshEffect DEF Idle
  <2> QED
    BY <1>3, <2>2 DEF FinishImap, Handling, TypeInv
<1> QED
  BY <1>1, <1>2, <1>3

(* The lists are read; the mailbox stays the one that is open.               *)
LEMMA ListEffect ==
  ASSUME TypeInv, NEW w \in Workers, ScanInbox(w) \/ SearchMailbox(w)
  PROVE  /\ run' \in [Workers -> Run] /\ Others(w)
         /\ run'[w].box = run[w].box /\ run'[w].pc = "load"
         /\ budget' \in [DOMAIN budget' -> Nat]
         /\ UNCHANGED <<files, server, alias, rows, temp, locked, marks>>
<1>1. UNCHANGED <<files, server, alias, rows, temp, locked, marks>>
  BY DEF ScanInbox, SearchMailbox
<1>2. budget' \in [DOMAIN budget' -> Nat]
  <2>1. UNCHANGED budget \/ Spend("server")
    BY DEF ScanInbox, SearchMailbox
  <2> QED
    BY <2>1 DEF Spend, TypeInv
<1>3. \/ \E S \in SUBSET (Mails \cup Nat) :
           run' = [run EXCEPT ![w].pc = "load", ![w].todo = S]
      \/ Goto(w, "load")
  <2>1. CASE ScanInbox(w)
    BY <2>1 DEF ScanInbox, Haraka
  <2>2. CASE SearchMailbox(w)
    <3> DEFINE box == run[w].box
    <3>1. \/ \E M \in SUBSET Mails :
                run' = [run EXCEPT ![w].pc = "load", ![w].todo = Found(box, M)]
          \/ Goto(w, "load")
      <4>1. Wanted(box) \in SUBSET Mails
        <5>1. box \in Users
          BY <2>2 DEF SearchMailbox, TypeInv
        <5> QED
          BY <5>1, IngestionAssumption DEF Wanted
      <4> QED
        BY <2>2, <4>1 DEF SearchMailbox
    <3>2. \A M : Found(box, M) \subseteq Nat
      <4>1. run[w].pc = "search"
        BY <2>2 DEF SearchMailbox
      <4>2. box \in Users /\ mailbox \in [Users -> Seq(Mails)]
        BY <4>1 DEF TypeInv
      <4>3. mailbox[box] \in Seq(Mails)
        BY <4>2
      <4> QED
        BY <4>3 DEF Found
    <3> QED
      BY <3>1, <3>2
  <2> QED
    BY <2>1, <2>2
<1>4. CASE Goto(w, "load")
  BY <1>1, <1>2, <1>4, GotoEffect DEF SameMail, Labels
<1>5. CASE \E S \in SUBSET (Mails \cup Nat) :
             run' = [run EXCEPT ![w].pc = "load", ![w].todo = S]
  <2>1. PICK S \in SUBSET (Mails \cup Nat) :
          run' = [run EXCEPT ![w].pc = "load", ![w].todo = S]
    BY <1>5
  <2>2. run \in [Workers -> Run] /\ run[w] \in Run
    BY DEF TypeInv
  <2>3. [run[w] EXCEPT !.pc = "load", !.todo = S] \in Run
    BY <2>2 DEF Run, Labels
  <2>4. run' = [run EXCEPT ![w] = [run[w] EXCEPT !.pc = "load", !.todo = S]]
    BY <2>1, <2>2 DEF Run
  <2>5. run' \in [Workers -> Run] /\ Others(w) /\ run'[w].box = run[w].box
        /\ run'[w].pc = "load"
    BY <2>2, <2>3, <2>4 DEF Others, Run
  <2> QED
    BY <1>1, <1>2, <2>5
<1> QED
  BY <1>3, <1>4, <1>5

(* The record of a worker is rewritten.                                      *)
LEMMA PutEffect ==
  ASSUME TypeInv, NEW w \in Workers, NEW r \in Run, run' = [run EXCEPT ![w] = r]
  PROVE  run' \in [Workers -> Run] /\ Others(w) /\ run'[w] = r
BY DEF TypeInv, Others

(* A mailbox is opened under its lock, or skipped.                           *)
LEMMA OpenMailboxEffect ==
  ASSUME TypeInv, NEW w \in Workers, OpenMailbox(w)
  PROVE  /\ run' \in [Workers -> Run] /\ Others(w)
         /\ \/ /\ run'[w].pc = "search" /\ run'[w].box \in Users \ locked
               /\ locked' = locked \cup {run'[w].box}
            \/ /\ run'[w].pc = "user" /\ run'[w].box = run[w].box
               /\ locked' = locked
         /\ UNCHANGED <<files, server, alias, rows, temp, marks, budget>>
<1> DEFINE u == Head(run[w].left)
           L == Tail(run[w].left)
           skip == [run[w] EXCEPT !.left = L]
           open == [run[w] EXCEPT !.left = L, !.box = u, !.pc = "search"]
<1>1. run \in [Workers -> Run] /\ run[w] \in Run
  BY DEF TypeInv
<1>2. run[w].left \in Seq(Users) /\ run[w].left # <<>> /\ run[w].pc = "user"
  BY <1>1 DEF OpenMailbox, Run
<1>3. u \in Users /\ L \in Seq(Users)
  BY <1>2
<1>4. UNCHANGED <<files, server, alias, rows, temp, marks, budget>>
  BY DEF OpenMailbox
<1>5. \/ /\ run' = [run EXCEPT ![w].left = Tail(@)] /\ locked' = locked
      \/ /\ u \notin locked /\ locked' = locked \cup {u}
         /\ run' = [run EXCEPT ![w].left = Tail(@), ![w].box = u, ![w].pc = "search"]
  BY DEF OpenMailbox
<1>6. CASE /\ run' = [run EXCEPT ![w].left = Tail(@)] /\ locked' = locked
  <2>1. run' = [run EXCEPT ![w] = skip]
    BY <1>1, <1>6 DEF Run
  <2> HIDE DEF u, L
  <2>2. skip \in Run /\ skip.pc = "user" /\ skip.box = run[w].box
    BY <1>1, <1>2, <1>3 DEF Run
  <2> HIDE DEF skip
  <2>3. run' \in [Workers -> Run] /\ Others(w) /\ run'[w] = skip
    BY <2>1, <2>2, PutEffect
  <2> QED
    BY <1>4, <1>6, <2>2, <2>3
<1>7. CASE /\ u \notin locked /\ locked' = locked \cup {u}
           /\ run' = [run EXCEPT ![w].left = Tail(@), ![w].box = u, ![w].pc = "search"]
  <2>1. run' = [run EXCEPT ![w] = open]
    BY <1>1, <1>7 DEF Run
  <2> HIDE DEF u, L
  <2>2. open \in Run /\ open.pc = "search" /\ open.box = u
    BY <1>1, <1>2, <1>3 DEF Run, Labels
  <2> HIDE DEF open
  <2>3. run' \in [Workers -> Run] /\ Others(w) /\ run'[w] = open
    BY <2>1, <2>2, PutEffect
  <2> QED
    BY <1>3, <1>4, <1>7, <2>2, <2>3
<1> QED
  BY <1>5, <1>6, <1>7

(* The end of a mailbox, or of the inbox.                                    *)
LEMMA FinishEffect ==
  ASSUME TypeInv, NEW w \in Workers, Finish(w)
  PROVE  /\ run' \in [Workers -> Run] /\ Others(w)
         /\ run'[w].box = None /\ run'[w].pc \in {"idle", "user"}
         /\ locked \ {run[w].box, "haraka"} \subseteq locked' /\ locked' \subseteq locked
         /\ UNCHANGED <<files, server, alias, rows, temp, marks, budget>>
<1>1. UNCHANGED <<files, server, alias, rows, temp, marks, budget>>
  BY DEF Finish
<1>2. run \in [Workers -> Run] /\ run[w] \in Run
  BY DEF TypeInv
<1>3. CASE run[w].box = None
  <2>1. run' = [run EXCEPT ![w] = Idle] /\ locked' = locked \ {"haraka"}
    BY <1>3 DEF Finish
  <2>2. run' \in [Workers -> Run] /\ Others(w) /\ run'[w] = Idle
    BY <2>1, IdleIsRun, PutEffect
  <2> QED
    BY <1>1, <2>1, <2>2 DEF Idle
<1>4. CASE run[w].box # None
  <2> DEFINE r == [run[w] EXCEPT !.box = None, !.pc = "user"]
  <2>1. locked' = locked \ {run[w].box}
        /\ run' = [run EXCEPT ![w].box = None, ![w].pc = "user"]
    BY <1>4 DEF Finish
  <2>2. run' = [run EXCEPT ![w] = r]
    BY <1>2, <2>1 DEF Run
  <2>3. r \in Run /\ r.box = None /\ r.pc = "user"
    BY <1>2 DEF Run, Labels
  <2> HIDE DEF r
  <2>4. run' \in [Workers -> Run] /\ Others(w) /\ run'[w] = r
    BY <2>2, <2>3, PutEffect
  <2> QED
    BY <1>1, <2>1, <2>3, <2>4
<1> QED
  BY <1>3, <1>4

(* A file is read for a worker that has no mailbox open.                     *)
LEMMA LoadFileEffect ==
  ASSUME TypeInv, NEW w \in Workers, NEW m \in Haraka, LoadFile(w, m)
  PROVE  /\ run' \in [Workers -> Run] /\ Others(w)
         /\ run'[w].box = None /\ run[w].box = None
         /\ \/ run'[w].pc = "load"
            \/ run'[w].pc \in Handling /\ run'[w].mail \in Mails
         /\ UNCHANGED <<files, server, alias, rows, temp, locked, marks, budget>>
<1>1. UNCHANGED <<files, server, alias, rows, temp, locked, marks, budget>>
      /\ run[w].pc = "load" /\ run[w].box = None
  BY DEF LoadFile
<1>2. run \in [Workers -> Run] /\ run[w] \in Run /\ m \in Mails
  BY DEF TypeInv, Haraka
<1> DEFINE T == run[w].todo \ {m}
           pc == Parsed(m)
           read == [run[w] EXCEPT !.todo = T, !.mail = m, !.pc = pc]
           skip == [run[w] EXCEPT !.todo = T]
<1>3. T \in SUBSET (Mails \cup Nat)
  BY <1>2 DEF Run
<1>4. pc \in Handling /\ pc \in Labels
  BY DEF Parsed, Handling, Labels
<1>5. \/ run' = [run EXCEPT ![w].todo = @ \ {m}, ![w].mail = m, ![w].pc = pc]
      \/ run' = [run EXCEPT ![w].todo = @ \ {m}]
  BY DEF LoadFile
<1>6. run' = [run EXCEPT ![w] = read] \/ run' = [run EXCEPT ![w] = skip]
  BY <1>2, <1>5 DEF Run
<1> HIDE DEF T, pc
<1>7. read \in Run /\ read.box = None /\ read.pc = pc /\ read.mail = m
  BY <1>1, <1>2, <1>3, <1>4 DEF Run
<1>8. skip \in Run /\ skip.box = None /\ skip.pc = "load"
  BY <1>1, <1>2, <1>3 DEF Run
<1> HIDE DEF read, skip
<1>9. CASE run' = [run EXCEPT ![w] = read]
  <2>1. run' \in [Workers -> Run] /\ Others(w) /\ run'[w] = read
    BY <1>7, <1>9, PutEffect
  <2> QED
    BY <1>1, <1>2, <1>4, <1>7, <2>1
<1>10. CASE run' = [run EXCEPT ![w] = skip]
  <2>1. run' \in [Workers -> Run] /\ Others(w) /\ run'[w] = skip
    BY <1>8, <1>10, PutEffect
  <2> QED
    BY <1>1, <1>8, <2>1
<1> QED
  BY <1>6, <1>9, <1>10

(* A message is read: it is the one that has its number now.                 *)
LEMMA FetchEffect ==
  ASSUME TypeInv, NEW w \in Workers, FetchMessage(w)
  PROVE  /\ run' \in [Workers -> Run] /\ Others(w)
         /\ run'[w].box = run[w].box /\ run[w].box \in Users
         /\ \/ run'[w].pc = "load"
            \/ /\ run'[w].pc = Parsed(run'[w].mail) /\ run'[w].mail \in Mails
               /\ run'[w].number \in DOMAIN mailbox[run[w].box]
               /\ run'[w].mail = mailbox[run[w].box][run'[w].number]
         /\ seen' \in SUBSET Mails /\ budget' \in [DOMAIN budget' -> Nat]
         /\ UNCHANGED <<files, mailbox, expired, alias, rows, temp, locked, marks>>
<1> DEFINE box == run[w].box
           i == Lowest(run[w].todo)
           m == mailbox[box][i]
           T == run[w].todo \ {i}
           read == [run[w] EXCEPT !.todo = T, !.number = i, !.mail = m, !.pc = Parsed(m)]
           skip == [run[w] EXCEPT !.todo = T]
<1>1. UNCHANGED <<files, mailbox, expired, alias, rows, temp, locked, marks>>
      /\ run[w].pc = "load" /\ box # None
  BY DEF FetchMessage
<1>2. run \in [Workers -> Run] /\ run[w] \in Run /\ mailbox \in [Users -> Seq(Mails)]
      /\ seen \in SUBSET Mails /\ budget \in [DOMAIN budget -> Nat]
  BY DEF TypeInv
<1>3. box \in Users /\ T \in SUBSET (Mails \cup Nat)
  BY <1>1, <1>2 DEF Run
<1>4. \/ /\ i \in DOMAIN mailbox[box]
         /\ run' = [run EXCEPT ![w].todo = @ \ {i}, ![w].number = i, ![w].mail = m,
                              ![w].pc = Parsed(m)]
         /\ seen' = seen \cup {m} /\ budget' = budget
      \/ /\ budget' = budget \/ Spend("server")
         /\ run' = [run EXCEPT ![w].todo = @ \ {i}]
         /\ seen' = seen
  BY DEF FetchMessage
<1> HIDE DEF i
<1>5. CASE /\ i \in DOMAIN mailbox[box]
           /\ run' = [run EXCEPT ![w].todo = @ \ {i}, ![w].number = i, ![w].mail = m,
                              ![w].pc = Parsed(m)]
           /\ seen' = seen \cup {m} /\ budget' = budget
  <2>1. mailbox[box] \in Seq(Mails)
    BY <1>2, <1>3
  <2>2. i \in Nat /\ m \in Mails
    BY <1>5, <2>1
  <2>3. Parsed(m) \in Labels
    BY DEF Parsed, Labels, Handling
  <2>4. run' = [run EXCEPT ![w] = read]
    BY <1>2, <1>5 DEF Run
  <2> HIDE DEF T, m
  <2>5. read \in Run /\ read.box = box /\ read.pc = Parsed(m) /\ read.mail = m
        /\ read.number = i
    BY <1>2, <1>3, <2>2, <2>3 DEF Run
  <2> HIDE DEF read
  <2>6. run' \in [Workers -> Run] /\ Others(w) /\ run'[w] = read
    BY <2>4, <2>5, PutEffect
  <2> QED
    BY <1>1, <1>2, <1>3, <1>5, <2>2, <2>5, <2>6 DEF m
<1>6. CASE /\ budget' = budget \/ Spend("server")
           /\ run' = [run EXCEPT ![w].todo = @ \ {i}]
           /\ seen' = seen
  <2>1. run' = [run EXCEPT ![w] = skip]
    BY <1>2, <1>6 DEF Run
  <2>2. budget' \in [DOMAIN budget' -> Nat]
    BY <1>2, <1>6 DEF Spend
  <2> HIDE DEF T
  <2>3. skip \in Run /\ skip.box = box /\ skip.pc = "load"
    BY <1>1, <1>2, <1>3 DEF Run
  <2> HIDE DEF skip
  <2>4. run' \in [Workers -> Run] /\ Others(w) /\ run'[w] = skip
    BY <2>1, <2>3, PutEffect
  <2> QED
    BY <1>1, <1>2, <1>3, <1>6, <2>2, <2>3, <2>4
<1> QED
  BY <1>4, <1>5, <1>6

(* The address map leads to a user.                                          *)
LEMMA LowestIsLowest ==
  ASSUME NEW S, S \subseteq Nat, S # {}
  PROVE  Lowest(S) \in S
<1>1. PICK n \in S : \A k \in S : n <= k
  <2>1. PICK n \in S : \A k \in S : ~(<<k, n>> \in OpToRel(<, Nat))
    BY NatLessThanWellFounded, WFMin
  <2>2. \A k \in S : ~(k < n)
    BY <2>1 DEF OpToRel
  <2> QED
    BY <2>2
<1> QED
  BY <1>1 DEF Lowest

LEMMA UserIsUser ==
  ASSUME TypeInv, NEW w \in Workers, run[w].mail \in Mails, UserFor(w) # None
  PROVE  UserFor(w) \in Users
<1>1. run[w] \in Run
  BY DEF TypeInv
<1>2. CASE run[w].box # None
  BY <1>1, <1>2 DEF UserFor, Run
<1>3. CASE run[w].box = None
  <2> DEFINE m == run[w].mail
             map == run[w].map
             known == {i \in DOMAIN To[m] : \E u \in Users : <<To[m][i], u>> \in map}
  <2>1. UserFor(w) = MappedUser(map, m)
    BY <1>3 DEF UserFor
  <2>2. known # {}
    BY <2>1 DEF MappedUser
  <2>3. To[m] \in Seq(Addresses)
    BY IngestionAssumption
  <2>4. known \subseteq Nat
    BY <2>3
  <2>5. Lowest(known) \in known
    BY <2>2, <2>4, LowestIsLowest
  <2>6. MappedUser(map, m) = CHOOSE u \in Users : <<To[m][Lowest(known)], u>> \in map
    BY <2>2 DEF MappedUser
  <2> QED
    BY <2>1, <2>5, <2>6
<1> QED
  BY <1>2, <1>3

LEMMA IdIsId ==
  ASSUME TypeInv, NEW m \in Mails
  PROVE  MessageId(m) \in Ids
BY DEF MessageId, Ids, TypeInv

(* The steps with a mail in hand keep the mail and the locks.                *)
LEMMA HandEffect ==
  ASSUME TypeInv, NEW w \in Workers,
         \/ OpenAttachment(w) \/ WriteAttachment(w) \/ MoveFiles(w) \/ SkipUnreadable(w)
         \/ NoUser(w) \/ SaveRow(w) \/ SaveAttachment(w) \/ QueueMerge(w)
         \/ DeleteMessage(w)
  PROVE  /\ run' \in [Workers -> Run] /\ Others(w) /\ SameMail(w)
         /\ run[w].pc \in Handling /\ run'[w].pc \in Handling \cup {"load"}
         /\ UNCHANGED <<outgoing, old, seen, alias, locked>>
<1> DEFINE Result == /\ run' \in [Workers -> Run] /\ Others(w) /\ SameMail(w)
                     /\ run[w].pc \in Handling /\ run'[w].pc \in Handling \cup {"load"}
           Steps == Handling \cup {"load"}
<1>1. UNCHANGED <<outgoing, old, seen, alias, locked>> /\ run[w].pc \in Handling
  BY DEF OpenAttachment, WriteAttachment, MoveFiles, SkipUnreadable, NoUser, SaveRow,
         SaveAttachment, QueueMerge, DeleteMessage, files, server, Handling
<1>2. /\ Handled(w) \in Steps /\ AfterParse(w) \in Steps /\ Steps \subseteq Labels
      /\ {"writing", "attach", "queue", "delete", "load", "save"} \subseteq Steps
  BY DEF Handled, AfterParse, Handling, Labels
<1>3. run \in [Workers -> Run] /\ run[w] \in Run
  BY DEF TypeInv
<1> HIDE DEF Steps
<1>4. ASSUME NEW pc \in Steps, Goto(w, pc) PROVE Result
  BY <1>1, <1>2, <1>4, GotoEffect DEF Steps
<1>5. ASSUME NEW pc \in Steps, NEW k \in Keys,
             run' = [run EXCEPT ![w].pc = pc, ![w].row = k]
      PROVE  Result
  <2> DEFINE r == [run[w] EXCEPT !.pc = pc, !.row = k]
  <2>1. run' = [run EXCEPT ![w] = r]
    BY <1>3, <1>5 DEF Run
  <2>2. r \in Run /\ r.pc = pc /\ r.box = run[w].box /\ r.mail = run[w].mail
        /\ r.number = run[w].number
    BY <1>2, <1>3 DEF Run
  <2> HIDE DEF r
  <2>3. run' \in [Workers -> Run] /\ Others(w) /\ run'[w] = r
    BY <2>1, <2>2, PutEffect
  <2> QED
    BY <1>1, <2>2, <2>3 DEF SameMail, Steps
<1> HIDE DEF Result
<1>6. ASSUME OpenAttachment(w) PROVE Result
  <2>1. Goto(w, "writing") \/ Goto(w, AfterParse(w))
    BY <1>6 DEF OpenAttachment
  <2> QED
    BY <1>2, <1>4, <2>1
<1>7. ASSUME WriteAttachment(w) \/ SkipUnreadable(w) \/ NoUser(w) \/ DeleteMessage(w)
      PROVE  Result
  <2>1. \/ Goto(w, AfterParse(w)) \/ Goto(w, "delete") \/ Goto(w, "load")
    BY <1>7 DEF WriteAttachment, SkipUnreadable, NoUser, DeleteMessage
  <2> QED
    BY <1>2, <1>4, <2>1
<1>8. ASSUME MoveFiles(w) PROVE Result
  <2>1. Goto(w, "save") \/ Goto(w, "load")
    BY <1>8 DEF MoveFiles
  <2> QED
    BY <1>2, <1>4, <2>1
<1>9. ASSUME SaveRow(w) PROVE Result
  <2> DEFINE u == UserFor(w)
             m == run[w].mail
             k == <<u, MessageId(m)>>
  <2>1. run[w].pc = "save" /\ m \in Mails
    BY <1>9 DEF SaveRow, TypeInv, Handling
  <2>2. u # None /\ (\/ Goto(w, Handled(w))
                     \/ run' = [run EXCEPT ![w].pc = "attach", ![w].row = k])
    BY <1>9 DEF SaveRow
  <2>3. u \in Users
    BY <2>1, <2>2, UserIsUser
  <2>4. k \in Keys
    BY <2>1, <2>3, IdIsId DEF Keys
  <2> HIDE DEF k, u
  <2> QED
    BY <1>2, <1>4, <1>5, <2>2, <2>4
<1>10. ASSUME SaveAttachment(w) \/ QueueMerge(w) PROVE Result
  <2>1. Goto(w, "queue") \/ run' = [run EXCEPT ![w].pc = Handled(w), ![w].row = None]
    BY <1>10 DEF SaveAttachment, QueueMerge
  <2> QED
    BY <1>2, <1>4, <1>5, <2>1, NothingIsType
<1> QED
  BY <1>1, <1>6, <1>7, <1>8, <1>9, <1>10 DEF Result

-----------------------------------------------------------------------------
(* The rows *)

Key(m) == <<Sameness[m], 0>>

(* A row is replaced by one of the same user, id and mail.                   *)
Rewritten(x, y) ==
  /\ x \in rows /\ y \in Row
  /\ y.user = x.user /\ y.id = x.id /\ y.mail = x.mail
  /\ rows' = (rows \ {x}) \cup {y}

NewRow(x) ==
  /\ x \in Row
  /\ x.mail \in Dated => x.id = Key(x.mail)
  /\ \A r \in rows : r.user # x.user \/ r.id # x.id
  /\ rows' = rows \cup {x}

RowsInv ==
  /\ \A r \in rows : r.mail \in Dated => r.id = Key(r.mail)
  /\ \A r, s \in rows : r.user = s.user /\ r.id = s.id => r = s

LEMMA RewrittenRows ==
  ASSUME TypeInv, RowsInv, NEW x, NEW y, Rewritten(x, y)
  PROVE  RowsInv' /\ rows' \in SUBSET Row
BY DEF TypeInv, RowsInv, Rewritten

LEMMA NewRowRows ==
  ASSUME TypeInv, RowsInv, NEW x, NewRow(x)
  PROVE  RowsInv' /\ rows' \in SUBSET Row
BY DEF TypeInv, RowsInv, NewRow

(* The row that a worker has in hand is the only one with its key.           *)
LEMMA MineRewritten ==
  ASSUME TypeInv, RowsInv, NEW w \in Workers, NEW part \in {"none", "cut", "whole"},
         \/ rows' = (rows \ Mine(w)) \cup {[r EXCEPT !.part = part] : r \in Mine(w)}
         \/ rows' = (rows \ Mine(w)) \cup {[r EXCEPT !.task = "queued"] : r \in Mine(w)}
  PROVE  UNCHANGED rows \/ \E x, y : Rewritten(x, y)
<1>1. Mine(w) \subseteq rows /\ rows \subseteq Row
  BY DEF Mine, TypeInv
<1>2. CASE Mine(w) = {}
  BY <1>2
<1>3. CASE Mine(w) # {}
  <2>1. PICK x : x \in Mine(w)
    BY <1>3
  <2>2. \A r \in Mine(w) : r.user = x.user /\ r.id = x.id
    BY <2>1 DEF Mine
  <2>3. Mine(w) = {x}
    BY <1>1, <2>1, <2>2 DEF RowsInv
  <2> DEFINE a == [x EXCEPT !.part = part]
             b == [x EXCEPT !.task = "queued"]
  <2>4. /\ a \in Row /\ a.user = x.user /\ a.id = x.id /\ a.mail = x.mail
        /\ b \in Row /\ b.user = x.user /\ b.id = x.id /\ b.mail = x.mail
    BY <1>1, <2>1 DEF Row
  <2>5. rows' = (rows \ {x}) \cup {a} \/ rows' = (rows \ {x}) \cup {b}
    BY <2>3
  <2> HIDE DEF a, b
  <2> QED
    BY <1>1, <2>1, <2>4, <2>5 DEF Rewritten
<1> QED
  BY <1>2, <1>3

LEMMA SaveAttachmentRows ==
  ASSUME TypeInv, RowsInv, NEW w \in Workers, SaveAttachment(w)
  PROVE  /\ UNCHANGED rows \/ \E x, y : Rewritten(x, y)
         /\ UNCHANGED <<files, server, alias, temp, locked, marks>>
         /\ budget' \in [DOMAIN budget' -> Nat] /\ run[w].pc = "attach"
         /\ run'[w].pc \in {"queue", Handled(w)}
<1> DEFINE c == Part[run[w].mail]
           part == IF c = None THEN "none" ELSE temp[c]
<1>1. UNCHANGED <<files, server, alias, temp, locked, marks>>
      /\ run[w].pc = "attach"
      /\ \/ Goto(w, "queue")
         \/ run' = [run EXCEPT ![w].pc = Handled(w), ![w].row = None]
  BY DEF SaveAttachment
<1>2. budget' \in [DOMAIN budget' -> Nat]
  BY DEF SaveAttachment, Spend, TypeInv
<1>3. run'[w].pc \in {"queue", Handled(w)}
  <2>1. CASE Goto(w, "queue")
    BY <2>1, GotoEffect DEF Labels, Handling
  <2>2. CASE run' = [run EXCEPT ![w].pc = Handled(w), ![w].row = None]
    BY <2>2 DEF TypeInv, Run
  <2> QED
    BY <1>1, <2>1, <2>2
<1>4. run[w].mail \in Mails /\ temp \in [Contents -> {"none", "cut", "whole"}]
  BY <1>1 DEF TypeInv, Handling
<1>5. c # None => c \in Contents
  BY <1>4, IngestionAssumption DEF Contents, Range
<1>6. part \in {"none", "cut", "whole"}
  BY <1>4, <1>5
<1>7. \/ rows' = (rows \ Mine(w)) \cup {[r EXCEPT !.part = part] : r \in Mine(w)}
      \/ UNCHANGED rows
  BY DEF SaveAttachment, Updated
<1> HIDE DEF part
<1> QED
  BY <1>1, <1>2, <1>3, <1>6, <1>7, MineRewritten

LEMMA QueueMergeRows ==
  ASSUME TypeInv, RowsInv, NEW w \in Workers, QueueMerge(w)
  PROVE  /\ UNCHANGED rows \/ \E x, y : Rewritten(x, y)
         /\ UNCHANGED <<files, server, alias, temp, locked, marks>>
         /\ budget' \in [DOMAIN budget' -> Nat]
         /\ run[w].pc = "queue"
<1>1. UNCHANGED <<files, server, alias, temp, locked, marks>> /\ run[w].pc = "queue"
  BY DEF QueueMerge
<1>2. budget' \in [DOMAIN budget' -> Nat]
  BY DEF QueueMerge, Spend, TypeInv
<1>3. \/ rows' = (rows \ Mine(w)) \cup {[r EXCEPT !.task = "queued"] : r \in Mine(w)}
      \/ UNCHANGED rows
  BY DEF QueueMerge, Updated
<1> QED
  BY <1>1, <1>2, <1>3, MineRewritten

LEMMA ResetRows ==
  ASSUME TypeInv, NEW r \in rows, ResetStuck(r)
  PROVE  /\ \E y : Rewritten(r, y)
         /\ UNCHANGED <<files, server, alias, temp, locked, run, marks>>
         /\ budget' \in [DOMAIN budget' -> Nat]
<1>1. r \in Row
  BY DEF TypeInv
<1> DEFINE a == [r EXCEPT !.task = "queued", !.tries = 1]
           b == [r EXCEPT !.tries = 1]
           c == [r EXCEPT !.task = "failed"]
<1>2. /\ a \in Row /\ a.user = r.user /\ a.id = r.id /\ a.mail = r.mail
      /\ b \in Row /\ b.user = r.user /\ b.id = r.id /\ b.mail = r.mail
      /\ c \in Row /\ c.user = r.user /\ c.id = r.id /\ c.mail = r.mail
  BY <1>1 DEF Row
<1>3. \E y \in {a, b, c} : rows' = (rows \ {r}) \cup {y}
  BY DEF ResetStuck, Updated
<1>4. UNCHANGED <<files, server, alias, temp, locked, run, marks>>
  BY DEF ResetStuck
<1>5. budget' \in [DOMAIN budget' -> Nat]
  BY DEF ResetStuck, Spend, TypeInv
<1> HIDE DEF a, b, c
<1> QED
  BY <1>2, <1>3, <1>4, <1>5 DEF Rewritten

(* A mail is saved: a new row, or there is one, or the save has failed.      *)
LEMMA SaveRowRows ==
  ASSUME TypeInv, NEW w \in Workers, SaveRow(w)
  PROVE  LET u == UserFor(w)
             m == run[w].mail IN
         /\ run[w].pc = "save" /\ m \in Mails /\ u \in Users
         /\ UNCHANGED <<files, server, alias, temp, locked, shared>>
         /\ undated' \in Nat /\ budget' \in [DOMAIN budget' -> Nat]
         /\ \/ /\ UNCHANGED <<rows, excused>>
               /\ \E r \in rows : r.user = u /\ r.id = MessageId(m)
            \/ /\ UNCHANGED excused
               /\ \E x : NewRow(x) /\ x.user = u /\ x.id = MessageId(m)
            \/ UNCHANGED rows /\ excused' = excused \cup {<<u, m>>}
<1> DEFINE u == UserFor(w)
           m == run[w].mail
           id == MessageId(m)
           x == [user |-> u, id |-> id, mail |-> m, part |-> "none", task |-> "none",
                 tries |-> 0]
<1>1. run[w].pc = "save" /\ u # None
      /\ UNCHANGED <<files, server, alias, temp, locked, shared>>
  BY DEF SaveRow
<1>2. m \in Mails
  BY <1>1 DEF TypeInv, Handling
<1>3. u \in Users
  BY <1>1, <1>2, UserIsUser
<1>4. undated' \in Nat /\ budget' \in [DOMAIN budget' -> Nat]
  BY DEF SaveRow, Spend, TypeInv
<1>5. \/ UNCHANGED <<rows, excused>> /\ Present(u, id)
      \/ UNCHANGED excused /\ ~Present(u, id) /\ rows' = rows \cup {x}
      \/ UNCHANGED rows /\ excused' = excused \cup {<<u, m>>}
  BY DEF SaveRow
<1>6. m \in Dated => id = Key(m)
  BY DEF MessageId, Key
<1>7. id \in Ids
  BY <1>2, IdIsId
<1> HIDE DEF u, m, id
<1>8. x \in Row /\ x.mail = m /\ x.user = u /\ x.id = id
  BY <1>2, <1>3, <1>7 DEF Row
<1> HIDE DEF x
<1>9. ASSUME ~Present(u, id), rows' = rows \cup {x} PROVE NewRow(x)
  BY <1>6, <1>8, <1>9 DEF NewRow, Present
<1> QED
  BY <1>1, <1>2, <1>3, <1>4, <1>5, <1>8, <1>9 DEF Present, u, m, id

(* The mailbox loses one message, and only this.                             *)
LEMMA RemoveEffect ==
  ASSUME NEW S, NEW s \in Seq(S), NEW i \in DOMAIN s
  PROVE  /\ RemoveAt(s, i) \in Seq(S)
         /\ \A m : m \in Range(s) /\ m \notin Range(RemoveAt(s, i)) => m = s[i]
<1> DEFINE a == SubSeq(s, 1, i - 1)
           b == SubSeq(s, i + 1, Len(s))
           r == a \o b
<1>1. i \in 1 .. Len(s) /\ Len(s) \in Nat
  OBVIOUS
<1>2. /\ a \in Seq(S) /\ Len(a) = i - 1
      /\ \A j \in 1 .. i - 1 : a[j] = s[j]
  BY <1>1, SubSeqProperties
<1>3. /\ b \in Seq(S) /\ Len(b) = Len(s) - i
      /\ \A j \in 1 .. Len(s) - i : b[j] = s[j + i]
  BY <1>1, SubSeqProperties
<1> HIDE DEF a, b
<1>4. /\ r \in Seq(S) /\ Len(r) = Len(s) - 1
      /\ \A j \in 1 .. i - 1 : r[j] = s[j]
      /\ \A j \in i .. Len(s) - 1 : r[j] = s[j + 1]
  <2>1. /\ r \in Seq(S) /\ Len(r) = Len(a) + Len(b)
        /\ \A j \in 1 .. Len(a) + Len(b) :
             r[j] = IF j <= Len(a) THEN a[j] ELSE b[j - Len(a)]
    BY <1>2, <1>3, ConcatProperties
  <2> HIDE DEF r
  <2>2. Len(r) = Len(s) - 1
    BY <1>1, <1>2, <1>3, <2>1
  <2>3. ASSUME NEW j \in 1 .. i - 1 PROVE r[j] = s[j]
    <3>1. j \in 1 .. Len(r) /\ j <= Len(a)
      BY <1>1, <1>2, <2>2
    <3> QED
      BY <1>2, <2>1, <3>1
  <2>4. ASSUME NEW j \in i .. Len(s) - 1 PROVE r[j] = s[j + 1]
    <3>1. /\ j \in 1 .. Len(r) /\ ~(j <= Len(a))
          /\ j - Len(a) \in 1 .. Len(s) - i /\ (j - Len(a)) + i = j + 1
      BY <1>1, <1>2, <2>2
    <3>2. r[j] = b[j - Len(a)]
      BY <2>1, <3>1
    <3> QED
      BY <1>3, <3>1, <3>2
  <2> QED
    BY <2>1, <2>2, <2>3, <2>4
<1> HIDE DEF r
<1>5. ASSUME NEW m, m \in Range(s), m # s[i] PROVE m \in Range(r)
  <2>1. PICK j \in 1 .. Len(s) : m = s[j] /\ j # i
    BY <1>5 DEF Range
  <2>2. CASE j < i
    BY <1>1, <1>4, <2>1, <2>2 DEF Range
  <2>3. CASE j > i
    <3>1. j - 1 \in i .. Len(s) - 1 /\ r[j - 1] = m
      BY <1>1, <1>4, <2>1, <2>3
    <3> QED
      BY <1>1, <1>4, <3>1 DEF Range
  <2> QED
    BY <1>1, <2>1, <2>2, <2>3
<1> QED
  BY <1>4, <1>5 DEF RemoveAt, r, a, b

(* What is in hand from a mailbox is a message there, while its lock keeps   *)
(* other fetches out.                                                        *)
HandInv ==
  \A w \in Workers :
    run[w].box # None /\ run[w].box \notin shared /\ run[w].pc \in Handling =>
      /\ run[w].number \in DOMAIN mailbox[run[w].box]
      /\ mailbox[run[w].box][run[w].number] = run[w].mail

LEMMA DeleteEffect ==
  ASSUME TypeInv, NEW w \in Workers, run[w].box # None, DeleteMessage(w)
  PROVE  LET u == run[w].box IN
         /\ u \in Users /\ run[w].pc = "delete" /\ run'[w].pc = "load"
         /\ mailbox' \in [Users -> Seq(Mails)]
         /\ \A v \in Users : v # u => mailbox'[v] = mailbox[v]
         /\ HandInv /\ u \notin shared =>
              \A m \in Range(mailbox[u]) :
                m \notin Range(mailbox'[u]) => m = run[w].mail
         /\ budget' \in [DOMAIN budget' -> Nat]
         /\ UNCHANGED <<files, seen, expired, alias, rows, temp, locked, marks>>
<1> DEFINE u == run[w].box
           i == run[w].number
           s == RemoveAt(mailbox[u], i)
<1>1. run[w].pc = "delete" /\ UNCHANGED <<files, seen, expired, alias, rows, temp, locked, marks>>
      /\ Goto(w, "load")
  BY DEF DeleteMessage
<1>2. u \in Users /\ mailbox \in [Users -> Seq(Mails)]
  BY DEF TypeInv, Run
<1>3. run'[w].pc = "load"
  BY <1>1, GotoEffect DEF Labels
<1>4. budget' \in [DOMAIN budget' -> Nat]
  BY DEF DeleteMessage, Spend, TypeInv
<1>5. HandInv /\ u \notin shared => mailbox[u][i] = run[w].mail
  BY <1>1 DEF HandInv, Handling
<1>6. i \in DOMAIN mailbox[u] =>
        /\ s \in Seq(Mails)
        /\ \A m : m \in Range(mailbox[u]) /\ m \notin Range(s) => m = mailbox[u][i]
  BY <1>2, RemoveEffect
<1>7. \/ mailbox' = mailbox
      \/ i \in DOMAIN mailbox[u] /\ mailbox' = [mailbox EXCEPT ![u] = s]
  BY DEF DeleteMessage
<1> HIDE DEF s, u
<1> QED
  BY <1>1, <1>2, <1>3, <1>4, <1>5, <1>6, <1>7 DEF u

-----------------------------------------------------------------------------
(* Types *)

HandStep(w) ==
  \/ OpenAttachment(w) \/ WriteAttachment(w) \/ MoveFiles(w) \/ SkipUnreadable(w)
  \/ NoUser(w) \/ SaveRow(w) \/ SaveAttachment(w) \/ QueueMerge(w)
  \/ DeleteMessage(w)

LEMMA RunTypes ==
  ASSUME TypeInv, NEW w \in Workers, run' \in [Workers -> Run], Others(w),
         run'[w].pc \in Handling => run'[w].mail \in Mails,
         run'[w].pc = "search" => run'[w].box \in Users
  PROVE  \A v \in Workers : /\ run'[v].pc \in Handling => run'[v].mail \in Mails
                            /\ run'[v].pc = "search" => run'[v].box \in Users
BY DEF TypeInv, Others

LEMMA WorkerTypes ==
  ASSUME TypeInv, RowsInv, NEW w \in Workers, WorkerStep(w)
  PROVE  TypeInv'
<1>1. CASE StartHaraka(w) \/ StartImap(w) \/ FinishImap(w)
  <2>1. run'[w].pc \notin Handling /\ run'[w].pc # "search"
    BY <1>1, StartEffect DEF Handling
  <2>2. \A v \in Workers : /\ run'[v].pc \in Handling => run'[v].mail \in Mails
                           /\ run'[v].pc = "search" => run'[v].box \in Users
    BY <1>1, <2>1, StartEffect, RunTypes
  <2> QED
    BY <1>1, <2>2, StartEffect DEF TypeInv, files, server, marks
<1>2. CASE ScanInbox(w) \/ SearchMailbox(w)
  <2>1. \A v \in Workers : /\ run'[v].pc \in Handling => run'[v].mail \in Mails
                           /\ run'[v].pc = "search" => run'[v].box \in Users
    BY <1>2, ListEffect, RunTypes DEF Handling
  <2> QED
    BY <1>2, <2>1, ListEffect DEF TypeInv, files, server, marks
<1>3. CASE OpenMailbox(w)
  <2>1. \A v \in Workers : /\ run'[v].pc \in Handling => run'[v].mail \in Mails
                           /\ run'[v].pc = "search" => run'[v].box \in Users
    BY <1>3, OpenMailboxEffect, RunTypes DEF Handling
  <2>2. locked' \in SUBSET Locks
    BY <1>3, OpenMailboxEffect DEF TypeInv, Locks
  <2> QED
    BY <1>3, <2>1, <2>2, OpenMailboxEffect DEF TypeInv, files, server, marks
<1>4. CASE Finish(w)
  <2>1. \A v \in Workers : /\ run'[v].pc \in Handling => run'[v].mail \in Mails
                           /\ run'[v].pc = "search" => run'[v].box \in Users
    BY <1>4, FinishEffect, RunTypes DEF Handling
  <2> QED
    BY <1>4, <2>1, FinishEffect DEF TypeInv, files, server, marks
<1>5. ASSUME NEW m \in Haraka, LoadFile(w, m) PROVE TypeInv'
  <2>1. \A v \in Workers : /\ run'[v].pc \in Handling => run'[v].mail \in Mails
                           /\ run'[v].pc = "search" => run'[v].box \in Users
    BY <1>5, LoadFileEffect, RunTypes DEF Handling
  <2> QED
    BY <1>5, <2>1, LoadFileEffect DEF TypeInv, files, server, marks
<1>6. CASE FetchMessage(w)
  <2>1. \A v \in Workers : /\ run'[v].pc \in Handling => run'[v].mail \in Mails
                           /\ run'[v].pc = "search" => run'[v].box \in Users
    BY <1>6, FetchEffect, RunTypes DEF Handling
  <2> QED
    BY <1>6, <2>1, FetchEffect DEF TypeInv, files, marks
<1>7. CASE HandStep(w)
  <2>1. /\ run' \in [Workers -> Run] /\ Others(w) /\ SameMail(w)
        /\ run[w].pc \in Handling /\ run'[w].pc \in Handling \cup {"load"}
        /\ UNCHANGED <<outgoing, old, seen, alias, locked>>
    BY <1>7, HandEffect DEF HandStep
  <2>2. run'[w].mail = run[w].mail /\ run[w].mail \in Mails
    BY <2>1 DEF SameMail, TypeInv
  <2>3. \A v \in Workers : /\ run'[v].pc \in Handling => run'[v].mail \in Mails
                           /\ run'[v].pc = "search" => run'[v].box \in Users
    BY <2>1, <2>2, RunTypes DEF Handling
  <2>4. CASE SaveRow(w)
    <3> DEFINE u == UserFor(w)
               m == run[w].mail
               id == MessageId(m)
    <3>1. /\ u \in Users /\ m \in Mails
          /\ UNCHANGED <<files, server, alias, temp, locked, shared>>
          /\ undated' \in Nat /\ budget' \in [DOMAIN budget' -> Nat]
          /\ rows' = rows \/ \E x : NewRow(x)
          /\ excused' = excused \/ excused' = excused \cup {<<u, m>>}
      BY <2>4, SaveRowRows
    <3> HIDE DEF u, m
    <3>2. rows' \in SUBSET Row
      BY <3>1, NewRowRows DEF TypeInv
    <3>3. excused' \in SUBSET (Users \X Mails)
      BY <3>1 DEF TypeInv
    <3> QED
      BY <2>1, <2>3, <3>1, <3>2, <3>3 DEF TypeInv, files, server
  <2>5. CASE SaveAttachment(w) \/ QueueMerge(w)
    <3>1. /\ rows' = rows \/ \E x, y : Rewritten(x, y)
          /\ UNCHANGED <<files, server, alias, temp, locked, marks>>
          /\ budget' \in [DOMAIN budget' -> Nat]
      BY <2>5, SaveAttachmentRows, QueueMergeRows
    <3>2. rows' \in SUBSET Row
      BY <3>1, RewrittenRows DEF TypeInv
    <3> QED
      BY <2>1, <2>3, <3>1, <3>2 DEF TypeInv, files, server, marks
  <2>6. CASE DeleteMessage(w)
    <3>1. /\ mailbox' \in [Users -> Seq(Mails)] /\ budget' \in [DOMAIN budget' -> Nat]
          /\ UNCHANGED <<files, seen, expired, alias, rows, temp, locked, marks>>
      <4>1. CASE run[w].box # None
        BY <2>6, <4>1, DeleteEffect
      <4>2. CASE run[w].box = None
        <5>1. None \notin Users
          BY IngestionAssumption
        <5>2. mailbox \in [Users -> Seq(Mails)]
          BY DEF TypeInv
        <5>3. mailbox' = mailbox
          BY <2>6, <4>2, <5>1, <5>2 DEF DeleteMessage
        <5>4. budget' \in [DOMAIN budget' -> Nat]
          BY <2>6 DEF DeleteMessage, Spend, TypeInv
        <5> QED
          BY <2>6, <5>2, <5>3, <5>4 DEF DeleteMessage
      <4> QED
        BY <4>1, <4>2
    <3> QED
      BY <2>1, <2>3, <3>1 DEF TypeInv, files, marks
  <2>7. CASE OpenAttachment(w) \/ WriteAttachment(w)
    <3>1. UNCHANGED <<files, server, alias, rows, locked, marks, budget>>
      BY <2>7 DEF OpenAttachment, WriteAttachment
    <3>2. temp' \in [Contents -> {"none", "cut", "whole"}]
      <4>1. temp \in [Contents -> {"none", "cut", "whole"}]
        BY DEF TypeInv
      <4>2. \E c, s : s \in {"cut", "whole"} /\ temp' \in {temp, [temp EXCEPT ![c] = s]}
        BY <2>7 DEF OpenAttachment, WriteAttachment
      <4> QED
        BY <4>1, <4>2
    <3> QED
      BY <2>1, <2>3, <3>1, <3>2 DEF TypeInv, files, server, marks
  <2>8. CASE SkipUnreadable(w) \/ NoUser(w)
    <3>1. UNCHANGED <<files, server, alias, rows, temp, locked, marks, budget>>
      BY <2>8 DEF SkipUnreadable, NoUser
    <3> QED
      BY <2>1, <2>3, <3>1 DEF TypeInv, files, server, marks
  <2>9. CASE MoveFiles(w)
    <3>1. UNCHANGED <<outgoing, old, server, alias, rows, temp, locked, marks>>
      BY <2>9 DEF MoveFiles
    <3>2. budget' \in [DOMAIN budget' -> Nat]
      BY <2>9 DEF MoveFiles, Spend, TypeInv
    <3>3. PICK place \in {"processed", "failed"} :
            /\ eml' \in {eml, [eml EXCEPT ![run[w].mail] = place]}
            /\ meta' \in {meta, [meta EXCEPT ![run[w].mail] = place]}
      BY <2>9 DEF MoveFiles
    <3>4. /\ eml' \in [Haraka -> {"none", "partial", "inbox", "processed", "failed"}]
          /\ meta' \in [Haraka -> {"none", "inbox", "processed", "failed"}]
      BY <3>3 DEF TypeInv
    <3> QED
      BY <2>1, <2>3, <3>1, <3>2, <3>4 DEF TypeInv, server, marks
  <2> QED
    BY <1>7, <2>4, <2>5, <2>6, <2>7, <2>8, <2>9 DEF HandStep
<1> QED
  BY <1>1, <1>2, <1>3, <1>4, <1>5, <1>6, <1>7 DEF WorkerStep, HandStep

LEMMA EnvironmentTypes ==
  ASSUME TypeInv, RowsInv, Environment
  PROVE  TypeInv'
<1>1. ASSUME NEW m \in Mails, Receive(m) PROVE TypeInv'
  <2>1. /\ outgoing' \in SUBSET Mails
        /\ eml' \in [Haraka -> {"none", "partial", "inbox", "processed", "failed"}]
    BY <1>1 DEF Receive, TypeInv
  <2>2. mailbox' \in [Users -> Seq(Mails)]
    <3>1. CASE m \in Haraka
      BY <1>1, <3>1 DEF Receive, TypeInv
    <3>2. CASE m \notin Haraka
      <4> DEFINE u == MailboxOf[m]
                 s == Append(mailbox[u], m)
      <4>1. u \in Users /\ mailbox \in [Users -> Seq(Mails)]
        BY <3>2, IngestionAssumption DEF Haraka, TypeInv
      <4>2. s \in Seq(Mails)
        BY <4>1
      <4>3. mailbox' = [mailbox EXCEPT ![u] = s]
        BY <1>1, <3>2 DEF Receive
      <4> HIDE DEF s, u
      <4> QED
        BY <4>1, <4>2, <4>3
    <3> QED
      BY <3>1, <3>2
  <2>3. UNCHANGED <<meta, old, seen, expired, alias, rows, temp, locked, run, marks, budget>>
    BY <1>1 DEF Receive
  <2> QED
    BY <2>1, <2>2, <2>3 DEF TypeInv, marks
<1>2. ASSUME NEW m \in Mails, Refuse(m) \/ StreamEnds(m) \/ Aged(m) \/ CleanUp(m)
      PROVE  TypeInv'
  <2>1. UNCHANGED <<server, alias, rows, temp, locked, run, marks>>
    BY <1>2 DEF Refuse, StreamEnds, Aged, CleanUp
  <2>2. /\ outgoing' \in SUBSET Mails /\ old' \in SUBSET Haraka
        /\ eml' \in [Haraka -> {"none", "partial", "inbox", "processed", "failed"}]
        /\ meta' \in [Haraka -> {"none", "inbox", "processed", "failed"}]
    BY <1>2 DEF Refuse, StreamEnds, Aged, CleanUp, TypeInv
  <2>3. budget' \in [DOMAIN budget' -> Nat]
    BY <1>2 DEF Refuse, StreamEnds, Aged, CleanUp, TypeInv, Spend
  <2> QED
    BY <2>1, <2>2, <2>3 DEF TypeInv, server, marks
<1>8. ASSUME NEW m \in Mails, Expires(m) PROVE TypeInv'
  <2>1. UNCHANGED <<files, mailbox, seen, alias, rows, temp, locked, run, marks>>
        /\ expired' = expired \cup {m}
    BY <1>8 DEF Expires
  <2>2. budget' \in [DOMAIN budget' -> Nat]
    BY <1>8 DEF Expires, TypeInv, Spend
  <2> QED
    BY <2>1, <2>2 DEF TypeInv, files, marks
<1>3. ASSUME NEW u \in Users, NEW a \in Addresses, ChangeAlias(u, a) PROVE TypeInv'
  <2>1. UNCHANGED <<files, server, rows, temp, locked, run, marks>>
    BY <1>3 DEF ChangeAlias
  <2>2. alias' \in [Users -> Addresses \cup {None}] /\ budget' \in [DOMAIN budget' -> Nat]
    BY <1>3 DEF ChangeAlias, TypeInv, Spend
  <2> QED
    BY <2>1, <2>2 DEF TypeInv, files, server, marks
<1>4. ASSUME NEW r \in rows, DeleteRow(r) PROVE TypeInv'
  <2>1. UNCHANGED <<files, server, alias, temp, locked, run, undated, shared>>
    BY <1>4 DEF DeleteRow
  <2>2. rows' \in SUBSET Row /\ budget' \in [DOMAIN budget' -> Nat]
    BY <1>4 DEF DeleteRow, TypeInv, Spend
  <2>3. r.user \in Users /\ Dated \subseteq Mails
    BY IngestionAssumption DEF TypeInv, Row
  <2>4. excused' \in SUBSET (Users \X Mails)
    BY <1>4, <2>3 DEF DeleteRow, TypeInv
  <2> QED
    BY <2>1, <2>2, <2>4 DEF TypeInv, files, server
<1>5. ASSUME NEW r \in rows, ResetStuck(r) PROVE TypeInv'
  <2>1. rows' \in SUBSET Row
    BY <1>5, ResetRows, RewrittenRows
  <2> QED
    BY <1>5, <2>1, ResetRows DEF TypeInv, files, server, marks
<1>6. ASSUME NEW w \in Workers, Die(w) PROVE TypeInv'
  <2>1. run' = [run EXCEPT ![w] = Idle]
        /\ UNCHANGED <<files, server, alias, rows, temp, locked, marks>>
    BY <1>6 DEF Die
  <2>2. budget' \in [DOMAIN budget' -> Nat]
    BY <1>6 DEF Die, TypeInv, Spend
  <2>3. run' \in [Workers -> Run] /\ Others(w) /\ run'[w] = Idle
    BY <2>1, IdleIsRun, PutEffect
  <2>4. \A v \in Workers : /\ run'[v].pc \in Handling => run'[v].mail \in Mails
                           /\ run'[v].pc = "search" => run'[v].box \in Users
    BY <2>3, RunTypes DEF Idle, Handling
  <2> QED
    BY <2>1, <2>2, <2>3, <2>4 DEF TypeInv, files, server, marks
<1>7. ASSUME NEW l \in Locks, LockTimesOut(l) PROVE TypeInv'
  <2>1. UNCHANGED <<files, server, alias, rows, temp, run, undated, excused>>
        /\ locked' = locked \ {l}
    BY <1>7 DEF LockTimesOut
  <2>2. \/ UNCHANGED <<budget, shared>>
        \/ Spend("overrun") /\ shared' = shared \cup ({l} \cap Users)
    BY <1>7 DEF LockTimesOut
  <2>3. budget' \in [DOMAIN budget' -> Nat]
    BY <2>2 DEF TypeInv, Spend
  <2>4. shared' \in SUBSET Users
    BY <2>2 DEF TypeInv
  <2> QED
    BY <2>1, <2>3, <2>4 DEF TypeInv, files, server, marks
<1> QED
  BY <1>1, <1>2, <1>3, <1>4, <1>5, <1>6, <1>7, <1>8 DEF Environment

LEMMA TypeStep == TypeInv /\ RowsInv /\ [Next]_vars => TypeInv'
<1> SUFFICES ASSUME TypeInv, RowsInv, [Next]_vars PROVE TypeInv'
  OBVIOUS
<1>1. CASE UNCHANGED vars
  BY <1>1 DEF TypeInv, vars, files, server, marks
<1> QED
  BY <1>1, WorkerTypes, EnvironmentTypes DEF Next

-----------------------------------------------------------------------------
(* One row of a user for one message id *)

(* Every step leaves the rows, adds one, rewrites one or deletes one.        *)
LEMMA RowsEffect ==
  ASSUME TypeInv, RowsInv, [Next]_vars
  PROVE  \/ UNCHANGED rows /\ excused \subseteq excused'
         \/ (\E x : NewRow(x)) /\ UNCHANGED excused
         \/ (\E x, y : Rewritten(x, y)) /\ UNCHANGED excused
         \/ \E r \in rows : DeleteRow(r)
<1>1. ASSUME NEW w \in Workers,
             \/ StartHaraka(w) \/ StartImap(w) \/ FinishImap(w) \/ ScanInbox(w)
             \/ SearchMailbox(w) \/ OpenMailbox(w) \/ Finish(w)
      PROVE  UNCHANGED <<rows, excused>>
  BY <1>1, StartEffect, ListEffect, OpenMailboxEffect, FinishEffect DEF marks
<1>2. ASSUME NEW w \in Workers,
             \/ \E m \in Haraka : LoadFile(w, m)
             \/ FetchMessage(w)
      PROVE  UNCHANGED <<rows, excused>>
  BY <1>2, LoadFileEffect, FetchEffect DEF marks
<1>3. ASSUME NEW w \in Workers,
             \/ OpenAttachment(w) \/ WriteAttachment(w) \/ MoveFiles(w)
             \/ SkipUnreadable(w) \/ NoUser(w) \/ DeleteMessage(w)
      PROVE  UNCHANGED <<rows, excused>>
  BY <1>3 DEF OpenAttachment, WriteAttachment, MoveFiles, SkipUnreadable, NoUser,
              DeleteMessage, marks
<1>4. ASSUME NEW w \in Workers, SaveAttachment(w) \/ QueueMerge(w)
      PROVE  UNCHANGED excused /\ (UNCHANGED rows \/ \E x, y : Rewritten(x, y))
  BY <1>4, SaveAttachmentRows, QueueMergeRows DEF marks
<1>5. ASSUME NEW w \in Workers, SaveRow(w)
      PROVE  \/ UNCHANGED rows /\ excused \subseteq excused'
             \/ (\E x : NewRow(x)) /\ UNCHANGED excused
  BY <1>5, SaveRowRows
<1>6. ASSUME NEW r \in rows, ResetStuck(r)
      PROVE  (\E x, y : Rewritten(x, y)) /\ UNCHANGED excused
  BY <1>6, ResetRows DEF marks
<1>7. ASSUME \/ \E m \in Mails : Receive(m) \/ Refuse(m) \/ StreamEnds(m) \/ Aged(m)
                                \/ CleanUp(m) \/ Expires(m)
             \/ \E u \in Users, a \in Addresses : ChangeAlias(u, a)
             \/ \E w \in Workers : Die(w)
             \/ \E l \in Locks : LockTimesOut(l)
             \/ UNCHANGED vars
      PROVE  UNCHANGED <<rows, excused>>
  BY <1>7 DEF Expires, Receive, Refuse, StreamEnds, Aged, CleanUp, ChangeAlias, Die, LockTimesOut,
              vars, marks
<1> QED
  BY <1>1, <1>2, <1>3, <1>4, <1>5, <1>6, <1>7 DEF Next, WorkerStep, Environment

LEMMA RowsStep == TypeInv /\ RowsInv /\ [Next]_vars => RowsInv'
<1> SUFFICES ASSUME TypeInv, RowsInv, [Next]_vars PROVE RowsInv'
  OBVIOUS
<1>1. CASE UNCHANGED rows
  BY <1>1 DEF RowsInv
<1>2. ASSUME NEW r \in rows, DeleteRow(r) PROVE RowsInv'
  BY <1>2 DEF DeleteRow, RowsInv
<1> QED
  BY <1>1, <1>2, RowsEffect, NewRowRows, RewrittenRows

-----------------------------------------------------------------------------
(* One worker for one mailbox, while its lock holds *)

BoxInv ==
  /\ \A w \in Workers : run[w].pc = "idle" => run[w].box = None
  /\ \A w \in Workers :
       run[w].box # None /\ run[w].box \notin shared => run[w].box \in locked
  /\ \A v, w \in Workers :
       v # w /\ run[v].box # None /\ run[v].box \notin shared =>
         run[v].box # run[w].box

(* What a step does to the mailbox a worker has open, and to the locks.      *)
BoxKept(w) == run'[w].box = run[w].box /\ locked' = locked
BoxOpened(w) == run'[w].box \notin locked /\ locked' = locked \cup {run'[w].box}
BoxClosed(w) ==
  run'[w].box = None /\ locked \ {run[w].box, "haraka", "imap"} \subseteq locked'

LEMMA BoxMoves ==
  ASSUME TypeInv, BoxInv, NEW w \in Workers, Others(w), shared' = shared,
         run'[w].pc = "idle" => run'[w].box = None,
         BoxKept(w) \/ BoxOpened(w) \/ BoxClosed(w)
  PROVE  BoxInv'
<1>1. \A v \in Workers : run[v].box \in Users \cup {None}
  BY DEF TypeInv, Run
<1>2. {"haraka", "imap"} \cap Users = {}
  BY IngestionAssumption
<1>3. ASSUME NEW v \in Workers, run'[v].box # None, run'[v].box \notin shared
      PROVE  run'[v].box \in locked'
  BY <1>1, <1>2, <1>3 DEF BoxInv, Others, BoxKept, BoxOpened, BoxClosed
<1>4. ASSUME NEW u \in Workers, NEW v \in Workers, u # v, run'[u].box # None,
             run'[u].box \notin shared
      PROVE  run'[u].box # run'[v].box
  BY <1>4 DEF BoxInv, Others, BoxKept, BoxOpened, BoxClosed
<1>5. ASSUME NEW v \in Workers, run'[v].pc = "idle" PROVE run'[v].box = None
  BY <1>5 DEF BoxInv, Others
<1> QED
  BY <1>3, <1>4, <1>5 DEF BoxInv

LEMMA SharedStays ==
  ASSUME NEW w \in Workers, WorkerStep(w)
  PROVE  shared' = shared
BY DEF WorkerStep, StartHaraka, ScanInbox, StartImap, SearchMailbox, OpenMailbox, Finish,
       FinishImap, LoadFile, FetchMessage, OpenAttachment, WriteAttachment, MoveFiles,
       SkipUnreadable, NoUser, SaveRow, SaveAttachment, QueueMerge, DeleteMessage, marks

LEMMA WorkerBox ==
  ASSUME TypeInv, NEW w \in Workers, WorkerStep(w)
  PROVE  /\ Others(w) /\ (BoxKept(w) \/ BoxOpened(w) \/ BoxClosed(w))
         /\ run'[w].pc = "idle" => run'[w].box = None
<1>1. CASE StartHaraka(w) \/ StartImap(w) \/ FinishImap(w)
  BY <1>1, StartEffect DEF BoxClosed
<1>2. CASE ScanInbox(w) \/ SearchMailbox(w)
  BY <1>2, ListEffect DEF BoxKept
<1>3. CASE OpenMailbox(w)
  BY <1>3, OpenMailboxEffect DEF BoxKept, BoxOpened
<1>4. CASE Finish(w)
  BY <1>4, FinishEffect DEF BoxClosed
<1>5. ASSUME NEW m \in Haraka, LoadFile(w, m) PROVE Others(w) /\ BoxKept(w) /\ run'[w].box = None
  BY <1>5, LoadFileEffect DEF BoxKept
<1>6. CASE FetchMessage(w)
  BY <1>6, FetchEffect DEF BoxKept, Parsed
<1>7. CASE HandStep(w)
  BY <1>7, HandEffect DEF HandStep, SameMail, BoxKept, Handling
<1> QED
  BY <1>1, <1>2, <1>3, <1>4, <1>5, <1>6, <1>7 DEF WorkerStep, HandStep

LEMMA DieEffect ==
  ASSUME TypeInv, NEW w \in Workers, Die(w)
  PROVE  /\ run' \in [Workers -> Run] /\ Others(w) /\ run'[w] = Idle
         /\ UNCHANGED <<files, server, alias, rows, temp, locked, marks>>
<1>1. run' = [run EXCEPT ![w] = Idle]
      /\ UNCHANGED <<files, server, alias, rows, temp, locked, marks>>
  BY DEF Die
<1> QED
  BY <1>1, IdleIsRun, PutEffect

LEMMA BoxStep == TypeInv /\ BoxInv /\ [Next]_vars => BoxInv'
<1> SUFFICES ASSUME TypeInv, BoxInv, [Next]_vars PROVE BoxInv'
  OBVIOUS
<1>1. ASSUME NEW w \in Workers, WorkerStep(w) PROVE BoxInv'
  BY <1>1, WorkerBox, BoxMoves, SharedStays
<1>2. ASSUME NEW w \in Workers, Die(w) PROVE BoxInv'
  BY <1>2, DieEffect, BoxMoves DEF BoxClosed, Idle, marks
<1>3. ASSUME NEW l \in Locks, LockTimesOut(l) PROVE BoxInv'
  <2>1. run' = run /\ locked' = locked \ {l} /\ shared \subseteq shared'
    BY <1>3 DEF LockTimesOut
  <2>2. ASSUME NEW w \in Workers, run[w].box = l, l # None PROVE l \in shared'
    <3>1. l \in Users /\ run[w].pc # "idle"
      BY <2>2 DEF TypeInv, Run, BoxInv
    <3>2. l \in HeldBy(w)
      BY <2>2, <3>1 DEF HeldBy
    <3> QED
      BY <1>3, <3>1, <3>2 DEF LockTimesOut
  <2> QED
    BY <2>1, <2>2 DEF BoxInv
<1>4. CASE \/ \E m \in Mails : Receive(m) \/ Refuse(m) \/ StreamEnds(m) \/ Aged(m)
                              \/ CleanUp(m) \/ Expires(m)
           \/ \E u \in Users, a \in Addresses : ChangeAlias(u, a)
           \/ \E r \in rows : DeleteRow(r) \/ ResetStuck(r)
           \/ UNCHANGED vars
  <2>1. UNCHANGED <<run, locked, shared>>
    BY <1>4 DEF Receive, Refuse, StreamEnds, Aged, CleanUp, Expires, ChangeAlias,
                DeleteRow, ResetStuck, vars, marks
  <2> QED
    BY <2>1 DEF BoxInv
<1> QED
  BY <1>1, <1>2, <1>3, <1>4 DEF Next, Environment

-----------------------------------------------------------------------------
(* The message in hand *)

Grown(u) ==
  \A i \in DOMAIN mailbox[u] :
    i \in DOMAIN mailbox'[u] /\ mailbox'[u][i] = mailbox[u][i]

LEMMA ReceiveGrows ==
  ASSUME TypeInv, NEW m \in Mails, Receive(m), NEW u \in Users
  PROVE  Grown(u)
<1>1. mailbox \in [Users -> Seq(Mails)] /\ mailbox[u] \in Seq(Mails)
  BY DEF TypeInv
<1>2. mailbox'[u] = mailbox[u] \/ mailbox'[u] = Append(mailbox[u], m)
  BY <1>1 DEF Receive
<1> QED
  BY <1>1, <1>2 DEF Grown

LEMMA HandStays ==
  ASSUME TypeInv, HandInv, NEW v \in Workers, run'[v] = run[v],
         shared \subseteq shared',
         run[v].box # None /\ run[v].box \notin shared => Grown(run[v].box)
  PROVE  run'[v].box # None /\ run'[v].box \notin shared' /\ run'[v].pc \in Handling =>
           /\ run'[v].number \in DOMAIN mailbox'[run'[v].box]
           /\ mailbox'[run'[v].box][run'[v].number] = run'[v].mail
<1> DEFINE u == run[v].box
           i == run[v].number
<1> SUFFICES ASSUME u # None, u \notin shared, run[v].pc \in Handling
             PROVE  i \in DOMAIN mailbox'[u] /\ mailbox'[u][i] = run[v].mail
  OBVIOUS
<1>1. i \in DOMAIN mailbox[u] /\ mailbox[u][i] = run[v].mail
  BY DEF HandInv
<1> QED
  BY <1>1 DEF Grown

LEMMA HandWorker ==
  ASSUME TypeInv, BoxInv, HandInv, NEW w \in Workers, WorkerStep(w)
  PROVE  HandInv'
<1>1. Others(w) /\ shared' = shared
  BY WorkerBox, SharedStays
<1>2. CASE run[w].box # None /\ DeleteMessage(w)
  <2>1. \A v \in Workers :
          v # w /\ run[v].box # None /\ run[v].box \notin shared => Grown(run[v].box)
    BY <1>2, DeleteEffect DEF BoxInv, Grown, TypeInv, Run
  <2>2. run'[w].pc \notin Handling
    BY <1>2, DeleteEffect DEF Handling
  <2>3. ASSUME NEW v \in Workers, v # w
        PROVE  run'[v].box # None /\ run'[v].box \notin shared' /\ run'[v].pc \in Handling =>
                 /\ run'[v].number \in DOMAIN mailbox'[run'[v].box]
                 /\ mailbox'[run'[v].box][run'[v].number] = run'[v].mail
    BY <1>1, <2>1, <2>3, HandStays DEF Others
  <2> QED
    BY <2>2, <2>3 DEF HandInv
<1>3. ASSUME mailbox' = mailbox,
             run'[w].box # None /\ run'[w].box \notin shared /\ run'[w].pc \in Handling =>
               /\ run'[w].number \in DOMAIN mailbox[run'[w].box]
               /\ mailbox[run'[w].box][run'[w].number] = run'[w].mail
      PROVE  HandInv'
  BY <1>1, <1>3 DEF HandInv, Others
<1>4. CASE StartHaraka(w) \/ StartImap(w) \/ FinishImap(w)
  BY <1>3, <1>4, StartEffect DEF server
<1>5. CASE ScanInbox(w) \/ SearchMailbox(w)
  BY <1>3, <1>5, ListEffect DEF server, Handling
<1>6. CASE OpenMailbox(w)
  BY <1>3, <1>6, OpenMailboxEffect DEF server, Handling
<1>7. CASE Finish(w)
  BY <1>3, <1>7, FinishEffect DEF server, Handling
<1>8. ASSUME NEW m \in Haraka, LoadFile(w, m) PROVE HandInv'
  BY <1>3, <1>8, LoadFileEffect DEF server
<1>9. CASE FetchMessage(w)
  BY <1>3, <1>9, FetchEffect DEF Handling
<1>10. CASE HandStep(w) /\ ~(run[w].box # None /\ DeleteMessage(w))
  <2>1. SameMail(w) /\ run[w].pc \in Handling
    BY <1>10, HandEffect DEF HandStep
  <2>2. mailbox' = mailbox
    <3>1. CASE DeleteMessage(w)
      <4>1. run[w].box = None /\ None \notin Users /\ mailbox \in [Users -> Seq(Mails)]
        BY <1>10, <3>1, IngestionAssumption DEF TypeInv
      <4> QED
        BY <3>1, <4>1 DEF DeleteMessage
    <3>2. CASE ~DeleteMessage(w)
      BY <1>10, <3>2 DEF HandStep, OpenAttachment, WriteAttachment, MoveFiles, SkipUnreadable,
                         NoUser, SaveRow, SaveAttachment, QueueMerge, server
    <3> QED
      BY <3>1, <3>2
  <2> QED
    BY <1>3, <2>1, <2>2 DEF SameMail, HandInv
<1> QED
  BY <1>2, <1>4, <1>5, <1>6, <1>7, <1>8, <1>9, <1>10 DEF WorkerStep, HandStep

LEMMA HandInvStep == TypeInv /\ BoxInv /\ HandInv /\ [Next]_vars => HandInv'
<1> SUFFICES ASSUME TypeInv, BoxInv, HandInv, [Next]_vars PROVE HandInv'
  OBVIOUS
<1>1. ASSUME NEW w \in Workers, WorkerStep(w) PROVE HandInv'
  BY <1>1, HandWorker
<1>2. ASSUME NEW m \in Mails, Receive(m) PROVE HandInv'
  <2>1. run' = run /\ shared' = shared
    BY <1>2 DEF Receive, marks
  <2>2. \A v \in Workers : run[v].box # None => Grown(run[v].box)
    BY <1>2, ReceiveGrows DEF TypeInv, Run
  <2>3. ASSUME NEW v \in Workers
        PROVE  run'[v].box # None /\ run'[v].box \notin shared' /\ run'[v].pc \in Handling =>
                 /\ run'[v].number \in DOMAIN mailbox'[run'[v].box]
                 /\ mailbox'[run'[v].box][run'[v].number] = run'[v].mail
    BY <2>1, <2>2, HandStays
  <2> QED
    BY <2>3 DEF HandInv
<1>3. ASSUME NEW w \in Workers, Die(w) PROVE HandInv'
  BY <1>3, DieEffect DEF HandInv, Others, Idle, server, marks
<1>4. CASE \/ \E m \in Mails : Refuse(m) \/ StreamEnds(m) \/ Aged(m) \/ CleanUp(m)
                              \/ Expires(m)
           \/ \E u \in Users, a \in Addresses : ChangeAlias(u, a)
           \/ \E r \in rows : DeleteRow(r) \/ ResetStuck(r)
           \/ \E l \in Locks : LockTimesOut(l)
           \/ UNCHANGED vars
  <2>1. UNCHANGED <<run, mailbox>> /\ shared \subseteq shared'
    BY <1>4 DEF Refuse, StreamEnds, Aged, CleanUp, Expires, ChangeAlias, DeleteRow,
                ResetStuck, LockTimesOut, vars, server, marks
  <2> QED
    BY <2>1 DEF HandInv
<1> QED
  BY <1>1, <1>2, <1>3, <1>4 DEF Next, Environment

-----------------------------------------------------------------------------
(* What is handled is saved *)

Done(u, m) ==
  m \in Dated =>
    \/ \E r \in rows : r.user = u /\ r.id = Key(m)
    \/ m \notin Readable
    \/ <<u, m>> \in excused

SavedInv ==
  \A w \in Workers, u \in Users, m \in Mails :
    run[w].box = u /\ run[w].mail = m =>
      /\ run[w].pc = "broken" => m \notin Readable
      /\ run[w].pc \in {"attach", "queue", "delete"} => Done(u, m)

LEMMA DoneStays ==
  ASSUME TypeInv, RowsInv, [Next]_vars, NEW u, NEW m, Done(u, m)
  PROVE  Done(u, m)'
<1> SUFFICES ASSUME m \in Dated, m \in Readable,
                    (\E r \in rows : r.user = u /\ r.id = Key(m)) \/ <<u, m>> \in excused
             PROVE  (\E r \in rows' : r.user = u /\ r.id = Key(m)) \/ <<u, m>> \in excused'
  BY DEF Done, Key
<1>1. CASE UNCHANGED rows /\ excused \subseteq excused'
  BY <1>1
<1>2. ASSUME NEW x, NewRow(x), UNCHANGED excused
      PROVE (\E r \in rows' : r.user = u /\ r.id = Key(m)) \/ <<u, m>> \in excused'
  BY <1>2 DEF NewRow
<1>3. ASSUME NEW x, NEW y, Rewritten(x, y), UNCHANGED excused
      PROVE (\E r \in rows' : r.user = u /\ r.id = Key(m)) \/ <<u, m>> \in excused'
  BY <1>3 DEF Rewritten
<1>4. ASSUME NEW d \in rows, DeleteRow(d)
      PROVE (\E r \in rows' : r.user = u /\ r.id = Key(m)) \/ <<u, m>> \in excused'
  <2>1. CASE d.user = u /\ d.id = Key(m)
    <3>1. MessageId(m) = d.id
      BY <2>1 DEF MessageId, Key
    <3> QED
      BY <1>4, <2>1, <3>1 DEF DeleteRow
  <2>2. CASE ~(d.user = u /\ d.id = Key(m))
    BY <1>4, <2>2 DEF DeleteRow
  <2> QED
    BY <2>1, <2>2
<1> QED
  BY <1>1, <1>2, <1>3, <1>4, RowsEffect

(* It is enough to look at the worker that moves.                            *)
LEMMA SavedMoves ==
  ASSUME TypeInv, RowsInv, SavedInv, [Next]_vars, NEW w \in Workers, Others(w),
         NEW pc, run'[w].pc = pc,
         \A u \in Users, m \in Mails :
           run'[w].box = u /\ run'[w].mail = m =>
             /\ pc = "broken" => m \notin Readable
             /\ pc \in {"attach", "queue", "delete"} => Done(u, m)'
  PROVE  SavedInv'
<1> SUFFICES ASSUME NEW v \in Workers, NEW u \in Users, NEW m \in Mails,
                    run'[v].box = u, run'[v].mail = m
             PROVE  /\ run'[v].pc = "broken" => m \notin Readable
                    /\ run'[v].pc \in {"attach", "queue", "delete"} => Done(u, m)'
  BY DEF SavedInv
<1>1. CASE v = w
  BY <1>1
<1>2. CASE v # w
  <2>1. run'[v] = run[v]
    BY <1>2 DEF Others
  <2>2. /\ run[v].pc = "broken" => m \notin Readable
        /\ run[v].pc \in {"attach", "queue", "delete"} => Done(u, m)
    BY <2>1 DEF SavedInv
  <2> QED
    BY <2>1, <2>2, DoneStays
<1> QED
  BY <1>1, <1>2

LEMMA SavedHand ==
  ASSUME TypeInv, RowsInv, SavedInv, [Next]_vars, NEW w \in Workers, HandStep(w)
  PROVE  SavedInv'
<1>1. Others(w) /\ SameMail(w)
  BY HandEffect DEF HandStep
<1> SUFFICES ASSUME NEW u \in Users, NEW m \in Mails, run[w].box = u, run[w].mail = m
             PROVE  /\ run'[w].pc = "broken" => m \notin Readable
                    /\ run'[w].pc \in {"attach", "queue", "delete"} => Done(u, m)'
  BY <1>1, SavedMoves DEF SameMail
<1>2. u # None
  BY IngestionAssumption
<1>3. /\ run[w].pc = "broken" => m \notin Readable
      /\ run[w].pc \in {"attach", "queue", "delete"} => Done(u, m)
  BY DEF SavedInv
<1>4. ASSUME Goto(w, "load") PROVE run'[w].pc = "load"
  BY <1>4, GotoEffect DEF Labels
<1>5. CASE OpenAttachment(w) \/ WriteAttachment(w)
  <2>1. Goto(w, "writing") \/ Goto(w, "save")
    BY <1>2, <1>5 DEF OpenAttachment, WriteAttachment, AfterParse
  <2>2. run'[w].pc \in {"writing", "save"}
    BY <2>1, GotoEffect DEF Labels, Handling
  <2> QED
    BY <2>2
<1>6. CASE MoveFiles(w)
  BY <1>2, <1>6 DEF MoveFiles
<1>7. CASE SkipUnreadable(w)
  <2>1. Goto(w, "delete") /\ run[w].pc = "broken"
    BY <1>7 DEF SkipUnreadable
  <2>2. run'[w].pc = "delete"
    BY <2>1, GotoEffect DEF Labels, Handling
  <2>3. Done(u, m)'
    BY <1>3, <2>1 DEF Done
  <2> QED
    BY <2>2, <2>3
<1>8. CASE NoUser(w) \/ DeleteMessage(w)
  BY <1>4, <1>8 DEF NoUser, DeleteMessage
<1>9. CASE SaveRow(w)
  <2>1. UserFor(w) = u
    BY <1>2 DEF UserFor
  <2>2. run'[w].pc \in {"attach", "delete"}
    <3> DEFINE k == <<UserFor(w), MessageId(m)>>
    <3>1. Goto(w, "delete") \/ run' = [run EXCEPT ![w].pc = "attach", ![w].row = k]
      BY <1>2, <1>9 DEF SaveRow, Handled
    <3> HIDE DEF k
    <3>2. ASSUME Goto(w, "delete") PROVE run'[w].pc = "delete"
      BY <3>2, GotoEffect DEF Labels, Handling
    <3>3. ASSUME run' = [run EXCEPT ![w].pc = "attach", ![w].row = k]
          PROVE  run'[w].pc = "attach"
      BY <3>3 DEF TypeInv, Run
    <3> QED
      BY <3>1, <3>2, <3>3
  <2>3. m \in Dated => MessageId(m) = Key(m)
    BY DEF MessageId, Key
  <2>4. \/ excused' = excused /\ \E r \in rows' : r.user = u /\ r.id = MessageId(m)
        \/ excused' = excused \cup {<<u, m>>}
    BY <1>9, <2>1, SaveRowRows DEF NewRow
  <2>5. Done(u, m)'
    BY <2>3, <2>4 DEF Done, Key
  <2> QED
    BY <2>2, <2>5
<1>10. CASE SaveAttachment(w)
  <2>1. run[w].pc = "attach" /\ Handled(w) = "delete"
    BY <1>2, <1>10 DEF SaveAttachment, Handled
  <2>2. Done(u, m)'
    BY <1>3, <2>1, DoneStays
  <2> QED
    BY <1>10, <2>1, <2>2, SaveAttachmentRows
<1>11. CASE QueueMerge(w)
  <2>1. run[w].pc = "queue" /\ run' = [run EXCEPT ![w].pc = "delete", ![w].row = None]
    BY <1>2, <1>11 DEF QueueMerge, Handled
  <2>2. run'[w].pc = "delete"
    BY <2>1 DEF TypeInv, Run
  <2>3. Done(u, m)'
    BY <1>3, <2>1, DoneStays
  <2> QED
    BY <2>2, <2>3
<1> QED
  BY <1>5, <1>6, <1>7, <1>8, <1>9, <1>10, <1>11 DEF HandStep

LEMMA SavedStep == TypeInv /\ RowsInv /\ SavedInv /\ [Next]_vars => SavedInv'
<1> SUFFICES ASSUME TypeInv, RowsInv, SavedInv, [Next]_vars PROVE SavedInv'
  OBVIOUS
<1>1. None \notin Users
  BY IngestionAssumption
<1>2. ASSUME NEW w \in Workers, Others(w),
             \/ run'[w].box = None
             \/ run'[w].pc \notin {"broken", "attach", "queue", "delete"}
      PROVE  SavedInv'
  BY <1>1, <1>2, SavedMoves
<1>3. ASSUME NEW w \in Workers,
             \/ StartHaraka(w) \/ StartImap(w) \/ FinishImap(w) \/ ScanInbox(w)
             \/ SearchMailbox(w) \/ OpenMailbox(w) \/ Finish(w)
             \/ \E m \in Haraka : LoadFile(w, m)
      PROVE  SavedInv'
  BY <1>2, <1>3, StartEffect, ListEffect, OpenMailboxEffect, FinishEffect, LoadFileEffect
<1>4. ASSUME NEW w \in Workers, FetchMessage(w) PROVE SavedInv'
  <2>1. Others(w)
    BY <1>4, FetchEffect
  <2>2. \/ run'[w].pc = "load" \/ run'[w].pc = "attachment"
        \/ run'[w].pc = "broken" /\ run'[w].mail \notin Readable
    BY <1>4, FetchEffect DEF Parsed
  <2> QED
    BY <2>1, <2>2, SavedMoves
<1>5. ASSUME NEW w \in Workers, Die(w) PROVE SavedInv'
  BY <1>2, <1>5, DieEffect DEF Idle
<1>6. CASE \/ \E m \in Mails : Receive(m) \/ Refuse(m) \/ StreamEnds(m) \/ Aged(m)
                              \/ CleanUp(m) \/ Expires(m)
           \/ \E u \in Users, a \in Addresses : ChangeAlias(u, a)
           \/ \E r \in rows : DeleteRow(r) \/ ResetStuck(r)
           \/ \E l \in Locks : LockTimesOut(l)
           \/ UNCHANGED vars
  <2>1. run' = run
    BY <1>6 DEF Receive, Refuse, StreamEnds, Aged, CleanUp, Expires, ChangeAlias, DeleteRow,
                ResetStuck, LockTimesOut, vars
  <2> QED
    BY <2>1, DoneStays DEF SavedInv
<1> QED
  BY <1>3, <1>4, <1>5, <1>6, SavedHand DEF Next, WorkerStep, HandStep, Environment

-----------------------------------------------------------------------------
(* The theorems *)

IngestionInv == TypeInv /\ RowsInv /\ BoxInv /\ HandInv /\ SavedInv

LEMMA IngestionInit == Init => IngestionInv
<1> SUFFICES ASSUME Init PROVE IngestionInv
  OBVIOUS
<1>1. run = [w \in Workers |-> Idle] /\ rows = {} /\ excused = {} /\ locked = {}
  BY DEF Init
<1>2. \A w \in Workers : run[w].pc = "idle" /\ run[w].box = None
  BY <1>1 DEF Idle
<1>3. run \in [Workers -> Run]
  BY <1>1, IdleIsRun
<1>4. outgoing \in SUBSET Mails /\ budget \in [DOMAIN budget -> Nat]
  BY IngestionAssumption DEF Init
<1>5. mailbox \in [Users -> Seq(Mails)]
  BY DEF Init
<1>6. TypeInv
  BY <1>1, <1>2, <1>3, <1>4, <1>5 DEF Init, TypeInv, Handling
<1>7. RowsInv /\ BoxInv /\ HandInv /\ SavedInv
  BY <1>1, <1>2, IngestionAssumption DEF RowsInv, BoxInv, HandInv, SavedInv
<1> QED
  BY <1>6, <1>7 DEF IngestionInv

LEMMA IngestionStep == IngestionInv /\ [Next]_vars => IngestionInv'
BY TypeStep, RowsStep, BoxStep, HandInvStep, SavedStep DEF IngestionInv

(* Every variable keeps its type, in every behaviour of the fetches.         *)
THEOREM IngestionTypes == Spec => []TypeInv
<1>1. IngestionInv => TypeInv
  BY DEF IngestionInv
<1> QED
  BY <1>1, IngestionInit, IngestionStep, PTL DEF Spec

(* A user has one row for a mail that states its date, whoever reads it and  *)
(* however often.                                                            *)
THEOREM OneRow == Spec => []SameMailOnce
<1>1. IngestionInv => SameMailOnce
  BY DEF IngestionInv, RowsInv, SameMailOnce
<1> QED
  BY <1>1, IngestionInit, IngestionStep, PTL DEF Spec

(* Only the worker that has a mailbox open takes messages from it, and only  *)
(* the one it has in hand.                                                   *)
LEMMA OnlyHandled ==
  ASSUME IngestionInv, [Next]_vars, NEW u \in Users, NEW m \in Range(mailbox[u]),
         m \notin Range(mailbox'[u]), u \notin shared
  PROVE  \E w \in Workers : run[w].box = u /\ run[w].mail = m /\ run[w].pc = "delete"
<1>0. TypeInv /\ HandInv /\ None \notin Users
  BY IngestionAssumption DEF IngestionInv
<1>1. mailbox' # mailbox
  OBVIOUS
<1>2. ASSUME NEW k \in Mails, Receive(k) PROVE FALSE
  <2>1. Grown(u)
    BY <1>0, <1>2, ReceiveGrows
  <2> QED
    BY <2>1 DEF Grown, Range
<1>3. ASSUME NEW w \in Workers, DeleteMessage(w)
      PROVE  run[w].box = u /\ run[w].mail = m /\ run[w].pc = "delete"
  <2>1. run[w].box # None
    BY <1>0, <1>1, <1>3 DEF DeleteMessage, TypeInv
  <2>2. /\ run[w].pc = "delete"
        /\ \A v \in Users : v # run[w].box => mailbox'[v] = mailbox[v]
        /\ run[w].box \notin shared =>
             \A n \in Range(mailbox[run[w].box]) :
               n \notin Range(mailbox'[run[w].box]) => n = run[w].mail
    BY <1>0, <1>3, <2>1, DeleteEffect
  <2>3. run[w].box = u
    BY <2>2
  <2> QED
    BY <2>2, <2>3
<1>4. ASSUME NEW w \in Workers, WorkerStep(w), ~DeleteMessage(w) PROVE FALSE
  BY <1>1, <1>4 DEF WorkerStep, StartHaraka, ScanInbox, StartImap, SearchMailbox,
       OpenMailbox, Finish, FinishImap, LoadFile, FetchMessage, OpenAttachment,
       WriteAttachment, MoveFiles, SkipUnreadable, NoUser, SaveRow, SaveAttachment,
       QueueMerge, server
<1>5. CASE \/ \E k \in Mails : Refuse(k) \/ StreamEnds(k) \/ Aged(k) \/ CleanUp(k)
                              \/ Expires(k)
           \/ \E v \in Users, a \in Addresses : ChangeAlias(v, a)
           \/ \E r \in rows : DeleteRow(r) \/ ResetStuck(r)
           \/ \E w \in Workers : Die(w)
           \/ \E l \in Locks : LockTimesOut(l)
           \/ UNCHANGED vars
  BY <1>1, <1>5 DEF Refuse, StreamEnds, Aged, CleanUp, Expires, ChangeAlias, DeleteRow,
                    ResetStuck, Die, LockTimesOut, vars, server
<1> QED
  BY <1>2, <1>3, <1>4, <1>5 DEF Next, Environment

(* What disappears from a mailbox is saved for its owner, or excused, as     *)
(* long as its lock holds.                                                   *)
THEOREM DeletedIsSaved == Spec => DeletionFollowsSave
<1> DEFINE Safe == \A u \in Users, m \in Mails :
             m \in Dated /\ m \in Range(mailbox[u]) /\ m \notin Range(mailbox'[u])
               => Saved(u, m) \/ m \notin Readable \/ <<u, m>> \in excused \/ u \in shared
<1>1. IngestionInv /\ [Next]_vars => [Safe]_vars
  <2> SUFFICES ASSUME IngestionInv, [Next]_vars, NEW u \in Users, NEW m \in Mails,
                      m \in Dated, m \in Range(mailbox[u]), m \notin Range(mailbox'[u]),
                      u \notin shared
               PROVE  Saved(u, m) \/ m \notin Readable \/ <<u, m>> \in excused
    OBVIOUS
  <2>1. PICK w \in Workers : run[w].box = u /\ run[w].mail = m /\ run[w].pc = "delete"
    BY OnlyHandled
  <2>2. Done(u, m)
    BY <2>1 DEF IngestionInv, SavedInv
  <2>3. MessageId(m) = Key(m)
    BY DEF MessageId, Key
  <2> QED
    BY <2>2, <2>3 DEF Done, Saved
<1> QED
  BY <1>1, IngestionInit, IngestionStep, PTL DEF Spec, DeletionFollowsSave
=============================================================================
