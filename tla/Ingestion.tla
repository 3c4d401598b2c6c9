------------------------------ MODULE Ingestion ------------------------------
(***************************************************************************)
(* How a mail becomes an EmailMessage row with a task.                     *)
(*                                                                         *)
(*   - Haraka takes a mail over SMTP and its plugin raw_email_saver writes *)
(*     an .eml and a .meta file to the inbox directory; the task           *)
(*     haraka_email_fetch scans the directory, moves what it parsed and    *)
(*     saves it for the user who owns a recipient address;                 *)
(*   - the task imap_email_fetch reads the mailbox of each user who brings *)
(*     a mailbox of their own, and deletes there what it has handled;      *)
(*   - the cleanup deletes old files from the directories;                 *)
(*   - the reset of stuck emails queues a workflow for a row whose task    *)
(*     was never queued.                                                   *)
(*                                                                         *)
(* A worker process can die between any two steps: what is in its memory   *)
(* is gone and its task lock stays until it times out.                     *)
(***************************************************************************)
EXTENDS Naturals, FiniteSets, Sequences, SequencesExt

CONSTANTS
  Mails,        \* bound: the mails that are sent
  Users,
  ImapUsers,    \* users in mode custom_imap, in the order of the query
  MailboxOf,    \* Mails -> the user whose mailbox gets it, or None: Haraka
  To,           \* Mails -> the recipient addresses, in order
  Part,         \* Mails -> the content of its attachment, or None
  Sameness,     \* Mails -> a mail's subject, sender, recipients and date
  Dated,        \* mails with a Date header
  Readable,     \* mails the parser can read
  Decodable,    \* mails in UTF-8, in which the files of Haraka are opened
  DefaultOf,    \* Users -> the address username@domain
  Deleting,     \* users with delete_after_fetch
  Unread,       \* users with the filter "unread"
  Matching,     \* Users -> the mails that meet their other filters
  Limited,      \* users with max_age_days
  Workers,      \* bound: worker processes
  MaxUndated,   \* bound: parses of mails without a date
  Scenes,       \* bound: mails that are sent, and what happens how often
  None

Haraka == {m \in Mails : MailboxOf[m] = None}
Addresses == UNION {Range(To[m]) : m \in Mails} \cup Range(DefaultOf)
Contents == Range(Part) \ {None}
Mailboxes == Range(ImapUsers)
Locks == {"haraka", "imap"} \cup Users

ASSUME IngestionAssumption ==
  /\ Users \cap {None, "haraka", "imap"} = {}
  /\ ImapUsers \in Seq(Users)
  /\ None \notin Mails /\ Dated \subseteq Mails
  /\ MailboxOf \in [Mails -> Users \cup {None}]
  /\ To \in [Mails -> Seq(Addresses)]
  /\ DOMAIN Part = Mails
  /\ DefaultOf \in [Users -> Addresses]
  /\ Matching \in [Users -> SUBSET Mails]
  /\ \A s \in Scenes :
       s.mails \subseteq Mails /\ s.budget \in [DOMAIN s.budget -> Nat]

VARIABLES
  outgoing,  \* mails still with their sender
  eml, meta, \* where the files of a mail are
  old,       \* mails whose files are past the timeout of their directory
  mailbox,   \* the messages of each IMAP mailbox, in the order of the server
  seen,      \* messages with the flag \Seen
  expired,   \* messages that are older than max_age_days
  alias,     \* the active alias of each user in mode auto_assign
  rows,      \* the EmailMessage rows
  temp,      \* the files of the attachment directory of the parser
  locked,    \* the task locks that are taken
  run,       \* the fetch task each worker runs
  undated,   \* parses of mails without a date
  excused,   \* history: <<user, mail>> whose save failed or whose row was deleted
  shared,    \* history: mailboxes whose lock expired under a fetch
  budget

files == <<outgoing, eml, meta, old>>
server == <<mailbox, seen, expired>>
marks == <<undated, excused, shared>>
vars == <<files, server, alias, rows, temp, locked, run, marks, budget>>

(* A fetch: its task, the address map it loaded, what it still has to read   *)
(* (mails, or message numbers for IMAP), the mailboxes left, the mail in     *)
(* hand, its number on the server and its row.                               *)
Idle == [pc |-> "idle", task |-> None, box |-> None, map |-> {}, todo |-> {},
         left |-> <<>>, mail |-> None, number |-> 0, row |-> None]

Init ==
  /\ eml = [m \in Haraka |-> "none"]
  /\ meta = [m \in Haraka |-> "none"]
  /\ old = {}
  /\ mailbox = [u \in Users |-> <<>>]
  /\ seen = {}
  /\ expired = {}
  /\ alias = [u \in Users |-> None]
  /\ rows = {}
  /\ temp = [c \in Contents |-> "none"]
  /\ locked = {}
  /\ run = [w \in Workers |-> Idle]
  /\ undated = 0
  /\ excused = {}
  /\ shared = {}
  /\ \E s \in Scenes : outgoing = s.mails /\ budget = s.budget

Spend(k) ==
  /\ k \in DOMAIN budget
  /\ budget[k] > 0
  /\ budget' = [budget EXCEPT ![k] = @ - 1]

Lowest(S) == CHOOSE i \in S : \A j \in S : i <= j

Goto(w, pc) == run' = [run EXCEPT ![w].pc = pc]
-----------------------------------------------------------------------------
(* Haraka: the plugin answers OK when it has opened the file, and writes the *)
(* .meta file when the stream has ended.                                     *)

Receive(m) ==
  /\ m \in outgoing
  /\ IF m \in Haraka
     THEN /\ eml[m] = "none"
          /\ eml' = [eml EXCEPT ![m] = "partial"]
          /\ mailbox' = mailbox
     ELSE /\ mailbox' = [mailbox EXCEPT ![MailboxOf[m]] = Append(@, m)]
          /\ eml' = eml
  /\ outgoing' = outgoing \ {m}
  /\ UNCHANGED <<meta, old, seen, expired, alias, rows, temp, locked,
                 run, marks, budget>>

(* max_age_days after it came, a message is too old for the search.          *)
Expires(m) ==
  /\ \E u \in Users : m \in Range(mailbox[u])
  /\ Spend("age")
  /\ expired' = expired \cup {m}
  /\ UNCHANGED <<files, mailbox, seen, alias, rows, temp, locked, run, marks>>

(* An exception before the answer: the sender keeps the mail.                *)
Refuse(m) ==
  /\ m \in Haraka \cap outgoing
  /\ Spend("deny")
  /\ outgoing' = outgoing \ {m}
  /\ eml' \in {eml, [eml EXCEPT ![m] = "inbox"]}
  /\ UNCHANGED <<meta, old, server, alias, rows, temp, locked, run, marks>>

StreamEnds(m) ==
  /\ m \in Haraka
  /\ eml[m] = "partial"
  /\ eml' = [eml EXCEPT ![m] = "inbox"]
  /\ \/ meta' = [meta EXCEPT ![m] = "inbox"] /\ budget' = budget
     \/ meta' = meta /\ Spend("write")     \* no .meta file: the answer was OK
  /\ UNCHANGED <<outgoing, old, server, alias, rows, temp, locked, run, marks>>

Aged(m) ==
  /\ m \in Haraka \ old
  /\ eml[m] # "none"
  /\ \E k \in DOMAIN budget : k = "cleanup" /\ budget[k] > 0
  /\ old' = old \cup {m}
  /\ UNCHANGED <<outgoing, eml, meta, server, alias, rows, temp, locked,
                 run, marks, budget>>

(* cleanup_haraka_files: pairs past their timeout are deleted, also from the *)
(* inbox.  Removing the second file may fail.                                *)
CleanUp(m) ==
  /\ m \in old
  /\ meta[m] = eml[m]
  /\ eml[m] \in {"inbox", "processed", "failed"}
  /\ Spend("cleanup")
  /\ meta' = [meta EXCEPT ![m] = "none"]
  /\ eml' \in {eml, [eml EXCEPT ![m] = "none"]}
  /\ UNCHANGED <<outgoing, old, server, alias, rows, temp, locked, run, marks>>
-----------------------------------------------------------------------------
(* load_user_mappings: an alias comes before the default address of another  *)
(* user.                                                                     *)

AliasHolder(a) == {u \in Users : alias[u] = a}
Holders(a) ==
  IF AliasHolder(a) # {} THEN AliasHolder(a)
                         ELSE {u \in Users \ Mailboxes : DefaultOf[u] = a}
AddressMap == {x \in Addresses \X Users : x[2] \in Holders(x[1])}

(* find_user_by_recipient: the first recipient address that is mapped.       *)
MappedUser(map, m) ==
  LET known == {i \in DOMAIN To[m] : \E u \in Users : <<To[m][i], u>> \in map}
  IN IF known = {} THEN None
     ELSE CHOOSE u \in Users : <<To[m][Lowest(known)], u>> \in map

(* An alias is unique in the system.                                         *)
ChangeAlias(u, a) ==
  /\ u \notin Mailboxes
  /\ Spend("alias")
  /\ AliasHolder(a) = {}
  /\ alias' = [alias EXCEPT ![u] = a]
  /\ UNCHANGED <<files, server, rows, temp, locked, run, marks>>
-----------------------------------------------------------------------------
(* A fetch begins: prevent_duplicate_task takes the lock of the task.        *)

StartHaraka(w) ==
  /\ run[w].pc = "idle"
  /\ "haraka" \notin locked
  /\ locked' = locked \cup {"haraka"}
  /\ run' = [run EXCEPT ![w] = [Idle EXCEPT !.pc = "scan", !.task = "haraka",
                                           !.map = AddressMap]]
  /\ UNCHANGED <<files, server, alias, rows, temp, marks, budget>>

ScanInbox(w) ==
  /\ run[w].pc = "scan"
  /\ run' = [run EXCEPT ![w].pc = "load",
                        ![w].todo = {m \in Haraka : /\ meta[m] = "inbox"
                                                    /\ eml[m] = "inbox"}]
  /\ UNCHANGED <<files, server, alias, rows, temp, locked, marks, budget>>

StartImap(w) ==
  /\ run[w].pc = "idle"
  /\ "imap" \notin locked
  /\ locked' = locked \cup {"imap"}
  /\ run' = [run EXCEPT ![w] = [Idle EXCEPT !.pc = "user", !.task = "imap",
                                           !.left = ImapUsers]]
  /\ UNCHANGED <<files, server, alias, rows, temp, marks, budget>>

(* fetch_user_imap_emails has a lock per user: a mailbox whose lock was left *)
(* behind is skipped.                                                        *)
OpenMailbox(w) ==
  LET u == Head(run[w].left)
  IN /\ run[w].pc = "user"
     /\ run[w].left # <<>>
     /\ IF u \in locked
        THEN /\ run' = [run EXCEPT ![w].left = Tail(@)]
             /\ locked' = locked
        ELSE /\ run' = [run EXCEPT ![w].left = Tail(@), ![w].box = u,
                                   ![w].pc = "search"]
             /\ locked' = locked \cup {u}
     /\ UNCHANGED <<files, server, alias, rows, temp, marks, budget>>

(* search_criteria: the filters and the age.                                 *)
Wanted(u) == Matching[u] \ (IF u \in Limited THEN expired ELSE {})
Found(u, S) == {i \in DOMAIN mailbox[u] : mailbox[u][i] \in S}

(* Mutant of SearchMailbox: only what is unread, whatever the filters say.   *)
SearchUnread(w) ==
  LET box == run[w].box
  IN /\ run[w].pc = "search"
     /\ \/ /\ run' = [run EXCEPT ![w].pc = "load",
                                  ![w].todo = Found(box, Wanted(box) \ seen)]
           /\ budget' = budget
        \/ Spend("server") /\ Goto(w, "load")
     /\ UNCHANGED <<files, server, alias, rows, temp, locked, marks>>

(* The numbers the server answers.  A server that refuses the criteria is    *)
(* asked for all messages; no answer ends the fetch of the mailbox.          *)
SearchMailbox(w) ==
  LET box == run[w].box
      new == IF box \in Unread THEN Wanted(box) \ seen ELSE Wanted(box)
  IN /\ run[w].pc = "search"
     /\ \/ /\ run' = [run EXCEPT ![w].pc = "load", ![w].todo = Found(box, new)]
           /\ budget' = budget
        \/ /\ Spend("server")
           /\ run' = [run EXCEPT ![w].pc = "load", ![w].todo = Found(box, Mails)]
        \/ Spend("server") /\ Goto(w, "load")
     /\ UNCHANGED <<files, server, alias, rows, temp, locked, marks>>

(* The end of a mailbox, of the last mailbox, of the inbox.                  *)
Finish(w) ==
  /\ run[w].pc = "load" /\ run[w].todo = {}
  /\ IF run[w].box = None
     THEN locked' = locked \ {"haraka"} /\ run' = [run EXCEPT ![w] = Idle]
     ELSE /\ locked' = locked \ {run[w].box}
          /\ run' = [run EXCEPT ![w].box = None, ![w].pc = "user"]
  /\ UNCHANGED <<files, server, alias, rows, temp, marks, budget>>

FinishImap(w) ==
  /\ run[w].pc = "user" /\ run[w].left = <<>>
  /\ locked' = locked \ {"imap"}
  /\ run' = [run EXCEPT ![w] = Idle]
  /\ UNCHANGED <<files, server, alias, rows, temp, marks, budget>>
-----------------------------------------------------------------------------
(* One mail is read and parsed.  The parser saves the attachment under the   *)
(* hash of its content, unless there is such a file.                         *)

Parsed(m) == IF m \in Readable THEN "attachment" ELSE "broken"

(* A file that cannot be decoded stays in the inbox.                         *)
LoadFile(w, m) ==
  /\ run[w].pc = "load" /\ run[w].box = None
  /\ m \in run[w].todo
  /\ IF eml[m] = "inbox" /\ meta[m] = "inbox" /\ m \in Decodable
     THEN run' = [run EXCEPT ![w].todo = @ \ {m}, ![w].mail = m,
                             ![w].pc = Parsed(m)]
     ELSE run' = [run EXCEPT ![w].todo = @ \ {m}]
  /\ UNCHANGED <<files, server, alias, rows, temp, locked, marks, budget>>

(* A number counts the messages that are left: after a deletion it means     *)
(* another message, or none.                                                 *)
FetchMessage(w) ==
  LET box == run[w].box
      i == Lowest(run[w].todo)
  IN /\ run[w].pc = "load" /\ box # None /\ run[w].todo # {}
     /\ \/ /\ i \in DOMAIN mailbox[box]
           /\ run' = [run EXCEPT ![w].todo = @ \ {i}, ![w].number = i,
                                 ![w].mail = mailbox[box][i],
                                 ![w].pc = Parsed(mailbox[box][i])]
           /\ seen' = seen \cup {mailbox[box][i]}
           /\ budget' = budget
        \/ /\ i \in DOMAIN mailbox[box] => Spend("server")
           /\ i \notin DOMAIN mailbox[box] => budget' = budget
           /\ run' = [run EXCEPT ![w].todo = @ \ {i}]
           /\ seen' = seen
     /\ UNCHANGED <<files, mailbox, expired, alias, rows, temp, locked, marks>>

AfterParseDeletes(w) == IF run[w].box = None THEN "move" ELSE "delete"
AfterParse(w) == IF run[w].box = None THEN "move" ELSE "save"

OpenAttachment(w) ==
  LET c == Part[run[w].mail]
  IN /\ run[w].pc = "attachment"
     /\ IF c # None /\ temp[c] = "none"
        THEN temp' = [temp EXCEPT ![c] = "cut"] /\ Goto(w, "writing")
        ELSE temp' = temp /\ Goto(w, AfterParse(w))
     /\ UNCHANGED <<files, server, alias, rows, locked, marks, budget>>

WriteAttachment(w) ==
  /\ run[w].pc = "writing"
  /\ temp' = [temp EXCEPT ![Part[run[w].mail]] = "whole"]
  /\ Goto(w, AfterParse(w))
  /\ UNCHANGED <<files, server, alias, rows, locked, marks, budget>>

(* What follows a mail: the next file, or the deletion on the server.        *)
Handled(w) == IF run[w].box = None THEN "load" ELSE "delete"

(* _move_files_safely: first the .eml file, then the .meta file; each may    *)
(* fail, and the caller does not look at the answer.                         *)
MoveFiles(w) ==
  LET m == run[w].mail
      place == IF run[w].pc = "move" THEN "processed" ELSE "failed"
      Moved(f) == IF f[m] = "inbox" THEN [f EXCEPT ![m] = place] ELSE f
  IN /\ run[w].pc \in {"move", "broken"} /\ run[w].box = None
     /\ \E done \in SUBSET {"eml", "meta"} :
          /\ eml' = IF "eml" \in done THEN Moved(eml) ELSE eml
          /\ meta' = IF "meta" \in done THEN Moved(meta) ELSE meta
          /\ IF done = {"eml", "meta"} THEN budget' = budget ELSE Spend("move")
     /\ Goto(w, IF run[w].pc = "move" THEN "save" ELSE "load")
     /\ UNCHANGED <<outgoing, old, server, alias, rows, temp, locked, marks>>

SkipUnreadable(w) ==
  /\ run[w].pc = "broken" /\ run[w].box # None
  /\ Goto(w, "delete")
  /\ UNCHANGED <<files, server, alias, rows, temp, locked, marks, budget>>
-----------------------------------------------------------------------------
(* save_email: get_or_create by user and message_id, then the attachments,   *)
(* then the merge task.  An exception ends the handling of the mail.         *)

UserFor(w) ==
  IF run[w].box = None THEN MappedUser(run[w].map, run[w].mail) ELSE run[w].box

(* _generate_message_id: the time of the parse stands for a missing date.    *)
MessageId(m) == <<Sameness[m], IF m \in Dated THEN 0 ELSE undated + 1>>

NeverPresent(u, id) == FALSE
Present(u, id) == \E r \in rows : r.user = u /\ r.id = id

NoUser(w) ==
  /\ run[w].pc = "save" /\ UserFor(w) = None
  /\ Goto(w, "load")
  /\ UNCHANGED <<files, server, alias, rows, temp, locked, marks, budget>>

SaveRow(w) ==
  LET m == run[w].mail
      u == UserFor(w)
      id == MessageId(m)
      r == [user |-> u, id |-> id, mail |-> m, part |-> "none", task |-> "none",
            tries |-> 0]
  IN /\ run[w].pc = "save" /\ u # None
     /\ m \notin Dated => undated < MaxUndated
     /\ undated' = IF m \in Dated THEN undated ELSE undated + 1
     /\ \/ /\ Present(u, id)
           /\ Goto(w, Handled(w))
           /\ UNCHANGED <<rows, excused, budget>>
        \/ /\ ~Present(u, id)
           /\ rows' = rows \cup {r}
           /\ run' = [run EXCEPT ![w].pc = "attach", ![w].row = <<u, id>>]
           /\ UNCHANGED <<excused, budget>>
        \/ /\ Spend("save")
           /\ Goto(w, Handled(w))
           /\ excused' = excused \cup {<<u, m>>}
           /\ rows' = rows
     /\ UNCHANGED <<files, server, alias, temp, locked, shared>>

Mine(w) == {r \in rows : <<r.user, r.id>> = run[w].row}
Updated(R, Op(_)) == (rows \ R) \cup {Op(r) : r \in R}

(* The file of the parser as it is now; an attachment that fails is left     *)
(* out.  Without a directory for the attachments the handling of the mail    *)
(* ends, and its row has no task.                                            *)
SaveAttachment(w) ==
  LET c == Part[run[w].mail]
      With(r) == [r EXCEPT !.part = IF c = None THEN "none" ELSE temp[c]]
  IN /\ run[w].pc = "attach"
     /\ \/ /\ rows' = Updated(Mine(w), With) /\ budget' = budget
           /\ Goto(w, "queue")
        \/ /\ c # None /\ Spend("attach") /\ rows' = rows
           /\ \/ Goto(w, "queue")
              \/ run' = [run EXCEPT ![w].pc = Handled(w), ![w].row = None]
     /\ UNCHANGED <<files, server, alias, temp, locked, marks>>

QueueMerge(w) ==
  LET With(r) == [r EXCEPT !.task = "queued"]
  IN /\ run[w].pc = "queue"
     /\ \/ rows' = Updated(Mine(w), With) /\ budget' = budget
        \/ Spend("broker") /\ rows' = rows
     /\ run' = [run EXCEPT ![w].pc = Handled(w), ![w].row = None]
     /\ UNCHANGED <<files, server, alias, temp, locked, marks>>

(* scan_emails goes on when the mail before has been handled: the deletion   *)
(* follows also when the save has failed.  A number that is gone by now is   *)
(* refused.                                                                  *)
DeleteMessage(w) ==
  LET u == run[w].box
  IN /\ run[w].pc = "delete"
     /\ \/ /\ mailbox' = IF u \in Deleting /\ run[w].number \in DOMAIN mailbox[u]
                         THEN [mailbox EXCEPT ![u] = RemoveAt(@, run[w].number)]
                         ELSE mailbox
           /\ budget' = budget
        \/ u \in Deleting /\ Spend("server") /\ mailbox' = mailbox
     /\ Goto(w, "load")
     /\ UNCHANGED <<files, seen, expired, alias, rows, temp, locked, marks>>
-----------------------------------------------------------------------------
ResetOnce(r) ==
  LET Queued(s) == [s EXCEPT !.task = "queued", !.tries = 1]
      Counted(s) == [s EXCEPT !.tries = 1]
  IN /\ r \in rows /\ r.task = "none" /\ r.tries = 0
     /\ \A w \in Workers : run[w].row # <<r.user, r.id>>
     /\ \/ rows' = Updated({r}, Queued) /\ budget' = budget
        \/ rows' = Updated({r}, Counted) /\ Spend("broker")
     /\ UNCHANGED <<files, server, alias, temp, locked, run, marks>>

(* The reset of stuck emails, for a row that no worker has in hand: it       *)
(* queues the workflow once, and then gives the email up as FAILED.          *)
ResetStuck(r) ==
  LET Queued(s) == [s EXCEPT !.task = "queued", !.tries = 1]
      Counted(s) == [s EXCEPT !.tries = 1]
      GivenUp(s) == [s EXCEPT !.task = "failed"]
  IN /\ r \in rows /\ r.task = "none"
     /\ \A w \in Workers : run[w].row # <<r.user, r.id>>
     /\ \/ r.tries = 0 /\ rows' = Updated({r}, Queued) /\ budget' = budget
        \/ r.tries = 0 /\ rows' = Updated({r}, Counted) /\ Spend("broker")
        \/ r.tries = 1 /\ rows' = Updated({r}, GivenUp) /\ budget' = budget
     /\ UNCHANGED <<files, server, alias, temp, locked, run, marks>>

(* The user deletes an email; its mail may still be on the server.           *)
DeleteRow(r) ==
  /\ r \in rows /\ r.task # "none"
  /\ Spend("delete")
  /\ rows' = rows \ {r}
  /\ excused' = excused \cup {<<r.user, m>> : m \in {n \in Dated : MessageId(n) = r.id}}
  /\ UNCHANGED <<files, server, alias, temp, locked, run, undated, shared>>

Die(w) ==
  /\ run[w].pc # "idle"
  /\ Spend("death")
  /\ run' = [run EXCEPT ![w] = Idle]
  /\ UNCHANGED <<files, server, alias, rows, temp, locked, marks>>

(* A lock times out: that of a worker that died, or, when a fetch outlasts   *)
(* TASK_TIMEOUT_MINUTES, also that of one that goes on.                      *)
HeldBy(w) ==
  IF run[w].pc = "idle" THEN {} ELSE {run[w].task, run[w].box}

LockTimesOut(l) ==
  /\ l \in locked
  /\ IF \E w \in Workers : l \in HeldBy(w)
     THEN /\ Spend("overrun")
          /\ shared' = shared \cup ({l} \cap Users)
     ELSE UNCHANGED <<budget, shared>>
  /\ locked' = locked \ {l}
  /\ UNCHANGED <<files, server, alias, rows, temp, run, undated, excused>>
-----------------------------------------------------------------------------
WorkerStep(w) ==
  \/ StartHaraka(w) \/ ScanInbox(w) \/ StartImap(w) \/ SearchMailbox(w)
  \/ OpenMailbox(w) \/ Finish(w) \/ FinishImap(w)
  \/ \E m \in Haraka : LoadFile(w, m)
  \/ FetchMessage(w) \/ OpenAttachment(w) \/ WriteAttachment(w)
  \/ MoveFiles(w) \/ SkipUnreadable(w)
  \/ NoUser(w) \/ SaveRow(w) \/ SaveAttachment(w) \/ QueueMerge(w)
  \/ DeleteMessage(w)

Environment ==
  \/ \E m \in Mails : Receive(m) \/ Refuse(m) \/ StreamEnds(m) \/ Aged(m)
                      \/ CleanUp(m) \/ Expires(m)
  \/ \E u \in Users, a \in Addresses : ChangeAlias(u, a)
  \/ \E r \in rows : DeleteRow(r) \/ ResetStuck(r)
  \/ \E w \in Workers : Die(w)
  \/ \E l \in Locks : LockTimesOut(l)

Next == (\E w \in Workers : WorkerStep(w)) \/ Environment

Spec == Init /\ [][Next]_vars

(* Workers go on with what they have taken, files that have begun are ended, *)
(* the lock of a dead worker times out.  The scheduler queues both fetches   *)
(* and the reset again and again, and a worker that is free takes what waits *)
(* longest: neither fetch is passed over for ever.                           *)
Fairness ==
  /\ \A w \in Workers :
       WF_vars(WorkerStep(w) /\ run[w].pc # "idle")
  /\ SF_vars(\E w \in Workers : StartHaraka(w))
  /\ SF_vars(\E w \in Workers : StartImap(w))
  /\ WF_vars(\E m \in Haraka : StreamEnds(m))
  /\ WF_vars(\E r \in rows : ResetStuck(r))
  /\ WF_vars(\E l \in Locks : LockTimesOut(l) /\ budget' = budget)

FairSpec == Spec /\ Fairness
-----------------------------------------------------------------------------
(* A mail that states its date is saved at most once for a user, however     *)
(* often it is read: after a crash, from a mailbox that keeps it, from files *)
(* that could not be moved, or by two fetches at once.                       *)
SameMailOnce ==
  \A r, s \in rows :
    r.user = s.user /\ r.mail = s.mail /\ r.mail \in Dated => r = s

Saved(u, m) == \E r \in rows : r.user = u /\ r.id = MessageId(m)

(* delete_after_fetch: what disappears from the server is the message that   *)
(* was just handled, and it is saved for the owner of the mailbox, or        *)
(* unreadable, or its save failed (or the user has deleted the email since). *)
(* A crash loses no message.  A mailbox is left out once its lock expired    *)
(* under a fetch: two fetches then delete by numbers that the other moves.   *)
DeletionFollowsSave ==
  [][\A u \in Users, m \in Mails :
       m \in Dated /\ m \in Range(mailbox[u]) /\ m \notin Range(mailbox'[u])
       => Saved(u, m) \/ m \notin Readable \/ <<u, m>> \in excused
          \/ u \in shared]_vars

(* A readable message that the search asks for, by the filters of the user   *)
(* and its age, stays on the server only until it is saved, although a       *)
(* deletion renumbers the messages a fetch has yet to read: again and again  *)
(* there is none left that is not saved.  (With the filter "unread" a failed *)
(* save leaves a message behind for good.)                                   *)
ServerMailIsSaved ==
  []<>(\A u \in Users \ Unread :
         \A m \in Range(mailbox[u]) \cap Readable \cap Dated \cap Wanted(u) :
           Saved(u, m))

(* No saved email waits for ever: its merge task was queued, or the reset    *)
(* queued its workflow or gave it up.                                        *)
SavedMailGetsTask == []<>(\A r \in rows : r.task # "none")
=============================================================================
