------------------------------- MODULE WebProofs -------------------------------
(***************************************************************************)
(* Proofs about the three components of Web, for any pages, clients,       *)
(* emails, names, issues and bounds.                                       *)
(*                                                                         *)
(* ShareLinks: at most one link works, a link that has ended stays ended,  *)
(* and the password a page shows opens its link.  The inductive invariant  *)
(* adds to the types (TypeInv) that at most one link is active (OnlyOne);  *)
(* that what a visitor or the cleanup has found expired is expired still   *)
(* or was renewed since (FoundExpired); and that a page which was the last *)
(* to change a link knows the password of the link, from the answer it     *)
(* waits for or from what it shows (PagesKnow).                            *)
(*                                                                         *)
(* Accounts: an email has one user, and no completed user is lost, unless  *)
(* two requests about the email have overlapped.  Until they do there is   *)
(* one request about the email (AloneOn), and what it has found is so      *)
(* still when it writes (Unmoved).                                         *)
(*                                                                         *)
(* LegacyImport: the history of an issue is imported once.  What an import *)
(* has read keeps its meaning until it writes (HasRead): the issues do not *)
(* change, they only go, and channels keep their ids.                      *)
(***************************************************************************)
EXTENDS Web, FiniteSetTheorems, SequenceTheorems, WellFoundedInduction, TLAPS

-----------------------------------------------------------------------------
(* ShareLinks *)

Ends == Int \cup {None}
Rows == [till : Ends, word : Nat, active : BOOLEAN, by : Tabs \cup {None}]
Statuses == [link : Nat, till : Ends, expired : BOOLEAN, locked : BOOLEAN, word : Nat]
AskSet == [kind : {"post", "delete", None}, life : Lives \cup {None}, word : Nat,
           locked : BOOLEAN]
Pages == [pc : {"idle", "sent", "save", "stop", "done"},
          status : Statuses \cup {None}, ask : AskSet,
          read : Nat \cup {None}, got : Statuses \cup {None}]

TypeInv ==
  /\ now \in Int
  /\ link \in Seq(Rows)
  /\ words \in Nat
  /\ tab \in [Tabs -> Pages]
  /\ \A t \in Tabs : tab[t].pc = "save" => tab[t].ask.life \in Lives

(* What is remembered of a link is remembered of one that exists. *)
PagePoints(t) ==
  /\ tab[t].pc = "save" /\ tab[t].read # None => tab[t].read \in DOMAIN link
  /\ tab[t].status # None => tab[t].status.link \in DOMAIN link
  /\ tab[t].pc = "stop" \/ (tab[t].pc = "sent" /\ tab[t].ask.kind = "delete")
       => tab[t].status # None
Points ==
  /\ \A t \in Tabs : PagePoints(t)
  /\ visit # None => visit \in DOMAIN link
  /\ sweep \subseteq DOMAIN link

OnlyOne == \A i, j \in Live : i = j

(* A link that is marked as expired is so, or was renewed since. *)
Found(i) == i \in crossed \/ (link[i].till # None /\ link[i].till <= now)
FoundExpired ==
  /\ visit # None => Found(visit)
  /\ \A i \in sweep : Found(i)

(* What a page knows of a link: its password, if the page set it last. *)
Knows(t, s) ==
  s # None =>
    /\ s.link \in DOMAIN link
    /\ link[s.link].by = t /\ s.word # 0 => s.locked /\ link[s.link].word = s.word
PageKnows(t) ==
  /\ tab[t].pc = "done" => Knows(t, tab[t].got)
  /\ tab[t].pc # "done" => tab[t].got = None /\ Knows(t, tab[t].status)
PagesKnow == \A t \in Tabs : PageKnows(t)

Inv == TypeInv /\ Points /\ OnlyOne /\ FoundExpired /\ PagesKnow
-----------------------------------------------------------------------------
(* Types *)

(* A row appended to the table gets an index of its own. *)
LEMMA AppendAdds ==
  ASSUME NEW S, NEW s \in Seq(S), NEW e \in S
  PROVE  /\ Append(s, e) \in Seq(S)
         /\ DOMAIN Append(s, e) = DOMAIN s \cup {Len(s) + 1}
         /\ \A i \in DOMAIN s : Append(s, e)[i] = s[i]
         /\ Append(s, e)[Len(s) + 1] = e
         /\ Len(s) + 1 \notin DOMAIN s
OBVIOUS

(* A row overwritten leaves the table as long as it was, and the other rows. *)
LEMMA PutKeeps ==
  ASSUME NEW S, NEW s \in Seq(S), NEW i \in DOMAIN s, NEW e \in S
  PROVE  /\ [s EXCEPT ![i] = e] \in Seq(S)
         /\ DOMAIN [s EXCEPT ![i] = e] = DOMAIN s
         /\ \A j \in DOMAIN s : [s EXCEPT ![i] = e][j] = IF j = i THEN e ELSE s[j]
BY ExceptSeq

(* A table rewritten row by row is a table of the same length. *)
LEMMA UpdateKeeps ==
  ASSUME NEW S, NEW s \in Seq(S), NEW f, f = [i \in DOMAIN s |-> f[i]],
         \A i \in DOMAIN s : f[i] \in S
  PROVE  f \in Seq(S) /\ DOMAIN f = DOMAIN s
<1>1. DOMAIN s = 1..Len(s) /\ Len(s) \in Nat
  OBVIOUS
<1>2. f \in [1..Len(s) -> S]
  BY <1>1
<1> QED
  BY <1>1, <1>2

(* The expiry a request asks for is an expiry. *)
LEMMA UntilIsEnd ==
  ASSUME now \in Int, NEW life \in Lives
  PROVE  Until(life) \in Ends
BY DEF Until, Lives, Lasts, Ends

(* What a request finds and answers is of its type. *)
LEMMA StatusIsStatus ==
  ASSUME now \in Int, NEW i \in Nat, NEW r \in Rows, NEW w \in Nat
  PROVE  StatusOf(i, r, w) \in Statuses
BY DEF StatusOf, Rows, Statuses, Ends

(* The password a request sets is a password. *)
LEMMA NewWordIsWord ==
  ASSUME TypeInv, NEW t \in Tabs
  PROVE  NewWord(t) \in Nat
BY DEF NewWord, TypeInv, Pages, AskSet

(* What is in the table of links is a row. *)
LEMMA LinkIsRow ==
  ASSUME TypeInv, NEW i \in DOMAIN link
  PROVE  i \in Nat /\ link[i] \in Rows
BY DEF TypeInv

(* At the start every variable is of its type. *)
LEMMA TypeInit == Init => TypeInv
BY DEF Init, TypeInv, Pages, Idle, NoAsk, AskSet

(* A request a page sends is of its type. *)
LEMMA AsksType ==
  ASSUME TypeInv, NEW t \in Tabs, NEW kind \in {"post", "delete"},
         NEW life \in Lives \cup {None}, NEW locked \in BOOLEAN, NEW own \in BOOLEAN,
         Asks(t, kind, life, locked, own)
  PROVE  TypeInv'
<1> DEFINE a == [kind |-> kind, life |-> life, locked |-> locked,
                 word |-> IF own THEN words + 1 ELSE 0]
<1>1. a \in AskSet
  BY DEF AskSet, TypeInv
<1>2. [tab[t] EXCEPT !.pc = "sent", !.ask = a] \in Pages
  BY <1>1 DEF TypeInv, Pages
<1>3. tab' = [tab EXCEPT ![t] = [tab[t] EXCEPT !.pc = "sent", !.ask = a]]
  BY DEF Asks, TypeInv, Pages
<1>4. tab' \in [Tabs -> Pages]
  BY <1>2, <1>3 DEF TypeInv
<1>5. tab'[t].pc = "sent" /\ \A u \in Tabs \ {t} : tab'[u] = tab[u]
  BY <1>3 DEF TypeInv, Pages
<1> QED
  BY <1>4, <1>5 DEF Asks, TypeInv

(* Whatever a page asks, it asks by Asks. *)
LEMMA PageAsks ==
  ASSUME TypeInv, NEW t \in Tabs,
         \/ QuickShare(t) \/ SubmitForm(t) \/ SavePassword(t) \/ RemovePassword(t)
         \/ SaveExpiration(t) \/ StopSharing(t)
  PROVE  \E kind \in {"post", "delete"}, life \in Lives \cup {None},
            locked \in BOOLEAN, own \in BOOLEAN : Asks(t, kind, life, locked, own)
<1>1. tab[t].status # None =>
        tab[t].status.locked \in BOOLEAN /\ CurrentLife(tab[t].status) \in Lives
  BY DEF TypeInv, Pages, Statuses, CurrentLife, Lives
<1>2. {"week", "month", "forever"} = Lives
  BY DEF Lives
<1>3. CASE QuickShare(t)
  BY <1>2, <1>3 DEF QuickShare
<1>4. CASE SubmitForm(t)
  BY <1>4 DEF SubmitForm
<1>5. CASE SavePassword(t)
  BY <1>1, <1>5 DEF SavePassword
<1>6. CASE RemovePassword(t)
  BY <1>1, <1>6 DEF RemovePassword
<1>7. CASE SaveExpiration(t)
  <2>1. PICK life \in Lives :
          Asks(t, "post", IF life = "forever" THEN None ELSE life,
               tab[t].status.locked, FALSE)
    BY <1>7 DEF SaveExpiration
  <2>2. tab[t].status.locked \in BOOLEAN
    BY <1>1, <1>7 DEF SaveExpiration
  <2> QED
    BY <2>1, <2>2
<1>8. CASE StopSharing(t)
  BY <1>8 DEF StopSharing
<1> QED
  BY <1>3, <1>4, <1>5, <1>6, <1>7, <1>8

(* A page that gives up keeps what it shows. *)
LEMMA KeepsType ==
  ASSUME TypeInv, NEW t \in Tabs, Keeps(t)
  PROVE  /\ tab' \in [Tabs -> Pages]
         /\ \A u \in Tabs : tab'[u].pc = "save" => tab'[u] = tab[u]
BY DEF Keeps, TypeInv, Pages, Idle, NoAsk, AskSet

(* A page that is done shows the answer. *)
LEMMA DoneType ==
  ASSUME TypeInv, NEW t \in Tabs, NEW s \in Statuses,
         tab' = [tab EXCEPT ![t].pc = "done", ![t].got = s]
  PROVE  /\ tab' \in [Tabs -> Pages]
         /\ \A u \in Tabs : tab'[u].pc = "save" => tab'[u] = tab[u]
<1>1. [tab[t] EXCEPT !.pc = "done", !.got = s] \in Pages
  BY DEF TypeInv, Pages
<1>2. tab' = [tab EXCEPT ![t] = [tab[t] EXCEPT !.pc = "done", !.got = s]]
  BY DEF TypeInv, Pages
<1> QED
  BY <1>1, <1>2 DEF TypeInv

(* The row a renewal or a creation writes. *)
LEMMA SavedRow ==
  ASSUME TypeInv, NEW t \in Tabs, tab[t].pc = "save"
  PROVE  Until(tab[t].ask.life) \in Ends /\ NewWord(t) \in Nat
BY UntilIsEnd, NewWordIsWord DEF TypeInv

(* Every step keeps the types. *)
LEMMA TypeStep == TypeInv /\ Points /\ [Next]_vars => TypeInv'
<1> SUFFICES ASSUME TypeInv, Points, [Next]_vars PROVE TypeInv'
  OBVIOUS
<1>1. ASSUME NEW t \in Tabs,
             \/ QuickShare(t) \/ SubmitForm(t) \/ SavePassword(t) \/ RemovePassword(t)
             \/ SaveExpiration(t) \/ StopSharing(t)
      PROVE  TypeInv'
  BY <1>1, PageAsks, AsksType
<1>2. ASSUME NEW t \in Tabs, Reload(t) PROVE TypeInv'
  <2> DEFINE i == CHOOSE j \in Live : TRUE
             s == IF Live = {} THEN None ELSE StatusOf(i, link[i], 0)
  <2>1. s \in Statuses \cup {None}
    BY LinkIsRow, StatusIsStatus DEF Live, TypeInv
  <2>2. [tab[t] EXCEPT !.status = s] \in Pages
    BY <2>1 DEF TypeInv, Pages
  <2>3. tab' = [tab EXCEPT ![t] = [tab[t] EXCEPT !.status = s]]
    BY <1>2 DEF Reload, TypeInv, Pages
  <2> QED
    BY <1>2, <2>2, <2>3 DEF Reload, TypeInv, Pages
<1>3. ASSUME NEW t \in Tabs, PostRead(t) PROVE TypeInv'
  <2>1. CASE Keeps(t)
    BY <1>3, <2>1, KeepsType DEF PostRead, TypeInv
  <2>2. CASE tab[t].ask.life # None
    <3> DEFINE r == IF Live = {} THEN None ELSE CHOOSE j \in Live : TRUE
    <3>1. r \in Nat \cup {None}
      BY LinkIsRow DEF Live
    <3>2. [tab[t] EXCEPT !.pc = "save", !.read = r] \in Pages
      BY <3>1 DEF TypeInv, Pages
    <3>3. tab' = [tab EXCEPT ![t] = [tab[t] EXCEPT !.pc = "save", !.read = r]]
      BY <1>3, <2>2 DEF PostRead, TypeInv, Pages
    <3>4. tab'[t].ask.life \in Lives
      BY <2>2, <3>3 DEF TypeInv, Pages, AskSet
    <3> QED
      BY <1>3, <3>2, <3>3, <3>4 DEF PostRead, TypeInv
  <2> QED
    BY <1>3, <2>1, <2>2 DEF PostRead
<1>4. ASSUME NEW t \in Tabs, Renew(t) PROVE TypeInv'
  <2> DEFINE i == tab[t].read
             row == Refreshed(link[i], Until(tab[t].ask.life), NewWord(t), t)
  <2>1. i \in DOMAIN link /\ tab[t].pc = "save"
    BY <1>4 DEF Renew, Points, PagePoints
  <2>2. i \in Nat /\ link[i] \in Rows
    BY <2>1, LinkIsRow
  <2>3. Until(tab[t].ask.life) \in Ends /\ NewWord(t) \in Nat
    BY <2>1, SavedRow
  <2>4. row \in Rows
    BY <2>2, <2>3 DEF Refreshed, Rows
  <2>5. link' = [link EXCEPT ![i] = row]
    BY <1>4 DEF Renew
  <2>6. link' \in Seq(Rows)
    BY <2>1, <2>4, <2>5, PutKeeps DEF TypeInv
  <2>7. words' \in Nat
    BY <1>4, <2>3 DEF Renew, TypeInv
  <2>8. StatusOf(i, row, row.word) \in Statuses
    BY <2>2, <2>4, StatusIsStatus DEF TypeInv, Rows
  <2>9. tab' = [tab EXCEPT ![t].pc = "done", ![t].got = StatusOf(i, row, row.word)]
    BY <1>4 DEF Renew
  <2>10. /\ tab' \in [Tabs -> Pages]
         /\ \A u \in Tabs : tab'[u].pc = "save" => tab'[u] = tab[u]
    BY <2>8, <2>9, DoneType
  <2> QED
    BY <1>4, <2>6, <2>7, <2>10 DEF Renew, TypeInv
<1>5. ASSUME NEW t \in Tabs, Create(t) PROVE TypeInv'
  <2> DEFINE row == [till |-> Until(tab[t].ask.life), word |-> NewWord(t),
                     active |-> TRUE, by |-> t]
             i == Len(link) + 1
  <2>1. row \in Rows /\ i \in Nat
    BY <1>5, SavedRow DEF Create, Rows, TypeInv
  <2>2. StatusOf(i, row, row.word) \in Statuses
    BY <2>1, StatusIsStatus DEF TypeInv, Rows
  <2>3. CASE Single
    <3>1. link' = Append(link, row) /\ UNCHANGED now
      BY <1>5, <2>3 DEF Create
    <3>2. tab' = [tab EXCEPT ![t].pc = "done", ![t].got = StatusOf(i, row, row.word)]
      BY <1>5, <2>3 DEF Create
    <3>3. words' \in Nat
      BY <1>5, <2>1, <2>3 DEF Create, TypeInv, Rows
    <3>4. link' \in Seq(Rows)
      BY <2>1, <3>1, AppendAdds DEF TypeInv
    <3>5. /\ tab' \in [Tabs -> Pages]
          /\ \A u \in Tabs : tab'[u].pc = "save" => tab'[u] = tab[u]
      BY <2>2, <3>2, DoneType
    <3> QED
      BY <3>1, <3>3, <3>4, <3>5 DEF TypeInv
  <2>4. CASE ~Single
    BY <1>5, <2>4, KeepsType DEF Create, TypeInv
  <2> QED
    BY <2>3, <2>4
<1>6. ASSUME NEW t \in Tabs, StopRead(t) PROVE TypeInv'
  BY <1>6 DEF StopRead, TypeInv, Pages
<1>7. ASSUME NEW t \in Tabs, StopWrite(t) PROVE TypeInv'
  <2> DEFINE i == tab[t].status.link
  <2>1. link' = [link EXCEPT ![i] = [link[i] EXCEPT !.active = FALSE]]
    BY <1>7 DEF StopWrite
  <2>2. i \in DOMAIN link /\ [link[i] EXCEPT !.active = FALSE] \in Rows
    BY <1>7, LinkIsRow DEF StopWrite, Points, PagePoints, Rows
  <2>3. link' \in Seq(Rows)
    BY <2>1, <2>2, PutKeeps DEF TypeInv
  <2>4. tab' \in [Tabs -> Pages] /\ tab'[t].pc = "done" /\ \A u \in Tabs \ {t} : tab'[u] = tab[u]
    BY <1>7 DEF StopWrite, TypeInv, Pages
  <2> QED
    BY <1>7, <2>3, <2>4 DEF StopWrite, TypeInv
<1>8. ASSUME NEW t \in Tabs, Receive(t) PROVE TypeInv'
  BY <1>8 DEF Receive, Shown, Idle, NoAsk, AskSet, TypeInv, Pages
<1>9. ASSUME NEW t \in Tabs, LoseAnswer(t) PROVE TypeInv'
  <2>1. \A i \in DOMAIN link : link'[i] \in Rows
    BY <1>9, LinkIsRow DEF LoseAnswer, Rows
  <2>2. link' = [i \in DOMAIN link |-> link'[i]]
    BY <1>9 DEF LoseAnswer
  <2>3. link' \in Seq(Rows)
    BY <2>1, <2>2, UpdateKeeps DEF TypeInv
  <2> QED
    BY <1>9, <2>3, KeepsType DEF LoseAnswer, TypeInv
<1>10. CASE VisitExpired \/ SweepRead
  BY <1>10 DEF VisitExpired, SweepRead, TypeInv
<1>11. CASE VisitRetires
  <2>1. link' = [link EXCEPT ![visit] = [link[visit] EXCEPT !.active = FALSE]]
    BY <1>11 DEF VisitRetires
  <2>2. visit \in DOMAIN link /\ [link[visit] EXCEPT !.active = FALSE] \in Rows
    BY <1>11, LinkIsRow DEF VisitRetires, Points, Rows
  <2>3. link' \in Seq(Rows)
    BY <2>1, <2>2, PutKeeps DEF TypeInv
  <2> QED
    BY <1>11, <2>3 DEF VisitRetires, TypeInv
<1>12. CASE SweepWrite
  <2>1. \A i \in DOMAIN link : link'[i] \in Rows
    BY <1>12, LinkIsRow DEF SweepWrite, Rows
  <2>2. link' = [i \in DOMAIN link |-> link'[i]]
    BY <1>12 DEF SweepWrite
  <2>3. link' \in Seq(Rows)
    BY <2>1, <2>2, UpdateKeeps DEF TypeInv
  <2> QED
    BY <1>12, <2>3 DEF SweepWrite, TypeInv
<1>13. CASE Tick
  BY <1>13 DEF Tick, TypeInv
<1>14. CASE UNCHANGED vars
  BY <1>14 DEF vars, TypeInv
<1> QED
  BY <1>1, <1>2, <1>3, <1>4, <1>5, <1>6, <1>7, <1>8, <1>9, <1>10, <1>11, <1>12,
     <1>13, <1>14 DEF Next, OwnerStops
-----------------------------------------------------------------------------
(* What a step does to the links *)

(* A step of page t, of a visitor or of the cleanup either leaves a link     *)
(* alone, ends it, or writes the row a page asked for.                       *)
LEMMA RenewRow ==
  ASSUME TypeInv, Points, NEW t \in Tabs, Renew(t)
  PROVE  LET i == tab[t].read IN
         /\ i \in DOMAIN link /\ DOMAIN link' = DOMAIN link
         /\ \A j \in DOMAIN link \ {i} : link'[j] = link[j]
         /\ link'[i].active = link[i].active
         /\ link'[i].word = NewWord(t)
         /\ link'[i].by = t
<1> DEFINE i == tab[t].read
           row == Refreshed(link[i], Until(tab[t].ask.life), NewWord(t), t)
<1>1. i \in DOMAIN link /\ tab[t].pc = "save"
  BY DEF Renew, Points, PagePoints
<1>2. link[i] \in Rows
  BY <1>1, LinkIsRow
<1>3. row.active = link[i].active /\ row.word = NewWord(t) /\ row.by = t
  BY <1>2 DEF Refreshed, Rows
<1>4. Until(tab[t].ask.life) \in Ends /\ NewWord(t) \in Nat
  BY <1>1, SavedRow
<1>5. row \in Rows
  BY <1>2, <1>4 DEF Refreshed, Rows
<1>6. link' = [link EXCEPT ![i] = row]
  BY DEF Renew
<1>7. /\ DOMAIN link' = DOMAIN link
      /\ \A j \in DOMAIN link : link'[j] = IF j = i THEN row ELSE link[j]
  BY <1>1, <1>5, <1>6, PutKeeps DEF TypeInv
<1> QED
  BY <1>1, <1>3, <1>7

(* A creation that no active link forbids adds one row and no more. *)
LEMMA CreatedRow ==
  ASSUME TypeInv, NEW t \in Tabs, Create(t), Live = {}
  PROVE  LET i == Len(link) + 1 IN
         /\ i \notin DOMAIN link /\ DOMAIN link' = DOMAIN link \cup {i}
         /\ \A j \in DOMAIN link : link'[j] = link[j]
         /\ link'[i] = [till |-> Until(tab[t].ask.life), word |-> NewWord(t),
                        active |-> TRUE, by |-> t]
<1> DEFINE row == [till |-> Until(tab[t].ask.life), word |-> NewWord(t),
                   active |-> TRUE, by |-> t]
<1>1. row \in Rows
  BY SavedRow DEF Create, Rows
<1>2. link' = Append(link, row)
  BY DEF Create, Single
<1> QED
  BY <1>1, <1>2, AppendAdds DEF TypeInv

(* The rows a visitor, the cleanup or the owner ends. *)
LEMMA EndedRows ==
  ASSUME TypeInv, Points, NEW I,
         \/ VisitRetires /\ I = {visit}
         \/ SweepWrite /\ I = sweep
         \/ \E t \in Tabs : StopWrite(t) /\ I = {tab[t].status.link}
  PROVE  /\ I \subseteq DOMAIN link /\ DOMAIN link' = DOMAIN link
         /\ \A j \in DOMAIN link :
              link'[j] = IF j \in I THEN [link[j] EXCEPT !.active = FALSE] ELSE link[j]
<1>1. ASSUME NEW i \in DOMAIN link, I = {i},
             link' = [link EXCEPT ![i] = [link[i] EXCEPT !.active = FALSE]]
      PROVE  /\ DOMAIN link' = DOMAIN link
             /\ \A j \in DOMAIN link :
                  link'[j] = IF j \in I THEN [link[j] EXCEPT !.active = FALSE] ELSE link[j]
  <2>1. [link[i] EXCEPT !.active = FALSE] \in Rows
    BY LinkIsRow DEF Rows
  <2> QED
    BY <1>1, <2>1, PutKeeps DEF TypeInv
<1>2. CASE VisitRetires /\ I = {visit}
  <2>1. visit \in DOMAIN link
    BY <1>2 DEF VisitRetires, Points
  <2>2. link' = [link EXCEPT ![visit] = [link[visit] EXCEPT !.active = FALSE]]
    BY <1>2 DEF VisitRetires
  <2> QED
    BY <1>1, <1>2, <2>1, <2>2
<1>3. CASE SweepWrite /\ I = sweep
  BY <1>3 DEF SweepWrite, Points
<1>4. ASSUME NEW t \in Tabs, StopWrite(t), I = {tab[t].status.link}
      PROVE  /\ I \subseteq DOMAIN link /\ DOMAIN link' = DOMAIN link
             /\ \A j \in DOMAIN link :
                  link'[j] = IF j \in I THEN [link[j] EXCEPT !.active = FALSE] ELSE link[j]
  <2> DEFINE i == tab[t].status.link
  <2>1. i \in DOMAIN link
    BY <1>4 DEF StopWrite, Points, PagePoints
  <2>2. link' = [link EXCEPT ![i] = [link[i] EXCEPT !.active = FALSE]]
    BY <1>4 DEF StopWrite
  <2> QED
    BY <1>1, <1>4, <2>1, <2>2
<1> QED
  BY <1>2, <1>3, <1>4

(* Who ends a link leaves its password and its last writer.                  *)
LEMMA EndedKeeps ==
  ASSUME TypeInv, Points, VisitRetires \/ SweepWrite \/ \E t \in Tabs : StopWrite(t)
  PROVE  \A j \in DOMAIN link : link'[j].by = link[j].by /\ link'[j].word = link[j].word
<1>1. ASSUME NEW I,
             \A j \in DOMAIN link :
               link'[j] = IF j \in I THEN [link[j] EXCEPT !.active = FALSE] ELSE link[j]
      PROVE  \A j \in DOMAIN link : link'[j].by = link[j].by /\ link'[j].word = link[j].word
  BY <1>1, LinkIsRow DEF Rows
<1>2. CASE VisitRetires
  BY <1>1, <1>2, EndedRows
<1>3. CASE SweepWrite
  BY <1>1, <1>3, EndedRows
<1>4. ASSUME NEW t \in Tabs, StopWrite(t)
      PROVE  \A j \in DOMAIN link : link'[j].by = link[j].by /\ link'[j].word = link[j].word
  BY <1>1, <1>4, EndedRows
<1> QED
  BY <1>2, <1>3, <1>4

(* The steps of a page that leave every link as it is. *)
Quiet(t) ==
  \/ QuickShare(t) \/ SubmitForm(t) \/ SavePassword(t) \/ RemovePassword(t)
  \/ SaveExpiration(t) \/ StopSharing(t) \/ Reload(t)
  \/ PostRead(t) \/ StopRead(t) \/ Receive(t) \/ (Create(t) /\ Live # {})

(* They leave what others remember of the links as it is, too. *)
LEMMA QuietKeeps ==
  ASSUME NEW t \in Tabs, Quiet(t)
  PROVE  UNCHANGED <<now, link, visit, sweep, crossed>>
BY DEF Quiet, QuickShare, SubmitForm, SavePassword, RemovePassword, SaveExpiration,
       StopSharing, Asks, Reload, PostRead, StopRead, Receive, Create, Single

(* Every step is one of these. *)
LEMMA StepKinds ==
  ASSUME [Next]_vars
  PROVE  \/ \E t \in Tabs : Quiet(t) \/ LoseAnswer(t) \/ Renew(t) \/ StopWrite(t)
         \/ \E t \in Tabs : Create(t) /\ Live = {}
         \/ VisitRetires \/ SweepWrite
         \/ VisitExpired \/ SweepRead \/ Tick \/ UNCHANGED vars
BY DEF Next, Quiet, OwnerStops

(* No link disappears or comes back; a new one comes when none is active;    *)
(* and who ends a link is its owner, or who has found it expired.            *)
LEMMA LinkStep ==
  ASSUME TypeInv, Points, FoundExpired, [Next]_vars
  PROVE  /\ DOMAIN link \subseteq DOMAIN link'
         /\ \A i \in DOMAIN link : link'[i].active => link[i].active
         /\ \A i \in DOMAIN link' \ DOMAIN link : Live = {} /\ i = Len(link) + 1
         /\ \A i \in DOMAIN link :
              link[i].active /\ ~link'[i].active => OwnerStops \/ Found(i)
<1>1. ASSUME NEW t \in Tabs, LoseAnswer(t)
      PROVE  /\ DOMAIN link' = DOMAIN link
             /\ \A i \in DOMAIN link : link'[i].active = link[i].active
  BY <1>1, LinkIsRow DEF LoseAnswer, Rows
<1>2. ASSUME NEW t \in Tabs, Renew(t)
      PROVE  /\ DOMAIN link' = DOMAIN link
             /\ \A i \in DOMAIN link : link'[i].active = link[i].active
  BY <1>2, RenewRow
<1>3. ASSUME NEW t \in Tabs, Create(t), Live = {}
      PROVE  /\ DOMAIN link' = DOMAIN link \cup {Len(link) + 1}
             /\ \A i \in DOMAIN link : link'[i] = link[i]
  BY <1>3, CreatedRow
<1>4. ASSUME NEW I, I \subseteq DOMAIN link, DOMAIN link' = DOMAIN link,
             \A j \in DOMAIN link :
               link'[j] = IF j \in I THEN [link[j] EXCEPT !.active = FALSE] ELSE link[j],
             OwnerStops \/ \A i \in I : Found(i)
      PROVE  /\ \A i \in DOMAIN link : link'[i].active => link[i].active
             /\ \A i \in DOMAIN link :
                  link[i].active /\ ~link'[i].active => OwnerStops \/ Found(i)
  BY <1>4, LinkIsRow DEF Rows
<1>5. ASSUME NEW t \in Tabs, StopWrite(t)
      PROVE  /\ DOMAIN link' = DOMAIN link
             /\ \A i \in DOMAIN link : link'[i].active => link[i].active
             /\ OwnerStops
  BY <1>4, <1>5, EndedRows DEF OwnerStops
<1>6. ASSUME VisitRetires \/ SweepWrite
      PROVE  /\ DOMAIN link' = DOMAIN link
             /\ \A i \in DOMAIN link : link'[i].active => link[i].active
             /\ \A i \in DOMAIN link :
                  link[i].active /\ ~link'[i].active => OwnerStops \/ Found(i)
  <2>1. CASE VisitRetires
    <3>1. \A i \in {visit} : Found(i)
      BY <2>1 DEF VisitRetires, FoundExpired
    <3> QED
      BY <1>4, <2>1, <3>1, EndedRows
  <2>2. CASE SweepWrite
    BY <1>4, <2>2, EndedRows DEF FoundExpired
  <2> QED
    BY <1>6, <2>1, <2>2
<1>7. ASSUME \/ \E t \in Tabs : Quiet(t)
             \/ VisitExpired \/ SweepRead \/ Tick \/ UNCHANGED vars
      PROVE  link' = link
  BY <1>7, QuietKeeps DEF VisitExpired, SweepRead, Tick, vars
<1> QED
  BY <1>1, <1>2, <1>3, <1>5, <1>6, <1>7, StepKinds
-----------------------------------------------------------------------------
(* The invariant *)

(* A step that adds a link finds none active. *)
LEMMA OnlyOneStep ==
  ASSUME TypeInv, Points, FoundExpired, OnlyOne, [Next]_vars
  PROVE  OnlyOne'
<1>1. \A i \in Live' : i \in Live \/ (Live = {} /\ i = Len(link) + 1)
  BY LinkStep DEF Live
<1> QED
  BY <1>1 DEF OnlyOne

(* What was found expired stays so, or is renewed and then known as such.    *)
LEMMA FoundStep ==
  ASSUME TypeInv, Points, FoundExpired, [Next]_vars
  PROVE  FoundExpired'
<1>1. ASSUME NEW i \in DOMAIN link, Found(i), i \in crossed => i \in crossed',
             link'[i].till = link[i].till, now' \in {now, now + 1}
      PROVE  Found(i)'
  BY <1>1, LinkIsRow DEF Found, TypeInv, Rows, Ends
<1>3. ASSUME NEW t \in Tabs, Quiet(t) PROVE FoundExpired'
  BY <1>3, QuietKeeps DEF FoundExpired, Found
<1>4. ASSUME NEW t \in Tabs, LoseAnswer(t) PROVE FoundExpired'
  <2>1. \A i \in DOMAIN link : link'[i].till = link[i].till
    BY <1>4, LinkIsRow DEF LoseAnswer, Rows
  <2> QED
    BY <1>1, <1>4, <2>1 DEF LoseAnswer, FoundExpired, Points
<1>5. ASSUME NEW t \in Tabs, Renew(t) PROVE FoundExpired'
  <2> DEFINE i == tab[t].read
  <2>1. \A j \in DOMAIN link \ {i} : link'[j] = link[j]
    BY <1>5, RenewRow
  <2>2. i \in sweep \cup {visit} => i \in crossed'
    BY <1>5 DEF Renew
  <2>3. \A j \in crossed : j \in crossed'
    BY <1>5 DEF Renew
  <2>4. UNCHANGED <<now, visit, sweep>>
    BY <1>5 DEF Renew
  <2>5. ASSUME NEW j \in DOMAIN link, j \in sweep \cup {visit}, Found(j) PROVE Found(j)'
    <3>1. CASE j = i
      BY <2>2, <2>5, <3>1 DEF Found
    <3>2. CASE j # i
      BY <1>1, <2>1, <2>3, <2>4, <2>5, <3>2
    <3> QED
      BY <3>1, <3>2
  <2> QED
    BY <2>4, <2>5 DEF FoundExpired, Points
<1>6. ASSUME NEW t \in Tabs, Create(t), Live = {} PROVE FoundExpired'
  <2>1. \A i \in DOMAIN link : link'[i] = link[i]
    BY <1>6, CreatedRow
  <2> QED
    BY <1>1, <1>6, <2>1 DEF Create, FoundExpired, Points
<1>7. ASSUME NEW I, I \subseteq DOMAIN link,
             \A j \in DOMAIN link :
               link'[j] = IF j \in I THEN [link[j] EXCEPT !.active = FALSE] ELSE link[j]
      PROVE  \A j \in DOMAIN link : link'[j].till = link[j].till
  BY <1>7, LinkIsRow DEF Rows
<1>8. ASSUME NEW t \in Tabs, StopWrite(t) PROVE FoundExpired'
  <2>1. \A i \in DOMAIN link : link'[i].till = link[i].till
    BY <1>7, <1>8, EndedRows
  <2> QED
    BY <1>1, <1>8, <2>1 DEF StopWrite, FoundExpired, Points
<1>9. CASE VisitRetires
  <2>1. \A i \in DOMAIN link : link'[i].till = link[i].till
    BY <1>7, <1>9, EndedRows
  <2>2. UNCHANGED <<now, sweep>> /\ visit' = None /\ \A i \in sweep : i \in crossed => i \in crossed'
    BY <1>9 DEF VisitRetires
  <2> QED
    BY <1>1, <2>1, <2>2 DEF FoundExpired, Points
<1>10. CASE SweepWrite
  <2>1. \A i \in DOMAIN link : link'[i].till = link[i].till
    BY <1>7, <1>10, EndedRows
  <2>2. UNCHANGED <<now, visit>> /\ sweep' = {} /\ (visit \in crossed => visit \in crossed')
    BY <1>10 DEF SweepWrite
  <2> QED
    BY <1>1, <2>1, <2>2 DEF FoundExpired, Points
<1>11. CASE VisitExpired
  <2>1. PICK i \in Live : Expired(i) /\ visit' = i
    BY <1>11 DEF VisitExpired
  <2>2. Found(i)
    BY <2>1, LinkIsRow DEF Found, Expired, Live, Rows, Ends, TypeInv
  <2> QED
    BY <1>11, <2>1, <2>2 DEF VisitExpired, FoundExpired, Found
<1>12. CASE SweepRead
  <2>1. \A i \in Overdue : Found(i)
    BY LinkIsRow DEF Found, Overdue, Rows, Ends, TypeInv
  <2> QED
    BY <1>12, <2>1 DEF SweepRead, FoundExpired, Found
<1>13. CASE Tick
  BY <1>1, <1>13 DEF Tick, FoundExpired, Points
<1>14. CASE UNCHANGED vars
  BY <1>14 DEF vars, FoundExpired, Found
<1> QED
  BY <1>3, <1>4, <1>5, <1>6, <1>8, <1>9, <1>10, <1>11, <1>12, <1>13, <1>14, StepKinds

(* The other pages of the owner notice nothing.                              *)
LEMMA OtherPages ==
  ASSUME TypeInv, NEW t \in Tabs,
         Quiet(t) \/ LoseAnswer(t) \/ Renew(t) \/ StopWrite(t) \/ Create(t)
  PROVE  \A u \in Tabs \ {t} : tab'[u] = tab[u]
BY DEF Quiet, LoseAnswer, Renew, StopWrite, Create, QuickShare, SubmitForm, SavePassword,
       RemovePassword, SaveExpiration, StopSharing, Asks, Reload, PostRead, StopRead,
       Receive, Keeps, TypeInv

(* The acting page, after a step that leaves the links alone.                *)
LEMMA QuietPage ==
  ASSUME TypeInv, NEW t \in Tabs, Quiet(t), PagePoints(t), PageKnows(t)
  PROVE  PagePoints(t)' /\ PageKnows(t)'
<1>1. link' = link
  BY QuietKeeps
<1>2. tab[t] \in Pages
  BY DEF TypeInv
<1>3. CASE QuickShare(t) \/ SubmitForm(t) \/ SavePassword(t) \/ RemovePassword(t)
           \/ SaveExpiration(t)
  <2>1. /\ tab[t].pc = "idle" /\ tab'[t].pc = "sent" /\ tab'[t].ask.kind = "post"
        /\ tab'[t].status = tab[t].status /\ tab'[t].got = tab[t].got
    BY <1>3 DEF QuickShare, SubmitForm, SavePassword, RemovePassword, SaveExpiration,
                Asks, TypeInv, Pages
  <2> QED
    BY <1>1, <2>1 DEF PagePoints, PageKnows, Knows
<1>4. CASE StopSharing(t)
  <2>1. /\ tab[t].pc = "idle" /\ tab'[t].pc = "sent" /\ tab[t].status # None
        /\ tab'[t].status = tab[t].status /\ tab'[t].got = tab[t].got
    BY <1>4 DEF StopSharing, Asks, TypeInv, Pages
  <2> QED
    BY <1>1, <2>1 DEF PagePoints, PageKnows, Knows
<1>5. CASE Reload(t)
  <2> DEFINE i == CHOOSE j \in Live : TRUE
  <2>1. tab[t].pc = "idle" /\ tab'[t].pc = "idle" /\ tab'[t].got = tab[t].got
    BY <1>5 DEF Reload, TypeInv, Pages
  <2>2. tab'[t].status = IF Live = {} THEN None ELSE StatusOf(i, link[i], 0)
    BY <1>5 DEF Reload, TypeInv, Pages
  <2>3. Live # {} => i \in DOMAIN link
    BY DEF Live
  <2>4. StatusOf(i, link[i], 0).link = i /\ StatusOf(i, link[i], 0).word = 0
    BY DEF StatusOf
  <2> QED
    BY <1>1, <2>1, <2>2, <2>3, <2>4 DEF PagePoints, PageKnows, Knows
<1>6. CASE PostRead(t)
  <2>1. CASE Keeps(t)
    <3>1. /\ tab'[t].pc = "idle" /\ tab'[t].status = tab[t].status /\ tab'[t].got = None
      BY <2>1 DEF Keeps, Idle, TypeInv
    <3> QED
      BY <1>1, <1>6, <3>1 DEF PagePoints, PageKnows, Knows, PostRead
  <2>2. CASE tab[t].ask.life # None
    <3> DEFINE r == IF Live = {} THEN None ELSE CHOOSE j \in Live : TRUE
    <3>1. r = None \/ r \in DOMAIN link
      BY DEF Live
    <3>2. tab' = [tab EXCEPT ![t].pc = "save", ![t].read = r]
      BY <1>6, <2>2 DEF PostRead
    <3> HIDE DEF r
    <3>3. /\ tab'[t].pc = "save" /\ tab'[t].status = tab[t].status
          /\ tab'[t].got = tab[t].got /\ tab'[t].read = r
      BY <3>2 DEF TypeInv, Pages
    <3> QED
      BY <1>1, <1>6, <3>1, <3>3 DEF PagePoints, PageKnows, Knows, PostRead
  <2> QED
    BY <1>6, <2>1, <2>2 DEF PostRead
<1>7. CASE StopRead(t)
  <2>1. /\ tab[t].pc = "sent" /\ tab[t].ask.kind = "delete"
        /\ tab'[t].pc \in {"stop", "done"}
        /\ tab'[t].status = tab[t].status /\ tab'[t].got = tab[t].got
    BY <1>7 DEF StopRead, TypeInv, Pages
  <2> QED
    BY <1>1, <2>1 DEF PagePoints, PageKnows, Knows
<1>8. CASE Receive(t)
  <2>1. /\ tab[t].pc = "done" /\ tab'[t].pc = "idle"
        /\ tab'[t].status = tab[t].got /\ tab'[t].got = None
    BY <1>8 DEF Receive, Shown, Idle, TypeInv
  <2> QED
    BY <1>1, <2>1 DEF PagePoints, PageKnows, Knows
<1>9. CASE Create(t) /\ Live # {}
  <2>1. /\ tab[t].pc = "save" /\ tab'[t].pc = "idle"
        /\ tab'[t].status = tab[t].status /\ tab'[t].got = None
    BY <1>9 DEF Create, Single, Keeps, Idle, TypeInv
  <2> QED
    BY <1>1, <2>1 DEF PagePoints, PageKnows, Knows
<1> QED
  BY <1>3, <1>4, <1>5, <1>6, <1>7, <1>8, <1>9 DEF Quiet

(* The acting page, when a link changes: the answer of a renewal or of a     *)
(* creation shows the password the link was given.                           *)
LEMMA SavedPage ==
  ASSUME TypeInv, NEW t \in Tabs, PagePoints(t), NEW i \in Nat, NEW row \in Rows,
         tab' = [tab EXCEPT ![t].pc = "done", ![t].got = StatusOf(i, row, row.word)],
         i \in DOMAIN link', DOMAIN link \subseteq DOMAIN link', link'[i].word = row.word
  PROVE  PagePoints(t)' /\ PageKnows(t)'
<1> DEFINE s == StatusOf(i, row, row.word)
<1>1. s.link = i /\ s.word = row.word /\ (s.word # 0 => s.locked)
  BY DEF StatusOf
<1> HIDE DEF s
<1>2. tab'[t].pc = "done" /\ tab'[t].status = tab[t].status /\ tab'[t].got = s
  BY DEF s, TypeInv, Pages
<1> QED
  BY <1>1, <1>2 DEF PagePoints, PageKnows, Knows

LEMMA ActingPage ==
  ASSUME TypeInv, Points, FoundExpired, [Next]_vars,
         NEW t \in Tabs, PageKnows(t),
         Quiet(t) \/ LoseAnswer(t) \/ Renew(t) \/ StopWrite(t) \/ (Create(t) /\ Live = {})
  PROVE  PagePoints(t)' /\ PageKnows(t)'
<1>1. DOMAIN link \subseteq DOMAIN link'
  BY LinkStep
<1>2. PagePoints(t) /\ tab[t] \in Pages
  BY DEF Points, TypeInv
<1>3. CASE Quiet(t)
  BY <1>2, <1>3, QuietPage
<1>4. CASE LoseAnswer(t)
  <2>1. /\ tab'[t].pc = "idle" /\ tab'[t].status = tab[t].status /\ tab'[t].got = None
    BY <1>4 DEF LoseAnswer, Keeps, Idle, TypeInv
  <2>2. \A i \in DOMAIN link : link'[i].by # t
    BY <1>4, LinkIsRow, ShareAssumption DEF LoseAnswer, Rows
  <2> QED
    BY <1>1, <1>2, <2>1, <2>2 DEF PagePoints, PageKnows, Knows
<1>5. CASE Renew(t)
  <2> DEFINE i == tab[t].read
             row == Refreshed(link[i], Until(tab[t].ask.life), NewWord(t), t)
  <2>1. i \in DOMAIN link /\ tab[t].pc = "save"
    BY <1>5 DEF Renew, Points, PagePoints
  <2>2. i \in Nat /\ link[i] \in Rows
    BY <2>1, LinkIsRow
  <2>3. row \in Rows /\ row.word = NewWord(t)
    BY <2>1, <2>2, SavedRow DEF Refreshed, Rows
  <2>4. i \in DOMAIN link' /\ link'[i].word = NewWord(t)
    BY <1>5, RenewRow
  <2>5. tab' = [tab EXCEPT ![t].pc = "done", ![t].got = StatusOf(i, row, row.word)]
    BY <1>5 DEF Renew
  <2> HIDE DEF row
  <2> QED
    BY <1>1, <1>2, <2>2, <2>3, <2>4, <2>5, SavedPage
<1>6. CASE StopWrite(t)
  <2>1. /\ tab[t].pc = "stop" /\ tab'[t].pc = "done"
        /\ tab'[t].status = tab[t].status /\ tab'[t].got = tab[t].got
    BY <1>6 DEF StopWrite, TypeInv, Pages
  <2> QED
    BY <1>1, <1>2, <2>1 DEF PagePoints, PageKnows, Knows
<1>7. CASE Create(t) /\ Live = {}
  <2> DEFINE row == [till |-> Until(tab[t].ask.life), word |-> NewWord(t),
                     active |-> TRUE, by |-> t]
             i == Len(link) + 1
  <2>1. row \in Rows /\ i \in Nat
    BY <1>7, SavedRow DEF Create, Rows, TypeInv
  <2>2. i \in DOMAIN link' /\ link'[i] = row
    BY <1>7, CreatedRow
  <2>3. tab' = [tab EXCEPT ![t].pc = "done", ![t].got = StatusOf(i, row, row.word)]
    BY <1>7 DEF Create, Single
  <2> HIDE DEF row, i
  <2> QED
    BY <1>1, <1>2, <2>1, <2>2, <2>3, SavedPage
<1> QED
  BY <1>3, <1>4, <1>5, <1>6, <1>7

(* A page that does not act still points at links, and knows the passwords   *)
(* of those no one else has changed.                                         *)
LEMMA RestingPage ==
  ASSUME TypeInv, NEW u \in Tabs, PagePoints(u), PageKnows(u), tab'[u] = tab[u],
         DOMAIN link \subseteq DOMAIN link',
         \A i \in DOMAIN link : link'[i].by = u => link[i].by = u /\ link'[i].word = link[i].word
  PROVE  PagePoints(u)' /\ PageKnows(u)'
BY DEF PagePoints, PageKnows, Knows

(* Every step keeps what the pages remember and know. *)
LEMMA PagesStep ==
  ASSUME TypeInv, Points, FoundExpired, PagesKnow, [Next]_vars
  PROVE  Points' /\ PagesKnow'
<1>1. DOMAIN link \subseteq DOMAIN link'
  BY LinkStep
<1>2. ASSUME NEW t \in Tabs, Quiet(t) \/ LoseAnswer(t) \/ Renew(t) \/ StopWrite(t)
                           \/ (Create(t) /\ Live = {})
      PROVE  Points' /\ PagesKnow'
  <2>1. PagePoints(t)' /\ PageKnows(t)'
    BY <1>2, ActingPage DEF PagesKnow
  <2>2. ASSUME NEW u \in Tabs \ {t}, NEW i \in DOMAIN link, link'[i].by = u
        PROVE  link[i].by = u /\ link'[i].word = link[i].word
    <3>1. CASE Quiet(t)
      BY <2>2, <3>1, QuietKeeps
    <3>2. CASE LoseAnswer(t)
      BY <2>2, <3>2, LinkIsRow, ShareAssumption DEF LoseAnswer, Rows
    <3>3. CASE Renew(t)
      BY <2>2, <3>3, RenewRow
    <3>4. CASE StopWrite(t)
      BY <2>2, <3>4, EndedKeeps
    <3>5. CASE Create(t) /\ Live = {}
      BY <2>2, <3>5, CreatedRow
    <3> QED
      BY <1>2, <3>1, <3>2, <3>3, <3>4, <3>5
  <2>3. \A u \in Tabs \ {t} : PagePoints(u)' /\ PageKnows(u)'
    BY <1>1, <1>2, <2>2, OtherPages, RestingPage DEF Points, PagesKnow
  <2>4. UNCHANGED <<visit, sweep>>
    BY <1>2, QuietKeeps DEF LoseAnswer, Renew, StopWrite, Create
  <2> QED
    BY <1>1, <2>1, <2>3, <2>4 DEF Points, PagesKnow
<1>3. ASSUME \/ VisitRetires \/ SweepWrite
             \/ VisitExpired \/ SweepRead \/ Tick \/ UNCHANGED vars
      PROVE  Points' /\ PagesKnow'
  <2>1. tab' = tab
    BY <1>3 DEF VisitRetires, SweepWrite, VisitExpired, SweepRead, Tick, vars
  <2>2. \A i \in DOMAIN link : link'[i].by = link[i].by /\ link'[i].word = link[i].word
    <3>1. CASE VisitRetires \/ SweepWrite
      BY <3>1, EndedKeeps
    <3>2. CASE VisitExpired \/ SweepRead \/ Tick \/ UNCHANGED vars
      BY <3>2 DEF VisitExpired, SweepRead, Tick, vars
    <3> QED
      BY <1>3, <3>1, <3>2
  <2>3. \A u \in Tabs : PagePoints(u)' /\ PageKnows(u)'
    BY <1>1, <2>1, <2>2, RestingPage DEF Points, PagesKnow
  <2>4. (visit' # None => visit' \in DOMAIN link) /\ sweep' \subseteq DOMAIN link
    BY <1>3 DEF VisitRetires, SweepWrite, VisitExpired, SweepRead, Tick, vars, Points,
                Live, Overdue
  <2> QED
    BY <1>1, <2>3, <2>4 DEF Points, PagesKnow
<1> QED
  BY <1>2, <1>3, StepKinds

(* The invariant holds at the start. *)
LEMMA InvInit == Init => Inv
<1> SUFFICES ASSUME Init PROVE Inv
  OBVIOUS
<1>1. TypeInv
  BY TypeInit
<1>2. DOMAIN link = {} /\ Live = {}
  BY DEF Init, Live
<1>3. Points /\ PagesKnow
  BY DEF Init, Points, PagesKnow, PagePoints, PageKnows, Knows, Idle, NoAsk
<1>4. OnlyOne /\ FoundExpired
  BY <1>2 DEF Init, OnlyOne, FoundExpired
<1> QED
  BY <1>1, <1>3, <1>4 DEF Inv

(* Every step keeps the invariant. *)
LEMMA InvStep == Inv /\ [Next]_vars => Inv'
<1> SUFFICES ASSUME Inv, [Next]_vars PROVE Inv'
  OBVIOUS
<1>1. TypeInv'
  BY TypeStep DEF Inv
<1>2. OnlyOne'
  BY OnlyOneStep DEF Inv
<1>3. FoundExpired'
  BY FoundStep DEF Inv
<1>4. Points' /\ PagesKnow'
  BY PagesStep DEF Inv
<1> QED
  BY <1>1, <1>2, <1>3, <1>4 DEF Inv

(* The inductive invariant: the rows and pages are of their types, what a    *)
(* page, a visitor or the cleanup remembers is so, and one link is active.   *)
THEOREM ShareInvariant == Spec => []Inv
<1>1. Init => Inv
  BY InvInit
<1>2. Inv /\ [Next]_vars => Inv'
  BY InvStep
<1> QED
  BY <1>1, <1>2, PTL DEF Spec

(* However the requests of the pages overlap, an email never has two links   *)
(* that work (the constraint unique_active_share_per_email).                 *)
THEOREM OneLinkLives == Spec => []OneLiveLink
<1>1. Inv => OneLiveLink
  <2> SUFFICES ASSUME Inv PROVE OneLiveLink
    OBVIOUS
  <2>1. CASE Live = {}
    <3>1. Cardinality(Live) = 0
      BY <2>1, FS_EmptySet
    <3> QED
      BY <3>1 DEF OneLiveLink
  <2>2. CASE Live # {}
    <3>1. PICK i : i \in Live
      BY <2>2
    <3>2. Live = {i}
      BY <3>1 DEF Inv, OnlyOne
    <3>3. Cardinality({i}) = 1
      BY FS_Singleton
    <3> QED
      BY <3>2, <3>3 DEF OneLiveLink
  <2> QED
    BY <2>1, <2>2
<1> QED
  BY <1>1, ShareInvariant, PTL

(* No renewal of a link read earlier brings back a link that has ended, and  *)
(* no visitor and no cleanup ends one before its time.                       *)
THEOREM EndedLinksStayEnded == Spec => LinksEndForGood
<1> DEFINE Fate ==
      \A i \in DOMAIN link :
        /\ ~link[i].active => ~link'[i].active
        /\ link[i].active /\ ~link'[i].active =>
             OwnerStops \/ i \in crossed \/ (link[i].till # None /\ link[i].till <= now)
<1>1. Inv /\ [Next]_vars => Fate
  BY LinkStep DEF Inv, Found
<1> HIDE DEF Fate
<1>2. Spec => [][Fate]_vars
  BY <1>1, ShareInvariant, PTL DEF Spec
<1> USE DEF Fate
<1> QED
  BY <1>2 DEF LinksEndForGood

(* The password a page shows for a link it was the last to change is the     *)
(* password of that link, whoever chose it and whatever was lost.            *)
THEOREM PasswordsOpen == Spec => []ShownPasswordOpens
<1>1. Inv => ShownPasswordOpens
  BY DEF Inv, PagesKnow, PageKnows, Knows, ShownPasswordOpens, Opens, Live
<1> QED
  BY <1>1, ShareInvariant, PTL
-----------------------------------------------------------------------------
(* Accounts: the requests under way *)

ReqAt(c, pcs) == req[c].pc \in pcs

Requests ==
  [pc : {"idle", "lookup", "name", "create", "profile", "save", "mail", "replace",
         "oauth", "signup", "setup", "confirm", "manage"},
   email : Emails \cup {None}, id : Nat \cup {None}, name : Names \cup {None},
   seen : Nat \cup A!UserRow \cup {None}]

(* A request names what its next step needs: what it has read of a user is   *)
(* of its email, and what it replaces was open.                              *)
Backed(c) ==
  /\ ~ReqAt(c, {"idle"}) => req[c].email \in Emails
  /\ ReqAt(c, {"create", "signup", "replace", "setup", "manage"}) => req[c].name \in Names
  /\ ReqAt(c, {"profile", "save", "replace", "setup", "confirm"}) => req[c].id \in 1..made
  /\ ReqAt(c, {"save", "replace", "setup", "confirm"}) =>
       req[c].seen \in A!UserRow /\ req[c].seen.email = req[c].email
  /\ ReqAt(c, {"replace"}) => req[c].seen.profile = "open"

AccountTypes ==
  /\ user \in [A!Ids -> A!UserRow \cup {None}]
  /\ made \in 0..MaxUsers
  /\ \A i \in A!Ids : i > made => user[i] = None
  /\ token \in Nat
  /\ resets \subseteq (1..made) \X Nat
  /\ req \in [Tabs -> Requests]
  /\ \A c \in Tabs : Backed(c)

(* The id a request works on is that of a user of its email, and of no other *)
(* email while the user is gone.                                             *)
IdsFit ==
  /\ \A c \in Tabs : req[c].id # None =>
       /\ req[c].id \in 1..made
       /\ user[req[c].id] # None => user[req[c].id].email = req[c].email
  /\ \A c, d \in Tabs : req[c].id # None /\ req[d].id = req[c].id =>
       req[d].email = req[c].email

(* Of an email that is not crossed there is one request at most, and what it *)
(* has found is so still.                                                    *)
AloneOn ==
  \A c, d \in Tabs :
    req[c].email # None /\ req[c].email \notin overlapped
      /\ req[d].email = req[c].email => c = d
Unmoved(c) ==
  req[c].email \notin overlapped =>
    /\ ReqAt(c, {"name", "create", "oauth", "signup", "manage"}) => A!Known(req[c].email) = {}
    /\ ReqAt(c, {"save", "replace", "setup", "confirm"}) => user[req[c].id] = req[c].seen
OneEach ==
  \A e \in Emails \ overlapped : \A i, j \in A!Known(e) : i = j

AccountInv ==
  AccountTypes /\ IdsFit /\ AloneOn /\ (\A c \in Tabs : Unmoved(c)) /\ OneEach
-----------------------------------------------------------------------------
(* What a step about email e may do to the users: it moves only users of e,  *)
(* and what it makes is new, or the user its request has read.               *)
Moves(e, back) ==
  \A i \in A!Ids : user'[i] # user[i] =>
    /\ user[i] # None => user[i].email = e
    /\ user'[i] # None => user'[i].email = e
    /\ user[i] = None => i > made \/ i = back

(* The users of an email after a step. *)
KnownNext(e) == {i \in A!Ids : user'[i] # None /\ user'[i].email = e}

(* What no step does: a completed user is deleted or completed no more, or a *)
(* deleted one is back, unless two requests about the email have overlapped. *)
Survives ==
  \A i \in A!Ids :
    /\ user[i] # None /\ user[i].profile = "done" =>
         \/ user'[i] # None /\ user'[i].profile = "done"
         \/ user[i].email \in overlapped'
    /\ user[i] = None /\ i <= made /\ user'[i] # None =>
         user'[i].email \in overlapped'
Kept == AccountInv' /\ Survives

LEMMA NoAccountNone ==
  /\ None \notin Emails /\ None \notin Names /\ None \notin Nat
  /\ None \notin A!UserRow
BY AccountsAssumption

LEMMA EmailOfUser == ASSUME NEW r \in A!UserRow PROVE r.email \in Emails /\ r # None
BY NoAccountNone DEF A!UserRow

LEMMA MinIn ==
  ASSUME NEW S \in SUBSET Nat, S # {}
  PROVE  A!Min(S) \in S
<1>1. \E x \in S : \A y \in S : ~(y < x)
  <2>1. \E x \in S : \A y \in S : ~(<<y, x>> \in OpToRel(<, Nat))
    BY NatLessThanWellFounded, WFMin
  <2> QED BY <2>1 DEF OpToRel
<1>2. \E x \in S : \A y \in S : x <= y
  BY <1>1
<1> QED BY <1>2 DEF A!Min

LEMMA SurvivesQuiet == ASSUME user' = user PROVE Survives
BY DEF Survives

LEMMA SurvivesChange ==
  ASSUME AccountInv, NEW row \in A!UserRow, NEW i \in A!Ids,
         user' = [user EXCEPT ![i] = row],
         user[i] # None => user[i].email = row.email,
         \/ row.email \in overlapped'
         \/ user[i] # None /\ (user[i].profile = "done" => row.profile = "done")
         \/ i > made
  PROVE  Survives
<1>1. /\ user \in [A!Ids -> A!UserRow \cup {None}] /\ made \in Nat /\ A!Ids \subseteq Nat
      /\ \A j \in A!Ids : j > made => user[j] = None
  BY AccountsAssumption DEF AccountInv, AccountTypes, A!Ids
<1>2. /\ user'[i] = row /\ row # None
      /\ \A j \in A!Ids : j # i => user'[j] = user[j]
  BY <1>1, EmailOfUser
<1> QED BY <1>1, <1>2 DEF Survives

LEMMA AccountsStart == A!Init => AccountInv
BY AccountsAssumption, NoAccountNone
   DEF A!Init, AccountInv, AccountTypes, IdsFit, AloneOn, Unmoved, OneEach, ReqAt,
       Backed, Requests, A!Idle, A!Ids, A!Known, A!Present

(* The users of an email that a step is not about stay as they are. *)
LEMMA KnownStays ==
  ASSUME AccountInv, AccountTypes', NEW e, NEW back, Moves(e, back), NEW f \in Emails, f # e
  PROVE  /\ KnownNext(f) = A!Known(f)
         /\ \A i \in A!Known(f) : user'[i] = user[i]
<1>1. \A i \in A!Ids : user[i] # None => user[i] \in A!UserRow
  BY DEF AccountInv, AccountTypes
<1>2. \A i \in A!Ids : user'[i] # None => user'[i] \in A!UserRow
  BY DEF AccountTypes
<1>3. \A i \in A!Known(f) : i \in A!Ids /\ user[i] # None /\ user[i].email = f /\ user'[i] = user[i]
  BY DEF Moves, A!Known, A!Present
<1>4. \A i \in A!Ids : user'[i] # None /\ user'[i].email = f => user'[i] = user[i]
  BY DEF Moves
<1>5. A!Known(f) = {i \in A!Ids : user[i] # None /\ user[i].email = f}
  BY DEF A!Known, A!Present
<1> QED BY <1>3, <1>4, <1>5 DEF KnownNext
(* A step of a request: what it keeps of the other requests and emails. *)
LEMMA RequestStep ==
  ASSUME AccountInv, AccountTypes', NEW c \in Tabs, NEW r, r \in Requests,
         req[c].email \in Emails,
         Moves(req[c].email, req[c].id), made' >= made,
         req' = [req EXCEPT ![c] = r], overlapped' = overlapped,
         \/ r.email = None /\ r.id = None
         \/ r.email = req[c].email,
         r.id # None =>
           /\ r.id \in 1..made'
           /\ user'[r.id] # None => user'[r.id].email = req[c].email
           /\ \A d \in Tabs : req[d].id = r.id => req[d].email = req[c].email,
         req[c].email \notin overlapped =>
           Unmoved(c)' /\ \A i, j \in KnownNext(req[c].email) : i = j
  PROVE  AccountInv'
<1> DEFINE e == req[c].email
<1>0. /\ req \in [Tabs -> Requests] /\ req'[c] = r
      /\ \A d \in Tabs : d # c => req'[d] = req[d]
      /\ made \in Nat /\ made' \in Nat
      /\ A!Ids \subseteq Nat
  BY AccountsAssumption DEF AccountInv, AccountTypes, A!Ids
<1>1. IdsFit'
  <2>1. ASSUME NEW d \in Tabs, req'[d].id # None
        PROVE  /\ req'[d].id \in 1..made'
               /\ user'[req'[d].id] # None => user'[req'[d].id].email = req'[d].email
    <3>1. CASE d = c
      BY <1>0, <2>1, <3>1
    <3>2. CASE d # c
      <4>1. req'[d] = req[d] /\ req[d].id \in 1..made
        BY <1>0, <2>1, <3>2 DEF AccountInv, IdsFit
      <4>2. req[d].id \in A!Ids
        BY <4>1, <1>0, AccountsAssumption DEF AccountInv, AccountTypes, A!Ids
      <4>3. CASE user'[req[d].id] = user[req[d].id]
        BY <4>1, <4>3, <1>0, <2>1 DEF AccountInv, IdsFit
      <4>4. CASE user'[req[d].id] # user[req[d].id]
        <5>1. user'[req[d].id] # None => user'[req[d].id].email = e
          BY <4>2, <4>4 DEF Moves
        <5>2. CASE user[req[d].id] # None
          BY <5>1, <5>2, <4>1, <4>2, <4>4, <1>0, <2>1 DEF Moves, AccountInv, IdsFit
        <5>3. CASE user[req[d].id] = None
          <6>1. req[d].id = req[c].id
            BY <5>3, <4>1, <4>2, <4>4, <1>0 DEF Moves
          <6>2. req[d].email = req[c].email
            BY <6>1, <4>1, <2>1 DEF AccountInv, IdsFit
          <6> QED BY <6>2, <5>1, <4>1, <1>0
        <5> QED BY <5>2, <5>3
      <4> QED BY <4>3, <4>4
    <3> QED BY <3>1, <3>2
  <2>2. ASSUME NEW d \in Tabs, NEW f \in Tabs, req'[d].id # None, req'[f].id = req'[d].id
        PROVE  req'[f].email = req'[d].email
    <3>1. CASE d = c /\ f # c
      BY <3>1, <2>2, <1>0
    <3>2. CASE d # c /\ f = c
      BY <3>2, <2>2, <1>0
    <3>3. CASE d # c /\ f # c
      BY <3>3, <2>2, <1>0 DEF AccountInv, IdsFit
    <3> QED BY <3>1, <3>2, <3>3
  <2> QED BY <2>1, <2>2 DEF IdsFit
<1>2. AloneOn'
  <2> SUFFICES ASSUME NEW d \in Tabs, NEW f \in Tabs, req'[d].email # None,
                      req'[d].email \notin overlapped, req'[f].email = req'[d].email
               PROVE  d = f
    BY DEF AloneOn
  <2>1. req[d].email = req'[d].email /\ req[f].email = req'[f].email
    BY <1>0
  <2> QED BY <2>1 DEF AccountInv, AloneOn
<1>3. \A d \in Tabs : Unmoved(d)'
  <2> SUFFICES ASSUME NEW d \in Tabs, d # c, req'[d].email \notin overlapped
               PROVE  Unmoved(d)'
    <3>1. ASSUME NEW d \in Tabs, req'[d].email \in overlapped PROVE Unmoved(d)'
      BY <3>1 DEF Unmoved
    <3>2. Unmoved(c)'
      <4>1. CASE req[c].email \notin overlapped
        BY <4>1
      <4>2. CASE r.email = None /\ r.id = None
        <5>1. CASE e \in overlapped
          <6>1. ~(ReqAt(c, {"name", "create", "oauth", "signup", "manage",
                            "save", "replace", "setup", "confirm"})')
            BY <1>0, <4>2, NoAccountNone DEF AccountTypes, Backed, ReqAt
          <6> QED BY <6>1 DEF Unmoved, ReqAt
        <5> QED BY <5>1, <4>1
      <4>3. CASE r.email = e /\ e \in overlapped
        BY <4>3, <1>0 DEF Unmoved
      <4> QED BY <4>1, <4>2, <4>3
    <3> QED BY <3>1, <3>2
  <2>1. req'[d] = req[d]
    BY <1>0
  <2>2. CASE ReqAt(d, {"idle"})
    BY <2>2, <2>1 DEF Unmoved, ReqAt
  <2>3. CASE ~ReqAt(d, {"idle"})
    <3>1. req[d].email \in Emails /\ req[d].email # e /\ Unmoved(d)
      BY <2>1, <2>3, NoAccountNone DEF AccountInv, AccountTypes, Backed, AloneOn
    <3>2. KnownNext(req[d].email) = A!Known(req[d].email)
      BY <3>1, <2>1, KnownStays
    <3>3. ReqAt(d, {"save", "replace", "setup", "confirm"}) => user'[req[d].id] = req[d].seen
      <4> SUFFICES ASSUME ReqAt(d, {"save", "replace", "setup", "confirm"})
                   PROVE  user'[req[d].id] = req[d].seen
        OBVIOUS
      <4>0. req[d].email \notin overlapped
        BY <2>1
      <4>1. user[req[d].id] = req[d].seen
        BY <3>1, <4>0 DEF Unmoved
      <4>6. /\ req[d].id \in 1..made
            /\ req[d].seen \in A!UserRow /\ req[d].seen.email = req[d].email
        BY DEF AccountInv, AccountTypes, Backed, ReqAt
      <4>2. req[d].id \in A!Ids
        BY <4>6, AccountsAssumption DEF AccountInv, AccountTypes, A!Ids
      <4>3. req[d].id \in A!Known(req[d].email)
        BY <4>1, <4>2, <4>6, EmailOfUser DEF A!Known, A!Present
      <4> QED BY <4>1, <4>3, <3>1, KnownStays
    <3>4. ReqAt(d, {"name", "create", "oauth", "signup", "manage"}) => KnownNext(req[d].email) = {}
      BY <3>1, <3>2, <2>1 DEF Unmoved
    <3>5. A!Known(req[d].email)' = KnownNext(req[d].email)
      BY <2>1 DEF A!Known, A!Present, A!Ids, KnownNext
    <3> QED BY <3>3, <3>4, <3>5, <2>1 DEF Unmoved, ReqAt
  <2> QED BY <2>2, <2>3
<1>4. OneEach'
  <2> SUFFICES ASSUME NEW f \in Emails \ overlapped
               PROVE  \A i, j \in KnownNext(f) : i = j
    BY DEF OneEach, KnownNext, A!Known, A!Present, A!Ids
  <2>1. CASE f = e
    BY <2>1
  <2>2. CASE f # e
    BY <2>2, KnownStays DEF AccountInv, OneEach
  <2> QED BY <2>1, <2>2
<1> QED BY <1>1, <1>2, <1>3, <1>4 DEF AccountInv

(* A step about an email that is over at once. *)
LEMMA AtOnceStep ==
  ASSUME AccountInv, AccountTypes', NEW e \in Emails,
         Moves(e, None), made' >= made,
         req' = req, A!Cross(e),
         e \notin overlapped => \A i, j \in KnownNext(e) : i = j
  PROVE  AccountInv'
<1>0. /\ made \in Nat /\ made' \in Nat
      /\ A!Ids \subseteq Nat
      /\ overlapped \subseteq overlapped'
      /\ \A c \in Tabs : req[c].email = e => e \in overlapped'
      /\ \A f : f \in overlapped' => f \in overlapped \/ f = e
  BY AccountsAssumption DEF AccountInv, AccountTypes, A!Ids, A!Cross
<1>1. IdsFit'
  <2>1. ASSUME NEW d \in Tabs, req[d].id # None
        PROVE  /\ req[d].id \in 1..made'
               /\ user'[req[d].id] # None => user'[req[d].id].email = req[d].email
    <3>1. req[d].id \in 1..made
      BY <2>1 DEF AccountInv, IdsFit
    <3>2. req[d].id \in A!Ids /\ req[d].id # None /\ ~(req[d].id > made)
      BY <2>1, <3>1, <1>0, AccountsAssumption DEF AccountInv, AccountTypes, A!Ids
    <3>3. CASE user'[req[d].id] = user[req[d].id]
      BY <3>1, <3>3, <1>0, <2>1 DEF AccountInv, IdsFit
    <3>4. CASE user'[req[d].id] # user[req[d].id]
      BY <3>1, <3>2, <3>4, <1>0, <2>1 DEF Moves, AccountInv, IdsFit
    <3> QED BY <3>3, <3>4
  <2> QED BY <2>1 DEF AccountInv, IdsFit
<1>2. AloneOn'
  BY <1>0 DEF AccountInv, AloneOn
<1>3. ASSUME NEW d \in Tabs PROVE Unmoved(d)'
  <2>1. CASE req[d].email \in overlapped' \/ ReqAt(d, {"idle"})
    BY <2>1 DEF Unmoved, ReqAt
  <2>2. CASE req[d].email \notin overlapped' /\ ~ReqAt(d, {"idle"})
    <3>1. req[d].email \in Emails /\ req[d].email # e /\ Unmoved(d) /\ req[d].email \notin overlapped
      BY <2>2, <1>0 DEF AccountInv, AccountTypes, Backed
    <3>2. KnownNext(req[d].email) = A!Known(req[d].email)
      BY <3>1, KnownStays
    <3>3. ReqAt(d, {"save", "replace", "setup", "confirm"}) => user'[req[d].id] = req[d].seen
      <4> SUFFICES ASSUME ReqAt(d, {"save", "replace", "setup", "confirm"})
                   PROVE  user'[req[d].id] = req[d].seen
        OBVIOUS
      <4>1. user[req[d].id] = req[d].seen
        BY <3>1 DEF Unmoved
      <4>2. /\ req[d].id \in 1..made
            /\ req[d].seen \in A!UserRow /\ req[d].seen.email = req[d].email
        BY DEF AccountInv, AccountTypes, Backed, ReqAt
      <4>3. req[d].id \in A!Ids
        BY <4>2, AccountsAssumption DEF AccountInv, AccountTypes, A!Ids
      <4>4. req[d].id \in A!Known(req[d].email)
        BY <4>1, <4>2, <4>3, EmailOfUser DEF A!Known, A!Present
      <4> QED BY <4>1, <4>4, <3>1, KnownStays
    <3>4. ReqAt(d, {"name", "create", "oauth", "signup", "manage"}) => KnownNext(req[d].email) = {}
      BY <3>1, <3>2 DEF Unmoved
    <3>5. A!Known(req[d].email)' = KnownNext(req[d].email)
      BY DEF A!Known, A!Present, A!Ids, KnownNext
    <3> QED BY <3>3, <3>4, <3>5 DEF Unmoved, ReqAt
  <2> QED BY <2>1, <2>2
<1>4. OneEach'
  <2> SUFFICES ASSUME NEW f \in Emails \ overlapped'
               PROVE  \A i, j \in KnownNext(f) : i = j
    BY DEF OneEach, KnownNext, A!Known, A!Present, A!Ids
  <2>1. CASE f = e
    BY <2>1, <1>0
  <2>2. CASE f # e
    BY <2>2, <1>0, KnownStays DEF AccountInv, OneEach
  <2> QED BY <2>1, <2>2
<1> QED BY <1>1, <1>2, <1>3, <1>4 DEF AccountInv

-----------------------------------------------------------------------------
(* Requests that start *)

(* The start of a request that remembers what it has found. *)
LEMMA RequestStarts ==
  ASSUME AccountInv, AccountTypes', NEW c \in Tabs, NEW r \in Requests,
         r.email \in Emails,
         A!Begin(c, r), user' = user, made' = made,
         r.id # None => r.id \in A!Known(r.email),
         r.email \notin overlapped' => Unmoved(c)'
  PROVE  Kept
<1>0. /\ overlapped \subseteq overlapped'
      /\ \A f : f \in overlapped' => f \in overlapped \/ f = r.email
      /\ req \in [Tabs -> Requests] /\ req'[c] = r
      /\ \A d \in Tabs : d # c => req'[d] = req[d]
      /\ \A d \in Tabs : req[d].email = r.email => r.email \in overlapped'
      /\ r.id # None => r.id \in A!Ids /\ r.id \in 1..made /\ user[r.id] # None
                          /\ user[r.id].email = r.email
      /\ req[c] = A!Idle /\ made \in Nat
  BY AccountsAssumption
     DEF AccountInv, AccountTypes, A!Ids, A!Cross, A!Begin, A!Known, A!Present
<1>1. IdsFit'
  <2>1. ASSUME NEW d \in Tabs, req'[d].id # None
        PROVE  /\ req'[d].id \in 1..made
               /\ user[req'[d].id] # None => user[req'[d].id].email = req'[d].email
    BY <1>0, <2>1 DEF AccountInv, IdsFit
  <2>2. ASSUME NEW d \in Tabs, NEW f \in Tabs, req'[d].id # None, req'[f].id = req'[d].id
        PROVE  req'[f].email = req'[d].email
    <3>1. CASE d = c /\ f # c
      BY <3>1, <2>2, <1>0 DEF AccountInv, IdsFit
    <3>2. CASE d # c /\ f = c
      BY <3>2, <2>2, <1>0 DEF AccountInv, IdsFit
    <3>3. CASE d # c /\ f # c
      BY <3>3, <2>2, <1>0 DEF AccountInv, IdsFit
    <3> QED BY <3>1, <3>2, <3>3
  <2> QED BY <2>1, <2>2 DEF IdsFit
<1>2. AloneOn'
  <2> SUFFICES ASSUME NEW d \in Tabs, NEW f \in Tabs, req'[d].email # None,
                      req'[d].email \notin overlapped', req'[f].email = req'[d].email
               PROVE  d = f
    BY DEF AloneOn
  <2>1. CASE d # c /\ f # c
    BY <2>1, <1>0 DEF AccountInv, AloneOn
  <2> QED BY <2>1, <1>0
<1>3. ASSUME NEW d \in Tabs PROVE Unmoved(d)'
  <2>1. CASE d = c
    <3>1. CASE r.email \in overlapped'
      BY <3>1, <2>1, <1>0 DEF Unmoved
    <3> QED BY <3>1, <2>1
  <2>2. CASE d # c
    <3>1. req'[d] = req[d] /\ Unmoved(d)
      BY <2>2, <1>0 DEF AccountInv
    <3> QED BY <3>1, <1>0 DEF Unmoved, ReqAt, A!Known, A!Present
  <2> QED BY <2>1, <2>2
<1>4. OneEach'
  BY <1>0 DEF AccountInv, OneEach, A!Known, A!Present
<1> QED BY <1>1, <1>2, <1>3, <1>4, SurvivesQuiet DEF AccountInv, Kept

(* Steps keep the types when what they write has its type. *)
LEMMA TypesOfRequest ==
  ASSUME AccountTypes, NEW c \in Tabs, NEW r \in Requests,
         req' = [req EXCEPT ![c] = r], Backed(c)',
         made' \in 0..MaxUsers, made' >= made,
         user' \in [A!Ids -> A!UserRow \cup {None}],
         \A i \in A!Ids : i > made' => user'[i] = None,
         token' \in Nat, resets' \subseteq (1..made') \X Nat
  PROVE  AccountTypes'
<1>1. req \in [Tabs -> Requests] /\ made \in Nat /\ made' \in Nat
  BY AccountsAssumption DEF AccountTypes
<1>2. req' \in [Tabs -> Requests] /\ \A d \in Tabs : d # c => req'[d] = req[d]
  BY <1>1
<1>3. ASSUME NEW d \in Tabs PROVE Backed(d)'
  <2>1. CASE d = c
    BY <2>1
  <2>2. CASE d # c
    <3>1. Backed(d) /\ req'[d] = req[d]
      BY <2>2, <1>2 DEF AccountTypes
    <3> QED BY <3>1, <1>1 DEF Backed, ReqAt
  <2> QED BY <2>1, <2>2
<1>4. A!Ids' = A!Ids /\ A!UserRow' = A!UserRow /\ Requests' = Requests
  BY DEF A!Ids, A!UserRow, Requests
<1> QED BY <1>2, <1>3, <1>4 DEF AccountTypes

LEMMA TypesAtOnce ==
  ASSUME AccountTypes, req' = req,
         made' \in 0..MaxUsers, made' >= made,
         user' \in [A!Ids -> A!UserRow \cup {None}],
         \A i \in A!Ids : i > made' => user'[i] = None,
         token' \in Nat, resets' \subseteq (1..made') \X Nat
  PROVE  AccountTypes'
<1>1. made \in Nat /\ made' \in Nat
  BY AccountsAssumption DEF AccountTypes
<1>2. ASSUME NEW d \in Tabs PROVE Backed(d)'
  BY <1>1 DEF Backed, ReqAt, AccountTypes
<1> QED BY <1>2 DEF AccountTypes, A!Ids, A!UserRow, Requests

LEMMA TypesStay ==
  ASSUME AccountInv, NEW c \in Tabs, NEW r \in Requests,
         req' = [req EXCEPT ![c] = r], Backed(c)',
         UNCHANGED <<user, made, token, resets>>
  PROVE  AccountTypes'
<1>1. /\ AccountTypes /\ made' \in 0..MaxUsers /\ made' >= made
      /\ user' \in [A!Ids -> A!UserRow \cup {None}]
      /\ \A i \in A!Ids : i > made' => user'[i] = None
      /\ token' \in Nat /\ resets' \subseteq (1..made') \X Nat
  BY AccountsAssumption DEF AccountInv, AccountTypes
<1> QED BY <1>1, TypesOfRequest

(* What is idle is a request that names nothing. *)
LEMMA IdleRequest ==
  /\ A!Idle \in Requests /\ A!Idle.pc = "idle" /\ A!Idle.email = None
  /\ A!Idle.id = None
BY DEF A!Idle, Requests

LEMMA ResetsStay ==
  ASSUME AccountTypes, made' \in Nat, made' >= made
  PROVE  resets \subseteq (1..made') \X Nat
<1>1. made \in Nat /\ 1..made \subseteq 1..made'
  BY AccountsAssumption DEF AccountTypes
<1> QED BY <1>1 DEF AccountTypes

(* Starts *)

LEMMA KeepSendStart ==
  ASSUME AccountInv, NEW c \in Tabs, NEW e \in Emails, A!SendStart(c, e)
  PROVE  Kept
<1> DEFINE r == [A!Idle EXCEPT !.pc = "lookup", !.email = e]
<1>1. A!Begin(c, r) /\ UNCHANGED <<user, made, token, resets>>
  BY DEF A!SendStart, A!mail
<1>2. /\ r \in Requests /\ r.pc = "lookup" /\ r.email = e /\ r.id = None
  BY DEF A!Idle, Requests
<1> HIDE DEF r
<1>3. req' = [req EXCEPT ![c] = r] /\ req'[c] = r
  BY <1>1 DEF A!Begin, AccountInv, AccountTypes
<1>4. Backed(c)'
  BY <1>2, <1>3 DEF Backed, ReqAt
<1>5. AccountTypes'
  BY <1>1, <1>2, <1>3, <1>4, TypesStay
<1>6. Unmoved(c)'
  BY <1>2, <1>3 DEF Unmoved, ReqAt
<1> QED BY <1>1, <1>2, <1>5, <1>6, RequestStarts

LEMMA KeepManageStart ==
  ASSUME AccountInv, NEW c \in Tabs, NEW e \in Emails, NEW n \in Names, A!ManageStart(c, e, n)
  PROVE  Kept
<1> DEFINE r == [A!Idle EXCEPT !.pc = "manage", !.email = e, !.name = n]
<1>1. A!Begin(c, r) /\ UNCHANGED <<user, made, token, resets>> /\ A!Known(e) = {}
  BY DEF A!ManageStart, A!mail, A!NameAndEmailFree
<1>2. /\ r \in Requests /\ r.pc = "manage" /\ r.email = e /\ r.id = None /\ r.name = n
  BY DEF A!Idle, Requests
<1> HIDE DEF r
<1>3. req' = [req EXCEPT ![c] = r] /\ req'[c] = r
  BY <1>1 DEF A!Begin, AccountInv, AccountTypes
<1>4. Backed(c)'
  BY <1>2, <1>3 DEF Backed, ReqAt
<1>5. AccountTypes'
  BY <1>1, <1>2, <1>3, <1>4, TypesStay
<1>6. Unmoved(c)'
  BY <1>1, <1>2, <1>3 DEF Unmoved, ReqAt, A!Known, A!Present
<1> QED BY <1>1, <1>2, <1>5, <1>6, RequestStarts

LEMMA KeepCompleteStart ==
  ASSUME AccountInv, NEW c \in Tabs, NEW k \in letters, NEW n \in Names, A!CompleteStart(c, k, n)
  PROVE  Kept
<1>0. PICK i \in A!Holder(k) :
        A!Begin(c, [pc |-> "replace", email |-> user[i].email, id |-> i, name |-> n,
                    seen |-> user[i]])
  BY DEF A!CompleteStart
<1> DEFINE r == [pc |-> "replace", email |-> user[i].email, id |-> i, name |-> n,
                 seen |-> user[i]]
<1>1. /\ A!Begin(c, r) /\ UNCHANGED <<user, made, token, resets>>
      /\ i \in A!Ids /\ user[i] \in A!UserRow /\ user[i].profile = "open" /\ i \in 1..made
      /\ user[i].email \in Emails /\ user[i] # None
  BY <1>0, EmailOfUser, AccountsAssumption
     DEF A!CompleteStart, A!mail, A!Holder, A!Present, A!Ids, AccountInv, AccountTypes
<1>2. /\ r \in Requests /\ r.pc = "replace" /\ r.email = user[i].email /\ r.id = i
      /\ r.name = n /\ r.seen = user[i]
  BY <1>1 DEF Requests
<1>7. i \in A!Known(r.email)
  BY <1>1, <1>2 DEF A!Known, A!Present
<1> HIDE DEF r
<1>3. req' = [req EXCEPT ![c] = r] /\ req'[c] = r
  BY <1>1 DEF A!Begin, AccountInv, AccountTypes
<1>4. Backed(c)'
  BY <1>1, <1>2, <1>3 DEF Backed, ReqAt
<1>5. AccountTypes'
  BY <1>1, <1>2, <1>3, <1>4, TypesStay
<1>6. Unmoved(c)'
  BY <1>1, <1>2, <1>3 DEF Unmoved, ReqAt
<1> QED BY <1>1, <1>2, <1>5, <1>6, <1>7, RequestStarts

LEMMA KeepSetupStart ==
  ASSUME AccountInv, NEW c \in Tabs, NEW i \in A!Ids, NEW n \in Names, A!SetupStart(c, i, n)
  PROVE  Kept
<1> DEFINE r == [pc |-> "setup", email |-> user[i].email, id |-> i, name |-> n,
                 seen |-> user[i]]
<1>1. /\ A!Begin(c, r) /\ UNCHANGED <<user, made, token, resets>>
      /\ user[i] \in A!UserRow /\ i \in 1..made
      /\ user[i].email \in Emails /\ user[i] # None
  BY EmailOfUser, AccountsAssumption
     DEF A!SetupStart, A!mail, A!Present, A!Ids, AccountInv, AccountTypes
<1>2. /\ r \in Requests /\ r.pc = "setup" /\ r.email = user[i].email /\ r.id = i
      /\ r.name = n /\ r.seen = user[i]
  BY <1>1 DEF Requests
<1>7. i \in A!Known(r.email)
  BY <1>1, <1>2 DEF A!Known, A!Present
<1> HIDE DEF r
<1>3. req' = [req EXCEPT ![c] = r] /\ req'[c] = r
  BY <1>1 DEF A!Begin, AccountInv, AccountTypes
<1>4. Backed(c)'
  BY <1>1, <1>2, <1>3 DEF Backed, ReqAt
<1>5. AccountTypes'
  BY <1>1, <1>2, <1>3, <1>4, TypesStay
<1>6. Unmoved(c)'
  BY <1>1, <1>2, <1>3 DEF Unmoved, ReqAt
<1> QED BY <1>1, <1>2, <1>5, <1>6, <1>7, RequestStarts

LEMMA KeepConfirmStart ==
  ASSUME AccountInv, NEW c \in Tabs, NEW k \in resets, A!ConfirmStart(c, k)
  PROVE  Kept
<1> DEFINE i == k[1]
           r == [A!Idle EXCEPT !.pc = "confirm", !.email = user[i].email, !.id = i,
                               !.seen = user[i]]
<1>0. k[1] \in 1..made /\ k[1] \in A!Ids /\ k[1] \in Nat
  BY AccountsAssumption DEF AccountInv, AccountTypes, A!Ids
<1>1. /\ A!Begin(c, r) /\ UNCHANGED <<user, made, token, resets>>
      /\ user[i] \in A!UserRow
      /\ user[i].email \in Emails /\ user[i] # None
  BY <1>0, EmailOfUser, AccountsAssumption
     DEF A!ConfirmStart, A!mail, AccountInv, AccountTypes
<1>2. /\ r \in Requests /\ r.pc = "confirm" /\ r.email = user[i].email /\ r.id = i
      /\ r.seen = user[i] /\ r.name = None
  BY <1>0, <1>1 DEF Requests, A!Idle
<1>7. i \in A!Known(r.email)
  BY <1>0, <1>1, <1>2 DEF A!Known, A!Present
<1> HIDE DEF r
<1>3. req' = [req EXCEPT ![c] = r] /\ req'[c] = r
  BY <1>1 DEF A!Begin, AccountInv, AccountTypes
<1>4. Backed(c)'
  BY <1>0, <1>1, <1>2, <1>3 DEF Backed, ReqAt
<1>5. AccountTypes'
  BY <1>1, <1>2, <1>3, <1>4, TypesStay
<1>6. Unmoved(c)'
  BY <1>1, <1>2, <1>3 DEF Unmoved, ReqAt
<1> QED BY <1>1, <1>2, <1>5, <1>6, <1>7, RequestStarts

-----------------------------------------------------------------------------
(* The steps of a request under way *)

(* What a step may do to the users: nothing, *)
LEMMA UsersStay ==
  ASSUME AccountInv, user' = user, NEW e, NEW back
  PROVE  Moves(e, back) /\ KnownNext(e) = A!Known(e)
BY DEF Moves, KnownNext, A!Known, A!Present

(* make one, *)
LEMMA UserMade ==
  ASSUME AccountInv, NEW row \in A!UserRow, NEW back, made < MaxUsers,
         made' = made + 1, user' = [user EXCEPT ![made + 1] = row]
  PROVE  /\ Moves(row.email, back)
         /\ KnownNext(row.email) = A!Known(row.email) \cup {made + 1}
         /\ made' \in 0..MaxUsers /\ made' >= made /\ made + 1 \in 1..made'
         /\ made + 1 \in A!Ids /\ user'[made + 1] = row
         /\ user' \in [A!Ids -> A!UserRow \cup {None}]
         /\ \A i \in A!Ids : i > made' => user'[i] = None
<1>1. /\ made \in Nat /\ MaxUsers \in Nat /\ user \in [A!Ids -> A!UserRow \cup {None}]
      /\ \A i \in A!Ids : i > made => user[i] = None
      /\ A!Ids = 1..MaxUsers
  BY AccountsAssumption DEF AccountInv, AccountTypes, A!Ids
<1>2. /\ made + 1 \in A!Ids /\ user[made + 1] = None /\ user'[made + 1] = row
      /\ \A i \in A!Ids : i # made + 1 => user'[i] = user[i]
      /\ row # None
  BY <1>1, EmailOfUser
<1>3. user' \in [A!Ids -> A!UserRow \cup {None}]
  BY <1>1, <1>2
<1>4. \A i \in A!Ids : i > made' => user'[i] = None
  BY <1>1, <1>2
<1>5. Moves(row.email, back)
  BY <1>1, <1>2 DEF Moves
<1>6. KnownNext(row.email) = A!Known(row.email) \cup {made + 1}
  BY <1>2 DEF KnownNext, A!Known, A!Present
<1> QED BY <1>1, <1>2, <1>3, <1>4, <1>5, <1>6

(* or change one. *)
LEMMA UserChanged ==
  ASSUME AccountInv, NEW row \in A!UserRow, NEW i \in 1..made,
         user[i] # None => user[i].email = row.email,
         made' = made, user' = [user EXCEPT ![i] = row]
  PROVE  /\ Moves(row.email, i)
         /\ user[i] # None => Moves(row.email, None)
         /\ KnownNext(row.email) = A!Known(row.email) \cup {i}
         /\ made' \in 0..MaxUsers /\ made' >= made
         /\ i \in A!Ids /\ user'[i] = row
         /\ user' \in [A!Ids -> A!UserRow \cup {None}]
         /\ \A j \in A!Ids : j > made' => user'[j] = None
<1>1. /\ made \in 0..MaxUsers /\ MaxUsers \in Nat /\ user \in [A!Ids -> A!UserRow \cup {None}]
      /\ \A j \in A!Ids : j > made => user[j] = None
      /\ A!Ids = 1..MaxUsers
  BY AccountsAssumption DEF AccountInv, AccountTypes, A!Ids
<1>2. /\ i \in A!Ids /\ user'[i] = row
      /\ \A j \in A!Ids : j # i => user'[j] = user[j]
      /\ row # None
  BY <1>1, EmailOfUser
<1>3. user' \in [A!Ids -> A!UserRow \cup {None}]
  BY <1>1, <1>2
<1>4. \A j \in A!Ids : j > made' => user'[j] = None
  BY <1>1, <1>2
<1>5. Moves(row.email, i) /\ (user[i] # None => Moves(row.email, None))
  BY <1>1, <1>2 DEF Moves
<1>6. KnownNext(row.email) = A!Known(row.email) \cup {i}
  BY <1>2 DEF KnownNext, A!Known, A!Present
<1> QED BY <1>1, <1>2, <1>3, <1>4, <1>5, <1>6

(* What a request under way has at hand. *)
LEMMA UnderWay ==
  ASSUME AccountInv, NEW c \in Tabs, ~ReqAt(c, {"idle"})
  PROVE  /\ req \in [Tabs -> Requests] /\ req[c] \in Requests
         /\ req[c].email \in Emails /\ req[c].email # None
         /\ Backed(c) /\ Unmoved(c)
         /\ token \in Nat /\ made \in 0..MaxUsers /\ made \in Nat
         /\ user \in [A!Ids -> A!UserRow \cup {None}]
         /\ req[c].email \notin overlapped =>
              \A i, j \in A!Known(req[c].email) : i = j
BY AccountsAssumption, NoAccountNone DEF AccountInv, AccountTypes, Backed, OneEach

LEMMA IdOfUnderWay ==
  ASSUME AccountInv, NEW c \in Tabs,
         ReqAt(c, {"profile", "save", "replace", "setup", "confirm"})
  PROVE  /\ req[c].id \in 1..made /\ req[c].id \in A!Ids /\ req[c].id # None
         /\ user[req[c].id] # None =>
              user[req[c].id] \in A!UserRow /\ user[req[c].id].email = req[c].email
         /\ \A d \in Tabs : req[d].id = req[c].id => req[d].email = req[c].email
         /\ ReqAt(c, {"save", "replace", "setup", "confirm"}) =>
              req[c].seen \in A!UserRow /\ req[c].seen.email = req[c].email
         /\ req[c].email \notin overlapped
              /\ ReqAt(c, {"save", "replace", "setup", "confirm"}) =>
                   user[req[c].id] = req[c].seen
<1>1. Backed(c) /\ Unmoved(c) /\ IdsFit /\ req[c].id \in 1..made /\ made \in 0..MaxUsers
      /\ user \in [A!Ids -> A!UserRow \cup {None}]
  BY DEF AccountInv, AccountTypes, Backed
<1>2. req[c].id \in A!Ids /\ req[c].id # None
  BY <1>1, AccountsAssumption, NoAccountNone DEF A!Ids
<1> QED BY <1>1, <1>2 DEF Backed, Unmoved, IdsFit

LEMMA QuietStep ==
  ASSUME AccountInv, NEW c \in Tabs, ~ReqAt(c, {"idle"}), UNCHANGED <<user, made>>
  PROVE  /\ Moves(req[c].email, req[c].id) /\ made' >= made
         /\ req[c].email \in Emails
         /\ req[c].email \notin overlapped => \A i, j \in KnownNext(req[c].email) : i = j
BY UnderWay, UsersStay

(* A request that ends and leaves the users alone. *)
LEMMA KeepDone ==
  ASSUME AccountInv, NEW c \in Tabs, ~ReqAt(c, {"idle"}), A!Done(c),
         UNCHANGED <<user, made, token, resets, overlapped>>
  PROVE  Kept
<1>1. req' = [req EXCEPT ![c] = A!Idle] /\ req'[c] = A!Idle
  BY UnderWay DEF A!Done
<1>2. Backed(c)' /\ Unmoved(c)'
  BY <1>1, IdleRequest DEF Backed, Unmoved, ReqAt
<1>3. AccountTypes'
  BY <1>1, <1>2, IdleRequest, TypesStay
<1>4. /\ Moves(req[c].email, req[c].id) /\ made' >= made /\ req[c].email \in Emails
      /\ req[c].email \notin overlapped => \A i, j \in KnownNext(req[c].email) : i = j
  BY QuietStep
<1>5. A!Idle \in Requests /\ A!Idle.email = None /\ A!Idle.id = None
  BY IdleRequest
<1> QED BY <1>1, <1>2, <1>3, <1>4, <1>5, SurvivesQuiet, RequestStep DEF Kept

LEMMA KeepSendLookup ==
  ASSUME AccountInv, NEW c \in Tabs, A!SendLookup(c)
  PROVE  Kept
<1> DEFINE e == req[c].email
           found == A!Known(e)
           r == [req[c] EXCEPT !.pc = IF found = {} THEN "name" ELSE "profile",
                               !.id = IF found = {} THEN None ELSE A!Min(found)]
<1>0. ~ReqAt(c, {"idle"}) /\ UNCHANGED <<user, made, token, resets, overlapped>>
  BY DEF A!SendLookup, A!mail, ReqAt
<1>1. req' = [req EXCEPT ![c] = r] /\ req'[c] = r
  BY <1>0, UnderWay DEF A!SendLookup
<1>2. found # {} => A!Min(found) \in found
  <2>1. found \in SUBSET Nat
    BY AccountsAssumption DEF A!Known, A!Present, A!Ids
  <2> HIDE DEF found
  <2> QED BY <2>1, MinIn
<1>3. \A i \in found : /\ i \in A!Ids /\ i \in 1..made /\ i \in Nat /\ i # None
                       /\ user[i] # None /\ user[i].email = e
  BY <1>0, UnderWay, AccountsAssumption, NoAccountNone
     DEF AccountInv, AccountTypes, A!Known, A!Present, A!Ids
<1>4. /\ r \in Requests /\ r.email = e
      /\ found = {} => r.pc = "name" /\ r.id = None
      /\ found # {} => r.pc = "profile" /\ r.id \in found
  <2>1. req[c] \in Requests
    BY <1>0, UnderWay
  <2>2. CASE found = {}
    <3>1. r = [req[c] EXCEPT !.pc = "name", !.id = None]
      BY <2>2
    <3> QED BY <3>1, <2>1, <2>2 DEF Requests
  <2>3. CASE found # {}
    <3>1. r = [req[c] EXCEPT !.pc = "profile", !.id = A!Min(found)]
      BY <2>3
    <3>2. A!Min(found) \in found /\ A!Min(found) \in Nat
      BY <1>2, <1>3, <2>3
    <3> HIDE DEF found, r
    <3> QED BY <3>1, <3>2, <2>1, <2>3 DEF Requests
  <2> QED BY <2>2, <2>3
<1> HIDE DEF r
<1>5. Backed(c)' /\ (e \notin overlapped => Unmoved(c)')
  BY <1>0, <1>1, <1>3, <1>4, UnderWay DEF Backed, Unmoved, ReqAt, A!Known, A!Present
<1>6. AccountTypes'
  BY <1>0, <1>1, <1>4, <1>5, TypesStay
<1>7. /\ Moves(req[c].email, req[c].id) /\ made' >= made
      /\ req[c].email \in Emails
      /\ req[c].email \notin overlapped => \A i, j \in KnownNext(req[c].email) : i = j
  BY <1>0, QuietStep
<1>8. r.id # None =>
        /\ r.id \in 1..made'
        /\ user'[r.id] # None => user'[r.id].email = e
        /\ \A d \in Tabs : req[d].id = r.id => req[d].email = e
  <2>1. r.id # None => r.id \in 1..made /\ user[r.id] # None /\ user[r.id].email = e
    BY <1>3, <1>4
  <2>2. IdsFit
    BY DEF AccountInv
  <2> QED BY <2>1, <2>2, <1>0 DEF IdsFit
<1>9. AccountInv'
  BY <1>0, <1>1, <1>4, <1>5, <1>6, <1>7, <1>8, RequestStep
<1> QED BY <1>0, <1>9, SurvivesQuiet DEF Kept

LEMMA FreeNameIn ==
  ASSUME NEW e \in Emails, A!FreeName(e) # None
  PROVE  A!FreeName(e) \in Names
<1> DEFINE free == {k \in DOMAIN Offers[e] : A!Named(Offers[e][k]) = {}}
<1>1. Offers[e] \in Seq(Names)
  BY AccountsAssumption
<1>2. free \subseteq Nat /\ free # {}
  BY <1>1 DEF A!FreeName
<1>3. A!Min(free) \in free
  BY <1>2, MinIn
<1>4. A!FreeName(e) = Offers[e][A!Min(free)]
  BY <1>2 DEF A!FreeName
<1> HIDE DEF free
<1>5. A!Min(free) \in DOMAIN Offers[e]
  BY <1>3 DEF free
<1> QED BY <1>1, <1>4, <1>5

LEMMA KeepChooseName ==
  ASSUME AccountInv, NEW c \in Tabs, A!ChooseName(c)
  PROVE  Kept
<1> DEFINE e == req[c].email
           r == [req[c] EXCEPT !.pc = IF @ = "name" THEN "create" ELSE "signup",
                               !.name = A!FreeName(e)]
<1>0. /\ ReqAt(c, {"name", "oauth"}) /\ ~ReqAt(c, {"idle"})
      /\ UNCHANGED <<user, made, token, resets, overlapped>>
  BY DEF A!ChooseName, A!mail, ReqAt
<1>1. req' = [req EXCEPT ![c] = r] /\ req'[c] = r
  BY <1>0, UnderWay DEF A!ChooseName
<1>2. A!FreeName(e) \in Names
  BY <1>0, UnderWay, FreeNameIn DEF A!ChooseName
<1>4. /\ r \in Requests /\ r.email = e /\ r.pc \in {"create", "signup"} /\ r.id = req[c].id
      /\ r.name \in Names
  <2>1. req[c] \in Requests
    BY <1>0, UnderWay
  <2>2. r \in Requests
    BY <1>2, <2>1 DEF Requests
  <2> QED BY <1>0, <1>2, <2>1, <2>2 DEF Requests, ReqAt
<1> HIDE DEF r
<1>5. Backed(c)' /\ Unmoved(c)'
  <2>1. e \notin overlapped => A!Known(e) = {}
    BY <1>0, UnderWay DEF Unmoved, ReqAt
  <2> QED BY <2>1, <1>0, <1>1, <1>4, UnderWay DEF Backed, Unmoved, ReqAt, A!Known, A!Present
<1>6. AccountTypes'
  BY <1>0, <1>1, <1>4, <1>5, TypesStay
<1>7. /\ Moves(req[c].email, req[c].id) /\ made' >= made
      /\ req[c].email \in Emails
      /\ req[c].email \notin overlapped => \A i, j \in KnownNext(req[c].email) : i = j
  BY <1>0, QuietStep
<1>8. r.id # None =>
        /\ r.id \in 1..made'
        /\ user'[r.id] # None => user'[r.id].email = e
        /\ \A d \in Tabs : req[d].id = r.id => req[d].email = e
  BY <1>0, <1>4 DEF AccountInv, IdsFit
<1>9. AccountInv'
  BY <1>0, <1>1, <1>4, <1>5, <1>6, <1>7, <1>8, RequestStep
<1> QED BY <1>0, <1>9, SurvivesQuiet DEF Kept

LEMMA KeepSendMail ==
  ASSUME AccountInv, NEW c \in Tabs, A!SendMail(c)
  PROVE  Kept
<1>1. /\ ~ReqAt(c, {"idle"}) /\ A!Done(c)
      /\ UNCHANGED <<user, made, token, resets, overlapped>>
  BY DEF A!SendMail, ReqAt
<1> QED BY <1>1, KeepDone

LEMMA FreshRows ==
  ASSUME NEW n \in Names, NEW e \in Emails
  PROVE  /\ [A!Fresh(n, e) EXCEPT !.social = TRUE] \in A!UserRow
         /\ [A!Fresh(n, e) EXCEPT !.social = TRUE].email = e
         /\ A!Equipped([A!Fresh(n, e) EXCEPT !.password = TRUE]) \in A!UserRow
         /\ A!Equipped([A!Fresh(n, e) EXCEPT !.password = TRUE]).email = e
         /\ [A!Fresh(n, e) EXCEPT !.password = TRUE, !.equipped = TRUE] \in A!UserRow
         /\ [A!Fresh(n, e) EXCEPT !.password = TRUE, !.equipped = TRUE].email = e
BY DEF A!Fresh, A!UserRow, A!Equipped

LEMMA OneOfNone ==
  ASSUME NEW e, NEW i, A!Known(e) = {}, KnownNext(e) = A!Known(e) \cup {i}
  PROVE  \A j, k \in KnownNext(e) : j = k
OBVIOUS

(* A request that makes a user: of an email that is not crossed it has found *)
(* none. *)
LEMMA RequestMakes ==
  ASSUME AccountInv, NEW c \in Tabs, NEW r \in Requests, NEW row \in A!UserRow,
         ~ReqAt(c, {"idle"}), row.email = req[c].email,
         req[c].email \notin overlapped => A!Known(req[c].email) = {},
         req' = [req EXCEPT ![c] = r], UNCHANGED <<token, overlapped>>,
         resets' \subseteq resets,
         made < MaxUsers, made' = made + 1, user' = [user EXCEPT ![made + 1] = row],
         \/ r.email = None /\ r.id = None /\ r.pc = "idle"
         \/ r.email = req[c].email /\ r.id = made + 1 /\ r.pc = "profile"
  PROVE  Kept
<1>1. /\ Moves(req[c].email, req[c].id)
      /\ KnownNext(req[c].email) = A!Known(req[c].email) \cup {made + 1}
      /\ made' \in 0..MaxUsers /\ made' >= made /\ made + 1 \in 1..made'
      /\ made + 1 \in A!Ids /\ user'[made + 1] = row
      /\ user' \in [A!Ids -> A!UserRow \cup {None}]
      /\ \A i \in A!Ids : i > made' => user'[i] = None
  BY UserMade
<1>2. req'[c] = r /\ req[c].email \in Emails /\ token' \in Nat
  BY UnderWay
<1>3. Backed(c)' /\ Unmoved(c)'
  BY <1>1, <1>2, NoAccountNone DEF Backed, Unmoved, ReqAt
<1>4. resets' \subseteq (1..made') \X Nat
  BY <1>1, ResetsStay, UnderWay DEF AccountInv
<1>5. AccountTypes'
  BY <1>1, <1>2, <1>3, <1>4, TypesOfRequest DEF AccountInv
<1>6. req[c].email \notin overlapped => \A i, j \in KnownNext(req[c].email) : i = j
  BY <1>1
<1>7. r.id # None =>
        /\ r.id \in 1..made'
        /\ user'[r.id] # None => user'[r.id].email = req[c].email
        /\ \A d \in Tabs : req[d].id = r.id => req[d].email = req[c].email
  <2>1. \A d \in Tabs : req[d].id # made + 1
    BY UnderWay, NoAccountNone DEF AccountInv, IdsFit
  <2> QED BY <1>1, <2>1
<1>8. AccountInv'
  BY <1>1, <1>2, <1>3, <1>5, <1>6, <1>7, RequestStep
<1>9. Survives
  <2>1. made + 1 > made /\ user[made + 1] = None
    BY <1>1, UnderWay DEF AccountInv, AccountTypes
  <2> QED BY <1>1, <2>1, SurvivesChange
<1> QED BY <1>8, <1>9 DEF Kept

(* A request that changes the user it has read. *)
LEMMA RequestChanges ==
  ASSUME AccountInv, NEW c \in Tabs, NEW r \in Requests, NEW row \in A!UserRow,
         ReqAt(c, {"profile", "save", "replace", "setup", "confirm"}),
         row.email = req[c].email,
         req[c].email \notin overlapped =>
           user[req[c].id] # None /\ (user[req[c].id].profile = "done" => row.profile = "done"),
         req' = [req EXCEPT ![c] = r], UNCHANGED <<made, overlapped, resets>>,
         token' \in Nat, user' = [user EXCEPT ![req[c].id] = row],
         \/ r.email = None /\ r.id = None /\ r.pc = "idle"
         \/ r.email = req[c].email /\ r.id = req[c].id /\ r.pc = "mail"
  PROVE  Kept
<1>0. /\ req[c].id \in 1..made /\ req[c].id \in A!Ids
      /\ user[req[c].id] # None => user[req[c].id].email = req[c].email
      /\ \A d \in Tabs : req[d].id = req[c].id => req[d].email = req[c].email
      /\ ~ReqAt(c, {"idle"})
  BY IdOfUnderWay DEF ReqAt
<1>1. /\ Moves(req[c].email, req[c].id)
      /\ KnownNext(req[c].email) = A!Known(req[c].email) \cup {req[c].id}
      /\ made' \in 0..MaxUsers /\ made' >= made
      /\ user'[req[c].id] = row
      /\ user' \in [A!Ids -> A!UserRow \cup {None}]
      /\ \A i \in A!Ids : i > made' => user'[i] = None
  <2>1. /\ Moves(row.email, req[c].id)
        /\ KnownNext(row.email) = A!Known(row.email) \cup {req[c].id}
        /\ made' \in 0..MaxUsers /\ made' >= made
        /\ user'[req[c].id] = row
        /\ user' \in [A!Ids -> A!UserRow \cup {None}]
        /\ \A i \in A!Ids : i > made' => user'[i] = None
    <3>1. /\ user[req[c].id] # None => user[req[c].id].email = row.email
          /\ made' = made
      BY <1>0
    <3>2. \A i \in 1..made :
            /\ user[i] # None => user[i].email = row.email
            /\ user' = [user EXCEPT ![i] = row]
            => /\ Moves(row.email, i)
               /\ KnownNext(row.email) = A!Known(row.email) \cup {i}
               /\ made' \in 0..MaxUsers /\ made' >= made
               /\ user'[i] = row
               /\ user' \in [A!Ids -> A!UserRow \cup {None}]
               /\ \A j \in A!Ids : j > made' => user'[j] = None
      BY <3>1, UserChanged
    <3> QED BY <1>0, <3>1, <3>2
  <2> QED BY <2>1
<1>2. req'[c] = r /\ req[c].email \in Emails
  BY <1>0, UnderWay
<1>3. Backed(c)' /\ Unmoved(c)'
  BY <1>1, <1>2, NoAccountNone DEF Backed, Unmoved, ReqAt
<1>4. resets' \subseteq (1..made') \X Nat
  BY DEF AccountInv, AccountTypes
<1>5. AccountTypes'
  BY <1>1, <1>2, <1>3, <1>4, TypesOfRequest DEF AccountInv
<1>6. req[c].email \notin overlapped => \A i, j \in KnownNext(req[c].email) : i = j
  <2>1. req[c].email \notin overlapped => req[c].id \in A!Known(req[c].email)
    BY <1>0 DEF A!Known, A!Present
  <2>2. req[c].email \notin overlapped => \A i, j \in A!Known(req[c].email) : i = j
    BY <1>0, UnderWay
  <2> QED BY <2>1, <2>2, <1>1
<1>7. r.id # None =>
        /\ r.id \in 1..made'
        /\ user'[r.id] # None => user'[r.id].email = req[c].email
        /\ \A d \in Tabs : req[d].id = r.id => req[d].email = req[c].email
  BY <1>0, <1>1
<1>8. AccountInv'
  BY <1>1, <1>2, <1>3, <1>5, <1>6, <1>7, RequestStep
<1>9. Survives
  <2>1. /\ user[req[c].id] # None => user[req[c].id].email = row.email
        /\ \/ row.email \in overlapped'
           \/ user[req[c].id] # None /\ (user[req[c].id].profile = "done" => row.profile = "done")
    BY <1>0
  <2> QED BY <1>0, <2>1, SurvivesChange
<1> QED BY <1>8, <1>9 DEF Kept

LEMMA KeepCreateTemporary ==
  ASSUME AccountInv, NEW c \in Tabs, A!CreateTemporary(c)
  PROVE  Kept
<1>0. /\ ReqAt(c, {"create"}) /\ ~ReqAt(c, {"idle"}) /\ made < MaxUsers
      /\ UNCHANGED <<token, resets, overlapped>>
  BY DEF A!CreateTemporary, A!mail, ReqAt
<1>1. CASE A!Named(req[c].name) # {}
  BY <1>0, <1>1, KeepDone DEF A!CreateTemporary
<1>2. CASE A!Named(req[c].name) = {}
  <2>1. PICK p \in {"open", "none"} :
          user' = [user EXCEPT ![made + 1] =
                    [A!Fresh(req[c].name, req[c].email) EXCEPT !.profile = p]]
    BY <1>2 DEF A!CreateTemporary
  <2> DEFINE row == [A!Fresh(req[c].name, req[c].email) EXCEPT !.profile = p]
             r == [req[c] EXCEPT !.pc = "profile", !.id = made + 1]
  <2>2. /\ req[c].name \in Names /\ req[c].email \in Emails /\ made + 1 \in Nat
        /\ req[c].email \notin overlapped => A!Known(req[c].email) = {}
        /\ req \in [Tabs -> Requests] /\ req[c] \in Requests
    BY <1>0, UnderWay DEF Backed, Unmoved, ReqAt
  <2>3. row \in A!UserRow /\ row.email = req[c].email
    <3>1. p \in {"none", "open", "done"}
      BY <2>1
    <3> QED BY <3>1, <2>2 DEF A!Fresh, A!UserRow
  <2>4. req' = [req EXCEPT ![c] = r] /\ made' = made + 1
    BY <2>2, <1>2 DEF A!CreateTemporary
  <2>5. r \in Requests /\ r.email = req[c].email /\ r.id = made + 1 /\ r.pc = "profile"
    BY <2>2 DEF Requests
  <2> HIDE DEF r, row
  <2>6. user' = [user EXCEPT ![made + 1] = row]
    BY <2>1 DEF row
  <2> QED BY <1>0, <2>2, <2>3, <2>4, <2>5, <2>6, RequestMakes
<1> QED BY <1>1, <1>2

LEMMA KeepOAuthSignup ==
  ASSUME AccountInv, NEW c \in Tabs, A!OAuthSignup(c)
  PROVE  Kept
<1>0. /\ ReqAt(c, {"signup"}) /\ ~ReqAt(c, {"idle"}) /\ made < MaxUsers /\ A!Done(c)
      /\ UNCHANGED <<token, resets, overlapped>>
  BY DEF A!OAuthSignup, A!mail, ReqAt
<1>1. CASE A!Named(req[c].name) # {}
  BY <1>0, <1>1, KeepDone DEF A!OAuthSignup
<1>2. CASE A!Named(req[c].name) = {}
  <2> DEFINE row == [A!Fresh(req[c].name, req[c].email) EXCEPT !.social = TRUE]
  <2>2. /\ req[c].name \in Names /\ req[c].email \in Emails
        /\ req[c].email \notin overlapped => A!Known(req[c].email) = {}
    BY <1>0, UnderWay DEF Backed, Unmoved, ReqAt
  <2>3. row \in A!UserRow /\ row.email = req[c].email
    BY <2>2, FreshRows
  <2>6. made' = made + 1 /\ user' = [user EXCEPT ![made + 1] = row]
    BY <1>2 DEF A!OAuthSignup
  <2> HIDE DEF row
  <2> DEFINE r == A!Idle
  <2>7. req' = [req EXCEPT ![c] = r]
    BY <1>0 DEF A!Done
  <2>8. UNCHANGED <<token, overlapped>> /\ resets' \subseteq resets
    BY <1>0
  <2>9. r \in Requests /\ r.email = None /\ r.id = None /\ r.pc = "idle"
    BY IdleRequest
  <2> HIDE DEF r
  <2> QED BY <1>0, <2>2, <2>3, <2>6, <2>7, <2>8, <2>9, RequestMakes
<1> QED BY <1>1, <1>2

LEMMA KeepManage ==
  ASSUME AccountInv, NEW c \in Tabs, A!Manage(c)
  PROVE  Kept
<1>0. /\ ReqAt(c, {"manage"}) /\ ~ReqAt(c, {"idle"}) /\ made < MaxUsers /\ A!Done(c)
      /\ UNCHANGED <<token, resets, overlapped>>
  BY DEF A!Manage, A!mail, ReqAt
<1>1. CASE ~(A!Named(req[c].name) = {} /\ alias[req[c].name] = None)
  BY <1>0, <1>1, KeepDone DEF A!Manage
<1>2. CASE A!Named(req[c].name) = {} /\ alias[req[c].name] = None
  <2> DEFINE row == A!Equipped([A!Fresh(req[c].name, req[c].email) EXCEPT !.password = TRUE])
  <2>2. /\ req[c].name \in Names /\ req[c].email \in Emails
        /\ req[c].email \notin overlapped => A!Known(req[c].email) = {}
    BY <1>0, UnderWay DEF Backed, Unmoved, ReqAt
  <2>3. row \in A!UserRow /\ row.email = req[c].email
    BY <2>2, FreshRows
  <2>6. made' = made + 1 /\ user' = [user EXCEPT ![made + 1] = row]
    BY <1>2 DEF A!Manage
  <2> HIDE DEF row
  <2> DEFINE r == A!Idle
  <2>7. req' = [req EXCEPT ![c] = r]
    BY <1>0 DEF A!Done
  <2>8. UNCHANGED <<token, overlapped>> /\ resets' \subseteq resets
    BY <1>0
  <2>9. r \in Requests /\ r.email = None /\ r.id = None /\ r.pc = "idle"
    BY IdleRequest
  <2> HIDE DEF r
  <2> QED BY <1>0, <2>2, <2>3, <2>6, <2>7, <2>8, <2>9, RequestMakes
<1> QED BY <1>1, <1>2

LEMMA KeepReadProfile ==
  ASSUME AccountInv, NEW c \in Tabs, A!ReadProfile(c)
  PROVE  Kept
<1> DEFINE i == req[c].id
<1>0. /\ ReqAt(c, {"profile"}) /\ ~ReqAt(c, {"idle"})
      /\ ReqAt(c, {"profile", "save", "replace", "setup", "confirm"})
      /\ UNCHANGED <<made, resets, overlapped>>
  BY DEF A!ReadProfile, A!mail, ReqAt
<1>1. CASE user[i] = None
  BY <1>0, <1>1, KeepDone DEF A!ReadProfile
<1>2. CASE user[i] # None
  <2>1. /\ user[i] \in A!UserRow /\ user[i].email = req[c].email
        /\ i \in 1..made /\ i \in A!Ids /\ i \in Nat /\ i # None
        /\ \A d \in Tabs : req[d].id = i => req[d].email = req[c].email
        /\ user \in [A!Ids -> A!UserRow \cup {None}]
        /\ req \in [Tabs -> Requests] /\ req[c] \in Requests
        /\ token \in Nat
    BY <1>0, <1>2, IdOfUnderWay, UnderWay
  <2>2. CASE user[i].profile = "none"
    <3> DEFINE row == [user[i] EXCEPT !.profile = "open", !.token = token + 1]
               r == [req[c] EXCEPT !.pc = "mail", !.seen = token + 1]
    <3>1. token' = token + 1
      BY <1>2, <2>2 DEF A!ReadProfile
    <3>2. user' = [user EXCEPT ![i] = row]
      BY <1>2, <2>1, <2>2, <3>1 DEF A!ReadProfile
    <3>3. req' = [req EXCEPT ![c] = r]
      BY <1>2, <2>1, <2>2, <3>1 DEF A!ReadProfile
    <3>4. r \in Requests /\ r.email = req[c].email /\ r.id = i /\ r.pc = "mail"
      <4>1. req[c] \in Requests /\ token + 1 \in Nat
        BY <2>1
      <4> QED BY <4>1 DEF Requests
    <3>5. row \in A!UserRow /\ row.email = req[c].email
      <4>1. user[i] \in A!UserRow /\ token + 1 \in Nat /\ user[i].email = req[c].email
        BY <2>1
      <4> QED BY <4>1 DEF A!UserRow
    <3> HIDE DEF r, row
    <3>6. token' \in Nat /\ UNCHANGED <<made, overlapped, resets>>
      BY <3>1, <2>1, <1>0
    <3> QED BY <1>0, <1>2, <2>2, <3>2, <3>3, <3>4, <3>5, <3>6, RequestChanges
  <2>3. CASE user[i].profile # "none"
    <3> DEFINE r == [req[c] EXCEPT !.pc = "save", !.seen = user[i]]
    <3>1. UNCHANGED <<user, made, token, resets, overlapped>>
      BY <1>0, <1>2, <2>3 DEF A!ReadProfile
    <3>3. req' = [req EXCEPT ![c] = r] /\ req'[c] = r
      BY <1>2, <2>1, <2>3 DEF A!ReadProfile
    <3>4. r \in Requests /\ r.email = req[c].email /\ r.id = i /\ r.pc = "save"
          /\ r.seen = user[i]
      BY <2>1 DEF Requests
    <3> HIDE DEF r
    <3>5. Backed(c)' /\ Unmoved(c)'
      BY <2>1, <3>1, <3>3, <3>4, <1>0, UnderWay DEF Backed, Unmoved, ReqAt
    <3>6. AccountTypes'
      BY <3>1, <3>3, <3>4, <3>5, TypesStay
    <3>7. /\ Moves(req[c].email, req[c].id) /\ made' >= made
          /\ req[c].email \in Emails
          /\ req[c].email \notin overlapped => \A j, k \in KnownNext(req[c].email) : j = k
      BY <1>0, <3>1, QuietStep
    <3>8. r.id # None =>
            /\ r.id \in 1..made'
            /\ user'[r.id] # None => user'[r.id].email = req[c].email
            /\ \A d \in Tabs : req[d].id = r.id => req[d].email = req[c].email
      BY <2>1, <3>1, <3>4
    <3>9. overlapped' = overlapped
      BY <3>1
    <3>10. AccountInv'
      BY <3>3, <3>4, <3>5, <3>6, <3>7, <3>8, <3>9, RequestStep
    <3> QED BY <3>1, <3>10, SurvivesQuiet DEF Kept
  <2> QED BY <2>2, <2>3
<1> QED BY <1>1, <1>2

LEMMA KeepSaveProfile ==
  ASSUME AccountInv, NEW c \in Tabs, A!SaveProfile(c)
  PROVE  Kept
<1> DEFINE i == req[c].id
           was == req[c].seen
<1>0. /\ ReqAt(c, {"save"}) /\ ~ReqAt(c, {"idle"})
      /\ ReqAt(c, {"profile", "save", "replace", "setup", "confirm"})
      /\ ReqAt(c, {"save", "replace", "setup", "confirm"})
      /\ UNCHANGED <<made, resets, overlapped>>
  BY DEF A!SaveProfile, A!mail, ReqAt
<1>1. CASE user[i] = None \/ user[i].again # was.again
  BY <1>0, <1>1, KeepDone DEF A!SaveProfile
<1>2. CASE ~(user[i] = None \/ user[i].again # was.again)
  <2>1. /\ user[i] \in A!UserRow /\ user[i].email = req[c].email
        /\ was \in A!UserRow
        /\ i \in 1..made /\ i \in A!Ids /\ i \in Nat /\ i # None
        /\ user \in [A!Ids -> A!UserRow \cup {None}]
        /\ req \in [Tabs -> Requests] /\ req[c] \in Requests
        /\ token \in Nat
    BY <1>0, <1>2, IdOfUnderWay, UnderWay
  <2> DEFINE row == [user[i] EXCEPT !.profile = was.profile, !.token = token + 1]
  <2>2. token' = token + 1 /\ user' = [user EXCEPT ![i].profile = was.profile, ![i].token = token']
    BY <1>2 DEF A!SaveProfile
  <2>3. user' = [user EXCEPT ![i] = row]
    BY <2>1, <2>2
  <2>4. row \in A!UserRow /\ row.email = req[c].email
    <3>1. was.profile \in {"none", "open", "done"} /\ token + 1 \in Nat
      BY <2>1 DEF A!UserRow
    <3>2. was \in A!UserRow /\ user[i] \in A!UserRow /\ user[i].email = req[c].email
      BY <2>1
    <3> HIDE DEF was, i
    <3> QED BY <3>1, <3>2 DEF A!UserRow
  <2>5. token' \in Nat /\ UNCHANGED <<made, overlapped, resets>>
    BY <2>1, <2>2, <1>0
  <2>8. req[c].email \notin overlapped => (user[i].profile = "done" => row.profile = "done")
    <3>1. req[c].email \notin overlapped => user[i] = was
      BY <1>0, IdOfUnderWay
    <3>2. row.profile = was.profile
      BY <2>1 DEF A!UserRow
    <3> QED BY <3>1, <3>2
  <2>6. CASE was.profile = "done"
    <3> DEFINE r == A!Idle
    <3>1. req' = [req EXCEPT ![c] = r]
      BY <1>2, <2>6 DEF A!SaveProfile, A!Done
    <3>2. r \in Requests /\ r.email = None /\ r.id = None /\ r.pc = "idle"
      BY IdleRequest
    <3> HIDE DEF r, row
    <3> QED BY <1>0, <1>2, <2>3, <2>4, <2>5, <2>8, <3>1, <3>2, RequestChanges
  <2>7. CASE was.profile # "done"
    <3> DEFINE r == [req[c] EXCEPT !.pc = "mail", !.seen = token + 1]
    <3>1. req' = [req EXCEPT ![c] = r]
      BY <1>2, <2>1, <2>2, <2>7 DEF A!SaveProfile
    <3>2. r \in Requests /\ r.email = req[c].email /\ r.id = i /\ r.pc = "mail"
      <4>1. req[c] \in Requests /\ token + 1 \in Nat
        BY <2>1
      <4> QED BY <4>1 DEF Requests
    <3> HIDE DEF r, row
    <3> QED BY <1>0, <1>2, <2>3, <2>4, <2>5, <2>8, <3>1, <3>2, RequestChanges
  <2> QED BY <2>6, <2>7
<1> QED BY <1>1, <1>2

LEMMA KeepReplace ==
  ASSUME AccountInv, NEW c \in Tabs, A!Replace(c)
  PROVE  Kept
<1> DEFINE i == req[c].id
           e == req[c].email
           row == A!Equipped([A!Fresh(req[c].name, e) EXCEPT !.password = TRUE])
<1>0. /\ ReqAt(c, {"replace"}) /\ ~ReqAt(c, {"idle"}) /\ made < MaxUsers /\ A!Done(c)
      /\ ReqAt(c, {"profile", "save", "replace", "setup", "confirm"})
      /\ UNCHANGED <<token, overlapped>>
  BY DEF A!Replace, A!mail, ReqAt
<1>1. CASE UNCHANGED <<user, made, resets>>
  BY <1>0, <1>1, KeepDone
<1>2. CASE A!CanReplace(c) /\ made' = made + 1
             /\ user' = [user EXCEPT ![i] = None, ![made + 1] = row]
             /\ resets' = {k \in resets : k[1] # i}
  <2>1. /\ req[c].name \in Names /\ e \in Emails /\ i \in 1..made /\ i \in A!Ids
        /\ made \in Nat /\ made \in 0..MaxUsers /\ token \in Nat
        /\ user \in [A!Ids -> A!UserRow \cup {None}]
        /\ user[i] # None /\ user[i].email = e /\ A!Known(e) \subseteq {i}
        /\ \A j \in A!Ids : j > made => user[j] = None
    <3>1. /\ user[i] # None /\ A!Known(e) \subseteq {i}
      BY <1>2 DEF A!CanReplace
    <3>2. Backed(c) /\ req[c].name \in Names
      BY <1>0, UnderWay DEF Backed, ReqAt
    <3>3. \A j \in A!Ids : j > made => user[j] = None
      BY DEF AccountInv, AccountTypes
    <3> QED BY <3>1, <3>2, <3>3, <1>0, UnderWay, IdOfUnderWay
  <2>2. row \in A!UserRow /\ row.email = e /\ row # None
    BY <2>1, FreshRows, EmailOfUser
  <2> HIDE DEF row
  <2>3. /\ A!Ids = 1..MaxUsers /\ MaxUsers \in Nat /\ A!Ids \subseteq Nat
    BY AccountsAssumption DEF A!Ids
  <2>4. /\ made + 1 \in A!Ids /\ made + 1 # i /\ user'[made + 1] = row /\ user'[i] = None
        /\ \A j \in A!Ids : j # made + 1 /\ j # i => user'[j] = user[j]
        /\ user[made + 1] = None
        /\ user' \in [A!Ids -> A!UserRow \cup {None}]
        /\ made' \in 0..MaxUsers /\ made' >= made
        /\ \A j \in A!Ids : j > made' => user'[j] = None
    <3>1. made + 1 \in A!Ids /\ made + 1 # i /\ user[made + 1] = None
      BY <1>0, <2>1, <2>3
    <3>2. /\ user'[made + 1] = row /\ user'[i] = None
          /\ \A j \in A!Ids : j # made + 1 /\ j # i => user'[j] = user[j]
          /\ user' \in [A!Ids -> A!UserRow \cup {None}]
      BY <1>2, <2>1, <2>2, <3>1
    <3>3. made' \in 0..MaxUsers /\ made' >= made
      BY <1>0, <1>2, <2>1, <2>3
    <3>4. \A j \in A!Ids : j > made' => user'[j] = None
      BY <1>2, <2>1, <2>3, <3>2
    <3> QED BY <3>1, <3>2, <3>3, <3>4
  <2>5. Moves(e, i)
    BY <2>1, <2>2, <2>4 DEF Moves
  <2>6. KnownNext(e) \subseteq {made + 1}
    <3>1. \A j \in A!Ids : user[j] # None /\ user[j].email = e => j = i
      BY <2>1 DEF A!Known, A!Present
    <3> QED BY <3>1, <2>4 DEF KnownNext
  <2> DEFINE r == A!Idle
  <2>7. req' = [req EXCEPT ![c] = r] /\ req'[c] = r
    BY <1>0, UnderWay DEF A!Done
  <2>8. r \in Requests /\ r.email = None /\ r.id = None /\ r.pc = "idle"
    BY IdleRequest
  <2> HIDE DEF r
  <2>9. Backed(c)' /\ Unmoved(c)'
    BY <2>7, <2>8, NoAccountNone DEF Backed, Unmoved, ReqAt
  <2>10. resets' \subseteq (1..made') \X Nat
    <3>1. resets \subseteq (1..made') \X Nat
      BY <2>1, <2>4, ResetsStay DEF AccountInv
    <3> QED BY <3>1, <1>2
  <2>11. AccountTypes'
    <3>1. AccountTypes /\ token' \in Nat
      BY <1>0, <2>1 DEF AccountInv
    <3> QED BY <3>1, <2>4, <2>7, <2>8, <2>9, <2>10, TypesOfRequest
  <2>12. \A j, k \in KnownNext(e) : j = k
    BY <2>6
  <2>13. overlapped' = overlapped
    BY <1>0
  <2>14. AccountInv'
    BY <2>1, <2>4, <2>5, <2>7, <2>8, <2>9, <2>11, <2>12, <2>13, RequestStep
  <2>15. e \notin overlapped => user[i].profile # "done"
    <3>1. req[c].seen.profile = "open"
      BY <1>0, UnderWay DEF Backed
    <3>2. e \notin overlapped => user[i] = req[c].seen
      BY <1>0, UnderWay DEF Unmoved, ReqAt
    <3> QED BY <3>1, <3>2
  <2>16. Survives
    BY <2>1, <2>3, <2>4, <2>13, <2>15 DEF Survives
  <2> QED BY <2>14, <2>16 DEF Kept
<1> QED BY <1>1, <1>2 DEF A!Replace

LEMMA KeepSetup ==
  ASSUME AccountInv, NEW c \in Tabs, A!Setup(c)
  PROVE  Kept
<1> DEFINE i == req[c].id
           now0 == IF user[i] # None THEN user[i]
                   ELSE [req[c].seen EXCEPT !.social = FALSE, !.token = 0, !.again = TRUE]
           row == A!Equipped([now0 EXCEPT !.name = req[c].name, !.password = FALSE,
                                          !.stamp = @ + 1])
           r == A!Idle
<1>0. /\ ReqAt(c, {"setup"}) /\ ~ReqAt(c, {"idle"}) /\ A!Done(c)
      /\ ReqAt(c, {"profile", "save", "replace", "setup", "confirm"})
      /\ ReqAt(c, {"save", "replace", "setup", "confirm"})
      /\ UNCHANGED <<token, made, resets, overlapped>>
  BY DEF A!Setup, A!mail, ReqAt
<1>1. CASE UNCHANGED user
  BY <1>0, <1>1, KeepDone
<1>2. CASE user' = [user EXCEPT ![i] = row]
  <2>1. /\ req[c].name \in Names /\ req[c].seen \in A!UserRow
        /\ req[c].seen.email = req[c].email
        /\ user[i] # None => user[i] \in A!UserRow /\ user[i].email = req[c].email
        /\ req[c].email \notin overlapped => user[i] # None
        /\ token \in Nat
    <3>1. Backed(c) /\ req[c].name \in Names
      BY <1>0, UnderWay DEF Backed, ReqAt
    <3> QED BY <3>1, <1>0, UnderWay, IdOfUnderWay, EmailOfUser
  <2>2. now0 \in A!UserRow /\ now0.email = req[c].email
    <3>1. CASE user[i] # None
      BY <2>1, <3>1
    <3>2. CASE user[i] = None
      <4>1. req[c].seen \in A!UserRow /\ req[c].seen.email = req[c].email
        BY <2>1
      <4>2. now0 = [req[c].seen EXCEPT !.social = FALSE, !.token = 0, !.again = TRUE]
        BY <3>2
      <4> HIDE DEF now0
      <4> QED BY <4>1, <4>2 DEF A!UserRow
    <3> QED BY <3>1, <3>2
  <2> HIDE DEF now0
  <2>3. row \in A!UserRow /\ row.email = req[c].email
    <3> DEFINE nm == req[c].name
               mid == [now0 EXCEPT !.name = nm, !.password = FALSE, !.stamp = @ + 1]
    <3>1. nm \in Names
      BY <2>1
    <3> HIDE DEF nm
    <3>4. now0.stamp + 1 \in Nat
      BY <2>2 DEF A!UserRow
    <3>2. mid \in A!UserRow /\ mid.email = req[c].email
      BY <3>1, <3>4, <2>2 DEF A!UserRow
    <3>3. row = A!Equipped(mid)
      BY DEF nm
    <3> HIDE DEF mid, row
    <3> QED BY <3>2, <3>3 DEF A!UserRow, A!Equipped
  <2>4. req' = [req EXCEPT ![c] = r]
    BY <1>0 DEF A!Done
  <2>5. r \in Requests /\ r.email = None /\ r.id = None /\ r.pc = "idle"
    BY IdleRequest
  <2>7. row.profile = "done"
    BY <2>2 DEF A!UserRow, A!Equipped
  <2> HIDE DEF r, row
  <2>6. token' \in Nat /\ UNCHANGED <<made, overlapped, resets>>
    BY <1>0, <2>1
  <2> QED BY <1>0, <1>2, <2>1, <2>3, <2>4, <2>5, <2>6, <2>7, RequestChanges
<1> QED BY <1>1, <1>2 DEF A!Setup

LEMMA KeepConfirm ==
  ASSUME AccountInv, NEW c \in Tabs, A!Confirm(c)
  PROVE  Kept
<1> DEFINE i == req[c].id
           now0 == IF user[i] # None THEN user[i]
                   ELSE [req[c].seen EXCEPT !.social = FALSE, !.token = 0, !.again = TRUE,
                                            !.profile = "open", !.equipped = FALSE]
           row == [now0 EXCEPT !.name = req[c].seen.name, !.password = TRUE, !.stamp = @ + 1]
           r == A!Idle
<1>0. /\ ReqAt(c, {"confirm"}) /\ ~ReqAt(c, {"idle"}) /\ A!Done(c)
      /\ ReqAt(c, {"profile", "save", "replace", "setup", "confirm"})
      /\ ReqAt(c, {"save", "replace", "setup", "confirm"})
      /\ UNCHANGED <<token, made, resets, overlapped>>
  BY DEF A!Confirm, A!mail, ReqAt
<1>1. CASE UNCHANGED user
  BY <1>0, <1>1, KeepDone
<1>2. CASE user' = [user EXCEPT ![i] = row]
  <2>1. /\ req[c].seen \in A!UserRow
        /\ req[c].seen.email = req[c].email
        /\ user[i] # None => user[i] \in A!UserRow /\ user[i].email = req[c].email
        /\ req[c].email \notin overlapped => user[i] # None
        /\ token \in Nat
    BY <1>0, UnderWay, IdOfUnderWay, EmailOfUser
  <2>2. now0 \in A!UserRow /\ now0.email = req[c].email
    <3>1. CASE user[i] # None
      BY <2>1, <3>1
    <3>2. CASE user[i] = None
      <4>1. req[c].seen \in A!UserRow /\ req[c].seen.email = req[c].email
        BY <2>1
      <4>2. now0 = [req[c].seen EXCEPT !.social = FALSE, !.token = 0, !.again = TRUE,
                                       !.profile = "open", !.equipped = FALSE]
        BY <3>2
      <4> HIDE DEF now0
      <4> QED BY <4>1, <4>2 DEF A!UserRow
    <3> QED BY <3>1, <3>2
  <2> HIDE DEF now0
  <2>3. row \in A!UserRow /\ row.email = req[c].email
    <3> DEFINE nm == req[c].seen.name
    <3>1. nm \in Names
      BY <2>1 DEF A!UserRow
    <3>2. row = [now0 EXCEPT !.name = nm, !.password = TRUE, !.stamp = @ + 1]
      OBVIOUS
    <3>3. now0.stamp + 1 \in Nat
      BY <2>2 DEF A!UserRow
    <3> HIDE DEF nm, row
    <3> QED BY <3>1, <3>2, <3>3, <2>2 DEF A!UserRow
  <2>4. req' = [req EXCEPT ![c] = r]
    BY <1>0 DEF A!Done
  <2>5. r \in Requests /\ r.email = None /\ r.id = None /\ r.pc = "idle"
    BY IdleRequest
  <2>7. user[i] # None => row.profile = user[i].profile
    <3>1. user[i] # None => now0 = user[i]
      BY DEF now0
    <3>2. row.profile = now0.profile
      BY <2>2 DEF A!UserRow
    <3> QED BY <3>1, <3>2
  <2> HIDE DEF r, row
  <2>6. token' \in Nat /\ UNCHANGED <<made, overlapped, resets>>
    BY <1>0, <2>1
  <2> QED BY <1>0, <1>2, <2>1, <2>3, <2>4, <2>5, <2>6, <2>7, RequestChanges
<1> QED BY <1>1, <1>2 DEF A!Confirm

-----------------------------------------------------------------------------
(* What is over at once *)

LEMMA KeepAtOnceChange ==
  ASSUME AccountInv, NEW i \in A!Ids, NEW row \in A!UserRow, user[i] # None,
         row.email = user[i].email, user[i].profile = "done" => row.profile = "done",
         A!AtOnce(user[i].email),
         UNCHANGED <<made, token, resets>>, user' = [user EXCEPT ![i] = row]
  PROVE  Kept
<1> DEFINE e == user[i].email
<1>1. /\ user[i] \in A!UserRow /\ e \in Emails /\ i \in 1..made /\ made \in 0..MaxUsers
      /\ req' = req /\ A!Cross(e) /\ token \in Nat /\ AccountTypes
      /\ i \in A!Known(e)
  BY EmailOfUser, AccountsAssumption
     DEF AccountInv, AccountTypes, A!Ids, A!AtOnce, A!Known, A!Present
<1>2. /\ KnownNext(row.email) = A!Known(row.email) \cup {i}
      /\ made' \in 0..MaxUsers /\ made' >= made
      /\ user' \in [A!Ids -> A!UserRow \cup {None}]
      /\ \A j \in A!Ids : j > made' => user'[j] = None
      /\ Moves(row.email, None)
  <2>1. made' = made
    OBVIOUS
  <2> QED BY <1>1, <2>1, UserChanged
<1>3. AccountTypes'
  <2>1. token' \in Nat /\ resets' \subseteq (1..made') \X Nat
    BY <1>1 DEF AccountTypes
  <2> QED BY <1>1, <1>2, <2>1, TypesAtOnce
<1>4. e \notin overlapped => \A j, k \in KnownNext(e) : j = k
  <2>1. e \notin overlapped => \A j, k \in A!Known(e) : j = k
    BY <1>1 DEF AccountInv, OneEach
  <2> QED BY <2>1, <1>1, <1>2
<1>5. AccountInv'
  BY <1>1, <1>2, <1>3, <1>4, AtOnceStep
<1>6. Survives
  BY SurvivesChange
<1> QED BY <1>5, <1>6 DEF Kept

LEMMA KeepOAuthStart ==
  ASSUME AccountInv, NEW c \in Tabs, NEW e \in Emails, A!OAuthStart(c, e)
  PROVE  Kept
<1>1. CASE A!Known(e) = {}
  <2> DEFINE r == [A!Idle EXCEPT !.pc = "oauth", !.email = e]
  <2>1. A!Begin(c, r) /\ UNCHANGED <<user, made, token, resets>>
    BY <1>1 DEF A!OAuthStart, A!mail
  <2>2. /\ r \in Requests /\ r.pc = "oauth" /\ r.email = e /\ r.id = None
    BY DEF A!Idle, Requests
  <2> HIDE DEF r
  <2>3. req' = [req EXCEPT ![c] = r] /\ req'[c] = r
    BY <2>1 DEF A!Begin, AccountInv, AccountTypes
  <2>4. Backed(c)'
    BY <2>2, <2>3 DEF Backed, ReqAt
  <2>5. AccountTypes'
    BY <2>1, <2>2, <2>3, <2>4, TypesStay
  <2>6. Unmoved(c)'
    BY <1>1, <2>1, <2>2, <2>3 DEF Unmoved, ReqAt, A!Known, A!Present
  <2> QED BY <2>1, <2>2, <2>5, <2>6, RequestStarts
<1>2. CASE A!Known(e) # {}
  <2> DEFINE social == {i \in A!Known(e) : user[i].social}
             S == IF social = {} THEN A!Known(e) ELSE social
             i == A!Min(S)
             row == [user[i] EXCEPT !.social = TRUE,
                                    !.profile = IF @ = "none" THEN "open" ELSE @]
  <2>1. S \subseteq A!Known(e) /\ S # {} /\ S \in SUBSET Nat
    BY <1>2, AccountsAssumption DEF A!Known, A!Present, A!Ids
  <2>2. /\ A!AtOnce(e) /\ user' = [user EXCEPT ![i] = row]
        /\ UNCHANGED <<made, token, resets>>
    BY <1>2 DEF A!OAuthStart, A!mail, A!Connected
  <2> HIDE DEF S
  <2>3. i \in A!Known(e)
    BY <2>1, MinIn
  <2> HIDE DEF i
  <2>4. /\ i \in A!Ids /\ user[i] # None /\ user[i].email = e /\ user[i] \in A!UserRow
    BY <2>3 DEF A!Known, A!Present, AccountInv, AccountTypes
  <2>5. row \in A!UserRow /\ row.email = e
    <3>1. CASE user[i].profile = "none"
      BY <3>1, <2>4 DEF A!UserRow
    <3>2. CASE user[i].profile # "none"
      BY <3>2, <2>4 DEF A!UserRow
    <3> QED BY <3>1, <3>2
  <2>6. user[i].profile = "done" => row.profile = "done"
    BY <2>4 DEF A!UserRow
  <2> HIDE DEF row
  <2> QED BY <2>2, <2>4, <2>5, <2>6, KeepAtOnceChange
<1> QED BY <1>1, <1>2

LEMMA KeepLogin ==
  ASSUME AccountInv, NEW i \in A!Ids, A!Login(i)
  PROVE  Kept
<1> DEFINE row == [user[i] EXCEPT !.stamp = @ + 1]
<1>1. /\ user[i] # None /\ user[i] \in A!UserRow /\ A!AtOnce(user[i].email)
      /\ user \in [A!Ids -> A!UserRow \cup {None}]
      /\ UNCHANGED <<made, token, resets>>
  BY DEF A!Login, A!mail, A!Present, AccountInv, AccountTypes
<1>2. user' = [user EXCEPT ![i] = row]
  BY <1>1 DEF A!Login
<1>3. row \in A!UserRow /\ row.email = user[i].email
  <2>1. user[i] \in A!UserRow
    BY <1>1
  <2> QED BY <2>1 DEF A!UserRow
<1>4. user[i].profile = "done" => row.profile = "done"
  BY <1>1 DEF A!UserRow
<1> HIDE DEF row
<1> QED BY <1>1, <1>2, <1>3, <1>4, KeepAtOnceChange

LEMMA KeepSendReset ==
  ASSUME AccountInv, NEW e \in Emails, A!SendReset(e)
  PROVE  Kept
<1>1. PICK i \in A!Known(e) : resets' = resets \cup {<<i, user[i].stamp>>}
  BY DEF A!SendReset
<1>2. /\ i \in A!Ids /\ user[i] \in A!UserRow /\ user[i] # None /\ i \in 1..made
      /\ made \in 0..MaxUsers
      /\ A!AtOnce(e) /\ UNCHANGED <<user, made, token>>
  BY <1>1, AccountsAssumption
     DEF A!SendReset, A!Known, A!Present, A!Ids, AccountInv, AccountTypes
<1>3. user[i].stamp \in Nat
  BY <1>2 DEF A!UserRow
<1>4. AccountTypes'
  <2>1. /\ AccountTypes /\ req' = req
        /\ made' \in 0..MaxUsers /\ made' >= made
        /\ user' \in [A!Ids -> A!UserRow \cup {None}]
        /\ \A j \in A!Ids : j > made' => user'[j] = None
        /\ token' \in Nat
    BY <1>2, AccountsAssumption DEF AccountInv, AccountTypes, A!AtOnce
  <2>2. resets' \subseteq (1..made') \X Nat
    <3>1. resets \subseteq (1..made') \X Nat
      BY <2>1, <1>2 DEF AccountTypes
    <3> QED BY <1>1, <1>2, <1>3, <3>1
  <2> QED BY <2>1, <2>2, TypesAtOnce
<1>5. Moves(e, None) /\ (e \notin overlapped => \A j, k \in KnownNext(e) : j = k)
  BY <1>2, UsersStay DEF AccountInv, OneEach
<1>6. req' = req /\ A!Cross(e) /\ made' >= made
  BY <1>2, AccountsAssumption DEF A!AtOnce
<1>7. AccountInv'
  BY <1>4, <1>5, <1>6, AtOnceStep
<1> QED BY <1>2, <1>7, SurvivesQuiet DEF Kept

LEMMA KeepCommandCreates ==
  ASSUME AccountInv, NEW e \in Emails, A!CommandCreates(e)
  PROVE  Kept
<1> DEFINE n == Offers[e][1]
           row == [A!Fresh(n, e) EXCEPT !.password = TRUE, !.equipped = TRUE]
<1>1. /\ made < MaxUsers /\ A!Known(e) = {} /\ A!AtOnce(e) /\ made' = made + 1
      /\ user' = [user EXCEPT ![made + 1] = row] /\ UNCHANGED <<token, resets>>
  BY DEF A!CommandCreates, A!mail
<1>2. n \in Names
  BY AccountsAssumption
<1> HIDE DEF n
<1>3. row \in A!UserRow /\ row.email = e
  BY <1>2 DEF A!UserRow, A!Fresh
<1> HIDE DEF row
<1>4. /\ Moves(e, None)
      /\ KnownNext(e) = A!Known(e) \cup {made + 1}
      /\ made' \in 0..MaxUsers /\ made' >= made
      /\ user' \in [A!Ids -> A!UserRow \cup {None}]
      /\ \A i \in A!Ids : i > made' => user'[i] = None
  <2>1. /\ Moves(row.email, None)
        /\ KnownNext(row.email) = A!Known(row.email) \cup {made + 1}
        /\ made' \in 0..MaxUsers /\ made' >= made
        /\ user' \in [A!Ids -> A!UserRow \cup {None}]
        /\ \A i \in A!Ids : i > made' => user'[i] = None
    BY <1>1, <1>3, UserMade
  <2> QED BY <1>3, <2>1
<1>5. AccountTypes'
  <2>1. /\ AccountTypes /\ req' = req /\ token' \in Nat /\ made' \in Nat
    BY <1>1, <1>4, AccountsAssumption DEF AccountInv, AccountTypes, A!AtOnce
  <2>2. resets' \subseteq (1..made') \X Nat
    BY <2>1, <1>1, <1>4, ResetsStay
  <2> QED BY <1>4, <2>1, <2>2, TypesAtOnce
<1>6. req' = req /\ A!Cross(e) /\ \A j, k \in KnownNext(e) : j = k
  BY <1>1, <1>4 DEF A!AtOnce
<1>7. AccountInv'
  BY <1>4, <1>5, <1>6, AtOnceStep
<1>8. Survives
  <2>1. made + 1 \in A!Ids /\ user[made + 1] = None /\ made + 1 > made
    BY <1>1, AccountsAssumption DEF AccountInv, AccountTypes, A!Ids
  <2> QED BY <1>1, <1>3, <2>1, SurvivesChange
<1> QED BY <1>7, <1>8 DEF Kept

(* Steps that no request and no user is touched by. *)
LEMMA KeepOthers ==
  ASSUME AccountInv, UNCHANGED <<user, made, token, resets, req, overlapped>>
  PROVE  Kept
<1>1. AccountInv'
  BY DEF AccountInv, AccountTypes, IdsFit, AloneOn, Unmoved, OneEach, ReqAt, Backed,
         Requests, A!Ids, A!UserRow, A!Known, A!Present
<1> QED BY <1>1, SurvivesQuiet DEF Kept

LEMMA AccountsStep == AccountInv /\ [A!Next]_(A!vars) => Kept
<1> SUFFICES ASSUME AccountInv, [A!Next]_(A!vars) PROVE Kept
  OBVIOUS
<1>1. CASE UNCHANGED A!vars
  BY <1>1, KeepOthers DEF A!vars
<1>2. ASSUME NEW c \in Tabs, A!Request(c) PROVE Kept
  BY <1>2, KeepSendLookup, KeepChooseName, KeepCreateTemporary, KeepReadProfile,
     KeepSaveProfile, KeepSendMail, KeepReplace, KeepOAuthSignup, KeepSetup, KeepConfirm,
     KeepManage DEF A!Request
<1>3. ASSUME NEW c \in Tabs, A!Start(c) PROVE Kept
  BY <1>3, KeepSendStart, KeepOAuthStart, KeepManageStart, KeepCompleteStart,
     KeepSetupStart, KeepConfirmStart DEF A!Start
<1>4. ASSUME NEW e \in Emails, A!SendReset(e) \/ A!CommandCreates(e) PROVE Kept
  BY <1>4, KeepSendReset, KeepCommandCreates
<1>5. ASSUME NEW k \in letters, A!Expire(k) PROVE Kept
  BY <1>5, KeepOthers DEF A!Expire, A!mail
<1>6. ASSUME NEW i \in A!Ids, A!Login(i) PROVE Kept
  BY <1>6, KeepLogin
<1>7. ASSUME NEW i \in A!Ids, NEW n \in Names, A!AddAlias(i, n) \/ A!DropAlias(i, n)
      PROVE  Kept
  BY <1>7, KeepOthers DEF A!AddAlias, A!DropAlias, A!mail
<1>8. ASSUME NEW i \in A!Ids, NEW n \in Names, NEW m \in Names, A!ChangeAlias(i, n, m)
      PROVE  Kept
  BY <1>8, KeepOthers DEF A!ChangeAlias, A!mail
<1> QED BY <1>1, <1>2, <1>3, <1>4, <1>5, <1>6, <1>7, <1>8 DEF A!Next

LEMMA AccountsInvariant == A!Spec => []AccountInv
BY AccountsStart, AccountsStep, PTL DEF A!Spec, Kept

(* Finite sets are the same to the module Accounts. *)
LEMMA SameCardinality == ASSUME NEW S PROVE A!Cardinality(S) = Cardinality(S)
BY DEF A!Cardinality, Cardinality

(* One user per email, as long as requests about the email do not overlap:   *)
(* each path of registration looks for the email before it inserts a user.   *)
THEOREM OneUser == A!Spec => []OneUserPerEmail
<1>1. AccountInv => OneUserPerEmail
  <2> SUFFICES ASSUME AccountInv, NEW e \in Emails \ overlapped
               PROVE  Cardinality(A!Known(e)) <= 1
    BY SameCardinality DEF OneUserPerEmail, A!OneUserPerEmail
  <2>1. \A i, j \in A!Known(e) : i = j
    BY DEF AccountInv, OneEach
  <2>2. CASE A!Known(e) = {}
    BY <2>2, FS_EmptySet
  <2>3. CASE A!Known(e) # {}
    <3>1. PICK i : A!Known(e) = {i}
      BY <2>1, <2>3
    <3>2. Cardinality({i}) = 1
      BY FS_Singleton
    <3> QED BY <3>1, <3>2
  <2> QED BY <2>2, <2>3
<1> QED BY <1>1, AccountsInvariant, PTL

(* A user who has completed a registration is not deleted and does not become *)
(* temporary again, and a deleted user does not come back, unless requests    *)
(* about the email have overlapped: what a request has found of the email is  *)
(* so when it writes.                                                         *)
THEOREM UsersSurvive == A!Spec => AccountsSurvive
<1>1. AccountInv /\ [A!Next]_(A!vars) => [Survives]_(A!vars)
  BY AccountsStep DEF Kept
<1>2. A!Spec => [][Survives]_(A!vars)
  BY <1>1, AccountsInvariant, PTL DEF A!Spec
<1> QED BY <1>2 DEF AccountsSurvive, A!AccountsSurvive, Survives
-----------------------------------------------------------------------------
(* LegacyImport: what an import has read, and what it has written *)

(* What a channel is configured with: the setting it is made from, its own   *)
(* values, or nothing yet.                                                   *)
EngineSettings == [engine : Engines, on : BOOLEAN]
Configs == (G!Keys \cup {"own", "empty"}) \X (EngineSettings \cup {None})
Channels ==
  [target : G!Supported, name : {"own", "legacy"}, on : BOOLEAN, config : Configs,
   filled : BOOLEAN, alive : BOOLEAN]

ImportTypes ==
  /\ setting \in [G!Keys -> EngineSettings \cup {None}]
  /\ legacy \in [Issues -> Engines \cup {None, "gone"}]
  /\ channel \in Seq(Channels)
  /\ past \in [Issues -> Nat]
  /\ copy \subseteq [issue : Issues, channel : Nat, by : Tabs]
  /\ DOMAIN job = Tabs

(* What an import has read: settings of the user, or issues, which may have  *)
(* gone since but have not changed, and channels, which may be deleted but   *)
(* keep their ids.                                                           *)
HasRead(p) ==
  /\ job[p].pc = "channels" => job[p].set \in [G!Keys -> EngineSettings \cup {None}]
  /\ job[p].pc = "issues" =>
       /\ DOMAIN job[p].rows \subseteq Issues
       /\ \A x \in DOMAIN job[p].rows :
            /\ job[p].rows[x] \in G!Supported \cap Engines
            /\ legacy[x] \in {job[p].rows[x], "gone"}
       /\ \A t \in G!Supported : job[p].chosen[t] \in DOMAIN channel \cup {None}

(* One delivery of an issue at most, to a channel that exists, and one event *)
(* with it.                                                                  *)
OneCopy ==
  /\ \A d, e \in copy : d.issue = e.issue => d = e
  /\ \A d \in copy : d.channel \in G!Alive
  /\ \A x \in Issues \ orphaned : past[x] = IF G!Imported(x) THEN 1 ELSE 0

ImportInv ==
  /\ ImportTypes
  /\ \A p \in Tabs : HasRead(p)
  /\ OneCopy

-----------------------------------------------------------------------------
(* Sets as sequences *)

(* Finite sets that the imports make sequences of. *)
LEMMA TwoThree ==
  \A x, y, z : IsFiniteSet({x, y}) /\ IsFiniteSet({x, y, z})
<1> TAKE x, y, z
<1>1. IsFiniteSet({x})
  BY FS_Singleton
<1>2. IsFiniteSet({x} \cup {y})
  BY <1>1, FS_AddElement
<1>3. IsFiniteSet(({x} \cup {y}) \cup {z})
  BY <1>2, FS_AddElement
<1>4. {x, y} = {x} \cup {y} /\ {x, y, z} = ({x} \cup {y}) \cup {z}
  OBVIOUS
<1> QED BY <1>2, <1>3, <1>4

(* SetToSeq lists every element of a finite set. *)
LEMMA SetAsSeq ==
  ASSUME NEW T, NEW S \in SUBSET T, IsFiniteSet(S)
  PROVE  /\ G!SetToSeq(S) \in Seq(T)
         /\ \A x \in S : \E n \in DOMAIN G!SetToSeq(S) : G!SetToSeq(S)[n] = x
<1> DEFINE k == Cardinality(S)
           q == G!SetToSeq(S)
<1>1. k \in Nat /\ ExistsBijection(1..k, S)
  BY FS_CardinalityType
<1>2. PICK b \in [1..k -> S] : b \in Bijection(1..k, S)
  BY <1>1 DEF ExistsBijection, Bijection, Injection
<1>3. \A m, n \in 1..k : b[m] = b[n] => m = n
  BY <1>2 DEF Bijection, Injection, IsInjective
<1>4. G!Cardinality(S) = k
  BY DEF G!Cardinality, Cardinality
<1>5. G!IsInjective(b)
  BY <1>2, <1>3 DEF G!IsInjective
<1>6. q = CHOOSE f \in [1..k -> S] : G!IsInjective(f)
  BY <1>4 DEF G!SetToSeq
<1>7. q \in [1..k -> S] /\ G!IsInjective(q)
  BY <1>2, <1>5, <1>6
<1>8. IsFiniteSet(1..k) /\ Cardinality(1..k) = k
  BY <1>1, FS_Interval
<1>9. q \in Injection(1..k, S)
  BY <1>7 DEF Injection, IsInjective, G!IsInjective
<1>10. q \in Surjection(1..k, S)
  BY <1>8, <1>9, FS_Injection
<1>11. \A x \in S : \E n \in 1..k : q[n] = x
  BY <1>10 DEF Surjection
<1>12. DOMAIN q = 1..k /\ q \in Seq(T)
  BY <1>1, <1>7
<1> QED BY <1>11, <1>12
-----------------------------------------------------------------------------
(* What the steps leave alone *)

LEMMA ImportParts ==
  ASSUME ImportInv
  PROVE  /\ ImportTypes /\ OneCopy
         /\ \A p \in Tabs : HasRead(p)
         /\ Len(channel) \in Nat /\ DOMAIN channel = 1..Len(channel)
         /\ \A i \in DOMAIN channel : channel[i] \in Channels
<1>1. channel \in Seq(Channels)
  BY DEF ImportInv, ImportTypes
<1>2. Len(channel) \in Nat /\ DOMAIN channel = 1..Len(channel)
  BY <1>1
<1> QED BY <1>1, <1>2, ElementOfSeq DEF ImportInv

(* Issues come and go but do not change, and channels keep their ids. *)
IssuesStand ==
  \A x \in Issues : legacy'[x] = legacy[x] \/ legacy[x] = None \/ legacy'[x] = "gone"
IdsStand == channel' \in Seq(Channels) /\ Len(channel') >= Len(channel)

LEMMA ReadStands ==
  ASSUME ImportInv, NEW p \in Tabs, job'[p] = job[p], IssuesStand, IdsStand
  PROVE  HasRead(p)'
<1>1. HasRead(p) /\ Len(channel) \in Nat /\ DOMAIN channel = 1..Len(channel)
  BY ImportParts
<1>2. Len(channel') \in Nat /\ DOMAIN channel' = 1..Len(channel')
  BY DEF IdsStand
<1>3. DOMAIN channel \subseteq DOMAIN channel'
  BY <1>1, <1>2 DEF IdsStand
<1>4. ASSUME job[p].pc = "issues", NEW x \in DOMAIN job[p].rows
      PROVE  legacy'[x] \in {job[p].rows[x], "gone"}
  <2>1. x \in Issues /\ job[p].rows[x] \in Engines /\ legacy[x] \in {job[p].rows[x], "gone"}
    BY <1>1, <1>4 DEF HasRead
  <2>2. legacy[x] # None
    BY <2>1, ImportAssumption
  <2> QED BY <2>1, <2>2 DEF IssuesStand
<1> QED BY <1>1, <1>3, <1>4 DEF HasRead

(* A step of one import, which reads, or ends. *)
LEMMA OtherReadsStand ==
  ASSUME ImportInv, NEW p \in Tabs, NEW r, job' = [job EXCEPT ![p] = r],
         IssuesStand, IdsStand
  PROVE  /\ DOMAIN job' = Tabs /\ job'[p] = r
         /\ r.pc \notin {"channels", "issues"} \/ HasRead(p)' => \A q \in Tabs : HasRead(q)'
<1>1. DOMAIN job = Tabs
  BY DEF ImportInv, ImportTypes
<1>2. DOMAIN job' = Tabs /\ job'[p] = r /\ \A q \in Tabs : q # p => job'[q] = job[q]
  BY <1>1
<1>3. \A q \in Tabs : q # p => HasRead(q)'
  BY <1>2, ReadStands
<1>4. r.pc \notin {"channels", "issues"} => HasRead(p)'
  BY <1>2 DEF HasRead
<1> QED BY <1>2, <1>3, <1>4

LEMMA JobEnds ==
  ASSUME ImportInv, NEW p \in Tabs, G!Ends(p), IssuesStand, IdsStand
  PROVE  DOMAIN job' = Tabs /\ \A q \in Tabs : HasRead(q)'
<1>1. job' = [job EXCEPT ![p] = G!Idle] /\ G!Idle.pc = "idle"
  BY DEF G!Ends, G!Idle
<1> HIDE DEF G!Idle
<1> QED BY <1>1, OtherReadsStand

LEMMA SameJobs ==
  ASSUME ImportInv, job' = job, IssuesStand, IdsStand
  PROVE  DOMAIN job' = Tabs /\ \A q \in Tabs : HasRead(q)'
BY ReadStands DEF ImportInv, ImportTypes

(* The copies stand where no channel of one is deleted. *)
LEMMA CopiesStand ==
  ASSUME OneCopy, UNCHANGED <<copy, past, orphaned>>, G!Alive \subseteq G!Alive'
  PROVE  OneCopy'
BY DEF OneCopy, G!Imported

LEMMA SameChannels ==
  ASSUME ImportInv, channel' = channel
  PROVE  IdsStand /\ G!Alive' = G!Alive
BY ImportParts DEF IdsStand, G!Alive, ImportTypes

LEMMA SameIssues == ASSUME legacy' = legacy PROVE IssuesStand
BY DEF IssuesStand
-----------------------------------------------------------------------------
(* The steps that leave channels and copies alone *)

(* A channel of the target that is the user's oldest, if there is one. *)
LEMMA OldestIn ==
  ASSUME ImportInv, NEW t
  PROVE  G!Oldest(t) \in DOMAIN channel \cup {None}
<1> DEFINE found == {i \in G!Alive : channel[i].target = t}
<1>1. found \subseteq DOMAIN channel /\ found \subseteq Nat
  BY ImportParts DEF G!Alive
<1>2. CASE found = {}
  BY <1>2 DEF G!Oldest
<1>3. CASE found # {}
  <2>1. PICK i \in found : \A j \in found : ~(<<j, i>> \in OpToRel(<, Nat))
    BY <1>1, <1>3, NatLessThanWellFounded, WFMin
  <2>2. \A j \in found : ~(j < i)
    BY <1>1, <2>1 DEF OpToRel
  <2>3. \A j \in found : i <= j
    BY <1>1, <2>2
  <2>4. (CHOOSE k \in found : \A j \in found : k <= j) \in found
    BY <2>3
  <2> QED BY <1>1, <1>3, <2>4 DEF G!Oldest
<1> QED BY <1>2, <1>3

LEMMA KeepReadSettings ==
  ASSUME ImportInv, NEW p \in Tabs, G!ReadSettings(p)
  PROVE  ImportInv'
<1> DEFINE r == [G!Idle EXCEPT !.pc = "channels", !.set = setting]
<1>1. /\ job' = [job EXCEPT ![p] = r]
      /\ UNCHANGED <<setting, legacy, channel, past, copy, orphaned>>
  BY DEF G!ReadSettings, G!Start
<1>2. r.pc = "channels" /\ r.set = setting
  BY DEF G!Idle
<1> HIDE DEF r
<1>3. IssuesStand /\ IdsStand /\ G!Alive' = G!Alive
  BY <1>1, SameChannels, SameIssues
<1>4. DOMAIN job' = Tabs /\ job'[p] = r
  BY <1>1, <1>3, OtherReadsStand
<1>5. HasRead(p)'
  BY <1>2, <1>4 DEF HasRead, ImportInv, ImportTypes
<1>6. \A q \in Tabs : HasRead(q)'
  BY <1>1, <1>3, <1>5, OtherReadsStand
<1>7. ImportTypes'
  BY <1>1, <1>4 DEF ImportInv, ImportTypes
<1>8. OneCopy'
  BY <1>1, <1>3, CopiesStand DEF ImportInv
<1> QED BY <1>6, <1>7, <1>8 DEF ImportInv

LEMMA KeepReadIssues ==
  ASSUME ImportInv, NEW p \in Tabs, G!ReadIssues(p)
  PROVE  ImportInv'
<1> DEFINE rows == [x \in {x \in G!Rows : legacy[x] \in G!Supported} |-> legacy[x]]
           chosen == [t \in G!Supported |-> G!Oldest(t)]
           r == [G!Idle EXCEPT !.pc = "issues", !.rows = rows, !.chosen = chosen,
                               !.known = {x \in G!Rows : G!Imported(x)}]
<1>1. /\ job' = [job EXCEPT ![p] = r]
      /\ UNCHANGED <<setting, legacy, channel, past, copy, orphaned>>
  BY DEF G!ReadIssues, G!Start
<1>2. r.pc = "issues" /\ r.rows = rows /\ r.chosen = chosen
  BY DEF G!Idle
<1> HIDE DEF r
<1>3. IssuesStand /\ IdsStand /\ G!Alive' = G!Alive
  BY <1>1, SameChannels, SameIssues
<1>4. DOMAIN job' = Tabs /\ job'[p] = r
  BY <1>1, <1>3, OtherReadsStand
<1>5. HasRead(p)'
  <2>1. /\ DOMAIN rows \subseteq Issues
        /\ \A x \in DOMAIN rows : rows[x] \in G!Supported \cap Engines /\ rows[x] = legacy[x]
    BY DEF G!Rows
  <2>2. \A t \in G!Supported : chosen[t] \in DOMAIN channel \cup {None}
    BY OldestIn
  <2> HIDE DEF rows, chosen
  <2> QED BY <1>1, <1>2, <1>4, <2>1, <2>2 DEF HasRead
<1>6. \A q \in Tabs : HasRead(q)'
  BY <1>1, <1>3, <1>5, OtherReadsStand
<1>7. ImportTypes'
  BY <1>1, <1>4 DEF ImportInv, ImportTypes
<1>8. OneCopy'
  BY <1>1, <1>3, CopiesStand DEF ImportInv
<1> QED BY <1>6, <1>7, <1>8 DEF ImportInv

LEMMA KeepEnd ==
  ASSUME ImportInv, NEW p \in Tabs, G!RefuseIssues(p) \/ G!Crash(p)
  PROVE  ImportInv'
<1>1. UNCHANGED <<setting, legacy, channel, past, copy, orphaned>>
  BY DEF G!RefuseIssues, G!Crash
<1>2. IssuesStand /\ IdsStand /\ G!Alive' = G!Alive
  BY <1>1, SameChannels, SameIssues
<1>3. DOMAIN job' = Tabs /\ \A q \in Tabs : HasRead(q)'
  <2>1. CASE G!RefuseIssues(p)
    BY <1>2, <2>1, JobEnds DEF G!RefuseIssues
  <2>2. CASE G!Crash(p)
    <3> DEFINE r == [G!Idle EXCEPT !.pc = "dead"]
    <3>1. job' = [job EXCEPT ![p] = r]
      BY <2>2 DEF G!Crash
    <3>2. r.pc \notin {"channels", "issues"}
      BY DEF G!Idle
    <3> HIDE DEF r
    <3> QED BY <1>2, <3>1, <3>2, OtherReadsStand
  <2> QED BY <2>1, <2>2
<1>4. ImportTypes'
  BY <1>1, <1>3 DEF ImportInv, ImportTypes
<1>5. OneCopy'
  BY <1>1, <1>2, CopiesStand DEF ImportInv
<1> QED BY <1>3, <1>4, <1>5 DEF ImportInv

LEMMA KeepQuiet ==
  ASSUME ImportInv, G!Expire \/ G!SetSetting \/ G!WriteIssue \/ UNCHANGED G!vars
  PROVE  ImportInv'
<1>1. UNCHANGED <<channel, past, copy, job, orphaned>>
  BY DEF G!Expire, G!SetSetting, G!WriteIssue, G!vars
<1>2. setting' \in [G!Keys -> EngineSettings \cup {None}]
  <2>1. setting \in [G!Keys -> EngineSettings \cup {None}]
    BY DEF ImportInv, ImportTypes
  <2>2. CASE G!SetSetting
    BY <2>1, <2>2 DEF G!SetSetting, EngineSettings
  <2>3. CASE setting' = setting
    BY <2>1, <2>3
  <2> QED BY <2>2, <2>3 DEF G!Expire, G!WriteIssue, G!vars
<1>3. IssuesStand /\ legacy' \in [Issues -> Engines \cup {None, "gone"}]
  <2>1. legacy \in [Issues -> Engines \cup {None, "gone"}]
    BY DEF ImportInv, ImportTypes
  <2>2. CASE G!WriteIssue
    BY <2>1, <2>2 DEF G!WriteIssue, IssuesStand
  <2>3. CASE legacy' = legacy
    BY <2>1, <2>3, SameIssues
  <2> QED BY <2>2, <2>3 DEF G!Expire, G!SetSetting, G!vars
<1>4. IdsStand /\ G!Alive' = G!Alive
  BY <1>1, SameChannels
<1>5. DOMAIN job' = Tabs /\ \A q \in Tabs : HasRead(q)'
  BY <1>1, <1>3, <1>4, SameJobs
<1>6. ImportTypes'
  BY <1>1, <1>2, <1>3, <1>5 DEF ImportInv, ImportTypes
<1>7. OneCopy'
  BY <1>1, <1>4, CopiesStand DEF ImportInv
<1> QED BY <1>5, <1>6, <1>7 DEF ImportInv
-----------------------------------------------------------------------------
(* The steps that change channels, copies or issues *)

(* A new channel comes after the old ones, which stay. *)
LEMMA ChannelsAdded ==
  ASSUME ImportInv, NEW old \in Seq(Channels), NEW new \in Seq(Channels),
         Len(old) = Len(channel), channel' = old \o new,
         \A i \in DOMAIN channel : old[i].alive = channel[i].alive,
         \A n \in DOMAIN new : new[n].alive
  PROVE  /\ IdsStand
         /\ G!Alive' = G!Alive \cup {Len(channel) + n : n \in DOMAIN new}
<1>1. /\ Len(old) \in Nat /\ DOMAIN old = 1..Len(old)
      /\ Len(new) \in Nat /\ DOMAIN new = 1..Len(new)
      /\ DOMAIN channel = 1..Len(channel)
  BY ImportParts
<1>2. /\ channel' \in Seq(Channels) /\ Len(channel') = Len(old) + Len(new)
      /\ DOMAIN channel' = 1..(Len(old) + Len(new))
      /\ \A i \in 1..(Len(old) + Len(new)) :
           channel'[i] = IF i <= Len(old) THEN old[i] ELSE new[i - Len(old)]
  <2>1. /\ old \o new \in Seq(Channels) /\ Len(old \o new) = Len(old) + Len(new)
        /\ \A i \in 1..(Len(old) + Len(new)) :
             (old \o new)[i] = IF i <= Len(old) THEN old[i] ELSE new[i - Len(old)]
    BY ConcatProperties
  <2>2. DOMAIN channel' = 1..Len(channel')
    BY <2>1
  <2> QED BY <2>1, <2>2
<1>3. IdsStand
  BY <1>1, <1>2 DEF IdsStand
<1>4. \A i \in G!Alive' : i \in G!Alive \/ \E n \in DOMAIN new : i = Len(channel) + n
  <2> SUFFICES ASSUME NEW i \in DOMAIN channel', channel'[i].alive,
                      i \notin 1..Len(old)
               PROVE  \E n \in DOMAIN new : i = Len(channel) + n
    BY <1>1, <1>2 DEF G!Alive
  <2>1. i - Len(old) \in DOMAIN new /\ i = Len(channel) + (i - Len(old))
    BY <1>1, <1>2
  <2> QED BY <2>1
<1>5. G!Alive \subseteq G!Alive'
  <2> SUFFICES ASSUME NEW i \in DOMAIN channel, channel[i].alive
               PROVE  i \in DOMAIN channel' /\ channel'[i].alive
    BY DEF G!Alive
  <2> QED BY <1>1, <1>2
<1>6. \A n \in DOMAIN new : Len(channel) + n \in G!Alive'
  <2> SUFFICES ASSUME NEW n \in DOMAIN new
               PROVE  Len(channel) + n \in DOMAIN channel' /\ channel'[Len(channel) + n].alive
    BY DEF G!Alive
  <2>1. Len(channel) + n \in 1..(Len(old) + Len(new)) /\ ~(Len(channel) + n <= Len(old))
        /\ Len(channel) + n - Len(old) = n
    BY <1>1
  <2> QED BY <1>2, <2>1
<1> QED BY <1>3, <1>4, <1>5, <1>6

(* One channel is written. *)
LEMMA ChannelWritten ==
  ASSUME ImportInv, NEW i \in G!Alive, NEW c \in Channels,
         channel' = [channel EXCEPT ![i] = c]
  PROVE  /\ IdsStand
         /\ G!Alive' = IF c.alive THEN G!Alive ELSE G!Alive \ {i}
<1>1. /\ channel \in Seq(Channels) /\ Len(channel) \in Nat /\ DOMAIN channel = 1..Len(channel)
      /\ i \in DOMAIN channel /\ channel[i].alive
  BY ImportParts DEF ImportTypes, G!Alive
<1>2. channel' \in Seq(Channels) /\ Len(channel') = Len(channel)
  BY <1>1, ExceptSeq
<1>3. /\ DOMAIN channel' = DOMAIN channel /\ channel'[i] = c
      /\ \A j \in DOMAIN channel : j # i => channel'[j] = channel[j]
  BY <1>1
<1> QED BY <1>1, <1>2, <1>3 DEF IdsStand, G!Alive

LEMMA KeepDeleteEmail ==
  ASSUME ImportInv, G!DeleteEmail
  PROVE  ImportInv'
<1>1. PICK x \in G!Rows :
        /\ legacy' = [legacy EXCEPT ![x] = "gone"]
        /\ past' = [past EXCEPT ![x] = 0]
        /\ copy' = {d \in copy : d.issue # x}
        /\ orphaned' = orphaned \ {x}
        /\ UNCHANGED <<setting, channel, job>>
  BY DEF G!DeleteEmail
<1>2. x \in Issues /\ ImportTypes /\ OneCopy
  BY ImportParts DEF G!Rows
<1>3. IssuesStand /\ legacy' \in [Issues -> Engines \cup {None, "gone"}]
  BY <1>1, <1>2 DEF IssuesStand, ImportTypes
<1>4. IdsStand /\ G!Alive' = G!Alive
  BY <1>1, SameChannels
<1>5. DOMAIN job' = Tabs /\ \A q \in Tabs : HasRead(q)'
  BY <1>1, <1>3, <1>4, SameJobs
<1>6. ImportTypes'
  BY <1>1, <1>2, <1>3, <1>5 DEF ImportTypes
<1>7. OneCopy'
  <2>1. \A y \in Issues \ orphaned' : past'[y] = IF G!Imported(y)' THEN 1 ELSE 0
    <3> TAKE y \in Issues \ orphaned'
    <3>1. CASE y = x
      BY <1>1, <1>2, <3>1 DEF G!Imported, ImportTypes
    <3>2. CASE y # x
      <4>1. y \notin orphaned /\ past'[y] = past[y] /\ (G!Imported(y)' <=> G!Imported(y))
        BY <1>1, <1>2, <3>2 DEF G!Imported, ImportTypes
      <4> QED BY <1>2, <4>1 DEF OneCopy
    <3> QED BY <3>1, <3>2
  <2> QED BY <1>1, <1>2, <1>4, <2>1 DEF OneCopy
<1> QED BY <1>5, <1>6, <1>7 DEF ImportInv

LEMMA KeepSubscribe ==
  ASSUME ImportInv, G!Subscribe
  PROVE  ImportInv'
<1>1. PICK t \in G!Supported, filled \in BOOLEAN :
        /\ channel' = Append(channel, [target |-> t, name |-> "own", on |-> TRUE,
                                       config |-> <<"own", None>>,
                                       filled |-> filled, alive |-> TRUE])
        /\ UNCHANGED <<setting, legacy, past, copy, job, orphaned>>
  BY DEF G!Subscribe
<1> DEFINE c == [target |-> t, name |-> "own", on |-> TRUE, config |-> <<"own", None>>,
                 filled |-> filled, alive |-> TRUE]
<1>2. c \in Channels /\ c.alive
  BY DEF Channels, Configs
<1>3. channel \in Seq(Channels) /\ channel' = Append(channel, c)
  BY <1>1, ImportParts DEF ImportTypes
<1> HIDE DEF c
<1>4. /\ <<c>> \in Seq(Channels) /\ channel' = channel \o <<c>>
      /\ \A n \in DOMAIN <<c>> : <<c>>[n].alive
  BY <1>2, <1>3, AppendIsConcat
<1>5. IdsStand /\ G!Alive \subseteq G!Alive'
  BY <1>3, <1>4, ChannelsAdded
<1>6. IssuesStand
  BY <1>1, SameIssues
<1>7. DOMAIN job' = Tabs /\ \A q \in Tabs : HasRead(q)'
  BY <1>1, <1>5, <1>6, SameJobs
<1>8. ImportTypes'
  BY <1>1, <1>5, <1>7 DEF ImportInv, ImportTypes, IdsStand
<1>9. OneCopy'
  BY <1>1, <1>5, CopiesStand DEF ImportInv
<1> QED BY <1>7, <1>8, <1>9 DEF ImportInv

LEMMA KeepEditChannel ==
  ASSUME ImportInv, G!EditChannel
  PROVE  ImportInv'
<1>1. PICK i \in G!Alive, on \in BOOLEAN, t \in G!Supported, n \in {"own", "legacy"} :
        /\ channel' = [channel EXCEPT ![i] = [channel[i] EXCEPT
                         !.on = on, !.config = <<"own", None>>, !.target = t, !.name = n]]
        /\ UNCHANGED <<setting, legacy, past, copy, job, orphaned>>
  BY DEF G!EditChannel
<1> DEFINE c == [channel[i] EXCEPT !.on = on, !.config = <<"own", None>>,
                                   !.target = t, !.name = n]
<1>2. c \in Channels /\ c.alive
  <2>1. channel[i] \in Channels /\ channel[i].alive
    BY ImportParts DEF G!Alive
  <2>2. <<"own", None>> \in Configs
    BY DEF Configs
  <2> QED BY <2>1, <2>2 DEF Channels
<1>3. channel' = [channel EXCEPT ![i] = c]
  BY <1>1
<1> HIDE DEF c
<1>4. IdsStand /\ G!Alive' = G!Alive
  BY <1>2, <1>3, ChannelWritten
<1>5. IssuesStand
  BY <1>1, SameIssues
<1>6. DOMAIN job' = Tabs /\ \A q \in Tabs : HasRead(q)'
  BY <1>1, <1>4, <1>5, SameJobs
<1>7. ImportTypes'
  BY <1>1, <1>4, <1>6 DEF ImportInv, ImportTypes, IdsStand
<1>8. OneCopy'
  BY <1>1, <1>4, CopiesStand DEF ImportInv
<1> QED BY <1>6, <1>7, <1>8 DEF ImportInv

(* The copies of a channel go with it, and nothing more is known of their    *)
(* events.                                                                   *)
LEMMA KeepDeleteChannel ==
  ASSUME ImportInv, G!DeleteChannel
  PROVE  ImportInv'
<1>1. PICK i \in G!Alive :
        /\ channel' = [channel EXCEPT ![i].alive = FALSE]
        /\ copy' = copy \ {d \in copy : d.channel = i}
        /\ orphaned' = orphaned \cup {d.issue : d \in {d \in copy : d.channel = i}}
        /\ UNCHANGED <<setting, legacy, past, job>>
  BY DEF G!DeleteChannel
<1> DEFINE c == [channel[i] EXCEPT !.alive = FALSE]
<1>2. c \in Channels /\ ~c.alive
  <2>1. channel[i] \in Channels
    BY ImportParts DEF G!Alive
  <2> QED BY <2>1 DEF Channels
<1>3. channel' = [channel EXCEPT ![i] = c]
  BY <1>1
<1> HIDE DEF c
<1>4. IdsStand /\ G!Alive' = G!Alive \ {i}
  BY <1>2, <1>3, ChannelWritten
<1>5. IssuesStand
  BY <1>1, SameIssues
<1>6. DOMAIN job' = Tabs /\ \A q \in Tabs : HasRead(q)'
  BY <1>1, <1>4, <1>5, SameJobs
<1>7. ImportTypes'
  BY <1>1, <1>4, <1>6 DEF ImportInv, ImportTypes, IdsStand
<1>8. OneCopy'
  <2>1. OneCopy
    BY ImportParts
  <2>2. \A x \in Issues \ orphaned' : x \notin orphaned /\ (G!Imported(x)' <=> G!Imported(x))
    BY <1>1 DEF G!Imported
  <2>3. \A x \in Issues \ orphaned' : past'[x] = IF G!Imported(x)' THEN 1 ELSE 0
    BY <1>1, <2>1, <2>2 DEF OneCopy
  <2> QED BY <1>1, <1>4, <2>1, <2>3 DEF OneCopy
<1> QED BY <1>6, <1>7, <1>8 DEF ImportInv
-----------------------------------------------------------------------------
(* The writes of the imports *)

LEMMA PayloadsFit ==
  ASSUME NEW s \in [G!Keys -> EngineSettings \cup {None}]
  PROVE  /\ IsFiniteSet(G!Payloads(s))
         /\ \A q \in G!Payloads(s) : q \in Channels /\ q.alive
<1> DEFINE keys == IF s["issue"] # None THEN {"issue"} ELSE {k \in G!Supported : s[k] # None}
           of(k) == G!Payload(k, s[k])
<1>1. keys \subseteq {"issue", "jira", "feishu"} /\ keys \subseteq G!Keys
      /\ \A k \in keys : s[k] # None
  BY DEF G!Supported, G!Keys
<1>2. G!Payloads(s) = {q \in {of(k) : k \in keys} : q.target \in G!Supported}
  BY DEF G!Payloads
<1>3. G!Payloads(s) \subseteq {of("issue"), of("jira"), of("feishu")}
  <2> SUFFICES ASSUME NEW k \in keys PROVE of(k) \in {of("issue"), of("jira"), of("feishu")}
    BY <1>2
  <2>1. k \in {"issue", "jira", "feishu"}
    BY <1>1
  <2> QED BY <2>1
<1>4. \A k \in keys : of(k).target \in G!Supported => of(k) \in Channels /\ of(k).alive
  <2> SUFFICES ASSUME NEW k \in keys, of(k).target \in G!Supported
               PROVE  of(k) \in Channels /\ of(k).alive
    OBVIOUS
  <2>1. k \in G!Keys /\ s[k] \in EngineSettings
    BY <1>1
  <2>2. s[k].on \in BOOLEAN /\ <<k, s[k]>> \in Configs
    BY <2>1 DEF EngineSettings, Configs
  <2> QED BY <2>2 DEF G!Payload, Channels
<1> HIDE DEF of, keys
<1>5. IsFiniteSet({of("issue"), of("jira"), of("feishu")})
  BY TwoThree
<1>6. IsFiniteSet(G!Payloads(s))
  BY <1>3, <1>5, FS_Subset
<1> QED BY <1>2, <1>4, <1>6

LEMMA KeepWriteChannels ==
  ASSUME ImportInv, NEW p \in Tabs, G!WriteChannels(p)
  PROVE  ImportInv'
<1> DEFINE ps == G!Payloads(job[p].set)
           fits(i) == {q \in ps : G!Matches(i, q)}
           old == [i \in DOMAIN channel |->
                    IF fits(i) = {} THEN channel[i]
                    ELSE LET q == CHOOSE q \in fits(i) : TRUE
                         IN [channel[i] EXCEPT !.on = q.on, !.config = q.config, !.filled = TRUE]]
           added == {q \in ps : \A i \in DOMAIN channel : ~G!Matches(i, q)}
           new == G!SetToSeq(added)
<1>1. /\ job[p].pc = "channels" /\ channel' = old \o new /\ G!Ends(p)
      /\ UNCHANGED <<setting, legacy, past, copy, orphaned>>
  BY DEF G!WriteChannels
<1>2. job[p].set \in [G!Keys -> EngineSettings \cup {None}]
  BY <1>1, ImportParts DEF HasRead
<1>3. IsFiniteSet(ps) /\ \A q \in ps : q \in Channels /\ q.alive
  BY <1>2, PayloadsFit
<1> HIDE DEF ps
<1>4. added \in SUBSET {q \in Channels : q.alive} /\ IsFiniteSet(added) /\ added \in SUBSET Channels
  BY <1>3, FS_Subset
<1>5. new \in Seq(Channels) /\ \A n \in DOMAIN new : new[n].alive
  <2>1. new \in Seq(Channels) /\ new \in Seq({q \in Channels : q.alive})
    <3> HIDE DEF added
    <3> QED BY <1>4, SetAsSeq
  <2> HIDE DEF new
  <2>2. \A n \in DOMAIN new : new[n] \in {q \in Channels : q.alive}
    BY <2>1, ElementOfSeq
  <2> QED BY <2>1, <2>2
<1>6. \A i \in DOMAIN channel : old[i] \in Channels /\ old[i].alive = channel[i].alive
  <2> SUFFICES ASSUME NEW i \in DOMAIN channel
               PROVE  old[i] \in Channels /\ old[i].alive = channel[i].alive
    OBVIOUS
  <2>1. channel[i] \in Channels
    BY ImportParts
  <2>2. CASE fits(i) = {}
    BY <2>1, <2>2
  <2>3. CASE fits(i) # {}
    <3> DEFINE q == CHOOSE q \in fits(i) : TRUE
    <3>1. q \in ps
      BY <2>3
    <3>2. q \in Channels
      BY <1>3, <3>1
    <3>3. old[i] = [channel[i] EXCEPT !.on = q.on, !.config = q.config, !.filled = TRUE]
      BY <2>3
    <3> HIDE DEF q, old
    <3>4. q.on \in BOOLEAN /\ q.config \in Configs
      BY <3>2 DEF Channels
    <3> QED BY <2>1, <3>3, <3>4 DEF Channels
  <2> QED BY <2>2, <2>3
<1>7. old \in Seq(Channels) /\ Len(old) = Len(channel)
  <2>1. DOMAIN old = 1..Len(channel) /\ Len(channel) \in Nat
    BY ImportParts
  <2>2. old \in [1..Len(channel) -> Channels]
    <3>1. old = [i \in 1..Len(channel) |-> old[i]]
      BY <2>1
    <3> HIDE DEF old
    <3> QED BY <1>6, <2>1, <3>1
  <2> HIDE DEF old
  <2> QED BY <2>1, <2>2
<1> HIDE DEF old, new
<1>8. IdsStand /\ G!Alive \subseteq G!Alive'
  BY <1>1, <1>5, <1>6, <1>7, ChannelsAdded
<1>9. IssuesStand
  BY <1>1, SameIssues
<1>10. DOMAIN job' = Tabs /\ \A q \in Tabs : HasRead(q)'
  BY <1>1, <1>8, <1>9, JobEnds
<1>11. ImportTypes'
  BY <1>1, <1>8, <1>10 DEF ImportInv, ImportTypes, IdsStand
<1>12. OneCopy'
  BY <1>1, <1>8, CopiesStand DEF ImportInv
<1> QED BY <1>10, <1>11, <1>12 DEF ImportInv
(* The import of issues writes one event and one delivery for an issue that  *)
(* has none, to a channel that exists when it does.                          *)
LEMMA KeepWriteIssues ==
  ASSUME ImportInv, NEW p \in Tabs, G!WriteIssues(p)
  PROVE  ImportInv'
<1> DEFINE empty(t) == [target |-> t, name |-> "legacy", on |-> TRUE, config |-> <<"empty", None>>,
                       filled |-> TRUE, alive |-> TRUE]
           added == {empty(t) : t \in G!Missing(p)}
           new == G!SetToSeq(added)
           of(x) == IF G!Chosen(p, x) = None
                    THEN Len(channel) + CHOOSE n \in DOMAIN new : new[n].target = legacy[x]
                    ELSE G!Chosen(p, x)
           old == [i \in DOMAIN channel |->
                    IF i \in G!Fills(p) THEN [channel[i] EXCEPT !.filled = TRUE] ELSE channel[i]]
           fresh == G!Fresh(p)
<1>1. /\ job[p].pc = "issues" /\ ~G!Refused(p) /\ G!Ends(p)
      /\ channel' = old \o new
      /\ past' = [x \in Issues |-> IF x \in fresh THEN past[x] + 1 ELSE past[x]]
      /\ copy' = copy \cup {[issue |-> x, channel |-> of(x), by |-> p] : x \in fresh}
      /\ UNCHANGED <<setting, legacy, orphaned>>
  BY DEF G!WriteIssues
<1>2. /\ DOMAIN job[p].rows \subseteq Issues
      /\ \A x \in DOMAIN job[p].rows :
           /\ job[p].rows[x] \in G!Supported
           /\ legacy[x] \in {job[p].rows[x], "gone"}
      /\ \A t \in G!Supported : job[p].chosen[t] \in DOMAIN channel \cup {None}
  BY <1>1, ImportParts DEF HasRead
<1>3. /\ fresh \subseteq DOMAIN job[p].rows
      /\ \A x \in fresh : /\ legacy[x] # "gone" /\ ~G!Imported(x)
                          /\ G!Chosen(p, x) \notin DOMAIN channel \ G!Alive
  BY <1>1 DEF G!Refused, G!Fresh
<1>4. \A x \in fresh : x \in Issues /\ legacy[x] = job[p].rows[x] /\ legacy[x] \in G!Supported
                       /\ G!Chosen(p, x) = job[p].chosen[legacy[x]]
  BY <1>2, <1>3 DEF G!Chosen
<1>5. G!Missing(p) \subseteq G!Supported
  <2>1. \A t \in G!Targets(p) : t \in G!Supported
    BY <1>2 DEF G!Targets, G!Range
  <2> QED BY <2>1 DEF G!Missing
<1>6. /\ IsFiniteSet(added)
      /\ \A q \in added : q \in Channels /\ q.alive
  <2>1. added \subseteq {empty("jira"), empty("feishu")}
    BY <1>5 DEF G!Supported
  <2>2. IsFiniteSet({empty("jira"), empty("feishu")})
    <3> HIDE DEF empty
    <3> QED BY TwoThree
  <2>3. \A t \in G!Supported : empty(t) \in Channels /\ empty(t).alive
    BY DEF Channels, Configs
  <2> HIDE DEF empty
  <2>4. IsFiniteSet(added)
    BY <2>1, <2>2, FS_Subset
  <2> QED BY <1>5, <2>3, <2>4
<1>7. \A t \in G!Missing(p) : empty(t) \in added /\ empty(t).target = t
  OBVIOUS
<1> HIDE DEF empty, added
<1>8. /\ new \in Seq(Channels) /\ \A n \in DOMAIN new : new[n].alive
      /\ \A q \in added : \E n \in DOMAIN new : new[n] = q
  <2>1. added \in SUBSET Channels /\ added \in SUBSET {q \in Channels : q.alive}
    BY <1>6
  <2>2. new \in Seq(Channels) /\ new \in Seq({q \in Channels : q.alive})
        /\ \A q \in added : \E n \in DOMAIN new : new[n] = q
    BY <1>6, <2>1, SetAsSeq
  <2> HIDE DEF new
  <2>3. \A n \in DOMAIN new : new[n] \in {q \in Channels : q.alive}
    BY <2>2, ElementOfSeq
  <2> QED BY <2>2, <2>3
<1>9. old \in Seq(Channels) /\ Len(old) = Len(channel)
      /\ \A i \in DOMAIN channel : old[i].alive = channel[i].alive
  <2>1. DOMAIN old = 1..Len(channel) /\ Len(channel) \in Nat /\ DOMAIN channel = 1..Len(channel)
    BY ImportParts
  <2>2. \A i \in DOMAIN channel : old[i] \in Channels /\ old[i].alive = channel[i].alive
    BY ImportParts DEF Channels
  <2>3. old \in [1..Len(channel) -> Channels]
    <3>1. old = [i \in 1..Len(channel) |-> old[i]]
      BY <2>1
    <3> HIDE DEF old
    <3> QED BY <2>1, <2>2, <3>1
  <2> HIDE DEF old
  <2> QED BY <2>1, <2>2, <2>3
<1> HIDE DEF old
<1>10. IdsStand /\ G!Alive' = G!Alive \cup {Len(channel) + n : n \in DOMAIN new}
  <2> HIDE DEF new
  <2> QED BY <1>1, <1>8, <1>9, ChannelsAdded
<1>11. \A x \in fresh : of(x) \in G!Alive'
  <2> SUFFICES ASSUME NEW x \in fresh PROVE of(x) \in G!Alive'
    OBVIOUS
  <2> HIDE DEF new
  <2>1. legacy[x] \in G!Supported /\ G!Chosen(p, x) = job[p].chosen[legacy[x]]
    BY <1>4
  <2>2. CASE G!Chosen(p, x) = None
    <3>1. legacy[x] \in G!Missing(p)
      BY <1>3, <1>4, <2>1, <2>2 DEF G!Missing, G!Targets, G!Range
    <3>2. \E n \in DOMAIN new : new[n].target = legacy[x]
      BY <1>7, <1>8, <3>1
    <3>3. (CHOOSE n \in DOMAIN new : new[n].target = legacy[x]) \in DOMAIN new
      BY <3>2
    <3>4. of(x) = Len(channel) + CHOOSE n \in DOMAIN new : new[n].target = legacy[x]
      BY <2>2
    <3> HIDE DEF of
    <3> QED BY <1>10, <3>3, <3>4
  <2>3. CASE G!Chosen(p, x) # None
    <3>1. G!Chosen(p, x) \in G!Alive
      BY <1>2, <1>3, <2>1, <2>3
    <3> QED BY <1>10, <2>3, <3>1
  <2> QED BY <2>2, <2>3
<1> HIDE DEF new, of
<1>12. \A x \in fresh : of(x) \in Nat
  BY <1>10, <1>11 DEF IdsStand, G!Alive
<1> HIDE DEF fresh
<1>13. IssuesStand
  BY <1>1, SameIssues
<1>14. DOMAIN job' = Tabs /\ \A q \in Tabs : HasRead(q)'
  BY <1>1, <1>10, <1>13, JobEnds
<1>15. ImportTypes'
  <2>1. copy' \subseteq [issue : Issues, channel : Nat, by : Tabs]
    BY <1>1, <1>4, <1>12 DEF ImportInv, ImportTypes
  <2>2. past' \in [Issues -> Nat]
    BY <1>1 DEF ImportInv, ImportTypes
  <2> QED BY <1>1, <1>10, <1>14, <2>1, <2>2 DEF ImportInv, ImportTypes, IdsStand
<1>16. OneCopy'
  <2>1. OneCopy /\ past \in [Issues -> Nat]
    BY ImportParts DEF ImportTypes
  <2>2. \A d \in copy' :
          \/ d \in copy
          \/ d.issue \in fresh /\ d = [issue |-> d.issue, channel |-> of(d.issue), by |-> p]
    <3> TAKE d \in copy'
    <3>1. CASE d \notin copy
      <4>1. PICK x \in fresh : d = [issue |-> x, channel |-> of(x), by |-> p]
        BY <1>1, <3>1
      <4>2. d.issue = x
        BY <4>1
      <4> QED BY <4>1, <4>2
    <3> QED BY <3>1
  <2>3. \A d, e \in copy' : d.issue = e.issue => d = e
    BY <1>3, <2>1, <2>2 DEF OneCopy, G!Imported
  <2>4. \A d \in copy' : d.channel \in G!Alive'
    BY <1>10, <1>11, <2>1, <2>2 DEF OneCopy
  <2>5. \A x \in Issues \ orphaned' : past'[x] = IF G!Imported(x)' THEN 1 ELSE 0
    <3> TAKE x \in Issues \ orphaned'
    <3>1. CASE x \in fresh
      <4>1. past[x] = 0 /\ past'[x] = past[x] + 1
        BY <1>1, <1>3, <2>1, <3>1 DEF OneCopy
      <4>2. G!Imported(x)'
        <5>1. [issue |-> x, channel |-> of(x), by |-> p] \in copy'
          BY <1>1, <3>1
        <5> QED BY <5>1 DEF G!Imported
      <4> QED BY <4>1, <4>2
    <3>2. CASE x \notin fresh
      <4>1. G!Imported(x)' <=> G!Imported(x)
        BY <1>1, <2>2, <3>2 DEF G!Imported
      <4> QED BY <1>1, <2>1, <3>2, <4>1 DEF OneCopy
    <3> QED BY <3>1, <3>2
  <2> QED BY <2>3, <2>4, <2>5 DEF OneCopy
<1> QED BY <1>14, <1>15, <1>16 DEF ImportInv
-----------------------------------------------------------------------------
(* Theorems *)

LEMMA ImportStarts == G!Init => ImportInv
<1> SUFFICES ASSUME G!Init PROVE ImportInv
  OBVIOUS
<1>1. ImportTypes
  BY EmptySeq DEF G!Init, ImportTypes
<1>2. \A p \in Tabs : HasRead(p)
  BY DEF G!Init, G!Idle, HasRead
<1>3. OneCopy
  BY DEF G!Init, OneCopy, G!Imported
<1> QED BY <1>1, <1>2, <1>3 DEF ImportInv

LEMMA ImportStep == ImportInv /\ [G!Next]_(G!vars) => ImportInv'
<1> SUFFICES ASSUME ImportInv, [G!Next]_(G!vars) PROVE ImportInv'
  OBVIOUS
<1>1. ASSUME NEW p \in Tabs, G!ReadSettings(p) \/ G!ReadIssues(p) \/ G!Crash(p)
      PROVE  ImportInv'
  BY <1>1, KeepReadSettings, KeepReadIssues, KeepEnd
<1>2. ASSUME NEW p \in Tabs, G!WriteChannels(p) \/ G!WriteIssues(p) \/ G!RefuseIssues(p)
      PROVE  ImportInv'
  BY <1>2, KeepWriteChannels, KeepWriteIssues, KeepEnd
<1>3. CASE G!Expire \/ G!SetSetting \/ G!WriteIssue \/ UNCHANGED G!vars
  BY <1>3, KeepQuiet
<1>4. CASE G!DeleteEmail \/ G!Subscribe \/ G!EditChannel \/ G!DeleteChannel
  BY <1>4, KeepDeleteEmail, KeepSubscribe, KeepEditChannel, KeepDeleteChannel
<1> QED BY <1>1, <1>2, <1>3, <1>4 DEF G!Next, G!Importing

LEMMA ImportedOnce == ImportInv => HistoryOnce
<1> SUFFICES ASSUME ImportInv, NEW x \in Issues
             PROVE  LET mine == {d \in copy : d.issue = x} IN
                    /\ G!Cardinality(mine) <= 1
                    /\ x \notin orphaned => past[x] = G!Cardinality(mine)
                    /\ \A d \in mine : d.channel \in G!Alive
  BY DEF HistoryOnce, G!HistoryOnce
<1> DEFINE mine == {d \in copy : d.issue = x}
<1>1. OneCopy
  BY ImportParts
<1>2. mine = {} \/ \E d \in mine : mine = {d}
  BY <1>1 DEF OneCopy
<1>3. G!Imported(x) <=> mine # {}
  BY DEF G!Imported
<1>4. \A d \in mine : d.channel \in G!Alive
  BY <1>1 DEF OneCopy
<1>5. x \notin orphaned => past[x] = IF mine = {} THEN 0 ELSE 1
  BY <1>1, <1>3 DEF OneCopy
<1>6. G!Cardinality(mine) = Cardinality(mine)
  BY DEF G!Cardinality, Cardinality
<1> HIDE DEF mine
<1>7. Cardinality(mine) = IF mine = {} THEN 0 ELSE 1
  BY <1>2, FS_EmptySet, FS_Singleton
<1>8. G!Cardinality(mine) <= 1 /\ (x \notin orphaned => past[x] = G!Cardinality(mine))
  BY <1>5, <1>6, <1>7
<1> QED BY <1>4, <1>8 DEF mine

(* The history of an issue is imported once, whatever imports run at a time, *)
(* crash or are refused, and whatever the user does meanwhile: an issue has  *)
(* one delivery at most, to a channel that exists, and one event with it     *)
(* unless its delivery went with its channel (sync_legacy_issues_for_user).  *)
THEOREM ImportOnce == G!Spec => []HistoryOnce
<1>1. G!Init => ImportInv
  BY ImportStarts
<1>2. ImportInv /\ [G!Next]_(G!vars) => ImportInv'
  BY ImportStep
<1>3. ImportInv => HistoryOnce
  BY ImportedOnce
<1> QED BY <1>1, <1>2, <1>3, PTL DEF G!Spec
=============================================================================
