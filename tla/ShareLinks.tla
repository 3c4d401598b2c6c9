------------------------------ MODULE ShareLinks -------------------------------
(***************************************************************************)
(* The share links of one email: the pages of its owner (composable        *)
(* useThreadlineShare), the requests they send, the visitors, the clock    *)
(* and the cleanup of links that have expired.  A page works on the status *)
(* of its last answer; every request reads the row of a link and writes    *)
(* some columns of it later.  Time is counted in weeks.                    *)
(***************************************************************************)
EXTENDS Integers, FiniteSets, Sequences

CONSTANTS Tabs,         \* pages of the owner
          MaxTime,
          MaxLinks,
          MaxWords,     \* bound: passwords that are ever chosen
          Scenes,       \* bounds: what happens, and how often
          None

VARIABLES now,
          link,         \* ThreadlineShareLink, by id
          words,        \* passwords chosen so far
          tab,          \* page: what it shows, its request and the answer
          visit,        \* the link a visitor has found expired
          sweep,        \* the links the cleanup has found expired
          crossed,      \* history: links renewed after someone found them expired
          budget

vars == <<now, link, words, tab, visit, sweep, crossed, budget>>

ASSUME ShareAssumption == None \notin Tabs

Lasts == [week |-> 1, month |-> 4]
Until(life) == IF life = "forever" THEN None ELSE now + Lasts[life]
Lives == {"week", "month", "forever"}

NoAsk == [kind |-> None, life |-> None, word |-> 0, locked |-> FALSE]
Idle == [pc |-> "idle", status |-> None, ask |-> NoAsk, read |-> None, got |-> None]

Init ==
  /\ now = 0
  /\ link = <<>>
  /\ words = 0
  /\ tab = [t \in Tabs |-> Idle]
  /\ visit = None
  /\ sweep = {}
  /\ crossed = {}
  /\ budget \in Scenes

Spend(k) ==
  /\ k \in DOMAIN budget
  /\ budget[k] > 0
  /\ budget' = [budget EXCEPT ![k] = @ - 1]

(* is_expired, and the filter of the cleanup *)
Expired(i) == link[i].till # None /\ now >= link[i].till
Overdue == {i \in DOMAIN link : link[i].active /\ link[i].till # None /\ link[i].till < now}
Live == {i \in DOMAIN link : link[i].active}

(* ThreadlineShareLinkSerializer: the password is known to the answer of the *)
(* request that has set it, and to no other.                                 *)
StatusOf(i, row, word) ==
  [link |-> i, till |-> row.till, expired |-> row.till # None /\ now >= row.till,
   locked |-> row.word # 0, word |-> word]
-----------------------------------------------------------------------------
(* The pages *)

Asks(t, kind, life, locked, own) ==
  /\ tab[t].pc = "idle"
  /\ Spend("ask")
  /\ own => words < MaxWords
  /\ words' = IF own THEN words + 1 ELSE words
  /\ tab' = [tab EXCEPT ![t].pc = "sent",
                        ![t].ask = [kind |-> kind, life |-> life, locked |-> locked,
                                    word |-> IF own THEN words + 1 ELSE 0]]
  /\ UNCHANGED <<now, link, visit, sweep, crossed>>

(* handleQuickShare copies a link that it takes for valid, or asks for one. *)
QuickShare(t) ==
  /\ tab[t].status # None => tab[t].status.expired
  /\ Asks(t, "post", "month", TRUE, FALSE)

(* handleShareSubmit: the form has a new password each time it is opened. *)
SubmitForm(t) ==
  \E life \in Lives, locked \in BOOLEAN : Asks(t, "post", life, locked, locked)

(* updateShareLink, when only the password changes: the expiry is estimated  *)
(* from the status; a link without one is taken for a link of a week.        *)
CurrentLife(s) ==
  IF s.till = None \/ s.expired \/ s.till - now <= Lasts["week"] THEN "week" ELSE "month"

(* savePassword and createRandomPassword *)
SavePassword(t) ==
  /\ tab[t].status # None
  /\ Asks(t, "post", CurrentLife(tab[t].status), TRUE, TRUE)

RemovePassword(t) ==
  /\ tab[t].status # None
  /\ Asks(t, "post", CurrentLife(tab[t].status), FALSE, FALSE)

(* saveExpiration: "forever" is sent as null; the password is not sent, so   *)
(* that a link with one gets another.                                        *)
SaveExpiration(t) ==
  /\ tab[t].status # None
  /\ \E life \in Lives :
       Asks(t, "post", IF life = "forever" THEN None ELSE life,
            tab[t].status.locked, FALSE)

StopSharing(t) ==
  /\ tab[t].status # None
  /\ Asks(t, "delete", None, FALSE, FALSE)

(* Mutant of Shown: a password the page did not send is not taken over. *)
ShownOfAsk(t) ==
  IF tab[t].got = None \/ tab[t].status = None \/ tab[t].ask.word # 0 THEN tab[t].got
  ELSE [tab[t].got EXCEPT !.word = tab[t].status.word]
(* The answer; when it is lost the page keeps what it shows. *)
Shown(t) == tab[t].got

Receive(t) ==
  /\ tab[t].pc = "done"
  /\ tab' = [tab EXCEPT ![t] = [Idle EXCEPT !.status = Shown(t)]]
  /\ UNCHANGED <<now, link, words, visit, sweep, crossed, budget>>

Keeps(t) == tab' = [tab EXCEPT ![t] = [Idle EXCEPT !.status = tab[t].status]]

LoseAnswer(t) ==
  /\ tab[t].pc = "done"
  /\ Spend("lost")
  /\ Keeps(t)
  /\ link' = [i \in DOMAIN link |->
               IF link[i].by = t THEN [link[i] EXCEPT !.by = None] ELSE link[i]]
  /\ UNCHANGED <<now, words, visit, sweep, crossed>>

(* The page is loaded: get_share_status, the link that is active. *)
Reload(t) ==
  /\ tab[t].pc = "idle"
  /\ Spend("reload")
  /\ tab' = [tab EXCEPT ![t].status =
               IF Live = {} THEN None
               ELSE LET i == CHOOSE j \in Live : TRUE IN StatusOf(i, link[i], 0)]
  /\ UNCHANGED <<now, link, words, visit, sweep, crossed>>
-----------------------------------------------------------------------------
(* The requests of the pages *)

(* ThreadlineShareLinkCreateSerializer: no expiration but null is refused;   *)
(* an active link is looked for.                                             *)
PostRead(t) ==
  /\ tab[t].pc = "sent" /\ tab[t].ask.kind = "post"
  /\ IF tab[t].ask.life = None
     THEN Keeps(t)
     ELSE tab' = [tab EXCEPT ![t].pc = "save",
                             ![t].read = IF Live = {} THEN None ELSE CHOOSE j \in Live : TRUE]
  /\ UNCHANGED <<now, link, words, visit, sweep, crossed, budget>>

(* The password of the request, or one of the server. *)
NewWord(t) ==
  CASE ~tab[t].ask.locked -> 0
    [] tab[t].ask.locked /\ tab[t].ask.word # 0 -> tab[t].ask.word
    [] OTHER -> words + 1

(* Mutant of Refreshed: the whole row is saved. *)
WholeRow(row, till, word, t) == [till |-> till, word |-> word, active |-> TRUE, by |-> t]
(* update_fields leaves is_active alone. *)
Refreshed(row, till, word, t) == [row EXCEPT !.till = till, !.word = word, !.by = t]

Renew(t) ==
  LET i == tab[t].read
      row == Refreshed(link[i], Until(tab[t].ask.life), NewWord(t), t) IN
  /\ tab[t].pc = "save" /\ i # None
  /\ NewWord(t) <= MaxWords
  /\ link' = [link EXCEPT ![i] = row]
  /\ words' = IF NewWord(t) > words THEN NewWord(t) ELSE words
  /\ tab' = [tab EXCEPT ![t].pc = "done", ![t].got = StatusOf(i, row, row.word)]
  /\ crossed' = IF i \in sweep \cup {visit} THEN crossed \cup {i} ELSE crossed
  /\ UNCHANGED <<now, visit, sweep, budget>>

(* Mutant of Single: no constraint. *)
Unconstrained == TRUE
(* unique_active_share_per_email *)
Single == Live = {}

Create(t) ==
  LET row == [till |-> Until(tab[t].ask.life), word |-> NewWord(t), active |-> TRUE, by |-> t]
      i == Len(link) + 1 IN
  /\ tab[t].pc = "save" /\ tab[t].read = None
  /\ i <= MaxLinks /\ NewWord(t) <= MaxWords
  /\ IF Single
     THEN /\ link' = Append(link, row)
          /\ words' = IF row.word > words THEN row.word ELSE words
          /\ tab' = [tab EXCEPT ![t].pc = "done", ![t].got = StatusOf(i, row, row.word)]
     ELSE Keeps(t) /\ UNCHANGED <<link, words>>
  /\ UNCHANGED <<now, visit, sweep, crossed, budget>>

(* ThreadlineShareLinkDetailAPIView.delete, deactivate *)
StopRead(t) ==
  /\ tab[t].pc = "sent" /\ tab[t].ask.kind = "delete"
  /\ tab' = [tab EXCEPT ![t].pc = IF link[tab[t].status.link].active THEN "stop" ELSE "done"]
  /\ UNCHANGED <<now, link, words, visit, sweep, crossed, budget>>

StopWrite(t) ==
  /\ tab[t].pc = "stop"
  /\ link' = [link EXCEPT ![tab[t].status.link].active = FALSE]
  /\ tab' = [tab EXCEPT ![t].pc = "done"]
  /\ UNCHANGED <<now, words, visit, sweep, crossed, budget>>
-----------------------------------------------------------------------------
(* Visitors, the cleanup and the clock *)

(* A visitor with this password: is_valid, and check_password if the link    *)
(* has a password.                                                           *)
Opens(i, word) == link[i].active /\ ~Expired(i) /\ link[i].word \in {0, word}

(* _get_share_link_or_410: an expired link is deactivated by who visits it.  *)
VisitExpired ==
  /\ visit = None
  /\ Spend("visit")
  /\ \E i \in Live : Expired(i) /\ visit' = i
  /\ UNCHANGED <<now, link, words, tab, sweep, crossed>>

VisitRetires ==
  /\ visit # None
  /\ link' = [link EXCEPT ![visit].active = FALSE]
  /\ visit' = None
  /\ crossed' = crossed \ ({visit} \ sweep)
  /\ UNCHANGED <<now, words, tab, sweep, budget>>

(* ShareLinkCleanupManager: the ids of a batch, then an update by id. *)
SweepRead ==
  /\ sweep = {} /\ Overdue # {}
  /\ Spend("sweep")
  /\ sweep' = Overdue
  /\ UNCHANGED <<now, link, words, tab, visit, crossed>>

SweepWrite ==
  /\ sweep # {}
  /\ link' = [i \in DOMAIN link |->
               IF i \in sweep THEN [link[i] EXCEPT !.active = FALSE] ELSE link[i]]
  /\ sweep' = {}
  /\ crossed' = crossed \ (sweep \ {visit})
  /\ UNCHANGED <<now, words, tab, visit, budget>>

Tick ==
  /\ now < MaxTime
  /\ Spend("tick")
  /\ now' = now + 1
  /\ UNCHANGED <<link, words, tab, visit, sweep, crossed>>

OwnerStops == \E t \in Tabs : StopWrite(t)

Next ==
  \/ \E t \in Tabs :
       \/ QuickShare(t) \/ SubmitForm(t) \/ SavePassword(t) \/ RemovePassword(t)
       \/ SaveExpiration(t) \/ StopSharing(t) \/ Reload(t)
       \/ PostRead(t) \/ Renew(t) \/ Create(t) \/ StopRead(t)
       \/ Receive(t) \/ LoseAnswer(t)
  \/ OwnerStops \/ VisitExpired \/ VisitRetires \/ SweepRead \/ SweepWrite \/ Tick

Spec == Init /\ [][Next]_vars
-----------------------------------------------------------------------------
(* Properties *)

(* Two pages that create a link at once both see none: there is still at     *)
(* most one active link, the only one a page can stop                        *)
(* (ThreadlineShareLinkCreateSerializer.create).                             *)
OneLiveLink == Cardinality(Live) <= 1

(* A link that was stopped or has expired never works again, though pages    *)
(* refresh links they read earlier; and a link ends only when its owner      *)
(* stops it or after its expiry - unless it was renewed after a visitor or   *)
(* the cleanup had found it expired.                                         *)
LinksEndForGood ==
  [][ \A i \in DOMAIN link :
        /\ ~link[i].active => ~link'[i].active
        /\ link[i].active /\ ~link'[i].active =>
             OwnerStops \/ i \in crossed \/ (link[i].till # None /\ link[i].till <= now) ]_vars

(* The password a page shows opens a link that still works, when that page   *)
(* was the last to change the link and got the answer - though some requests *)
(* carry a password, some let the server choose and some remove it           *)
(* (updateShareLink).                                                        *)
ShownPasswordOpens ==
  \A t \in Tabs :
    LET s == tab[t].status IN
    (tab[t].pc = "idle" /\ s # None)
      => (link[s.link].by = t /\ s.word # 0 =>
            s.locked /\ (s.link \in Live /\ ~Expired(s.link) => Opens(s.link, s.word)))
=============================================================================
