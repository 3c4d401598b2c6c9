----------------------------- MODULE LegacyImport ------------------------------
(***************************************************************************)
(* The import of one user's old delivery settings and issues into Relay:   *)
(* channels from the settings (legacy_sync, at each start of a worker or   *)
(* by command) and history from the Issue rows (legacy_issue_sync, by      *)
(* command).  Imports over all users take a lock, imports of one user do   *)
(* not; meanwhile the user edits settings and channels.                    *)
(***************************************************************************)
EXTENDS Integers, FiniteSets, SequencesExt

CONSTANTS Imports,      \* processes that import
          Issues,       \* Issue rows that may be written
          Engines,      \* engines an issue or a setting may name
          Scenes,       \* bounds: what happens, and how often
          None

VARIABLES setting,      \* Settings, by key
          issue,        \* Issue row: its engine, or None, or "gone"
          channel,      \* RelaySubscription, by id
          event,        \* number of imported RelayEvents of an issue
          delivery,     \* imported RelayDeliveries
          job, lock,
          orphaned,     \* history: issues whose delivery went with its channel
          budget

vars == <<setting, issue, channel, event, delivery, job, lock, orphaned, budget>>

(* LEGACY_SUBSCRIPTION_NAMES *)
Supported == {"jira", "feishu"}
Keys == {"issue"} \cup Supported

Idle == [pc |-> "idle", set |-> None, rows |-> <<>>, chosen |-> None, known |-> {}]

Init ==
  /\ setting = [k \in Keys |-> None]
  /\ issue = [x \in Issues |-> None]
  /\ channel = <<>>
  /\ event = [x \in Issues |-> 0]
  /\ delivery = {}
  /\ job = [p \in Imports |-> Idle]
  /\ lock = [k \in {"channels", "issues"} |-> None]
  /\ orphaned = {}
  /\ budget \in Scenes

Spend(k) ==
  /\ k \in DOMAIN budget
  /\ budget[k] > 0
  /\ budget' = [budget EXCEPT ![k] = @ - 1]

Alive == {i \in DOMAIN channel : channel[i].alive}
Taken(target, name) ==
  \E i \in Alive : channel[i].target = target /\ channel[i].name = name
Rows == {x \in Issues : issue[x] \in Engines}

(* Mutant of Imported: an issue is never found imported. *)
NeverImported(x) == FALSE
(* RelayDelivery.idempotency_key is unique. *)
Imported(x) == \E d \in delivery : d.issue = x
-----------------------------------------------------------------------------
(* The import of channels *)

(* _build_subscription_payload: the setting of all engines names one; the    *)
(* settings of one engine are always enabled.                                *)
Payload(k, s) ==
  [target |-> s.engine, name |-> "legacy", on |-> s.on, config |-> <<k, s>>,
   filled |-> TRUE, alive |-> TRUE]

(* issue_config hides the settings of one engine. *)
Payloads(set) ==
  LET keys == IF set["issue"] # None THEN {"issue"} ELSE {k \in Supported : set[k] # None}
  IN {q \in {Payload(k, set[k]) : k \in keys} : q.target \in Supported}

(* An import over all users holds the lock of its kind while it runs. *)
Takes(p, kind) == lock[kind] = None /\ lock' = [lock EXCEPT ![kind] = p]

Start(p, kind, record) ==
  /\ job[p].pc = "idle"
  /\ Spend(kind)
  /\ job' = [job EXCEPT ![p] = record]
  /\ Takes(p, kind) \/ UNCHANGED lock
  /\ UNCHANGED <<setting, issue, channel, event, delivery, orphaned>>

Ends(p) ==
  /\ job' = [job EXCEPT ![p] = Idle]
  /\ lock' = [k \in DOMAIN lock |-> IF lock[k] = p THEN None ELSE lock[k]]

ReadSettings(p) ==
  /\ \E k \in Keys : setting[k] # None
  /\ Start(p, "channels", [Idle EXCEPT !.pc = "channels", !.set = setting])

(* update_or_create: the channel is found by its user, target and name. *)
Matches(i, q) == i \in Alive /\ channel[i].target = q.target /\ channel[i].name = q.name

WriteChannels(p) ==
  LET ps == Payloads(job[p].set)
      fits(i) == {q \in ps : Matches(i, q)} IN
  /\ job[p].pc = "channels"
  /\ channel' = [i \in DOMAIN channel |->
                  IF fits(i) = {} THEN channel[i]
                  ELSE LET q == CHOOSE q \in fits(i) : TRUE
                       IN [channel[i] EXCEPT !.on = q.on, !.config = q.config, !.filled = TRUE]]
                \o SetToSeq({q \in ps : \A i \in DOMAIN channel : ~Matches(i, q)})
  /\ Ends(p)
  /\ UNCHANGED <<setting, issue, event, delivery, orphaned, budget>>
-----------------------------------------------------------------------------
(* The import of issues *)

(* _legacy_subscription_for_issue: the user's oldest channel of the target. *)
Oldest(t) ==
  LET found == {i \in Alive : channel[i].target = t} IN
  IF found = {} THEN None ELSE CHOOSE i \in found : \A j \in found : i <= j

ReadIssues(p) ==
  /\ Rows # {}
  /\ Start(p, "issues",
       [Idle EXCEPT !.pc = "issues",
                    !.rows = [x \in {x \in Rows : issue[x] \in Supported} |-> issue[x]],
                    !.chosen = [t \in Supported |-> Oldest(t)],
                    !.known = {x \in Rows : Imported(x)}])

Targets(p) == Range(job[p].rows)
Fresh(p) == DOMAIN job[p].rows \ job[p].known
Chosen(p, x) == job[p].chosen[job[p].rows[x]]
Missing(p) == {t \in Targets(p) : job[p].chosen[t] = None}
Fills(p) == {i \in DOMAIN channel :
               ~channel[i].filled /\ \E t \in Targets(p) : job[p].chosen[t] = i}

(* What ends the transaction of the import: a row it needs is gone, or       *)
(* another import has made what it is about to make.                         *)
Refused(p) ==
  \/ \E x \in Fresh(p) : issue[x] = "gone" \/ Imported(x)
  \/ \E t \in Missing(p) : Taken(t, "legacy")
  \/ \E i \in Fills(p) : i \notin Alive
  \/ \E x \in Fresh(p) : Chosen(p, x) \in DOMAIN channel \ Alive

WriteIssues(p) ==
  LET new == SetToSeq({[target |-> t, name |-> "legacy", on |-> TRUE, config |-> <<"empty", None>>,
                        filled |-> TRUE, alive |-> TRUE] : t \in Missing(p)})
      of(x) == IF Chosen(p, x) = None
               THEN Len(channel) + CHOOSE n \in DOMAIN new : new[n].target = issue[x]
               ELSE Chosen(p, x) IN
  /\ job[p].pc = "issues"
  /\ ~Refused(p)
  /\ channel' = [i \in DOMAIN channel |->
                  IF i \in Fills(p) THEN [channel[i] EXCEPT !.filled = TRUE] ELSE channel[i]] \o new
  /\ event' = [x \in Issues |-> IF x \in Fresh(p) THEN event[x] + 1 ELSE event[x]]
  /\ delivery' = delivery \cup {[issue |-> x, channel |-> of(x), by |-> p] : x \in Fresh(p)}
  /\ Ends(p)
  /\ UNCHANGED <<setting, issue, orphaned, budget>>

(* The transaction is rolled back as a whole. *)
RefuseIssues(p) ==
  /\ job[p].pc = "issues"
  /\ Refused(p)
  /\ Ends(p)
  /\ UNCHANGED <<setting, issue, channel, event, delivery, orphaned, budget>>

(* A crash rolls back too, and leaves the lock for as long as it lasts. *)
Crash(p) ==
  /\ job[p].pc \in {"channels", "issues"}
  /\ Spend("crash")
  /\ job' = [job EXCEPT ![p] = [Idle EXCEPT !.pc = "dead"]]
  /\ UNCHANGED <<setting, issue, channel, event, delivery, lock, orphaned>>

Expire ==
  /\ \E k \in DOMAIN lock :
       /\ lock[k] # None /\ job[lock[k]].pc = "dead"
       /\ lock' = [lock EXCEPT ![k] = None]
  /\ UNCHANGED <<setting, issue, channel, event, delivery, job, orphaned, budget>>
-----------------------------------------------------------------------------
(* The user *)

Fits(k, s) == k = "issue" \/ s = [engine |-> k, on |-> TRUE]
SetSetting ==
  /\ Spend("set")
  /\ \E k \in Keys : \E s \in [engine : Engines, on : BOOLEAN] \cup {None} :
       /\ s # None => Fits(k, s)
       /\ setting' = [setting EXCEPT ![k] = s]
  /\ UNCHANGED <<issue, channel, event, delivery, job, lock, orphaned>>

WriteIssue ==
  /\ Spend("issue")
  /\ \E x \in Issues, e \in Engines : issue[x] = None /\ issue' = [issue EXCEPT ![x] = e]
  /\ UNCHANGED <<setting, channel, event, delivery, job, lock, orphaned>>

(* With the email go the issue, its event and its delivery. *)
DeleteEmail ==
  /\ Spend("delete")
  /\ \E x \in Rows :
       /\ issue' = [issue EXCEPT ![x] = "gone"]
       /\ event' = [event EXCEPT ![x] = 0]
       /\ delivery' = {d \in delivery : d.issue # x}
       /\ orphaned' = orphaned \ {x}
  /\ UNCHANGED <<setting, channel, job, lock>>

Subscribe ==
  /\ Spend("subscribe")
  /\ \E t \in Supported, filled \in BOOLEAN :
       /\ ~Taken(t, "own")
       /\ channel' = Append(channel, [target |-> t, name |-> "own", on |-> TRUE,
                                      config |-> <<"own", None>>,
                                      filled |-> filled, alive |-> TRUE])
  /\ UNCHANGED <<setting, issue, event, delivery, job, lock, orphaned>>

(* The user may configure, disable, rename or retarget a channel. *)
EditChannel ==
  /\ Spend("edit")
  /\ \E i \in Alive, on \in BOOLEAN, t \in Supported, n \in {"own", "legacy"} :
       LET c == [channel[i] EXCEPT !.on = on, !.config = <<"own", None>>,
                                   !.target = t, !.name = n] IN
       /\ c # channel[i]
       /\ <<t, n>> # <<channel[i].target, channel[i].name>> => ~Taken(t, n)
       /\ channel' = [channel EXCEPT ![i] = c]
  /\ UNCHANGED <<setting, issue, event, delivery, job, lock, orphaned>>

(* The deliveries go with the channel, their events stay. *)
DeleteChannel ==
  /\ Spend("drop")
  /\ \E i \in Alive :
       LET gone == {d \in delivery : d.channel = i} IN
       /\ channel' = [channel EXCEPT ![i].alive = FALSE]
       /\ delivery' = delivery \ gone
       /\ orphaned' = orphaned \cup {d.issue : d \in gone}
  /\ UNCHANGED <<setting, issue, event, job, lock>>

Importing ==
  \E p \in Imports : WriteChannels(p) \/ WriteIssues(p) \/ RefuseIssues(p)

Next ==
  \/ \E p \in Imports : ReadSettings(p) \/ ReadIssues(p) \/ Crash(p)
  \/ Importing \/ Expire
  \/ SetSetting \/ WriteIssue \/ DeleteEmail \/ Subscribe \/ EditChannel \/ DeleteChannel

Spec == Init /\ [][Next]_vars
-----------------------------------------------------------------------------
(* Properties *)

(* The history of an issue is imported once, whatever imports run at a time  *)
(* and however often: one delivery, and an event for it, unless the delivery *)
(* went with its channel (sync_legacy_issues_for_user).                      *)
HistoryOnce ==
  \A x \in Issues :
    LET mine == {d \in delivery : d.issue = x} IN
    /\ Cardinality(mine) <= 1
    /\ x \notin orphaned => event[x] = Cardinality(mine)
    /\ \A d \in mine : d.channel \in Alive
=============================================================================
