----------------------------- MODULE IssueDrivers -----------------------------
(***************************************************************************)
(* What a delivery does inside (relay/services/adapters.py and the         *)
(* handlers it drives): the artifact is localized, an issue of Jira, a     *)
(* record of Feishu or an issue of GitHub is written with the images its   *)
(* text refers to, and the delivery remembers where.  Relay says when a    *)
(* delivery happens and with which plan; here it has one delivery and its  *)
(* retries, and what later deliveries of the same email leave behind.      *)
(* Links between issues, and the cut of long texts, are left out.          *)
(***************************************************************************)
EXTENDS Integers, FiniteSets

CONSTANTS File,           \* the attachments: names, size, content
          Components,     \* of the project in Jira
          DefaultComponent,
          Places,         \* servers or repositories a subscription may name
          MaxIssues,
          Deliveries,     \* the cases: a target, an artifact, what may happen
          None

VARIABLES case,           \* what is delivered, and to which kind of target
          place,          \* the server or repository in the configuration
          issues,         \* what the servers hold
          given,          \* numbers given so far
          delivery,       \* the row
          others,         \* the email's other deliveries: the last, and all places
          work,           \* the adapter at work
          written,        \* artifacts this delivery has written
          budget

vars == <<case, place, issues, given, delivery, others, work, written, budget>>

Files == DOMAIN File
Stored == {File[f].safe : f \in Files}
Numbers == 1..MaxIssues
Artifacts == [translated : BOOLEAN, marks : SUBSET Stored]

ASSUME DriversAssumption ==
  /\ MaxIssues \in Nat /\ Places \subseteq Numbers /\ 1 \in Places
  /\ None \notin Numbers /\ None \notin Artifacts
  /\ \A c \in Deliveries :
       /\ c.target \in {"jira", "feishu_bitable", "github_issue"}
       /\ c.marks \subseteq Stored
       /\ c.files \subseteq Files /\ IsFiniteSet(c.files)

(* An issue is own if this system made it, shows the images its text refers  *)
(* to and holds files, each attached or linked so many times.                *)
Nothing == [s \in Stored |-> 0]

Idle == [pc |-> "idle", plan |-> None, how |-> None, at |-> None,
         number |-> None, artifact |-> None, component |-> None,
         allowed |-> {}, left |-> {}, lost |-> {}]

(* The record ids of Feishu differ everywhere; the others count by place.    *)
FirstNumber(c, p) == IF c.target = "feishu_bitable" THEN p ELSE 1

(* The email may have been delivered before, with issue 1 of the place.  The *)
(* first issue of every other place is somebody else's.                      *)
Init ==
  /\ case \in Deliveries
  /\ place = 1
  /\ issues = [p \in Places |-> [n \in Numbers |->
       IF n = FirstNumber(case, p) THEN [own |-> p = 1, shows |-> {}, holds |-> Nothing]
       ELSE None]]
  /\ given = [p \in Places |-> FirstNumber(case, p)]
  /\ delivery = [status |-> "PENDING", external |-> None, at |-> None,
                 keys |-> {}, cache |-> None]
  /\ others \in {[number |-> None, at |-> None, all |-> {}],
                 [number |-> 1, at |-> 1, all |-> {1}]}
  /\ work = Idle
  /\ written = {}
  /\ budget = case.budget
-----------------------------------------------------------------------------
Spend(k) ==
  /\ k \in DOMAIN budget
  /\ budget[k] > 0
  /\ budget' = [budget EXCEPT ![k] = @ - 1]

Goto(pc) == work' = [work EXCEPT !.pc = pc]
Known == delivery.external # None /\ issues[work.at][delivery.external] # None

NewNumber(at) ==
  1 + IF case.target = "feishu_bitable"
      THEN CHOOSE n \in Numbers : /\ \E p \in Places : given[p] = n
                                  /\ \A p \in Places : given[p] <= n
      ELSE given[at]

(* Any exception of an adapter: the dispatcher marks the delivery FAILED.    *)
Fail ==
  /\ delivery' = [delivery EXCEPT !.status = "FAILED"]
  /\ work' = Idle

(* The step behind the artifact, for a target and a way to write. *)
Entry(how) ==
  CASE case.target = "jira" /\ how = "create" -> "fields"
    [] case.target = "feishu_bitable" -> "files"
    [] OTHER -> "write"
-----------------------------------------------------------------------------
(* resolve_delivery_plan: a delivery without an issue refers to that of the  *)
(* email's latest success.                                                   *)
Reference == IF delivery.external # None THEN delivery.external ELSE others.number

(* previous_repo: the one this delivery succeeded in, or that of the latest  *)
(* success, whosever number it has.                                          *)
Previous == IF delivery.at # None THEN delivery.at ELSE others.at

(* Mutant of SamePlace: the repository is not compared. *)
AnyPlace == TRUE
(* repository_changed of GitHub, asked of the place it takes for the issue's. *)
SamePlace == case.target = "github_issue" => Previous \in {None, place}

(* _dispatch_one and deliver: a plan to update takes the reference over into *)
(* the row; without one the issue is new.                                    *)
Begin(plan) ==
  LET updates == plan = "update" /\ Reference # None IN
  /\ work.pc = "idle"
  /\ Spend("deliver")
  /\ work' = [Idle EXCEPT !.pc = "artifact", !.at = place,
       !.plan = IF updates THEN "update" ELSE "new",
       !.how = IF updates /\ SamePlace THEN "update" ELSE "create"]
  /\ delivery' = [delivery EXCEPT !.status = "PROCESSING",
                                  !.external = IF updates THEN Reference ELSE @]
  /\ UNCHANGED <<case, place, issues, given, others, written>>

(* Mutant of Cached: a translation that failed is tried again. *)
CachedSuccess(artifact) == IF artifact.translated THEN artifact ELSE None
(* _cache_localization: what was used, be it the source. *)
Cached(artifact) == artifact

(* get_delivery_artifact: the answer of the model may lack placeholders.     *)
Localize ==
  LET source == [translated |-> FALSE, marks |-> case.marks]
      Use(a) == [work EXCEPT !.pc = Entry(work.how), !.artifact = a]
  IN
  /\ work.pc = "artifact"
  /\ CASE delivery.cache # None -> work' = Use(delivery.cache)
                                   /\ UNCHANGED <<delivery, budget>>
       [] delivery.cache = None /\ ~case.translate ->
            work' = Use(source) /\ UNCHANGED <<delivery, budget>>
       [] OTHER ->
            \/ \E kept \in SUBSET case.marks :
                 LET a == [translated |-> TRUE, marks |-> kept] IN
                 /\ work' = Use(a)
                 /\ delivery' = [delivery EXCEPT !.cache = Cached(a)]
                 /\ UNCHANGED budget
            \/ /\ Spend("llm")
               /\ work' = Use(source)
               /\ delivery' = [delivery EXCEPT !.cache = Cached(source)]
  /\ UNCHANGED <<case, place, issues, given, others, written>>
-----------------------------------------------------------------------------
(* Jira: fields *)

(* _validate_llm_response: with a list of allowed values, others become the  *)
(* default; without one the answer goes through.                             *)
Validated(allowed, answer) ==
  IF answer = None \/ (allowed # {} /\ answer \notin allowed)
  THEN DefaultComponent ELSE answer

(* _fetch_components gives up after three tries, with an empty list. *)
FetchComponents ==
  /\ work.pc = "fields"
  /\ \/ work' = [work EXCEPT !.pc = "choose", !.allowed = Components]
        /\ UNCHANGED budget
     \/ Goto("choose") /\ Spend("api")
  /\ UNCHANGED <<case, place, issues, given, delivery, others, written>>

(* _process_llm_fields takes what the model answers, or nothing. *)
ChooseComponent ==
  /\ work.pc = "choose"
  /\ \E answer \in Components \cup {"invented", None} :
       work' = [work EXCEPT !.pc = "write",
                            !.component = Validated(work.allowed, answer)]
  /\ UNCHANGED <<case, place, issues, given, delivery, others, written, budget>>
-----------------------------------------------------------------------------
(* Feishu: the files come first; if one is refused the delivery fails, and   *)
(* what was uploaded stays behind.  A file that is gone is passed over.      *)
SendFiles ==
  /\ work.pc = "files"
  /\ \/ Goto("write") /\ UNCHANGED <<delivery, budget>>
     \/ /\ Spend("file")
        /\ \/ \E f \in case.files :
                work' = [work EXCEPT !.pc = "write", !.lost = {f}]
              /\ UNCHANGED delivery
           \/ Fail
  /\ UNCHANGED <<case, place, issues, given, others, written>>
-----------------------------------------------------------------------------
(* build_original_chats_part of Jira: the marks become images, and the other *)
(* images the model described are listed below the text.                     *)
Described ==
  IF case.target # "jira" THEN {}
  ELSE work.artifact.marks
         \cup {File[f].safe : f \in {g \in case.files :
                                   File[g].image /\ File[g].text = "llm"}}

(* What a new or rewritten issue holds at once: in Jira what it held, in     *)
(* Feishu the tokens of all files, in GitHub a link to each public file,     *)
(* either in the text or in the list below it; a summary has no              *)
(* placeholders.                                                             *)
PublicFiles == {f \in case.files : File[f].public}
Inline == {File[f].safe : f \in PublicFiles}
            \cap (IF case.structured THEN {} ELSE work.artifact.marks)
Listed(s) == Cardinality({f \in PublicFiles : File[f].safe = s})

Holds(before) ==
  CASE case.target = "jira" -> before
    [] case.target = "feishu_bitable" ->
         [s \in Stored |-> Cardinality({f \in case.files \ work.lost :
                                          File[f].safe = s})]
    [] OTHER -> [s \in Stored |-> IF s \in Inline THEN 1 ELSE Listed(s)]

(* Jira refuses a component the project does not have; anything may fail.    *)
Create ==
  LET n == NewNumber(work.at) IN
  /\ work.pc = "write" /\ work.how = "create"
  /\ n \in Numbers
  /\ \/ /\ work.component \in Components \cup {None}
        /\ issues' = [issues EXCEPT ![work.at][n] =
             [own |-> TRUE, shows |-> Described, holds |-> Holds(Nothing)]]
        /\ given' = [given EXCEPT ![work.at] = n]
        /\ written' = written \cup {work.artifact}
        /\ work' = [work EXCEPT !.pc = "attach", !.number = n]
        /\ UNCHANGED <<delivery, budget>>
     \/ /\ IF work.component \in Components \cup {None} THEN Spend("server")
           ELSE UNCHANGED budget
        /\ Fail
        /\ UNCHANGED <<issues, given, written>>
  /\ UNCHANGED <<case, place, others>>

(* is_missing_issue_error looks for words and for 404 in the message: a      *)
(* missing issue is made anew, and so is one whose error has such a text.    *)
Update ==
  LET n == delivery.external IN
  /\ work.pc = "write" /\ work.how = "update"
  /\ \/ /\ Known
        /\ issues' = [issues EXCEPT ![work.at][n].shows = Described,
                                    ![work.at][n].holds = Holds(@)]
        /\ written' = written \cup {work.artifact}
        /\ work' = [work EXCEPT !.pc = "attach", !.number = n]
        /\ UNCHANGED <<delivery, budget>>
     \/ /\ IF Known THEN Spend("lookalike") ELSE UNCHANGED budget
        /\ work' = [work EXCEPT !.pc = Entry("create"), !.how = "create",
                                !.lost = {}]
        /\ UNCHANGED <<issues, delivery, written>>
     \/ /\ Spend("server")
        /\ Fail
        /\ UNCHANGED <<issues, written>>
  /\ UNCHANGED <<case, place, given, others>>
-----------------------------------------------------------------------------
(* Jira: attachments *)

(* _attachment_fingerprints against those of the files in the issue, which   *)
(* have their safe names there; hash and id never match.                     *)
Fingerprint(name, f) == <<name, File[f].size>>
OnIssue(n) ==
  {Fingerprint(File[f].safe, f) :
     f \in {g \in Files : /\ issues[work.at][n] # None
                           /\ issues[work.at][n].holds[File[g].safe] > 0}}

(* Mutant of UploadedKeys: the keys of what was uploaded are reported.       *)
ReportedKeys(fs) == {Fingerprint(File[f].name, f) : f \in fs}
(* upload_attachments reports counts and no keys. *)
UploadedKeys(fs) == {}

(* _sync_jira_attachments: what neither the delivery nor, for a plan to      *)
(* update, the issue knows; reading the issue may fail.                      *)
CompareFiles ==
  /\ work.pc = "attach" /\ case.target = "jira"
  /\ \E known \in {OnIssue(work.number), {}} :
       /\ IF work.plan # "update" THEN known = {} /\ UNCHANGED budget
          ELSE IF known = {} /\ OnIssue(work.number) # {} THEN Spend("lookup")
          ELSE UNCHANGED budget
       /\ work' = [work EXCEPT !.pc = "upload",
            !.left = {f \in case.files :
                        Fingerprint(File[f].name, f) \notin known \cup delivery.keys}]
  /\ UNCHANGED <<case, place, issues, given, delivery, others, written>>

(* upload_attachments: images with a text. *)
Uploads(f) == File[f].image /\ File[f].text # None

(* One after the other, whatever their order. *)
Upload(f) ==
  LET Done(lost) == [work EXCEPT !.left = @ \ {f}, !.lost = lost] IN
  /\ work.pc = "upload" /\ f \in work.left
  /\ IF ~Uploads(f) \/ issues[work.at][work.number] = None
     THEN work' = Done(work.lost) /\ UNCHANGED <<issues, budget>>
     ELSE \/ /\ issues' = [issues EXCEPT ![work.at][work.number].holds[File[f].safe] = @ + 1]
             /\ work' = Done(work.lost)
             /\ UNCHANGED budget
          \/ /\ Spend("file")
             /\ work' = Done(work.lost \cup {f})
             /\ UNCHANGED issues
  /\ UNCHANGED <<case, place, given, delivery, others, written>>

(* The number the adapter returns. *)
Saved(n) == n

(* _dispatch_one after the adapter *)
SaveDelivery ==
  /\ work.pc = IF case.target = "jira" THEN "upload" ELSE "attach"
  /\ work.left = {}
  /\ delivery' = [delivery EXCEPT !.status = "SUCCESS",
       !.external = Saved(work.number), !.at = work.at,
       !.keys = @ \cup UploadedKeys({f \in case.files \ work.lost : Uploads(f)})]
  /\ work' = [work EXCEPT !.pc = "idle"]
  /\ UNCHANGED <<case, place, issues, given, others, written, budget>>
-----------------------------------------------------------------------------
(* Other hands *)

DeleteIssue(p, n) ==
  /\ Spend("delete")
  /\ issues[p][n] # None /\ issues[p][n].own
  /\ issues' = [issues EXCEPT ![p][n] = None]
  /\ UNCHANGED <<case, place, given, delivery, others, work, written>>

ChangePlace(p) ==
  /\ Spend("place")
  /\ p # place
  /\ place' = p
  /\ UNCHANGED <<case, issues, given, delivery, others, work, written>>

(* A later event of the email is delivered with an issue of its own, and its *)
(* delivery is the latest success.                                           *)
OtherDelivers ==
  LET n == NewNumber(place) IN
  /\ Spend("other")
  /\ n \in Numbers
  /\ issues' = [issues EXCEPT ![place][n] =
                  [own |-> TRUE, shows |-> {}, holds |-> Nothing]]
  /\ given' = [given EXCEPT ![place] = n]
  /\ others' = [number |-> n, at |-> place, all |-> others.all \cup {place}]
  /\ UNCHANGED <<case, place, delivery, work, written>>

Next ==
  \/ \E plan \in {"new", "update"} : Begin(plan)
  \/ Localize \/ FetchComponents \/ ChooseComponent \/ SendFiles \/ Create \/ Update
  \/ CompareFiles \/ SaveDelivery \/ OtherDelivers
  \/ \E f \in Files : Upload(f)
  \/ \E p \in Places : ChangePlace(p) \/ \E n \in Numbers : DeleteIssue(p, n)

Spec == Init /\ [][Next]_vars
-----------------------------------------------------------------------------
(* Properties *)

(* The files an issue needs: in Jira the images its text refers to of which  *)
(* the text says something, elsewhere all there are.                         *)
Needed(issue) ==
  CASE case.target = "jira" ->
         {f \in case.files : File[f].safe \in issue.shows
                                    /\ File[f].image /\ File[f].text # None}
    [] case.target = "feishu_bitable" -> case.files
    [] OTHER -> PublicFiles

(* A delivery that ends SUCCESS leaves an issue that has the files its text  *)
(* shows (build_original_chats_part and upload_attachments filter the images *)
(* each for itself), unless this time a file was gone or refused or somebody *)
(* deletes the issue: also when the update falls back to a new issue, when   *)
(* the files were compared with an old one, and when a translation dropped   *)
(* marks.                                                                    *)
IssueHasItsFiles ==
  work.pc = "idle" /\ delivery.status = "SUCCESS" =>
    LET issue == issues[delivery.at][delivery.external] IN
    issue # None =>
      \A f \in Needed(issue) \ work.lost : issue.holds[File[f].safe] > 0

(* All that a delivery writes, retries included, is one artifact, translated *)
(* or not: "Return a stable, channel-local artifact" (localization.py:108).  *)
OneArtifact == Cardinality(written) <= 1

(* Whether the place of an issue is told by its id (Feishu) or by comparing  *)
(* (GitHub).  A delivery that took over the number of an issue and failed is *)
(* compared with the place of the email's latest success; when that was in   *)
(* another repository than the first, the number may be somebody else's      *)
(* there, and the code writes to it.  Jira keys are not compared at all.     *)
PlaceIsTold ==
  CASE case.target = "jira" -> FALSE
    [] case.target = "feishu_bitable" -> TRUE
    [] OTHER -> \A p, q \in others.all : p = q

(* As long as its place is told, an issue of somebody else is never written, *)
(* whatever the subscription names by then, which numbers are the same       *)
(* there, and how often a delivery fails and is tried again.                 *)
StrangersUntouched ==
  [][PlaceIsTold =>
       \A p \in Places, n \in Numbers :
         issues[p][n] # None /\ ~issues[p][n].own
           => issues'[p][n] = issues[p][n]]_vars
=============================================================================
