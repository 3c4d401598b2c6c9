-------------------------- MODULE EmailContentsProofs -------------------------
(***************************************************************************)
(* Proofs about the three components of EmailContents.                     *)
(*                                                                         *)
(* IssueDrivers: whatever fails, is retried, deleted or configured anew, a *)
(* delivery writes one artifact, touches no issue of somebody else, and    *)
(* ends SUCCESS only with the files its text shows.  One lemma says what   *)
(* each step does to the adapter, the row and the issues; the invariants   *)
(* then need no more of the steps than that.                               *)
(*                                                                         *)
(* WorkflowNodes: whatever fails in a run, and however runs follow each    *)
(* other, the parts of a successful email were made from one text, stored  *)
(* results survive, and the percentage of a run never falls.  Every node   *)
(* ends alike (NodeKeeps), so that a node only has to say what it leaves   *)
(* in the state of the graph.                                              *)
(*                                                                         *)
(* MailContent: whatever save fails, the text of a mail shows saved images *)
(* and misses none it should show.  Two recursions, over the parts and     *)
(* over the tags, are shown to have a solution and followed step by step;  *)
(* the first walk finds exactly the images worth showing (Worth), and the  *)
(* text is made of what it found.                                          *)
(***************************************************************************)
EXTENDS EmailContents, FiniteSetTheorems, FunctionTheorems, WellFoundedInduction, TLAPS

(* There is a smallest number of any set of numbers.                         *)
LEMMA SmallestOf ==
  ASSUME NEW B \in SUBSET Nat, B # {}
  PROVE  \E n \in B : \A m \in B : ~(m < n)
<1>1. PICK n \in B : \A m \in B : ~(<<m, n>> \in OpToRel(<, Nat))
  BY NatLessThanWellFounded, WFMin
<1>2. \A m \in B : ~(m < n)
  BY <1>1 DEF OpToRel
<1> QED BY <1>2

(***************************************************************************)
(* IssueDrivers                                                            *)
(***************************************************************************)

(* What the servers, the row and the adapter hold.                          *)
Issue == [own : BOOLEAN, shows : SUBSET Stored, holds : [Stored -> Nat]]
Rows == [status : {"PENDING", "PROCESSING", "SUCCESS", "FAILED"},
         external : Numbers \cup {None}, at : Places \cup {None}, keys : {{}},
         cache : Artifacts \cup {None}]
Elsewhere == [number : Numbers \cup {None}, at : Places \cup {None}, all : SUBSET Places]
Steps == {"idle", "artifact", "fields", "choose", "files", "write", "attach", "upload"}
Works == [pc : Steps, plan : {"new", "update", None}, how : {"create", "update", None},
          at : Places \cup {None}, number : Numbers \cup {None},
          artifact : Artifacts \cup {None},
          component : Components \cup {"invented", DefaultComponent, None},
          allowed : SUBSET Components, left : SUBSET Files, lost : SUBSET Files]

TypeInv ==
  /\ case \in Deliveries /\ place \in Places
  /\ issues \in [Places -> [Numbers -> Issue \cup {None}]]
  /\ given \in [Places -> Numbers]
  /\ delivery \in Rows /\ work \in Works /\ others \in Elsewhere
  /\ work.pc # "idle" => work.at \in Places /\ work.how \in {"create", "update"}
  /\ work.pc \notin {"idle", "artifact"} => work.artifact \in Artifacts
  /\ work.pc \in {"attach", "upload"} => work.number \in Numbers
-----------------------------------------------------------------------------
(* What the steps do to the adapter and to the row *)

LEMMA FailEffect ==
  ASSUME TypeInv, Fail
  PROVE  /\ delivery' \in Rows /\ work' \in Works /\ work'.pc = "idle"
         /\ work'.left = {}
         /\ delivery'.status = "FAILED" /\ delivery'.cache = delivery.cache
         /\ delivery'.external = delivery.external /\ delivery'.at = delivery.at
<1>1. delivery \in Rows /\ delivery' = [delivery EXCEPT !.status = "FAILED"] /\ work' = Idle
  BY DEF TypeInv, Fail
<1>2. Idle \in Works /\ Idle.pc = "idle" /\ Idle.left = {}
  BY DEF Idle, Works, Steps
<1> HIDE DEF Idle
<1> QED
  BY <1>1, <1>2 DEF Rows

Updates(plan) == plan = "update" /\ Reference # None

LEMMA BeginEffect ==
  ASSUME TypeInv, NEW plan \in {"new", "update"}, Begin(plan)
  PROVE  /\ delivery' \in Rows /\ work' \in Works
         /\ work'.pc = "artifact" /\ work'.at = place /\ work'.left = {}
         /\ work'.how = (IF Updates(plan) /\ SamePlace THEN "update" ELSE "create")
         /\ delivery'.status = "PROCESSING" /\ delivery'.cache = delivery.cache
         /\ delivery'.external = (IF Updates(plan) THEN Reference ELSE delivery.external)
         /\ delivery'.at = delivery.at
         /\ UNCHANGED <<case, place, issues, given, others, written>>
<1> DEFINE h == IF Updates(plan) /\ SamePlace THEN "update" ELSE "create"
           q == IF Updates(plan) THEN "update" ELSE "new"
           e == IF Updates(plan) THEN Reference ELSE delivery.external
           r == [Idle EXCEPT !.pc = "artifact", !.at = place, !.plan = q, !.how = h]
<1>1. /\ delivery' = [delivery EXCEPT !.status = "PROCESSING", !.external = e] /\ work' = r
      /\ delivery \in Rows /\ place \in Places /\ h \in {"create", "update"}
      /\ q \in {"new", "update"}
      /\ UNCHANGED <<case, place, issues, given, others, written>>
  BY DEF Begin, TypeInv, Updates
<1>2. e \in Numbers \cup {None}
  BY DEF TypeInv, Rows, Elsewhere, Reference
<1> HIDE DEF h, q, e
<1>3. r \in Works /\ r.pc = "artifact" /\ r.at = place /\ r.how = h /\ r.left = {}
  BY <1>1 DEF Idle, Works, Steps
<1> HIDE DEF r
<1>4. /\ delivery' \in Rows /\ delivery'.status = "PROCESSING"
      /\ delivery'.cache = delivery.cache /\ delivery'.external = e
      /\ delivery'.at = delivery.at
  BY <1>1, <1>2 DEF Rows
<1> QED
  BY <1>1, <1>3, <1>4 DEF h, e

(* The artifact of a delivery: the one in its row, or a new one, kept there  *)
(* if the model was asked.                                                   *)
LEMMA LocalizeEffect ==
  ASSUME TypeInv, Localize
  PROVE  /\ delivery' \in Rows /\ work' \in Works /\ work.pc = "artifact"
         /\ work'.pc = Entry(work.how) /\ work'.at = work.at /\ work'.how = work.how
         /\ work'.left = work.left /\ work'.artifact \in Artifacts
         /\ IF delivery.cache # None THEN delivery' = delivery /\ work'.artifact = delivery.cache
            ELSE IF ~case.translate
            THEN /\ delivery' = delivery
                 /\ work'.artifact = [translated |-> FALSE, marks |-> case.marks]
            ELSE /\ delivery'.cache = work'.artifact
                 /\ delivery'.status = delivery.status
                 /\ delivery'.external = delivery.external /\ delivery'.at = delivery.at
         /\ UNCHANGED <<case, place, issues, given, others, written>>
<1> DEFINE source == [translated |-> FALSE, marks |-> case.marks]
           Use(a) == [work EXCEPT !.pc = Entry(work.how), !.artifact = a]
<1>1. work \in Works /\ delivery \in Rows /\ case \in Deliveries
  BY DEF TypeInv
<1>2. case.marks \subseteq Stored
  BY <1>1, DriversAssumption
<1>3. source \in Artifacts
  BY <1>2 DEF Artifacts
<1>4. PICK e \in Steps : e = Entry(work.how)
  BY DEF Entry, Steps
<1>5. ASSUME NEW a \in Artifacts
      PROVE  /\ Use(a) \in Works /\ Use(a).pc = e /\ Use(a).artifact = a
             /\ Use(a).at = work.at /\ Use(a).how = work.how /\ Use(a).left = work.left
  BY <1>1, <1>4 DEF Works
<1>6. ASSUME NEW a \in Artifacts
      PROVE  LET r == [delivery EXCEPT !.cache = a] IN
             /\ r \in Rows /\ r.cache = a /\ r.status = delivery.status
             /\ r.external = delivery.external /\ r.at = delivery.at
  BY <1>1 DEF Rows
<1>7. /\ work.pc = "artifact"
      /\ \/ delivery.cache # None /\ work' = Use(delivery.cache) /\ delivery' = delivery
         \/ /\ delivery.cache = None /\ ~case.translate
            /\ work' = Use(source) /\ delivery' = delivery
         \/ /\ delivery.cache = None /\ case.translate
            /\ \E a \in Artifacts : work' = Use(a) /\ delivery' = [delivery EXCEPT !.cache = a]
  <2>1. \A kept \in SUBSET case.marks : [translated |-> TRUE, marks |-> kept] \in Artifacts
    BY <1>2 DEF Artifacts
  <2> QED
    BY <1>3, <2>1 DEF Localize, Cached
<1>8. delivery.cache # None => delivery.cache \in Artifacts
  BY <1>1 DEF Rows
<1>9. UNCHANGED <<case, place, issues, given, others, written>>
  BY DEF Localize
<1> HIDE DEF Use, source
<1> QED
  <2>1. CASE delivery.cache # None
    BY <1>1, <1>4, <1>5, <1>7, <1>8, <1>9, <2>1
  <2>2. CASE delivery.cache = None /\ ~case.translate
    BY <1>1, <1>3, <1>4, <1>5, <1>7, <1>9, <2>2 DEF source
  <2>3. CASE delivery.cache = None /\ case.translate
    <3>1. PICK a \in Artifacts : work' = Use(a) /\ delivery' = [delivery EXCEPT !.cache = a]
      BY <1>7, <2>3
    <3> QED
      BY <1>1, <1>4, <1>5, <1>6, <1>7, <1>9, <2>3, <3>1
  <2> QED
    BY <2>1, <2>2, <2>3

(* The fields of Jira: the component changes, and the step.                  *)
LEMMA FieldsEffect ==
  ASSUME TypeInv, FetchComponents \/ ChooseComponent
  PROVE  /\ work' \in Works /\ work.pc \in {"fields", "choose"}
         /\ work'.pc \in {"choose", "write"} /\ work'.at = work.at /\ work'.how = work.how
         /\ work'.artifact = work.artifact /\ work'.left = work.left
         /\ UNCHANGED <<case, place, issues, given, delivery, others, written>>
<1>1. work \in Works
  BY DEF TypeInv
<1>2. CASE FetchComponents
  <2>1. /\ \/ work' = [work EXCEPT !.pc = "choose", !.allowed = Components]
           \/ work' = [work EXCEPT !.pc = "choose"]
        /\ work.pc = "fields" /\ UNCHANGED <<case, place, issues, given, delivery, others, written>>
    BY <1>2 DEF FetchComponents, Goto
  <2> QED
    BY <1>1, <2>1 DEF Works, Steps
<1>3. CASE ChooseComponent
  <2>1. PICK answer \in Components \cup {"invented", None} :
          work' = [work EXCEPT !.pc = "write", !.component = Validated(work.allowed, answer)]
    BY <1>3 DEF ChooseComponent
  <2>2. PICK c \in Components \cup {"invented", DefaultComponent, None} :
          c = Validated(work.allowed, answer)
    BY DEF Validated
  <2>3. work' = [work EXCEPT !.pc = "write", !.component = c]
    BY <2>1, <2>2
  <2>4. work.pc = "choose" /\ UNCHANGED <<case, place, issues, given, delivery, others, written>>
    BY <1>3 DEF ChooseComponent
  <2> QED
    BY <1>1, <2>3, <2>4 DEF Works, Steps
<1> QED
  BY <1>2, <1>3

(* The files of Feishu.                                                     *)
LEMMA SendEffect ==
  ASSUME TypeInv, SendFiles
  PROVE  /\ work.pc = "files" /\ UNCHANGED <<case, place, issues, given, others, written>>
         /\ \/ Fail
            \/ /\ work' \in Works /\ work'.pc = "write" /\ work'.at = work.at
               /\ work'.how = work.how /\ work'.artifact = work.artifact
               /\ work'.left = work.left /\ UNCHANGED delivery
<1>1. work \in Works /\ case.files \subseteq Files
  BY DriversAssumption DEF TypeInv
<1>2. work.pc = "files" /\ UNCHANGED <<case, place, issues, given, others, written>>
  BY DEF SendFiles
<1>3. \/ Fail
      \/ work' = [work EXCEPT !.pc = "write"] /\ UNCHANGED delivery
      \/ \E f \in Files : /\ work' = [work EXCEPT !.pc = "write", !.lost = {f}]
                          /\ UNCHANGED delivery
  BY <1>1 DEF SendFiles, Goto
<1>4. CASE work' = [work EXCEPT !.pc = "write"] /\ UNCHANGED delivery
  BY <1>1, <1>2, <1>4 DEF Works, Steps
<1>5. ASSUME NEW f \in Files,
             work' = [work EXCEPT !.pc = "write", !.lost = {f}], UNCHANGED delivery
      PROVE  /\ work' \in Works /\ work'.pc = "write" /\ work'.at = work.at
             /\ work'.how = work.how /\ work'.artifact = work.artifact
             /\ work'.left = work.left
  BY <1>1, <1>5 DEF Works, Steps
<1> QED
  BY <1>2, <1>3, <1>4, <1>5

(* The row after a delivery.                                                *)
LEMMA SaveEffect ==
  ASSUME TypeInv, SaveDelivery
  PROVE  /\ delivery' \in Rows /\ work' \in Works /\ work'.pc = "idle"
         /\ work'.lost = work.lost /\ work'.left = work.left
         /\ work.pc = (IF case.target = "jira" THEN "upload" ELSE "attach")
         /\ work.left = {}
         /\ delivery'.status = "SUCCESS" /\ delivery'.cache = delivery.cache
         /\ delivery'.external = work.number /\ delivery'.at = work.at
         /\ UNCHANGED <<case, place, issues, given, others, written>>
<1>1. /\ delivery \in Rows /\ work \in Works
      /\ work.pc = (IF case.target = "jira" THEN "upload" ELSE "attach") /\ work.left = {}
      /\ UNCHANGED <<case, place, issues, given, others, written>>
      /\ work' = [work EXCEPT !.pc = "idle"]
      /\ delivery' = [delivery EXCEPT !.status = "SUCCESS", !.external = work.number,
                                      !.at = work.at, !.keys = @ \cup {}]
  BY DEF SaveDelivery, TypeInv, Saved, UploadedKeys
<1>2. work.at \in Places /\ work.number \in Numbers
  BY <1>1 DEF TypeInv
<1>3. work' \in Works /\ work'.pc = "idle" /\ work'.lost = work.lost
      /\ work'.left = work.left
  BY <1>1 DEF Works, Steps
<1> QED
  BY <1>1, <1>2, <1>3 DEF Rows
-----------------------------------------------------------------------------
(* What the steps do to the issues *)

(* What a written issue shows and holds is of its type.                     *)
LEMMA CountIsNat ==
  ASSUME TypeInv, NEW S \in SUBSET case.files
  PROVE  /\ IsFiniteSet(S) /\ Cardinality(S) \in Nat
         /\ S # {} => Cardinality(S) > 0
<1>1. IsFiniteSet(case.files)
  BY DriversAssumption DEF TypeInv
<1>2. IsFiniteSet(S)
  BY <1>1, FS_Subset
<1> QED
  BY <1>2, FS_CardinalityType, FS_EmptySet

LEMMA WrittenTypes ==
  ASSUME TypeInv, work.artifact \in Artifacts, NEW h \in [Stored -> Nat]
  PROVE  Described \in SUBSET Stored /\ Holds(h) \in [Stored -> Nat]
<1>1. case.files \subseteq Files /\ work.artifact.marks \subseteq Stored
  BY DriversAssumption DEF TypeInv, Artifacts
<1>2. Described \in SUBSET Stored
  BY <1>1 DEF Described, Stored
<1>3. \A s \in Stored : Cardinality({f \in case.files \ work.lost : File[f].safe = s}) \in Nat
  <2> TAKE s \in Stored
  <2>1. {f \in case.files \ work.lost : File[f].safe = s} \subseteq case.files
    OBVIOUS
  <2> QED
    BY <2>1, CountIsNat
<1>4. \A s \in Stored : Listed(s) \in Nat
  <2> TAKE s \in Stored
  <2>1. {f \in PublicFiles : File[f].safe = s} \subseteq case.files
    BY DEF PublicFiles
  <2> QED
    BY <2>1, CountIsNat DEF Listed
<1>5. Holds(h) \in [Stored -> Nat]
  <2>1. CASE case.target = "jira"
    BY <2>1 DEF Holds
  <2>2. CASE case.target = "feishu_bitable"
    BY <1>3, <2>2 DEF Holds
  <2>3. CASE case.target \notin {"jira", "feishu_bitable"}
    BY <1>4, <2>3 DEF Holds
  <2> QED
    BY <2>1, <2>2, <2>3
<1> QED
  BY <1>2, <1>5

(* An issue is written or deleted, the others stay.                         *)
Written(p, n, i) == issues' = [issues EXCEPT ![p][n] = i]

(* Create makes an own issue with the next number, or fails.                *)
LEMMA CreateEffect ==
  ASSUME TypeInv, Create
  PROVE  /\ work.pc = "write" /\ NewNumber(work.at) \in Numbers /\ UNCHANGED <<case, place, others>>
         /\ \/ /\ Fail /\ UNCHANGED <<issues, given, written>>
            \/ /\ UNCHANGED delivery
               /\ work' \in Works /\ work'.pc = "attach" /\ work'.at = work.at
               /\ work'.how = work.how /\ work'.artifact = work.artifact
               /\ work'.number = NewNumber(work.at) /\ work'.lost = work.lost
               /\ work'.left = work.left
               /\ written' = written \cup {work.artifact}
               /\ given' = [given EXCEPT ![work.at] = NewNumber(work.at)]
               /\ \E i \in Issue :
                    /\ i.own /\ i.shows = Described /\ i.holds = Holds(Nothing)
                    /\ Written(work.at, NewNumber(work.at), i)
<1> DEFINE n == NewNumber(work.at)
           i == [own |-> TRUE, shows |-> Described, holds |-> Holds(Nothing)]
<1>1. work.pc = "write" /\ n \in Numbers /\ UNCHANGED <<case, place, others>>
  BY DEF Create
<1>2. work \in Works /\ work.artifact \in Artifacts
  BY <1>1 DEF TypeInv
<1>3. Nothing \in [Stored -> Nat]
  BY DEF Nothing
<1>4. i \in Issue /\ i.own /\ i.shows = Described /\ i.holds = Holds(Nothing)
  BY <1>2, <1>3, WrittenTypes DEF Issue
<1>5. \/ Fail /\ UNCHANGED <<issues, given, written>>
      \/ /\ UNCHANGED delivery /\ work' = [work EXCEPT !.pc = "attach", !.number = n]
         /\ written' = written \cup {work.artifact}
         /\ given' = [given EXCEPT ![work.at] = n]
         /\ Written(work.at, n, i)
  BY DEF Create, Written
<1> HIDE DEF n, i
<1>6. LET r == [work EXCEPT !.pc = "attach", !.number = n] IN
      /\ r \in Works /\ r.pc = "attach" /\ r.at = work.at /\ r.how = work.how
      /\ r.artifact = work.artifact /\ r.number = n /\ r.lost = work.lost
      /\ r.left = work.left
  BY <1>1, <1>2 DEF Works, Steps
<1>7. CASE Fail /\ UNCHANGED <<issues, given, written>>
  BY <1>1, <1>7 DEF n
<1>8. CASE /\ UNCHANGED delivery /\ work' = [work EXCEPT !.pc = "attach", !.number = n]
           /\ written' = written \cup {work.artifact}
           /\ given' = [given EXCEPT ![work.at] = n]
           /\ Written(work.at, n, i)
  BY <1>1, <1>4, <1>6, <1>8 DEF n
<1> QED
  BY <1>5, <1>7, <1>8

(* Update rewrites the issue, turns to a new one, or fails.                  *)
LEMMA UpdateEffect ==
  ASSUME TypeInv, Update
  PROVE  /\ work.pc = "write" /\ work.how = "update" /\ UNCHANGED <<case, place, given, others>>
         /\ \/ /\ UNCHANGED delivery /\ Known /\ delivery.external \in Numbers
               /\ work' \in Works /\ work'.pc = "attach" /\ work'.at = work.at
               /\ work'.how = work.how /\ work'.artifact = work.artifact
               /\ work'.number = delivery.external /\ work'.lost = work.lost
               /\ work'.left = work.left
               /\ written' = written \cup {work.artifact}
               /\ LET b == issues[work.at][delivery.external] IN
                  \E i \in Issue :
                    /\ b \in Issue
                    /\ i.own = b.own /\ i.shows = Described /\ i.holds = Holds(b.holds)
                    /\ Written(work.at, delivery.external, i)
            \/ /\ UNCHANGED <<issues, delivery, written>>
               /\ work' \in Works /\ work'.pc = Entry("create") /\ work'.at = work.at
               /\ work'.how = "create" /\ work'.artifact = work.artifact
               /\ work'.left = work.left
            \/ Fail /\ UNCHANGED <<issues, written>>
<1> DEFINE n == delivery.external
           b == issues[work.at][n]
<1>1. work.pc = "write" /\ work.how = "update" /\ UNCHANGED <<case, place, given, others>>
  BY DEF Update
<1>2. work \in Works /\ work.artifact \in Artifacts /\ work.at \in Places
      /\ delivery \in Rows
  BY <1>1 DEF TypeInv
<1>3. \/ /\ Known
         /\ issues' = [issues EXCEPT ![work.at][n].shows = Described,
                                     ![work.at][n].holds = Holds(@)]
         /\ written' = written \cup {work.artifact}
         /\ work' = [work EXCEPT !.pc = "attach", !.number = n]
         /\ UNCHANGED delivery
      \/ /\ work' = [work EXCEPT !.pc = Entry("create"), !.how = "create", !.lost = {}]
         /\ UNCHANGED <<issues, delivery, written>>
      \/ Fail /\ UNCHANGED <<issues, written>>
  BY DEF Update
<1>4. CASE /\ Known
           /\ issues' = [issues EXCEPT ![work.at][n].shows = Described,
                                       ![work.at][n].holds = Holds(@)]
           /\ written' = written \cup {work.artifact}
           /\ work' = [work EXCEPT !.pc = "attach", !.number = n]
           /\ UNCHANGED delivery
  <2> DEFINE i == [b EXCEPT !.shows = Described, !.holds = Holds(b.holds)]
  <2>1. n \in Numbers
    BY <1>2, <1>4 DEF Known, Rows
  <2>2. b \in Issue
    BY <1>2, <1>4, <2>1 DEF Known, TypeInv
  <2>3. Described \in SUBSET Stored /\ Holds(b.holds) \in [Stored -> Nat]
    BY <1>2, <2>2, WrittenTypes DEF Issue
  <2>4. Written(work.at, n, i)
    <3> DEFINE a == work.at
               d == Described
               h == Holds(b.holds)
               once == [issues EXCEPT ![a][n].shows = d]
               c == [b EXCEPT !.shows = d]
    <3>1. once = [issues EXCEPT ![a][n] = c]
      OBVIOUS
    <3>2. issues' = [once EXCEPT ![a][n].holds = Holds(once[a][n].holds)]
      BY <1>4
    <3> HIDE DEF d, once
    <3>3. c.holds = b.holds /\ [c EXCEPT !.holds = h] = i
      BY <2>2 DEF Issue, d
    <3> HIDE DEF i, b, c
    <3>4. PICK I : issues \in [Places -> [Numbers -> I]]
      BY DEF TypeInv
    <3>5. once[a][n] = c
      BY <1>2, <2>1, <3>1, <3>4
    <3>6. issues' = [once EXCEPT ![a][n] = i]
      BY <3>2, <3>3, <3>5
    <3>7. issues' = [issues EXCEPT ![a][n] = i]
      BY <1>2, <2>1, <3>1, <3>4, <3>6
    <3> QED
      BY <3>7 DEF Written, a
  <2> HIDE DEF b, n
  <2>5. i \in Issue /\ i.own = b.own /\ i.shows = Described /\ i.holds = Holds(b.holds)
    BY <2>2, <2>3 DEF Issue
  <2>6. /\ work' \in Works /\ work'.pc = "attach" /\ work'.at = work.at
        /\ work'.how = work.how /\ work'.artifact = work.artifact
        /\ work'.number = n /\ work'.lost = work.lost /\ work'.left = work.left
    BY <1>2, <1>4, <2>1 DEF Works, Steps
  <2> HIDE DEF i
  <2>7. \E x \in Issue : /\ b \in Issue
                         /\ x.own = b.own /\ x.shows = Described /\ x.holds = Holds(b.holds)
                         /\ Written(work.at, n, x)
    BY <2>2, <2>4, <2>5
  <2> QED
    BY <1>1, <1>4, <2>1, <2>6, <2>7 DEF b, n
<1>5. CASE /\ work' = [work EXCEPT !.pc = Entry("create"), !.how = "create", !.lost = {}]
           /\ UNCHANGED <<issues, delivery, written>>
  <2>1. PICK e \in Steps : e = Entry("create")
    BY DEF Entry, Steps
  <2>2. work' = [work EXCEPT !.pc = e, !.how = "create", !.lost = {}]
    BY <1>5, <2>1
  <2>3. /\ work' \in Works /\ work'.pc = e /\ work'.at = work.at
        /\ work'.how = "create" /\ work'.artifact = work.artifact
        /\ work'.left = work.left
    BY <1>2, <2>2 DEF Works
  <2> QED
    BY <1>1, <1>5, <2>1, <2>3
<1>6. CASE Fail /\ UNCHANGED <<issues, written>>
  BY <1>1, <1>6
<1> QED
  BY <1>3, <1>4, <1>5, <1>6

(* CompareFiles leaves the files that the issue does not know.               *)
LEMMA CompareEffect ==
  ASSUME TypeInv, CompareFiles
  PROVE  /\ work.pc = "attach" /\ case.target = "jira"
         /\ UNCHANGED <<case, place, issues, given, delivery, others, written>>
         /\ work' \in Works /\ work'.pc = "upload" /\ work'.at = work.at
         /\ work'.how = work.how /\ work'.artifact = work.artifact
         /\ work'.number = work.number /\ work'.lost = work.lost
         /\ \A f \in case.files :
              f \in work'.left \/ Fingerprint(File[f].name, f) \in OnIssue(work.number)
<1>1. work \in Works /\ delivery \in Rows /\ case.files \subseteq Files
  BY DriversAssumption DEF TypeInv
<1>2. PICK known \in {OnIssue(work.number), {}} :
        work' = [work EXCEPT !.pc = "upload",
                   !.left = {f \in case.files :
                              Fingerprint(File[f].name, f) \notin known \cup delivery.keys}]
  BY DEF CompareFiles
<1> DEFINE l == {f \in case.files :
                   Fingerprint(File[f].name, f) \notin known \cup delivery.keys}
<1>3. l \in SUBSET Files
  BY <1>1
<1>4. \A f \in case.files : f \in l \/ Fingerprint(File[f].name, f) \in OnIssue(work.number)
  BY <1>1, <1>2 DEF Rows
<1>5. work' = [work EXCEPT !.pc = "upload", !.left = l]
  BY <1>2
<1> HIDE DEF l
<1>6. /\ work' \in Works /\ work'.pc = "upload" /\ work'.at = work.at
      /\ work'.how = work.how /\ work'.artifact = work.artifact
      /\ work'.number = work.number /\ work'.lost = work.lost /\ work'.left = l
  BY <1>1, <1>3, <1>5 DEF Works, Steps
<1> QED
  BY <1>4, <1>6 DEF CompareFiles

(* Upload adds a file to the issue, passes over it, or loses it.            *)
LEMMA UploadEffect ==
  ASSUME TypeInv, NEW f \in Files, Upload(f)
  PROVE  /\ work.pc = "upload" /\ f \in work.left
         /\ UNCHANGED <<case, place, given, delivery, others, written>>
         /\ work' \in Works /\ work'.pc = "upload" /\ work'.at = work.at
         /\ work'.how = work.how /\ work'.artifact = work.artifact
         /\ work'.number = work.number /\ work'.left = work.left \ {f}
         /\ work.lost \subseteq work'.lost
         /\ LET b == issues[work.at][work.number] IN
            \/ UNCHANGED issues /\ (~Uploads(f) \/ b = None \/ f \in work'.lost)
            \/ \E i \in Issue :
                 /\ b \in Issue /\ b # None
                 /\ i.own = b.own /\ i.shows = b.shows
                 /\ i.holds = [b.holds EXCEPT ![File[f].safe] = @ + 1]
                 /\ Written(work.at, work.number, i)
<1> DEFINE n == work.number
           b == issues[work.at][n]
           x == File[f].safe
<1>1. work.pc = "upload" /\ f \in work.left /\ UNCHANGED <<case, place, given, delivery, others, written>>
  BY DEF Upload
<1>2. work \in Works /\ work.at \in Places /\ n \in Numbers
  BY <1>1 DEF TypeInv
<1>3. PICK L \in {work.lost, work.lost \cup {f}} :
        work' = [work EXCEPT !.left = @ \ {f}, !.lost = L]
        /\ \/ UNCHANGED issues /\ (~Uploads(f) \/ b = None \/ f \in L)
           \/ b # None /\ issues' = [issues EXCEPT ![work.at][n].holds[x] = @ + 1]
  BY DEF Upload
<1>4. /\ work' \in Works /\ work'.pc = work.pc /\ work'.at = work.at
      /\ work'.how = work.how /\ work'.artifact = work.artifact
      /\ work'.number = work.number /\ work'.left = work.left \ {f} /\ work'.lost = L
  BY <1>2, <1>3 DEF Works
<1>5. CASE UNCHANGED issues /\ (~Uploads(f) \/ b = None \/ f \in L)
  BY <1>1, <1>3, <1>4, <1>5
<1>6. CASE b # None /\ issues' = [issues EXCEPT ![work.at][n].holds[x] = @ + 1]
  <2> DEFINE h == [b.holds EXCEPT ![x] = @ + 1]
             i == [b EXCEPT !.holds = h]
  <2>1. b \in Issue /\ x \in Stored
    BY <1>2, <1>6 DEF TypeInv, Stored
  <2>2. Written(work.at, n, i)
    BY <1>2, <1>6, <2>1 DEF TypeInv, Issue, Written
  <2> HIDE DEF b, n
  <2>3. h \in [Stored -> Nat]
    BY <2>1 DEF Issue
  <2> HIDE DEF h
  <2>4. i \in Issue /\ i.own = b.own /\ i.shows = b.shows /\ i.holds = h
    BY <2>1, <2>3 DEF Issue
  <2> HIDE DEF i
  <2>5. \E y \in Issue : /\ b \in Issue /\ b # None
                         /\ y.own = b.own /\ y.shows = b.shows
                         /\ y.holds = [b.holds EXCEPT ![x] = @ + 1]
                         /\ Written(work.at, n, y)
    BY <1>6, <2>1, <2>2, <2>4 DEF h
  <2> QED
    BY <1>1, <1>3, <1>4, <2>5 DEF b, n
<1> QED
  BY <1>3, <1>5, <1>6

(* Deleting and writing an issue leaves the others alone.                    *)
LEMMA IssueWritten ==
  ASSUME TypeInv, NEW p \in Places, NEW n \in Numbers, NEW i,
         i \in Issue \/ i = None, Written(p, n, i)
  PROVE  /\ issues' \in [Places -> [Numbers -> Issue \cup {None}]]
         /\ issues'[p][n] = i
         /\ \A q \in Places, m \in Numbers : q # p \/ m # n => issues'[q][m] = issues[q][m]
<1> DEFINE I == Issue \cup {None}
<1>1. /\ issues \in [Places -> [Numbers -> I]] /\ i \in I
      /\ issues' = [issues EXCEPT ![p][n] = i]
  BY DEF TypeInv, Written
<1> HIDE DEF I
<1>2. /\ issues' \in [Places -> [Numbers -> I]]
      /\ issues'[p][n] = i
      /\ \A q \in Places, m \in Numbers : q # p \/ m # n => issues'[q][m] = issues[q][m]
  BY <1>1
<1> QED
  BY <1>2 DEF I

LEMMA DeleteEffect ==
  ASSUME TypeInv, NEW p \in Places, NEW n \in Numbers, DeleteIssue(p, n)
  PROVE  /\ issues[p][n] # None /\ issues[p][n].own
         /\ Written(p, n, None)
         /\ UNCHANGED <<case, place, given, delivery, others, work, written>>
BY DEF DeleteIssue, Written

(* Another delivery leaves an own issue with the next number.               *)
LEMMA OtherEffect ==
  ASSUME TypeInv, OtherDelivers
  PROVE  /\ place \in Places /\ NewNumber(place) \in Numbers
         /\ UNCHANGED <<case, place, delivery, work, written>>
         /\ given' = [given EXCEPT ![place] = NewNumber(place)]
         /\ others' \in Elsewhere /\ others'.number = NewNumber(place)
         /\ others'.at = place /\ others'.all = others.all \cup {place}
         /\ \E i \in Issue : i.own /\ Written(place, NewNumber(place), i)
<1> DEFINE n == NewNumber(place)
           i == [own |-> TRUE, shows |-> {}, holds |-> Nothing]
<1>1. /\ place \in Places /\ n \in Numbers
      /\ UNCHANGED <<case, place, delivery, work, written>>
      /\ given' = [given EXCEPT ![place] = n]
      /\ others' = [number |-> n, at |-> place, all |-> others.all \cup {place}]
      /\ Written(place, n, i)
  BY DEF OtherDelivers, TypeInv, Written
<1>2. i \in Issue /\ i.own
  BY DEF Issue, Nothing
<1> HIDE DEF n, i
<1>3. others \in Elsewhere
  BY DEF TypeInv
<1>4. /\ others' \in Elsewhere /\ others'.number = n
      /\ others'.at = place /\ others'.all = others.all \cup {place}
  BY <1>1, <1>3 DEF Elsewhere
<1> QED
  BY <1>1, <1>2, <1>4 DEF n

LEMMA TypeStep == TypeInv /\ [Next]_vars => TypeInv'
<1> SUFFICES ASSUME TypeInv, [Next]_vars PROVE TypeInv'
  OBVIOUS
<1>1. ASSUME NEW plan \in {"new", "update"}, Begin(plan) PROVE TypeInv'
  BY <1>1, BeginEffect DEF TypeInv
<1>2. CASE Localize
  <2>1. Entry(work.how) \notin {"idle", "artifact", "attach", "upload"}
    BY DEF Entry
  <2> QED
    BY <1>2, <2>1, LocalizeEffect DEF TypeInv
<1>3. CASE FetchComponents \/ ChooseComponent
  BY <1>3, FieldsEffect DEF TypeInv
<1>4. CASE SendFiles
  <2>1. work.pc = "files" /\ UNCHANGED <<case, place, issues, given, others, written>>
    BY <1>4, SendEffect
  <2>2. CASE Fail
    BY <2>1, <2>2, FailEffect DEF TypeInv
  <2>3. CASE ~Fail
    BY <1>4, <2>1, <2>3, SendEffect DEF TypeInv
  <2> QED
    BY <2>2, <2>3
<1>5. CASE Create
  <2>1. work.pc = "write" /\ NewNumber(work.at) \in Numbers /\ UNCHANGED <<case, place, others>>
    BY <1>5, CreateEffect
  <2>2. CASE Fail /\ UNCHANGED <<issues, given, written>>
    BY <2>1, <2>2, FailEffect DEF TypeInv
  <2>3. CASE ~(Fail /\ UNCHANGED <<issues, given, written>>)
    <3>1. /\ UNCHANGED delivery
          /\ work' \in Works /\ work'.pc = "attach" /\ work'.at = work.at
          /\ work'.how = work.how /\ work'.artifact = work.artifact
          /\ work'.number = NewNumber(work.at)
          /\ given' = [given EXCEPT ![work.at] = NewNumber(work.at)]
          /\ \E i \in Issue : Written(work.at, NewNumber(work.at), i)
      BY <1>5, <2>3, CreateEffect
    <3>2. work.at \in Places
      BY <2>1 DEF TypeInv
    <3>3. issues' \in [Places -> [Numbers -> Issue \cup {None}]]
      BY <2>1, <3>1, <3>2, IssueWritten
    <3> QED
      BY <2>1, <3>1, <3>2, <3>3 DEF TypeInv
  <2> QED
    BY <2>2, <2>3
<1>6. CASE Update
  <2>1. work.pc = "write" /\ work.how = "update" /\ UNCHANGED <<case, place, given, others>>
    BY <1>6, UpdateEffect
  <2>2. work.at \in Places /\ work.artifact \in Artifacts
    BY <2>1 DEF TypeInv
  <2>3. CASE Fail /\ UNCHANGED <<issues, written>>
    BY <2>1, <2>3, FailEffect DEF TypeInv
  <2>4. CASE /\ UNCHANGED <<issues, delivery, written>>
             /\ work' \in Works /\ work'.pc = Entry("create") /\ work'.at = work.at
             /\ work'.how = "create" /\ work'.artifact = work.artifact
    <3>1. work'.pc \notin {"attach", "upload"}
      BY <2>4 DEF Entry
    <3> QED
      BY <2>1, <2>2, <2>4, <3>1 DEF TypeInv
  <2>5. CASE /\ UNCHANGED delivery /\ delivery.external \in Numbers
             /\ work' \in Works /\ work'.pc = "attach" /\ work'.at = work.at
             /\ work'.how = work.how /\ work'.artifact = work.artifact
             /\ work'.number = delivery.external
             /\ \E i \in Issue : Written(work.at, delivery.external, i)
    <3>1. issues' \in [Places -> [Numbers -> Issue \cup {None}]]
      BY <2>2, <2>5, IssueWritten
    <3> QED
      BY <2>1, <2>2, <2>5, <3>1 DEF TypeInv
  <2> QED
    BY <1>6, <2>3, <2>4, <2>5, UpdateEffect
<1>7. CASE CompareFiles
  BY <1>7, CompareEffect DEF TypeInv
<1>8. ASSUME NEW f \in Files, Upload(f) PROVE TypeInv'
  <2>1. /\ work.pc = "upload" /\ UNCHANGED <<case, place, given, delivery, others, written>>
        /\ work' \in Works /\ work'.pc = "upload" /\ work'.at = work.at
        /\ work'.how = work.how /\ work'.artifact = work.artifact
        /\ work'.number = work.number
        /\ \/ UNCHANGED issues
           \/ \E i \in Issue : Written(work.at, work.number, i)
    BY <1>8, UploadEffect
  <2>2. work.at \in Places /\ work.number \in Numbers
    BY <2>1 DEF TypeInv
  <2>3. issues' \in [Places -> [Numbers -> Issue \cup {None}]]
    BY <2>1, <2>2, IssueWritten DEF TypeInv
  <2> QED
    BY <2>1, <2>2, <2>3 DEF TypeInv
<1>9. CASE SaveDelivery
  BY <1>9, SaveEffect DEF TypeInv
<1>10. ASSUME NEW p \in Places, NEW n \in Numbers, DeleteIssue(p, n) PROVE TypeInv'
  <2>1. /\ Written(p, n, None)
        /\ UNCHANGED <<case, place, given, delivery, others, work>>
    BY <1>10, DeleteEffect
  <2>2. issues' \in [Places -> [Numbers -> Issue \cup {None}]]
    BY <2>1, IssueWritten
  <2> QED
    BY <2>1, <2>2 DEF TypeInv
<1>11. ASSUME NEW p \in Places, ChangePlace(p) PROVE TypeInv'
  BY <1>11 DEF TypeInv, ChangePlace
<1>12. CASE OtherDelivers
  BY <1>12, OtherEffect, IssueWritten DEF TypeInv
<1>13. CASE UNCHANGED vars
  BY <1>13 DEF TypeInv, vars
<1> QED
  BY <1>1, <1>2, <1>3, <1>4, <1>5, <1>6, <1>7, <1>8, <1>9, <1>10, <1>11, <1>12, <1>13 DEF Next

LEMMA TypeInit == Init => TypeInv
<1> SUFFICES ASSUME Init PROVE TypeInv
  OBVIOUS
<1>1. Idle \in Works /\ Idle.pc = "idle"
  BY DEF Idle, Works, Steps
<1>2. 1 \in Places /\ Places \subseteq Numbers /\ 1 \in Numbers
  BY DriversAssumption
<1>3. delivery \in Rows /\ others \in Elsewhere
  BY <1>2 DEF Init, Rows, Elsewhere
<1>4. \A p \in Places : FirstNumber(case, p) \in Numbers
  BY <1>2 DEF FirstNumber
<1>5. \A p \in Places : [own |-> p = 1, shows |-> {}, holds |-> Nothing] \in Issue
  BY DEF Nothing, Issue
<1>6. issues \in [Places -> [Numbers -> Issue \cup {None}]] /\ given \in [Places -> Numbers]
  BY <1>4, <1>5 DEF Init
<1> QED
  BY <1>1, <1>2, <1>3, <1>6 DEF Init, TypeInv
-----------------------------------------------------------------------------
(* One artifact *)

(* What the delivery writes is settled once it is localized.                 *)
Settled ==
  IF case.translate THEN delivery.cache ELSE [translated |-> FALSE, marks |-> case.marks]
ArtifactInv ==
  /\ ~case.translate => delivery.cache = None
  /\ work.pc \notin {"idle", "artifact"} => work.artifact = Settled /\ Settled # None
  /\ Settled = None => written = {}
  /\ written \subseteq {Settled}

LEMMA ArtifactStep == TypeInv /\ ArtifactInv /\ [Next]_vars => ArtifactInv'
<1> SUFFICES ASSUME TypeInv, ArtifactInv, [Next]_vars PROVE ArtifactInv'
  OBVIOUS
(* Steps that write nothing. *)
<1>1. ASSUME UNCHANGED <<case, written>>, delivery'.cache = delivery.cache,
             \/ work'.pc \in {"idle", "artifact"}
             \/ work.pc \notin {"idle", "artifact"} /\ work'.artifact = work.artifact
      PROVE  ArtifactInv'
  BY <1>1 DEF ArtifactInv, Settled
(* Steps that write the artifact. *)
<1>2. ASSUME UNCHANGED <<case, delivery>>, work.pc = "write", work'.artifact = work.artifact,
             written' = written \cup {work.artifact}
      PROVE  ArtifactInv'
  BY <1>2 DEF ArtifactInv, Settled
<1>3. ASSUME NEW plan \in {"new", "update"}, Begin(plan) PROVE ArtifactInv'
  BY <1>1, <1>3, BeginEffect
<1>4. CASE Localize
  <2>1. None \notin Artifacts
    BY DriversAssumption
  <2>2. /\ UNCHANGED <<case, written>> /\ work'.artifact \in Artifacts
        /\ IF delivery.cache # None THEN delivery' = delivery /\ work'.artifact = delivery.cache
           ELSE IF ~case.translate
           THEN /\ delivery' = delivery
                /\ work'.artifact = [translated |-> FALSE, marks |-> case.marks]
           ELSE delivery'.cache = work'.artifact
    BY <1>4, LocalizeEffect
  <2>3. Settled' = work'.artifact /\ Settled \in {None, Settled'}
    BY <2>1, <2>2 DEF Settled, ArtifactInv
  <2> QED
    BY <2>1, <2>2, <2>3 DEF ArtifactInv
<1>5. CASE FetchComponents \/ ChooseComponent
  BY <1>1, <1>5, FieldsEffect
<1>6. CASE SendFiles
  BY <1>1, <1>6, SendEffect, FailEffect
<1>7. CASE Create
  <2>1. CASE Fail /\ UNCHANGED <<issues, given, written>>
    BY <1>1, <1>7, <2>1, CreateEffect, FailEffect
  <2>2. CASE ~(Fail /\ UNCHANGED <<issues, given, written>>)
    BY <1>2, <1>7, <2>2, CreateEffect
  <2> QED
    BY <2>1, <2>2
<1>8. CASE Update
  <2>1. work.pc = "write" /\ UNCHANGED case
    BY <1>8, UpdateEffect
  <2>2. CASE Fail /\ UNCHANGED <<issues, written>>
    BY <1>1, <2>1, <2>2, FailEffect
  <2>3. CASE UNCHANGED <<delivery, written>> /\ work'.artifact = work.artifact
    BY <1>1, <2>1, <2>3
  <2>4. CASE UNCHANGED delivery /\ work'.artifact = work.artifact
             /\ written' = written \cup {work.artifact}
    BY <1>2, <2>1, <2>4
  <2> QED
    BY <1>8, <2>2, <2>3, <2>4, UpdateEffect
<1>9. CASE CompareFiles
  BY <1>1, <1>9, CompareEffect
<1>10. ASSUME NEW f \in Files, Upload(f) PROVE ArtifactInv'
  BY <1>1, <1>10, UploadEffect
<1>11. CASE SaveDelivery
  BY <1>1, <1>11, SaveEffect
<1>12. ASSUME NEW p \in Places, NEW n \in Numbers, DeleteIssue(p, n) PROVE ArtifactInv'
  BY <1>12 DEF DeleteIssue, ArtifactInv, Settled
<1>13. ASSUME NEW p \in Places, ChangePlace(p) PROVE ArtifactInv'
  BY <1>13 DEF ChangePlace, ArtifactInv, Settled
<1>14. CASE OtherDelivers
  BY <1>14 DEF OtherDelivers, ArtifactInv, Settled
<1>15. CASE UNCHANGED vars
  BY <1>15 DEF vars, ArtifactInv, Settled
<1> QED
  BY <1>3, <1>4, <1>5, <1>6, <1>7, <1>8, <1>9, <1>10, <1>11, <1>12, <1>13, <1>14, <1>15
     DEF Next

LEMMA ArtifactInit == Init => ArtifactInv
<1> SUFFICES ASSUME Init PROVE ArtifactInv
  OBVIOUS
<1>1. work.pc = "idle"
  BY DEF Init, Idle
<1>2. delivery.cache = None
  BY DEF Init
<1> QED
  BY <1>1, <1>2 DEF Init, ArtifactInv

(* All that a delivery ever writes is one artifact.                          *)
THEOREM ArtifactIsOne == Spec => []OneArtifact
<1>1. TypeInv /\ ArtifactInv => OneArtifact
  <2> SUFFICES ASSUME ArtifactInv PROVE Cardinality(written) <= 1
    BY DEF OneArtifact
  <2>1. Cardinality({Settled}) = 1 /\ Cardinality({}) = 0
    BY FS_Singleton, FS_EmptySet
  <2>2. written = {} \/ written = {Settled}
    BY DEF ArtifactInv
  <2> QED
    BY <2>1, <2>2
<1> QED
  BY <1>1, TypeInit, TypeStep, ArtifactInit, ArtifactStep, PTL DEF Spec
-----------------------------------------------------------------------------
(* Strangers *)

(* The numbers of the issues there are have been given.                      *)
Given == \A p \in Places, n \in Numbers : issues[p][n] # None => n <= given[p]

(* The issues a delivery may write to are not somebody else's.               *)
Mine(p, n) == issues[p][n] # None => issues[p][n].own
Safe(at, n) ==
  PlaceIsTold =>
    \A p \in Places : case.target = "feishu_bitable" \/ p = at => Mine(p, n)

Target(p, n) ==
  \/ delivery.at = p /\ delivery.external = n
  \/ work.pc \in {"attach", "upload"} /\ work.at = p /\ work.number = n

(* The number a delivery took over is that of another delivery's issue, in   *)
(* one of the places where there are such; the last of them is compared.     *)
ReferenceInv ==
  /\ IF others.all = {} THEN others.number = None
     ELSE /\ others.number \in Numbers /\ others.at \in others.all
          /\ Safe(others.at, others.number)
  /\ delivery.at # None => delivery.external # None
  /\ delivery.at = None /\ delivery.external # None =>
       \E p \in others.all : Safe(p, delivery.external)

TargetInv ==
  /\ Given
  /\ \A p \in Places, n \in Numbers : Target(p, n) => Safe(p, n) /\ n <= given[p]
  /\ ReferenceInv
  /\ work.pc # "idle" /\ work.how = "update" =>
       /\ delivery.external # None
       /\ case.target = "github_issue" =>
            IF delivery.at # None THEN work.at = delivery.at ELSE work.at \in others.all

(* A new number is above all that were given where it counts.               *)
LEMMA HighestGiven ==
  ASSUME TypeInv
  PROVE  \E n \in Numbers : /\ \E p \in Places : given[p] = n
                            /\ \A p \in Places : given[p] <= n
<1> DEFINE T == {n \in Nat : \A p \in Places : given[p] <= n}
<1>1. MaxIssues \in Nat /\ Places \subseteq Numbers /\ 1 \in Places
  BY DriversAssumption
<1>2. \A p \in Places : given[p] \in Nat /\ given[p] >= 1 /\ given[p] <= MaxIssues
  BY <1>1 DEF TypeInv, Numbers
<1>3. MaxIssues \in T
  BY <1>1, <1>2
<1>4. PICK m \in T : \A n \in T : ~(<<n, m>> \in OpToRel(<, Nat))
  BY <1>3, NatLessThanWellFounded, WFMin
<1>5. \A n \in T : ~(n < m)
  BY <1>4 DEF OpToRel
<1>6. m \in Nat /\ \A p \in Places : given[p] <= m
  OBVIOUS
<1>7. \E p \in Places : given[p] = m
  <2> SUFFICES ASSUME \A p \in Places : given[p] # m PROVE FALSE
    OBVIOUS
  <2>1. \A p \in Places : given[p] <= m - 1
    BY <1>2, <1>6
  <2>2. m - 1 \in Nat
    BY <1>1, <1>2, <1>6
  <2>3. m - 1 \in T
    BY <2>1, <2>2
  <2> QED
    BY <1>5, <1>6, <2>3
<1>8. m \in Numbers
  BY <1>7 DEF TypeInv
<1> QED
  BY <1>6, <1>7, <1>8

LEMMA NewNumberIsNew ==
  ASSUME TypeInv, NEW a \in Places
  PROVE  \A p \in Places : case.target = "feishu_bitable" \/ p = a
                             => given[p] < NewNumber(a)
<1>1. given \in [Places -> Nat]
  BY DriversAssumption DEF TypeInv, Numbers
<1>2. CASE case.target = "feishu_bitable"
  <2> DEFINE High(n) == /\ \E p \in Places : given[p] = n
                        /\ \A p \in Places : given[p] <= n
             m == CHOOSE n \in Numbers : High(n)
  <2>1. m \in Numbers /\ High(m)
    <3>1. \E n \in Numbers : High(n)
      BY HighestGiven
    <3> HIDE DEF High
    <3> QED
      BY <3>1
  <2>2. NewNumber(a) = 1 + m
    BY <1>2 DEF NewNumber
  <2>3. m \in Nat
    BY <2>1, DriversAssumption DEF Numbers
  <2> HIDE DEF m
  <2> QED
    BY <1>1, <2>1, <2>2, <2>3
<1>3. CASE case.target # "feishu_bitable"
  BY <1>1, <1>3 DEF NewNumber
<1> QED
  BY <1>2, <1>3

(* An issue that is there after a step is own, or was there and is as own as *)
(* it was.                                                                   *)
OwnOnly ==
  \A p \in Places, n \in Numbers :
    issues'[p][n] # None =>
      \/ issues'[p][n].own
      \/ issues[p][n] # None /\ issues'[p][n].own = issues[p][n].own

LEMMA SafeStays ==
  ASSUME UNCHANGED case, others.all \subseteq others'.all, OwnOnly,
         NEW p, NEW n \in Numbers, Safe(p, n)
  PROVE  Safe(p, n)'
<1>1. PlaceIsTold' => PlaceIsTold
  BY DEF PlaceIsTold
<1> QED
  BY <1>1 DEF Safe, Mine, OwnOnly

LEMMA ReferenceStays ==
  ASSUME TypeInv, ReferenceInv, UNCHANGED <<case, others>>, OwnOnly,
         delivery'.external = delivery.external, delivery'.at = delivery.at
  PROVE  ReferenceInv'
<1>1. delivery.external \in Numbers \cup {None}
  BY DEF TypeInv, Rows
<1>2. \A p, n : n \in Numbers /\ Safe(p, n) => Safe(p, n)'
  BY SafeStays
<1>3. others.all # {} => Safe(others.at, others.number)'
  BY <1>2 DEF ReferenceInv
<1>4. delivery.at = None /\ delivery.external # None =>
        \E p \in others.all : Safe(p, delivery.external)'
  BY <1>1, <1>2 DEF ReferenceInv
<1> QED
  BY <1>3, <1>4 DEF ReferenceInv

(* Steps that turn the adapter elsewhere without writing an issue.           *)
LEMMA TargetFrame ==
  ASSUME TypeInv, TargetInv, UNCHANGED <<case, given, others>>, OwnOnly,
         \A p \in Places, n \in Numbers : issues'[p][n] # None => issues[p][n] # None,
         delivery'.external = delivery.external, delivery'.at = delivery.at,
         work'.pc \in {"attach", "upload"} =>
           /\ work.pc \in {"attach", "upload"}
           /\ work'.at = work.at /\ work'.number = work.number,
         work'.pc # "idle" /\ work'.how = "update" =>
           work.pc # "idle" /\ work.how = "update" /\ work'.at = work.at
  PROVE  TargetInv'
<1>1. Given'
  BY DEF TargetInv, Given
<1>2. ASSUME NEW p \in Places, NEW n \in Numbers, Target(p, n)' PROVE Safe(p, n)'
  <2>1. Target(p, n)
    BY <1>2 DEF Target
  <2> QED
    BY <2>1, SafeStays DEF TargetInv
<1>3. ReferenceInv'
  BY ReferenceStays DEF TargetInv
<1>4. \A p \in Places, n \in Numbers : Target(p, n)' => n <= given'[p]
  BY DEF Target, TargetInv
<1> QED
  BY <1>1, <1>2, <1>3, <1>4 DEF TargetInv

(* The issue to write to is not somebody else's.                            *)
LEMMA UpdateIsSafe ==
  ASSUME TypeInv, TargetInv, work.pc = "write", work.how = "update"
  PROVE  /\ work.at \in Places /\ delivery.external \in Numbers
         /\ Safe(work.at, delivery.external)
<1>1. /\ work.at \in Places /\ delivery.external # None /\ delivery \in Rows
      /\ others \in Elsewhere
  BY DEF TypeInv, TargetInv
<1>2. delivery.external \in Numbers /\ delivery.at \in Places \cup {None}
  BY <1>1 DEF Rows
<1>3. case.target \in {"jira", "feishu_bitable", "github_issue"}
  BY DriversAssumption DEF TypeInv
<1>4. PICK p : /\ Safe(p, delivery.external)
               /\ case.target = "github_issue" /\ PlaceIsTold => work.at = p
  <2>1. CASE delivery.at # None
    <3>1. Safe(delivery.at, delivery.external)
      BY <1>2, <2>1 DEF TargetInv, Target
    <3> QED
      BY <2>1, <3>1 DEF TargetInv
  <2>2. CASE delivery.at = None
    <3>1. PICK p \in others.all : Safe(p, delivery.external)
      BY <1>1, <2>2 DEF TargetInv, ReferenceInv
    <3>2. case.target = "github_issue" => work.at \in others.all
      BY <2>2 DEF TargetInv
    <3>3. case.target = "github_issue" /\ PlaceIsTold => work.at = p
      BY <3>1, <3>2 DEF PlaceIsTold
    <3> QED
      BY <3>1, <3>3
  <2> QED
    BY <2>1, <2>2
<1>5. Safe(work.at, delivery.external)
  BY <1>3, <1>4 DEF Safe, PlaceIsTold
<1> QED
  BY <1>1, <1>2, <1>5

(* An issue that is written stays whose it is, or is new and own.            *)
LEMMA WriteStep ==
  ASSUME TypeInv, NEW a \in Places, NEW m \in Numbers, NEW i \in Issue,
         Written(a, m, i),
         i.own \/ (issues[a][m] # None /\ i.own = issues[a][m].own)
  PROVE  OwnOnly
<1> SUFFICES ASSUME NEW p \in Places, NEW n \in Numbers, issues'[p][n] # None
             PROVE  \/ issues'[p][n].own
                    \/ issues[p][n] # None /\ issues'[p][n].own = issues[p][n].own
  BY DEF OwnOnly
<1>1. CASE p # a \/ n # m
  BY <1>1, IssueWritten
<1>2. CASE p = a /\ n = m
  BY <1>2, IssueWritten
<1> QED
  BY <1>1, <1>2

LEMMA WriteTarget ==
  ASSUME TypeInv, TargetInv, UNCHANGED <<case, delivery, others>>, OwnOnly,
         work.pc # "idle", work'.at = work.at, work'.how = work.how, Given',
         \A p \in Places : given[p] <= given'[p],
         given \in [Places -> Nat], given' \in [Places -> Nat],
         NEW m \in Numbers, work'.number = m, NEW a \in Places, work'.at = a, Safe(a, m)',
         m <= given'[a]
  PROVE  TargetInv'
<1>1. ASSUME NEW p \in Places, NEW n \in Numbers, Target(p, n)' PROVE Safe(p, n)'
  <2>1. CASE delivery.at = p /\ delivery.external = n
    <3>1. Safe(p, n)
      BY <2>1 DEF TargetInv, Target
    <3> QED
      BY <3>1, SafeStays
  <2>2. CASE p = a /\ n = m
    BY <2>2
  <2> QED
    BY <1>1, <2>1, <2>2 DEF Target
<1>2. ReferenceInv'
  BY ReferenceStays DEF TargetInv
<1>3. ASSUME NEW p \in Places, NEW n \in Numbers, Target(p, n)' PROVE n <= given'[p]
  <2>1. CASE delivery.at = p /\ delivery.external = n
    <3>1. n <= given[p]
      BY <2>1 DEF TargetInv, Target
    <3>2. n \in Nat
      BY DEF Numbers
    <3> QED
      BY <3>1, <3>2
  <2>2. CASE p = a /\ n = m
    BY <2>2
  <2> QED
    BY <1>3, <2>1, <2>2 DEF Target
<1> QED
  BY <1>1, <1>2, <1>3 DEF TargetInv

LEMMA CreateTarget == ASSUME TypeInv, TargetInv, Create PROVE TargetInv'
<1>1. work.pc = "write" /\ NewNumber(work.at) \in Numbers /\ UNCHANGED <<case, place, others>>
  BY CreateEffect
<1>2. CASE Fail /\ UNCHANGED <<issues, given>>
  <2>1. OwnOnly
    BY <1>2 DEF OwnOnly
  <2> QED
    BY <1>1, <1>2, <2>1, FailEffect, TargetFrame
<1>3. CASE ~(Fail /\ UNCHANGED <<issues, given>>)
  <2>1. PICK a \in Places : a = work.at
    BY <1>1 DEF TypeInv
  <2>2. PICK m \in Numbers : m = NewNumber(work.at)
    BY <1>1
  <2>3. PICK i \in Issue : i.own /\ Written(a, m, i)
    BY <1>3, <2>1, <2>2, CreateEffect
  <2>4. /\ UNCHANGED delivery /\ work'.pc = "attach" /\ work'.at = a
        /\ work'.how = work.how /\ work'.number = m
        /\ given' = [given EXCEPT ![a] = m]
    BY <1>3, <2>1, <2>2, CreateEffect
  <2>5. \A p \in Places : case.target = "feishu_bitable" \/ p = a => given[p] < m
    BY <2>1, <2>2, NewNumberIsNew
  <2>6. /\ issues'[a][m] = i
        /\ \A q \in Places, n \in Numbers : q # a \/ n # m => issues'[q][n] = issues[q][n]
    BY <2>3, IssueWritten
  <2>7. OwnOnly
    BY <2>3, WriteStep
  <2>8. given \in [Places -> Nat] /\ m \in Nat
    BY DriversAssumption DEF TypeInv, Numbers
  <2>11. /\ given' \in [Places -> Nat] /\ m <= given'[a]
         /\ \A p \in Places : given[p] <= given'[p]
    BY <2>4, <2>5, <2>8
  <2>9. Given'
    <3> SUFFICES ASSUME NEW p \in Places, NEW n \in Numbers, issues'[p][n] # None
                 PROVE  n <= given'[p]
      BY DEF Given
    <3>1. n \in Nat
      BY DEF Numbers
    <3>2. CASE p = a /\ n = m
      BY <2>4, <2>8, <3>2
    <3>3. CASE p # a \/ n # m
      <4>1. n <= given[p]
        BY <2>6, <3>3 DEF TargetInv, Given
      <4>2. given[p] <= given'[p]
        BY <2>4, <2>5, <2>8
      <4> QED
        BY <2>4, <2>8, <3>1, <4>1, <4>2
    <3> QED
      BY <3>2, <3>3
  <2>10. Safe(a, m)'
    <3> SUFFICES ASSUME NEW p \in Places, case.target = "feishu_bitable" \/ p = a,
                        issues'[p][m] # None
                 PROVE  issues'[p][m].own
      BY <1>1 DEF Safe, Mine
    <3>1. CASE p = a
      BY <2>3, <2>6, <3>1
    <3>2. CASE p # a
      <4>1. m <= given[p] /\ given[p] < m
        BY <2>5, <2>6, <3>2 DEF TargetInv, Given
      <4> QED
        BY <2>8, <4>1
    <3> QED
      BY <3>1, <3>2
  <2> QED
    BY <1>1, <2>1, <2>4, <2>7, <2>8, <2>9, <2>10, <2>11, WriteTarget
<1> QED
  BY <1>2, <1>3

LEMMA UpdateTarget == ASSUME TypeInv, TargetInv, Update PROVE TargetInv'
<1>1. work.pc = "write" /\ work.how = "update" /\ UNCHANGED <<case, place, given, others>>
  BY UpdateEffect
<1>2. PICK a \in Places : a = work.at
  BY <1>1, UpdateIsSafe
<1>3. PICK m \in Numbers : m = delivery.external
  BY <1>1, UpdateIsSafe
<1>4. Safe(a, m)
  BY <1>1, <1>2, <1>3, UpdateIsSafe
<1>5. CASE Fail /\ UNCHANGED <<issues, written>>
  <2>1. OwnOnly
    BY <1>5 DEF OwnOnly
  <2> QED
    BY <1>1, <1>5, <2>1, FailEffect, TargetFrame
<1>6. CASE UNCHANGED <<issues, delivery>> /\ work'.pc = Entry("create") /\ work'.how = "create"
  <2>1. OwnOnly
    BY <1>6 DEF OwnOnly
  <2>2. work'.pc \notin {"attach", "upload"}
    BY <1>6 DEF Entry
  <2> QED
    BY <1>1, <1>6, <2>1, <2>2, TargetFrame
<1>7. ASSUME NEW i \in Issue, issues[a][m] # None, i.own = issues[a][m].own,
             Written(a, m, i), UNCHANGED delivery,
             work'.at = work.at, work'.how = work.how, work'.number = m
      PROVE  TargetInv'
  <2>1. OwnOnly
    BY <1>7, WriteStep
  <2>2. /\ issues'[a][m] = i
        /\ \A q \in Places, n \in Numbers : q # a \/ n # m => issues'[q][n] = issues[q][n]
    BY <1>7, IssueWritten
  <2>3. Given'
    BY <1>1, <1>7, <2>2 DEF TargetInv, Given
  <2>4. Safe(a, m)'
    BY <1>1, <1>4, <2>1, SafeStays
  <2>5. given \in [Places -> Nat] /\ m <= given[a]
    BY <1>7, DriversAssumption DEF TypeInv, Numbers, TargetInv, Given
  <2>6. /\ given' \in [Places -> Nat] /\ m <= given'[a]
        /\ \A p \in Places : given[p] <= given'[p]
    BY <1>1, <2>5
  <2> QED
    BY <1>1, <1>2, <1>7, <2>1, <2>3, <2>4, <2>5, <2>6, WriteTarget
<1>8. \/ Fail /\ UNCHANGED <<issues, written>>
      \/ UNCHANGED <<issues, delivery>> /\ work'.pc = Entry("create") /\ work'.how = "create"
      \/ /\ Known /\ UNCHANGED delivery
         /\ work'.at = work.at /\ work'.how = work.how /\ work'.number = m
         /\ \E i \in Issue : /\ i.own = issues[a][m].own
                             /\ Written(a, m, i)
  BY <1>2, <1>3, UpdateEffect
<1> QED
  BY <1>2, <1>3, <1>5, <1>6, <1>7, <1>8 DEF Known

LEMMA UploadTarget == ASSUME TypeInv, TargetInv, NEW f \in Files, Upload(f) PROVE TargetInv'
<1>1. /\ work.pc = "upload" /\ UNCHANGED <<case, place, given, delivery, others>>
      /\ work'.pc = "upload" /\ work'.at = work.at
      /\ work'.how = work.how /\ work'.number = work.number
  BY UploadEffect
<1>2. PICK a \in Places : a = work.at
  BY <1>1 DEF TypeInv
<1>3. PICK m \in Numbers : m = work.number
  BY <1>1 DEF TypeInv
<1>4. CASE UNCHANGED issues
  <2>1. OwnOnly
    BY <1>4 DEF OwnOnly
  <2> QED
    BY <1>1, <1>4, <2>1, TargetFrame
<1>5. ASSUME NEW i \in Issue, issues[a][m] # None, i.own = issues[a][m].own,
             Written(a, m, i)
      PROVE  TargetInv'
  <2>1. OwnOnly
    BY <1>5, WriteStep
  <2>2. \A p \in Places, n \in Numbers : issues'[p][n] # None => issues[p][n] # None
    BY <1>5, IssueWritten
  <2> QED
    BY <1>1, <2>1, <2>2, TargetFrame
<1>6. \/ UNCHANGED issues
      \/ \E i \in Issue : /\ issues[a][m] # None /\ i.own = issues[a][m].own
                          /\ Written(a, m, i)
  BY <1>2, <1>3, UploadEffect
<1> QED
  BY <1>4, <1>5, <1>6

LEMMA OtherTarget == ASSUME TypeInv, TargetInv, OtherDelivers PROVE TargetInv'
<1>1. PICK a \in Places : a = place
  BY OtherEffect
<1>2. PICK m \in Numbers : m = NewNumber(a)
  BY <1>1, OtherEffect
<1>3. PICK i \in Issue : i.own /\ Written(a, m, i)
  BY <1>1, <1>2, OtherEffect
<1>4. /\ UNCHANGED <<case, delivery, work>> /\ given' = [given EXCEPT ![a] = m]
      /\ others'.number = m /\ others'.at = a /\ others'.all = others.all \cup {a}
  BY <1>1, <1>2, OtherEffect
<1>5. \A p \in Places : case.target = "feishu_bitable" \/ p = a => given[p] < m
  BY <1>2, NewNumberIsNew
<1>6. /\ issues'[a][m] = i
      /\ \A q \in Places, n \in Numbers : q # a \/ n # m => issues'[q][n] = issues[q][n]
  BY <1>3, IssueWritten
<1>7. OwnOnly
  BY <1>3, WriteStep
<1>8. given \in [Places -> Nat] /\ m \in Nat
  BY DriversAssumption DEF TypeInv, Numbers
<1>9. \A p \in Places : given[p] <= given'[p] /\ given'[p] \in Nat
  BY <1>4, <1>5, <1>8
<1>10. Given'
  <2> SUFFICES ASSUME NEW p \in Places, NEW n \in Numbers, issues'[p][n] # None
               PROVE  n <= given'[p]
    BY DEF Given
  <2>1. n \in Nat
    BY DEF Numbers
  <2>2. CASE p = a /\ n = m
    BY <1>4, <1>8, <2>2
  <2>3. CASE p # a \/ n # m
    <3>1. n <= given[p]
      BY <1>6, <2>3 DEF TargetInv, Given
    <3> QED
      BY <1>8, <1>9, <2>1, <3>1
  <2> QED
    BY <2>2, <2>3
<1>11. \A p, n : n \in Numbers /\ Safe(p, n) => Safe(p, n)'
  BY <1>4, <1>7, SafeStays
<1>12. Safe(a, m)'
  <2> SUFFICES ASSUME NEW p \in Places, case.target = "feishu_bitable" \/ p = a,
                      issues'[p][m] # None
               PROVE  issues'[p][m].own
    BY <1>4 DEF Safe, Mine
  <2>1. CASE p = a
    BY <1>3, <1>6, <2>1
  <2>2. CASE p # a
    <3>1. m <= given[p] /\ given[p] < m
      BY <1>5, <1>6, <2>2 DEF TargetInv, Given
    <3> QED
      BY <1>8, <3>1
  <2> QED
    BY <2>1, <2>2
<1>13. ASSUME NEW p \in Places, NEW n \in Numbers, Target(p, n)'
       PROVE  Safe(p, n)' /\ n <= given'[p]
  <2>1. Target(p, n)
    BY <1>4, <1>13 DEF Target
  <2>2. Safe(p, n) /\ n <= given[p]
    BY <2>1 DEF TargetInv
  <2>3. n \in Nat
    BY DEF Numbers
  <2> QED
    BY <1>8, <1>9, <1>11, <2>2, <2>3
<1>14. ReferenceInv'
  <2>1. delivery.external \in Numbers \cup {None}
    BY DEF TypeInv, Rows
  <2>2. delivery.at = None /\ delivery.external # None =>
          \E p \in others'.all : Safe(p, delivery.external)'
    BY <1>4, <1>11, <2>1 DEF TargetInv, ReferenceInv
  <2> QED
    BY <1>4, <1>12, <2>2 DEF TargetInv, ReferenceInv
<1> QED
  BY <1>4, <1>10, <1>13, <1>14 DEF TargetInv

LEMMA TargetStep == TypeInv /\ TargetInv /\ [Next]_vars => TargetInv'
<1> SUFFICES ASSUME TypeInv, TargetInv, [Next]_vars PROVE TargetInv'
  OBVIOUS
<1>1. ASSUME UNCHANGED <<case, given, others, issues>>,
             delivery'.external = delivery.external, delivery'.at = delivery.at,
             work'.pc \in {"attach", "upload"} =>
               /\ work.pc \in {"attach", "upload"}
               /\ work'.at = work.at /\ work'.number = work.number,
             work'.pc # "idle" /\ work'.how = "update" =>
               work.pc # "idle" /\ work.how = "update" /\ work'.at = work.at
      PROVE  TargetInv'
  <2>1. OwnOnly
    BY <1>1 DEF OwnOnly
  <2> QED
    BY <1>1, <2>1, TargetFrame
<1>2. ASSUME NEW plan \in {"new", "update"}, Begin(plan) PROVE TargetInv'
  <2>1. /\ UNCHANGED <<case, given, others, issues>> /\ work'.pc = "artifact"
        /\ work'.at = place
        /\ work'.how = (IF Updates(plan) /\ SamePlace THEN "update" ELSE "create")
        /\ delivery'.external = (IF Updates(plan) THEN Reference ELSE delivery.external)
        /\ delivery'.at = delivery.at
    BY <1>2, BeginEffect
  <2>2. OwnOnly
    BY <2>1 DEF OwnOnly
  <2>3. delivery.at # None => delivery'.external = delivery.external
    BY <2>1 DEF TargetInv, ReferenceInv, Reference
  <2>4. None \notin Places /\ delivery.external \in Numbers \cup {None}
    BY DriversAssumption DEF TypeInv, Rows
  <2>5. ASSUME NEW p \in Places, NEW n \in Numbers, Target(p, n)'
        PROVE  Safe(p, n)' /\ n <= given'[p]
    <3>1. Target(p, n)
      BY <2>1, <2>3, <2>4, <2>5 DEF Target
    <3> QED
      BY <2>1, <2>2, <3>1, SafeStays DEF TargetInv
  <2>6. Given'
    BY <2>1 DEF TargetInv, Given
  <2>7. PICK e \in Numbers \cup {None} : e = delivery'.external
    BY <2>1, <2>4 DEF TargetInv, ReferenceInv, Reference
  <2>8. delivery.at = None /\ e # None => \E p \in others.all : Safe(p, e)
    BY <2>1, <2>7 DEF TargetInv, ReferenceInv, Updates, Reference
  <2>9. \A p, n : n \in Numbers /\ Safe(p, n) => Safe(p, n)'
    BY <2>1, <2>2, SafeStays
  <2>10. ReferenceInv'
    <3>1. others.all # {} => Safe(others.at, others.number)'
      BY <2>1, <2>9 DEF TargetInv, ReferenceInv
    <3>2. delivery.at = None /\ e # None => \E p \in others.all : Safe(p, e)'
      BY <2>8, <2>9
    <3> QED
      BY <2>1, <2>3, <2>7, <3>1, <3>2 DEF TargetInv, ReferenceInv
  <2>11. ASSUME work'.how = "update"
         PROVE  /\ delivery'.external # None
                /\ case.target = "github_issue" =>
                     IF delivery.at # None THEN place = delivery.at ELSE place \in others.all
    <3>1. Updates(plan) /\ SamePlace
      BY <2>1, <2>11
    <3>2. delivery'.external # None
      BY <2>1, <3>1 DEF Updates
    <3>3. delivery.at = None => others.all # {} /\ others.at \in others.all
      BY <2>7, <2>8, <3>2 DEF TargetInv, ReferenceInv
    <3>4. delivery.at = None => others.at \in Places
      BY <3>3 DEF TypeInv, Elsewhere
    <3> QED
      BY <2>4, <3>1, <3>2, <3>3, <3>4 DEF SamePlace, Previous
  <2> QED
    BY <2>1, <2>5, <2>6, <2>10, <2>11 DEF TargetInv
<1>3. CASE Localize
  <2>1. Entry(work.how) \notin {"attach", "upload"}
    BY DEF Entry
  <2>2. delivery'.external = delivery.external /\ delivery'.at = delivery.at
    BY <1>3, LocalizeEffect
  <2> QED
    BY <1>1, <1>3, <2>1, <2>2, LocalizeEffect
<1>4. CASE FetchComponents \/ ChooseComponent
  BY <1>1, <1>4, FieldsEffect
<1>5. CASE SendFiles
  BY <1>1, <1>5, SendEffect, FailEffect
<1>6. CASE CompareFiles
  BY <1>1, <1>6, CompareEffect
<1>7. CASE SaveDelivery
  <2>1. /\ UNCHANGED <<case, given, others, issues>> /\ work'.pc = "idle"
        /\ work.pc \in {"attach", "upload"}
        /\ delivery'.external = work.number /\ delivery'.at = work.at
    BY <1>7, SaveEffect
  <2>2. OwnOnly
    BY <2>1 DEF OwnOnly
  <2>3. ASSUME NEW p \in Places, NEW n \in Numbers, Target(p, n)'
        PROVE  Safe(p, n)' /\ n <= given'[p]
    <3>1. Target(p, n)
      BY <2>1, <2>3 DEF Target
    <3> QED
      BY <2>1, <2>2, <3>1, SafeStays DEF TargetInv
  <2>4. Given'
    BY <2>1 DEF TargetInv, Given
  <2>5. work.number # None /\ work.at # None
    BY <2>1, DriversAssumption DEF TypeInv
  <2>6. others.all # {} => Safe(others.at, others.number)'
    BY <2>1, <2>2, SafeStays DEF TargetInv, ReferenceInv
  <2>7. ReferenceInv'
    BY <2>1, <2>5, <2>6 DEF TargetInv, ReferenceInv
  <2> QED
    BY <2>1, <2>3, <2>4, <2>7 DEF TargetInv
<1>8. ASSUME NEW p \in Places, NEW n \in Numbers, DeleteIssue(p, n) PROVE TargetInv'
  <2>1. UNCHANGED <<case, given, delivery, others, work>> /\ Written(p, n, None)
    BY <1>8, DeleteEffect
  <2>2. \A q \in Places, m \in Numbers : issues'[q][m] # None => issues'[q][m] = issues[q][m]
    BY <2>1, IssueWritten
  <2>3. OwnOnly
    BY <2>2 DEF OwnOnly
  <2> QED
    BY <2>1, <2>2, <2>3, TargetFrame
<1>9. ASSUME NEW p \in Places, ChangePlace(p) PROVE TargetInv'
  BY <1>1, <1>9 DEF ChangePlace
<1>10. CASE UNCHANGED vars
  BY <1>1, <1>10 DEF vars
<1> QED
  BY <1>2, <1>3, <1>4, <1>5, <1>6, <1>7, <1>8, <1>9, <1>10,
     CreateTarget, UpdateTarget, UploadTarget, OtherTarget DEF Next

LEMMA TargetInit == Init => TargetInv
<1> SUFFICES ASSUME Init PROVE TargetInv
  OBVIOUS
<1>1. work.pc = "idle"
  BY DEF Init, Idle
<1>2. 1 \in Places /\ Places \subseteq Nat
  BY DriversAssumption DEF Numbers
<1>3. \A p \in Places : FirstNumber(case, p) \in Nat
  BY <1>2 DEF FirstNumber
<1>4. ASSUME NEW p \in Places, NEW n \in Numbers, issues[p][n] # None
      PROVE  n = FirstNumber(case, p) /\ issues[p][n].own = (p = 1)
  BY <1>4 DEF Init
<1>5. Given
  BY <1>3, <1>4 DEF Init, Given
<1>6. \A p \in Places, n \in Numbers : ~Target(p, n)
  BY <1>1, DriversAssumption DEF Target, Init
<1>7. Safe(1, 1)
  <2>1. 1 \in Numbers
    BY <1>2, DriversAssumption
  <2>2. ASSUME NEW q \in Places, case.target = "feishu_bitable" \/ q = 1,
               issues[q][1] # None
        PROVE  issues[q][1].own
    <3>1. 1 = FirstNumber(case, q) /\ issues[q][1].own = (q = 1)
      BY <1>4, <2>1, <2>2
    <3> QED
      BY <2>2, <3>1 DEF FirstNumber
  <2> QED
    BY <2>2 DEF Safe, Mine
<1>8. ReferenceInv
  <2>1. 1 \in Numbers /\ delivery.at = None /\ delivery.external = None
    BY DriversAssumption DEF Init
  <2> QED
    BY <1>7, <2>1 DEF Init, ReferenceInv
<1> QED
  BY <1>1, <1>5, <1>6, <1>8 DEF TargetInv

(* A subscription to Feishu or GitHub whose place changed, an update that     *)
(* falls back to a new issue, a number that is given twice: as long as the    *)
(* place is told, no step changes or deletes an issue of somebody else.       *)
LEMMA StrangersStep ==
  ASSUME TypeInv, TargetInv, [Next]_vars, PlaceIsTold,
         NEW p \in Places, NEW n \in Numbers, issues[p][n] # None, ~issues[p][n].own
  PROVE  issues'[p][n] = issues[p][n]
<1>1. CASE UNCHANGED issues
  BY <1>1
<1>2. ASSUME NEW a \in Places, NEW m \in Numbers, NEW i,
             i \in Issue \/ i = None, a # p \/ m # n, Written(a, m, i)
      PROVE  issues'[p][n] = issues[p][n]
  BY <1>2, IssueWritten
<1>3. CASE Create
  <2>1. work.pc = "write" /\ NewNumber(work.at) \in Numbers
    BY <1>3, CreateEffect
  <2>2. PICK a \in Places : a = work.at
    BY <2>1 DEF TypeInv
  <2>3. PICK m \in Numbers : m = NewNumber(work.at)
    BY <2>1
  <2>4. given[a] < m /\ given[a] \in Nat /\ m \in Nat /\ n \in Nat
    BY <2>2, <2>3, NewNumberIsNew, DriversAssumption DEF TypeInv, Numbers
  <2>5. a = p => n <= given[p]
    BY DEF TargetInv, Given
  <2>6. a # p \/ m # n
    BY <2>4, <2>5
  <2>7. UNCHANGED issues \/ \E i \in Issue : Written(a, m, i)
    BY <1>3, <2>2, <2>3, CreateEffect
  <2> QED
    BY <1>1, <1>2, <2>6, <2>7
<1>4. CASE Update
  <2>1. work.pc = "write" /\ work.how = "update"
    BY <1>4, UpdateEffect
  <2>2. PICK a \in Places : a = work.at
    BY <2>1 DEF TypeInv
  <2>3. PICK m \in Numbers : m = delivery.external
    BY <2>1, UpdateIsSafe
  <2>4. Safe(a, m)
    BY <2>1, <2>2, <2>3, UpdateIsSafe
  <2>5. a # p \/ m # n
    BY <2>4 DEF Safe, Mine
  <2>6. UNCHANGED issues \/ \E i \in Issue : Written(a, m, i)
    BY <1>4, <2>2, <2>3, UpdateEffect
  <2> QED
    BY <1>1, <1>2, <2>5, <2>6
<1>5. ASSUME NEW f \in Files, Upload(f) PROVE issues'[p][n] = issues[p][n]
  <2>1. work.pc = "upload"
    BY <1>5, UploadEffect
  <2>2. PICK a \in Places : a = work.at
    BY <2>1 DEF TypeInv
  <2>3. PICK m \in Numbers : m = work.number
    BY <2>1 DEF TypeInv
  <2>4. Safe(a, m)
    BY <2>1, <2>2, <2>3 DEF TargetInv, Target
  <2>5. a # p \/ m # n
    BY <2>4 DEF Safe, Mine
  <2>6. UNCHANGED issues \/ \E i \in Issue : Written(a, m, i)
    BY <1>5, <2>2, <2>3, UploadEffect
  <2> QED
    BY <1>1, <1>2, <2>5, <2>6
<1>6. ASSUME NEW a \in Places, NEW m \in Numbers, DeleteIssue(a, m)
      PROVE  issues'[p][n] = issues[p][n]
  <2>1. issues[a][m].own /\ Written(a, m, None)
    BY <1>6, DeleteEffect
  <2>2. a # p \/ m # n
    BY <2>1
  <2> QED
    BY <1>2, <2>1, <2>2
<1>7. ASSUME NEW plan \in {"new", "update"}, Begin(plan) PROVE UNCHANGED issues
  BY <1>7 DEF Begin
<1>8. CASE \/ Localize \/ FetchComponents \/ ChooseComponent \/ SendFiles
           \/ CompareFiles \/ SaveDelivery \/ UNCHANGED vars
  BY <1>1, <1>8 DEF Localize, FetchComponents, ChooseComponent, SendFiles, CompareFiles,
                    SaveDelivery, vars
<1>9. ASSUME NEW a \in Places, ChangePlace(a) PROVE UNCHANGED issues
  BY <1>9 DEF ChangePlace
<1>10. CASE OtherDelivers
  <2>1. PICK a \in Places : a = place
    BY <1>10, OtherEffect
  <2>2. PICK m \in Numbers : m = NewNumber(a)
    BY <1>10, <2>1, OtherEffect
  <2>3. given[a] < m /\ given[a] \in Nat /\ m \in Nat /\ n \in Nat
    BY <2>2, NewNumberIsNew, DriversAssumption DEF TypeInv, Numbers
  <2>4. a = p => n <= given[p]
    BY DEF TargetInv, Given
  <2>5. \E i \in Issue : Written(a, m, i)
    BY <1>10, <2>1, <2>2, OtherEffect
  <2> QED
    BY <1>2, <2>3, <2>4, <2>5
<1> QED
  BY <1>1, <1>3, <1>4, <1>5, <1>6, <1>7, <1>8, <1>9, <1>10 DEF Next

(* What is somebody else's stays as it is in Feishu, whatever the places,    *)
(* numbers, failures and retries, and in GitHub as long as the email's other *)
(* deliveries all went to one repository; nothing is said of Jira.           *)
THEOREM StrangersAreSafe == Spec => StrangersUntouched
<1>1. TypeInv /\ TargetInv /\ [Next]_vars =>
        [PlaceIsTold =>
           \A p \in Places, n \in Numbers :
             issues[p][n] # None /\ ~issues[p][n].own
               => issues'[p][n] = issues[p][n]]_vars
  BY StrangersStep
<1> QED
  BY <1>1, TypeInit, TypeStep, TargetInit, TargetStep, PTL DEF Spec, StrangersUntouched
-----------------------------------------------------------------------------
(* Files *)

(* Safe names are hashes of what the files hold.  The name of a file is the  *)
(* sender's; it is that of another file's hash only for the same content.    *)
OwnNames ==
  \A f, g \in Files :
    File[f].name = File[g].safe /\ File[f].size = File[g].size => File[f].safe = File[g].safe

(* What an issue still lacks is on its way.                                 *)
Pending(p, n) ==
  issues[p][n] # None =>
    \A f \in Needed(issues[p][n]) \ work.lost :
      issues[p][n].holds[File[f].safe] > 0 \/ f \in work.left

Due(p, n) ==
  \/ work.pc = "attach" /\ case.target # "jira" /\ work.at = p /\ work.number = n
  \/ work.pc = "upload" /\ work.at = p /\ work.number = n
  \/ work.pc = "idle" /\ delivery.status = "SUCCESS"
       /\ delivery.at = p /\ delivery.external = n

FilesInv ==
  /\ work.pc = "upload" => case.target = "jira"
  /\ work.pc # "upload" => work.left = {}
  /\ work.pc # "idle" => delivery.status # "SUCCESS"
  /\ delivery.status = "SUCCESS" => delivery.external \in Numbers /\ delivery.at \in Places
  /\ \A p \in Places, n \in Numbers : Due(p, n) => Pending(p, n)

(* In Feishu and GitHub a new or rewritten issue has its files at once.      *)
LEMMA HeldAtOnce ==
  ASSUME TypeInv, case.target # "jira", NEW h, NEW i, NEW f \in Needed(i) \ work.lost
  PROVE  Holds(h)[File[f].safe] > 0
<1>1. f \in case.files /\ case.files \subseteq Files
  BY DriversAssumption DEF TypeInv, Needed, PublicFiles
<1> DEFINE s == File[f].safe
<1>2. s \in Stored
  BY <1>1 DEF Stored
<1>3. CASE case.target = "feishu_bitable"
  <2> DEFINE S == {g \in case.files \ work.lost : File[g].safe = s}
  <2>1. f \in S /\ S \subseteq case.files
    BY <1>1
  <2>2. Cardinality(S) > 0
    BY <2>1, CountIsNat
  <2> QED
    BY <1>2, <1>3, <2>2 DEF Holds
<1>4. CASE case.target # "feishu_bitable"
  <2> DEFINE S == {g \in PublicFiles : File[g].safe = s}
  <2>1. f \in S /\ S \subseteq case.files
    BY <1>4 DEF Needed, PublicFiles
  <2>2. Cardinality(S) > 0
    BY <2>1, CountIsNat
  <2>3. Listed(s) > 0
    BY <2>2 DEF Listed
  <2> QED
    BY <1>2, <1>4, <2>3 DEF Holds
<1> QED
  BY <1>3, <1>4

(* Steps after which nothing is due.                                        *)
LEMMA NothingDue ==
  ASSUME FilesInv, work'.pc \notin {"attach", "upload"}, work'.left = {},
         delivery'.status # "SUCCESS"
  PROVE  FilesInv'
BY DEF FilesInv, Due

(* A written issue.                                                         *)
LEMMA WrittenFiles ==
  ASSUME TypeInv, FilesInv, UNCHANGED <<case, delivery>>, work.pc = "write",
         work'.pc = "attach", work'.at = work.at, work'.lost = work.lost,
         work'.left = work.left, NEW a \in Places, work.at = a,
         NEW m \in Numbers, work'.number = m, NEW h, issues'[a][m].holds = Holds(h)
  PROVE  FilesInv'
<1>1. PICK i : i = issues'[a][m]
  OBVIOUS
<1>2. ASSUME case.target # "jira" PROVE Pending(a, m)'
  <2>1. \A f \in Needed(i) \ work.lost : i.holds[File[f].safe] > 0
    BY <1>1, <1>2, HeldAtOnce
  <2>2. Needed(issues[a][m])' = Needed(i)
    BY <1>1, <1>2 DEF Needed, PublicFiles
  <2> QED
    BY <1>1, <2>1, <2>2 DEF Pending
<1>3. ASSUME NEW p \in Places, NEW n \in Numbers, Due(p, n)' PROVE Pending(p, n)'
  <2>1. p = a /\ n = m /\ case.target # "jira"
    BY <1>3 DEF Due
  <2> QED
    BY <1>2, <2>1
<1> QED
  BY <1>3 DEF FilesInv

(* A file that is passed over because the issue knows it is in the issue.    *)
LEMMA CompareFilesStep ==
  ASSUME OwnNames, TypeInv, FilesInv, CompareFiles PROVE FilesInv'
<1>1. /\ work.pc = "attach" /\ case.target = "jira"
      /\ UNCHANGED <<case, place, issues, given, delivery, others, written>>
      /\ work'.pc = "upload" /\ work'.at = work.at
      /\ work'.number = work.number /\ work'.lost = work.lost
      /\ \A f \in case.files :
           f \in work'.left \/ Fingerprint(File[f].name, f) \in OnIssue(work.number)
  BY CompareEffect
<1>2. PICK a \in Places : a = work.at
  BY <1>1 DEF TypeInv
<1>3. PICK m \in Numbers : m = work.number
  BY <1>1 DEF TypeInv
<1> DEFINE b == issues[a][m]
<1>4. ASSUME NEW f \in case.files, f \notin work'.left
      PROVE  b # None => b.holds[File[f].safe] > 0
  <2>1. Fingerprint(File[f].name, f) \in OnIssue(m) /\ f \in Files
    BY <1>1, <1>3, <1>4, DriversAssumption DEF TypeInv
  <2>2. PICK g \in Files : /\ <<File[f].name, File[f].size>> = <<File[g].safe, File[g].size>>
                           /\ b # None /\ b.holds[File[g].safe] > 0
    BY <1>2, <2>1 DEF OnIssue, Fingerprint
  <2>3. File[f].safe = File[g].safe
    BY <2>1, <2>2 DEF OwnNames
  <2> QED
    BY <2>2, <2>3
<1>5. Needed(issues[a][m])' = Needed(b) /\ Needed(b) \subseteq case.files
  BY <1>1 DEF Needed
<1>6. Pending(a, m)'
  BY <1>1, <1>4, <1>5 DEF Pending
<1>7. ASSUME NEW p \in Places, NEW n \in Numbers, Due(p, n)' PROVE Pending(p, n)'
  <2>1. p = a /\ n = m
    BY <1>1, <1>2, <1>3, <1>7 DEF Due
  <2> QED
    BY <1>6, <2>1
<1> QED
  BY <1>1, <1>7 DEF FilesInv

(* A needed file leaves the list when the issue has it, or it is lost.       *)
LEMMA UploadFilesStep ==
  ASSUME TypeInv, FilesInv, NEW f \in Files, Upload(f) PROVE FilesInv'
<1>1. /\ work.pc = "upload" /\ UNCHANGED <<case, place, given, delivery, others>>
      /\ work'.pc = "upload" /\ work'.at = work.at /\ work'.number = work.number
      /\ work'.left = work.left \ {f} /\ work.lost \subseteq work'.lost
  BY UploadEffect
<1>2. PICK a \in Places : a = work.at
  BY <1>1 DEF TypeInv
<1>3. PICK m \in Numbers : m = work.number
  BY <1>1 DEF TypeInv
<1> DEFINE b == issues[a][m]
<1>4. Pending(a, m) /\ case.target = "jira"
  BY <1>1, <1>2, <1>3 DEF FilesInv, Due
<1>5. ASSUME NEW p \in Places, NEW n \in Numbers, Due(p, n)' PROVE p = a /\ n = m
  BY <1>1, <1>2, <1>3, <1>5 DEF Due
<1>6. CASE UNCHANGED issues /\ (~Uploads(f) \/ b = None \/ f \in work'.lost)
  <2>1. Needed(issues[a][m])' = Needed(b) /\ (f \in Needed(b) => Uploads(f))
    BY <1>1, <1>4, <1>6 DEF Needed, Uploads
  <2>2. Pending(a, m)'
    BY <1>1, <1>4, <1>6, <2>1 DEF Pending
  <2> QED
    BY <1>1, <1>4, <1>5, <2>2 DEF FilesInv
<1>7. ASSUME NEW i \in Issue, b \in Issue, b # None, i.shows = b.shows,
             i.holds = [b.holds EXCEPT ![File[f].safe] = @ + 1],
             Written(a, m, i)
      PROVE  FilesInv'
  <2>1. issues'[a][m] = i
    BY <1>7, IssueWritten
  <2>2. Needed(issues[a][m])' = Needed(b) /\ Needed(b) \subseteq Files
    BY <1>1, <1>4, <1>7, <2>1, DriversAssumption DEF Needed, TypeInv
  <2>3. b.holds \in [Stored -> Nat] /\ File[f].safe \in Stored
    BY <1>7 DEF Issue, Stored
  <2>4. ASSUME NEW g \in Files PROVE File[g].safe \in Stored
    BY DEF Stored
  <2>5. /\ i.holds[File[f].safe] > 0
        /\ \A g \in Files : b.holds[File[g].safe] > 0 => i.holds[File[g].safe] > 0
    BY <1>7, <2>3, <2>4
  <2>6. Pending(a, m)'
    BY <1>1, <1>4, <1>7, <2>1, <2>2, <2>5 DEF Pending
  <2> QED
    BY <1>1, <1>4, <1>5, <2>6 DEF FilesInv
<1>8. \/ UNCHANGED issues /\ (~Uploads(f) \/ b = None \/ f \in work'.lost)
      \/ \E i \in Issue : /\ b \in Issue /\ b # None /\ i.shows = b.shows
                          /\ i.holds = [b.holds EXCEPT ![File[f].safe] = @ + 1]
                          /\ Written(a, m, i)
  BY <1>2, <1>3, UploadEffect
<1> QED
  BY <1>6, <1>7, <1>8

LEMMA FilesStep == OwnNames /\ TypeInv /\ TargetInv /\ FilesInv /\ [Next]_vars => FilesInv'
<1> SUFFICES ASSUME OwnNames, TypeInv, TargetInv, FilesInv, [Next]_vars PROVE FilesInv'
  OBVIOUS
<1>1. CASE Fail
  BY <1>1, FailEffect, NothingDue
<1>2. ASSUME NEW plan \in {"new", "update"}, Begin(plan) PROVE FilesInv'
  BY <1>2, BeginEffect, NothingDue
<1>3. CASE Localize
  <2>1. Entry(work.how) \notin {"attach", "upload"}
    BY DEF Entry
  <2>2. delivery'.status = delivery.status
    BY <1>3, LocalizeEffect
  <2>3. work.pc = "artifact" /\ work'.pc = Entry(work.how) /\ work'.left = work.left
    BY <1>3, LocalizeEffect
  <2> QED
    BY <2>1, <2>2, <2>3, NothingDue DEF FilesInv
<1>4. CASE FetchComponents \/ ChooseComponent
  BY <1>4, FieldsEffect, NothingDue DEF FilesInv
<1>5. CASE SendFiles
  BY <1>1, <1>5, SendEffect, NothingDue DEF FilesInv
<1>6. CASE Create
  <2>1. work.pc = "write" /\ NewNumber(work.at) \in Numbers /\ UNCHANGED <<case, place, others>>
    BY <1>6, CreateEffect
  <2>2. CASE ~Fail
    <3>1. PICK a \in Places : a = work.at
      BY <2>1 DEF TypeInv
    <3>2. PICK m \in Numbers : m = NewNumber(work.at)
      BY <2>1
    <3>3. /\ UNCHANGED delivery /\ work'.pc = "attach" /\ work'.at = work.at
          /\ work'.number = m /\ work'.lost = work.lost /\ work'.left = work.left
      BY <1>6, <2>2, <3>2, CreateEffect
    <3>4. PICK i \in Issue : /\ i.holds = Holds(Nothing)
                             /\ Written(a, m, i)
      BY <1>6, <2>2, <3>1, <3>2, CreateEffect
    <3>5. issues'[a][m].holds = Holds(Nothing)
      BY <3>4, IssueWritten
    <3> QED
      BY <2>1, <3>1, <3>3, <3>5, WrittenFiles
  <2> QED
    BY <1>1, <2>2
<1>7. CASE Update
  <2>1. work.pc = "write" /\ UNCHANGED <<case, place, given, others>>
    BY <1>7, UpdateEffect
  <2>2. CASE UNCHANGED delivery /\ work'.pc = Entry("create") /\ work'.left = work.left
    <3>1. work'.pc \notin {"attach", "upload"}
      BY <2>2 DEF Entry
    <3> QED
      BY <2>1, <2>2, <3>1, NothingDue DEF FilesInv
  <2>3. PICK a \in Places : a = work.at
    BY <2>1 DEF TypeInv
  <2>4. ASSUME NEW m \in Numbers, NEW i \in Issue, NEW h, i.holds = Holds(h),
               Written(a, m, i),
               UNCHANGED delivery, work'.pc = "attach", work'.at = work.at,
               work'.number = m, work'.lost = work.lost, work'.left = work.left
        PROVE  FilesInv'
    <3>1. issues'[a][m].holds = Holds(h)
      BY <2>4, IssueWritten
    <3> QED
      BY <2>1, <2>3, <2>4, <3>1, WrittenFiles
  <2>5. \/ Fail
        \/ UNCHANGED delivery /\ work'.pc = Entry("create") /\ work'.left = work.left
        \/ \E m \in Numbers, i \in Issue, h \in {issues[a][delivery.external].holds} :
             /\ i.holds = Holds(h) /\ Written(a, m, i)
             /\ UNCHANGED delivery /\ work'.pc = "attach" /\ work'.at = work.at
             /\ work'.number = m /\ work'.lost = work.lost /\ work'.left = work.left
    BY <1>7, <2>3, UpdateEffect
  <2> QED
    BY <1>1, <2>2, <2>4, <2>5
<1>8. CASE SaveDelivery
  <2>1. /\ work'.pc = "idle" /\ work'.lost = work.lost /\ work'.left = work.left
        /\ work.pc = (IF case.target = "jira" THEN "upload" ELSE "attach")
        /\ work.left = {}
        /\ delivery'.status = "SUCCESS"
        /\ delivery'.external = work.number /\ delivery'.at = work.at
        /\ UNCHANGED <<case, issues>>
    BY <1>8, SaveEffect
  <2>2. work.number \in Numbers /\ work.at \in Places
    BY <2>1 DEF TypeInv
  <2>3. ASSUME NEW p \in Places, NEW n \in Numbers, Due(p, n)' PROVE Pending(p, n)'
    <3>1. Pending(p, n)
      BY <2>1, <2>3 DEF Due, FilesInv
    <3> QED
      BY <2>1, <3>1 DEF Pending, Needed, PublicFiles
  <2> QED
    BY <2>1, <2>2, <2>3 DEF FilesInv
<1>9. ASSUME NEW a \in Places, NEW m \in Numbers, DeleteIssue(a, m) PROVE FilesInv'
  <2>1. UNCHANGED <<case, delivery, work>> /\ Written(a, m, None)
    BY <1>9, DeleteEffect
  <2>2. \A p \in Places, n \in Numbers : issues'[p][n] # None => issues'[p][n] = issues[p][n]
    BY <2>1, IssueWritten
  <2>3. ASSUME NEW p \in Places, NEW n \in Numbers, Due(p, n)' PROVE Pending(p, n)'
    <3>1. Pending(p, n)
      BY <2>1, <2>3 DEF Due, FilesInv
    <3> QED
      BY <2>1, <2>2, <3>1 DEF Pending, Needed, PublicFiles
  <2> QED
    BY <2>1, <2>3 DEF FilesInv
<1>10. ASSUME UNCHANGED <<case, delivery, work, issues>> PROVE FilesInv'
  BY <1>10 DEF FilesInv, Due, Pending, Needed, PublicFiles
<1>11. ASSUME NEW a \in Places, ChangePlace(a) PROVE FilesInv'
  BY <1>10, <1>11 DEF ChangePlace
<1>12. CASE UNCHANGED vars
  BY <1>10, <1>12 DEF vars
<1>13. CASE OtherDelivers
  <2>1. PICK a \in Places : a = place
    BY <1>13, OtherEffect
  <2>2. PICK m \in Numbers : m = NewNumber(a)
    BY <1>13, <2>1, OtherEffect
  <2>3. PICK i \in Issue : Written(a, m, i)
    BY <1>13, <2>1, <2>2, OtherEffect
  <2>4. UNCHANGED <<case, delivery, work>>
    BY <1>13, OtherEffect
  <2>5. ASSUME NEW p \in Places, NEW n \in Numbers, Due(p, n)' PROVE Pending(p, n)'
    <3>1. Due(p, n) /\ Target(p, n)
      BY <2>4, <2>5 DEF Due, Target
    <3>2. n <= given[p]
      BY <3>1 DEF TargetInv
    <3>3. given[a] < m /\ given[a] \in Nat /\ m \in Nat /\ n \in Nat
      BY <2>2, NewNumberIsNew, DriversAssumption DEF TypeInv, Numbers
    <3>4. p # a \/ n # m
      BY <3>2, <3>3
    <3>5. issues'[p][n] = issues[p][n]
      BY <2>3, <3>4, IssueWritten
    <3>6. Pending(p, n)
      BY <3>1 DEF FilesInv
    <3> QED
      BY <2>4, <3>5, <3>6 DEF Pending, Needed, PublicFiles
  <2> QED
    BY <2>4, <2>5 DEF FilesInv
<1> QED
  BY <1>2, <1>3, <1>4, <1>5, <1>6, <1>7, <1>8, <1>9, <1>11, <1>12, <1>13,
     CompareFilesStep, UploadFilesStep DEF Next

LEMMA FilesInit == Init => FilesInv
BY DEF Init, Idle, FilesInv, Due

(* A delivery that ends SUCCESS leaves an issue with the files its text      *)
(* shows, whatever crosses it, unless a file is lost or the issue is gone.   *)
THEOREM DeliveredFiles ==
  ASSUME OwnNames PROVE Spec => []IssueHasItsFiles
<1>1. TypeInv /\ FilesInv => IssueHasItsFiles
  <2> SUFFICES ASSUME TypeInv, FilesInv, work.pc = "idle", delivery.status = "SUCCESS",
                      issues[delivery.at][delivery.external] # None,
                      NEW f \in Needed(issues[delivery.at][delivery.external]) \ work.lost
               PROVE  issues[delivery.at][delivery.external].holds[File[f].safe] > 0
    BY DEF IssueHasItsFiles
  <2>1. delivery.at \in Places /\ delivery.external \in Numbers
    BY DEF TypeInv, FilesInv, Rows
  <2>2. Pending(delivery.at, delivery.external)
    BY <2>1 DEF FilesInv, Due
  <2>3. f \notin work.left
    BY DEF FilesInv
  <2> QED
    BY <2>2, <2>3 DEF Pending
<1>2. FilesInv /\ TypeInv /\ TargetInv /\ [Next]_vars => FilesInv'
  BY FilesStep
<1> QED
  BY <1>1, <1>2, TypeInit, TypeStep, TargetInit, TargetStep, FilesInit, PTL DEF Spec
-----------------------------------------------------------------------------
(***************************************************************************)
(* WorkflowNodes                                                           *)
(***************************************************************************)

(* What the nodes, the row and the graph hold.                              *)
Metas == [made : Nat \cup {None}, note : BOOLEAN]
Parts == [text : Nat, title : Nat \cup {None}, content : Nat \cup {None},
          data : Nat \cup {None}, meta : Metas]
Plans == {f \in [1..7 -> Nat] : f[1] > 0}
Details == UNION {[S -> {"run", "user"}] : S \in SUBSET Todos}
Graphs == [parts : Parts, pics : [Images -> Nat], todos : Details,
           prompts : BOOLEAN, errors : BOOLEAN, plan : Plans]
Runs == [n : Nat, force : BOOLEAN, verdict : {"success", "failed", None},
         pc : {"rest", "prepare", "credits", "images", "llm", "summary", "metadata",
               "finalize", "sync", "stored"}]
Entries == [says : Todos, done : BOOLEAN, by : {"run", "user"}]

(* A run has loaded the email, and has not stored it.                        *)
Loads == run.pc \notin {"rest", "prepare"}
InRun == run.pc \notin {"rest", "prepare", "stored"}

NodesTypes ==
  /\ row \in Parts /\ pics \in [Images -> Nat]
  /\ todo \in [1..MaxTodos -> Entries \cup {None}]
  /\ run \in Runs
  /\ run.pc # "rest" => run.n > 0 /\ run.verdict = None
  /\ patch # None => patch.meta \in Metas
  /\ Loads => graph \in Graphs
-----------------------------------------------------------------------------
(* Sums over a set of stages.  FoldSet takes them one by one, in an order of *)
(* its own; a sum of numbers is a number, and no less than each of them.     *)

Pick(s) == CHOOSE i \in s : TRUE
Adds(g, f, D) ==
  g = [s \in SUBSET D |-> IF s = {} THEN 0 ELSE g[s \ {Pick(s)}] + f[Pick(s)]]
Sum(f, D) == N!FoldSet(LAMBDA i, s : s + f[i], 0, D)

LEMMA PickIn == ASSUME NEW s, s # {} PROVE Pick(s) \in s
BY DEF Pick

LEMMA SumIs ==
  ASSUME NEW f, NEW D
  PROVE  Sum(f, D) = (CHOOSE g : Adds(g, f, D))[D]
BY DEF Sum, N!FoldSet, N!MapThenFoldSet, Adds, Pick

LEMMA SizeOf ==
  ASSUME NEW S, IsFiniteSet(S), NEW s \in SUBSET S
  PROVE  /\ IsFiniteSet(s) /\ Cardinality(s) \in Nat
         /\ s = {} <=> Cardinality(s) = 0
         /\ \A x \in s : Cardinality(s \ {x}) = Cardinality(s) - 1
<1>1. IsFiniteSet(s)
  BY FS_Subset
<1> QED BY <1>1, FS_CardinalityType, FS_EmptySet, FS_RemoveElement

LEMMA SumsExist ==
  ASSUME NEW D, IsFiniteSet(D), NEW f, \A i \in D : f[i] \in Nat
  PROVE  \E g \in [SUBSET D -> Nat] : Adds(g, f, D)
<1> DEFINE upto(n) == {s \in SUBSET D : Cardinality(s) <= n}
           sums(g, n) == \A s \in upto(n) :
                           g[s] = IF s = {} THEN 0 ELSE g[s \ {Pick(s)}] + f[Pick(s)]
           good(n) == \E g \in [upto(n) -> Nat] : sums(g, n)
           bad == {n \in Nat : ~good(n)}
<1>1. ASSUME NEW s \in SUBSET D
      PROVE  /\ Cardinality(s) \in Nat /\ (s = {} <=> Cardinality(s) = 0)
             /\ s # {} => /\ Pick(s) \in s /\ f[Pick(s)] \in Nat
                          /\ s \ {Pick(s)} \in SUBSET D
                          /\ Cardinality(s \ {Pick(s)}) = Cardinality(s) - 1
  <2>1. /\ Cardinality(s) \in Nat /\ (s = {} <=> Cardinality(s) = 0)
        /\ \A x \in s : Cardinality(s \ {x}) = Cardinality(s) - 1
    BY SizeOf
  <2>2. s # {} => Pick(s) \in s
    BY PickIn
  <2> QED BY <2>1, <2>2
<1>2. good(0)
  <2> DEFINE g == [s \in upto(0) |-> 0]
  <2>1. ASSUME NEW s \in upto(0) PROVE s = {}
    <3>1. Cardinality(s) <= 0 /\ Cardinality(s) \in Nat /\ (s = {} <=> Cardinality(s) = 0)
      BY <1>1
    <3> QED BY <3>1
  <2>2. g \in [upto(0) -> Nat]
    OBVIOUS
  <2>3. sums(g, 0)
    BY <2>1
  <2> QED BY <2>2, <2>3
<1>3. ASSUME NEW n \in Nat, good(n) PROVE good(n + 1)
  <2>1. PICK g \in [upto(n) -> Nat] : sums(g, n)
    BY <1>3
  <2> DEFINE h == [s \in upto(n + 1) |->
                    IF s \in upto(n) THEN g[s] ELSE g[s \ {Pick(s)}] + f[Pick(s)]]
  <2>2. ASSUME NEW s \in upto(n + 1)
        PROVE  /\ s # {} => s \ {Pick(s)} \in upto(n) /\ s \ {Pick(s)} \in upto(n + 1)
               /\ s \notin upto(n) => s # {} /\ f[Pick(s)] \in Nat
    BY <1>1
  <2>3. h \in [upto(n + 1) -> Nat]
    <3> HIDE DEF upto
    <3> QED BY <2>2
  <2>4. sums(h, n + 1)
    <3> HIDE DEF upto
    <3> QED BY <2>1, <2>2
  <2> HIDE DEF h
  <2> QED BY <2>3, <2>4
<1>4. bad = {}
  <2> SUFFICES ASSUME bad # {} PROVE FALSE
    OBVIOUS
  <2> HIDE DEF good
  <2>1. PICK n \in bad : \A m \in bad : ~(m < n)
    BY SmallestOf
  <2>2. n # 0 /\ n \in Nat /\ n - 1 \in Nat /\ n - 1 < n
    BY <1>2, <2>1
  <2>3. good(n - 1)
    BY <2>1, <2>2
  <2>4. good(n - 1 + 1) /\ n - 1 + 1 = n
    BY <1>3, <2>2, <2>3
  <2> QED BY <2>1, <2>4
<1>5. Cardinality(D) \in Nat /\ upto(Cardinality(D)) = SUBSET D
  <2>1. \A s \in SUBSET D : Cardinality(s) <= Cardinality(D)
    BY FS_Subset
  <2> QED BY <1>1, <2>1
<1>6. PICK g \in [SUBSET D -> Nat] : \A s \in SUBSET D :
        g[s] = IF s = {} THEN 0 ELSE g[s \ {Pick(s)}] + f[Pick(s)]
  <2>1. good(Cardinality(D))
    <3> HIDE DEF good
    <3> QED BY <1>4, <1>5
  <2>2. PICK g \in [upto(Cardinality(D)) -> Nat] : sums(g, Cardinality(D))
    BY <2>1
  <2> HIDE DEF upto
  <2> QED BY <1>5, <2>2
<1>7. Adds(g, f, D)
  BY <1>6 DEF Adds
<1> QED BY <1>7

LEMMA SumBounds ==
  ASSUME NEW D, IsFiniteSet(D), NEW f, \A i \in D : f[i] \in Nat
  PROVE  Sum(f, D) \in Nat /\ \A i \in D : f[i] <= Sum(f, D)
<1> DEFINE g == CHOOSE g : Adds(g, f, D)
           bad == {n \in Nat : \E s \in SUBSET D :
                     /\ Cardinality(s) = n
                     /\ ~(g[s] \in Nat /\ \A i \in s : f[i] <= g[s])}
<1>1. Adds(g, f, D) /\ Sum(f, D) = g[D]
  <2>1. \E h : Adds(h, f, D)
    BY SumsExist
  <2> QED BY <2>1, SumIs
<1> HIDE DEF g
<1>2. \A s \in SUBSET D : g[s] = IF s = {} THEN 0 ELSE g[s \ {Pick(s)}] + f[Pick(s)]
  BY <1>1 DEF Adds
<1>3. bad = {}
  <2> SUFFICES ASSUME bad # {} PROVE FALSE
    OBVIOUS
  <2>1. PICK n \in bad : \A m \in bad : ~(m < n)
    BY SmallestOf
  <2>2. PICK s \in SUBSET D : /\ Cardinality(s) = n
                              /\ ~(g[s] \in Nat /\ \A i \in s : f[i] <= g[s])
    OBVIOUS
  <2>3. s # {}
    <3>1. s = {} => g[s] = 0 /\ \A i \in s : f[i] <= g[s]
      BY <1>2
    <3> QED BY <2>2, <3>1
  <2> DEFINE t == s \ {Pick(s)}
  <2>4. Pick(s) \in s /\ t \in SUBSET D /\ f[Pick(s)] \in Nat
    BY <2>3, PickIn
  <2>5. Cardinality(t) = n - 1 /\ n - 1 \in Nat /\ n - 1 < n
    BY <2>2, <2>3, <2>4, SizeOf
  <2>6. g[t] \in Nat /\ \A i \in t : f[i] <= g[t]
    BY <2>1, <2>4, <2>5
  <2>7. g[s] = g[t] + f[Pick(s)]
    BY <1>2, <2>3
  <2>8. \A i \in s : i \in t \/ i = Pick(s)
    OBVIOUS
  <2> HIDE DEF t
  <2> QED BY <2>2, <2>4, <2>6, <2>7, <2>8
<1>4. D \in SUBSET D /\ Cardinality(D) \in Nat
  BY SizeOf
<1> QED BY <1>1, <1>3, <1>4
-----------------------------------------------------------------------------
(* The percentages *)

LEMMA UnitsCount ==
  ASSUME NEW f, NEW p, NEW d, NEW m, NEW X \in SUBSET Images
  PROVE  N!Units(f, p, d, X, m) \in Plans
<1> DEFINE c == Cardinality({i \in X : f \/ d[i] = 0})
<1>1. c \in Nat
  <2>1. IsFiniteSet({i \in X : f \/ d[i] = 0})
    BY NodesAssumption, FS_Subset
  <2> QED BY <2>1, FS_CardinalityType
<1>2. N!Cardinality({i \in X : f \/ d[i] = 0}) = c
  BY DEF N!Cardinality, Cardinality
<1>3. \A b : N!One(b) \in Nat
  BY DEF N!One
<1> HIDE DEF c
<1> QED BY <1>1, <1>2, <1>3 DEF N!Units, Plans

LEMMA QuotientCounts ==
  ASSUME NEW a \in Nat, NEW b \in Nat, b > 0
  PROVE  a \div b \in Nat
OBVIOUS

LEMMA SpansCount ==
  ASSUME NEW u \in Plans
  PROVE  N!Spans(u) \in [1..7 -> Nat]
<1> DEFINE total == Sum(u, DOMAIN u)
           floor(i) == (100 * u[i]) \div total
           fraction(i) == (100 * u[i]) % total
           rest == 100 - N!FoldSet(LAMBDA i, s : s + floor(i), 0, DOMAIN u)
           before(i) == {j \in DOMAIN u : \/ fraction(j) > fraction(i)
                                          \/ fraction(j) = fraction(i) /\ j > i}
           span(i) == floor(i) + N!One(N!Cardinality(before(i)) < rest)
<1>1. DOMAIN u = 1..7 /\ (\A i \in 1..7 : u[i] \in Nat) /\ u[1] > 0
  BY DEF Plans
<1>2. IsFiniteSet(1..7)
  <2>1. PICK n \in Nat : n = 7
    OBVIOUS
  <2>2. IsFiniteSet(1..n)
    BY FS_Interval
  <2> QED BY <2>1, <2>2
<1>3. total \in Nat /\ total > 0
  <2>1. total \in Nat /\ u[1] <= total
    BY <1>1, <1>2, SumBounds
  <2> QED BY <1>1, <2>1
<1>4. N!Spans(u) = [i \in 1..7 |-> span(i)]
  BY <1>1 DEF N!Spans, Sum
<1> HIDE DEF total, rest, before
<1>5. ASSUME NEW i \in 1..7 PROVE span(i) \in Nat
  <2>1. 100 * u[i] \in Nat
    BY <1>1
  <2>2. floor(i) \in Nat
    BY <1>3, <2>1, QuotientCounts
  <2> HIDE DEF floor
  <2> QED BY <2>2 DEF N!One
<1> HIDE DEF span
<1> QED BY <1>4, <1>5

Stages == {"prepare", "credits", "images", "llm", "summary", "metadata", "finalize"}

LEMMA EndCounts ==
  ASSUME NEW u \in Plans, NEW stage \in Stages
  PROVE  N!EndOf(stage, u) \in Nat
<1> DEFINE last == CHOOSE i \in DOMAIN N!Stages : N!Stages[i] = stage
           spans == N!Spans(u)
<1>1. last \in 1..7
  <2>1. \E i \in DOMAIN N!Stages : N!Stages[i] = stage
    BY DEF N!Stages, Stages
  <2>2. DOMAIN N!Stages = 1..7
    BY DEF N!Stages
  <2> QED BY <2>1, <2>2
<1>2. N!EndOf(stage, u) = Sum(spans, 1..last)
  BY DEF N!EndOf, Sum
<1> HIDE DEF last, spans
<1>3. spans \in [1..7 -> Nat]
  BY SpansCount DEF spans
<1>4. IsFiniteSet(1..last)
  BY <1>1, FS_Interval
<1>5. \A i \in 1..last : spans[i] \in Nat
  BY <1>1, <1>3
<1> QED BY <1>2, <1>4, <1>5, SumBounds

-----------------------------------------------------------------------------
(* The invariants *)

(* What a run that is not forced has of the text, the title, the structured  *)
(* summary and the images is what is stored.                                 *)
AsStored(s) ==
  /\ row.text # 0 => s.parts.text = row.text
  /\ row.title # None => s.parts.title = row.title
  /\ row.data # None => s.parts.data = row.data
  /\ \A i \in Images : pics[i] # 0 => s.pics[i] \in {0, pics[i]}
HoldsStored ==
  /\ run.pc \in {"credits", "images"} => graph.pics = pics
  /\ InRun /\ ~run.force => AsStored(graph)

(* Parts that were all made from one text, which the email has if it has     *)
(* words.                                                                    *)
Agree(p) ==
  /\ p.title \in {None, p.text} /\ p.content \in {None, p.text} /\ p.data \in {None, p.text}
  /\ p.meta.made \in {None, p.text}
  /\ letter.words /\ p.text = 0 =>
       p.title = None /\ p.content = None /\ p.data = None /\ p.meta.made = None

(* Without words there is no text. *)
NoWords ==
  /\ ~letter.words => row.text = 0
  /\ ~letter.words /\ InRun => graph.parts.text = 0

(* Outside a forced run that has yet to be stored the parts of the row agree. *)
RowAgrees == ~cut /\ ~(run.pc \notin {"rest", "stored"} /\ run.force) => Agree(row)

(* A run that is not forced continues one text; a forced one replaces the    *)
(* parts one by one, unless it is cut.                                       *)
Replaces(s, pc) ==
  /\ ~s.errors
  /\ pc \in {"summary", "metadata", "finalize", "sync"} /\ letter.words => s.parts.text # 0
  /\ pc \in {"metadata", "finalize", "sync"} =>
       /\ s.parts.title = s.parts.text /\ s.parts.content = s.parts.text
       /\ s.parts.data = s.parts.text
  /\ pc \in {"finalize", "sync"} => s.parts.meta.made = s.parts.text
GraphAgrees ==
  /\ InRun /\ ~cut /\ ~run.force => Agree(graph.parts)
  /\ InRun /\ ~cut /\ run.force => Replaces(graph, run.pc)

(* A report carries the percentage of the run, which is no less than all it  *)
(* has saved, and metadata made from the text the stored metadata is of.     *)
Percents ==
  /\ peak \in Int /\ peak <= 100
  /\ seen \in Int /\ seen <= N!Shown(peak)
  /\ run.verdict = "success" => peak = 100
  /\ report # None =>
       /\ report.meta \in Metas /\ report.shown = N!Shown(peak)
       /\ ~cut => report.meta.made = row.meta.made

NodesInv ==
  NodesTypes /\ Percents /\ HoldsStored /\ NoWords /\ RowAgrees /\ GraphAgrees

(* What a step may not do. *)
Rises ==
  /\ N!Saves => shown' >= seen /\ (run.verdict = "success" => shown' = 100)
  /\ shown' # shown =>
       N!Saves \/ patch' # patch \/ (shown' = None /\ run'.pc = "stored")
Leaves ==
  run' # run =>
    /\ \A k \in {"title", "content", "data"} : row[k] # None => row'[k] # None
    /\ row.text # 0 => row'.text # 0
    /\ N!HasMeta(row.meta) => N!HasMeta(row'.meta)
    /\ \A i \in Images : pics[i] # 0 => pics'[i] # 0
    /\ ~run.force =>
         /\ row.text # 0 => row'.text = row.text
         /\ \A k \in {"title", "data"} : row[k] # None => row'[k] = row[k]
         /\ \A i \in Images : pics[i] # 0 => pics'[i] = pics[i]
    /\ \A i \in DOMAIN todo : todo[i] # None =>
         todo'[i] # None /\ todo'[i].says = todo[i].says /\ todo'[i].done = todo[i].done
Good == NodesInv' /\ Rises /\ Leaves
-----------------------------------------------------------------------------
(* Steps that store nothing *)

(* The percentage of the run grows or stays, and is to be saved.             *)
LEMMA ReachesUp ==
  ASSUME NodesInv, NEW p \in Int, N!Reaches(p), UNCHANGED row,
         run'.verdict = "success" => p = 100
  PROVE  Percents' /\ Rises
<1>1. /\ report = None /\ peak' = N!Raised(N!Capped(p)) /\ UNCHANGED <<shown, seen>>
      /\ report' = [meta |-> row.meta, shown |-> N!Shown(peak')]
      /\ peak \in Int /\ peak <= 100 /\ seen \in Int /\ seen <= N!Shown(peak)
      /\ row.meta \in Metas
  BY DEF N!Reaches, NodesInv, NodesTypes, Percents, Parts
<1>2. /\ peak' \in Int /\ peak' <= 100 /\ peak' >= peak
      /\ run'.verdict = "success" => peak' = 100
  BY <1>1 DEF N!Raised, N!Capped
<1>3. seen' <= N!Shown(peak')
  BY <1>1, <1>2 DEF N!Shown
<1>4. Percents'
  BY <1>1, <1>2, <1>3 DEF Percents, N!Shown
<1> QED BY <1>1, <1>4 DEF Rises, N!Saves

(* Nothing is reported. *)
LEMMA ReportStays ==
  ASSUME NodesInv, UNCHANGED <<shown, report, peak, seen>>,
         run'.verdict \in {run.verdict, None},
         report # None /\ ~cut' => ~cut /\ row'.meta.made = row.meta.made
  PROVE  Percents' /\ Rises
<1>1. run'.verdict = "success" => run.verdict = "success"
  BY NodesAssumption
<1>2. Percents'
  BY <1>1 DEF NodesInv, Percents, N!Shown
<1> QED BY <1>2 DEF Rises, N!Saves

LEMMA StaysPut ==
  ASSUME NodesTypes, UNCHANGED <<row, pics, todo>>
  PROVE  Leaves
BY DEF Leaves, NodesTypes

(* A node ends: what it leaves in the graph decides the rest.                *)
LEMMA NodeKeeps ==
  ASSUME NodesInv, NEW s \in Graphs, NEW p \in Int, InRun,
         run.pc \notin {"finalize", "sync"},
         graph' = s, run' = [run EXCEPT !.pc = N!NextOf(run.pc)], N!Reaches(p),
         UNCHANGED <<letter, pics, row, todo, patch>>, cut => cut',
         run.pc = "credits" => s.pics = graph.pics,
         ~run.force => AsStored(s),
         ~letter.words => s.parts.text = 0,
         ~cut' /\ ~run.force => Agree(s.parts),
         ~cut' /\ run.force => Replaces(s, N!NextOf(run.pc))
  PROVE  Good
<1> DEFINE pc == N!NextOf(run.pc)
<1>1. /\ run \in Runs /\ run.n > 0 /\ run.verdict = None
      /\ run.pc \in {"credits", "images", "llm", "summary", "metadata"}
  BY DEF NodesInv, NodesTypes, InRun, Runs
<1>2. pc \in {"images", "llm", "summary", "metadata", "finalize"}
  BY <1>1 DEF N!NextOf
<1> HIDE DEF pc
<1>3. /\ run' \in Runs /\ run'.pc = pc /\ run'.n = run.n /\ run'.force = run.force
      /\ run'.verdict = run.verdict
  BY <1>1, <1>2 DEF Runs, pc
<1>4. InRun' /\ Loads'
  BY <1>2, <1>3 DEF InRun, Loads
<1>5. Percents' /\ Rises
  BY <1>1, <1>3, NodesAssumption, ReachesUp
<1>6. NodesTypes'
  BY <1>1, <1>2, <1>3, <1>5 DEF NodesInv, NodesTypes
<1>7. HoldsStored'
  <2>1. pc \in {"credits", "images"} => run.pc = "credits"
    BY <1>1 DEF N!NextOf, pc
  <2>2. pc \in {"credits", "images"} => s.pics = pics
    BY <2>1 DEF NodesInv, HoldsStored
  <2> QED BY <1>3, <2>2 DEF HoldsStored, AsStored
<1>8. NoWords'
  BY DEF NodesInv, NoWords
<1>9. RowAgrees'
  BY <1>1, <1>2, <1>3 DEF NodesInv, RowAgrees, Agree
<1>10. GraphAgrees'
  <2>1. ~cut' /\ ~run'.force => Agree(graph.parts)'
    BY <1>3 DEF Agree
  <2>2. ~cut' /\ run'.force => Replaces(graph, run.pc)'
    BY <1>3 DEF Replaces, pc
  <2> QED BY <2>1, <2>2 DEF GraphAgrees
<1>11. Leaves
  BY StaysPut DEF NodesInv
<1> QED BY <1>5, <1>6, <1>7, <1>8, <1>9, <1>10, <1>11 DEF NodesInv, Good

(* A node that ends through EndNode ends at the end of its stage.            *)
LEMMA EndKeeps ==
  ASSUME NodesInv, NEW s \in Graphs, InRun, run.pc \notin {"finalize", "sync"},
         N!EndNode(s), cut => cut', s.pics = graph.pics,
         ~run.force => AsStored(s),
         ~letter.words => s.parts.text = 0,
         ~cut' /\ ~run.force => Agree(s.parts),
         ~cut' /\ run.force => Replaces(s, N!NextOf(run.pc))
  PROVE  Good
<1>1. N!EndOf(run.pc, s.plan) \in Int
  <2>1. run.pc \in Stages
    BY DEF NodesInv, NodesTypes, InRun, Runs, Stages
  <2>2. s.plan \in Plans
    BY DEF Graphs
  <2> QED BY <2>1, <2>2, EndCounts
<1> QED BY <1>1, NodeKeeps DEF N!EndNode, N!Goto, N!Row

(* A node that fails leaves its error, and cuts a forced run.                *)
LEMMA FailsKeeps ==
  ASSUME NodesInv, NEW g \in Graphs, InRun, run.pc \notin {"finalize", "sync"},
         N!EndNode(N!Failed(g)), N!Cuts(TRUE),
         g.pics = graph.pics,
         ~run.force => AsStored(g),
         ~letter.words => g.parts.text = 0,
         ~cut /\ ~run.force => Agree(g.parts)
  PROVE  Good
<1> DEFINE s == N!Failed(g)
<1>1. s \in Graphs /\ s.parts = g.parts /\ s.pics = g.pics
  BY DEF Graphs, N!Failed
<1>2. (cut => cut') /\ (run.force => cut') /\ (~run.force /\ ~cut' => ~cut)
  BY DEF N!Cuts
<1>3. ~run.force => AsStored(s)
  BY <1>1 DEF AsStored
<1> HIDE DEF s
<1>4. N!EndNode(s)
  BY DEF s
<1> QED BY <1>1, <1>2, <1>3, <1>4, EndKeeps
-----------------------------------------------------------------------------
(* The nodes *)

LEMMA CreditsKeeps == ASSUME NodesInv, N!Credits PROVE Good
<1>1. InRun /\ run.pc = "credits" /\ graph \in Graphs /\ N!NextOf(run.pc) = "images"
  BY DEF N!Credits, InRun, Loads, NodesInv, NodesTypes, N!NextOf
<1>2. CASE N!EndNode(graph) /\ UNCHANGED <<purse, cut>>
  <2>1. ~cut' /\ run.force => Replaces(graph, "images")
    BY <1>1, <1>2 DEF NodesInv, GraphAgrees, Replaces
  <2> QED
    BY <1>1, <1>2, <2>1, EndKeeps DEF NodesInv, HoldsStored, NoWords, GraphAgrees
<1>3. CASE N!EndNode(N!Failed(graph)) /\ N!Cuts(TRUE)
  BY <1>1, <1>3, FailsKeeps DEF NodesInv, HoldsStored, NoWords, GraphAgrees
<1> QED BY <1>2, <1>3 DEF N!Credits

(* An image is described anew, keeps its description or loses it.            *)
LEMMA DescribeKeeps ==
  ASSUME NodesInv, run.pc = "images", ~graph.errors, NEW lost, N!Describe(lost)
  PROVE  Good
<1> DEFINE due == {i \in N!Limited : run.force \/ graph.pics[i] = 0}
           made(i) == CASE i \in lost \/ i \notin N!Limited -> 0
                        [] i \in due -> run.n
                        [] OTHER -> graph.pics[i]
           s == [graph EXCEPT !.pics = [i \in Images |-> made(i)]]
           p == IF N!Limited = {} THEN N!EndOf("images", graph.plan) ELSE 100
<1>1. /\ InRun /\ graph \in Graphs /\ run.n \in Nat /\ N!NextOf(run.pc) = "llm"
      /\ lost \subseteq due /\ graph' = s
  BY DEF N!Describe, InRun, Loads, NodesInv, NodesTypes, Runs, N!NextOf
<1>2. p \in Int
  <2>1. graph.plan \in Plans /\ "images" \in Stages
    BY <1>1 DEF Graphs, Stages
  <2>2. N!EndOf("images", graph.plan) \in Nat
    BY <2>1, EndCounts
  <2> QED BY <2>2
<1>3. N!Reaches(p) /\ run' = [run EXCEPT !.pc = N!NextOf(run.pc)] 
      /\ UNCHANGED <<letter, pics, row, todo, patch, cut>>
  BY <1>1 DEF N!Describe, N!Goto, N!Row
<1>4. \A i \in Images : /\ made(i) \in Nat
                        /\ ~run.force /\ graph.pics[i] # 0 => made(i) \in {0, graph.pics[i]}
  BY <1>1 DEF Graphs
<1> HIDE DEF made, due, p
<1>5. /\ s \in Graphs /\ s.parts = graph.parts /\ s.errors = graph.errors
      /\ \A i \in Images : s.pics[i] = made(i)
  BY <1>1, <1>4 DEF Graphs
<1> HIDE DEF s
<1>6. ~run.force => AsStored(s)
  BY <1>1, <1>4, <1>5 DEF NodesInv, HoldsStored, AsStored, InRun
<1>7. ~cut /\ run.force => Replaces(s, "llm")
  BY <1>5 DEF Replaces
<1> QED
  BY <1>1, <1>2, <1>3, <1>5, <1>6, <1>7, NodeKeeps DEF NodesInv, NoWords, GraphAgrees

LEMMA DescribeImagesKeeps == ASSUME NodesInv, N!DescribeImages PROVE Good
<1>1. InRun /\ run.pc = "images" /\ graph \in Graphs /\ N!NextOf(run.pc) = "llm"
  BY DEF N!DescribeImages, InRun, Loads, NodesInv, NodesTypes, N!NextOf
<1>2. CASE N!EndNode(graph) /\ UNCHANGED <<purse, cut>>
  <2>1. ~cut' /\ run.force => Replaces(graph, "llm")
    BY <1>1, <1>2 DEF NodesInv, GraphAgrees, Replaces
  <2> QED
    BY <1>1, <1>2, <2>1, EndKeeps DEF NodesInv, HoldsStored, NoWords, GraphAgrees
<1>3. CASE N!EndNode(N!Failed(graph)) /\ N!Cuts(TRUE)
  BY <1>1, <1>3, FailsKeeps DEF NodesInv, HoldsStored, NoWords, GraphAgrees
<1>4. ASSUME ~graph.errors, NEW lost, N!Describe(lost) PROVE Good
  BY <1>1, <1>4, DescribeKeeps
<1>5. \/ N!EndNode(graph) /\ UNCHANGED <<purse, cut>>
      \/ N!EndNode(N!Failed(graph)) /\ N!Cuts(TRUE)
      \/ ~graph.errors /\ \E lost : N!Describe(lost)
  <2>1. graph.errors \in BOOLEAN /\ graph.prompts \in BOOLEAN
    BY <1>1 DEF Graphs
  <2>2. CASE graph.errors \/ Images = {}
    BY <2>2 DEF N!DescribeImages
  <2>3. CASE ~graph.errors /\ Images # {} /\ ~graph.prompts
    BY <2>3 DEF N!DescribeImages
  <2>4. CASE ~(graph.errors \/ Images = {})
             /\ ~(~graph.errors /\ Images # {} /\ ~graph.prompts)
    BY <2>4 DEF N!DescribeImages
  <2> QED BY <2>2, <2>3, <2>4
<1> QED BY <1>2, <1>3, <1>4, <1>5

(* The text of the state is replaced; the images stay.                       *)
LEMMA WithText ==
  ASSUME graph \in Graphs, NEW v \in Nat
  PROVE  /\ N!With("text", v) \in Graphs
         /\ N!With("text", v).parts = [graph.parts EXCEPT !.text = v]
         /\ N!With("text", v).pics = graph.pics /\ N!With("text", v).errors = graph.errors
BY DEF Graphs, Parts, N!With

LEMMA TextKeeps == ASSUME NodesInv, N!MakeText PROVE Good
<1>1. /\ InRun /\ run.pc = "llm" /\ graph \in Graphs /\ N!NextOf(run.pc) = "summary"
      /\ run.n \in Nat /\ run.n > 0 /\ graph.parts \in Parts
  BY DEF N!MakeText, InRun, Loads, NodesInv, NodesTypes, N!NextOf, Runs, Graphs
<1>2. CASE /\ graph.errors \/ ~letter.words \/ (~run.force /\ graph.parts.text # 0)
           /\ N!EndNode(graph) /\ UNCHANGED <<purse, cut>>
  <2>1. ~cut' /\ run.force => Replaces(graph, "summary")
    BY <1>1, <1>2 DEF NodesInv, GraphAgrees, Replaces
  <2> QED
    BY <1>1, <1>2, <2>1, EndKeeps DEF NodesInv, HoldsStored, NoWords, GraphAgrees
<1>3. CASE N!EndNode(N!Failed(graph)) /\ N!Cuts(TRUE)
  BY <1>1, <1>3, FailsKeeps DEF NodesInv, HoldsStored, NoWords, GraphAgrees
<1> DEFINE due == /\ ~graph.errors /\ letter.words
                  /\ run.force \/ graph.parts.text = 0
<1>4. ASSUME due, NEW v \in Nat
      PROVE  LET s == N!With("text", v) IN
             /\ s \in Graphs /\ s.pics = graph.pics /\ s.parts.text = v
             /\ ~s.errors
             /\ ~run.force => AsStored(s)
             /\ ~run.force /\ ~cut => Agree(s.parts)
  <2> DEFINE s == N!With("text", v)
  <2>1. /\ s \in Graphs /\ s.pics = graph.pics /\ s.errors = graph.errors
        /\ s.parts = [graph.parts EXCEPT !.text = v]
    BY <1>1, WithText
  <2> HIDE DEF s
  <2>2. /\ s.parts.text = v /\ s.parts.title = graph.parts.title
        /\ s.parts.content = graph.parts.content /\ s.parts.data = graph.parts.data
        /\ s.parts.meta = graph.parts.meta
    BY <1>1, <2>1 DEF Parts
  <2>3. ~run.force => AsStored(s)
    BY <1>1, <1>4, <2>1, <2>2 DEF NodesInv, HoldsStored, AsStored
  <2>4. ~run.force /\ ~cut => Agree(s.parts)
    BY <1>1, <1>4, <2>2 DEF NodesInv, GraphAgrees, Agree
  <2> QED BY <1>4, <2>1, <2>2, <2>3, <2>4 DEF s
<1>5. CASE due /\ N!EndNode(N!With("text", run.n)) /\ UNCHANGED <<purse, cut>>
  <2> DEFINE s == N!With("text", run.n)
  <2>1. /\ s \in Graphs /\ s.pics = graph.pics /\ s.parts.text = run.n
        /\ ~s.errors /\ (~run.force => AsStored(s))
        /\ ~run.force /\ ~cut => Agree(s.parts)
    BY <1>1, <1>4, <1>5
  <2> HIDE DEF s
  <2>2. Replaces(s, "summary")
    BY <1>1, <2>1 DEF Replaces
  <2>3. N!EndNode(s) /\ cut' = cut /\ letter.words
    BY <1>5 DEF s
  <2> QED BY <1>1, <2>1, <2>2, <2>3, EndKeeps
<1>6. CASE due /\ N!EndNode(N!With("text", 0)) /\ N!Cuts(TRUE)
  <2> DEFINE s == N!With("text", 0)
  <2>1. /\ s \in Graphs /\ s.pics = graph.pics /\ (~run.force => AsStored(s))
        /\ ~run.force /\ ~cut => Agree(s.parts)
    BY <1>4, <1>6
  <2> HIDE DEF s
  <2>2. N!EndNode(s) /\ (cut => cut') /\ letter.words
        /\ (run.force => cut') /\ (~run.force /\ ~cut' => ~cut)
    BY <1>6 DEF s, N!Cuts
  <2> QED BY <1>1, <2>1, <2>2, EndKeeps
<1>7. CASE due /\ N!EndNode(N!Failed(N!With("text", 0))) /\ N!Cuts(TRUE)
  <2> DEFINE s == N!With("text", 0)
  <2>1. /\ s \in Graphs /\ s.pics = graph.pics /\ (~run.force => AsStored(s))
        /\ ~run.force /\ ~cut => Agree(s.parts)
    BY <1>4, <1>7
  <2> HIDE DEF s
  <2>2. N!EndNode(N!Failed(s)) /\ N!Cuts(TRUE) /\ letter.words
    BY <1>7 DEF s
  <2> QED BY <1>1, <2>1, <2>2, FailsKeeps
<1>8. \/ /\ graph.errors \/ ~letter.words \/ (~run.force /\ graph.parts.text # 0)
         /\ N!EndNode(graph) /\ UNCHANGED <<purse, cut>>
      \/ N!EndNode(N!Failed(graph)) /\ N!Cuts(TRUE)
      \/ due /\ N!EndNode(N!With("text", run.n)) /\ UNCHANGED <<purse, cut>>
      \/ due /\ N!EndNode(N!With("text", 0)) /\ N!Cuts(TRUE)
      \/ due /\ N!EndNode(N!Failed(N!With("text", 0))) /\ N!Cuts(TRUE)
  <2> DEFINE skips == graph.errors \/ ~letter.words \/ (~run.force /\ graph.parts.text # 0)
             blind == /\ ~graph.errors /\ letter.words /\ ~graph.prompts
                      /\ run.force \/ graph.parts.text = 0
  <2>1. CASE skips
    BY <2>1 DEF N!MakeText
  <2>2. CASE ~skips /\ blind
    BY <2>2 DEF N!MakeText
  <2>3. CASE ~skips /\ ~blind
    BY <2>3 DEF N!MakeText
  <2> QED BY <2>1, <2>2, <2>3
<1> QED BY <1>2, <1>3, <1>5, <1>6, <1>7, <1>8
-----------------------------------------------------------------------------
(* The summary *)

(* What the summary node may leave: parts that are made of the text of the   *)
(* state, beside what a run without force may not replace.                   *)
Told(s) ==
  LET old == graph.parts  new == s.parts IN
  /\ s \in Graphs /\ s.pics = graph.pics
  /\ new.text = old.text /\ new.meta = old.meta
  /\ new.title \in {None, old.text, old.title}
  /\ new.data \in {old.text, old.data}
  /\ new.content \in {None, old.text, old.content, old.data}
  /\ ~run.force /\ old.title # None => new.title = old.title
  /\ ~run.force /\ old.data # None => new.data = old.data

LEMMA TitledIs ==
  ASSUME graph \in Graphs, NEW b \in BOOLEAN
  PROVE  LET s == N!Titled(b)  old == graph.parts IN
         /\ s \in Graphs /\ s.pics = graph.pics /\ s.errors = graph.errors
         /\ s.parts.text = old.text /\ s.parts.meta = old.meta
         /\ s.parts.content = old.content /\ s.parts.data = old.data
         /\ s.parts.title \in {None, old.text, old.title}
         /\ b /\ run.force => s.parts.title = old.text
         /\ ~run.force /\ old.title # None => s.parts.title = old.title
<1> DEFINE With(v) == N!With("title", v)
<1>1. ASSUME NEW v \in Nat \cup {None}
      PROVE  /\ With(v) \in Graphs /\ With(v).pics = graph.pics
             /\ With(v).errors = graph.errors
             /\ With(v).parts = [graph.parts EXCEPT !.title = v]
  BY DEF Graphs, Parts, N!With
<1>2. graph.parts \in Parts /\ graph.parts.text \in Nat \cup {None}
  BY DEF Graphs, Parts
<1>3. \/ N!Titled(b) = graph /\ ~run.force /\ graph.parts.title # None
      \/ /\ N!Titled(b) = With(graph.parts.text) /\ b
         /\ run.force \/ graph.parts.title = None
      \/ /\ N!Titled(b) = With(None) /\ ~b
         /\ run.force \/ graph.parts.title = None
  BY DEF N!Titled, N!Needed
<1> HIDE DEF With
<1>4. CASE N!Titled(b) = graph /\ ~run.force /\ graph.parts.title # None
  BY <1>4
<1>5. ASSUME NEW v \in Nat \cup {None}, N!Titled(b) = With(v), b => v = graph.parts.text,
             ~b => v = None, run.force \/ graph.parts.title = None
      PROVE  LET s == N!Titled(b)  old == graph.parts IN
             /\ s \in Graphs /\ s.pics = graph.pics /\ s.errors = graph.errors
             /\ s.parts.text = old.text /\ s.parts.meta = old.meta
             /\ s.parts.content = old.content /\ s.parts.data = old.data
             /\ s.parts.title = v
  <2> DEFINE s == With(v)
  <2>1. /\ s \in Graphs /\ s.pics = graph.pics /\ s.errors = graph.errors
        /\ s.parts = [graph.parts EXCEPT !.title = v]
    BY <1>1
  <2> HIDE DEF s
  <2>2. /\ s.parts.text = graph.parts.text /\ s.parts.meta = graph.parts.meta
        /\ s.parts.content = graph.parts.content /\ s.parts.data = graph.parts.data
        /\ s.parts.title = v
    BY <1>2, <2>1 DEF Parts
  <2>3. N!Titled(b) = s
    BY <1>5 DEF s
  <2> QED BY <2>1, <2>2, <2>3
<1>6. CASE /\ N!Titled(b) = With(graph.parts.text) /\ b
           /\ run.force \/ graph.parts.title = None
  BY <1>2, <1>5, <1>6
<1>7. CASE /\ N!Titled(b) = With(None) /\ ~b
           /\ run.force \/ graph.parts.title = None
  BY <1>5, <1>7
<1> QED BY <1>3, <1>4, <1>6, <1>7

LEMMA NoDetails == <<>> \in Details
<1>1. <<>> \in [{} -> {"run", "user"}] /\ {} \in SUBSET Todos
  OBVIOUS
<1> QED BY <1>1 DEF Details

(* The answers of the LLM in a state with its title.                         *)
Answered(b, d, c, todos) ==
  [N!Titled(b) EXCEPT !.parts = [N!Titled(b).parts EXCEPT !.data = d, !.content = c],
                      !.todos = todos]

LEMMA AnswerTells ==
  ASSUME graph \in Graphs, NEW b \in BOOLEAN, NEW d, NEW c, NEW todos \in Details,
         d \in {graph.parts.text, graph.parts.data},
         ~run.force /\ graph.parts.data # None => d = graph.parts.data,
         c \in {None, graph.parts.text, graph.parts.content}
  PROVE  LET s == Answered(b, d, c, todos) IN
         /\ Told(s) /\ s.errors = graph.errors
         /\ s.parts.data = d /\ s.parts.content = c
         /\ s.parts.title = N!Titled(b).parts.title
<1> DEFINE t == N!Titled(b)
           parts == [t.parts EXCEPT !.data = d, !.content = c]
           s == Answered(b, d, c, todos)
<1>1. graph.parts \in Parts
  BY DEF Graphs
<1>2. /\ t \in Graphs /\ t.pics = graph.pics /\ t.errors = graph.errors
      /\ t.parts.text = graph.parts.text /\ t.parts.meta = graph.parts.meta
      /\ t.parts.title \in {None, graph.parts.text, graph.parts.title}
      /\ ~run.force /\ graph.parts.title # None => t.parts.title = graph.parts.title
  BY TitledIs
<1>3. s = [t EXCEPT !.parts = parts, !.todos = todos]
  BY DEF Answered
<1> HIDE DEF t, s
<1>4. d \in Nat \cup {None} /\ c \in Nat \cup {None} /\ t.parts \in Parts
  BY <1>1, <1>2 DEF Parts, Graphs
<1>5. /\ parts \in Parts /\ parts.data = d /\ parts.content = c
      /\ parts.text = t.parts.text /\ parts.meta = t.parts.meta
      /\ parts.title = t.parts.title
  BY <1>4 DEF Parts
<1> HIDE DEF parts
<1>6. s \in Graphs /\ s.pics = t.pics /\ s.errors = t.errors /\ s.parts = parts
  BY <1>2, <1>3, <1>5 DEF Graphs
<1> HIDE <1>3
<1> QED BY <1>2, <1>5, <1>6 DEF Told, t, s

LEMMA StructuredTells ==
  ASSUME graph \in Graphs, NEW b \in BOOLEAN, NEW says \in SUBSET Todos, N!Needed("data")
  PROVE  LET s == N!Structured(N!Titled(b), says) IN
         /\ Told(s) /\ s.errors = graph.errors
         /\ s.parts.data = graph.parts.text /\ s.parts.content = graph.parts.text
         /\ s.parts.title = N!Titled(b).parts.title
<1> DEFINE t == N!Titled(b)
           todos == [x \in says |-> "run"]
<1>1. t \in Graphs
  BY TitledIs
<1>2. N!Structured(t, says) = Answered(b, graph.parts.text, graph.parts.text, todos)
  <2>1. Answered(b, graph.parts.text, graph.parts.text, todos)
          = [t EXCEPT !.parts = [t.parts EXCEPT !.data = graph.parts.text,
                                                !.content = graph.parts.text],
                      !.todos = todos]
    BY DEF Answered
  <2> HIDE DEF t
  <2> QED BY <1>1, <2>1 DEF N!Structured, Graphs, Parts
<1>3. todos \in Details
  BY DEF Details
<1>4. ~run.force => graph.parts.data = None
  BY DEF N!Needed
<1> HIDE DEF todos
<1> QED BY <1>2, <1>3, <1>4, AnswerTells

LEMMA SilentTells ==
  ASSUME graph \in Graphs, NEW b \in BOOLEAN, N!Needed("data")
  PROVE  Told(N!Silent(N!Titled(b)))
<1> DEFINE t == N!Titled(b)
           a == Answered(b, graph.parts.text, graph.parts.content, <<>>)
<1>1. t \in Graphs /\ t.parts.content = graph.parts.content
  BY TitledIs
<1>2. N!Silent(t) = a
  <2>1. a = [t EXCEPT !.parts = [t.parts EXCEPT !.data = graph.parts.text,
                                                !.content = graph.parts.content],
                      !.todos = <<>>]
    BY DEF Answered
  <2> HIDE DEF t, a
  <2> QED BY <1>1, <2>1 DEF N!Silent, Graphs, Parts
<1>3. ~run.force => graph.parts.data = None
  BY DEF N!Needed
<1> QED BY <1>2, <1>3, NoDetails, AnswerTells

LEMMA PlainTells ==
  ASSUME graph \in Graphs, NEW b \in BOOLEAN, N!Needed("data"),
         NEW d \in {graph.parts.data, graph.parts.text}, NEW c \in {graph.parts.text, None}
  PROVE  Told(N!Plain(N!Titled(b), d, c))
<1> DEFINE t == N!Titled(b)
           a == Answered(b, d, c, <<>>)
<1>1. t \in Graphs
  BY TitledIs
<1>2. N!Plain(t, d, c) = a
  <2>1. a = [t EXCEPT !.parts = [t.parts EXCEPT !.data = d, !.content = c], !.todos = <<>>]
    BY DEF Answered
  <2> HIDE DEF t, a
  <2> QED BY <1>1, <2>1 DEF N!Plain, Graphs, Parts
<1>3. ~run.force => graph.parts.data = None
  BY DEF N!Needed
<1> QED BY <1>2, <1>3, NoDetails, AnswerTells

(* The structured data of an answer whose todos cannot be read.              *)
LEMMA BrokenTells ==
  ASSUME graph \in Graphs, NEW b \in BOOLEAN, N!Needed("data"), NEW d \in {graph.parts.data, graph.parts.text}
  PROVE  Told([N!Titled(b) EXCEPT !.parts.data = d])
<1> DEFINE t == N!Titled(b)
           a == Answered(b, d, graph.parts.content, t.todos)
<1>1. t \in Graphs /\ t.parts.content = graph.parts.content
  BY TitledIs
<1>2. [t EXCEPT !.parts.data = d] = a /\ t.todos \in Details
  <2>1. a = [t EXCEPT !.parts = [t.parts EXCEPT !.data = d, !.content = graph.parts.content],
                      !.todos = t.todos]
    BY DEF Answered
  <2> HIDE DEF t, a
  <2> QED BY <1>1, <2>1 DEF Graphs, Parts
<1>3. ~run.force => graph.parts.data = None
  BY DEF N!Needed
<1> QED BY <1>2, <1>3, AnswerTells

LEMMA ReusedTells ==
  ASSUME graph \in Graphs, NEW b \in BOOLEAN
  PROVE  Told(N!Reused(N!Titled(b)))
<1> DEFINE t == N!Titled(b)
           s == N!Reused(t)
<1>1. graph.parts \in Parts
  BY DEF Graphs
<1>2. /\ t \in Graphs /\ t.pics = graph.pics
      /\ t.parts.text = graph.parts.text /\ t.parts.meta = graph.parts.meta
      /\ t.parts.content = graph.parts.content /\ t.parts.data = graph.parts.data
      /\ t.parts.title \in {None, graph.parts.text, graph.parts.title}
      /\ ~run.force /\ graph.parts.title # None => t.parts.title = graph.parts.title
  BY TitledIs
<1> HIDE DEF t
<1>3. CASE s = t
  BY <1>2, <1>3 DEF Told, s, t
<1>4. CASE s = [t EXCEPT !.parts = [t.parts EXCEPT !.content = t.parts.data]]
  <2> HIDE DEF s
  <2>1. /\ s \in Graphs /\ s.pics = graph.pics
        /\ s.parts = [t.parts EXCEPT !.content = t.parts.data]
    BY <1>1, <1>2, <1>4 DEF Graphs, Parts
  <2>2. /\ s.parts.text = t.parts.text /\ s.parts.meta = t.parts.meta
        /\ s.parts.title = t.parts.title /\ s.parts.data = t.parts.data
        /\ s.parts.content = graph.parts.data
    BY <1>2, <2>1 DEF Graphs, Parts
  <2> HIDE <1>4
  <2> QED BY <1>2, <2>1, <2>2 DEF Told, s, t
<1>5. s = t \/ s = [t EXCEPT !.parts = [t.parts EXCEPT !.content = t.parts.data]]
  BY <1>2 DEF N!Reused, Graphs, Parts
<1> QED BY <1>3, <1>4, <1>5

(* Nothing of this disturbs what is stored or mixes two texts.               *)
LEMMA ToldHolds ==
  ASSUME NodesInv, InRun, NEW s, Told(s), ~run.force => graph.parts.text # 0
  PROVE  /\ ~run.force => AsStored(s)
         /\ ~letter.words => s.parts.text = 0
         /\ ~cut /\ ~run.force => Agree(s.parts)
<1>1. ~run.force => AsStored(s)
  BY DEF NodesInv, HoldsStored, AsStored, Told
<1>2. ~letter.words => s.parts.text = 0
  BY DEF NodesInv, NoWords, Told
<1>3. ~cut /\ ~run.force => Agree(s.parts)
  BY DEF NodesInv, GraphAgrees, Agree, Told
<1> QED BY <1>1, <1>2, <1>3

LEMMA SummaryKeeps == ASSUME NodesInv, N!Summarize PROVE Good
<1> DEFINE skips == graph.errors \/ (~run.force /\ graph.parts.text = 0)
           t == N!Titled(TRUE)
           told == Told(t)
<1>1. /\ InRun /\ run.pc = "summary" /\ graph \in Graphs /\ N!NextOf(run.pc) = "metadata"
      /\ run.pc \notin {"finalize", "sync", "credits"} /\ graph.parts \in Parts
      /\ {} \in SUBSET Todos
  BY DEF N!Summarize, InRun, Loads, NodesInv, NodesTypes, N!NextOf, Graphs
<1>2. CASE skips /\ N!EndNode(graph) /\ UNCHANGED <<purse, cut>>
  <2>1. ~cut' /\ run.force => Replaces(graph, "metadata")
    BY <1>1, <1>2 DEF NodesInv, GraphAgrees, Replaces
  <2> QED
    BY <1>1, <1>2, <2>1, EndKeeps DEF NodesInv, HoldsStored, NoWords, GraphAgrees
<1>3. CASE N!EndNode(N!Failed(graph)) /\ N!Cuts(TRUE)
  BY <1>1, <1>3, FailsKeeps DEF NodesInv, HoldsStored, NoWords, GraphAgrees
(* A step that cuts a forced run. *)
<1>4. ASSUME ~skips, NEW s, Told(s), N!EndNode(s), N!Cuts(TRUE) PROVE Good
  <2>1. (cut => cut') /\ (run.force => cut') /\ (~run.force /\ ~cut' => ~cut)
    BY <1>4 DEF N!Cuts
  <2>2. s \in Graphs /\ s.pics = graph.pics
    BY <1>4 DEF Told
  <2> QED BY <1>1, <1>4, <2>1, <2>2, ToldHolds, EndKeeps
<1>5. ASSUME ~skips, NEW s, Told(s), N!EndNode(N!Failed(s)), N!Cuts(TRUE) PROVE Good
  <2>1. s \in Graphs /\ s.pics = graph.pics
    BY <1>5 DEF Told
  <2> QED BY <1>1, <1>5, <2>1, ToldHolds, FailsKeeps
<1>6. ASSUME ~skips, NEW s, Told(s), N!EndNode(s), UNCHANGED cut,
             run.force => ~s.errors /\ s.parts.title = s.parts.text
                          /\ s.parts.content = s.parts.text /\ s.parts.data = s.parts.text
      PROVE  Good
  <2>1. s \in Graphs /\ s.pics = graph.pics /\ s.parts.text = graph.parts.text
    BY <1>6 DEF Told
  <2>2. ~cut' /\ run.force => Replaces(s, "metadata")
    BY <1>1, <1>6, <2>1 DEF NodesInv, GraphAgrees, Replaces
  <2> QED BY <1>1, <1>6, <2>1, <2>2, ToldHolds, EndKeeps
<1>7. Told(t)
  BY <1>1, TitledIs DEF Told
<1>8. ASSUME NEW says \in SUBSET Todos, ~skips, N!Needed("data"),
             N!EndNode(N!Structured(t, says)), UNCHANGED cut
      PROVE  Good
  <2> DEFINE s == N!Structured(t, says)
  <2>1. /\ Told(s) /\ s.errors = graph.errors
        /\ s.parts.data = graph.parts.text /\ s.parts.content = graph.parts.text
        /\ s.parts.title = t.parts.title
    BY <1>1, <1>8, StructuredTells
  <2>2. run.force => t.parts.title = graph.parts.text
    BY <1>1, TitledIs
  <2>3. s.parts.text = graph.parts.text
    BY <2>1 DEF Told
  <2>4. ~graph.errors /\ N!EndNode(s)
    BY <1>8
  <2> HIDE DEF s, t
  <2> QED BY <1>6, <1>8, <2>1, <2>2, <2>3, <2>4
<1>9. CASE ~skips /\ ~N!Needed("data") /\ N!EndNode(N!Reused(t)) /\ UNCHANGED cut
  <2>1. ~run.force
    BY <1>9 DEF N!Needed
  <2> QED BY <1>1, <1>6, <1>9, <2>1, ReusedTells
<1>10. ASSUME ~skips, N!Needed("data"), NEW d \in {graph.parts.data, graph.parts.text},
              NEW c \in {graph.parts.text, None},
              N!EndNode(N!Plain(t, d, c)), N!Cuts(TRUE)
       PROVE  Good
  BY <1>1, <1>4, <1>10, PlainTells
<1>11. ASSUME ~skips, NEW s \in N!Quiet, N!EndNode(s), N!Cuts(TRUE) PROVE Good
  <2>1. CASE N!Needed("data")
    <3>1. s = N!Structured(N!Titled(FALSE), {}) \/ s = N!Silent(t)
      BY <1>11, <2>1 DEF N!Quiet
    <3>2. Told(s)
      BY <1>1, <2>1, <3>1, StructuredTells, SilentTells
    <3> QED BY <1>4, <1>11, <3>2
  <2>2. CASE ~N!Needed("data")
    <3>1. s = N!Reused(N!Titled(FALSE)) \/ s = t
      BY <1>11, <2>2 DEF N!Quiet
    <3>2. Told(s)
      BY <1>1, <1>7, <3>1, ReusedTells
    <3> QED BY <1>4, <1>11, <3>2
  <2> QED BY <2>1, <2>2
<1>12. ASSUME ~skips, N!Needed("data"), NEW d \in {graph.parts.data, graph.parts.text},
              N!EndNode(N!Broken(t, d)), N!Cuts(TRUE)
       PROVE  Good
  <2>1. Told([t EXCEPT !.parts.data = d])
    BY <1>1, <1>12, BrokenTells
  <2> QED BY <1>5, <1>12, <2>1 DEF N!Broken
<1>13. \/ skips /\ N!EndNode(graph) /\ UNCHANGED <<purse, cut>>
       \/ N!EndNode(N!Failed(graph)) /\ N!Cuts(TRUE)
       \/ /\ ~skips /\ N!Needed("data") /\ UNCHANGED cut
          /\ \E says \in SUBSET Todos : N!EndNode(N!Structured(t, says))
       \/ ~skips /\ ~N!Needed("data") /\ N!EndNode(N!Reused(t)) /\ UNCHANGED cut
       \/ /\ ~skips /\ N!Needed("data") /\ N!Cuts(TRUE)
          /\ \E d \in {graph.parts.data, graph.parts.text}, c \in {graph.parts.text, None} :
               N!EndNode(N!Plain(t, d, c))
       \/ ~skips /\ N!Cuts(TRUE) /\ \E s \in N!Quiet : N!EndNode(s)
       \/ /\ ~skips /\ N!Needed("data") /\ N!Cuts(TRUE)
          /\ \E d \in {graph.parts.data, graph.parts.text} : N!EndNode(N!Broken(t, d))
  <2> DEFINE blind == /\ ~graph.errors /\ (run.force \/ graph.parts.text # 0)
                      /\ ~graph.prompts
  <2>1. CASE skips
    BY <2>1 DEF N!Summarize
  <2>2. CASE ~skips /\ blind
    BY <2>2 DEF N!Summarize
  <2>3. CASE ~skips /\ ~blind
    BY <2>3 DEF N!Summarize
  <2> QED BY <2>1, <2>2, <2>3
<1> HIDE DEF skips, t
<1> QED BY <1>2, <1>3, <1>8, <1>9, <1>10, <1>11, <1>12, <1>13
-----------------------------------------------------------------------------
(* The metadata *)

LEMMA WithMeta ==
  ASSUME graph \in Graphs, NEW m \in Metas
  PROVE  LET s == N!With("meta", m)  old == graph.parts IN
         /\ s \in Graphs /\ s.pics = graph.pics /\ s.errors = graph.errors
         /\ s.parts.text = old.text /\ s.parts.title = old.title
         /\ s.parts.content = old.content /\ s.parts.data = old.data
         /\ s.parts.meta = m
<1> DEFINE s == N!With("meta", m)
<1>1. /\ s \in Graphs /\ s.pics = graph.pics /\ s.errors = graph.errors
      /\ s.parts = [graph.parts EXCEPT !.meta = m]
  BY DEF Graphs, Parts, N!With
<1> HIDE DEF s
<1>2. graph.parts \in Parts
  BY DEF Graphs
<1>3. /\ s.parts.text = graph.parts.text /\ s.parts.title = graph.parts.title
      /\ s.parts.content = graph.parts.content /\ s.parts.data = graph.parts.data
      /\ s.parts.meta = m
  BY <1>1, <1>2 DEF Parts
<1> QED BY <1>1, <1>3 DEF s

LEMMA MetadataKeeps == ASSUME NodesInv, N!ExtractMetadata PROVE Good
<1> DEFINE p == graph.parts
           enters == /\ ~graph.errors
                     /\ run.force \/ (p.title # None /\ p.content # None)
           new == [made |-> IF p.content = None THEN 0 ELSE p.content, note |-> FALSE]
           none == N!NoParts.meta
<1>1. /\ InRun /\ run.pc = "metadata" /\ graph \in Graphs /\ N!NextOf(run.pc) = "finalize"
      /\ run.pc \notin {"finalize", "sync", "credits"} /\ p \in Parts
  BY DEF N!ExtractMetadata, InRun, Loads, NodesInv, NodesTypes, N!NextOf, Graphs
<1>2. new \in Metas /\ none \in Metas /\ none.made = None
      /\ new.made = IF p.content = None THEN 0 ELSE p.content
  BY <1>1 DEF Metas, Parts, N!NoParts
<1>3. CASE /\ ~enters \/ ~(run.force \/ ~N!HasMeta(p.meta))
           /\ N!EndNode(graph) /\ UNCHANGED <<purse, cut>>
  <2>1. ~cut' /\ run.force => Replaces(graph, "finalize")
    BY <1>1, <1>3 DEF NodesInv, GraphAgrees, Replaces
  <2> QED
    BY <1>1, <1>3, <2>1, EndKeeps DEF NodesInv, HoldsStored, NoWords, GraphAgrees
<1>4. CASE N!EndNode(N!Failed(graph)) /\ N!Cuts(TRUE)
  BY <1>1, <1>4, FailsKeeps DEF NodesInv, HoldsStored, NoWords, GraphAgrees
<1>5. ASSUME NEW m \in Metas,
             ~run.force /\ ~cut => m.made \in {None, p.text}
                                   /\ (letter.words /\ p.text = 0 => m.made = None)
      PROVE  LET s == N!With("meta", m) IN
             /\ s \in Graphs /\ s.pics = graph.pics
             /\ ~run.force => AsStored(s)
             /\ ~letter.words => s.parts.text = 0
             /\ ~run.force /\ ~cut => Agree(s.parts)
  <2> DEFINE s == N!With("meta", m)
  <2>1. /\ s \in Graphs /\ s.pics = graph.pics /\ s.errors = graph.errors
        /\ s.parts.text = p.text /\ s.parts.title = p.title
        /\ s.parts.content = p.content /\ s.parts.data = p.data
        /\ s.parts.meta = m
    BY <1>1, WithMeta
  <2> HIDE DEF s
  <2>2. ~run.force => AsStored(s)
    BY <1>1, <2>1 DEF NodesInv, HoldsStored, AsStored
  <2>3. ~letter.words => s.parts.text = 0
    BY <1>1, <2>1 DEF NodesInv, NoWords
  <2>4. ~run.force /\ ~cut => Agree(s.parts)
    BY <1>1, <1>5, <2>1 DEF NodesInv, GraphAgrees, Agree
  <2> QED BY <2>1, <2>2, <2>3, <2>4 DEF s
<1>6. CASE enters /\ N!EndNode(N!With("meta", new)) /\ UNCHANGED <<purse, cut>>
  <2> DEFINE s == N!With("meta", new)
  <2>1. ~run.force /\ ~cut => new.made \in {None, p.text}
                              /\ (letter.words /\ p.text = 0 => new.made = None)
    BY <1>1, <1>2, <1>6 DEF NodesInv, GraphAgrees, Agree
  <2>2. /\ s \in Graphs /\ s.pics = graph.pics
        /\ ~run.force => AsStored(s)
        /\ ~letter.words => s.parts.text = 0
        /\ ~run.force /\ ~cut => Agree(s.parts)
    BY <1>2, <1>5, <2>1
  <2>3. run.force /\ ~cut => Replaces(s, "finalize")
    <3> HIDE DEF new
    <3>1. /\ s.errors = graph.errors
          /\ s.parts.text = p.text /\ s.parts.title = p.title
          /\ s.parts.content = p.content /\ s.parts.data = p.data
          /\ s.parts.meta = new
      BY <1>1, <1>2, WithMeta
    <3>2. run.force /\ ~cut => Replaces(graph, "metadata") /\ p.text # None
      BY <1>1, NodesAssumption DEF NodesInv, GraphAgrees, Parts
    <3> HIDE DEF s
    <3> QED BY <1>2, <3>1, <3>2 DEF Replaces
  <2> HIDE DEF s
  <2>4. N!EndNode(s) /\ cut' = cut
    BY <1>6 DEF s
  <2> QED BY <1>1, <2>2, <2>3, <2>4, EndKeeps
<1>7. CASE N!EndNode(N!With("meta", none)) /\ N!Cuts(TRUE)
  <2> DEFINE s == N!With("meta", none)
  <2>1. /\ s \in Graphs /\ s.pics = graph.pics
        /\ ~run.force => AsStored(s)
        /\ ~letter.words => s.parts.text = 0
        /\ ~run.force /\ ~cut => Agree(s.parts)
    BY <1>2, <1>5
  <2> HIDE DEF s
  <2>2. N!EndNode(s) /\ (cut => cut') /\ (run.force => cut')
        /\ (~run.force /\ ~cut' => ~cut)
    BY <1>7 DEF s, N!Cuts
  <2> QED BY <1>1, <2>1, <2>2, EndKeeps
<1>8. \/ /\ ~enters \/ ~(run.force \/ ~N!HasMeta(p.meta))
         /\ N!EndNode(graph) /\ UNCHANGED <<purse, cut>>
      \/ N!EndNode(N!Failed(graph)) /\ N!Cuts(TRUE)
      \/ enters /\ N!EndNode(N!With("meta", new)) /\ UNCHANGED <<purse, cut>>
      \/ N!EndNode(N!With("meta", none)) /\ N!Cuts(TRUE)
  <2> DEFINE due == run.force \/ ~N!HasMeta(p.meta)
  <2>1. CASE ~enters \/ (graph.prompts /\ ~due)
    BY <2>1 DEF N!ExtractMetadata
  <2>2. CASE enters /\ ~graph.prompts
    BY <2>2 DEF N!ExtractMetadata
  <2>3. CASE ~(~enters \/ (graph.prompts /\ ~due)) /\ ~(enters /\ ~graph.prompts)
    BY <2>3 DEF N!ExtractMetadata
  <2> QED BY <2>1, <2>2, <2>3
<1> HIDE DEF enters, new, none
<1> QED BY <1>3, <1>4, <1>6, <1>7, <1>8
-----------------------------------------------------------------------------
(* A run begins *)

LEMMA StartKeeps == ASSUME NodesInv, NEW force \in BOOLEAN, N!Start(force) PROVE Good
<1>1. /\ run.pc = "rest" /\ run.n \in Nat /\ report = None
      /\ run' = [n |-> run.n + 1, pc |-> "prepare", force |-> force, verdict |-> None]
      /\ peak' = 0 /\ seen' = 0 /\ cut' = (cut /\ ~force)
      /\ report' = [meta |-> row.meta, shown |-> N!Shown(0)]
      /\ UNCHANGED <<letter, pics, row, todo, shown, graph, patch>>
  BY DEF N!Start, N!Row, NodesInv, NodesTypes, Runs
<1>2. /\ run' \in Runs /\ run'.pc = "prepare" /\ run'.n = run.n + 1 /\ run'.force = force
      /\ run'.verdict = None /\ ~InRun' /\ ~Loads'
  BY <1>1 DEF Runs, InRun, Loads
<1>3. NodesTypes'
  BY <1>1, <1>2 DEF NodesInv, NodesTypes
<1>4. HoldsStored' /\ NoWords' /\ GraphAgrees'
  BY <1>1, <1>2 DEF NodesInv, HoldsStored, NoWords, GraphAgrees
<1>5. RowAgrees'
  BY <1>1, <1>2 DEF NodesInv, RowAgrees, Agree
<1>6. Percents'
  <2>1. row.meta \in Metas
    BY DEF NodesInv, NodesTypes, Parts
  <2> QED BY <1>1, <1>2, <2>1, NodesAssumption DEF Percents, N!Shown
<1>7. Rises
  BY <1>1 DEF Rises, N!Saves
<1>8. Leaves
  BY <1>1, StaysPut DEF NodesInv
<1> QED BY <1>3, <1>4, <1>5, <1>6, <1>7, <1>8 DEF Good, NodesInv

LEMMA PlanCounts ==
  ASSUME NEW p, NEW d
  PROVE  N!Plan(p, d) \in Plans
<1>1. N!Limited \in SUBSET Images
  BY DEF N!Limited
<1> QED BY <1>1, UnitsCount DEF N!Plan

(* Of the todos that say the same one is the latest.                         *)
LEMMA LatestIs ==
  ASSUME NodesTypes, NEW t, N!Saying(t) # {}
  PROVE  todo[N!Latest(t)].by \in {"run", "user"}
<1> DEFINE S == N!Saying(t)
           bad == {n \in Nat : \E i \in S : n = MaxTodos - i}
<1>1. /\ S \subseteq 1..MaxTodos /\ MaxTodos \in Nat
      /\ \A i \in S : todo[i].by \in {"run", "user"}
  BY NodesAssumption DEF N!Saying, NodesTypes, Entries
<1>2. S # {} /\ N!Latest(t) = CHOOSE i \in S : \A j \in S : j <= i
  BY DEF N!Latest
<1> HIDE DEF S
<1>3. bad # {}
  <2>1. PICK i \in S : TRUE
    BY <1>2
  <2>2. MaxTodos - i \in Nat
    BY <1>1, <2>1
  <2> QED BY <2>1, <2>2
<1>4. PICK n \in bad : \A m \in bad : ~(m < n)
  BY <1>3, SmallestOf
<1>5. PICK i \in S : n = MaxTodos - i
  BY <1>4
<1>6. \A j \in S : j <= i
  <2> SUFFICES ASSUME NEW j \in S PROVE j <= i
    OBVIOUS
  <2>1. MaxTodos - j \in bad /\ i \in Nat /\ j \in Nat /\ MaxTodos \in Nat
    BY <1>1
  <2>2. ~(MaxTodos - j < n)
    BY <1>4, <2>1
  <2> QED BY <1>1, <1>5, <2>1, <2>2
<1>7. N!Latest(t) \in S
  BY <1>2, <1>5, <1>6
<1> QED BY <1>1, <1>7

LEMMA PrepareKeeps == ASSUME NodesInv, N!Prepare PROVE Good
<1>1. PICK b \in BOOLEAN : graph' = N!Loaded(b)
  BY DEF N!Prepare
<1> DEFINE s == N!Loaded(b)
           meta == IF letter.merged THEN N!NoParts.meta ELSE row.meta
           first == N!Units(run.force, row, pics, Images, TRUE)
           p == N!Max({N!EndOf("prepare", first), N!EndOf("prepare", s.plan)})
<1>2. /\ run.pc = "prepare" /\ run \in Runs /\ run' = [run EXCEPT !.pc = "credits"]
      /\ run.n > 0 /\ run.verdict = None
      /\ N!Reaches(p)
      /\ UNCHANGED <<letter, pics, row, todo, patch, cut>>
      /\ row \in Parts /\ pics \in [Images -> Nat]
  BY <1>1 DEF N!Prepare, N!Goto, N!Row, NodesInv, NodesTypes
<1>3. /\ run' \in Runs /\ run'.pc = "credits" /\ run'.n = run.n /\ run'.force = run.force
      /\ run'.verdict = run.verdict /\ InRun' /\ Loads'
  BY <1>2 DEF Runs, InRun, Loads
<1>4. s.parts = [row EXCEPT !.meta = meta] /\ s.pics = pics /\ s.errors = FALSE
      /\ s.prompts = b /\ s.plan = N!Plan(s.parts, pics)
      /\ s.todos = [t \in {t \in Todos : N!Saying(t) # {}} |-> todo[N!Latest(t)].by]
      /\ s = [parts |-> s.parts, pics |-> s.pics, todos |-> s.todos, prompts |-> s.prompts,
              errors |-> s.errors, plan |-> s.plan]
  BY DEF N!Loaded
<1>5. meta \in Metas /\ meta.made \in {row.meta.made, None}
  BY <1>2 DEF Parts, Metas, N!NoParts
<1> HIDE DEF s, meta
<1>6. /\ s.parts \in Parts /\ s.parts.text = row.text /\ s.parts.title = row.title
      /\ s.parts.content = row.content /\ s.parts.data = row.data /\ s.parts.meta = meta
  BY <1>2, <1>4, <1>5 DEF Parts
<1>7. s.todos \in Details
  <2> DEFINE S == {t \in Todos : N!Saying(t) # {}}
  <2>1. \A t \in S : todo[N!Latest(t)].by \in {"run", "user"}
    BY LatestIs DEF NodesInv
  <2>2. S \in SUBSET Todos
    OBVIOUS
  <2>3. s.todos = [t \in S |-> todo[N!Latest(t)].by]
    BY <1>4
  <2> HIDE DEF S
  <2> QED BY <2>1, <2>2, <2>3 DEF Details
<1>8. s \in Graphs
  <2>1. s.plan \in Plans
    BY <1>4, PlanCounts
  <2> QED BY <1>2, <1>4, <1>6, <1>7, <2>1 DEF Graphs
<1>9. p \in Int
  <2>1. first \in Plans /\ s.plan \in Plans /\ "prepare" \in Stages
    BY <1>8, UnitsCount DEF Graphs, Stages
  <2> DEFINE x == N!EndOf("prepare", first)
             y == N!EndOf("prepare", s.plan)
  <2>2. x \in Nat /\ y \in Nat
    BY <2>1, EndCounts
  <2> HIDE DEF x, y
  <2>3. \E m \in {x, y} : \A n \in {x, y} : m >= n
    BY <2>2
  <2>4. N!Max({x, y}) \in {x, y}
    BY <2>3 DEF N!Max
  <2>5. p = N!Max({x, y})
    BY DEF x, y
  <2> HIDE DEF p
  <2> QED BY <2>2, <2>4, <2>5
<1> HIDE DEF p
<1>10. Percents' /\ Rises
  BY <1>2, <1>3, <1>9, NodesAssumption, ReachesUp
<1>11. NodesTypes'
  BY <1>1, <1>2, <1>3, <1>8, <1>10 DEF NodesInv, NodesTypes, s
<1>12. HoldsStored'
  BY <1>1, <1>2, <1>3, <1>4, <1>6 DEF HoldsStored, AsStored, s
<1>13. NoWords'
  <2>1. graph'.parts.text = row.text
    BY <1>1, <1>6 DEF s
  <2> QED BY <1>2, <2>1 DEF NodesInv, NoWords
<1>14. RowAgrees'
  BY <1>2, <1>3 DEF NodesInv, RowAgrees, Agree
<1>15. GraphAgrees'
  <2>1. ~cut /\ ~run.force => Agree(row)
    BY DEF NodesInv, RowAgrees
  <2>2. ~cut /\ ~run.force => Agree(s.parts)
    BY <1>5, <1>6, <2>1 DEF Agree
  <2>3. graph' = s
    BY <1>1 DEF s
  <2>4. ~cut' /\ ~run'.force => Agree(graph.parts)'
    BY <1>2, <1>3, <2>2, <2>3 DEF Agree
  <2>5. Replaces(graph, run.pc)'
    BY <1>3, <1>4, <2>3 DEF Replaces
  <2> QED BY <2>4, <2>5 DEF GraphAgrees
<1>16. Leaves
  BY <1>2, StaysPut DEF NodesInv
<1> QED BY <1>10, <1>11, <1>12, <1>13, <1>14, <1>15, <1>16 DEF Good, NodesInv
-----------------------------------------------------------------------------
(* A run is stored *)

(* There is a way to give each new todo a number of its own.                 *)
LEMMA NumbersExist ==
  ASSUME NEW S, IsFiniteSet(S), NEW T, IsFiniteSet(T), Cardinality(S) <= Cardinality(T)
  PROVE  \E f \in [S -> T] : \A s, t \in S : f[s] = f[t] => s = t
<1> DEFINE n == Cardinality(S)
           m == Cardinality(T)
<1>1. n \in Nat /\ m \in Nat /\ n <= m
  BY FS_CardinalityType
<1>2. PICK a \in Bijection(1..n, S) : TRUE
  BY FS_CardinalityType DEF ExistsBijection
<1>3. PICK b \in Bijection(1..m, T) : TRUE
  BY FS_CardinalityType DEF ExistsBijection
<1> HIDE DEF n, m
<1> DEFINE back == Inverse(a, 1..n, S)
           f == [s \in S |-> b[back[s]]]
<1>4. back \in Bijection(S, 1..n)
  BY <1>2, Fun_BijInverse
<1> HIDE DEF back
<1>5. back \in [S -> 1..n] /\ \A s, t \in S : back[s] = back[t] => s = t
  BY <1>4, Fun_BijectionProperties
<1>6. b \in [1..m -> T] /\ \A i, j \in 1..m : b[i] = b[j] => i = j
  BY <1>3, Fun_BijectionProperties
<1>7. \A s \in S : back[s] \in 1..m
  BY <1>1, <1>5
<1>8. f \in [S -> T] /\ \A s, t \in S : f[s] = f[t] => s = t
  BY <1>5, <1>6, <1>7
<1> HIDE DEF f
<1> QED BY <1>8

LEMMA NumbersCount ==
  ASSUME NEW S, IsFiniteSet(S), NEW T, NEW f \in [S -> T],
         \A s, t \in S : f[s] = f[t] => s = t,
         NEW R, \A x : x \in R <=> \E s \in S : x = f[s]
  PROVE  Cardinality(R) = Cardinality(S)
<1>1. f \in Injection(S, T)
  BY DEF Injection, IsInjective
<1>2. f \in Bijection(S, Range(f))
  BY <1>1, Fun_InjMeansBijImage
<1>3. ExistsBijection(S, Range(f))
  BY <1>2 DEF ExistsBijection
<1>4. Cardinality(Range(f)) = Cardinality(S)
  BY <1>3, FS_Bijection
<1>5. Range(f) = R
  BY DEF Range
<1> QED BY <1>4, <1>5

(* A todo stays but for its details; what was free may say what the state    *)
(* says.                                                                     *)
LEMMA TodosStay ==
  ASSUME NodesTypes, graph.todos \in Details,
         N!Cardinality(DOMAIN graph.todos) <= N!Cardinality(N!Free)
  PROVE  /\ N!TodosSynced \in [1..MaxTodos -> Entries \cup {None}]
         /\ \A i \in DOMAIN todo : todo[i] # None =>
              /\ N!TodosSynced[i] # None
              /\ N!TodosSynced[i].says = todo[i].says
              /\ N!TodosSynced[i].done = todo[i].done
<1> DEFINE says == DOMAIN graph.todos
           new == {x \in says : N!Saying(x) = {}}
           free == N!Free
           fits(f) == N!Cardinality({f[s] : s \in new}) = N!Cardinality(new)
           ids == CHOOSE f \in [new -> free] : fits(f)
           Made(x) == [says |-> x, done |-> FALSE, by |-> graph.todos[x]]
           Updated(t) == IF t # None /\ t.says \in says
                         THEN [t EXCEPT !.by = graph.todos[t.says]] ELSE t
<1>0. says \in SUBSET Todos /\ \A x \in says : graph.todos[x] \in {"run", "user"}
  BY DEF Details
<1>1. /\ DOMAIN todo = 1..MaxTodos /\ free = {i \in DOMAIN todo : todo[i] = None}
      /\ todo \in [1..MaxTodos -> Entries \cup {None}]
  BY DEF N!Free, NodesTypes
<1>2. /\ IsFiniteSet(says) /\ IsFiniteSet(free) /\ new \in SUBSET says
      /\ IsFiniteSet(new) /\ Cardinality(new) <= Cardinality(says)
  <2>1. IsFiniteSet(says)
    BY <1>0, NodesAssumption, FS_Subset
  <2>2. IsFiniteSet(1..MaxTodos) /\ free \in SUBSET (1..MaxTodos)
    BY <1>1, NodesAssumption, FS_Interval
  <2>3. new \in SUBSET says
    OBVIOUS
  <2> HIDE DEF new, free, says
  <2> QED BY <2>1, <2>2, <2>3, FS_Subset
<1>3. Cardinality(says) <= Cardinality(free)
  BY DEF N!Cardinality, Cardinality
<1>4. Cardinality(new) <= Cardinality(free)
  BY <1>2, <1>3, FS_CardinalityType
<1>5. N!TodosSynced = [i \in DOMAIN todo |->
                         IF \E s \in new : ids[s] = i
                         THEN Made(CHOOSE s \in new : ids[s] = i) ELSE Updated(todo[i])]
  BY DEF N!TodosSynced
<1>6. new \in SUBSET says
  OBVIOUS
<1> HIDE DEF new, free, says
<1>7. \E f \in [new -> free] : fits(f)
  <2>1. PICK f \in [new -> free] : \A s, t \in new : f[s] = f[t] => s = t
    BY <1>2, <1>4, NumbersExist
  <2>2. Cardinality({f[s] : s \in new}) = Cardinality(new)
    <3> DEFINE R == {f[s] : s \in new}
    <3>1. \A x : x \in R <=> \E s \in new : x = f[s]
      OBVIOUS
    <3> HIDE DEF R
    <3>2. Cardinality(R) = Cardinality(new)
      BY <1>2, <2>1, <3>1, NumbersCount
    <3> QED BY <3>2 DEF R
  <2>3. fits(f)
    BY <2>2 DEF N!Cardinality, Cardinality
  <2> QED BY <2>3
<1>8. ids \in [new -> free]
  BY <1>7
<1> HIDE DEF ids
<1>9. ASSUME NEW i \in 1..MaxTodos
      PROVE  /\ N!TodosSynced[i] \in Entries \cup {None}
             /\ todo[i] # None => /\ N!TodosSynced[i] # None
                                  /\ N!TodosSynced[i].says = todo[i].says
                                  /\ N!TodosSynced[i].done = todo[i].done
  <2>1. CASE \E s \in new : ids[s] = i
    <3>1. PICK x \in new : x = CHOOSE s \in new : ids[s] = i
      BY <2>1
    <3>2. i \in free
      BY <1>8, <2>1
    <3>3. N!TodosSynced[i] = Made(x)
      BY <1>1, <1>5, <2>1, <3>1
    <3>4. x \in Todos /\ graph.todos[x] \in {"run", "user"}
      BY <1>0, <1>6
    <3> QED BY <1>1, <3>2, <3>3, <3>4 DEF Entries
  <2>2. CASE ~\E s \in new : ids[s] = i
    <3>1. N!TodosSynced[i] = Updated(todo[i])
      BY <1>1, <1>5, <2>2
    <3>2. CASE todo[i] # None /\ todo[i].says \in says
      <4>1. /\ todo[i] \in Entries /\ graph.todos[todo[i].says] \in {"run", "user"}
            /\ N!TodosSynced[i] = [todo[i] EXCEPT !.by = graph.todos[todo[i].says]]
        BY <1>0, <1>1, <3>1, <3>2
      <4>2. N!TodosSynced[i] \in Entries
        BY <4>1 DEF Entries
      <4>3. /\ N!TodosSynced[i].says = todo[i].says
            /\ N!TodosSynced[i].done = todo[i].done
        BY <4>1 DEF Entries
      <4>4. N!TodosSynced[i] # None
        BY <4>2, NodesAssumption DEF Entries
      <4> QED BY <4>2, <4>3, <4>4
    <3>3. CASE ~(todo[i] # None /\ todo[i].says \in says)
      BY <1>1, <3>1, <3>3
    <3> QED BY <3>2, <3>3
  <2> QED BY <2>1, <2>2
<1>10. N!TodosSynced = [i \in 1..MaxTodos |-> N!TodosSynced[i]]
  BY <1>1, <1>5
<1> QED BY <1>1, <1>9, <1>10

(* What the row becomes. *)
LEMMA SyncedIs ==
  ASSUME row \in Parts, graph.parts \in Parts
  PROVE  LET p == graph.parts  new == N!Synced(p) IN
         /\ new \in Parts
         /\ new.text = IF p.text = 0 THEN row.text ELSE p.text
         /\ new.title = IF p.title = None THEN row.title ELSE p.title
         /\ new.content = IF p.content = None THEN row.content ELSE p.content
         /\ new.data = IF p.data = None THEN row.data ELSE p.data
         /\ new.meta = IF N!HasMeta(p.meta) THEN p.meta ELSE row.meta
<1> DEFINE p == graph.parts
           new == N!Synced(p)
<1>1. new = [text |-> new.text, title |-> new.title, content |-> new.content,
             data |-> new.data, meta |-> new.meta]
  BY DEF N!Synced
<1>2. /\ new.text = IF p.text = 0 THEN row.text ELSE p.text
      /\ new.title = IF p.title = None THEN row.title ELSE p.title
      /\ new.content = IF p.content = None THEN row.content ELSE p.content
      /\ new.data = IF p.data = None THEN row.data ELSE p.data
      /\ new.meta = IF N!HasMeta(p.meta) THEN p.meta ELSE row.meta
  BY DEF N!Synced, N!Kept
<1> HIDE DEF new
<1>3. /\ new.text \in Nat /\ new.title \in Nat \cup {None}
      /\ new.content \in Nat \cup {None} /\ new.data \in Nat \cup {None}
      /\ new.meta \in Metas
  BY <1>2 DEF Parts
<1>4. new \in Parts
  BY <1>1, <1>3 DEF Parts
<1> QED BY <1>2, <1>4 DEF new

(* The stored parts agree: those of a run without force continue the text of *)
(* the row, those of a forced run replace all of it.                         *)
LEMMA StoreAgrees ==
  ASSUME NodesInv, run.pc = "sync", ~cut
  PROVE  Agree(N!Synced(graph.parts))
<1> DEFINE p == graph.parts
           new == N!Synced(p)
<1>1. InRun /\ graph \in Graphs /\ row \in Parts /\ p \in Parts
  BY DEF InRun, Loads, NodesInv, NodesTypes, Graphs
<1>2. /\ new.text = IF p.text = 0 THEN row.text ELSE p.text
      /\ new.title = IF p.title = None THEN row.title ELSE p.title
      /\ new.content = IF p.content = None THEN row.content ELSE p.content
      /\ new.data = IF p.data = None THEN row.data ELSE p.data
      /\ new.meta = IF N!HasMeta(p.meta) THEN p.meta ELSE row.meta
  BY <1>1, SyncedIs
<1> HIDE DEF new
<1>3. ~letter.words => row.text = 0 /\ p.text = 0
  BY <1>1 DEF NodesInv, NoWords
<1>4. ASSUME ~run.force PROVE Agree(new)
  <2>1. Agree(p) /\ Agree(row)
    BY <1>1, <1>4 DEF NodesInv, GraphAgrees, RowAgrees
  <2>2. row.text # 0 => p.text = row.text
    BY <1>1, <1>4 DEF NodesInv, HoldsStored, AsStored
  <2>3. new.text = p.text
    BY <1>2, <2>2
  <2>4. row.text = p.text \/ (letter.words /\ row.text = 0)
    BY <1>3, <2>2
  <2>5. CASE row.text = p.text
    BY <1>2, <2>1, <2>3, <2>5 DEF Agree
  <2>6. CASE letter.words /\ row.text = 0
    <3>1. /\ row.title = None /\ row.content = None /\ row.data = None
          /\ row.meta.made = None
      BY <2>1, <2>6 DEF Agree
    <3>2. new.title = p.title /\ new.content = p.content /\ new.data = p.data
          /\ new.meta.made \in {None, p.meta.made}
      BY <1>2, <3>1
    <3> QED BY <2>1, <2>3, <3>2 DEF Agree
  <2> QED BY <2>4, <2>5, <2>6
<1>5. ASSUME run.force PROVE Agree(new)
  <2>1. Replaces(graph, "sync")
    BY <1>1, <1>5 DEF NodesInv, GraphAgrees
  <2>2. p.text \in Nat /\ p.text # None
    BY <1>1, NodesAssumption DEF Parts
  <2>3. /\ p.title = p.text /\ p.content = p.text /\ p.data = p.text
        /\ p.meta.made = p.text /\ (letter.words => p.text # 0)
    BY <2>1 DEF Replaces
  <2>4. new.text = p.text
    BY <1>2, <1>3, <2>3
  <2>5. new.meta = p.meta
    BY <1>2, <2>2, <2>3 DEF N!HasMeta
  <2> QED BY <1>2, <2>2, <2>3, <2>4, <2>5 DEF Agree
<1> QED BY <1>4, <1>5 DEF new

LEMMA StoreKeeps == ASSUME NodesInv, N!Store PROVE Good
<1> DEFINE p == graph.parts
           new == N!Synced(p)
<1>1. /\ run.pc = "sync" /\ InRun /\ graph \in Graphs /\ row \in Parts /\ p \in Parts
      /\ run \in Runs /\ run.n > 0 /\ run.verdict = None
      /\ pics \in [Images -> Nat] /\ graph.pics \in [Images -> Nat]
      /\ graph.todos \in Details
  BY DEF N!Store, InRun, Loads, NodesInv, NodesTypes, Graphs
<1>2. /\ row' = new /\ pics' = [i \in Images |-> N!Kept(graph.pics[i], pics[i], 0)]
      /\ todo' = N!TodosSynced /\ run' = [run EXCEPT !.pc = "stored"]
      /\ shown' = IF N!HasMeta(p.meta) THEN None ELSE shown
      /\ report = None /\ UNCHANGED <<letter, report, graph, peak, seen, patch, cut>>
  BY DEF N!Store, N!Goto
<1>3. /\ new \in Parts
      /\ new.text = IF p.text = 0 THEN row.text ELSE p.text
      /\ new.title = IF p.title = None THEN row.title ELSE p.title
      /\ new.content = IF p.content = None THEN row.content ELSE p.content
      /\ new.data = IF p.data = None THEN row.data ELSE p.data
      /\ new.meta = IF N!HasMeta(p.meta) THEN p.meta ELSE row.meta
  BY <1>1, SyncedIs
<1>4. ~cut => Agree(new)
  BY <1>1, StoreAgrees
<1> HIDE DEF new
<1>5. /\ run' \in Runs /\ run'.pc = "stored" /\ run'.n = run.n /\ run'.force = run.force
      /\ run'.verdict = run.verdict /\ ~InRun' /\ Loads'
  BY <1>1, <1>2 DEF Runs, InRun, Loads
<1>6. Percents' /\ Rises
  BY <1>1, <1>2, <1>5, NodesAssumption DEF NodesInv, Percents, Rises, N!Saves, N!Shown
<1>7. /\ todo' \in [1..MaxTodos -> Entries \cup {None}]
      /\ \A i \in DOMAIN todo : todo[i] # None =>
           todo'[i] # None /\ todo'[i].says = todo[i].says /\ todo'[i].done = todo[i].done
  <2>1. N!Cardinality(DOMAIN graph.todos) <= N!Cardinality(N!Free)
    BY DEF N!Store
  <2> QED BY <1>1, <1>2, <2>1, TodosStay DEF NodesInv
<1>8. /\ pics' \in [Images -> Nat]
      /\ \A i \in Images : pics'[i] = IF graph.pics[i] = 0 THEN pics[i] ELSE graph.pics[i]
  BY <1>1, <1>2 DEF N!Kept
<1>9. NodesTypes'
  BY <1>1, <1>2, <1>3, <1>5, <1>7, <1>8 DEF NodesInv, NodesTypes
<1>10. HoldsStored' /\ GraphAgrees'
  BY <1>5 DEF HoldsStored, GraphAgrees
<1>11. NoWords'
  BY <1>1, <1>2, <1>3, <1>5 DEF NodesInv, NoWords
<1>12. RowAgrees'
  BY <1>2, <1>4, <1>5 DEF RowAgrees, Agree
<1>13. Leaves
  <2>1. ~run.force => AsStored(graph)
    BY <1>1 DEF NodesInv, HoldsStored
  <2>2. /\ row.title # None => new.title # None
        /\ row.content # None => new.content # None
        /\ row.data # None => new.data # None
        /\ row.text # 0 => new.text # 0
        /\ N!HasMeta(row.meta) => N!HasMeta(new.meta)
    BY <1>3
  <2>3. /\ \A i \in Images : pics[i] # 0 => pics'[i] # 0
        /\ ~run.force => \A i \in Images : pics[i] # 0 => pics'[i] = pics[i]
    BY <1>8, <2>1 DEF AsStored
  <2>4. ~run.force => /\ row.text # 0 => new.text = row.text
                      /\ row.title # None => new.title = row.title
                      /\ row.data # None => new.data = row.data
    BY <1>3, <2>1 DEF AsStored
  <2>5. N!HasMeta(row.meta) => N!HasMeta(row'.meta)
    BY <1>2, <2>2
  <2>6. /\ \A k \in {"title", "content", "data"} : row[k] # None => row'[k] # None
        /\ row.text # 0 => row'.text # 0
        /\ ~run.force => /\ row.text # 0 => row'.text = row.text
                         /\ \A k \in {"title", "data"} : row[k] # None => row'[k] = row[k]
    BY <1>2, <2>2, <2>4
  <2> QED BY <1>7, <2>3, <2>5, <2>6 DEF Leaves
<1> QED BY <1>6, <1>9, <1>10, <1>11, <1>12, <1>13 DEF Good, NodesInv

LEMMA LastStageCounts ==
  ASSUME graph \in Graphs, NEW share \in Nat
  PROVE  N!LastStage(share) \in Int
<1> DEFINE start == N!EndOf("metadata", graph.plan)
<1>1. start \in Nat
  BY EndCounts DEF Stages, Graphs
<1> HIDE DEF start
<1>2. start + (share * (100 - start) + 50) \div 100 \in Int
  BY <1>1
<1> QED BY <1>2 DEF N!LastStage, start

LEMMA FinalizeKeeps == ASSUME NodesInv, N!Finalize PROVE Good
<1>1. /\ run.pc = "finalize" /\ InRun /\ graph \in Graphs
      /\ run \in Runs /\ run.n > 0 /\ run.verdict = None
      /\ run' = [run EXCEPT !.pc = "sync"] /\ N!Reaches(N!LastStage(55))
      /\ UNCHANGED <<letter, pics, row, todo, graph, patch, cut>>
  BY DEF N!Finalize, N!Goto, N!Row, InRun, Loads, NodesInv, NodesTypes
<1>2. /\ run' \in Runs /\ run'.pc = "sync" /\ run'.n = run.n /\ run'.force = run.force
      /\ run'.verdict = None /\ InRun' /\ Loads'
  BY <1>1 DEF Runs, InRun, Loads
<1>3. Percents' /\ Rises
  BY <1>1, <1>2, LastStageCounts, NodesAssumption, ReachesUp
<1>4. NodesTypes'
  BY <1>1, <1>2 DEF NodesInv, NodesTypes
<1>5. HoldsStored' /\ NoWords'
  BY <1>1, <1>2 DEF NodesInv, HoldsStored, AsStored, NoWords
<1>6. RowAgrees'
  BY <1>1, <1>2 DEF NodesInv, RowAgrees, Agree
<1>7. GraphAgrees'
  BY <1>1, <1>2 DEF NodesInv, GraphAgrees, Agree, Replaces
<1>8. Leaves
  BY <1>1, StaysPut DEF NodesInv
<1> QED BY <1>3, <1>4, <1>5, <1>6, <1>7, <1>8 DEF Good, NodesInv

LEMMA VerdictKeeps == ASSUME NodesInv, N!Verdict PROVE Good
<1>1. PICK v \in {"success", "failed"}, p \in {100, N!LastStage(80)} :
        /\ run' = [run EXCEPT !.pc = "rest", !.verdict = v]
        /\ N!Reaches(p) /\ (v = "success" => p = 100)
  <2>1. CASE N!Ends(IF graph.errors THEN "failed" ELSE "success") /\ N!Reaches(100)
    <3>1. PICK v \in {"success", "failed"} : v = IF graph.errors THEN "failed" ELSE "success"
      OBVIOUS
    <3> QED BY <2>1, <3>1 DEF N!Ends
  <2>2. CASE N!Ends("failed") /\ N!Reaches(N!LastStage(80))
    BY <2>2 DEF N!Ends
  <2> QED BY <2>1, <2>2 DEF N!Verdict
<1>2. /\ run.pc = "stored" /\ graph \in Graphs /\ run \in Runs /\ run.n > 0
      /\ UNCHANGED <<letter, pics, row, todo, graph, patch, cut>>
  BY DEF N!Verdict, N!Row, Loads, NodesInv, NodesTypes
<1>3. /\ run' \in Runs /\ run'.pc = "rest" /\ run'.n = run.n /\ run'.verdict = v
      /\ ~InRun' /\ ~Loads'
  BY <1>1, <1>2 DEF Runs, InRun, Loads
<1>4. p \in Int
  BY <1>2, LastStageCounts
<1>5. Percents' /\ Rises
  BY <1>1, <1>2, <1>3, <1>4, ReachesUp
<1>6. NodesTypes'
  BY <1>2, <1>3 DEF NodesInv, NodesTypes
<1>7. HoldsStored' /\ NoWords' /\ GraphAgrees'
  BY <1>2, <1>3 DEF NodesInv, HoldsStored, NoWords, GraphAgrees
<1>8. RowAgrees'
  BY <1>2, <1>3 DEF NodesInv, RowAgrees, Agree
<1>9. Leaves
  BY <1>2, StaysPut DEF NodesInv
<1> QED BY <1>5, <1>6, <1>7, <1>8, <1>9 DEF Good, NodesInv

LEMMA RollBackKeeps == ASSUME NodesInv, N!RollBack PROVE Good
<1>1. /\ run.pc = "sync" /\ InRun /\ graph \in Graphs
      /\ run \in Runs /\ run.n > 0 /\ peak \in Int
      /\ run' = [run EXCEPT !.pc = "rest", !.verdict = "failed"]
      /\ N!Reaches(peak) /\ N!Cuts(TRUE)
      /\ UNCHANGED <<letter, pics, row, todo, graph, patch>>
  BY DEF N!RollBack, N!Ends, N!Row, InRun, Loads, NodesInv, NodesTypes, Percents
<1>2. /\ run' \in Runs /\ run'.pc = "rest" /\ run'.n = run.n /\ run'.verdict = "failed"
      /\ ~InRun' /\ ~Loads'
  BY <1>1 DEF Runs, InRun, Loads
<1>3. Percents' /\ Rises
  BY <1>1, <1>2, ReachesUp
<1>4. NodesTypes'
  BY <1>1, <1>2 DEF NodesInv, NodesTypes
<1>5. HoldsStored' /\ NoWords' /\ GraphAgrees'
  BY <1>1, <1>2 DEF NodesInv, HoldsStored, NoWords, GraphAgrees
<1>6. RowAgrees'
  <2>1. ~cut' => ~cut /\ ~run.force
    BY <1>1 DEF N!Cuts
  <2>2. ~cut' => Agree(row)
    BY <1>1, <2>1 DEF NodesInv, RowAgrees
  <2> QED BY <1>1, <2>2 DEF RowAgrees, Agree
<1>7. Leaves
  BY <1>1, StaysPut DEF NodesInv
<1> QED BY <1>3, <1>4, <1>5, <1>6, <1>7 DEF Good, NodesInv

(* A report saves the metadata that is there, or what it was made from.      *)
LEMMA ReportKeeps == ASSUME NodesInv, N!Report PROVE Good
<1> DEFINE m == report.meta
<1>1. /\ report # None /\ report' = None /\ row' = [row EXCEPT !.meta = m]
      /\ shown' = report.shown /\ seen' = N!Max({seen, report.shown})
      /\ UNCHANGED <<letter, pics, todo, run, graph, peak, patch, cut>>
      /\ row \in Parts /\ m \in Metas /\ (~cut => m.made = row.meta.made)
      /\ report.shown = N!Shown(peak) /\ peak \in Int /\ peak <= 100
      /\ seen \in Int /\ seen <= N!Shown(peak)
      /\ run.verdict = "success" => peak = 100
  BY DEF N!Report, NodesInv, NodesTypes, Percents
<1> HIDE DEF m
<1>2. /\ row' \in Parts /\ row'.text = row.text /\ row'.title = row.title
      /\ row'.content = row.content /\ row'.data = row.data
      /\ row'.meta.made = m.made
  BY <1>1 DEF Parts
<1>3. (InRun' <=> InRun) /\ (Loads' <=> Loads)
  BY <1>1 DEF InRun, Loads
<1>4. N!Shown(peak) \in Int /\ (peak = 100 => N!Shown(peak) = 100)
  BY <1>1 DEF N!Shown
<1>5. seen' = N!Shown(peak)
  <2> DEFINE x == N!Shown(peak)
  <2>1. x \in {seen, x} /\ \A n \in {seen, x} : x >= n
    BY <1>1, <1>4
  <2>2. \A n \in {seen, x} : (\A k \in {seen, x} : n >= k) => n = x
    BY <1>1, <1>4
  <2> HIDE DEF x
  <2>3. N!Max({seen, x}) = x
    BY <2>1, <2>2 DEF N!Max
  <2> QED BY <1>1, <2>3 DEF x
<1>6. Percents'
  <2>1. N!Shown(peak)' = N!Shown(peak)
    BY <1>1 DEF N!Shown
  <2> QED BY <1>1, <1>4, <1>5, <2>1 DEF Percents
<1>7. Rises
  BY <1>1, <1>4 DEF Rises, N!Saves
<1>8. NodesTypes'
  BY <1>1, <1>2, <1>3 DEF NodesInv, NodesTypes
<1>9. HoldsStored' /\ NoWords'
  BY <1>1, <1>2, <1>3 DEF NodesInv, HoldsStored, AsStored, NoWords
<1>10. RowAgrees'
  BY <1>1, <1>2 DEF NodesInv, RowAgrees, Agree
<1>11. GraphAgrees'
  BY <1>1, <1>3 DEF NodesInv, GraphAgrees, Agree, Replaces
<1>12. Leaves
  BY <1>1 DEF Leaves
<1> QED BY <1>6, <1>7, <1>8, <1>9, <1>10, <1>11, <1>12 DEF Good, NodesInv
-----------------------------------------------------------------------------
(* The users, whom a run does not wait for *)

(* A todo that changes. *)
LEMMA TodoKeeps ==
  ASSUME NodesInv, NEW i \in 1..MaxTodos, NEW t \in Entries \cup {None},
         todo' = [todo EXCEPT ![i] = t],
         UNCHANGED <<letter, pics, row, shown, report, run, graph, peak, seen, patch, cut>>
  PROVE  Good
<1>1. (InRun' <=> InRun) /\ (Loads' <=> Loads)
  BY DEF InRun, Loads
<1>2. todo' \in [1..MaxTodos -> Entries \cup {None}]
  BY DEF NodesInv, NodesTypes
<1>3. NodesTypes'
  BY <1>1, <1>2 DEF NodesInv, NodesTypes
<1>4. HoldsStored' /\ NoWords'
  BY <1>1 DEF NodesInv, HoldsStored, AsStored, NoWords
<1>5. RowAgrees' /\ GraphAgrees'
  BY <1>1 DEF NodesInv, RowAgrees, GraphAgrees, Agree, Replaces
<1>6. Percents' /\ Rises
  BY ReportStays
<1>7. Leaves
  BY DEF Leaves
<1> QED BY <1>3, <1>4, <1>5, <1>6, <1>7 DEF Good, NodesInv

LEMMA ReadKeeps == ASSUME NodesInv, N!ReadMetadata PROVE Good
<1>1. /\ patch' = [meta |-> row.meta, shown |-> shown]
      /\ UNCHANGED <<letter, pics, row, todo, shown, report, run, graph, peak, seen, cut>>
  BY DEF N!ReadMetadata, N!User
<1>2. (InRun' <=> InRun) /\ (Loads' <=> Loads) /\ patch'.meta \in Metas
  BY <1>1 DEF InRun, Loads, NodesInv, NodesTypes, Parts
<1>3. NodesTypes'
  BY <1>1, <1>2 DEF NodesInv, NodesTypes
<1>4. HoldsStored' /\ NoWords'
  BY <1>1, <1>2 DEF NodesInv, HoldsStored, AsStored, NoWords
<1>5. RowAgrees' /\ GraphAgrees'
  BY <1>1, <1>2 DEF NodesInv, RowAgrees, GraphAgrees, Agree, Replaces
<1>6. Percents' /\ Rises
  BY <1>1, ReportStays
<1>7. Leaves
  BY <1>1 DEF Leaves
<1> QED BY <1>3, <1>4, <1>5, <1>6, <1>7 DEF Good, NodesInv

(* What a metadata request puts back was made as what it replaces, or cuts.  *)
LEMMA WriteKeeps == ASSUME NodesInv, N!WriteMetadata PROVE Good
<1>1. PICK b \in BOOLEAN : row' = [row EXCEPT !.meta = [patch.meta EXCEPT !.note = b]]
  BY DEF N!WriteMetadata
<1>2. /\ patch # None /\ patch' = None
      /\ cut' = (cut \/ patch.meta.made # row.meta.made)
      /\ UNCHANGED <<letter, pics, todo, report, run, graph, peak, seen>>
      /\ row \in Parts /\ patch.meta \in Metas
  BY DEF N!WriteMetadata, NodesInv, NodesTypes
<1> DEFINE m == [patch.meta EXCEPT !.note = b]
<1>3. m \in Metas /\ m.made = patch.meta.made
  BY <1>2 DEF Metas
<1> HIDE DEF m
<1>4. /\ row' \in Parts /\ row'.text = row.text /\ row'.title = row.title
      /\ row'.content = row.content /\ row'.data = row.data
      /\ row'.meta.made = patch.meta.made
  BY <1>1, <1>2, <1>3 DEF Parts, m
<1>5. (InRun' <=> InRun) /\ (Loads' <=> Loads)
  BY <1>2 DEF InRun, Loads
<1>6. NodesTypes'
  BY <1>2, <1>4, <1>5 DEF NodesInv, NodesTypes
<1>7. HoldsStored' /\ NoWords'
  BY <1>2, <1>4, <1>5 DEF NodesInv, HoldsStored, AsStored, NoWords
<1>8. RowAgrees'
  BY <1>2, <1>4 DEF NodesInv, RowAgrees, Agree
<1>9. GraphAgrees'
  BY <1>2, <1>5 DEF NodesInv, GraphAgrees, Agree, Replaces
<1>10. Percents'
  BY <1>2, <1>4 DEF NodesInv, Percents, N!Shown
<1>11. Rises /\ Leaves
  BY <1>2 DEF Rises, Leaves, N!Saves
<1> QED BY <1>6, <1>7, <1>8, <1>9, <1>10, <1>11 DEF Good, NodesInv
-----------------------------------------------------------------------------
(* The theorems *)

LEMMA NodesStart == N!Init => NodesInv
<1> SUFFICES ASSUME N!Init PROVE NodesInv
  OBVIOUS
<1>1. /\ row = N!NoParts /\ pics = [i \in Images |-> 0] /\ todo = [i \in 1..MaxTodos |-> None]
      /\ run = [n |-> 0, pc |-> "rest", force |-> FALSE, verdict |-> None]
      /\ peak = 0 /\ seen = 0 /\ patch = None /\ report = None
  BY DEF N!Init
<1>2. row \in Parts /\ row.text = 0 /\ Agree(row)
  BY <1>1 DEF N!NoParts, Parts, Metas, Agree
<1>3. run \in Runs /\ run.pc = "rest" /\ run.verdict = None /\ ~InRun /\ ~Loads
  BY <1>1 DEF Runs, InRun, Loads
<1>4. NodesTypes
  BY <1>1, <1>2, <1>3 DEF NodesTypes
<1>5. Percents
  BY <1>1, <1>3, NodesAssumption DEF Percents, N!Shown
<1> QED
  BY <1>2, <1>3, <1>4, <1>5 DEF NodesInv, HoldsStored, NoWords, RowAgrees, GraphAgrees

LEMMA NodesStep ==
  ASSUME NodesInv, [N!Next]_(N!vars)
  PROVE  Good
<1>1. CASE UNCHANGED N!vars
  <2>1. UNCHANGED <<letter, pics, row, todo, shown, report, run, graph, peak, seen, patch, cut>>
    BY <1>1 DEF N!vars
  <2>2. (InRun' <=> InRun) /\ (Loads' <=> Loads)
    BY <2>1 DEF InRun, Loads
  <2>3. NodesTypes' /\ HoldsStored' /\ NoWords'
    BY <2>1, <2>2 DEF NodesInv, NodesTypes, HoldsStored, AsStored, NoWords
  <2>4. RowAgrees' /\ GraphAgrees'
    BY <2>1, <2>2 DEF NodesInv, RowAgrees, GraphAgrees, Agree, Replaces
  <2>5. Percents' /\ Rises
    BY <2>1, ReportStays
  <2>6. Leaves
    BY <2>1 DEF Leaves
  <2> QED BY <2>3, <2>4, <2>5, <2>6 DEF Good, NodesInv
<1>2. CASE N!AddTodo \/ N!EditTodo \/ N!DropTodo
  <2>1. DOMAIN todo = 1..MaxTodos
    BY DEF NodesInv, NodesTypes
  <2>2. PICK i \in 1..MaxTodos, t \in Entries \cup {None} :
          /\ todo' = [todo EXCEPT ![i] = t]
          /\ UNCHANGED <<letter, pics, row, shown, report, run, graph, peak, seen, patch, cut>>
    BY <1>2, <2>1 DEF N!AddTodo, N!EditTodo, N!DropTodo, N!Free, N!User, Entries
  <2> QED BY <2>2, TodoKeeps
<1>3. CASE N!Next /\ ~(N!AddTodo \/ N!EditTodo \/ N!DropTodo)
  BY <1>3, StartKeeps, PrepareKeeps, CreditsKeeps, DescribeImagesKeeps, TextKeeps,
     SummaryKeeps, MetadataKeeps, FinalizeKeeps, StoreKeeps, VerdictKeeps, RollBackKeeps,
     ReportKeeps, ReadKeeps, WriteKeeps
  DEF N!Next
<1> QED BY <1>1, <1>2, <1>3

LEMMA NodesKeep == N!Spec => []NodesInv
<1>1. NodesInv /\ [N!Next]_(N!vars) => NodesInv'
  BY NodesStep DEF Good
<1> QED BY NodesStart, <1>1, PTL DEF N!Spec

(* However many runs fail half way and are continued, what a successful      *)
(* email shows beside its text was made from that text (LLMEmailNode,        *)
(* SummaryNode, MetadataNode, WorkflowFinalizeNode).                         *)
THEOREM PartsShareTheirText == N!Spec => []OneTextBehindAll
<1>1. NodesInv => OneTextBehindAll
  <2> SUFFICES ASSUME NodesInv, run.verdict = "success", ~cut
               PROVE  /\ \A k \in {"title", "content", "data"} : row[k] \in {None, row.text}
                      /\ row.meta.made \in {None, row.text}
    BY DEF OneTextBehindAll, N!OneTextBehindAll
  <2>1. run.pc = "rest"
    BY NodesAssumption DEF NodesInv, NodesTypes
  <2>2. Agree(row)
    BY <2>1 DEF NodesInv, RowAgrees
  <2> QED BY <2>2 DEF Agree
<1> QED BY <1>1, NodesKeep, PTL

(* No step of a run takes a stored result away, and a run without force      *)
(* replaces none (WorkflowFinalizeNode._sync_data_to_database).              *)
THEOREM StoredResultsSurvive == N!Spec => ResultsSurvive
<1>1. NodesInv /\ [N!Next]_(N!vars) => [Leaves]_(N!vars)
  BY NodesStep DEF Good
<1> QED
  BY <1>1, NodesKeep, PTL DEF N!Spec, ResultsSurvive, N!ResultsSurvive, Leaves

(* Whatever the plan of a run becomes, what it reports never falls, also     *)
(* across the sync, and a SUCCESS ends at 100 (TaskTracer, progress.py).     *)
THEOREM ProgressRises == N!Spec => ProgressNeverFalls
<1>1. NodesInv /\ [N!Next]_(N!vars) => [Rises]_(N!vars)
  BY NodesStep DEF Good
<1> QED
  BY <1>1, NodesKeep, PTL DEF N!Spec, ProgressNeverFalls, N!ProgressNeverFalls, Rises

(***************************************************************************)
(* MailContent                                                             *)
(***************************************************************************)

(* What holds of 0, and of n when it holds of n - 1, holds up to the top.    *)
LEMMA UpTo ==
  ASSUME NEW top \in Nat, NEW T, 0 \in T, \A n \in 1..top : n - 1 \in T => n \in T
  PROVE  \A n \in 0..top : n \in T
<1> DEFINE bad == {n \in Nat : n <= top /\ n \notin T}
<1> SUFFICES ASSUME bad # {} PROVE FALSE
  OBVIOUS
<1>1. PICK n \in bad : \A m \in bad : ~(m < n)
  BY SmallestOf
<1>2. n \in 1..top /\ n - 1 \in Nat /\ n - 1 <= top /\ n - 1 < n
  BY <1>1
<1> QED BY <1>1, <1>2
-----------------------------------------------------------------------------
(* The entries of the first walk *)

(* The entries of a mail, what they hold and how they are found.             *)
Finds == [key : Contents \cup Cids, c : Contents, name : Names \cup {None},
          cid : Cids \cup {None}]
Held(d) == {d[i].c : i \in DOMAIN d}
Keys(d) == {d[i].key : i \in DOMAIN d}

(* Under a hash stands the payload with that hash.                           *)
ByHash(d) == \A i \in DOMAIN d : d[i].key \in Contents => d[i].key = d[i].c

(* An entry put under a key: what it may add to the dictionary.              *)
LEMMA PutKeeps ==
  ASSUME NEW d \in Seq(Finds), NEW e \in Finds, NEW k \in Contents \cup Cids,
         ByHash(d), k \in Contents => k = e.c
  PROVE  /\ C!Put(d, k, e) \in Seq(Finds) /\ ByHash(C!Put(d, k, e))
         /\ Keys(C!Put(d, k, e)) = Keys(d) \cup {k}
         /\ Held(C!Put(d, k, e)) \subseteq Held(d) \cup {e.c}
<1> DEFINE at == {i \in DOMAIN d : d[i].key = k}
           new == [e EXCEPT !.key = k]
           p == C!Put(d, k, e)
<1>1. new \in Finds /\ new.key = k /\ new.c = e.c
  BY DEF Finds
<1>2. p = IF at = {} THEN Append(d, new) ELSE [i \in DOMAIN d |-> IF i \in at THEN new ELSE d[i]]
  BY DEF C!Put
<1> HIDE DEF new, p
<1>3. CASE at = {}
  <2>1. /\ p \in Seq(Finds) /\ DOMAIN p = DOMAIN d \cup {Len(d) + 1}
        /\ p[Len(d) + 1] = new /\ \A i \in DOMAIN d : p[i] = d[i]
    <3>1. p = Append(d, new)
      BY <1>2, <1>3
    <3> QED BY <3>1, <1>1
  <2> QED BY <2>1, <1>1 DEF ByHash, Keys, Held, p
<1>4. CASE at # {}
  <2>1. /\ DOMAIN p = DOMAIN d
        /\ \A i \in DOMAIN d : p[i] = IF d[i].key = k THEN new ELSE d[i]
    BY <1>2, <1>4
  <2>2. p \in Seq(Finds)
    <3>1. DOMAIN d = 1..Len(d) /\ Len(d) \in Nat /\ \A i \in DOMAIN d : d[i] \in Finds
      OBVIOUS
    <3>2. p = [i \in 1..Len(d) |-> IF i \in at THEN new ELSE d[i]]
      BY <1>2, <1>4, <3>1
    <3> QED BY <3>1, <3>2, <1>1
  <2> QED BY <2>1, <2>2, <1>1, <1>4 DEF ByHash, Keys, Held, p
<1> QED BY <1>3, <1>4

(* What an image adds: its payload, and the entry under its hash.            *)
LEMMA AddKeeps ==
  ASSUME NEW d \in Seq(Finds), NEW p \in MailParts, ByHash(d)
  PROVE  LET a == C!Add(d, C!Entry(p)) IN
         /\ a \in Seq(Finds) /\ ByHash(a)
         /\ Keys(a) \cap Contents = (Keys(d) \cap Contents) \cup {p.c}
         /\ Held(a) \subseteq Held(d) \cup {p.c}
<1> DEFINE e == C!Entry(p)
           b == C!Put(d, e.cid, e)
<1>1. /\ e \in Finds /\ e.c = p.c /\ e.cid \in Cids \cup {None}
      /\ p.c \in Contents
  BY DEF C!Entry, MailParts, Finds
<1>2. C!Add(d, e) = IF e.cid = None THEN C!Put(d, e.c, e) ELSE C!PutNew(b, e.c, e)
  BY DEF C!Add
<1> HIDE DEF e
<1>3. CASE e.cid = None
  BY <1>1, <1>2, <1>3, PutKeeps DEF e
<1>4. CASE e.cid # None
  <2>1. e.cid \in Cids /\ e.cid \notin Contents
    BY <1>1, <1>4, MailAssumption
  <2>2. /\ b \in Seq(Finds) /\ ByHash(b) /\ Keys(b) = Keys(d) \cup {e.cid}
        /\ Held(b) \subseteq Held(d) \cup {p.c}
    BY <2>1, <1>1, PutKeeps
  <2> HIDE DEF b
  <2>3. C!PutNew(b, e.c, e) = IF e.c \in Keys(b) THEN b ELSE C!Put(b, e.c, e)
    BY DEF C!PutNew, Keys
  <2>4. CASE e.c \in Keys(b)
    BY <2>1, <2>2, <2>3, <2>4, <1>1, <1>2, <1>4 DEF e
  <2>5. CASE e.c \notin Keys(b)
    <3> DEFINE q == C!Put(b, e.c, e)
    <3>1. /\ q \in Seq(Finds) /\ ByHash(q) /\ Keys(q) = Keys(b) \cup {e.c}
          /\ Held(q) \subseteq Held(b) \cup {e.c}
      BY <2>2, <1>1, PutKeeps
    <3>2. C!Add(d, e) = q
      BY <1>2, <1>4, <2>3, <2>5
    <3> HIDE DEF q
    <3> QED BY <3>1, <3>2, <2>1, <2>2, <1>1 DEF e
  <2> QED BY <2>4, <2>5
<1> QED BY <1>3, <1>4

(* The recursion of the first walk has a solution.                           *)
WalkOf(f, parts) ==
  f = [n \in 0..Len(parts) |->
         IF n = 0 THEN <<>>
         ELSE IF C!Takes(parts, n) THEN C!Add(f[n - 1], C!Entry(parts[n])) ELSE f[n - 1]]

LEMMA WalkExists ==
  ASSUME NEW parts, Len(parts) \in Nat
  PROVE  WalkOf(C!Walked(parts), parts)
<1> DEFINE next(d, n) == IF C!Takes(parts, n) THEN C!Add(d, C!Entry(parts[n])) ELSE d
           upto(f, k) == f = [n \in 0..k |-> IF n = 0 THEN <<>> ELSE next(f[n - 1], n)]
           T == {k \in 0..Len(parts) : \E f : upto(f, k)}
<1> HIDE DEF next
<1>1. 0 \in T
  <2>1. upto([n \in 0..0 |-> <<>>], 0)
    OBVIOUS
  <2> HIDE DEF upto
  <2> QED BY <2>1
<1>2. ASSUME NEW n \in 1..Len(parts), n - 1 \in T PROVE n \in T
  <2>1. PICK f : upto(f, n - 1)
    BY <1>2
  <2> DEFINE g == [m \in 0..n |-> IF m = n THEN next(f[n - 1], n) ELSE f[m]]
  <2>2. \A m \in 0..(n - 1) : f[m] = IF m = 0 THEN <<>> ELSE next(f[m - 1], m)
    BY <2>1
  <2>3. \A m \in 0..n : m # 0 => g[m - 1] = f[m - 1]
    OBVIOUS
  <2>4. \A m \in 0..n : g[m] = IF m = 0 THEN <<>> ELSE next(g[m - 1], m)
    BY <2>2, <2>3
  <2>5. upto(g, n)
    <3> HIDE DEF g
    <3>1. g = [m \in 0..n |-> g[m]]
      BY DEF g
    <3> QED BY <3>1, <2>4
  <2> HIDE DEF upto, g
  <2> QED BY <2>5
<1>3. PICK f : upto(f, Len(parts))
  <2>1. Len(parts) \in T
    <3> HIDE DEF T
    <3>1. \A n \in 1..Len(parts) : n - 1 \in T => n \in T
      BY <1>2
    <3>2. \A n \in 0..Len(parts) : n \in T
      BY <1>1, <3>1, UpTo
    <3> QED BY <3>2
  <2> QED BY <2>1
<1>4. WalkOf(f, parts)
  BY <1>3 DEF WalkOf, next
<1>5. C!Walked(parts) = CHOOSE g : WalkOf(g, parts)
  BY DEF C!Walked, WalkOf
<1> QED BY <1>4, <1>5

(* The payloads that an entry stands for: those of the images, small ones    *)
(* left out.                                                                 *)
Worth(parts) ==
  {parts[i].c : i \in {j \in DOMAIN parts : C!IsImage(parts[j]) /\ ~C!Decorative(parts[j].c)}}

(* The dictionary after n parts.                                             *)
HasFound(d, parts, n) ==
  LET taken == {parts[i].c : i \in {j \in 1..n : C!Takes(parts, j)}} IN
  /\ d \in Seq(Finds) /\ ByHash(d)
  /\ Keys(d) \cap Contents = taken /\ Held(d) \subseteq taken

LEMMA FoundSoFar ==
  ASSUME NEW parts \in Seq(MailParts)
  PROVE  HasFound(C!Inline(parts), parts, Len(parts))
<1> DEFINE w == C!Walked(parts)
           T == {n \in 0..Len(parts) : HasFound(w[n], parts, n)}
<1>1. /\ Len(parts) \in Nat /\ DOMAIN parts = 1..Len(parts)
      /\ \A n \in 1..Len(parts) : parts[n] \in MailParts
  OBVIOUS
<1>2. /\ w[0] = <<>>
      /\ \A n \in 1..Len(parts) :
           w[n] = IF C!Takes(parts, n) THEN C!Add(w[n - 1], C!Entry(parts[n])) ELSE w[n - 1]
  <2>1. WalkOf(w, parts)
    BY <1>1, WalkExists
  <2> HIDE DEF w
  <2> QED BY <1>1, <2>1 DEF WalkOf
<1> HIDE DEF w
<1>3. 0 \in T
  <2>1. <<>> \in Seq(Finds) /\ DOMAIN <<>> = {}
    OBVIOUS
  <2>2. HasFound(<<>>, parts, 0)
    BY <2>1 DEF HasFound, ByHash, Keys, Held
  <2> QED BY <1>1, <1>2, <2>2
<1>4. ASSUME NEW n \in 1..Len(parts), n - 1 \in T PROVE n \in T
  <2>1. HasFound(w[n - 1], parts, n - 1) /\ parts[n] \in MailParts
    BY <1>1, <1>4
  <2>2. CASE C!Takes(parts, n)
    <3> DEFINE a == C!Add(w[n - 1], C!Entry(parts[n]))
               before == {parts[i].c : i \in {j \in 1..(n - 1) : C!Takes(parts, j)}}
               now == {parts[i].c : i \in {j \in 1..n : C!Takes(parts, j)}}
    <3>1. /\ w[n - 1] \in Seq(Finds) /\ ByHash(w[n - 1])
          /\ Keys(w[n - 1]) \cap Contents = before /\ Held(w[n - 1]) \subseteq before
      BY <2>1 DEF HasFound
    <3>2. /\ a \in Seq(Finds) /\ ByHash(a)
          /\ Keys(a) \cap Contents = (Keys(w[n - 1]) \cap Contents) \cup {parts[n].c}
          /\ Held(a) \subseteq Held(w[n - 1]) \cup {parts[n].c}
      BY <2>1, <3>1, AddKeeps
    <3>3. now = before \cup {parts[n].c}
      <4>1. n \in 1..n /\ 1..n = 1..(n - 1) \cup {n}
        OBVIOUS
      <4> QED BY <4>1, <2>2
    <3>4. w[n] = a
      BY <1>2, <2>2
    <3> HIDE DEF a, before
    <3>5. HasFound(a, parts, n)
      BY <3>1, <3>2, <3>3 DEF HasFound
    <3> QED BY <3>4, <3>5
  <2>3. CASE ~C!Takes(parts, n)
    <3>1. w[n] = w[n - 1]
      BY <1>2, <2>3
    <3>2. {j \in 1..n : C!Takes(parts, j)} = {j \in 1..(n - 1) : C!Takes(parts, j)}
      BY <2>3
    <3> QED BY <3>1, <3>2, <2>1 DEF HasFound
  <2> QED BY <2>2, <2>3
<1>5. Len(parts) \in T
  <2> HIDE DEF T
  <2>1. \A n \in 1..Len(parts) : n - 1 \in T => n \in T
    BY <1>4
  <2>2. \A n \in 0..Len(parts) : n \in T
    BY <1>1, <1>3, <2>1, UpTo
  <2> QED BY <1>1, <2>2
<1> QED BY <1>5 DEF C!Inline, w

(* The first walk finds the images that are worth showing, and nothing else. *)
LEMMA InlineHoldsWorth ==
  ASSUME NEW parts \in Seq(MailParts)
  PROVE  C!Inline(parts) \in Seq(Finds) /\ Held(C!Inline(parts)) = Worth(parts)
<1> DEFINE d == C!Inline(parts)
           taken == {parts[i].c : i \in {j \in 1..Len(parts) : C!Takes(parts, j)}}
<1>1. /\ Len(parts) \in Nat /\ DOMAIN parts = 1..Len(parts)
      /\ \A n \in 1..Len(parts) : parts[n] \in MailParts
  OBVIOUS
<1>2. /\ d \in Seq(Finds) /\ ByHash(d)
      /\ Keys(d) \cap Contents = taken /\ Held(d) \subseteq taken
  BY FoundSoFar DEF HasFound
<1>3. ASSUME NEW c \in Worth(parts) PROVE c \in taken
  <2> DEFINE B == {i \in DOMAIN parts : parts[i].c = c /\ C!IsImage(parts[i])}
  <2>1. B \in SUBSET Nat /\ B # {} /\ ~C!Decorative(c)
    BY <1>1 DEF Worth
  <2>2. PICK i \in B : \A j \in B : ~(j < i)
    BY <2>1, SmallestOf
  <2>3. i \in 1..Len(parts) /\ parts[i].c = c /\ C!IsImage(parts[i])
    BY <1>1
  <2>4. ASSUME NEW j \in 1..(i - 1), C!IsImage(parts[j]) PROVE parts[j].c # parts[i].c
    <3>1. j \in DOMAIN parts /\ j < i
      BY <1>1, <2>3
    <3> QED BY <2>2, <2>3, <2>4, <3>1
  <2>5. C!Takes(parts, i)
    BY <2>1, <2>3, <2>4 DEF C!Takes
  <2> QED BY <2>3, <2>5
<1>4. taken \subseteq Worth(parts)
  BY <1>1 DEF Worth, C!Takes
<1>5. taken \subseteq Held(d)
  <2> SUFFICES ASSUME NEW c \in taken PROVE c \in Held(d)
    OBVIOUS
  <2>1. c \in Keys(d) /\ c \in Contents
    BY <1>2
  <2> HIDE DEF d, taken
  <2>2. PICK i \in DOMAIN d : d[i].key = c
    BY <2>1 DEF Keys
  <2> QED BY <1>2, <2>1, <2>2 DEF ByHash, Held
<1> HIDE DEF d, taken
<1>6. Held(d) = Worth(parts)
  BY <1>2, <1>3, <1>4, <1>5
<1> QED BY <1>2, <1>6 DEF d
-----------------------------------------------------------------------------
(* The images in the text *)

(* The recursion over the tags has a solution.                               *)
ReplacingOf(f, parser, tags, entries) ==
  f = [n \in 0..Len(entries) |->
         IF n = 0 THEN [left |-> tags, shown |-> {}]
         ELSE C!Replaced(parser, f[n - 1], entries[n])]

LEMMA ReplacingExists ==
  ASSUME NEW parser, NEW tags, NEW entries, Len(entries) \in Nat
  PROVE  ReplacingOf(C!Replacing(parser, tags, entries), parser, tags, entries)
<1> DEFINE first == [left |-> tags, shown |-> {}]
           next(s, n) == C!Replaced(parser, s, entries[n])
           upto(f, k) == f = [n \in 0..k |-> IF n = 0 THEN first ELSE next(f[n - 1], n)]
           T == {k \in 0..Len(entries) : \E f : upto(f, k)}
<1> HIDE DEF first, next
<1>1. 0 \in T
  <2>1. upto([n \in 0..0 |-> first], 0)
    OBVIOUS
  <2> HIDE DEF upto
  <2> QED BY <2>1
<1>2. ASSUME NEW n \in 1..Len(entries), n - 1 \in T PROVE n \in T
  <2>1. PICK f : upto(f, n - 1)
    BY <1>2
  <2> DEFINE g == [m \in 0..n |-> IF m = n THEN next(f[n - 1], n) ELSE f[m]]
  <2>2. \A m \in 0..(n - 1) : f[m] = IF m = 0 THEN first ELSE next(f[m - 1], m)
    BY <2>1
  <2>3. \A m \in 0..n : m # 0 => g[m - 1] = f[m - 1]
    OBVIOUS
  <2>4. \A m \in 0..n : g[m] = IF m = 0 THEN first ELSE next(g[m - 1], m)
    BY <2>2, <2>3
  <2>5. upto(g, n)
    <3> HIDE DEF g
    <3>1. g = [m \in 0..n |-> g[m]]
      BY DEF g
    <3> QED BY <3>1, <2>4
  <2> HIDE DEF upto, g
  <2> QED BY <2>5
<1>3. PICK f : upto(f, Len(entries))
  <2>1. Len(entries) \in T
    <3> HIDE DEF T
    <3>1. \A n \in 1..Len(entries) : n - 1 \in T => n \in T
      BY <1>2
    <3>2. \A n \in 0..Len(entries) : n \in T
      BY <1>1, <3>1, UpTo
    <3> QED BY <3>2
  <2> QED BY <2>1
<1>4. ReplacingOf(f, parser, tags, entries)
  BY <1>3 DEF ReplacingOf, first, next
<1>5. C!Replacing(parser, tags, entries) = CHOOSE g : ReplacingOf(g, parser, tags, entries)
  BY DEF C!Replacing, ReplacingOf
<1> QED BY <1>4, <1>5

LEMMA ReplacedShows ==
  ASSUME NEW parser, NEW s, NEW e
  PROVE  LET r == C!Replaced(parser, s, e) IN r = s \/ r.shown = s.shown \cup {e.c}
<1> DEFINE claims == C!Claims(parser, e)
           mine == {j \in DOMAIN claims : claims[j] \in s.left}
           rest == s.left \ {claims[C!Min(mine)]}
<1>1. C!Replaced(parser, s, e) = IF mine = {} THEN s
                                 ELSE [left |-> rest, shown |-> s.shown \cup {e.c}]
  BY DEF C!Replaced
<1> HIDE DEF mine, rest
<1> QED BY <1>1

(* The tags of the HTML are replaced by payloads of the entries.             *)
LEMMA TaggedHeld ==
  ASSUME NEW d \in Seq(Finds), NEW tags, NEW parser
  PROVE  C!Tagged(parser, tags, d) \subseteq Held(d)
<1> DEFINE f == C!Replacing(parser, tags, d)
           T == {n \in 0..Len(d) : f[n].shown \subseteq Held(d)}
<1>1. Len(d) \in Nat /\ DOMAIN d = 1..Len(d)
  OBVIOUS
<1>2. /\ f[0] = [left |-> tags, shown |-> {}]
      /\ \A n \in 1..Len(d) : f[n] = C!Replaced(parser, f[n - 1], d[n])
  <2> DEFINE step(n) == C!Replaced(parser, f[n - 1], d[n])
  <2>1. f = [n \in 0..Len(d) |-> IF n = 0 THEN [left |-> tags, shown |-> {}] ELSE step(n)]
    BY <1>1, ReplacingExists DEF ReplacingOf
  <2> HIDE DEF f, step
  <2>2. /\ f[0] = [left |-> tags, shown |-> {}]
        /\ \A n \in 1..Len(d) : f[n] = step(n)
    BY <1>1, <2>1
  <2> QED BY <2>2 DEF step
<1> HIDE DEF f
<1>3. 0 \in T
  BY <1>1, <1>2
<1>4. ASSUME NEW n \in 1..Len(d), n - 1 \in T PROVE n \in T
  <2>1. f[n] = f[n - 1] \/ f[n].shown = f[n - 1].shown \cup {d[n].c}
    BY <1>2, ReplacedShows
  <2>2. d[n].c \in Held(d) /\ f[n - 1].shown \subseteq Held(d)
    BY <1>1, <1>4 DEF Held
  <2> QED BY <2>1, <2>2
<1>5. Len(d) \in T
  <2> HIDE DEF T
  <2>1. \A n \in 1..Len(d) : n - 1 \in T => n \in T
    BY <1>4
  <2>2. \A n \in 0..Len(d) : n \in T
    BY <1>1, <1>3, <2>1, UpTo
  <2> QED BY <1>1, <2>2
<1> QED BY <1>5 DEF C!Tagged, f

(* A reference stands for the payload of an entry, or raises.                *)
LEMMA FoundHeld ==
  ASSUME NEW d \in Seq(Finds), NEW ref
  PROVE  C!Found(d, ref) \subseteq Held(d) \/ C!Found(d, ref) = {None}
<1> DEFINE hits == {i \in DOMAIN d : d[i].name = None \/ <<d[i].name, ref>> \in Alike}
           e == d[C!Min(hits)]
<1>1. C!Found(d, ref) = CASE hits = {} -> {}
                          [] hits # {} /\ e.name = None -> {None}
                          [] OTHER -> {e.c}
  BY DEF C!Found
<1>2. CASE hits = {}
  BY <1>1, <1>2
<1>3. CASE hits # {}
  <2>1. hits \in SUBSET Nat
    OBVIOUS
  <2>2. PICK i \in hits : \A j \in hits : ~(j < i)
    BY <1>3, <2>1, SmallestOf
  <2>3. ASSUME NEW j \in hits PROVE i <= j
    <3>1. i \in Nat /\ j \in Nat /\ ~(j < i)
      BY <2>1, <2>2
    <3> QED BY <3>1
  <2>4. C!Min(hits) \in hits
    BY <2>2, <2>3 DEF C!Min
  <2>5. e.c \in Held(d)
    <3> HIDE DEF hits
    <3>1. C!Min(hits) \in DOMAIN d
      BY <2>4 DEF hits
    <3> QED BY <3>1 DEF Held
  <2> HIDE DEF e, hits
  <2>6. C!Found(d, ref) = {None} \/ C!Found(d, ref) = {e.c}
    BY <1>1, <1>3
  <2> QED BY <2>5, <2>6
<1> QED BY <1>2, <1>3

LEMMA PlacesHeld ==
  ASSUME NEW d \in Seq(Finds), NEW html
  PROVE  C!HtmlPlaces(html, d) \subseteq Held(d)
<1> DEFINE byTag == UNION {C!Found(d, t.ref) : t \in html.tags}
           byName == UNION {C!Found(d, n) : n \in html.names}
<1>1. None \in byTag \/ byTag \subseteq Held(d)
  <2>1. ASSUME NEW t \in html.tags
        PROVE  C!Found(d, t.ref) \subseteq Held(d) \/ C!Found(d, t.ref) = {None}
    BY FoundHeld
  <2> QED BY <2>1
<1>2. None \in byName \/ byName \subseteq Held(d)
  <2>1. ASSUME NEW n \in html.names
        PROVE  C!Found(d, n) \subseteq Held(d) \/ C!Found(d, n) = {None}
    BY FoundHeld
  <2> QED BY <2>1
<1>3. C!HtmlPlaces(html, d) = IF None \in byTag \cup byName THEN {}
                             ELSE IF byTag # {} THEN byTag ELSE byName
  BY DEF C!HtmlPlaces
<1> HIDE DEF byTag, byName
<1> QED BY <1>1, <1>2, <1>3

(* The text of a mail that has images worth showing refers to some of them,  *)
(* and to all of them when there is no HTML.                                 *)
LEMMA TextRefersToWorth ==
  ASSUME NEW m, m.parts \in Seq(MailParts), Worth(m.parts) # {}
  PROVE  LET refs == C!FlankerText(m, C!Inline(m.parts)).shown IN
         /\ m.html = None /\ m.plain # None => refs = Worth(m.parts)
         /\ m.html # None => refs # {} /\ refs \subseteq Worth(m.parts)
<1> DEFINE d == C!Inline(m.parts)
           t == C!Tagged("flanker", m.html.tags, d)
           text == C!FlankerText(m, d)
<1>1. d \in Seq(Finds) /\ Held(d) = Worth(m.parts)
  BY InlineHoldsWorth
<1> HIDE DEF d
<1>2. d # <<>>
  <2>1. DOMAIN <<>> = {}
    OBVIOUS
  <2> QED BY <1>1, <2>1 DEF Held
<1>3. t \subseteq Held(d)
  BY <1>1, TaggedHeld
<1> HIDE DEF t
<1>4. C!InOrder(d) = Held(d)
  BY DEF C!InOrder, Held
<1>5. m.html # None /\ t # {} => text.shown = t
  BY <1>2 DEF C!FlankerText, t
<1>6. ASSUME \/ m.html # None /\ t = {}
             \/ m.html = None /\ m.plain # None
      PROVE  text = C!Embed(m, d)
  BY <1>2, <1>6 DEF C!FlankerText, t
<1>7. C!HtmlPlaces(m.html, d) \subseteq Held(d)
  BY <1>1, PlacesHeld
<1>8. /\ C!Embed(m, d).shown # {} /\ C!Embed(m, d).shown \subseteq Held(d)
      /\ m.html = None => C!Embed(m, d).shown = Held(d)
  BY <1>1, <1>4, <1>7 DEF C!Embed
<1> HIDE DEF text
<1>9. /\ m.html = None /\ m.plain # None => text.shown = Worth(m.parts)
      /\ m.html # None => text.shown # {} /\ text.shown \subseteq Worth(m.parts)
  BY <1>1, <1>3, <1>5, <1>6, <1>8
<1> QED BY <1>9 DEF text, d
-----------------------------------------------------------------------------
(* The walk of the second pass *)

(* The work on a mail of the flanker parser: the text comes from the first   *)
(* walk, and what is saved from the parts; a file that is no image comes     *)
(* from a part that is none.                                                 *)
Pictures(parts) == {parts[i].c : i \in {j \in DOMAIN parts : C!IsImage(parts[j])}}
Others(parts) == {parts[i].c : i \in {j \in DOMAIN parts : ~C!IsImage(parts[j])}}
MailInv ==
  /\ mail.parts \in Seq(MailParts)
  /\ DOMAIN reading = {"pc", "at", "text", "files", "images"}
  /\ reading.pc \in {"rest", "walk", "done"}
  /\ reading.images \subseteq Pictures(mail.parts)
  /\ reading.files \subseteq reading.images \cup Others(mail.parts)
  /\ mail.parser = "flanker" =>
       LET text == C!FlankerText(mail, C!Inline(mail.parts)) IN
       /\ reading.pc = "walk" => reading.text = text
       /\ reading.pc = "done" => reading.text = C!Cleaned(text, reading.images)

LEMMA MailStarts == C!Init => MailInv
<1> SUFFICES ASSUME C!Init PROVE MailInv
  OBVIOUS
<1>1. mail.parts \in Seq(MailParts)
  BY MailAssumption DEF C!Init
<1>2. reading = C!Unread
  BY DEF C!Init
<1> QED BY <1>1, <1>2 DEF MailInv, C!Unread

LEMMA MailKeeps == MailInv /\ [C!Next]_(C!vars) => MailInv'
<1> SUFFICES ASSUME MailInv, [C!Next]_(C!vars) PROVE MailInv'
  OBVIOUS
<1> DEFINE text == C!FlankerText(mail, C!Inline(mail.parts))
           legacy == C!LegacyText(mail, C!LegacyInline(mail.parts))
<1>1. CASE C!Read
  <2>1. mail' = mail /\ reading.pc = "rest"
    BY <1>1 DEF C!Read
  <2>2. reading' = [reading EXCEPT !.pc = "walk", !.at = 1,
                      !.text = IF mail.parser = "flanker" THEN text ELSE legacy]
    BY <1>1 DEF C!Read
  <2> HIDE DEF text, legacy
  <2>3. /\ DOMAIN reading' = DOMAIN reading /\ reading'.pc = "walk"
        /\ reading'.images = reading.images /\ reading'.files = reading.files
        /\ mail.parser = "flanker" => reading'.text = text
    BY <2>2 DEF MailInv
  <2> QED BY <2>1, <2>3 DEF MailInv, text
<1>2. CASE C!Skip
  <2>1. /\ mail' = mail /\ reading.pc = "walk"
        /\ reading' = [reading EXCEPT !.at = @ + 1]
    BY <1>2 DEF C!Skip
  <2>2. /\ DOMAIN reading' = DOMAIN reading /\ reading'.pc = "walk"
        /\ reading'.images = reading.images /\ reading'.files = reading.files
        /\ reading'.text = reading.text
    BY <2>1 DEF MailInv
  <2> QED BY <2>1, <2>2 DEF MailInv
<1>3. CASE C!Save
  <2>1. /\ mail' = mail /\ reading.pc = "walk" /\ reading.at \in DOMAIN mail.parts
    BY <1>3 DEF C!Save
  <2>2. /\ DOMAIN reading' = DOMAIN reading /\ reading'.pc = "walk"
        /\ reading'.text = reading.text
        /\ \/ reading'.images = reading.images /\ reading'.files = reading.files
           \/ /\ reading'.files = reading.files \cup {C!Here.c}
              /\ reading'.images = reading.images \cup
                                     IF C!IsImage(C!Here) THEN {C!Here.c} ELSE {}
    <3>1. \/ reading' = [reading EXCEPT !.at = @ + 1]
          \/ reading' = [reading EXCEPT !.at = @ + 1, !.files = @ \cup {C!Here.c},
               !.images = @ \cup IF C!IsImage(C!Here) THEN {C!Here.c} ELSE {}]
      BY <1>3 DEF C!Save
    <3> QED BY <2>1, <3>1 DEF MailInv
  <2>3. IF C!IsImage(C!Here) THEN C!Here.c \in Pictures(mail.parts)
        ELSE C!Here.c \in Others(mail.parts)
    BY <2>1 DEF C!Here, Pictures, Others
  <2> QED BY <2>1, <2>2, <2>3 DEF MailInv
<1>4. CASE C!Finish
  <2>1. mail' = mail /\ reading.pc = "walk"
    BY <1>4 DEF C!Finish
  <2>2. reading' = [reading EXCEPT !.pc = "done",
                      !.text = IF mail.parser = "flanker" THEN C!Cleaned(reading.text, reading.images)
                               ELSE reading.text]
    BY <1>4 DEF C!Finish
  <2>3. /\ DOMAIN reading' = DOMAIN reading /\ reading'.pc = "done"
        /\ reading'.images = reading.images /\ reading'.files = reading.files
        /\ mail.parser = "flanker" => reading'.text = C!Cleaned(reading.text, reading.images)
    BY <2>2 DEF MailInv
  <2> QED BY <2>1, <2>3 DEF MailInv
<1>5. CASE UNCHANGED C!vars
  BY <1>5 DEF C!vars, MailInv
<1> QED BY <1>1, <1>2, <1>3, <1>4, <1>5 DEF C!Next

(* TextShowsSavedImages: whatever save fails, the text of a mail (flanker    *)
(* parser) refers to no image that was not saved, to each saved one that is  *)
(* worth showing when there is no HTML, and to some of them otherwise.       *)
THEOREM TextsShowSavedImages == C!Spec => []TextShowsSavedImages
<1>1. MailInv => TextShowsSavedImages
  <2> DEFINE found == C!FlankerText(mail, C!Inline(mail.parts))
             worth == {c \in reading.images : ~C!Decorative(c)}
  <2> SUFFICES ASSUME MailInv, C!Parsed
               PROVE  /\ reading.text.shown \subseteq reading.images
                      /\ mail.html = None /\ mail.plain # None
                           => worth \subseteq reading.text.shown
                      /\ worth # {} /\ mail.html # None /\ C!AllSaved /\ C!ToldOneWay
                           => reading.text.shown # {}
    BY DEF TextShowsSavedImages, C!TextShowsSavedImages
  <2>1. reading.text.shown = found.shown \cap reading.images
    <3>1. reading.text = C!Cleaned(found, reading.images)
      BY DEF MailInv, C!Parsed
    <3>2. \E x : "shown" \in DOMAIN found /\ x = found
      BY DEF C!FlankerText, C!Embed
    <3> HIDE DEF found
    <3> QED BY <3>1, <3>2 DEF C!Cleaned
  <2>2. worth \subseteq Worth(mail.parts)
    BY DEF MailInv, Pictures, Worth
  <2>3. worth # {} => /\ mail.html = None /\ mail.plain # None => found.shown = Worth(mail.parts)
                      /\ mail.html # None => found.shown # {} /\ found.shown \subseteq Worth(mail.parts)
    BY <2>2, TextRefersToWorth DEF MailInv
  <2>4. ASSUME C!AllSaved, C!ToldOneWay PROVE Worth(mail.parts) \subseteq reading.images
    <3> SUFFICES ASSUME NEW i \in DOMAIN mail.parts, C!IsImage(mail.parts[i]),
                        ~C!Decorative(mail.parts[i].c)
                 PROVE  mail.parts[i].c \in reading.images
      BY DEF Worth
    <3> DEFINE c == mail.parts[i].c
               B == {j \in DOMAIN mail.parts : mail.parts[j].c = c}
    <3>1. DOMAIN mail.parts \subseteq Nat /\ DOMAIN mail.parts = 1..Len(mail.parts)
      BY DEF MailInv
    <3>2. PICK j \in B : \A k \in B : ~(k < j)
      BY <3>1, SmallestOf
    <3>3. \A k \in 1..(j - 1) : mail.parts[k].c # mail.parts[j].c
      <4> SUFFICES ASSUME NEW k \in 1..(j - 1), mail.parts[k].c = c PROVE FALSE
        OBVIOUS
      <4>1. k \in DOMAIN mail.parts /\ k < j
        BY <3>1
      <4> QED BY <3>2, <4>1
    <3>4. C!IsFile(mail, j)
      BY <3>3 DEF C!IsFile, C!Parsed
    <3>5. c \in reading.files
      BY <2>4, <3>4 DEF C!AllSaved
    <3>6. c \notin Others(mail.parts)
      BY <2>4 DEF C!ToldOneWay, Others
    <3> QED BY <3>5, <3>6 DEF MailInv
  <2> HIDE DEF found
  <2> QED BY <2>1, <2>2, <2>3, <2>4
<1> QED BY <1>1, MailStarts, MailKeeps, PTL DEF C!Spec
=============================================================================
