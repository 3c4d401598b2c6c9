----------------------------- MODULE WorkflowNodes -----------------------------
(***************************************************************************)
(* What the nodes of the workflow (threadline/agents/nodes) make of an     *)
(* email over several runs: the descriptions of its images, its text, the  *)
(* summary and the metadata, its todos, and the percentage that is shown   *)
(* meanwhile.  A run loads what is stored, each node adds its part to the  *)
(* state of the graph or an error, and the last node stores the state,     *)
(* also after errors.  The locks let one run at a time work on an email    *)
(* (EmailPipeline); users edit todos and metadata at any time.             *)
(*                                                                         *)
(* A part is known by the text it was made from; the text and the          *)
(* description of an image by the run that made them, 0 for none.          *)
(***************************************************************************)
EXTENDS Integers, FiniteSets, Sequences, FiniteSetsExt

CONSTANTS MaxRuns,
          Images,       \* image attachments, 1 the largest
          Todos,        \* what todos say
          MaxTodos,
          Mails,        \* cases: [words, merged, limit]
          Scenes,       \* bounds: what happens, and how often
          None

VARIABLES mail,         \* whether it has words, is merged; the plan's limit
          pics,         \* EmailAttachment.llm_content
          row,          \* the results of the email
          todo,         \* the EmailTodo rows, by id
          shown,        \* metadata.processing_progress
          report,       \* a percentage about to be saved, with the metadata read
          run,          \* the number of the run, its node, force, its verdict
          state,        \* the EmailState of the graph
          peak,         \* the percentage the tracer has reached
          seen,         \* history: the largest percentage the run has saved
          patch,        \* a metadata request that has read the row
          cut,          \* history: a forced run did not replace every part, since
                        \* it failed or an answer had nothing to replace it with
          budget

vars ==
  <<mail, pics, row, todo, shown, report, run, state, peak, seen, patch, cut, budget>>
Row == <<pics, row, todo>>

(* What a row has: the run each part was made in, and the note of the user. *)
NoParts == [text |-> 0, title |-> None, content |-> None, data |-> None,
            meta |-> [made |-> None, note |-> FALSE]]
HasMeta(m) == m.made # None \/ m.note

NoState == [parts |-> NoParts, pics |-> [i \in Images |-> 0], todos |-> <<>>,
            prompts |-> FALSE, errors |-> FALSE, plan |-> <<>>]

Init ==
  /\ mail \in Mails
  /\ pics = [i \in Images |-> 0]
  /\ row = NoParts
  /\ todo = [i \in 1..MaxTodos |-> None]
  /\ shown = None
  /\ report = None
  /\ run = [n |-> 0, pc |-> "rest", force |-> FALSE, verdict |-> None]
  /\ state = NoState
  /\ peak = 0
  /\ seen = 0
  /\ patch = None
  /\ cut = FALSE
  /\ budget \in Scenes

Spend(k) ==
  /\ k \in DOMAIN budget
  /\ budget[k] > 0
  /\ budget' = [budget EXCEPT ![k] = @ - 1]
-----------------------------------------------------------------------------
(* Progress: the percentage at which each stage ends *)

Stages == <<"prepare", "credits", "images", "llm", "summary", "metadata", "finalize">>

One(b) == IF b THEN 1 ELSE 0

(* estimate_prepare_workflow_units; the estimate before the workflow does    *)
(* not know the limit of the plan nor what counts as metadata.               *)
Units(force, parts, described, images, meta) ==
  << 1, 1, Cardinality({i \in images : force \/ described[i] = 0}),
     10 * One(mail.words /\ (force \/ parts.text = 0)),
     One(force \/ parts.title = None) + One(force \/ parts.data = None),
     One(force \/ ~meta), 1 >>

(* build_workflow_progress_plan: what the floors leave of 100 goes to the    *)
(* stages with the largest fractions, the later one first.                   *)
Spans(units) ==
  LET total == FoldSet(LAMBDA i, s : s + units[i], 0, DOMAIN units)
      floor(i) == (100 * units[i]) \div total
      fraction(i) == (100 * units[i]) % total
      rest == 100 - FoldSet(LAMBDA i, s : s + floor(i), 0, DOMAIN units)
      before(i) == {j \in DOMAIN units :
                      \/ fraction(j) > fraction(i)
                      \/ fraction(j) = fraction(i) /\ j > i}
  IN [i \in DOMAIN units |-> floor(i) + One(Cardinality(before(i)) < rest)]

EndOf(stage, units) ==
  LET spans == Spans(units)
      last == CHOOSE i \in DOMAIN Stages : Stages[i] = stage
  IN FoldSet(LAMBDA i, s : s + spans[i], 0, 1..last)

(* TaskTracer._sync_threadline_progress_snapshot: the percentage of the run  *)
(* never falls, nor rises over 100; the user sees 20 to 100.                 *)
Capped(p) == IF p > 100 THEN 100 ELSE p
AsReported(p) == p
Raised(p) == IF p > peak THEN p ELSE peak
Shown(p) == (205 + 8 * p) \div 10

Limited ==
  IF mail.limit = None THEN Images ELSE {i \in Images : i <= mail.limit}
(* The plan of the prepare node stays the plan of the run. *)
Plan(parts, described) ==
  Units(run.force, parts, described, Limited, HasMeta(parts.meta))

(* The email is loaded (first), then its metadata saved with the percentage  *)
(* in it (set_processing_progress): what is saved in between is lost.  The   *)
(* run waits for it.                                                         *)
Reaches(p) ==
  /\ report = None
  /\ peak' = Raised(Capped(p))
  /\ report' = [meta |-> row.meta, shown |-> Shown(peak')]
  /\ UNCHANGED <<shown, seen>>

Report ==
  /\ report # None
  /\ row' = [row EXCEPT !.meta = report.meta]
  /\ shown' = report.shown
  /\ seen' = Max({seen, report.shown})
  /\ report' = None
  /\ UNCHANGED <<mail, pics, todo, run, state, peak, patch, cut, budget>>
-----------------------------------------------------------------------------
(* The nodes *)

Goto(pc) == run' = [run EXCEPT !.pc = pc]
NextOf(pc) ==
  CASE pc = "credits" -> "images" [] pc = "images" -> "llm"
    [] pc = "llm" -> "summary" [] pc = "summary" -> "metadata"
    [] OTHER -> "finalize"

(* BaseLangGraphNode.__call__: a node ends at the end of its stage, whether  *)
(* it worked, was skipped or added an error.                                 *)
EndNode(s) ==
  /\ state' = s
  /\ Goto(NextOf(run.pc))
  /\ Reaches(EndOf(run.pc, s.plan))
  /\ UNCHANGED <<mail, Row, patch>>

Failed(s) == [s EXCEPT !.errors = TRUE]
With(k, v) == [state EXCEPT !.parts[k] = v]
Needed(k) == run.force \/ state.parts[k] = None
Cuts(b) == cut' = (cut \/ (b /\ run.force))

(* process_email_workflow, execute_email_processing_workflow *)
Start(force) ==
  /\ run.pc = "rest" /\ report = None
  /\ run.n < MaxRuns
  /\ Spend(IF force THEN "force" ELSE "run")
  /\ run' = [n |-> run.n + 1, pc |-> "prepare", force |-> force, verdict |-> None]
  /\ peak' = 0
  /\ seen' = 0
  /\ report' = [meta |-> row.meta, shown |-> Shown(0)]
  /\ cut' = (cut /\ ~force)
  /\ UNCHANGED <<mail, Row, shown, state, patch>>

(* WorkflowPrepareNode: an email that was merged gets new metadata; prompts  *)
(* that cannot be loaded are left out.  A todo is known by what it says; of  *)
(* two that say the same the later one counts.                               *)
Saying(says) == {i \in DOMAIN todo : todo[i] # None /\ todo[i].says = says}
Latest(says) == CHOOSE i \in Saying(says) : \A j \in Saying(says) : j <= i

Loaded(prompts) ==
  LET parts == [row EXCEPT !.meta = IF mail.merged THEN NoParts.meta ELSE @] IN
  [parts |-> parts, pics |-> pics,
   todos |-> [t \in {t \in Todos : Saying(t) # {}} |-> todo[Latest(t)].by],
   prompts |-> prompts, errors |-> FALSE, plan |-> Plan(parts, pics)]

Prepare ==
  /\ run.pc = "prepare"
  /\ \/ state' = Loaded(TRUE) /\ UNCHANGED budget
     \/ state' = Loaded(FALSE) /\ Spend("prompts")
  /\ Goto("credits")
  /\ LET first == Units(run.force, row, pics, Images, TRUE) IN
     Reaches(Max({EndOf("prepare", first), EndOf("prepare", state'.plan)}))
  /\ UNCHANGED <<mail, Row, patch, cut>>

(* CreditsCheckNode adds an error when there is nothing to pay with. *)
Credits ==
  /\ run.pc = "credits"
  /\ \/ EndNode(state) /\ UNCHANGED <<budget, cut>>
     \/ EndNode(Failed(state)) /\ Spend("credits") /\ Cuts(TRUE)

(* ImageIntentNode: images without a description, all of them with force; an *)
(* image the model fails on, or over the limit of the plan, loses its        *)
(* description in the state.  The last image shows as 100 percent, because   *)
(* its number is taken for the progress of the task.                         *)
Describe(lost) ==
  LET due == {i \in Limited : run.force \/ state.pics[i] = 0}
      made(i) == CASE i \in lost \/ i \notin Limited -> 0
                   [] i \in due \ lost -> run.n
                   [] OTHER -> state.pics[i]
  IN /\ lost \subseteq due
     /\ state' = [state EXCEPT !.pics = [i \in Images |-> made(i)]]
     /\ Goto("llm")
     /\ Reaches(IF Limited = {} THEN EndOf("images", state.plan) ELSE 100)
     /\ UNCHANGED <<mail, Row, patch, cut>>

DescribeImages ==
  /\ run.pc = "images"
  /\ CASE state.errors \/ Images = {} -> EndNode(state) /\ UNCHANGED <<budget, cut>>
       [] ~state.errors /\ Images # {} /\ ~state.prompts ->
            EndNode(Failed(state)) /\ UNCHANGED budget /\ Cuts(TRUE)
       [] OTHER ->
            \/ Describe({}) /\ UNCHANGED budget
            \/ /\ Spend("image")
               /\ \E lost \in SUBSET Images : lost # {} /\ Describe(lost)

(* LLMEmailNode: a text that exists stays without force; an answer may be    *)
(* empty, which is no error.                                                 *)
MakeText ==
  /\ run.pc = "llm"
  /\ CASE state.errors \/ ~mail.words \/ (~run.force /\ state.parts.text # 0) ->
            EndNode(state) /\ UNCHANGED <<budget, cut>>
       [] ~state.errors /\ mail.words /\ ~state.prompts
            /\ (run.force \/ state.parts.text = 0) ->
            EndNode(Failed(state)) /\ UNCHANGED budget /\ Cuts(TRUE)
       [] OTHER ->
            \/ EndNode(With("text", run.n)) /\ UNCHANGED <<budget, cut>>
            \/ EndNode(With("text", 0)) /\ Spend("silence") /\ Cuts(TRUE)
            \/ EndNode(Failed(With("text", 0))) /\ Spend("llm") /\ Cuts(TRUE)

(* SummaryNode: a title, then a structured summary with todos.  One that has *)
(* neither details nor steps nor todos leaves the content as it is.  When    *)
(* there is no JSON, or its todos cannot be read, the node asks for a plain  *)
(* summary, which may be empty, and keeps the structured data it has.        *)
Titled(b) == IF b /\ Needed("title") THEN With("title", state.parts.text)
             ELSE IF Needed("title") THEN With("title", None) ELSE state
Structured(s, says) ==
  [s EXCEPT !.parts.data = state.parts.text, !.parts.content = state.parts.text,
            !.todos = [t \in says |-> "run"]]
Silent(s) == [s EXCEPT !.parts.data = state.parts.text, !.todos = <<>>]
Plain(s, data, content) ==
  [s EXCEPT !.parts.data = data, !.parts.content = content, !.todos = <<>>]
Broken(s, data) == Failed([s EXCEPT !.parts.data = data])
Reused(s) ==
  IF s.parts.content = None THEN [s EXCEPT !.parts.content = s.parts.data] ELSE s

Quiet ==
  IF Needed("data") THEN {Structured(Titled(FALSE), {}), Silent(Titled(TRUE))}
  ELSE {Reused(Titled(FALSE)), Titled(TRUE)}

Summarize ==
  LET datas == {state.parts.data, state.parts.text} IN
  /\ run.pc = "summary"
  /\ CASE state.errors \/ (~run.force /\ state.parts.text = 0) ->
            EndNode(state) /\ UNCHANGED <<budget, cut>>
       [] ~state.errors /\ (run.force \/ state.parts.text # 0) /\ ~state.prompts ->
            EndNode(Failed(state)) /\ UNCHANGED budget /\ Cuts(TRUE)
       [] OTHER ->
            \/ /\ Needed("data")
               /\ \E says \in SUBSET Todos : EndNode(Structured(Titled(TRUE), says))
               /\ UNCHANGED <<budget, cut>>
            \/ /\ ~Needed("data")
               /\ EndNode(Reused(Titled(TRUE))) /\ UNCHANGED <<budget, cut>>
            \/ /\ Needed("data")
               /\ \E d \in datas, c \in {state.parts.text, None} :
                    EndNode(Plain(Titled(TRUE), d, c))
               /\ Spend("json") /\ Cuts(TRUE)
            \/ /\ \E s \in Quiet : EndNode(s)
               /\ Spend("silence") /\ Cuts(TRUE)
            \/ /\ Needed("title")
               /\ EndNode(Failed(state)) /\ Spend("llm") /\ Cuts(TRUE)
            \/ /\ Needed("data")
               /\ \E d \in datas : EndNode(Broken(Titled(TRUE), d))
               /\ Spend("llm") /\ Cuts(TRUE)

(* MetadataNode: needs a title and a content unless it is forced. *)
ExtractMetadata ==
  LET p == state.parts
      enters == ~state.errors /\ (run.force \/ (p.title # None /\ p.content # None))
      due == run.force \/ ~HasMeta(p.meta)
      new == [made |-> IF p.content = None THEN 0 ELSE p.content, note |-> FALSE]
  IN /\ run.pc = "metadata"
     /\ CASE ~enters \/ (state.prompts /\ ~due) ->
               EndNode(state) /\ UNCHANGED <<budget, cut>>
          [] enters /\ ~state.prompts ->
               EndNode(Failed(state)) /\ UNCHANGED budget /\ Cuts(TRUE)
          [] OTHER ->
               \/ EndNode(With("meta", new)) /\ UNCHANGED <<budget, cut>>
               \/ /\ EndNode(With("meta", NoParts.meta))
                  /\ Spend("silence") /\ Cuts(TRUE)
               \/ EndNode(Failed(state)) /\ Spend("llm") /\ Cuts(TRUE)
-----------------------------------------------------------------------------
(* WorkflowFinalizeNode: what the state has is stored, what it lacks stays. *)

Kept(new, old, none) == IF new = none THEN old ELSE new
SyncedAll(p) == p
TextOnce(p) == [p EXCEPT !.text = IF row.text # 0 THEN row.text ELSE @]
Synced(p) ==
  [text |-> Kept(p.text, row.text, 0),
   title |-> Kept(p.title, row.title, None),
   content |-> Kept(p.content, row.content, None),
   data |-> Kept(p.data, row.data, None),
   meta |-> IF HasMeta(p.meta) THEN p.meta ELSE row.meta]

(* _sync_todos: get_or_create by email and content.  A todo that exists      *)
(* stays done, with the details of the state, which may be those it had when *)
(* the run loaded it; two of one content raise, so that nothing is stored.   *)
Free == {i \in DOMAIN todo : todo[i] = None}
Ambiguous == \E says \in DOMAIN state.todos : Cardinality(Saying(says)) > 1
TodosSynced ==
  LET new == {says \in DOMAIN state.todos : Saying(says) = {}}
      ids == CHOOSE f \in [new -> Free] : Cardinality({f[s] : s \in new}) = Cardinality(new)
      Made(s) == [says |-> s, done |-> FALSE, by |-> state.todos[s]]
      Updated(t) ==
        IF t # None /\ t.says \in DOMAIN state.todos
        THEN [t EXCEPT !.by = state.todos[t.says]] ELSE t
  IN [i \in DOMAIN todo |->
        IF \E s \in new : ids[s] = i
        THEN Made(CHOOSE s \in new : ids[s] = i) ELSE Updated(todo[i])]

Ends(verdict) == run' = [run EXCEPT !.pc = "rest", !.verdict = verdict]

(* What the last node reports: a share of what is left after the others.     *)
LastStage(share) ==
  LET start == EndOf("metadata", state.plan) IN
  start + (share * (100 - start) + 50) \div 100

(* execute_processing *)
Finalize ==
  /\ run.pc = "finalize"
  /\ Goto("sync")
  /\ Reaches(LastStage(55))
  /\ UNCHANGED <<mail, Row, state, patch, cut, budget>>

(* _sync_data_to_database: what the workflow made is stored in one           *)
(* transaction, also after an error.  The metadata of the state has no       *)
(* percentage (_strip_runtime_metadata), and replaces all that is there.     *)
Store ==
  /\ run.pc = "sync" /\ report = None
  /\ ~Ambiguous
  /\ Cardinality(DOMAIN state.todos) <= Cardinality(Free)   \* bound MaxTodos
  /\ row' = Synced(state.parts)
  /\ pics' = [i \in Images |-> Kept(state.pics[i], pics[i], 0)]
  /\ todo' = TodosSynced
  /\ shown' = IF HasMeta(state.parts.meta) THEN None ELSE shown
  /\ Goto("stored")
  /\ UNCHANGED <<mail, report, state, peak, seen, patch, cut, budget>>

(* The status is set, unless that fails, then complete_task or fail_task.    *)
Verdict ==
  /\ run.pc = "stored"
  /\ \/ /\ Ends(IF state.errors THEN "failed" ELSE "success")
        /\ Reaches(100) /\ UNCHANGED budget
     \/ /\ Ends("failed")
        /\ Reaches(LastStage(80)) /\ Spend("database")
  /\ UNCHANGED <<mail, Row, state, patch, cut>>

(* _handle_error: the transaction is rolled back and the email has failed.   *)
RollBack ==
  /\ run.pc = "sync"
  /\ \/ Ambiguous /\ UNCHANGED budget
     \/ Spend("database")
  /\ Ends("failed")
  /\ Reaches(peak)
  /\ Cuts(TRUE)
  /\ UNCHANGED <<mail, Row, state, patch>>
-----------------------------------------------------------------------------
(* The users *)

User == UNCHANGED <<mail, pics, report, run, state, peak, seen, cut>>

(* EmailTodoListAPIView.post: nothing compares it with the todos there are. *)
AddTodo ==
  \E says \in Todos, done \in BOOLEAN, i \in Free :
    /\ Spend("todo")
    /\ todo' = [todo EXCEPT ![i] = [says |-> says, done |-> done, by |-> "user"]]
    /\ User /\ UNCHANGED <<row, shown, patch>>

(* EmailTodoDetailAPIView.patch and EmailTodoBatchAPIView *)
EditTodo ==
  \E i \in DOMAIN todo \ Free, says \in Todos, done \in BOOLEAN :
    /\ Spend("todo")
    /\ todo' = [todo EXCEPT ![i] = [says |-> says, done |-> done, by |-> "user"]]
    /\ User /\ UNCHANGED <<row, shown, patch>>

(* EmailTodoDetailAPIView.delete *)
DropTodo ==
  \E i \in DOMAIN todo \ Free :
    /\ Spend("todo")
    /\ todo' = [todo EXCEPT ![i] = None]
    /\ User /\ UNCHANGED <<row, shown, patch>>

(* EmailMessageMetadataAPIView.patch reads the email, and saves the whole    *)
(* metadata with one key added or removed, the old progress with it.         *)
ReadMetadata ==
  /\ patch = None
  /\ Spend("patch")
  /\ patch' = [meta |-> row.meta, shown |-> shown]
  /\ User /\ UNCHANGED <<row, todo, shown>>

WriteMetadata ==
  /\ patch # None
  /\ \E b \in BOOLEAN : row' = [row EXCEPT !.meta = [patch.meta EXCEPT !.note = b]]
  /\ shown' = patch.shown
  /\ patch' = None
  /\ cut' = (cut \/ patch.meta.made # row.meta.made)
  /\ UNCHANGED <<mail, pics, todo, report, run, state, peak, seen, budget>>

Next ==
  \/ \E force \in BOOLEAN : Start(force)
  \/ Prepare \/ Credits \/ DescribeImages \/ MakeText \/ Summarize \/ ExtractMetadata
  \/ Finalize \/ Store \/ Verdict \/ RollBack \/ Report
  \/ AddTodo \/ EditTodo \/ DropTodo \/ ReadMetadata \/ WriteMetadata

Spec == Init /\ [][Next]_vars
-----------------------------------------------------------------------------
(* Properties *)

Saves == report # None /\ report' = None

(* The percentage the user sees (EmailMessage.metadata.processing_progress)  *)
(* never falls during a run: a report saves no less than the run has saved   *)
(* before, though the nodes report stages of plans that change, images as    *)
(* steps of the whole task, and errors; and the last one of a SUCCESS says   *)
(* 100.  Beside the reports only the sync changes it, which saves metadata   *)
(* without a percentage for the next report to restore, and a metadata       *)
(* request, which puts back an older one.                                    *)
ProgressNeverFalls ==
  [][ /\ Saves => shown' >= seen /\ (run.verdict = "success" => shown' = 100)
      /\ shown' # shown =>
           Saves \/ patch' # patch \/ (shown' = None /\ run'.pc = "stored") ]_vars

(* A step of a run never removes a result that is stored, whatever fails; a  *)
(* run without force replaces no text, title, structured summary or image    *)
(* description; and no run removes a todo of the user, renames it or undoes  *)
(* it (WorkflowFinalizeNode stores only what the state has).  The details of *)
(* a todo are not the user's to keep: the sync overwrites them.  A report is *)
(* no step of a run here: it saves metadata it has read before, and an edit  *)
(* in between is lost.                                                       *)
ResultsSurvive ==
  [][ run' # run =>
        /\ \A k \in {"title", "content", "data"} : row[k] # None => row'[k] # None
        /\ row.text # 0 => row'.text # 0
        /\ HasMeta(row.meta) => HasMeta(row'.meta)
        /\ \A i \in Images : pics[i] # 0 => pics'[i] # 0
        /\ ~run.force =>
             /\ row.text # 0 => row'.text = row.text
             /\ \A k \in {"title", "data"} : row[k] # None => row'[k] = row[k]
             /\ \A i \in Images : pics[i] # 0 => pics'[i] = pics[i]
        /\ \A i \in DOMAIN todo : todo[i] # None =>
             todo'[i] # None /\ todo'[i].says = todo[i].says /\ todo'[i].done = todo[i].done
    ]_vars

(* When an email is SUCCESS, its title, its summaries and its metadata were  *)
(* all made from the text it shows, over any number of runs that fail half   *)
(* way and are continued, with answers that say nothing, and while reports   *)
(* save metadata they have read before - unless a forced run was cut short,  *)
(* or an answer gave it nothing to replace a part with, which stores new     *)
(* parts beside old ones (_build_summary_content falls back to the old       *)
(* content), or a metadata request has put back what it had read.            *)
OneTextBehindAll ==
  run.verdict = "success" /\ ~cut =>
    /\ \A k \in {"title", "content", "data"} : row[k] \in {None, row.text}
    /\ row.meta.made \in {None, row.text}
=============================================================================
