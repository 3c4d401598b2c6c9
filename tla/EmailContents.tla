---------------------------- MODULE EmailContents -----------------------------
(***************************************************************************)
(* What is made of an email: the text and the files of the mail            *)
(* (MailContent), the results of the nodes of the workflow (WorkflowNodes) *)
(* and the artifact in an issue tracker (IssueDrivers).  Each works on     *)
(* what the one before it has stored, at a time of its own: each step is a *)
(* step of one of them.                                                    *)
(***************************************************************************)
EXTENDS IssueDrivers, Sequences

CONSTANTS Contents, Names, Cids, Kinds, Alike, Mails, MailScenes,  \* of MailContent
          MaxRuns, Images, Todos, MaxTodos, Letters, NodeScenes           \* of WorkflowNodes

VARIABLES mail, reading, disk
mailVars == <<mail, reading, disk>>

VARIABLES letter, pics, row, todo, shown, report, run, graph, peak, seen, patch, cut, purse
nodeVars ==
  <<letter, pics, row, todo, shown, report, run, graph, peak, seen, patch, cut, purse>>

C == INSTANCE MailContent WITH
       Scenes <- MailScenes, work <- reading, budget <- disk

N == INSTANCE WorkflowNodes WITH
       Mails <- Letters, Scenes <- NodeScenes,
       mail <- letter, state <- graph, budget <- purse

(* Images and todos are finite in number; None is the number of no run, no   *)
(* verdict and no todo.                                                      *)
ASSUME NodesAssumption ==
  /\ IsFiniteSet(Images) /\ IsFiniteSet(Todos)
  /\ MaxTodos \in Nat
  /\ None \notin Nat \cup {"success"}
  /\ None \notin [says : Todos, done : BOOLEAN, by : {"run", "user"}]

(* A part has a payload c, says it is an image or not, and may have a name   *)
(* and a content id.  No content id is the hash of a payload: the first walk *)
(* over the parts keeps both in one dictionary.                              *)
MailParts == [c : Contents, image : BOOLEAN, name : Names \cup {None},
              cid : Cids \cup {None}, attached : BOOLEAN]
ASSUME MailAssumption ==
  /\ Contents \cap Cids = {}
  /\ \A m \in Mails : m.parts \in Seq(MailParts)

(* The properties of MailContent and WorkflowNodes, as the modules see them  *)
(* that extend this one.                                                     *)
TextShowsSavedImages == C!TextShowsSavedImages
OneTextBehindAll == N!OneTextBehindAll
ProgressNeverFalls == N!ProgressNeverFalls
ResultsSurvive == N!ResultsSurvive
=============================================================================
