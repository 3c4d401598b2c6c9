----------------------------- MODULE CatalogForest -----------------------------
(***************************************************************************)
(* The plans on sale (PlanCatalog) and the merge relation of the emails    *)
(* (MergeForest) side by side.  They share neither rows nor processes:     *)
(* each step is a step of one of them.                                     *)
(***************************************************************************)
EXTENDS PlanCatalog

CONSTANTS Mails, Manuals, Mail, Today, Long, Close, Inside, Crews, Budgets  \* of MergeForest

VARIABLES crew, tally, fresh, here, mail, into, why, proof, lock, queue, task, command
forestVars == <<crew, tally, fresh, here, mail, into, why, proof, lock, queue, task, command>>

F == INSTANCE MergeForest WITH budget <- tally

(* Ids are numbers, and a merge takes one that no mail has; days are numbers;  *)
(* crews are finite.  None is neither an id nor a worker.                      *)
ASSUME ForestAssumption ==
  /\ Mails \subseteq Nat /\ Manuals \subseteq Nat /\ Mails \cap Manuals = {}
  /\ \A e \in Mails : Mail[e].day \in Nat
  /\ Today \in Nat
  /\ \A C \in Crews : IsFiniteSet(C) /\ None \notin C
  /\ None \notin Nat

(* The properties of MergeForest, as the modules see them that extend this one. *)
NoCircle == F!NoCircle
EvidenceAgrees == F!EvidenceAgrees
SerialMergesKeepTogether == F!SerialMergesKeepTogether
=============================================================================
