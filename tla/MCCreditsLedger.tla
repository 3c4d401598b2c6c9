--------------------------- MODULE MCCreditsLedger ---------------------------
(***************************************************************************)
(* Instance of CreditsLedger for TLC.                                      *)
(***************************************************************************)
EXTENDS CreditsLedger, TLC

CONSTANTS u1

(* Both emails belong to one user: the runs compete for one wallet. *)
OneOwner == [e \in Emails |-> u1]

(* No definition tells the runs apart, nor the emails of the one user. *)
Interchangeable == Permutations(Runs) \cup Permutations(Emails)
=============================================================================
