------------------------------ MODULE MCAccounts ------------------------------
(***************************************************************************)
(* Instances of ShareLinks, Accounts and LegacyImport for TLC.  They share *)
(* nothing but the users: in each behaviour one moves and the others rest. *)
(***************************************************************************)
EXTENDS Web, TLC

(* Two pages of one owner, over the two weeks in which a link expires and is *)
(* found by the cleanup.                                                     *)
PageScene(asks, K) ==
  [k \in K \cup {"ask"} |-> CASE k = "ask" -> asks [] k = "tick" -> 2 [] OTHER -> 1]
Rest == <<>>
ScenesAndRest ==
  {PageScene(2, {"visit", "sweep", "tick"}), PageScene(2, {"lost", "reload", "tick"}),
   PageScene(3, {"reload"}), PageScene(3, {"visit", "tick"}), Rest}

(* Two clients and two addresses, which are offered the same names first.    *)
TheOffers ==
  [e \in {"x", "y"} |-> IF e = "x" THEN <<"ann", "ann1">> ELSE <<"ann", "ann1", "bob">>]
TheAccountScenes == {
  Rest,
  [send |-> 2, complete |-> 2, smtp |-> 1], [send |-> 1, oauth |-> 1, setup |-> 1, complete |-> 1],
  [send |-> 1, manage |-> 1, complete |-> 1], [command |-> 1, send |-> 1, complete |-> 1],
  [oauth |-> 2, setup |-> 2, plan |-> 1], [manage |-> 1, reset |-> 1, confirm |-> 2, login |-> 1],
  [manage |-> 1, login |-> 1, alias |-> 2], [send |-> 1, signal |-> 1, complete |-> 1, expire |-> 1],
  [send |-> 2, oauth |-> 1, setup |-> 1],
  [manage |-> 1, oauth |-> 1, reset |-> 1, confirm |-> 1]}

(* Two imports of a user's old settings and of two issues. *)
Does(K) == [k \in K |-> IF k \in {"issues", "channels", "issue"} THEN 2 ELSE 1]
TheImportScenes == {
  Rest,
  Does({"issues", "issue", "drop", "delete"}), Does({"issues", "issue", "subscribe", "edit"}),
  Does({"issues", "issue", "subscribe", "crash"}),
  Does({"channels", "set", "subscribe", "edit"}), Does({"channels", "set", "drop", "crash"}),
  [channels |-> 1, issues |-> 2, issue |-> 1, set |-> 2, drop |-> 1]}

WebInit ==
  /\ Init /\ A!Init /\ G!Init
  /\ Cardinality({b \in {1, 2, 3} : <<budget, purse, change>>[b] # Rest}) <= 1
WebNext ==
  \/ Next /\ UNCHANGED <<accountVars, importVars>>
  \/ A!Next /\ UNCHANGED <<vars, importVars>>
  \/ G!Next /\ UNCHANGED <<vars, accountVars>>
WebSpec == WebInit /\ [][WebNext]_<<vars, accountVars, importVars>>
=============================================================================
