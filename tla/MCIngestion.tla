----------------------------- MODULE MCIngestion -----------------------------
(***************************************************************************)
(* Instances of Ingestion for TLC.  Mails 1, 2, 6 and 11 come through      *)
(* Haraka, 1 has an attachment, 6 cannot be parsed and 11 not be decoded.  *)
(* 3, 4, 5 and 7 go to the mailbox of u2, who deletes what was fetched: 3  *)
(* has the attachment of 1, 5 has no date, 7 cannot be parsed.  8 and 10   *)
(* go to u3, who keeps all mail on the server, but whose filters leave out *)
(* 10 and whatever is old; 9 to u4, who keeps it and reads only what is    *)
(* unread.                                                                 *)
(***************************************************************************)
EXTENDS Ingestion, TLC

CONSTANTS u1, u2, u3, u4

TheImapUsers == <<u2, u3, u4>>
Boxes == [m \in Mails |-> CASE m \in {1, 2, 6, 11} -> None
                            [] m \in {8, 10} -> u3
                            [] m = 9 -> u4
                            [] OTHER -> u2]
Recipients == [m \in Mails |-> CASE m = 1 -> <<"x", "y">>
                                 [] m = 2 -> <<"x">>
                                 [] OTHER -> <<"y">>]
Filters == [u \in Users |-> IF u = u3 THEN Mails \ {10} ELSE Mails]
Parts == [m \in Mails |-> IF m \in {1, 3} THEN "picture" ELSE None]
AsThemselves == [m \in Mails |-> m]
Defaults == [u \in Users |-> IF u = u1 THEN "y" ELSE "z"]

Scene(mails, K) == [mails |-> mails, budget |-> [k \in K |-> 1]]
AllScenes ==
  {Scene({1, 3}, {"death"}),
   Scene({3, 4, 5}, {"save"}),
   Scene({3, 4}, {"server", "delete", "broker"}),
   Scene({1, 2}, {"move", "alias"}), Scene({1}, {"overrun", "move"}),
   Scene({1}, {"cleanup", "write", "deny"}),
   Scene({1, 6}, {"attach"}),
   Scene({3, 7}, {"death", "broker"}),
   Scene({8}, {"death", "save", "broker"}),
   [mails |-> {3, 4}, budget |-> [k \in {"overrun"} |-> 2]],
   Scene({8, 10}, {"server", "age"}),
   Scene({1, 11}, {"attach"}),
   Scene({9}, {"server"})}
=============================================================================
