--------------------------- MODULE MCSubscriptions ---------------------------
(***************************************************************************)
(* Instances of Subscriptions for TLC.                                     *)
(***************************************************************************)
EXTENDS Subscriptions, TLC

CONSTANTS pro, basic

FirstPro == [r \in Remotes |-> IF r = 1 THEN pro ELSE basic]

Scene(K) == [k \in K |-> 1]

(* A subscription from its checkout on, with what may cross it, and a second *)
(* checkout after the first.                                                 *)
AllScenes ==
  {Scene(K) : K \in
     {{"checkout", "period", "late"},
      {"checkout", "period", "grace", "death"},
      {"checkout", "end", "death"},
      {"checkout", "period", "plan"},
      {"checkout", "period", "again"},
      {"checkout", "period", "lost"},
      {"checkout", "period", "old"},
      {"checkout", "renewal", "expire"},
      {"checkout", "renewal", "period"},
      {"checkout", "period", "grace", "end"},
      {"checkout", "expire", "end"},
      {"checkout", "admin", "period"},
      {"checkout", "admin", "command", "sync"}}}
  \cup {"checkout" :> 2}
=============================================================================
