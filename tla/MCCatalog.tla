------------------------------ MODULE MCCatalog -------------------------------
(***************************************************************************)
(* Instances of PlanCatalog and MergeForest for TLC.  They share nothing:  *)
(* in each behaviour one of the two moves and the other rests.             *)
(***************************************************************************)
EXTENDS CatalogForest, TLC

CONSTANTS pro, basic, w1, w2
WorkersAlike == Permutations(Workers)

(* Two plans, one user who buys, two requests or commands at a time. *)
Ones(K) == [k \in K |-> 1]
CatalogScenes ==
  {Ones({"edit", "fail"}) @@ "sync" :> 2, Ones({"base", "edit"}) @@ "sync" :> 2,
   Ones({"command", "sync", "edit"}), Ones({"command", "sync", "delete", "create", "crash"}),
   Ones({"sync", "day", "fail"}) @@ "buy" :> 2, Ones({"sync", "buy", "config"}),
   Ones({"edit", "buy"}) @@ "sync" :> 2}
YamlAmount == pro :> 2 @@ basic :> 1
AtRest == <<>>
ScenesAndRest == CatalogScenes \cup {AtRest}

(* Four mails: 2 forwards 1, 3 replies to 2 and quotes 1, 4 has the subject  *)
(* of 1 and another picture.                                                 *)
FourMails ==
  [e \in 1..4 |->
     CASE e = 1 -> [day |-> 1, refs |-> {}, subject |-> "s", forward |-> FALSE,
                    body |-> {"offer"}, images |-> {"a"}]
       [] e = 2 -> [day |-> 2, refs |-> {}, subject |-> "s", forward |-> TRUE,
                    body |-> {"offer", "note"}, images |-> {}]
       [] e = 3 -> [day |-> 3, refs |-> {2}, subject |-> "t", forward |-> FALSE,
                    body |-> {"offer", "reply"}, images |-> {}]
       [] OTHER -> [day |-> 5, refs |-> {}, subject |-> "s", forward |-> FALSE,
                    body |-> {"offer"}, images |-> {"b"}]]
Bodies == SUBSET {"offer", "note", "reply", "[Source]"}
LongBodies == {b \in Bodies : "offer" \in b}
Contained == {p \in LongBodies \X LongBodies : p[1] \subseteq p[2]}
Similar == Contained \cup {<<p[2], p[1]>> : p \in Contained}
LargePart == {p \in Contained : Cardinality(p[2]) <= 2}
Crossing == {Ones({"batch"}), Ones({"delete", "retry"}), Ones({"command", "delete"})}
CrossingAndRest == Crossing \cup {AtRest}

(* One of the two has something to do. *)
CatalogInit ==
  /\ Init /\ F!Init
  /\ (budget = AtRest) # (tally = AtRest /\ Cardinality(crew) = 1)
CatalogNext ==
  \/ Next /\ budget # AtRest /\ UNCHANGED forestVars
  \/ F!Next /\ budget = AtRest /\ UNCHANGED vars
CatalogSpec == CatalogInit /\ [][CatalogNext]_<<vars, forestVars>>
=============================================================================
