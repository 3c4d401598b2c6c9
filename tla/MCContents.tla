------------------------------ MODULE MCContents ------------------------------
(***************************************************************************)
(* Instances of IssueDrivers, MailContent and WorkflowNodes for TLC.  They *)
(* share nothing: in each behaviour one moves and the others rest.         *)
(***************************************************************************)
EXTENDS EmailContents, SequencesExt

(* Deliveries to each kind of target, with what may cross or disturb them. *)
A(safe, name, image, text, public) ==
  [safe |-> safe, name |-> name, size |-> 1, image |-> image, text |-> text, public |-> public]
TheFiles ==
  [a |-> A("h1", "pic", TRUE, "llm", TRUE), b |-> A("h2", "pic", TRUE, "ocr", TRUE),
   c |-> A("h3", "h3", TRUE, "llm", FALSE), d |-> A("h4", "doc", FALSE, None, TRUE),
   e |-> A("h1", "again", TRUE, None, TRUE)]
Case(t, fs, m, s, tr, B) ==
  [target |-> t, files |-> fs, marks |-> m, structured |-> s, translate |-> tr, budget |-> B]
Scene(K) == [k \in K \cup {"deliver"} |-> IF k = "deliver" THEN 2 ELSE 1]
Targets == {"jira", "feishu_bitable", "github_issue"}
NoCase == Case("jira", {}, {}, TRUE, FALSE, <<>>)
TheCases ==
  {Case(t, fs, m, s, tr, Scene(K)) :
     t \in Targets, fs \in {{"a", "b"}, {"c", "d"}, {"a", "d", "e"}},
     m \in {{}, {"h1", "h2"}}, s \in BOOLEAN, tr \in BOOLEAN,
     K \in {{"llm", "server", "file"}, {"delete", "lookalike", "lookup"},
            {"place", "server", "other"}, {"api", "file"}}}
AllCases == TheCases \cup {NoCase}

(* Mails of at most two parts for both parsers, and of three where the first *)
(* two have one payload, which only the second calls an image.               *)
TheKinds == [c \in {"c1", "c2", "c3", "c4"} |-> [signed |-> c # "c4", small |-> c = "c3"]]
TheAlike == {<<"a1", "a1">>, <<"a2", "a2">>, <<"a1", "id1">>}
P(c, i, n, d, a) == [c |-> c, image |-> i, name |-> n, cid |-> d, attached |-> a]
SomeParts == {
  P("c1", TRUE, "a1", "id1", FALSE), P("c1", TRUE, "a2", None, TRUE), P("c2", TRUE, None, "id1", FALSE),
  P("c2", FALSE, "a2", None, TRUE), P("c3", TRUE, None, None, TRUE), P("c3", FALSE, "a1", "id2", TRUE),
  P("c4", FALSE, "a1", None, TRUE), P("c4", TRUE, None, "id2", FALSE)}
T(b, r) == [by |-> b, ref |-> r]
Htmls == {None} \cup [tags : {{}, {T("cid", "id1")}, {T("cid", "a1"), T("cid", "id2")}, {T("id", "a2")},
                            {T("file", "a1"), T("cid", "c2")}}, names : {{}, {"a2"}}]
NoMail == [parts |-> <<>>, html |-> None, plain |-> None, parser |-> "legacy"]
Twice == {<<P("c4", FALSE, "a1", None, TRUE), P("c4", TRUE, None, "id2", FALSE), p>> :
            p \in {q \in SomeParts : q.c = "c2"}}
TheMails == [parts : SeqOf(SomeParts, 2) \cup Twice, html : Htmls,
             plain : {None, "text"}, parser : {"flanker", "legacy"}]

TheMailScenes == {[disk |-> 1]}

MailRests == mail = NoMail /\ reading = C!Unread /\ disk = <<>>

(* Emails with two images over three runs, with what may fail or cross them. *)
L(words, merged, limit) == [words |-> words, merged |-> merged, limit |-> limit]
TheLetters == {L(TRUE, FALSE, 1), L(TRUE, TRUE, None), L(FALSE, FALSE, None)}
Purse(K) ==
  [k \in K \cup {"run", "force"} |->
     IF k = "todo" \/ (k = "run" /\ "todo" \notin K) THEN 2 ELSE 1]
ThePurses == {Purse({"image", "silence"}), Purse({"llm", "database"}), Purse({"json", "credits"}),
              Purse({"prompts", "patch"}), Purse({"todo"})}

TheNodeScenes == ThePurses \cup {<<>>}

NodesRest == N!Init /\ letter = L(TRUE, FALSE, 1) /\ purse = <<>>

ContentsInit ==
  \/ case \in TheCases /\ Init /\ MailRests /\ NodesRest
  \/ case = NoCase /\ Init /\ C!Init /\ NodesRest
  \/ case = NoCase /\ Init /\ MailRests /\ N!Init /\ purse # <<>>
ContentsNext ==
  \/ Next /\ UNCHANGED <<mailVars, nodeVars>>
  \/ C!Next /\ UNCHANGED <<vars, nodeVars>>
  \/ N!Next /\ UNCHANGED <<vars, mailVars>>
ContentsSpec == ContentsInit /\ [][ContentsNext]_<<vars, mailVars, nodeVars>>
=============================================================================
