------------------------------- MODULE Accounts -------------------------------
(***************************************************************************)
(* Users, their profiles and the aliases they receive mail under           *)
(* (accounts/, threadline/views/email_alias.py).  A registration by mail   *)
(* makes a temporary user, and the link in the mail replaces it by a user  *)
(* of its own; a login through Google makes a user who completes the setup *)
(* later; operators and a command make users at once.  A view runs its     *)
(* queries one by one: a step ends where a later query relies on an        *)
(* earlier one.                                                            *)
(***************************************************************************)
EXTENDS Integers, FiniteSets, Sequences, FiniteSetsExt

CONSTANTS Emails, Names, Clients, MaxUsers,
          Offers,       \* the usernames tried for an email, in this order
          Scenes,       \* bounds: what may happen, and how often
          None

VARIABLES user,         \* the users by id, and their profiles
          made,         \* ids given so far
          alias,        \* EmailAlias: the user an alias belongs to
          muted,        \* aliases with is_active false
          links,        \* registration links in the mail
          token,        \* registration tokens given so far
          stale,        \* tokens past REGISTRATION_TOKEN_EXPIRY_HOURS
          resets,       \* password links in the mail
          logged,       \* users who hold an access token
          req,          \* the request of each client
          crossed,      \* emails for which two requests have overlapped
          budget

mail == <<links, resets>>
vars == <<user, made, alias, muted, links, token, stale, resets, logged, req,
          crossed, budget>>

Ids == 1..MaxUsers

(* A row of User with the columns of its profile that are used here: the     *)
(* stamp counts changes of password and last_login; "again" is a row that a  *)
(* save has inserted after its deletion; a profile is missing when the       *)
(* signal failed.                                                            *)
UserRow ==
  [name : Names, email : Emails, password : BOOLEAN, social : BOOLEAN,
   profile : {"none", "open", "done"}, token : Nat, equipped : BOOLEAN,
   stamp : Nat, again : BOOLEAN]

Idle == [pc |-> "idle", email |-> None, id |-> None, name |-> None,
         seen |-> None]

Init ==
  /\ user = [i \in Ids |-> None]
  /\ made = 0
  /\ alias = [n \in Names |-> None]
  /\ muted = {}
  /\ links = {} /\ token = 0 /\ stale = {}
  /\ resets = {}
  /\ logged = {}
  /\ req = [c \in Clients |-> Idle]
  /\ crossed = {}
  /\ budget \in Scenes
-----------------------------------------------------------------------------
Spend(k) ==
  /\ k \in DOMAIN budget
  /\ budget[k] > 0
  /\ budget' = [budget EXCEPT ![k] = @ - 1]

Present == {i \in Ids : user[i] # None}
Known(e) == {i \in Present : user[i].email = e}
Named(n) == {i \in Present : user[i].name = n}
AliasesOf(i) == {n \in Names : alias[n] = i}

(* A request about an email overlaps with those under way; one that is a     *)
(* single step is over at once.                                              *)
Cross(e) == crossed' = crossed \cup ({req[c].email : c \in Clients} \cap {e})
AtOnce(e) == Cross(e) /\ UNCHANGED req
Begin(c, r) ==
  /\ req[c] = Idle
  /\ req' = [req EXCEPT ![c] = r]
  /\ Cross(r.email)
Done(c) == req' = [req EXCEPT ![c] = Idle]

(* A user as it is made. *)
Fresh(n, e) ==
  [name |-> n, email |-> e, password |-> FALSE, social |-> FALSE,
   profile |-> "open", token |-> 0, equipped |-> FALSE, stamp |-> 0,
   again |-> FALSE]

(* bootstrap_user: profile, alias, settings and the free plan. *)
Equipped(r) == [r EXCEPT !.profile = "done", !.equipped = TRUE]
AliasAllows(n, i) == alias[n] \in {None, i}
TakeAlias(n, i) == alias' = [alias EXCEPT ![n] = i] /\ muted' = muted \ {n}

(* The loop over "name", "name1", ...: the first that nobody has. *)
FreeName(e) ==
  LET free == {k \in DOMAIN Offers[e] : Named(Offers[e][k]) = {}} IN
  IF free = {} THEN None ELSE Offers[e][Min(free)]
-----------------------------------------------------------------------------
(* Registration by mail: the view of the link *)

(* validate_email: User.objects.get raises when there are two. *)
SendStart(c, e) ==
  /\ Spend("send")
  /\ Cardinality(Known(e)) <= 1
  /\ \A i \in Known(e) : user[i].profile # "done"
  /\ Begin(c, [Idle EXCEPT !.pc = "lookup", !.email = e])
  /\ UNCHANGED <<user, made, alias, muted, mail, token, stale, logged>>

(* create_registration_token *)
SendLookup(c) ==
  LET found == Known(req[c].email) IN
  /\ req[c].pc = "lookup"
  /\ req' = [req EXCEPT ![c].pc = IF found = {} THEN "name" ELSE "profile",
                        ![c].id = IF found = {} THEN None ELSE Min(found)]
  /\ UNCHANGED <<user, made, alias, muted, mail, token, stale, logged,
                 crossed, budget>>

ChooseName(c) ==
  /\ req[c].pc \in {"name", "oauth"}
  /\ FreeName(req[c].email) # None
  /\ req' = [req EXCEPT ![c].pc = IF @ = "name" THEN "create" ELSE "signup",
                        ![c].name = FreeName(req[c].email)]
  /\ UNCHANGED <<user, made, alias, muted, mail, token, stale, logged,
                 crossed, budget>>

(* The username is unique.  create_user_resources adds the profile; it may   *)
(* fail, and a temporary user gets no alias.                                 *)
CreateTemporary(c) ==
  /\ req[c].pc = "create"
  /\ made < MaxUsers
  /\ IF Named(req[c].name) # {}
     THEN Done(c) /\ UNCHANGED <<user, made, budget>>
     ELSE /\ made' = made + 1
          /\ req' = [req EXCEPT ![c].pc = "profile", ![c].id = made + 1]
          /\ \E p \in {"open", "none"} :
               /\ user' = [user EXCEPT ![made + 1] =
                    [Fresh(req[c].name, req[c].email) EXCEPT !.profile = p]]
               /\ IF p = "none" THEN Spend("signal") ELSE UNCHANGED budget
  /\ UNCHANGED <<alias, muted, mail, token, stale, logged, crossed>>

(* get_or_create of the profile; a new one has the token at once. *)
ReadProfile(c) ==
  LET i == req[c].id IN
  /\ req[c].pc = "profile"
  /\ CASE user[i] = None -> Done(c) /\ UNCHANGED <<user, token>>
       [] user[i] # None /\ user[i].profile = "none" ->
            /\ token' = token + 1
            /\ user' = [user EXCEPT ![i].profile = "open", ![i].token = token']
            /\ req' = [req EXCEPT ![c].pc = "mail", ![c].seen = token']
       [] OTHER ->
            /\ req' = [req EXCEPT ![c].pc = "save", ![c].seen = user[i]]
            /\ UNCHANGED <<user, token>>
  /\ UNCHANGED <<made, alias, muted, mail, stale, logged, crossed, budget>>

(* The whole profile is saved as it was read, with a new token. *)
SaveProfile(c) ==
  LET i == req[c].id
      was == req[c].seen
  IN
  /\ req[c].pc = "save"
  /\ IF user[i] = None \/ (user[i].again # was.again)
     THEN Done(c) /\ UNCHANGED <<user, token>>
     ELSE /\ token' = token + 1
          /\ user' = [user EXCEPT ![i].profile = was.profile,
                                  ![i].token = token']
          /\ IF was.profile = "done" THEN Done(c)
             ELSE req' = [req EXCEPT ![c].pc = "mail", ![c].seen = token']
  /\ UNCHANGED <<made, alias, muted, mail, stale, logged, crossed, budget>>

(* send_registration_email: false when the server refuses. *)
SendMail(c) ==
  /\ req[c].pc = "mail"
  /\ \/ links' = links \cup {req[c].seen} /\ UNCHANGED budget
     \/ Spend("smtp") /\ UNCHANGED links
  /\ Done(c)
  /\ UNCHANGED <<user, made, alias, muted, token, stale, resets, logged,
                 crossed>>

Expire(k) ==
  /\ k \in links \ stale
  /\ Spend("expire")
  /\ stale' = stale \cup {k}
  /\ UNCHANGED <<user, made, alias, muted, mail, token, logged, req, crossed>>
-----------------------------------------------------------------------------
(* Registration by mail: the form behind the link *)

(* The serializer asks for a free alias, the view for an open profile.       *)
(* Mutant of Holder: a completed profile is not refused.                     *)
HolderOfAny(k) == {i \in Present : user[i].token = k}
Holder(k) == {i \in Present : user[i].token = k /\ user[i].profile = "open"}

CompleteStart(c, k, n) ==
  /\ Spend("complete")
  /\ k \in links \ stale
  /\ alias[n] = None
  /\ \E i \in Holder(k) :
       Begin(c, [pc |-> "replace", email |-> user[i].email, id |-> i,
                 name |-> n, seen |-> user[i]])
  /\ UNCHANGED <<user, made, alias, muted, mail, token, stale, logged>>

(* One transaction: the temporary user is deleted with all it owns, and the  *)
(* user is created.                                                          *)
CanReplace(c) ==
  LET i == req[c].id IN
  /\ user[i] # None
  /\ user[i].profile # "none" /\ user[i].again = req[c].seen.again
  /\ alias[req[c].name] \in {None, i}
  /\ Known(req[c].email) \subseteq {i}
  /\ Named(req[c].name) \subseteq {i}

(* What the deletion of user i in favour of user j leaves of the aliases.    *)
AliasesAfter(i, j, n) ==
  [a \in Names |-> CASE a = n -> j [] alias[a] = i /\ a # n -> None
                     [] OTHER -> alias[a]]

Replace(c) ==
  LET i == req[c].id
      n == req[c].name
      r == [Fresh(n, req[c].email) EXCEPT !.password = TRUE]
  IN
  /\ req[c].pc = "replace"
  /\ made < MaxUsers
  /\ \/ /\ CanReplace(c)
        /\ made' = made + 1
        /\ user' = [user EXCEPT ![i] = None, ![made + 1] = Equipped(r)]
        /\ alias' = AliasesAfter(i, made + 1, n)
        /\ muted' = muted \ (AliasesOf(i) \cup {n})
        /\ logged' = logged \cup {made + 1}
        /\ resets' = {k \in resets : k[1] # i}
        /\ UNCHANGED budget
     \/ /\ ~CanReplace(c) \/ Spend("plan")
        /\ CanReplace(c) \/ UNCHANGED budget
        /\ UNCHANGED <<user, made, alias, muted, resets, logged>>
  /\ Done(c)
  /\ UNCHANGED <<links, token, stale, crossed>>
-----------------------------------------------------------------------------
(* Google *)

(* A known account logs in; an email of a user is connected to that user;    *)
(* else a user is made.                                                      *)
Connected(i) == [user[i] EXCEPT !.social = TRUE,
                                !.profile = IF @ = "none" THEN "open" ELSE @]
OAuthStart(c, e) ==
  LET social == {i \in Known(e) : user[i].social}
      i == Min(IF social = {} THEN Known(e) ELSE social)
  IN
  /\ Spend("oauth")
  /\ IF Known(e) = {}
     THEN Begin(c, [Idle EXCEPT !.pc = "oauth", !.email = e])
          /\ UNCHANGED <<user, logged>>
     ELSE /\ AtOnce(e)
          /\ user' = [user EXCEPT ![i] = Connected(i)]
          /\ logged' = logged \cup {i}
  /\ UNCHANGED <<made, alias, muted, mail, token, stale>>

OAuthSignup(c) ==
  /\ req[c].pc = "signup"
  /\ made < MaxUsers
  /\ IF Named(req[c].name) # {} THEN UNCHANGED <<user, made, logged>>
     ELSE /\ made' = made + 1
          /\ user' = [user EXCEPT ![made + 1] =
               [Fresh(req[c].name, req[c].email) EXCEPT !.social = TRUE]]
          /\ logged' = logged \cup {made + 1}
  /\ Done(c)
  /\ UNCHANGED <<alias, muted, mail, token, stale, crossed, budget>>

(* CompleteGoogleSetupView *)
SetupStart(c, i, n) ==
  /\ Spend("setup")
  /\ i \in logged \cap Present
  /\ user[i].profile = "open"
  /\ alias[n] = None
  /\ Begin(c, [pc |-> "setup", email |-> user[i].email, id |-> i, name |-> n,
               seen |-> user[i]])
  /\ UNCHANGED <<user, made, alias, muted, mail, token, stale, logged>>

(* user.save inserts a row that is gone, without the account of Google.      *)
Setup(c) ==
  LET i == req[c].id
      n == req[c].name
      now == IF user[i] # None THEN user[i]
             ELSE [req[c].seen EXCEPT !.social = FALSE, !.token = 0,
                                      !.again = TRUE]
      fits == AliasAllows(n, i) /\ Named(n) \subseteq {i}
  IN
  /\ req[c].pc = "setup"
  /\ IF fits
     THEN \/ /\ user' = [user EXCEPT ![i] =
                  Equipped([now EXCEPT !.name = n, !.password = FALSE,
                                       !.stamp = @ + 1])]
             /\ TakeAlias(n, i)
             /\ UNCHANGED budget
          \/ Spend("plan") /\ UNCHANGED <<user, alias, muted>>
     ELSE UNCHANGED <<user, alias, muted, budget>>
  /\ Done(c)
  /\ UNCHANGED <<made, mail, token, stale, logged, crossed>>
-----------------------------------------------------------------------------
(* Passwords *)

(* Only a completed user with a password gets a link. *)
SendReset(e) ==
  /\ Spend("reset")
  /\ Cardinality(Known(e)) = 1
  /\ \E i \in Known(e) :
       /\ user[i].password /\ user[i].profile = "done"
       /\ resets' = resets \cup {<<i, user[i].stamp>>}
  /\ AtOnce(e)
  /\ UNCHANGED <<user, made, alias, muted, links, token, stale, logged>>

(* The token is made of the password and the last login. *)
ConfirmStart(c, k) ==
  /\ k \in resets
  /\ Spend("confirm")
  /\ user[k[1]] # None /\ user[k[1]].stamp = k[2]
  /\ Begin(c, [Idle EXCEPT !.pc = "confirm", !.email = user[k[1]].email,
                           !.id = k[1], !.seen = user[k[1]]])
  /\ UNCHANGED <<user, made, alias, muted, mail, token, stale, logged>>

Confirm(c) ==
  LET i == req[c].id
      now == IF user[i] # None THEN user[i]
             ELSE [req[c].seen EXCEPT !.social = FALSE, !.token = 0,
                     !.again = TRUE, !.profile = "open", !.equipped = FALSE]
  IN
  /\ req[c].pc = "confirm"
  /\ IF Named(req[c].seen.name) \subseteq {i}
     THEN user' = [user EXCEPT ![i] = [now EXCEPT !.name = req[c].seen.name,
                                         !.password = TRUE, !.stamp = @ + 1]]
     ELSE UNCHANGED user
  /\ Done(c)
  /\ UNCHANGED <<made, alias, muted, mail, token, stale, logged, crossed,
                 budget>>

Login(i) ==
  /\ Spend("login")
  /\ i \in Present /\ user[i].password
  /\ AtOnce(user[i].email)
  /\ user' = [user EXCEPT ![i].stamp = @ + 1]
  /\ logged' = logged \cup {i}
  /\ UNCHANGED <<made, alias, muted, mail, token, stale>>
-----------------------------------------------------------------------------
(* Operators *)

(* Mutant of NameAndEmailFree: only the name is looked up. *)
NameFree(n, e) == Named(n) = {}
NameAndEmailFree(n, e) == Named(n) = {} /\ Known(e) = {}

ManageStart(c, e, n) ==
  /\ Spend("manage")
  /\ NameAndEmailFree(n, e)
  /\ Begin(c, [Idle EXCEPT !.pc = "manage", !.email = e, !.name = n])
  /\ UNCHANGED <<user, made, alias, muted, mail, token, stale, logged>>

Manage(c) ==
  LET n == req[c].name
      r == [Fresh(n, req[c].email) EXCEPT !.password = TRUE]
  IN
  /\ req[c].pc = "manage"
  /\ made < MaxUsers
  /\ IF Named(n) = {} /\ alias[n] = None
     THEN /\ made' = made + 1
          /\ user' = [user EXCEPT ![made + 1] = Equipped(r)]
          /\ TakeAlias(n, made + 1)
     ELSE UNCHANGED <<user, made, alias, muted>>
  /\ Done(c)
  /\ UNCHANGED <<mail, token, stale, logged, crossed, budget>>

(* assign_internal_plan --create-user --email: the signal has made the       *)
(* profile, so the completed one of create_profile is not created.           *)
CommandCreates(e) ==
  LET n == Offers[e][1]
      r == [Fresh(n, e) EXCEPT !.password = TRUE, !.equipped = TRUE]
  IN
  /\ Spend("command")
  /\ made < MaxUsers
  /\ Known(e) = {} /\ Named(n) = {} /\ alias[n] = None
  /\ AtOnce(e)
  /\ made' = made + 1
  /\ user' = [user EXCEPT ![made + 1] = r]
  /\ TakeAlias(n, made + 1)
  /\ UNCHANGED <<mail, token, stale, logged>>
-----------------------------------------------------------------------------
(* Aliases: the column is unique, whoever asks first. *)

AddAlias(i, n) ==
  /\ Spend("alias")
  /\ i \in logged \cap Present
  /\ alias[n] = None
  /\ alias' = [alias EXCEPT ![n] = i]
  /\ muted' \in {muted, muted \cup {n}}
  /\ UNCHANGED <<user, made, mail, token, stale, logged, req, crossed>>

ChangeAlias(i, n, m) ==
  /\ Spend("alias")
  /\ i \in logged \cap Present
  /\ alias[n] = i /\ alias[m] \in {None, i} /\ (alias[m] = i => m = n)
  /\ alias' = [alias EXCEPT ![n] = None, ![m] = i]
  /\ muted' \in {muted \ {n, m}, (muted \ {n}) \cup {m}}
  /\ UNCHANGED <<user, made, mail, token, stale, logged, req, crossed>>

DropAlias(i, n) ==
  /\ Spend("alias")
  /\ i \in logged \cap Present
  /\ alias[n] = i
  /\ alias' = [alias EXCEPT ![n] = None]
  /\ muted' = muted \ {n}
  /\ UNCHANGED <<user, made, mail, token, stale, logged, req, crossed>>
-----------------------------------------------------------------------------
Request(c) ==
  \/ SendLookup(c) \/ ChooseName(c) \/ CreateTemporary(c) \/ ReadProfile(c)
  \/ SaveProfile(c) \/ SendMail(c) \/ Replace(c) \/ OAuthSignup(c)
  \/ Setup(c) \/ Confirm(c) \/ Manage(c)

Start(c) ==
  \/ \E e \in Emails :
       SendStart(c, e) \/ OAuthStart(c, e) \/ \E n \in Names : ManageStart(c, e, n)
  \/ \E n \in Names :
       \/ \E k \in links : CompleteStart(c, k, n)
       \/ \E i \in Ids : SetupStart(c, i, n)
  \/ \E k \in resets : ConfirmStart(c, k)

Next ==
  \/ \E c \in Clients : Request(c) \/ Start(c)
  \/ \E e \in Emails : SendReset(e) \/ CommandCreates(e)
  \/ \E k \in links : Expire(k)
  \/ \E i \in Ids : Login(i)
  \/ \E i \in Ids, n \in Names :
       AddAlias(i, n) \/ DropAlias(i, n) \/ \E m \in Names : ChangeAlias(i, n, m)

Spec == Init /\ [][Next]_vars
-----------------------------------------------------------------------------
(* Properties *)

(* User.email has no unique column: each view looks before it inserts        *)
(* (create_registration_token, create_user_with_config, the adapter of       *)
(* allauth, ManagementUserListView).  As long as the requests about an email *)
(* do not overlap, no path ends with two users of that email, for whom every *)
(* later request would fail.                                                 *)
OneUserPerEmail ==
  \A e \in Emails \ crossed : Cardinality(Known(e)) <= 1

(* CompleteRegistrationView deletes a user and all it owns: never one who    *)
(* has completed a registration, be it through Google after the mail with    *)
(* the link was sent.  Nor does such a user become temporary again, nor a    *)
(* deleted one come back.                                                    *)
AccountsSurvive ==
  [][\A i \in Ids :
       /\ user[i] # None /\ user[i].profile = "done" =>
            \/ user'[i] # None /\ user'[i].profile = "done"
            \/ user[i].email \in crossed'
       /\ user[i] = None /\ i <= made /\ user'[i] # None =>
            user'[i].email \in crossed']_vars
=============================================================================
