--------------------------------- MODULE Web ----------------------------------
(***************************************************************************)
(* What a user has apart from mail: share links (ShareLinks), the account  *)
(* and its aliases (Accounts), and Relay channels with the history that is *)
(* imported into them (LegacyImport).  The three share nothing but the     *)
(* users: each step is a step of one of them.                              *)
(***************************************************************************)
EXTENDS ShareLinks

CONSTANTS Emails, Names, MaxUsers, Offers, AccountScenes,   \* of Accounts
          Issues, Engines, ImportScenes                     \* of LegacyImport

VARIABLES user, made, alias, muted, letters, token, stale, resets, logged, req,
          overlapped, purse
accountVars == <<user, made, alias, muted, letters, token, stale, resets, logged, req,
                 overlapped, purse>>

VARIABLES setting, legacy, channel, past, copy, job, hold, orphaned, change
importVars == <<setting, legacy, channel, past, copy, job, hold, orphaned, change>>

A == INSTANCE Accounts WITH
       Clients <- Tabs, Scenes <- AccountScenes,
       links <- letters, crossed <- overlapped, budget <- purse

G == INSTANCE LegacyImport WITH
       Imports <- Tabs, Scenes <- ImportScenes,
       issue <- legacy, event <- past, delivery <- copy, lock <- hold, budget <- change

(* Every email has a username to offer, and None is none of the values.      *)
ASSUME AccountsAssumption ==
  /\ MaxUsers \in Nat
  /\ Offers \in [Emails -> Seq(Names)] /\ \A e \in Emails : Offers[e] # <<>>
  /\ None \notin Emails \cup Names \cup Nat \cup A!UserRow

(* None and "gone" are not engines, and None is not the id of a channel.     *)
ASSUME ImportAssumption ==
  /\ None \notin Engines \cup Nat \cup {"gone"}
  /\ "gone" \notin Engines

(* The properties of Accounts and LegacyImport, as the modules see them that *)
(* extend this one.                                                          *)
OneUserPerEmail == A!OneUserPerEmail
AccountsSurvive == A!AccountsSurvive
HistoryOnce == G!HistoryOnce
=============================================================================
