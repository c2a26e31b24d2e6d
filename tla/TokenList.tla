------------------------------ MODULE TokenList ------------------------------
(***************************************************************************)
(* What the tokens file promises to the administrators who edit it at the  *)
(* same time, in the browser and on the command line: it is one list, and  *)
(* each edit that was made changed one token of it as it then was.  Who is *)
(* told that a token is stored is told so after it was; only a token that  *)
(* somebody wants removed is removed, and it does not return.              *)
(*                                                                         *)
(* An answer may be lost after the edit was made, which is why an edit and *)
(* the answer to it are not one step.                                      *)
(***************************************************************************)
CONSTANT Token

VARIABLES
  listed,      \* the tokens that are valid
  told,        \* those whose maker was told that they are stored
  unwanted,    \* those somebody has tried to revoke
  removed      \* those that have been revoked

listVars == <<listed, told, unwanted, removed>>

ListInit == listed = {} /\ told = {} /\ unwanted = {} /\ removed = {}

Add(t) ==
  /\ t \notin listed \cup removed
  /\ listed' = listed \cup {t}
  /\ UNCHANGED <<told, unwanted, removed>>

Tell(t) ==
  /\ t \in listed \cup removed
  /\ told' = told \cup {t}
  /\ UNCHANGED <<listed, unwanted, removed>>

\* A token that is not there cannot be revoked.
Unwant(t) ==
  /\ t \in listed
  /\ unwanted' = unwanted \cup {t}
  /\ UNCHANGED <<listed, told, removed>>

Remove(t) ==
  /\ t \in listed \cap unwanted
  /\ listed' = listed \ {t}
  /\ removed' = removed \cup {t}
  /\ UNCHANGED <<told, unwanted>>

ListNext == \E t \in Token : Add(t) \/ Tell(t) \/ Unwant(t) \/ Remove(t)

ListSpec == ListInit /\ [][ListNext]_listVars
=============================================================================
