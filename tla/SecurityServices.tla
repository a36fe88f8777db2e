--------------------------- MODULE SecurityServices ---------------------------
(***************************************************************************)
(* The two security services of a process, ara::iam and ara::crypto.  The  *)
(* threads of the process call both; the services share no state and no    *)
(* lock, so their steps interleave freely.                                 *)
(***************************************************************************)
EXTENDS IdentityAccess, KeyStore

vars == <<iamVars, keyVars>>

TypeOK == IamTypeOK /\ KeyTypeOK

Init == IamInit /\ KeyInit

Next ==
  \/ IamNext /\ UNCHANGED keyVars
  \/ KeyNext /\ UNCHANGED iamVars

Spec == Init /\ [][Next]_vars
=============================================================================
