----------------------------- MODULE SessionChain -----------------------------
(***************************************************************************)
(* What refresh-token rotation promises, without rows, locks or requests:  *)
(* a session has at most one usable token, each renewal puts a new token   *)
(* in the place of the usable one, and a session that has lost its token   *)
(* never gets another.  RefreshTokens implements it.                       *)
(***************************************************************************)
EXTENDS Integers

VARIABLES
  usable,   \* the usable tokens, as pairs <<session, token>>
  last      \* the latest token; tokens are never reissued

ChainInit == usable = {} /\ last = 0

(* A sign-in starts a session with its first token. *)
SignIn ==
  /\ last' = last + 1
  /\ usable' = usable \cup {<<last + 1, last + 1>>}

Renew ==
  \E u \in usable :
    /\ last' = last + 1
    /\ usable' = (usable \ {u}) \cup {<<u[1], last + 1>>}

(* Any number of sessions end: a logout, a changed password, an expired row. *)
EndSome ==
  /\ usable' \subseteq usable
  /\ last' = last

ChainNext == SignIn \/ Renew \/ EndSome

ChainSpec == ChainInit /\ [][ChainNext]_<<usable, last>>
=============================================================================
