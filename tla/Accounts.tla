------------------------------- MODULE Accounts -------------------------------
(***************************************************************************)
(* Accounts and their reset links (auth.service.ts).  Sessions are the     *)
(* subject of RefreshTokens; here it matters who has an account, whether   *)
(* it has a password, and which links may set one.                         *)
(***************************************************************************)
EXTENDS Membership

VARIABLES
  google,   \* the accounts without a password
  links     \* the reset links, in the order they were mailed

accountVars == <<google, links>>

(* "resets" is history: how often the link has set a password. *)
LinkRows == [user : Users, used : BOOLEAN, expired : BOOLEAN, resets : Nat]

InitAccounts == google = {} /\ links = <<>>

Unused(u) == {l \in DOMAIN links : links[l].user = u /\ ~links[l].used}

-----------------------------------------------------------------------------
(* Two ways to an account besides an invitation; users.email is unique, so that the
   slower of two that overlap fails. *)
Signup(h, u) == u \notin account /\ Take(h, [at |-> "signup", user |-> u]) /\ UNCHANGED <<memberVars, accountVars>>
LoginWithGoogle(h, u) ==
  u \notin account /\ Take(h, [at |-> "google", user |-> u]) /\ UNCHANGED <<memberVars, accountVars>>

AccountCreate(h) ==
  /\ At(h, "signup") \/ At(h, "google")
  /\ LET u == request[h].user
     IN  /\ account' = account \cup {u}
         /\ google' = IF At(h, "google") /\ u \notin account THEN google \cup {u} ELSE google
  /\ Answer(h) /\ UNCHANGED <<member, invitations, mailed, dead, links>>

-----------------------------------------------------------------------------
(* A forgotten password: one transaction marks the unused links and stores a new one.
   It marks those that were there when its first statement began; an account without a
   password gets a mail that says so. *)
ForgotPassword(h, u) ==
  /\ u \in account \ google
  /\ Take(h, [at |-> "forgot", user |-> u]) /\ UNCHANGED <<memberVars, accountVars>>

Locked == UNION {request[h].burns : h \in {g \in Handlers : At(g, "forgot:commit")}}

ForgotBurn(h) ==
  /\ At(h, "forgot") /\ Unused(request[h].user) \cap Locked = {}
  /\ Await(h, [at |-> "forgot:commit", user |-> request[h].user, burns |-> Unused(request[h].user)])
  /\ UNCHANGED <<memberVars, accountVars>>

ForgotCommit(h) ==
  /\ At(h, "forgot:commit") /\ Answer(h)
  /\ links' = Append([l \in DOMAIN links |-> [links[l] EXCEPT !.used = @ \/ l \in request[h].burns]],
                     [user |-> request[h].user, used |-> FALSE, expired |-> FALSE, resets |-> 0])
  /\ UNCHANGED <<google, memberVars>>

ExpireLink(l) ==
  /\ l \in DOMAIN links /\ ~links[l].expired
  /\ links' = [links EXCEPT ![l].expired = TRUE]
  /\ UNCHANGED <<request, served, google, memberVars>>

-----------------------------------------------------------------------------
(* The link is looked up first, and then used up in one transaction with the new
   password.  Whether this request was the one to use it up is asked after that. *)
ResetPassword(h, l) ==
  /\ l \in DOMAIN links /\ ~links[l].used /\ ~links[l].expired
  /\ Take(h, [at |-> "reset", link |-> l]) /\ UNCHANGED <<memberVars, accountVars>>

ResetCommit(h) ==
  /\ At(h, "reset") /\ request[h].link \notin Locked /\ Answer(h)
  /\ links' = [links EXCEPT ![request[h].link].used = TRUE, ![request[h].link].resets = @ + 1]
  /\ UNCHANGED <<google, memberVars>>

-----------------------------------------------------------------------------
AccountsCall(h) ==
  /\ Free(h)
  /\ \/ \E u \in Users : Signup(h, u) \/ LoginWithGoogle(h, u) \/ ForgotPassword(h, u)
     \/ \E l \in DOMAIN links : ResetPassword(h, l)

AccountsContinue(h) == AccountCreate(h) \/ ForgotBurn(h) \/ ForgotCommit(h) \/ ResetCommit(h)

-----------------------------------------------------------------------------
(* A comment in resetPassword says that a second submission of the same link loses the
   race "instead of resetting twice". *)
ResetHappensOnce == \A l \in DOMAIN links : links[l].resets <= 1
=============================================================================
