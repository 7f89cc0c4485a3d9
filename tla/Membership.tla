------------------------------ MODULE Membership ------------------------------
(***************************************************************************)
(* Who belongs to a workspace: its member rows and its invitations         *)
(* (workspaces.service.ts, invitations.module.ts, workspace.guard.ts,      *)
(* roles.guard.ts).                                                        *)
(*                                                                         *)
(* A user is known by the e-mail address.  A link is the number of the     *)
(* mail that carried it; an invitation's id is the number of its first     *)
(* mail.  Of the roles, admin and employee are kept: a manager passes the  *)
(* same guards here as an employee.                                        *)
(***************************************************************************)
EXTENDS Requests, Sequences, FiniteSets

CONSTANT Users

Roles == {"admin", "employee"}
MemberRows == [role : Roles, active : BOOLEAN]

ASSUME NullIsNoMember == Null \notin MemberRows

AdminsOf(m) == {u \in Users : m[u] # Null /\ m[u].active /\ m[u].role = "admin"}

VARIABLES
  account,      \* the users with an account
  member,       \* user -> member row, or Null
  invitations,  \* the rows of the table
  mailed,       \* the invitation mails sent: whom to, and for which invitation
  dead          \* history: the links superseded, rotated, revoked or used up

memberVars == <<account, member, invitations, mailed, dead>>

Invitations ==
  [id : Nat, user : Users, role : Roles, token : Nat, accepted : BOOLEAN, expired : BOOLEAN]

InitMembers(roster) ==
  /\ member = roster /\ account = {u \in Users : roster[u] # Null}
  /\ invitations = {} /\ mailed = <<>> /\ dead = {}

Admins == AdminsOf(member)

(* WorkspaceGuard: the caller's row as it is when the request arrives. *)
Admitted(u) == member[u] # Null /\ member[u].active

(* RolesGuard behind it, on the routes for admins. *)
AdminCalls == \E u \in Users : Admitted(u) /\ member[u].role = "admin"

LinksTo(u) == {t \in DOMAIN mailed : mailed[t].user = u}
LinksOf(i) == {t \in DOMAIN mailed : mailed[t].id = i}
Send(u, i) == mailed' = Append(mailed, [user |-> u, id |-> i])

-----------------------------------------------------------------------------
(* Inviting: a member is refused, pending invitations of the address are deleted,
   and a new one is stored and mailed. *)
Invite(h, u, r) ==
  /\ AdminCalls /\ ~(u \in account /\ Admitted(u))
  /\ Take(h, [at |-> "invite", user |-> u, role |-> r])
  /\ UNCHANGED memberVars

(* Mutant: expired invitations are left alone. *)
PendingUnexpired(u) == {i \in invitations : i.user = u /\ ~i.accepted /\ ~i.expired}

Pending(u) == {i \in invitations : i.user = u /\ ~i.accepted}

InviteSupersede(h) ==
  /\ At(h, "invite")
  /\ invitations' = invitations \ Pending(request[h].user)
  /\ dead' = dead \cup LinksTo(request[h].user)
  /\ Await(h, [request[h] EXCEPT !.at = "invite:create"])
  /\ UNCHANGED <<account, member, mailed>>

InviteCreate(h) ==
  /\ At(h, "invite:create")
  /\ LET r == request[h]
         t == Len(mailed) + 1
     IN  /\ invitations' = invitations \cup
              {[id |-> t, user |-> r.user, role |-> r.role, token |-> t, accepted |-> FALSE, expired |-> FALSE]}
         /\ Send(r.user, t)
  /\ Answer(h) /\ UNCHANGED <<account, member, dead>>

(* Revoking and resending read the invitation and then write by its id: what was
   accepted in between is deleted, or mailed again, all the same. *)
Stored(i) == {v \in invitations : v.id = i}
Outstanding(i) == \E v \in Stored(i) : ~v.accepted

Revoke(h, i) ==
  /\ AdminCalls /\ Outstanding(i)
  /\ Take(h, [at |-> "revoke", id |-> i]) /\ UNCHANGED memberVars

Resend(h, i) ==
  /\ AdminCalls /\ Outstanding(i)
  /\ Take(h, [at |-> "resend", id |-> i]) /\ UNCHANGED memberVars

RevokeDelete(h) ==
  /\ At(h, "revoke")
  /\ invitations' = invitations \ Stored(request[h].id)
  /\ dead' = dead \cup LinksOf(request[h].id)
  /\ Answer(h) /\ UNCHANGED <<account, member, mailed>>

Rotated(v) == [v EXCEPT !.token = Len(mailed) + 1, !.expired = FALSE]

(* A row deleted in the meantime makes the update fail. *)
ResendRotate(h) ==
  /\ At(h, "resend")
  /\ \/ /\ Stored(request[h].id) = {} /\ UNCHANGED memberVars
     \/ \E v \in Stored(request[h].id) :
          /\ invitations' = (invitations \ {v}) \cup {Rotated(v)}
          /\ Send(v.user, v.id)
          /\ dead' = dead \cup LinksOf(v.id)
          /\ UNCHANGED <<account, member>>
  /\ Answer(h)

Expire(v) ==
  /\ v \in invitations /\ ~v.expired
  /\ invitations' = (invitations \ {v}) \cup {[v EXCEPT !.expired = TRUE]}
  /\ UNCHANGED <<request, served, account, member, mailed, dead>>

-----------------------------------------------------------------------------
(* Accepting, by whoever holds the link.  The invitation is read once, at the start. *)
Usable(t) == {v \in invitations : v.token = t /\ ~v.accepted /\ ~v.expired}

Accept(h, t) ==
  /\ \E v \in Usable(t) : Take(h, [at |-> "accept", inv |-> v])
  /\ UNCHANGED memberVars

(* Mutant: the invitation is marked before the member is let in. *)
AcceptAccountMarked(h) ==
  /\ At(h, "accept")
  /\ Await(h, [request[h] EXCEPT !.at =
                IF request[h].inv.user \in account THEN "accept:read" ELSE "accept:account"])
  /\ invitations' = {[v EXCEPT !.accepted = @ \/ v.id = request[h].inv.id] : v \in invitations}
  /\ UNCHANGED <<account, member, mailed, dead>>
(* The account: an existing one asks for its password, which may be wrong. *)
AcceptAccount(h) ==
  /\ At(h, "accept")
  /\ \/ /\ request[h].inv.user \notin account
        /\ Await(h, [request[h] EXCEPT !.at = "accept:account"])
     \/ /\ request[h].inv.user \in account
        /\ Await(h, [request[h] EXCEPT !.at = "accept:read"]) \/ Answer(h)
  /\ UNCHANGED memberVars

(* users.email is unique: the slower of two accepts fails here. *)
AcceptCreateAccount(h) ==
  /\ At(h, "accept:account")
  /\ IF request[h].inv.user \in account
       THEN Answer(h) /\ UNCHANGED account
       ELSE /\ account' = account \cup {request[h].inv.user}
            /\ Await(h, [request[h] EXCEPT !.at = "accept:read"])
  /\ UNCHANGED <<member, invitations, mailed, dead>>

AcceptReadMember(h) ==
  /\ At(h, "accept:read")
  /\ LET row == member[request[h].inv.user]
         step == IF row = Null THEN "accept:member"
                 ELSE IF row.active THEN "accept:mark" ELSE "accept:reactivate"
     IN  Await(h, [at |-> step, inv |-> request[h].inv, seen |-> Admins])
  /\ UNCHANGED memberVars

Admit(u, r) == member' = [member EXCEPT ![u] = [role |-> r, active |-> TRUE]]

AcceptReactivate(h) ==
  /\ At(h, "accept:reactivate")
  /\ Admit(request[h].inv.user, request[h].inv.role)
  /\ Await(h, [request[h] EXCEPT !.at = "accept:mark"])
  /\ UNCHANGED <<account, invitations, mailed, dead>>

(* (workspaceId, userId) is unique. *)
AcceptCreateMember(h) ==
  /\ At(h, "accept:member")
  /\ IF member[request[h].inv.user] # Null
       THEN Answer(h) /\ UNCHANGED member
       ELSE /\ Admit(request[h].inv.user, request[h].inv.role)
            /\ Await(h, [request[h] EXCEPT !.at = "accept:mark"])
  /\ UNCHANGED <<account, invitations, mailed, dead>>

AcceptMark(h) ==
  /\ At(h, "accept:mark")
  /\ LET i == request[h].inv.id
         open == {v \in Stored(i) : ~v.accepted}
     IN  /\ invitations' = (invitations \ open) \cup {[v EXCEPT !.accepted = TRUE] : v \in open}
         /\ dead' = dead \cup LinksOf(i)
  /\ Answer(h) /\ UNCHANGED <<account, member, mailed>>

-----------------------------------------------------------------------------
(* Changing a role, and deactivating.  Both read the row and, when it is an active
   admin's, count the active admins before they write.  "seen" is history: the
   admins at the last of these reads. *)
PatchRole(h, u, r) ==
  /\ AdminCalls /\ member[u] # Null
  /\ Take(h, [at |-> IF r # "admin" /\ u \in Admins THEN "patch:count" ELSE "patch:write",
              user |-> u, role |-> r, seen |-> Admins])
  /\ UNCHANGED memberVars

(* Mutant: off by one. *)
IsLastActiveAdminByOne == Cardinality(Admins) < 1

IsLastActiveAdmin == Cardinality(Admins) <= 1

PatchCount(h) ==
  /\ At(h, "patch:count")
  /\ IF IsLastActiveAdmin
       THEN Answer(h) ELSE Await(h, [request[h] EXCEPT !.at = "patch:write", !.seen = Admins])
  /\ UNCHANGED memberVars

PatchWrite(h) ==
  /\ At(h, "patch:write")
  /\ member' = [member EXCEPT ![request[h].user] = [role |-> request[h].role, active |-> @.active]]
  /\ Answer(h) /\ UNCHANGED <<account, invitations, mailed, dead>>

Deactivate(h, u) ==
  /\ AdminCalls /\ member[u] # Null
  /\ Take(h, [at |-> IF u \in Admins THEN "deactivate:count" ELSE "deactivate:tasks",
              user |-> u, seen |-> Admins])
  /\ UNCHANGED memberVars

DeactivateCount(h) ==
  /\ At(h, "deactivate:count")
  /\ IF IsLastActiveAdmin
       THEN Answer(h) ELSE Await(h, [request[h] EXCEPT !.at = "deactivate:tasks", !.seen = Admins])
  /\ UNCHANGED memberVars

DeactivateTasks(h, open) ==
  /\ At(h, "deactivate:tasks")
  /\ IF open # {} THEN Answer(h) ELSE Await(h, [request[h] EXCEPT !.at = "deactivate:write"])
  /\ UNCHANGED memberVars

DeactivateWrite(h) ==
  /\ At(h, "deactivate:write")
  /\ member' = [member EXCEPT ![request[h].user].active = FALSE]
  /\ Answer(h) /\ UNCHANGED <<account, invitations, mailed, dead>>

Reactivate(h, u) ==
  /\ AdminCalls /\ member[u] # Null
  /\ Take(h, [at |-> "reactivate", user |-> u]) /\ UNCHANGED memberVars

ReactivateWrite(h) ==
  /\ At(h, "reactivate")
  /\ member' = [member EXCEPT ![request[h].user].active = TRUE]
  /\ Answer(h) /\ UNCHANGED <<account, invitations, mailed, dead>>

-----------------------------------------------------------------------------
MembersCall(h) ==
  /\ Free(h)
  /\ \/ \E u \in Users, r \in Roles : Invite(h, u, r) \/ PatchRole(h, u, r)
     \/ \E u \in Users : Deactivate(h, u) \/ Reactivate(h, u)
     \/ \E t \in DOMAIN mailed : Revoke(h, t) \/ Resend(h, t) \/ Accept(h, t)

(* What follows, DeactivateTasks apart: it reads the tasks. *)
MembersContinue(h) ==
  \/ InviteSupersede(h) \/ InviteCreate(h)
  \/ RevokeDelete(h) \/ ResendRotate(h)
  \/ AcceptAccount(h) \/ AcceptCreateAccount(h) \/ AcceptReadMember(h)
  \/ AcceptReactivate(h) \/ AcceptCreateMember(h) \/ AcceptMark(h)
  \/ PatchCount(h) \/ PatchWrite(h)
  \/ DeactivateCount(h) \/ DeactivateWrite(h) \/ ReactivateWrite(h)

-----------------------------------------------------------------------------
(* A used invitation has made its address a member of the workspace: whatever died,
   was retried or lost a race on the way, nobody is turned away by "already accepted"
   who was never let in. *)
AcceptedMeansMember == \A i \in invitations : i.accepted => member[i.user] # Null

(* A link that was superseded by another invitation, rotated by a resend, revoked or
   used up never opens the workspace again. *)
DeadLinksStayDead == \A i \in invitations : ~i.accepted => i.token \notin dead

(* The workspace loses its last active admin only to a request that decided on a list
   of admins that has changed since: the check itself has no gap. *)
LastAdminStays ==
  [][ Admins # {} /\ Admins' = {} =>
        \E h \in Handlers :
          /\ request[h] # Null /\ request[h].at \in {"patch:write", "deactivate:write", "accept:reactivate"}
          /\ request'[h] # request[h] /\ request[h].seen # Admins ]_<<request, served, memberVars>>
=============================================================================
