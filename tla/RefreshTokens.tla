---------------------------- MODULE RefreshTokens ----------------------------
(***************************************************************************)
(* The refresh tokens of one user (auth.service.ts): sign-in, rotation     *)
(* with its grace window, logout, and the change of a password that ends   *)
(* every session.  Requests overlap.  Outside a transaction each statement *)
(* is a step.  A transaction runs at READ COMMITTED: a row it updates is   *)
(* locked until it commits, a statement that needs a locked row waits and  *)
(* then looks at the row again, and nothing of it shows before the commit, *)
(* which writes all of it or, when the request dies, none of it.           *)
(*                                                                         *)
(* A session is named by its first token: refreshing keeps the session,    *)
(* signing in starts one.  A refused request changes nothing and is not a  *)
(* step of its own.                                                        *)
(***************************************************************************)
EXTENDS Integers, FiniteSets

CONSTANTS
  Null,
  Requests,       \* requests that may be in progress at once
  Grace,          \* REFRESH_REUSE_GRACE_MS
  Life,           \* a token expires this long after it is created
  PruneAge,       \* REFRESH_TOKEN_PRUNE_AGE_MS
  MaxTokens,      \* bound on the tokens ever issued
  MaxPasswords,   \* bound on the passwords ever set
  MaxTime         \* bound on the clock

ASSUME TokenConstants ==
  /\ Null \notin Int /\ Null \notin Requests
  /\ {Grace, Life, PruneAge, MaxTokens, MaxPasswords, MaxTime} \subseteq Nat

Ids == 1..MaxTokens
Time == 0..MaxTime

VARIABLES
  now,        \* the clock
  password,   \* the password in force, numbered
  owed,       \* history: the passwords an admin has set whose change has not ended the sessions
  tokens,     \* the refresh_tokens rows by id, Null where there is none
  minted,     \* tokens ever issued
  lock,       \* per row: the transaction that holds its lock
  userLock,   \* the transaction that holds the user's row
  req,        \* the requests in progress
  out         \* history: the sessions a logout has been answered for

vars == <<now, password, owed, tokens, minted, lock, userLock, req, out>>

(* A row, with its history: the session and token it descends from, and the
   password in force when it was committed, perhaps amid a change of it. *)
Rows ==
  [session : Ids, parent : Ids \cup {Null}, password : Nat, amid : BOOLEAN, createdAt : Time,
   revoked : BOOLEAN, rotatedAt : Time \cup {Null}, replacedBy : Ids \cup {Null}]

(* An absent row is not a row. *)
ASSUME NullIsNoRow == Null \notin Rows

Row(session, parent) ==
  [session |-> session, parent |-> parent, password |-> password, amid |-> userLock # Null,
   createdAt |-> now, revoked |-> FALSE, rotatedAt |-> Null, replacedBy |-> Null]

Idle == [pc |-> "idle", token |-> Null, succ |-> Null, at |-> Null, rows |-> {}]

Exists(t) == tokens[t] # Null
Usable(t) == Exists(t) /\ ~tokens[t].revoked
Expired(t) == tokens[t].createdAt + Life < now
Free(t) == lock[t] = Null

New == minted + 1

Goto(r, state) == req' = [req EXCEPT ![r] = state]
End(r) == Goto(r, Idle)
Unlock(r) == lock' = [t \in Ids |-> IF lock[t] = r THEN Null ELSE lock[t]]

(* generateTokens: the new row.  A request mints one token at most. *)
Issue(row, others) ==
  /\ minted < MaxTokens
  /\ minted' = New
  /\ tokens' = [others EXCEPT ![New] = row]

MayStart(r) ==
  /\ req[r] = Idle
  /\ minted + Cardinality({q \in Requests : req[q] # Idle}) < MaxTokens

Init ==
  /\ now = 0
  /\ password = 1 /\ owed = {}
  /\ tokens = [t \in Ids |-> Null]
  /\ minted = 0
  /\ lock = [t \in Ids |-> Null]
  /\ userLock = Null
  /\ req = [r \in Requests |-> Idle]
  /\ out = {}

----------------------------------------------------------------------------
(* Login: the password is checked, then the session is minted. *)
Login(r) ==
  /\ MayStart(r)
  /\ Goto(r, [Idle EXCEPT !.pc = "mint"])
  /\ UNCHANGED <<now, password, owed, tokens, minted, lock, userLock, out>>

Mint(r) ==
  /\ req[r].pc = "mint"
  /\ Issue(Row(New, Null), tokens)
  /\ End(r)
  /\ UNCHANGED <<now, password, owed, lock, userLock, out>>

----------------------------------------------------------------------------
(* Refresh: the row decides between rotation and the grace path. *)
Refresh(r, t) ==
  /\ MayStart(r)
  /\ Exists(t) /\ ~Expired(t)
  /\ Goto(r, [Idle EXCEPT !.pc = IF tokens[t].revoked THEN "grace" ELSE "claim", !.token = t])
  /\ UNCHANGED <<now, password, owed, tokens, minted, lock, userLock, out>>

(* Mutant: the token is spent by id, whether or not it is still unspent. *)
ClaimById(r) ==
  /\ req[r].pc = "claim"
  /\ LET t == req[r].token
     IN  /\ Free(t)
         /\ IF Exists(t)
            THEN /\ lock' = [lock EXCEPT ![t] = r]
                 /\ Goto(r, [req[r] EXCEPT !.pc = "rotate", !.at = now])
            ELSE UNCHANGED lock /\ Goto(r, [req[r] EXCEPT !.pc = "grace"])
  /\ UNCHANGED <<now, password, owed, tokens, minted, userLock, out>>

(* The conditional update that spends the token: who waited finds it spent. *)
Claim(r) ==
  /\ req[r].pc = "claim"
  /\ LET t == req[r].token
     IN  /\ Free(t)
         /\ IF Usable(t)
            THEN /\ lock' = [lock EXCEPT ![t] = r]
                 /\ Goto(r, [req[r] EXCEPT !.pc = "rotate", !.at = now])
            ELSE UNCHANGED lock /\ Goto(r, [req[r] EXCEPT !.pc = "grace"])
  /\ UNCHANGED <<now, password, owed, tokens, minted, userLock, out>>

(* The successor, and the commit of both. *)
Rotate(r) ==
  /\ req[r].pc = "rotate"
  /\ LET t == req[r].token
     IN  Issue(Row(tokens[t].session, t),
               [tokens EXCEPT ![t].revoked = TRUE, ![t].rotatedAt = req[r].at,
                              ![t].replacedBy = New])
  /\ Unlock(r)
  /\ End(r)
  /\ UNCHANGED <<now, password, owed, userLock, out>>

(* reissueWithinGrace: spent by a refresh, a short while ago. *)
GraceRead(r) ==
  /\ req[r].pc = "grace"
  /\ LET t == req[r].token
     IN  IF /\ Exists(t)
            /\ tokens[t].rotatedAt # Null /\ tokens[t].replacedBy # Null
            /\ now - tokens[t].rotatedAt <= Grace
         THEN Goto(r, [req[r] EXCEPT !.pc = "drop", !.succ = tokens[t].replacedBy])
         ELSE End(r)
  /\ UNCHANGED <<now, password, owed, tokens, minted, lock, userLock, out>>

(* The successor must still be unused; dropping it decides between two retries. *)
Drop(r) ==
  /\ req[r].pc = "drop"
  /\ Free(req[r].succ)
  /\ IF Usable(req[r].succ)
     THEN /\ lock' = [lock EXCEPT ![req[r].succ] = r]
          /\ Goto(r, [req[r] EXCEPT !.pc = "relink"])
     ELSE UNCHANGED lock /\ End(r)
  /\ UNCHANGED <<now, password, owed, tokens, minted, userLock, out>>

(* Mutant: the dropped successor stays usable. *)
RelinkOnly(r) ==
  /\ req[r].pc = "relink"
  /\ LET t == req[r].token
     IN  /\ Free(t) /\ Exists(t)
         /\ Issue(Row(tokens[t].session, t),
                  [tokens EXCEPT ![t].replacedBy = New])
  /\ Unlock(r)
  /\ End(r)
  /\ UNCHANGED <<now, password, owed, userLock, out>>

(* The new successor, and the commit; a spent row that is gone rolls back. *)
Relink(r) ==
  /\ req[r].pc = "relink"
  /\ LET t == req[r].token
     IN  /\ Free(t)
         /\ IF Exists(t)
            THEN Issue(Row(tokens[t].session, t),
                       [tokens EXCEPT ![req[r].succ].revoked = TRUE, ![t].replacedBy = New])
            ELSE UNCHANGED <<tokens, minted>>
  /\ Unlock(r)
  /\ End(r)
  /\ UNCHANGED <<now, password, owed, userLock, out>>

----------------------------------------------------------------------------
(* Logout revokes the one row, then prunes the user's old dead rows. *)
Logout(r, t) ==
  /\ req[r] = Idle
  /\ Exists(t) /\ Free(t)
  /\ tokens' = [tokens EXCEPT ![t].revoked = TRUE]
  /\ out' = out \cup {tokens[t].session}
  /\ Goto(r, [Idle EXCEPT !.pc = "prune"])
  /\ UNCHANGED <<now, password, owed, minted, lock, userLock>>

Dead(t) ==
  /\ Exists(t)
  /\ tokens[t].createdAt + PruneAge < now
  /\ tokens[t].revoked \/ Expired(t)

(* The prune finds its rows when it starts, locks them one by one (LockRow), and
   deletes what it has locked: a row that was dead stays dead. *)
FindDead(r) ==
  /\ req[r].pc = "prune"
  /\ Goto(r, [req[r] EXCEPT !.pc = "delete", !.rows = {t \in Ids : Dead(t)}])
  /\ UNCHANGED <<now, password, owed, tokens, minted, lock, userLock, out>>

CommitPrune(r) ==
  /\ req[r].pc = "delete"
  /\ req[r].rows = {}
  /\ tokens' = [t \in Ids |-> IF lock[t] = r THEN Null ELSE tokens[t]]
  /\ Unlock(r)
  /\ End(r)
  /\ UNCHANGED <<now, password, owed, minted, userLock, out>>

----------------------------------------------------------------------------
(* changePassword, and resetPassword once its link is burnt: the new password
   and the end of every session in one transaction, then a new session. *)
ChangePassword(r) ==
  /\ MayStart(r)
  /\ password < MaxPasswords
  /\ Goto(r, [Idle EXCEPT !.pc = "user"])
  /\ UNCHANGED <<now, password, owed, tokens, minted, lock, userLock, out>>

(* Mutant: no row is revoked. *)
UpdateUserOnly(r) ==
  /\ req[r].pc = "user"
  /\ userLock = Null
  /\ userLock' = r
  /\ Goto(r, [req[r] EXCEPT !.pc = "revoke"])
  /\ UNCHANGED <<now, password, owed, tokens, minted, lock, out>>

(* Mutant: the revocation matches the user's spent rows too. *)
UpdateUserAllRows(r) ==
  /\ req[r].pc = "user"
  /\ userLock = Null
  /\ userLock' = r
  /\ Goto(r, [req[r] EXCEPT !.pc = "revoke", !.rows = {t \in Ids : Exists(t)}])
  /\ UNCHANGED <<now, password, owed, tokens, minted, lock, out>>

(* The user's row, and the rows the revocation finds when it starts. *)
UpdateUser(r) ==
  /\ req[r].pc = "user"
  /\ userLock = Null
  /\ userLock' = r
  /\ Goto(r, [req[r] EXCEPT !.pc = "revoke", !.rows = {t \in Ids : Usable(t)}])
  /\ UNCHANGED <<now, password, owed, tokens, minted, lock, out>>

(* A statement over many rows, of a revocation or a prune, locks one row after the
   other, in no particular order, and waits for each while it holds those before.  A row
   that is gone by then is skipped. *)
LocksMany(r) == req[r].pc \in {"revoke", "end", "delete"}

LockRow(r) ==
  /\ LocksMany(r)
  /\ \E t \in req[r].rows :
       /\ Free(t)
       /\ lock' = IF Exists(t) THEN [lock EXCEPT ![t] = r] ELSE lock
       /\ Goto(r, [req[r] EXCEPT !.rows = @ \ {t}])
  /\ UNCHANGED <<now, password, owed, tokens, minted, userLock, out>>

(* The rows a revocation has locked, as its commit leaves them. *)
Revoked(r) ==
  [t \in Ids |-> IF lock[t] = r /\ Exists(t) THEN [tokens[t] EXCEPT !.revoked = TRUE] ELSE tokens[t]]

CommitPassword(r) ==
  /\ req[r].pc = "revoke"
  /\ req[r].rows = {}
  /\ password' = password + 1
  /\ tokens' = Revoked(r)
  /\ userLock' = Null
  /\ Unlock(r)
  /\ Goto(r, [Idle EXCEPT !.pc = "mint"])
  /\ UNCHANGED <<now, minted, owed, out>>

----------------------------------------------------------------------------
(* rotatePassword, by an admin: the new password is one statement, the end of every
   session another.  It issues no token: MayStart is a bound. *)
RotatePassword(r) ==
  /\ MayStart(r)
  /\ password < MaxPasswords
  /\ Goto(r, [Idle EXCEPT !.pc = "set"])
  /\ UNCHANGED <<now, password, owed, tokens, minted, lock, userLock, out>>

SetPassword(r) ==
  /\ req[r].pc = "set"
  /\ userLock = Null
  /\ password' = password + 1 /\ owed' = owed \cup {password'}
  /\ Goto(r, [Idle EXCEPT !.pc = "find", !.at = password'])
  /\ UNCHANGED <<now, tokens, minted, lock, userLock, out>>

FindSessions(r) ==
  /\ req[r].pc = "find"
  /\ Goto(r, [req[r] EXCEPT !.pc = "end", !.rows = {t \in Ids : Usable(t)}])
  /\ UNCHANGED <<now, password, owed, tokens, minted, lock, userLock, out>>

EndSessions(r) ==
  /\ req[r].pc = "end"
  /\ req[r].rows = {}
  /\ tokens' = Revoked(r) /\ owed' = owed \ {req[r].at}
  /\ Unlock(r)
  /\ End(r)
  /\ UNCHANGED <<now, password, minted, userLock, out>>

----------------------------------------------------------------------------
(* A request dies: a transaction it is in is rolled back. *)
Crash(r) ==
  /\ req[r] # Idle
  /\ Unlock(r)
  /\ userLock' = IF userLock = r THEN Null ELSE userLock
  /\ End(r)
  /\ UNCHANGED <<now, password, owed, tokens, minted, out>>

Tick ==
  /\ now < MaxTime
  /\ now' = now + 1
  /\ UNCHANGED <<password, owed, tokens, minted, lock, userLock, req, out>>

Start(r) ==
  \/ Login(r) \/ ChangePassword(r) \/ RotatePassword(r)
  \/ \E t \in Ids : Refresh(r, t) \/ Logout(r, t)

Continue(r) ==
  \/ Mint(r) \/ Claim(r) \/ Rotate(r) \/ GraceRead(r) \/ Drop(r) \/ Relink(r)
  \/ FindDead(r) \/ CommitPrune(r) \/ UpdateUser(r) \/ LockRow(r) \/ CommitPassword(r)
  \/ SetPassword(r) \/ FindSessions(r) \/ EndSessions(r)

Next == Tick \/ \E r \in Requests : Start(r) \/ Continue(r) \/ Crash(r)

(* A handler that has started runs on, and the database queues the waiters of a
   row: a lock that is released again and again is granted in the end. *)
Spec == Init /\ [][Next]_vars /\ \A r \in Requests : SF_vars(Continue(r))

----------------------------------------------------------------------------
(* Properties. *)

RequestStates ==
  [pc : {"idle", "mint", "claim", "rotate", "grace", "drop", "relink", "prune", "delete", "user",
         "revoke", "set", "find", "end"},
   token : Ids \cup {Null}, succ : Ids \cup {Null}, at : Nat \cup {Null},
   rows : SUBSET Ids]

(* Types of the rows, the locks and the requests; a request inside a
   transaction has the rows it works on. *)
TypeOK ==
  /\ now \in Time
  /\ password \in Nat /\ owed \subseteq Nat
  /\ tokens \in [Ids -> Rows \cup {Null}]
  /\ minted \in 0..MaxTokens
  /\ lock \in [Ids -> Requests \cup {Null}]
  /\ userLock \in Requests \cup {Null}
  /\ req \in [Requests -> RequestStates]
  /\ out \subseteq Ids
  /\ \A r \in Requests :
       /\ req[r].pc \in {"claim", "rotate", "grace", "drop", "relink"} => req[r].token \in Ids
       /\ req[r].pc \in {"drop", "relink"} => req[r].succ \in Ids
       /\ req[r].pc = "rotate" => req[r].at \in Time

(* "only the newly issued token stays live": a session never has two usable
   tokens, whatever refreshes, retries and revocations overlap or die. *)
OneUsableToken ==
  \A s, t \in Ids :
    (Usable(s) /\ Usable(t) /\ tokens[s].session = tokens[t].session) => s = t

(* "its successor was never used (so the client never received it)": of all the
   tokens ever issued in the place of one, at most one is ever spent, and once it
   is no other can be used: a session is one chain of spent tokens and never
   forks, however often a retry within the grace window replaces the latest. *)
Siblings(s, t) ==
  /\ s # t
  /\ Exists(s) /\ Exists(t)
  /\ tokens[s].parent = tokens[t].parent /\ tokens[s].parent # Null

NeverForks ==
  \A s, t \in Ids :
    (Siblings(s, t) /\ tokens[s].rotatedAt # Null) =>
      tokens[t].revoked /\ tokens[t].rotatedAt = Null

(* A session that has lost its last usable token never gets another, renewals
   replace exactly the usable token, and only a sign-in starts a session. *)
Chain == INSTANCE SessionChain WITH
  usable <- {<<tokens[t].session, t>> : t \in {u \in Ids : Usable(u)}},
  last <- minted

SessionsAreChains == Chain!ChainSpec

(* What a request has yet to lock, and whom it waits for when another has it. *)
Wants(r) ==
  {t \in Ids : \/ req[r].pc \in {"claim", "relink"} /\ t = req[r].token
               \/ req[r].pc = "drop" /\ t = req[r].succ
               \/ LocksMany(r) /\ t \in req[r].rows}

WaitsFor(q, r) ==
  /\ q # r
  /\ \/ \E t \in Wants(q) : lock[t] = r
     \/ req[q].pc \in {"user", "set"} /\ userLock = r

Revoking(r) == req[r].pc \in {"revoke", "end"}

(* A password change locks the user's row and every live token row, a retry locks two
   rows of one session: whatever order the rows of a statement come in, requests never
   wait for each other in a circle, which is a set of them each of which waits for
   another one in it.  The exceptions are circles the database has to break by giving a
   request up: those with a prune in them, for it locks rows that are dead and the live
   ones of a revocation may have expired, and those with two revocations that the user's
   row does not keep apart. *)
NoCircularWait ==
  \A circle \in SUBSET Requests :
    circle # {} /\ (\A q \in circle : \E r \in circle : WaitsFor(q, r)) =>
      \/ \E r \in circle : req[r].pc = "delete"
      \/ \E q, r \in circle : q # r /\ Revoking(q) /\ req[r].pc = "end"

(* "kill every existing session": a change of the password ends every session it
   finds.  What is usable afterwards was issued since, or was committed by an
   overlapping request while the change was under way; or an admin has set the
   password, and the second statement has yet to run, or never will. *)
SessionsEndWithPassword ==
  \A t \in Ids : Usable(t) =>
    \A p \in (tokens[t].password + 1)..password :
      p \in owed \/ (tokens[t].amid /\ p = tokens[t].password + 1)

(* "Logout and password changes revoke without rotatedAt, and revoke the
   successor too, so neither passes": no token is issued in a session after its
   logout. *)
LoggedOutStaysOut ==
  [][ \A t \in Ids : (Usable(t)' /\ ~Usable(t)) => tokens'[t].session \notin out ]_vars
=============================================================================
