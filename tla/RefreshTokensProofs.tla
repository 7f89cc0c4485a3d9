-------------------------- MODULE RefreshTokensProofs --------------------------
(***************************************************************************)
(* Proofs about RefreshTokens, for any number of requests, tokens and      *)
(* passwords: types, one usable token per session, no forks, a changed     *)
(* password ends the sessions it finds, and which waits form no circle.    *)
(*                                                                         *)
(* OneUsableToken and NeverForks hold each other up: the rotation that     *)
(* spends a token may do so because no sibling of it is usable, and a      *)
(* retry may replace a successor because no sibling of it was spent.  Both *)
(* rest on what a row says of its relatives (Lineage), on what a retry     *)
(* remembers of the successor (Remembered), and on the row locks: the row  *)
(* a transaction is about to spend is still usable (Held).                 *)
(***************************************************************************)
EXTENDS RefreshTokens, TLAPS

(* What a row says of its relatives: tokens are numbered in order, a token
   that was rotated is revoked, a child is in its parent's session and its
   parent is spent, a successor is a child. *)
Lineage ==
  /\ \A t \in Ids : Exists(t) =>
       /\ t <= minted /\ tokens[t].session <= minted
       /\ tokens[t].parent # Null => tokens[t].parent <= minted
       /\ tokens[t].replacedBy # Null => tokens[t].replacedBy <= minted
       /\ tokens[t].rotatedAt # Null => tokens[t].revoked
  /\ \A c, u \in Ids : (Exists(c) /\ Exists(u) /\ tokens[c].parent = u) =>
       tokens[c].session = tokens[u].session /\ tokens[u].revoked
  /\ \A t, s \in Ids : (Exists(t) /\ Exists(s) /\ tokens[t].replacedBy = s) =>
       tokens[s].parent = t
  /\ \A s, t \in Ids : Siblings(s, t) => tokens[s].session = tokens[t].session

(* The successor a retry has read is still a child of its token. *)
Remembered ==
  \A r \in Requests : req[r].pc \in {"drop", "relink"} =>
    /\ req[r].succ <= minted
    /\ Exists(req[r].succ) => tokens[req[r].succ].parent = req[r].token

(* A transaction holds the row it is about to spend, which is still usable. *)
Held ==
  \A r \in Requests :
    /\ req[r].pc = "rotate" => lock[req[r].token] = r /\ Usable(req[r].token)
    /\ req[r].pc = "relink" => lock[req[r].succ] = r /\ Usable(req[r].succ)

Family == Lineage /\ OneUsableToken /\ NeverForks

IInv == TypeOK /\ Family /\ Remembered /\ Held

(* Rows are revoked or deleted and otherwise left alone. *)
Weaker(t) ==
  \/ tokens'[t] = Null
  \/ /\ Exists(t)
     /\ tokens'[t] \in {tokens[t], [tokens[t] EXCEPT !.revoked = TRUE]}

Weakens == minted' = minted /\ \A t \in Ids : Weaker(t)

(* A token is issued in the place of a child of t, or as its first: the row that
   was usable in the session is revoked, no child of t was ever spent, and if t is
   now rotated none of its siblings was. *)
Succession(t) ==
  /\ Exists(t) /\ New \in Ids /\ minted' = New
  /\ tokens'[New] # Null
  /\ tokens'[New].session = tokens[t].session /\ tokens'[New].parent = t
  /\ tokens'[New].rotatedAt = Null /\ tokens'[New].replacedBy = Null
  /\ \A x \in Ids \ {New} : Exists(x)' =>
       /\ Exists(x)
       /\ tokens'[x].session = tokens[x].session /\ tokens'[x].parent = tokens[x].parent
       /\ tokens[x].revoked => tokens'[x].revoked
       /\ x # t => tokens'[x].replacedBy = tokens[x].replacedBy
                  /\ tokens'[x].rotatedAt = tokens[x].rotatedAt
       /\ tokens[x].session = tokens[t].session => tokens'[x].revoked
       /\ tokens[x].parent = t => tokens'[x].rotatedAt = Null
  /\ tokens'[t].replacedBy = New
  /\ tokens'[t].rotatedAt # Null =>
       \A s \in Ids : Siblings(s, t) => tokens[s].revoked /\ tokens[s].rotatedAt = Null

(* The new token takes the place of d among the usable ones. *)
Replaces(d) ==
  /\ Usable(d) /\ minted' = New /\ New \in Ids
  /\ tokens'[New] # Null /\ ~tokens'[New].revoked
  /\ tokens'[New].session = tokens[d].session
  /\ \A x \in Ids \ {New} :
       /\ Usable(x)' <=> (Usable(x) /\ x # d)
       /\ Usable(x)' => tokens'[x].session = tokens[x].session

----------------------------------------------------------------------------
(* The initial states have no rows and no requests. *)
LEMMA InitIInv == Init => IInv
<1> SUFFICES ASSUME Init PROVE IInv
  OBVIOUS
<1> USE TokenConstants, NullIsNoRow
<1>1. TypeOK
  BY DEF Init, TypeOK, RequestStates, Idle, Ids, Time
<1>2. Family
  BY DEF Init, Family, Lineage, OneUsableToken, NeverForks, Siblings, Usable, Exists
<1>3. Remembered /\ Held
  BY DEF Init, Remembered, Held, Idle
<1>4. QED
  BY <1>1, <1>2, <1>3 DEF IInv

(* A row that exists is a row. *)
LEMMA RowTypes ==
  ASSUME TypeOK, NEW t \in Ids, Exists(t)
  PROVE  tokens[t] \in Rows
BY DEF TypeOK, Exists

(* Revoking and deleting rows leaves the families as they should be. *)
LEMMA WeakensFamily ==
  ASSUME TypeOK, Family, Weakens
  PROVE  Family'
<1> USE NullIsNoRow
<1>1. \A t \in Ids : Exists(t)' =>
        /\ Exists(t) /\ tokens[t] \in Rows
        /\ tokens'[t].session = tokens[t].session /\ tokens'[t].parent = tokens[t].parent
        /\ tokens'[t].replacedBy = tokens[t].replacedBy
        /\ tokens'[t].rotatedAt = tokens[t].rotatedAt
        /\ tokens[t].revoked => tokens'[t].revoked
  <2> SUFFICES ASSUME NEW t \in Ids, Exists(t)'
               PROVE  /\ Exists(t) /\ tokens[t] \in Rows
                      /\ tokens'[t].session = tokens[t].session
                      /\ tokens'[t].parent = tokens[t].parent
                      /\ tokens'[t].replacedBy = tokens[t].replacedBy
                      /\ tokens'[t].rotatedAt = tokens[t].rotatedAt
                      /\ tokens[t].revoked => tokens'[t].revoked
    OBVIOUS
  <2>1. Exists(t) /\ tokens'[t] \in {tokens[t], [tokens[t] EXCEPT !.revoked = TRUE]}
    BY DEF Weakens, Weaker, Exists
  <2>2. tokens[t] \in Rows
    BY <2>1, RowTypes
  <2>3. QED
    BY <2>1, <2>2 DEF Rows
<1>2. Lineage'
  BY <1>1 DEF Family, Lineage, Weakens, Siblings
<1>3. OneUsableToken'
  BY <1>1 DEF Family, OneUsableToken, Usable
<1>4. NeverForks'
  BY <1>1 DEF Family, NeverForks, Siblings
<1>5. QED
  BY <1>2, <1>3, <1>4 DEF Family

(* Revoking and deleting rows leaves what retries remember true. *)
LEMMA WeakensRemembered ==
  ASSUME TypeOK, Remembered, Weakens,
         \A q \in Requests : req'[q].pc \in {"drop", "relink"} =>
           /\ req[q].pc \in {"drop", "relink"}
           /\ req'[q].succ = req[q].succ /\ req'[q].token = req[q].token
  PROVE  Remembered'
<1> USE NullIsNoRow
<1> SUFFICES ASSUME NEW q \in Requests, req'[q].pc \in {"drop", "relink"}
             PROVE  /\ req'[q].succ <= minted'
                    /\ Exists(req[q].succ)' => tokens'[req[q].succ].parent = req[q].token
  BY DEF Remembered, Exists
<1>1. req[q].succ \in Ids
  BY DEF TypeOK
<1>2. Exists(req[q].succ)' =>
        Exists(req[q].succ) /\ tokens[req[q].succ] \in Rows
  BY <1>1, RowTypes DEF Weakens, Weaker, Exists
<1>3. QED
  BY <1>1, <1>2 DEF Remembered, Weakens, Weaker, Exists, Rows

----------------------------------------------------------------------------
(* Every action keeps the types. *)
LEMMA TypeStep == TypeOK /\ Held /\ [Next]_vars => TypeOK'
<1> SUFFICES ASSUME TypeOK, Held, [Next]_vars PROVE TypeOK'
  OBVIOUS
<1> USE TokenConstants, NullIsNoRow
<1>f. \A t \in Ids : Exists(t) => tokens[t] \in Rows
  BY RowTypes
<1>u. ASSUME NEW r \in Requests, Unlock(r)
      PROVE  lock' \in [Ids -> Requests \cup {Null}]
  BY <1>u DEF Unlock, TypeOK
<1>e. ASSUME NEW r \in Requests, NEW state \in RequestStates, Goto(r, state)
      PROVE  /\ req' \in [Requests -> RequestStates]
             /\ req'[r] = state /\ \A q \in Requests \ {r} : req'[q] = req[q]
  BY <1>e DEF Goto, TypeOK
<1>i. Idle \in RequestStates
  BY DEF Idle, RequestStates
<1>1. ASSUME NEW r \in Requests, Login(r) PROVE TypeOK'
  BY <1>1 DEF Login, Goto, Idle, RequestStates, TypeOK
<1>2. ASSUME NEW r \in Requests, Mint(r) PROVE TypeOK'
  <2>1. New \in Ids /\ minted' \in 0..MaxTokens
    BY <1>2 DEF Mint, Issue, New, Ids, TypeOK
  <2>2. Row(New, Null) \in Rows
    BY <2>1 DEF Row, Rows, TypeOK, RequestStates
  <2>3. tokens' \in [Ids -> Rows \cup {Null}]
    BY <1>2, <2>1, <2>2 DEF Mint, Issue, TypeOK
  <2>4. QED
    BY <1>2, <2>1, <2>3, <1>e, <1>i DEF Mint, End, TypeOK, Idle
<1>3. ASSUME NEW r \in Requests, NEW t \in Ids, Refresh(r, t) PROVE TypeOK'
  BY <1>3 DEF Refresh, Goto, Idle, RequestStates, TypeOK
<1>4. ASSUME NEW r \in Requests, Claim(r) PROVE TypeOK'
  <2>1. req[r] \in RequestStates /\ now \in Time /\ now \in Nat /\ req[r].token \in Ids
    BY <1>4 DEF Claim, TypeOK, Time
  <2>2. /\ [req[r] EXCEPT !.pc = "rotate", !.at = now] \in RequestStates
        /\ [req[r] EXCEPT !.pc = "grace"] \in RequestStates
    BY <2>1 DEF RequestStates
  <2>3. req'[r].token \in Ids /\ req'[r].pc \in {"rotate", "grace"}
        /\ (req'[r].pc = "rotate" => req'[r].at \in Time)
    <3>1. CASE Goto(r, [req[r] EXCEPT !.pc = "rotate", !.at = now])
      <4>1. req'[r] = [req[r] EXCEPT !.pc = "rotate", !.at = now]
        BY <3>1, <2>2, <1>e
      <4>2. QED
        BY <4>1, <2>1 DEF RequestStates
    <3>2. CASE Goto(r, [req[r] EXCEPT !.pc = "grace"])
      BY <3>2, <2>1, <2>2, <1>e DEF RequestStates
    <3>3. QED
      BY <1>4, <3>1, <3>2 DEF Claim
  <2>4. QED
    BY <1>4, <2>2, <2>3, <1>e DEF Claim, TypeOK
<1>5. ASSUME NEW r \in Requests, Rotate(r) PROVE TypeOK'
  <2> DEFINE t == req[r].token
  <2>1. New \in Ids /\ minted' \in 0..MaxTokens /\ t \in Ids /\ req[r].at \in Time
    BY <1>5 DEF Rotate, Issue, New, Ids, TypeOK
  <2>2. tokens[t] \in Rows
    BY <1>5, <2>1, <1>f DEF Rotate, Held, Usable
  <2>3. Row(tokens[t].session, t) \in Rows
    BY <2>1, <2>2 DEF Row, Rows, TypeOK
  <2>4. [tokens EXCEPT ![t].revoked = TRUE, ![t].rotatedAt = req[r].at,
                       ![t].replacedBy = New] \in [Ids -> Rows \cup {Null}]
    BY <2>1, <2>2 DEF Rows, TypeOK
  <2>5. tokens' \in [Ids -> Rows \cup {Null}]
    BY <1>5, <2>1, <2>3, <2>4 DEF Rotate, Issue
  <2>6. QED
    BY <1>5, <2>1, <2>5, <1>e, <1>i, <1>u DEF Rotate, End, TypeOK, Idle
<1>6. ASSUME NEW r \in Requests, GraceRead(r) PROVE TypeOK'
  <2> DEFINE t == req[r].token
  <2>1. t \in Ids /\ (Exists(t) => tokens[t] \in Rows)
    BY <1>6, <1>f DEF GraceRead, TypeOK
  <2>2. CASE Exists(t) /\ tokens[t].replacedBy # Null
             /\ Goto(r, [req[r] EXCEPT !.pc = "drop", !.succ = tokens[t].replacedBy])
    <3>1. tokens[t].replacedBy \in Ids
      BY <2>1, <2>2 DEF Rows
    <3>2. QED
      <4>1. req[r] \in RequestStates
        BY DEF TypeOK
      <4>2. [req[r] EXCEPT !.pc = "drop", !.succ = tokens[t].replacedBy] \in RequestStates
        BY <3>1, <4>1 DEF RequestStates
      <4>3. req'[r].token \in Ids /\ req'[r].succ \in Ids /\ req'[r].pc = "drop"
        BY <2>1, <2>2, <3>1, <4>1, <4>2, <1>e DEF RequestStates
      <4>4. QED
        BY <1>6, <2>2, <4>2, <4>3, <1>e DEF GraceRead, TypeOK
  <2>3. CASE End(r)
    BY <1>6, <2>3, <1>e, <1>i DEF GraceRead, End, TypeOK, Idle
  <2>4. QED
    BY <1>6, <2>2, <2>3 DEF GraceRead
<1>7. ASSUME NEW r \in Requests, Drop(r) PROVE TypeOK'
  BY <1>7, SMTT(30) DEF Drop, Goto, End, Idle, RequestStates, TypeOK
<1>8. ASSUME NEW r \in Requests, Relink(r) PROVE TypeOK'
  <2> DEFINE t == req[r].token
             s == req[r].succ
  <2>1. t \in Ids /\ s \in Ids
    BY <1>8 DEF Relink, TypeOK
  <2>2. CASE Exists(t)
    <3>1. New \in Ids /\ minted' \in 0..MaxTokens
      BY <1>8, <2>2 DEF Relink, Issue, New, Ids, TypeOK
    <3>2. tokens[t] \in Rows /\ tokens[s] \in Rows
      BY <1>8, <2>1, <2>2, <1>f DEF Relink, Held, Usable
    <3>3. Row(tokens[t].session, t) \in Rows
      BY <2>1, <3>1, <3>2 DEF Row, Rows, TypeOK
    <3>4. [tokens EXCEPT ![s].revoked = TRUE, ![t].replacedBy = New]
            \in [Ids -> Rows \cup {Null}]
      BY <2>1, <3>1, <3>2 DEF Rows, TypeOK
    <3>5. tokens' \in [Ids -> Rows \cup {Null}]
      BY <1>8, <2>2, <3>1, <3>3, <3>4 DEF Relink, Issue
    <3>6. QED
      BY <1>8, <3>1, <3>5, <1>e, <1>i, <1>u DEF Relink, End, TypeOK, Idle
  <2>3. CASE ~Exists(t)
    BY <1>8, <2>3, <1>e, <1>i, <1>u DEF Relink, End, TypeOK, Idle
  <2>4. QED
    BY <2>2, <2>3
<1>9. ASSUME NEW r \in Requests, NEW t \in Ids, Logout(r, t) PROVE TypeOK'
  <2>1. [Idle EXCEPT !.pc = "prune"] \in RequestStates
    BY DEF Idle, RequestStates
  <2>2. tokens[t] \in Rows
    BY <1>9, <1>f DEF Logout
  <2>3. tokens' \in [Ids -> Rows \cup {Null}] /\ out' \subseteq Ids
    BY <1>9, <2>2 DEF Logout, Rows, TypeOK
  <2>4. QED
    BY <1>9, <2>1, <2>3, <1>e DEF Logout, TypeOK, Idle
<1>10. ASSUME NEW r \in Requests, FindDead(r) PROVE TypeOK'
  <2>1. req[r] \in RequestStates /\ {t \in Ids : Dead(t)} \subseteq Ids
    BY DEF TypeOK
  <2>2. [req[r] EXCEPT !.pc = "delete", !.rows = {t \in Ids : Dead(t)}] \in RequestStates
    BY <2>1 DEF RequestStates
  <2>3. req'[r].pc = "delete"
    BY <1>10, <2>1, <2>2, <1>e DEF FindDead, RequestStates
  <2>4. QED
    BY <1>10, <2>2, <2>3, <1>e DEF FindDead, TypeOK
<1>22. ASSUME NEW r \in Requests, CommitPrune(r) PROVE TypeOK'
  <2>1. tokens' \in [Ids -> Rows \cup {Null}]
    BY <1>22 DEF CommitPrune, TypeOK
  <2>2. QED
    BY <1>22, <2>1, <1>e, <1>i, <1>u DEF CommitPrune, End, TypeOK, Idle
<1>11. ASSUME NEW r \in Requests, ChangePassword(r) PROVE TypeOK'
  BY <1>11 DEF ChangePassword, Goto, Idle, RequestStates, TypeOK
<1>12. ASSUME NEW r \in Requests, UpdateUser(r) PROVE TypeOK'
  <2>1. req[r] \in RequestStates /\ {t \in Ids : Usable(t)} \subseteq Ids
    BY DEF TypeOK
  <2>2. [req[r] EXCEPT !.pc = "revoke", !.rows = {t \in Ids : Usable(t)}] \in RequestStates
    BY <2>1 DEF RequestStates
  <2>3. req'[r].pc = "revoke"
    BY <1>12, <2>1, <2>2, <1>e DEF UpdateUser, RequestStates
  <2>4. QED
    BY <1>12, <2>2, <2>3, <1>e DEF UpdateUser, TypeOK
<1>13. ASSUME NEW r \in Requests, LockRow(r) PROVE TypeOK'
  <2>1. PICK x \in req[r].rows :
          /\ lock' = IF Exists(x) THEN [lock EXCEPT ![x] = r] ELSE lock
          /\ Goto(r, [req[r] EXCEPT !.rows = @ \ {x}])
    BY <1>13 DEF LockRow
  <2>2. lock' \in [Ids -> Requests \cup {Null}]
    BY <2>1 DEF TypeOK
  <2>3. req[r] \in RequestStates
    BY DEF TypeOK
  <2>4. [req[r] EXCEPT !.rows = @ \ {x}] \in RequestStates
    BY <2>3 DEF RequestStates
  <2>5. req'[r].pc = req[r].pc /\ LocksMany(r)
    BY <1>13, <2>1, <2>3, <2>4, <1>e DEF LockRow, RequestStates
  <2>6. QED
    BY <1>13, <2>1, <2>2, <2>4, <2>5, <1>e DEF LockRow, LocksMany, TypeOK
<1>14. ASSUME NEW r \in Requests, CommitPassword(r) PROVE TypeOK'
  <2>1. password' \in Nat
    BY <1>14 DEF CommitPassword, TypeOK
  <2>2. [Idle EXCEPT !.pc = "mint"] \in RequestStates
    BY <2>1 DEF Idle, RequestStates
  <2>3. Goto(r, [Idle EXCEPT !.pc = "mint"])
    BY <1>14 DEF CommitPassword
  <2>4. req' \in [Requests -> RequestStates] /\ req'[r].pc = "mint"
        /\ \A q \in Requests \ {r} : req'[q] = req[q]
    BY <2>2, <2>3, <1>e DEF Idle
  <2>5. \A t \in Ids : Exists(t) => [tokens[t] EXCEPT !.revoked = TRUE] \in Rows
    BY <1>f DEF Rows
  <2>6. \A t \in Ids : (IF lock[t] = r /\ Exists(t)
                        THEN [tokens[t] EXCEPT !.revoked = TRUE] ELSE tokens[t])
                       \in Rows \cup {Null}
    BY <2>5 DEF TypeOK
  <2>7. tokens' \in [Ids -> Rows \cup {Null}]
    BY <1>14, <2>6 DEF CommitPassword, Revoked
  <2>8. QED
    BY <1>14, <2>1, <2>4, <2>7, <1>u DEF CommitPassword, TypeOK
<1>15. ASSUME NEW r \in Requests, Crash(r) PROVE TypeOK'
  BY <1>15, <1>e, <1>i, <1>u DEF Crash, End, TypeOK, Idle
<1>16. CASE Tick
  BY <1>16 DEF Tick, TypeOK, Time
<1>17. CASE UNCHANGED vars
  BY <1>17 DEF vars, TypeOK
<1>18. ASSUME NEW r \in Requests, RotatePassword(r) PROVE TypeOK'
  BY <1>18 DEF RotatePassword, Goto, Idle, RequestStates, TypeOK
<1>19. ASSUME NEW r \in Requests, SetPassword(r) PROVE TypeOK'
  <2>1. password' \in Nat /\ owed' \subseteq Nat
    BY <1>19 DEF SetPassword, TypeOK
  <2>2. [Idle EXCEPT !.pc = "find", !.at = password'] \in RequestStates
    BY <2>1 DEF Idle, RequestStates
  <2>3. Goto(r, [Idle EXCEPT !.pc = "find", !.at = password'])
    BY <1>19 DEF SetPassword
  <2>4. req' \in [Requests -> RequestStates] /\ req'[r].pc = "find"
        /\ \A q \in Requests \ {r} : req'[q] = req[q]
    BY <2>2, <2>3, <1>e, ZenonT(40) DEF Idle
  <2>5. QED
    BY <1>19, <2>1, <2>4 DEF SetPassword, TypeOK
<1>20. ASSUME NEW r \in Requests, FindSessions(r) PROVE TypeOK'
  <2>1. req[r] \in RequestStates /\ {t \in Ids : Usable(t)} \subseteq Ids
    BY DEF TypeOK
  <2>2. [req[r] EXCEPT !.pc = "end", !.rows = {t \in Ids : Usable(t)}] \in RequestStates
    BY <2>1 DEF RequestStates
  <2>3. req'[r].pc = "end"
    BY <1>20, <2>1, <2>2, <1>e DEF FindSessions, RequestStates
  <2>4. QED
    BY <1>20, <2>2, <2>3, <1>e DEF FindSessions, TypeOK
<1>21. ASSUME NEW r \in Requests, EndSessions(r) PROVE TypeOK'
  <2>1. \A t \in Ids : Exists(t) => [tokens[t] EXCEPT !.revoked = TRUE] \in Rows
    BY <1>f DEF Rows
  <2>2. Revoked(r) \in [Ids -> Rows \cup {Null}]
    BY <2>1 DEF Revoked, TypeOK
  <2>3. owed' \subseteq Nat /\ tokens' \in [Ids -> Rows \cup {Null}]
    BY <1>21, <2>2 DEF EndSessions, TypeOK
  <2>4. QED
    BY <1>21, <2>3, <1>e, <1>i, <1>u DEF EndSessions, End, TypeOK, Idle
<1>23. QED
  BY <1>1, <1>2, <1>3, <1>4, <1>5, <1>6, <1>7, <1>8, <1>9, <1>10, <1>11, <1>12,
     <1>13, <1>14, <1>15, <1>16, <1>17, <1>18, <1>19, <1>20, <1>21, <1>22 DEF Next, Start, Continue

----------------------------------------------------------------------------
(* A fresh row. *)
LEMMA RowFields ==
  ASSUME TypeOK, NEW session \in Ids, NEW parent \in Ids \cup {Null}
  PROVE  /\ Row(session, parent) \in Rows
         /\ Row(session, parent) # Null
         /\ Row(session, parent).session = session
         /\ Row(session, parent).parent = parent
         /\ ~Row(session, parent).revoked
         /\ Row(session, parent).rotatedAt = Null
         /\ Row(session, parent).replacedBy = Null
<1>1. Row(session, parent) \in Rows
  BY DEF Row, Rows, TypeOK
<1>2. QED
  BY <1>1, NullIsNoRow DEF Row

(* Numbers that rows mention have been issued. *)
LEMMA Issued ==
  ASSUME TypeOK, Family, NEW x \in Ids, Exists(x)
  PROVE  /\ x # New /\ tokens[x].session # New /\ tokens[x].parent # New
         /\ tokens[x].replacedBy # New
<1>1. tokens[x] \in Rows
  BY RowTypes
<1>2. QED
  BY <1>1, TokenConstants DEF Family, Lineage, New, Rows, Ids, TypeOK

(* A succession leaves the families as they should be. *)
LEMMA SuccessionFamily ==
  ASSUME TypeOK, TypeOK', Family, NEW t \in Ids, Succession(t)
  PROVE  Family'
<1> USE NullIsNoRow, TokenConstants
<1>1. \A x \in Ids : Exists(x) =>
        /\ x # New /\ tokens[x].session # New /\ tokens[x].parent # New
        /\ tokens[x].replacedBy # New
  BY Issued
<1>2. \A x \in Ids : Exists(x)' => tokens'[x] \in Rows
  BY DEF TypeOK, Exists
<1>3. t # New /\ Exists(t) /\ New \in Ids /\ minted' = New /\ minted \in Nat /\ New = minted + 1
  BY <1>1 DEF Succession, New, TypeOK
<1>4. Lineage'
  <2>1. (\A x \in Ids : Exists(x) =>
          /\ x <= minted /\ tokens[x].session <= minted
          /\ tokens[x].parent # Null => tokens[x].parent <= minted
          /\ tokens[x].replacedBy # Null => tokens[x].replacedBy <= minted
          /\ tokens[x].rotatedAt # Null => tokens[x].revoked)'
    <3> SUFFICES ASSUME NEW x \in Ids, Exists(x)'
                 PROVE  /\ x <= New /\ tokens'[x].session <= New
                        /\ tokens'[x].parent # Null => tokens'[x].parent <= New
                        /\ tokens'[x].replacedBy # Null => tokens'[x].replacedBy <= New
                        /\ tokens'[x].rotatedAt # Null => tokens'[x].revoked
      BY <1>3
    <3>1. \A y \in Ids : y <= minted => y <= New
      BY <1>3 DEF Ids
    <3>2. New <= New
      BY <1>3 DEF Ids
    <3>3. tokens[t] \in Rows /\ tokens[t].session \in Ids
      BY <1>3, RowTypes DEF Rows
    <3>4. CASE x = New
      <4>1. t <= New /\ tokens[t].session <= New
        BY <1>3, <3>1, <3>3 DEF Family, Lineage
      <4>2. QED
        BY <3>2, <3>4, <4>1 DEF Succession
    <3>5. CASE x # New
      <4>1. Exists(x) /\ tokens[x] \in Rows
        BY <3>5, RowTypes DEF Succession
      <4>2. tokens[x].session \in Ids /\ tokens[x].parent \in Ids \cup {Null}
            /\ tokens[x].replacedBy \in Ids \cup {Null}
        BY <4>1 DEF Rows
      <4>3. x <= New /\ tokens'[x].session <= New
            /\ (tokens'[x].parent # Null => tokens'[x].parent <= New)
        BY <3>1, <3>5, <4>1, <4>2 DEF Family, Lineage, Succession
      <4>4. CASE x = t
        BY <3>2, <3>5, <4>1, <4>3, <4>4 DEF Succession
      <4>5. CASE x # t
        BY <3>1, <3>5, <4>1, <4>2, <4>3, <4>5 DEF Family, Lineage, Succession
      <4>6. QED
        BY <4>4, <4>5
    <3>6. QED
      BY <3>4, <3>5
  <2>2. (\A c, u \in Ids : (Exists(c) /\ Exists(u) /\ tokens[c].parent = u) =>
          tokens[c].session = tokens[u].session /\ tokens[u].revoked)'
    <3> SUFFICES ASSUME NEW c \in Ids, NEW u \in Ids, Exists(c)', Exists(u)',
                        tokens'[c].parent = u
                 PROVE  tokens'[c].session = tokens'[u].session /\ tokens'[u].revoked
      OBVIOUS
    <3>1. CASE c = New
      BY <1>3, <3>1 DEF Succession
    <3>2. CASE c # New
      BY <1>1, <3>2 DEF Family, Lineage, Succession
    <3>3. QED
      BY <3>1, <3>2
  <2>3. (\A x, s \in Ids : (Exists(x) /\ Exists(s) /\ tokens[x].replacedBy = s) =>
          tokens[s].parent = x)'
    <3> SUFFICES ASSUME NEW x \in Ids, NEW s \in Ids, Exists(x)', Exists(s)',
                        tokens'[x].replacedBy = s
                 PROVE  tokens'[s].parent = x
      OBVIOUS
    <3>0. Null \notin Ids
      BY DEF Ids
    <3>1. CASE x = New
      BY <3>0, <3>1 DEF Succession
    <3>2. CASE x = t
      BY <1>3, <3>2 DEF Succession
    <3>3. CASE x # New /\ x # t
      BY <1>1, <3>3 DEF Family, Lineage, Succession
    <3>4. QED
      BY <3>1, <3>2, <3>3
  <2>4. (\A s, x \in Ids : Siblings(s, x) => tokens[s].session = tokens[x].session)'
    <3> SUFFICES ASSUME NEW s \in Ids, NEW x \in Ids, Exists(s)', Exists(x)', s # x,
                        tokens'[s].parent = tokens'[x].parent, tokens'[s].parent # Null
                 PROVE  tokens'[s].session = tokens'[x].session
      BY DEF Siblings
    <3>1. \A c \in Ids : (Exists(c) /\ tokens[c].parent = t) =>
             tokens[c].session = tokens[t].session
      BY <1>3 DEF Family, Lineage
    <3>2. CASE s = New
      BY <3>1, <3>2 DEF Succession
    <3>3. CASE x = New
      BY <3>1, <3>3 DEF Succession
    <3>4. CASE s # New /\ x # New
      BY <3>4 DEF Family, Lineage, Siblings, Succession
    <3>5. QED
      BY <3>2, <3>3, <3>4
  <2>5. QED
    BY <2>1, <2>2, <2>3, <2>4 DEF Lineage
<1>5. OneUsableToken'
  <2> SUFFICES ASSUME NEW s \in Ids, NEW x \in Ids, Usable(s)', Usable(x)',
                      tokens'[s].session = tokens'[x].session
               PROVE  s = x
    BY DEF OneUsableToken
  <2>1. CASE s = New
    BY <2>1 DEF Succession, Usable
  <2>2. CASE x = New
    BY <2>2 DEF Succession, Usable
  <2>3. CASE s # New /\ x # New
    BY <2>3 DEF Succession, Usable, Family, OneUsableToken
  <2>4. QED
    BY <2>1, <2>2, <2>3
<1>6. NeverForks'
  <2> SUFFICES ASSUME NEW s \in Ids, NEW x \in Ids, Exists(s)', Exists(x)', s # x,
                      tokens'[s].parent = tokens'[x].parent, tokens'[s].parent # Null,
                      tokens'[s].rotatedAt # Null
               PROVE  tokens'[x].revoked /\ tokens'[x].rotatedAt = Null
    BY DEF NeverForks, Siblings
  <2>1. s # New
    BY DEF Succession
  <2>2. x # New
    BY <2>1 DEF Succession
  <2>3. Siblings(s, x) /\ Siblings(x, s)
    BY <2>1, <2>2 DEF Siblings, Succession
  <2>4. CASE s = t
    BY <2>2, <2>3, <2>4 DEF Succession
  <2>5. CASE x = t
    BY <2>1, <2>2, <2>3, <2>5 DEF Succession, Family, NeverForks
  <2>6. CASE s # t /\ x # t
    BY <2>1, <2>2, <2>3, <2>6 DEF Succession, Family, NeverForks
  <2>7. QED
    BY <2>4, <2>5, <2>6
<1>7. QED
  BY <1>4, <1>5, <1>6 DEF Family

(* A rotation is a succession: the token it spends is usable, so it has no child
   yet and none of its siblings was spent. *)
LEMMA RotateFamily ==
  ASSUME TypeOK, TypeOK', Family, Held, NEW r \in Requests, Rotate(r)
  PROVE  Family' /\ Replaces(req[r].token)
<1> USE NullIsNoRow, TokenConstants
<1> DEFINE t == req[r].token
<1>1. /\ t \in Ids /\ Usable(t) /\ Exists(t) /\ New \in Ids /\ minted' = New
      /\ req[r].at \in Time /\ tokens[t] \in Rows
  BY RowTypes DEF Rotate, Issue, New, Ids, Held, TypeOK, Usable
<1>2. t # New
  BY <1>1, Issued
<1>3. /\ tokens'[New] = Row(tokens[t].session, t)
      /\ tokens'[t] = [tokens[t] EXCEPT !.revoked = TRUE, !.rotatedAt = req[r].at,
                                        !.replacedBy = New]
      /\ \A x \in Ids \ {t, New} : tokens'[x] = tokens[x]
  <2> DEFINE spent == [tokens EXCEPT ![t].revoked = TRUE, ![t].rotatedAt = req[r].at,
                                     ![t].replacedBy = New]
  <2>1. /\ DOMAIN spent = Ids
        /\ spent[t] = [tokens[t] EXCEPT !.revoked = TRUE, !.rotatedAt = req[r].at,
                                        !.replacedBy = New]
        /\ \A x \in Ids \ {t} : spent[x] = tokens[x]
    BY <1>1 DEF TypeOK
  <2>2. tokens' = [spent EXCEPT ![New] = Row(tokens[t].session, t)]
    BY DEF Rotate, Issue
  <2> HIDE DEF spent
  <2>3. QED
    BY <1>1, <1>2, <2>1, <2>2
<1>4. /\ tokens'[New].session = tokens[t].session /\ tokens'[New].parent = t
      /\ tokens'[New].rotatedAt = Null /\ tokens'[New].replacedBy = Null /\ tokens'[New] # Null
  <2>1. tokens[t].session \in Ids
    BY <1>1 DEF Rows
  <2> DEFINE row == Row(tokens[t].session, t)
  <2>2. /\ row # Null /\ row.session = tokens[t].session /\ row.parent = t
        /\ row.rotatedAt = Null /\ row.replacedBy = Null
    BY <1>1, <2>1, RowFields
  <2>3. QED
    BY <1>3, <2>2 DEF Exists
<1>5. /\ tokens'[t].session = tokens[t].session /\ tokens'[t].parent = tokens[t].parent
      /\ tokens'[t].revoked = TRUE /\ tokens'[t].replacedBy = New
  BY <1>1, <1>3 DEF Rows
<1>6. ~\E c \in Ids : Exists(c) /\ tokens[c].parent = t
  BY <1>1 DEF Family, Lineage, Usable
<1>7. \A s \in Ids : Siblings(s, t) => tokens[s].revoked /\ tokens[s].rotatedAt = Null
  BY <1>1 DEF Family, Lineage, OneUsableToken, NeverForks, Siblings, Usable
<1>8. ASSUME NEW x \in Ids \ {New}, Exists(x)'
      PROVE  /\ Exists(x)
             /\ tokens'[x].session = tokens[x].session /\ tokens'[x].parent = tokens[x].parent
             /\ tokens[x].revoked => tokens'[x].revoked
             /\ x # t => tokens'[x].replacedBy = tokens[x].replacedBy
                        /\ tokens'[x].rotatedAt = tokens[x].rotatedAt
             /\ tokens[x].session = tokens[t].session => tokens'[x].revoked
             /\ tokens[x].parent = t => tokens'[x].rotatedAt = Null
  <2>1. CASE x = t
    BY <1>1, <1>5, <1>6, <2>1
  <2>2. CASE x # t
    <3>1. tokens'[x] = tokens[x] /\ Exists(x)
      BY <1>3, <1>8, <2>2 DEF Exists
    <3>2. QED
      BY <1>1, <1>6, <2>2, <3>1 DEF Family, OneUsableToken, Usable
  <2>3. QED
    BY <2>1, <2>2
<1>9. Succession(t)
  BY <1>1, <1>4, <1>5, <1>7, <1>8 DEF Succession
<1>10. Replaces(t)
  <2>1. ~tokens'[New].revoked
    <3>1. tokens[t].session \in Ids
      BY <1>1 DEF Rows
    <3>2. ~Row(tokens[t].session, t).revoked
      BY <1>1, <3>1, RowFields
    <3>3. QED
      BY <1>3, <3>2
  <2>2. ASSUME NEW x \in Ids \ {New}
        PROVE  /\ Usable(x)' <=> (Usable(x) /\ x # t)
               /\ Usable(x)' => tokens'[x].session = tokens[x].session
    BY <1>3, <1>5 DEF Usable, Exists
  <2>3. QED
    BY <1>1, <1>4, <2>1, <2>2 DEF Replaces
<1>11. QED
  BY <1>1, <1>9, <1>10, SuccessionFamily

(* So is a retry within the grace window: the successor it replaces is usable, so
   no token issued in the place of its parent was ever spent. *)
LEMMA RelinkFamily ==
  ASSUME TypeOK, TypeOK', Family, Held, Remembered, NEW r \in Requests, Relink(r),
         Exists(req[r].token)
  PROVE  Family' /\ Replaces(req[r].succ)
<1> USE NullIsNoRow, TokenConstants
<1> DEFINE t == req[r].token
           o == req[r].succ
<1>1. /\ t \in Ids /\ o \in Ids /\ Usable(o) /\ Exists(o) /\ Exists(t)
      /\ New \in Ids /\ minted' = New /\ tokens[t] \in Rows /\ tokens[o] \in Rows
  BY RowTypes DEF Relink, Issue, New, Ids, Held, TypeOK, Usable
<1>2. t # New /\ o # New
  BY <1>1, Issued
<1>3. /\ tokens[o].parent = t /\ tokens[o].session = tokens[t].session
      /\ tokens[t].revoked /\ ~tokens[o].revoked /\ t # o
  BY <1>1, SMTT(30) DEF Relink, Remembered, Family, Lineage, Usable
<1>4. /\ tokens'[New] = Row(tokens[t].session, t)
      /\ tokens'[t] = [tokens[t] EXCEPT !.replacedBy = New]
      /\ tokens'[o] = [tokens[o] EXCEPT !.revoked = TRUE]
      /\ \A x \in Ids \ {t, o, New} : tokens'[x] = tokens[x]
  BY <1>1, <1>2, <1>3 DEF Relink, Issue, TypeOK
<1>5. /\ tokens'[New].session = tokens[t].session /\ tokens'[New].parent = t
      /\ tokens'[New].rotatedAt = Null /\ tokens'[New].replacedBy = Null /\ tokens'[New] # Null
  <2>1. tokens[t].session \in Ids
    BY <1>1 DEF Rows
  <2> DEFINE row == Row(tokens[t].session, t)
  <2>2. /\ row # Null /\ row.session = tokens[t].session /\ row.parent = t
        /\ row.rotatedAt = Null /\ row.replacedBy = Null
    BY <1>1, <2>1, RowFields
  <2>3. QED
    BY <1>4, <2>2 DEF Exists
<1>6. /\ tokens'[t].session = tokens[t].session /\ tokens'[t].parent = tokens[t].parent
      /\ tokens'[t].revoked = tokens[t].revoked /\ tokens'[t].rotatedAt = tokens[t].rotatedAt
      /\ tokens'[t].replacedBy = New
  BY <1>1, <1>4 DEF Rows
<1>7. /\ tokens'[o].session = tokens[o].session /\ tokens'[o].parent = tokens[o].parent
      /\ tokens'[o].revoked = TRUE /\ tokens'[o].rotatedAt = tokens[o].rotatedAt
      /\ tokens'[o].replacedBy = tokens[o].replacedBy
  BY <1>1, <1>4 DEF Rows
<1>8. \A c \in Ids : (Exists(c) /\ tokens[c].parent = t) => tokens[c].rotatedAt = Null
  <2> SUFFICES ASSUME NEW c \in Ids, Exists(c), tokens[c].parent = t
               PROVE  tokens[c].rotatedAt = Null
    OBVIOUS
  <2>0. Null \notin Ids
    BY DEF Ids
  <2>1. CASE c = o
    BY <1>1, <1>3, <2>1 DEF Family, Lineage
  <2>2. CASE c # o
    BY <1>1, <1>3, <2>0, <2>2 DEF Family, NeverForks, Siblings
  <2>3. QED
    BY <2>1, <2>2
<1>9. ASSUME NEW x \in Ids \ {New}, Exists(x)'
      PROVE  /\ Exists(x)
             /\ tokens'[x].session = tokens[x].session /\ tokens'[x].parent = tokens[x].parent
             /\ tokens[x].revoked => tokens'[x].revoked
             /\ tokens'[x].rotatedAt = tokens[x].rotatedAt
             /\ x # t => tokens'[x].replacedBy = tokens[x].replacedBy
             /\ tokens[x].session = tokens[t].session => tokens'[x].revoked
  <2>1. CASE x = t
    BY <1>1, <1>3, <1>6, <2>1
  <2>2. CASE x = o
    BY <1>1, <1>7, <2>2
  <2>3. CASE x # t /\ x # o
    <3>1. tokens'[x] = tokens[x] /\ Exists(x)
      BY <1>4, <1>9, <2>3 DEF Exists
    <3>2. QED
      BY <1>1, <1>3, <2>3, <3>1 DEF Family, OneUsableToken, Usable
  <2>4. QED
    BY <2>1, <2>2, <2>3
<1>10. tokens[t].rotatedAt # Null =>
         \A s \in Ids : Siblings(s, t) => tokens[s].revoked /\ tokens[s].rotatedAt = Null
  BY <1>1 DEF Family, NeverForks, Siblings
<1>11. Succession(t)
  BY <1>1, <1>5, <1>6, <1>8, <1>9, <1>10 DEF Succession
<1>12. Replaces(o)
  <2>1. ~tokens'[New].revoked
    <3>1. tokens[t].session \in Ids
      BY <1>1 DEF Rows
    <3>2. ~Row(tokens[t].session, t).revoked
      BY <1>1, <3>1, RowFields
    <3>3. QED
      BY <1>4, <3>2
  <2>2. ASSUME NEW x \in Ids \ {New}
        PROVE  /\ Usable(x)' <=> (Usable(x) /\ x # o)
               /\ Usable(x)' => tokens'[x].session = tokens[x].session
    BY <1>3, <1>4, <1>6, <1>7 DEF Usable, Exists
  <2>3. QED
    BY <1>1, <1>3, <1>5, <2>1, <2>2 DEF Replaces
<1>13. QED
  BY <1>1, <1>11, <1>12, SuccessionFamily

(* A sign-in starts a family of its own. *)
LEMMA MintFamily ==
  ASSUME TypeOK, TypeOK', Family, NEW r \in Requests, Mint(r)
  PROVE  Family'
<1> USE NullIsNoRow, TokenConstants
<1>1. New \in Ids /\ minted' = New /\ minted \in Nat /\ New = minted + 1
  BY DEF Mint, Issue, New, Ids, TypeOK
<1>2. /\ tokens'[New] = Row(New, Null)
      /\ \A x \in Ids \ {New} : tokens'[x] = tokens[x]
  BY <1>1 DEF Mint, Issue, TypeOK
<1>3. /\ tokens'[New].session = New /\ tokens'[New].parent = Null
      /\ tokens'[New].rotatedAt = Null /\ tokens'[New].replacedBy = Null
  BY <1>1, <1>2, RowFields
<1>4. \A x \in Ids : Exists(x) =>
        /\ x # New /\ tokens[x].session # New /\ tokens[x].parent # New
        /\ tokens[x].replacedBy # New
  BY Issued
<1>5. \A x \in Ids : (Exists(x)' /\ x # New) => Exists(x) /\ tokens'[x] = tokens[x]
  BY <1>2 DEF Exists
<1>6. Null \notin Ids
  BY DEF Ids
<1>7. Lineage'
  <2>1. (\A x \in Ids : Exists(x) =>
          /\ x <= minted /\ tokens[x].session <= minted
          /\ tokens[x].parent # Null => tokens[x].parent <= minted
          /\ tokens[x].replacedBy # Null => tokens[x].replacedBy <= minted
          /\ tokens[x].rotatedAt # Null => tokens[x].revoked)'
    <3> SUFFICES ASSUME NEW x \in Ids, Exists(x)'
                 PROVE  /\ x <= New /\ tokens'[x].session <= New
                        /\ tokens'[x].parent # Null => tokens'[x].parent <= New
                        /\ tokens'[x].replacedBy # Null => tokens'[x].replacedBy <= New
                        /\ tokens'[x].rotatedAt # Null => tokens'[x].revoked
      BY <1>1
    <3>1. \A y \in Ids : y <= minted => y <= New
      BY <1>1 DEF Ids
    <3>2. CASE x = New
      BY <1>1, <1>3, <3>2 DEF Ids
    <3>3. CASE x # New
      <4>1. Exists(x) /\ tokens'[x] = tokens[x] /\ tokens[x] \in Rows
        BY <1>5, <3>3, RowTypes
      <4>2. tokens[x].session \in Ids /\ tokens[x].parent \in Ids \cup {Null}
            /\ tokens[x].replacedBy \in Ids \cup {Null}
        BY <4>1 DEF Rows
      <4>3. QED
        BY <3>1, <4>1, <4>2 DEF Family, Lineage
    <3>4. QED
      BY <3>2, <3>3
  <2>2. (\A c, u \in Ids : (Exists(c) /\ Exists(u) /\ tokens[c].parent = u) =>
          tokens[c].session = tokens[u].session /\ tokens[u].revoked)'
    BY <1>3, <1>4, <1>5, <1>6 DEF Family, Lineage
  <2>3. (\A x, s \in Ids : (Exists(x) /\ Exists(s) /\ tokens[x].replacedBy = s) =>
          tokens[s].parent = x)'
    BY <1>3, <1>4, <1>5, <1>6 DEF Family, Lineage
  <2>4. (\A s, x \in Ids : Siblings(s, x) => tokens[s].session = tokens[x].session)'
    BY <1>3, <1>4, <1>5, <1>6 DEF Family, Lineage, Siblings
  <2>5. QED
    BY <2>1, <2>2, <2>3, <2>4 DEF Lineage
<1>8. OneUsableToken'
  BY <1>3, <1>4, <1>5 DEF Family, OneUsableToken, Usable
<1>9. NeverForks'
  BY <1>3, <1>4, <1>5 DEF Family, NeverForks, Siblings
<1>10. QED
  BY <1>7, <1>8, <1>9 DEF Family

----------------------------------------------------------------------------
(* Every other step leaves the rows alone, revokes some or deletes some. *)
LEMMA OtherSteps ==
  ASSUME TypeOK, [Next]_vars,
         \A r \in Requests : ~Mint(r) /\ ~Rotate(r) /\ ~(Relink(r) /\ Exists(req[r].token))
  PROVE  Weakens
<1> USE NullIsNoRow
<1>0. ASSUME UNCHANGED <<tokens, minted>> PROVE Weakens
  BY <1>0 DEF Weakens, Weaker, Exists
<1>1. ASSUME NEW r \in Requests, Login(r) \/ Claim(r) \/ GraceRead(r) \/ Drop(r)
                \/ Relink(r) \/ ChangePassword(r) \/ UpdateUser(r) \/ LockRow(r) \/ Crash(r)
                \/ RotatePassword(r) \/ SetPassword(r) \/ FindSessions(r) \/ FindDead(r)
      PROVE  Weakens
  BY <1>0, <1>1 DEF Login, Claim, GraceRead, Drop, Relink, ChangePassword, UpdateUser,
     LockRow, Crash, RotatePassword, SetPassword, FindSessions, FindDead
<1>2. ASSUME NEW r \in Requests, NEW t \in Ids, Refresh(r, t) PROVE Weakens
  BY <1>0, <1>2 DEF Refresh
<1>3. ASSUME NEW r \in Requests, NEW t \in Ids, Logout(r, t) PROVE Weakens
  <2>1. tokens'[t] = [tokens[t] EXCEPT !.revoked = TRUE] /\ Exists(t)
    BY <1>3 DEF Logout, TypeOK
  <2>2. \A x \in Ids \ {t} : tokens'[x] = tokens[x]
    BY <1>3 DEF Logout, TypeOK
  <2>3. QED
    BY <1>3, <2>1, <2>2 DEF Logout, Weakens, Weaker, Exists
<1>4. ASSUME NEW r \in Requests, CommitPrune(r) PROVE Weakens
  BY <1>4 DEF CommitPrune, Weakens, Weaker, Exists
<1>5. ASSUME NEW r \in Requests, CommitPassword(r) \/ EndSessions(r) PROVE Weakens
  BY <1>5 DEF CommitPassword, EndSessions, Revoked, Weakens, Weaker, Exists
<1>6. CASE Tick \/ UNCHANGED vars
  BY <1>0, <1>6 DEF Tick, vars
<1>7. QED
  BY <1>1, <1>2, <1>3, <1>4, <1>5, <1>6 DEF Next, Start, Continue

(* Every step keeps the families as they should be. *)
LEMMA FamilyStep == IInv /\ TypeOK' /\ [Next]_vars => Family'
<1> SUFFICES ASSUME IInv, TypeOK', [Next]_vars PROVE Family'
  OBVIOUS
<1>1. ASSUME NEW r \in Requests, Mint(r) PROVE Family'
  BY <1>1, MintFamily DEF IInv
<1>2. ASSUME NEW r \in Requests, Rotate(r) PROVE Family'
  BY <1>2, RotateFamily DEF IInv
<1>3. ASSUME NEW r \in Requests, Relink(r), Exists(req[r].token) PROVE Family'
  BY <1>3, RelinkFamily DEF IInv
<1>4. CASE \A r \in Requests : ~Mint(r) /\ ~Rotate(r) /\ ~(Relink(r) /\ Exists(req[r].token))
  BY <1>4, OtherSteps, WeakensFamily DEF IInv
<1>5. QED
  BY <1>1, <1>2, <1>3, <1>4

(* What a step does to the requests: the one that acts moves on, and a retry
   takes its successor from the row it read. *)
LEMMA RequestStep ==
  ASSUME TypeOK, [Next]_vars, NEW q \in Requests, req'[q].pc \in {"drop", "relink"}
  PROVE  \/ /\ req[q].pc \in {"drop", "relink"}
            /\ req'[q].succ = req[q].succ /\ req'[q].token = req[q].token
         \/ /\ GraceRead(q) /\ Exists(req[q].token)
            /\ req'[q].token = req[q].token
            /\ req'[q].succ = tokens[req[q].token].replacedBy
<1>0. req[q] \in RequestStates
  BY DEF TypeOK
<1>1. ASSUME NEW r \in Requests, r # q, Start(r) \/ Continue(r) \/ Crash(r)
      PROVE  req'[q] = req[q]
  BY <1>1 DEF Start, Continue, Login, Mint, Refresh, Claim, Rotate, GraceRead, Drop, Relink,
     Logout, FindDead, CommitPrune, ChangePassword, UpdateUser, LockRow, CommitPassword, RotatePassword, SetPassword,
     FindSessions, EndSessions, Crash, Goto, End, TypeOK
<1>g. ASSUME NEW state, Goto(q, state) PROVE req'[q] = state
  BY <1>g DEF Goto, TypeOK
<1>i. ~End(q)
  BY <1>g DEF End, Idle
<1>2. CASE Start(q)
  <2>1. CASE Login(q) \/ \E t \in Ids : Refresh(q, t)
    BY <2>1, <1>g DEF Login, Refresh, Idle
  <2>2. CASE ChangePassword(q) \/ RotatePassword(q) \/ \E t \in Ids : Logout(q, t)
    BY <2>2, <1>g DEF ChangePassword, RotatePassword, Logout, Idle
  <2>3. QED
    BY <1>2, <2>1, <2>2 DEF Start
<1>3. CASE \/ Mint(q) \/ Rotate(q) \/ Relink(q) \/ CommitPrune(q) \/ Crash(q) \/ CommitPassword(q)
           \/ SetPassword(q) \/ EndSessions(q)
  BY <1>3, <1>g, <1>i DEF Mint, Rotate, Relink, CommitPrune, Crash, CommitPassword, SetPassword, EndSessions, Idle
<1>4. CASE Claim(q) \/ UpdateUser(q) \/ FindSessions(q) \/ FindDead(q) \/ LockRow(q)
  <2>1. ASSUME Goto(q, [req[q] EXCEPT !.pc = "rotate", !.at = now]) PROVE FALSE
    BY <1>0, <1>g, <2>1 DEF RequestStates
  <2>2. ASSUME Goto(q, [req[q] EXCEPT !.pc = "grace"]) PROVE FALSE
    BY <1>0, <1>g, <2>2 DEF RequestStates
  <2>3. ASSUME NEW pc \in {"revoke", "end", "delete"}, NEW rows,
               Goto(q, [req[q] EXCEPT !.pc = pc, !.rows = rows])
        PROVE  FALSE
    BY <1>0, <1>g, <2>3 DEF RequestStates
  <2>4. ASSUME NEW rows, LocksMany(q), Goto(q, [req[q] EXCEPT !.rows = rows]) PROVE FALSE
    BY <1>0, <1>g, <2>4 DEF RequestStates, LocksMany
  <2>5. CASE Claim(q)
    BY <2>1, <2>2, <2>5 DEF Claim
  <2>6. CASE UpdateUser(q) \/ FindSessions(q) \/ FindDead(q)
    BY <2>3, <2>6 DEF UpdateUser, FindSessions, FindDead
  <2>7. CASE LockRow(q)
    BY <2>4, <2>7 DEF LockRow
  <2>8. QED
    BY <1>4, <2>5, <2>6, <2>7
<1>5. CASE GraceRead(q)
  <2>1. /\ Exists(req[q].token)
        /\ Goto(q, [req[q] EXCEPT !.pc = "drop", !.succ = tokens[req[q].token].replacedBy])
    BY <1>5, <1>i DEF GraceRead
  <2>2. req'[q] = [req[q] EXCEPT !.pc = "drop", !.succ = tokens[req[q].token].replacedBy]
    BY <2>1, <1>g
  <2>3. QED
    BY <1>0, <1>5, <2>1, <2>2 DEF RequestStates
<1>6. CASE Drop(q)
  <2>1. req[q].pc = "drop" /\ Goto(q, [req[q] EXCEPT !.pc = "relink"])
    BY <1>6, <1>i DEF Drop
  <2>2. req'[q] = [req[q] EXCEPT !.pc = "relink"]
    BY <2>1, <1>g
  <2>3. QED
    BY <1>0, <2>1, <2>2 DEF RequestStates
<1>7. CASE Tick \/ UNCHANGED vars
  BY <1>7 DEF Tick, vars
<1>8. QED
  BY <1>1, <1>2, <1>3, <1>4, <1>5, <1>6, <1>7 DEF Next, Continue

(* What retries remember stays true: tokens are numbered once, and the row that is
   issued in the meantime is not the successor they read. *)
LEMMA RememberedStep == IInv /\ TypeOK' /\ Family' /\ [Next]_vars => Remembered'
<1> SUFFICES ASSUME IInv, TypeOK', Family', [Next]_vars,
                    NEW q \in Requests, req'[q].pc \in {"drop", "relink"}
             PROVE  /\ req'[q].succ <= minted'
                    /\ tokens'[req'[q].succ] # Null =>
                         tokens'[req'[q].succ].parent = req'[q].token
  BY DEF Remembered, Exists
<1> USE NullIsNoRow, TokenConstants
<1> DEFINE o == req'[q].succ
<1>t. TypeOK /\ Family /\ Held /\ Remembered
  BY DEF IInv
<1>0. o \in Ids /\ minted \in Nat
  BY <1>t DEF TypeOK
<1>1. \/ /\ req[q].pc \in {"drop", "relink"}
         /\ req'[q].succ = req[q].succ /\ req'[q].token = req[q].token
      \/ /\ GraceRead(q) /\ Exists(req[q].token)
         /\ req'[q].token = req[q].token
         /\ req'[q].succ = tokens[req[q].token].replacedBy
  BY <1>t, RequestStep
<1>2. o <= minted /\ (Exists(o) => tokens[o].parent = req'[q].token)
  <2>1. CASE req[q].pc \in {"drop", "relink"} /\ req'[q].succ = req[q].succ
             /\ req'[q].token = req[q].token
    BY <1>t, <2>1 DEF Remembered
  <2>2. CASE /\ GraceRead(q) /\ Exists(req[q].token)
             /\ req'[q].token = req[q].token
             /\ req'[q].succ = tokens[req[q].token].replacedBy
    <3>1. req[q].token \in Ids
      BY <1>t, <2>2 DEF GraceRead, TypeOK
    <3>2. o # Null
      BY <1>0 DEF Ids
    <3>3. QED
      BY <1>0, <1>t, <2>2, <3>1, <3>2 DEF Family, Lineage
  <2>3. QED
    BY <1>1, <2>1, <2>2
<1>3. CASE \A r \in Requests : ~Mint(r) /\ ~Rotate(r) /\ ~(Relink(r) /\ Exists(req[r].token))
  <2>1. Weakens
    BY <1>3, <1>t, OtherSteps
  <2>2. Weaker(o) /\ minted' = minted
    BY <1>0, <2>1 DEF Weakens
  <2>3. Exists(o) => tokens[o] \in Rows
    BY <1>0, <1>t, RowTypes
  <2>4. QED
    BY <1>2, <2>2, <2>3 DEF Weaker, Exists, Rows
<1>4. ASSUME NEW r \in Requests,
             Mint(r) \/ Rotate(r) \/ (Relink(r) /\ Exists(req[r].token))
      PROVE  /\ o <= minted'
             /\ tokens'[o] # Null => tokens'[o].parent = req'[q].token
  <2>1. minted' = minted + 1 /\ New = minted + 1 /\ New \in Ids
    BY <1>4, <1>t, SMTT(30) DEF Mint, Rotate, Relink, Issue, New, Ids, TypeOK
  <2>2. o # New /\ o <= minted'
    BY <1>0, <1>2, <2>1 DEF Ids
  <2>3. Exists(o) => tokens[o] \in Rows
    BY <1>0, <1>t, RowTypes
  <2>4. tokens'[o] # Null => Exists(o) /\ tokens'[o].parent = tokens[o].parent
    <3>1. CASE Mint(r)
      BY <1>0, <1>t, <2>2, <3>1 DEF Mint, Issue, TypeOK, Exists
    <3>2. CASE Rotate(r)
      <4> DEFINE t == req[r].token
                 spent == [tokens EXCEPT ![t].revoked = TRUE, ![t].rotatedAt = req[r].at,
                                         ![t].replacedBy = New]
      <4>1. t \in Ids /\ Exists(t) /\ tokens[t] \in Rows
        BY <3>2, <1>t, RowTypes DEF Rotate, Held, TypeOK, Usable
      <4>2. DOMAIN spent = Ids /\ (spent[o] # Null => Exists(o) /\ spent[o].parent = tokens[o].parent)
        BY <1>0, <1>t, <4>1 DEF TypeOK, Exists, Rows
      <4>3. tokens' = [spent EXCEPT ![New] = Row(tokens[t].session, t)]
        BY <3>2 DEF Rotate, Issue
      <4> HIDE DEF spent
      <4>4. QED
        BY <1>0, <2>2, <4>2, <4>3
    <3>3. CASE Relink(r) /\ Exists(req[r].token)
      <4> DEFINE t == req[r].token
                 dropped == [tokens EXCEPT ![req[r].succ].revoked = TRUE, ![t].replacedBy = New]
      <4>1. t \in Ids /\ req[r].succ \in Ids /\ Exists(t) /\ tokens[t] \in Rows
            /\ Exists(req[r].succ) /\ tokens[req[r].succ] \in Rows
        BY <3>3, <1>t, RowTypes DEF Relink, Held, TypeOK, Usable
      <4>2. DOMAIN dropped = Ids
            /\ (dropped[o] # Null => Exists(o) /\ dropped[o].parent = tokens[o].parent)
        BY <1>0, <1>t, <4>1 DEF TypeOK, Exists, Rows
      <4>3. tokens' = [dropped EXCEPT ![New] = Row(tokens[t].session, t)]
        BY <3>3 DEF Relink, Issue
      <4> HIDE DEF dropped
      <4>4. QED
        BY <1>0, <2>2, <4>2, <4>3
    <3>4. QED
      BY <1>4, <3>1, <3>2, <3>3
  <2>5. QED
    BY <1>2, <2>2, <2>4
<1>5. QED
  BY <1>3, <1>4

(* Another request leaves a usable row that this one has locked as it is. *)
LEMMA LockKept ==
  ASSUME IInv, NEW q \in Requests, NEW x \in Ids, lock[x] = q, Usable(x),
         NEW r \in Requests \ {q}, Start(r) \/ Continue(r) \/ Crash(r)
  PROVE  lock'[x] = q /\ Usable(x)'
<1> USE NullIsNoRow, TokenConstants
<1>t. TypeOK /\ Family /\ Held
  BY DEF IInv
<1>1. ~Free(x) /\ Exists(x) /\ x # New
  BY <1>t, Issued DEF Free, Usable
<1>u. ASSUME Unlock(r) PROVE lock'[x] = q
  BY <1>u, <1>t DEF Unlock, TypeOK
<1>k. ASSUME NEW y \in Ids, Free(y), lock' = [lock EXCEPT ![y] = r] PROVE lock'[x] = q
  BY <1>k, <1>t, <1>1 DEF TypeOK, Free
<1>2. CASE \/ Login(r) \/ ChangePassword(r) \/ (\E t \in Ids : Refresh(r, t)) \/ GraceRead(r) \/ UpdateUser(r)
           \/ RotatePassword(r) \/ SetPassword(r) \/ FindSessions(r) \/ FindDead(r)
  BY <1>2 DEF Login, ChangePassword, Refresh, GraceRead, UpdateUser, RotatePassword, SetPassword, FindSessions,
              FindDead, Usable, Exists
<1>3. CASE Claim(r) \/ Drop(r) \/ LockRow(r)
  <2>1. UNCHANGED tokens
    BY <1>3 DEF Claim, Drop, LockRow
  <2>2. lock'[x] = q
    <3>1. CASE Claim(r)
      BY <3>1, <1>k, <1>t DEF Claim, TypeOK
    <3>2. CASE Drop(r)
      BY <3>2, <1>k, <1>t DEF Drop, TypeOK
    <3>3. CASE LockRow(r)
      <4>1. PICK y \in req[r].rows :
              Free(y) /\ lock' = IF Exists(y) THEN [lock EXCEPT ![y] = r] ELSE lock
        BY <3>3 DEF LockRow
      <4>2. y \in Ids
        BY <1>t DEF TypeOK, RequestStates
      <4>3. QED
        BY <1>k, <4>1, <4>2
    <3>4. QED
      BY <1>3, <3>1, <3>2, <3>3
  <2>3. QED
    BY <2>1, <2>2 DEF Usable, Exists
<1>4. CASE Mint(r)
  BY <1>4, <1>t, <1>1 DEF Mint, Issue, TypeOK, Usable, Exists
<1>5. CASE Rotate(r)
  <2> DEFINE t == req[r].token
             spent == [tokens EXCEPT ![t].revoked = TRUE, ![t].rotatedAt = req[r].at,
                                     ![t].replacedBy = New]
  <2>1. t \in Ids /\ lock[t] = r /\ x # t
    BY <1>5, <1>t DEF Rotate, Held, TypeOK
  <2>2. DOMAIN spent = Ids /\ spent[x] = tokens[x]
    BY <1>t, <2>1 DEF TypeOK
  <2>3. tokens' = [spent EXCEPT ![New] = Row(tokens[t].session, t)]
    BY <1>5 DEF Rotate, Issue
  <2> HIDE DEF spent
  <2>4. tokens'[x] = tokens[x]
    BY <1>1, <2>2, <2>3
  <2>5. QED
    BY <1>5, <1>u, <2>4 DEF Rotate, Usable, Exists
<1>6. CASE Relink(r)
  <2> DEFINE t == req[r].token
             dropped == [tokens EXCEPT ![req[r].succ].revoked = TRUE, ![t].replacedBy = New]
  <2>1. t \in Ids /\ Free(t) /\ req[r].succ \in Ids /\ x # t /\ x # req[r].succ
    BY <1>6, <1>t, <1>1 DEF Relink, Held, TypeOK
  <2>2. DOMAIN dropped = Ids /\ dropped[x] = tokens[x]
    BY <1>t, <2>1 DEF TypeOK
  <2>3. \/ tokens' = tokens
        \/ tokens' = [dropped EXCEPT ![New] = Row(tokens[t].session, t)]
    BY <1>6 DEF Relink, Issue
  <2> HIDE DEF dropped
  <2>4. tokens'[x] = tokens[x]
    BY <1>1, <2>2, <2>3
  <2>5. QED
    BY <1>6, <1>u, <2>4 DEF Relink, Usable, Exists
<1>7. CASE \E t \in Ids : Logout(r, t)
  BY <1>7, <1>1, <1>t DEF Logout, TypeOK, Usable, Exists
<1>8. CASE CommitPrune(r)
  BY <1>8, <1>u DEF CommitPrune, Usable, Exists
<1>9. CASE CommitPassword(r) \/ EndSessions(r)
  <2>1. tokens'[x] = tokens[x]
    BY <1>9 DEF CommitPassword, EndSessions, Revoked
  <2>2. QED
    BY <1>9, <1>u, <2>1 DEF CommitPassword, EndSessions, Usable, Exists
<1>10. CASE Crash(r)
  BY <1>10, <1>u DEF Crash, Usable, Exists
<1>11. QED
  BY <1>2, <1>3, <1>4, <1>5, <1>6, <1>7, <1>8, <1>9, <1>10 DEF Start, Continue

(* A request is about to spend a row: it has just locked it, having found it
   usable. *)
LEMMA Locks ==
  ASSUME TypeOK, NEW q \in Requests, Start(q) \/ Continue(q) \/ Crash(q)
  PROVE  /\ req'[q].pc = "rotate" => lock'[req'[q].token] = q /\ Usable(req[q].token)'
         /\ req'[q].pc = "relink" => lock'[req'[q].succ] = q /\ Usable(req[q].succ)'
<1>0. req[q] \in RequestStates
  BY DEF TypeOK
<1>g. ASSUME NEW state, Goto(q, state) PROVE req'[q] = state
  BY <1>g DEF Goto, TypeOK
<1>i. End(q) => req'[q].pc = "idle"
  BY <1>g DEF End, Idle
<1>1. CASE Start(q) \/ CommitPassword(q) \/ SetPassword(q)
  <2>1. req'[q].pc \in {"mint", "grace", "claim", "user", "prune", "set", "find"}
    BY <1>1, <1>g, ZenonT(40) DEF Start, Login, Refresh, ChangePassword, RotatePassword, Logout, CommitPassword, SetPassword, Idle
  <2>2. QED
    BY <2>1
<1>2. CASE Mint(q) \/ Rotate(q) \/ Relink(q) \/ CommitPrune(q) \/ Crash(q) \/ EndSessions(q)
  BY <1>2, <1>i DEF Mint, Rotate, Relink, CommitPrune, Crash, EndSessions
<1>3. CASE Claim(q)
  <2> DEFINE t == req[q].token
  <2>1. CASE Usable(t)
    <3>1. req'[q] = [req[q] EXCEPT !.pc = "rotate", !.at = now]
      BY <1>3, <1>g, <2>1 DEF Claim
    <3>2. req'[q].pc = "rotate" /\ req'[q].token = t
      BY <1>0, <3>1 DEF RequestStates
    <3>3. t \in Ids /\ lock' = [lock EXCEPT ![t] = q] /\ tokens' = tokens
      BY <1>3, <2>1 DEF Claim, TypeOK
    <3>4. QED
      BY <2>1, <3>2, <3>3 DEF TypeOK, Usable, Exists
  <2>2. CASE ~Usable(t)
    <3>1. req'[q] = [req[q] EXCEPT !.pc = "grace"]
      BY <1>3, <1>g, <2>2 DEF Claim
    <3>2. req'[q].pc = "grace"
      BY <1>0, <3>1 DEF RequestStates
    <3>3. QED
      BY <3>2
  <2>3. QED
    BY <2>1, <2>2
<1>4. CASE GraceRead(q)
  <2>1. ASSUME NEW s, Goto(q, [req[q] EXCEPT !.pc = "drop", !.succ = s])
        PROVE  req'[q].pc = "drop"
    BY <1>0, <1>g, <2>1 DEF RequestStates
  <2>2. QED
    BY <1>4, <1>i, <2>1 DEF GraceRead
<1>5. CASE Drop(q)
  <2> DEFINE o == req[q].succ
  <2>1. CASE Usable(o)
    <3>1. req'[q] = [req[q] EXCEPT !.pc = "relink"]
      BY <1>5, <1>g, <2>1 DEF Drop
    <3>2. req'[q].pc = "relink" /\ req'[q].succ = o
      BY <1>0, <3>1 DEF RequestStates
    <3>3. o \in Ids /\ lock' = [lock EXCEPT ![o] = q] /\ tokens' = tokens
      BY <1>5, <2>1 DEF Drop, TypeOK
    <3>4. QED
      BY <2>1, <3>2, <3>3 DEF TypeOK, Usable, Exists
  <2>2. CASE ~Usable(o)
    BY <1>5, <1>i, <2>2 DEF Drop
  <2>3. QED
    BY <2>1, <2>2
<1>6. CASE UpdateUser(q) \/ FindSessions(q) \/ FindDead(q) \/ LockRow(q)
  <2>1. ASSUME NEW pc \in {"revoke", "end", "delete"}, NEW rows,
               Goto(q, [req[q] EXCEPT !.pc = pc, !.rows = rows])
        PROVE  req'[q].pc \in {"revoke", "end", "delete"}
    BY <1>0, <1>g, <2>1 DEF RequestStates
  <2>2. ASSUME NEW rows, LocksMany(q), Goto(q, [req[q] EXCEPT !.rows = rows])
        PROVE  req'[q].pc \in {"revoke", "end", "delete"}
    BY <1>0, <1>g, <2>2 DEF RequestStates, LocksMany
  <2>3. req'[q].pc \in {"revoke", "end", "delete"}
    BY <1>6, <2>1, <2>2 DEF UpdateUser, FindSessions, FindDead, LockRow
  <2>4. QED
    BY <2>3
<1>7. QED
  BY <1>1, <1>2, <1>3, <1>4, <1>5, <1>6 DEF Continue

(* Transactions keep the rows they are about to spend. *)
LEMMA HeldStep == IInv /\ [Next]_vars => Held'
<1> SUFFICES ASSUME IInv, [Next]_vars, NEW q \in Requests
             PROVE  /\ req'[q].pc = "rotate" => lock'[req'[q].token] = q /\ Usable(req[q].token)'
                    /\ req'[q].pc = "relink" => lock'[req'[q].succ] = q /\ Usable(req[q].succ)'
  BY DEF Held, Usable, Exists
<1>t. TypeOK /\ Held
  BY DEF IInv
<1>1. CASE Tick \/ UNCHANGED vars
  BY <1>1, <1>t DEF Tick, vars, Held, Usable, Exists
<1>2. CASE Start(q) \/ Continue(q) \/ Crash(q)
  BY <1>2, <1>t, Locks
<1>3. ASSUME NEW r \in Requests \ {q}, Start(r) \/ Continue(r) \/ Crash(r)
      PROVE  /\ req'[q].pc = "rotate" => lock'[req'[q].token] = q /\ Usable(req[q].token)'
             /\ req'[q].pc = "relink" => lock'[req'[q].succ] = q /\ Usable(req[q].succ)'
  <2>1. req'[q] = req[q]
    BY <1>3, <1>t DEF Start, Continue, Login, Mint, Refresh, Claim, Rotate, GraceRead, Drop,
       Relink, Logout, FindDead, CommitPrune, ChangePassword, UpdateUser, LockRow, CommitPassword,
       RotatePassword, SetPassword, FindSessions, EndSessions, Crash, Goto, End, TypeOK
  <2>2. ASSUME NEW x \in Ids, lock[x] = q, Usable(x) PROVE lock'[x] = q /\ Usable(x)'
    BY <1>3, <2>2, LockKept
  <2>3. /\ req[q].pc = "rotate" => req[q].token \in Ids
        /\ req[q].pc = "relink" => req[q].succ \in Ids
    BY <1>t DEF TypeOK
  <2>4. QED
    BY <1>t, <2>1, <2>2, <2>3 DEF Held, Usable, Exists
<1>4. QED
  BY <1>1, <1>2, <1>3 DEF Next

----------------------------------------------------------------------------
(* The inductive invariant. *)
LEMMA Inductive == IInv /\ [Next]_vars => IInv'
<1> SUFFICES ASSUME IInv, [Next]_vars PROVE IInv'
  OBVIOUS
<1>1. TypeOK'
  BY TypeStep DEF IInv
<1>2. Family'
  BY <1>1, FamilyStep
<1>3. Remembered'
  BY <1>1, <1>2, RememberedStep
<1>4. Held'
  BY HeldStep
<1>5. QED
  BY <1>1, <1>2, <1>3, <1>4 DEF IInv

LEMMA Always == Spec => []IInv
<1>1. QED
  BY InitIInv, Inductive, PTL DEF Spec

(* Rows, locks and requests keep their types, however many requests there are:
   no step of a handler in auth.service.ts leaves a row half written. *)
THEOREM TypesHold == Spec => []TypeOK
<1>1. IInv => TypeOK
  BY DEF IInv
<1>2. QED
  BY <1>1, Always, PTL

(* "only the newly issued token stays live": of a session's tokens at most one is
   usable, however refreshes, retries, logouts and password changes overlap. *)
THEOREM OneTokenIsUsable == Spec => []OneUsableToken
<1>1. IInv => OneUsableToken
  BY DEF IInv, Family
<1>2. QED
  BY <1>1, Always, PTL

(* A session is one chain of spent tokens: two tokens issued in the place of one
   are never both spent, and once one is the other cannot be used. *)
THEOREM SessionsNeverFork == Spec => []NeverForks
<1>1. IInv => NeverForks
  BY DEF IInv, Family
<1>2. QED
  BY <1>1, Always, PTL

----------------------------------------------------------------------------
(* RefreshTokens implements SessionChain. *)
Pairs == {<<tokens[t].session, t>> : t \in {u \in Ids : Usable(u)}}

(* A sign-in adds the first token of a session. *)
LEMMA MintSignsIn ==
  ASSUME TypeOK, Family, NEW r \in Requests, Mint(r)
  PROVE  minted' = minted + 1 /\ Pairs' = Pairs \cup {<<minted + 1, minted + 1>>}
<1> USE TokenConstants, NullIsNoRow
<1>1. New \in Ids /\ minted' = New /\ New = minted + 1
  BY DEF Mint, Issue, New, Ids, TypeOK
<1>2. /\ tokens'[New] = Row(New, Null)
      /\ \A x \in Ids \ {New} : tokens'[x] = tokens[x]
  BY <1>1 DEF Mint, Issue, TypeOK
<1>3. tokens'[New] # Null /\ tokens'[New].session = New /\ ~tokens'[New].revoked
  <2>2. /\ Row(New, Null).session = New
        /\ ~Row(New, Null).revoked
    BY DEF Row
  <2>3. Row(New, Null) # Null
    <3>1. Row(New, Null) \in Rows
      BY <1>1 DEF Row, Rows, TypeOK
    <3>2. QED
      BY <3>1
  <2>4. QED
    BY <1>2, <2>2, <2>3
<1>4. \A x \in Ids : Usable(x) => x # New
  BY Issued DEF Usable
<1>5. \A x \in Ids : Usable(x)' <=> (Usable(x) \/ x = New)
  BY <1>2, <1>3, <1>4 DEF Usable, Exists
<1>6. \A x \in Ids : Usable(x) => tokens'[x].session = tokens[x].session
  BY <1>2, <1>4
<1>7. QED
  BY <1>1, <1>3, <1>5, <1>6 DEF Pairs

(* A replacement renews a session. *)
LEMMA ReplacesRenews ==
  ASSUME TypeOK, Family, NEW d \in Ids, Replaces(d)
  PROVE  /\ minted' = minted + 1
         /\ <<tokens[d].session, d>> \in Pairs
         /\ Pairs' = (Pairs \ {<<tokens[d].session, d>>}) \cup {<<tokens[d].session, minted + 1>>}
<1>1. New \in Ids /\ minted' = New /\ New = minted + 1 /\ Usable(d)
      /\ tokens'[New].session = tokens[d].session
  BY DEF Replaces, New
<1>2. \A x \in Ids : Usable(x) => x # New
  BY Issued DEF Usable
<1>3. \A x \in Ids : Usable(x)' <=> ((Usable(x) /\ x # d) \/ x = New)
  BY <1>2 DEF Replaces, Usable, Exists
<1>4. \A x \in Ids : (Usable(x) /\ x # d) => tokens'[x].session = tokens[x].session
  BY <1>2 DEF Replaces
<1>5. QED
  BY <1>1, <1>2, <1>3, <1>4 DEF Pairs

(* Every other step ends sessions, or does nothing to them. *)
LEMMA WeakensEnds ==
  ASSUME TypeOK, Weakens
  PROVE  minted' = minted /\ Pairs' \subseteq Pairs
<1>1. ASSUME NEW x \in Ids, Usable(x)'
      PROVE  Usable(x) /\ tokens'[x].session = tokens[x].session
  <2>1. tokens'[x] \in {tokens[x], [tokens[x] EXCEPT !.revoked = TRUE]} /\ Exists(x)
    BY <1>1 DEF Weakens, Weaker, Usable, Exists
  <2>2. tokens[x] \in Rows
    BY <2>1, RowTypes
  <2>3. QED
    BY <1>1, <2>1, <2>2 DEF Usable, Rows
<1>2. QED
  BY <1>1 DEF Pairs, Weakens

(* "only the newly issued token stays live": the token table implements the chain
   of tokens that rotation promises.  A renewal replaces exactly the usable token,
   a session that has lost it gets no other, only a sign-in starts one. *)
THEOREM TokensAreChains == Spec => SessionsAreChains
<1>1. Init => Chain!ChainInit
  BY DEF Init, Chain!ChainInit, Usable, Exists
<1>2. ASSUME IInv, TypeOK', [Next]_vars
      PROVE  [Chain!ChainNext]_<<Pairs, minted>>
  <2>t. TypeOK /\ Family /\ Held /\ Remembered
    BY <1>2 DEF IInv
  <2>1. ASSUME NEW r \in Requests, Mint(r) PROVE Chain!SignIn
    BY <2>1, <2>t, MintSignsIn DEF Chain!SignIn, Pairs
  <2>2. ASSUME NEW d \in Ids, Replaces(d) PROVE Chain!Renew
    <3>1. /\ minted' = minted + 1
          /\ <<tokens[d].session, d>> \in Pairs
          /\ Pairs' = (Pairs \ {<<tokens[d].session, d>>}) \cup {<<tokens[d].session, minted + 1>>}
      BY <2>2, <2>t, ReplacesRenews
    <3> DEFINE u == <<tokens[d].session, d>>
    <3>2. u \in Pairs /\ u[1] = tokens[d].session
      BY <3>1
    <3>3. \E v \in Pairs : minted' = minted + 1 /\ Pairs' = (Pairs \ {v}) \cup {<<v[1], minted + 1>>}
      BY <3>1, <3>2
    <3>4. QED
      BY <3>3 DEF Chain!Renew, Pairs
  <2>3. ASSUME NEW r \in Requests, Rotate(r) PROVE Chain!Renew
    <3>1. req[r].token \in Ids
      BY <2>3, <2>t DEF Rotate, TypeOK
    <3>2. QED
      BY <1>2, <2>2, <2>3, <2>t, <3>1, RotateFamily
  <2>4. ASSUME NEW r \in Requests, Relink(r), Exists(req[r].token) PROVE Chain!Renew
    <3>1. req[r].succ \in Ids
      BY <2>4, <2>t DEF Relink, TypeOK
    <3>2. QED
      BY <1>2, <2>2, <2>4, <2>t, <3>1, RelinkFamily
  <2>5. CASE \A r \in Requests : ~Mint(r) /\ ~Rotate(r) /\ ~(Relink(r) /\ Exists(req[r].token))
    <3>1. minted' = minted /\ Pairs' \subseteq Pairs
      BY <1>2, <2>5, <2>t, OtherSteps, WeakensEnds
    <3>2. QED
      BY <3>1 DEF Chain!ChainNext, Chain!EndSome, Pairs
  <2>6. QED
    BY <2>1, <2>3, <2>4, <2>5 DEF Chain!ChainNext
<1>3. QED
  <2>1. IInv' => TypeOK'
    BY DEF IInv
  <2>2. QED
    BY <1>1, <1>2, <2>1, Always, PTL DEF Spec, SessionsAreChains, Chain!ChainSpec, Pairs

----------------------------------------------------------------------------
(* A changed password ends the sessions it finds.

   A revocation has its rows from one statement and takes their locks one by one.  Two
   facts see it through to its commit (Ending): a row that is usable is still to be
   locked, or locked by it, or was committed since the statement; and the password it is
   about stays as long as the transaction holds the user's row, or only grows where none
   does. *)
Ending ==
  \A r \in Requests :
    /\ req[r].pc = "revoke" =>
         /\ userLock = r
         /\ \A t \in Ids : Usable(t) =>
              t \in req[r].rows \/ lock[t] = r \/ (tokens[t].amid /\ tokens[t].password = password)
    /\ req[r].pc \in {"find", "end"} => req[r].at \in Nat /\ req[r].at <= password
    /\ req[r].pc = "end" =>
         \A t \in Ids : Usable(t) =>
           t \in req[r].rows \/ lock[t] = r \/ req[r].at <= tokens[t].password

(* A row that is usable after a step either was, under the same password, or is the one
   the step commits. *)
Inherited(t) ==
  Usable(t) /\ tokens'[t].password = tokens[t].password /\ tokens'[t].amid = tokens[t].amid

Issues(t) == tokens'[t].password = password /\ tokens'[t].amid = (userLock # Null)

----------------------------------------------------------------------------
(* A row is issued under the password in force, perhaps amid its change. *)
LEMMA RowIsIssued ==
  ASSUME NEW session, NEW parent
  PROVE  /\ Row(session, parent).password = password
         /\ Row(session, parent).amid = (userLock # Null)
BY DEF Row

(* Only sign-ins, rotations and retries commit rows; all else revokes or deletes. *)
LEMMA UsableRows ==
  ASSUME IInv, [Next]_vars, NEW t \in Ids, Usable(t)'
  PROVE  Inherited(t) \/ Issues(t)
<1> USE NullIsNoRow, TokenConstants
<1>t. TypeOK /\ Held
  BY DEF IInv
<1>1. ASSUME NEW r \in Requests, Mint(r) PROVE Inherited(t) \/ Issues(t)
  <2>1. New \in Ids /\ tokens' = [tokens EXCEPT ![New] = Row(New, Null)]
    BY <1>1, <1>t DEF Mint, Issue, New, Ids, TypeOK
  <2>2. DOMAIN tokens = Ids
    BY <1>t DEF TypeOK
  <2>3. CASE t = New
    BY <2>1, <2>2, <2>3, RowIsIssued DEF Issues
  <2>4. CASE t # New
    BY <2>1, <2>2, <2>4 DEF Inherited, Usable, Exists
  <2>5. QED
    BY <2>3, <2>4
<1>2. ASSUME NEW r \in Requests, Rotate(r) PROVE Inherited(t) \/ Issues(t)
  <2> DEFINE s == req[r].token
             spent == [tokens EXCEPT ![s].revoked = TRUE, ![s].rotatedAt = req[r].at,
                                     ![s].replacedBy = New]
  <2>1. New \in Ids /\ tokens' = [spent EXCEPT ![New] = Row(tokens[s].session, s)]
    BY <1>2, <1>t DEF Rotate, Issue, New, Ids, TypeOK
  <2>2. s \in Ids /\ tokens[s] \in Rows
    BY <1>2, <1>t, RowTypes DEF Rotate, TypeOK, Held, Usable
  <2>3. DOMAIN spent = Ids
    BY <1>t DEF TypeOK
  <2>4. spent[t] # Null /\ ~spent[t].revoked =>
          Usable(t) /\ spent[t].password = tokens[t].password /\ spent[t].amid = tokens[t].amid
    BY <1>t, <2>2 DEF TypeOK, Usable, Exists, Rows
  <2> HIDE DEF spent
  <2>5. CASE t = New
    BY <2>1, <2>3, <2>5, RowIsIssued DEF Issues
  <2>6. CASE t # New
    <3>1. tokens'[t] = spent[t]
      BY <2>1, <2>3, <2>6
    <3>2. QED
      BY <3>1, <2>4 DEF Inherited, Usable, Exists
  <2>7. QED
    BY <2>5, <2>6
<1>3. ASSUME NEW r \in Requests, Relink(r), Exists(req[r].token) PROVE Inherited(t) \/ Issues(t)
  <2> DEFINE s == req[r].token
             dropped == [tokens EXCEPT ![req[r].succ].revoked = TRUE, ![s].replacedBy = New]
  <2>1. New \in Ids /\ tokens' = [dropped EXCEPT ![New] = Row(tokens[s].session, s)]
    BY <1>3, <1>t DEF Relink, Issue, New, Ids, TypeOK
  <2>2. /\ s \in Ids /\ tokens[s] \in Rows
        /\ req[r].succ \in Ids /\ tokens[req[r].succ] \in Rows
    BY <1>3, <1>t, RowTypes DEF Relink, TypeOK, Held, Usable
  <2>3. DOMAIN dropped = Ids
    BY <1>t DEF TypeOK
  <2>4. dropped[t] # Null /\ ~dropped[t].revoked =>
          Usable(t) /\ dropped[t].password = tokens[t].password /\ dropped[t].amid = tokens[t].amid
    BY <1>t, <2>2 DEF TypeOK, Usable, Exists, Rows
  <2> HIDE DEF dropped
  <2>5. CASE t = New
    BY <2>1, <2>3, <2>5, RowIsIssued DEF Issues
  <2>6. CASE t # New
    <3>1. tokens'[t] = dropped[t]
      BY <2>1, <2>3, <2>6
    <3>2. QED
      BY <3>1, <2>4 DEF Inherited, Usable, Exists
  <2>7. QED
    BY <2>5, <2>6
<1>4. CASE \A r \in Requests : ~Mint(r) /\ ~Rotate(r) /\ ~(Relink(r) /\ Exists(req[r].token))
  <2>1. Weaker(t)
    BY <1>t, <1>4, OtherSteps DEF Weakens
  <2>2. Exists(t) /\ tokens'[t] \in {tokens[t], [tokens[t] EXCEPT !.revoked = TRUE]}
    BY <2>1 DEF Weaker, Usable, Exists
  <2>3. tokens[t] \in Rows
    BY <1>t, <2>2, RowTypes
  <2>4. QED
    BY <2>2, <2>3 DEF Inherited, Usable, Rows
<1>5. QED
  BY <1>1, <1>2, <1>3, <1>4

(* Another request leaves a lock where it is. *)
LEMMA LocksStay ==
  ASSUME TypeOK, NEW q \in Requests, NEW x \in Ids, lock[x] = q,
         NEW r \in Requests \ {q}, Start(r) \/ Continue(r) \/ Crash(r)
  PROVE  lock'[x] = q
<1> USE TokenConstants
<1>u. ASSUME Unlock(r) PROVE lock'[x] = q
  BY <1>u DEF Unlock, TypeOK
<1>k. ASSUME NEW y \in Ids, Free(y), lock' = [lock EXCEPT ![y] = r] PROVE lock'[x] = q
  BY <1>k DEF TypeOK, Free
<1>1. CASE Start(r) \/ Mint(r) \/ GraceRead(r) \/ FindDead(r) \/ UpdateUser(r) \/ SetPassword(r) \/ FindSessions(r)
  BY <1>1 DEF Start, Login, ChangePassword, RotatePassword, Refresh, Logout, Mint, GraceRead, FindDead,
              UpdateUser, SetPassword, FindSessions
<1>2. CASE Rotate(r) \/ Relink(r) \/ CommitPrune(r) \/ CommitPassword(r) \/ EndSessions(r) \/ Crash(r)
  BY <1>2, <1>u DEF Rotate, Relink, CommitPrune, CommitPassword, EndSessions, Crash
<1>3. CASE Claim(r)
  BY <1>3, <1>k DEF Claim, TypeOK
<1>4. CASE Drop(r)
  BY <1>4, <1>k DEF Drop, TypeOK
<1>5. CASE LockRow(r)
  <2>1. PICK y \in req[r].rows :
          Free(y) /\ lock' = IF Exists(y) THEN [lock EXCEPT ![y] = r] ELSE lock
    BY <1>5 DEF LockRow
  <2>2. y \in Ids
    BY DEF TypeOK, RequestStates
  <2>3. QED
    BY <1>k, <2>1, <2>2
<1>6. QED
  BY <1>1, <1>2, <1>3, <1>4, <1>5 DEF Continue

(* Another request leaves a request as it is, and its transaction the user's row and the
   password. *)
LEMMA OthersWait ==
  ASSUME TypeOK, Ending, NEW q \in Requests,
         NEW r \in Requests \ {q}, Start(r) \/ Continue(r) \/ Crash(r)
  PROVE  /\ req'[q] = req[q] /\ password <= password'
         /\ req[q].pc = "revoke" => userLock' = q /\ password' = password
<1> USE TokenConstants
<1>1. req'[q] = req[q]
  BY DEF Start, Continue, Login, Mint, Refresh, Claim, Rotate, GraceRead, Drop,
     Relink, Logout, FindDead, CommitPrune, ChangePassword, UpdateUser, LockRow, CommitPassword,
     RotatePassword, SetPassword, FindSessions, EndSessions, Crash, Goto, End, TypeOK
<1>2. password \in Nat /\ password' \in {password, password + 1}
  BY DEF Start, Continue, Login, Mint, Refresh, Claim, Rotate, GraceRead, Drop,
     Relink, Logout, FindDead, CommitPrune, ChangePassword, UpdateUser, LockRow, CommitPassword,
     RotatePassword, SetPassword, FindSessions, EndSessions, Crash, TypeOK
<1>3. ASSUME req[q].pc = "revoke" PROVE userLock' = q /\ password' = password
  <2>1. userLock = q /\ userLock # Null /\ userLock # r
    BY <1>3 DEF Ending
  <2>2. ~UpdateUser(r) /\ ~SetPassword(r) /\ ~CommitPassword(r)
    BY <2>1 DEF UpdateUser, SetPassword, CommitPassword, Ending
  <2>3. QED
    BY <2>1, <2>2 DEF Start, Continue, Login, Mint, Refresh, Claim, Rotate, GraceRead, Drop,
       Relink, Logout, FindDead, CommitPrune, ChangePassword, LockRow, RotatePassword, FindSessions, EndSessions, Crash
<1>4. QED
  BY <1>1, <1>2, <1>3

----------------------------------------------------------------------------
(* Every step sees the revocations through: those of others wait, a new one finds all
   there is, and locking a row moves it from those still to be locked. *)
LEMMA EndingStep == IInv /\ Ending /\ [Next]_vars => Ending'
<1> USE TokenConstants
<1> SUFFICES ASSUME IInv, Ending, [Next]_vars PROVE Ending'
  OBVIOUS
<1>t. TypeOK
  BY DEF IInv
<1>r. ASSUME NEW t \in Ids, Usable(t)' PROVE Inherited(t) \/ Issues(t)
  BY <1>r, UsableRows
<1>1. CASE Tick \/ UNCHANGED vars
  BY <1>1 DEF Tick, vars, Ending, Usable, Exists
<1>2. ASSUME NEW a \in Requests, Start(a) \/ Continue(a) \/ Crash(a)
      PROVE  Ending'
  <2>1. ASSUME NEW q \in Requests \ {a}
        PROVE  /\ req'[q].pc = "revoke" =>
                    /\ userLock' = q
                    /\ \A t \in Ids : Usable(t)' =>
                         t \in req'[q].rows \/ lock'[t] = q \/ (tokens'[t].amid /\ tokens'[t].password = password')
               /\ req'[q].pc \in {"find", "end"} => req'[q].at \in Nat /\ req'[q].at <= password'
               /\ req'[q].pc = "end" =>
                    \A t \in Ids : Usable(t)' =>
                      t \in req'[q].rows \/ lock'[t] = q \/ req'[q].at <= tokens'[t].password
    <3>1. /\ req'[q] = req[q] /\ password <= password'
          /\ req[q].pc = "revoke" => userLock' = q /\ password' = password
      BY <1>2, <1>t, OthersWait
    <3>2. \A t \in Ids : lock[t] = q => lock'[t] = q
      BY <1>2, <1>t, LocksStay
    <3>3. ASSUME req[q].pc = "revoke", NEW t \in Ids, Usable(t)'
          PROVE  t \in req[q].rows \/ lock'[t] = q \/ (tokens'[t].amid /\ tokens'[t].password = password')
      <4>1. CASE Inherited(t)
        BY <3>1, <3>2, <3>3, <4>1 DEF Inherited, Ending
      <4>2. CASE Issues(t)
        BY <3>1, <3>3, <4>2 DEF Issues, Ending
      <4>3. QED
        BY <1>r, <3>3, <4>1, <4>2
    <3>4. ASSUME req[q].pc = "end", NEW t \in Ids, Usable(t)'
          PROVE  t \in req[q].rows \/ lock'[t] = q \/ req[q].at <= tokens'[t].password
      <4>1. CASE Inherited(t)
        BY <3>2, <3>4, <4>1 DEF Inherited, Ending
      <4>2. CASE Issues(t)
        BY <3>4, <4>2 DEF Issues, Ending
      <4>3. QED
        BY <1>r, <3>4, <4>1, <4>2
    <3>5. req[q].pc \in {"find", "end"} => req[q].at \in Nat /\ req[q].at <= password'
      <4>1. password \in Nat /\ password' \in {password, password + 1}
        BY <1>2, <1>t DEF Start, Continue, Login, Mint, Refresh, Claim, Rotate, GraceRead, Drop,
           Relink, Logout, FindDead, CommitPrune, ChangePassword, UpdateUser, LockRow, CommitPassword,
           RotatePassword, SetPassword, FindSessions, EndSessions, Crash, TypeOK
      <4>2. QED
        BY <4>1 DEF Ending
    <3>6. QED
      BY <3>1, <3>3, <3>4, <3>5
  <2>2. /\ req'[a].pc = "revoke" =>
             /\ userLock' = a
             /\ \A t \in Ids : Usable(t)' =>
                  t \in req'[a].rows \/ lock'[t] = a \/ (tokens'[t].amid /\ tokens'[t].password = password')
        /\ req'[a].pc \in {"find", "end"} => req'[a].at \in Nat /\ req'[a].at <= password'
        /\ req'[a].pc = "end" =>
             \A t \in Ids : Usable(t)' =>
               t \in req'[a].rows \/ lock'[t] = a \/ req'[a].at <= tokens'[t].password
    <3>0. req[a] \in RequestStates
      BY <1>t DEF TypeOK
    <3>g. ASSUME NEW state, Goto(a, state) PROVE req'[a] = state
      BY <3>g, <1>t DEF Goto, TypeOK
    <3>1. CASE UpdateUser(a)
      <4>1. req'[a] = [req[a] EXCEPT !.pc = "revoke", !.rows = {t \in Ids : Usable(t)}]
            /\ userLock' = a /\ tokens' = tokens
        BY <3>1, <3>g DEF UpdateUser
      <4>2. req'[a].pc = "revoke" /\ req'[a].rows = {t \in Ids : Usable(t)}
        BY <3>0, <4>1 DEF RequestStates
      <4>3. QED
        BY <4>1, <4>2 DEF Usable, Exists
    <3>2. CASE FindSessions(a)
      <4>1. req'[a] = [req[a] EXCEPT !.pc = "end", !.rows = {t \in Ids : Usable(t)}]
            /\ password' = password /\ tokens' = tokens /\ req[a].pc = "find"
        BY <3>2, <3>g DEF FindSessions
      <4>2. req'[a].pc = "end" /\ req'[a].rows = {t \in Ids : Usable(t)} /\ req'[a].at = req[a].at
        BY <3>0, <4>1 DEF RequestStates
      <4>3. QED
        BY <4>1, <4>2 DEF Usable, Exists, Ending
    <3>3. CASE SetPassword(a)
      <4>1. req'[a] = [Idle EXCEPT !.pc = "find", !.at = password'] /\ password' \in Nat
        BY <3>3, <3>g, <1>t DEF SetPassword, TypeOK
      <4>2. req'[a].pc = "find" /\ req'[a].at = password'
        BY <4>1 DEF Idle
      <4>3. QED
        BY <4>1, <4>2
    <3>4. CASE LockRow(a)
      <4>1. PICK x \in req[a].rows :
              /\ lock' = IF Exists(x) THEN [lock EXCEPT ![x] = a] ELSE lock
              /\ req'[a] = [req[a] EXCEPT !.rows = @ \ {x}]
        BY <3>4, <3>g DEF LockRow
      <4>2. req'[a].pc = req[a].pc /\ req'[a].at = req[a].at /\ req'[a].rows = req[a].rows \ {x}
        BY <3>0, <4>1 DEF RequestStates
      <4>3. ASSUME NEW t \in Ids, Usable(t), t \in req[a].rows \/ lock[t] = a
            PROVE  t \in req'[a].rows \/ lock'[t] = a
        BY <1>t, <4>1, <4>2, <4>3 DEF TypeOK, Usable
      <4>4. UNCHANGED <<tokens, password, userLock>>
        BY <3>4 DEF LockRow
      <4>5. QED
        BY <4>2, <4>3, <4>4 DEF Ending, Usable, Exists
    <3>5. CASE Start(a) \/ Mint(a) \/ Claim(a) \/ Rotate(a) \/ GraceRead(a) \/ Drop(a) \/ Relink(a)
               \/ FindDead(a) \/ CommitPrune(a) \/ CommitPassword(a) \/ EndSessions(a) \/ Crash(a)
      <4>i. End(a) => req'[a].pc = "idle"
        BY <3>g DEF End, Idle
      <4>1. CASE Start(a) \/ CommitPassword(a)
        <5>1. req'[a].pc \in {"mint", "grace", "claim", "user", "prune", "set"}
          BY <3>g, <4>1, ZenonT(40) DEF Start, Login, Refresh, Logout, ChangePassword, RotatePassword, CommitPassword, Idle
        <5>2. QED
          BY <5>1
      <4>2. CASE Mint(a) \/ Rotate(a) \/ Relink(a) \/ CommitPrune(a) \/ EndSessions(a) \/ Crash(a)
        BY <4>i, <4>2 DEF Mint, Rotate, Relink, CommitPrune, EndSessions, Crash
      <4>3. CASE Claim(a)
        <5>1. \/ req'[a] = [req[a] EXCEPT !.pc = "rotate", !.at = now]
              \/ req'[a] = [req[a] EXCEPT !.pc = "grace"]
          BY <3>g, <4>3 DEF Claim
        <5>2. QED
          BY <3>0, <5>1 DEF RequestStates
      <4>4. CASE GraceRead(a) /\ ~End(a)
        <5>1. PICK x : req'[a] = [req[a] EXCEPT !.pc = "drop", !.succ = x]
          BY <3>g, <4>4 DEF GraceRead
        <5>2. QED
          BY <3>0, <5>1 DEF RequestStates
      <4>5. CASE Drop(a) /\ ~End(a)
        <5>1. req'[a] = [req[a] EXCEPT !.pc = "relink"]
          BY <3>g, <4>5 DEF Drop
        <5>2. QED
          BY <3>0, <5>1 DEF RequestStates
      <4>6. CASE FindDead(a)
        <5>1. req'[a] = [req[a] EXCEPT !.pc = "delete", !.rows = {t \in Ids : Dead(t)}]
          BY <3>g, <4>6 DEF FindDead
        <5>2. QED
          BY <3>0, <5>1 DEF RequestStates
      <4>7. QED
        BY <3>5, <4>i, <4>1, <4>2, <4>3, <4>4, <4>5, <4>6
    <3>6. QED
      BY <1>2, <3>1, <3>2, <3>3, <3>4, <3>5 DEF Continue
  <2>3. QED
    BY <2>1, <2>2 DEF Ending, Usable, Exists
<1>3. QED
  BY <1>1, <1>2 DEF Next

----------------------------------------------------------------------------
(* Only the steps that change or settle a password could break the promise, and they
   come after every usable row is locked, or owe the change. *)
LEMMA EndsStep == IInv /\ Ending /\ SessionsEndWithPassword /\ [Next]_vars => SessionsEndWithPassword'
<1> USE TokenConstants
<1> SUFFICES ASSUME IInv, Ending, SessionsEndWithPassword, [Next]_vars, NEW t \in Ids, Usable(t)',
                    NEW p \in (tokens'[t].password + 1)..password'
             PROVE  p \in owed' \/ (tokens'[t].amid /\ p = tokens'[t].password + 1)
  BY DEF SessionsEndWithPassword, Usable, Exists
<1>t. TypeOK /\ TypeOK'
  BY Inductive DEF IInv
<1>n. password \in Nat /\ password' \in Nat /\ tokens'[t].password \in Nat
  <2>1. tokens'[t] \in Rows
    BY <1>t DEF TypeOK, Usable, Exists
  <2>2. QED
    BY <1>t, <2>1 DEF TypeOK, Rows
<1>o. CASE Inherited(t) /\ p <= password /\ owed \subseteq owed'
  BY <1>n, <1>o DEF Inherited, SessionsEndWithPassword
<1>1. CASE UNCHANGED <<password, owed>>
  <2>1. CASE Inherited(t)
    BY <1>n, <1>o, <1>1, <2>1
  <2>2. CASE Issues(t)
    BY <1>n, <1>1, <2>2 DEF Issues
  <2>3. QED
    BY <2>1, <2>2, UsableRows
<1>2. ASSUME NEW r \in Requests, SetPassword(r)
      PROVE  p \in owed' \/ (tokens'[t].amid /\ p = tokens'[t].password + 1)
  <2>1. password' = password + 1 /\ owed' = owed \cup {password'} /\ Inherited(t)
    BY <1>2 DEF SetPassword, Inherited, Usable, Exists
  <2>2. CASE p = password'
    BY <2>1, <2>2
  <2>3. CASE p # password'
    BY <1>n, <1>o, <2>1, <2>3
  <2>4. QED
    BY <2>2, <2>3
<1>f. ASSUME NEW r \in Requests, tokens' = Revoked(r)
      PROVE  Usable(t) /\ lock[t] # r /\ tokens'[t] = tokens[t]
  <2>1. CASE lock[t] = r /\ Exists(t)
    <3>1. tokens[t] \in Rows
      BY <1>t, <2>1, RowTypes
    <3>2. tokens'[t].revoked
      BY <1>f, <2>1, <3>1 DEF Revoked, Rows
    <3>3. QED
      BY <3>2 DEF Usable
  <2>2. CASE ~(lock[t] = r /\ Exists(t))
    BY <1>f, <2>2 DEF Revoked, Usable, Exists
  <2>3. QED
    BY <2>1, <2>2
<1>3. ASSUME NEW r \in Requests, CommitPassword(r)
      PROVE  p \in owed' \/ (tokens'[t].amid /\ p = tokens'[t].password + 1)
  <2>1. /\ req[r].pc = "revoke" /\ req[r].rows = {} /\ tokens' = Revoked(r)
        /\ password' = password + 1
    BY <1>3 DEF CommitPassword
  <2>2. Usable(t) /\ lock[t] # r /\ tokens'[t] = tokens[t]
    BY <1>f, <2>1
  <2>3. tokens[t].amid /\ tokens[t].password = password
    BY <2>1, <2>2 DEF Ending
  <2>4. QED
    BY <1>n, <2>1, <2>2, <2>3
<1>4. ASSUME NEW r \in Requests, EndSessions(r)
      PROVE  p \in owed' \/ (tokens'[t].amid /\ p = tokens'[t].password + 1)
  <2>1. /\ req[r].pc = "end" /\ req[r].rows = {} /\ tokens' = Revoked(r)
        /\ password' = password /\ owed' = owed \ {req[r].at}
    BY <1>4 DEF EndSessions
  <2>2. Usable(t) /\ lock[t] # r /\ tokens'[t] = tokens[t]
    BY <1>f, <2>1
  <2>3. req[r].at <= tokens[t].password /\ req[r].at \in Nat
    BY <2>1, <2>2 DEF Ending
  <2>4. p \in owed \/ (tokens[t].amid /\ p = tokens[t].password + 1)
    BY <1>n, <2>1, <2>2 DEF SessionsEndWithPassword
  <2>5. p # req[r].at
    BY <1>n, <2>2, <2>3
  <2>6. QED
    BY <2>1, <2>2, <2>4, <2>5
<1>5. \/ UNCHANGED <<password, owed>>
      \/ \E r \in Requests : SetPassword(r) \/ CommitPassword(r) \/ EndSessions(r)
  BY ZenonT(40) DEF Next, vars, Tick, Start, Continue, Login, Mint, Refresh, Claim, Rotate, GraceRead, Drop,
     Relink, Logout, FindDead, CommitPrune, ChangePassword, UpdateUser, LockRow, RotatePassword, FindSessions, Crash
<1>6. QED
  BY <1>1, <1>2, <1>3, <1>4, <1>5

LEMMA EndingAlways == Spec => [](Ending /\ SessionsEndWithPassword)
<1>1. Init => Ending /\ SessionsEndWithPassword
  BY DEF Init, Ending, SessionsEndWithPassword, Idle, Usable, Exists
<1>2. (IInv /\ Ending /\ SessionsEndWithPassword) /\ [Next]_vars => (Ending /\ SessionsEndWithPassword)'
  BY EndingStep, EndsStep
<1>3. QED
  BY <1>1, <1>2, Always, PTL DEF Spec

(* "kill every existing session": once a change of the password has run to its end, no
   session it found goes on, whatever refreshes, retries and other changes it overlaps;
   an admin's change that died between its statements is the one that ends none. *)
THEOREM SessionsEnd == Spec => []SessionsEndWithPassword
<1>1. QED
  BY EndingAlways, PTL

----------------------------------------------------------------------------
(* No circle of waits.

   Who holds a row is a rotation, which waits for nothing; a retry, which holds the
   usable successor it replaces and waits for the spent token it replaces it for; or a
   revocation or a prune, which waits for the rows it has yet to lock.  A circle with a
   prune is an exception.  A retry never waits for
   another, for one holds usable rows and the other wants a spent one (Spent); and the
   rows of a revocation were usable together, so none was issued in the place of another
   (Strangers): a retry that holds one of them wants none. *)
Locking ==
  /\ \A r \in Requests, t \in Ids : lock[t] = r =>
       \/ req[r].pc = "rotate" /\ req[r].token = t
       \/ req[r].pc = "relink" /\ req[r].succ = t
       \/ LocksMany(r) /\ t \notin req[r].rows
  /\ \A r \in Requests : userLock = r => req[r].pc = "revoke"

Spent ==
  \A r \in Requests : req[r].pc \in {"drop", "relink"} =>
    /\ req[r].token <= minted
    /\ Exists(req[r].token) => tokens[req[r].token].revoked

Found(r) == req[r].rows \cup {t \in Ids : lock[t] = r}

Strangers ==
  \A r \in Requests : Revoking(r) =>
    \A s, t \in Found(r) : s <= minted /\ (Exists(s) => tokens[s].parent # t)

(* A row that was there has not changed its parent, and stays spent. *)
LEMMA OldRows ==
  ASSUME IInv, [Next]_vars, NEW x \in Ids, x <= minted
  PROVE  /\ minted <= minted'
         /\ Exists(x)' =>
              /\ Exists(x) /\ tokens'[x].parent = tokens[x].parent
              /\ tokens[x].revoked => tokens'[x].revoked
<1> USE NullIsNoRow, TokenConstants
<1> DEFINE Old(row) == row # Null =>
             Exists(x) /\ row.parent = tokens[x].parent /\ (tokens[x].revoked => row.revoked)
<1>t. TypeOK /\ Held
  BY DEF IInv
<1>0. minted \in Nat /\ (Exists(x) => tokens[x] \in Rows)
  BY <1>t, RowTypes DEF TypeOK
<1>1. CASE \A r \in Requests : ~Mint(r) /\ ~Rotate(r) /\ ~(Relink(r) /\ Exists(req[r].token))
  <2>1. Weakens
    BY <1>1, <1>t, OtherSteps
  <2>2. Weaker(x) /\ minted' = minted
    BY <2>1 DEF Weakens
  <2>3. QED
    BY <1>0, <2>2 DEF Weaker, Exists, Rows
<1>2. ASSUME NEW r \in Requests, Mint(r) \/ Rotate(r) \/ (Relink(r) /\ Exists(req[r].token))
      PROVE  minted <= minted' /\ Old(tokens'[x])
  <2>1. minted' = minted + 1 /\ New = minted + 1 /\ New # x
    <3>1. minted' = New
      BY <1>2, Zenon DEF Mint, Rotate, Relink, Issue
    <3>2. QED
      BY <1>0, <3>1 DEF New
  <2>2. CASE Mint(r)
    BY <1>t, <2>1, <2>2, <1>0 DEF Mint, Issue, TypeOK, Exists
  <2>3. CASE Rotate(r)
    <3> DEFINE t == req[r].token
               spent == [tokens EXCEPT ![t].revoked = TRUE, ![t].rotatedAt = req[r].at,
                                       ![t].replacedBy = New]
    <3>1. t \in Ids /\ Exists(t) /\ tokens[t] \in Rows
      BY <2>3, <1>t, RowTypes DEF Rotate, Held, TypeOK, Usable
    <3>2. DOMAIN spent = Ids /\ Old(spent[x])
      BY <1>0, <1>t, <3>1 DEF TypeOK, Exists, Rows
    <3>3. tokens' = [spent EXCEPT ![New] = Row(tokens[t].session, t)]
      BY <2>3 DEF Rotate, Issue
    <3> HIDE DEF spent
    <3>4. tokens'[x] = spent[x]
      BY <2>1, <3>2, <3>3
    <3>5. QED
      BY <1>0, <2>1, <3>2, <3>4
  <2>4. CASE Relink(r) /\ Exists(req[r].token)
    <3> DEFINE t == req[r].token
               dropped == [tokens EXCEPT ![req[r].succ].revoked = TRUE, ![t].replacedBy = New]
    <3>1. t \in Ids /\ req[r].succ \in Ids /\ Exists(t) /\ tokens[t] \in Rows
          /\ Exists(req[r].succ) /\ tokens[req[r].succ] \in Rows
      BY <2>4, <1>t, RowTypes DEF Relink, Held, TypeOK, Usable
    <3>2. DOMAIN dropped = Ids /\ Old(dropped[x])
      BY <1>0, <1>t, <3>1 DEF TypeOK, Exists, Rows
    <3>3. tokens' = [dropped EXCEPT ![New] = Row(tokens[t].session, t)]
      BY <2>4 DEF Relink, Issue
    <3> HIDE DEF dropped
    <3>4. tokens'[x] = dropped[x]
      BY <2>1, <3>2, <3>3
    <3>5. QED
      BY <1>0, <2>1, <3>2, <3>4
  <2>5. QED
    BY <1>2, <2>2, <2>3, <2>4
<1>3. QED
  BY <1>1, <1>2 DEF Exists

(* A request moves on by itself, and takes locks for itself only. *)
LEMMA OneActs ==
  ASSUME TypeOK, NEW a \in Requests, Start(a) \/ Continue(a) \/ Crash(a), NEW q \in Requests \ {a}
  PROVE  /\ req'[q] = req[q]
         /\ userLock' = q => userLock = q
         /\ \A t \in Ids : lock'[t] = q => lock[t] = q
<1> USE TokenConstants
<1>0. userLock' = q => userLock = q
  BY DEF Start, Continue, Login, Mint, Refresh, Claim, Rotate, GraceRead, Drop,
     Relink, Logout, FindDead, CommitPrune, ChangePassword, UpdateUser, LockRow, CommitPassword,
     RotatePassword, SetPassword, FindSessions, EndSessions, Crash
<1>1. req'[q] = req[q]
  BY DEF Start, Continue, Login, Mint, Refresh, Claim, Rotate, GraceRead, Drop,
     Relink, Logout, FindDead, CommitPrune, ChangePassword, UpdateUser, LockRow, CommitPassword,
     RotatePassword, SetPassword, FindSessions, EndSessions, Crash, Goto, End, TypeOK
<1>2. ASSUME NEW t \in Ids, lock'[t] = q PROVE lock[t] = q
  <2>u. ASSUME Unlock(a) PROVE lock[t] = q
    BY <1>2, <2>u DEF Unlock, TypeOK
  <2>k. ASSUME NEW y, lock' = [lock EXCEPT ![y] = a] PROVE lock[t] = q
    BY <1>2, <2>k DEF TypeOK
  <2>1. CASE Start(a) \/ Mint(a) \/ GraceRead(a) \/ FindDead(a) \/ UpdateUser(a) \/ SetPassword(a) \/ FindSessions(a)
    BY <1>2, <2>1 DEF Start, Login, ChangePassword, RotatePassword, Refresh, Logout, Mint, GraceRead, FindDead,
                UpdateUser, SetPassword, FindSessions
  <2>2. CASE Rotate(a) \/ Relink(a) \/ CommitPrune(a) \/ CommitPassword(a) \/ EndSessions(a) \/ Crash(a)
    BY <2>2, <2>u DEF Rotate, Relink, CommitPrune, CommitPassword, EndSessions, Crash
  <2>3. CASE Claim(a) \/ Drop(a) \/ LockRow(a)
    BY <1>2, <2>3, <2>k DEF Claim, Drop, LockRow
  <2>4. QED
    BY <2>1, <2>2, <2>3 DEF Continue
<1>3. QED
  BY <1>0, <1>1, <1>2

(* The one that acts locks a row and remembers it, or holds none. *)
LEMMA OneLocks ==
  ASSUME TypeOK, Locking, NEW a \in Requests, Start(a) \/ Continue(a) \/ Crash(a)
  PROVE  /\ \A t \in Ids : lock'[t] = a =>
              \/ req'[a].pc = "rotate" /\ req'[a].token = t
              \/ req'[a].pc = "relink" /\ req'[a].succ = t
              \/ req'[a].pc \in {"revoke", "end", "delete"} /\ t \notin req'[a].rows
         /\ userLock' = a => req'[a].pc = "revoke"
<1> USE TokenConstants
<1>0. req[a] \in RequestStates /\ a # Null
  BY DEF TypeOK
<1>g. ASSUME NEW state, Goto(a, state) PROVE req'[a] = state
  BY <1>g DEF Goto, TypeOK
<1>n. ASSUME req[a].pc \notin {"rotate", "relink", "revoke", "end", "delete"}
      PROVE  userLock # a /\ \A t \in Ids : lock[t] # a
  BY <1>n DEF Locking, LocksMany
<1>u. ASSUME Unlock(a) PROVE \A t \in Ids : lock'[t] # a
  BY <1>0, <1>u DEF Unlock, TypeOK
<1>1. CASE Start(a)
  <2>1. req[a] = Idle
    BY <1>1 DEF Start, Login, ChangePassword, RotatePassword, Refresh, Logout, MayStart
  <2>2. UNCHANGED <<lock, userLock>>
    BY <1>1 DEF Start, Login, ChangePassword, RotatePassword, Refresh, Logout
  <2>3. req[a].pc = "idle"
    BY <2>1 DEF Idle
  <2>4. QED
    BY <1>n, <2>2, <2>3
<1>2. CASE Mint(a) \/ GraceRead(a) \/ FindDead(a) \/ SetPassword(a) \/ FindSessions(a)
  <2>1. /\ req[a].pc \in {"mint", "grace", "prune", "set", "find"}
        /\ UNCHANGED <<lock, userLock>>
    BY <1>2 DEF Mint, GraceRead, FindDead, SetPassword, FindSessions
  <2>2. QED
    BY <1>n, <2>1
<1>3. CASE UpdateUser(a)
  <2>1. req[a].pc = "user" /\ UNCHANGED lock
        /\ req'[a] = [req[a] EXCEPT !.pc = "revoke", !.rows = {t \in Ids : Usable(t)}]
    BY <1>3, <1>g DEF UpdateUser
  <2>2. req'[a].pc = "revoke"
    BY <1>0, <2>1 DEF RequestStates
  <2>3. QED
    BY <1>n, <2>1, <2>2
<1>4. CASE Rotate(a) \/ Relink(a) \/ EndSessions(a) \/ CommitPrune(a)
  <2>1. userLock' = userLock /\ req[a].pc # "revoke" /\ Unlock(a)
    BY <1>4 DEF Rotate, Relink, EndSessions, CommitPrune
  <2>2. QED
    BY <1>u, <2>1 DEF Locking
<1>5. CASE CommitPassword(a) \/ Crash(a)
  <2>1. userLock' # a /\ Unlock(a)
    BY <1>0, <1>5 DEF CommitPassword, Crash
  <2>2. QED
    BY <1>u, <2>1
<1>6. CASE Claim(a)
  <2>1. req[a].pc = "claim" /\ userLock' = userLock
    BY <1>6 DEF Claim
  <2>2. CASE Usable(req[a].token)
    <3>1. /\ lock' = [lock EXCEPT ![req[a].token] = a]
          /\ req'[a] = [req[a] EXCEPT !.pc = "rotate", !.at = now]
      BY <1>6, <1>g, <2>2 DEF Claim
    <3>2. req'[a].pc = "rotate" /\ req'[a].token = req[a].token
      BY <1>0, <3>1 DEF RequestStates
    <3>3. \A t \in Ids : lock'[t] = a => t = req[a].token
      BY <1>n, <2>1, <3>1 DEF TypeOK
    <3>4. QED
      BY <1>n, <2>1, <3>2, <3>3
  <2>3. CASE ~Usable(req[a].token)
    BY <1>6, <1>n, <2>1, <2>3 DEF Claim
  <2>4. QED
    BY <2>2, <2>3
<1>7. CASE Drop(a)
  <2>1. req[a].pc = "drop" /\ userLock' = userLock
    BY <1>7 DEF Drop
  <2>2. CASE Usable(req[a].succ)
    <3>1. /\ lock' = [lock EXCEPT ![req[a].succ] = a]
          /\ req'[a] = [req[a] EXCEPT !.pc = "relink"]
      BY <1>7, <1>g, <2>2 DEF Drop
    <3>2. req'[a].pc = "relink" /\ req'[a].succ = req[a].succ
      BY <1>0, <3>1 DEF RequestStates
    <3>3. \A t \in Ids : lock'[t] = a => t = req[a].succ
      BY <1>n, <2>1, <3>1 DEF TypeOK
    <3>4. QED
      BY <1>n, <2>1, <3>2, <3>3
  <2>3. CASE ~Usable(req[a].succ)
    BY <1>7, <1>n, <2>1, <2>3 DEF Drop
  <2>4. QED
    BY <2>2, <2>3
<1>8. CASE LockRow(a)
  <2>1. PICK x \in req[a].rows :
          /\ lock' = IF Exists(x) THEN [lock EXCEPT ![x] = a] ELSE lock
          /\ req'[a] = [req[a] EXCEPT !.rows = @ \ {x}]
    BY <1>8, <1>g DEF LockRow
  <2>2. req'[a].pc = req[a].pc /\ req'[a].rows = req[a].rows \ {x}
    BY <1>0, <2>1 DEF RequestStates
  <2>3. req[a].pc \in {"revoke", "end", "delete"} /\ userLock' = userLock
    BY <1>8 DEF LockRow, LocksMany
  <2>4. \A t \in Ids : lock'[t] = a => t = x \/ lock[t] = a
    BY <2>1 DEF TypeOK
  <2>5. \A t \in Ids : lock[t] = a => t \notin req[a].rows
    BY <2>3 DEF Locking
  <2>6. QED
    BY <2>2, <2>3, <2>4, <2>5 DEF Locking
<1>9. QED
  BY <1>1, <1>2, <1>3, <1>4, <1>5, <1>6, <1>7, <1>8 DEF Continue

LEMMA LockingStep == IInv /\ Locking /\ [Next]_vars => Locking'
<1> SUFFICES ASSUME IInv, Locking, [Next]_vars PROVE Locking'
  OBVIOUS
<1>t. TypeOK
  BY DEF IInv
<1>1. CASE Tick \/ UNCHANGED vars
  BY <1>1 DEF Tick, vars, Locking, LocksMany
<1>2. ASSUME NEW a \in Requests, Start(a) \/ Continue(a) \/ Crash(a)
      PROVE  Locking'
  <2>1. ASSUME NEW q \in Requests, q # a
        PROVE  /\ req'[q] = req[q]
               /\ userLock' = q => userLock = q
               /\ \A t \in Ids : lock'[t] = q => lock[t] = q
    BY <1>t, <1>2, <2>1, OneActs
  <2>2. /\ \A t \in Ids : lock'[t] = a =>
              \/ req'[a].pc = "rotate" /\ req'[a].token = t
              \/ req'[a].pc = "relink" /\ req'[a].succ = t
              \/ req'[a].pc \in {"revoke", "end", "delete"} /\ t \notin req'[a].rows
        /\ userLock' = a => req'[a].pc = "revoke"
    BY <1>t, <1>2, OneLocks
  <2>3. QED
    BY <2>1, <2>2 DEF Locking, LocksMany
<1>3. QED
  BY <1>1, <1>2 DEF Next

(* A retry reads a token that was rotated, so the token is spent. *)
LEMMA SpentStep == IInv /\ Spent /\ [Next]_vars => Spent'
<1> SUFFICES ASSUME IInv, Spent, [Next]_vars, NEW q \in Requests, req'[q].pc \in {"drop", "relink"}
             PROVE  /\ req'[q].token <= minted'
                    /\ tokens'[req'[q].token] # Null => tokens'[req'[q].token].revoked
  BY DEF Spent, Exists
<1> USE TokenConstants
<1>t. TypeOK /\ TypeOK' /\ Family
  BY Inductive DEF IInv
<1> PICK x : x = req'[q].token
  OBVIOUS
<1>1. x = req[q].token /\ x \in Ids
  BY <1>t, RequestStep DEF TypeOK
<1>2. x <= minted /\ (Exists(x) => tokens[x].revoked)
  <2>1. CASE req[q].pc \in {"drop", "relink"}
    BY <1>1, <2>1 DEF Spent
  <2>2. CASE GraceRead(q) /\ Exists(x) /\ req[q].pc \notin {"drop", "relink"}
    <3>1. ~End(q)
      <4>1. ASSUME End(q) PROVE req'[q] = Idle
        BY <1>t, <4>1 DEF End, Goto, TypeOK
      <4>2. QED
        BY <4>1 DEF Idle
    <3>2. tokens[x].rotatedAt # Null
      BY <1>1, <2>2, <3>1 DEF GraceRead
    <3>3. QED
      BY <1>1, <1>t, <2>2, <3>2 DEF Family, Lineage
  <2>3. QED
    BY <1>1, <1>t, <2>1, <2>2, RequestStep
<1>3. /\ minted <= minted'
      /\ Exists(x)' => Exists(x) /\ (tokens[x].revoked => tokens'[x].revoked)
  BY <1>1, <1>2, OldRows
<1>4. x <= minted'
  BY <1>1, <1>2, <1>3, <1>t DEF TypeOK, Ids
<1>5. QED
  BY <1>2, <1>3, <1>4 DEF Exists

(* The rows of a revocation were usable together, so none is in the place of another. *)
LEMMA StrangersStep == IInv /\ Locking /\ Strangers /\ [Next]_vars => Strangers'
<1> SUFFICES ASSUME IInv, Locking, Strangers, [Next]_vars, NEW q \in Requests,
                    req'[q].pc \in {"revoke", "end"}
             PROVE  \A s, t \in Found(q)' : s <= minted' /\ (tokens'[s] # Null => tokens'[s].parent # t)
  BY DEF Strangers, Revoking, Exists
<1> USE TokenConstants
<1>t. TypeOK /\ TypeOK' /\ Family
  BY Inductive DEF IInv
<1>n. minted \in Nat /\ minted' \in Nat
  BY <1>t DEF TypeOK
<1>k. CASE Revoking(q) /\ Found(q)' \subseteq Found(q)
  <2> SUFFICES ASSUME NEW s \in Found(q)', NEW t \in Found(q)'
               PROVE  s <= minted' /\ (tokens'[s] # Null => tokens'[s].parent # t)
    OBVIOUS
  <2>1. s \in Found(q) /\ t \in Found(q) /\ s \in Ids
    BY <1>k, <1>t DEF Found, TypeOK, RequestStates
  <2>2. s <= minted /\ (Exists(s) => tokens[s].parent # t)
    BY <1>k, <2>1 DEF Strangers
  <2>3. minted <= minted' /\ (Exists(s)' => Exists(s) /\ tokens'[s].parent = tokens[s].parent)
    BY <2>1, <2>2, OldRows
  <2>4. QED
    BY <1>n, <2>1, <2>2, <2>3 DEF Exists, Ids
<1>f. CASE /\ req'[q].rows = {t \in Ids : Usable(t)} /\ UNCHANGED <<tokens, minted, lock>>
           /\ \A t \in Ids : lock[t] # q
  <2>1. \A s \in Found(q)' : s \in Ids /\ Usable(s)
    BY <1>f DEF Found
  <2>2. \A s \in Ids : Usable(s) => s <= minted /\ ~tokens[s].revoked
    BY <1>t DEF Family, Lineage, Usable
  <2>3. \A s, t \in Ids : Usable(s) /\ Usable(t) => tokens[s].parent # t
    BY <1>t DEF Family, Lineage, Usable
  <2>4. QED
    BY <1>f, <2>1, <2>2, <2>3
<1>1. CASE Tick \/ UNCHANGED vars
  BY <1>1, <1>k DEF Tick, vars, Found, Revoking
<1>2. ASSUME NEW a \in Requests, a # q, Start(a) \/ Continue(a) \/ Crash(a)
      PROVE  Revoking(q) /\ Found(q)' \subseteq Found(q)
  <2>1. req'[q] = req[q] /\ \A t \in Ids : lock'[t] = q => lock[t] = q
    BY <1>t, <1>2, OneActs
  <2>2. QED
    BY <2>1 DEF Found, Revoking
<1>3. CASE Start(q) \/ Continue(q) \/ Crash(q)
  <2>0. req[q] \in RequestStates
    BY <1>t DEF TypeOK
  <2>g. ASSUME NEW state, Goto(q, state) PROVE req'[q] = state
    BY <2>g, <1>t DEF Goto, TypeOK
  <2>i. ~End(q)
    BY <2>g DEF End, Idle
  <2>1. CASE UpdateUser(q) \/ FindSessions(q)
    <3>1. PICK pc \in {"revoke", "end"} :
            req'[q] = [req[q] EXCEPT !.pc = pc, !.rows = {t \in Ids : Usable(t)}]
      BY <2>1, <2>g DEF UpdateUser, FindSessions
    <3>2. req'[q].rows = {t \in Ids : Usable(t)}
      BY <2>0, <3>1 DEF RequestStates
    <3>3. req[q].pc \in {"user", "find"} /\ UNCHANGED <<tokens, minted, lock>>
      BY <2>1 DEF UpdateUser, FindSessions
    <3>4. \A t \in Ids : lock[t] # q
      BY <3>3 DEF Locking, LocksMany
    <3>5. QED
      BY <1>f, <3>2, <3>3, <3>4
  <2>2. CASE LockRow(q)
    <3>1. PICK x \in req[q].rows :
            /\ lock' = IF Exists(x) THEN [lock EXCEPT ![x] = q] ELSE lock
            /\ req'[q] = [req[q] EXCEPT !.rows = @ \ {x}]
      BY <2>2, <2>g DEF LockRow
    <3>2. req'[q].rows = req[q].rows \ {x} /\ req'[q].pc = req[q].pc
      BY <2>0, <3>1 DEF RequestStates
    <3>3. Found(q)' \subseteq Found(q)
      BY <1>t, <3>1, <3>2 DEF Found, TypeOK
    <3>4. Revoking(q)
      BY <3>2 DEF Revoking
    <3>5. QED
      BY <1>k, <3>3, <3>4
  <2>3. CASE Start(q) \/ CommitPassword(q) \/ SetPassword(q)
    <3>1. req'[q].pc \in {"mint", "grace", "claim", "user", "prune", "set", "find"}
      BY <2>3, <2>g, ZenonT(40) DEF Start, Login, Refresh, ChangePassword, RotatePassword, Logout, CommitPassword, SetPassword, Idle
    <3>2. QED
      BY <3>1
  <2>4. CASE Claim(q)
    <3>1. \/ req'[q] = [req[q] EXCEPT !.pc = "rotate", !.at = now]
          \/ req'[q] = [req[q] EXCEPT !.pc = "grace"]
      BY <2>4, <2>g DEF Claim
    <3>2. QED
      BY <2>0, <3>1 DEF RequestStates
  <2>5. CASE GraceRead(q)
    <3>1. PICK x : req'[q] = [req[q] EXCEPT !.pc = "drop", !.succ = x]
      BY <2>5, <2>g, <2>i DEF GraceRead
    <3>2. QED
      BY <2>0, <3>1 DEF RequestStates
  <2>6. CASE Drop(q)
    <3>1. req'[q] = [req[q] EXCEPT !.pc = "relink"]
      BY <2>6, <2>g, <2>i DEF Drop
    <3>2. QED
      BY <2>0, <3>1 DEF RequestStates
  <2>7. CASE Mint(q) \/ Rotate(q) \/ Relink(q) \/ CommitPrune(q) \/ EndSessions(q) \/ Crash(q)
    BY <2>7, <2>i DEF Mint, Rotate, Relink, CommitPrune, EndSessions, Crash
  <2>8. CASE FindDead(q)
    <3>1. req'[q] = [req[q] EXCEPT !.pc = "delete", !.rows = {t \in Ids : Dead(t)}]
      BY <2>8, <2>g DEF FindDead
    <3>2. QED
      BY <2>0, <3>1 DEF RequestStates
  <2>9. QED
    BY <1>3, <2>1, <2>2, <2>3, <2>4, <2>5, <2>6, <2>7, <2>8 DEF Continue
<1>4. QED
  BY <1>1, <1>k, <1>2, <1>3 DEF Next

(* Each of a circle waits for a request that holds a row or the user's row, and is in
   the circle itself: so it is a retry, which can only wait for a revocation, or a
   revocation, of which there is one, and which waits for no retry that waits for it. *)
LEMMA NobodyWaits ==
  ASSUME IInv, Ending, Locking, Spent, Strangers
  PROVE  NoCircularWait
<1> SUFFICES ASSUME NEW circle \in SUBSET Requests, circle # {},
                    \A q \in circle : \E r \in circle : WaitsFor(q, r),
                    \A r \in circle : req[r].pc # "delete",
                    ~\E q, r \in circle : q # r /\ Revoking(q) /\ req[r].pc = "end"
             PROVE  FALSE
  BY DEF NoCircularWait
<1> USE TokenConstants
<1>t. TypeOK /\ Held /\ Remembered
  BY DEF IInv
<1>1. \A r \in circle : req[r].pc # "rotate"
  BY DEF WaitsFor, Wants, LocksMany
<1>2. ASSUME NEW q \in circle, NEW r \in circle, Revoking(q), Revoking(r)
      PROVE  q = r
  BY <1>2 DEF Revoking, Ending
<1>3. ASSUME NEW r \in circle, NEW t \in Ids, lock[t] = r
      PROVE  Revoking(r) \/ (req[r].pc = "relink" /\ req[r].succ = t)
  BY <1>1, <1>3 DEF Locking, LocksMany, Revoking
<1>4. ASSUME NEW q \in circle, req[q].pc = "relink"
      PROVE  \E v \in circle : Revoking(v) /\ lock[req[q].token] = v
  <2>1. req[q].token \in Ids
    BY <1>4, <1>t DEF TypeOK
  <2>2. PICK v \in circle : lock[req[q].token] = v
    BY <1>4 DEF WaitsFor, Wants, LocksMany
  <2>3. ~Usable(req[q].token)
    BY <1>4 DEF Spent, Usable
  <2>4. ~(req[v].pc = "relink" /\ req[v].succ = req[q].token)
    BY <1>t, <2>3 DEF Held
  <2>5. QED
    BY <1>3, <2>1, <2>2, <2>4
<1>5. ASSUME NEW v \in circle, Revoking(v)
      PROVE  FALSE
  <2>1. PICK x \in circle : x # v /\ \E t \in req[v].rows : t \in Ids /\ lock[t] = x
    BY <1>5 DEF WaitsFor, Wants, LocksMany, Revoking
  <2>2. PICK u \in req[v].rows : u \in Ids /\ lock[u] = x
    BY <2>1
  <2>3. req[x].pc = "relink" /\ req[x].succ = u
    BY <1>2, <1>3, <1>5, <2>1, <2>2
  <2>4. lock[req[x].token] = v /\ req[x].token \in Ids
    BY <1>2, <1>4, <1>5, <1>t, <2>3 DEF TypeOK
  <2>5. Exists(u) /\ tokens[u].parent = req[x].token
    BY <1>t, <2>3 DEF Held, Remembered, Usable
  <2>6. u \in Found(v) /\ req[x].token \in Found(v)
    BY <2>2, <2>4 DEF Found
  <2>7. QED
    BY <1>5, <2>5, <2>6 DEF Strangers
<1>6. PICK q \in circle : TRUE
  OBVIOUS
<1>7. PICK r \in circle : (\E t \in Ids : lock[t] = r) \/ userLock = r
  BY <1>6 DEF WaitsFor, Wants
<1>8. CASE userLock = r
  <2>1. Revoking(r)
    BY <1>8 DEF Locking, Revoking
  <2>2. QED
    BY <1>5, <2>1
<1>9. CASE \E t \in Ids : lock[t] = r
  BY <1>3, <1>4, <1>5, <1>9
<1>10. QED
  BY <1>7, <1>8, <1>9

(* Retries, rotations and changes of a password never wait for each other in a circle,
   however many there are and in whatever order a change locks its rows: a circle has a
   prune in it, or two revocations that the user's row does not keep apart. *)
THEOREM NoCircle == Spec => []NoCircularWait
<1>1. Init => Locking /\ Spent /\ Strangers
  <2> SUFFICES ASSUME Init PROVE Locking /\ Spent /\ Strangers
    OBVIOUS
  <2>1. \A r \in Requests : req[r].pc = "idle"
    BY DEF Init, Idle
  <2>2. QED
    BY <2>1, TokenConstants DEF Init, Locking, Spent, Strangers, Revoking
<1>2. IInv /\ (Locking /\ Spent /\ Strangers) /\ [Next]_vars => (Locking /\ Spent /\ Strangers)'
  BY LockingStep, SpentStep, StrangersStep
<1>3. Spec => [](Locking /\ Spent /\ Strangers)
  BY <1>1, <1>2, Always, PTL DEF Spec
<1>4. IInv /\ Ending /\ (Locking /\ Spent /\ Strangers) => NoCircularWait
  <2> SUFFICES ASSUME IInv, Ending, Locking, Spent, Strangers PROVE NoCircularWait
    OBVIOUS
  <2>1. QED
    BY NobodyWaits
<1>5. QED
  BY <1>3, <1>4, Always, EndingAlways, PTL
=============================================================================
