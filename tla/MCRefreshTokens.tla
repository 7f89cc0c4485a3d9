--------------------------- MODULE MCRefreshTokens ---------------------------
(* Small instances of RefreshTokens: requests are interchangeable. *)
EXTENDS RefreshTokens, TLC

Symmetry == Permutations(Requests)

(* States that differ only in history no guard reads are one state: whom a logout was
   answered for, and the password under which a row that is no longer usable was issued,
   for a revoked row is never usable again. *)
Behaviour ==
  <<now, password, owed, minted, lock, userLock, req,
    [t \in Ids |-> IF Exists(t) THEN <<tokens[t].session, tokens[t].parent, tokens[t].createdAt,
                                       tokens[t].revoked, tokens[t].rotatedAt, tokens[t].replacedBy>>
                   ELSE <<>>],
    [t \in Ids |-> IF Usable(t) THEN <<tokens[t].password, tokens[t].amid>> ELSE <<>>]>>
=============================================================================
