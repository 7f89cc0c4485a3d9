------------------------------- MODULE Requests -------------------------------
(***************************************************************************)
(* How the API serves requests: one process, whose handlers are            *)
(* asynchronous functions.  A handler is a sequence of database statements *)
(* with an await after each, and any other handler may run at an await: so *)
(* a statement is one step, and what a handler has read so far is in its   *)
(* record.  The reads a request begins with are one step, its arrival: a   *)
(* request they refuse changes nothing and does not appear.  A restart of  *)
(* the process forgets every request under way.                            *)
(***************************************************************************)
EXTENDS Naturals

CONSTANTS
  Null,         \* also: the state of a handler that serves nothing
  Handlers,     \* how many requests may be under way at a time
  MaxRequests   \* how many are served in a behaviour

ASSUME RequestsAreCounted == MaxRequests \in Nat

VARIABLES
  request,      \* handler -> what it has read, and the step it awaits
  served

InitRequests == request = [h \in Handlers |-> Null] /\ served = 0

(* A request arrives, passes its first reads and goes on with r. *)
Free(h) == request[h] = Null /\ served < MaxRequests

Take(h, r) ==
  /\ Free(h)
  /\ request' = [request EXCEPT ![h] = r] /\ served' = served + 1

At(h, step) == request[h] # Null /\ request[h].at = step

Await(h, r) == request' = [request EXCEPT ![h] = r] /\ UNCHANGED served

Answer(h) == request' = [request EXCEPT ![h] = Null] /\ UNCHANGED served

(* The process dies and is started again. *)
Die ==
  /\ \E h \in Handlers : request[h] # Null
  /\ request' = [h \in Handlers |-> Null] /\ UNCHANGED served

Quiet == \A h \in Handlers : request[h] = Null
=============================================================================
