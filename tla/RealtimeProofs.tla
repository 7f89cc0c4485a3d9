---------------------------- MODULE RealtimeProofs ----------------------------
(***************************************************************************)
(* Proofs about Realtime, for any number of sockets and members: what the  *)
(* server counts, what clients show, who knows whom in a call.             *)
(*                                                                         *)
(* A socket's registration may come after its disconnect, because the      *)
(* handler awaits in between.  Links says which sockets that can happen    *)
(* to; with it, each of the properties is inductive.                       *)
(***************************************************************************)
EXTENDS Realtime, FiniteSetTheorems, TLAPS

(* What a connection's link says of its handler: a socket goes down early when it
   goes down before the handler has run to its end. *)
Links ==
  \A s \in Sockets :
    /\ stage[s] = "new" => (~Up(s) /\ s \notin early)
    /\ Up(s) => s \notin early
    /\ (stage[s] \in {"chat:authenticate", "chat:rooms"} /\ ~Up(s)) => s \in early
    /\ (s \in joining \/ s \in callRoom) => stage[s] = "call"

CallIsFinite == IsFiniteSet(room) /\ Cardinality(room) <= MaxParticipants

IInv == TypeOK /\ Links /\ SocketsAreCounted /\ DotsAreRight /\ PeersAgree

(* Every action but Disconnect by its own name; a disconnect by what it undoes. *)
LEMMA Steps ==
  ASSUME [Next]_vars
  PROVE  \/ UNCHANGED vars
         \/ \E s \in Sockets :
              \/ Connect(s) \/ Reject(s) \/ Register(s)
              \/ \E m \in Members : AuthenticateChat(s, m) \/ AuthenticateCall(s, m)
              \/ Disconnect(s) /\ (Unknown(s) \/ GoOffline(s) \/ LeaveCalls(s))
              \/ AskToJoin(s) \/ RefuseJoin(s) \/ Join(s) \/ Leave(s)
BY DEF Next, Handle, Disconnect

(* The strengthened invariant holds before any socket connects. *)
LEMMA InitHolds == Init => IInv
BY DEF Init, IInv, TypeOK, Links, SocketsAreCounted, DotsAreRight, PeersAgree, Up, Watchers, Stages

(* One case per action: each assignment keeps its variable's type. *)
LEMMA TypeStep ==
  ASSUME TypeOK, Links, [Next]_vars
  PROVE  TypeOK'
<1> USE DEF TypeOK, Stages, chat, call
<1>1. CASE UNCHANGED vars
  BY <1>1 DEF vars
<1>2. ASSUME NEW s \in Sockets, Connect(s)
      PROVE  TypeOK'
  BY <1>2 DEF Connect
<1>3. ASSUME NEW s \in Sockets, Reject(s)
      PROVE  TypeOK'
  BY <1>3 DEF Reject
<1>4. ASSUME NEW s \in Sockets, NEW m \in Members, AuthenticateChat(s, m)
      PROVE  TypeOK'
  BY <1>4 DEF AuthenticateChat
<1>5. ASSUME NEW s \in Sockets, NEW m \in Members, AuthenticateCall(s, m)
      PROVE  TypeOK'
  BY <1>5 DEF AuthenticateCall
<1>6. ASSUME NEW s \in Sockets, Register(s)
      PROVE  TypeOK'
  BY <1>6 DEF Register, Add, Watchers, Snapshot
<1>7. ASSUME NEW s \in Sockets, Disconnect(s), Unknown(s)
      PROVE  TypeOK'
  BY <1>7 DEF Disconnect, Unknown
<1>8. ASSUME NEW s \in Sockets, Disconnect(s), GoOffline(s)
      PROVE  TypeOK'
  BY <1>8 DEF Disconnect, GoOffline, Drop, Watchers
<1>9. ASSUME NEW s \in Sockets, Disconnect(s), LeaveCalls(s)
      PROVE  TypeOK'
  BY <1>9 DEF Disconnect, LeaveCalls, Told
<1>10. ASSUME NEW s \in Sockets, AskToJoin(s) \/ RefuseJoin(s)
       PROVE  TypeOK'
  BY <1>10 DEF AskToJoin, RefuseJoin
<1>11. ASSUME NEW s \in Sockets, Join(s)
       PROVE  TypeOK'
  BY <1>11 DEF Join, Links
<1>12. ASSUME NEW s \in Sockets, Leave(s)
       PROVE  TypeOK'
  BY <1>12 DEF Leave, Told
<1>13. QED
  BY <1>1, <1>2, <1>3, <1>4, <1>5, <1>6, <1>7, <1>8, <1>9, <1>10, <1>11, <1>12, Steps

(* One case per action: what a connection's link says of its handler is kept. *)
LEMMA LinksStep ==
  ASSUME TypeOK, Links, [Next]_vars
  PROVE  Links'
<1> USE DEF TypeOK, Stages, Links, Up, chat, call
<1>1. CASE UNCHANGED vars
  BY <1>1 DEF vars
<1>2. ASSUME NEW s \in Sockets, Connect(s)
      PROVE  Links'
  <2>1. stage[s] = "new" /\ s \notin early /\ s \notin joining /\ s \notin callRoom
    BY <1>2 DEF Connect
  <2>2. /\ link'[s] = "up" /\ stage'[s] \in {"chat:authenticate", "call:authenticate"}
        /\ \A t \in Sockets \ {s} : stage'[t] = stage[t] /\ link'[t] = link[t]
    BY <1>2 DEF Connect
  <2>3. early' = early /\ joining' = joining /\ callRoom' = callRoom
    BY <1>2 DEF Connect
  <2>4. QED
    BY <2>1, <2>2, <2>3
<1>3. ASSUME NEW s \in Sockets, Reject(s)
      PROVE  Links'
  BY <1>3 DEF Reject
<1>4. ASSUME NEW s \in Sockets, NEW m \in Members, AuthenticateChat(s, m)
      PROVE  Links'
  <2>1. stage[s] = "chat:authenticate" /\ s \notin joining /\ s \notin callRoom
    BY <1>4 DEF AuthenticateChat
  <2>2. stage'[s] = "chat:rooms" /\ \A t \in Sockets \ {s} : stage'[t] = stage[t]
    BY <1>4 DEF AuthenticateChat
  <2>3. link' = link /\ early' = early /\ joining' = joining /\ callRoom' = callRoom
    BY <1>4 DEF AuthenticateChat
  <2>4. QED
    BY <2>1, <2>2, <2>3
<1>5. ASSUME NEW s \in Sockets, NEW m \in Members, AuthenticateCall(s, m)
      PROVE  Links'
  BY <1>5 DEF AuthenticateCall
<1>6. ASSUME NEW s \in Sockets, Register(s)
      PROVE  Links'
  BY <1>6 DEF Register
<1>7. ASSUME NEW s \in Sockets, Disconnect(s), Unknown(s)
      PROVE  Links'
  BY <1>7 DEF Disconnect, Unknown
<1>8. ASSUME NEW s \in Sockets, Disconnect(s), GoOffline(s)
      PROVE  Links'
  BY <1>8 DEF Disconnect, GoOffline
<1>9. ASSUME NEW s \in Sockets, Disconnect(s), LeaveCalls(s)
      PROVE  Links'
  BY <1>9 DEF Disconnect, LeaveCalls
<1>10. ASSUME NEW s \in Sockets, AskToJoin(s)
       PROVE  Links'
  BY <1>10 DEF AskToJoin
<1>11. ASSUME NEW s \in Sockets, RefuseJoin(s)
       PROVE  Links'
  BY <1>11 DEF RefuseJoin
<1>12. ASSUME NEW s \in Sockets, Join(s)
       PROVE  Links'
  BY <1>12 DEF Join
<1>13. ASSUME NEW s \in Sockets, Leave(s)
       PROVE  Links'
  BY <1>13 DEF Leave
<1>14. QED
  BY <1>1, <1>2, <1>3, <1>4, <1>5, <1>6, <1>7, <1>8, <1>9, <1>10, <1>11, <1>12, <1>13, Steps

(* Registering adds the socket to its own member's sets, and it is open or early. *)
LEMMA CountRegister ==
  ASSUME TypeOK, Links, SocketsAreCounted, NEW s \in Sockets, Register(s)
  PROVE  SocketsAreCounted'
<1>1. stage[s] = "chat:rooms" /\ owner[s] \in Members /\ (Up(s) \/ s \in early)
  BY DEF TypeOK, Links, Register
<1>2. stage'[s] = "chat" /\ \A t \in Sockets \ {s} : stage'[t] = stage[t]
  BY DEF TypeOK, Register
<1>3. owner' = owner /\ link' = link /\ early' = early
  BY DEF Register
<1>4. ASSUME NEW m \in Members
      PROVE  /\ presence'[m] = {t \in Sockets : owner'[t] = m /\ stage'[t] = "chat" /\ (Up(t)' \/ t \in early')}
             /\ online'[m] = presence'[m]
  <2> DEFINE Own == {t \in Sockets : owner[t] = m /\ stage[t] = "chat" /\ (Up(t) \/ t \in early)}
  <2>1. presence[m] = Own /\ online[m] = Own
    BY DEF SocketsAreCounted
  <2>2. CASE m = owner[s]
    <3>1. presence'[m] = presence[m] \cup {s} /\ online'[m] = online[m] \cup {s}
      BY <2>2, <1>1 DEF Register, Add, TypeOK
    <3>2. {t \in Sockets : owner'[t] = m /\ stage'[t] = "chat" /\ (Up(t)' \/ t \in early')} = Own \cup {s}
      BY <1>1, <1>2, <1>3, <2>2 DEF Up
    <3>3. QED
      BY <2>1, <3>1, <3>2
  <2>3. CASE m # owner[s]
    <3>1. presence'[m] = presence[m] /\ online'[m] = online[m]
      BY <2>3, <1>1 DEF Register, Add, TypeOK
    <3>2. {t \in Sockets : owner'[t] = m /\ stage'[t] = "chat" /\ (Up(t)' \/ t \in early')} = Own
      BY <1>1, <1>2, <1>3, <2>3 DEF Up
    <3>3. QED
      BY <2>1, <3>1, <3>2
  <2>4. QED
    BY <2>2, <2>3
<1>5. QED
  BY <1>4 DEF SocketsAreCounted

(* One case per action; only a registration and a disconnect touch the maps. *)
LEMMA CountStep ==
  ASSUME TypeOK, Links, SocketsAreCounted, [Next]_vars
  PROVE  SocketsAreCounted'
<1> USE DEF TypeOK, Stages, Links, SocketsAreCounted, Up, chat, call
<1>1. CASE UNCHANGED vars
  BY <1>1 DEF vars
<1>2. ASSUME NEW s \in Sockets, Connect(s)
      PROVE  SocketsAreCounted'
  BY <1>2 DEF Connect
<1>3. ASSUME NEW s \in Sockets, Reject(s)
      PROVE  SocketsAreCounted'
  BY <1>3 DEF Reject
<1>4. ASSUME NEW s \in Sockets, NEW m \in Members, AuthenticateChat(s, m)
      PROVE  SocketsAreCounted'
  BY <1>4 DEF AuthenticateChat
<1>5. ASSUME NEW s \in Sockets, NEW m \in Members, AuthenticateCall(s, m)
      PROVE  SocketsAreCounted'
  BY <1>5 DEF AuthenticateCall
<1>6. ASSUME NEW s \in Sockets, Register(s)
      PROVE  SocketsAreCounted'
  BY <1>6, CountRegister
<1>7. ASSUME NEW s \in Sockets, Disconnect(s), Unknown(s)
      PROVE  SocketsAreCounted'
  BY <1>7 DEF Disconnect, Unknown
<1>8. ASSUME NEW s \in Sockets, Disconnect(s), GoOffline(s)
      PROVE  SocketsAreCounted'
  BY <1>8, ZenonT(40) DEF Disconnect, GoOffline, Drop
<1>9. ASSUME NEW s \in Sockets, Disconnect(s), LeaveCalls(s)
      PROVE  SocketsAreCounted'
  BY <1>9 DEF Disconnect, LeaveCalls
<1>10. ASSUME NEW s \in Sockets, AskToJoin(s)
       PROVE  SocketsAreCounted'
  BY <1>10 DEF AskToJoin
<1>11. ASSUME NEW s \in Sockets, RefuseJoin(s)
       PROVE  SocketsAreCounted'
  BY <1>11 DEF RefuseJoin
<1>12. ASSUME NEW s \in Sockets, Join(s)
       PROVE  SocketsAreCounted'
  BY <1>12 DEF Join
<1>13. ASSUME NEW s \in Sockets, Leave(s)
       PROVE  SocketsAreCounted'
  BY <1>13 DEF Leave
<1>14. QED
  BY <1>1, <1>2, <1>3, <1>4, <1>5, <1>6, <1>7, <1>8, <1>9, <1>10, <1>11, <1>12, <1>13, Steps

(* One case per action: a member's first and last socket are told to the watchers. *)
LEMMA DotsStep ==
  ASSUME TypeOK, Links, SocketsAreCounted, DotsAreRight, [Next]_vars
  PROVE  DotsAreRight'
<1> USE DEF TypeOK, Stages, Links, SocketsAreCounted, DotsAreRight, Watchers, Snapshot, Up, chat, call
<1>1. CASE UNCHANGED vars
  BY <1>1 DEF vars
<1>2. ASSUME NEW s \in Sockets, Connect(s)
      PROVE  DotsAreRight'
  BY <1>2 DEF Connect
<1>3. ASSUME NEW s \in Sockets, Reject(s)
      PROVE  DotsAreRight'
  BY <1>3 DEF Reject
<1>4. ASSUME NEW s \in Sockets, NEW m \in Members, AuthenticateChat(s, m)
      PROVE  DotsAreRight'
  BY <1>4 DEF AuthenticateChat
<1>5. ASSUME NEW s \in Sockets, NEW m \in Members, AuthenticateCall(s, m)
      PROVE  DotsAreRight'
  BY <1>5 DEF AuthenticateCall
<1>6. ASSUME NEW s \in Sockets, Register(s)
      PROVE  DotsAreRight'
  BY <1>6 DEF Register, Add
<1>7. ASSUME NEW s \in Sockets, Disconnect(s), Unknown(s)
      PROVE  DotsAreRight'
  BY <1>7 DEF Disconnect, Unknown
<1>8. ASSUME NEW s \in Sockets, Disconnect(s), GoOffline(s)
      PROVE  DotsAreRight'
  BY <1>8 DEF Disconnect, GoOffline, Drop
<1>9. ASSUME NEW s \in Sockets, Disconnect(s), LeaveCalls(s)
      PROVE  DotsAreRight'
  BY <1>9 DEF Disconnect, LeaveCalls
<1>10. ASSUME NEW s \in Sockets, AskToJoin(s)
       PROVE  DotsAreRight'
  BY <1>10 DEF AskToJoin
<1>11. ASSUME NEW s \in Sockets, RefuseJoin(s)
       PROVE  DotsAreRight'
  BY <1>11 DEF RefuseJoin
<1>12. ASSUME NEW s \in Sockets, Join(s)
       PROVE  DotsAreRight'
  BY <1>12 DEF Join
<1>13. ASSUME NEW s \in Sockets, Leave(s)
       PROVE  DotsAreRight'
  BY <1>13 DEF Leave
<1>14. QED
  BY <1>1, <1>2, <1>3, <1>4, <1>5, <1>6, <1>7, <1>8, <1>9, <1>10, <1>11, <1>12, <1>13, Steps

(* One case per action: joins and leaves are told to the sockets in the call. *)
LEMMA PeersStep ==
  ASSUME TypeOK, Links, PeersAgree, [Next]_vars
  PROVE  PeersAgree'
<1> USE DEF TypeOK, Stages, Links, PeersAgree, Up, chat, call
<1>1. CASE UNCHANGED vars
  BY <1>1 DEF vars
<1>2. ASSUME NEW s \in Sockets, Connect(s)
      PROVE  PeersAgree'
  BY <1>2 DEF Connect
<1>3. ASSUME NEW s \in Sockets, Reject(s)
      PROVE  PeersAgree'
  BY <1>3 DEF Reject
<1>4. ASSUME NEW s \in Sockets, NEW m \in Members, AuthenticateChat(s, m)
      PROVE  PeersAgree'
  BY <1>4 DEF AuthenticateChat
<1>5. ASSUME NEW s \in Sockets, NEW m \in Members, AuthenticateCall(s, m)
      PROVE  PeersAgree'
  BY <1>5 DEF AuthenticateCall
<1>6. ASSUME NEW s \in Sockets, Register(s)
      PROVE  PeersAgree'
  BY <1>6 DEF Register
<1>7. ASSUME NEW s \in Sockets, Disconnect(s), Unknown(s)
      PROVE  PeersAgree'
  BY <1>7 DEF Disconnect, Unknown
<1>8. ASSUME NEW s \in Sockets, Disconnect(s), GoOffline(s)
      PROVE  PeersAgree'
  BY <1>8 DEF Disconnect, GoOffline
<1>9. ASSUME NEW s \in Sockets, Disconnect(s), LeaveCalls(s)
      PROVE  PeersAgree'
  BY <1>9 DEF Disconnect, LeaveCalls, Told
<1>10. ASSUME NEW s \in Sockets, AskToJoin(s)
       PROVE  PeersAgree'
  BY <1>10 DEF AskToJoin
<1>11. ASSUME NEW s \in Sockets, RefuseJoin(s)
       PROVE  PeersAgree'
  BY <1>11 DEF RefuseJoin
<1>12. ASSUME NEW s \in Sockets, Join(s)
       PROVE  PeersAgree'
  BY <1>12 DEF Join
<1>13. ASSUME NEW s \in Sockets, Leave(s)
       PROVE  PeersAgree'
  BY <1>13 DEF Leave, Told
<1>14. QED
  BY <1>1, <1>2, <1>3, <1>4, <1>5, <1>6, <1>7, <1>8, <1>9, <1>10, <1>11, <1>12, <1>13, Steps

(* Joining adds one member to a room that is not full, or one already there. *)
LEMMA LimitStep ==
  ASSUME CallIsFinite, [Next]_vars
  PROVE  CallIsFinite'
<1> USE CallHasRoom DEF CallIsFinite
<1>1. \/ room' = room
      \/ \E m : room' = room \ {m}
      \/ \E m : room' = room \cup {m} /\ ~Full(m)
  BY Steps DEF vars, chat, call, Connect, Reject, Register, AuthenticateChat, AuthenticateCall, Unknown,
       GoOffline, LeaveCalls, AskToJoin, RefuseJoin, Join, Leave
<1>2. CASE room' = room
  BY <1>2
<1>3. ASSUME NEW m, room' = room \ {m}
      PROVE  CallIsFinite'
  BY <1>3, FS_RemoveElement, FS_CardinalityType
<1>4. ASSUME NEW m, room' = room \cup {m}, ~Full(m)
      PROVE  CallIsFinite'
  <2>1. IsFiniteSet(room') /\ Cardinality(room') = (IF m \in room THEN Cardinality(room) ELSE Cardinality(room) + 1)
    BY <1>4, FS_AddElement
  <2>2. Cardinality(room) \in Nat
    BY FS_CardinalityType
  <2>3. m \in room \/ Cardinality(room) < MaxParticipants
    BY <1>4, <2>2 DEF Full
  <2>4. QED
    BY <2>1, <2>2, <2>3
<1>5. QED
  BY <1>1, <1>2, <1>3, <1>4

(* The strengthened invariant is inductive. *)
LEMMA Invariance == Spec => []IInv
<1>1. Init => IInv
  BY InitHolds
<1>2. IInv /\ [Next]_vars => IInv'
  BY TypeStep, LinksStep, CountStep, DotsStep, PeersStep DEF IInv
<1>3. QED
  BY <1>1, <1>2, PTL DEF Spec

(* Every variable keeps its type, whichever handlers interleave. *)
THEOREM TypesHold == Spec => []TypeOK
<1>1. IInv => TypeOK
  BY DEF IInv
<1>2. QED
  BY <1>1, Invariance, PTL

(* Both maps list a member's open sockets and the sockets that closed while their
   handler was awaiting, and no others (handleConnection, handleDisconnect). *)
THEOREM SocketsAreAlwaysCounted == Spec => []SocketsAreCounted
<1>1. IInv => SocketsAreCounted
  BY DEF IInv
<1>2. QED
  BY <1>1, Invariance, PTL

(* A connected client shows as online exactly the members the server counts
   (presence:snapshot, presence:update). *)
THEOREM DotsAreAlwaysRight == Spec => []DotsAreRight
<1>1. IInv => DotsAreRight
  BY DEF IInv
<1>2. QED
  BY <1>1, Invariance, PTL

(* Each client in a call knows the others the server lists, and only them
   (call:room-join's answer, call:peer-join, call:peer-leave). *)
THEOREM PeersAlwaysAgree == Spec => []PeersAgree
<1>1. IInv => PeersAgree
  BY DEF IInv
<1>2. QED
  BY <1>1, Invariance, PTL

(* A call never has more than MAX_PARTICIPANTS members: the check and the entry
   are one step, after the await. *)
THEOREM CallStaysWithinLimit == Spec => []CallWithinLimit
<1>1. Init => CallIsFinite
  BY FS_EmptySet, CallHasRoom DEF Init, CallIsFinite
<1>2. CallIsFinite /\ [Next]_vars => CallIsFinite'
  BY LimitStep
<1>3. CallIsFinite => CallWithinLimit
  BY DEF CallIsFinite, CallWithinLimit
<1>4. QED
  BY <1>1, <1>2, <1>3, PTL DEF Spec
=============================================================================
