------------------------------- MODULE Realtime -------------------------------
(***************************************************************************)
(* The sockets of one workspace: ChatGateway and the two maps that count a *)
(* member's chat sockets (realtime.module.ts, presence.module.ts), and the *)
(* group call of one conversation (CallGateway).                           *)
(*                                                                         *)
(* The server is one process and its handlers are asynchronous functions:  *)
(* what a handler does between two awaits is one step, and any other       *)
(* handler, the same socket's disconnect included, may run at an await.    *)
(* Events reach a socket in the order they were emitted, so a client's     *)
(* picture is kept as of the last event emitted to it.                     *)
(***************************************************************************)
EXTENDS Naturals, FiniteSets

CONSTANTS
  Null,
  Sockets,         \* connections; an id is never used again
  Members,
  MaxParticipants  \* MAX_PARTICIPANTS

ASSUME CallHasRoom == MaxParticipants \in Nat \ {0}

VARIABLES
  stage,     \* socket -> how far its connection handler is
  owner,     \* socket -> the member of socket.data
  link,      \* socket -> "up" or "down"
  early,     \* the sockets that went down while their handler was under way
  presence,  \* ChatGateway.presence: member -> sockets
  online,    \* PresenceService.online: member -> sockets
  dots,      \* chat socket -> the members its client believes online
  room,      \* CallGateway.rooms: the members in the call
  joining,   \* the call sockets whose room-join awaits the participant check
  callRoom,  \* the sockets in the call's socket.io room
  peers      \* call socket -> the peers its client knows

vars == <<stage, owner, link, early, presence, online, dots, room, joining, callRoom, peers>>
chat == <<presence, online, dots>>
call == <<room, joining, callRoom, peers>>

Up(s) == link[s] = "up"

Init ==
  /\ stage = [s \in Sockets |-> "new"] /\ owner = [s \in Sockets |-> Null]
  /\ link = [s \in Sockets |-> "down"] /\ early = {}
  /\ presence = [m \in Members |-> {}] /\ online = [m \in Members |-> {}]
  /\ dots = [s \in Sockets |-> {}]
  /\ room = {} /\ joining = {} /\ callRoom = {} /\ peers = [s \in Sockets |-> {}]

-----------------------------------------------------------------------------
(* Connecting.  A chat handler awaits twice, for the member and for the member's
   conversations; a call handler awaits once. *)
Connect(s) ==
  /\ stage[s] = "new"
  /\ \E ns \in {"chat:authenticate", "call:authenticate"} : stage' = [stage EXCEPT ![s] = ns]
  /\ link' = [link EXCEPT ![s] = "up"]
  /\ UNCHANGED <<owner, early, chat, call>>

(* A bad token, or no active member: the server disconnects the socket. *)
Reject(s) ==
  /\ stage[s] \in {"chat:authenticate", "call:authenticate"}
  /\ stage' = [stage EXCEPT ![s] = "rejected"] /\ link' = [link EXCEPT ![s] = "down"]
  /\ UNCHANGED <<owner, early, chat, call>>

AuthenticateChat(s, m) ==
  /\ stage[s] = "chat:authenticate"
  /\ stage' = [stage EXCEPT ![s] = "chat:rooms"] /\ owner' = [owner EXCEPT ![s] = m]
  /\ UNCHANGED <<link, early, chat, call>>

AuthenticateCall(s, m) ==
  /\ stage[s] = "call:authenticate"
  /\ stage' = [stage EXCEPT ![s] = "call"] /\ owner' = [owner EXCEPT ![s] = m]
  /\ UNCHANGED <<link, early, chat, call>>

Add(map, s) == [map EXCEPT ![owner[s]] = @ \cup {s}]
Drop(map, s) == [map EXCEPT ![owner[s]] = @ \ {s}]

(* The sockets in the workspace's presence room. *)
Watchers == {s \in Sockets : stage[s] = "chat" /\ Up(s)}

Snapshot(map) == {m \in Members : map[m] # {}}

(* Mutant: the set is filled before it is asked whether it was empty. *)
RegisterFirst(s) ==
  /\ stage[s] = "chat:rooms" /\ stage' = [stage EXCEPT ![s] = "chat"]
  /\ presence' = Add(presence, s) /\ online' = Add(online, s)
  /\ dots' = [t \in Sockets |-> IF t = s THEN Snapshot(presence') ELSE dots[t]]
  /\ UNCHANGED <<owner, link, early, call>>

(* The rest of handleConnection: the member's first socket is announced to the
   presence room, and the new socket gets the snapshot. *)
Register(s) ==
  /\ stage[s] = "chat:rooms" /\ stage' = [stage EXCEPT ![s] = "chat"]
  /\ presence' = Add(presence, s) /\ online' = Add(online, s)
  /\ dots' = [t \in Sockets |->
                IF t = s THEN Snapshot(presence')
                ELSE IF t \in Watchers /\ presence[owner[s]] = {} THEN dots[t] \cup {owner[s]}
                ELSE dots[t]]
  /\ UNCHANGED <<owner, link, early, call>>

-----------------------------------------------------------------------------
(* Disconnecting: without socket.data, or with a set that does not list the
   socket, nothing is left to undo, now or later. *)
Unknown(s) ==
  /\ stage[s] \notin {"chat", "call"}
  /\ early' = early \cup {s} /\ UNCHANGED <<chat, call>>

(* Mutant: only the gateway's own map is updated. *)
GoOfflineHere(s) ==
  /\ stage[s] = "chat"
  /\ presence' = Drop(presence, s) /\ UNCHANGED online
  /\ dots' = [t \in Sockets |->
                IF t \in Watchers /\ presence'[owner[s]] = {} THEN dots[t] \ {owner[s]} ELSE dots[t]]
  /\ UNCHANGED <<early, call>>

GoOffline(s) ==
  /\ stage[s] = "chat"
  /\ presence' = Drop(presence, s) /\ online' = Drop(online, s)
  /\ dots' = [t \in Sockets |->
                IF t \in Watchers /\ presence'[owner[s]] = {} THEN dots[t] \ {owner[s]} ELSE dots[t]]
  /\ UNCHANGED <<early, call>>

(* The clients in the call hear that a member left it. *)
Told(m, sockets) == [t \in Sockets |-> IF t \in sockets THEN peers[t] \ {m} ELSE peers[t]]

(* Mutant: a member with another socket is not announced as gone. *)
LeaveQuietly(s) ==
  /\ stage[s] = "call"
  /\ room' = room \ {owner[s]} /\ callRoom' = callRoom \ {s}
  /\ peers' = IF \E t \in Sockets \ {s} : owner[t] = owner[s] THEN peers ELSE Told(owner[s], callRoom')
  /\ UNCHANGED <<joining, early, chat>>

(* Any disconnect of a member is a leave, whichever of its sockets had joined. *)
LeaveCalls(s) ==
  /\ stage[s] = "call"
  /\ room' = room \ {owner[s]} /\ callRoom' = callRoom \ {s}
  /\ peers' = IF owner[s] \in room THEN Told(owner[s], callRoom') ELSE peers
  /\ UNCHANGED <<joining, early, chat>>

Disconnect(s) ==
  /\ Up(s) /\ link' = [link EXCEPT ![s] = "down"]
  /\ Unknown(s) \/ GoOffline(s) \/ LeaveCalls(s)
  /\ UNCHANGED <<stage, owner>>

-----------------------------------------------------------------------------
(* The call. *)
AskToJoin(s) ==
  /\ stage[s] = "call" /\ Up(s) /\ joining' = joining \cup {s}
  /\ UNCHANGED <<stage, owner, link, early, chat, room, callRoom, peers>>

(* Mutant: one too many. *)
FullByOne(m) == Cardinality(room) > MaxParticipants /\ m \notin room

Full(m) == Cardinality(room) >= MaxParticipants /\ m \notin room

(* Not a participant of the conversation, or the call is full. *)
RefuseJoin(s) ==
  /\ s \in joining /\ joining' = joining \ {s}
  /\ UNCHANGED <<stage, owner, link, early, chat, room, callRoom, peers>>

(* The joiner gets the others as the answer, they get a call:peer-join.  The
   socket may be down by now: the handler does not look. *)
Join(s) ==
  /\ s \in joining /\ joining' = joining \ {s}
  /\ ~Full(owner[s])
  /\ room' = room \cup {owner[s]}
  /\ callRoom' = callRoom \cup {s}
  /\ peers' = [t \in Sockets |->
                 IF t = s THEN room \ {owner[s]}
                 ELSE IF t \in callRoom THEN peers[t] \cup ({owner[s]} \ {owner[t]})
                 ELSE peers[t]]
  /\ UNCHANGED <<stage, owner, link, early, chat>>

(* The guard of the code is the room's existence, which is its having members. *)
Leave(s) ==
  /\ stage[s] = "call" /\ Up(s) /\ room # {}
  /\ room' = room \ {owner[s]} /\ callRoom' = callRoom \ {s}
  /\ peers' = Told(owner[s], callRoom')
  /\ UNCHANGED <<stage, owner, link, early, chat, joining>>

Handle(s) ==
  \/ Connect(s) \/ Reject(s)
  \/ \E m \in Members : AuthenticateChat(s, m) \/ AuthenticateCall(s, m)
  \/ Register(s) \/ Disconnect(s)
  \/ AskToJoin(s) \/ RefuseJoin(s) \/ Join(s) \/ Leave(s)

Next == \E s \in Sockets : Handle(s)

Spec == Init /\ [][Next]_vars

-----------------------------------------------------------------------------
Stages == {"new", "rejected", "chat:authenticate", "chat:rooms", "chat", "call:authenticate", "call"}

(* Types, and what the stages of a connection allow. *)
TypeOK ==
  /\ stage \in [Sockets -> Stages] /\ link \in [Sockets -> {"up", "down"}]
  /\ owner \in [Sockets -> Members \cup {Null}] /\ early \subseteq Sockets
  /\ presence \in [Members -> SUBSET Sockets] /\ online \in [Members -> SUBSET Sockets]
  /\ dots \in [Sockets -> SUBSET Members] /\ peers \in [Sockets -> SUBSET Members]
  /\ room \subseteq Members /\ joining \subseteq Sockets /\ callRoom \subseteq Sockets
  /\ \A s \in Sockets : stage[s] \in {"chat", "chat:rooms", "call"} => owner[s] \in Members

(* "Multi-tab presence: count active sockets per member": both maps list exactly a
   member's open sockets, and those that closed before their handler had finished,
   which are never taken out again. *)
SocketsAreCounted ==
  \A m \in Members :
    /\ presence[m] = {s \in Sockets : owner[s] = m /\ stage[s] = "chat" /\ (Up(s) \/ s \in early)}
    /\ online[m] = presence[m]

(* Every connected client shows as online exactly the members the server counts as
   online: the first socket of a member and the last are announced, and nothing
   between a client's snapshot and its first update is lost. *)
DotsAreRight ==
  \A s \in Watchers : dots[s] = Snapshot(presence)

(* Every client in the call knows exactly the members the server would name to the
   next to join, itself left out: a mesh call needs each pair to know each other. *)
PeersAgree ==
  \A s \in callRoom : Up(s) => peers[s] = room \ {owner[s]}

(* The limit holds although it is checked after an await. *)
CallWithinLimit == Cardinality(room) <= MaxParticipants
=============================================================================
