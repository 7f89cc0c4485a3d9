------------------------------- MODULE Chatroom -------------------------------
(***************************************************************************)
(* A group conversation as its members use it (messages.module.ts): they   *)
(* send messages, of which the others are told, mute the conversation,     *)
(* mark it read, react to messages, pin them, and leave.  Conversations    *)
(* has the rest: other conversations, replies, files, forwarding, edits.   *)
(***************************************************************************)
EXTENDS Notices

CONSTANTS
  Talks,   \* the messages there may be
  Named    \* what a client sends, as the users it names

(* A membership is muted as long as mutedUntil is in the future. *)
Seats == [muted : BOOLEAN, read : SUBSET Talks]

(* What a request knows that sends a message. *)
ChatRequests ==
  [at : {"chat:send", "chat:notify"}, by : Users, on : [names : SUBSET Users, event : Nat]]

ASSUME MessagesNameUsers == Named \subseteq SUBSET Users
ASSUME NullIsNoMessage == Null \notin Seats \cup ChatRequests

VARIABLES
  seat,       \* member -> the membership: muted, and the messages up to the read mark; or Null
  said,       \* the messages there are
  reaction,   \* the reactions, of one emoji
  pinned,
  preview,    \* the messages that have a link preview
  fetching    \* those a link preview is fetched for, which no handler waits for

talkVars == <<said, reaction, pinned, preview, fetching>>
chatVars == <<seat, talkVars>>

NewSeat == [muted |-> FALSE, read |-> {}]

InitChatroom(sitting, talks) ==
  /\ seat = [u \in Users |-> IF u \in sitting THEN NewSeat ELSE Null] /\ said = talks
  /\ reaction = {} /\ pinned = {} /\ preview = {} /\ fetching = {}

(* Every request on the conversation asks first whether its member takes part. *)
TakesPart(u) == Admitted(u) /\ seat[u] # Null

Chat(h, u, step, args) == TakesPart(u) /\ Call(h, u, step, args)

silence == <<prefs, asked, subscription, gone, notice, pushing, rung, watched>>

(* Who is told of what is said. *)
Listening(u) == seat[u] # Null /\ ~seat[u].muted

(* Who begins or ceases to listen meanwhile may be told or not. *)
Listeners == Touch({u \in Users : Listening(u)' # Listening(u)}, {}) /\ UNCHANGED silence

-----------------------------------------------------------------------------
(* The members, and their own settings.  An update fails when the membership has gone. *)
Leave(h, u) == Chat(h, u, "chat:leave", <<>>)
AddMember(h, u, v) == IsAdmin(u) /\ Admitted(v) /\ Chat(h, u, "chat:add", [user |-> v])
Mute(h, u, on) == Chat(h, u, "chat:mute", [muted |-> on])
MarkRead(h, u) == Chat(h, u, "chat:mark", <<>>)

SeatLeave(h) == At(h, "chat:leave") /\ seat' = [seat EXCEPT ![By(h)] = Null]

SeatAdd(h) ==
  /\ At(h, "chat:add")
  /\ seat' = IF seat[On(h).user] # Null THEN seat ELSE [seat EXCEPT ![On(h).user] = NewSeat]

SeatMute(h) ==
  /\ At(h, "chat:mute")
  /\ seat' = IF seat[By(h)] = Null THEN seat ELSE [seat EXCEPT ![By(h)].muted = On(h).muted]

SeatMark(h) ==
  /\ At(h, "chat:mark")
  /\ seat' = IF seat[By(h)] = Null THEN seat ELSE [seat EXCEPT ![By(h)].read = said]

SeatStore(h) ==
  /\ SeatLeave(h) \/ SeatAdd(h) \/ SeatMute(h) \/ SeatMark(h)
  /\ Answer(h)
  /\ Listeners /\ UNCHANGED <<talkVars, taskVars>>

(* The time a conversation is muted until has come. *)
MuteEnds(u) ==
  /\ seat[u] # Null /\ seat[u].muted
  /\ seat' = [seat EXCEPT ![u].muted = FALSE]
  /\ Listeners /\ UNCHANGED <<request, served, talkVars, taskVars>>

-----------------------------------------------------------------------------
(* Sending a message, that names some members.  With the sender's membership gone the
   transaction fails; else its answer is not the end: the others are told, and a preview
   of the first link is fetched. *)
SendMessage(h, u, names) == Chat(h, u, "chat:send", [names |-> names, event |-> Event])

(* A mention comes first: who is mentioned is not told of the message as well. *)
ChannelOf(u, names) == IF u \in names THEN "mention" ELSE "chat"

MessageStore(h) ==
  /\ At(h, "chat:send")
  /\ IF seat[By(h)] = Null THEN Answer(h) /\ UNCHANGED <<seat, said, fetching, event>>
     ELSE \E m \in Talks \ said :
            /\ said' = said \cup {m} /\ seat' = [seat EXCEPT ![By(h)].read = said']
            /\ fetching' \in {fetching, fetching \cup {m}}
            /\ Await(h, [request[h] EXCEPT !.at = "chat:notify"])
            /\ Happens(On(h).event,
                       [u \in Users |-> IF Listening(u) /\ u # By(h) THEN ChannelOf(u, On(h).names) ELSE Null], Null)
  /\ UNCHANGED <<reaction, pinned, preview, silence, taskVars>>

(* notifyParticipants: whoever takes part by now. *)
NotifyParticipants(h) ==
  /\ At(h, "chat:notify")
  /\ LET live == {u \in Users : Listening(u)} \ {By(h)}
     IN  Tell(h, On(h).event, {Recipient(u, ChannelOf(u, On(h).names), 1) : u \in live}, {})
  /\ UNCHANGED <<chatVars, event, silence, taskVars>>

(* The page may have no preview. *)
AttachLinkPreview(m) ==
  /\ m \in fetching /\ fetching' = fetching \ {m}
  /\ preview' \in {preview, preview \cup {m}}
  /\ UNCHANGED <<request, served, seat, said, reaction, pinned, noticeVars, taskVars>>

-----------------------------------------------------------------------------
(* Marks on a message; nobody asks again whether the member still takes part.  A pin is
   turned over from what was read. *)
AddReaction(h, u, m) == m \in said /\ Chat(h, u, "chat:react", [message |-> m])
RemoveReaction(h, u, m) == Chat(h, u, "chat:unreact", [message |-> m])
TogglePin(h, u, m) == m \in said /\ Chat(h, u, "chat:pin", [message |-> m, pin |-> m \notin pinned])

ReactionStore(h) ==
  At(h, "chat:react") /\ reaction' = reaction \cup {<<On(h).message, By(h)>>} /\ UNCHANGED pinned

ReactionRemove(h) ==
  At(h, "chat:unreact") /\ reaction' = reaction \ {<<On(h).message, By(h)>>} /\ UNCHANGED pinned

PinStore(h) ==
  /\ At(h, "chat:pin") /\ UNCHANGED reaction
  /\ pinned' = IF On(h).pin THEN pinned \cup {On(h).message} ELSE pinned \ {On(h).message}

MarkStore(h) ==
  /\ ReactionStore(h) \/ ReactionRemove(h) \/ PinStore(h)
  /\ Answer(h) /\ UNCHANGED <<seat, said, preview, fetching, noticeVars, taskVars>>

-----------------------------------------------------------------------------
ChatroomCall(h) ==
  /\ Free(h)
  /\ \E u \in Users :
       \/ Leave(h, u) \/ MarkRead(h, u)
       \/ \E v \in Users : AddMember(h, u, v)
       \/ \E on \in BOOLEAN : Mute(h, u, on)
       \/ \E names \in Named : SendMessage(h, u, names)
       \/ \E m \in Talks : AddReaction(h, u, m) \/ RemoveReaction(h, u, m) \/ TogglePin(h, u, m)
  /\ UNCHANGED <<chatVars, noticeVars>>

ChatroomContinue(h) == SeatStore(h) \/ MessageStore(h) \/ NotifyParticipants(h) \/ MarkStore(h)

Background == (\E u \in Users : MuteEnds(u)) \/ (\E m \in Talks : AttachLinkPreview(m))

ChatroomCutOff == fetching' = {} /\ UNCHANGED <<seat, said, reaction, pinned, preview>>
=============================================================================
