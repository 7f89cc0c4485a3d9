-------------------------- MODULE ConversationsProofs --------------------------
(***************************************************************************)
(* Proofs about Conversations, for any number of members, conversations,   *)
(* messages, files and requests: who sends takes part, a file stays with   *)
(* its message until it is removed, and a removed member leaves two.       *)
(*                                                                         *)
(* Rows of conversations and messages are never deleted, so what a handler *)
(* has looked up still exists when it writes; Standing says so, and what   *)
(* else a handler may rely on.  A file may be gone by then.                *)
(***************************************************************************)
EXTENDS Conversations, FiniteSetTheorems, TLAPS

(* Who may remove a file, if it is still there, and a file that is there has not gone. *)
Entitled(u, f) == (file[f] # Null => u \in WorkspaceAdmins \cup {file[f].by}) /\ (file[f] = Null => f \in gone)

(* What a handler has looked up and is still so: its conversation or message exists, the
   message it links files to is its own, and there were enough members when it counted. *)
Standing ==
  \A h \in Handlers : request[h] # Null =>
    /\ request[h].at \in {"rename", "add", "leave", "kick", "send", "forward"} =>
         chat[request[h].chat] # Null
    /\ request[h].at \in {"edit", "delete", "link"} => message[request[h].message] # Null
    /\ request[h].at = "link" => message[request[h].message].sender = request[h].by
    /\ request[h].at = "kick" => Cardinality(request[h].seen) > 2
    /\ request[h].at = "remove" => Entitled(request[h].by, request[h].file)

(* A linked file's message exists and is its uploader's. *)
FilesAgree ==
  \A f \in Files : file[f] # Null /\ file[f].message # Null =>
    message[file[f].message] # Null /\ message[file[f].message].sender = file[f].by

(* What has gone is not there. *)
GoneForGood == \A f \in gone : file[f] = Null

IInv == TypeOK /\ Standing /\ FilesAgree /\ GoneForGood

(* What each kind of request carries. *)
LEMMA Kinds ==
  ASSUME NEW r \in Awaited
  PROVE  /\ r.at = "chat" => r.by \in Members /\ r.name \in Names \cup {Null} /\ r.members \in SUBSET Members
         /\ r.at = "rename" => r.chat \in Chats /\ r.name \in Names
         /\ r.at \in {"add", "leave"} => r.chat \in Chats /\ r.user \in Members
         /\ r.at = "kick" => r.chat \in Chats /\ r.user \in Members /\ r.seen \in SUBSET Members
         /\ r.at = "send" => /\ r.by \in Members /\ r.chat \in Chats /\ r.text \in BOOLEAN
                             /\ r.replyTo \in Messages \cup {Null} /\ r.files \in SUBSET Files
         /\ r.at = "link" => r.by \in Members /\ r.message \in Messages /\ r.files \in SUBSET Files
         /\ r.at = "upload" => r.by \in Members
         /\ r.at = "remove" => r.by \in Members /\ r.file \in Files
         /\ r.at = "forward" => /\ r.by \in Members /\ r.chat \in Chats /\ r.text \in BOOLEAN
                                /\ r.source \in Messages
         /\ r.at = "edit" => r.message \in Messages /\ r.text \in BOOLEAN
         /\ r.at = "delete" => r.message \in Messages
BY DEF Awaited

(* The strengthened invariant holds of the tables a behaviour may start from. *)
LEMMA InitHolds == Init => IInv
BY StartsAreRows, RequestsAreCounted DEF Init, InitRequests, IInv, TypeOK, Standing, FilesAgree, GoneForGood

(* A request that arrives writes nothing. *)
LEMMA CallsOnlyRead ==
  ASSUME NEW h \in Handlers, Calls(h)
  PROVE  UNCHANGED tables
BY DEF Calls, OpenDirect, CreateGroup, Leave, Upload, RemoveFile, Rename, AddMember, Kick, SendMessage, Delete, Edit,
       Forward, Call, Take, Free

(* Every action keeps the types: first the requests that arrive, then the statements. *)
LEMMA TypesOfCalls ==
  ASSUME TypeOK, NEW h \in Handlers, Calls(h)
  PROVE  TypeOK'
<1> USE DEF TypeOK, Call, Take, Free, tables
<1>1. UNCHANGED tables /\ served' = served + 1 /\ served < MaxRequests
  BY DEF Calls, OpenDirect, CreateGroup, Leave, Upload, RemoveFile, Rename, AddMember, Kick, SendMessage, Delete, Edit, Forward
<1>a. served' \in 0..MaxRequests
  BY <1>1, RequestsAreCounted
<1>2. ASSUME NEW r \in Awaited, Take(h, r)
      PROVE  TypeOK'
  BY <1>1, <1>a, <1>2
<1>3. ASSUME NEW u \in Members, NEW v \in Members, OpenDirect(h, u, v)
      PROVE  TypeOK'
  BY <1>2, <1>3 DEF OpenDirect, Awaited
<1>4. ASSUME NEW u \in Members, NEW name \in Names, NEW us \in SUBSET Members, CreateGroup(h, u, name, us)
      PROVE  TypeOK'
  BY <1>2, <1>4 DEF CreateGroup, Awaited
<1>5. ASSUME NEW u \in Members, NEW c \in Chats, Leave(h, u, c) \/ Upload(h, u, c)
      PROVE  TypeOK'
  BY <1>2, <1>5 DEF Leave, Upload, Awaited
<1>6. ASSUME NEW u \in Members, NEW c \in Chats, NEW name \in Names, Rename(h, u, c, name)
      PROVE  TypeOK'
  BY <1>2, <1>6 DEF Rename, Awaited
<1>7. ASSUME NEW u \in Members, NEW c \in Chats, NEW v \in Members, AddMember(h, u, c, v)
      PROVE  TypeOK'
  BY <1>2, <1>7 DEF AddMember, Awaited
<1>8. ASSUME NEW u \in Members, NEW c \in Chats, NEW v \in Members, Kick(h, u, c, v)
      PROVE  TypeOK'
  <2>1. chat[c].members \in SUBSET Members
    BY <1>8 DEF Kick, MayManage, TakesPart, ChatRows
  <2> QED
    BY <1>2, <1>8, <2>1 DEF Kick, Awaited
<1>9. ASSUME NEW u \in Members, NEW c \in Chats, NEW text \in BOOLEAN, NEW reply \in Messages \cup {Null},
             NEW fs \in SUBSET Files, SendMessage(h, u, c, text, reply, fs)
      PROVE  TypeOK'
  BY <1>2, <1>9 DEF SendMessage, Awaited
<1>10. ASSUME NEW u \in Members, NEW m \in Messages, Delete(h, u, m)
       PROVE  TypeOK'
  BY <1>2, <1>10 DEF Delete, Awaited
<1>11. ASSUME NEW u \in Members, NEW m \in Messages, NEW text \in BOOLEAN, Edit(h, u, m, text)
       PROVE  TypeOK'
  BY <1>2, <1>11 DEF Edit, Awaited
<1>12. ASSUME NEW u \in Members, NEW m \in Messages, NEW text \in BOOLEAN, NEW c \in Chats, Forward(h, u, m, c, text)
       PROVE  TypeOK'
  BY <1>2, <1>12 DEF Forward, Awaited
<1>13. ASSUME NEW u \in Members, NEW f \in Files, RemoveFile(h, u, f)
       PROVE  TypeOK'
  BY <1>2, <1>13 DEF RemoveFile, Awaited
<1> HIDE DEF TypeOK, Call, Take, Free, tables
<1> QED
  BY <1>3, <1>4, <1>5, <1>6, <1>7, <1>8, <1>9, <1>10, <1>11, <1>12, <1>13, ZenonT(40) DEF Calls

LEMMA TypesOfStatements ==
  ASSUME TypeOK, Standing, NEW h \in Handlers, Continues(h)
  PROVE  TypeOK'
<1> USE NullIsNoRow DEF TypeOK, At, Answer, Fresh
<1>1. request[h] # Null => request[h] \in Awaited
  OBVIOUS
<1>2. CASE ChatCreate(h)
  BY <1>1, <1>2, Kinds DEF ChatCreate, ChatRows
<1>3. CASE ChatRename(h)
  BY <1>1, <1>3, Kinds DEF ChatRename, ChatRows, Standing
<1>4. CASE MemberAdd(h)
  BY <1>1, <1>4, Kinds DEF MemberAdd, ChatRows, Standing
<1>5. CASE MemberRemove(h)
  BY <1>1, <1>5, Kinds DEF MemberRemove, ChatRows, Standing
<1>6. CASE MessageSend(h)
  <2>1. PICK r \in Awaited : r = request[h] /\ r.at = "send"
    BY <1>1, <1>6 DEF MessageSend
  <2>2. r.by \in Members /\ r.chat \in Chats /\ r.text \in BOOLEAN /\ r.replyTo \in Messages \cup {Null} /\ r.files \in SUBSET Files
    BY <2>1, Kinds
  <2>3. CASE UNCHANGED message /\ Answer(h)
    BY <1>6, <2>3 DEF MessageSend
  <2>4. ASSUME NEW m \in Messages, message' = [message EXCEPT ![m] = NewMessage(r.by, r.chat, r.text, r.replyTo, Null)]
        PROVE  message' \in [Messages -> MessageRows \cup {Null}]
    BY <2>2, <2>4 DEF NewMessage, MessageRows
  <2>5. ASSUME NEW m \in Messages, Await(h, [at |-> "link", by |-> r.by, message |-> m, files |-> r.files])
        PROVE  request' \in [Handlers -> Awaited \cup {Null}] /\ UNCHANGED served
    BY <2>2, <2>5 DEF Await, Awaited
  <2> QED
    BY <1>6, <2>1, <2>3, <2>4, <2>5 DEF MessageSend
<1>7. CASE LinkFiles(h)
  BY <1>1, <1>7, Kinds DEF LinkFiles, Linkable, FileRows
<1>8. CASE FileStore(h)
  BY <1>1, <1>8, Kinds DEF FileStore, FileRows
<1>12. CASE FileRemove(h)
  BY <1>1, <1>12, Kinds DEF FileRemove
<1>9. CASE MessageForward(h)
  BY <1>1, <1>9, Kinds DEF MessageForward, NewMessage, MessageRows
<1>10. CASE MessageEdit(h)
  BY <1>1, <1>10, Kinds DEF MessageEdit, MessageRows, Standing
<1>11. CASE MessageDelete(h)
  <2>1. request[h].message \in Messages /\ message[request[h].message] \in MessageRows
    BY <1>1, <1>11, Kinds DEF MessageDelete, Standing
  <2> DEFINE m == request[h].message
             row == [message[m] EXCEPT !.deleted = TRUE]
  <2>2. row \in MessageRows
    BY <2>1 DEF MessageRows
  <2>3. [row EXCEPT !.text = FALSE] \in MessageRows
    BY <2>2 DEF MessageRows
  <2>4. message' = [message EXCEPT ![m] = [row EXCEPT !.text = FALSE]]
    BY <1>11, <2>1 DEF MessageDelete
  <2> QED
    BY <1>11, <2>1, <2>3, <2>4 DEF MessageDelete
<1> QED
  BY <1>2, <1>3, <1>4, <1>5, <1>6, <1>7, <1>8, <1>9, <1>10, <1>11, <1>12 DEF Continues

(* Conversations and messages stay, and a message keeps its sender; a file keeps its
   uploader, and is counted among the gone when it goes. *)
Lasts ==
  /\ \A c \in Chats : chat[c] # Null => chat'[c] # Null
  /\ \A m \in Messages : message[m] # Null => message'[m] # Null /\ message'[m].sender = message[m].sender
  /\ gone \subseteq gone'
  /\ \A f \in Files : /\ file[f] # Null /\ file'[f] # Null => file'[f].by = file[f].by
                      /\ file[f] # Null /\ file'[f] = Null => f \in gone'
                      /\ f \in gone /\ file[f] = Null => file'[f] = Null

LEMMA StatementsLast ==
  ASSUME TypeOK, Standing, NEW h \in Handlers, Continues(h)
  PROVE  Lasts
<1> USE NullIsNoRow DEF TypeOK, At, Answer, Fresh, Lasts
<1>1. request[h] # Null => request[h] \in Awaited
  OBVIOUS
<1>2. CASE ChatCreate(h)
  BY <1>2 DEF ChatCreate
<1>3. CASE ChatRename(h)
  BY <1>1, <1>3, Kinds DEF ChatRename, ChatRows, Standing
<1>4. CASE MemberAdd(h)
  BY <1>1, <1>4, Kinds DEF MemberAdd, ChatRows, Standing
<1>5. CASE MemberRemove(h)
  BY <1>1, <1>5, Kinds DEF MemberRemove, ChatRows, Standing
<1>6. CASE MessageSend(h) \/ LinkFiles(h) \/ FileStore(h) \/ MessageForward(h)
  <2>1. /\ \A c \in Chats : chat[c] # Null => chat'[c] # Null
        /\ \A m \in Messages : message[m] # Null => message'[m] # Null /\ message'[m].sender = message[m].sender
        /\ gone' = gone
    BY <1>6 DEF MessageSend, LinkFiles, FileStore, MessageForward
  <2>2. CASE MessageSend(h) \/ MessageForward(h)
    BY <2>1, <2>2 DEF MessageSend, MessageForward
  <2>3. CASE FileStore(h)
    BY <2>1, <2>3 DEF FileStore
  <2>4. CASE LinkFiles(h)
    <3>1. request[h].message \in Messages
      BY <1>1, <2>4, Kinds DEF LinkFiles
    <3>2. \A f \in Files : file'[f] = file[f] \/ (file[f] # Null /\ file'[f] = [file[f] EXCEPT !.message = request[h].message])
      BY <2>4 DEF LinkFiles, Linkable
    <3>3. \A f \in Files : file[f] # Null =>
            LET row == [file[f] EXCEPT !.message = request[h].message] IN row \in FileRows /\ row.by = file[f].by
      BY <3>1 DEF FileRows
    <3>4. ASSUME NEW f \in Files, file[f] # Null
          PROVE  file'[f] # Null /\ file'[f].by = file[f].by
      <4>1. CASE file'[f] = file[f]
        BY <3>4, <4>1
      <4>2. CASE file'[f] = [file[f] EXCEPT !.message = request[h].message]
        <5>1. file'[f] \in FileRows /\ file'[f].by = file[f].by
          BY <3>3, <3>4, <4>2
        <5> QED
          BY <5>1
      <4> QED
        BY <3>2, <4>1, <4>2
    <3>5. \A f \in Files : file[f] = Null => file'[f] = Null
      BY <3>2
    <3> QED
      BY <2>1, <3>4, <3>5
  <2> QED
    BY <1>6, <2>2, <2>3, <2>4
<1>9. CASE FileRemove(h)
  BY <1>9 DEF FileRemove
<1>7. CASE MessageEdit(h)
  BY <1>1, <1>7, Kinds DEF MessageEdit, MessageRows, Standing
<1>8. CASE MessageDelete(h)
  <2>1. request[h].message \in Messages /\ message[request[h].message] \in MessageRows
    BY <1>1, <1>8, Kinds DEF MessageDelete, Standing
  <2> DEFINE m == request[h].message
             row == [message[m] EXCEPT !.deleted = TRUE]
             wiped == [row EXCEPT !.text = FALSE]
  <2>2. row \in MessageRows /\ row.sender = message[m].sender
    BY <2>1 DEF MessageRows
  <2>3. wiped \in MessageRows /\ wiped.sender = row.sender
    BY <2>2 DEF MessageRows
  <2>4. message' = [message EXCEPT ![m] = wiped] /\ UNCHANGED <<chat, file, gone>>
    BY <1>8, <2>1 DEF MessageDelete
  <2> HIDE DEF wiped, row
  <2> QED
    BY <2>1, <2>2, <2>3, <2>4
<1> QED
  BY <1>2, <1>3, <1>4, <1>5, <1>6, <1>7, <1>8, <1>9 DEF Continues

(* A request is answered, or a message with files goes on to link them. *)
LEMMA StatementsAnswer ==
  ASSUME TypeOK, NEW h \in Handlers, Continues(h)
  PROVE  \/ request' = [request EXCEPT ![h] = Null]
         \/ \E m \in Messages, fs \in SUBSET Files, u \in Members :
              /\ request' = [request EXCEPT ![h] = [at |-> "link", by |-> u, message |-> m, files |-> fs]]
              /\ message'[m] # Null /\ message'[m].sender = u
<1> USE DEF Answer, At
<1>1. CASE MessageSend(h)
  <2>1. PICK r \in Awaited : r = request[h] /\ r.at = "send"
    BY <1>1 DEF MessageSend, TypeOK
  <2>2. r.by \in Members /\ r.chat \in Chats /\ r.files \in SUBSET Files
    BY <2>1, Kinds
  <2>3. CASE Answer(h)
    BY <2>3
  <2>4. ASSUME NEW m \in Fresh(message),
               message' = [message EXCEPT ![m] = NewMessage(r.by, r.chat, r.text, r.replyTo, Null)],
               Await(h, [at |-> "link", by |-> r.by, message |-> m, files |-> r.files])
        PROVE  /\ m \in Messages /\ message'[m] # Null /\ message'[m].sender = r.by
               /\ request' = [request EXCEPT ![h] = [at |-> "link", by |-> r.by, message |-> m, files |-> r.files]]
    <3>1. m \in Messages /\ message'[m] = NewMessage(r.by, r.chat, r.text, r.replyTo, Null)
      BY <2>4 DEF TypeOK, Fresh
    <3>2. r.text \in BOOLEAN /\ r.replyTo \in Messages \cup {Null}
      BY <2>1, Kinds
    <3>3. NewMessage(r.by, r.chat, r.text, r.replyTo, Null) \in MessageRows
      BY <2>2, <3>2 DEF NewMessage, MessageRows
    <3>4. NewMessage(r.by, r.chat, r.text, r.replyTo, Null).sender = r.by
      BY DEF NewMessage
    <3>5. message'[m] # Null
      BY <3>1, <3>3, NullIsNoRow
    <3> QED
      BY <2>4, <3>1, <3>4, <3>5 DEF Await
  <2>5. \/ Answer(h)
        \/ \E m \in Fresh(message) :
             /\ message' = [message EXCEPT ![m] = NewMessage(r.by, r.chat, r.text, r.replyTo, Null)]
             /\ Answer(h) \/ Await(h, [at |-> "link", by |-> r.by, message |-> m, files |-> r.files])
    BY <1>1, <2>1 DEF MessageSend
  <2> HIDE DEF Answer
  <2> QED
    BY <2>2, <2>3, <2>4, <2>5
<1> QED
  BY <1>1 DEF Continues, ChatCreate, ChatRename, MemberAdd, MemberRemove, LinkFiles, FileStore, FileRemove,
              MessageForward, MessageEdit, MessageDelete

(* What one handler may rely on, and that it goes on to be so. *)
StandingOf(h) ==
  request[h] # Null =>
    /\ request[h].at \in {"rename", "add", "leave", "kick", "send", "forward"} =>
         chat[request[h].chat] # Null
    /\ request[h].at \in {"edit", "delete", "link"} => message[request[h].message] # Null
    /\ request[h].at = "link" => message[request[h].message].sender = request[h].by
    /\ request[h].at = "kick" => Cardinality(request[h].seen) > 2
    /\ request[h].at = "remove" => Entitled(request[h].by, request[h].file)

LEMMA StandingLasts ==
  ASSUME TypeOK, Lasts, NEW k \in Handlers, StandingOf(k), request'[k] = request[k]
  PROVE  StandingOf(k)'
<1>1. CASE request[k] = Null
  BY <1>1 DEF StandingOf
<1>2. CASE request[k] # Null
  <2>1. request[k] \in Awaited
    BY <1>2 DEF TypeOK
  <2>2. request[k].at \in {"rename", "add", "leave", "kick", "send", "forward"} => request[k].chat \in Chats
    BY <2>1, Kinds
  <2>3. request[k].at \in {"edit", "delete", "link"} => request[k].message \in Messages
    BY <2>1, Kinds
  <2>4. request[k].at = "remove" => request[k].file \in Files
    BY <2>1, Kinds
  <2>5. request[k].at = "remove" => Entitled(request[k].by, request[k].file)'
    BY <1>2, <2>4 DEF StandingOf, Lasts, Entitled
  <2> QED
    BY <1>2, <2>2, <2>3, <2>5 DEF StandingOf, Lasts
<1> QED
  BY <1>1, <1>2

LEMMA StandingOfCalls ==
  ASSUME TypeOK, Standing, NEW h \in Handlers, Calls(h)
  PROVE  Standing'
<1> USE DEF Call, TypeOK
<1>1. UNCHANGED <<chat, message, file, gone>>
  BY CallsOnlyRead DEF tables
<1>2. ASSUME NEW r, Take(h, r),
             /\ r.at \in {"rename", "add", "leave", "kick", "send", "forward"} => chat[r.chat] # Null
             /\ r.at \in {"edit", "delete"} => message[r.message] # Null
             /\ r.at # "link"
             /\ r.at = "kick" => Cardinality(r.seen) > 2
             /\ r.at = "remove" => Entitled(r.by, r.file)
      PROVE  Standing'
  BY <1>1, <1>2 DEF Standing, Take, Free, Entitled
<1>3. ASSUME NEW u \in Members, NEW v \in Members, OpenDirect(h, u, v)
      PROVE  Standing'
  BY <1>2, <1>3 DEF OpenDirect
<1>4. ASSUME NEW u \in Members, NEW name \in Names, NEW us \in SUBSET Members, CreateGroup(h, u, name, us)
      PROVE  Standing'
  BY <1>2, <1>4 DEF CreateGroup
<1>5. ASSUME NEW u \in Members, NEW c \in Chats, Leave(h, u, c) \/ Upload(h, u, c)
      PROVE  Standing'
  BY <1>2, <1>5 DEF Leave, Upload, TakesPart
<1>6. ASSUME NEW u \in Members, NEW c \in Chats, NEW name \in Names, Rename(h, u, c, name)
      PROVE  Standing'
  BY <1>2, <1>6 DEF Rename, MayManage, TakesPart
<1>7. ASSUME NEW u \in Members, NEW c \in Chats, NEW v \in Members, AddMember(h, u, c, v)
      PROVE  Standing'
  BY <1>2, <1>7 DEF AddMember, MayManage, TakesPart
<1>8. ASSUME NEW u \in Members, NEW c \in Chats, NEW v \in Members, Kick(h, u, c, v)
      PROVE  Standing'
  <2>1. chat[c] # Null /\ chat[c] \in ChatRows
    BY <1>8 DEF Kick, MayManage, TakesPart
  <2>2. IsFiniteSet(chat[c].members)
    BY <2>1, MembersAreFinite, FS_Subset DEF ChatRows
  <2>3. Cardinality(chat[c].members) > 2
    BY <1>8, <2>2, FS_CardinalityType DEF Kick, AtLimit
  <2> QED
    BY <1>2, <1>8, <2>1, <2>3 DEF Kick
<1>9. ASSUME NEW u \in Members, NEW c \in Chats, NEW text \in BOOLEAN, NEW reply \in Messages \cup {Null},
             NEW fs \in SUBSET Files, SendMessage(h, u, c, text, reply, fs)
      PROVE  Standing'
  BY <1>2, <1>9 DEF SendMessage, TakesPart
<1>10. ASSUME NEW u \in Members, NEW m \in Messages, Delete(h, u, m)
       PROVE  Standing'
  BY <1>2, <1>10 DEF Delete, IsOwn
<1>11. ASSUME NEW u \in Members, NEW m \in Messages, NEW text \in BOOLEAN, Edit(h, u, m, text)
       PROVE  Standing'
  BY <1>2, <1>11 DEF Edit, IsOwn
<1>12. ASSUME NEW u \in Members, NEW m \in Messages, NEW text \in BOOLEAN, NEW c \in Chats, Forward(h, u, m, c, text)
       PROVE  Standing'
  BY <1>2, <1>12 DEF Forward, TakesPart
<1>13. ASSUME NEW u \in Members, NEW f \in Files, RemoveFile(h, u, f)
       PROVE  Standing'
  BY <1>2, <1>13 DEF RemoveFile, Entitled
<1> QED
  BY <1>3, <1>4, <1>5, <1>6, <1>7, <1>8, <1>9, <1>10, <1>11, <1>12, <1>13 DEF Calls

LEMMA StandingOfStatements ==
  ASSUME TypeOK, Standing, NEW h \in Handlers, Continues(h)
  PROVE  Standing'
<1>1. Lasts
  BY StatementsLast
<1>2. \A k \in Handlers \ {h} : request'[k] = request[k]
  BY StatementsAnswer DEF TypeOK
<1>3. \A k \in Handlers \ {h} : StandingOf(k)'
  BY <1>1, <1>2, StandingLasts DEF Standing, StandingOf
<1>4. StandingOf(h)'
  <2>1. CASE request' = [request EXCEPT ![h] = Null]
    BY <2>1 DEF StandingOf, TypeOK
  <2>2. ASSUME NEW m \in Messages, NEW fs \in SUBSET Files, NEW u \in Members,
               request' = [request EXCEPT ![h] = [at |-> "link", by |-> u, message |-> m, files |-> fs]],
               message'[m] # Null, message'[m].sender = u
        PROVE  StandingOf(h)'
    BY <2>2 DEF StandingOf, TypeOK
  <2> QED
    BY <2>1, <2>2, StatementsAnswer
<1> QED
  BY <1>3, <1>4 DEF Standing, StandingOf

(* Files are linked only to the message of the request that links them. *)
LEMMA FilesOfStatements ==
  ASSUME TypeOK, Standing, FilesAgree, GoneForGood, NEW h \in Handlers, Continues(h)
  PROVE  FilesAgree' /\ GoneForGood'
<1> USE NullIsNoRow DEF TypeOK, At
<1>1. Lasts
  BY StatementsLast
<1>2. CASE UNCHANGED <<file, gone>>
  BY <1>1, <1>2 DEF FilesAgree, GoneForGood, Lasts, FileRows
<1>3. CASE FileStore(h)
  <2>1. request[h] \in Awaited /\ request[h].by \in Members
    BY <1>3, Kinds DEF FileStore
  <2>2. PICK f \in Files \ gone :
          file[f] = Null /\ file' = [file EXCEPT ![f] = [by |-> request[h].by, onTask |-> FALSE, message |-> Null]]
    BY <1>3 DEF FileStore, Fresh
  <2>3. UNCHANGED gone
    BY <1>3 DEF FileStore
  <2> QED
    BY <1>1, <2>2, <2>3 DEF FilesAgree, GoneForGood, Lasts, FileRows
<1>5. CASE FileRemove(h)
  <2>1. PICK f \in Files : file' = [file EXCEPT ![f] = Null] /\ gone' = gone \cup {f}
    BY <1>5, Kinds DEF FileRemove
  <2> QED
    BY <1>1, <2>1 DEF FilesAgree, GoneForGood, Lasts, FileRows
<1>4. CASE LinkFiles(h)
  <2>1. PICK r \in Awaited : r = request[h] /\ r.at = "link"
    BY <1>4 DEF LinkFiles
  <2>2. r.by \in Members /\ r.message \in Messages /\ r.files \in SUBSET Files
    BY <2>1, Kinds
  <2>3. message[r.message] # Null /\ message[r.message].sender = r.by
    BY <2>1 DEF Standing
  <2>4. UNCHANGED message
    BY <1>4 DEF LinkFiles
  <2>5. ASSUME NEW f \in Files, f \in r.files, Linkable(f, r.by)
        PROVE  file'[f] = [file[f] EXCEPT !.message = r.message] /\ file[f] \in FileRows /\ file[f].by = r.by
    BY <1>4, <2>1, <2>5 DEF LinkFiles, Linkable
  <2>6. ASSUME NEW f \in Files, ~(f \in r.files /\ Linkable(f, r.by))
        PROVE  file'[f] = file[f]
    BY <1>4, <2>1, <2>6 DEF LinkFiles
  <2>7. ASSUME NEW f \in Files, f \in r.files, Linkable(f, r.by)
        PROVE  file'[f].message = r.message /\ file'[f].by = r.by
    BY <2>2, <2>5, <2>7 DEF FileRows
  <2>8. GoneForGood'
    BY <1>4, <2>1, <2>6 DEF LinkFiles, Linkable, GoneForGood
  <2> QED
    BY <2>2, <2>3, <2>4, <2>6, <2>7, <2>8 DEF FilesAgree
<1> QED
  BY <1>2, <1>3, <1>4, <1>5 DEF Continues, ChatCreate, ChatRename, MemberAdd, MemberRemove, MessageSend,
                          MessageForward, MessageEdit, MessageDelete

(* The strengthened invariant survives every step. *)
LEMMA InvStep == IInv /\ [Next]_vars => IInv'
<1> SUFFICES ASSUME IInv, [Next]_vars PROVE IInv'
  OBVIOUS
<1> USE DEF IInv
<1>1. CASE UNCHANGED vars
  BY <1>1 DEF vars, tables, TypeOK, Standing, Entitled, FilesAgree, GoneForGood
<1>2. ASSUME NEW h \in Handlers, Calls(h)
      PROVE  IInv'
  <2>1. UNCHANGED <<message, file, gone>>
    BY <1>2, CallsOnlyRead DEF tables
  <2> QED
    BY <1>2, <2>1, TypesOfCalls, StandingOfCalls DEF FilesAgree, GoneForGood
<1>3. ASSUME NEW h \in Handlers, Continues(h)
      PROVE  IInv'
  BY <1>3, TypesOfStatements, StandingOfStatements, FilesOfStatements
<1>4. ASSUME NEW c \in Chats, Age(c)
      PROVE  IInv'
  <2>1. /\ chat[c] \in ChatRows /\ [chat[c] EXCEPT !.recent = FALSE] \in ChatRows
        /\ chat' = [chat EXCEPT ![c] = [chat[c] EXCEPT !.recent = FALSE]]
    BY <1>4 DEF Age, TypeOK, ChatRows
  <2>2. TypeOK' /\ UNCHANGED <<request, message, file, gone>> /\ \A d \in Chats : chat[d] # Null => chat'[d] # Null
    BY <1>4, <2>1, NullIsNoRow, ZenonT(40) DEF Age, TypeOK
  <2>3. Standing'
    BY <2>2, StandingLasts DEF Lasts, Standing, StandingOf
  <2> QED
    BY <2>2, <2>3 DEF FilesAgree, GoneForGood
<1>5. CASE Die /\ UNCHANGED tables
  BY <1>5 DEF Die, tables, TypeOK, Standing, Entitled, FilesAgree, GoneForGood
<1>6. CASE TaskGoes
  <2>1. PICK fs \in SUBSET Files : /\ file' = [f \in Files |-> IF f \in fs THEN Null ELSE file[f]]
                                 /\ gone' = gone \cup fs
    BY <1>6 DEF TaskGoes
  <2>2. UNCHANGED <<request, served, chat, message>>
    BY <1>6 DEF TaskGoes
  <2>3. TypeOK'
    BY <2>1, <2>2 DEF TypeOK
  <2>4. Lasts
    BY <2>1, <2>2 DEF Lasts, TypeOK
  <2>5. Standing'
    BY <2>2, <2>4, StandingLasts DEF Standing, StandingOf
  <2>6. FilesAgree' /\ GoneForGood'
    BY <2>1, <2>2 DEF FilesAgree, GoneForGood, TypeOK
  <2> QED
    BY <2>3, <2>5, <2>6
<1> QED
  BY <1>1, <1>2, <1>3, <1>4, <1>5, <1>6 DEF Next

LEMMA InvAlways == Spec => []IInv
<1> QED
  BY InitHolds, InvStep, PTL DEF Spec

-----------------------------------------------------------------------------
(* Tables and requests keep their types. *)
THEOREM TypesHold == Spec => []TypeOK
<1>1. IInv => TypeOK
  BY DEF IInv
<1> QED
  BY <1>1, InvAlways, PTL

(* A message stored by a statement is of a member of its conversation, unless it is forwarded. *)
LEMMA SenderOfStatement ==
  ASSUME TypeOK, Standing, NEW h \in Handlers, Continues(h), NEW m \in Messages,
         message[m] = Null, message'[m] # Null, message'[m].forwardedFrom = Null
  PROVE  TakesPart(message'[m].sender, message'[m].chat)
<1> USE NullIsNoRow DEF TypeOK, At
<1>1. request[h] # Null => request[h] \in Awaited
  OBVIOUS
<1>2. CASE MessageSend(h)
  <2>1. PICK r \in Awaited : r = request[h] /\ r.at = "send"
    BY <1>1, <1>2 DEF MessageSend
  <2>2. PICK n \in Messages : message' = [message EXCEPT ![n] = NewMessage(r.by, r.chat, r.text, r.replyTo, Null)]
    BY <1>2, <2>1 DEF MessageSend, Fresh
  <2>3. m = n /\ message'[m] = NewMessage(r.by, r.chat, r.text, r.replyTo, Null)
    BY <2>2
  <2>4. TakesPart(r.by, r.chat)
    BY <1>2, <2>1, <2>2 DEF MessageSend, Commits
  <2> QED
    BY <2>3, <2>4 DEF NewMessage
<1>3. CASE MessageForward(h)
  <2>1. PICK r \in Awaited : r = request[h] /\ r.at = "forward"
    BY <1>1, <1>3 DEF MessageForward
  <2>2. PICK n \in Messages : message' = [message EXCEPT ![n] = NewMessage(r.by, r.chat, r.text, Null, r.source)]
    BY <1>3, <2>1 DEF MessageForward, Fresh
  <2>3. message'[m] = NewMessage(r.by, r.chat, r.text, Null, r.source) /\ r.source # Null
    BY <2>1, <2>2, Kinds
  <2> QED
    BY <2>3 DEF NewMessage
<1>4. CASE MessageEdit(h) \/ MessageDelete(h)
  <2>1. request[h].message \in Messages /\ message[request[h].message] # Null
    BY <1>1, <1>4, Kinds DEF MessageEdit, MessageDelete, Standing
  <2> QED
    BY <1>4, <2>1 DEF MessageEdit, MessageDelete
<1> QED
  BY <1>2, <1>3, <1>4 DEF Continues, ChatCreate, ChatRename, MemberAdd, MemberRemove, LinkFiles, FileStore,
                          FileRemove

(* Whoever sends a message takes part in its conversation when it is stored. *)
THEOREM SendersAlwaysTakePart == Spec => SendersTakePart
<1>1. ASSUME IInv, [Next]_vars, NEW m \in Messages, message[m] = Null, message'[m] # Null,
             message'[m].forwardedFrom = Null
      PROVE  TakesPart(message'[m].sender, message'[m].chat)
  <2>1. \E h \in Handlers : Continues(h)
    BY <1>1, CallsOnlyRead DEF Next, vars, tables, Age, TaskGoes
  <2> QED
    BY <1>1, <2>1, SenderOfStatement DEF IInv
<1>2. IInv /\ [Next]_vars =>
        [ \A m \in Messages :
            message[m] = Null /\ message'[m] # Null /\ message'[m].forwardedFrom = Null =>
              TakesPart(message'[m].sender, message'[m].chat) ]_vars
  BY <1>1
<1> QED
  BY <1>2, InvAlways, PTL DEF Spec, SendersTakePart

-----------------------------------------------------------------------------
(* What happens to one file that is there: while it stays, it stays with its message, and is
   linked only to a message of its uploader; a file that is on no task goes only when
   somebody entitled has asked for it. *)
Asked(f) ==
  \E h \in Handlers :
    /\ request[h] # Null /\ request[h].at = "remove" /\ request[h].file = f
    /\ request[h].by \in WorkspaceAdmins \cup {file[f].by}

Stays(f) ==
  /\ file'[f] # Null =>
       /\ file[f].message # Null => file'[f].message = file[f].message
       /\ file'[f].message # Null => message[file'[f].message].sender = file[f].by
  /\ file'[f] = Null /\ ~file[f].onTask => Asked(f)

LEMMA FileOfStatement ==
  ASSUME TypeOK, Standing, FilesAgree, NEW h \in Handlers, Continues(h), NEW f \in Files, file[f] # Null
  PROVE  Stays(f)
<1> USE NullIsNoRow DEF TypeOK, At
<1>1. CASE UNCHANGED file
  BY <1>1 DEF Stays, FilesAgree
<1>2. CASE FileStore(h)
  BY <1>2 DEF FileStore, Fresh, Stays, FilesAgree
<1>4. CASE FileRemove(h)
  <2>1. PICK r \in Awaited : r = request[h] /\ r.at = "remove"
    BY <1>4 DEF FileRemove
  <2>2. r.file \in Files /\ Entitled(r.by, r.file) /\ file' = [file EXCEPT ![r.file] = Null]
    BY <1>4, <2>1, Kinds DEF FileRemove, Standing
  <2>3. CASE f # r.file
    BY <2>2, <2>3 DEF Stays, FilesAgree
  <2>4. CASE f = r.file
    <3>1. Asked(f)
      BY <2>1, <2>2, <2>4 DEF Asked, Entitled
    <3> QED
      BY <2>2, <2>4, <3>1 DEF Stays
  <2> QED
    BY <2>3, <2>4
<1>3. CASE LinkFiles(h)
  <2>1. PICK r \in Awaited : r = request[h] /\ r.at = "link"
    BY <1>3 DEF LinkFiles
  <2>2. r.message \in Messages
    BY <2>1, Kinds
  <2>3. message[r.message].sender = r.by
    BY <2>1 DEF Standing
  <2>4. file[f] \in FileRows
    OBVIOUS
  <2>5. CASE f \in r.files /\ Linkable(f, r.by)
    <3>1. file'[f] = [file[f] EXCEPT !.message = r.message]
      BY <1>3, <2>1, <2>5 DEF LinkFiles
    <3>2. file'[f] \in FileRows /\ file'[f].message = r.message
      BY <2>2, <2>4, <3>1 DEF FileRows
    <3> QED
      BY <2>3, <2>5, <3>2 DEF Stays, Linkable
  <2>6. CASE ~(f \in r.files /\ Linkable(f, r.by))
    <3>1. file'[f] = file[f]
      BY <1>3, <2>1, <2>6 DEF LinkFiles
    <3> QED
      BY <3>1 DEF Stays, FilesAgree
  <2> QED
    BY <2>5, <2>6
<1> QED
  BY <1>1, <1>2, <1>3, <1>4 DEF Continues, ChatCreate, ChatRename, MemberAdd, MemberRemove, MessageSend,
                          MessageForward, MessageEdit, MessageDelete

(* While its row exists, a file that has been linked to a message stays linked to it, and the
   message is its uploader's.  The row goes only with a task the file is on, or because the
   uploader or an admin has asked to remove it, and never comes back: not even when a
   message is linking its files at that moment. *)
THEOREM FilesStayLinked == Spec => LinkedOnce
<1>1. ASSUME IInv, [Next]_vars, NEW f \in Files, file[f] # Null
      PROVE  Stays(f)
  <2>1. CASE UNCHANGED file
    BY <1>1, <2>1 DEF IInv, FilesAgree, Stays
  <2>2. CASE \E h \in Handlers : Continues(h)
    BY <1>1, <2>2, FileOfStatement DEF IInv
  <2>3. CASE TaskGoes
    BY <1>1, <2>3 DEF TaskGoes, Stays, IInv, FilesAgree
  <2> QED
    BY <1>1, <2>1, <2>2, <2>3, CallsOnlyRead DEF Next, vars, tables, Age
<1>3. ASSUME IInv, [Next]_vars, NEW f \in Files, f \in gone
      PROVE  file'[f] = Null
  <2>1. file[f] = Null
    BY <1>3 DEF IInv, GoneForGood
  <2>2. CASE \E h \in Handlers : Continues(h)
    BY <1>3, <2>1, <2>2, StatementsLast DEF IInv, Lasts
  <2>3. CASE TaskGoes
    BY <2>1, <2>3 DEF TaskGoes
  <2> QED
    BY <1>3, <2>1, <2>2, <2>3, CallsOnlyRead DEF Next, vars, tables, Age
<1>2. IInv /\ [Next]_vars =>
        [ \A f \in Files :
            /\ file[f] # Null /\ file'[f] # Null =>
                 /\ file[f].message # Null => file'[f].message = file[f].message
                 /\ file'[f].message # Null => message[file'[f].message].sender = file[f].by
            /\ file[f] # Null /\ file'[f] = Null /\ ~file[f].onTask =>
                 \E h \in Handlers :
                   /\ request[h] # Null /\ request[h].at = "remove" /\ request[h].file = f
                   /\ request[h].by \in WorkspaceAdmins \cup {file[f].by}
            /\ f \in gone => file'[f] = Null ]_vars
  BY <1>1, <1>3 DEF Stays, Asked
<1> QED
  BY <1>2, InvAlways, PTL DEF Spec, LinkedOnce

-----------------------------------------------------------------------------
(* Who can make a conversation fall below two members. *)
Excused(c) ==
  \E h \in Handlers :
    /\ request[h] # Null /\ request'[h] # request[h]
    /\ \/ request[h].at = "leave"
       \/ request[h].at = "kick" /\ request[h].seen # chat[c].members

(* What one member more or less does to a count. *)
LEMMA OneMoreOrLess ==
  ASSUME NEW S, IsFiniteSet(S), NEW x
  PROVE  /\ Cardinality(S) \in Nat
         /\ Cardinality(S \cup {x}) \in Nat /\ Cardinality(S \cup {x}) >= Cardinality(S)
         /\ Cardinality(S \ {x}) \in Nat /\ Cardinality(S \ {x}) >= Cardinality(S) - 1
<1>1. Cardinality(S) \in Nat
  BY FS_CardinalityType
<1>2. Cardinality(S \cup {x}) = Cardinality(S) \/ Cardinality(S \cup {x}) = Cardinality(S) + 1
  BY FS_AddElement
<1>3. IsFiniteSet(S \ {x}) /\ Cardinality(S \ {x}) = IF x \in S THEN Cardinality(S) - 1 ELSE Cardinality(S)
  BY FS_RemoveElement
<1>4. Cardinality(S \ {x}) \in Nat
  BY <1>3, FS_CardinalityType
<1> QED
  BY <1>1, <1>2, <1>3, <1>4

(* Only such a statement does it. *)
LEMMA MembersOfStatement ==
  ASSUME TypeOK, Standing, NEW h \in Handlers, Continues(h), NEW c \in Chats, chat[c] # Null,
         Cardinality(chat[c].members) >= 2, Cardinality(chat'[c].members) < 2
  PROVE  Excused(c)
<1> USE NullIsNoRow DEF TypeOK, At, Answer
<1>1. request[h] # Null => request[h] \in Awaited
  OBVIOUS
<1>2. chat[c] \in ChatRows /\ IsFiniteSet(chat[c].members) /\ Cardinality(chat[c].members) \in Nat
  BY MembersAreFinite, FS_Subset, FS_CardinalityType DEF ChatRows
<1>3. chat'[c].members # chat[c].members
  BY <1>2
<1>4. CASE MemberAdd(h)
  <2>1. request[h].user \in Members /\ request[h].chat \in Chats
    BY <1>1, <1>4, Kinds DEF MemberAdd
  <2>2. chat[request[h].chat] \in ChatRows
    BY <1>1, <1>4, <2>1 DEF MemberAdd, Standing
  <2>3. chat'[c].members = chat[c].members \/ chat'[c].members = chat[c].members \cup {request[h].user}
    BY <1>2, <1>4, <2>1, <2>2 DEF MemberAdd, ChatRows
  <2>4. /\ Cardinality(chat[c].members \cup {request[h].user}) \in Nat
        /\ Cardinality(chat[c].members \cup {request[h].user}) >= Cardinality(chat[c].members)
    BY <1>2, OneMoreOrLess
  <2>5. Cardinality(chat'[c].members) = Cardinality(chat[c].members \cup {request[h].user})
    BY <1>3, <2>3, Zenon
  <2> QED
    BY <1>2, <2>4, <2>5
<1>5. CASE MemberRemove(h)
  <2>1. PICK r \in Awaited : r = request[h] /\ r.at \in {"leave", "kick"}
    BY <1>1, <1>5 DEF MemberRemove
  <2>2. r.chat \in Chats /\ r.user \in Members /\ chat[r.chat] \in ChatRows
    BY <2>1, Kinds DEF Standing
  <2>3. chat'[c].members = chat[c].members \/ chat'[c].members = chat[c].members \ {r.user}
    BY <1>2, <1>5, <2>1, <2>2 DEF MemberRemove, ChatRows
  <2>4. /\ Cardinality(chat[c].members \ {r.user}) \in Nat
        /\ Cardinality(chat[c].members \ {r.user}) >= Cardinality(chat[c].members) - 1
    BY <1>2, OneMoreOrLess
  <2>5. r.at = "kick" => r.seen # chat[c].members
    <3>1. r.at = "kick" => Cardinality(r.seen) > 2
      BY <2>1 DEF Standing
    <3>2. Cardinality(chat[c].members) <= 2
      <4>1. Cardinality(chat'[c].members) = Cardinality(chat[c].members \ {r.user})
        BY <1>3, <2>3, Zenon
      <4> QED
        BY <1>2, <2>4, <4>1
    <3> QED
      BY <1>2, <3>1, <3>2
  <2>6. request'[h] = Null
    BY <1>5 DEF MemberRemove
  <2> QED
    BY <2>1, <2>5, <2>6 DEF Excused
<1>6. CASE ChatRename(h)
  <2>1. request[h].chat \in Chats
    BY <1>1, <1>6, Kinds DEF ChatRename
  <2>2. chat[request[h].chat] \in ChatRows
    BY <1>1, <1>6, <2>1 DEF ChatRename, Standing
  <2> QED
    BY <1>2, <1>3, <1>6, <2>1, <2>2 DEF ChatRename, ChatRows
<1>7. CASE ChatCreate(h)
  BY <1>3, <1>7 DEF ChatCreate, Fresh
<1> QED
  BY <1>3, <1>4, <1>5, <1>6, <1>7 DEF Continues, MessageSend, LinkFiles, FileStore, FileRemove, MessageForward,
                                      MessageEdit, MessageDelete

(* A conversation falls below two members only because somebody leaves it, or because it has
   changed since it was counted. *)
THEOREM RemovalsLeaveTwo == Spec => KicksLeaveTwo
<1>1. ASSUME IInv, [Next]_vars, NEW c \in Chats, chat[c] # Null,
             Cardinality(chat[c].members) >= 2, Cardinality(chat'[c].members) < 2
      PROVE  Excused(c)
  <2>1. chat[c] \in ChatRows /\ IsFiniteSet(chat[c].members) /\ Cardinality(chat[c].members) \in Nat
    BY <1>1, MembersAreFinite, FS_Subset, FS_CardinalityType DEF IInv, TypeOK, ChatRows
  <2>2. CASE \E d \in Chats : Age(d)
    <3>1. chat'[c].members = chat[c].members
      BY <1>1, <2>1, <2>2 DEF IInv, TypeOK, Age, ChatRows
    <3> QED
      BY <1>1, <2>1, <3>1
  <2>3. CASE UNCHANGED chat
    BY <1>1, <2>1, <2>3
  <2>4. CASE \E h \in Handlers : Continues(h)
    BY <1>1, <2>4, MembersOfStatement DEF IInv
  <2> QED
    BY <1>1, <2>2, <2>3, <2>4, CallsOnlyRead DEF Next, vars, tables, TaskGoes
<1>2. IInv /\ [Next]_vars =>
        [ \A c \in Chats :
            chat[c] # Null /\ Cardinality(chat[c].members) >= 2 /\ Cardinality(chat'[c].members) < 2 =>
              \E h \in Handlers :
                /\ request[h] # Null /\ request'[h] # request[h]
                /\ \/ request[h].at = "leave"
                   \/ request[h].at = "kick" /\ request[h].seen # chat[c].members ]_vars
  BY <1>1 DEF Excused
<1> QED
  BY <1>2, InvAlways, PTL DEF Spec, KicksLeaveTwo
=============================================================================
