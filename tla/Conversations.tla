---------------------------- MODULE Conversations ----------------------------
(***************************************************************************)
(* The chat of one workspace (messages.module.ts): direct conversations    *)
(* and groups, who takes part in them, messages, replies, forwards and     *)
(* uploaded files, with what takes a file away (attachments.module.ts).    *)
(* Everybody is an active member of the workspace.                         *)
(*                                                                         *)
(* A name is "given", or "blank": a name of spaces is accepted, and is     *)
(* empty when it has been trimmed.  A text is there or not.                *)
(***************************************************************************)
EXTENDS Requests, FiniteSets

CONSTANTS
  Members, WorkspaceAdmins,
  Chats, Messages, Files,
  Starts        \* the tables a behaviour may start from: [chat, message, file]

Names == {"given", "blank"}
ChatRows == [name : Names \cup {Null}, creator : Members, members : SUBSET Members, recent : BOOLEAN]
MessageRows ==
  [chat : Chats, sender : Members, text : BOOLEAN, replyTo : Messages \cup {Null},
   forwardedFrom : Messages \cup {Null}, deleted : BOOLEAN]

(* A file uploaded to a task can be sent in a message as well. *)
FileRows == [by : Members, onTask : BOOLEAN, message : Messages \cup {Null}]

ASSUME StartsAreRows ==
  \A s \in Starts : /\ s.chat \in [Chats -> ChatRows \cup {Null}]
                    /\ s.message \in [Messages -> MessageRows \cup {Null}]
                    /\ s.file \in [Files -> FileRows \cup {Null}]
                    /\ \A f \in Files : s.file[f] # Null => s.file[f].message = Null

VARIABLES
  chat, message, file,   \* the tables: id -> row, or Null
  gone                   \* the files that were there once: their ids are not given out again

(* What a handler keeps while it awaits its next statement. *)
Awaited ==
  [at : {"chat"}, by : Members, name : Names \cup {Null}, members : SUBSET Members]
  \cup [at : {"rename"}, chat : Chats, name : Names]
  \cup [at : {"add", "leave"}, chat : Chats, user : Members]
  \cup [at : {"kick"}, chat : Chats, user : Members, seen : SUBSET Members]
  \cup [at : {"send"}, by : Members, chat : Chats, text : BOOLEAN, replyTo : Messages \cup {Null},
        files : SUBSET Files]
  \cup [at : {"link"}, by : Members, message : Messages, files : SUBSET Files]
  \cup [at : {"upload"}, by : Members]
  \cup [at : {"remove"}, by : Members, file : Files]
  \cup [at : {"forward"}, by : Members, chat : Chats, text : BOOLEAN, source : Messages]
  \cup [at : {"edit"}, message : Messages, text : BOOLEAN]
  \cup [at : {"delete"}, message : Messages]

tables == <<chat, message, file, gone>>
vars == <<request, served, tables>>

ASSUME MembersAreFinite == IsFiniteSet(Members)

(* Null is a value of its own: no id, and no row. *)
ASSUME NullIsNoRow ==
  Null \notin Messages \cup ChatRows \cup MessageRows \cup FileRows \cup Awaited

Init ==
  /\ InitRequests
  /\ \E s \in Starts : chat = s.chat /\ message = s.message /\ file = s.file
  /\ gone = {}

Call(h, r) == Take(h, r) /\ UNCHANGED tables

TakesPart(u, c) == chat[c] # Null /\ u \in chat[c].members
IsGroup(c) == chat[c].name = "given"
Fresh(rows) == {i \in DOMAIN rows : rows[i] = Null}

-----------------------------------------------------------------------------
(* Opening a direct conversation: the one that exists, or a new one. *)
Directs(u, v) == {c \in Chats : chat[c] # Null /\ chat[c].name = Null /\ chat[c].members = {u, v}}

OpenDirect(h, u, v) ==
  u # v /\ Directs(u, v) = {} /\ Call(h, [at |-> "chat", by |-> u, name |-> Null, members |-> {u, v}])

(* Creating a group: an equal one of the last minute is returned instead. *)
Twins(name, us) ==
  {c \in Chats : chat[c] # Null /\ chat[c].recent /\ chat[c].name = name /\ chat[c].members = us}

CreateGroup(h, u, name, us) ==
  /\ u \in us /\ Cardinality(us) >= 3 /\ Twins(name, us) = {}
  /\ Call(h, [at |-> "chat", by |-> u, name |-> name, members |-> us])

ChatCreate(h) ==
  /\ At(h, "chat") /\ Answer(h)
  /\ \E c \in Fresh(chat) :
       chat' = [chat EXCEPT ![c] = [name |-> request[h].name, creator |-> request[h].by,
                                    members |-> request[h].members, recent |-> TRUE]]
  /\ UNCHANGED <<message, file, gone>>

(* The minute is over. *)
Age(c) ==
  /\ chat[c] # Null /\ chat[c].recent
  /\ chat' = [chat EXCEPT ![c].recent = FALSE]
  /\ UNCHANGED <<request, served, message, file, gone>>

-----------------------------------------------------------------------------
(* Managing a group: its creator or an admin of the workspace, taking part in it. *)
MayManage(u, c) ==
  TakesPart(u, c) /\ IsGroup(c) /\ (u \in WorkspaceAdmins \/ chat[c].creator = u)

Rename(h, u, c, name) == MayManage(u, c) /\ Call(h, [at |-> "rename", chat |-> c, name |-> name])
AddMember(h, u, c, v) == MayManage(u, c) /\ Call(h, [at |-> "add", chat |-> c, user |-> v])

(* Anyone may leave; whoever removes another counts the members first.  "seen" is
   history: the members that were counted. *)
Leave(h, u, c) ==
  TakesPart(u, c) /\ IsGroup(c) /\ Call(h, [at |-> "leave", chat |-> c, user |-> u])

(* Mutant: off by one. *)
AtLimitByOne(c) == Cardinality(chat[c].members) <= 1

AtLimit(c) == Cardinality(chat[c].members) <= 2

Kick(h, u, c, v) ==
  /\ u # v /\ MayManage(u, c) /\ ~AtLimit(c)
  /\ Call(h, [at |-> "kick", chat |-> c, user |-> v, seen |-> chat[c].members])

ChatRename(h) ==
  /\ At(h, "rename") /\ Answer(h)
  /\ chat' = [chat EXCEPT ![request[h].chat].name = request[h].name]
  /\ UNCHANGED <<message, file, gone>>

MemberAdd(h) ==
  /\ At(h, "add") /\ Answer(h)
  /\ chat' = [chat EXCEPT ![request[h].chat].members = @ \cup {request[h].user}]
  /\ UNCHANGED <<message, file, gone>>

MemberRemove(h) ==
  /\ At(h, "leave") \/ At(h, "kick")
  /\ chat' = [chat EXCEPT ![request[h].chat].members = @ \ {request[h].user}]
  /\ Answer(h) /\ UNCHANGED <<message, file, gone>>

-----------------------------------------------------------------------------
(* Sending.  A reply must be to a message of the conversation; a message without a text
   needs a file. *)
SendMessage(h, u, c, text, reply, fs) ==
  /\ TakesPart(u, c) /\ (text \/ fs # {})
  /\ reply # Null => message[reply] # Null /\ message[reply].chat = c
  /\ Call(h, [at |-> "send", by |-> u, chat |-> c, text |-> text, replyTo |-> reply, files |-> fs])

NewMessage(u, c, text, reply, source) ==
  [chat |-> c, sender |-> u, text |-> text, replyTo |-> reply, forwardedFrom |-> source, deleted |-> FALSE]

(* Mutant: no read mark. *)
CommitsUnmarked(u, c) == chat[c] # Null

(* The transaction also stores the sender's read mark in the sender's membership: with
   the membership gone it fails, and the message is rolled back. *)
Commits(u, c) == TakesPart(u, c)

MessageSend(h) ==
  /\ At(h, "send")
  /\ LET r == request[h]
     IN  \/ /\ Commits(r.by, r.chat)
            /\ \E m \in Fresh(message) :
                 /\ message' = [message EXCEPT ![m] = NewMessage(r.by, r.chat, r.text, r.replyTo, Null)]
                 /\ IF r.files = {} THEN Answer(h)
                    ELSE Await(h, [at |-> "link", by |-> r.by, message |-> m, files |-> r.files])
         \/ /\ ~Commits(r.by, r.chat) /\ Answer(h) /\ UNCHANGED message
  /\ UNCHANGED <<chat, file, gone>>

(* Mutant: whether or not they belong to a message. *)
LinkableAgain(f, u) == file[f] # Null /\ file[f].by = u

(* Only the sender's own files, and those that belong to no message yet. *)
Linkable(f, u) == file[f] # Null /\ file[f].by = u /\ file[f].message = Null

LinkFiles(h) ==
  /\ At(h, "link") /\ Answer(h)
  /\ LET r == request[h]
     IN  file' = [f \in Files |-> IF f \in r.files /\ Linkable(f, r.by)
                                    THEN [file[f] EXCEPT !.message = r.message] ELSE file[f]]
  /\ UNCHANGED <<chat, message, gone>>

Upload(h, u, c) == TakesPart(u, c) /\ Call(h, [at |-> "upload", by |-> u])

FileStore(h) ==
  /\ At(h, "upload") /\ Answer(h)
  /\ \E f \in Fresh(file) \ gone :
       file' = [file EXCEPT ![f] = [by |-> request[h].by, onTask |-> FALSE, message |-> Null]]
  /\ UNCHANGED <<chat, message, gone>>

(* DELETE of an attachment, by its uploader or an admin of the workspace: any file of the
   workspace, of a task or of a conversation, in a message or not.  The object goes first;
   a row that is gone by then fails the request. *)
RemoveFile(h, u, f) ==
  /\ file[f] # Null /\ (u \in WorkspaceAdmins \/ file[f].by = u)
  /\ Call(h, [at |-> "remove", by |-> u, file |-> f])

FileRemove(h) ==
  /\ At(h, "remove") /\ Answer(h)
  /\ file' = [file EXCEPT ![request[h].file] = Null]
  /\ gone' = gone \cup {request[h].file}
  /\ UNCHANGED <<chat, message>>

(* The files of a task go with it, whatever messages they are in. *)
TaskGoes ==
  /\ \E fs \in SUBSET {f \in Files : file[f] # Null /\ file[f].onTask} :
       /\ fs # {}
       /\ file' = [f \in Files |-> IF f \in fs THEN Null ELSE file[f]]
       /\ gone' = gone \cup fs
  /\ UNCHANGED <<request, served, chat, message>>

(* Forwarding stores no read mark: the membership of the target is only looked up. *)
Forward(h, u, m, c, text) ==
  /\ message[m] # Null /\ ~message[m].deleted
  /\ TakesPart(u, message[m].chat) /\ TakesPart(u, c)
  /\ Call(h, [at |-> "forward", by |-> u, chat |-> c, text |-> text, source |-> m])

MessageForward(h) ==
  /\ At(h, "forward") /\ Answer(h)
  /\ LET r == request[h]
     IN  \E m \in Fresh(message) :
           message' = [message EXCEPT ![m] = NewMessage(r.by, r.chat, r.text, Null, r.source)]
  /\ UNCHANGED <<chat, file, gone>>

-----------------------------------------------------------------------------
(* Editing and deleting, by the sender.  Both write by the id: an edit that has read the
   message before it was deleted stores its text in the deleted message. *)
IsOwn(u, m) == message[m] # Null /\ message[m].sender = u /\ TakesPart(u, message[m].chat)

Edit(h, u, m, text) ==
  IsOwn(u, m) /\ ~message[m].deleted /\ Call(h, [at |-> "edit", message |-> m, text |-> text])

MessageEdit(h) ==
  /\ At(h, "edit") /\ Answer(h)
  /\ message' = [message EXCEPT ![request[h].message].text = request[h].text]
  /\ UNCHANGED <<chat, file, gone>>

Delete(h, u, m) == IsOwn(u, m) /\ Call(h, [at |-> "delete", message |-> m])

MessageDelete(h) ==
  /\ At(h, "delete") /\ Answer(h)
  /\ message' = [message EXCEPT ![request[h].message].deleted = TRUE, ![request[h].message].text = FALSE]
  /\ UNCHANGED <<chat, file, gone>>

-----------------------------------------------------------------------------
Calls(h) ==
  Free(h) /\ \E u \in Members :
    \/ \E v \in Members : OpenDirect(h, u, v)
    \/ \E name \in Names, us \in SUBSET Members : CreateGroup(h, u, name, us)
    \/ \E c \in Chats :
         \/ Leave(h, u, c) \/ Upload(h, u, c)
         \/ \E name \in Names : Rename(h, u, c, name)
         \/ \E v \in Members : AddMember(h, u, c, v) \/ Kick(h, u, c, v)
         \/ \E text \in BOOLEAN, reply \in Messages \cup {Null}, fs \in SUBSET Files :
              SendMessage(h, u, c, text, reply, fs)
    \/ \E f \in Files : RemoveFile(h, u, f)
    \/ \E m \in Messages :
         \/ Delete(h, u, m)
         \/ \E text \in BOOLEAN : Edit(h, u, m, text) \/ \E c \in Chats : Forward(h, u, m, c, text)

Continues(h) ==
  \/ ChatCreate(h) \/ ChatRename(h) \/ MemberAdd(h) \/ MemberRemove(h)
  \/ MessageSend(h) \/ LinkFiles(h) \/ FileStore(h) \/ FileRemove(h) \/ MessageForward(h)
  \/ MessageEdit(h) \/ MessageDelete(h)

Next ==
  \/ \E h \in Handlers : Calls(h) \/ Continues(h)
  \/ \E c \in Chats : Age(c)
  \/ TaskGoes
  \/ Die /\ UNCHANGED tables

Spec == Init /\ [][Next]_vars

-----------------------------------------------------------------------------
TypeOK ==
  /\ request \in [Handlers -> Awaited \cup {Null}] /\ served \in 0..MaxRequests
  /\ chat \in [Chats -> ChatRows \cup {Null}]
  /\ message \in [Messages -> MessageRows \cup {Null}]
  /\ file \in [Files -> FileRows \cup {Null}] /\ gone \subseteq Files

(* Nobody speaks in a conversation without being in it at that very moment, although the
   participant check is made an await earlier and the member may be removed in between.
   (Forwarded messages have no such protection.) *)
SendersTakePart ==
  [][ \A m \in Messages :
        message[m] = Null /\ message'[m] # Null /\ message'[m].forwardedFrom = Null =>
          TakesPart(message'[m].sender, message'[m].chat) ]_vars

(* A file belongs to one message at most, of the member who uploaded it, and stays with
   it: two messages sent with the same file do not take it from each other, and a file
   shown in one conversation never moves to another.  It goes for good, and only because its
   uploader or an admin removes it, or with the task it is on: a message that was about to
   be linked to it does not bring it back. *)
LinkedOnce ==
  [][ \A f \in Files :
        /\ file[f] # Null /\ file'[f] # Null =>
             /\ file[f].message # Null => file'[f].message = file[f].message
             /\ file'[f].message # Null => message[file'[f].message].sender = file[f].by
        /\ file[f] # Null /\ file'[f] = Null /\ ~file[f].onTask =>
             \E h \in Handlers :
               /\ request[h] # Null /\ request[h].at = "remove" /\ request[h].file = f
               /\ request[h].by \in WorkspaceAdmins \cup {file[f].by}
        /\ f \in gone => file'[f] = Null ]_vars

(* A group shrinks below two members because somebody leaves, or because it has changed
   since it was counted for a removal: the count itself has no gap. *)
KicksLeaveTwo ==
  [][ \A c \in Chats :
        chat[c] # Null /\ Cardinality(chat[c].members) >= 2 /\ Cardinality(chat'[c].members) < 2 =>
          \E h \in Handlers :
            /\ request[h] # Null /\ request'[h] # request[h]
            /\ \/ request[h].at = "leave"
               \/ request[h].at = "kick" /\ request[h].seen # chat[c].members ]_vars
=============================================================================
