----------------------------- MODULE NoticesProofs -----------------------------
(***************************************************************************)
(* The proofs about what is said in a workspace and who is told: the       *)
(* mentions of a comment follow its body, and of an event everybody it     *)
(* concerns is told once, for any number of users, devices, requests and   *)
(* comments.  What a request has read, or is telling, is followed from its *)
(* arrival to its last statement.  The last theorem is about all the       *)
(* tables of the workspace: every row stays whole and typed.               *)
(***************************************************************************)
EXTENDS WorkspaceProofs

(* The comments.  What a request that edits or writes a comment knows of it. *)
MentionSteps == {"mention:resolve", "mention:create", "mention:read", "mention:sync"}

WriteSteps == MentionSteps \cup {"comment:create", "comment:update"}

Noted(r) ==
  /\ r.at \in WriteSteps => r \in CommentRequests
  /\ r.at \in WriteSteps \ {"comment:create"} => r.on.comment \in used
  /\ r.at \in {"comment:update", "mention:resolve"} /\ comment[r.on.comment] # Null =>
       r.on.author = comment[r.on.comment].author

(* Those its last writing found are named by the body, and are not its author. *)
Meets(c, us) == owed[c] = us /\ us \subseteq comment[c].names \ {comment[c].author}

NobodyTwice(c) == mention[c] = Added(Unmentioned, {u \in Users : mention[c][u] > 0})

(* The only writing of a comment, as far as it has come. *)
Underway(r, c) ==
  /\ r.at = "mention:resolve" =>
       /\ r.on.names = comment[c].names
       /\ IF r.on.edit THEN NobodyTwice(c) ELSE mention[c] = Unmentioned
  /\ r.at = "mention:create" => Meets(c, r.on.want) /\ mention[c] = Unmentioned
  /\ r.at = "mention:read" => Meets(c, r.on.want) /\ NobodyTwice(c)
  /\ r.at = "mention:sync" =>
       Meets(c, r.on.want) /\ r.on.have \subseteq Users /\ mention[c] = Added(Unmentioned, r.on.have)

Writing(r, c) == r # Null /\ r.at \in MentionSteps /\ r.on.comment = c

(* A comment that is there, was written by one request at a time, and by none that was
   cut off. *)
InOrder(c) ==
  comment[c] # Null /\ owed[c] # Null =>
    /\ \A h \in Handlers : Writing(request[h], c) => Underway(request[h], c)
    /\ \A g, h \in Handlers : Writing(request[g], c) /\ Writing(request[h], c) => g = h
    /\ (\A h \in Handlers : ~Writing(request[h], c)) => Meets(c, owed[c]) /\ mention[c] = Added(Unmentioned, owed[c])

CommentTables ==
  /\ comment \in [Comments -> CommentRows \cup {Null}] /\ mention \in [Comments -> [Users -> Nat]]
  /\ DOMAIN owed = Comments
  /\ \A c \in Comments : IF comment[c] = Null THEN mention[c] = Unmentioned ELSE c \in used

AllNoted == \A h \in Handlers : request[h] # Null => Noted(request[h])

Mentioned == CommentTables /\ AllNoted /\ \A c \in Comments : InOrder(c)

(* An id is given out once, and a comment keeps its author. *)
AuthorsStay ==
  /\ used \subseteq used'
  /\ \A c \in Comments \cap used : comment'[c] # Null => comment[c] # Null /\ comment'[c].author = comment[c].author

LEMMA CommentRequestFields ==
  ASSUME NEW r \in CommentRequests
  PROVE  /\ DOMAIN r = {"at", "by", "on"} /\ r.at \in WriteSteps /\ r.by \in Users /\ r.on.event \in Nat
         /\ r.at = "comment:create" => r.on.task \in Tasks
         /\ r.at \in {"comment:create", "comment:update", "mention:resolve"} => r.on.names \in SUBSET Users
         /\ r.at # "comment:create" => r.on.comment \in Comments
         /\ r.at = "comment:update" => r.on.author \in Users
         /\ r.at = "mention:resolve" => r.on.author \in Users /\ r.on.edit \in BOOLEAN
         /\ r.at \in {"mention:create", "mention:read"} => r.on.author \in Users
         /\ r.at \in {"mention:create", "mention:read", "mention:sync"} => r.on.want \in SUBSET Users
         /\ r.at = "mention:sync" => r.on.have \in SUBSET Users
BY DEF CommentRequests, WriteSteps, MentionSteps

LEMMA NotedStays ==
  ASSUME AuthorsStay, NEW r, Noted(r)
  PROVE  Noted(r)'
<1>1. r.at \in WriteSteps \ {"comment:create"} => r.on.comment \in Comments
  BY CommentRequestFields DEF Noted
<1>2. QED
  BY <1>1 DEF Noted, AuthorsStay, WriteSteps, MentionSteps

LEMMA BeingWrittenMeans ==
  ASSUME NEW c
  PROVE  c \in BeingWritten <=> \E h \in Handlers : Writing(request[h], c)
BY DEF BeingWritten, Writing, At, On, MentionSteps

LEMMA InOrderStays ==
  ASSUME NEW c, InOrder(c), UNCHANGED <<comment[c], mention[c], owed[c]>>,
         \A g \in Handlers : request'[g] = request[g] \/ (~Writing(request[g], c) /\ ~Writing(request'[g], c))
  PROVE  InOrder(c)'
<1>1. ASSUME NEW r, Underway(r, c) PROVE Underway(r, c)'
  BY <1>1 DEF Underway, Meets, NobodyTwice, Added, Unmentioned
<1>2. \A g \in Handlers : Writing(request'[g], c) <=> Writing(request[g], c)
  OBVIOUS
<1>3. \A g \in Handlers : Writing(request'[g], c) => request'[g] = request[g]
  OBVIOUS
<1>4. ASSUME comment'[c] # Null /\ owed'[c] # Null, NEW g \in Handlers, Writing(request'[g], c)
      PROVE  Underway(request[g], c)'
  <2>1. PICK r : r = request[g] /\ r = request'[g] /\ Writing(r, c)
    BY <1>3, <1>4
  <2>2. Underway(r, c)
    BY <1>4, <2>1 DEF InOrder
  <2>3. Underway(r, c)'
    BY <1>1, <2>2
  <2>4. QED
    BY <2>1, <2>3
<1>5. \A g \in Handlers : Writing(request[g], c)' <=> Writing(request'[g], c)
  BY DEF Writing
<1>6. comment'[c] # Null /\ owed'[c] # Null /\ (\A h \in Handlers : ~Writing(request'[h], c)) =>
        Meets(c, owed[c])' /\ mention'[c] = Added(Unmentioned, owed'[c])
  BY <1>2 DEF InOrder, Meets
<1>7. comment'[c] # Null /\ owed'[c] # Null =>
        \A g, h \in Handlers : Writing(request'[g], c) /\ Writing(request'[h], c) => g = h
  BY <1>2 DEF InOrder
<1>8. (Added(Unmentioned, owed[c]))' = Added(Unmentioned, owed'[c])
  BY DEF Added, Unmentioned
<1>9. QED
  BY <1>4, <1>5, <1>6, <1>7, <1>8 DEF InOrder

(* Steps that write nothing: comments go, requests come to other steps, and whatever was
   being written when a request vanished is not in order any more. *)
Clear(r) == r # Null => r.at \notin WriteSteps

LEMMA MentionedAside ==
  ASSUME Mentioned, used \subseteq used', comment' \in [Comments -> CommentRows \cup {Null}], mention' \in [Comments -> [Users -> Nat]],
         \A c \in Comments :
           \/ comment'[c] = Null /\ mention'[c] = Unmentioned
           \/ UNCHANGED <<comment[c], mention[c]>>,
         DOMAIN owed' = Comments, \A c \in Comments : owed'[c] \in {owed[c], Null},
         \A g \in Handlers :
           \/ request'[g] = request[g]
           \/ Clear(request'[g]) /\ \A c \in Comments : Writing(request[g], c) => owed'[c] = Null
  PROVE  Mentioned'
<1>1. CommentTables'
  <2>1. Unmentioned' = Unmentioned
    BY DEF Unmentioned
  <2>2. QED
    BY <2>1 DEF Mentioned, CommentTables
<1>2. AuthorsStay
  BY DEF AuthorsStay
<1>3. ASSUME NEW g \in Handlers, request'[g] # Null PROVE Noted(request[g])'
  <2>1. PICK r : r = request'[g]
    OBVIOUS
  <2>2. CASE r = request[g]
    <3>1. Noted(r)
      BY <1>3, <2>1, <2>2 DEF Mentioned, AllNoted
    <3>2. QED
      BY <1>2, <2>1, <3>1, NotedStays
  <2>3. CASE Clear(r)
    <3>1. r.at \notin WriteSteps
      BY <1>3, <2>1, <2>3 DEF Clear
    <3>2. QED
      BY <2>1, <3>1 DEF Noted, WriteSteps, MentionSteps
  <2>4. QED
    BY <2>1, <2>2, <2>3
<1>4. ASSUME NEW c \in Comments PROVE InOrder(c)'
  <2>1. CASE comment'[c] = Null \/ owed'[c] = Null
    BY <2>1 DEF InOrder
  <2>2. CASE UNCHANGED <<comment[c], mention[c], owed[c]>> /\ owed'[c] # Null
    <3>1. \A g \in Handlers : request'[g] = request[g] \/ (~Writing(request[g], c) /\ ~Writing(request'[g], c))
      BY <2>2 DEF Clear, Writing, WriteSteps
    <3>2. QED
      BY <2>2, <3>1, InOrderStays DEF Mentioned
  <2>3. QED
    BY <2>1, <2>2
<1>5. QED
  BY <1>1, <1>3, <1>4 DEF Mentioned, AllNoted

(* A step of one request on one comment. *)
LEMMA MentionedByOne ==
  ASSUME Mentioned, NEW h \in Handlers, Others(h), NEW c \in Comments, CommentTables', AuthorsStay,
         \A d \in Comments \ {c} : UNCHANGED <<comment[d], mention[d], owed[d]>>,
         \A d \in Comments \ {c} : ~Writing(request[h], d) /\ ~Writing(request'[h], d),
         request'[h] # Null => Noted(request[h])', InOrder(c)'
  PROVE  Mentioned'
<1>1. ASSUME NEW g \in Handlers \ {h}, request'[g] # Null PROVE Noted(request[g])'
  <2>1. PICK r : r = request[g] /\ r = request'[g]
    BY DEF Others
  <2>2. Noted(r)
    BY <1>1, <2>1 DEF Mentioned, AllNoted
  <2>3. QED
    BY <2>1, <2>2, NotedStays
<1>2. ASSUME NEW d \in Comments \ {c} PROVE InOrder(d)'
  <2>1. \A g \in Handlers : request'[g] = request[g] \/ (~Writing(request[g], d) /\ ~Writing(request'[g], d))
    BY DEF Others
  <2>2. QED
    BY <2>1, InOrderStays DEF Mentioned
<1>3. QED
  BY <1>1, <1>2 DEF Mentioned, AllNoted

(* A comment's rows follow its task, or stay. *)
LEMMA CommentsGo ==
  ASSUME Mentioned, used \subseteq used', CommentsFollow \/ UNCHANGED commentVars,
         \A g \in Handlers :
           request'[g] = request[g] \/ (Clear(request'[g]) /\ \A c \in Comments : ~Writing(request[g], c))
  PROVE  Mentioned'
<1>1. CASE UNCHANGED commentVars
  <2>1. /\ comment' \in [Comments -> CommentRows \cup {Null}] /\ mention' \in [Comments -> [Users -> Nat]]
        /\ DOMAIN owed' = Comments
    BY <1>1 DEF commentVars, Mentioned, CommentTables
  <2>2. QED
    BY <1>1, <2>1, MentionedAside DEF commentVars
<1>2. CASE CommentsFollow
  <2>1. comment' \in [Comments -> CommentRows \cup {Null}] /\ UNCHANGED owed /\ DOMAIN owed = Comments
    BY <1>2 DEF CommentsFollow, Mentioned, CommentTables
  <2>2. \A c \in Comments : \/ comment'[c] = Null /\ mention'[c] = Unmentioned
                            \/ UNCHANGED <<comment[c], mention[c]>>
    BY <1>2 DEF CommentsFollow, Mentioned, CommentTables
  <2>3. mention' \in [Comments -> [Users -> Nat]]
    <3>1. Unmentioned \in [Users -> Nat]
      BY DEF Unmentioned
    <3>2. \A c \in Comments : mention'[c] \in [Users -> Nat]
      BY <2>2, <3>1 DEF Mentioned, CommentTables
    <3>3. mention' = [c \in Comments |-> IF comment'[c] = Null THEN Unmentioned ELSE mention[c]]
      BY <1>2 DEF CommentsFollow
    <3>4. \A c \in Comments : mention'[c] = IF comment'[c] = Null THEN Unmentioned ELSE mention[c]
      BY <3>3
    <3>5. QED
      BY <3>2, <3>3, <3>4
  <2>4. QED
    BY <2>1, <2>2, <2>3, MentionedAside
<1>3. QED
  BY <1>1, <1>2

(* A step that a request on a comment waits for is taken by the comments alone. *)
LEMMA OnlyComments ==
  ASSUME NEW h \in Handlers, request[h] # Null, request[h].at \in WriteSteps \cup {"comment:delete"}, Serve(h)
  PROVE  CommentsContinue(h)
<1>1. ~Free(h)
  BY DEF Free
<1> USE DEF WriteSteps, MentionSteps, At
<1>2. ~Members(h)
  BY <1>1 DEF Members, MembersCall, Invite, PatchRole, Deactivate, Reactivate, Revoke, Resend, Accept, Take,
     MembersContinue, InviteSupersede, InviteCreate, RevokeDelete, ResendRotate, AcceptAccount, AcceptCreateAccount,
     AcceptReadMember, AcceptCreateMember, AcceptReactivate, AcceptMark, PatchCount, PatchWrite, DeactivateCount,
     DeactivateTasks, DeactivateWrite, ReactivateWrite
<1>3. ~SignIn(h)
  BY <1>1 DEF SignIn, AccountsCall, AccountsContinue, AccountCreate, ForgotBurn, ForgotCommit, ResetCommit
<1>4. ~Board(h)
  BY <1>1 DEF Board, TasksCall, TasksContinue, ListCreate, ListDelete, ListAdd, ListRemove, TaskCreate, StatusStore,
     MoveStore, MoveSubtasks, AssignStore, TaskRemove, TaskRestore, TaskArchive, TaskUnarchive, TaskLock, TaskPurge
<1>5. ~(TemplatesCall(h) \/ TemplatesContinue(h))
  BY <1>1 DEF TemplatesCall, TemplatesContinue, TemplateCreate, TemplateUpdate, TemplateRemove, TemplateList,
     TemplateTask
<1>6. ~(AttachmentsCall(h) \/ AttachmentsContinue(h))
  BY <1>1 DEF AttachmentsCall, AttachmentsContinue, UploadPut, UploadRow, RemoveObject, RemoveRow
<1>7. ~(ChecklistsCall(h) \/ ChecklistsContinue(h))
  BY <1>1 DEF ChecklistsCall, ChecklistsContinue, ItemAdd, ItemCheck, ItemRemove, ReorderItem, ReorderCommit, GivenUp
<1>8. ~(NoticesCall(h) \/ NoticesContinue(h))
  BY <1>1 DEF NoticesCall, NoticesContinue, PrefsStore, DeviceStore, Dispatch
<1>9. ~((\E m \in Mails : Ingest(h, m)) \/ MailTask(h) \/ MailMetadata(h))
  BY <1>1 DEF Ingest, MailTask, MailMetadata
<1>10. ~(ChatroomCall(h) \/ ChatroomContinue(h))
  BY <1>1 DEF ChatroomCall, ChatroomContinue, SeatStore, SeatLeave, SeatAdd, SeatMute, SeatMark, MessageStore,
     NotifyParticipants, MarkStore, ReactionStore, ReactionRemove, PinStore
<1>11. ~CommentsCall(h)
  BY <1>1 DEF CommentsCall
<1>12. QED
  BY <1>2, <1>3, <1>4, <1>5, <1>6, <1>7, <1>8, <1>9, <1>10, <1>11 DEF Serve, Content

(* The other parts write no comment, and one goes only with its task. *)
LEMMA CommentsAside ==
  ASSUME Shape, NEW h \in Handlers, Serve(h)
  PROVE  \/ Others(h) /\ Clear(request'[h]) /\ (UNCHANGED commentVars \/ CommentsFollow)
         \/ CommentsCall(h) \/ CommentsContinue(h)
<1>1. ASSUME NEW steps \in {MemberSteps, AccountSteps, TaskSteps, TemplateSteps, FileSteps, ItemSteps, MailSteps,
                            NoticeSteps, ChatSteps}, Moves(h, steps)
      PROVE  Others(h) /\ Clear(request'[h])
  BY <1>1 DEF Moves, Clear, MemberSteps, AccountSteps, TaskSteps, TemplateSteps, FileSteps, ItemSteps, MailSteps,
     NoticeSteps, ChatSteps, WriteSteps, MentionSteps
<1>2. CASE Members(h)
  BY <1>1, <1>2, MembersMove DEF Members
<1>3. CASE SignIn(h)
  BY <1>1, <1>3, AccountsMove DEF SignIn, contentVars
<1>4. CASE Board(h)
  BY <1>1, <1>4, TasksMove DEF Board, Cascade
<1>5. CASE (TemplatesCall(h) \/ TemplatesContinue(h)) /\ UNCHANGED commentVars
  BY <1>1, <1>5, TemplatesMove
<1>6. CASE (AttachmentsCall(h) \/ AttachmentsContinue(h)) /\ UNCHANGED commentVars
  BY <1>1, <1>6, AttachmentsMove
<1>7. CASE ((\E m \in Mails : Ingest(h, m)) \/ MailTask(h) \/ MailMetadata(h)) /\ UNCHANGED commentVars
  BY <1>1, <1>7, MailsMove
<1>8. CASE (ChecklistsCall(h) \/ ChecklistsContinue(h)) /\ UNCHANGED commentVars
  BY <1>1, <1>8, ChecklistsMove
<1>9. CASE (NoticesCall(h) \/ NoticesContinue(h)) /\ UNCHANGED commentVars
  BY <1>1, <1>9, NoticesMove
<1>10. CASE (ChatroomCall(h) \/ ChatroomContinue(h)) /\ UNCHANGED commentVars
  BY <1>1, <1>10, ChatroomMove
<1>11. CASE Content(h)
  BY <1>5, <1>6, <1>7, <1>8, <1>9, <1>10, <1>11 DEF Content
<1>12. QED
  BY <1>2, <1>3, <1>4, <1>11 DEF Serve

(* How many requests were served. *)
LEMMA ServesOne ==
  ASSUME NEW h \in Handlers, Serve(h)
  PROVE  UNCHANGED served \/ (served < MaxRequests /\ served' = served + 1)
<1> DEFINE Goal == UNCHANGED served \/ (served < MaxRequests /\ served' = served + 1)
<1> SUFFICES Goal
  OBVIOUS
<1>1. ASSUME NEW r, Take(h, r) PROVE Goal
  BY <1>1 DEF Take, Free
<1>2. ASSUME NEW u, NEW step, NEW args, Call(h, u, step, args) PROVE Goal
  BY <1>1, <1>2 DEF Call
<1>3. ASSUME NEW r, Await(h, r) PROVE Goal
  BY <1>3 DEF Await
<1>4. ASSUME Answer(h) PROVE Goal
  BY <1>4 DEF Answer
<1>5. ASSUME NEW e, NEW first, NEW next, Tell(h, e, first, next) PROVE Goal
  BY <1>3, <1>4, <1>5 DEF Tell
<1> HIDE DEF Goal
<1>6. CASE Members(h)
  BY <1>1, <1>3, <1>4, <1>6 DEF Members, MembersCall, Invite, PatchRole, Deactivate, Reactivate, Revoke, Resend, Accept,
     MembersContinue, InviteSupersede, InviteCreate, RevokeDelete, ResendRotate, AcceptAccount, AcceptCreateAccount,
     AcceptReadMember, AcceptCreateMember, AcceptReactivate, AcceptMark, PatchCount, PatchWrite, DeactivateCount,
     DeactivateTasks, DeactivateWrite, ReactivateWrite
<1>7. CASE SignIn(h)
  BY <1>1, <1>3, <1>4, <1>7 DEF SignIn, AccountsCall, Signup, LoginWithGoogle, ForgotPassword, ResetPassword,
     AccountsContinue, AccountCreate, ForgotBurn, ForgotCommit, ResetCommit
<1>8. CASE TasksCall(h)
  BY <1>2, <1>8 DEF TasksCall, CreateList, DeleteList, AddToList, RemoveFromList, CreateTask, PatchStatus, MoveTask,
     Assign, Lock, File, Purge
<1>9. CASE TasksContinue(h)
  BY <1>3, <1>4, <1>9 DEF TasksContinue, ListCreate, ListDelete, ListAdd, ListRemove, TaskCreate, StatusStore,
     MoveStore, MoveSubtasks, AssignStore, TaskRemove, TaskRestore, TaskArchive, TaskUnarchive, TaskLock, TaskPurge
<1>10. CASE TemplatesCall(h)
  BY <1>2, <1>10 DEF TemplatesCall, CreateTemplate, SaveTask, SaveList, DuplicateTemplate, RemoveTemplate,
     InstantiateList, ApplyTemplate, UpdateTemplate, NewTemplate
<1>11. CASE TemplatesContinue(h)
  BY <1>3, <1>4, <1>11 DEF TemplatesContinue, TemplateCreate, TemplateUpdate, TemplateRemove, TemplateList,
     TemplateTask, Onward
<1>12. CASE AttachmentsCall(h) \/ AttachmentsContinue(h)
  BY <1>2, <1>3, <1>4, <1>12 DEF AttachmentsCall, Upload, RemoveFile, AttachmentsContinue, UploadPut, ToRow, UploadRow,
     RemoveObject, RemoveRow
<1>13. CASE ChecklistsCall(h) \/ ChecklistsContinue(h)
  BY <1>2, <1>3, <1>4, <1>13 DEF ChecklistsCall, AddItem, RemoveItem, CheckItem, Reorder, ChecklistsContinue, ItemAdd,
     ItemCheck, ItemRemove, ReorderItem, Updated, ReorderCommit, GivenUp
<1>14. CASE CommentsCall(h) \/ CommentsContinue(h)
  BY <1>2, <1>3, <1>4, <1>5, <1>14 DEF CommentsCall, Comment, EditComment, RemoveComment, CommentsContinue,
     CommentCreate, Write, CommentUpdate, CommentDelete, MentionResolve, MentionCreate, MentionRead, MentionSync
<1>15. CASE (\E m \in Mails : Ingest(h, m)) \/ MailTask(h) \/ MailMetadata(h)
  <2>1. ASSUME NEW m \in Mails, Ingest(h, m) PROVE Goal
    BY <1>2, <2>1 DEF Ingest, Free, Goal
  <2>2. QED
    BY <1>3, <1>4, <1>15, <2>1 DEF MailTask, MailMetadata
<1>16. CASE NoticesCall(h) \/ NoticesContinue(h)
  BY <1>2, <1>4, <1>5, <1>16 DEF NoticesCall, UpdatePrefs, Subscribe, Unsubscribe, NotifyAssigned, NotifyStatusChanged,
     Announce, NoticesContinue, PrefsStore, DeviceStore, Dispatch, DispatchRead, DispatchWrite
<1>17. CASE ChatroomCall(h) \/ ChatroomContinue(h)
  BY <1>2, <1>3, <1>4, <1>5, <1>17 DEF ChatroomCall, Leave, AddMember, Mute, MarkRead, SendMessage, AddReaction,
     RemoveReaction, TogglePin, Chat, ChatroomContinue, SeatStore, MessageStore, NotifyParticipants, MarkStore
<1>18. QED
  BY <1>6, <1>7, <1>8, <1>9, <1>10, <1>11, <1>12, <1>13, <1>14, <1>15, <1>16, <1>17 DEF Serve, Content, Board

LEMMA ServedCounts ==
  ASSUME served \in 0..MaxRequests, [Next]_vars
  PROVE  served' \in 0..MaxRequests
<1>1. UNCHANGED served \/ (served < MaxRequests /\ served' = served + 1)
  <2>1. CASE Mailing \/ Pushing \/ Chatting
    BY <2>1 DEF Mailing, SendMail, Pushing, Pushes, Forget, Chatting, Background, MuteEnds, AttachLinkPreview
  <2>2. CASE Time \/ Crash
    BY <2>2 DEF Time, Expire, ExpireLink, AutoArchive, TrashCleanup, Tick, Crash, Die
  <2>3. CASE UNCHANGED vars
    BY <2>3 DEF vars
  <2>4. QED
    BY <2>1, <2>2, <2>3, ServesOne DEF Next
<1>2. QED
  BY <1>1, RequestsAreCounted

(* A comment is stored or edited by a request that names members of the workspace. *)
LEMMA RowOfComment ==
  ASSUME CommentTables, NEW c \in Comments, comment[c] # Null
  PROVE  /\ comment[c].author \in Users /\ comment[c].names \in SUBSET Users /\ comment[c].task \in Tasks /\ c \in used
BY DEF CommentTables, CommentRows

LEMMA FollowersOfTask ==
  ASSUME Tree, NEW t \in Tasks, task[t] # Null
  PROVE  Following(t) \subseteq [to : Users, channel : {"task_comment"}, nth : 1..2, seen : {Null}]
<1>1. task[t].creator \in Users /\ (task[t].assignee # Null => task[t].assignee \in Users)
  BY DEF Tree, Forest, Tables, TaskRows
<1>2. \A u \in Users, n \in 1..2 :
        Recipient(u, "task_comment", n) \in [to : Users, channel : {"task_comment"}, nth : 1..2, seen : {Null}]
  BY DEF Recipient
<1>3. QED
  BY <1>1, <1>2 DEF Following

LEMMA MentionedArrives ==
  ASSUME Mentioned, NEW h \in Handlers, Others(h), request[h] = Null, UNCHANGED <<used, commentVars>>,
         NEW r, request'[h] = r, Noted(r), r.at \notin MentionSteps
  PROVE  Mentioned'
<1>1. AuthorsStay /\ CommentTables'
  BY DEF AuthorsStay, Mentioned, CommentTables, commentVars, Unmentioned
<1>2. ASSUME NEW g \in Handlers, request'[g] # Null PROVE Noted(request[g])'
  <2>1. PICK q : q = request'[g]
    OBVIOUS
  <2>2. Noted(q)
    BY <1>2, <2>1 DEF Mentioned, AllNoted, Others
  <2>3. QED
    BY <1>1, <2>1, <2>2, NotedStays
<1>3. ASSUME NEW c \in Comments PROVE InOrder(c)'
  <2>1. \A g \in Handlers : request'[g] = request[g] \/ (~Writing(request[g], c) /\ ~Writing(request'[g], c))
    BY DEF Others, Writing
  <2>2. QED
    BY <2>1, InOrderStays DEF Mentioned, commentVars
<1>4. QED
  BY <1>1, <1>2, <1>3 DEF Mentioned, AllNoted

LEMMA MentionedCall ==
  ASSUME Mentioned, Tree, served \in 0..MaxRequests, NEW h \in Handlers, CommentsCall(h)
  PROVE  Mentioned'
<1>1. Shape /\ UNCHANGED commentVars /\ Event \in Nat
  BY RequestsAreCounted DEF Tree, CommentsCall, Event
<1>2. ASSUME NEW u \in Users, NEW step \in {"comment:create", "comment:update", "comment:delete"}, NEW args,
             Call(h, u, step, args), NEW r, r = [at |-> step, by |-> u, on |-> args], Noted(r)
      PROVE  Mentioned'
  <2>1. Others(h) /\ request[h] = Null /\ request'[h] = r
    BY <1>1, <1>2, Calls
  <2>2. UNCHANGED used /\ r.at \notin MentionSteps
    BY <1>2 DEF Call, taskVars, MentionSteps
  <2>3. QED
    BY <1>1, <1>2, <2>1, <2>2, MentionedArrives
<1>3. ASSUME NEW u \in Users, NEW names \in Bodies, NEW t \in Tasks, Comment(h, u, t, names) PROVE Mentioned'
  <2>1. PICK on : on = [task |-> t, names |-> names, followers |-> Following(t), event |-> Event]
    OBVIOUS
  <2>2. PICK r : r = [at |-> "comment:create", by |-> u, on |-> on]
    OBVIOUS
  <2>3. Following(t) \subseteq [to : Users, channel : {"task_comment"}, nth : 1..2, seen : {Null}]
    BY <1>3, FollowersOfTask DEF Comment, Exists
  <2>4. names \in SUBSET Users
    BY BodiesNameUsers
  <2>5. r \in CommentRequests
    BY <1>1, <2>1, <2>2, <2>3, <2>4 DEF CommentRequests
  <2>6. Noted(r)
    BY <2>2, <2>5 DEF Noted
  <2>7. QED
    BY <1>2, <1>3, <2>1, <2>2, <2>6 DEF Comment
<1>4. ASSUME NEW u \in Users, NEW names \in Bodies, NEW c \in Comments, EditComment(h, u, c, names) PROVE Mentioned'
  <2>1. PICK on : on = [comment |-> c, author |-> comment[c].author, names |-> names, event |-> Event]
    OBVIOUS
  <2>2. PICK r : r = [at |-> "comment:update", by |-> u, on |-> on]
    OBVIOUS
  <2>3. comment[c].author \in Users /\ c \in used
    BY <1>4, RowOfComment DEF EditComment, MayRewrite, Mentioned
  <2>4. names \in SUBSET Users
    BY BodiesNameUsers
  <2>5. r \in CommentRequests
    BY <1>1, <2>1, <2>2, <2>3, <2>4 DEF CommentRequests
  <2>6. Noted(r)
    BY <2>1, <2>2, <2>3, <2>5 DEF Noted
  <2>7. QED
    BY <1>2, <1>4, <2>1, <2>2, <2>6 DEF EditComment
<1>5. ASSUME NEW u \in Users, NEW c \in Comments, RemoveComment(h, u, c) PROVE Mentioned'
  <2>1. PICK r : r = [at |-> "comment:delete", by |-> u, on |-> [comment |-> c]]
    OBVIOUS
  <2>2. Noted(r)
    BY <2>1 DEF Noted, WriteSteps, MentionSteps
  <2>3. QED
    BY <1>2, <1>5, <2>1, <2>2 DEF RemoveComment
<1>6. QED
  BY <1>3, <1>4, <1>5 DEF CommentsCall

----------------------------------------------------------------------------
(* The writing of a comment, statement by statement. *)
LEMMA InOrderByOne ==
  ASSUME NEW c, NEW h \in Handlers, \A g \in Handlers \ {h} : ~Writing(request'[g], c),
         Writing(request'[h], c), comment'[c] # Null /\ owed'[c] # Null => Underway(request[h], c)'
  PROVE  InOrder(c)'
<1>1. \A g \in Handlers : Writing(request[g], c)' <=> Writing(request'[g], c)
  BY DEF Writing
<1>2. QED
  BY <1>1 DEF InOrder

LEMMA OnceEach ==
  ASSUME NEW us, NEW rows, rows = Added(Unmentioned, us)
  PROVE  rows = Added(Unmentioned, {u \in Users : rows[u] > 0})
<1>1. \A u \in Users : rows[u] = IF u \in us THEN 1 ELSE 0
  BY DEF Added, Unmentioned
<1>2. \A u \in Users : u \in {v \in Users : rows[v] > 0} <=> u \in us
  BY <1>1
<1>3. QED
  BY <1>2 DEF Added, Unmentioned

LEMMA MentionedCreate ==
  ASSUME Mentioned, Shape, NEW h \in Handlers, CommentCreate(h)
  PROVE  Mentioned'
<1>1. PICK r : r = request[h] /\ r # Null /\ r.at = "comment:create"
  BY DEF CommentCreate, At
<1>2. r \in CommentRequests /\ r.by \in Users /\ r.on.task \in Tasks /\ r.on.names \in SUBSET Users /\ r.on.event \in Nat
  BY <1>1, CommentRequestFields DEF Mentioned, AllNoted, Noted, WriteSteps
<1>3. r.on.followers \subseteq [to : Users, channel : {"task_comment"}, nth : 1..2, seen : {Null}]
  BY <1>1, <1>2 DEF CommentRequests
<1>4. \A c \in Comments : ~Writing(request[h], c)
  BY <1>1 DEF Writing, MentionSteps
<1>5. CASE Answer(h) /\ UNCHANGED <<comment, used>>
  <2>1. Others(h) /\ Clear(request'[h])
    BY <1>5, Answers DEF Moves, Clear
  <2>2. UNCHANGED commentVars /\ used \subseteq used'
    BY <1>5 DEF CommentCreate, commentVars
  <2>3. \A g \in Handlers :
          request'[g] = request[g] \/ (Clear(request'[g]) /\ \A c \in Comments : ~Writing(request[g], c))
    BY <1>4, <2>1 DEF Others
  <2>4. QED
    BY <2>2, <2>3, CommentsGo
<1>6. ASSUME NEW c \in Comments \ used, used' = used \cup {c}, Write(h, c, By(h), On(h).followers, FALSE),
             comment' = [comment EXCEPT ![c] = [task |-> On(h).task, author |-> By(h), names |-> On(h).names]]
      PROVE  Mentioned'
  <2>1. PICK row : row = [task |-> r.on.task, author |-> r.by, names |-> r.on.names]
    OBVIOUS
  <2>2. row \in CommentRows /\ row # Null /\ row.author = r.by /\ row.names = r.on.names
    BY <1>2, <2>1, NullIsNoComment DEF CommentRows
  <2>3. comment' = [comment EXCEPT ![c] = row] /\ UNCHANGED <<mention, owed>>
    BY <1>1, <1>6, <2>1 DEF On, By, CommentCreate
  <2>4. comment[c] = Null /\ mention[c] = Unmentioned
    BY <1>6 DEF Mentioned, CommentTables
  <2>5. PICK on : on = [comment |-> c, author |-> r.by, followers |-> r.on.followers, edit |-> FALSE,
                        names |-> r.on.names, event |-> r.on.event]
    OBVIOUS
  <2>6. PICK q : q = [at |-> "mention:resolve", by |-> r.by, on |-> on]
    OBVIOUS
  <2>7. Others(h) /\ request'[h] = q
    BY <1>1, <1>6, <2>5, <2>6, Awaits DEF Write, On, By
  <2>8. q \in CommentRequests
    BY <1>2, <1>3, <2>5, <2>6 DEF CommentRequests
  <2>9. q # Null /\ q.at = "mention:resolve" /\ q.on.comment = c /\ q.on.author = r.by /\ q.on.names = r.on.names /\ q.on.edit = FALSE
    BY <2>5, <2>6, <2>8, NullIsNoComment
  <2>10. comment'[c] = row /\ \A d \in Comments \ {c} : comment'[d] = comment[d]
    BY <2>3 DEF Mentioned, CommentTables
  <2>11. CommentTables'
    BY <1>6, <2>2, <2>3, <2>10 DEF Mentioned, CommentTables, Unmentioned
  <2>12. AuthorsStay
    BY <1>6, <2>10 DEF AuthorsStay
  <2>13. Noted(q)'
    BY <1>6, <2>2, <2>8, <2>9, <2>10 DEF Noted
  <2>14. \A g \in Handlers \ {h} : ~Writing(request'[g], c)
    BY <1>6, <2>7 DEF Others, Writing, Mentioned, AllNoted, Noted, WriteSteps, MentionSteps
  <2>15. Underway(q, c)'
    BY <2>2, <2>3, <2>4, <2>9, <2>10 DEF Underway, Unmentioned
  <2>16. InOrder(c)'
    BY <2>7, <2>9, <2>14, <2>15, InOrderByOne DEF Writing, MentionSteps
  <2>17. \A d \in Comments \ {c} : ~Writing(request[h], d) /\ ~Writing(request'[h], d)
    BY <1>4, <2>7, <2>9 DEF Writing
  <2>18. QED
    BY <2>3, <2>7, <2>10, <2>11, <2>12, <2>13, <2>16, <2>17, MentionedByOne
<1>7. QED
  BY <1>5, <1>6 DEF CommentCreate

LEMMA MentionedUpdate ==
  ASSUME Mentioned, Shape, NEW h \in Handlers, CommentUpdate(h)
  PROVE  Mentioned'
<1>1. PICK r : r = request[h] /\ r # Null /\ r.at = "comment:update"
  BY DEF CommentUpdate, At
<1>2. /\ r \in CommentRequests /\ r.by \in Users /\ r.on.comment \in Comments \cap used /\ r.on.author \in Users
      /\ r.on.names \in SUBSET Users /\ r.on.event \in Nat
      /\ comment[r.on.comment] # Null => r.on.author = comment[r.on.comment].author
  BY <1>1, CommentRequestFields DEF Mentioned, AllNoted, Noted, WriteSteps
<1>3. PICK c \in Comments : c = r.on.comment
  BY <1>2
<1>4. \A d \in Comments : ~Writing(request[h], d)
  BY <1>1 DEF Writing, MentionSteps
<1>5. UNCHANGED used /\ On(h).comment = c /\ On(h).names = r.on.names
  BY <1>1, <1>3 DEF CommentUpdate, taskVars, On
<1>6. CASE comment[c] = Null
  <2>1. Answer(h) /\ UNCHANGED commentVars
    BY <1>5, <1>6 DEF CommentUpdate
  <2>2. \A g \in Handlers :
          request'[g] = request[g] \/ (Clear(request'[g]) /\ \A d \in Comments : ~Writing(request[g], d))
    BY <1>4, <2>1, Answers DEF Moves, Others, Clear
  <2>3. QED
    BY <1>5, <2>1, <2>2, CommentsGo
<1>7. CASE comment[c] # Null
  <2>1. /\ comment' = [comment EXCEPT ![c].names = r.on.names] /\ UNCHANGED mention
        /\ owed' = IF c \in BeingWritten THEN [owed EXCEPT ![c] = Null] ELSE owed
        /\ Write(h, c, r.on.author, {}, TRUE)
    BY <1>1, <1>5, <1>7 DEF CommentUpdate, On
  <2>2. PICK row : row = [comment[c] EXCEPT !.names = r.on.names]
    OBVIOUS
  <2>3. row \in CommentRows /\ row # Null /\ row.author = comment[c].author /\ row.names = r.on.names
    BY <1>2, <1>7, <2>2, NullIsNoComment DEF Mentioned, CommentTables, CommentRows
  <2>4. comment' = [comment EXCEPT ![c] = row]
    BY <2>1, <2>2
  <2>5. PICK on : on = [comment |-> c, author |-> r.on.author, followers |-> {}, edit |-> TRUE,
                        names |-> r.on.names, event |-> r.on.event]
    OBVIOUS
  <2>6. PICK q : q = [at |-> "mention:resolve", by |-> r.by, on |-> on]
    OBVIOUS
  <2>7. Others(h) /\ request'[h] = q
    BY <1>1, <2>1, <2>5, <2>6, Awaits DEF Write, On, By
  <2>8. q \in CommentRequests
    BY <1>2, <2>5, <2>6 DEF CommentRequests
  <2>9. /\ q # Null /\ q.at = "mention:resolve" /\ q.on.comment = c /\ q.on.author = r.on.author
        /\ q.on.names = r.on.names /\ q.on.edit = TRUE
    BY <2>5, <2>6, <2>8, NullIsNoComment
  <2>10. comment'[c] = row /\ \A d \in Comments \ {c} : comment'[d] = comment[d] /\ owed'[d] = owed[d]
    BY <2>1, <2>4 DEF Mentioned, CommentTables
  <2>11. CommentTables'
    BY <1>2, <1>3, <1>5, <2>1, <2>3, <2>4, <2>10 DEF Mentioned, CommentTables, Unmentioned
  <2>12. AuthorsStay
    BY <1>5, <1>7, <2>3, <2>10 DEF AuthorsStay
  <2>13. Noted(q)'
    BY <1>2, <1>3, <1>5, <1>7, <2>3, <2>8, <2>9, <2>10 DEF Noted
  <2>14. InOrder(c)'
    <3>1. CASE c \in BeingWritten
      <4>1. owed'[c] = Null
        BY <2>1, <3>1 DEF Mentioned, CommentTables
      <4>2. QED
        BY <4>1 DEF InOrder
    <3>2. CASE c \notin BeingWritten
      <4>1. UNCHANGED owed
        BY <2>1, <3>2
      <4>2. \A g \in Handlers : ~Writing(request[g], c)
        BY <3>2, BeingWrittenMeans
      <4>3. \A g \in Handlers \ {h} : ~Writing(request'[g], c)
        BY <2>7, <4>2 DEF Others
      <4>4. owed[c] # Null => NobodyTwice(c)
        <5>1. owed[c] # Null => mention[c] = Added(Unmentioned, owed[c])
          BY <1>7, <4>2 DEF Mentioned, InOrder
        <5>2. QED
          BY <5>1, OnceEach DEF NobodyTwice
      <4>5. owed'[c] # Null => Underway(q, c)'
        BY <2>1, <2>3, <2>9, <2>10, <4>1, <4>4 DEF Underway, NobodyTwice, Added, Unmentioned
      <4>6. QED
        BY <2>7, <2>9, <4>3, <4>5, InOrderByOne DEF Writing, MentionSteps
    <3>3. QED
      BY <3>1, <3>2
  <2>15. \A d \in Comments \ {c} : ~Writing(request[h], d) /\ ~Writing(request'[h], d)
    BY <1>4, <2>7, <2>9 DEF Writing
  <2>16. QED
    BY <2>1, <2>7, <2>10, <2>11, <2>12, <2>13, <2>14, <2>15, MentionedByOne
<1>8. QED
  BY <1>6, <1>7

(* What a writing may count on if its comment is there and nobody else writes it. *)
LEMMA AloneOn ==
  ASSUME Mentioned, NEW h \in Handlers, NEW r, r = request[h], r # Null, r.at \in MentionSteps
  PROVE  /\ r \in CommentRequests /\ r.on.comment \in Comments \cap used
         /\ r.at = "mention:resolve" /\ comment[r.on.comment] # Null => r.on.author = comment[r.on.comment].author
         /\ \A d \in Comments \ {r.on.comment} : ~Writing(request[h], d)
         /\ comment[r.on.comment] # Null /\ owed[r.on.comment] # Null =>
              /\ Underway(r, r.on.comment)
              /\ \A g \in Handlers \ {h} : ~Writing(request[g], r.on.comment)
<1>1. Noted(r) /\ r.at \in WriteSteps \ {"comment:create"}
  BY DEF Mentioned, AllNoted, WriteSteps, MentionSteps
<1>2. r \in CommentRequests /\ r.on.comment \in Comments \cap used
  BY <1>1, CommentRequestFields DEF Noted
<1>3. Writing(request[h], r.on.comment) /\ \A d \in Comments \ {r.on.comment} : ~Writing(request[h], d)
  BY DEF Writing
<1>4. InOrder(r.on.comment)
  BY <1>2 DEF Mentioned
<1>5. QED
  BY <1>1, <1>2, <1>3, <1>4 DEF InOrder, Noted

(* A writing that goes on to q, or ends, without a change of the comment itself. *)
LEMMA MentionedStep ==
  ASSUME Mentioned, NEW h \in Handlers, Others(h), UNCHANGED <<comment, used>>, NEW c \in Comments,
         \A d \in Comments \ {c} : ~Writing(request[h], d) /\ UNCHANGED <<mention[d], owed[d]>>,
         mention' \in [Comments -> [Users -> Nat]], DOMAIN owed' = Comments,
         comment[c] = Null => mention'[c] = Unmentioned,
         \/ Clear(request'[h])
         \/ request'[h] \in CommentRequests /\ request'[h].at \in MentionSteps \ {"mention:resolve"} /\ request'[h].on.comment = c,
         comment[c] # Null /\ owed'[c] # Null =>
           /\ \A g \in Handlers \ {h} : ~Writing(request[g], c)
           /\ IF Clear(request'[h]) THEN Meets(c, owed[c])' /\ mention'[c] = Added(Unmentioned, owed'[c])
              ELSE Underway(request[h], c)',
         c \in used
  PROVE  Mentioned'
<1>1. CommentTables' /\ AuthorsStay
  BY DEF Mentioned, CommentTables, AuthorsStay, Unmentioned
<1>2. \A d \in Comments \ {c} : ~Writing(request'[h], d)
  BY DEF Writing, Clear, WriteSteps
<1>3. request'[h] # Null => Noted(request[h])'
  BY DEF Noted, Clear, MentionSteps, WriteSteps
<1>4. InOrder(c)'
  <2>1. CASE comment'[c] = Null \/ owed'[c] = Null
    BY <2>1 DEF InOrder
  <2>2. CASE comment'[c] # Null /\ owed'[c] # Null
    <3>1. \A g \in Handlers \ {h} : ~Writing(request'[g], c)
      BY <2>2 DEF Others
    <3>2. CASE Clear(request'[h])
      <4>1. \A g \in Handlers : ~Writing(request'[g], c)
        BY <3>1, <3>2 DEF Clear, Writing, WriteSteps
      <4>2. \A g \in Handlers : Writing(request[g], c)' <=> Writing(request'[g], c)
        BY DEF Writing
      <4>3. (Added(Unmentioned, owed[c]))' = Added(Unmentioned, owed'[c])
        BY DEF Added, Unmentioned
      <4>4. QED
        BY <2>2, <3>2, <4>1, <4>2, <4>3 DEF InOrder
    <3>3. CASE ~Clear(request'[h])
      <4>1. Writing(request'[h], c)
        BY <3>3 DEF Clear, Writing, WriteSteps
      <4>2. QED
        BY <2>2, <3>1, <3>3, <4>1, InOrderByOne
    <3>4. QED
      BY <3>2, <3>3
  <2>3. QED
    BY <2>1, <2>2
<1>5. QED
  BY <1>1, <1>2, <1>3, <1>4, MentionedByOne

LEMMA MentionedResolve ==
  ASSUME Mentioned, Shape, NEW h \in Handlers, MentionResolve(h)
  PROVE  Mentioned'
<1>1. PICK r : r = request[h] /\ r # Null /\ r.at = "mention:resolve"
  BY DEF MentionResolve, At
<1>2. PICK c \in Comments : c = r.on.comment
  BY <1>1, AloneOn DEF MentionSteps
<1>3. /\ r \in CommentRequests /\ c \in used /\ \A d \in Comments \ {c} : ~Writing(request[h], d)
      /\ comment[c] # Null => r.on.author = comment[c].author
      /\ comment[c] # Null /\ owed[c] # Null =>
           Underway(r, c) /\ \A g \in Handlers \ {h} : ~Writing(request[g], c)
  BY <1>1, <1>2, AloneOn DEF MentionSteps
<1>4. /\ r.by \in Users /\ r.on.author \in Users /\ r.on.edit \in BOOLEAN /\ r.on.names \in SUBSET Users
      /\ r.on.event \in Nat
  BY <1>1, <1>3, CommentRequestFields
<1>5. r.on.followers \subseteq [to : Users, channel : {"task_comment"}, nth : 1..2, seen : {Null}]
  BY <1>1, <1>3 DEF CommentRequests
<1>6. PICK us : us = Targets(h)
  OBVIOUS
<1>7. us \subseteq r.on.names \ {r.on.author}
  BY <1>1, <1>6 DEF Targets, On
<1>8. PICK on : on = [comment |-> c, want |-> us, followers |-> r.on.followers, author |-> r.on.author,
                      event |-> r.on.event]
  OBVIOUS
<1>9. PICK q : q = [at |-> IF r.on.edit THEN "mention:read" ELSE "mention:create", by |-> r.by, on |-> on]
  OBVIOUS
<1>10. /\ owed' = IF owed[c] = Null THEN owed ELSE [owed EXCEPT ![c] = us]
       /\ UNCHANGED <<comment, mention, used>> /\ Await(h, q)
  BY <1>1, <1>2, <1>6, <1>8, <1>9 DEF MentionResolve, On, By, taskVars
<1>11. Others(h) /\ request'[h] = q
  BY <1>10, Awaits
<1>12. q \in CommentRequests /\ q.at \in {"mention:read", "mention:create"}
  BY <1>4, <1>5, <1>7, <1>8, <1>9 DEF CommentRequests
<1>13. q.on.comment = c /\ q.on.want = us /\ (q.at = "mention:read" <=> r.on.edit) /\ q # Null
  BY <1>4, <1>8, <1>9, <1>12, NullIsNoComment
<1>14. ~Clear(request'[h])
  BY <1>11, <1>12, <1>13 DEF Clear, WriteSteps, MentionSteps
<1>15. comment[c] # Null /\ owed'[c] # Null => owed[c] # Null /\ owed'[c] = us
  BY <1>10 DEF Mentioned, CommentTables
<1>16. comment[c] # Null /\ owed'[c] # Null => Underway(q, c)'
  <2> SUFFICES ASSUME comment[c] # Null, owed'[c] # Null PROVE Underway(q, c)'
    OBVIOUS
  <2>1. Meets(c, us)'
    BY <1>1, <1>3, <1>7, <1>10, <1>15 DEF Underway, Meets
  <2>2. IF r.on.edit THEN NobodyTwice(c)' ELSE mention'[c] = Unmentioned
    BY <1>1, <1>3, <1>10, <1>15 DEF Underway, NobodyTwice, Added, Unmentioned
  <2>3. QED
    BY <1>12, <1>13, <2>1, <2>2 DEF Underway, Unmentioned
<1>17. /\ mention' \in [Comments -> [Users -> Nat]] /\ DOMAIN owed' = Comments /\ (comment[c] = Null => mention'[c] = Unmentioned)
       /\ \A d \in Comments \ {c} : UNCHANGED <<mention[d], owed[d]>>
  BY <1>10 DEF Mentioned, CommentTables
<1>18. request'[h] \in CommentRequests /\ request'[h].at \in MentionSteps \ {"mention:resolve"} /\ request'[h].on.comment = c
  BY <1>11, <1>12, <1>13 DEF MentionSteps
<1>19. Underway(q, c)' => Underway(request[h], c)'
  BY <1>11
<1>20. QED
  BY <1>3, <1>10, <1>11, <1>14, <1>15, <1>16, <1>17, <1>18, <1>19, MentionedStep

LEMMA AddedCounts ==
  ASSUME NEW rows \in [Users -> Nat], NEW us
  PROVE  Added(rows, us) \in [Users -> Nat]
BY DEF Added

LEMMA MentionedStored ==
  ASSUME Mentioned, Shape, NEW h \in Handlers, MentionCreate(h)
  PROVE  Mentioned'
<1>1. PICK r : r = request[h] /\ r # Null /\ r.at = "mention:create"
  BY DEF MentionCreate, At
<1>2. PICK c \in Comments : c = r.on.comment
  BY <1>1, AloneOn DEF MentionSteps
<1>3. /\ c \in used /\ \A d \in Comments \ {c} : ~Writing(request[h], d)
      /\ comment[c] # Null /\ owed[c] # Null =>
           Underway(r, c) /\ \A g \in Handlers \ {h} : ~Writing(request[g], c)
  BY <1>1, <1>2, AloneOn DEF MentionSteps
<1>4. UNCHANGED <<comment, owed, used>> /\ DOMAIN owed' = Comments
  BY DEF MentionCreate, taskVars, Mentioned, CommentTables
<1>5. CASE comment[c] = Null /\ r.on.want # {}
  <2>1. Answer(h) /\ UNCHANGED mention
    BY <1>1, <1>2, <1>5 DEF MentionCreate, On
  <2>2. Others(h) /\ Clear(request'[h])
    BY <2>1, Answers DEF Moves, Clear
  <2>3. mention' \in [Comments -> [Users -> Nat]] /\ mention'[c] = Unmentioned
    BY <1>5, <2>1 DEF Mentioned, CommentTables
  <2>4. QED
    BY <1>3, <1>4, <1>5, <2>1, <2>2, <2>3, MentionedStep
<1>6. CASE ~(comment[c] = Null /\ r.on.want # {})
  <2>1. PICK e, first, next : Tell(h, e, first, next) /\ mention' = [mention EXCEPT ![c] = Added(@, r.on.want)]
    BY <1>1, <1>2, <1>6 DEF MentionCreate, On
  <2>2. Moves(h, {"tell"})
    BY <2>1, TellMoves
  <2>3. Others(h) /\ Clear(request'[h])
    BY <2>2 DEF Moves, Clear, WriteSteps, MentionSteps
  <2>4. mention[c] \in [Users -> Nat]
    BY DEF Mentioned, CommentTables
  <2>5. PICK rows : rows = Added(mention[c], r.on.want)
    OBVIOUS
  <2>6. rows \in [Users -> Nat] /\ mention' = [mention EXCEPT ![c] = rows]
    BY <2>1, <2>4, <2>5, AddedCounts
  <2>7. mention' \in [Comments -> [Users -> Nat]] /\ mention'[c] = rows /\ \A d \in Comments \ {c} : mention'[d] = mention[d]
    BY <2>6 DEF Mentioned, CommentTables
  <2>8. comment[c] = Null => mention'[c] = Unmentioned
    <3>1. comment[c] = Null => mention[c] = Unmentioned
      BY DEF Mentioned, CommentTables
    <3>2. comment[c] = Null => r.on.want = {}
      BY <1>6
    <3>3. QED
      BY <2>5, <2>7, <3>1, <3>2 DEF Added, Unmentioned
  <2>9. comment[c] # Null /\ owed'[c] # Null => Meets(c, owed[c])' /\ mention'[c] = Added(Unmentioned, owed'[c])
    <3> SUFFICES ASSUME comment[c] # Null, owed'[c] # Null
                 PROVE  Meets(c, owed[c])' /\ mention'[c] = Added(Unmentioned, owed'[c])
      OBVIOUS
    <3>1. Meets(c, r.on.want) /\ mention[c] = Unmentioned
      BY <1>1, <1>3, <1>4 DEF Underway
    <3>2. QED
      BY <1>4, <2>5, <2>7, <3>1 DEF Meets
  <2>10. QED
    BY <1>3, <1>4, <2>3, <2>7, <2>8, <2>9, MentionedStep
<1>7. QED
  BY <1>5, <1>6

LEMMA MentionedRead ==
  ASSUME Mentioned, Shape, NEW h \in Handlers, MentionRead(h)
  PROVE  Mentioned'
<1>1. PICK r : r = request[h] /\ r # Null /\ r.at = "mention:read"
  BY DEF MentionRead, At
<1>2. PICK c \in Comments : c = r.on.comment
  BY <1>1, AloneOn DEF MentionSteps
<1>3. /\ r \in CommentRequests /\ c \in used /\ \A d \in Comments \ {c} : ~Writing(request[h], d)
      /\ comment[c] # Null /\ owed[c] # Null =>
           Underway(r, c) /\ \A g \in Handlers \ {h} : ~Writing(request[g], c)
  BY <1>1, <1>2, AloneOn DEF MentionSteps
<1>4. r.by \in Users /\ r.on.want \in SUBSET Users /\ r.on.event \in Nat /\ DOMAIN r = {"at", "by", "on"}
  BY <1>1, <1>3, CommentRequestFields
<1>5. PICK have \in SUBSET Users : have = {u \in Users : mention[c][u] > 0}
  OBVIOUS
<1>6. PICK on : on = [comment |-> c, want |-> r.on.want, have |-> have, event |-> r.on.event]
  OBVIOUS
<1>7. PICK q : q = [at |-> "mention:sync", by |-> r.by, on |-> on]
  OBVIOUS
<1>8. r = [at |-> r.at, by |-> r.by, on |-> r.on]
  <2>1. r \in [at : {"mention:create", "mention:read"}, by : Users, on : {r.on}]
    BY <1>1, <1>3 DEF CommentRequests
  <2>2. QED
    BY <2>1
<1>9. PICK q2 : q2 = [r EXCEPT !.at = "mention:sync",
                        !.on = [comment |-> @.comment, want |-> @.want, have |-> have, event |-> @.event]]
  OBVIOUS
<1>10. q2 = q
  <2>1. PICK s : s = [at |-> "mention:sync", by |-> r.by, on |-> q2.on]
    OBVIOUS
  <2>2. q2 = s
    <3>1. q2.at = "mention:sync" /\ q2.by = r.by /\ DOMAIN q2 = {"at", "by", "on"}
      BY <1>4, <1>9
    <3>2. q2 = [x \in DOMAIN q2 |-> q2[x]]
      BY <1>9
    <3>3. QED
      BY <2>1, <3>1, <3>2
  <2>3. q2.on = on
    BY <1>2, <1>6, <1>8, <1>9
  <2>4. QED
    BY <1>7, <2>1, <2>2, <2>3
<1>11. UNCHANGED <<commentVars, taskVars>> /\ Await(h, q2)
  BY <1>1, <1>2, <1>5, <1>9 DEF MentionRead, On
<1>12. Others(h) /\ request'[h] = q
  BY <1>10, <1>11, Awaits
<1>13. q \in CommentRequests
  BY <1>4, <1>6, <1>7 DEF CommentRequests
<1>14. q # Null /\ q.at = "mention:sync" /\ q.on.comment = c /\ q.on.want = r.on.want /\ q.on.have = have
  BY <1>6, <1>7, <1>13, NullIsNoComment
<1>15. ~Clear(request'[h])
  BY <1>12, <1>14 DEF Clear, WriteSteps, MentionSteps
<1>16. /\ UNCHANGED <<comment, used, mention, owed>> /\ mention' \in [Comments -> [Users -> Nat]]
       /\ DOMAIN owed' = Comments /\ (comment[c] = Null => mention'[c] = Unmentioned)
  BY <1>11 DEF commentVars, taskVars, Mentioned, CommentTables
<1>17. comment[c] # Null /\ owed'[c] # Null => Underway(q, c)'
  <2> SUFFICES ASSUME comment[c] # Null, owed'[c] # Null PROVE Underway(q, c)'
    OBVIOUS
  <2>1. Meets(c, r.on.want)' /\ NobodyTwice(c)
    BY <1>1, <1>3, <1>16 DEF Underway, Meets
  <2>2. mention[c] = Added(Unmentioned, have)
    BY <1>5, <2>1 DEF NobodyTwice
  <2>3. mention'[c] = Added(Unmentioned, have)'
    BY <1>16, <2>2 DEF Added, Unmentioned
  <2>4. QED
    BY <1>5, <1>14, <2>1, <2>3 DEF Underway, Added, Unmentioned
<1>18. request'[h] \in CommentRequests /\ request'[h].at \in MentionSteps \ {"mention:resolve"} /\ request'[h].on.comment = c
  BY <1>12, <1>13, <1>14 DEF MentionSteps
<1>19. Underway(q, c)' => Underway(request[h], c)'
  BY <1>12
<1>20. QED
  BY <1>3, <1>12, <1>15, <1>16, <1>17, <1>18, <1>19, MentionedStep

LEMMA SyncedMeets ==
  ASSUME NEW want, NEW have
  PROVE  Synced(Added(Unmentioned, have), want, have) = Added(Unmentioned, want)
BY DEF Synced, Added, Unmentioned

LEMMA MentionedSync ==
  ASSUME Mentioned, Shape, NEW h \in Handlers, MentionSync(h)
  PROVE  Mentioned'
<1>1. PICK r : r = request[h] /\ r # Null /\ r.at = "mention:sync"
  BY DEF MentionSync, At
<1>2. PICK c \in Comments : c = r.on.comment
  BY <1>1, AloneOn DEF MentionSteps
<1>3. /\ c \in used /\ \A d \in Comments \ {c} : ~Writing(request[h], d)
      /\ comment[c] # Null /\ owed[c] # Null =>
           Underway(r, c) /\ \A g \in Handlers \ {h} : ~Writing(request[g], c)
  BY <1>1, <1>2, AloneOn DEF MentionSteps
<1>4. UNCHANGED <<comment, owed, used>> /\ DOMAIN owed' = Comments
  BY DEF MentionSync, taskVars, Mentioned, CommentTables
<1>5. CASE comment[c] = Null
  <2>1. Answer(h) /\ UNCHANGED mention
    BY <1>1, <1>2, <1>5 DEF MentionSync, On
  <2>2. Others(h) /\ Clear(request'[h])
    BY <2>1, Answers DEF Moves, Clear
  <2>3. mention' \in [Comments -> [Users -> Nat]] /\ mention'[c] = Unmentioned
    BY <1>5, <2>1 DEF Mentioned, CommentTables
  <2>4. QED
    BY <1>3, <1>4, <1>5, <2>1, <2>2, <2>3, MentionedStep
<1>6. CASE comment[c] # Null
  <2>1. PICK e, first, next : /\ Tell(h, e, first, next)
                              /\ mention' = [mention EXCEPT ![c] = Synced(@, r.on.want, r.on.have)]
    BY <1>1, <1>2, <1>6 DEF MentionSync, On
  <2>2. Moves(h, {"tell"})
    BY <2>1, TellMoves
  <2>3. Others(h) /\ Clear(request'[h])
    BY <2>2 DEF Moves, Clear, WriteSteps, MentionSteps
  <2>4. mention[c] \in [Users -> Nat]
    BY DEF Mentioned, CommentTables
  <2>5. PICK rows : rows = Synced(mention[c], r.on.want, r.on.have)
    OBVIOUS
  <2>6. rows \in [Users -> Nat] /\ mention' = [mention EXCEPT ![c] = rows]
    <3>1. [u \in Users |-> IF u \in r.on.have \ r.on.want THEN 0 ELSE mention[c][u]] \in [Users -> Nat]
      BY <2>4
    <3>2. QED
      BY <2>1, <2>5, <3>1, AddedCounts DEF Synced
  <2>7. mention' \in [Comments -> [Users -> Nat]] /\ mention'[c] = rows /\ \A d \in Comments \ {c} : mention'[d] = mention[d]
    BY <2>6 DEF Mentioned, CommentTables
  <2>8. owed'[c] # Null => Meets(c, owed[c])' /\ mention'[c] = Added(Unmentioned, owed'[c])
    <3> SUFFICES ASSUME owed'[c] # Null
                 PROVE  Meets(c, owed[c])' /\ mention'[c] = Added(Unmentioned, owed'[c])
      OBVIOUS
    <3>1. Meets(c, r.on.want) /\ mention[c] = Added(Unmentioned, r.on.have)
      BY <1>1, <1>3, <1>4, <1>6 DEF Underway
    <3>2. rows = Added(Unmentioned, r.on.want)
      BY <2>5, <3>1, SyncedMeets
    <3>3. QED
      BY <1>4, <2>7, <3>1, <3>2 DEF Meets
  <2>9. QED
    BY <1>3, <1>4, <1>6, <2>3, <2>7, <2>8, MentionedStep
<1>7. QED
  BY <1>5, <1>6

LEMMA MentionedDelete ==
  ASSUME Mentioned, Shape, NEW h \in Handlers, CommentDelete(h)
  PROVE  Mentioned'
<1>1. PICK r : r = request[h] /\ r.at = "comment:delete"
  BY DEF CommentDelete, At
<1>2. Others(h) /\ Clear(request'[h])
  BY Answers DEF CommentDelete, Moves, Clear
<1>3. PICK c : c = r.on.comment
  OBVIOUS
<1>4. /\ comment' = [comment EXCEPT ![c] = Null] /\ mention' = [mention EXCEPT ![c] = Unmentioned]
      /\ UNCHANGED <<owed, used>>
  BY <1>1, <1>3 DEF CommentDelete, On, taskVars
<1>5. Unmentioned \in [Users -> Nat]
  BY DEF Unmentioned
<1>6. /\ comment' \in [Comments -> CommentRows \cup {Null}] /\ mention' \in [Comments -> [Users -> Nat]]
      /\ DOMAIN owed' = Comments
      /\ \A d \in Comments : \/ comment'[d] = Null /\ mention'[d] = Unmentioned
                             \/ UNCHANGED <<comment[d], mention[d]>>
  BY <1>4, <1>5 DEF Mentioned, CommentTables
<1>7. \A d \in Comments : ~Writing(request[h], d)
  BY <1>1 DEF Writing, MentionSteps
<1>8. \A g \in Handlers : request'[g] = request[g] \/ (Clear(request'[g]) /\ \A d \in Comments : ~Writing(request[g], d))
  BY <1>2, <1>7 DEF Others
<1>9. QED
  BY <1>4, <1>6, <1>8, MentionedAside

----------------------------------------------------------------------------
LEMMA MentionedServe ==
  ASSUME Tree, Mentioned, served \in 0..MaxRequests, used \subseteq used', NEW h \in Handlers, Serve(h)
  PROVE  Mentioned'
<1>1. Shape
  BY DEF Tree
<1>2. CASE Others(h) /\ Clear(request'[h]) /\ (UNCHANGED commentVars \/ CommentsFollow) /\ ~CommentsContinue(h)
  <2>1. \A c \in Comments : ~Writing(request[h], c)
    BY <1>2, OnlyComments DEF Writing, WriteSteps
  <2>2. \A g \in Handlers : request'[g] = request[g] \/ (Clear(request'[g]) /\ \A c \in Comments : ~Writing(request[g], c))
    BY <1>2, <2>1 DEF Others
  <2>3. QED
    BY <1>2, <2>2, CommentsGo
<1>3. CASE CommentsContinue(h)
  BY <1>1, <1>3, MentionedCreate, MentionedUpdate, MentionedDelete, MentionedResolve, MentionedStored, MentionedRead,
     MentionedSync DEF CommentsContinue
<1>4. QED
  BY <1>1, <1>2, <1>3, CommentsAside, MentionedCall

LEMMA MentionedNext ==
  ASSUME Tree, Mentioned, served \in 0..MaxRequests, [Next]_vars
  PROVE  Mentioned'
<1>1. used \subseteq used'
  BY TreeNext DEF Ages
<1>2. CASE UNCHANGED request /\ (UNCHANGED commentVars \/ CommentsFollow)
  BY <1>1, <1>2, CommentsGo
<1>3. CASE Mailing \/ Pushing \/ Chatting
  BY <1>2, <1>3 DEF Mailing, SendMail, Pushing, Pushes, Forget, Chatting, Background, MuteEnds, AttachLinkPreview
<1>4. CASE Crash
  <2>1. owed' = [c \in Comments |-> IF c \in BeingWritten THEN Null ELSE owed[c]] /\ UNCHANGED <<comment, mention, used>>
    BY <1>4 DEF Crash, CommentsCutOff, taskVars
  <2>2. \A g \in Handlers : request'[g] = Null
    BY <1>4 DEF Crash, Die, Quiet
  <2>3. \A g \in Handlers : Clear(request'[g]) /\ \A c \in Comments : Writing(request[g], c) => owed'[c] = Null
    BY <2>1, <2>2, BeingWrittenMeans DEF Clear
  <2>4. /\ comment' \in [Comments -> CommentRows \cup {Null}] /\ mention' \in [Comments -> [Users -> Nat]]
        /\ DOMAIN owed' = Comments /\ \A c \in Comments : owed'[c] \in {owed[c], Null}
    BY <2>1 DEF Mentioned, CommentTables
  <2>5. QED
    BY <2>1, <2>3, <2>4, MentionedAside
<1>5. CASE Time
  BY <1>2, <1>5 DEF Time, Expire, ExpireLink, AutoArchive, TrashCleanup, Tick, Cascade, contentVars
<1>6. CASE UNCHANGED vars
  BY <1>2, <1>6 DEF vars, contentVars
<1>7. QED
  BY <1>1, <1>3, <1>4, <1>5, <1>6, MentionedServe DEF Next

LEMMA MentionedIsKept == Spec => [](Mentioned /\ served \in 0..MaxRequests)
<1>1. Init => Mentioned /\ served \in 0..MaxRequests
  <2> SUFFICES ASSUME Init PROVE Mentioned /\ served \in 0..MaxRequests
    OBVIOUS
  <2>1. /\ comment = [c \in Comments |-> Null] /\ mention = [c \in Comments |-> Unmentioned]
        /\ owed = [c \in Comments |-> {}] /\ \A h \in Handlers : request[h] = Null
    BY DEF Init, InitComments, InitRequests
  <2>2. mention \in [Comments -> [Users -> Nat]]
    BY <2>1 DEF Unmentioned
  <2>3. QED
    BY <2>1, <2>2, RequestsAreCounted DEF Mentioned, CommentTables, AllNoted, InOrder, Init, InitRequests
<1>2. Tree /\ Mentioned /\ served \in 0..MaxRequests /\ [Next]_vars => (Mentioned /\ served \in 0..MaxRequests)'
  BY MentionedNext, ServedCounts
<1>3. QED
  BY <1>1, <1>2, TreeIsKept, PTL DEF Spec

(* Once nobody is writing a comment, the rows beside it are those of the members its last
   writing found in the body, one each, whatever was edited, deactivated or deleted on
   the way, unless two writings of it overlapped or the process died in one
   (resolveMentions and syncMentions of comments.module.ts). *)
THEOREM MentionsAreOfTheBody == Spec => []MentionsFollowBody
<1>1. Mentioned => MentionsFollowBody
  BY BeingWrittenMeans DEF Mentioned, InOrder, Meets, MentionsFollowBody
<1>2. QED
  BY <1>1, MentionedIsKept, PTL

----------------------------------------------------------------------------
(* What members are told.  The requests in which something happens that members are told
   of, and those of them in which it has not happened yet. *)
EventSteps == WriteSteps \cup {"chat:send", "chat:notify", "tell"}

Eventful(r) == r # Null /\ r.at \in EventSteps
About(r) == Eventful(r) /\ r.on.event = watched

Early(r) ==
  r.at \in {"comment:update", "mention:read", "chat:send"} \/ (r.at = "mention:resolve" /\ r.on.edit)

(* What a request knows that changes what is told, or tells. *)
Heard(r) ==
  /\ r.at = "prefs" => r \in PrefsRequests
  /\ r.at = "subscribe" => r.on.device \in Devices /\ r.on.to \in Users \cup {Null}
  /\ r.at = "chat:mute" => r.on.muted \in BOOLEAN
  /\ r.at \in {"chat:send", "chat:notify"} => r \in ChatRequests
  /\ r.at = "tell" =>
       /\ r \in TellRequests /\ r.on.first \cap r.on.next = {} /\ \A f \in r.on.next : f.seen = Null

PushRows ==
  [at : {"read", "send", "prune"}, event : Nat, to : Users, nth : 1..2, devices : SUBSET Devices]

Hearing ==
  /\ \A h \in Handlers : request[h] # Null => Heard(request[h])
  /\ prefs \in [Users -> Prefs] /\ subscription \in [Devices -> Users \cup {Null}]
  /\ gone \subseteq Devices /\ notice \in [Users -> Nat] /\ rung \in [Devices -> Nat]
  /\ pushing \subseteq PushRows /\ event \in EventRows \cup {Null} /\ watched \in Nat
  /\ \A p \in pushing : p.at = "prune" => p.devices \subseteq gone

Seated == seat \in [Users -> Seats \cup {Null}] /\ said \subseteq Talks

(* An event is of one request. *)
Numbered ==
  /\ served \in Nat
  /\ \A h \in Handlers : Eventful(request[h]) => request[h].on.event \in 1..served
  /\ \A g, h \in Handlers :
       Eventful(request[g]) /\ Eventful(request[h]) /\ request[g].on.event = request[h].on.event => g = h

(* Those who will be told if nothing changes. *)
Naming(us, followers, author) ==
  LET mentioned == {u \in us : Admitted(u)} \ {author}
  IN  Recipients(mentioned, "mention") \cup {f \in followers : f.to \notin {author} \cup mentioned}

Coming(r) ==
  CASE r.at = "comment:create" -> Naming(r.on.names, r.on.followers, r.by)
    [] r.at = "mention:resolve" /\ ~r.on.edit -> Naming(r.on.names, r.on.followers, r.on.author)
    [] r.at = "mention:create" ->
         Recipients(r.on.want, "mention") \cup {f \in r.on.followers : f.to \notin {r.on.author} \cup r.on.want}
    [] r.at = "mention:sync" -> Recipients(r.on.want \ r.on.have, "mention")
    [] r.at = "chat:notify" ->
         {Recipient(u, ChannelOf(u, r.on.names), 1) : u \in {v \in Users : Listening(v)} \ {r.by}}
    [] r.at = "tell" -> r.on.first \cup r.on.next
    [] OTHER -> {}

ToTell == UNION {Coming(request[h]) : h \in {g \in Handlers : About(request[g])}}

(* Before the event. *)
Ahead == served < watched \/ \E h \in Handlers : About(request[h]) /\ Early(request[h])

Untold ==
  /\ event = Null /\ \A p \in pushing : p.event # watched
  /\ notice = [u \in Users |-> 0] /\ rung = [d \in Devices |-> 0]

(* How often u is still to be told of it, and how often u's devices are still to ring. *)
Slot(x, u, n) == x.to = u /\ x.nth = n

Owes(T, u, n) == IF \E f \in T : Slot(f, u, n) THEN 1 ELSE 0

Rings(u, n) ==
  IF \E p \in pushing : p.event = watched /\ Slot(p, u, n) /\ p.at \in {"read", "send"} THEN 1 ELSE 0

Owed(T, u, s) == IF Wanted(u, s) THEN Owes(T, u, 1) + Owes(T, u, 2) ELSE 0

(* Since the event, of who has not changed. *)
Steady(u) == prefs[u] = event.prefs[u] /\ (Admitted(u) <=> u \in event.active)

Right(f) ==
  /\ f.channel = event.channel[f.to]
  /\ f.seen # Null => f.seen = event.prefs[f.to] /\ Wanted(f.to, "inApp")

Fed(T, u) ==
  /\ \A f \in T : f.to = u => Right(f)
  /\ \A f, g \in T : f.to = u /\ g.to = u /\ f.nth = g.nth => f = g
  /\ notice[u] + Owed(T, u, "inApp") = Times(u, "inApp")

Single(u) ==
  \A p, q \in pushing : p.event = watched /\ q.event = watched /\ p.to = u /\ q.to = u /\ p.nth = q.nth => p = q

Rung(T, u) ==
  /\ \A p \in pushing, f \in T : p.event = watched /\ p.to = u /\ f.to = u => p.nth # f.nth
  /\ Single(u)
  /\ \A d \in Devices \ event.moved : event.device[d] = u =>
       rung[d] + Owed(T, u, "push") + Rings(u, 1) + Rings(u, 2) = Times(u, "push")

(* The devices that have not moved. *)
Connected ==
  /\ gone \subseteq event.moved
  /\ \A d \in Devices \ event.moved : subscription[d] = event.device[d]
  /\ \A p \in pushing : p.event = watched /\ p.at = "send" =>
       \A d \in Devices \ event.moved : d \in p.devices <=> event.device[d] = p.to

Just(T) == Connected /\ \A u \in Users \ event.changed : Steady(u) /\ Fed(T, u) /\ Rung(T, u)

Announced ==
  /\ Hearing /\ Seated /\ Numbered /\ (Ahead => Untold) /\ (event # Null => Just(ToTell))

(* What is to come of a request depends only on who is admitted and who listens. *)
LEMMA ComingStays ==
  ASSUME NEW r, NEW f, Admitted(f.to)' <=> Admitted(f.to), Listening(f.to)' <=> Listening(f.to)
  PROVE  f \in Coming(r)' <=> f \in Coming(r)
<1>1. \A us, channel : f \in Recipients(us, channel) => f.to \in us
  BY DEF Recipients, Recipient
<1>2. ASSUME NEW us, NEW followers, NEW author
      PROVE  f \in Naming(us, followers, author)' <=> f \in Naming(us, followers, author)
  <2>1. \A u : (u \in {v \in us : Admitted(v)} \ {author})' <=> u \in us /\ Admitted(u)' /\ u # author
    OBVIOUS
  <2>2. f \in Naming(us, followers, author) <=>
          \/ f = Recipient(f.to, "mention", 1) /\ f.to \in us /\ Admitted(f.to) /\ f.to # author
          \/ f \in followers /\ f.to # author /\ ~(f.to \in us /\ Admitted(f.to))
    BY <1>1 DEF Naming, Recipients, Recipient
  <2>3. f \in Naming(us, followers, author)' <=>
          \/ f = Recipient(f.to, "mention", 1) /\ f.to \in us /\ Admitted(f.to)' /\ f.to # author
          \/ f \in followers /\ f.to # author /\ ~(f.to \in us /\ Admitted(f.to)')
    BY <1>1 DEF Naming, Recipients, Recipient
  <2>4. QED
    BY <2>2, <2>3
<1>3. CASE r.at = "comment:create"
  BY <1>2, <1>3 DEF Coming
<1>4. CASE r.at = "mention:resolve" /\ ~r.on.edit
  BY <1>2, <1>4 DEF Coming
<1>5. CASE r.at = "chat:notify"
  <2>1. f \in Coming(r) <=>
          f = Recipient(f.to, ChannelOf(f.to, r.on.names), 1) /\ f.to \in Users /\ Listening(f.to) /\ f.to # r.by
    BY <1>5 DEF Coming, Recipient
  <2>2. f \in Coming(r)' <=>
          f = Recipient(f.to, ChannelOf(f.to, r.on.names), 1) /\ f.to \in Users /\ Listening(f.to)' /\ f.to # r.by
    BY <1>5 DEF Coming, Recipient
  <2>3. QED
    BY <2>1, <2>2
<1>6. CASE r.at \notin {"comment:create", "mention:resolve", "chat:notify"} \/ (r.at = "mention:resolve" /\ r.on.edit)
  BY <1>6 DEF Coming, Recipients, Recipient
<1>7. QED
  BY <1>3, <1>4, <1>5, <1>6

(* Of an event nothing is rewritten but who and what has changed since. *)
Same ==
  /\ event # Null /\ event' # Null /\ UNCHANGED watched
  /\ UNCHANGED <<event.channel, event.twice, event.prefs, event.active, event.device>>
  /\ event.changed \subseteq event'.changed /\ event.moved \subseteq event'.moved

LEMMA WantedStays ==
  ASSUME Same, NEW u, NEW s
  PROVE  (Wanted(u, s)' <=> Wanted(u, s)) /\ Times(u, s)' = Times(u, s)
BY DEF Same, Wanted, Times

SamePushes == \A p : p.event = watched => (p \in pushing' <=> p \in pushing)

LEMMA JustStays ==
  ASSUME NEW T, NEW S, Just(T), Same, SamePushes, gone' \subseteq event'.moved,
         \A d \in Devices \ event'.moved : subscription'[d] = subscription[d] /\ rung'[d] = rung[d],
         \A u \in Users \ event'.changed :
           prefs'[u] = prefs[u] /\ (Admitted(u)' <=> Admitted(u)) /\ notice'[u] = notice[u],
         \A u \in Users \ event'.changed : \A f : f.to = u => (f \in S <=> f \in T)
  PROVE  Just(S)'
<1>1. Connected'
  <2>1. \A d \in Devices \ event'.moved : subscription'[d] = event'.device[d]
    BY DEF Same, Just, Connected
  <2>2. ASSUME NEW p \in pushing', p.event = watched', p.at = "send", NEW d \in Devices \ event'.moved
        PROVE  d \in p.devices <=> event'.device[d] = p.to
    <3>1. p \in pushing /\ p.event = watched
      BY <2>2 DEF Same, SamePushes
    <3>2. QED
      BY <2>2, <3>1 DEF Same, Just, Connected
  <2>3. QED
    BY <2>1, <2>2 DEF Connected
<1>2. ASSUME NEW u \in Users \ event'.changed PROVE Steady(u)' /\ Fed(S, u)' /\ Rung(S, u)'
  <2>1. Steady(u) /\ Fed(T, u) /\ Rung(T, u) /\ u \notin event.changed
    BY DEF Just, Same
  <2>2. \A f : f.to = u => (f \in S <=> f \in T)
    BY <1>2
  <2>3. \A s : (Wanted(u, s)' <=> Wanted(u, s)) /\ Times(u, s)' = Times(u, s)
    BY WantedStays DEF Same
  <2>4. \A n : Owes(S, u, n) = Owes(T, u, n)
    BY <2>2 DEF Owes, Slot
  <2>5. \A s : Owed(S, u, s)' = Owed(T, u, s)
    BY <2>3, <2>4 DEF Owed, Owes, Slot
  <2>6. Steady(u)'
    BY <1>2, <2>1 DEF Steady, Same
  <2>7. \A f : f.to = u => (Right(f)' <=> Right(f))
    BY <2>3 DEF Right, Same
  <2>8. Fed(S, u)'
    BY <1>2, <2>1, <2>2, <2>3, <2>5, <2>7 DEF Fed
  <2>9. \A n : Rings(u, n)' = Rings(u, n)
    BY DEF Rings, Slot, Same, SamePushes
  <2>10. \A p \in pushing' : p.event = watched' => p \in pushing /\ p.event = watched
    BY DEF Same, SamePushes
  <2>11. ASSUME NEW d \in Devices \ event'.moved, event'.device[d] = u
         PROVE  rung'[d] + Owed(S, u, "push")' + Rings(u, 1)' + Rings(u, 2)' = Times(u, "push")'
    BY <2>1, <2>3, <2>5, <2>9, <2>11 DEF Same, Rung
  <2>12. \A p \in pushing', f \in S : p.event = watched' /\ p.to = u /\ f.to = u => p.nth # f.nth
    BY <2>1, <2>2, <2>10 DEF Rung
  <2>13. Single(u)'
    BY <2>1, <2>10 DEF Rung, Single
  <2>14. Rung(S, u)'
    BY <2>11, <2>12, <2>13 DEF Rung
  <2>15. QED
    BY <2>6, <2>8, <2>14
<1>3. QED
  BY <1>1, <1>2 DEF Just

LEMMA Touches ==
  ASSUME event \in EventRows \cup {Null}, NEW us \in SUBSET Users, NEW ds \in SUBSET Devices, Touch(us, ds)
  PROVE  /\ event' \in EventRows \cup {Null} /\ (event = Null => event' = Null)
         /\ event # Null /\ UNCHANGED watched => Same
         /\ event # Null => event'.changed = event.changed \cup us /\ event'.moved = event.moved \cup ds
<1>1. CASE event = Null
  BY <1>1 DEF Touch
<1>2. CASE event # Null
  <2>1. PICK e : e = event /\ e \in EventRows
    BY <1>2
  <2>2. PICK n : n = [e EXCEPT !.changed = @ \cup us, !.moved = @ \cup ds]
    OBVIOUS
  <2>3. /\ n \in EventRows /\ n.changed = e.changed \cup us /\ n.moved = e.moved \cup ds
        /\ n.channel = e.channel /\ n.twice = e.twice /\ n.prefs = e.prefs /\ n.active = e.active /\ n.device = e.device
    BY <2>1, <2>2 DEF EventRows
  <2>4. event' = n
    BY <1>2, <2>1, <2>2 DEF Touch
  <2>5. n # Null
    BY <2>3, NullIsNoNotice
  <2>6. QED
    BY <1>2, <2>1, <2>3, <2>4, <2>5 DEF Same
<1>3. QED
  BY <1>1, <1>2

(* The requests that tell, or are going to, stay as they are. *)
NewsKept ==
  \A g \in Handlers : request'[g] = request[g] \/ (~Eventful(request[g]) /\ ~Eventful(request'[g]))

LEMMA KeptAbout ==
  ASSUME NewsKept, UNCHANGED watched, NEW g \in Handlers
  PROVE  /\ Eventful(request[g])' <=> Eventful(request[g])
         /\ About(request[g])' <=> About(request[g])
         /\ Eventful(request[g]) => request'[g] = request[g]
BY DEF NewsKept, Eventful, About

LEMMA ToTellAside ==
  ASSUME NewsKept, UNCHANGED watched, NEW f, Admitted(f.to)' <=> Admitted(f.to), Listening(f.to)' <=> Listening(f.to)
  PROVE  f \in ToTell' <=> f \in ToTell
<1>1. \A r : f \in Coming(r)' <=> f \in Coming(r)
  BY ComingStays
<1>2. f \in ToTell <=> \E g \in Handlers : About(request[g]) /\ f \in Coming(request[g])
  BY DEF ToTell
<1>3. f \in ToTell' <=> \E g \in Handlers : About(request[g])' /\ f \in Coming(request[g])'
  BY DEF ToTell
<1>4. \A g \in Handlers : About(request[g])' <=> About(request[g])
  BY KeptAbout
<1>5. ASSUME NEW g \in Handlers, About(request[g]) PROVE f \in Coming(request[g])' <=> f \in Coming(request[g])
  <2>1. PICK r : r = request[g] /\ r = request'[g]
    BY <1>5, KeptAbout DEF About
  <2>2. f \in Coming(request[g])' <=> f \in Coming(r)'
    BY <2>1
  <2>3. QED
    BY <1>1, <2>1, <2>2
<1>6. QED
  BY <1>2, <1>3, <1>4, <1>5

LEMMA NumberedAside ==
  ASSUME Numbered, NewsKept, served' \in Nat, served <= served', UNCHANGED watched, watched \in Nat
  PROVE  Numbered' /\ (Ahead' => Ahead)
<1>1. \A g \in Handlers : /\ Eventful(request[g])' <=> Eventful(request[g])
                          /\ About(request[g])' <=> About(request[g])
                          /\ Eventful(request[g]) => request'[g] = request[g]
  BY KeptAbout
<1>2. Numbered'
  BY <1>1 DEF Numbered
<1>3. Ahead' => Ahead
  BY <1>1 DEF Ahead, About, Early, Numbered
<1>4. QED
  BY <1>2, <1>3

LEMMA AnnouncedAside ==
  ASSUME Announced, Hearing', Seated', NewsKept, served' \in Nat, served <= served', UNCHANGED <<notice, rung, watched, pushing>>,
         NEW us \in SUBSET Users, NEW ds \in SUBSET Devices, Touch(us, ds), gone' \subseteq gone \cup ds,
         \A u \in Users \ us :
           prefs'[u] = prefs[u] /\ (Admitted(u)' <=> Admitted(u)) /\ (Listening(u)' <=> Listening(u)),
         \A d \in Devices \ ds : subscription'[d] = subscription[d]
  PROVE  Announced'
<1>1. Numbered' /\ (Ahead' => Ahead)
  BY NumberedAside DEF Announced, Hearing
<1>2. /\ event' \in EventRows \cup {Null} /\ (event = Null => event' = Null)
      /\ event # Null /\ UNCHANGED watched => Same
      /\ event # Null => event'.changed = event.changed \cup us /\ event'.moved = event.moved \cup ds
  BY Touches DEF Announced, Hearing
<1>3. Ahead' => Untold'
  BY <1>1, <1>2 DEF Announced, Untold
<1>4. ASSUME event' # Null PROVE Just(ToTell)'
  <2>1. event # Null /\ Same /\ Just(ToTell)
    BY <1>2, <1>4 DEF Announced
  <2>2. SamePushes
    BY DEF SamePushes
  <2>3. ASSUME NEW u \in Users \ event'.changed, NEW f, f.to = u PROVE f \in ToTell' <=> f \in ToTell
    BY <1>2, <2>1, <2>3, ToTellAside
  <2>4. gone' \subseteq event'.moved
    BY <1>2, <2>1 DEF Just, Connected
  <2>5. PICK S : S = ToTell'
    OBVIOUS
  <2>6. \A u \in Users \ event'.changed : \A f : f.to = u => (f \in S <=> f \in ToTell)
    BY <2>3, <2>5
  <2>7. Just(S)'
    BY <1>2, <2>1, <2>2, <2>4, <2>6, JustStays
  <2>8. QED
    BY <2>5, <2>7
<1>5. QED
  BY <1>1, <1>3, <1>4 DEF Announced

LEMMA TouchesNothing ==
  ASSUME event \in EventRows \cup {Null}, UNCHANGED event
  PROVE  Touch({}, {})
<1>1. ASSUME event # Null PROVE event = [event EXCEPT !.changed = @ \cup {}, !.moved = @ \cup {}]
  <2>1. event \in EventRows
    BY <1>1
  <2>2. QED
    BY <2>1 DEF EventRows
<1>2. QED
  BY <1>1 DEF Touch

LEMMA HearingStays ==
  ASSUME Hearing, UNCHANGED <<prefs, subscription, gone, notice, rung, pushing, watched>>,
         event' \in EventRows \cup {Null},
         \A g \in Handlers : request'[g] # Null => request'[g] = request[g] \/ Heard(request'[g])
  PROVE  Hearing'
<1>1. \A g \in Handlers : Heard(request[g])' <=> Heard(request'[g])
  BY DEF Heard
<1>2. QED
  BY <1>1 DEF Hearing

(* What becomes of the news in the steps that are about something else. *)
NewsSteps == EventSteps \cup {"prefs", "subscribe", "chat:mute"}

Elsewhere(h) ==
  /\ Others(h) /\ (request'[h] # Null => request'[h].at \notin NewsSteps)
  /\ UNCHANGED <<prefs, subscription, gone, notice, rung, pushing, watched>>
  /\ \E us \in SUBSET Users :
       Touch(us, {}) /\ \A u \in Users \ us : (Admitted(u)' <=> Admitted(u)) /\ (Listening(u)' <=> Listening(u))

(* Who has news in hand goes on with it. *)
LEMMA OnlyNews ==
  ASSUME NEW h \in Handlers, Eventful(request[h])
  PROVE  /\ ~Members(h) /\ ~SignIn(h) /\ ~Board(h)
         /\ ~TemplatesCall(h) /\ ~TemplatesContinue(h) /\ ~AttachmentsCall(h) /\ ~AttachmentsContinue(h)
         /\ ~ChecklistsCall(h) /\ ~ChecklistsContinue(h)
         /\ ~((\E m \in Mails : Ingest(h, m)) \/ MailTask(h) \/ MailMetadata(h))
<1>1. ~Free(h)
  BY DEF Free, Eventful
<1> USE DEF Eventful, EventSteps, WriteSteps, MentionSteps, At
<1>2. ~Members(h)
  BY <1>1 DEF Members, MembersCall, Invite, PatchRole, Deactivate, Reactivate, Revoke, Resend, Accept, Take,
     MembersContinue, InviteSupersede, InviteCreate, RevokeDelete, ResendRotate, AcceptAccount, AcceptCreateAccount,
     AcceptReadMember, AcceptCreateMember, AcceptReactivate, AcceptMark, PatchCount, PatchWrite, DeactivateCount,
     DeactivateTasks, DeactivateWrite, ReactivateWrite
<1>3. ~SignIn(h)
  BY <1>1 DEF SignIn, AccountsCall, AccountsContinue, AccountCreate, ForgotBurn, ForgotCommit, ResetCommit
<1>4. ~Board(h)
  BY <1>1 DEF Board, TasksCall, TasksContinue, ListCreate, ListDelete, ListAdd, ListRemove, TaskCreate, StatusStore,
     MoveStore, MoveSubtasks, AssignStore, TaskRemove, TaskRestore, TaskArchive, TaskUnarchive, TaskLock, TaskPurge
<1>5. ~(TemplatesCall(h) \/ TemplatesContinue(h))
  BY <1>1 DEF TemplatesCall, TemplatesContinue, TemplateCreate, TemplateUpdate, TemplateRemove, TemplateList,
     TemplateTask
<1>6. ~(AttachmentsCall(h) \/ AttachmentsContinue(h))
  BY <1>1 DEF AttachmentsCall, AttachmentsContinue, UploadPut, UploadRow, RemoveObject, RemoveRow
<1>7. ~(ChecklistsCall(h) \/ ChecklistsContinue(h))
  BY <1>1 DEF ChecklistsCall, ChecklistsContinue, ItemAdd, ItemCheck, ItemRemove, ReorderItem, ReorderCommit, GivenUp
<1>8. ~((\E m \in Mails : Ingest(h, m)) \/ MailTask(h) \/ MailMetadata(h))
  BY <1>1 DEF Ingest, MailTask, MailMetadata
<1>9. QED
  BY <1>2, <1>3, <1>4, <1>5, <1>6, <1>7, <1>8

LEMMA ElsewhereSteps ==
  ASSUME Shape, event \in EventRows \cup {Null}, NEW h \in Handlers, Serve(h)
  PROVE  \/ Elsewhere(h) /\ ~Eventful(request[h]) /\ UNCHANGED <<seat, said>>
         \/ /\ CommentsCall(h) \/ CommentsContinue(h) \/ NoticesCall(h) \/ NoticesContinue(h)
            /\ UNCHANGED <<member, seat, said>>
         \/ (ChatroomCall(h) \/ ChatroomContinue(h)) /\ UNCHANGED member
<1>1. ASSUME NEW steps \in {MemberSteps, AccountSteps, TaskSteps, TemplateSteps, FileSteps, ItemSteps, MailSteps},
             Moves(h, steps)
      PROVE  Others(h) /\ (request'[h] # Null => request'[h].at \notin NewsSteps)
  BY <1>1 DEF Moves, MemberSteps, AccountSteps, TaskSteps, TemplateSteps, FileSteps, ItemSteps, MailSteps,
     NewsSteps, EventSteps, WriteSteps, MentionSteps
<1>2. ASSUME UNCHANGED <<member, seat, noticeVars>>
      PROVE  /\ UNCHANGED <<prefs, subscription, gone, notice, rung, pushing, watched>>
             /\ \E us \in SUBSET Users : Touch(us, {}) /\ \A u \in Users \ us :
                  (Admitted(u)' <=> Admitted(u)) /\ (Listening(u)' <=> Listening(u))
  <2>1. Touch({}, {}) /\ {} \in SUBSET Users
    BY <1>2, TouchesNothing DEF noticeVars, told
  <2>2. \A u \in Users \ {} : (Admitted(u)' <=> Admitted(u)) /\ (Listening(u)' <=> Listening(u))
    BY <1>2 DEF Admitted, Listening
  <2>3. QED
    BY <1>2, <2>1, <2>2 DEF noticeVars, told
<1>3. CASE Members(h)
  <2>1. UNCHANGED seat /\ EventsFollow
    BY <1>3 DEF Members, chatVars
  <2>2. PICK us \in SUBSET Users : us = {u \in Users : member'[u] # member[u]}
    OBVIOUS
  <2>3. Touch(us, {}) /\ \A u \in Users \ us : (Admitted(u)' <=> Admitted(u)) /\ (Listening(u)' <=> Listening(u))
    BY <2>1, <2>2 DEF EventsFollow, Admitted, Listening
  <2>4. QED
    BY <1>1, <1>3, <2>1, <2>3, MembersMove, OnlyNews DEF EventsFollow, Elsewhere, Members, chatVars, talkVars
<1>4. CASE SignIn(h)
  BY <1>1, <1>2, <1>4, AccountsMove, OnlyNews DEF SignIn, contentVars, chatVars, talkVars, Elsewhere
<1>5. CASE Board(h)
  BY <1>1, <1>2, <1>5, TasksMove, OnlyNews DEF Board, Cascade, chatVars, talkVars, memberVars, Elsewhere
<1>6. CASE (TemplatesCall(h) \/ TemplatesContinue(h)) /\ UNCHANGED <<noticeVars, chatVars, memberVars>>
  BY <1>1, <1>2, <1>6, TemplatesMove, OnlyNews DEF chatVars, talkVars, memberVars, Elsewhere
<1>7. CASE (AttachmentsCall(h) \/ AttachmentsContinue(h)) /\ UNCHANGED <<noticeVars, chatVars, memberVars>>
  BY <1>1, <1>2, <1>7, AttachmentsMove, OnlyNews DEF chatVars, talkVars, memberVars, Elsewhere
<1>8. CASE ((\E m \in Mails : Ingest(h, m)) \/ MailTask(h) \/ MailMetadata(h)) /\ UNCHANGED <<noticeVars, chatVars, memberVars>>
  BY <1>1, <1>2, <1>8, MailsMove, OnlyNews DEF chatVars, talkVars, memberVars, Elsewhere
<1>9. CASE (ChecklistsCall(h) \/ ChecklistsContinue(h)) /\ UNCHANGED <<noticeVars, chatVars, memberVars>>
  BY <1>1, <1>2, <1>9, ChecklistsMove, OnlyNews DEF chatVars, talkVars, memberVars, Elsewhere
<1>10. CASE Content(h)
  BY <1>6, <1>7, <1>8, <1>9, <1>10 DEF Content, chatVars, talkVars, memberVars
<1>11. QED
  BY <1>3, <1>4, <1>5, <1>10 DEF Serve

LEMMA SeatedStays ==
  ASSUME Seated, UNCHANGED <<seat, said>>
  PROVE  Seated'
BY DEF Seated

LEMMA AnnouncedElsewhere ==
  ASSUME Announced, Shape, NEW h \in Handlers, Serve(h), Elsewhere(h), UNCHANGED <<seat, said>>, ~Eventful(request[h])
  PROVE  Announced'
<1>1. PICK us \in SUBSET Users :
        Touch(us, {}) /\ \A u \in Users \ us : (Admitted(u)' <=> Admitted(u)) /\ (Listening(u)' <=> Listening(u))
  BY DEF Elsewhere
<1>2. event' \in EventRows \cup {Null}
  BY <1>1, Touches DEF Announced, Hearing
<1>3. \A g \in Handlers : request'[g] # Null => request'[g] = request[g] \/ Heard(request'[g])
  BY DEF Elsewhere, Others, Heard, NewsSteps, EventSteps, WriteSteps, MentionSteps
<1>4. Hearing' /\ Seated'
  BY <1>2, <1>3, HearingStays, SeatedStays DEF Announced, Elsewhere
<1>5. NewsKept
  BY DEF Elsewhere, Others, NewsKept, Eventful, NewsSteps
<1>6. served' \in Nat /\ served <= served'
  BY ServesOne DEF Announced, Numbered
<1>7. QED
  BY <1>1, <1>4, <1>5, <1>6, AnnouncedAside DEF Elsewhere

(* What one request does. *)
LEMMA ToTellByOne ==
  ASSUME NEW h \in Handlers, Others(h), UNCHANGED watched,
         NEW f, Admitted(f.to)' <=> Admitted(f.to), Listening(f.to)' <=> Listening(f.to),
         (About(request[h]) /\ f \in Coming(request[h]))' <=> (About(request[h]) /\ f \in Coming(request[h]))
  PROVE  f \in ToTell' <=> f \in ToTell
<1>1. \A r : f \in Coming(r)' <=> f \in Coming(r)
  BY ComingStays
<1>2. f \in ToTell <=> \E g \in Handlers : About(request[g]) /\ f \in Coming(request[g])
  BY DEF ToTell
<1>3. f \in ToTell' <=> \E g \in Handlers : (About(request[g]) /\ f \in Coming(request[g]))'
  BY DEF ToTell
<1>4. ASSUME NEW g \in Handlers
      PROVE  (About(request[g]) /\ f \in Coming(request[g]))' <=> (About(request[g]) /\ f \in Coming(request[g]))
  <2>1. CASE g = h
    BY <2>1
  <2>2. CASE g # h
    <3>1. PICK r : r = request[g] /\ r = request'[g]
      BY <2>2 DEF Others
    <3>2. f \in Coming(request[g])' <=> f \in Coming(r)'
      BY <3>1
    <3>3. About(request[g])' <=> About(request[g])
      BY <3>1 DEF About, Eventful
    <3>4. QED
      BY <1>1, <3>1, <3>2, <3>3
  <2>3. QED
    BY <2>1, <2>2
<1>5. QED
  BY <1>2, <1>3, <1>4

LEMMA NumberedByOne ==
  ASSUME Numbered, NEW h \in Handlers, Others(h),
         \/ served' = served /\ (Eventful(request'[h]) => Eventful(request[h]) /\ request'[h].on.event = request[h].on.event)
         \/ served' = served + 1 /\ (Eventful(request'[h]) => request'[h].on.event = served + 1)
  PROVE  Numbered'
<1>1. \A g \in Handlers : Eventful(request[g])' <=> Eventful(request'[g])
  BY DEF Eventful
<1>2. QED
  BY <1>1 DEF Others, Numbered

LEMMA AheadByOne ==
  ASSUME Numbered, NEW h \in Handlers, Others(h), UNCHANGED watched, watched \in Nat,
         served' \in Nat, served <= served',
         About(request'[h]) /\ Early(request'[h]) => served < watched \/ (About(request[h]) /\ Early(request[h])),
         Ahead'
  PROVE  Ahead
<1>1. \A g \in Handlers : (About(request[g]) /\ Early(request[g]))' <=> About(request'[g]) /\ Early(request'[g])
  BY DEF About, Early, Eventful
<1>2. CASE served' < watched
  BY <1>2 DEF Ahead, Numbered
<1>3. CASE \E g \in Handlers : About(request'[g]) /\ Early(request'[g])
  BY <1>3 DEF Others, Ahead
<1>4. QED
  BY <1>1, <1>2, <1>3 DEF Ahead

(* A request goes on, and nothing else happens to the news. *)
LEMMA AnnouncedByOne ==
  ASSUME Announced, Hearing', Seated', Numbered', Ahead' => Ahead, NEW h \in Handlers, Others(h),
         UNCHANGED <<member, prefs, subscription, gone, notice, pushing, rung, watched, event>>,
         \A u \in Users : Listening(u)' <=> Listening(u),
         \A f : f.to \in Users =>
           ((About(request[h]) /\ f \in Coming(request[h]))' <=> (About(request[h]) /\ f \in Coming(request[h])))
  PROVE  Announced'
<1>1. \A u : Admitted(u)' <=> Admitted(u)
  BY DEF Admitted
<1>2. PICK S : S = ToTell'
  OBVIOUS
<1>3. \A f : f.to \in Users => (f \in S <=> f \in ToTell)
  BY <1>1, <1>2, ToTellByOne
<1>4. event # Null => Just(S)'
  <2> SUFFICES ASSUME event # Null PROVE Just(S)'
    OBVIOUS
  <2>1. Same
    BY DEF Same
  <2>2. gone' \subseteq event'.moved /\ SamePushes /\ Just(ToTell)
    BY DEF SamePushes, Announced, Just, Connected
  <2>3. \A u \in Users \ event'.changed : \A f : f.to = u => (f \in S <=> f \in ToTell)
    BY <1>3
  <2>4. QED
    BY <1>1, <2>1, <2>2, <2>3, JustStays
<1>5. QED
  BY <1>2, <1>4 DEF Announced, Untold

----------------------------------------------------------------------------
(* Requests that arrive and are not about an event, or before theirs. *)
LEMMA CallAside ==
  ASSUME Announced, Shape, NEW h \in Handlers, NEW u, NEW step, NEW args, Call(h, u, step, args),
         NEW r, r = [at |-> step, by |-> u, on |-> args], Heard(r), ~Eventful(r),
         UNCHANGED <<member, seat, said, prefs, subscription, gone, told>>
  PROVE  Announced'
<1>1. Others(h) /\ request[h] = Null /\ request'[h] = r
  BY Calls
<1>2. served' = served + 1
  BY DEF Call, Take
<1>3. Hearing' /\ Seated'
  BY <1>1, HearingStays, SeatedStays DEF Announced, Hearing, told, Others
<1>4. NewsKept
  BY <1>1 DEF NewsKept, Others, Eventful
<1>5. Touch({}, {})
  BY TouchesNothing DEF Announced, Hearing, told
<1>6. served' \in Nat /\ served <= served'
  BY <1>2 DEF Announced, Numbered
<1>7. \A v \in Users \ {} :
        prefs'[v] = prefs[v] /\ (Admitted(v)' <=> Admitted(v)) /\ (Listening(v)' <=> Listening(v))
  BY DEF Admitted, Listening
<1>8. QED
  BY <1>3, <1>4, <1>5, <1>6, <1>7, AnnouncedAside DEF told

LEMMA CallEarly ==
  ASSUME Announced, Shape, NEW h \in Handlers, NEW u, NEW step, NEW args, Call(h, u, step, args),
         NEW r, r = [at |-> step, by |-> u, on |-> args], Heard(r), r.on.event = Event,
         r.at \in {"comment:update", "chat:send"},
         UNCHANGED <<member, seat, said, prefs, subscription, gone, told>>
  PROVE  Announced'
<1>1. Others(h) /\ request[h] = Null /\ request'[h] = r
  BY Calls
<1>2. served' = served + 1 /\ Event = served + 1
  BY DEF Call, Take, Event
<1>3. Hearing' /\ Seated'
  BY <1>1, HearingStays, SeatedStays DEF Announced, Hearing, told, Others
<1>4. Numbered'
  BY <1>1, <1>2, NumberedByOne DEF Announced
<1>5. Ahead' => Ahead
  BY <1>1, <1>2, AheadByOne DEF Announced, Numbered, Hearing, About, told
<1>6. \A f : ~(About(request[h]) /\ f \in Coming(request[h]))
  BY <1>1 DEF About, Eventful
<1>7. \A f : f \notin Coming(r)'
  BY DEF Coming
<1>8. \A f : ~(About(request[h]) /\ f \in Coming(request[h]))'
  BY <1>1, <1>7
<1>9. \A v \in Users : Listening(v)' <=> Listening(v)
  BY DEF Listening
<1>10. QED
  BY <1>1, <1>3, <1>4, <1>5, <1>6, <1>8, <1>9, AnnouncedByOne DEF told

(* An event happens: those who will be told are those it concerns. *)
Foreseen(T, concerned, twice) ==
  /\ \A f \in T : f.channel = concerned[f.to] /\ f.seen = Null
  /\ \A f, g \in T : f.to = g.to /\ f.nth = g.nth => f = g
  /\ \A u \in Users : concerned[u] # Null => Owes(T, u, 1) + Owes(T, u, 2) = IF u = twice THEN 2 ELSE 1

LEMMA Begins ==
  ASSUME Hearing, Untold, NEW concerned \in [Users -> Channels \cup {Null}], NEW twice \in Users \cup {Null},
         NEW e, Happens(e, concerned, twice), e = watched,
         UNCHANGED <<member, prefs, subscription, gone, notice, pushing, rung, watched>>,
         NEW T, Foreseen(T, concerned, twice)
  PROVE  event' \in EventRows /\ event' # Null /\ Just(T)'
<1>1. PICK n : n = [channel |-> concerned, twice |-> twice, prefs |-> prefs, active |-> {u \in Users : Admitted(u)},
                    device |-> subscription, changed |-> {}, moved |-> gone]
  OBVIOUS
<1>2. n \in EventRows
  BY <1>1 DEF EventRows, Hearing
<1>3. event' = n /\ n # Null
  BY <1>1, <1>2, NullIsNoNotice DEF Happens
<1>4. /\ n.channel = concerned /\ n.twice = twice /\ n.prefs = prefs /\ n.active = {u \in Users : Admitted(u)}
      /\ n.device = subscription /\ n.changed = {} /\ n.moved = gone
  BY <1>1
<1>5. Connected'
  BY <1>3, <1>4 DEF Connected, Untold
<1>6. ASSUME NEW u \in Users PROVE Steady(u)' /\ Fed(T, u)' /\ Rung(T, u)'
  <2>1. Steady(u)'
    BY <1>3, <1>4 DEF Steady, Admitted
  <2>2. notice'[u] = 0 /\ \A d \in Devices : rung'[d] = 0
    BY DEF Untold
  <2>3. \A n1 : Rings(u, n1)' = 0
    BY DEF Rings, Untold
  <2>4. \A s : Owed(T, u, s)' = Times(u, s)'
    <3>1. \A s : Wanted(u, s)' => concerned[u] # Null
      BY <1>3, <1>4 DEF Wanted
    <3>2. \A n1 : Owes(T, u, n1)' = Owes(T, u, n1)
      BY DEF Owes, Slot
    <3>3. event'.twice = twice
      BY <1>3, <1>4
    <3>4. concerned[u] # Null => Owes(T, u, 1) + Owes(T, u, 2) = IF u = twice THEN 2 ELSE 1
      BY DEF Foreseen
    <3>5. QED
      BY <3>1, <3>2, <3>3, <3>4 DEF Owed, Times
  <2>5. \A s : Times(u, s)' \in Nat
    BY DEF Times
  <2>6. \A f \in T : f.to = u => Right(f)'
    BY <1>3, <1>4 DEF Right, Foreseen
  <2>7. Fed(T, u)'
    BY <2>2, <2>4, <2>5, <2>6 DEF Fed, Foreseen
  <2>8. Rung(T, u)'
    BY <2>2, <2>3, <2>4, <2>5 DEF Rung, Single, Untold
  <2>9. QED
    BY <2>1, <2>7, <2>8
<1>7. QED
  BY <1>2, <1>3, <1>5, <1>6 DEF Just

LEMMA Happening ==
  ASSUME Announced, NEW h \in Handlers, Others(h), NEW r, request'[h] = r, Eventful(r), ~Early(r), Heard(r),
         NEW e, r.on.event = e,
         \/ served' = served + 1 /\ e = served + 1 /\ request[h] = Null
         \/ served' = served /\ Eventful(request[h]) /\ Early(request[h]) /\ Coming(request[h]) = {} /\ request[h].on.event = e,
         NEW concerned \in [Users -> Channels \cup {Null}], NEW twice \in Users \cup {Null}, Happens(e, concerned, twice),
         NEW T, T = Coming(r)', Foreseen(T, concerned, twice),
         UNCHANGED <<member, prefs, subscription, gone, notice, pushing, rung, watched>>,
         \A u \in Users : Listening(u)' <=> Listening(u), Seated'
  PROVE  Announced'
<1>1. Numbered'
  BY NumberedByOne, NumberedByOne DEF Announced, Eventful
<1>2. event' \in EventRows \cup {Null} => Hearing'
  BY HearingStays DEF Announced, Others
<1>3. served' \in Nat /\ served <= served' /\ watched \in Nat
  BY DEF Announced, Numbered, Hearing
<1>4. CASE e = watched
  <2>1. Ahead
    BY <1>3, <1>4 DEF Ahead, About, Announced, Numbered
  <2>2. Untold
    BY <2>1 DEF Announced
  <2>3. event' \in EventRows /\ event' # Null /\ Just(T)'
    BY <1>4, <2>2, Begins DEF Announced
  <2>4. \A g \in Handlers \ {h} : ~About(request'[g])
    BY <1>3, <1>4 DEF Announced, Numbered, About, Others, Eventful
  <2>5. About(request'[h]) /\ ~Early(request'[h])
    BY <1>4 DEF About
  <2>6. ~(served' < watched)
    BY <1>3, <1>4 DEF Announced, Numbered
  <2>7. \A g \in Handlers : About(request[g])' <=> About(request'[g])
    BY DEF About, Eventful
  <2>8. ~Ahead'
    BY <2>4, <2>5, <2>6, <2>7 DEF Ahead, Early
  <2>9. ToTell' = T
    <3>1. {g \in Handlers : About(request[g])}' = {h}
      BY <2>4, <2>5, <2>7
    <3>2. Coming(request[h])' = T
      OBVIOUS
    <3>3. ToTell' = UNION {Coming(request[g])' : g \in {h}}
      BY <3>1 DEF ToTell
    <3>4. QED
      BY <3>2, <3>3
  <2>10. Just(ToTell)'
    BY <2>3, <2>9
  <2>11. QED
    BY <1>1, <1>2, <2>3, <2>8, <2>10 DEF Announced
<1>5. CASE e # watched
  <2>1. UNCHANGED event
    BY <1>5 DEF Happens
  <2>2. ~About(request'[h]) /\ \A f : ~(About(request[h]) /\ f \in Coming(request[h]))
    BY <1>5 DEF About, Eventful
  <2>3. \A f : ~(About(request[h]) /\ f \in Coming(request[h]))'
    BY <2>2 DEF About, Eventful
  <2>4. Ahead' => Ahead
    BY <1>3, <2>2, AheadByOne DEF Announced
  <2>5. Hearing'
    BY <1>2, <2>1 DEF Announced, Hearing
  <2>6. QED
    BY <1>1, <2>1, <2>2, <2>3, <2>4, <2>5, AnnouncedByOne
<1>6. QED
  BY <1>4, <1>5

----------------------------------------------------------------------------
(* A comment concerns whom it mentions, and who follows the task. *)
LEMMA CommentForeseen ==
  ASSUME NEW t \in Tasks, task[t].creator \in Users, task[t].assignee \in Users \cup {Null},
         NEW u \in Users, NEW names \in SUBSET Users,
         NEW T, T = Naming(names, Following(t), u)
  PROVE  /\ Foreseen(T, Concerned(u, t, names), ToldTwice(u, t, names))
         /\ Concerned(u, t, names) \in [Users -> Channels \cup {Null}] /\ ToldTwice(u, t, names) \in Users \cup {Null}
<1>1. PICK mentioned \in SUBSET Users : mentioned = {v \in names : Admitted(v)} \ {u}
  OBVIOUS
<1>2. \A f : f \in Recipients(mentioned, "mention") <=>
               f.to \in mentioned /\ f = Recipient(f.to, "mention", 1)
  BY DEF Recipients, Recipient
<1>3. \A v, c, n : LET f == Recipient(v, c, n) IN f.to = v /\ f.channel = c /\ f.nth = n /\ f.seen = Null
  BY DEF Recipient
<1>4. PICK a, b : a = task[t].creator /\ b = task[t].assignee
  OBVIOUS
<1>5. \A f : f \in T <=>
        \/ f.to \in mentioned /\ f = Recipient(f.to, "mention", 1)
        \/ /\ f.to \notin {u} \cup mentioned
           /\ f = Recipient(a, "task_comment", 1) \/ (b # Null /\ f = Recipient(b, "task_comment", 2))
  BY <1>1, <1>2, <1>4 DEF Naming, Following
<1>6. PICK con : con = Concerned(u, t, names)
  OBVIOUS
<1>7. \A v \in Users : con[v] = IF v \in mentioned THEN "mention" ELSE IF v \in {a, b} \ {u} THEN "task_comment" ELSE Null
  BY <1>1, <1>4, <1>6 DEF Concerned
<1>8. ToldTwice(u, t, names) = IF a = b /\ con[a] = "task_comment" THEN a ELSE Null
  BY <1>4, <1>6 DEF ToldTwice
<1>9. Null \notin Users /\ "mention" # Null /\ "task_comment" # Null
  BY NullIsNoNotice DEF Channels
<1>10. u \notin mentioned /\ a \in Users /\ b \in Users \cup {Null}
  BY <1>1, <1>4
<1>11. \A f \in T : f.channel = con[f.to] /\ f.seen = Null
  BY <1>3, <1>5, <1>7, <1>9, <1>10
<1>12. \A f, g \in T : f.to = g.to /\ f.nth = g.nth => f = g
  BY <1>3, <1>5
<1>13. ASSUME NEW v \in Users, con[v] # Null
       PROVE  Owes(T, v, 1) + Owes(T, v, 2) = IF v = ToldTwice(u, t, names) THEN 2 ELSE 1
  <2>1. CASE v \in mentioned
    <3>1. Recipient(v, "mention", 1) \in T
      BY <1>3, <1>5, <2>1
    <3>2. Owes(T, v, 1) = 1
      BY <1>3, <3>1 DEF Owes, Slot
    <3>3. Owes(T, v, 2) = 0
      BY <1>3, <1>5, <2>1 DEF Owes, Slot
    <3>4. v # ToldTwice(u, t, names)
      BY <1>7, <1>8, <1>9, <2>1
    <3>5. QED
      BY <3>2, <3>3, <3>4
  <2>2. CASE v \notin mentioned
    <3>1. v \in {a, b} /\ v # u
      BY <1>7, <1>13, <2>2
    <3>2. Owes(T, v, 1) = IF v = a THEN 1 ELSE 0
      <4>1. v = a => Recipient(a, "task_comment", 1) \in T
        BY <1>3, <1>5, <2>2, <3>1
      <4>2. \A f \in T : Slot(f, v, 1) => v = a
        BY <1>3, <1>5, <2>2 DEF Slot
      <4>3. QED
        BY <1>3, <4>1, <4>2 DEF Owes, Slot
    <3>3. Owes(T, v, 2) = IF v = b THEN 1 ELSE 0
      <4>1. v = b => Recipient(b, "task_comment", 2) \in T
        BY <1>3, <1>5, <1>9, <2>2, <3>1
      <4>2. \A f \in T : Slot(f, v, 2) => v = b
        BY <1>3, <1>5, <2>2 DEF Slot
      <4>3. QED
        BY <1>3, <4>1, <4>2 DEF Owes, Slot
    <3>4. v = ToldTwice(u, t, names) <=> v = a /\ v = b
      BY <1>7, <1>8, <1>9, <2>2, <3>1
    <3>5. QED
      BY <3>1, <3>2, <3>3, <3>4
  <2>3. QED
    BY <2>1, <2>2
<1>14. con \in [Users -> Channels \cup {Null}]
  BY <1>1, <1>6 DEF Concerned, Channels
<1>15. QED
  BY <1>6, <1>8, <1>10, <1>11, <1>12, <1>13, <1>14 DEF Foreseen

LEMMA Spreads ==
  ASSUME NEW us \in SUBSET Users, NEW channel \in Channels
  PROVE  Foreseen(Recipients(us, channel), Concerns(us, channel), Null)
         /\ Concerns(us, channel) \in [Users -> Channels \cup {Null}]
<1>1. PICK T : T = Recipients(us, channel)
  OBVIOUS
<1>2. \A f : f \in T <=> f.to \in us /\ f = Recipient(f.to, channel, 1)
  BY <1>1 DEF Recipients, Recipient
<1>3. \A v : LET f == Recipient(v, channel, 1) IN f.to = v /\ f.channel = channel /\ f.nth = 1 /\ f.seen = Null
  BY DEF Recipient
<1>4. \A v \in us : Recipient(v, channel, 1) \in T
  BY <1>2, <1>3
<1>5. \A v \in us : Owes(T, v, 1) = 1 /\ Owes(T, v, 2) = 0
  BY <1>2, <1>3, <1>4 DEF Owes, Slot
<1>6. Null \notin Users
  BY NullIsNoNotice
<1>7. \A v \in Users : Concerns(us, channel)[v] # Null => v \in us
  BY DEF Concerns
<1>8. \A f \in T : f.channel = Concerns(us, channel)[f.to] /\ f.seen = Null
  BY <1>2, <1>3 DEF Concerns
<1>9. \A f, g \in T : f.to = g.to /\ f.nth = g.nth => f = g
  BY <1>2, <1>3
<1>10. Foreseen(T, Concerns(us, channel), Null)
  BY <1>5, <1>6, <1>7, <1>8, <1>9 DEF Foreseen
<1>11. QED
  BY <1>1, <1>10 DEF Concerns

LEMMA RecipientTyped ==
  ASSUME NEW us \in SUBSET Users, NEW channel \in Channels
  PROVE  Recipients(us, channel) \subseteq RecipientRows
BY DEF Recipients, Recipient, RecipientRows

LEMMA AnnouncedComment ==
  ASSUME Announced, Tree, NEW h \in Handlers, NEW u \in Users, NEW t \in Tasks, NEW names \in Bodies,
         Comment(h, u, t, names), UNCHANGED <<member, seat, said>>
  PROVE  Announced'
<1>1. PICK on : on = [task |-> t, names |-> names, followers |-> Following(t), event |-> Event]
  OBVIOUS
<1>2. PICK r : r = [at |-> "comment:create", by |-> u, on |-> on]
  OBVIOUS
<1>3. task[t] # Null /\ Call(h, u, "comment:create", on)
  BY <1>1 DEF Comment, Exists
<1>4. task[t].creator \in Users /\ task[t].assignee \in Users \cup {Null}
  BY <1>3 DEF Tree, Forest, Tables, TaskRows
<1>5. names \in SUBSET Users
  BY BodiesNameUsers
<1>6. Following(t) \subseteq [to : Users, channel : {"task_comment"}, nth : 1..2, seen : {Null}]
  BY <1>3, FollowersOfTask
<1>7. Event \in Nat /\ Event = served + 1
  BY DEF Event, Announced, Numbered
<1>8. r \in CommentRequests /\ r # Null
  BY <1>1, <1>2, <1>5, <1>6, <1>7, NullIsNoComment DEF CommentRequests
<1>9. Others(h) /\ request[h] = Null /\ request'[h] = r
  BY <1>2, <1>3, Calls DEF Tree
<1>10. PICK T : T = Naming(names, Following(t), u)
  OBVIOUS
<1>11. Coming(r)' = T
  BY <1>1, <1>2, <1>10 DEF Coming, Naming, Admitted
<1>12. PICK concerned, twice : concerned = Concerned(u, t, names) /\ twice = ToldTwice(u, t, names)
  OBVIOUS
<1>13. /\ Foreseen(T, concerned, twice) /\ concerned \in [Users -> Channels \cup {Null}]
       /\ twice \in Users \cup {Null}
  BY <1>4, <1>5, <1>10, <1>12, CommentForeseen
<1>14. Heard(r) /\ Eventful(r) /\ ~Early(r) /\ r.on.event = Event
  BY <1>1, <1>2, <1>8 DEF Heard, Eventful, Early, EventSteps, WriteSteps
<1>15. served' = served + 1
  BY <1>3 DEF Call, Take
<1>16. UNCHANGED quiet /\ Happens(Event, concerned, twice)
  BY <1>12 DEF Comment
<1>17. Seated' /\ \A v \in Users : Listening(v)' <=> Listening(v)
  BY SeatedStays DEF Announced, Listening
<1>18. QED
  BY <1>7, <1>9, <1>11, <1>13, <1>14, <1>15, <1>16, <1>17, Happening DEF quiet

LEMMA CommentCalls ==
  ASSUME Announced, Tree, NEW h \in Handlers, CommentsCall(h), UNCHANGED <<member, seat, said>>
  PROVE  Announced'
<1>1. ASSUME NEW u \in Users, NEW names \in Bodies, NEW c \in Comments, EditComment(h, u, c, names) PROVE Announced'
  <2>1. PICK on : on = [comment |-> c, author |-> comment[c].author, names |-> names, event |-> Event]
    OBVIOUS
  <2>2. PICK r : r = [at |-> "comment:update", by |-> u, on |-> on]
    OBVIOUS
  <2>3. Heard(r) /\ r.at = "comment:update" /\ r.on.event = Event
    BY <2>1, <2>2 DEF Heard
  <2>4. Call(h, u, "comment:update", on) /\ UNCHANGED noticeVars
    BY <1>1, <2>1 DEF EditComment
  <2>5. QED
    BY <2>2, <2>3, <2>4, CallEarly DEF Tree, noticeVars
<1>2. ASSUME NEW u \in Users, NEW c \in Comments, RemoveComment(h, u, c) PROVE Announced'
  <2>1. PICK r : r = [at |-> "comment:delete", by |-> u, on |-> [comment |-> c]]
    OBVIOUS
  <2>2. Heard(r) /\ ~Eventful(r)
    BY <2>1 DEF Heard, Eventful, EventSteps, WriteSteps, MentionSteps
  <2>3. Call(h, u, "comment:delete", [comment |-> c]) /\ UNCHANGED noticeVars
    BY <1>2 DEF RemoveComment
  <2>4. QED
    BY <2>1, <2>2, <2>3, CallAside DEF Tree, noticeVars
<1>3. QED
  BY <1>1, <1>2, AnnouncedComment DEF CommentsCall

(* The request that assigns a task or changes its status tells at once. *)
Teller(by, e, first, next) ==
  [at |-> "tell", by |-> by, on |-> [event |-> e, first |-> first, next |-> next]]

Tellable(first, next) ==
  /\ first \in SUBSET RecipientRows /\ next \in SUBSET RecipientRows /\ first \cap next = {}
  /\ \A f \in next : f.seen = Null

(* A request that is telling of the event e. *)
Tells(r, e) == Heard(r) /\ Eventful(r) /\ ~Early(r) /\ r.on.event = e

LEMMA TellTyped ==
  ASSUME NEW by \in Users, NEW e \in Nat, NEW first, NEW next, Tellable(first, next),
         NEW r, r = Teller(by, e, first, next)
  PROVE  Tells(r, e)
<1>1. r = [at |-> "tell", by |-> by, on |-> [event |-> e, first |-> first, next |-> next]]
  BY DEF Teller
<1>2. r \in TellRequests /\ r # Null
  BY <1>1, NullIsNoNotice DEF TellRequests, Tellable
<1>3. QED
  BY <1>1, <1>2 DEF Heard, Eventful, Early, EventSteps, Tellable, Tells

LEMMA TellComing ==
  ASSUME NEW by, NEW e, NEW first, NEW next, NEW r, r = Teller(by, e, first, next)
  PROVE  Coming(r) = first \cup next /\ Coming(r)' = first \cup next
<1>1. r.at = "tell" /\ r.on.first = first /\ r.on.next = next
  BY DEF Teller
<1>2. QED
  BY <1>1 DEF Coming

LEMMA AnnouncedAnnounce ==
  ASSUME Announced, Tree, NEW h \in Handlers, NEW u \in Users, NEW us \in SUBSET Users, NEW channel \in Channels,
         Announce(h, u, us, channel), UNCHANGED <<member, seat, said>>
  PROVE  Announced'
<1>1. PICK T : T = Recipients(us, channel) /\ T \subseteq RecipientRows
  BY RecipientTyped
<1>2. Tellable(T, {})
  BY <1>1 DEF Tellable
<1>3. PICK e, r : e = Event /\ r = Teller(u, e, T, {})
  OBVIOUS
<1>4. e \in Nat /\ e = served + 1
  BY <1>3 DEF Event, Announced, Numbered
<1>5. Heard(r) /\ Eventful(r) /\ ~Early(r) /\ r.on.event = e /\ Coming(r)' = T
  <2>1. Tells(r, e)
    BY <1>2, <1>3, <1>4, TellTyped
  <2>2. Coming(r)' = T \cup {}
    BY <1>3, TellComing
  <2>3. QED
    BY <2>1, <2>2 DEF Tells
<1>6. /\ Call(h, u, "tell", [event |-> Event, first |-> T, next |-> {}])
      /\ Happens(Event, Concerns(us, channel), Null)
  BY <1>1 DEF Announce
<1>7. Others(h) /\ request[h] = Null /\ request'[h] = r
  BY <1>3, <1>6, Calls DEF Tree, Teller
<1>8. Foreseen(T, Concerns(us, channel), Null) /\ Concerns(us, channel) \in [Users -> Channels \cup {Null}]
  BY <1>1, Spreads
<1>9. served' = served + 1
  BY <1>6 DEF Call, Take
<1>10. Seated' /\ \A v \in Users : Listening(v)' <=> Listening(v)
  BY SeatedStays DEF Announced, Listening
<1>11. PICK concerned : concerned = Concerns(us, channel)
  OBVIOUS
<1>12. QED
  BY <1>3, <1>4, <1>5, <1>6, <1>7, <1>8, <1>9, <1>10, <1>11, Happening DEF Announce

LEMMA NoticeCalls ==
  ASSUME Announced, Tree, NEW h \in Handlers, NoticesCall(h), UNCHANGED <<member, seat, said>>
  PROVE  Announced'
<1>1. ASSUME NEW u \in Users, NEW patch \in Patches, UpdatePrefs(h, u, patch) PROVE Announced'
  <2>1. PICK on : on = [next |-> Merged(prefs[u], patch)]
    OBVIOUS
  <2>2. PICK r : r = [at |-> "prefs", by |-> u, on |-> on]
    OBVIOUS
  <2>3. Merged(prefs[u], patch) \in Prefs
    BY MergesTyped DEF Announced, Hearing
  <2>4. Heard(r) /\ ~Eventful(r)
    BY <2>1, <2>2, <2>3 DEF Heard, PrefsRequests, Eventful, EventSteps, WriteSteps, MentionSteps
  <2>5. Call(h, u, "prefs", on) /\ UNCHANGED <<prefs, subscription, gone, told>>
    BY <1>1, <2>1 DEF UpdatePrefs
  <2>6. QED
    BY <2>2, <2>4, <2>5, CallAside DEF Tree
<1>2. ASSUME NEW u \in Users, NEW d \in Devices, Subscribe(h, u, d) \/ Unsubscribe(h, u, d), UNCHANGED noticeVars
      PROVE  Announced'
  <2>1. PICK to \in {u, Null} : Call(h, u, "subscribe", [device |-> d, to |-> to])
    BY <1>2 DEF Subscribe, Unsubscribe
  <2>2. PICK r : r = [at |-> "subscribe", by |-> u, on |-> [device |-> d, to |-> to]]
    OBVIOUS
  <2>3. Heard(r) /\ ~Eventful(r)
    BY <2>2 DEF Heard, Eventful, EventSteps, WriteSteps, MentionSteps
  <2>4. QED
    BY <1>2, <2>1, <2>2, <2>3, CallAside DEF Tree, noticeVars
<1>3. ASSUME NEW u \in Users, NEW t \in Tasks, NotifyAssigned(h, u, t) PROVE Announced'
  <2>1. PICK us : us = {task[t].assignee} \ {Null, u}
    OBVIOUS
  <2>2. task[t] # Null
    BY <1>3 DEF NotifyAssigned, MayEdit, Exists
  <2>3. us \in SUBSET Users /\ "task_assigned" \in Channels
    BY <2>1, <2>2 DEF Tree, Forest, Tables, TaskRows, Channels
  <2>4. QED
    BY <1>3, <2>1, <2>3, AnnouncedAnnounce DEF NotifyAssigned
<1>4. ASSUME NEW u \in Users, NEW t \in Tasks, NotifyStatusChanged(h, u, t) PROVE Announced'
  <2>1. PICK us : us = {task[t].creator, task[t].assignee} \ {Null, u}
    OBVIOUS
  <2>2. task[t] # Null
    BY <1>4 DEF NotifyStatusChanged, MayChangeStatus, Exists
  <2>3. us \in SUBSET Users /\ "task_status" \in Channels
    BY <2>1, <2>2 DEF Tree, Forest, Tables, TaskRows, Channels
  <2>4. QED
    BY <1>4, <2>1, <2>3, AnnouncedAnnounce DEF NotifyStatusChanged
<1>5. QED
  BY <1>1, <1>2, <1>3, <1>4 DEF NoticesCall

LEMMA ChatCalls ==
  ASSUME Announced, Tree, NEW h \in Handlers, ChatroomCall(h), UNCHANGED member
  PROVE  Announced'
<1>1. UNCHANGED <<member, seat, said, prefs, subscription, gone, told>>
  BY DEF ChatroomCall, chatVars, talkVars, noticeVars
<1>2. ASSUME NEW u \in Users, NEW step \in {"chat:leave", "chat:add", "chat:mute", "chat:mark", "chat:react", "chat:unreact", "chat:pin"},
             NEW args, Chat(h, u, step, args), step = "chat:mute" => args.muted \in BOOLEAN
      PROVE  Announced'
  <2>1. PICK r : r = [at |-> step, by |-> u, on |-> args]
    OBVIOUS
  <2>2. Heard(r) /\ ~Eventful(r)
    BY <1>2, <2>1 DEF Heard, Eventful, EventSteps, WriteSteps, MentionSteps
  <2>3. QED
    BY <1>1, <1>2, <2>1, <2>2, CallAside DEF Tree, Chat
<1>3. ASSUME NEW u \in Users, NEW names \in Named, SendMessage(h, u, names) PROVE Announced'
  <2>1. PICK on : on = [names |-> names, event |-> Event]
    OBVIOUS
  <2>2. PICK r : r = [at |-> "chat:send", by |-> u, on |-> on]
    OBVIOUS
  <2>3. Event \in Nat /\ names \in SUBSET Users
    BY MessagesNameUsers DEF Event, Announced, Numbered
  <2>4. r \in ChatRequests
    BY <2>1, <2>2, <2>3 DEF ChatRequests
  <2>5. Heard(r) /\ r.at = "chat:send" /\ r.on.event = Event
    BY <2>1, <2>2, <2>4 DEF Heard
  <2>6. Call(h, u, "chat:send", on)
    BY <1>3, <2>1 DEF SendMessage, Chat
  <2>7. QED
    BY <1>1, <2>2, <2>5, <2>6, CallEarly DEF Tree
<1>4. ASSUME NEW u \in Users, Leave(h, u) \/ MarkRead(h, u) PROVE Announced'
  BY <1>2, <1>4 DEF Leave, MarkRead
<1>5. ASSUME NEW u \in Users, NEW x, AddMember(h, u, x) PROVE Announced'
  BY <1>2, <1>5 DEF AddMember
<1>6. ASSUME NEW u \in Users, NEW on \in BOOLEAN, Mute(h, u, on) PROVE Announced'
  BY <1>2, <1>6 DEF Mute
<1>7. ASSUME NEW u \in Users, NEW m, AddReaction(h, u, m) \/ RemoveReaction(h, u, m) \/ TogglePin(h, u, m)
      PROVE  Announced'
  BY <1>2, <1>7 DEF AddReaction, RemoveReaction, TogglePin
<1>8. QED
  BY <1>3, <1>4, <1>5, <1>6, <1>7 DEF ChatroomCall

----------------------------------------------------------------------------
(* A request goes on: as many are to be told as before. *)
LEMMA AnnouncedGoes ==
  ASSUME Announced, NEW h \in Handlers, NEW q, q = request[h], Eventful(q), Others(h), UNCHANGED served,
         NEW r, request'[h] = r, r # Null => Heard(r),
         Eventful(r) => r.on.event = q.on.event /\ (Early(r) => Early(q)),
         \A f : f.to \in Users => (Eventful(r) /\ f \in Coming(r)' <=> f \in Coming(q)),
         UNCHANGED <<member, seat, said, prefs, subscription, gone, told>>
  PROVE  Announced'
<1>1. Hearing' /\ Seated'
  BY HearingStays, SeatedStays DEF Announced, Hearing, told, Others
<1>2. Numbered'
  BY NumberedByOne DEF Announced
<1>3. Ahead' => Ahead
  BY AheadByOne DEF Announced, Numbered, Hearing, About, told
<1>4. About(r)' <=> Eventful(r) /\ (About(q) <=> TRUE)
  BY DEF About, Eventful, told
<1>5. ASSUME NEW f, f.to \in Users
      PROVE  (About(request[h]) /\ f \in Coming(request[h]))' <=> (About(request[h]) /\ f \in Coming(request[h]))
  <2>1. (About(request[h]) /\ f \in Coming(request[h]))' <=> About(r)' /\ f \in Coming(r)'
    OBVIOUS
  <2>2. About(r)' /\ f \in Coming(r)' <=> About(q) /\ f \in Coming(q)
    BY <1>4, <1>5 DEF About
  <2>3. QED
    BY <2>1, <2>2
<1>6. \A v \in Users : Listening(v)' <=> Listening(v)
  BY DEF Listening
<1>7. QED
  BY <1>1, <1>2, <1>3, <1>5, <1>6, AnnouncedByOne DEF told

LEMMA AnnouncedNever ==
  ASSUME Announced, NEW h \in Handlers, Eventful(request[h]), Others(h), UNCHANGED served, request'[h] = Null,
         DoesNotHappen(request[h].on.event), UNCHANGED <<member, seat, said, quiet>>
  PROVE  Announced'
<1>1. UNCHANGED <<prefs, subscription, gone, notice, pushing, rung, watched>>
  BY DEF quiet
<1>2. event' \in EventRows \cup {Null}
  BY DEF DoesNotHappen, Announced, Hearing
<1>3. Hearing' /\ Seated'
  BY <1>1, <1>2, HearingStays, SeatedStays DEF Announced, Others
<1>4. Numbered' /\ ~Eventful(request'[h])
  BY NumberedByOne DEF Announced, Eventful
<1>5. Ahead' => Ahead
  BY <1>1, <1>4, AheadByOne DEF Announced, Numbered, Hearing, About
<1>6. CASE request[h].on.event = watched
  <2>1. event' = Null
    BY <1>6 DEF DoesNotHappen
  <2>2. Ahead' => Untold'
    BY <1>1, <1>5, <2>1 DEF Announced, Untold
  <2>3. QED
    BY <1>3, <1>4, <2>1, <2>2 DEF Announced
<1>7. CASE request[h].on.event # watched
  <2>1. UNCHANGED event
    BY <1>7 DEF DoesNotHappen
  <2>2. \A f : ~(About(request[h]) /\ f \in Coming(request[h])) /\ ~(About(request[h]) /\ f \in Coming(request[h]))'
    BY <1>4, <1>7 DEF About, Eventful
  <2>3. \A v \in Users : Listening(v)' <=> Listening(v)
    BY DEF Listening
  <2>4. QED
    BY <1>1, <1>3, <1>4, <1>5, <2>1, <2>2, <2>3, AnnouncedByOne
<1>8. QED
  BY <1>6, <1>7

LEMMA TellGoes ==
  ASSUME Shape, NEW h \in Handlers, NEW by \in Users, by = By(h), NEW e \in Nat, NEW first, NEW next,
         Tellable(first, next), Tell(h, e, first, next)
  PROVE  /\ Others(h) /\ UNCHANGED served
         /\ \/ first \cup next = {} /\ request'[h] = Null
            \/ \E r : /\ request'[h] = r /\ Tells(r, e)
                      /\ Coming(r) = first \cup next /\ Coming(r)' = first \cup next
<1>1. CASE first \cup next = {}
  BY <1>1, Answers DEF Tell, Answer, Moves
<1>2. ASSUME first \cup next # {}, NEW a, NEW b, a \cup b = first \cup next, Tellable(a, b),
             NEW r, r = Teller(by, e, a, b), Await(h, r)
      PROVE  /\ Others(h) /\ UNCHANGED served /\ request'[h] = r /\ Tells(r, e)
             /\ Coming(r) = first \cup next /\ Coming(r)' = first \cup next
  <2>1. Others(h) /\ request'[h] = r /\ UNCHANGED served
    BY <1>2, Awaits DEF Await
  <2>2. Tells(r, e)
    BY <1>2, TellTyped
  <2>3. Coming(r) = a \cup b /\ Coming(r)' = a \cup b
    BY <1>2, TellComing
  <2>4. QED
    BY <1>2, <2>1, <2>2, <2>3
<1>3. CASE first = {} /\ first \cup next # {}
  <2>1. PICK r : r = Teller(by, e, next, {})
    OBVIOUS
  <2>2. Await(h, r)
    BY <1>3, <2>1 DEF Tell, Teller
  <2>3. Tellable(next, {}) /\ next \cup {} = first \cup next
    BY <1>3 DEF Tellable
  <2>4. QED
    BY <1>2, <1>3, <2>1, <2>2, <2>3
<1>4. CASE first # {} /\ first \cup next # {}
  <2>1. PICK r : r = Teller(by, e, first, next)
    OBVIOUS
  <2>2. Await(h, r)
    BY <1>4, <2>1 DEF Tell, Teller
  <2>3. QED
    BY <1>2, <1>4, <2>1, <2>2
<1>5. QED
  BY <1>1, <1>3, <1>4

LEMMA AnnouncedTell ==
  ASSUME Announced, Shape, NEW h \in Handlers, NEW q, q = request[h], Eventful(q), q.by \in Users,
         NEW first, NEW next, Tellable(first, next), Tell(h, q.on.event, first, next),
         \A f : f.to \in Users => (f \in Coming(q) <=> f \in first \cup next),
         UNCHANGED <<member, seat, said, prefs, subscription, gone, told>>
  PROVE  Announced'
<1>1. PICK e, by : e = q.on.event /\ e \in Nat /\ by = By(h) /\ by \in Users
  BY DEF Announced, Numbered, By
<1>2. /\ Others(h) /\ UNCHANGED served
      /\ \/ first \cup next = {} /\ request'[h] = Null
         \/ \E r : /\ request'[h] = r /\ Tells(r, e)
                   /\ Coming(r) = first \cup next /\ Coming(r)' = first \cup next
  BY <1>1, TellGoes
<1>3. CASE first \cup next = {} /\ request'[h] = Null
  <2>1. PICK r : r = Null
    OBVIOUS
  <2>2. ~Eventful(r) /\ \A f : f.to \in Users => f \notin Coming(q)
    BY <1>3, <2>1 DEF Eventful
  <2>3. QED
    BY <1>2, <1>3, <2>1, <2>2, AnnouncedGoes
<1>4. ASSUME NEW r, request'[h] = r, Tells(r, e), Coming(r)' = first \cup next PROVE Announced'
  <2>1. Heard(r) /\ Eventful(r) /\ ~Early(r) /\ r.on.event = e
    BY <1>4 DEF Tells
  <2>2. QED
    BY <1>1, <1>2, <1>4, <2>1, AnnouncedGoes
<1>5. QED
  BY <1>2, <1>3, <1>4

LEMMA ComingHere ==
  ASSUME UNCHANGED <<member, seat>>, NEW r, NEW f
  PROVE  f \in Coming(r)' <=> f \in Coming(r)
<1>1. (Admitted(f.to)' <=> Admitted(f.to)) /\ (Listening(f.to)' <=> Listening(f.to))
  BY DEF Admitted, Listening
<1>2. QED
  BY <1>1, ComingStays

LEMMA AnnouncedCreate ==
  ASSUME Announced, AllNoted, Shape, NEW h \in Handlers, CommentCreate(h), UNCHANGED <<member, seat, said>>
  PROVE  Announced'
<1>1. PICK q : q = request[h] /\ q # Null /\ q.at = "comment:create"
  BY DEF CommentCreate, At
<1>2. q \in CommentRequests /\ Eventful(q)
  BY <1>1 DEF AllNoted, Noted, WriteSteps, Eventful, EventSteps
<1>3. q.by \in Users /\ q.on.names \in SUBSET Users /\ q.on.event \in Nat
  BY <1>1, <1>2, CommentRequestFields
<1>4. q.on.followers \subseteq [to : Users, channel : {"task_comment"}, nth : 1..2, seen : {Null}]
  BY <1>1, <1>2 DEF CommentRequests
<1>5. CASE Exists(q.on.task)
  <2>1. PICK c \in Comments : Write(h, c, By(h), q.on.followers, FALSE) /\ UNCHANGED event
    BY <1>1, <1>5 DEF CommentCreate, On
  <2>2. PICK on : on = [comment |-> c, author |-> q.by, followers |-> q.on.followers, edit |-> FALSE,
                        names |-> q.on.names, event |-> q.on.event]
    OBVIOUS
  <2>3. PICK r : r = [at |-> "mention:resolve", by |-> q.by, on |-> on]
    OBVIOUS
  <2>4. Await(h, r)
    BY <1>1, <2>1, <2>2, <2>3 DEF Write, By, On
  <2>5. Others(h) /\ request'[h] = r /\ UNCHANGED served
    BY <2>4, Awaits DEF Await
  <2>6. r.at = "mention:resolve" /\ ~r.on.edit /\ r.on.event = q.on.event /\ r.on.names = q.on.names
        /\ r.on.followers = q.on.followers /\ r.on.author = q.by
    BY <2>2, <2>3
  <2>7. Coming(r) = Coming(q)
    BY <1>1, <2>6 DEF Coming
  <2>8. \A f : Eventful(r) /\ f \in Coming(r)' <=> f \in Coming(q)
    <3>1. r \in CommentRequests
      BY <1>3, <1>4, <2>2, <2>3 DEF CommentRequests
    <3>2. Eventful(r)
      BY <2>6, <3>1, NullIsNoComment DEF Eventful, EventSteps, WriteSteps, MentionSteps
    <3>3. QED
      BY <2>7, <3>2, ComingHere
  <2>9. Heard(r) /\ ~Early(r)
    BY <2>6 DEF Heard, Early
  <2>10. UNCHANGED <<prefs, subscription, gone, told>>
    BY <2>1 DEF CommentCreate, quiet, told
  <2>11. QED
    BY <1>1, <1>2, <2>5, <2>6, <2>8, <2>9, <2>10, AnnouncedGoes
<1>6. CASE ~Exists(q.on.task)
  <2>1. Answer(h) /\ DoesNotHappen(q.on.event) /\ UNCHANGED quiet
    BY <1>1, <1>6 DEF CommentCreate, On
  <2>2. Others(h) /\ request'[h] = Null /\ UNCHANGED served
    BY <2>1, Answers DEF Moves, Answer
  <2>3. QED
    BY <1>1, <1>2, <2>1, <2>2, AnnouncedNever
<1>7. QED
  BY <1>5, <1>6

LEMMA AnnouncedUpdate ==
  ASSUME Announced, AllNoted, Shape, NEW h \in Handlers, CommentUpdate(h), UNCHANGED <<member, seat, said>>
  PROVE  Announced'
<1>1. PICK q : q = request[h] /\ q # Null /\ q.at = "comment:update"
  BY DEF CommentUpdate, At
<1>2. q \in CommentRequests /\ Eventful(q) /\ Early(q) /\ Coming(q) = {}
  BY <1>1 DEF AllNoted, Noted, WriteSteps, Eventful, EventSteps, Early, Coming
<1>3. q.by \in Users /\ q.on.names \in SUBSET Users /\ q.on.event \in Nat
  BY <1>1, <1>2, CommentRequestFields
<1>4. UNCHANGED <<prefs, subscription, gone, told>>
  BY DEF CommentUpdate, noticeVars
<1>5. CASE Answer(h)
  <2>1. PICK r : r = Null
    OBVIOUS
  <2>2. Others(h) /\ request'[h] = r /\ UNCHANGED served
    BY <1>5, <2>1, Answers DEF Moves, Answer
  <2>3. ~Eventful(r)
    BY <2>1 DEF Eventful
  <2>4. \A f : f.to \in Users => (Eventful(r) /\ f \in Coming(r)' <=> f \in Coming(q))
    BY <1>2, <2>3
  <2>5. QED
    BY <1>1, <1>2, <1>4, <2>1, <2>2, <2>3, <2>4, AnnouncedGoes
<1>6. CASE Write(h, q.on.comment, q.on.author, {}, TRUE)
  <2>1. PICK on : on = [comment |-> q.on.comment, author |-> q.on.author, followers |-> {}, edit |-> TRUE,
                        names |-> q.on.names, event |-> q.on.event]
    OBVIOUS
  <2>2. PICK r : r = [at |-> "mention:resolve", by |-> q.by, on |-> on]
    OBVIOUS
  <2>3. Await(h, r)
    BY <1>1, <1>6, <2>1, <2>2 DEF Write, By, On
  <2>4. Others(h) /\ request'[h] = r /\ UNCHANGED served
    BY <2>3, Awaits DEF Await
  <2>5. r.at = "mention:resolve" /\ r.on.edit /\ r.on.event = q.on.event
    BY <2>1, <2>2
  <2>6. Heard(r) /\ Coming(r)' = {}
    BY <2>5 DEF Heard, Coming
  <2>7. QED
    BY <1>1, <1>2, <1>4, <2>4, <2>5, <2>6, AnnouncedGoes
<1>7. QED
  BY <1>1, <1>5, <1>6 DEF CommentUpdate, On

LEMMA AnnouncedResolve ==
  ASSUME Announced, AllNoted, Shape, NEW h \in Handlers, MentionResolve(h), UNCHANGED <<member, seat, said>>
  PROVE  Announced'
<1>1. PICK q : q = request[h] /\ q # Null /\ q.at = "mention:resolve"
  BY DEF MentionResolve, At
<1>2. q \in CommentRequests /\ Eventful(q)
  BY <1>1 DEF AllNoted, Noted, WriteSteps, MentionSteps, Eventful, EventSteps
<1>3. /\ q.by \in Users /\ q.on.names \in SUBSET Users /\ q.on.event \in Nat /\ q.on.comment \in Comments
      /\ q.on.author \in Users /\ q.on.edit \in BOOLEAN
  BY <1>1, <1>2, CommentRequestFields
<1>4. q.on.followers \subseteq [to : Users, channel : {"task_comment"}, nth : 1..2, seen : {Null}]
  BY <1>1, <1>2 DEF CommentRequests
<1>5. UNCHANGED <<prefs, subscription, gone, told>>
  BY DEF MentionResolve, noticeVars
<1>6. PICK us : us = Targets(h)
  OBVIOUS
<1>7. us = {v \in q.on.names : Admitted(v)} \ {q.on.author, IF q.on.edit THEN q.by ELSE q.on.author}
  BY <1>1, <1>6 DEF Targets, On, By
<1>8. PICK on : on = [comment |-> q.on.comment, want |-> us, followers |-> q.on.followers, author |-> q.on.author,
                      event |-> q.on.event]
  OBVIOUS
<1>9. PICK r : r = [at |-> IF q.on.edit THEN "mention:read" ELSE "mention:create", by |-> q.by, on |-> on]
  OBVIOUS
<1>10. Await(h, r)
  BY <1>1, <1>6, <1>8, <1>9 DEF MentionResolve, On, By
<1>11. Others(h) /\ request'[h] = r /\ UNCHANGED served
  BY <1>10, Awaits DEF Await
<1>12. r \in CommentRequests /\ r # Null
  BY <1>3, <1>4, <1>7, <1>8, <1>9, NullIsNoComment DEF CommentRequests
<1>13. /\ r.at = IF q.on.edit THEN "mention:read" ELSE "mention:create"
       /\ r.on.want = us /\ r.on.followers = q.on.followers /\ r.on.author = q.on.author /\ r.on.event = q.on.event
  BY <1>8, <1>9
<1>14. Heard(r) /\ Eventful(r) /\ (Early(r) => Early(q))
  BY <1>1, <1>12, <1>13 DEF Heard, Eventful, Early, EventSteps, WriteSteps, MentionSteps
<1>15. Coming(r) = Coming(q)
  <2>1. CASE q.on.edit
    BY <1>1, <1>13, <2>1 DEF Coming
  <2>2. CASE ~q.on.edit
    <3>1. us = {v \in q.on.names : Admitted(v)} \ {q.on.author}
      BY <1>7, <2>2
    <3>2. Coming(q) = Naming(q.on.names, q.on.followers, q.on.author)
      BY <1>1, <2>2 DEF Coming
    <3>3. Coming(r) = Recipients(us, "mention") \cup {f \in q.on.followers : f.to \notin {q.on.author} \cup us}
      BY <1>13, <2>2 DEF Coming
    <3>4. QED
      BY <3>1, <3>2, <3>3 DEF Naming
  <2>3. QED
    BY <2>1, <2>2
<1>16. \A f : Eventful(r) /\ f \in Coming(r)' <=> f \in Coming(q)
  BY <1>14, <1>15, ComingHere
<1>17. QED
  BY <1>1, <1>2, <1>5, <1>11, <1>13, <1>14, <1>16, AnnouncedGoes

(* A request that has nothing to do with news is answered. *)
LEMMA AnnouncedDone ==
  ASSUME Announced, NEW h \in Handlers, ~Eventful(request[h]), Others(h), request'[h] = Null, UNCHANGED served,
         UNCHANGED <<member, seat, said, prefs, subscription, gone, notice, pushing, rung, watched, event>>
  PROVE  Announced'
<1>1. NewsKept
  BY DEF NewsKept, Others, Eventful
<1>2. Hearing' /\ Seated'
  BY HearingStays, SeatedStays DEF Announced, Hearing, Others
<1>3. PICK us, ds : us = {} /\ ds = {}
  OBVIOUS
<1>4. Touch(us, ds) /\ us \in SUBSET Users /\ ds \in SUBSET Devices
  BY <1>3, TouchesNothing DEF Announced, Hearing
<1>5. \A v \in Users \ us :
        prefs'[v] = prefs[v] /\ (Admitted(v)' <=> Admitted(v)) /\ (Listening(v)' <=> Listening(v))
  BY DEF Admitted, Listening
<1>6. served' \in Nat /\ served <= served'
  BY DEF Announced, Numbered
<1>7. QED
  BY <1>1, <1>2, <1>4, <1>5, <1>6, AnnouncedAside

LEMMA AnnouncedStored ==
  ASSUME Announced, AllNoted, Shape, NEW h \in Handlers, MentionCreate(h), UNCHANGED <<member, seat, said>>
  PROVE  Announced'
<1>1. PICK q : q = request[h] /\ q # Null /\ q.at = "mention:create"
  BY DEF MentionCreate, At
<1>2. q \in CommentRequests /\ Eventful(q)
  BY <1>1 DEF AllNoted, Noted, WriteSteps, MentionSteps, Eventful, EventSteps
<1>3. q.by \in Users /\ q.on.event \in Nat /\ q.on.want \in SUBSET Users
  BY <1>1, <1>2, CommentRequestFields
<1>4. q.on.followers \subseteq [to : Users, channel : {"task_comment"}, nth : 1..2, seen : {Null}]
  BY <1>1, <1>2 DEF CommentRequests
<1>5. CASE Answer(h) /\ DoesNotHappen(q.on.event)
  <2>1. Others(h) /\ request'[h] = Null /\ UNCHANGED served
    BY <1>5, Answers DEF Moves, Answer
  <2>2. UNCHANGED quiet
    BY DEF MentionCreate
  <2>3. QED
    BY <1>1, <1>2, <1>5, <2>1, <2>2, AnnouncedNever
<1>6. CASE Tell(h, q.on.event, Recipients(q.on.want, "mention"), OtherFollowers(h)) /\ UNCHANGED event
  <2>1. PICK first, next : first = Recipients(q.on.want, "mention") /\ next = OtherFollowers(h)
    OBVIOUS
  <2>2. next = {f \in q.on.followers : f.to \notin {q.on.author} \cup q.on.want}
    BY <1>1, <2>1 DEF OtherFollowers, On
  <2>3. first \in SUBSET RecipientRows /\ \A f \in first : f.to \in q.on.want
    <3>1. "mention" \in Channels
      BY DEF Channels
    <3>2. first \subseteq RecipientRows
      BY <1>3, <2>1, <3>1, RecipientTyped
    <3>3. QED
      BY <2>1, <3>2 DEF Recipients, Recipient
  <2>4. next \in SUBSET RecipientRows /\ \A f \in next : f.seen = Null
    BY <1>4, <2>2 DEF RecipientRows, Channels
  <2>5. first \cap next = {}
    BY <2>2, <2>3
  <2>6. Tellable(first, next)
    BY <2>3, <2>4, <2>5 DEF Tellable
  <2>7. Coming(q) = first \cup next
    BY <1>1, <2>1, <2>2 DEF Coming
  <2>8. UNCHANGED <<prefs, subscription, gone, told>>
    BY <1>6 DEF MentionCreate, quiet, told
  <2>9. QED
    BY <1>1, <1>2, <1>3, <1>6, <2>1, <2>6, <2>7, <2>8, AnnouncedTell
<1>7. QED
  BY <1>1, <1>5, <1>6 DEF MentionCreate, On

LEMMA AnnouncedSync ==
  ASSUME Announced, AllNoted, Shape, NEW h \in Handlers, MentionSync(h), UNCHANGED <<member, seat, said>>
  PROVE  Announced'
<1>1. PICK q : q = request[h] /\ q # Null /\ q.at = "mention:sync"
  BY DEF MentionSync, At
<1>2. q \in CommentRequests /\ Eventful(q)
  BY <1>1 DEF AllNoted, Noted, WriteSteps, MentionSteps, Eventful, EventSteps
<1>3. q.by \in Users /\ q.on.event \in Nat /\ q.on.want \in SUBSET Users
  BY <1>1, <1>2, CommentRequestFields
<1>4. PICK added \in SUBSET Users : added = q.on.want \ q.on.have
  BY <1>3
<1>5. PICK first : first = Recipients(added, "mention") /\ Coming(q) = first
  BY <1>1, <1>4 DEF Coming
<1>6. CASE Answer(h) /\ DoesNotHappen(q.on.event)
  <2>1. Others(h) /\ request'[h] = Null /\ UNCHANGED served
    BY <1>6, Answers DEF Moves, Answer
  <2>2. UNCHANGED quiet
    BY DEF MentionSync
  <2>3. QED
    BY <1>1, <1>2, <1>6, <2>1, <2>2, AnnouncedNever
<1>7. CASE Answer(h) /\ added = {} /\ UNCHANGED event
  <2>1. PICK r : r = Null
    OBVIOUS
  <2>2. Others(h) /\ request'[h] = r /\ UNCHANGED served
    BY <1>7, <2>1, Answers DEF Moves, Answer
  <2>3. ~Eventful(r) /\ Coming(q) = {}
    BY <1>5, <1>7, <2>1 DEF Eventful, Recipients
  <2>4. \A f : f.to \in Users => (Eventful(r) /\ f \in Coming(r)' <=> f \in Coming(q))
    BY <2>3
  <2>5. UNCHANGED <<prefs, subscription, gone, told>>
    BY <1>7 DEF MentionSync, quiet, told
  <2>6. QED
    BY <1>1, <1>2, <2>1, <2>2, <2>3, <2>4, <2>5, AnnouncedGoes
<1>8. CASE Tell(h, q.on.event, first, {}) /\ UNCHANGED event
  <2>1. PICK next : next = {}
    OBVIOUS
  <2>2. first \subseteq RecipientRows
    <3>1. "mention" \in Channels
      BY DEF Channels
    <3>2. QED
      BY <1>4, <1>5, <3>1, RecipientTyped
  <2>3. Tellable(first, next)
    BY <2>1, <2>2 DEF Tellable
  <2>4. UNCHANGED <<prefs, subscription, gone, told>>
    BY <1>8 DEF MentionSync, quiet, told
  <2>5. Tell(h, q.on.event, first, next) /\ Coming(q) = first \cup next
    BY <1>5, <1>8, <2>1
  <2>6. QED
    BY <1>1, <1>2, <1>3, <2>3, <2>4, <2>5, AnnouncedTell
<1>9. QED
  BY <1>1, <1>4, <1>5, <1>6, <1>7, <1>8 DEF MentionSync, On

LEMMA AnnouncedRead ==
  ASSUME Announced, AllNoted, Shape, NEW h \in Handlers, MentionRead(h), UNCHANGED <<member, seat, said>>
  PROVE  Announced'
<1>1. PICK q : q = request[h] /\ q # Null /\ q.at = "mention:read"
  BY DEF MentionRead, At
<1>2. q \in CommentRequests /\ Eventful(q) /\ Early(q) /\ Coming(q) = {}
  BY <1>1 DEF AllNoted, Noted, WriteSteps, MentionSteps, Eventful, EventSteps, Early, Coming
<1>3. /\ q.by \in Users /\ q.on.event \in Nat /\ q.on.want \in SUBSET Users /\ q.on.comment \in Comments
      /\ DOMAIN q = {"at", "by", "on"}
  BY <1>1, <1>2, CommentRequestFields
<1>4. PICK have : have = {u \in Users : mention[q.on.comment][u] > 0}
  OBVIOUS
<1>5. PICK on : on = [comment |-> q.on.comment, want |-> q.on.want, have |-> have, event |-> q.on.event]
  OBVIOUS
<1>6. PICK r : r = [q EXCEPT !.at = "mention:sync", !.on = on]
  OBVIOUS
<1>7. Await(h, r) /\ Happens(q.on.event, Concerns(q.on.want \ have, "mention"), Null) /\ UNCHANGED quiet
  BY <1>1, <1>4, <1>5, <1>6 DEF MentionRead, On
<1>8. Others(h) /\ request'[h] = r /\ UNCHANGED served
  BY <1>7, Awaits DEF Await
<1>9. q = [at |-> q.at, by |-> q.by, on |-> q.on]
  BY <1>1, <1>2 DEF CommentRequests
<1>10. r = [at |-> "mention:sync", by |-> q.by, on |-> on]
  BY <1>6, <1>9
<1>11. r \in CommentRequests /\ r # Null
  BY <1>3, <1>4, <1>5, <1>10, NullIsNoComment DEF CommentRequests
<1>12. r.at = "mention:sync" /\ r.on.event = q.on.event /\ r.on.want = q.on.want /\ r.on.have = have
  BY <1>5, <1>10
<1>13. Heard(r) /\ Eventful(r) /\ ~Early(r)
  BY <1>11, <1>12 DEF Heard, Eventful, Early, EventSteps, WriteSteps, MentionSteps
<1>14. PICK us \in SUBSET Users : us = q.on.want \ have
  BY <1>3
<1>15. PICK T : T = Recipients(us, "mention")
  OBVIOUS
<1>16. Coming(r)' = T
  BY <1>12, <1>14, <1>15 DEF Coming
<1>17. PICK concerned : concerned = Concerns(us, "mention")
  OBVIOUS
<1>18. Foreseen(T, concerned, Null) /\ concerned \in [Users -> Channels \cup {Null}]
  <2>1. "mention" \in Channels
    BY DEF Channels
  <2>2. QED
    BY <1>14, <1>15, <1>17, <2>1, Spreads
<1>19. PICK twice, e : twice = Null /\ e = q.on.event
  OBVIOUS
<1>20. Happens(e, concerned, twice) /\ twice \in Users \cup {Null} /\ Foreseen(T, concerned, twice)
  BY <1>7, <1>14, <1>17, <1>18, <1>19
<1>21. Seated' /\ \A v \in Users : Listening(v)' <=> Listening(v)
  BY SeatedStays DEF Announced, Listening
<1>22. UNCHANGED <<prefs, subscription, gone, notice, pushing, rung, watched>>
  BY <1>7 DEF quiet
<1>23. r.on.event = e /\ q.on.event = e /\ T = Coming(r)'
  BY <1>12, <1>16, <1>19
<1>24. QED
  BY <1>1, <1>2, <1>8, <1>13, <1>18, <1>20, <1>21, <1>22, <1>23, Happening

LEMMA AnnouncedDelete ==
  ASSUME Announced, Shape, NEW h \in Handlers, CommentDelete(h), UNCHANGED <<member, seat, said>>
  PROVE  Announced'
<1>1. request[h] # Null /\ request[h].at = "comment:delete"
  BY DEF CommentDelete, At
<1>2. Others(h) /\ request'[h] = Null /\ UNCHANGED served
  BY Answers DEF CommentDelete, Moves, Answer
<1>3. UNCHANGED <<prefs, subscription, gone, notice, pushing, rung, watched, event>>
  BY DEF CommentDelete, noticeVars, told
<1>4. ~Eventful(request[h])
  BY <1>1 DEF Eventful, EventSteps, WriteSteps, MentionSteps
<1>5. QED
  BY <1>2, <1>3, <1>4, AnnouncedDone

LEMMA AnnouncedWritten ==
  ASSUME Announced, AllNoted, Shape, NEW h \in Handlers, CommentsContinue(h), UNCHANGED <<member, seat, said>>
  PROVE  Announced'
BY AnnouncedCreate, AnnouncedUpdate, AnnouncedDelete, AnnouncedResolve, AnnouncedStored, AnnouncedRead, AnnouncedSync
   DEF CommentsContinue

----------------------------------------------------------------------------
(* The conversation.  Who begins or ceases to listen counts as changed. *)
LEMMA AnnouncedSeats ==
  ASSUME Announced, Seated', NewsKept, UNCHANGED <<served, member>>, Listeners,
         \A g \in Handlers : request'[g] # Null => request'[g] = request[g]
  PROVE  Announced'
<1>1. PICK us \in SUBSET Users : us = {u \in Users : Listening(u)' # Listening(u)}
  OBVIOUS
<1>2. PICK ds \in SUBSET Devices : ds = {}
  OBVIOUS
<1>3. Touch(us, ds) /\ UNCHANGED <<prefs, subscription, gone, notice, pushing, rung, watched>>
  BY <1>1, <1>2 DEF Listeners, silence
<1>4. event' \in EventRows \cup {Null}
  BY <1>3, Touches DEF Announced, Hearing
<1>5. Hearing'
  BY <1>3, <1>4, HearingStays DEF Announced
<1>6. \A u \in Users \ us :
        prefs'[u] = prefs[u] /\ (Admitted(u)' <=> Admitted(u)) /\ (Listening(u)' <=> Listening(u))
  <2>1. \A u \in Users \ us : Listening(u)' = Listening(u)
    BY <1>1
  <2>2. QED
    BY <1>3, <2>1 DEF Admitted
<1>7. served' \in Nat /\ served <= served'
  BY DEF Announced, Numbered
<1>8. QED
  BY <1>3, <1>5, <1>6, <1>7, AnnouncedAside

LEMMA AnnouncedSeat ==
  ASSUME Announced, Shape, NEW h \in Handlers, SeatStore(h), UNCHANGED member
  PROVE  Announced'
<1>1. request[h] # Null /\ request[h].at \in {"chat:leave", "chat:add", "chat:mute", "chat:mark"}
  BY DEF SeatStore, SeatLeave, SeatAdd, SeatMute, SeatMark, At
<1>2. Others(h) /\ request'[h] = Null /\ UNCHANGED <<served, said>> /\ Listeners
  BY Answers DEF SeatStore, Moves, Answer, talkVars
<1>3. ~Eventful(request[h])
  BY <1>1 DEF Eventful, EventSteps, WriteSteps, MentionSteps
<1>4. NewsKept
  BY <1>2, <1>3 DEF NewsKept, Others, Eventful
<1>5. seat \in [Users -> Seats \cup {Null}] /\ said \subseteq Talks
  BY DEF Announced, Seated
<1>6. NewSeat \in Seats
  BY DEF NewSeat, Seats
<1>7. CASE SeatLeave(h) \/ SeatAdd(h)
  <2>1. seat' \in [Users -> Seats \cup {Null}]
    BY <1>5, <1>6, <1>7 DEF SeatLeave, SeatAdd
  <2>2. QED
    BY <1>2, <1>4, <1>5, <2>1, AnnouncedSeats DEF Seated, Others
<1>8. CASE SeatMute(h) \/ SeatMark(h)
  <2>1. SeatMute(h) => On(h).muted \in BOOLEAN
    BY <1>1 DEF SeatMute, At, Announced, Hearing, Heard, On
  <2>2. PICK u : u = By(h)
    OBVIOUS
  <2>3. \/ seat' = seat
        \/ seat[u] # Null /\ \E b \in BOOLEAN : seat' = [seat EXCEPT ![u].muted = b]
        \/ seat[u] # Null /\ seat' = [seat EXCEPT ![u].read = said]
    BY <1>8, <2>1, <2>2 DEF SeatMute, SeatMark
  <2>4. seat' \in [Users -> Seats \cup {Null}]
    BY <1>5, <2>3 DEF Seats
  <2>5. QED
    BY <1>2, <1>4, <1>5, <2>4, AnnouncedSeats DEF Seated, Others
<1>9. QED
  BY <1>7, <1>8 DEF SeatStore

LEMMA AnnouncedMute ==
  ASSUME Announced, NEW u \in Users, MuteEnds(u), UNCHANGED member
  PROVE  Announced'
<1>1. seat' \in [Users -> Seats \cup {Null}]
  BY DEF MuteEnds, Announced, Seated, Seats
<1>2. Seated' /\ NewsKept
  BY <1>1 DEF MuteEnds, talkVars, Announced, Seated, NewsKept
<1>3. UNCHANGED served /\ Listeners /\ UNCHANGED request
  BY DEF MuteEnds
<1>4. QED
  BY <1>2, <1>3, AnnouncedSeats

(* Everybody is told by a channel of their own. *)
LEMMA SpreadsBy ==
  ASSUME NEW us \in SUBSET Users, NEW channel \in [Users -> Channels],
         NEW T, T = {Recipient(u, channel[u], 1) : u \in us},
         NEW concerned, concerned = [u \in Users |-> IF u \in us THEN channel[u] ELSE Null]
  PROVE  /\ T \subseteq RecipientRows /\ Foreseen(T, concerned, Null)
         /\ concerned \in [Users -> Channels \cup {Null}]
<1>1. \A f : f \in T <=> f.to \in us /\ f = Recipient(f.to, channel[f.to], 1)
  BY DEF Recipient
<1>2. \A v, c : LET f == Recipient(v, c, 1) IN f.to = v /\ f.channel = c /\ f.nth = 1 /\ f.seen = Null
  BY DEF Recipient
<1>3. \A v \in us : Recipient(v, channel[v], 1) \in T
  OBVIOUS
<1>4. \A v \in us : Owes(T, v, 1) = 1 /\ Owes(T, v, 2) = 0
  BY <1>1, <1>2, <1>3 DEF Owes, Slot
<1>5. Null \notin Users
  BY NullIsNoNotice
<1>6. \A v \in Users : concerned[v] # Null => v \in us
  OBVIOUS
<1>7. \A f \in T : f.channel = concerned[f.to] /\ f.seen = Null
  BY <1>1, <1>2
<1>8. \A f, g \in T : f.to = g.to /\ f.nth = g.nth => f = g
  BY <1>1, <1>2
<1>9. Foreseen(T, concerned, Null)
  <2>1. \A v \in Users : concerned[v] # Null => v # Null /\ Owes(T, v, 1) + Owes(T, v, 2) = 1
    BY <1>4, <1>5, <1>6
  <2>2. QED
    BY <1>7, <1>8, <2>1 DEF Foreseen
<1>10. T \subseteq RecipientRows
  <2>1. \A v \in us : Recipient(v, channel[v], 1) \in RecipientRows
    BY DEF Recipient, RecipientRows
  <2>2. QED
    BY <2>1
<1>11. QED
  BY <1>9, <1>10

LEMMA AnnouncedMessage ==
  ASSUME Announced, Shape, NEW h \in Handlers, MessageStore(h), UNCHANGED member
  PROVE  Announced'
<1>1. PICK q : q = request[h] /\ q # Null /\ q.at = "chat:send"
  BY DEF MessageStore, At
<1>2. q \in ChatRequests
  BY <1>1 DEF Announced, Hearing, Heard
<1>3. Eventful(q) /\ Early(q) /\ Coming(q) = {}
  BY <1>1 DEF Eventful, EventSteps, Early, Coming
<1>4. q.by \in Users /\ q.on.names \in SUBSET Users /\ q.on.event \in Nat /\ q = [at |-> q.at, by |-> q.by, on |-> q.on]
  BY <1>2 DEF ChatRequests
<1>5. UNCHANGED <<prefs, subscription, gone, notice, pushing, rung, watched>>
  BY DEF MessageStore, silence
<1>6. CASE Answer(h) /\ UNCHANGED <<seat, said, event>>
  <2>1. PICK r : r = Null
    OBVIOUS
  <2>2. Others(h) /\ request'[h] = r /\ UNCHANGED served
    BY <1>6, <2>1, Answers DEF Moves, Answer
  <2>3. ~Eventful(r)
    BY <2>1 DEF Eventful
  <2>4. \A f : f.to \in Users => (Eventful(r) /\ f \in Coming(r)' <=> f \in Coming(q))
    BY <1>3, <2>3
  <2>5. UNCHANGED <<prefs, subscription, gone, told>>
    BY <1>5, <1>6 DEF told
  <2>6. QED
    BY <1>1, <1>3, <1>6, <2>1, <2>2, <2>3, <2>4, <2>5, AnnouncedGoes
<1>7. CASE seat[q.by] # Null
  <2>1. PICK concerned : concerned = [u \in Users |-> IF Listening(u) /\ u # q.by THEN ChannelOf(u, q.on.names) ELSE Null]
    OBVIOUS
  <2>2. PICK r : r = [q EXCEPT !.at = "chat:notify"]
    OBVIOUS
  <2>3. PICK m \in Talks :
          /\ said' = said \cup {m} /\ seat' = [seat EXCEPT ![q.by].read = said']
          /\ Await(h, r) /\ Happens(q.on.event, concerned, Null)
    BY <1>1, <1>7, <2>1, <2>2 DEF MessageStore, By, On
  <2>4. Others(h) /\ request'[h] = r /\ UNCHANGED served
    BY <2>3, Awaits DEF Await
  <2>5. r = [at |-> "chat:notify", by |-> q.by, on |-> q.on]
    BY <1>4, <2>2
  <2>6. r \in ChatRequests /\ r # Null
    BY <1>2, <2>5, NullIsNoMessage DEF ChatRequests
  <2>7. Heard(r) /\ Eventful(r) /\ ~Early(r) /\ r.at = "chat:notify" /\ r.by = q.by /\ r.on = q.on
    BY <2>5, <2>6 DEF Heard, Eventful, Early, EventSteps
  <2>8. seat \in [Users -> Seats \cup {Null}] /\ said \subseteq Talks
    BY DEF Announced, Seated
  <2>9. seat[q.by] \in Seats
    BY <1>4, <1>7, <2>8
  <2>10. said' \subseteq Talks
    BY <2>3, <2>8
  <2>11. [seat[q.by] EXCEPT !.read = said'] \in Seats /\ [seat[q.by] EXCEPT !.read = said'].muted = seat[q.by].muted
    BY <2>9, <2>10 DEF Seats
  <2>12. seat' = [seat EXCEPT ![q.by] = [seat[q.by] EXCEPT !.read = said']]
    BY <2>3
  <2>13. Seated'
    BY <2>8, <2>10, <2>11, <2>12 DEF Seated
  <2>14. \A u \in Users : Listening(u)' <=> Listening(u)
    BY <1>7, <2>8, <2>9, <2>11, <2>12, NullIsNoMessage DEF Listening
  <2>15. PICK us \in SUBSET Users : us = {v \in Users : Listening(v)} \ {q.by}
    OBVIOUS
  <2>16. PICK channel : channel = [u \in Users |-> ChannelOf(u, q.on.names)]
    OBVIOUS
  <2>17. channel \in [Users -> Channels]
    BY <2>16 DEF ChannelOf, Channels
  <2>18. PICK T : T = {Recipient(u, channel[u], 1) : u \in us}
    OBVIOUS
  <2>19. concerned = [u \in Users |-> IF u \in us THEN channel[u] ELSE Null]
    BY <2>1, <2>15, <2>16
  <2>20. PICK twice, e : twice = Null /\ e = q.on.event
    OBVIOUS
  <2>21. Foreseen(T, concerned, twice) /\ concerned \in [Users -> Channels \cup {Null}]
    BY <2>17, <2>18, <2>19, <2>20, SpreadsBy
  <2>22. Coming(r)' = {Recipient(u, ChannelOf(u, q.on.names), 1) : u \in {v \in Users : Listening(v)'} \ {q.by}}
    BY <2>7 DEF Coming
  <2>23. {v \in Users : Listening(v)'} \ {q.by} = us
    BY <2>14, <2>15
  <2>24. T = Coming(r)'
    BY <2>16, <2>18, <2>22, <2>23
  <2>25. Happens(e, concerned, twice) /\ twice \in Users \cup {Null} /\ r.on.event = e /\ q.on.event = e
    BY <2>3, <2>7, <2>20
  <2>26. QED
    BY <1>1, <1>3, <1>5, <2>4, <2>7, <2>13, <2>14, <2>21, <2>24, <2>25, Happening
<1>8. QED
  BY <1>1, <1>6, <1>7 DEF MessageStore, By

LEMMA AnnouncedNotify ==
  ASSUME Announced, Shape, NEW h \in Handlers, NotifyParticipants(h), UNCHANGED member
  PROVE  Announced'
<1>1. PICK q : q = request[h] /\ q # Null /\ q.at = "chat:notify"
  BY DEF NotifyParticipants, At
<1>2. q \in ChatRequests
  BY <1>1 DEF Announced, Hearing, Heard
<1>3. Eventful(q)
  BY <1>1 DEF Eventful, EventSteps
<1>4. q.by \in Users /\ q.on.event \in Nat
  BY <1>2 DEF ChatRequests
<1>5. UNCHANGED <<seat, said, prefs, subscription, gone, told>>
  BY DEF NotifyParticipants, silence, chatVars, talkVars, told
<1>6. PICK us \in SUBSET Users : us = {v \in Users : Listening(v)} \ {q.by}
  OBVIOUS
<1>7. PICK channel : channel = [u \in Users |-> ChannelOf(u, q.on.names)]
  OBVIOUS
<1>8. channel \in [Users -> Channels]
  BY <1>7 DEF ChannelOf, Channels
<1>9. PICK T : T = {Recipient(u, channel[u], 1) : u \in us}
  OBVIOUS
<1>10. PICK concerned : concerned = [u \in Users |-> IF u \in us THEN channel[u] ELSE Null]
  OBVIOUS
<1>11. T \subseteq RecipientRows
  BY <1>8, <1>9, <1>10, SpreadsBy
<1>12. PICK next : next = {}
  OBVIOUS
<1>13. Tellable(T, next)
  BY <1>11, <1>12 DEF Tellable
<1>14. T = {Recipient(u, ChannelOf(u, q.on.names), 1) : u \in us}
  BY <1>7, <1>9
<1>15. Coming(q) = T
  BY <1>1, <1>6, <1>14 DEF Coming
<1>16. Tell(h, q.on.event, T, next) /\ Coming(q) = T \cup next
  BY <1>1, <1>6, <1>12, <1>14, <1>15 DEF NotifyParticipants, By, On
<1>17. QED
  BY <1>1, <1>3, <1>4, <1>5, <1>13, <1>16, AnnouncedTell

LEMMA AnnouncedMark ==
  ASSUME Announced, Shape, NEW h \in Handlers, MarkStore(h), UNCHANGED member
  PROVE  Announced'
<1>1. request[h] # Null /\ request[h].at \in {"chat:react", "chat:unreact", "chat:pin"}
  BY DEF MarkStore, ReactionStore, ReactionRemove, PinStore, At
<1>2. Others(h) /\ request'[h] = Null /\ UNCHANGED served
  BY Answers DEF MarkStore, Moves, Answer
<1>3. UNCHANGED <<seat, said, prefs, subscription, gone, notice, pushing, rung, watched, event>>
  BY DEF MarkStore, noticeVars, told
<1>4. ~Eventful(request[h])
  BY <1>1 DEF Eventful, EventSteps, WriteSteps, MentionSteps
<1>5. QED
  BY <1>2, <1>3, <1>4, AnnouncedDone

LEMMA AnnouncedTalk ==
  ASSUME Announced, Shape, NEW h \in Handlers, ChatroomContinue(h), UNCHANGED member
  PROVE  Announced'
BY AnnouncedSeat, AnnouncedMessage, AnnouncedNotify, AnnouncedMark DEF ChatroomContinue

----------------------------------------------------------------------------
(* Settings and devices: whoever changes them counts as changed, or as moved. *)
LEMMA AnnouncedPrefs ==
  ASSUME Announced, Shape, NEW h \in Handlers, PrefsStore(h), UNCHANGED <<member, seat, said>>
  PROVE  Announced'
<1>1. PICK q : q = request[h] /\ q # Null /\ q.at = "prefs"
  BY DEF PrefsStore, At
<1>2. q \in PrefsRequests
  BY <1>1 DEF Announced, Hearing, Heard
<1>3. q.by \in Users /\ q.on.next \in Prefs
  BY <1>2 DEF PrefsRequests
<1>4. Others(h) /\ request'[h] = Null /\ UNCHANGED served
  BY Answers DEF PrefsStore, Moves, Answer
<1>5. PICK us, ds : us = {q.by} /\ ds = {}
  OBVIOUS
<1>6. us \in SUBSET Users /\ ds \in SUBSET Devices
  BY <1>3, <1>5
<1>7. /\ prefs' = [prefs EXCEPT ![q.by] = q.on.next] /\ Touch(us, ds)
      /\ UNCHANGED <<subscription, gone, notice, pushing, rung, watched>>
  BY <1>1, <1>5 DEF PrefsStore, By, On
<1>8. event' \in EventRows \cup {Null}
  BY <1>6, <1>7, Touches DEF Announced, Hearing
<1>9. prefs' \in [Users -> Prefs]
  BY <1>3, <1>7 DEF Announced, Hearing
<1>10. \A g \in Handlers : request'[g] # Null => request'[g] = request[g]
  BY <1>4 DEF Others
<1>11. Hearing'
  BY <1>7, <1>8, <1>9, <1>10 DEF Announced, Hearing, Heard
<1>12. Seated' /\ NewsKept
  BY <1>1, <1>4, SeatedStays DEF Announced, NewsKept, Others, Eventful, EventSteps, WriteSteps, MentionSteps
<1>13. \A u \in Users \ us : prefs'[u] = prefs[u] /\ (Admitted(u)' <=> Admitted(u)) /\ (Listening(u)' <=> Listening(u))
  BY <1>5, <1>7 DEF Admitted, Listening, Announced, Hearing
<1>14. served' \in Nat /\ served <= served'
  BY <1>4 DEF Announced, Numbered
<1>15. QED
  BY <1>4, <1>6, <1>7, <1>11, <1>12, <1>13, <1>14, AnnouncedAside

LEMMA AnnouncedDevice ==
  ASSUME Announced, Shape, NEW h \in Handlers, DeviceStore(h), UNCHANGED <<member, seat, said>>
  PROVE  Announced'
<1>1. PICK q : q = request[h] /\ q # Null /\ q.at = "subscribe"
  BY DEF DeviceStore, At
<1>2. q.on.device \in Devices /\ q.on.to \in Users \cup {Null}
  BY <1>1 DEF Announced, Hearing, Heard
<1>3. Others(h) /\ request'[h] = Null /\ UNCHANGED served
  BY Answers DEF DeviceStore, Moves, Answer
<1>4. PICK us, ds : us = {} /\ ds = {q.on.device}
  OBVIOUS
<1>5. us \in SUBSET Users /\ ds \in SUBSET Devices
  BY <1>2, <1>4
<1>6. /\ subscription' = [subscription EXCEPT ![q.on.device] = q.on.to] /\ Touch(us, ds)
      /\ UNCHANGED <<prefs, gone, notice, pushing, rung, watched>>
  BY <1>1, <1>4 DEF DeviceStore, By, On
<1>7. event' \in EventRows \cup {Null}
  BY <1>5, <1>6, Touches DEF Announced, Hearing
<1>8. subscription' \in [Devices -> Users \cup {Null}]
  BY <1>2, <1>6 DEF Announced, Hearing
<1>9. \A g \in Handlers : request'[g] # Null => request'[g] = request[g]
  BY <1>3 DEF Others
<1>10. Hearing'
  BY <1>6, <1>7, <1>8, <1>9 DEF Announced, Hearing, Heard
<1>11. Seated' /\ NewsKept
  BY <1>1, <1>3, SeatedStays DEF Announced, NewsKept, Others, Eventful, EventSteps, WriteSteps, MentionSteps
<1>12. \A u \in Users \ us : prefs'[u] = prefs[u] /\ (Admitted(u)' <=> Admitted(u)) /\ (Listening(u)' <=> Listening(u))
  BY <1>6 DEF Admitted, Listening
<1>13. \A d \in Devices \ ds : subscription'[d] = subscription[d]
  BY <1>4, <1>6 DEF Announced, Hearing
<1>14. served' \in Nat /\ served <= served'
  BY <1>3 DEF Announced, Numbered
<1>15. QED
  BY <1>3, <1>5, <1>6, <1>10, <1>11, <1>12, <1>13, <1>14, AnnouncedAside

LEMMA AnnouncedForget ==
  ASSUME Announced, NEW d \in Devices, Forget(d), UNCHANGED <<member, seat, said>>
  PROVE  Announced'
<1>1. PICK us, ds : us = {} /\ ds = {d}
  OBVIOUS
<1>2. us \in SUBSET Users /\ ds \in SUBSET Devices
  BY <1>1
<1>3. /\ gone' = gone \cup ds /\ Touch(us, ds)
      /\ UNCHANGED <<request, served, prefs, subscription, notice, pushing, rung, watched>>
  BY <1>1 DEF Forget
<1>4. event' \in EventRows \cup {Null}
  BY <1>2, <1>3, Touches DEF Announced, Hearing
<1>5. Hearing'
  BY <1>2, <1>3, <1>4 DEF Announced, Hearing, Heard
<1>6. Seated' /\ NewsKept
  BY <1>3, SeatedStays DEF Announced, NewsKept
<1>7. \A u \in Users \ us : prefs'[u] = prefs[u] /\ (Admitted(u)' <=> Admitted(u)) /\ (Listening(u)' <=> Listening(u))
  BY <1>3 DEF Admitted, Listening
<1>8. served' \in Nat /\ served <= served'
  BY <1>3 DEF Announced, Numbered
<1>9. QED
  BY <1>2, <1>3, <1>5, <1>6, <1>7, <1>8, AnnouncedAside

----------------------------------------------------------------------------
(* The pushes.  A member's settings and the feed are not about them. *)
LEMMA FedStays ==
  ASSUME Same, NEW u, NEW T, NEW S, Steady(u), Fed(T, u), prefs'[u] = prefs[u], Admitted(u)' <=> Admitted(u),
         notice'[u] = notice[u], \A f : f.to = u => (f \in S <=> f \in T)
  PROVE  Steady(u)' /\ Fed(S, u)'
<1>1. \A s : (Wanted(u, s)' <=> Wanted(u, s)) /\ Times(u, s)' = Times(u, s)
  BY WantedStays
<1>2. \A n : Owes(S, u, n) = Owes(T, u, n)
  BY DEF Owes, Slot
<1>3. \A s : Owed(S, u, s)' = Owed(T, u, s)
  BY <1>1, <1>2 DEF Owed, Owes, Slot
<1>4. Steady(u)'
  BY DEF Steady, Same
<1>5. \A f : f.to = u => (Right(f)' <=> Right(f))
  BY <1>1 DEF Right, Same
<1>6. Fed(S, u)'
  BY <1>1, <1>3, <1>5 DEF Fed
<1>7. QED
  BY <1>4, <1>6

(* What has rung and what is going to, together, is as it was. *)
LEMMA RungStays ==
  ASSUME Same, NEW u, NEW T, Rung(T, u), Single(u)', rung \in [Devices -> Nat], rung' \in [Devices -> Nat],
         \A p \in pushing' : p.event = watched /\ p.to = u =>
           \E q \in pushing : q.event = watched /\ q.to = u /\ q.nth = p.nth,
         \A d \in Devices \ event'.moved : event.device[d] = u =>
           rung'[d] + Rings(u, 1)' + Rings(u, 2)' = rung[d] + Rings(u, 1) + Rings(u, 2)
  PROVE  Rung(T, u)'
<1>1. \A s : (Wanted(u, s)' <=> Wanted(u, s)) /\ Times(u, s)' = Times(u, s)
  BY WantedStays
<1>2. PICK o : o = Owed(T, u, "push") /\ o = Owed(T, u, "push")' /\ o \in Nat
  BY <1>1 DEF Owed, Owes, Slot
<1>3. \A n : Rings(u, n) \in Nat /\ Rings(u, n)' \in Nat
  BY DEF Rings
<1>4. ASSUME NEW d \in Devices \ event'.moved, event'.device[d] = u
      PROVE  rung'[d] + Owed(T, u, "push")' + Rings(u, 1)' + Rings(u, 2)' = Times(u, "push")'
  <2>1. d \notin event.moved /\ event.device[d] = u
    BY <1>4 DEF Same
  <2>2. rung[d] + Owed(T, u, "push") + Rings(u, 1) + Rings(u, 2) = Times(u, "push")
    BY <2>1 DEF Rung
  <2>3. rung'[d] + Rings(u, 1)' + Rings(u, 2)' = rung[d] + Rings(u, 1) + Rings(u, 2)
    BY <1>4, <2>1
  <2>4. rung'[d] \in Nat /\ rung[d] \in Nat
    OBVIOUS
  <2>5. QED
    BY <1>1, <1>2, <1>3, <2>2, <2>3, <2>4
<1>5. \A p \in pushing', f \in T : p.event = watched' /\ p.to = u /\ f.to = u => p.nth # f.nth
  BY DEF Rung, Same
<1>6. QED
  BY <1>4, <1>5 DEF Rung

(* One step of a push. *)
LEMMA AnnouncedPushed ==
  ASSUME Announced, UNCHANGED <<request, served, member, seat, said, prefs, notice, watched, gone>>,
         NEW ds \in SUBSET Devices, Touch({}, ds),
         pushing' \subseteq PushRows, \A p \in pushing' : p.at = "prune" => p.devices \subseteq gone,
         subscription' \in [Devices -> Users \cup {Null}], rung' \in [Devices -> Nat],
         \A d \in Devices \ gone : subscription'[d] = subscription[d],
         \A p \in pushing' : p.event = watched =>
           \E q \in pushing : q.event = watched /\ q.to = p.to /\ q.nth = p.nth,
         (\A p \in pushing : p.event # watched) => UNCHANGED rung,
         event # Null => \A u \in Users : Single(u) => Single(u)',
         event # Null => \A p \in pushing' : p.event = watched /\ p.at = "send" =>
           \A d \in Devices \ (event.moved \cup ds) : d \in p.devices <=> event.device[d] = p.to,
         event # Null => \A u \in Users \ event.changed, d \in Devices \ (event.moved \cup ds) : event.device[d] = u =>
           rung'[d] + Rings(u, 1)' + Rings(u, 2)' = rung[d] + Rings(u, 1) + Rings(u, 2)
  PROVE  Announced'
<1>1. /\ event' \in EventRows \cup {Null} /\ (event = Null => event' = Null)
      /\ event # Null => Same /\ event'.changed = event.changed /\ event'.moved = event.moved \cup ds
  <2>1. PICK us \in SUBSET Users : us = {}
    OBVIOUS
  <2>2. Touch(us, ds)
    BY <2>1
  <2>3. /\ event' \in EventRows \cup {Null} /\ (event = Null => event' = Null)
        /\ event # Null /\ UNCHANGED watched => Same
        /\ event # Null => event'.changed = event.changed \cup us /\ event'.moved = event.moved \cup ds
    BY <2>2, Touches DEF Announced, Hearing
  <2>4. QED
    BY <2>1, <2>3
<1>2. NewsKept
  BY DEF NewsKept
<1>3. served \in Nat /\ watched \in Nat /\ rung \in [Devices -> Nat]
  BY DEF Announced, Numbered, Hearing
<1>4. Numbered' /\ (Ahead' => Ahead)
  BY <1>2, <1>3, NumberedAside DEF Announced
<1>5. Hearing' /\ Seated'
  BY <1>1, SeatedStays DEF Announced, Hearing, Heard
<1>6. Ahead' => Untold'
  BY <1>1, <1>4 DEF Announced, Untold
<1>7. ASSUME event' # Null PROVE Just(ToTell)'
  <2>1. event # Null /\ Same /\ Just(ToTell) /\ event'.moved = event.moved \cup ds /\ event'.changed = event.changed
    BY <1>1, <1>7 DEF Announced
  <2>2. \A u : (Admitted(u)' <=> Admitted(u)) /\ (Listening(u)' <=> Listening(u))
    BY DEF Admitted, Listening
  <2>3. \A f : f \in ToTell' <=> f \in ToTell
    BY <1>2, <2>2, ToTellAside
  <2>4. PICK T : T = ToTell /\ T = ToTell'
    <3>1. PICK S, T : S = ToTell' /\ T = ToTell
      OBVIOUS
    <3>2. \A f : f \in S <=> f \in T
      BY <2>3, <3>1
    <3>3. S = T
      BY <3>2
    <3>4. QED
      BY <3>1, <3>3
  <2>5. Connected'
    <3>1. gone' \subseteq event'.moved /\ gone \subseteq event.moved
      BY <2>1 DEF Just, Connected
    <3>2. \A d \in Devices \ event'.moved : subscription'[d] = event'.device[d] /\ event'.device[d] = event.device[d]
      BY <2>1, <3>1 DEF Just, Connected, Same
    <3>3. \A p \in pushing' : p.event = watched /\ p.at = "send" =>
            \A d \in Devices \ event'.moved : d \in p.devices <=> event'.device[d] = p.to
      BY <2>1, <3>2
    <3>4. QED
      BY <3>1, <3>2, <3>3 DEF Connected
  <2>6. ASSUME NEW u \in Users \ event.changed PROVE Steady(u)' /\ Fed(T, u)' /\ Rung(T, u)'
    <3>1. Steady(u) /\ Fed(T, u) /\ Rung(T, u) /\ Single(u)
      BY <2>1, <2>4 DEF Just, Rung
    <3>2. Steady(u)' /\ Fed(T, u)'
      BY <2>1, <2>2, <3>1, FedStays
    <3>3. Single(u)'
      BY <2>1, <3>1
    <3>4. \A d \in Devices \ event'.moved : event.device[d] = u =>
            rung'[d] + Rings(u, 1)' + Rings(u, 2)' = rung[d] + Rings(u, 1) + Rings(u, 2)
      BY <2>1
    <3>5. \A p \in pushing' : p.event = watched /\ p.to = u =>
            \E q \in pushing : q.event = watched /\ q.to = u /\ q.nth = p.nth
      OBVIOUS
    <3>6. Rung(T, u)'
      BY <1>3, <2>1, <3>1, <3>3, <3>4, <3>5, RungStays
    <3>7. QED
      BY <3>2, <3>6
  <2>7. Just(T)'
    BY <2>1, <2>5, <2>6 DEF Just
  <2>8. QED
    BY <2>4, <2>7
<1>8. QED
  BY <1>4, <1>5, <1>6, <1>7 DEF Announced

(* A push goes on as another, or ends. *)
LEMMA PushTyped ==
  ASSUME NEW p \in PushRows
  PROVE  /\ p = [at |-> p.at, event |-> p.event, to |-> p.to, nth |-> p.nth, devices |-> p.devices]
         /\ p.event \in Nat /\ p.to \in Users /\ p.nth \in 1..2 /\ p.devices \in SUBSET Devices
         /\ p.at \in {"read", "send", "prune"}
BY DEF PushRows

LEMMA SingleGoes ==
  ASSUME NEW u, Single(u), UNCHANGED watched, NEW p \in pushing, NEW Q, pushing' = (pushing \ {p}) \cup Q,
         \A q \in Q : q.event = p.event /\ q.to = p.to /\ q.nth = p.nth,
         \A q, r \in Q : q = r
  PROVE  Single(u)'
BY DEF Single

LEMMA RingsGo ==
  ASSUME NEW u, Single(u), UNCHANGED watched, NEW p \in pushing, p.event = watched, p.at \in {"read", "send"},
         NEW Q, pushing' = (pushing \ {p}) \cup Q,
         \A q \in Q : q.event = p.event /\ q.to = p.to /\ q.nth = p.nth, NEW n
  PROVE  /\ ~Slot(p, u, n) => Rings(u, n)' = Rings(u, n)
         /\ Slot(p, u, n) => Rings(u, n) = 1 /\ Rings(u, n)' = IF \E q \in Q : q.at \in {"read", "send"} THEN 1 ELSE 0
BY DEF Single, Rings, Slot

LEMMA RingsKept ==
  ASSUME NEW u, UNCHANGED watched, NEW p \in pushing, NEW Q, pushing' = (pushing \ {p}) \cup Q, NEW n,
         \A q \in Q : q.event = p.event /\ q.to = p.to /\ q.nth = p.nth,
         p.event # watched \/ (p.at = "prune" /\ Q = {})
  PROVE  Rings(u, n)' = Rings(u, n)
BY DEF Rings, Slot

LEMMA AnnouncedPushRead ==
  ASSUME Announced, NEW p \in pushing, PushRead(p),
         UNCHANGED <<request, served, member, seat, said, prefs, subscription, watched, gone>>
  PROVE  Announced'
<1>1. PICK subs \in SUBSET Devices : subs = {d \in Devices : subscription[d] = p.to}
  OBVIOUS
<1>2. PICK Q : Q = IF subs = {} THEN {} ELSE {[p EXCEPT !.at = "send", !.devices = subs]}
  OBVIOUS
<1>3. p.at = "read" /\ pushing' = (pushing \ {p}) \cup Q /\ UNCHANGED <<notice, rung, event>>
  BY <1>1, <1>2 DEF PushRead
<1>4. p \in PushRows
  BY DEF Announced, Hearing
<1>5. \A q \in Q : /\ q \in PushRows /\ q.event = p.event /\ q.to = p.to /\ q.nth = p.nth
                   /\ q.at = "send" /\ q.devices = subs
  <2>1. PICK r : r = [p EXCEPT !.at = "send", !.devices = subs]
    OBVIOUS
  <2>2. p = [at |-> p.at, event |-> p.event, to |-> p.to, nth |-> p.nth, devices |-> p.devices]
    BY <1>4, PushTyped
  <2>3. r = [at |-> "send", event |-> p.event, to |-> p.to, nth |-> p.nth, devices |-> subs]
    BY <2>1, <2>2
  <2>4. r \in PushRows
    BY <1>4, <2>3, PushTyped DEF PushRows
  <2>5. QED
    BY <1>2, <2>1, <2>3, <2>4
<1>6. \A q, r \in Q : q = r
  BY <1>2
<1>7. PICK ds : ds = {}
  OBVIOUS
<1>8. Touch({}, ds) /\ ds \in SUBSET Devices
  BY <1>3, <1>7, TouchesNothing DEF Announced, Hearing
<1>9. /\ pushing' \subseteq PushRows /\ \A q \in pushing' : q.at = "prune" => q.devices \subseteq gone
      /\ subscription' \in [Devices -> Users \cup {Null}] /\ rung' \in [Devices -> Nat]
  BY <1>3, <1>5 DEF Announced, Hearing
<1>10. \A q \in pushing' : q.event = watched =>
          \E r \in pushing : r.event = watched /\ r.to = q.to /\ r.nth = q.nth
  BY <1>3, <1>5
<1>11. \A u : Single(u) => Single(u)'
  BY <1>3, <1>5, <1>6, SingleGoes
<1>12. ASSUME event # Null
       PROVE  /\ \A q \in pushing' : q.event = watched /\ q.at = "send" =>
                   \A d \in Devices \ (event.moved \cup ds) : d \in q.devices <=> event.device[d] = q.to
              /\ \A u \in Users \ event.changed, d \in Devices \ (event.moved \cup ds) : event.device[d] = u =>
                   rung'[d] + Rings(u, 1)' + Rings(u, 2)' = rung[d] + Rings(u, 1) + Rings(u, 2)
  <2>1. Just(ToTell)
    BY <1>12 DEF Announced
  <2>2. \A d \in Devices \ event.moved : subscription[d] = event.device[d]
    BY <2>1 DEF Just, Connected
  <2>3. \A q \in Q : \A d \in Devices \ event.moved : d \in q.devices <=> event.device[d] = q.to
    BY <1>1, <1>5, <2>2
  <2>4. \A q \in pushing : q.event = watched /\ q.at = "send" =>
          \A d \in Devices \ event.moved : d \in q.devices <=> event.device[d] = q.to
    BY <2>1 DEF Just, Connected
  <2>5. ASSUME NEW u \in Users \ event.changed, NEW d \in Devices \ event.moved, event.device[d] = u, NEW n
        PROVE  Rings(u, n)' = Rings(u, n)
    <3>1. CASE p.event # watched
      BY <1>3, <1>5, <3>1, RingsKept
    <3>2. CASE p.event = watched
      <4>1. Single(u)
        BY <2>1 DEF Just, Rung
      <4>2. /\ ~Slot(p, u, n) => Rings(u, n)' = Rings(u, n)
            /\ Slot(p, u, n) => Rings(u, n) = 1 /\ Rings(u, n)' = IF \E q \in Q : q.at \in {"read", "send"} THEN 1 ELSE 0
        <5>1. p.at \in {"read", "send"} /\ UNCHANGED watched
          BY <1>3
        <5>2. \A q \in Q : q.event = p.event /\ q.to = p.to /\ q.nth = p.nth
          BY <1>5
        <5>3. pushing' = (pushing \ {p}) \cup Q
          BY <1>3
        <5>4. QED
          BY <3>2, <4>1, <5>1, <5>2, <5>3, RingsGo
      <4>3. Slot(p, u, n) => Q # {}
        BY <1>1, <1>2, <2>2, <2>5 DEF Slot
      <4>4. QED
        BY <1>5, <4>2, <4>3
    <3>3. QED
      BY <3>1, <3>2
  <2>6. \A q \in pushing' : q.event = watched /\ q.at = "send" =>
          \A d \in Devices \ (event.moved \cup ds) : d \in q.devices <=> event.device[d] = q.to
    BY <1>3, <1>7, <2>3, <2>4
  <2>7. QED
    BY <1>3, <1>7, <2>5, <2>6
<1>13. QED
  BY <1>3, <1>8, <1>9, <1>10, <1>11, <1>12, AnnouncedPushed

LEMMA AnnouncedPushSend ==
  ASSUME Announced, NEW p \in pushing, PushSend(p),
         UNCHANGED <<request, served, member, seat, said, prefs, subscription, watched, gone>>
  PROVE  Announced'
<1>1. PICK failed \in SUBSET (p.devices \ gone) :
        /\ rung' = [d \in Devices |-> IF p.event = watched /\ d \in p.devices \ (gone \cup failed)
                                        THEN rung[d] + 1 ELSE rung[d]]
        /\ Touch({}, IF p.event = watched THEN failed ELSE {})
  BY DEF PushSend
<1>2. PICK Q : Q = IF p.devices \cap gone = {} THEN {} ELSE {[p EXCEPT !.at = "prune", !.devices = @ \cap gone]}
  OBVIOUS
<1>3. p.at = "send" /\ pushing' = (pushing \ {p}) \cup Q /\ UNCHANGED notice
  BY <1>2 DEF PushSend
<1>4. p \in PushRows /\ gone \subseteq Devices
  BY DEF Announced, Hearing
<1>5. \A q \in Q : /\ q \in PushRows /\ q.event = p.event /\ q.to = p.to /\ q.nth = p.nth
                   /\ q.at = "prune" /\ q.devices \subseteq gone
  <2>1. PICK r : r = [p EXCEPT !.at = "prune", !.devices = @ \cap gone]
    OBVIOUS
  <2>2. p = [at |-> p.at, event |-> p.event, to |-> p.to, nth |-> p.nth, devices |-> p.devices]
    BY <1>4, PushTyped
  <2>3. r = [at |-> "prune", event |-> p.event, to |-> p.to, nth |-> p.nth, devices |-> p.devices \cap gone]
    BY <2>1, <2>2
  <2>4. r \in PushRows
    BY <1>4, <2>3, PushTyped DEF PushRows
  <2>5. QED
    BY <1>2, <2>1, <2>3, <2>4
<1>6. \A q, r \in Q : q = r
  BY <1>2
<1>7. PICK ds : ds = IF p.event = watched THEN failed ELSE {}
  OBVIOUS
<1>8. Touch({}, ds) /\ ds \in SUBSET Devices
  BY <1>1, <1>4, <1>7, PushTyped
<1>9. /\ pushing' \subseteq PushRows /\ \A q \in pushing' : q.at = "prune" => q.devices \subseteq gone
      /\ subscription' \in [Devices -> Users \cup {Null}]
  BY <1>3, <1>5 DEF Announced, Hearing
<1>10. rung' \in [Devices -> Nat]
  BY <1>1 DEF Announced, Hearing
<1>11. \A q \in pushing' : q.event = watched =>
          \E r \in pushing : r.event = watched /\ r.to = q.to /\ r.nth = q.nth
  BY <1>3, <1>5
<1>12. \A u : Single(u) => Single(u)'
  BY <1>3, <1>5, <1>6, SingleGoes
<1>13. (\A q \in pushing : q.event # watched) => UNCHANGED rung
  BY <1>1 DEF Announced, Hearing
<1>14. ASSUME event # Null
       PROVE  /\ \A q \in pushing' : q.event = watched /\ q.at = "send" =>
                   \A d \in Devices \ (event.moved \cup ds) : d \in q.devices <=> event.device[d] = q.to
              /\ \A u \in Users \ event.changed, d \in Devices \ (event.moved \cup ds) : event.device[d] = u =>
                   rung'[d] + Rings(u, 1)' + Rings(u, 2)' = rung[d] + Rings(u, 1) + Rings(u, 2)
  <2>1. Just(ToTell)
    BY <1>14 DEF Announced
  <2>2. \A q \in pushing : q.event = watched /\ q.at = "send" =>
          \A d \in Devices \ event.moved : d \in q.devices <=> event.device[d] = q.to
    BY <2>1 DEF Just, Connected
  <2>3. gone \subseteq event.moved
    BY <2>1 DEF Just, Connected
  <2>4. ASSUME NEW u \in Users \ event.changed, NEW d \in Devices \ (event.moved \cup ds), event.device[d] = u
        PROVE  rung'[d] + Rings(u, 1)' + Rings(u, 2)' = rung[d] + Rings(u, 1) + Rings(u, 2)
    <3>1. rung[d] \in Nat
      BY DEF Announced, Hearing
    <3>2. \A n : Rings(u, n) \in Nat /\ Rings(u, n)' \in Nat
      BY DEF Rings
    <3>3. CASE p.event # watched
      <4>1. \A n : Rings(u, n)' = Rings(u, n)
        BY <1>3, <1>5, <3>3, RingsKept
      <4>2. rung'[d] = rung[d]
        BY <1>1, <3>3
      <4>3. QED
        BY <4>1, <4>2
    <3>4. CASE p.event = watched
      <4>1. Single(u)
        BY <2>1 DEF Just, Rung
      <4>2. \A n : /\ ~Slot(p, u, n) => Rings(u, n)' = Rings(u, n)
                   /\ Slot(p, u, n) =>
                        Rings(u, n) = 1 /\ Rings(u, n)' = IF \E q \in Q : q.at \in {"read", "send"} THEN 1 ELSE 0
        <5>1. p.at \in {"read", "send"} /\ UNCHANGED watched
          BY <1>3
        <5>2. \A q \in Q : q.event = p.event /\ q.to = p.to /\ q.nth = p.nth
          BY <1>5
        <5>3. pushing' = (pushing \ {p}) \cup Q
          BY <1>3
        <5>4. QED
          BY <3>4, <4>1, <5>1, <5>2, <5>3, RingsGo
      <4>3. \A n : Slot(p, u, n) => Rings(u, n) = 1 /\ Rings(u, n)' = 0
        BY <1>5, <4>2
      <4>4. d \in p.devices <=> u = p.to
        BY <1>3, <2>2, <2>4, <3>4
      <4>5. d \notin gone /\ d \notin failed
        BY <1>7, <2>3, <2>4, <3>4
      <4>6. rung'[d] = IF u = p.to THEN rung[d] + 1 ELSE rung[d]
        BY <1>1, <3>4, <4>4, <4>5
      <4>7. CASE u # p.to
        BY <4>2, <4>6, <4>7 DEF Slot
      <4>8. CASE u = p.to
        <5>1. p.nth = 1 \/ p.nth = 2
          BY <1>4, PushTyped
        <5>2. Slot(p, u, 1) <=> p.nth = 1
          BY <4>8 DEF Slot
        <5>3. Slot(p, u, 2) <=> p.nth = 2
          BY <4>8 DEF Slot
        <5>4. Rings(u, 1) + Rings(u, 2) = Rings(u, 1)' + Rings(u, 2)' + 1
          BY <3>2, <4>2, <4>3, <5>1, <5>2, <5>3
        <5>5. QED
          BY <3>1, <3>2, <4>6, <4>8, <5>4
      <4>9. QED
        BY <4>7, <4>8
    <3>5. QED
      BY <3>3, <3>4
  <2>5. \A q \in pushing' : q.event = watched /\ q.at = "send" =>
          \A d \in Devices \ (event.moved \cup ds) : d \in q.devices <=> event.device[d] = q.to
    BY <1>3, <1>5, <2>2
  <2>6. QED
    BY <2>4, <2>5
<1>15. QED
  BY <1>3, <1>8, <1>9, <1>10, <1>11, <1>12, <1>13, <1>14, AnnouncedPushed

LEMMA AnnouncedPushPrune ==
  ASSUME Announced, NEW p \in pushing, PushPrune(p),
         UNCHANGED <<request, served, member, seat, said, prefs, watched, gone>>
  PROVE  Announced'
<1>1. PICK Q : Q = {}
  OBVIOUS
<1>2. p.at = "prune" /\ pushing' = (pushing \ {p}) \cup Q /\ UNCHANGED <<notice, rung, event>>
  BY <1>1 DEF PushPrune
<1>3. subscription' = [d \in Devices |-> IF d \in p.devices THEN Null ELSE subscription[d]]
  BY DEF PushPrune
<1>4. p.devices \subseteq gone
  BY <1>2 DEF Announced, Hearing
<1>5. PICK ds : ds = {}
  OBVIOUS
<1>6. Touch({}, ds) /\ ds \in SUBSET Devices
  BY <1>2, <1>5, TouchesNothing DEF Announced, Hearing
<1>7. /\ pushing' \subseteq PushRows /\ \A q \in pushing' : q.at = "prune" => q.devices \subseteq gone
      /\ subscription' \in [Devices -> Users \cup {Null}] /\ rung' \in [Devices -> Nat]
  BY <1>1, <1>2, <1>3 DEF Announced, Hearing
<1>8. \A d \in Devices \ gone : subscription'[d] = subscription[d]
  BY <1>3, <1>4
<1>9. \A q \in pushing' : q.event = watched =>
         \E r \in pushing : r.event = watched /\ r.to = q.to /\ r.nth = q.nth
  BY <1>1, <1>2
<1>10. \A u : Single(u) => Single(u)'
  BY <1>1, <1>2 DEF Single
<1>11. \A u, n : Rings(u, n)' = Rings(u, n)
  <2>1. SUFFICES ASSUME NEW u, NEW n PROVE Rings(u, n)' = Rings(u, n)
    OBVIOUS
  <2>2. \A q \in Q : q.event = p.event /\ q.to = p.to /\ q.nth = p.nth
    BY <1>1
  <2>3. /\ UNCHANGED watched /\ pushing' = (pushing \ {p}) \cup Q
        /\ p.event # watched \/ (p.at = "prune" /\ Q = {})
    BY <1>1, <1>2
  <2>4. QED
    BY <2>2, <2>3, RingsKept, SMTT(30)
<1>12. event # Null => \A q \in pushing' : q.event = watched /\ q.at = "send" =>
          \A d \in Devices \ (event.moved \cup ds) : d \in q.devices <=> event.device[d] = q.to
  BY <1>1, <1>2 DEF Announced, Just, Connected
<1>13. \A u, d : rung'[d] + Rings(u, 1)' + Rings(u, 2)' = rung[d] + Rings(u, 1) + Rings(u, 2)
  BY <1>2, <1>11
<1>14. QED
  BY <1>2, <1>6, <1>7, <1>8, <1>9, <1>10, <1>12, <1>13, AnnouncedPushed

LEMMA AnnouncedPush ==
  ASSUME Announced, Pushing, UNCHANGED <<member, seat, said>>
  PROVE  Announced'
<1>1. ASSUME NEW d \in Devices, Forget(d) PROVE Announced'
  BY <1>1, AnnouncedForget
<1>2. ASSUME NEW p \in pushing, PushPrune(p) \/ ((PushRead(p) \/ PushSend(p)) /\ UNCHANGED subscription),
             UNCHANGED <<request, served, prefs, gone, watched>>
      PROVE  Announced'
  BY <1>2, AnnouncedPushPrune, AnnouncedPushRead, AnnouncedPushSend
<1>3. QED
  BY <1>1, <1>2 DEF Pushing, Pushes

----------------------------------------------------------------------------
(* The dispatch.  Of the watched event one request tells at a time. *)
LEMMA ToTellOnly ==
  ASSUME NEW h \in Handlers, \A g \in Handlers \ {h} : ~About(request[g]),
         NEW S, IF About(request[h]) THEN Coming(request[h]) = S ELSE S = {}
  PROVE  ToTell = S
<1>1. \A f : f \in ToTell <=> f \in S
  BY DEF ToTell
<1>2. QED
  BY <1>1

LEMMA ToTellOnlyNext ==
  ASSUME NEW h \in Handlers, \A g \in Handlers \ {h} : ~About(request[g])',
         NEW S, IF About(request[h])' THEN Coming(request[h])' = S ELSE S = {}
  PROVE  ToTell' = S
<1>1. PICK R : R = ToTell'
  OBVIOUS
<1>2. \A f : f \in R <=> \E g \in Handlers : About(request[g])' /\ f \in Coming(request[g])'
  BY <1>1 DEF ToTell
<1>3. \A f : f \in R <=> f \in S
  BY <1>2
<1>4. R = S
  BY <1>3
<1>5. QED
  BY <1>1, <1>4

Sending(e) ==
  pushing \subseteq pushing' /\ \A p \in pushing' \ pushing : p \in PushRows /\ p.event = e /\ p.at = "read"

(* What the telling of one member does. *)
LEMMA AnnouncedTold ==
  ASSUME Announced, NEW h \in Handlers, NEW q, q = request[h], Eventful(q), ~Early(q), NEW e, e = q.on.event,
         Others(h), UNCHANGED <<served, member, seat, said, prefs, subscription, gone, rung, watched>>,
         NEW S, \/ request'[h] = Null /\ S = {}
                \/ \E r : request'[h] = r /\ Tells(r, e) /\ Coming(r)' = S,
         notice' \in [Users -> Nat], Sending(e), NEW ds \in SUBSET Devices, Touch({}, ds), e # watched => UNCHANGED <<notice, event>>,
         event # Null /\ e = watched => Just(S)'
  PROVE  Announced'
<1>1. /\ event' \in EventRows \cup {Null} /\ (event = Null => event' = Null)
      /\ event # Null => Same /\ event'.changed = event.changed /\ event'.moved = event.moved \cup ds
  <2>1. PICK us \in SUBSET Users : us = {}
    OBVIOUS
  <2>2. Touch(us, ds)
    BY <2>1
  <2>3. /\ event' \in EventRows \cup {Null} /\ (event = Null => event' = Null)
        /\ event # Null /\ UNCHANGED watched => Same
        /\ event # Null => event'.changed = event.changed \cup us /\ event'.moved = event.moved \cup ds
    BY <2>2, Touches DEF Announced, Hearing
  <2>4. QED
    BY <2>1, <2>3
<1>2. PICK r : /\ request'[h] = r /\ (r # Null => Heard(r))
               /\ Eventful(r) => ~Early(r) /\ r.on.event = e /\ Coming(r)' = S
               /\ ~Eventful(r) => S = {}
  BY DEF Tells, Eventful
<1>3. Numbered'
  BY <1>2, NumberedByOne DEF Announced
<1>4. Ahead' => Ahead
  BY <1>2, AheadByOne DEF Announced, Numbered, Hearing, About
<1>5. Hearing' /\ Seated'
  <2>1. \A g \in Handlers : request'[g] # Null => Heard(request'[g])
    BY <1>2 DEF Announced, Hearing, Others
  <2>2. \A p \in pushing' : p \in PushRows /\ (p.at = "prune" => p.devices \subseteq gone)
    BY DEF Announced, Hearing, Sending
  <2>3. QED
    BY <1>1, <2>1, <2>2, SeatedStays DEF Announced, Hearing, Heard
<1>6. CASE e = watched
  <2>1. About(q) /\ \A g \in Handlers \ {h} : ~About(request[g])
    BY <1>6 DEF About, Announced, Numbered
  <2>2. \A g \in Handlers \ {h} : ~About(request[g])'
    BY <2>1 DEF Others, About, Eventful
  <2>3. ~Ahead
    BY <1>6, <2>1 DEF Ahead, Announced, Numbered, About
  <2>4. About(request[h])' <=> Eventful(r)
    BY <1>2, <1>6 DEF About, Eventful
  <2>5. IF About(request[h])' THEN Coming(request[h])' = S ELSE S = {}
    <3>1. Coming(request[h])' = Coming(r)'
      BY <1>2
    <3>2. QED
      BY <1>2, <2>4, <3>1
  <2>6. ToTell' = S
    BY <2>2, <2>5, ToTellOnlyNext
  <2>7. event' # Null => Just(ToTell)'
    BY <1>1, <1>6, <2>6
  <2>8. QED
    BY <1>3, <1>4, <1>5, <2>3, <2>7 DEF Announced
<1>7. CASE e # watched
  <2>1. ~About(q) /\ ~About(r)
    BY <1>2, <1>7 DEF About
  <2>2. \A u : (Admitted(u)' <=> Admitted(u)) /\ (Listening(u)' <=> Listening(u))
    BY DEF Admitted, Listening
  <2>3. About(request[h])' <=> About(r)
    BY <1>2 DEF About, Eventful
  <2>4. \A f : f \in ToTell' <=> f \in ToTell
    BY <2>1, <2>2, <2>3, ToTellByOne
  <2>5. SamePushes
    BY <1>7 DEF SamePushes, Sending
  <2>6. Ahead' => Untold'
    BY <1>1, <1>4, <1>7 DEF Announced, Untold, Sending
  <2>7. ASSUME event' # Null PROVE Just(ToTell)'
    <3>1. event # Null /\ Same /\ Just(ToTell) /\ event'.moved = event.moved \cup ds
      BY <1>1, <2>7 DEF Announced
    <3>2. PICK R : R = ToTell'
      OBVIOUS
    <3>3. \A u \in Users \ event'.changed : \A f : f.to = u => (f \in R <=> f \in ToTell)
      BY <2>4, <3>2
    <3>4. gone' \subseteq event'.moved
      BY <3>1 DEF Just, Connected
    <3>5. \A u \in Users \ event'.changed :
            prefs'[u] = prefs[u] /\ (Admitted(u)' <=> Admitted(u)) /\ notice'[u] = notice[u]
      BY <1>7, <2>2
    <3>6. Just(R)'
      BY <2>5, <3>1, <3>3, <3>4, <3>5, JustStays
    <3>7. QED
      BY <3>2, <3>6
  <2>8. QED
    BY <1>3, <1>4, <1>5, <2>6, <2>7 DEF Announced
<1>8. QED
  BY <1>6, <1>7

(* One is taken off the list. *)
LEMMA Removed ==
  ASSUME NEW T, NEW r \in T, NEW S, S = T \ {r},
         \A f, g \in T : f.to = r.to /\ g.to = r.to /\ f.nth = g.nth => f = g, NEW n
  PROVE  /\ n = r.nth => Owes(T, r.to, n) = 1 /\ Owes(S, r.to, n) = 0
         /\ n # r.nth => Owes(S, r.to, n) = Owes(T, r.to, n)
BY DEF Owes, Slot

LEMMA RemovedOnce ==
  ASSUME NEW T, NEW r \in T, r.nth \in 1..2, NEW S, S = T \ {r},
         \A f, g \in T : f.to = r.to /\ g.to = r.to /\ f.nth = g.nth => f = g
  PROVE  Owes(T, r.to, 1) + Owes(T, r.to, 2) = Owes(S, r.to, 1) + Owes(S, r.to, 2) + 1
<1>1. \A n : Owes(T, r.to, n) \in Nat /\ Owes(S, r.to, n) \in Nat
  BY DEF Owes
<1>2. \A n : /\ n = r.nth => Owes(T, r.to, n) = 1 /\ Owes(S, r.to, n) = 0
             /\ n # r.nth => Owes(S, r.to, n) = Owes(T, r.to, n)
  BY Removed
<1>3. CASE r.nth = 1
  <2>1. Owes(T, r.to, 1) = 1 /\ Owes(S, r.to, 1) = 0 /\ Owes(S, r.to, 2) = Owes(T, r.to, 2)
    BY <1>2, <1>3
  <2>2. QED
    BY <1>1, <2>1
<1>4. CASE r.nth = 2
  <2>1. Owes(T, r.to, 2) = 1 /\ Owes(S, r.to, 2) = 0 /\ Owes(S, r.to, 1) = Owes(T, r.to, 1)
    BY <1>2, <1>4
  <2>2. QED
    BY <1>1, <2>1
<1>5. QED
  BY <1>3, <1>4

(* Who is told by r wants it by that channel, or does not. *)
LEMMA WantedMeans ==
  ASSUME event # Null, NEW r \in RecipientRows, r.channel = event.channel[r.to], NEW p, p = event.prefs[r.to],
         NEW s \in {"push", "inApp"}
  PROVE  Wanted(r.to, s) <=>
           /\ r.to \in event.active /\ p.channels[r.channel]
           /\ IF s = "push" THEN p.push ELSE p.inApp
<1>1. r.channel \in Channels /\ r.channel # Null /\ r.channel \notin {"push", "inApp"}
  BY NullIsNoNotice DEF RecipientRows, Channels
<1>2. QED
  BY <1>1 DEF Wanted, Says

(* Everybody but w is told as before. *)
LEMMA JustExcept ==
  ASSUME NEW T, NEW S, Just(T), Same, event'.changed = event.changed, rung \in [Devices -> Nat],
         UNCHANGED <<member, prefs, subscription, gone, rung, watched>>,
         NEW w, \A u \in Users \ {w} : notice'[u] = notice[u],
         \A f : f.to # w => (f \in S <=> f \in T),
         pushing \subseteq pushing', \A p \in pushing' \ pushing : p.at = "read" /\ p.to = w,
         w \in Users \ event.changed => Fed(S, w)' /\ Rung(S, w)'
  PROVE  Just(S)'
<1>1. Connected'
  BY DEF Just, Connected, Same
<1>2. ASSUME NEW u \in Users \ event'.changed PROVE Steady(u)' /\ Fed(S, u)' /\ Rung(S, u)'
  <2>1. Steady(u) /\ Fed(T, u) /\ Rung(T, u)
    BY <1>2 DEF Just
  <2>2. Steady(u)'
    BY <2>1 DEF Steady, Admitted, Same
  <2>3. CASE u = w
    BY <1>2, <2>2, <2>3
  <2>4. CASE u # w
    <3>1. Admitted(u)' <=> Admitted(u)
      BY DEF Admitted
    <3>2. \A f : f.to = u => (f \in S <=> f \in T)
      BY <2>4
    <3>3. notice'[u] = notice[u]
      BY <1>2, <2>4
    <3>4. Fed(S, u)'
      BY <2>1, <3>1, <3>2, <3>3, FedStays
    <3>5. \A p : p.to = u => (p \in pushing' <=> p \in pushing)
      BY <2>4
    <3>6. Single(u)'
      BY <2>1, <3>5 DEF Rung, Single
    <3>7. \A n : Rings(u, n)' = Rings(u, n)
      BY <3>5 DEF Rings, Slot
    <3>8. \A p \in pushing' : p.event = watched /\ p.to = u =>
            \E q \in pushing : q.event = watched /\ q.to = u /\ q.nth = p.nth
      BY <3>5
    <3>9. \A d \in Devices \ event'.moved : event.device[d] = u =>
            rung'[d] + Rings(u, 1)' + Rings(u, 2)' = rung[d] + Rings(u, 1) + Rings(u, 2)
      BY <3>7
    <3>10. Rung(T, u)'
      BY <2>1, <3>6, <3>8, <3>9, RungStays
    <3>11. \A n : Owes(S, u, n) = Owes(T, u, n)
      BY <3>2 DEF Owes, Slot
    <3>12. Owed(S, u, "push")' = Owed(T, u, "push")'
      BY <3>11 DEF Owed, Owes, Slot
    <3>13. Rung(S, u)'
      BY <3>2, <3>10, <3>12 DEF Rung
    <3>14. QED
      BY <2>2, <3>4, <3>13
  <2>5. QED
    BY <2>3, <2>4
<1>3. QED
  BY <1>1, <1>2 DEF Just

(* The feed: who does not want a row gets none, and who does gets it once it is written. *)
LEMMA FedGone ==
  ASSUME Same, NEW T, NEW r \in T, r.nth \in 1..2, NEW S, S = T \ {r}, Fed(T, r.to),
         notice \in [Users -> Nat], r.to \in Users,
         notice'[r.to] = IF Wanted(r.to, "inApp") THEN notice[r.to] + 1 ELSE notice[r.to]
  PROVE  Fed(S, r.to)'
<1>1. PICK w : w = r.to
  OBVIOUS
<1>2. \A s : (Wanted(w, s)' <=> Wanted(w, s)) /\ Times(w, s)' = Times(w, s)
  BY WantedStays
<1>3. \A f, g \in T : f.to = r.to /\ g.to = r.to /\ f.nth = g.nth => f = g
  BY DEF Fed
<1>4. Owes(T, w, 1) + Owes(T, w, 2) = Owes(S, w, 1) + Owes(S, w, 2) + 1
  <2>1. Owes(T, r.to, 1) + Owes(T, r.to, 2) = Owes(S, r.to, 1) + Owes(S, r.to, 2) + 1
    BY <1>3, RemovedOnce
  <2>2. QED
    BY <1>1, <2>1
<1>5. PICK a, b : a = Owes(S, w, 1) /\ b = Owes(S, w, 2) /\ a \in Nat /\ b \in Nat /\ Owes(S, w, 1)' = a /\ Owes(S, w, 2)' = b
  BY DEF Owes, Slot
<1>6. notice'[w] + Owed(S, w, "inApp")' = Times(w, "inApp")'
  <2>1. notice[w] + Owed(T, w, "inApp") = Times(w, "inApp") /\ notice[w] \in Nat
    BY <1>1 DEF Fed
  <2>2. CASE Wanted(w, "inApp")
    <3>1. Owed(T, w, "inApp") = a + b + 1
      BY <1>4, <1>5, <2>2 DEF Owed
    <3>2. Owed(S, w, "inApp")' = a + b
      BY <1>2, <1>5, <2>2 DEF Owed
    <3>3. QED
      BY <1>1, <1>2, <1>5, <2>1, <2>2, <3>1, <3>2
  <2>3. CASE ~Wanted(w, "inApp")
    BY <1>1, <1>2, <2>1, <2>3 DEF Owed
  <2>4. QED
    BY <2>2, <2>3
<1>7. \A f \in S : f.to = w => Right(f)'
  <2>1. \A f \in T : f.to = w => Right(f)
    BY <1>1 DEF Fed
  <2>2. QED
    BY <1>2, <2>1 DEF Right, Same
<1>8. QED
  BY <1>1, <1>3, <1>6, <1>7 DEF Fed

(* The settings that say so are kept until the row is written. *)
LEMMA OwesSeen ==
  ASSUME NEW T, NEW r \in T, NEW z, z.to = r.to, z.nth = r.nth, NEW S, S = (T \ {r}) \cup {z}, NEW u, NEW n
  PROVE  Owes(S, u, n) = Owes(T, u, n)
BY DEF Owes, Slot

LEMMA ToldSeen ==
  ASSUME Same, NEW T, NEW r \in T, NEW z, z.to = r.to, z.nth = r.nth, z.channel = r.channel,
         NEW S, S = (T \ {r}) \cup {z},
         Fed(T, r.to), Rung(T, r.to), z.seen = event.prefs[r.to], Wanted(r.to, "inApp"),
         UNCHANGED <<notice, pushing, rung>>
  PROVE  Fed(S, r.to)' /\ Rung(S, r.to)'
<1>1. PICK w : w = r.to
  OBVIOUS
<1>2. \A s : (Wanted(w, s)' <=> Wanted(w, s)) /\ Times(w, s)' = Times(w, s)
  BY WantedStays
<1>3. \A n : Owes(S, w, n) = Owes(T, w, n)
  BY OwesSeen
<1>4. \A s : Owed(S, w, s)' = Owed(T, w, s)
  BY <1>2, <1>3 DEF Owed, Owes, Slot
<1>5. \A n : Rings(w, n)' = Rings(w, n)
  BY DEF Rings, Slot, Same
<1>6. Fed(S, w)'
  <2>1. \A f \in T : f.to = w => Right(f)
    BY <1>1 DEF Fed
  <2>2. Right(z)
    BY <1>1, <2>1 DEF Right
  <2>3. \A f \in S : f.to = w => Right(f)'
    BY <1>2, <2>1, <2>2 DEF Right, Same
  <2>4. \A f, g \in S : f.to = w /\ g.to = w /\ f.nth = g.nth => f = g
    BY <1>1 DEF Fed
  <2>5. notice'[w] + Owed(S, w, "inApp")' = Times(w, "inApp")'
    BY <1>1, <1>2, <1>4 DEF Fed
  <2>6. QED
    BY <2>3, <2>4, <2>5 DEF Fed
<1>7. Rung(S, w)'
  <2>1. \A p \in pushing', f \in S : p.event = watched' /\ p.to = w /\ f.to = w => p.nth # f.nth
    BY <1>1 DEF Rung, Same
  <2>2. Single(w)'
    BY <1>1 DEF Rung, Single, Same
  <2>3. \A d \in Devices \ event'.moved : event'.device[d] = w =>
          rung'[d] + Owed(S, w, "push")' + Rings(w, 1)' + Rings(w, 2)' = Times(w, "push")'
    BY <1>1, <1>2, <1>4, <1>5 DEF Rung, Same
  <2>4. QED
    BY <2>1, <2>2, <2>3 DEF Rung
<1>8. QED
  BY <1>1, <1>6, <1>7

(* The devices: who wants it is told by a push that is going to be sent. *)
LEMMA RungApart ==
  ASSUME Same, NEW T, NEW r \in T, NEW S, S = T \ {r}, Fed(T, r.to), Rung(T, r.to),
         NEW p, NEW Q, Q \subseteq {p}, p \in Q => p.event = watched /\ Slot(p, r.to, r.nth), pushing' = pushing \cup Q
  PROVE  /\ Single(r.to)'
         /\ \A q \in pushing', f \in S : q.event = watched' /\ q.to = r.to /\ f.to = r.to => q.nth # f.nth
         /\ p \in Q => p \notin pushing
<1>1. \A q \in pushing : q.event = watched /\ q.to = r.to => q.nth # r.nth
  BY DEF Rung
<1>2. \A f \in S : f.to = r.to => f.nth # r.nth
  BY DEF Fed
<1>3. Single(r.to)'
  BY <1>1 DEF Rung, Single, Slot, Same
<1>4. \A q \in pushing', f \in S : q.event = watched' /\ q.to = r.to /\ f.to = r.to => q.nth # f.nth
  BY <1>2 DEF Rung, Slot, Same
<1>5. QED
  BY <1>1, <1>3, <1>4 DEF Slot

LEMMA RungGone ==
  ASSUME Same, NEW T, NEW r \in T, r.nth \in 1..2, NEW S, S = T \ {r}, Fed(T, r.to), Rung(T, r.to),
         rung \in [Devices -> Nat], UNCHANGED rung,
         \/ /\ Wanted(r.to, "push")
            /\ \E p : pushing' = pushing \cup {p} /\ p.event = watched /\ Slot(p, r.to, r.nth) /\ p.at = "read"
         \/ UNCHANGED pushing /\ ~Wanted(r.to, "push")
         \/ UNCHANGED pushing /\ \A d \in Devices \ event'.moved : event.device[d] # r.to
  PROVE  Rung(S, r.to)'
<1>1. PICK w : w = r.to
  OBVIOUS
<1>2. \A s : (Wanted(w, s)' <=> Wanted(w, s)) /\ Times(w, s)' = Times(w, s)
  BY WantedStays
<1>3. \A f, g \in T : f.to = r.to /\ g.to = r.to /\ f.nth = g.nth => f = g
  BY DEF Fed
<1>4. Owes(T, w, 1) + Owes(T, w, 2) = Owes(S, w, 1) + Owes(S, w, 2) + 1
  <2>1. Owes(T, r.to, 1) + Owes(T, r.to, 2) = Owes(S, r.to, 1) + Owes(S, r.to, 2) + 1
    BY <1>3, RemovedOnce, ZenonT(40)
  <2>2. QED
    BY <1>1, <2>1
<1>5. PICK a, b : a = Owes(S, w, 1) /\ b = Owes(S, w, 2) /\ a \in Nat /\ b \in Nat /\ Owes(S, w, 1)' = a /\ Owes(S, w, 2)' = b
  BY DEF Owes, Slot
<1> DEFINE Fits(p, Q) == /\ Q \subseteq {p} /\ pushing' = pushing \cup Q
                         /\ p \in Q => p.event = watched /\ Slot(p, r.to, r.nth) /\ p.at = "read"
                         /\ \/ Wanted(w, "push") /\ Q = {p}
                            \/ Q = {} /\ ~Wanted(w, "push")
                            \/ Q = {} /\ \A d \in Devices \ event'.moved : event.device[d] # w
<1>6. \E p, Q : Fits(p, Q)
  <2>1. CASE UNCHANGED pushing /\ (~Wanted(r.to, "push") \/ \A d \in Devices \ event'.moved : event.device[d] # r.to)
    <3>1. Fits(Null, {})
      BY <1>1, <2>1
    <3>2. QED
      BY <3>1
  <2>2. ASSUME NEW p, Wanted(r.to, "push"), pushing' = pushing \cup {p}, p.event = watched, Slot(p, r.to, r.nth), p.at = "read"
        PROVE  \E q, Q : Fits(q, Q)
    <3>1. Fits(p, {p})
      BY <1>1, <2>2
    <3>2. QED
      BY <3>1
  <2>3. QED
    BY <2>1, <2>2
<1>7. PICK p, Q : Fits(p, Q)
  BY <1>6
<1>8. /\ Single(w)' /\ (p \in Q => p \notin pushing)
      /\ \A q \in pushing', f \in S : q.event = watched' /\ q.to = w /\ f.to = w => q.nth # f.nth
  <2>1. /\ Q \subseteq {p} /\ pushing' = pushing \cup Q
        /\ p \in Q => p.event = watched /\ Slot(p, r.to, r.nth)
    BY <1>7
  <2>2. /\ Single(r.to)' /\ (p \in Q => p \notin pushing)
        /\ \A q \in pushing', f \in S : q.event = watched' /\ q.to = r.to /\ f.to = r.to => q.nth # f.nth
    BY <2>1, RungApart
  <2>3. QED
    BY <1>1, <2>2
<1>9. ASSUME NEW d \in Devices \ event'.moved, event'.device[d] = w
      PROVE  rung'[d] + Owed(S, w, "push")' + Rings(w, 1)' + Rings(w, 2)' = Times(w, "push")'
  <2>1. d \notin event.moved /\ event.device[d] = w
    BY <1>9 DEF Same
  <2>2. rung[d] + Owed(T, w, "push") + Rings(w, 1) + Rings(w, 2) = Times(w, "push") /\ rung[d] \in Nat
    BY <1>1, <2>1 DEF Rung
  <2>3. \A n : Rings(w, n) \in Nat /\ Rings(w, n)' \in Nat
    BY DEF Rings
  <2>4. CASE Q = {}
    <3>1. \A n : Rings(w, n)' = Rings(w, n)
      BY <1>7, <2>4 DEF Rings, Slot, Same
    <3>2. ~Wanted(w, "push")
      BY <1>7, <1>9, <2>1, <2>4
    <3>3. QED
      BY <1>2, <2>2, <3>1, <3>2 DEF Owed
  <2>5. CASE Q # {}
    <3>1. Wanted(w, "push")
      BY <1>7, <2>5
    <3>2. Owed(T, w, "push") = a + b + 1
      BY <1>4, <1>5, <3>1 DEF Owed
    <3>3. Owed(S, w, "push")' = a + b
      BY <1>2, <1>5, <3>1 DEF Owed
    <3>4. \A q \in pushing : q.event = watched => ~Slot(q, w, r.nth)
      BY <1>1 DEF Rung, Slot
    <3>5. Rings(w, r.nth) = 0 /\ Rings(w, r.nth)' = 1
      BY <1>1, <1>7, <2>5, <3>4 DEF Rings, Same
    <3>6. \A n : n # r.nth => Rings(w, n)' = Rings(w, n)
      BY <1>7 DEF Rings, Slot, Same
    <3>7. Rings(w, 1)' + Rings(w, 2)' = Rings(w, 1) + Rings(w, 2) + 1
      <4>1. CASE r.nth = 1
        <5>1. Rings(w, 1) = 0 /\ Rings(w, 1)' = 1 /\ Rings(w, 2)' = Rings(w, 2)
          BY <3>5, <3>6, <4>1
        <5>2. QED
          BY <2>3, <5>1
      <4>2. CASE r.nth = 2
        <5>1. Rings(w, 2) = 0 /\ Rings(w, 2)' = 1 /\ Rings(w, 1)' = Rings(w, 1)
          BY <3>5, <3>6, <4>2
        <5>2. QED
          BY <2>3, <5>1
      <4>3. QED
        BY <4>1, <4>2
    <3>8. QED
      BY <1>2, <1>5, <2>2, <2>3, <3>2, <3>3, <3>7
  <2>6. QED
    BY <2>4, <2>5
<1>10. QED
  BY <1>1, <1>8, <1>9 DEF Rung

(* What the push decision may come to. *)
Decides(r) ==
  \/ /\ Wanted(r.to, "push")
     /\ \E p : pushing' = pushing \cup {p} /\ p.event = watched /\ Slot(p, r.to, r.nth) /\ p.at = "read"
  \/ UNCHANGED pushing /\ ~Wanted(r.to, "push")
  \/ UNCHANGED pushing /\ \A d \in Devices \ event'.moved : event.device[d] # r.to

LEMMA GoneJust ==
  ASSUME NEW T, Just(T), NEW r \in T, r \in RecipientRows, NEW S, S = T \ {r}, Same, event'.changed = event.changed,
         rung \in [Devices -> Nat], notice \in [Users -> Nat],
         UNCHANGED <<member, prefs, subscription, gone, rung, watched>>,
         \A u \in Users \ {r.to} : notice'[u] = notice[u],
         pushing \subseteq pushing', \A p \in pushing' \ pushing : p.at = "read" /\ p.to = r.to,
         r.to \notin event.changed =>
           /\ notice'[r.to] = IF Wanted(r.to, "inApp") THEN notice[r.to] + 1 ELSE notice[r.to]
           /\ Decides(r)
  PROVE  Just(S)'
<1>1. r.to \in Users /\ r.nth \in 1..2
  BY DEF RecipientRows
<1>2. ASSUME r.to \notin event.changed PROVE Fed(S, r.to)' /\ Rung(S, r.to)'
  <2>1. Fed(T, r.to) /\ Rung(T, r.to)
    BY <1>1, <1>2 DEF Just
  <2>2. notice'[r.to] = IF Wanted(r.to, "inApp") THEN notice[r.to] + 1 ELSE notice[r.to]
    BY <1>2
  <2>3. Fed(S, r.to)'
    BY <1>1, <2>1, <2>2, FedGone
  <2>4. Decides(r)
    BY <1>2
  <2>5. Rung(S, r.to)'
    BY <1>1, <2>1, <2>4, RungGone DEF Decides
  <2>6. QED
    BY <2>3, <2>5
<1>3. PICK w : w = r.to
  OBVIOUS
<1>4. \A f : f.to # w => (f \in S <=> f \in T)
  BY <1>3
<1>5. w \in Users \ event.changed => Fed(S, w)' /\ Rung(S, w)'
  BY <1>2, <1>3
<1>6. \A p \in pushing' \ pushing : p.at = "read" /\ p.to = w
  BY <1>3
<1>7. QED
  BY <1>3, <1>4, <1>5, <1>6, JustExcept

LEMMA SeenJust ==
  ASSUME NEW T, Just(T), NEW r \in T, NEW z, z.to = r.to, z.nth = r.nth, z.channel = r.channel,
         NEW S, S = (T \ {r}) \cup {z}, Same, event'.changed = event.changed, rung \in [Devices -> Nat],
         UNCHANGED <<member, prefs, subscription, gone, rung, watched, notice, pushing>>,
         r.to \in Users \ event.changed => z.seen = event.prefs[r.to] /\ Wanted(r.to, "inApp")
  PROVE  Just(S)'
<1>1. ASSUME r.to \in Users \ event.changed PROVE Fed(S, r.to)' /\ Rung(S, r.to)'
  <2>1. Fed(T, r.to) /\ Rung(T, r.to)
    BY <1>1 DEF Just
  <2>2. z.seen = event.prefs[r.to] /\ Wanted(r.to, "inApp")
    BY <1>1
  <2>3. QED
    BY <2>1, <2>2, ToldSeen
<1>2. PICK w : w = r.to
  OBVIOUS
<1>3. \A f : f.to # w => (f \in S <=> f \in T)
  BY <1>2
<1>4. w \in Users \ event.changed => Fed(S, w)' /\ Rung(S, w)'
  BY <1>1, <1>2
<1>5. QED
  BY <1>2, <1>3, <1>4, JustExcept

LEMMA RingTyped ==
  ASSUME event \in EventRows \cup {Null}, NEW h \in Handlers, NEW e \in Nat, e = On(h).event,
         NEW r \in RecipientRows, NEW p, NEW silent \in BOOLEAN, Ring(h, r, p, silent)
  PROVE  /\ pushing \subseteq pushing'
         /\ \A x \in pushing' \ pushing : x \in PushRows /\ x.event = e /\ x.at = "read" /\ Slot(x, r.to, r.nth)
         /\ e # watched => UNCHANGED event
         /\ \E ds \in SUBSET Devices : Touch({}, ds)
<1>1. r.to \in Users /\ r.nth \in 1..2
  BY DEF RecipientRows
<1>2. CASE p.push /\ p.channels[r.channel] /\ ~silent
  <2>1. PICK x : x = [at |-> "read", event |-> e, to |-> r.to, nth |-> r.nth, devices |-> {}]
    OBVIOUS
  <2>2. pushing' = pushing \cup {x} /\ UNCHANGED event
    BY <1>2, <2>1 DEF Ring
  <2>3. x \in PushRows /\ x.event = e /\ x.at = "read" /\ Slot(x, r.to, r.nth)
    BY <1>1, <2>1 DEF PushRows, Slot
  <2>4. Touch({}, {})
    BY <2>2, TouchesNothing
  <2>5. QED
    BY <2>2, <2>3, <2>4
<1>3. CASE ~(p.push /\ p.channels[r.channel] /\ ~silent)
  <2>1. /\ UNCHANGED pushing
        /\ IF silent /\ e = watched THEN Touch({}, {d \in Devices : subscription[d] = r.to}) ELSE UNCHANGED event
    BY <1>3 DEF Ring
  <2>2. UNCHANGED event => Touch({}, {})
    BY TouchesNothing
  <2>3. \E ds \in SUBSET Devices : Touch({}, ds)
    BY <2>1, <2>2
  <2>4. QED
    BY <2>1, <2>3
<1>4. QED
  BY <1>2, <1>3

LEMMA RingDecides ==
  ASSUME event \in EventRows, event # Null, NEW h \in Handlers, On(h).event = watched, NEW r \in RecipientRows,
         NEW p, p = event.prefs[r.to], r.channel = event.channel[r.to], r.to \in event.active,
         NEW silent \in BOOLEAN, Ring(h, r, p, silent), Connected, UNCHANGED watched
  PROVE  Decides(r)
<1>1. Wanted(r.to, "push") <=> p.channels[r.channel] /\ p.push
  BY WantedMeans
<1>2. CASE p.push /\ p.channels[r.channel] /\ ~silent
  <2>1. PICK x : x = [at |-> "read", event |-> On(h).event, to |-> r.to, nth |-> r.nth, devices |-> {}]
    OBVIOUS
  <2>2. pushing' = pushing \cup {x}
    BY <1>2, <2>1 DEF Ring
  <2>3. x.event = watched /\ x.at = "read" /\ Slot(x, r.to, r.nth)
    BY <2>1 DEF Slot
  <2>4. QED
    BY <1>1, <1>2, <2>2, <2>3 DEF Decides
<1>3. CASE silent
  <2>1. PICK ds \in SUBSET Devices : ds = {d \in Devices : subscription[d] = r.to}
    OBVIOUS
  <2>2. UNCHANGED pushing /\ Touch({}, ds)
    BY <1>3, <2>1 DEF Ring
  <2>3. event'.moved = event.moved \cup ds
    <3>1. PICK us \in SUBSET Users : us = {}
      OBVIOUS
    <3>2. Touch(us, ds)
      BY <2>2, <3>1
    <3>3. QED
      BY <3>2, Touches
  <2>4. \A d \in Devices \ event'.moved : event.device[d] # r.to
    BY <2>1, <2>3 DEF Connected
  <2>5. QED
    BY <2>2, <2>4 DEF Decides
<1>4. CASE ~silent /\ ~(p.push /\ p.channels[r.channel])
  BY <1>1, <1>4 DEF Ring, Decides
<1>5. QED
  BY <1>2, <1>3, <1>4

LEMMA TellMeans ==
  ASSUME Announced, NEW h \in Handlers, NEW q, q = request[h], q # Null, q.at = "tell"
  PROVE  /\ q \in TellRequests /\ q.by \in Users /\ q.on.event \in Nat /\ Eventful(q) /\ ~Early(q)
         /\ q.on.first \in SUBSET RecipientRows /\ q.on.next \in SUBSET RecipientRows
         /\ q.on.first \cap q.on.next = {} /\ (\A f \in q.on.next : f.seen = Null)
         /\ Coming(q) = q.on.first \cup q.on.next
<1>1. Heard(q)
  BY DEF Announced, Hearing
<1>2. q \in TellRequests /\ q.on.first \cap q.on.next = {} /\ \A f \in q.on.next : f.seen = Null
  BY <1>1 DEF Heard
<1>3. Eventful(q) /\ ~Early(q) /\ Coming(q) = q.on.first \cup q.on.next
  BY DEF Eventful, Early, EventSteps, Coming
<1>4. QED
  BY <1>2, <1>3 DEF TellRequests

LEMMA ToldOnly ==
  ASSUME Announced, NEW h \in Handlers, NEW q, q = request[h], q # Null, q.at = "tell", q.on.event = watched
  PROVE  ToTell = q.on.first \cup q.on.next
<1>1. Eventful(q) /\ Coming(q) = q.on.first \cup q.on.next
  BY TellMeans
<1>2. About(request[h]) /\ \A g \in Handlers \ {h} : ~About(request[g])
  BY <1>1 DEF About, Announced, Numbered
<1>3. PICK S : S = q.on.first \cup q.on.next
  OBVIOUS
<1>4. IF About(request[h]) THEN Coming(request[h]) = S ELSE S = {}
  BY <1>1, <1>2, <1>3
<1>5. QED
  BY <1>2, <1>3, <1>4, ToTellOnly

(* One has been told, or need not be. *)
LEMMA AnnouncedOff ==
  ASSUME Announced, Shape, NEW h \in Handlers, NEW q, q = request[h], q # Null, q.at = "tell",
         NEW e, e = q.on.event, NEW r \in q.on.first, Tell(h, e, q.on.first \ {r}, q.on.next),
         UNCHANGED <<member, seat, said, prefs, subscription, gone, rung, watched>>,
         notice' = IF e = watched /\ r.seen # Null THEN [notice EXCEPT ![r.to] = @ + 1] ELSE notice,
         pushing \subseteq pushing',
         \A x \in pushing' \ pushing : x \in PushRows /\ x.event = e /\ x.at = "read" /\ Slot(x, r.to, r.nth),
         e # watched => UNCHANGED event, NEW ds \in SUBSET Devices, Touch({}, ds),
         event # Null /\ e = watched /\ r.to \notin event.changed =>
           (r.seen # Null <=> Wanted(r.to, "inApp")) /\ Decides(r)
  PROVE  Announced'
<1>1. /\ q.by \in Users /\ e \in Nat /\ Eventful(q) /\ ~Early(q)
      /\ q.on.first \in SUBSET RecipientRows /\ q.on.next \in SUBSET RecipientRows
      /\ q.on.first \cap q.on.next = {} /\ \A f \in q.on.next : f.seen = Null
  BY TellMeans
<1>2. PICK first, next : first = q.on.first \ {r} /\ next = q.on.next
  OBVIOUS
<1>3. Tellable(first, next)
  BY <1>1, <1>2 DEF Tellable
<1>4. PICK S : S = first \cup next
  OBVIOUS
<1>5. /\ Others(h) /\ UNCHANGED served
      /\ \/ S = {} /\ request'[h] = Null
         \/ \E z : request'[h] = z /\ Tells(z, e) /\ Coming(z)' = S
  <2>1. PICK by : by = q.by
    OBVIOUS
  <2>2. Tell(h, e, first, next) /\ by = By(h) /\ by \in Users
    BY <1>1, <1>2, <2>1 DEF By
  <2>3. /\ Others(h) /\ UNCHANGED served
        /\ \/ first \cup next = {} /\ request'[h] = Null
           \/ \E z : /\ request'[h] = z /\ Tells(z, e)
                     /\ Coming(z) = first \cup next /\ Coming(z)' = first \cup next
    BY <1>1, <1>3, <2>2, TellGoes
  <2>4. QED
    BY <1>4, <2>3
<1>6. r \in RecipientRows /\ r.to \in Users
  BY <1>1 DEF RecipientRows
<1>7. notice \in [Users -> Nat] /\ rung \in [Devices -> Nat]
  BY DEF Announced, Hearing
<1>8. notice' \in [Users -> Nat] /\ (e # watched => UNCHANGED notice)
  BY <1>6, <1>7
<1>9. event # Null => Same /\ event'.changed = event.changed
  <2>1. PICK us \in SUBSET Users : us = {}
    OBVIOUS
  <2>2. Touch(us, ds)
    BY <2>1
  <2>3. /\ event # Null /\ UNCHANGED watched => Same
        /\ event # Null => event'.changed = event.changed \cup us
    BY <2>2, Touches DEF Announced, Hearing
  <2>4. QED
    BY <2>1, <2>3
<1>10. ASSUME event # Null, e = watched PROVE Just(S)'
  <2>1. PICK T : T = q.on.first \cup q.on.next
    OBVIOUS
  <2>2. ToTell = T
    BY <1>10, <2>1, ToldOnly
  <2>3. Just(T)
    BY <1>10, <2>2 DEF Announced
  <2>4. r \in T /\ S = T \ {r}
    BY <1>1, <1>2, <1>4, <2>1
  <2>5. \A u \in Users \ {r.to} : notice'[u] = notice[u]
    BY <1>6, <1>7
  <2>6. \A x \in pushing' \ pushing : x.at = "read" /\ x.to = r.to
    BY DEF Slot
  <2>7. r.to \notin event.changed =>
          /\ notice'[r.to] = IF Wanted(r.to, "inApp") THEN notice[r.to] + 1 ELSE notice[r.to]
          /\ Decides(r)
    BY <1>6, <1>7, <1>10
  <2>8. QED
    BY <1>6, <1>7, <1>9, <1>10, <2>3, <2>4, <2>5, <2>6, <2>7, GoneJust
<1>11. Sending(e)
  BY DEF Sending
<1>12. e # watched => UNCHANGED <<notice, event>>
  BY <1>8
<1>13. event # Null /\ e = watched => Just(S)'
  BY <1>10
<1>14. UNCHANGED <<served, member, seat, said, prefs, subscription, gone, rung, watched>> /\ notice' \in [Users -> Nat]
  BY <1>5, <1>8
<1>15. QED
  BY <1>1, <1>5, <1>11, <1>12, <1>13, <1>14, AnnouncedTold

LEMMA AnnouncedSeen ==
  ASSUME Announced, Shape, NEW h \in Handlers, NEW q, q = request[h], q # Null, q.at = "tell",
         NEW e, e = q.on.event, NEW r \in q.on.first, r.seen = Null, NEW z, z = [r EXCEPT !.seen = prefs[r.to]],
         WantsRow(r), Tell(h, e, (q.on.first \ {r}) \cup {z}, q.on.next),
         UNCHANGED <<member, seat, said, prefs, subscription, gone, rung, watched, notice, pushing, event>>
  PROVE  Announced'
<1>1. /\ q.by \in Users /\ e \in Nat /\ Eventful(q) /\ ~Early(q)
      /\ q.on.first \in SUBSET RecipientRows /\ q.on.next \in SUBSET RecipientRows
      /\ q.on.first \cap q.on.next = {} /\ \A f \in q.on.next : f.seen = Null
  BY TellMeans
<1>2. r \in RecipientRows /\ prefs \in [Users -> Prefs]
  BY <1>1 DEF Announced, Hearing
<1>3. r = [to |-> r.to, channel |-> r.channel, nth |-> r.nth, seen |-> r.seen] /\ r.to \in Users /\ prefs[r.to] \in Prefs
  BY <1>2 DEF RecipientRows
<1>4. z = [to |-> r.to, channel |-> r.channel, nth |-> r.nth, seen |-> prefs[r.to]]
  BY <1>3
<1>5. z \in RecipientRows /\ z.to = r.to /\ z.nth = r.nth /\ z.channel = r.channel /\ z.seen = prefs[r.to]
  BY <1>2, <1>3, <1>4 DEF RecipientRows
<1>6. z.seen # Null
  BY <1>3, <1>5, NullIsNoNotice
<1>7. PICK first, next : first = (q.on.first \ {r}) \cup {z} /\ next = q.on.next
  OBVIOUS
<1>8. Tellable(first, next)
  BY <1>1, <1>5, <1>6, <1>7 DEF Tellable
<1>9. PICK S : S = first \cup next
  OBVIOUS
<1>10. /\ Others(h) /\ UNCHANGED served
       /\ \/ S = {} /\ request'[h] = Null
          \/ \E y : request'[h] = y /\ Tells(y, e) /\ Coming(y)' = S
  <2>1. PICK by : by = q.by
    OBVIOUS
  <2>2. Tell(h, e, first, next) /\ by = By(h) /\ by \in Users
    BY <1>1, <1>7, <2>1 DEF By
  <2>3. /\ Others(h) /\ UNCHANGED served
        /\ \/ first \cup next = {} /\ request'[h] = Null
           \/ \E y : /\ request'[h] = y /\ Tells(y, e)
                     /\ Coming(y) = first \cup next /\ Coming(y)' = first \cup next
    BY <1>1, <1>8, <2>2, TellGoes
  <2>4. QED
    BY <1>9, <2>3
<1>11. PICK ds \in SUBSET Devices : ds = {}
  OBVIOUS
<1>12. Touch({}, ds)
  BY <1>11, TouchesNothing DEF Announced, Hearing
<1>13. ASSUME event # Null, e = watched PROVE Just(S)'
  <2>1. PICK T : T = q.on.first \cup q.on.next
    OBVIOUS
  <2>2. ToTell = T
    BY <1>13, <2>1, ToldOnly
  <2>3. Just(T)
    BY <1>13, <2>2 DEF Announced
  <2>4. r \in T /\ S = (T \ {r}) \cup {z}
    BY <1>1, <1>7, <1>9, <2>1
  <2>5. Same /\ event'.changed = event.changed
    BY <1>13 DEF Same
  <2>6. r.to \in Users \ event.changed => z.seen = event.prefs[r.to] /\ Wanted(r.to, "inApp")
    <3>1. SUFFICES ASSUME r.to \notin event.changed PROVE z.seen = event.prefs[r.to] /\ Wanted(r.to, "inApp")
      OBVIOUS
    <3>2. Steady(r.to) /\ Fed(T, r.to)
      BY <1>3, <2>3, <3>1 DEF Just
    <3>3. Right(r)
      BY <2>4, <3>2 DEF Fed
    <3>4. Admitted(r.to) /\ prefs[r.to].inApp /\ prefs[r.to].channels[r.channel]
      BY DEF WantsRow, InFeed
    <3>5. PICK p : p = event.prefs[r.to] /\ p = prefs[r.to] /\ r.to \in event.active
      BY <3>2, <3>4 DEF Steady
    <3>6. r.channel = event.channel[r.to]
      BY <3>3 DEF Right
    <3>7. Wanted(r.to, "inApp")
      BY <1>2, <1>13, <3>4, <3>5, <3>6, WantedMeans
    <3>8. QED
      BY <1>5, <3>5, <3>7
  <2>7. rung \in [Devices -> Nat]
    BY DEF Announced, Hearing
  <2>8. QED
    BY <1>5, <2>3, <2>4, <2>5, <2>6, <2>7, SeenJust
<1>14. notice' \in [Users -> Nat] /\ Sending(e)
  BY DEF Announced, Hearing, Sending
<1>15. QED
  BY <1>1, <1>10, <1>12, <1>13, <1>14, AnnouncedTold

LEMMA AnnouncedRing ==
  ASSUME Announced, Shape, NEW h \in Handlers, NEW q, q = request[h], q # Null, q.at = "tell",
         NEW e, e = q.on.event, NEW r \in q.on.first, Tell(h, e, q.on.first \ {r}, q.on.next),
         UNCHANGED <<member, seat, said, prefs, subscription, gone, rung, watched>>,
         notice' = IF e = watched /\ r.seen # Null THEN [notice EXCEPT ![r.to] = @ + 1] ELSE notice,
         NEW p, p = IF r.seen = Null THEN prefs[r.to] ELSE r.seen, NEW silent \in BOOLEAN, Ring(h, r, p, silent),
         r.seen = Null => Admitted(r.to) /\ ~InFeed(r, p)
  PROVE  Announced'
<1>1. e \in Nat /\ r \in RecipientRows /\ e = On(h).event
  BY TellMeans DEF On
<1>2. /\ pushing \subseteq pushing'
      /\ \A x \in pushing' \ pushing : x \in PushRows /\ x.event = e /\ x.at = "read" /\ Slot(x, r.to, r.nth)
      /\ e # watched => UNCHANGED event
      /\ \E ds \in SUBSET Devices : Touch({}, ds)
  BY <1>1, RingTyped DEF Announced, Hearing
<1>3. PICK ds \in SUBSET Devices : Touch({}, ds)
  BY <1>2
<1>4. ASSUME event # Null, e = watched, r.to \notin event.changed
      PROVE  (r.seen # Null <=> Wanted(r.to, "inApp")) /\ Decides(r)
  <2>1. PICK T : T = q.on.first \cup q.on.next
    OBVIOUS
  <2>2. ToTell = T
    BY <1>4, <2>1, ToldOnly
  <2>3. Just(T) /\ r \in T /\ r.to \in Users
    BY <1>1, <1>4, <2>1, <2>2 DEF Announced, RecipientRows
  <2>4. Steady(r.to) /\ Fed(T, r.to) /\ Connected
    BY <1>4, <2>3 DEF Just
  <2>5. Right(r)
    BY <2>3, <2>4 DEF Fed
  <2>6. r.channel = event.channel[r.to] /\ p = event.prefs[r.to]
    BY <2>4, <2>5 DEF Right, Steady
  <2>7. \A s \in {"push", "inApp"} :
          Wanted(r.to, s) <=>
            /\ r.to \in event.active /\ p.channels[r.channel]
            /\ IF s = "push" THEN p.push ELSE p.inApp
    BY <1>1, <1>4, <2>6, WantedMeans
  <2>8. CASE r.seen = Null
    <3>1. r.to \in event.active
      BY <2>4, <2>8 DEF Steady
    <3>2. ~Wanted(r.to, "inApp")
      BY <2>7, <2>8 DEF InFeed
    <3>3. QED
      BY <1>1, <1>4, <2>4, <2>6, <2>8, <3>1, <3>2, RingDecides DEF Announced, Hearing
  <2>9. CASE r.seen # Null
    <3>1. Wanted(r.to, "inApp")
      BY <2>5, <2>9 DEF Right
    <3>2. r.to \in event.active
      BY <2>7, <3>1
    <3>3. QED
      BY <1>1, <1>4, <2>4, <2>6, <2>9, <3>1, <3>2, RingDecides DEF Announced, Hearing
  <2>10. QED
    BY <2>8, <2>9
<1>5. QED
  BY <1>2, <1>3, <1>4, AnnouncedOff, ZenonT(40)

LEMMA AnnouncedDispatch ==
  ASSUME Announced, Shape, NEW h \in Handlers, Dispatch(h), UNCHANGED <<member, seat, said>>
  PROVE  Announced'
<1>1. PICK q : q = request[h] /\ q # Null /\ q.at = "tell"
  BY DEF Dispatch, At
<1>2. PICK e : e = q.on.event /\ e = On(h).event
  BY <1>1 DEF On
<1>3. PICK r \in q.on.first : DispatchRead(h, r) \/ DispatchWrite(h, r)
  BY <1>1 DEF Dispatch, On
<1>4. UNCHANGED <<member, seat, said, prefs, subscription, gone, watched>>
  BY DEF Dispatch
<1>5. CASE DispatchRead(h, r) /\ ~Admitted(r.to)
  <2>1. Tell(h, e, q.on.first \ {r}, q.on.next) /\ r.seen = Null /\ UNCHANGED <<notice, rung, pushing, event>>
    BY <1>1, <1>2, <1>5 DEF DispatchRead, WantsRow, On
  <2>2. PICK ds \in SUBSET Devices : ds = {}
    OBVIOUS
  <2>3. Touch({}, ds)
    BY <2>1, <2>2, TouchesNothing DEF Announced, Hearing
  <2>4. ASSUME event # Null, e = watched, r.to \notin event.changed
        PROVE  (r.seen # Null <=> Wanted(r.to, "inApp")) /\ Decides(r)
    <3>1. r.to \in Users
      BY <1>1, TellMeans DEF RecipientRows
    <3>2. r.to \notin event.active
      BY <1>5, <2>4, <3>1 DEF Announced, Just, Steady
    <3>3. ~Wanted(r.to, "inApp") /\ ~Wanted(r.to, "push")
      BY <3>2 DEF Wanted
    <3>4. QED
      BY <2>1, <3>3 DEF Decides
  <2>5. /\ pushing \subseteq pushing'
        /\ \A x \in pushing' \ pushing : x \in PushRows /\ x.event = e /\ x.at = "read" /\ Slot(x, r.to, r.nth)
    BY <2>1
  <2>6. notice' = IF e = watched /\ r.seen # Null THEN [notice EXCEPT ![r.to] = @ + 1] ELSE notice
    BY <2>1
  <2>7. QED
    BY <1>1, <1>2, <1>4, <2>1, <2>3, <2>4, <2>5, <2>6, AnnouncedOff
<1>6. CASE DispatchRead(h, r) /\ WantsRow(r) /\ UNCHANGED event /\ UNCHANGED pushing /\
           Tell(h, On(h).event, (On(h).first \ {r}) \cup {[r EXCEPT !.seen = prefs[r.to]]}, On(h).next)
  <2>1. PICK z : z = [r EXCEPT !.seen = prefs[r.to]]
    OBVIOUS
  <2>2. Tell(h, e, (q.on.first \ {r}) \cup {z}, q.on.next) /\ r.seen = Null /\ UNCHANGED <<notice, rung>>
    BY <1>1, <1>2, <1>6, <2>1 DEF DispatchRead, On
  <2>3. QED
    BY <1>1, <1>2, <1>4, <1>6, <2>1, <2>2, AnnouncedSeen
<1>7. CASE DispatchRead(h, r) /\ Admitted(r.to) /\ ~WantsRow(r)
  <2>1. PICK silent \in BOOLEAN : Ring(h, r, prefs[r.to], silent)
    BY <1>7 DEF DispatchRead
  <2>2. Tell(h, e, q.on.first \ {r}, q.on.next) /\ r.seen = Null /\ UNCHANGED <<notice, rung>>
    BY <1>1, <1>2, <1>7 DEF DispatchRead, On
  <2>3. PICK p : p = prefs[r.to]
    OBVIOUS
  <2>4. ~InFeed(r, p)
    BY <1>7, <2>3 DEF WantsRow
  <2>5. notice' = IF e = watched /\ r.seen # Null THEN [notice EXCEPT ![r.to] = @ + 1] ELSE notice
    BY <2>2
  <2>6. QED
    BY <1>1, <1>2, <1>4, <1>7, <2>1, <2>2, <2>3, <2>4, <2>5, AnnouncedRing
<1>8. CASE DispatchWrite(h, r)
  <2>1. PICK silent \in BOOLEAN : Ring(h, r, r.seen, silent)
    BY <1>8 DEF DispatchWrite
  <2>2. Tell(h, e, q.on.first \ {r}, q.on.next) /\ r.seen # Null /\ UNCHANGED rung
    BY <1>1, <1>2, <1>8 DEF DispatchWrite, On
  <2>3. PICK p : p = r.seen
    OBVIOUS
  <2>4. notice' = IF e = watched /\ r.seen # Null THEN [notice EXCEPT ![r.to] = @ + 1] ELSE notice
    BY <1>2, <1>8, <2>2 DEF DispatchWrite
  <2>5. QED
    BY <1>1, <1>2, <1>4, <2>1, <2>2, <2>3, <2>4, AnnouncedRing
<1>9. QED
  BY <1>3, <1>5, <1>6, <1>7, <1>8 DEF DispatchRead

----------------------------------------------------------------------------
LEMMA AnnouncedServe ==
  ASSUME Announced, AllNoted, Tree, NEW h \in Handlers, Serve(h)
  PROVE  Announced'
<1>1. Shape /\ event \in EventRows \cup {Null}
  BY DEF Tree, Announced, Hearing
<1>2. CASE Elsewhere(h) /\ ~Eventful(request[h]) /\ UNCHANGED <<seat, said>>
  BY <1>1, <1>2, AnnouncedElsewhere
<1>3. CASE /\ CommentsCall(h) \/ CommentsContinue(h) \/ NoticesCall(h) \/ NoticesContinue(h)
           /\ UNCHANGED <<member, seat, said>>
  <2>1. CASE CommentsCall(h)
    BY <1>3, <2>1, CommentCalls
  <2>2. CASE CommentsContinue(h)
    BY <1>1, <1>3, <2>2, AnnouncedWritten
  <2>3. CASE NoticesCall(h)
    BY <1>3, <2>3, NoticeCalls
  <2>4. CASE NoticesContinue(h)
    BY <1>1, <1>3, <2>4, AnnouncedPrefs, AnnouncedDevice, AnnouncedDispatch DEF NoticesContinue
  <2>5. QED
    BY <1>3, <2>1, <2>2, <2>3, <2>4
<1>4. CASE (ChatroomCall(h) \/ ChatroomContinue(h)) /\ UNCHANGED member
  BY <1>1, <1>4, ChatCalls, AnnouncedTalk
<1>5. QED
  BY <1>1, <1>2, <1>3, <1>4, ElsewhereSteps

LEMMA AnnouncedIdle ==
  ASSUME Announced, UNCHANGED <<request, served, member, seat, said, prefs, subscription, gone, told>>
  PROVE  Announced'
<1>1. Hearing' /\ Seated'
  BY HearingStays, SeatedStays DEF Announced, Hearing, told
<1>2. NewsKept
  BY DEF NewsKept
<1>3. PICK us \in SUBSET Users, ds \in SUBSET Devices : us = {} /\ ds = {}
  OBVIOUS
<1>4. Touch(us, ds)
  BY <1>3, TouchesNothing DEF Announced, Hearing, told
<1>5. served' \in Nat /\ served <= served'
  BY DEF Announced, Numbered
<1>6. \A v \in Users \ us :
        prefs'[v] = prefs[v] /\ (Admitted(v)' <=> Admitted(v)) /\ (Listening(v)' <=> Listening(v))
  BY DEF Admitted, Listening
<1>7. QED
  BY <1>1, <1>2, <1>4, <1>5, <1>6, AnnouncedAside DEF told

(* Whoever is told, or will be, is being told of the event. *)
LEMMA TellingMeans ==
  ASSUME Announced, AllNoted, NEW h \in Handlers, About(request[h])
  PROVE  Telling
<1>1. PICK r : r = request[h] /\ r # Null /\ r.at \in EventSteps /\ r.on.event = watched /\ Heard(r) /\ Noted(r)
  BY DEF About, Eventful, Announced, Hearing, AllNoted
<1>2. CASE r.at \in WriteSteps
  <2>1. r \in CommentRequests
    BY <1>1, <1>2 DEF Noted
  <2>2. "on" \in DOMAIN r /\ "event" \in DOMAIN r.on
    BY <2>1 DEF CommentRequests
  <2>3. QED
    BY <1>1, <2>2 DEF Telling, On
<1>3. CASE r.at \in {"chat:send", "chat:notify"}
  BY <1>1, <1>3 DEF Heard, ChatRequests, Telling, On
<1>4. CASE r.at = "tell"
  BY <1>1, <1>4 DEF Heard, TellRequests, Telling, On
<1>5. QED
  BY <1>1, <1>2, <1>3, <1>4 DEF EventSteps

LEMMA ToldMeans ==
  ASSUME Announced, AllNoted, ~Telling
  PROVE  ToTell = {} /\ \A p \in pushing : p.event # watched
BY TellingMeans DEF ToTell, Telling

LEMMA AnnouncedCrash ==
  ASSUME Announced, AllNoted, Crash
  PROVE  Announced'
<1>1. /\ \A h \in Handlers : request'[h] = Null
      /\ event' = IF Telling THEN Null ELSE event
      /\ pushing' = {} /\ UNCHANGED <<served, member, prefs, subscription, gone, notice, rung, watched, seat, said>>
  BY DEF Crash, Die, Quiet, NoticesCutOff, ChatroomCutOff, memberVars
<1>2. Hearing' /\ Seated'
  BY <1>1, SeatedStays DEF Announced, Hearing
<1>3. Numbered'
  BY <1>1 DEF Announced, Numbered, Eventful
<1>4. Ahead' => Ahead
  BY <1>1 DEF Ahead, About, Eventful
<1>5. Ahead' => Untold'
  BY <1>1, <1>4 DEF Announced, Untold
<1>6. ASSUME event' # Null PROVE Just(ToTell)'
  <2>1. event # Null /\ UNCHANGED event /\ ~Telling /\ Just(ToTell)
    BY <1>1, <1>6 DEF Announced
  <2>2. ToTell = {} /\ \A p \in pushing : p.event # watched
    BY <2>1, ToldMeans
  <2>3. PICK S : S = ToTell'
    OBVIOUS
  <2>4. S = ToTell
    BY <1>1, <2>2, <2>3 DEF ToTell, About, Eventful
  <2>5. SamePushes /\ Same
    BY <1>1, <2>1, <2>2 DEF SamePushes, Same
  <2>6. gone' \subseteq event'.moved
    BY <1>1, <2>1 DEF Just, Connected
  <2>7. \A u : Admitted(u)' <=> Admitted(u)
    BY <1>1 DEF Admitted
  <2>8. \A u \in Users \ event'.changed :
          prefs'[u] = prefs[u] /\ (Admitted(u)' <=> Admitted(u)) /\ notice'[u] = notice[u]
    BY <1>1, <2>7
  <2>9. \A d \in Devices \ event'.moved : subscription'[d] = subscription[d] /\ rung'[d] = rung[d]
    BY <1>1
  <2>10. Just(S)'
    BY <2>1, <2>4, <2>5, <2>6, <2>8, <2>9, JustStays
  <2>11. QED
    BY <2>3, <2>10
<1>7. QED
  BY <1>2, <1>3, <1>5, <1>6 DEF Announced

LEMMA AnnouncedNext ==
  ASSUME Tree, AllNoted, Announced, [Next]_vars
  PROVE  Announced'
<1>1. CASE UNCHANGED <<request, served, member, seat, said, prefs, subscription, gone, told>>
  BY <1>1, AnnouncedIdle
<1>2. CASE Mailing \/ UNCHANGED vars
  BY <1>1, <1>2 DEF Mailing, SendMail, vars, contentVars, memberVars, chatVars, talkVars, noticeVars
<1>3. CASE Pushing
  BY <1>3, AnnouncedPush DEF Pushing, memberVars, chatVars, talkVars
<1>4. CASE Chatting
  <2>1. ASSUME NEW u \in Users, MuteEnds(u) PROVE Announced'
    BY <1>4, <2>1, AnnouncedMute DEF Chatting, memberVars
  <2>2. ASSUME NEW m \in Talks, AttachLinkPreview(m) PROVE Announced'
    BY <1>1, <1>4, <2>2 DEF Chatting, AttachLinkPreview, memberVars, noticeVars
  <2>3. QED
    BY <1>4, <2>1, <2>2 DEF Chatting, Background
<1>5. CASE Time
  BY <1>1, <1>5 DEF Time, Expire, ExpireLink, AutoArchive, TrashCleanup, Tick, Cascade, contentVars, memberVars,
     chatVars, talkVars, noticeVars
<1>6. QED
  BY <1>2, <1>3, <1>4, <1>5, AnnouncedServe, AnnouncedCrash DEF Next

LEMMA AnnouncedInit ==
  ASSUME Init
  PROVE  Announced
<1>1. PICK s \in Starts : InitChatroom(s.sitting, s.said) /\ \E w \in s.watch : InitNotices(s.device, s.push, w)
  BY DEF Init
<1>2. PICK w \in s.watch : InitNotices(s.device, s.push, w)
  BY <1>1
<1>3. /\ s.device \in [Devices -> Users \cup {Null}] /\ s.push \in BOOLEAN /\ s.watch \subseteq Nat
      /\ s.sitting \subseteq Users /\ s.said \subseteq Talks
  BY StartsAreTidy
<1>4. prefs \in [Users -> Prefs]
  BY <1>2, <1>3 DEF InitNotices, PREFS_DEFAULTS, Prefs
<1>5. /\ subscription \in [Devices -> Users \cup {Null}] /\ gone = {} /\ pushing = {} /\ watched \in Nat /\ event = Null
      /\ notice = [u \in Users |-> 0] /\ rung = [d \in Devices |-> 0]
  BY <1>2, <1>3 DEF InitNotices
<1>6. (\A h \in Handlers : request[h] = Null) /\ served = 0
  BY DEF Init, InitRequests
<1>7. Hearing
  BY <1>4, <1>5, <1>6 DEF Hearing
<1>8. Seated
  BY <1>1, <1>3 DEF Seated, InitChatroom, NewSeat, Seats
<1>9. Numbered /\ Untold
  BY <1>5, <1>6 DEF Numbered, Eventful, Untold
<1>10. QED
  BY <1>5, <1>7, <1>8, <1>9 DEF Announced

LEMMA AnnouncedTells ==
  ASSUME Announced, AllNoted
  PROVE  EveryoneIsTold
<1>1. ASSUME event # Null, ~Telling, NEW u \in Users \ event.changed
      PROVE  /\ notice[u] = Times(u, "inApp")
             /\ \A d \in Devices \ event.moved : event.device[d] = u => rung[d] = Times(u, "push")
  <2>1. ToTell = {} /\ \A p \in pushing : p.event # watched
    BY <1>1, ToldMeans
  <2>2. Fed(ToTell, u) /\ Rung(ToTell, u)
    BY <1>1 DEF Announced, Just
  <2>3. notice[u] \in Nat /\ \A d \in Devices : rung[d] \in Nat
    BY DEF Announced, Hearing
  <2>4. \A s : Owed(ToTell, u, s) = 0
    BY <2>1 DEF Owed, Owes
  <2>5. Rings(u, 1) = 0 /\ Rings(u, 2) = 0
    BY <2>1 DEF Rings
  <2>6. QED
    BY <2>2, <2>3, <2>4, <2>5 DEF Fed, Rung
<1>2. QED
  BY <1>1 DEF EveryoneIsTold

LEMMA EventsAreAnnounced == Spec => []Announced
<1>1. Init => Announced
  BY AnnouncedInit
<1>2. Tree /\ Mentioned /\ Announced /\ [Next]_vars => Announced'
  BY AnnouncedNext DEF Mentioned
<1>3. QED
  BY <1>1, <1>2, TreeIsKept, MentionedIsKept, PTL DEF Spec

(* Once an event has been told, everybody it concerns who wanted to know has it in the
   feed, once, and on each device, once, and nobody else does: whatever requests, pushes,
   settings, devices, mutes and memberships overlap with the telling.  Who changed
   meanwhile may or may not have it, what a crash cut off is owed to nobody, and the
   creator of a task who is also assigned to it has a comment twice (dispatch and sendTo,
   with the notices of tasks, comments and messages). *)
THEOREM EverybodyHears == Spec => []EveryoneIsTold
<1>1. Mentioned /\ Announced => EveryoneIsTold
  BY AnnouncedTells DEF Mentioned
<1>2. QED
  BY <1>1, MentionedIsKept, EventsAreAnnounced, PTL

----------------------------------------------------------------------------
(* Every table keeps its type, whatever requests of whatever parts overlap, and wherever
   the process dies: no handler writes a row that is not whole, or that names a user, list,
   task, file, item or message there never was. *)
THEOREM TablesKeepTheirTypes == Spec => []TypeOK
<1>1. Apart /\ Tree /\ Invited /\ Posted /\ Mentioned /\ Announced /\ served \in 0..MaxRequests => TypeOK
  <2> SUFFICES ASSUME Apart, Tree, Invited, Posted, Mentioned, Announced, served \in 0..MaxRequests PROVE TypeOK
    OBVIOUS
  <2>1. member \in [Users -> MemberRows \cup {Null}] /\ invitations \subseteq Invitations /\ dead \subseteq DOMAIN mailed
    BY DEF Invited, Roster, Typed
  <2>2. /\ list \in [Lists -> Users \cup {Null}] /\ task \in [Tasks -> TaskRows \cup {Null}] /\ clock \in Moments
    BY DEF Tree, Forest, Tables
  <2>3. comment \in [Comments -> CommentRows \cup {Null}] /\ mention \in [Comments -> [Users -> Nat]]
    BY DEF Mentioned, CommentTables
  <2>4. /\ prefs \in [Users -> Prefs] /\ subscription \in [Devices -> Users \cup {Null}]
        /\ seat \in [Users -> Seats \cup {Null}] /\ said \subseteq Talks
    BY DEF Announced, Hearing, Seated
  <2>5. mail \in [Mails -> MailRows \cup {Null}] /\ metadata \subseteq Tasks
    <3>1. mail = [m \in Mails |-> mail[m]] /\ metadata \subseteq Tasks
      BY DEF Apart, Filled, MailTables
    <3>2. \A m \in Mails : mail[m] \in MailRows \cup {Null}
      BY DEF Posted, RowRight
    <3>3. QED
      BY <3>1, <3>2
  <2>6. /\ account \subseteq Users /\ google \subseteq account /\ links \in Seq(LinkRows)
        /\ access \subseteq Lists \X Users /\ used \subseteq Lists \cup Tasks \cup Files \cup Items \cup Comments
        /\ template \in [Templates -> TemplateRows \cup {Null}]
        /\ object \subseteq Files /\ attachment \in [Files -> [task : Tasks, by : Users] \cup {Null}]
        /\ item \in [Items -> ItemRows \cup {Null}]
        /\ reaction \subseteq said \X Users /\ pinned \cup preview \cup fetching \subseteq said
    BY DEF Apart, Filled, AccountTables, ListTables, TemplateTable, FileTables, ItemTable, TalkTables
  <2>7. QED
    BY <2>1, <2>2, <2>3, <2>4, <2>5, <2>6 DEF TypeOK
<1>2. QED
  BY <1>1, TablesAreApart, TreeIsKept, InvitationsAreKept, MailsArePosted, MentionedIsKept, EventsAreAnnounced, PTL
=============================================================================
