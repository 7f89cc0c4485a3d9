---------------------------- MODULE WorkspaceProofs ----------------------------
(***************************************************************************)
(* Proofs about Workspace, for any number of users, handlers, requests,    *)
(* tasks and files.                                                        *)
(*                                                                         *)
(* What a request remembers while others run is what its next statement    *)
(* may rely on.  So the proofs first say which steps a request of each     *)
(* part goes through (Moves), and then what is true at those that matter.  *)
(* The last part is about the types of the tables that no other keeps.     *)
(* NoticesProofs goes on with the comments and with who is told of what.   *)
(***************************************************************************)
EXTENDS Workspace, FiniteSetTheorems, SequenceTheorems, TLAPS

MemberSteps ==
  {"invite", "invite:create", "revoke", "resend",
   "accept", "accept:account", "accept:read", "accept:member", "accept:reactivate", "accept:mark",
   "patch:count", "patch:write", "deactivate:count", "deactivate:tasks", "deactivate:write", "reactivate"}
AccountSteps == {"signup", "google", "forgot", "forgot:commit", "reset"}
TaskSteps ==
  {"list:create", "list:delete", "list:add", "list:remove", "create", "status", "move", "move:subtasks",
   "assign", "remove", "restore", "archive", "unarchive", "lock", "purge"}
TemplateSteps == {"template:create", "template:update", "template:remove", "template:list", "template:task"}
FileSteps == {"file:put", "file:row", "file:delete", "file:unlink"}
ItemSteps == {"item:add", "item:check", "item:remove", "item:order"}
CommentSteps ==
  {"comment:create", "comment:update", "comment:delete",
   "mention:resolve", "mention:create", "mention:read", "mention:sync", "tell"}
MailSteps == {"mail:task", "mail:metadata"}
NoticeSteps == {"prefs", "subscribe", "tell"}
ChatSteps ==
  {"chat:leave", "chat:add", "chat:mute", "chat:mark", "chat:send", "chat:notify",
   "chat:react", "chat:unreact", "chat:pin", "tell"}

(* A request is a record that says where it is. *)
Shape ==
  /\ DOMAIN request = Handlers
  /\ \A h \in Handlers : request[h] # Null => "at" \in DOMAIN request[h]

(* A step of one request, that ends it or takes it to one of these steps. *)
Others(h) == DOMAIN request' = Handlers /\ \A g \in Handlers \ {h} : request'[g] = request[g]

Moves(h, steps) ==
  /\ Others(h)
  /\ request'[h] # Null => "at" \in DOMAIN request'[h] /\ request'[h].at \in steps

----------------------------------------------------------------------------
(* How a request arrives, goes on and ends. *)
LEMMA Answers ==
  ASSUME Shape, NEW h \in Handlers, Answer(h), NEW steps
  PROVE  Moves(h, steps) /\ request'[h] = Null
BY DEF Answer, Shape, Moves, Others

LEMMA Awaits ==
  ASSUME Shape, NEW h \in Handlers, NEW r, Await(h, r)
  PROVE  Others(h) /\ request'[h] = r
BY DEF Await, Shape, Others

LEMMA Takes ==
  ASSUME Shape, NEW h \in Handlers, NEW r, Take(h, r)
  PROVE  Others(h) /\ request'[h] = r /\ request[h] = Null
BY DEF Take, Free, Shape, Others

LEMMA TakesMove ==
  ASSUME Shape, NEW h \in Handlers, NEW steps, NEW r, Take(h, r), "at" \in DOMAIN r, r.at \in steps
  PROVE  Moves(h, steps)
BY Takes DEF Moves

LEMMA Calls ==
  ASSUME Shape, NEW h \in Handlers, NEW u, NEW step, NEW args, Call(h, u, step, args)
  PROVE  /\ Others(h) /\ request[h] = Null
         /\ request'[h] = [at |-> step, by |-> u, on |-> args]
<1>1. Take(h, [at |-> step, by |-> u, on |-> args])
  BY DEF Call
<1>2. QED
  BY <1>1, Takes

LEMMA CallsMove ==
  ASSUME Shape, NEW h \in Handlers, NEW steps, NEW u, NEW step \in steps, NEW args, Call(h, u, step, args)
  PROVE  Moves(h, steps) /\ UNCHANGED taskVars
<1>1. Others(h) /\ request'[h] = [at |-> step, by |-> u, on |-> args]
  BY Calls
<1>2. QED
  BY <1>1 DEF Moves, Call

LEMMA AwaitsMove ==
  ASSUME Shape, NEW h \in Handlers, NEW steps, NEW r, Await(h, r), "at" \in DOMAIN r, r.at \in steps
  PROVE  Moves(h, steps)
BY Awaits DEF Moves

(* The requests of each part keep to its steps. *)
LEMMA AccountsMove ==
  ASSUME Shape, NEW h \in Handlers, SignIn(h)
  PROVE  Moves(h, AccountSteps) /\ UNCHANGED <<member, invitations, mailed, dead, attachmentVars, taskVars>>
<1>1. ASSUME NEW u \in Users, Signup(h, u) PROVE Moves(h, AccountSteps) /\ UNCHANGED memberVars
  BY <1>1, TakesMove DEF Signup, AccountSteps
<1>2. ASSUME NEW u \in Users, LoginWithGoogle(h, u) PROVE Moves(h, AccountSteps) /\ UNCHANGED memberVars
  BY <1>2, TakesMove DEF LoginWithGoogle, AccountSteps
<1>3. ASSUME NEW u \in Users, ForgotPassword(h, u) PROVE Moves(h, AccountSteps) /\ UNCHANGED memberVars
  BY <1>3, TakesMove DEF ForgotPassword, AccountSteps
<1>4. ASSUME NEW l, ResetPassword(h, l) PROVE Moves(h, AccountSteps) /\ UNCHANGED memberVars
  BY <1>4, TakesMove DEF ResetPassword, AccountSteps
<1>5. CASE AccountCreate(h) \/ ForgotCommit(h) \/ ResetCommit(h)
  BY <1>5, Answers DEF SignIn, AccountCreate, ForgotCommit, ResetCommit, memberVars, contentVars
<1>6. CASE ForgotBurn(h)
  BY <1>6, AwaitsMove DEF SignIn, ForgotBurn, AccountSteps, memberVars, contentVars
<1>7. QED
  BY <1>1, <1>2, <1>3, <1>4, <1>5, <1>6 DEF SignIn, AccountsCall, AccountsContinue, memberVars, contentVars

LEMMA TasksCallMoves ==
  ASSUME Shape, NEW h \in Handlers, TasksCall(h)
  PROVE  Moves(h, TaskSteps) /\ UNCHANGED taskVars
<1> DEFINE Goal == Moves(h, TaskSteps) /\ UNCHANGED taskVars
<1>1. ASSUME NEW u, CreateList(h, u) PROVE Goal
  BY <1>1, CallsMove DEF CreateList, TaskSteps
<1>2. ASSUME NEW u, NEW l, DeleteList(h, u, l) PROVE Goal
  BY <1>2, CallsMove DEF DeleteList, TaskSteps
<1>3. ASSUME NEW u, NEW l, NEW m, AddToList(h, u, l, m) \/ RemoveFromList(h, u, l, m) PROVE Goal
  BY <1>3, CallsMove DEF AddToList, RemoveFromList, TaskSteps
<1>4. ASSUME NEW u, NEW l, NEW p, CreateTask(h, u, l, p) PROVE Goal
  BY <1>4, CallsMove DEF CreateTask, TaskSteps
<1>5. ASSUME NEW u, NEW t, NEW x, PatchStatus(h, u, t, x) \/ MoveTask(h, u, t, x) PROVE Goal
  BY <1>5, CallsMove DEF PatchStatus, MoveTask, TaskSteps
<1>6. ASSUME NEW u, NEW t, NEW x, Assign(h, u, t, x) \/ Lock(h, u, t, x) PROVE Goal
  BY <1>6, CallsMove DEF Assign, Lock, TaskSteps
<1>7. ASSUME NEW u, NEW t, NEW f \in Filings, File(h, u, t, f) PROVE Goal
  BY <1>7, CallsMove DEF File, Filings, TaskSteps
<1>8. ASSUME NEW u, NEW t, Purge(h, u, t) PROVE Goal
  BY <1>8, CallsMove DEF Purge, TaskSteps
<1> HIDE DEF Goal
<1>9. Goal
  BY <1>1, <1>2, <1>3, <1>4, <1>5, <1>6, <1>7, <1>8 DEF TasksCall
<1>10. QED
  BY <1>9 DEF Goal

LEMMA TasksMove ==
  ASSUME Shape, NEW h \in Handlers, Board(h)
  PROVE  Moves(h, TaskSteps) /\ UNCHANGED memberVars
<1>1. CASE TasksCall(h)
  BY <1>1, TasksCallMoves DEF Board
<1>2. CASE TasksContinue(h) /\ ~MoveStore(h)
  BY <1>2, Answers DEF Board, TasksContinue, ListCreate, ListDelete, ListAdd, ListRemove, TaskCreate,
     StatusStore, MoveSubtasks, AssignStore, TaskRemove, TaskRestore, TaskArchive, TaskUnarchive,
     TaskLock, TaskPurge
<1>3. CASE MoveStore(h)
  <2>1. CASE Answer(h)
    BY <2>1, Answers DEF Board
  <2>2. CASE Await(h, [request[h] EXCEPT !.at = "move:subtasks"])
    <3>1. request[h] # Null /\ "at" \in DOMAIN request[h]
      BY <1>3 DEF MoveStore, At, Shape
    <3>2. QED
      BY <2>2, <3>1, AwaitsMove DEF Board, TaskSteps
  <2>3. QED
    BY <1>3, <2>1, <2>2 DEF MoveStore
<1>4. QED
  BY <1>1, <1>2, <1>3 DEF Board

LEMMA TemplatesMove ==
  ASSUME Shape, NEW h \in Handlers, TemplatesCall(h) \/ TemplatesContinue(h)
  PROVE  Moves(h, TemplateSteps)
<1>1. ASSUME NEW u, NEW type, NEW shared, NEW data, NewTemplate(h, u, type, shared, data) PROVE Moves(h, TemplateSteps)
  BY <1>1, CallsMove DEF NewTemplate, TemplateSteps
<1>2. ASSUME NEW u, NEW t, NEW data, NEW shared, UpdateTemplate(h, u, t, data, shared) PROVE Moves(h, TemplateSteps)
  BY <1>2, CallsMove DEF UpdateTemplate, TemplateSteps
<1>3. ASSUME NEW u, NEW t, RemoveTemplate(h, u, t) \/ InstantiateList(h, u, t) PROVE Moves(h, TemplateSteps)
  BY <1>3, CallsMove DEF RemoveTemplate, InstantiateList, TemplateSteps
<1>4. ASSUME NEW u, NEW t, NEW l, ApplyTemplate(h, u, t, l) PROVE Moves(h, TemplateSteps)
  BY <1>4, CallsMove DEF ApplyTemplate, TemplateSteps
<1>5. ASSUME NEW l, NEW rest, Onward(h, l, rest) PROVE Moves(h, TemplateSteps)
  BY <1>5, AwaitsMove, Answers DEF Onward, TemplateSteps
<1>6. CASE TemplatesContinue(h)
  <2>1. CASE TemplateCreate(h) \/ TemplateUpdate(h) \/ TemplateRemove(h)
    BY <2>1, Answers DEF TemplateCreate, TemplateUpdate, TemplateRemove
  <2>2. CASE TemplateList(h)
    <3>1. PICK l : Onward(h, l, On(h).data)
      BY <2>2 DEF TemplateList
    <3>2. QED
      BY <3>1, <1>5
  <2>3. CASE TemplateTask(h) /\ ~Answer(h)
    <3>1. Onward(h, On(h).list, Tail(On(h).data))
      BY <2>3 DEF TemplateTask
    <3>2. QED
      BY <3>1, <1>5
  <2>4. QED
    BY <1>6, <2>1, <2>2, <2>3, Answers DEF TemplatesContinue
<1>7. ASSUME NEW u, NEW t, NEW shared, SaveTask(h, u, t, shared) \/ SaveList(h, u, t, shared) PROVE Moves(h, TemplateSteps)
  BY <1>1, <1>7 DEF SaveTask, SaveList
<1>8. ASSUME NEW u, NEW t, DuplicateTemplate(h, u, t) PROVE Moves(h, TemplateSteps)
  BY <1>1, <1>8 DEF DuplicateTemplate
<1>9. ASSUME NEW u, NEW type, NEW shared, NEW d, CreateTemplate(h, u, type, shared, d) PROVE Moves(h, TemplateSteps)
  BY <1>1, <1>9 DEF CreateTemplate
<1>10. CASE TemplatesCall(h)
  <2>1. \/ \E u, type, shared, d : CreateTemplate(h, u, type, shared, d)
        \/ \E u, t, shared : SaveTask(h, u, t, shared) \/ SaveList(h, u, t, shared)
        \/ \E u, t : DuplicateTemplate(h, u, t) \/ RemoveTemplate(h, u, t) \/ InstantiateList(h, u, t)
        \/ \E u, t, l : ApplyTemplate(h, u, t, l)
        \/ \E u, t, d, shared : UpdateTemplate(h, u, t, d, shared)
    BY <1>10 DEF TemplatesCall
  <2>2. CASE \E u, type, shared, d : CreateTemplate(h, u, type, shared, d)
    BY <2>2, <1>9
  <2>3. CASE \E u, t, shared : SaveTask(h, u, t, shared) \/ SaveList(h, u, t, shared)
    BY <2>3, <1>7
  <2>4. CASE \E u, t : DuplicateTemplate(h, u, t) \/ RemoveTemplate(h, u, t) \/ InstantiateList(h, u, t)
    BY <2>4, <1>3, <1>8
  <2>5. CASE \E u, t, l : ApplyTemplate(h, u, t, l)
    BY <2>5, <1>4
  <2>6. CASE \E u, t, d, shared : UpdateTemplate(h, u, t, d, shared)
    BY <2>6, <1>2
  <2>7. QED
    BY <2>1, <2>2, <2>3, <2>4, <2>5, <2>6
<1>11. QED
  BY <1>6, <1>10

LEMMA AttachmentsMove ==
  ASSUME Shape, NEW h \in Handlers, AttachmentsCall(h) \/ AttachmentsContinue(h)
  PROVE  Moves(h, FileSteps)
<1>1. ASSUME NEW u, NEW t, Upload(h, u, t) PROVE Moves(h, FileSteps)
  BY <1>1, CallsMove DEF Upload, FileSteps
<1>2. ASSUME NEW u, NEW f, RemoveFile(h, u, f) PROVE Moves(h, FileSteps)
  BY <1>2, CallsMove DEF RemoveFile, FileSteps
<1>3. ASSUME NEW f, At(h, "file:put"), ToRow(h, f) PROVE Moves(h, FileSteps)
  <2>1. "at" \in DOMAIN request[h]
    BY <1>3 DEF At, Shape
  <2>2. QED
    BY <1>3, <2>1, AwaitsMove DEF ToRow, FileSteps
<1>4. CASE RemoveObject(h)
  <2>1. "at" \in DOMAIN request[h]
    BY <1>4 DEF RemoveObject, At, Shape
  <2>2. QED
    BY <1>4, <2>1, AwaitsMove DEF RemoveObject, FileSteps
<1>5. CASE UploadPut(h)
  BY <1>3, <1>5, Answers DEF UploadPut
<1>6. CASE UploadRow(h) \/ RemoveRow(h)
  BY <1>6, Answers DEF UploadRow, RemoveRow
<1>7. QED
  BY <1>1, <1>2, <1>4, <1>5, <1>6 DEF AttachmentsCall, AttachmentsContinue

LEMMA ChecklistsMove ==
  ASSUME Shape, NEW h \in Handlers, ChecklistsCall(h) \/ ChecklistsContinue(h)
  PROVE  Moves(h, ItemSteps)
<1>1. ASSUME NEW u, NEW t, AddItem(h, u, t) PROVE Moves(h, ItemSteps)
  BY <1>1, CallsMove DEF AddItem, ItemSteps
<1>2. ASSUME NEW u, NEW i, NEW on, CheckItem(h, u, i, on) PROVE Moves(h, ItemSteps)
  BY <1>2, CallsMove DEF CheckItem, ItemSteps
<1>3. ASSUME NEW u, NEW i, RemoveItem(h, u, i) PROVE Moves(h, ItemSteps)
  BY <1>3, CallsMove DEF RemoveItem, ItemSteps
<1>4. ASSUME NEW u, NEW t, NEW ids, Reorder(h, u, t, ids) PROVE Moves(h, ItemSteps)
  BY <1>4, CallsMove DEF Reorder, ItemSteps
<1>5. CASE ItemAdd(h) \/ ItemCheck(h) \/ ItemRemove(h) \/ ReorderCommit(h) \/ GivenUp(h)
  BY <1>5, Answers DEF ItemAdd, ItemCheck, ItemRemove, ReorderCommit, GivenUp
<1>6. CASE ReorderItem(h)
  <2>1. "at" \in DOMAIN request[h] /\ request[h].at = "item:order"
    BY <1>6 DEF ReorderItem, At, Shape
  <2> DEFINE r == [request[h] EXCEPT !.on.rest = Tail(@), !.on.held = On(h).held \cup {Upcoming(h)}]
  <2>2. "at" \in DOMAIN r /\ r.at = "item:order"
    BY <2>1
  <2>3. Await(h, r)
    BY <1>6 DEF ReorderItem, Updated
  <2> HIDE DEF r
  <2>4. QED
    BY <2>2, <2>3, AwaitsMove DEF ItemSteps
<1>7. QED
  BY <1>1, <1>2, <1>3, <1>4, <1>5, <1>6 DEF ChecklistsCall, ChecklistsContinue

LEMMA TellMoves ==
  ASSUME Shape, NEW h \in Handlers, NEW e, NEW first, NEW next, Tell(h, e, first, next)
  PROVE  Moves(h, {"tell"})
<1> DEFINE on == IF first = {} THEN [event |-> e, first |-> next, next |-> {}]
                 ELSE [event |-> e, first |-> first, next |-> next]
           r == [at |-> "tell", by |-> By(h), on |-> on]
<1>1. "at" \in DOMAIN r /\ r.at \in {"tell"}
  OBVIOUS
<1>2. Answer(h) \/ Await(h, r)
  BY DEF Tell
<1> HIDE DEF r
<1>3. QED
  BY <1>1, <1>2, Answers, AwaitsMove

LEMMA CommentsMove ==
  ASSUME Shape, NEW h \in Handlers, CommentsCall(h) \/ CommentsContinue(h)
  PROVE  Moves(h, CommentSteps)
<1>1. ASSUME NEW u, NEW t, NEW names, Comment(h, u, t, names) PROVE Moves(h, CommentSteps)
  BY <1>1, CallsMove DEF Comment, CommentSteps
<1>2. ASSUME NEW u, NEW c, NEW names, EditComment(h, u, c, names) PROVE Moves(h, CommentSteps)
  BY <1>2, CallsMove DEF EditComment, CommentSteps
<1>3. ASSUME NEW u, NEW c, RemoveComment(h, u, c) PROVE Moves(h, CommentSteps)
  BY <1>3, CallsMove DEF RemoveComment, CommentSteps
<1>4. ASSUME NEW c, NEW author, NEW followers, NEW edit, Write(h, c, author, followers, edit)
      PROVE Moves(h, CommentSteps)
  BY <1>4, AwaitsMove DEF Write, CommentSteps
<1>5. CASE CommentCreate(h)
  BY <1>4, <1>5, Answers DEF CommentCreate
<1>6. CASE CommentUpdate(h)
  BY <1>4, <1>6, Answers DEF CommentUpdate
<1>7. CASE CommentDelete(h)
  BY <1>7, Answers DEF CommentDelete
<1>8. CASE MentionResolve(h)
  BY <1>8, AwaitsMove DEF MentionResolve, CommentSteps
<1>9. CASE MentionCreate(h) \/ MentionSync(h)
  <2>1. Answer(h) \/ \E e, first, next : Tell(h, e, first, next)
    BY <1>9 DEF MentionCreate, MentionSync
  <2>2. QED
    BY <2>1, Answers, TellMoves DEF Moves, CommentSteps
<1>10. CASE MentionRead(h)
  <2>1. "at" \in DOMAIN request[h]
    BY <1>10 DEF MentionRead, At, Shape
  <2> DEFINE have == {u \in Users : mention[On(h).comment][u] > 0}
             r == [request[h] EXCEPT !.at = "mention:sync",
                     !.on = [comment |-> @.comment, want |-> @.want, have |-> have, event |-> @.event]]
  <2>2. "at" \in DOMAIN r /\ r.at = "mention:sync"
    BY <2>1
  <2>3. Await(h, r)
    BY <1>10 DEF MentionRead
  <2> HIDE DEF r
  <2>4. QED
    BY <2>2, <2>3, AwaitsMove DEF CommentSteps
<1>11. CASE CommentsCall(h)
  BY <1>1, <1>2, <1>3, <1>11 DEF CommentsCall
<1>12. QED
  BY <1>5, <1>6, <1>7, <1>8, <1>9, <1>10, <1>11 DEF CommentsContinue

LEMMA MailsMove ==
  ASSUME Shape, NEW h \in Handlers, (\E m \in Mails : Ingest(h, m)) \/ MailTask(h) \/ MailMetadata(h)
  PROVE  Moves(h, MailSteps)
<1>1. ASSUME NEW m, Ingest(h, m) PROVE Moves(h, MailSteps)
  <2>1. CASE UNCHANGED request
    BY <1>1, <2>1 DEF Ingest, Free, Moves, Others, Shape
  <2>2. CASE \E u, args : Call(h, u, "mail:task", args)
    BY <2>2, CallsMove DEF MailSteps
  <2>3. QED
    BY <1>1, <2>1, <2>2 DEF Ingest
<1>2. CASE MailTask(h)
  <2>1. Answer(h) \/ \E args, u : Await(h, [at |-> "mail:metadata", by |-> u, on |-> args])
    BY <1>2 DEF MailTask
  <2>2. QED
    BY <2>1, Answers, AwaitsMove DEF MailSteps
<1>3. CASE MailMetadata(h)
  BY <1>3, Answers DEF MailMetadata
<1>4. QED
  BY <1>1, <1>2, <1>3

LEMMA NoticesMove ==
  ASSUME Shape, NEW h \in Handlers, NoticesCall(h) \/ NoticesContinue(h)
  PROVE  Moves(h, NoticeSteps)
<1>1. ASSUME NEW u, NEW patch, UpdatePrefs(h, u, patch) PROVE Moves(h, NoticeSteps)
  BY <1>1, CallsMove DEF UpdatePrefs, NoticeSteps
<1>2. ASSUME NEW u, NEW d, Subscribe(h, u, d) \/ Unsubscribe(h, u, d) PROVE Moves(h, NoticeSteps)
  BY <1>2, CallsMove DEF Subscribe, Unsubscribe, NoticeSteps
<1>3. ASSUME NEW u, NEW us, NEW channel, Announce(h, u, us, channel) PROVE Moves(h, NoticeSteps)
  BY <1>3, CallsMove DEF Announce, NoticeSteps
<1>4. ASSUME NEW u, NEW t, NotifyAssigned(h, u, t) \/ NotifyStatusChanged(h, u, t) PROVE Moves(h, NoticeSteps)
  BY <1>3, <1>4 DEF NotifyAssigned, NotifyStatusChanged
<1>5. CASE PrefsStore(h) \/ DeviceStore(h)
  BY <1>5, Answers DEF PrefsStore, DeviceStore
<1>6. CASE Dispatch(h)
  <2>1. \E e, first, next : Tell(h, e, first, next)
    BY <1>6 DEF Dispatch, DispatchRead, DispatchWrite
  <2>2. QED
    BY <2>1, TellMoves DEF Moves, NoticeSteps
<1>7. CASE NoticesCall(h)
  BY <1>1, <1>2, <1>4, <1>7 DEF NoticesCall
<1>8. QED
  BY <1>5, <1>6, <1>7 DEF NoticesContinue

LEMMA ChatroomMove ==
  ASSUME Shape, NEW h \in Handlers, ChatroomCall(h) \/ ChatroomContinue(h)
  PROVE  Moves(h, ChatSteps)
<1>1. ASSUME NEW u, NEW step \in ChatSteps, NEW args, Chat(h, u, step, args) PROVE Moves(h, ChatSteps)
  BY <1>1, CallsMove DEF Chat
<1>2. ASSUME NEW u, Leave(h, u) \/ MarkRead(h, u) PROVE Moves(h, ChatSteps)
  BY <1>1, <1>2 DEF Leave, MarkRead, ChatSteps
<1>3. ASSUME NEW u, NEW x, AddMember(h, u, x) \/ Mute(h, u, x) \/ SendMessage(h, u, x) PROVE Moves(h, ChatSteps)
  BY <1>1, <1>3 DEF AddMember, Mute, SendMessage, ChatSteps
<1>4. ASSUME NEW u, NEW m, AddReaction(h, u, m) \/ RemoveReaction(h, u, m) \/ TogglePin(h, u, m)
      PROVE Moves(h, ChatSteps)
  BY <1>1, <1>4 DEF AddReaction, RemoveReaction, TogglePin, ChatSteps
<1>5. CASE SeatStore(h) \/ MarkStore(h)
  BY <1>5, Answers DEF SeatStore, MarkStore
<1>6. CASE MessageStore(h)
  <2>1. "at" \in DOMAIN request[h]
    BY <1>6 DEF MessageStore, At, Shape
  <2>2. Answer(h) \/ Await(h, [request[h] EXCEPT !.at = "chat:notify"])
    BY <1>6 DEF MessageStore
  <2>3. QED
    BY <2>1, <2>2, Answers, AwaitsMove DEF ChatSteps
<1>7. CASE NotifyParticipants(h)
  <2>1. \E e, first, next : Tell(h, e, first, next)
    BY <1>7 DEF NotifyParticipants
  <2>2. QED
    BY <2>1, TellMoves DEF Moves, ChatSteps
<1>8. CASE ChatroomCall(h)
  BY <1>2, <1>3, <1>4, <1>8 DEF ChatroomCall
<1>9. QED
  BY <1>5, <1>6, <1>7, <1>8 DEF ChatroomContinue

LEMMA MembersMove ==
  ASSUME Shape, NEW h \in Handlers, Members(h)
  PROVE  Moves(h, MemberSteps)
<1>1. ASSUME NEW u, NEW r, Invite(h, u, r) \/ PatchRole(h, u, r) PROVE Moves(h, MemberSteps)
  BY <1>1, TakesMove DEF Invite, PatchRole, MemberSteps
<1>2. ASSUME NEW u, Deactivate(h, u) \/ Reactivate(h, u) PROVE Moves(h, MemberSteps)
  BY <1>2, TakesMove DEF Deactivate, Reactivate, MemberSteps
<1>3. ASSUME NEW t, Revoke(h, t) \/ Resend(h, t) \/ Accept(h, t) PROVE Moves(h, MemberSteps)
  BY <1>3, TakesMove DEF Revoke, Resend, Accept, MemberSteps
<1>4. ASSUME NEW step \in MemberSteps, NEW next \in MemberSteps,
             At(h, step), Await(h, [request[h] EXCEPT !.at = next])
      PROVE  Moves(h, MemberSteps)
  BY <1>4, AwaitsMove DEF At, Shape
<1>5. CASE MembersCall(h)
  BY <1>1, <1>2, <1>3, <1>5 DEF MembersCall
<1>6. CASE InviteSupersede(h) \/ AcceptReactivate(h)
  BY <1>4, <1>6 DEF InviteSupersede, AcceptReactivate, MemberSteps
<1>7. CASE InviteCreate(h) \/ RevokeDelete(h) \/ ResendRotate(h) \/ AcceptMark(h)
        \/ PatchWrite(h) \/ DeactivateWrite(h) \/ ReactivateWrite(h)
  BY <1>7, Answers DEF InviteCreate, RevokeDelete, ResendRotate, AcceptMark, PatchWrite, DeactivateWrite,
     ReactivateWrite
<1>8. CASE AcceptAccount(h) \/ AcceptCreateAccount(h) \/ AcceptCreateMember(h)
  BY <1>4, <1>8, Answers DEF AcceptAccount, AcceptCreateAccount, AcceptCreateMember, MemberSteps
<1>9. CASE AcceptReadMember(h)
  BY <1>9, AwaitsMove DEF AcceptReadMember, MemberSteps
<1>10. CASE DeactivateTasks(h, OpenTasks(request[h].user))
  BY <1>4, <1>10, Answers DEF DeactivateTasks, MemberSteps
<1>11. ASSUME NEW seen, At(h, "patch:count") \/ At(h, "deactivate:count"), NEW next \in MemberSteps,
              Await(h, [request[h] EXCEPT !.at = next, !.seen = seen])
       PROVE  Moves(h, MemberSteps)
  <2> DEFINE r == [request[h] EXCEPT !.at = next, !.seen = seen]
  <2>1. "at" \in DOMAIN r /\ r.at \in MemberSteps
    BY <1>11 DEF At, Shape
  <2> HIDE DEF r
  <2>2. QED
    BY <1>11, <2>1, AwaitsMove DEF r
<1>12. CASE PatchCount(h) \/ DeactivateCount(h)
  BY <1>11, <1>12, Answers DEF PatchCount, DeactivateCount, MemberSteps
<1>13. QED
  BY <1>5, <1>6, <1>7, <1>8, <1>9, <1>10, <1>12 DEF Members, MembersContinue

(* A step of the workspace: of a request on the members, of one on the files, of another
   request, or of none. *)
RestSteps == AccountSteps \cup TaskSteps \cup TemplateSteps \cup ItemSteps \cup CommentSteps
             \cup MailSteps \cup NoticeSteps \cup ChatSteps

roster == <<member, invitations, mailed, dead>>

OfMembers(h) == Members(h) /\ Moves(h, MemberSteps) /\ UNCHANGED attachmentVars
OfFiles(h) ==
  (AttachmentsCall(h) \/ AttachmentsContinue(h)) /\ Moves(h, FileSteps) /\ UNCHANGED roster
OfRest(h) == Moves(h, RestSteps) /\ (AttachmentsFollow \/ UNCHANGED attachmentVars) /\ UNCHANGED roster

Idle ==
  /\ UNCHANGED request \/ request' = [h \in Handlers |-> Null]
  /\ AttachmentsFollow \/ UNCHANGED attachmentVars
  /\ UNCHANGED roster \/ \E v \in invitations : Expire(v)

LEMMA ContentSteps ==
  ASSUME Shape, NEW h \in Handlers, Content(h)
  PROVE  OfFiles(h) \/ OfRest(h)
<1>1. UNCHANGED roster
  BY DEF Content, memberVars, roster
<1>2. CASE AttachmentsCall(h) \/ AttachmentsContinue(h)
  BY <1>1, <1>2, AttachmentsMove DEF OfFiles
<1>3. CASE (TemplatesCall(h) \/ TemplatesContinue(h)) /\ UNCHANGED attachmentVars
  BY <1>1, <1>3, TemplatesMove DEF OfRest, RestSteps, Moves
<1>4. CASE (ChecklistsCall(h) \/ ChecklistsContinue(h)) /\ UNCHANGED attachmentVars
  BY <1>1, <1>4, ChecklistsMove DEF OfRest, RestSteps, Moves
<1>5. CASE (CommentsCall(h) \/ CommentsContinue(h)) /\ UNCHANGED attachmentVars
  BY <1>1, <1>5, CommentsMove DEF OfRest, RestSteps, Moves
<1>6. CASE ((\E m \in Mails : Ingest(h, m)) \/ MailTask(h) \/ MailMetadata(h)) /\ UNCHANGED attachmentVars
  BY <1>1, <1>6, MailsMove DEF OfRest, RestSteps, Moves
<1>7. CASE (NoticesCall(h) \/ NoticesContinue(h)) /\ UNCHANGED attachmentVars
  BY <1>1, <1>7, NoticesMove DEF OfRest, RestSteps, Moves
<1>8. CASE (ChatroomCall(h) \/ ChatroomContinue(h)) /\ UNCHANGED attachmentVars
  BY <1>1, <1>8, ChatroomMove DEF OfRest, RestSteps, Moves
<1>9. QED
  BY <1>2, <1>3, <1>4, <1>5, <1>6, <1>7, <1>8 DEF Content

LEMMA Steps ==
  ASSUME Shape, [Next]_vars
  PROVE  Idle \/ \E h \in Handlers : OfMembers(h) \/ OfFiles(h) \/ OfRest(h)
<1>1. ASSUME NEW h \in Handlers, Members(h) PROVE OfMembers(h)
  BY <1>1, MembersMove DEF OfMembers, Members
<1>2. ASSUME NEW h \in Handlers, SignIn(h) PROVE OfRest(h)
  BY <1>2, AccountsMove DEF OfRest, RestSteps, Moves, roster
<1>3. ASSUME NEW h \in Handlers, Board(h) PROVE OfRest(h)
  BY <1>3, TasksMove DEF OfRest, RestSteps, Moves, roster, memberVars, Board, Cascade
<1>4. CASE Time
  <2>1. CASE \E v \in invitations : Expire(v) /\ UNCHANGED <<accountVars, taskVars, contentVars>>
    BY <2>1 DEF Expire, Idle, contentVars
  <2>2. CASE \E l \in DOMAIN links : ExpireLink(l) /\ UNCHANGED <<taskVars, contentVars>>
    BY <2>2 DEF ExpireLink, Idle, contentVars, roster, memberVars
  <2>3. CASE (AutoArchive \/ TrashCleanup \/ Tick) /\ Cascade /\ UNCHANGED <<memberVars, accountVars>>
    BY <2>3 DEF AutoArchive, TrashCleanup, Tick, Cascade, Idle, roster, memberVars
  <2>4. QED
    BY <1>4, <2>1, <2>2, <2>3 DEF Time
<1>5. CASE Mailing \/ Pushing \/ Chatting
  BY <1>5 DEF Mailing, SendMail, Pushing, Pushes, Forget, Chatting, Background, MuteEnds, AttachLinkPreview,
     Idle, roster, memberVars
<1>6. CASE Crash
  BY <1>6 DEF Crash, Die, Idle, roster, memberVars
<1>7. CASE UNCHANGED vars
  BY <1>7 DEF vars, contentVars, Idle, roster, memberVars
<1>8. QED
  BY <1>1, <1>2, <1>3, <1>4, <1>5, <1>6, <1>7, ContentSteps DEF Next, Serve

LEMMA ShapeStays ==
  ASSUME Shape, [Next]_vars
  PROVE  Shape'
<1>1. CASE Idle
  BY <1>1 DEF Idle, Shape
<1>2. ASSUME NEW h \in Handlers, OfMembers(h) \/ OfFiles(h) \/ OfRest(h) PROVE Shape'
  BY <1>2 DEF OfMembers, OfFiles, OfRest, Moves, Others, Shape
<1>3. QED
  BY <1>1, <1>2, Steps

----------------------------------------------------------------------------
(* The files.  An upload that is about to store its row has stored its object, and an
   object goes only when its removal has begun. *)
Uploaded ==
  \A h \in Handlers : request[h] # Null /\ request[h].at \in FileSteps =>
    /\ DOMAIN request[h] = {"at", "by", "on"}
    /\ request[h].at = "file:row" => request[h].on.file \in object \cup removing

FilesKept == Shape /\ DOMAIN attachment = Files /\ Uploaded /\ RowsHaveObjects

(* A step of another part leaves objects and rows alone; at most, rows go with their task. *)
LEMMA FilesElsewhere ==
  ASSUME FilesKept, Shape', AttachmentsFollow \/ UNCHANGED attachmentVars,
         \A g \in Handlers : request'[g] # Null /\ request'[g].at \in FileSteps => request'[g] = request[g]
  PROVE  FilesKept'
<1>1. UNCHANGED <<object, removing>>
  BY DEF AttachmentsFollow, attachmentVars
<1>2. Uploaded'
  BY <1>1 DEF FilesKept, Uploaded
<1>3. DOMAIN attachment' = Files /\ \A f \in Files : attachment'[f] # Null => attachment[f] # Null
  BY DEF FilesKept, AttachmentsFollow, attachmentVars
<1>4. RowsHaveObjects'
  BY <1>1, <1>3 DEF FilesKept, RowsHaveObjects
<1>5. QED
  BY <1>2, <1>3, <1>4 DEF FilesKept

(* What a step of one request on files has to show: its own promise, and that objects
   go only into removal. *)
LEMMA FilesOfOne ==
  ASSUME FilesKept, Shape', NEW h \in Handlers, Moves(h, FileSteps),
         object \cup removing \subseteq object' \cup removing',
         request'[h] # Null =>
           /\ DOMAIN request'[h] = {"at", "by", "on"}
           /\ request'[h].at = "file:row" => request'[h].on.file \in object' \cup removing'
  PROVE  Uploaded'
BY DEF FilesKept, Uploaded, Moves, Others

LEMMA FilesStep ==
  ASSUME FilesKept, Shape', NEW h \in Handlers, OfFiles(h)
  PROVE  FilesKept'
<1>1. Moves(h, FileSteps)
  BY DEF OfFiles
<1>2. ASSUME NEW u, NEW step, NEW args, Call(h, u, step, args), step # "file:row", UNCHANGED attachmentVars
      PROVE  FilesKept'
  <2>1. request'[h] = [at |-> step, by |-> u, on |-> args]
    BY <1>2, Calls DEF FilesKept
  <2>2. Uploaded'
    BY <1>1, <1>2, <2>1, FilesOfOne DEF attachmentVars
  <2>3. QED
    BY <1>2, <2>2 DEF FilesKept, RowsHaveObjects, attachmentVars
<1>3. ASSUME NEW u, NEW t, NEW f, Upload(h, u, t) \/ RemoveFile(h, u, f) PROVE FilesKept'
  BY <1>2, <1>3 DEF Upload, RemoveFile
<1>4. CASE UploadPut(h)
  <2>1. UNCHANGED <<attachment, removing>> /\ object \subseteq object'
    BY <1>4 DEF UploadPut
  <2>2. CASE Answer(h)
    BY <1>1, <2>1, <2>2, Answers, FilesOfOne DEF FilesKept, RowsHaveObjects
  <2>3. CASE \E f : f \in object' /\ At(h, "file:put") /\ ToRow(h, f)
    <3>1. PICK f : f \in object' /\ At(h, "file:put") /\ ToRow(h, f)
      BY <2>3
    <3>2. request'[h] = [request[h] EXCEPT !.at = "file:row", !.on = [task |-> @.task, file |-> f]]
      BY <3>1, Awaits DEF ToRow, FilesKept
    <3>3. DOMAIN request[h] = {"at", "by", "on"}
      BY <3>1 DEF FilesKept, Uploaded, At, FileSteps
    <3>4. DOMAIN request'[h] = {"at", "by", "on"} /\ request'[h].on.file = f
      BY <3>2, <3>3
    <3>5. QED
      BY <1>1, <2>1, <3>1, <3>4, FilesOfOne DEF FilesKept, RowsHaveObjects
  <2>4. QED
    BY <1>4, <2>2, <2>3 DEF UploadPut
<1>5. CASE UploadRow(h)
  <2>1. UNCHANGED <<object, removing>> /\ On(h).file \in object \cup removing
    BY <1>5 DEF UploadRow, At, FilesKept, Uploaded, FileSteps, On
  <2>2. Uploaded'
    BY <1>1, <1>5, <2>1, Answers, FilesOfOne DEF UploadRow, FilesKept
  <2>3. DOMAIN attachment' = Files /\ \A f \in Files : attachment'[f] # Null => f = On(h).file \/ attachment[f] # Null
    BY <1>5 DEF UploadRow, FilesKept
  <2>4. RowsHaveObjects'
    BY <2>1, <2>3 DEF FilesKept, RowsHaveObjects
  <2>5. QED
    BY <2>2, <2>3, <2>4 DEF FilesKept
<1>6. CASE RemoveObject(h)
  <2>1. UNCHANGED attachment /\ object \cup removing \subseteq object' \cup removing'
    BY <1>6 DEF RemoveObject
  <2>2. request'[h] = [request[h] EXCEPT !.at = "file:unlink"]
    BY <1>6, Awaits DEF RemoveObject, FilesKept
  <2>3. DOMAIN request[h] = {"at", "by", "on"}
    BY <1>6 DEF RemoveObject, FilesKept, Uploaded, At, FileSteps
  <2>4. QED
    BY <1>1, <2>1, <2>2, <2>3, FilesOfOne DEF FilesKept, RowsHaveObjects
<1>7. CASE RemoveRow(h)
  <2>1. UNCHANGED <<object, removing>> /\ request'[h] = Null
    BY <1>7, Answers DEF RemoveRow, FilesKept
  <2>2. Uploaded'
    BY <1>1, <2>1, FilesOfOne
  <2>3. DOMAIN attachment' = Files /\ \A f \in Files : attachment'[f] # Null => attachment[f] # Null
    BY <1>7 DEF RemoveRow, FilesKept
  <2>4. RowsHaveObjects'
    BY <2>1, <2>3 DEF FilesKept, RowsHaveObjects
  <2>5. QED
    BY <2>2, <2>3, <2>4 DEF FilesKept
<1>8. QED
  BY <1>3, <1>4, <1>5, <1>6, <1>7 DEF OfFiles, AttachmentsCall, AttachmentsContinue

LEMMA FilesAreKept == Spec => []FilesKept
<1>1. Init => FilesKept
  BY DEF Init, InitRequests, InitAttachments, FilesKept, Shape, Uploaded, RowsHaveObjects
<1>2. FilesKept /\ [Next]_vars => FilesKept'
  <2> SUFFICES ASSUME FilesKept, [Next]_vars PROVE FilesKept'
    OBVIOUS
  <2>1. Shape /\ Shape'
    BY ShapeStays DEF FilesKept
  <2>2. CASE Idle
    BY <2>1, <2>2, FilesElsewhere DEF Idle
  <2>3. ASSUME NEW h \in Handlers, NEW steps, Moves(h, steps), steps \cap FileSteps = {},
               AttachmentsFollow \/ UNCHANGED attachmentVars
        PROVE  FilesKept'
    BY <2>1, <2>3, FilesElsewhere DEF Moves, Others
  <2>4. MemberSteps \cap FileSteps = {} /\ RestSteps \cap FileSteps = {}
    BY DEF MemberSteps, FileSteps, RestSteps, AccountSteps, TaskSteps, TemplateSteps, ItemSteps, CommentSteps,
       MailSteps, NoticeSteps, ChatSteps
  <2>5. QED
    BY <2>1, <2>2, <2>3, <2>4, FilesStep, Steps DEF OfMembers, OfRest
<1>3. QED
  BY <1>1, <1>2, PTL DEF Spec

(* Whoever uploads, removes or deletes, in whatever order, and wherever the process dies:
   an attachment's row always has its object, unless its removal was asked for. *)
THEOREM AttachmentsHaveObjects == Spec => []RowsHaveObjects
<1>1. FilesKept => RowsHaveObjects
  BY DEF FilesKept
<1>2. QED
  BY <1>1, FilesAreKept, PTL

----------------------------------------------------------------------------
(* The invitations.  What the requests on members remember, by their steps. *)
MemberRequests ==
  [at : {"invite", "invite:create"}, user : Users, role : Roles]
  \cup [at : {"revoke", "resend"}, id : Nat]
  \cup [at : {"accept", "accept:account", "accept:read"}, inv : Invitations]
  \cup [at : {"accept:member", "accept:reactivate", "accept:mark"}, inv : Invitations, seen : SUBSET Users]
  \cup [at : {"patch:count", "patch:write"}, user : Users, role : Roles, seen : SUBSET Users]
  \cup [at : {"deactivate:count", "deactivate:tasks", "deactivate:write"}, user : Users, seen : SUBSET Users]
  \cup [at : {"reactivate"}, user : Users]

ChangeSteps ==
  {"patch:count", "patch:write", "deactivate:count", "deactivate:tasks", "deactivate:write", "reactivate"}
AcceptSteps ==
  {"accept", "accept:account", "accept:read", "accept:member", "accept:reactivate", "accept:mark"}

(* A request that changes a member has found one; one that accepts an invitation holds
   the invitation that the mail with its id was sent for, and marks it only once its user
   is a member. *)
Sound(r) ==
  /\ r \in MemberRequests
  /\ r.at \in ChangeSteps => member[r.user] # Null
  /\ r.at \in AcceptSteps => r.inv.id \in DOMAIN mailed /\ mailed[r.inv.id].user = r.inv.user
  /\ r.at = "accept:mark" => member[r.inv.user] # Null

RequestsSound ==
  \A h \in Handlers : request[h] # Null /\ request[h].at \in MemberSteps => Sound(request[h])

Typed ==
  /\ member \in [Users -> MemberRows \cup {Null}] /\ invitations \subseteq Invitations
  /\ mailed \in Seq([user : Users, id : Nat]) /\ dead \subseteq DOMAIN mailed

(* An invitation's id and its token are mails, to its user and about it; no two have an id. *)
Mailed(i) ==
  /\ i.id \in DOMAIN mailed /\ mailed[i.id].user = i.user
  /\ i.token \in DOMAIN mailed /\ mailed[i.token].user = i.user /\ mailed[i.token].id = i.id

Records ==
  /\ \A i \in invitations : Mailed(i)
  /\ \A i, j \in invitations : i.id = j.id => i = j

Roster == Typed /\ Records /\ AcceptedMeansMember /\ DeadLinksStayDead

Invited == Shape /\ RequestsSound /\ Roster

(* Mails are only added, and members never removed. *)
Grows ==
  /\ \A t \in DOMAIN mailed : t \in DOMAIN mailed' /\ mailed'[t] = mailed[t]
  /\ \A u \in Users : member[u] # Null => member'[u] # Null

LEMMA SoundStays ==
  ASSUME Grows, NEW r, Sound(r)
  PROVE  Sound(r)'
<1>1. r.at \in ChangeSteps => r.user \in Users
  BY DEF Sound, MemberRequests, ChangeSteps
<1>2. r.at \in AcceptSteps => r.inv \in Invitations
  BY DEF Sound, MemberRequests, AcceptSteps
<1>3. QED
  BY <1>1, <1>2 DEF Sound, Grows, AcceptSteps, Invitations

(* A mail that is sent is a new one. *)
LEMMA Sends ==
  ASSUME Typed, NEW u \in Users, NEW i \in Nat, Send(u, i)
  PROVE  /\ mailed' \in Seq([user : Users, id : Nat])
         /\ DOMAIN mailed' = DOMAIN mailed \cup {Len(mailed) + 1}
         /\ Len(mailed) + 1 \in Nat \ DOMAIN mailed
         /\ mailed'[Len(mailed) + 1] = [user |-> u, id |-> i]
         /\ \A t \in DOMAIN mailed : mailed'[t] = mailed[t]
BY DEF Typed, Send

(* A step that does nothing to the tables. *)
LEMMA RosterStays ==
  ASSUME Roster, UNCHANGED roster
  PROVE  Roster' /\ Grows
BY DEF Roster, roster, Typed, Records, Mailed, AcceptedMeansMember, DeadLinksStayDead, Grows

(* What a step of one request has to show. *)
LEMMA SoundOfOne ==
  ASSUME Invited, Shape', Grows, NEW h \in Handlers, Others(h),
         request'[h] # Null /\ request'[h].at \in MemberSteps => Sound(request[h])'
  PROVE  RequestsSound'
<1>1. \A g \in Handlers \ {h} : request'[g] # Null /\ request'[g].at \in MemberSteps => Sound(request[g])'
  BY SoundStays DEF Invited, RequestsSound, Others
<1>2. QED
  BY <1>1 DEF RequestsSound

LEMMA InvitedByOne ==
  ASSUME Invited, Shape', Roster', Grows, NEW h \in Handlers, Others(h),
         request'[h] = Null \/ Sound(request[h])'
  PROVE  Invited'
BY SoundOfOne DEF Invited

(* A step that only remembers something. *)
LEMMA Remembers ==
  ASSUME Invited, Shape', NEW h \in Handlers, Others(h), UNCHANGED roster,
         NEW r, Sound(r), request'[h] = r
  PROVE  Invited'
<1>1. Roster' /\ Grows
  BY RosterStays DEF Invited
<1>2. Sound(r)'
  BY <1>1, SoundStays
<1>3. Sound(request[h])'
  BY <1>2
<1>4. QED
  BY <1>1, <1>3, InvitedByOne

LEMMA Forgets ==
  ASSUME Invited, Shape', NEW h \in Handlers, Others(h), UNCHANGED roster, request'[h] = Null
  PROVE  Invited'
BY RosterStays, InvitedByOne DEF Invited

(* A member row is written. *)
LEMMA MemberWritten ==
  ASSUME Roster, NEW u \in Users, NEW row \in MemberRows, member' = [member EXCEPT ![u] = row],
         UNCHANGED <<invitations, mailed, dead>>
  PROVE  Roster' /\ Grows /\ member'[u] # Null
<1>1. \A v \in Users : member'[v] = IF v = u THEN row ELSE member[v]
  BY DEF Roster, Typed
<1>2. Grows /\ member'[u] # Null
  BY <1>1, NullIsNoMember DEF Grows
<1>3. Typed'
  BY DEF Roster, Typed
<1>4. Records' /\ DeadLinksStayDead'
  BY DEF Roster, Records, Mailed, DeadLinksStayDead
<1>5. AcceptedMeansMember'
  BY <1>2 DEF Roster, Typed, AcceptedMeansMember, Grows, Invitations
<1>6. QED
  BY <1>2, <1>3, <1>4, <1>5 DEF Roster

(* The links of invitations that are taken away may die. *)
LEMMA TakenAway ==
  ASSUME Roster, NEW cut \in SUBSET DOMAIN mailed, invitations' \subseteq invitations,
         \A i \in invitations' : ~i.accepted => i.token \notin cut,
         dead' = dead \cup cut, UNCHANGED <<member, mailed>>
  PROVE  Roster' /\ Grows
BY DEF Roster, Typed, Records, Mailed, AcceptedMeansMember, DeadLinksStayDead, Grows

(* Requests on members as they arrive. *)
LEMMA MemberCalls ==
  ASSUME Invited, Shape', NEW h \in Handlers, MembersCall(h)
  PROVE  Invited'
<1>1. ASSUME NEW r, Sound(r), Take(h, r), UNCHANGED memberVars PROVE Invited'
  BY <1>1, Takes, Remembers DEF Invited, roster, memberVars
<1>2. Admins \in SUBSET Users
  BY DEF Admins, AdminsOf
<1>3. ASSUME NEW u \in Users, NEW r \in Roles, Invite(h, u, r) PROVE Invited'
  <2>1. Sound([at |-> "invite", user |-> u, role |-> r])
    BY DEF Sound, MemberRequests, ChangeSteps, AcceptSteps
  <2>2. QED
    BY <1>1, <1>3, <2>1 DEF Invite
<1>4. ASSUME NEW u \in Users, NEW r \in Roles, PatchRole(h, u, r) PROVE Invited'
  <2>1. ASSUME NEW step \in {"patch:count", "patch:write"}
        PROVE  Sound([at |-> step, user |-> u, role |-> r, seen |-> Admins])
    BY <1>2, <1>4 DEF PatchRole, Sound, MemberRequests, ChangeSteps, AcceptSteps
  <2>2. QED
    BY <1>1, <1>4, <2>1 DEF PatchRole
<1>5. ASSUME NEW u \in Users, Deactivate(h, u) PROVE Invited'
  <2>1. ASSUME NEW step \in {"deactivate:count", "deactivate:tasks"}
        PROVE  Sound([at |-> step, user |-> u, seen |-> Admins])
    BY <1>2, <1>5 DEF Deactivate, Sound, MemberRequests, ChangeSteps, AcceptSteps
  <2>2. QED
    BY <1>1, <1>5, <2>1 DEF Deactivate
<1>6. ASSUME NEW u \in Users, Reactivate(h, u) PROVE Invited'
  <2>1. Sound([at |-> "reactivate", user |-> u])
    BY <1>6 DEF Reactivate, Sound, MemberRequests, ChangeSteps, AcceptSteps
  <2>2. QED
    BY <1>1, <1>6, <2>1 DEF Reactivate
<1>7. ASSUME NEW t \in DOMAIN mailed, NEW step \in {"revoke", "resend"} PROVE Sound([at |-> step, id |-> t])
  <2>1. t \in Nat
    BY DEF Invited, Roster, Typed
  <2>2. QED
    BY <2>1 DEF Sound, MemberRequests, ChangeSteps, AcceptSteps
<1>8. ASSUME NEW t \in DOMAIN mailed, Revoke(h, t) \/ Resend(h, t) PROVE Invited'
  BY <1>1, <1>7, <1>8 DEF Revoke, Resend
<1>9. ASSUME NEW t \in DOMAIN mailed, Accept(h, t) PROVE Invited'
  <2>1. PICK v \in Usable(t) : Take(h, [at |-> "accept", inv |-> v])
    BY <1>9 DEF Accept
  <2>2. v \in Invitations /\ Mailed(v)
    BY DEF Usable, Invited, Roster, Typed, Records
  <2>3. Sound([at |-> "accept", inv |-> v])
    BY <2>2 DEF Mailed, Sound, MemberRequests, ChangeSteps, AcceptSteps
  <2>4. QED
    BY <1>1, <1>9, <2>1, <2>3 DEF Accept
<1>10. QED
  BY <1>3, <1>4, <1>5, <1>6, <1>8, <1>9 DEF MembersCall

(* What a request at a step of these kinds remembers. *)
LEMMA Remembered ==
  ASSUME Invited, NEW h \in Handlers, NEW step \in MemberSteps, At(h, step)
  PROVE  Sound(request[h]) /\ request[h].at = step
<1>1. request[h] # Null /\ request[h].at = step
  BY DEF At
<1>2. RequestsSound
  BY DEF Invited
<1>3. Sound(request[h])
  BY <1>1, <1>2 DEF RequestsSound
<1>4. QED
  BY <1>1, <1>3

LEMMA InvitesStep ==
  ASSUME Invited, Shape', NEW h \in Handlers, InviteSupersede(h) \/ InviteCreate(h)
  PROVE  Invited'
<1>1. PICK u \in Users, r \in Roles, step \in {"invite", "invite:create"} :
        request[h] = [at |-> step, user |-> u, role |-> r]
  <2>1. Sound(request[h]) /\ request[h].at \in {"invite", "invite:create"}
    <3>1. At(h, "invite") \/ At(h, "invite:create")
      BY DEF InviteSupersede, InviteCreate
    <3>2. QED
      BY <3>1, Remembered DEF MemberSteps
  <2>2. request[h] \in [at : {"invite", "invite:create"}, user : Users, role : Roles]
    BY <2>1 DEF Sound, MemberRequests
  <2>3. QED
    BY <2>2
<1>2. CASE InviteSupersede(h)
  <2>1. request'[h] = [at |-> "invite:create", user |-> u, role |-> r] /\ Others(h)
    BY <1>1, <1>2, Awaits DEF InviteSupersede, Invited
  <2>2. Roster' /\ Grows
    <3>1. LinksTo(u) \in SUBSET DOMAIN mailed
      BY DEF LinksTo
    <3>2. \A i \in invitations' : ~i.accepted => i.token \notin LinksTo(u)
      BY <1>1, <1>2 DEF InviteSupersede, Pending, LinksTo, Invited, Roster, Records, Mailed
    <3>3. invitations' \subseteq invitations /\ dead' = dead \cup LinksTo(u) /\ UNCHANGED <<member, mailed>>
      BY <1>1, <1>2 DEF InviteSupersede
    <3>4. QED
      BY <3>1, <3>2, <3>3, TakenAway DEF Invited
  <2>3. Sound(request[h])'
    BY <2>1 DEF Sound, MemberRequests, ChangeSteps, AcceptSteps
  <2>4. QED
    BY <2>1, <2>2, <2>3, InvitedByOne
<1>3. CASE InviteCreate(h)
  <2>2. Typed
    BY DEF Invited, Roster
  <2>3. PICK t \in Nat : t = Len(mailed) + 1
    BY <2>2 DEF Typed
  <2> DEFINE new == [id |-> t, user |-> u, role |-> r, token |-> t, accepted |-> FALSE, expired |-> FALSE]
  <2>1. invitations' = invitations \cup {new} /\ Send(u, t) /\ UNCHANGED <<member, dead>>
    BY <1>1, <1>3, <2>3 DEF InviteCreate
  <2>4. /\ mailed' \in Seq([user : Users, id : Nat]) /\ DOMAIN mailed' = DOMAIN mailed \cup {t}
        /\ t \in Nat \ DOMAIN mailed /\ mailed'[t] = [user |-> u, id |-> t]
        /\ \A n \in DOMAIN mailed : mailed'[n] = mailed[n]
    BY <2>1, <2>2, <2>3, Sends
  <2>5. Grows
    BY <2>1, <2>4 DEF Grows
  <2>6. Typed'
    <3>1. new \in Invitations
      BY <2>3 DEF Invitations
    <3>2. QED
      BY <2>1, <2>2, <2>4, <3>1 DEF Typed
  <2>7. Records'
    <3>1. \A i \in invitations : Mailed(i)' /\ i.id # t
      BY <2>4 DEF Invited, Roster, Records, Mailed
    <3>2. Mailed(new)'
      BY <2>4 DEF Mailed
    <3>3. new.id = t
      OBVIOUS
    <3> HIDE DEF new
    <3>4. QED
      BY <2>1, <3>1, <3>2, <3>3 DEF Records, Invited, Roster
  <2>8. AcceptedMeansMember' /\ DeadLinksStayDead'
    BY <2>1, <2>2, <2>4 DEF AcceptedMeansMember, DeadLinksStayDead, Invited, Roster, Typed
  <2>9. Others(h) /\ request'[h] = Null
    BY <1>3, Answers DEF InviteCreate, Invited, Moves
  <2>10. QED
    BY <2>5, <2>6, <2>7, <2>8, <2>9, InvitedByOne DEF Roster
<1>4. QED
  BY <1>2, <1>3

LEMMA ResendsStep ==
  ASSUME Invited, Shape', NEW h \in Handlers, RevokeDelete(h) \/ ResendRotate(h)
  PROVE  Invited'
<1>1. Others(h) /\ request'[h] = Null
  BY Answers DEF RevokeDelete, ResendRotate, Invited, Moves
<1>2. Typed /\ Records
  BY DEF Invited, Roster
<1>3. CASE RevokeDelete(h)
  <2>1. LinksOf(request[h].id) \in SUBSET DOMAIN mailed
    BY DEF LinksOf
  <2>2. \A i \in invitations' : i.token \notin LinksOf(request[h].id)
    BY <1>2, <1>3 DEF RevokeDelete, Stored, LinksOf, Records, Mailed
  <2>3. /\ invitations' \subseteq invitations /\ dead' = dead \cup LinksOf(request[h].id)
        /\ UNCHANGED <<member, mailed>>
    BY <1>3 DEF RevokeDelete
  <2>4. Roster' /\ Grows
    BY <2>1, <2>2, <2>3, TakenAway DEF Invited
  <2>5. QED
    BY <1>1, <2>4, InvitedByOne
<1>4. ASSUME NEW v \in invitations, invitations' = (invitations \ {v}) \cup {Rotated(v)}, Send(v.user, v.id),
             dead' = dead \cup LinksOf(v.id), UNCHANGED member
      PROVE  Invited'
  <2>1. v \in Invitations /\ Mailed(v)
    BY <1>2 DEF Typed, Records
  <2>2. PICK t \in Nat : t = Len(mailed) + 1
    BY <1>2 DEF Typed
  <2>3. /\ mailed' \in Seq([user : Users, id : Nat]) /\ DOMAIN mailed' = DOMAIN mailed \cup {t}
        /\ t \in Nat \ DOMAIN mailed /\ mailed'[t] = [user |-> v.user, id |-> v.id]
        /\ \A n \in DOMAIN mailed : mailed'[n] = mailed[n]
    BY <1>2, <1>4, <2>1, <2>2, Sends DEF Invitations
  <2>4. PICK w : w = Rotated(v)
    OBVIOUS
  <2>5. /\ w \in Invitations /\ w.id = v.id /\ w.user = v.user /\ w.token = t /\ w.accepted = v.accepted
    BY <2>1, <2>2, <2>4 DEF Rotated, Invitations
  <2>6. invitations' = (invitations \ {v}) \cup {w}
    BY <1>4, <2>4
  <2>7. Grows
    BY <1>4, <2>3 DEF Grows
  <2>8. Typed'
    BY <1>2, <1>4, <2>3, <2>5, <2>6 DEF Typed, LinksOf
  <2>9. Records'
    <3>1. \A i \in invitations : Mailed(i)'
      BY <1>2, <2>3 DEF Records, Mailed
    <3>2. Mailed(w)'
      BY <2>1, <2>3, <2>5 DEF Mailed
    <3>3. \A i \in invitations \ {v} : i.id # w.id
      BY <1>2, <2>5 DEF Records
    <3>4. QED
      BY <1>2, <2>6, <3>1, <3>2, <3>3 DEF Records
  <2>10. AcceptedMeansMember'
    BY <1>4, <2>5, <2>6 DEF AcceptedMeansMember, Invited, Roster
  <2>11. DeadLinksStayDead'
    <3>1. \A i \in invitations \ {v} : i.token \notin LinksOf(v.id)
      BY <1>2 DEF Records, Mailed, LinksOf
    <3>2. t \notin dead'
      BY <1>2, <1>4, <2>3 DEF Typed, LinksOf
    <3>3. QED
      BY <1>4, <2>5, <2>6, <3>1, <3>2 DEF DeadLinksStayDead, Invited, Roster
  <2>12. QED
    BY <1>1, <2>7, <2>8, <2>9, <2>10, <2>11, InvitedByOne DEF Roster
<1>5. CASE ResendRotate(h)
  <2>1. CASE UNCHANGED memberVars
    BY <1>1, <2>1, Forgets DEF memberVars, roster
  <2>2. CASE ~UNCHANGED memberVars
    <3>1. PICK v \in Stored(request[h].id) :
            /\ invitations' = (invitations \ {v}) \cup {Rotated(v)} /\ Send(v.user, v.id)
            /\ dead' = dead \cup LinksOf(v.id) /\ UNCHANGED member
      BY <1>5, <2>2 DEF ResendRotate
    <3>2. QED
      BY <1>4, <3>1 DEF Stored
  <2>3. QED
    BY <2>1, <2>2
<1>6. QED
  BY <1>3, <1>5

LEMMA ExpiryStep ==
  ASSUME Roster, NEW v \in invitations, Expire(v)
  PROVE  Roster' /\ Grows
<1>1. PICK w : w = [v EXCEPT !.expired = TRUE]
  OBVIOUS
<1>2. invitations' = (invitations \ {v}) \cup {w} /\ UNCHANGED <<member, mailed, dead>>
  BY <1>1 DEF Expire
<1>3. v \in Invitations
  BY DEF Roster, Typed
<1>4. /\ w \in Invitations /\ w.id = v.id /\ w.user = v.user /\ w.token = v.token /\ w.accepted = v.accepted
  BY <1>1, <1>3 DEF Invitations
<1>5. Typed' /\ Grows
  BY <1>2, <1>4 DEF Roster, Typed, Grows
<1>6. Records'
  BY <1>2, <1>4 DEF Roster, Records, Mailed
<1>7. AcceptedMeansMember' /\ DeadLinksStayDead'
  BY <1>2, <1>4 DEF Roster, AcceptedMeansMember, DeadLinksStayDead
<1>8. QED
  BY <1>5, <1>6, <1>7 DEF Roster

(* What the request of each kind remembers. *)
LEMMA Accepting ==
  ASSUME Invited, NEW h \in Handlers, NEW step \in AcceptSteps, At(h, step)
  PROVE  /\ Sound(request[h]) /\ request[h].at = step
         /\ "inv" \in DOMAIN request[h] /\ "at" \in DOMAIN request[h]
         /\ request[h].inv \in Invitations
         /\ step \in {"accept", "accept:account", "accept:read"} =>
              request[h] \in [at : {"accept", "accept:account", "accept:read"}, inv : Invitations]
         /\ step \in {"accept:member", "accept:reactivate", "accept:mark"} =>
              request[h] \in [at : {"accept:member", "accept:reactivate", "accept:mark"},
                              inv : Invitations, seen : SUBSET Users]
<1>1. Sound(request[h]) /\ request[h].at = step
  BY Remembered DEF AcceptSteps, MemberSteps
<1>2. \/ /\ request[h] \in [at : {"accept", "accept:account", "accept:read"}, inv : Invitations]
         /\ step \in {"accept", "accept:account", "accept:read"}
      \/ /\ request[h] \in [at : {"accept:member", "accept:reactivate", "accept:mark"},
                              inv : Invitations, seen : SUBSET Users]
         /\ step \in {"accept:member", "accept:reactivate", "accept:mark"}
  BY <1>1 DEF Sound, MemberRequests, AcceptSteps
<1>3. QED
  BY <1>1, <1>2

LEMMA AcceptsStep ==
  ASSUME Invited, Shape', NEW h \in Handlers,
         AcceptAccount(h) \/ AcceptCreateAccount(h) \/ AcceptReadMember(h)
  PROVE  Invited'
<1>1. UNCHANGED roster
  BY DEF AcceptAccount, AcceptCreateAccount, AcceptReadMember, memberVars, roster
<1>2. /\ Sound(request[h])
      /\ request[h] \in [at : {"accept", "accept:account", "accept:read"}, inv : Invitations]
  BY Accepting DEF AcceptAccount, AcceptCreateAccount, AcceptReadMember, AcceptSteps
<1>3. CASE Answer(h)
  BY <1>1, <1>3, Answers, Forgets DEF Moves, Invited
<1>4. ASSUME NEW step \in {"accept:account", "accept:read"}, Await(h, [request[h] EXCEPT !.at = step])
      PROVE  Invited'
  <2>1. Others(h) /\ request'[h] = [request[h] EXCEPT !.at = step]
    BY <1>4, Awaits DEF Invited
  <2>2. Sound([request[h] EXCEPT !.at = step])
    BY <1>2 DEF Sound, MemberRequests, ChangeSteps, AcceptSteps
  <2>3. QED
    BY <1>1, <2>1, <2>2, Remembers
<1>5. CASE AcceptReadMember(h)
  <2> DEFINE row == member[request[h].inv.user]
             step == IF row = Null THEN "accept:member" ELSE IF row.active THEN "accept:mark" ELSE "accept:reactivate"
             r == [at |-> step, inv |-> request[h].inv, seen |-> Admins]
  <2>1. Others(h) /\ request'[h] = r
    BY <1>5, Awaits DEF AcceptReadMember, Invited
  <2>2. Admins \in SUBSET Users
    BY DEF Admins, AdminsOf
  <2>3. Sound(r)
    BY <1>2, <2>2 DEF Sound, MemberRequests, ChangeSteps, AcceptSteps
  <2> HIDE DEF r
  <2>4. QED
    BY <1>1, <2>1, <2>3, Remembers
<1>6. QED
  BY <1>3, <1>4, <1>5 DEF AcceptAccount, AcceptCreateAccount

LEMMA AdmitsStep ==
  ASSUME Invited, Shape', NEW h \in Handlers, AcceptReactivate(h) \/ AcceptCreateMember(h)
  PROVE  Invited'
<1>1. /\ Sound(request[h])
      /\ request[h] \in [at : {"accept:member", "accept:reactivate", "accept:mark"},
                          inv : Invitations, seen : SUBSET Users]
  BY Accepting DEF AcceptReactivate, AcceptCreateMember, AcceptSteps
<1>2. CASE Answer(h) /\ UNCHANGED roster
  BY <1>2, Answers, Forgets DEF Moves, Invited
<1>3. ASSUME Admit(request[h].inv.user, request[h].inv.role), UNCHANGED <<invitations, mailed, dead>>,
             Await(h, [request[h] EXCEPT !.at = "accept:mark"])
      PROVE  Invited'
  <2>1. PICK u \in Users, role \in Roles : u = request[h].inv.user /\ role = request[h].inv.role
    BY <1>1 DEF Invitations
  <2>2. PICK r : r = [request[h] EXCEPT !.at = "accept:mark"]
    OBVIOUS
  <2>3. Others(h) /\ request'[h] = r
    BY <1>3, <2>2, Awaits DEF Invited
  <2>4. Roster' /\ Grows /\ member'[u] # Null
    BY <1>3, <2>1, MemberWritten DEF Admit, MemberRows, Invited
  <2>5. Sound(request[h])'
    <3>1. /\ r \in MemberRequests /\ r.at = "accept:mark" /\ r.inv = request[h].inv /\ r.inv.user = u
      BY <1>1, <2>1, <2>2 DEF MemberRequests
    <3>2. r.inv.id \in DOMAIN mailed /\ mailed[r.inv.id].user = r.inv.user
      BY <1>1, <3>1 DEF Sound, AcceptSteps
    <3>3. QED
      BY <2>3, <2>4, <3>1, <3>2 DEF Sound, Grows, ChangeSteps
  <2>6. QED
    BY <2>3, <2>4, <2>5, InvitedByOne
<1>4. QED
  BY <1>2, <1>3 DEF AcceptReactivate, AcceptCreateMember, roster

LEMMA MarksStep ==
  ASSUME Invited, Shape', NEW h \in Handlers, AcceptMark(h)
  PROVE  Invited'
<1>1. Sound(request[h]) /\ request[h].at = "accept:mark"
  BY Accepting DEF AcceptMark, AcceptSteps
<1>2. PICK id, u : id = request[h].inv.id /\ u = request[h].inv.user
  OBVIOUS
<1>3. mailed[id].user = u /\ member[u] # Null
  BY <1>1, <1>2 DEF Sound, AcceptSteps
<1>4. PICK open : open = {v \in Stored(id) : ~v.accepted}
  OBVIOUS
<1>5. /\ invitations' = (invitations \ open) \cup {[v EXCEPT !.accepted = TRUE] : v \in open}
      /\ dead' = dead \cup LinksOf(id) /\ UNCHANGED <<member, mailed>>
  BY <1>2, <1>4 DEF AcceptMark
<1>6. Typed /\ Records
  BY DEF Invited, Roster
<1>7. \A v \in open : v \in invitations /\ v \in Invitations /\ v.id = id /\ v.user = u
  BY <1>3, <1>4, <1>6 DEF Stored, Typed, Records, Mailed
<1>8. \A v \in open : LET w == [v EXCEPT !.accepted = TRUE]
                      IN  /\ w \in Invitations /\ w.id = id /\ w.user = v.user /\ w.token = v.token /\ w.accepted
  BY <1>7 DEF Invitations
<1>9. Typed' /\ Grows
  BY <1>5, <1>6, <1>8 DEF Typed, Grows, LinksOf
<1>10. Records'
  <2>1. \A w \in invitations' : \E v \in invitations : /\ w.id = v.id /\ w.user = v.user /\ w.token = v.token
                                                       /\ v \in open => w = [v EXCEPT !.accepted = TRUE]
                                                       /\ v \notin open => w = v
    BY <1>5, <1>7, <1>8
  <2>2. \A w \in invitations' : Mailed(w)'
    BY <1>5, <1>6, <2>1 DEF Records, Mailed
  <2>3. ASSUME NEW w \in invitations', NEW x \in invitations', w.id = x.id
        PROVE  w = x
    <3>1. PICK v \in invitations : /\ w.id = v.id
                                   /\ v \in open => w = [v EXCEPT !.accepted = TRUE]
                                   /\ v \notin open => w = v
      BY <2>1
    <3>2. PICK y \in invitations : /\ x.id = y.id
                                   /\ y \in open => x = [y EXCEPT !.accepted = TRUE]
                                   /\ y \notin open => x = y
      BY <2>1
    <3>3. v = y
      BY <1>6, <2>3, <3>1, <3>2 DEF Records
    <3>4. QED
      BY <3>1, <3>2, <3>3
  <2>4. QED
    BY <2>2, <2>3 DEF Records
<1>11. AcceptedMeansMember'
  BY <1>3, <1>5, <1>7, <1>8 DEF AcceptedMeansMember, Invited, Roster
<1>12. DeadLinksStayDead'
  <2>1. \A i \in invitations : i.id # id => i.token \notin LinksOf(id)
    BY <1>6 DEF Records, Mailed, LinksOf
  <2>2. \A i \in invitations' : ~i.accepted => i \in invitations /\ i.id # id
    BY <1>4, <1>5, <1>8 DEF Stored
  <2>3. QED
    BY <1>5, <2>1, <2>2 DEF DeadLinksStayDead, Invited, Roster
<1>13. Others(h) /\ request'[h] = Null
  BY Answers DEF AcceptMark, Invited, Moves
<1>14. QED
  BY <1>9, <1>10, <1>11, <1>12, <1>13, InvitedByOne DEF Roster

(* Requests that change a member. *)
LEMMA ChangeRequests ==
  ASSUME Invited, NEW h \in Handlers, NEW step \in ChangeSteps, At(h, step)
  PROVE  /\ Sound(request[h]) /\ request[h].at = step
         /\ request[h].user \in Users /\ member[request[h].user] \in MemberRows
         /\ step \in {"patch:count", "patch:write"} =>
              request[h] \in [at : {"patch:count", "patch:write"}, user : Users, role : Roles, seen : SUBSET Users]
         /\ step \in {"deactivate:count", "deactivate:tasks", "deactivate:write"} =>
              request[h] \in [at : {"deactivate:count", "deactivate:tasks", "deactivate:write"},
                              user : Users, seen : SUBSET Users]
<1>1. Sound(request[h]) /\ request[h].at = step
  BY Remembered DEF ChangeSteps, MemberSteps
<1>2. /\ request[h].user \in Users
      /\ step \in {"patch:count", "patch:write"} =>
           request[h] \in [at : {"patch:count", "patch:write"}, user : Users, role : Roles, seen : SUBSET Users]
      /\ step \in {"deactivate:count", "deactivate:tasks", "deactivate:write"} =>
           request[h] \in [at : {"deactivate:count", "deactivate:tasks", "deactivate:write"},
                           user : Users, seen : SUBSET Users]
  BY <1>1 DEF Sound, MemberRequests, ChangeSteps
<1>3. member[request[h].user] \in MemberRows
  BY <1>1, <1>2 DEF Sound, Invited, Roster, Typed
<1>4. QED
  BY <1>1, <1>2, <1>3

LEMMA CountsStep ==
  ASSUME Invited, Shape', NEW h \in Handlers,
         PatchCount(h) \/ DeactivateCount(h) \/ DeactivateTasks(h, OpenTasks(request[h].user))
  PROVE  Invited'
<1>1. UNCHANGED roster
  BY DEF PatchCount, DeactivateCount, DeactivateTasks, memberVars, roster
<1>2. CASE Answer(h)
  BY <1>1, <1>2, Answers, Forgets DEF Moves, Invited
<1>3. Admins \in SUBSET Users
  BY DEF Admins, AdminsOf
<1>4. ASSUME NEW r, Await(h, r), Sound(r) PROVE Invited'
  BY <1>1, <1>4, Awaits, Remembers DEF Invited
<1>5. CASE PatchCount(h) /\ ~Answer(h)
  <2>r. PICK r : r = [request[h] EXCEPT !.at = "patch:write", !.seen = Admins]
    OBVIOUS
  <2>1. Await(h, r)
    BY <1>5, <2>r DEF PatchCount
  <2>o. /\ request[h] \in [at : {"patch:count", "patch:write"}, user : Users, role : Roles, seen : SUBSET Users]
        /\ member[request[h].user] # Null
    BY <1>5, ChangeRequests DEF PatchCount, ChangeSteps, Sound
  <2>t. /\ r \in [at : {"patch:count", "patch:write"}, user : Users, role : Roles, seen : SUBSET Users]
        /\ r.at = "patch:write" /\ r.user = request[h].user
    BY <1>3, <2>r, <2>o
  <2>2. Sound(r)
    BY <2>o, <2>t DEF Sound, MemberRequests, ChangeSteps, AcceptSteps
  <2>3. QED
    BY <1>4, <2>1, <2>2
<1>6. CASE DeactivateCount(h) /\ ~Answer(h)
  <2>r. PICK r : r = [request[h] EXCEPT !.at = "deactivate:tasks", !.seen = Admins]
    OBVIOUS
  <2>1. Await(h, r)
    BY <1>6, <2>r DEF DeactivateCount
  <2>o. /\ request[h] \in [at : {"deactivate:count", "deactivate:tasks", "deactivate:write"},
                          user : Users, seen : SUBSET Users]
        /\ member[request[h].user] # Null
    BY <1>6, ChangeRequests DEF DeactivateCount, ChangeSteps, Sound
  <2>t. /\ r \in [at : {"deactivate:count", "deactivate:tasks", "deactivate:write"},
                          user : Users, seen : SUBSET Users]
        /\ r.at = "deactivate:tasks" /\ r.user = request[h].user
    BY <1>3, <2>r, <2>o
  <2>2. Sound(r)
    BY <2>o, <2>t DEF Sound, MemberRequests, ChangeSteps, AcceptSteps
  <2>3. QED
    BY <1>4, <2>1, <2>2
<1>7. CASE DeactivateTasks(h, OpenTasks(request[h].user)) /\ ~Answer(h)
  <2>1. Await(h, [request[h] EXCEPT !.at = "deactivate:write"])
    BY <1>7 DEF DeactivateTasks
  <2>2. Sound([request[h] EXCEPT !.at = "deactivate:write"])
    BY <1>7, ChangeRequests DEF DeactivateTasks, Sound, MemberRequests, ChangeSteps, AcceptSteps
  <2>3. QED
    BY <1>4, <2>1, <2>2
<1>8. QED
  BY <1>2, <1>5, <1>6, <1>7

LEMMA WritesStep ==
  ASSUME Invited, Shape', NEW h \in Handlers, PatchWrite(h) \/ DeactivateWrite(h) \/ ReactivateWrite(h)
  PROVE  Invited'
<1>1. Others(h) /\ request'[h] = Null
  BY Answers DEF PatchWrite, DeactivateWrite, ReactivateWrite, Invited, Moves
<1>2. ASSUME NEW u \in Users, NEW row \in MemberRows, member' = [member EXCEPT ![u] = row],
             UNCHANGED <<invitations, mailed, dead>>
      PROVE  Invited'
  BY <1>1, <1>2, MemberWritten, InvitedByOne DEF Invited
<1>3. PICK u \in Users : u = request[h].user /\ member[u] \in MemberRows
  BY ChangeRequests DEF PatchWrite, DeactivateWrite, ReactivateWrite, ChangeSteps
<1>4. CASE PatchWrite(h)
  <2>1. request[h].role \in Roles
    BY <1>4, ChangeRequests DEF PatchWrite, ChangeSteps
  <2>2. [role |-> request[h].role, active |-> member[u].active] \in MemberRows
    BY <1>3, <2>1 DEF MemberRows
  <2>3. member' = [member EXCEPT ![u] = [role |-> request[h].role, active |-> member[u].active]]
    BY <1>3, <1>4 DEF PatchWrite
  <2>4. QED
    BY <1>2, <1>4, <2>2, <2>3 DEF PatchWrite
<1>5. ASSUME NEW on \in BOOLEAN, member' = [member EXCEPT ![u].active = on],
             UNCHANGED <<invitations, mailed, dead>>
      PROVE  Invited'
  <2>1. [member[u] EXCEPT !.active = on] \in MemberRows
    BY <1>3 DEF MemberRows
  <2>2. member' = [member EXCEPT ![u] = [member[u] EXCEPT !.active = on]]
    BY <1>5
  <2>3. QED
    BY <1>2, <1>5, <2>1, <2>2
<1>6. QED
  BY <1>3, <1>4, <1>5 DEF DeactivateWrite, ReactivateWrite

LEMMA InvitationsAreKept == Spec => []Invited
<1>1. Init => Invited
  <2> SUFFICES ASSUME Init PROVE Invited
    OBVIOUS
  <2>1. member \in [Users -> MemberRows \cup {Null}]
    BY StartsAreTidy DEF Init, InitMembers
  <2>2. invitations = {} /\ mailed = << >> /\ dead = {} /\ request = [h \in Handlers |-> Null]
    BY DEF Init, InitMembers, InitRequests
  <2>3. QED
    BY <2>1, <2>2 DEF Invited, Shape, RequestsSound, Roster, Typed, Records, AcceptedMeansMember, DeadLinksStayDead
<1>2. Invited /\ [Next]_vars => Invited'
  <2> SUFFICES ASSUME Invited, [Next]_vars PROVE Invited'
    OBVIOUS
  <2>1. Shape /\ Shape'
    BY ShapeStays DEF Invited
  <2>2. ASSUME NEW h \in Handlers, OfMembers(h) PROVE Invited'
    BY <2>1, <2>2, MemberCalls, InvitesStep, ResendsStep, AcceptsStep, AdmitsStep, MarksStep, CountsStep, WritesStep
       DEF OfMembers, Members, MembersContinue
  <2>3. ASSUME NEW h \in Handlers, NEW steps, Moves(h, steps), steps \cap MemberSteps = {}, UNCHANGED roster
        PROVE  Invited'
    BY <2>1, <2>3, RosterStays, SoundOfOne DEF Moves, Invited
  <2>4. RestSteps \cap MemberSteps = {} /\ FileSteps \cap MemberSteps = {}
    BY DEF MemberSteps, FileSteps, RestSteps, AccountSteps, TaskSteps, TemplateSteps, ItemSteps, CommentSteps,
       MailSteps, NoticeSteps, ChatSteps
  <2>5. CASE Idle
    <3>1. Roster' /\ Grows
      BY <2>5, RosterStays, ExpiryStep DEF Idle, Invited
    <3>2. RequestsSound'
      BY <2>5, <3>1, SoundStays DEF Idle, Invited, RequestsSound
    <3>3. QED
      BY <2>1, <3>1, <3>2 DEF Invited
  <2>6. QED
    BY <2>1, <2>2, <2>3, <2>4, <2>5, Steps DEF OfFiles, OfRest
<1>3. QED
  BY <1>1, <1>2, PTL DEF Spec

(* Whatever dies, is retried or loses a race on the way: a used invitation has made its
   user a member. *)
THEOREM AcceptedInvitationsAdmit == Spec => []AcceptedMeansMember
<1>1. Invited => AcceptedMeansMember
  BY DEF Invited, Roster
<1>2. QED
  BY <1>1, InvitationsAreKept, PTL

(* A link that was superseded, rotated, revoked or used up opens nothing any more. *)
THEOREM DeadLinksOpenNothing == Spec => []DeadLinksStayDead
<1>1. Invited => DeadLinksStayDead
  BY DEF Invited, Roster
<1>2. QED
  BY <1>1, InvitationsAreKept, PTL

----------------------------------------------------------------------------
(* The last admin.  Who is about to take an admin's place away has counted others, when
   it looked last; who is about to let a member in again has seen that it was out. *)
Decided(r) ==
  /\ r.at = "patch:write" /\ r.role # "admin" => r.seen # {r.user}
  /\ r.at \in {"deactivate:tasks", "deactivate:write"} => r.seen # {r.user}
  /\ r.at = "accept:reactivate" => r.inv.user \notin r.seen

AllDecided == \A h \in Handlers : request[h] # Null /\ request[h].at \in MemberSteps => Decided(request[h])

Undecided ==
  {"invite", "invite:create", "revoke", "resend", "accept", "accept:account", "accept:read", "accept:member",
   "accept:mark", "patch:count", "deactivate:count", "reactivate"}

LEMMA Uncommitted ==
  ASSUME NEW r, r.at \in Undecided
  PROVE  Decided(r)
BY DEF Decided, Undecided

LEMMA OneAdmin ==
  ASSUME NEW u, Admins = {u}
  PROVE  Cardinality(Admins) <= 1
<1>1. Cardinality(Admins) = 1
  BY FS_Singleton
<1>2. QED
  BY <1>1

(* Every first step and every later one leaves its request decided. *)
LEMMA CallsDecide ==
  ASSUME Shape, NEW h \in Handlers, MembersCall(h)
  PROVE  request'[h] # Null => Decided(request'[h])
<1>1. ASSUME NEW r, Take(h, r), Decided(r) PROVE request'[h] # Null => Decided(request'[h])
  BY <1>1, Takes
<1>2. ASSUME NEW u \in Users, NEW r \in Roles, Invite(h, u, r) PROVE request'[h] # Null => Decided(request'[h])
  BY <1>1, <1>2, Uncommitted DEF Invite, Undecided
<1>3. ASSUME NEW u \in Users, NEW r \in Roles, PatchRole(h, u, r) PROVE request'[h] # Null => Decided(request'[h])
  <2>1. CASE r # "admin" /\ u \in Admins
    BY <1>1, <1>3, <2>1, Uncommitted DEF PatchRole, Undecided
  <2>2. CASE ~(r # "admin" /\ u \in Admins)
    <3>1. Take(h, [at |-> "patch:write", user |-> u, role |-> r, seen |-> Admins])
      BY <1>3, <2>2 DEF PatchRole
    <3>2. Decided([at |-> "patch:write", user |-> u, role |-> r, seen |-> Admins])
      BY <2>2 DEF Decided
    <3>3. QED
      BY <1>1, <3>1, <3>2
  <2>3. QED
    BY <2>1, <2>2
<1>4. ASSUME NEW u \in Users, Deactivate(h, u) PROVE request'[h] # Null => Decided(request'[h])
  <2>1. CASE u \in Admins
    BY <1>1, <1>4, <2>1, Uncommitted DEF Deactivate, Undecided
  <2>2. CASE u \notin Admins
    <3>1. Take(h, [at |-> "deactivate:tasks", user |-> u, seen |-> Admins])
      BY <1>4, <2>2 DEF Deactivate
    <3>2. Decided([at |-> "deactivate:tasks", user |-> u, seen |-> Admins])
      BY <2>2 DEF Decided
    <3>3. QED
      BY <1>1, <3>1, <3>2
  <2>3. QED
    BY <2>1, <2>2
<1>5. ASSUME NEW u \in Users, Reactivate(h, u) PROVE request'[h] # Null => Decided(request'[h])
  BY <1>1, <1>5, Uncommitted DEF Reactivate, Undecided
<1>6. ASSUME NEW t \in DOMAIN mailed, Revoke(h, t) \/ Resend(h, t) \/ Accept(h, t)
      PROVE  request'[h] # Null => Decided(request'[h])
  <2>1. ASSUME NEW step \in {"revoke", "resend", "accept"}, NEW r, r.at = step, Take(h, r)
        PROVE  request'[h] # Null => Decided(request'[h])
    BY <1>1, <2>1, Uncommitted DEF Undecided
  <2>2. CASE Revoke(h, t)
    BY <2>1, <2>2 DEF Revoke
  <2>3. CASE Resend(h, t)
    BY <2>1, <2>3 DEF Resend
  <2>4. CASE Accept(h, t)
    BY <2>1, <2>4 DEF Accept
  <2>5. QED
    BY <1>6, <2>2, <2>3, <2>4
<1>7. QED
  BY <1>2, <1>3, <1>4, <1>5, <1>6 DEF MembersCall

LEMMA StepsDecide ==
  ASSUME Invited, AllDecided, NEW h \in Handlers, MembersContinue(h) \/ DeactivateTasks(h, OpenTasks(request[h].user))
  PROVE  request'[h] # Null => Decided(request'[h])
<1> USE DEF Invited
<1>1. CASE Answer(h)
  BY <1>1, Answers
<1>2. ASSUME NEW r, Await(h, r), Decided(r) PROVE request'[h] # Null => Decided(request'[h])
  BY <1>2, Awaits
<1>3. CASE InviteSupersede(h)
  <2>1. Sound(request[h]) /\ request[h].at = "invite"
    BY <1>3, Remembered DEF InviteSupersede, MemberSteps
  <2>2. "at" \in DOMAIN request[h]
    BY <2>1 DEF Sound, MemberRequests
  <2>3. PICK r : r = [request[h] EXCEPT !.at = "invite:create"]
    OBVIOUS
  <2>4. Decided(r)
    BY <2>2, <2>3, Uncommitted DEF Undecided
  <2>5. QED
    BY <1>2, <1>3, <2>3, <2>4 DEF InviteSupersede
<1>4. ASSUME NEW step \in {"accept", "accept:account", "accept:member", "accept:reactivate"}, At(h, step),
             NEW next \in Undecided, Await(h, [request[h] EXCEPT !.at = next])
      PROVE  request'[h] # Null => Decided(request'[h])
  <2>1. "at" \in DOMAIN request[h]
    BY <1>4, Accepting DEF AcceptSteps
  <2>2. [request[h] EXCEPT !.at = next].at = next
    BY <2>1
  <2>3. QED
    BY <1>2, <1>4, <2>2, Uncommitted
<1>5. CASE AcceptAccount(h) \/ AcceptCreateAccount(h) \/ AcceptReactivate(h) \/ AcceptCreateMember(h)
  BY <1>1, <1>4, <1>5 DEF AcceptAccount, AcceptCreateAccount, AcceptReactivate, AcceptCreateMember, Undecided
<1>6. CASE AcceptReadMember(h)
  <2>1. PICK u : u = request[h].inv.user
    OBVIOUS
  <2>2. CASE member[u] # Null /\ ~member[u].active
    <3>1. Await(h, [at |-> "accept:reactivate", inv |-> request[h].inv, seen |-> Admins])
      BY <1>6, <2>1, <2>2 DEF AcceptReadMember
    <3>2. Decided([at |-> "accept:reactivate", inv |-> request[h].inv, seen |-> Admins])
      BY <2>1, <2>2 DEF Decided, Admins, AdminsOf
    <3>3. QED
      BY <1>2, <3>1, <3>2
  <2>3. CASE ~(member[u] # Null /\ ~member[u].active)
    <3>1. PICK step \in {"accept:member", "accept:mark"} :
            Await(h, [at |-> step, inv |-> request[h].inv, seen |-> Admins])
      BY <1>6, <2>1, <2>3 DEF AcceptReadMember
    <3>2. QED
      BY <1>2, <3>1, Uncommitted DEF Undecided
  <2>4. QED
    BY <2>2, <2>3
<1>7. CASE PatchCount(h) /\ ~Answer(h)
  <2>1. PICK r : r = [request[h] EXCEPT !.at = "patch:write", !.seen = Admins]
    OBVIOUS
  <2>2. request[h] \in [at : {"patch:count", "patch:write"}, user : Users, role : Roles, seen : SUBSET Users]
    BY <1>7, ChangeRequests DEF PatchCount, ChangeSteps
  <2>3. r.at = "patch:write" /\ r.seen = Admins
    BY <2>1, <2>2
  <2>4. Decided(r) /\ Await(h, r)
    BY <1>7, <2>1, <2>3, OneAdmin DEF PatchCount, IsLastActiveAdmin, Decided
  <2>5. QED
    BY <1>2, <2>4
<1>8. CASE DeactivateCount(h) /\ ~Answer(h)
  <2>1. PICK r : r = [request[h] EXCEPT !.at = "deactivate:tasks", !.seen = Admins]
    OBVIOUS
  <2>2. request[h] \in [at : {"deactivate:count", "deactivate:tasks", "deactivate:write"}, user : Users, seen : SUBSET Users]
    BY <1>8, ChangeRequests DEF DeactivateCount, ChangeSteps
  <2>3. r.at = "deactivate:tasks" /\ r.seen = Admins
    BY <2>1, <2>2
  <2>4. Decided(r) /\ Await(h, r)
    BY <1>8, <2>1, <2>3, OneAdmin DEF DeactivateCount, IsLastActiveAdmin, Decided
  <2>5. QED
    BY <1>2, <2>4
<1>9. CASE DeactivateTasks(h, OpenTasks(request[h].user)) /\ ~Answer(h)
  <2>1. PICK r : r = [request[h] EXCEPT !.at = "deactivate:write"]
    OBVIOUS
  <2>2. /\ request[h] \in [at : {"deactivate:count", "deactivate:tasks", "deactivate:write"}, user : Users, seen : SUBSET Users]
        /\ request[h].at = "deactivate:tasks" /\ request[h] # Null
    BY <1>9, ChangeRequests DEF DeactivateTasks, ChangeSteps, At
  <2>3. r.at = "deactivate:write" /\ r.seen = request[h].seen /\ r.user = request[h].user
    BY <2>1, <2>2
  <2>4. request[h].seen # {request[h].user}
    BY <2>2 DEF AllDecided, Decided, MemberSteps
  <2>5. Decided(r) /\ Await(h, r)
    BY <1>9, <2>1, <2>3, <2>4 DEF DeactivateTasks, Decided
  <2>6. QED
    BY <1>2, <2>5
<1>10. QED
  BY <1>1, <1>3, <1>5, <1>6, <1>7, <1>8, <1>9 DEF MembersContinue, InviteCreate, RevokeDelete, ResendRotate,
     AcceptMark, PatchWrite, DeactivateWrite, ReactivateWrite

LEMMA DecidedNext ==
  ASSUME Invited, AllDecided, [Next]_vars
  PROVE  AllDecided'
<1>1. Shape
  BY DEF Invited
<1>2. CASE Idle
  BY <1>2 DEF Idle, AllDecided
<1>3. ASSUME NEW h \in Handlers, OfMembers(h) PROVE AllDecided'
  <2>1. request'[h] # Null => Decided(request'[h])
    BY <1>1, <1>3, CallsDecide, StepsDecide DEF OfMembers, Members
  <2>2. QED
    BY <1>3, <2>1 DEF OfMembers, Moves, Others, AllDecided
<1>4. ASSUME NEW h \in Handlers, NEW steps, Moves(h, steps), steps \cap MemberSteps = {} PROVE AllDecided'
  BY <1>4 DEF Moves, Others, AllDecided
<1>5. RestSteps \cap MemberSteps = {} /\ FileSteps \cap MemberSteps = {}
  BY DEF MemberSteps, FileSteps, RestSteps, AccountSteps, TaskSteps, TemplateSteps, ItemSteps, CommentSteps,
     MailSteps, NoticeSteps, ChatSteps
<1>6. QED
  BY <1>1, <1>2, <1>3, <1>4, <1>5, Steps DEF OfFiles, OfRest

(* A member row that takes the last admin away was the only admin's. *)
LEMMA AdminGone ==
  ASSUME Roster, NEW u \in Users, NEW row, member' = [member EXCEPT ![u] = row],
         Admins # {}, Admins' = {}
  PROVE  Admins = {u} /\ ~(row # Null /\ row.active /\ row.role = "admin")
<1>1. \A v \in Users : member'[v] = IF v = u THEN row ELSE member[v]
  BY DEF Roster, Typed
<1>2. QED
  BY <1>1 DEF Admins, AdminsOf

(* Who took the last admin away. *)
Taker(h) ==
  /\ request[h] # Null /\ request[h].at \in {"patch:write", "deactivate:write", "accept:reactivate"}
  /\ request'[h] # request[h] /\ request[h].seen # Admins

LEMMA TakersSawOthers ==
  ASSUME Invited, AllDecided, NEW h \in Handlers, OfMembers(h), Admins # {}, Admins' = {}
  PROVE  Taker(h)
<1>1. Roster
  BY DEF Invited
<1>2. member' # member
  BY DEF Admins
<1>3. CASE PatchWrite(h)
  <2>1. /\ request[h].at = "patch:write" /\ request[h] # Null /\ request[h].user \in Users
        /\ member[request[h].user] \in MemberRows
    BY <1>3, ChangeRequests DEF PatchWrite, ChangeSteps, At
  <2>2. PICK u \in Users : u = request[h].user
    BY <2>1
  <2>3. member' = [member EXCEPT ![u] = [role |-> request[h].role, active |-> member[u].active]]
    BY <1>1, <1>3, <2>2 DEF PatchWrite, Roster, Typed
  <2>4. PICK row : row = [role |-> request[h].role, active |-> member[u].active]
    OBVIOUS
  <2>5. Admins = {u} /\ ~(row # Null /\ row.active /\ row.role = "admin")
    BY <1>1, <2>3, <2>4, AdminGone
  <2>6. row \in MemberRows /\ row.role = request[h].role /\ row.active = member[u].active
    <3>1. request[h].role \in Roles
      BY <1>3, ChangeRequests DEF PatchWrite, ChangeSteps
    <3>2. QED
      BY <2>1, <2>2, <2>4, <3>1 DEF MemberRows
  <2>7. request[h].role # "admin"
    BY <2>5, <2>6, NullIsNoMember DEF Admins, AdminsOf
  <2>8. request[h].seen # {u}
    BY <2>1, <2>2, <2>7 DEF AllDecided, Decided, MemberSteps
  <2>9. request'[h] = Null
    BY <1>3, Answers DEF PatchWrite, Invited
  <2>10. QED
    BY <2>1, <2>5, <2>8, <2>9 DEF Taker
<1>4. CASE DeactivateWrite(h)
  <2>1. /\ request[h].at = "deactivate:write" /\ request[h] # Null /\ request[h].user \in Users
    BY <1>4, ChangeRequests DEF DeactivateWrite, ChangeSteps, At
  <2>2. PICK u, row : u \in Users /\ u = request[h].user /\ row = [member[u] EXCEPT !.active = FALSE]
    BY <2>1
  <2>3. member' = [member EXCEPT ![u] = row]
    BY <1>4, <2>2 DEF DeactivateWrite
  <2>4. Admins = {u}
    BY <1>1, <2>2, <2>3, AdminGone
  <2>5. request[h].seen # {u}
    BY <2>1, <2>2 DEF AllDecided, Decided, MemberSteps
  <2>6. request'[h] = Null
    BY <1>4, Answers DEF DeactivateWrite, Invited
  <2>7. QED
    BY <2>1, <2>4, <2>5, <2>6 DEF Taker
<1>5. CASE AcceptReactivate(h)
  <2>1. /\ request[h].at = "accept:reactivate" /\ request[h] # Null
        /\ "at" \in DOMAIN request[h] /\ request[h].inv \in Invitations
    BY <1>5, Accepting DEF AcceptReactivate, AcceptSteps, At
  <2>2. PICK u, row : u \in Users /\ u = request[h].inv.user /\ row = [role |-> request[h].inv.role, active |-> TRUE]
    BY <2>1 DEF Invitations
  <2>3. member' = [member EXCEPT ![u] = row]
    BY <1>5, <2>2 DEF AcceptReactivate, Admit
  <2>4. Admins = {u}
    BY <1>1, <2>2, <2>3, AdminGone
  <2>5. u \notin request[h].seen
    BY <2>1, <2>2 DEF AllDecided, Decided, MemberSteps
  <2>6. request'[h] = [request[h] EXCEPT !.at = "accept:mark"]
    BY <1>5, Awaits DEF AcceptReactivate, Invited
  <2>7. request'[h] # request[h]
    BY <2>1, <2>6
  <2>8. QED
    BY <2>1, <2>4, <2>5, <2>7 DEF Taker
<1>6. CASE AcceptCreateMember(h)
  <2>1. request[h].inv \in Invitations
    BY <1>6, Accepting DEF AcceptCreateMember, AcceptSteps
  <2>2. PICK u, row : u \in Users /\ u = request[h].inv.user /\ row = [role |-> request[h].inv.role, active |-> TRUE]
    BY <2>1 DEF Invitations
  <2>3. member[u] = Null /\ member' = [member EXCEPT ![u] = row]
    BY <1>2, <1>6, <2>2 DEF AcceptCreateMember, Admit
  <2>4. Admins = {u}
    BY <1>1, <2>2, <2>3, AdminGone
  <2>5. QED
    BY <2>3, <2>4 DEF Admins, AdminsOf
<1>7. CASE ReactivateWrite(h)
  <2>1. request[h].user \in Users /\ member[request[h].user] \in MemberRows
    BY <1>7, ChangeRequests DEF ReactivateWrite, ChangeSteps
  <2>2. PICK u, row : u \in Users /\ u = request[h].user /\ row = [member[u] EXCEPT !.active = TRUE]
    BY <2>1
  <2>3. member' = [member EXCEPT ![u] = row]
    BY <1>7, <2>2 DEF ReactivateWrite
  <2>4. Admins = {u} /\ ~(row # Null /\ row.active /\ row.role = "admin")
    BY <1>1, <2>2, <2>3, AdminGone
  <2>5. row \in MemberRows /\ row.active /\ row.role = member[u].role
    BY <2>1, <2>2 DEF MemberRows
  <2>6. QED
    BY <2>4, <2>5, NullIsNoMember DEF Admins, AdminsOf
<1>8. QED
  BY <1>2, <1>3, <1>4, <1>5, <1>6, <1>7 DEF OfMembers, Members, MembersCall, Invite, PatchRole, Deactivate, Reactivate,
     Revoke, Resend, Accept, MembersContinue, InviteSupersede, InviteCreate, RevokeDelete, ResendRotate, AcceptAccount,
     AcceptCreateAccount, AcceptReadMember, AcceptMark, PatchCount, DeactivateCount, DeactivateTasks, memberVars

(* However changes of a role, deactivations and accepted invitations overlap: the last
   active admin goes only to a request that decided on a list of admins that has changed
   since. *)
THEOREM LastAdminGoesUnseen == Spec => LastAdminStays
<1>1. Init => AllDecided
  BY DEF Init, InitRequests, AllDecided
<1>2. ASSUME Invited, AllDecided, [Next]_vars, Admins # {}, Admins' = {}
      PROVE  \E h \in Handlers : Taker(h)
  <2>1. ~(UNCHANGED member)
    BY <1>2 DEF Admins
  <2>2. \E h \in Handlers : OfMembers(h)
    BY <1>2, <2>1, Steps DEF Invited, Idle, OfFiles, OfRest, roster, Expire
  <2>3. QED
    BY <1>2, <2>2, TakersSawOthers
<1>3. Invited /\ AllDecided /\ [Next]_vars =>
        [Admins # {} /\ Admins' = {} =>
           \E h \in Handlers :
             /\ request[h] # Null /\ request[h].at \in {"patch:write", "deactivate:write", "accept:reactivate"}
             /\ request'[h] # request[h] /\ request[h].seen # Admins]_<<request, served, memberVars>>
  BY <1>2 DEF Taker
<1>4. Invited /\ AllDecided /\ [Next]_vars => AllDecided'
  BY DecidedNext
<1>5. QED
  BY <1>1, <1>3, <1>4, InvitationsAreKept, PTL DEF Spec, LastAdminStays

----------------------------------------------------------------------------
(* The versions of templates.  A row, also one that a request read some steps ago, has a
   history of versions the template really had. *)
TrueRow(t, r) ==
  /\ DOMAIN r = {"type", "creator", "shared", "version", "data", "history"}
  /\ r.version \in Nat /\ r.history \in Seq(past[t]) /\ CountsDown(r) /\ Entry(r) \in past[t]

FreshRow(r) ==
  /\ DOMAIN r = {"type", "creator", "shared", "version", "data", "history"}
  /\ r.version = 1 /\ r.history = << >>

RightRequest(r) ==
  /\ r.at = "template:update" => r.on.id \in Templates /\ TrueRow(r.on.id, r.on.seen)
  /\ r.at = "template:create" => FreshRow(r.on)

Versions ==
  /\ DOMAIN template = Templates /\ DOMAIN past = Templates
  /\ \A t \in Templates : template[t] # Null => TrueRow(t, template[t])

Historic ==
  /\ Shape /\ Versions
  /\ \A h \in Handlers : request[h] # Null /\ request[h].at \in TemplateSteps => RightRequest(request[h])

PastGrows == \A t \in Templates : past[t] \subseteq past'[t]

LEMMA TrueStays ==
  ASSUME PastGrows, NEW t \in Templates, NEW r, TrueRow(t, r)
  PROVE  TrueRow(t, r)'
<1>1. past[t] \subseteq past'[t]
  BY DEF PastGrows
<1>2. r.history \in Seq(past'[t])
  BY <1>1 DEF TrueRow
<1>3. QED
  BY <1>1, <1>2 DEF TrueRow

(* The first five of an entry and what was there before. *)
LEMMA LatestEntries ==
  ASSUME NEW S, NEW e \in S, NEW s \in Seq(S)
  PROVE  /\ Latest(<<e>> \o s) \in Seq(S) /\ Len(Latest(<<e>> \o s)) \in 1..5
         /\ Latest(<<e>> \o s)[1] = e
         /\ \A i \in DOMAIN Latest(<<e>> \o s) : i > 1 => i - 1 \in DOMAIN s /\ Latest(<<e>> \o s)[i] = s[i - 1]
<1>1. PICK all : all = <<e>> \o s
  OBVIOUS
<1>2. /\ all \in Seq(S) /\ Len(all) = Len(s) + 1 /\ all[1] = e
      /\ \A i \in 1..Len(all) : i > 1 => i - 1 \in DOMAIN s /\ all[i] = s[i - 1]
  BY <1>1
<1>3. PICK n \in Nat : n = (IF Len(all) < 5 THEN Len(all) ELSE 5)
  BY <1>2
<1>4. n \in 1..5 /\ n <= Len(all) /\ \A i \in 1..n : all[i] \in S
  <2>1. PICK k : k = Len(all)
    OBVIOUS
  <2>2. Len(s) \in Nat
    OBVIOUS
  <2>3. k \in Nat /\ k >= 1
    BY <1>2, <2>1, <2>2
  <2>4. n \in 1..5 /\ n <= k
    BY <1>3, <2>1, <2>3
  <2>5. \A i \in 1..k : all[i] \in S
    BY <1>2, <2>1
  <2>6. QED
    BY <2>1, <2>3, <2>4, <2>5
<1>5. /\ SubSeq(all, 1, n) \in Seq(S) /\ Len(SubSeq(all, 1, n)) = n
      /\ \A i \in 1..n : SubSeq(all, 1, n)[i] = all[i]
  <2>1. \A i \in 1..n - 1 + 1 : SubSeq(all, 1, n)[i] = all[1 + i - 1]
    BY <1>4, SubSeqProperties
  <2>2. \A i \in 1..n : SubSeq(all, 1, n)[i] = all[i]
    BY <1>4, <2>1
  <2>3. QED
    BY <1>4, <2>2, SubSeqProperties
<1>6. PICK first : first = SubSeq(all, 1, n)
  OBVIOUS
<1>7. Latest(<<e>> \o s) = first
  BY <1>1, <1>3, <1>6 DEF Latest
<1>8. first \in Seq(S) /\ Len(first) \in 1..5 /\ DOMAIN first = 1..n /\ \A i \in 1..n : first[i] = all[i]
  BY <1>4, <1>5, <1>6
<1>9. first[1] = e /\ \A i \in DOMAIN first : i > 1 => i - 1 \in DOMAIN s /\ first[i] = s[i - 1]
  BY <1>2, <1>4, <1>8
<1>10. QED
  BY <1>7, <1>8, <1>9

(* A history that follows from a true row is true, and says the row was there. *)
LEMMA HistoryFollows ==
  ASSUME NEW t \in Templates, NEW seen, TrueRow(t, seen), NEW data,
         NEW row, row.version = seen.version + 1, row.history = History(seen, data)
  PROVE  /\ row.history \in Seq(past[t]) /\ CountsDown(row) /\ row.version \in Nat
         /\ row.history # << >> /\ Head(row.history) = Entry(seen)
<1>1. seen.version \in Nat /\ seen.history \in Seq(past[t]) /\ Entry(seen) \in past[t] /\ CountsDown(seen)
  BY DEF TrueRow
<1>2. row.history = Latest(<<Entry(seen)>> \o seen.history)
  BY DEF History
<1>3. /\ row.history \in Seq(past[t]) /\ Len(row.history) \in 1..5 /\ row.history[1] = Entry(seen)
      /\ \A i \in DOMAIN row.history : i > 1 => i - 1 \in DOMAIN seen.history /\ row.history[i] = seen.history[i - 1]
  BY <1>1, <1>2, LatestEntries
<1>4. ASSUME NEW i \in DOMAIN row.history PROVE row.history[i].version = row.version - i
  <2>1. i \in Nat \ {0}
    BY <1>3
  <2>2. CASE i = 1
    BY <1>1, <1>3, <2>2 DEF Entry
  <2>3. CASE i > 1
    <3>1. /\ i - 1 \in DOMAIN seen.history /\ row.history[i] = seen.history[i - 1]
          /\ seen.history[i - 1].version = seen.version - (i - 1)
      BY <1>1, <1>3, <2>3 DEF CountsDown
    <3>2. QED
      BY <1>1, <2>1, <3>1
  <2>4. QED
    BY <2>1, <2>2, <2>3
<1>5. row.history # << >> /\ Head(row.history) = Entry(seen)
  BY <1>3
<1>6. Len(row.history) <= 5 /\ row.version \in Nat
  <2>1. row.version \in Nat
    BY <1>1
  <2>2. \A n \in 1..5 : n <= 5
    OBVIOUS
  <2>3. QED
    BY <1>3, <2>1, <2>2
<1>7. CountsDown(row)
  BY <1>4, <1>6 DEF CountsDown
<1>8. QED
  BY <1>3, <1>5, <1>6, <1>7

(* What a step of the templates has to show. *)
LEMMA HistoricByOne ==
  ASSUME Historic, Shape', NEW h \in Handlers, Others(h), Versions', PastGrows,
         request'[h] # Null /\ request'[h].at \in TemplateSteps => RightRequest(request[h])'
  PROVE  Historic'
<1>1. ASSUME NEW g \in Handlers \ {h}, request'[g] # Null, request'[g].at \in TemplateSteps
      PROVE  RightRequest(request[g])'
  <2>1. request'[g] = request[g] /\ RightRequest(request[g])
    BY <1>1 DEF Others, Historic
  <2>2. QED
    BY <2>1, TrueStays DEF RightRequest
<1>2. QED
  BY <1>1 DEF Historic

LEMMA VersionsStay ==
  ASSUME Versions, UNCHANGED templateVars
  PROVE  Versions' /\ PastGrows
BY DEF Versions, templateVars, PastGrows, TrueRow

LEMMA TemplateStored ==
  ASSUME Versions, NEW t \in Templates, NEW row, StoreTemplate(t, row),
         DOMAIN row = {"type", "creator", "shared", "version", "data", "history"},
         row.version \in Nat, row.history \in Seq(past[t]), CountsDown(row)
  PROVE  Versions' /\ PastGrows
<1>1. /\ DOMAIN template' = Templates /\ DOMAIN past' = Templates
      /\ \A s \in Templates : template'[s] = IF s = t THEN row ELSE template[s]
      /\ \A s \in Templates : past'[s] = IF s = t THEN past[s] \cup {Entry(row)} ELSE past[s]
  BY DEF StoreTemplate, Versions
<1>2. PastGrows
  BY <1>1 DEF PastGrows
<1>3. TrueRow(t, row)'
  <2>1. past[t] \subseteq past'[t] /\ Entry(row) \in past'[t]
    BY <1>1
  <2>2. row.history \in Seq(past'[t])
    BY <2>1
  <2>3. QED
    BY <2>1, <2>2 DEF TrueRow
<1>4. \A s \in Templates : s # t /\ template[s] # Null => TrueRow(s, template[s])'
  <2> SUFFICES ASSUME NEW s \in Templates, s # t, template[s] # Null PROVE TrueRow(s, template[s])'
    OBVIOUS
  <2>1. PICK r : r = template[s]
    OBVIOUS
  <2>2. TrueRow(s, r)'
    BY <1>2, <2>1, TrueStays DEF Versions
  <2>3. template'[s] = r
    BY <1>1, <2>1
  <2>4. QED
    BY <2>2, <2>3
<1>5. \A s \in Templates : template'[s] # Null => TrueRow(s, template[s])'
  <2> SUFFICES ASSUME NEW s \in Templates, template'[s] # Null PROVE TrueRow(s, template[s])'
    OBVIOUS
  <2>1. CASE s = t
    <3>1. template'[s] = row
      BY <1>1, <2>1
    <3>2. QED
      BY <1>3, <2>1, <3>1
  <2>2. CASE s # t
    BY <1>1, <1>4, <2>2
  <2>3. QED
    BY <2>1, <2>2
<1>6. QED
  BY <1>1, <1>2, <1>5 DEF Versions

LEMMA TemplateCallsTrue ==
  ASSUME Historic, Shape', NEW h \in Handlers, TemplatesCall(h)
  PROVE  Historic'
<1>1. Shape /\ Versions /\ Versions' /\ PastGrows
  BY VersionsStay DEF Historic, TemplatesCall
<1>2. ASSUME NEW u, NEW step, NEW args, Call(h, u, step, args),
             \A r : r.at = step /\ r.on = args => RightRequest(r)
      PROVE  Historic'
  <2>1. Others(h) /\ request'[h] = [at |-> step, by |-> u, on |-> args]
    BY <1>1, <1>2, Calls
  <2>2. PICK r : r = [at |-> step, by |-> u, on |-> args]
    OBVIOUS
  <2>3. RightRequest(r)
    BY <1>2, <2>2
  <2>4. RightRequest(r)'
    BY <1>1, <2>3, TrueStays DEF RightRequest
  <2>5. request'[h] = r
    BY <2>1, <2>2
  <2>6. RightRequest(request[h])'
    BY <2>4, <2>5
  <2>7. QED
    BY <1>1, <2>1, <2>6, HistoricByOne
<1>3. ASSUME NEW u, NEW type, NEW shared, NEW data, NewTemplate(h, u, type, shared, data) PROVE Historic'
  <2>1. PICK row : row = [type |-> type, creator |-> u, shared |-> shared, version |-> 1, data |-> data, history |-> << >>]
    OBVIOUS
  <2>2. FreshRow(row)
    BY <2>1 DEF FreshRow
  <2>3. \A r : r.at = "template:create" /\ r.on = row => RightRequest(r)
    BY <2>2 DEF RightRequest
  <2>4. Call(h, u, "template:create", row)
    BY <1>3, <2>1 DEF NewTemplate
  <2>5. QED
    BY <1>2, <2>3, <2>4
<1>4. ASSUME NEW u, NEW t \in Templates, NEW data, NEW shared, UpdateTemplate(h, u, t, data, shared) PROVE Historic'
  <2>1. PICK args : args = [id |-> t, seen |-> template[t], data |-> data, shared |-> shared]
    OBVIOUS
  <2>2. template[t] # Null /\ Call(h, u, "template:update", args)
    BY <1>4, <2>1 DEF UpdateTemplate, Reaches
  <2>3. args.id \in Templates /\ TrueRow(args.id, args.seen)
    BY <1>1, <2>1, <2>2 DEF Versions
  <2>4. \A r : r.at = "template:update" /\ r.on = args => RightRequest(r)
    BY <2>3 DEF RightRequest
  <2>5. QED
    BY <1>2, <2>2, <2>4
<1>5. ASSUME NEW u, NEW step \in {"template:remove", "template:list", "template:task"}, NEW args, Call(h, u, step, args)
      PROVE  Historic'
  <2>1. \A r : r.at = step /\ r.on = args => RightRequest(r)
    BY DEF RightRequest
  <2>2. QED
    BY <1>2, <1>5, <2>1
<1>6. \/ \E u, type, shared, d : CreateTemplate(h, u, type, shared, d)
      \/ \E u, t, shared : SaveTask(h, u, t, shared) \/ SaveList(h, u, t, shared)
      \/ \E u, t : DuplicateTemplate(h, u, t) \/ RemoveTemplate(h, u, t) \/ InstantiateList(h, u, t)
      \/ \E u, t, l : ApplyTemplate(h, u, t, l)
      \/ \E t \in Templates : \E u, d, shared : UpdateTemplate(h, u, t, d, shared)
  BY DEF TemplatesCall
<1>7. CASE \E u, type, shared, d : CreateTemplate(h, u, type, shared, d)
  BY <1>3, <1>7 DEF CreateTemplate
<1>8. CASE \E u, t, shared : SaveTask(h, u, t, shared) \/ SaveList(h, u, t, shared)
  BY <1>3, <1>8 DEF SaveTask, SaveList
<1>9. CASE \E u, t : DuplicateTemplate(h, u, t) \/ RemoveTemplate(h, u, t) \/ InstantiateList(h, u, t)
  BY <1>3, <1>5, <1>9 DEF DuplicateTemplate, RemoveTemplate, InstantiateList
<1>10. CASE \E u, t, l : ApplyTemplate(h, u, t, l)
  BY <1>5, <1>10 DEF ApplyTemplate
<1>11. CASE \E t \in Templates : \E u, d, shared : UpdateTemplate(h, u, t, d, shared)
  BY <1>4, <1>11
<1>12. QED
  BY <1>6, <1>7, <1>8, <1>9, <1>10, <1>11

(* What a template request that continues holds. *)
LEMMA RightStep ==
  ASSUME Historic, NEW h \in Handlers, NEW step \in TemplateSteps, At(h, step)
  PROVE  RightRequest(request[h]) /\ request[h].at = step
BY DEF Historic, At

LEMMA UpdatesTrue ==
  ASSUME Historic, NEW h \in Handlers, TemplateUpdate(h)
  PROVE  /\ Versions' /\ PastGrows
         /\ \A t \in Templates : template'[t] # template[t] =>
              t = On(h).id /\ (On(h).seen = template[t] =>
                                template'[t].history # << >> /\ Head(template'[t].history) = Entry(template[t]))
<1>1. PICK t, seen, data : /\ t \in Templates /\ t = On(h).id /\ TrueRow(t, seen)
                            /\ seen = On(h).seen /\ data = On(h).data
  BY RightStep DEF TemplateUpdate, TemplateSteps, RightRequest, On
<1>2. Versions
  BY DEF Historic
<1>3. CASE template[t] = Null
  BY <1>1, <1>2, <1>3, VersionsStay DEF TemplateUpdate, templateVars
<1>4. CASE template[t] # Null
  <2>1. PICK row : row = [template[t] EXCEPT !.version = seen.version + 1, !.history = History(seen, data),
                                             !.data = Given(data, @), !.shared = Given(On(h).shared, @)]
    OBVIOUS
  <2>2. StoreTemplate(t, row)
    BY <1>1, <1>4, <2>1 DEF TemplateUpdate
  <2>3. DOMAIN template[t] = {"type", "creator", "shared", "version", "data", "history"}
    BY <1>1, <1>2, <1>4 DEF Versions, TrueRow
  <2>4. /\ DOMAIN row = {"type", "creator", "shared", "version", "data", "history"}
        /\ row.version = seen.version + 1 /\ row.history = History(seen, data)
    BY <2>1, <2>3
  <2>5. /\ row.history \in Seq(past[t]) /\ CountsDown(row) /\ row.version \in Nat
        /\ row.history # << >> /\ Head(row.history) = Entry(seen)
    BY <1>1, <2>4, HistoryFollows
  <2>6. Versions' /\ PastGrows
    BY <1>1, <1>2, <2>2, <2>4, <2>5, TemplateStored
  <2>7. \A s \in Templates : template'[s] = IF s = t THEN row ELSE template[s]
    BY <1>2, <2>2 DEF StoreTemplate, Versions
  <2>8. QED
    BY <1>1, <2>5, <2>6, <2>7
<1>5. QED
  BY <1>3, <1>4

LEMMA TemplateStepsTrue ==
  ASSUME Historic, Shape', NEW h \in Handlers, TemplatesContinue(h)
  PROVE  Historic'
<1>1. Shape /\ Versions
  BY DEF Historic
<1>2. Moves(h, TemplateSteps)
  BY <1>1, TemplatesMove
<1>3. CASE TemplateCreate(h)
  <2>1. PICK t, row : t \in Templates /\ past[t] = {} /\ row = On(h) /\ StoreTemplate(t, row)
    BY <1>3 DEF TemplateCreate
  <2>2. FreshRow(row)
    BY <1>3, <2>1, RightStep DEF TemplateCreate, TemplateSteps, RightRequest, On
  <2>3. row.version \in Nat /\ row.history \in Seq(past[t]) /\ CountsDown(row)
    BY <2>2 DEF FreshRow, CountsDown
  <2>4. Versions' /\ PastGrows
    BY <1>1, <2>1, <2>2, <2>3, TemplateStored DEF FreshRow
  <2>5. request'[h] = Null
    BY <1>1, <1>3, Answers DEF TemplateCreate
  <2>6. QED
    BY <1>2, <2>4, <2>5, HistoricByOne DEF Moves
<1>4. CASE TemplateUpdate(h)
  <2>1. request'[h] = Null
    BY <1>1, <1>4, Answers DEF TemplateUpdate
  <2>2. QED
    BY <1>2, <1>4, <2>1, UpdatesTrue, HistoricByOne DEF Moves
<1>5. CASE TemplateRemove(h)
  <2>1. request'[h] = Null /\ UNCHANGED past /\ template' = [template EXCEPT ![On(h).id] = Null]
    BY <1>1, <1>5, Answers DEF TemplateRemove
  <2>2. Versions' /\ PastGrows
    BY <1>1, <2>1 DEF Versions, PastGrows, TrueRow
  <2>3. QED
    BY <1>2, <2>1, <2>2, HistoricByOne DEF Moves
<1>6. CASE TemplateList(h) \/ TemplateTask(h)
  <2>1. UNCHANGED templateVars
    BY <1>6 DEF TemplateList, TemplateTask
  <2>2. request'[h] = Null \/ request'[h].at = "template:task"
    <3>1. ASSUME NEW l, NEW rest, Onward(h, l, rest) PROVE request'[h] = Null \/ request'[h].at = "template:task"
      BY <1>1, <3>1, Answers, Awaits DEF Onward
    <3>2. CASE Answer(h)
      BY <1>1, <3>2, Answers
    <3>3. \/ \E l : Onward(h, l, On(h).data)
          \/ Onward(h, On(h).list, Tail(On(h).data)) \/ Answer(h)
      BY <1>6 DEF TemplateList, TemplateTask
    <3>4. CASE \E l : Onward(h, l, On(h).data)
      BY <3>1, <3>4
    <3>5. CASE Onward(h, On(h).list, Tail(On(h).data))
      BY <3>1, <3>5
    <3>6. QED
      BY <3>2, <3>3, <3>4, <3>5
  <2>3. request'[h] # Null => RightRequest(request[h])'
    BY <2>2 DEF RightRequest
  <2>4. QED
    BY <1>1, <1>2, <2>1, <2>3, VersionsStay, HistoricByOne DEF Moves
<1>7. QED
  BY <1>3, <1>4, <1>5, <1>6 DEF TemplatesContinue

(* Who writes templates. *)
LEMMA TemplatesAside ==
  ASSUME Shape, [Next]_vars
  PROVE  \/ /\ UNCHANGED templateVars
            /\ \A g \in Handlers : request'[g] # Null /\ request'[g].at \in TemplateSteps => request'[g] = request[g]
         \/ \E h \in Handlers : TemplatesCall(h) \/ TemplatesContinue(h)
<1> DEFINE Aside == \A g \in Handlers : request'[g] # Null /\ request'[g].at \in TemplateSteps => request'[g] = request[g]
           Elsewhere == MemberSteps \cup AccountSteps \cup TaskSteps \cup FileSteps \cup ItemSteps \cup CommentSteps
                        \cup MailSteps \cup NoticeSteps \cup ChatSteps
<1>1. Elsewhere \cap TemplateSteps = {}
  BY DEF MemberSteps, AccountSteps, TaskSteps, FileSteps, ItemSteps, CommentSteps, MailSteps, NoticeSteps, ChatSteps,
     TemplateSteps
<1>2. ASSUME NEW h \in Handlers, NEW steps \in SUBSET Elsewhere, Moves(h, steps) PROVE Aside
  BY <1>1, <1>2 DEF Moves, Others
<1>3. ASSUME NEW h \in Handlers, Serve(h)
      PROVE  (UNCHANGED templateVars /\ Aside) \/ TemplatesCall(h) \/ TemplatesContinue(h)
  <2>1. CASE Members(h)
    BY <1>2, <2>1, MembersMove DEF Members
  <2>2. CASE SignIn(h)
    BY <1>2, <2>2, AccountsMove DEF SignIn, contentVars
  <2>3. CASE Board(h)
    BY <1>2, <2>3, TasksMove DEF Board, Cascade
  <2>4. CASE (AttachmentsCall(h) \/ AttachmentsContinue(h)) /\ UNCHANGED templateVars
    BY <1>2, <2>4, AttachmentsMove
  <2>5. CASE (ChecklistsCall(h) \/ ChecklistsContinue(h)) /\ UNCHANGED templateVars
    BY <1>2, <2>5, ChecklistsMove
  <2>6. CASE (CommentsCall(h) \/ CommentsContinue(h)) /\ UNCHANGED templateVars
    BY <1>2, <2>6, CommentsMove
  <2>7. CASE ((\E m \in Mails : Ingest(h, m)) \/ MailTask(h) \/ MailMetadata(h)) /\ UNCHANGED templateVars
    BY <1>2, <2>7, MailsMove
  <2>8. CASE (NoticesCall(h) \/ NoticesContinue(h)) /\ UNCHANGED templateVars
    BY <1>2, <2>8, NoticesMove
  <2>9. CASE (ChatroomCall(h) \/ ChatroomContinue(h)) /\ UNCHANGED templateVars
    BY <1>2, <2>9, ChatroomMove
  <2> HIDE DEF Aside, Elsewhere
  <2>10. CASE Content(h)
    BY <2>4, <2>5, <2>6, <2>7, <2>8, <2>9, <2>10 DEF Content
  <2>11. QED
    BY <1>3, <2>1, <2>2, <2>3, <2>10 DEF Serve
<1>4. CASE Time
  BY <1>4 DEF Time, Cascade, contentVars, Expire, ExpireLink, AutoArchive, TrashCleanup, Tick
<1>5. CASE Mailing \/ Pushing \/ Chatting
  BY <1>5 DEF Mailing, SendMail, Pushing, Pushes, Forget, Chatting, Background, MuteEnds, AttachLinkPreview
<1>6. CASE Crash
  BY <1>6 DEF Crash, Die
<1>7. CASE UNCHANGED vars
  BY <1>7 DEF vars, contentVars
<1>8. QED
  BY <1>3, <1>4, <1>5, <1>6, <1>7 DEF Next

LEMMA HistoricNext ==
  ASSUME Historic, [Next]_vars
  PROVE  Historic'
<1>1. Shape /\ Shape' /\ Versions
  BY ShapeStays DEF Historic
<1>2. CASE /\ UNCHANGED templateVars
           /\ \A g \in Handlers : request'[g] # Null /\ request'[g].at \in TemplateSteps => request'[g] = request[g]
  <2>1. Versions' /\ PastGrows
    BY <1>1, <1>2, VersionsStay
  <2>2. ASSUME NEW g \in Handlers, request'[g] # Null, request'[g].at \in TemplateSteps PROVE RightRequest(request[g])'
    <3>1. request'[g] = request[g] /\ RightRequest(request[g])
      BY <1>2, <2>2 DEF Historic
    <3>2. QED
      BY <2>1, <3>1, TrueStays DEF RightRequest
  <2>3. QED
    BY <1>1, <2>1, <2>2 DEF Historic
<1>3. QED
  BY <1>1, <1>2, TemplatesAside, TemplateCallsTrue, TemplateStepsTrue

LEMMA TemplatesAreHistoric == Spec => []Historic
<1>1. Init => Historic
  <2> SUFFICES ASSUME Init PROVE Historic
    OBVIOUS
  <2>1. PICK s \in Starts : InitTemplates(s.template)
    BY DEF Init
  <2>2. template = s.template /\ DOMAIN template = Templates /\ DOMAIN past = Templates
    BY <2>1, StartsAreTidy DEF InitTemplates
  <2>3. ASSUME NEW t \in Templates, template[t] # Null PROVE TrueRow(t, template[t])
    <3>1. PICK r : r = template[t]
      OBVIOUS
    <3>2. r \in TemplateRows /\ CountsDown(r)
      BY <2>2, <2>3, <3>1, StartsAreTidy
    <3>3. past[t] = Entries(r)
      BY <2>1, <2>2, <2>3, <3>1 DEF InitTemplates
    <3>4. \A i \in DOMAIN r.history : r.history[i] \in past[t]
      BY <3>3 DEF Entries
    <3>5. r.history \in Seq(past[t])
      BY <3>2, <3>4 DEF TemplateRows
    <3>6. Entry(r) \in past[t]
      BY <3>3 DEF Entries
    <3>7. QED
      BY <3>1, <3>2, <3>5, <3>6 DEF TrueRow, TemplateRows
  <2>4. QED
    BY <2>2, <2>3 DEF Init, InitRequests, Historic, Shape, Versions
<1>2. QED
  BY <1>1, HistoricNext, PTL DEF Spec

(* However updates overlap: the history of a template counts down from the version before
   the current one, and every entry is what the template had under that number. *)
THEOREM HistoriesAreTrue == Spec => []HistoryIsTrue
<1>1. Historic => HistoryIsTrue
  BY DEF Historic, Versions, TrueRow, HistoryIsTrue
<1>2. QED
  BY <1>1, TemplatesAreHistoric, PTL

(* The request whose step overwrites a version it has not seen. *)
Loser(h, t) ==
  /\ At(h, "template:update") /\ request'[h] # request[h]
  /\ On(h).id = t /\ On(h).seen # template[t]

(* A version is lost without a trace in the history only to an update that read an older
   row: overlapping updates are the one way. *)
THEOREM VersionsGiveWay == Spec => VersionsAreKept
<1>1. ASSUME Historic, [Next]_vars, NEW t \in Templates,
             template[t] # Null, template'[t] # Null, template'[t] # template[t]
      PROVE  \/ template'[t].history # << >> /\ Head(template'[t].history) = Entry(template[t])
             \/ \E h \in Handlers : Loser(h, t)
  <2>1. Shape /\ Versions /\ TrueRow(t, template[t])
    BY <1>1 DEF Historic, Versions
  <2>2. PICK h \in Handlers : TemplatesCall(h) \/ TemplatesContinue(h)
    BY <1>1, <2>1, TemplatesAside DEF templateVars
  <2>3. CASE TemplateUpdate(h)
    <3>1. request'[h] = Null /\ At(h, "template:update")
      BY <2>1, <2>3, Answers DEF TemplateUpdate
    <3>2. t = On(h).id /\ (On(h).seen = template[t] =>
                              template'[t].history # << >> /\ Head(template'[t].history) = Entry(template[t]))
      BY <1>1, <2>3, UpdatesTrue
    <3>3. QED
      BY <3>1, <3>2 DEF Loser, At
  <2>4. CASE TemplateCreate(h)
    <3>1. PICK s \in Templates : past[s] = {} /\ StoreTemplate(s, On(h))
      BY <2>4 DEF TemplateCreate
    <3>2. s # t
      BY <2>1, <3>1 DEF TrueRow
    <3>3. QED
      BY <1>1, <2>1, <3>1, <3>2 DEF StoreTemplate, Versions
  <2>5. CASE TemplateRemove(h)
    BY <1>1, <2>1, <2>5 DEF TemplateRemove, Versions
  <2>6. QED
    BY <1>1, <2>2, <2>3, <2>4, <2>5 DEF TemplatesCall, TemplatesContinue, TemplateList, TemplateTask, templateVars
<1>2. Historic /\ [Next]_vars =>
        [ \A t \in Templates :
            template[t] # Null /\ template'[t] # Null /\ template'[t] # template[t] =>
              \/ template'[t].history # <<>> /\ Head(template'[t].history) = Entry(template[t])
              \/ \E h \in Handlers :
                   /\ At(h, "template:update") /\ request'[h] # request[h]
                   /\ On(h).id = t /\ On(h).seen # template[t] ]_<<request, served, taskVars, templateVars>>
  BY <1>1 DEF Loser
<1>3. QED
  BY <1>2, TemplatesAreHistoric, PTL DEF Spec, VersionsAreKept

----------------------------------------------------------------------------
(* The settings.  Who has asked for something, once and at a time, gets it: the request
   that will store it has it, or it is stored. *)
Changes(h, u) == At(h, "prefs") /\ By(h) = u

Asks ==
  /\ prefs \in [Users -> Prefs] /\ DOMAIN asked = Users
  /\ \A h \in Handlers : At(h, "prefs") => On(h).next \in Prefs
  /\ \A u \in Users : asked[u] # Null =>
       /\ \A g, h \in Handlers : Changes(g, u) /\ Changes(h, u) => g = h
       /\ \A h \in Handlers : Changes(h, u) => \A s \in Settings : Says(On(h).next, s) = asked[u][s]
       /\ ~Changing(u) => \A s \in Settings : Says(prefs[u], s) = asked[u][s]

LEMMA Merges ==
  ASSUME NEW p, NEW patch, NEW s \in Settings
  PROVE  Says(Merged(p, patch), s) = Over(patch, s, Says(p, s))
BY DEF Says, Merged, Settings, Channels

LEMMA MergesTyped ==
  ASSUME NEW p \in Prefs, NEW patch \in Patches
  PROVE  Merged(p, patch) \in Prefs
<1>1. \A s : \A b \in BOOLEAN : Over(patch, s, b) \in BOOLEAN
  BY PatchesAreSettings DEF Over
<1>2. QED
  BY <1>1 DEF Merged, Prefs

(* A step that leaves the settings alone. *)
LEMMA AsksStays ==
  ASSUME Asks, UNCHANGED <<prefs, asked>>,
         \A g \in Handlers : request'[g] = request[g] \/ (~At(g, "prefs") /\ ~At(g, "prefs")')
  PROVE  Asks'
<1>1. /\ \A g \in Handlers : At(g, "prefs")' => At(g, "prefs") /\ On(g)' = On(g)
      /\ \A g \in Handlers, u \in Users : (Changes(g, u)' <=> Changes(g, u)) /\ (Changes(g, u) => On(g)' = On(g))
  BY DEF Changes, At, By, On
<1>2. \A u \in Users : Changing(u)' <=> Changing(u)
  BY <1>1 DEF Changing, Changes
<1>3. QED
  BY <1>1, <1>2 DEF Asks

(* Only a store takes a change of the settings out of a request's hands. *)
LEMMA OnlyStores ==
  ASSUME NEW h \in Handlers, At(h, "prefs"), Serve(h)
  PROVE  PrefsStore(h)
<1>1. request[h] # Null /\ request[h].at = "prefs" /\ ~Free(h)
  BY DEF At, Free
<1>2. ~Members(h)
  BY <1>1 DEF Members, MembersCall, Invite, PatchRole, Deactivate, Reactivate, Revoke, Resend, Accept, Take,
     MembersContinue, InviteSupersede, InviteCreate, RevokeDelete, ResendRotate, AcceptAccount, AcceptCreateAccount,
     AcceptReadMember, AcceptCreateMember, AcceptReactivate, AcceptMark, PatchCount, PatchWrite, DeactivateCount,
     DeactivateTasks, DeactivateWrite, ReactivateWrite, At
<1>3. ~SignIn(h)
  BY <1>1 DEF SignIn, AccountsCall, AccountsContinue, AccountCreate, ForgotBurn, ForgotCommit,
     ResetCommit, At
<1>4. ~Board(h)
  BY <1>1 DEF Board, TasksCall, TasksContinue, ListCreate, ListDelete, ListAdd, ListRemove, TaskCreate, StatusStore,
     MoveStore, MoveSubtasks, AssignStore, TaskRemove, TaskRestore, TaskArchive, TaskUnarchive, TaskLock, TaskPurge, At
<1>5. ~(TemplatesCall(h) \/ TemplatesContinue(h))
  BY <1>1 DEF TemplatesCall, TemplatesContinue, TemplateCreate, TemplateUpdate, TemplateRemove, TemplateList,
     TemplateTask, At
<1>6. ~(AttachmentsCall(h) \/ AttachmentsContinue(h))
  BY <1>1 DEF AttachmentsCall, AttachmentsContinue, UploadPut, UploadRow, RemoveObject, RemoveRow, At
<1>7. ~(ChecklistsCall(h) \/ ChecklistsContinue(h))
  BY <1>1 DEF ChecklistsCall, ChecklistsContinue, ItemAdd, ItemCheck, ItemRemove, ReorderItem, ReorderCommit, GivenUp, At
<1>8. ~(CommentsCall(h) \/ CommentsContinue(h))
  BY <1>1 DEF CommentsCall, CommentsContinue, CommentCreate, CommentUpdate, CommentDelete, MentionResolve,
     MentionCreate, MentionRead, MentionSync, At
<1>9. ~((\E m \in Mails : Ingest(h, m)) \/ MailTask(h) \/ MailMetadata(h))
  BY <1>1 DEF Ingest, MailTask, MailMetadata, At
<1>10. ~(ChatroomCall(h) \/ ChatroomContinue(h))
  BY <1>1 DEF ChatroomCall, ChatroomContinue, SeatStore, SeatLeave, SeatAdd, SeatMute, SeatMark, MessageStore,
     NotifyParticipants, MarkStore, ReactionStore, ReactionRemove, PinStore, At
<1>11. NoticesCall(h) \/ NoticesContinue(h) => PrefsStore(h)
  BY <1>1 DEF NoticesCall, NoticesContinue, DeviceStore, Dispatch, At
<1>12. QED
  BY <1>2, <1>3, <1>4, <1>5, <1>6, <1>7, <1>8, <1>9, <1>10, <1>11 DEF Serve, Content

(* What becomes of the settings in the other steps of a request. *)
LEMMA SettingsAside ==
  ASSUME Shape, NEW h \in Handlers, Serve(h)
  PROVE  \/ UNCHANGED <<prefs, asked>> /\ Moves(h, {"prefs"} \cup RestSteps \cup MemberSteps \cup FileSteps)
                                       /\ ~At(h, "prefs")'
         \/ \E u \in Users, patch \in Patches : UpdatePrefs(h, u, patch)
         \/ PrefsStore(h)
<1>1. ASSUME NEW steps \in {MemberSteps, AccountSteps, TaskSteps, TemplateSteps, FileSteps, ItemSteps, CommentSteps,
                            MailSteps, ChatSteps, {"subscribe", "tell"}}, Moves(h, steps)
      PROVE  Moves(h, {"prefs"} \cup RestSteps \cup MemberSteps \cup FileSteps) /\ ~At(h, "prefs")'
  BY <1>1 DEF Moves, At, RestSteps, MemberSteps, AccountSteps, TaskSteps, TemplateSteps, FileSteps, ItemSteps,
     CommentSteps, MailSteps, NoticeSteps, ChatSteps
<1>2. CASE Members(h)
  BY <1>1, <1>2, MembersMove DEF Members, EventsFollow
<1>3. CASE SignIn(h)
  BY <1>1, <1>3, AccountsMove DEF SignIn, contentVars, noticeVars
<1>4. CASE Board(h)
  BY <1>1, <1>4, TasksMove DEF Board, Cascade, noticeVars
<1>5. CASE (TemplatesCall(h) \/ TemplatesContinue(h)) /\ UNCHANGED noticeVars
  BY <1>1, <1>5, TemplatesMove DEF noticeVars
<1>6. CASE (AttachmentsCall(h) \/ AttachmentsContinue(h)) /\ UNCHANGED noticeVars
  BY <1>1, <1>6, AttachmentsMove DEF noticeVars
<1>7. CASE (ChecklistsCall(h) \/ ChecklistsContinue(h)) /\ UNCHANGED noticeVars
  BY <1>1, <1>7, ChecklistsMove DEF noticeVars
<1>8. CASE ((\E m \in Mails : Ingest(h, m)) \/ MailTask(h) \/ MailMetadata(h)) /\ UNCHANGED noticeVars
  BY <1>1, <1>8, MailsMove DEF noticeVars
<1>9. CASE CommentsCall(h) \/ CommentsContinue(h)
  <2>1. UNCHANGED <<prefs, asked>>
    BY <1>9 DEF CommentsCall, Comment, EditComment, RemoveComment, CommentsContinue, CommentCreate, CommentUpdate,
       CommentDelete, MentionResolve, MentionCreate, MentionRead, MentionSync, quiet, noticeVars
  <2>2. QED
    BY <1>1, <1>9, <2>1, CommentsMove
<1>10. CASE ChatroomCall(h) \/ ChatroomContinue(h)
  <2>1. UNCHANGED <<prefs, asked>>
    BY <1>10 DEF ChatroomCall, ChatroomContinue, SeatStore, Listeners, MessageStore, NotifyParticipants, MarkStore,
       silence, talkVars, noticeVars
  <2>2. QED
    BY <1>1, <1>10, <2>1, ChatroomMove
<1>11. CASE NoticesCall(h) \/ NoticesContinue(h)
  <2>1. CASE UNCHANGED noticeVars /\ \E u \in Users, d \in Devices : Subscribe(h, u, d) \/ Unsubscribe(h, u, d)
    <3>1. Moves(h, {"subscribe", "tell"})
      BY <2>1, CallsMove DEF Subscribe, Unsubscribe
    <3>2. QED
      BY <1>1, <2>1, <3>1 DEF noticeVars
  <2>2. ASSUME NEW u, NEW us, NEW channel, Announce(h, u, us, channel)
        PROVE  UNCHANGED <<prefs, asked>> /\ Moves(h, {"subscribe", "tell"})
    BY <2>2, CallsMove DEF Announce
  <2>3. CASE \E u \in Users, t \in Tasks : NotifyAssigned(h, u, t) \/ NotifyStatusChanged(h, u, t)
    BY <1>1, <2>2, <2>3 DEF NotifyAssigned, NotifyStatusChanged
  <2>4. CASE DeviceStore(h)
    BY <1>1, <2>4, Answers DEF DeviceStore
  <2>5. CASE Dispatch(h)
    <3>1. \E e, first, next : Tell(h, e, first, next)
      BY <2>5 DEF Dispatch, DispatchRead, DispatchWrite
    <3>2. Moves(h, {"subscribe", "tell"})
      BY <3>1, TellMoves DEF Moves
    <3>3. QED
      BY <1>1, <2>5, <3>2 DEF Dispatch
  <2>6. QED
    BY <1>11, <2>1, <2>3, <2>4, <2>5 DEF NoticesCall, NoticesContinue
<1>12. CASE Content(h)
  BY <1>5, <1>6, <1>7, <1>8, <1>9, <1>10, <1>11, <1>12 DEF Content
<1>13. QED
  BY <1>2, <1>3, <1>4, <1>12 DEF Serve

LEMMA AsksUpdate ==
  ASSUME Asks, Shape, NEW h \in Handlers, NEW u \in Users, NEW patch \in Patches, UpdatePrefs(h, u, patch)
  PROVE  Asks'
<1>1. PICK r : r = [at |-> "prefs", by |-> u, on |-> [next |-> Merged(prefs[u], patch)]]
  OBVIOUS
<1>2. Others(h) /\ request[h] = Null /\ request'[h] = r /\ UNCHANGED prefs
  BY <1>1, Calls DEF UpdatePrefs
<1>3. /\ r.at = "prefs" /\ r.by = u /\ r.on.next = Merged(prefs[u], patch) /\ r # Null
      /\ Merged(prefs[u], patch) \in Prefs
  BY <1>1, MergesTyped, NullIsNoPatch DEF Asks, PrefsRequests
<1>4. \A g \in Handlers \ {h} : \A v \in Users : (Changes(g, v)' <=> Changes(g, v)) /\ On(g)' = On(g)
  BY <1>2 DEF Others, Changes, At, By, On
<1>5. \A v \in Users : ~Changes(h, v) /\ (Changes(h, v)' => v = u)
  BY <1>2, <1>3 DEF Changes, At, By
<1>6. DOMAIN asked' = Users /\ \A v \in Users \ {u} : asked'[v] = asked[v]
  BY <1>2 DEF UpdatePrefs, Asks
<1>7. ASSUME NEW v \in Users \ {u}, asked'[v] # Null
      PROVE  /\ \A g, k \in Handlers : Changes(g, v)' /\ Changes(k, v)' => g = k
             /\ \A g \in Handlers : Changes(g, v)' => \A s \in Settings : Says(On(g)'.next, s) = asked'[v][s]
             /\ ~Changing(v)' => \A s \in Settings : Says(prefs'[v], s) = asked'[v][s]
  <2>1. \A g \in Handlers : (Changes(g, v)' <=> Changes(g, v)) /\ (Changes(g, v) => On(g)' = On(g))
    BY <1>4, <1>5, <1>7
  <2>2. Changing(v)' <=> Changing(v)
    BY <2>1 DEF Changing, Changes
  <2>3. QED
    BY <1>2, <1>6, <1>7, <2>1, <2>2 DEF Asks
<1>8. ASSUME asked'[u] # Null
      PROVE  /\ \A g, k \in Handlers : Changes(g, u)' /\ Changes(k, u)' => g = k
             /\ \A g \in Handlers : Changes(g, u)' => \A s \in Settings : Says(On(g)'.next, s) = asked'[u][s]
             /\ ~Changing(u)' => \A s \in Settings : Says(prefs'[u], s) = asked'[u][s]
  <2>1. asked[u] # Null /\ ~Changing(u) /\ asked'[u] = [s \in Settings |-> Over(patch, s, asked[u][s])]
    BY <1>8 DEF UpdatePrefs, Asks
  <2>2. \A g \in Handlers : ~Changes(g, u)
    BY <2>1 DEF Changing, Changes
  <2>3. \A g \in Handlers : Changes(g, u)' => g = h
    BY <1>4, <2>2
  <2>4. Changing(u)' /\ On(h)'.next = Merged(prefs[u], patch)
    BY <1>2, <1>3 DEF Changing, At, By, On
  <2>5. \A s \in Settings : Says(Merged(prefs[u], patch), s) = asked'[u][s]
    BY <2>1, Merges DEF Asks
  <2>6. QED
    BY <2>3, <2>4, <2>5
<1>9. \A g \in Handlers : At(g, "prefs")' => On(g)'.next \in Prefs
  <2>1. On(h)' = r.on
    BY <1>2 DEF On
  <2>2. \A g \in Handlers \ {h} : At(g, "prefs")' => At(g, "prefs") /\ On(g)' = On(g)
    BY <1>2 DEF Others, At, On
  <2>3. QED
    BY <1>3, <2>1, <2>2 DEF Asks
<1>10. QED
  BY <1>2, <1>6, <1>7, <1>8, <1>9 DEF Asks

LEMMA AsksStore ==
  ASSUME Asks, Shape, NEW h \in Handlers, PrefsStore(h)
  PROVE  Asks'
<1>1. Others(h) /\ request'[h] = Null /\ UNCHANGED asked /\ At(h, "prefs")
  BY Answers DEF PrefsStore, Moves
<1>2. prefs' \in [Users -> Prefs] /\ \A v \in Users : prefs'[v] = IF v = By(h) THEN On(h).next ELSE prefs[v]
  BY <1>1 DEF PrefsStore, Asks
<1>3. /\ \A g \in Handlers : At(g, "prefs")' => At(g, "prefs") /\ On(g)' = On(g)
      /\ \A g \in Handlers, v \in Users : Changes(g, v)' => g # h /\ Changes(g, v) /\ On(g)' = On(g)
  BY <1>1 DEF Others, Changes, At, By, On
<1>4. \A v \in Users : v # By(h) => (Changing(v)' <=> Changing(v))
  BY <1>1 DEF Others, Changing, At, By
<1>5. By(h) \in Users => Changes(h, By(h))
  BY <1>1 DEF Changes
<1>6. QED
  BY <1>1, <1>2, <1>3, <1>4, <1>5 DEF Asks

LEMMA AsksNext ==
  ASSUME Asks, Shape, [Next]_vars
  PROVE  Asks'
<1>1. CASE UNCHANGED <<request, prefs, asked>>
  BY <1>1, AsksStays
<1>2. ASSUME NEW h \in Handlers, Serve(h) PROVE Asks'
  <2>1. CASE \E u \in Users, patch \in Patches : UpdatePrefs(h, u, patch)
    BY <2>1, AsksUpdate
  <2>2. CASE PrefsStore(h)
    BY <2>2, AsksStore
  <2>3. CASE UNCHANGED <<prefs, asked>> /\ Others(h) /\ ~At(h, "prefs") /\ ~At(h, "prefs")'
    BY <2>3, AsksStays DEF Others
  <2>4. QED
    BY <1>2, <2>1, <2>2, <2>3, SettingsAside, OnlyStores DEF Moves
<1>3. CASE Mailing \/ Time
  BY <1>1, <1>3 DEF Mailing, SendMail, Time, Expire, ExpireLink, AutoArchive, TrashCleanup, Tick, Cascade,
     contentVars, noticeVars
<1>4. CASE Pushing \/ Chatting
  BY <1>1, <1>4 DEF Pushing, Pushes, Forget, Chatting, Background, MuteEnds, Listeners, AttachLinkPreview, noticeVars, silence
<1>5. CASE Crash
  <2>1. /\ UNCHANGED prefs
        /\ asked' = [u \in Users |-> IF asked[u] # Null /\ Changing(u)
                                      THEN [s \in Settings |-> Says(prefs[u], s)] ELSE asked[u]]
    BY <1>5 DEF Crash, NoticesCutOff
  <2>2. \A g \in Handlers : request'[g] = Null
    BY <1>5 DEF Crash, Die, Quiet
  <2>3. \A g \in Handlers, u \in Users : ~Changes(g, u)'
    BY <2>2 DEF Changes, At
  <2>4. QED
    BY <2>1, <2>2, <2>3 DEF Asks, At
<1>6. CASE UNCHANGED vars
  BY <1>1, <1>6 DEF vars, contentVars, noticeVars
<1>7. QED
  BY <1>2, <1>3, <1>4, <1>5, <1>6 DEF Next

(* A patch is put over settings that were read some steps ago.  Whatever else goes on,
   a member whose patches came one at a time has the settings that were asked for. *)
THEOREM PatchesLast == Spec => []PatchesAreKept
<1>1. Init => Asks
  <2> SUFFICES ASSUME Init PROVE Asks
    OBVIOUS
  <2>1. PICK s, w : s \in Starts /\ InitNotices(s.device, s.push, w)
    BY DEF Init
  <2>2. s.push \in BOOLEAN
    BY <2>1, StartsAreTidy
  <2>3. prefs \in [Users -> Prefs]
    BY <2>1, <2>2 DEF InitNotices, PREFS_DEFAULTS, Prefs
  <2>4. \A h \in Handlers : request[h] = Null
    BY DEF Init, InitRequests
  <2>5. QED
    BY <2>1, <2>3, <2>4 DEF InitNotices, Asks, Changes, At
<1>2. Init => Shape
  BY DEF Init, InitRequests, Shape
<1>3. Asks => PatchesAreKept
  BY DEF Asks, PatchesAreKept
<1>4. QED
  BY <1>1, <1>2, <1>3, AsksNext, ShapeStays, PTL DEF Spec

----------------------------------------------------------------------------
(* The tasks and what hangs on them. *)

(* Rows have their types, and an id in the table has been given out. *)
Tables ==
  /\ task \in [Tasks -> TaskRows \cup {Null}] /\ list \in [Lists -> Users \cup {Null}]
  /\ clock \in Moments
  /\ \A t \in Tasks : task[t] # Null => t \in used

(* A mail names a list and its sender. *)
GoodMail(m) ==
  /\ DOMAIN mail[m] = {"to", "from", "state", "made", "rejections"}
  /\ mail[m].to \in Lists /\ mail[m].from \in Users

MailBox == DOMAIN mail = Mails /\ \A m \in Mails : mail[m] # Null => GoodMail(m)

(* A task that was read as a parent: if it is still there, it still is no subtask. *)
Parental(p) == p # Null => p \in used /\ (task[p] # Null => task[p].parent = Null)

(* What the requests that write tasks remember. *)
OneTaskSteps == {"status", "move", "move:subtasks", "assign", "remove", "restore", "archive", "unarchive", "lock", "purge"}
TreeSteps == TaskSteps \cup TemplateSteps \cup MailSteps

Meant(r) ==
  /\ DOMAIN r = {"at", "by", "on"} /\ r.by \in Users
  /\ r.at \in OneTaskSteps => r.on.task \in Tasks
  /\ r.at = "status" => r.on.to \in {"todo", "done"}
  /\ r.at \in {"move", "move:subtasks"} => r.on.to \in Lists
  /\ r.at = "assign" => r.on.to \in Users \cup {Null}
  /\ r.at = "lock" => r.on.to \in BOOLEAN
  /\ r.at = "create" => r.on.list \in Lists /\ r.on.parent \in Tasks \cup {Null} /\ Parental(r.on.parent)
  /\ r.at = "template:task" => r.on.list \in Lists /\ r.on.parent = Null
  /\ r.at = "mail:task" =>
       r.on.list \in Lists /\ r.on.parent = Null /\ r.on.assignee \in Users \cup {Null}
  /\ r.at \in MailSteps => r.on.mail \in Mails /\ GoodMail(r.on.mail)

RequestsMeant ==
  \A h \in Handlers : request[h] # Null /\ request[h].at \in TreeSteps => Meant(request[h])

Forest == Tables /\ OneLevelDeep /\ MailBox

Tree == Shape /\ RequestsMeant /\ Forest

(* Ids are given out once, a row never comes back, and no task becomes a subtask. *)
Ages ==
  /\ used \subseteq used'
  /\ \A p \in Tasks : p \in used /\ task'[p] # Null =>
       task[p] # Null /\ task'[p].parent \in {task[p].parent, Null}
  /\ \A m \in Mails : GoodMail(m) => GoodMail(m)'

LEMMA MeantStays ==
  ASSUME Ages, NEW r, Meant(r)
  PROVE  Meant(r)'
<1>1. r.at = "create" => Parental(r.on.parent)'
  BY DEF Meant, Parental, Ages
<1>2. r.at \in MailSteps => GoodMail(r.on.mail)'
  BY DEF Meant, Ages
<1>3. QED
  BY <1>1, <1>2 DEF Meant

(* What a step of one request has to show. *)
LEMMA TreeOfOne ==
  ASSUME Tree, Shape', Forest', Ages, NEW h \in Handlers, Others(h),
         request'[h] # Null /\ request'[h].at \in TreeSteps => Meant(request[h])'
  PROVE  Tree' /\ Ages
<1>1. \A g \in Handlers \ {h} : request'[g] # Null /\ request'[g].at \in TreeSteps => Meant(request[g])'
  BY MeantStays DEF Tree, RequestsMeant, Others
<1>2. RequestsMeant'
  BY <1>1 DEF RequestsMeant
<1>3. QED
  BY <1>2 DEF Tree

(* A step that leaves the tables alone. *)
LEMMA ForestStays ==
  ASSUME Forest, UNCHANGED <<task, list, clock, mail>>, used \subseteq used'
  PROVE  Forest' /\ Ages
BY DEF Forest, Tables, OneLevelDeep, IsForest, MailBox, GoodMail, Ages

LEMMA TreeRemembers ==
  ASSUME Tree, Shape', NEW h \in Handlers, Others(h), UNCHANGED <<task, list, clock, mail>>, used \subseteq used',
         NEW r, Meant(r), request'[h] = r
  PROVE  Tree' /\ Ages
<1>1. Forest' /\ Ages
  BY ForestStays DEF Tree
<1>2. Meant(r)'
  BY <1>1, MeantStays
<1>3. Meant(request[h])'
  BY <1>2
<1>4. QED
  BY <1>1, <1>3, TreeOfOne

LEMMA TreeForgets ==
  ASSUME Tree, Shape', NEW h \in Handlers, Others(h), Forest', Ages, request'[h] = Null
  PROVE  Tree' /\ Ages
BY TreeOfOne

----------------------------------------------------------------------------
(* The four ways a statement changes the table of tasks: rows change but not whose
   subtasks they are, rows go, and a row comes, of its own or under a parent. *)
LEMMA RowsChange ==
  ASSUME Forest, UNCHANGED <<list, used, clock, mail>>, task' \in [Tasks -> TaskRows \cup {Null}],
         \A t \in Tasks : task[t] = Null => task'[t] = Null,
         \A t \in Tasks : task[t] # Null => task'[t] # Null /\ task'[t].parent = task[t].parent
  PROVE  Forest' /\ Ages
<1>1. Tables' /\ Ages
  BY DEF Forest, Tables, Ages, GoodMail
<1>2. OneLevelDeep'
  BY DEF Forest, Tables, OneLevelDeep, IsForest, TaskRows
<1>3. MailBox'
  BY DEF Forest, MailBox, GoodMail
<1>4. QED
  BY <1>1, <1>2, <1>3 DEF Forest

LEMMA RowsGo ==
  ASSUME Forest, UNCHANGED <<used, clock, mail>>, list' \in [Lists -> Users \cup {Null}],
         NEW ts \in SUBSET Tasks, task' = Without(ts)
  PROVE  Forest' /\ Ages
<1>1. \A t \in Tasks : task[t] # Null => task[t] \in TaskRows /\ task[t].parent \in Tasks \cup {Null}
  BY DEF Forest, Tables, TaskRows
<1>2. \A t \in Tasks : task'[t] = IF t \in ts THEN Null
                                  ELSE IF task[t] # Null /\ task[t].parent \in ts THEN [task[t] EXCEPT !.parent = Null]
                                  ELSE task[t]
  BY DEF Without
<1>3. \A t \in Tasks : task[t] # Null => /\ [task[t] EXCEPT !.parent = Null] \in TaskRows
                                         /\ [task[t] EXCEPT !.parent = Null].parent = Null
  BY <1>1 DEF TaskRows
<1>4. \A t \in Tasks : /\ t \in ts \/ task[t] = Null => task'[t] = Null
                       /\ t \notin ts /\ task[t] # Null =>
                            /\ task'[t] \in TaskRows /\ task'[t] # Null
                            /\ task'[t].parent = IF task[t].parent \in ts THEN Null ELSE task[t].parent
  <2> SUFFICES ASSUME NEW t \in Tasks
               PROVE  /\ t \in ts \/ task[t] = Null => task'[t] = Null
                      /\ t \notin ts /\ task[t] # Null =>
                           /\ task'[t] \in TaskRows /\ task'[t] # Null
                           /\ task'[t].parent = IF task[t].parent \in ts THEN Null ELSE task[t].parent
    OBVIOUS
  <2>1. CASE t \in ts \/ task[t] = Null
    BY <1>2, <2>1
  <2>2. CASE t \notin ts /\ task[t] # Null /\ task[t].parent \in ts
    <3>1. task'[t] = [task[t] EXCEPT !.parent = Null]
      BY <1>2, <2>2
    <3>2. task'[t] \in TaskRows /\ task'[t].parent = Null
      BY <1>3, <2>2, <3>1
    <3>3. QED
      BY <2>2, <3>2, NullIsNoTask
  <2>3. CASE t \notin ts /\ task[t] # Null /\ task[t].parent \notin ts
    BY <1>1, <1>2, <2>3, NullIsNoTask
  <2>4. QED
    BY <2>1, <2>2, <2>3
<1>5. task' \in [Tasks -> TaskRows \cup {Null}]
  BY <1>4 DEF Without
<1>6. Tables' /\ Ages
  BY <1>4, <1>5 DEF Forest, Tables, Ages, GoodMail
<1>7. OneLevelDeep'
  BY <1>1, <1>4 DEF Forest, OneLevelDeep, IsForest
<1>8. MailBox'
  BY DEF Forest, MailBox, GoodMail
<1>9. QED
  BY <1>6, <1>7, <1>8 DEF Forest

LEMMA RowComes ==
  ASSUME Tables, OneLevelDeep, UNCHANGED <<list, clock>>, NEW t \in Tasks \ used, NEW row \in TaskRows,
         task' = [task EXCEPT ![t] = row], used' = used \cup {t},
         row.parent # Null => task[row.parent] # Null /\ Parental(row.parent)
  PROVE  /\ Tables' /\ OneLevelDeep' /\ used \subseteq used'
         /\ \A p \in Tasks : p \in used /\ task'[p] # Null =>
              task[p] # Null /\ task'[p].parent \in {task[p].parent, Null}
<1>1. \A p \in Tasks : task'[p] = IF p = t THEN row ELSE task[p]
  BY DEF Tables
<1>2. task[t] = Null
  BY DEF Tables
<1>3. Tables'
  BY <1>1 DEF Tables
<1>4. row.parent # Null => row.parent \in Tasks /\ row.parent # t /\ task[row.parent].parent = Null
  BY <1>2 DEF Parental, TaskRows
<1>5. \A p \in Tasks : task[p] # Null /\ task[p].parent # Null => task[p].parent \in Tasks /\ task[p].parent # t
  BY <1>2 DEF Tables, OneLevelDeep, IsForest, TaskRows
<1>6. OneLevelDeep'
  <2> SUFFICES ASSUME NEW p \in Tasks, task'[p] # Null, task'[p].parent # Null
               PROVE  task'[task'[p].parent] # Null /\ task'[task'[p].parent].parent = Null
    BY DEF OneLevelDeep, IsForest
  <2>1. CASE p = t
    BY <1>1, <1>4, <2>1
  <2>2. CASE p # t
    BY <1>1, <1>5, <2>2 DEF OneLevelDeep, IsForest
  <2>3. QED
    BY <2>1, <2>2
<1>7. QED
  BY <1>1, <1>3, <1>6

----------------------------------------------------------------------------
(* Requests on tasks, as they arrive. *)
LEMMA TreeTakes ==
  ASSUME Tree, Shape', NEW h \in Handlers, NEW u \in Users, NEW step, NEW on,
         Call(h, u, step, on), UNCHANGED mail, Meant([at |-> step, by |-> u, on |-> on])
  PROVE  Tree' /\ Ages
<1>1. Others(h) /\ request'[h] = [at |-> step, by |-> u, on |-> on]
  BY Calls DEF Tree
<1>2. UNCHANGED <<task, list, clock, used>>
  BY DEF Call, taskVars
<1>3. QED
  BY <1>1, <1>2, TreeRemembers

LEMMA TaskCalls ==
  ASSUME Tree, Shape', NEW h \in Handlers, TasksCall(h), UNCHANGED mail
  PROVE  Tree' /\ Ages
<1> USE DEF Meant, OneTaskSteps, MailSteps
<1>1. ASSUME NEW u \in Users, CreateList(h, u) PROVE Tree' /\ Ages
  BY <1>1, TreeTakes DEF CreateList
<1>2. ASSUME NEW u \in Users, NEW l, DeleteList(h, u, l) PROVE Tree' /\ Ages
  BY <1>2, TreeTakes DEF DeleteList
<1>3. ASSUME NEW u \in Users, NEW l, NEW m, AddToList(h, u, l, m) \/ RemoveFromList(h, u, l, m) PROVE Tree' /\ Ages
  BY <1>3, TreeTakes DEF AddToList, RemoveFromList
<1>4. ASSUME NEW u \in Users, NEW l \in Lists, NEW p \in Tasks \cup {Null}, CreateTask(h, u, l, p) PROVE Tree' /\ Ages
  <2>1. Parental(p)
    BY <1>4 DEF CreateTask, Parental, Exists, Tree, Forest, Tables
  <2>2. Meant([at |-> "create", by |-> u, on |-> [list |-> l, parent |-> p]])
    BY <2>1
  <2>3. QED
    BY <1>4, <2>2, TreeTakes DEF CreateTask
<1>5. ASSUME NEW u \in Users, NEW t \in Tasks, NEW s \in {"todo", "done"}, PatchStatus(h, u, t, s) PROVE Tree' /\ Ages
  BY <1>5, TreeTakes DEF PatchStatus
<1>6. ASSUME NEW u \in Users, NEW t \in Tasks, NEW l \in Lists, MoveTask(h, u, t, l) PROVE Tree' /\ Ages
  BY <1>6, TreeTakes DEF MoveTask
<1>7. ASSUME NEW u \in Users, NEW t \in Tasks, NEW m \in Users \cup {Null}, Assign(h, u, t, m) PROVE Tree' /\ Ages
  BY <1>7, TreeTakes DEF Assign
<1>8. ASSUME NEW u \in Users, NEW t \in Tasks, NEW f \in Filings, File(h, u, t, f) PROVE Tree' /\ Ages
  BY <1>8, TreeTakes DEF File, Filings
<1>9. ASSUME NEW u \in Users, NEW t \in Tasks, NEW on \in BOOLEAN, Lock(h, u, t, on) PROVE Tree' /\ Ages
  BY <1>9, TreeTakes DEF Lock
<1>10. ASSUME NEW u \in Users, NEW t \in Tasks, Purge(h, u, t) PROVE Tree' /\ Ages
  BY <1>10, TreeTakes DEF Purge
<1>11. QED
  BY <1>1, <1>2, <1>3, <1>4, <1>5, <1>6, <1>7, <1>8, <1>9, <1>10 DEF TasksCall

(* A request at one of these steps means what it remembers. *)
LEMMA Means ==
  ASSUME Tree, NEW h \in Handlers, NEW step \in TreeSteps, At(h, step)
  PROVE  Meant(request[h]) /\ request[h].at = step
<1>1. request[h] # Null /\ request[h].at = step
  BY DEF At
<1>2. RequestsMeant
  BY DEF Tree
<1>3. QED
  BY <1>1, <1>2 DEF RequestsMeant

(* One row is written, by its id. *)
LEMMA RowStored ==
  ASSUME Tree, NEW h \in Handlers, On(h).task \in Tasks, NEW row, StoreRow(h, row), UNCHANGED <<list, used, mail>>,
         Exists(On(h).task) => row \in TaskRows /\ row.parent = task[On(h).task].parent
  PROVE  Forest' /\ Ages
<1>1. PICK t \in Tasks : t = On(h).task
  OBVIOUS
<1>2. Tables
  BY DEF Tree, Forest
<1>3. CASE task[t] # Null
  <2>1. row \in TaskRows /\ row.parent = task[t].parent /\ task' = [task EXCEPT ![t] = row] /\ UNCHANGED clock
    BY <1>1, <1>3 DEF StoreRow, Exists, Store
  <2>2. \A p \in Tasks : task'[p] = IF p = t THEN row ELSE task[p]
    BY <1>2, <2>1 DEF Tables
  <2>3. task' \in [Tasks -> TaskRows \cup {Null}]
    BY <1>2, <2>1 DEF Tables
  <2>4. QED
    BY <1>3, <2>1, <2>2, <2>3, NullIsNoTask, RowsChange DEF Tree
<1>4. CASE task[t] = Null
  BY <1>1, <1>4, ForestStays DEF StoreRow, Exists, Tree
<1>5. QED
  BY <1>3, <1>4

(* The requests that write one row. *)
LEMMA OneRowSteps ==
  ASSUME Tree, Shape', NEW h \in Handlers, UNCHANGED mail,
         \/ StatusStore(h) \/ MoveStore(h) \/ AssignStore(h)
         \/ TaskRestore(h) \/ TaskArchive(h) \/ TaskUnarchive(h) \/ TaskLock(h)
  PROVE  Tree' /\ Ages
<1>1. /\ Meant(request[h]) /\ On(h).task \in Tasks /\ UNCHANGED <<list, used>>
      /\ request[h] # Null
  BY Means DEF StatusStore, MoveStore, AssignStore, TaskRestore, TaskArchive, TaskUnarchive, TaskLock,
     TreeSteps, TaskSteps, Meant, OneTaskSteps, On, At
<1>2. Exists(On(h).task) => Row(h) \in TaskRows /\ Row(h).parent = task[On(h).task].parent
  BY <1>1 DEF Exists, Row, Tree, Forest, Tables
<1>3. clock \in Moments
  BY DEF Tree, Forest, Tables
<1>4. ASSUME NEW row, StoreRow(h, row), Answer(h),
             Row(h) \in TaskRows => row \in TaskRows /\ row.parent = Row(h).parent
      PROVE  Tree' /\ Ages
  <2>1. Forest' /\ Ages
    BY <1>1, <1>2, <1>4, RowStored
  <2>2. Others(h) /\ request'[h] = Null
    BY <1>4, Answers DEF Tree, Moves
  <2>3. QED
    BY <2>1, <2>2, TreeForgets
<1>5. CASE StatusStore(h)
  <2>1. On(h).to \in {"todo", "done"}
    BY <1>5, Means DEF StatusStore, TreeSteps, TaskSteps, Meant, On
  <2>2. PICK row : row = [Row(h) EXCEPT !.status = On(h).to, !.completed = Completion(On(h).was, On(h).to, @)]
    OBVIOUS
  <2>3. Row(h) \in TaskRows => row \in TaskRows /\ row.parent = Row(h).parent
    <3> SUFFICES ASSUME Row(h) \in TaskRows PROVE row \in TaskRows /\ row.parent = Row(h).parent
      OBVIOUS
    <3>1. Completion(On(h).was, On(h).to, Row(h).completed) \in Moments \cup {Null}
      BY <1>3 DEF Completion, TaskRows
    <3>2. QED
      BY <2>1, <2>2, <3>1 DEF TaskRows
  <2>4. QED
    BY <1>4, <1>5, <2>2, <2>3 DEF StatusStore
<1>6. CASE AssignStore(h)
  <2>1. On(h).to \in Users \cup {Null}
    BY <1>6, Means DEF AssignStore, TreeSteps, TaskSteps, Meant, On
  <2>2. PICK row : row = [Row(h) EXCEPT !.assignee = On(h).to]
    OBVIOUS
  <2>3. Row(h) \in TaskRows => row \in TaskRows /\ row.parent = Row(h).parent
    BY <2>1, <2>2 DEF TaskRows
  <2>4. QED
    BY <1>4, <1>6, <2>2, <2>3 DEF AssignStore
<1>7. CASE TaskRestore(h)
  <2>1. PICK row : row = [Row(h) EXCEPT !.deleted = Null]
    OBVIOUS
  <2>2. Row(h) \in TaskRows => row \in TaskRows /\ row.parent = Row(h).parent
    BY <2>1 DEF TaskRows
  <2>3. QED
    BY <1>4, <1>7, <2>1, <2>2 DEF TaskRestore
<1>8. ASSUME NEW on \in BOOLEAN, StoreRow(h, [Row(h) EXCEPT !.archived = on]), Answer(h) PROVE Tree' /\ Ages
  <2>1. PICK row : row = [Row(h) EXCEPT !.archived = on]
    OBVIOUS
  <2>2. Row(h) \in TaskRows => row \in TaskRows /\ row.parent = Row(h).parent
    BY <2>1 DEF TaskRows
  <2>3. QED
    BY <1>4, <1>8, <2>1, <2>2
<1>9. CASE TaskLock(h)
  <2>1. On(h).to \in BOOLEAN
    BY <1>9, Means DEF TaskLock, TreeSteps, TaskSteps, Meant, On
  <2>2. PICK row : row = [Row(h) EXCEPT !.locked = On(h).to]
    OBVIOUS
  <2>3. Row(h) \in TaskRows => row \in TaskRows /\ row.parent = Row(h).parent
    BY <2>1, <2>2 DEF TaskRows
  <2>4. QED
    BY <1>4, <1>9, <2>2, <2>3 DEF TaskLock
<1>10. CASE MoveStore(h)
  <2>1. Meant(request[h]) /\ request[h].at = "move"
    BY <1>10, Means DEF MoveStore, TreeSteps, TaskSteps
  <2>2. On(h).to \in Lists
    BY <2>1 DEF Meant, On
  <2>3. CASE Answer(h) /\ UNCHANGED <<task, clock>>
    <3>1. Others(h) /\ request'[h] = Null
      BY <2>3, Answers DEF Tree, Moves
    <3>2. QED
      BY <1>1, <2>3, <3>1, ForestStays, TreeForgets DEF Tree
  <2>4. CASE /\ StoreRow(h, [Row(h) EXCEPT !.list = On(h).to]) /\ Exists(On(h).task)
             /\ Await(h, [request[h] EXCEPT !.at = "move:subtasks"])
    <3>1. PICK row : row = [Row(h) EXCEPT !.list = On(h).to]
      OBVIOUS
    <3>2. Row(h) \in TaskRows => row \in TaskRows /\ row.parent = Row(h).parent
      BY <2>2, <3>1 DEF TaskRows
    <3>3. Forest' /\ Ages
      BY <1>1, <1>2, <2>4, <3>1, <3>2, RowStored
    <3>4. PICK r : r = [request[h] EXCEPT !.at = "move:subtasks"]
      OBVIOUS
    <3>5. Others(h) /\ request'[h] = r
      BY <2>4, <3>4, Awaits DEF Tree
    <3>6. DOMAIN r = {"at", "by", "on"} /\ r.at = "move:subtasks" /\ r.by = request[h].by /\ r.on = request[h].on
      BY <2>1, <3>4 DEF Meant
    <3>7. Meant(r)
      BY <2>1, <3>6 DEF Meant, OneTaskSteps, MailSteps
    <3>8. Meant(request[h])'
      BY <3>3, <3>5, <3>7, MeantStays
    <3>9. QED
      BY <3>3, <3>5, <3>8, TreeOfOne
  <2>5. QED
    BY <1>10, <2>3, <2>4 DEF MoveStore
<1>11. QED
  BY <1>5, <1>6, <1>7, <1>8, <1>9, <1>10 DEF TaskArchive, TaskUnarchive, StatusStore, MoveStore, AssignStore,
     TaskRestore, TaskLock

LEMMA TreeAnswers ==
  ASSUME Tree, Shape', NEW h \in Handlers, Answer(h), Forest', Ages
  PROVE  Tree' /\ Ages
BY Answers, TreeForgets DEF Tree, Moves

(* A list is stored by whoever asked for it. *)
LEMMA ListComes ==
  ASSUME Forest, UNCHANGED <<task, clock, mail>>, NEW l, NEW u \in Users, list' = [list EXCEPT ![l] = u],
         used \subseteq used'
  PROVE  Forest' /\ Ages
BY DEF Forest, Tables, OneLevelDeep, IsForest, MailBox, GoodMail, Ages

LEMMA ListSteps ==
  ASSUME Tree, Shape', NEW h \in Handlers, UNCHANGED mail,
         ListCreate(h) \/ ListDelete(h) \/ ListAdd(h) \/ ListRemove(h)
  PROVE  Tree' /\ Ages
<1>0. Answer(h)
  BY DEF ListCreate, ListDelete, ListAdd, ListRemove
<1>1. CASE ListCreate(h)
  <2>1. By(h) \in Users
    BY <1>1, Means DEF ListCreate, TreeSteps, TaskSteps, Meant, By
  <2>2. PICK l : list' = [list EXCEPT ![l] = By(h)] /\ used' = used \cup {l}
    BY <1>1 DEF ListCreate
  <2>3. QED
    BY <1>0, <1>1, <2>1, <2>2, ListComes, TreeAnswers DEF ListCreate, Tree
<1>2. CASE ListDelete(h)
  <2>1. list' \in [Lists -> Users \cup {Null}]
    BY <1>2 DEF ListDelete, Tree, Forest, Tables
  <2>2. PICK ts \in SUBSET Tasks : ts = {t \in Tasks : task[t] # Null /\ task[t].list = On(h).list}
    OBVIOUS
  <2>3. task' = Without(ts) /\ UNCHANGED <<used, clock>>
    BY <1>2, <2>2 DEF ListDelete, Store
  <2>4. QED
    BY <1>0, <2>1, <2>3, RowsGo, TreeAnswers DEF Tree
<1>3. CASE ListAdd(h) \/ ListRemove(h)
  BY <1>0, <1>3, ForestStays, TreeAnswers DEF ListAdd, ListRemove, Tree
<1>4. QED
  BY <1>1, <1>2, <1>3

(* A new row is of the task's type. *)
LEMMA NewRow ==
  ASSUME NEW h \in Handlers, On(h).list \in Lists, On(h).parent \in Tasks \cup {Null}, By(h) \in Users,
         NEW a \in Users \cup {Null}
  PROVE  NewTask(h, a) \in TaskRows /\ NewTask(h, a).parent = On(h).parent
BY DEF NewTask, TaskRows

LEMMA CreateSteps ==
  ASSUME Tree, Shape', NEW h \in Handlers, UNCHANGED mail, TaskCreate(h)
  PROVE  Tree' /\ Ages
<1>1. Meant(request[h]) /\ request[h].at = "create"
  BY Means DEF TaskCreate, TreeSteps, TaskSteps
<1>2. /\ On(h).list \in Lists /\ On(h).parent \in Tasks \cup {Null} /\ Parental(On(h).parent)
      /\ By(h) \in Users
  BY <1>1 DEF Meant, On, By
<1>3. Answer(h) /\ UNCHANGED list
  BY DEF TaskCreate
<1>4. CASE UNCHANGED <<task, used, clock>>
  BY <1>3, <1>4, ForestStays, TreeAnswers DEF Tree
<1>5. ASSUME NEW t \in Tasks \ used, NEW a \in Users, Store([task EXCEPT ![t] = NewTask(h, a)]),
             used' = used \cup {t}, On(h).parent # Null => Exists(On(h).parent)
      PROVE  Tree' /\ Ages
  <2>1. PICK row : row = NewTask(h, a)
    OBVIOUS
  <2>2. row \in TaskRows /\ row.parent = On(h).parent
    BY <1>2, <2>1, NewRow
  <2>3. task' = [task EXCEPT ![t] = row] /\ UNCHANGED clock
    BY <1>5, <2>1 DEF Store
  <2>4. /\ Tables' /\ OneLevelDeep' /\ used \subseteq used'
        /\ \A p \in Tasks : p \in used /\ task'[p] # Null =>
             task[p] # Null /\ task'[p].parent \in {task[p].parent, Null}
    BY <1>2, <1>3, <1>5, <2>2, <2>3, RowComes DEF Tree, Forest, Exists
  <2>5. Forest' /\ Ages
    BY <2>4 DEF Tree, Forest, MailBox, GoodMail, Ages
  <2>6. QED
    BY <1>3, <2>5, TreeAnswers
<1>6. QED
  BY <1>4, <1>5 DEF TaskCreate

(* The statements that change or delete several rows. *)
LEMMA ManyRowSteps ==
  ASSUME Tree, Shape', NEW h \in Handlers, UNCHANGED mail,
         MoveSubtasks(h) \/ TaskRemove(h) \/ TaskPurge(h)
  PROVE  Tree' /\ Ages
<1>1. Answer(h) /\ UNCHANGED <<list, used>>
  BY DEF MoveSubtasks, TaskRemove, TaskPurge
<1>2. Tables
  BY DEF Tree, Forest
<1>3. CASE MoveSubtasks(h)
  <2>1. On(h).to \in Lists
    BY <1>3, Means DEF MoveSubtasks, TreeSteps, TaskSteps, Meant, On
  <2>2. CASE UNCHANGED <<task, clock>>
    BY <1>1, <2>2, ForestStays, TreeAnswers DEF Tree
  <2>3. CASE Store([t \in Tasks |-> IF t \in Children(On(h).task) THEN [task[t] EXCEPT !.list = On(h).to] ELSE task[t]])
    <3>0. Children(On(h).task) \in SUBSET Tasks /\ \A t \in Children(On(h).task) : task[t] # Null
      BY DEF Children
    <3>1. PICK ts \in SUBSET Tasks : ts = Children(On(h).task) /\ \A t \in ts : task[t] # Null
      BY <3>0
    <3>2. \A t \in Tasks : task'[t] = IF t \in ts THEN [task[t] EXCEPT !.list = On(h).to] ELSE task[t]
      BY <2>3, <3>1 DEF Store
    <3>3. \A t \in ts : /\ [task[t] EXCEPT !.list = On(h).to] \in TaskRows
                        /\ [task[t] EXCEPT !.list = On(h).to].parent = task[t].parent
      BY <1>2, <2>1, <3>1 DEF Tables, TaskRows
    <3>4. task' \in [Tasks -> TaskRows \cup {Null}] /\ UNCHANGED clock
      BY <1>2, <2>3, <3>1, <3>3 DEF Store, Tables
    <3>5. Forest' /\ Ages
      BY <1>1, <3>1, <3>2, <3>3, <3>4, NullIsNoTask, RowsChange DEF Tree
    <3>6. QED
      BY <1>1, <3>5, TreeAnswers
  <2>4. QED
    BY <1>3, <2>2, <2>3 DEF MoveSubtasks
<1>4. CASE TaskRemove(h)
  <2>1. PICK ts \in SUBSET Tasks :
          ts = {t \in Tasks : t \in {On(h).task} \cup Children(On(h).task) /\ Exists(t)}
    OBVIOUS
  <2>2. \A t \in ts : task[t] # Null
    BY <2>1 DEF Exists
  <2>3. UNCHANGED clock /\ task' = [t \in Tasks |-> IF t \in ts THEN [task[t] EXCEPT !.deleted = clock] ELSE task[t]]
    BY <1>4, <2>1 DEF TaskRemove, Store
  <2>4. \A t \in Tasks : task'[t] = IF t \in ts THEN [task[t] EXCEPT !.deleted = clock] ELSE task[t]
    BY <2>3
  <2>5. \A t \in ts : /\ [task[t] EXCEPT !.deleted = clock] \in TaskRows
                      /\ [task[t] EXCEPT !.deleted = clock].parent = task[t].parent
    BY <1>2, <2>2 DEF Tables, TaskRows
  <2>6. task' \in [Tasks -> TaskRows \cup {Null}]
    BY <1>2, <2>3, <2>5 DEF Tables
  <2>7. Forest' /\ Ages
    BY <1>1, <2>2, <2>3, <2>4, <2>5, <2>6, NullIsNoTask, RowsChange DEF Tree
  <2>8. QED
    BY <1>1, <2>7, TreeAnswers
<1>5. CASE TaskPurge(h)
  <2>1. On(h).task \in Tasks
    BY <1>5, Means DEF TaskPurge, TreeSteps, TaskSteps, Meant, On, OneTaskSteps
  <2>2. PICK ts \in SUBSET Tasks : ts = {t \in {On(h).task} : Exists(t) /\ task[t].deleted # Null}
    BY <2>1
  <2>3. task' = Without(ts) /\ UNCHANGED clock
    BY <1>5, <2>2 DEF TaskPurge, Store
  <2>4. QED
    BY <1>1, <1>2, <2>3, RowsGo, TreeAnswers DEF Tree, Tables
<1>6. QED
  BY <1>3, <1>4, <1>5

----------------------------------------------------------------------------
(* A request on templates that has stored something goes on, or has stored the last. *)
LEMMA GoesOnward ==
  ASSUME Tree, Shape', Forest', Ages, NEW h \in Handlers, By(h) \in Users, NEW l \in Lists, NEW rest,
         Onward(h, l, rest)
  PROVE  Tree' /\ Ages
<1>1. CASE Answer(h)
  BY <1>1, TreeAnswers
<1>2. CASE Await(h, [at |-> "template:task", by |-> By(h), on |-> [list |-> l, parent |-> Null, data |-> rest]])
  <2>1. PICK r : r = [at |-> "template:task", by |-> By(h), on |-> [list |-> l, parent |-> Null, data |-> rest]]
    OBVIOUS
  <2>2. Others(h) /\ request'[h] = r
    BY <1>2, <2>1, Awaits DEF Tree
  <2>3. Meant(r)
    BY <2>1 DEF Meant, OneTaskSteps, MailSteps
  <2>4. Meant(request[h])'
    BY <2>2, <2>3, MeantStays
  <2>5. QED
    BY <2>2, <2>4, TreeOfOne
<1>3. QED
  BY <1>1, <1>2 DEF Onward

LEMMA TemplateCalls ==
  ASSUME Tree, Shape', NEW h \in Handlers, TemplatesCall(h), UNCHANGED mail
  PROVE  Tree' /\ Ages
<1> USE DEF Meant, OneTaskSteps, MailSteps
<1>1. ASSUME NEW u \in Users, NEW type, NEW shared, NEW data, NewTemplate(h, u, type, shared, data) PROVE Tree' /\ Ages
  BY <1>1, TreeTakes DEF NewTemplate
<1>2. ASSUME NEW u \in Users, NEW t, NEW data, NEW shared, UpdateTemplate(h, u, t, data, shared) PROVE Tree' /\ Ages
  BY <1>2, TreeTakes DEF UpdateTemplate
<1>3. ASSUME NEW u \in Users, NEW t, RemoveTemplate(h, u, t) \/ InstantiateList(h, u, t) PROVE Tree' /\ Ages
  BY <1>3, TreeTakes DEF RemoveTemplate, InstantiateList
<1>4. ASSUME NEW u \in Users, NEW t, NEW l \in Lists, ApplyTemplate(h, u, t, l) PROVE Tree' /\ Ages
  BY <1>4, TreeTakes DEF ApplyTemplate
<1>5. PICK u \in Users :
        \/ \E type, shared, d : CreateTemplate(h, u, type, shared, d)
        \/ \E t, shared : SaveTask(h, u, t, shared) \/ SaveList(h, u, t, shared)
        \/ \E t : DuplicateTemplate(h, u, t) \/ RemoveTemplate(h, u, t) \/ InstantiateList(h, u, t)
        \/ \E t : \E l \in Lists : ApplyTemplate(h, u, t, l)
        \/ \E t, d, shared : UpdateTemplate(h, u, t, d, shared)
  BY DEF TemplatesCall
<1>6. CASE \/ \E type, shared, d : CreateTemplate(h, u, type, shared, d)
           \/ \E t, shared : SaveTask(h, u, t, shared) \/ SaveList(h, u, t, shared)
           \/ \E t : DuplicateTemplate(h, u, t)
  <2>1. \E type, shared, data : NewTemplate(h, u, type, shared, data)
    BY <1>6 DEF CreateTemplate, SaveTask, SaveList, DuplicateTemplate
  <2>2. QED
    BY <1>1, <2>1
<1>7. QED
  BY <1>2, <1>3, <1>4, <1>5, <1>6

LEMMA TemplateContinues ==
  ASSUME Tree, Shape', NEW h \in Handlers, TemplatesContinue(h), UNCHANGED mail
  PROVE  Tree' /\ Ages
<1>1. CASE TemplateCreate(h) \/ TemplateUpdate(h) \/ TemplateRemove(h)
  BY <1>1, ForestStays, TreeAnswers DEF TemplateCreate, TemplateUpdate, TemplateRemove, taskVars, Tree
<1>2. CASE TemplateList(h)
  <2>1. By(h) \in Users
    BY <1>2, Means DEF TemplateList, TreeSteps, TemplateSteps, Meant, By
  <2>2. PICK l \in Lists : /\ list' = [list EXCEPT ![l] = By(h)] /\ used' = used \cup {l}
                          /\ Onward(h, l, On(h).data)
    BY <1>2 DEF TemplateList
  <2>3. Forest' /\ Ages
    BY <1>2, <2>1, <2>2, ListComes DEF TemplateList, Tree
  <2>4. QED
    BY <2>1, <2>2, <2>3, GoesOnward
<1>3. CASE TemplateTask(h)
  <2>1. /\ On(h).list \in Lists /\ On(h).parent = Null /\ By(h) \in Users
    BY <1>3, Means DEF TemplateTask, TreeSteps, TemplateSteps, Meant, On, By
  <2>2. CASE Answer(h) /\ UNCHANGED <<task, used, clock>>
    BY <1>3, <2>2, ForestStays, TreeAnswers DEF TemplateTask, Tree
  <2>3. ASSUME NEW t \in Tasks \ used, NEW a \in Users, Store([task EXCEPT ![t] = NewTask(h, a)]),
               used' = used \cup {t}, UNCHANGED list, Onward(h, On(h).list, Tail(On(h).data))
        PROVE  Tree' /\ Ages
    <3>1. PICK row : row = NewTask(h, a)
      OBVIOUS
    <3>2. row \in TaskRows /\ row.parent = Null
      BY <2>1, <3>1, NewRow
    <3>3. task' = [task EXCEPT ![t] = row] /\ UNCHANGED clock
      BY <2>3, <3>1 DEF Store
    <3>4. /\ Tables' /\ OneLevelDeep' /\ used \subseteq used'
          /\ \A p \in Tasks : p \in used /\ task'[p] # Null =>
               task[p] # Null /\ task'[p].parent \in {task[p].parent, Null}
      BY <2>3, <3>2, <3>3, RowComes DEF Tree, Forest
    <3>5. Forest' /\ Ages
      BY <3>4 DEF Tree, Forest, MailBox, GoodMail, Ages
    <3>6. QED
      BY <2>1, <2>3, <3>5, GoesOnward
  <2>4. QED
    BY <1>3, <2>2, <2>3 DEF TemplateTask
<1>4. QED
  BY <1>1, <1>2, <1>3 DEF TemplatesContinue

----------------------------------------------------------------------------
(* A mail that changes stays a mail. *)
LEMMA MailsKept ==
  ASSUME MailBox, DOMAIN mail' = Mails, \A m \in Mails : mail'[m] = mail[m] \/ GoodMail(m)'
  PROVE  MailBox' /\ \A m \in Mails : GoodMail(m) => GoodMail(m)'
<1>1. \A m \in Mails : mail'[m] = mail[m] => (GoodMail(m) <=> GoodMail(m)')
  BY DEF GoodMail
<1>2. QED
  BY <1>1 DEF MailBox

LEMMA MailStored ==
  ASSUME MailBox, NEW m \in Mails, GoodMail(m), NEW row, mail' = [mail EXCEPT ![m] = row],
         DOMAIN row = DOMAIN mail[m], row.to = mail[m].to, row.from = mail[m].from
  PROVE  MailBox' /\ \A n \in Mails : GoodMail(n) => GoodMail(n)'
<1>1. DOMAIN mail' = Mails /\ \A n \in Mails : mail'[n] = IF n = m THEN row ELSE mail[n]
  BY DEF MailBox
<1>2. GoodMail(m)'
  BY <1>1 DEF GoodMail
<1>3. QED
  BY <1>1, <1>2, MailsKept

LEMMA MailEnds ==
  ASSUME MailBox, NEW m \in Mails, GoodMail(m), NEW ok, mail' = Ends(m, ok)
  PROVE  MailBox' /\ \A n \in Mails : GoodMail(n) => GoodMail(n)'
<1>1. PICK row : row = [mail[m] EXCEPT !.state = IF ok THEN "accepted" ELSE "rejected",
                                       !.rejections = IF ok THEN @ ELSE @ + 1]
  OBVIOUS
<1>2. DOMAIN row = DOMAIN mail[m] /\ row.to = mail[m].to /\ row.from = mail[m].from
  BY <1>1 DEF GoodMail
<1>3. mail' = [mail EXCEPT ![m] = row]
  <2>1. /\ DOMAIN mail' = DOMAIN mail /\ \A n \in DOMAIN mail : n # m => mail'[n] = mail[n]
        /\ mail' = [n \in DOMAIN mail |-> mail'[n]]
    BY DEF Ends
  <2>2. mail'[m] = row
    BY <1>1 DEF Ends, MailBox, GoodMail
  <2>3. QED
    BY <2>1, <2>2
<1>4. QED
  BY <1>2, <1>3, MailStored

LEMMA MailMoves ==
  ASSUME Forest, UNCHANGED <<task, list, clock, used>>, MailBox', \A m \in Mails : GoodMail(m) => GoodMail(m)'
  PROVE  Forest' /\ Ages
BY DEF Forest, Tables, OneLevelDeep, IsForest, Ages

LEMMA IngestStep ==
  ASSUME Tree, Shape', NEW h \in Handlers, NEW m \in Mails, Ingest(h, m)
  PROVE  Tree' /\ Ages
<1>1. MailBox /\ GoodMail(m) /\ Tables
  BY DEF Ingest, Tree, Forest, MailBox
<1>2. UNCHANGED <<task, list, clock, used>>
  BY DEF Ingest, Call, taskVars
<1>3. CASE mail' = Ends(m, FALSE) /\ UNCHANGED request
  <2>1. Forest' /\ Ages
    BY <1>1, <1>2, <1>3, MailEnds, MailMoves DEF Tree
  <2>2. RequestsMeant'
    BY <1>3, <2>1, MeantStays DEF Tree, RequestsMeant
  <2>3. QED
    BY <2>1, <2>2 DEF Tree
<1>4. CASE /\ mail' = [mail EXCEPT ![m].state = "taken"] /\ list[mail[m].to] # Null
           /\ \E u \in Users, a \in Users \cup {Null} :
                Call(h, u, "mail:task", [mail |-> m, list |-> mail[m].to, parent |-> Null, assignee |-> a])
  <2>1. PICK u \in Users, a \in Users \cup {Null} :
          Call(h, u, "mail:task", [mail |-> m, list |-> mail[m].to, parent |-> Null, assignee |-> a])
    BY <1>4
  <2>2. PICK row : row = [mail[m] EXCEPT !.state = "taken"]
    OBVIOUS
  <2>3. mail' = [mail EXCEPT ![m] = row]
    BY <1>4, <2>2
  <2>4. DOMAIN row = DOMAIN mail[m] /\ row.to = mail[m].to /\ row.from = mail[m].from
    BY <1>1, <2>2 DEF GoodMail
  <2>5. Forest' /\ Ages
    BY <1>1, <1>2, <2>3, <2>4, MailStored, MailMoves DEF Tree
  <2>6. PICK r : r = [at |-> "mail:task", by |-> u,
                      on |-> [mail |-> m, list |-> mail[m].to, parent |-> Null, assignee |-> a]]
    OBVIOUS
  <2>7. Others(h) /\ request'[h] = r
    BY <2>1, <2>6, Calls DEF Tree
  <2>8. Meant(r)
    BY <1>1, <2>6 DEF Meant, OneTaskSteps, MailSteps, GoodMail
  <2>9. Meant(request[h])'
    BY <2>5, <2>7, <2>8, MeantStays
  <2>10. QED
    BY <2>5, <2>7, <2>9, TreeOfOne
<1>5. QED
  <2>1. mail[m].from \in Users /\ (list[mail[m].to] # Null => list[mail[m].to] \in Users)
    BY <1>1 DEF GoodMail, Tables
  <2>2. CASE list[mail[m].to] # Null
    BY <1>4, <2>1, <2>2 DEF Ingest
  <2>3. CASE list[mail[m].to] = Null
    BY <1>3, <2>3 DEF Ingest
  <2>4. QED
    BY <2>2, <2>3

LEMMA MailTaskStep ==
  ASSUME Tree, Shape', NEW h \in Handlers, MailTask(h)
  PROVE  Tree' /\ Ages
<1>1. Meant(request[h]) /\ request[h].at = "mail:task"
  BY Means DEF MailTask, TreeSteps, MailSteps
<1>2. /\ On(h).list \in Lists /\ On(h).parent = Null /\ On(h).assignee \in Users \cup {Null}
      /\ By(h) \in Users /\ On(h).mail \in Mails /\ GoodMail(On(h).mail)
  BY <1>1 DEF Meant, On, By, MailSteps
<1>3. PICK m \in Mails : m = On(h).mail /\ GoodMail(m)
  BY <1>2
<1>4. MailBox /\ Tables /\ OneLevelDeep /\ UNCHANGED list
  BY DEF Tree, Forest, MailTask
<1>5. CASE mail' = Ends(m, FALSE) /\ Answer(h) /\ UNCHANGED <<task, used, clock>>
  <2>1. Forest' /\ Ages
    BY <1>3, <1>4, <1>5, MailEnds, MailMoves DEF Tree
  <2>2. QED
    BY <1>5, <2>1, TreeAnswers
<1>6. ASSUME NEW t \in Tasks \ used, Store([task EXCEPT ![t] = NewTask(h, On(h).assignee)]), used' = used \cup {t},
             mail' = [mail EXCEPT ![m].made = Append(@, t)],
             Await(h, [at |-> "mail:metadata", by |-> By(h), on |-> [mail |-> m, task |-> t]])
      PROVE  Tree' /\ Ages
  <2>1. PICK row : row = NewTask(h, On(h).assignee)
    OBVIOUS
  <2>2. row \in TaskRows /\ row.parent = Null
    BY <1>2, <2>1, NewRow
  <2>3. task' = [task EXCEPT ![t] = row] /\ UNCHANGED clock
    BY <1>6, <2>1 DEF Store
  <2>4. /\ Tables' /\ OneLevelDeep' /\ used \subseteq used'
        /\ \A p \in Tasks : p \in used /\ task'[p] # Null =>
             task[p] # Null /\ task'[p].parent \in {task[p].parent, Null}
    BY <1>4, <1>6, <2>2, <2>3, RowComes
  <2>5. PICK kept : kept = [mail[m] EXCEPT !.made = Append(@, t)]
    OBVIOUS
  <2>6. mail' = [mail EXCEPT ![m] = kept]
    BY <1>6, <2>5
  <2>7. DOMAIN kept = DOMAIN mail[m] /\ kept.to = mail[m].to /\ kept.from = mail[m].from
    BY <1>3, <2>5 DEF GoodMail
  <2>8. MailBox' /\ \A n \in Mails : GoodMail(n) => GoodMail(n)'
    BY <1>3, <1>4, <2>6, <2>7, MailStored
  <2>9. Forest' /\ Ages
    BY <2>4, <2>8 DEF Forest, Ages
  <2>10. PICK r : r = [at |-> "mail:metadata", by |-> By(h), on |-> [mail |-> m, task |-> t]]
    OBVIOUS
  <2>11. Others(h) /\ request'[h] = r
    BY <1>6, <2>10, Awaits DEF Tree
  <2>12. Meant(r)
    BY <1>2, <1>3, <2>10 DEF Meant, OneTaskSteps, MailSteps
  <2>13. Meant(request[h])'
    BY <2>9, <2>11, <2>12, MeantStays
  <2>14. QED
    BY <2>9, <2>11, <2>13, TreeOfOne
<1>7. QED
  BY <1>3, <1>5, <1>6 DEF MailTask

LEMMA MailMetadataStep ==
  ASSUME Tree, Shape', NEW h \in Handlers, MailMetadata(h)
  PROVE  Tree' /\ Ages
<1>1. On(h).mail \in Mails /\ GoodMail(On(h).mail)
  BY Means DEF MailMetadata, TreeSteps, MailSteps, Meant, On
<1>2. UNCHANGED <<task, list, clock, used>> /\ Answer(h)
  BY DEF MailMetadata, taskVars
<1>3. \E ok : mail' = Ends(On(h).mail, ok)
  BY DEF MailMetadata
<1>4. Forest' /\ Ages
  BY <1>1, <1>2, <1>3, MailEnds, MailMoves DEF Tree, Forest
<1>5. QED
  BY <1>2, <1>4, TreeAnswers

----------------------------------------------------------------------------
(* The sweeps and the clock; no request moves. *)
LEMMA TreeSweeps ==
  ASSUME Tree, UNCHANGED <<request, mail>>, AutoArchive \/ TrashCleanup \/ Tick
  PROVE  Tree' /\ Ages
<1>1. Tables /\ UNCHANGED <<list, used>>
  BY DEF Tree, Forest, AutoArchive, TrashCleanup, Tick
<1>2. ASSUME Forest', Ages PROVE Tree' /\ Ages
  <2>1. RequestsMeant'
    BY <1>2, MeantStays DEF Tree, RequestsMeant
  <2>2. QED
    BY <1>2, <2>1 DEF Tree, Shape
<1>3. CASE AutoArchive
  <2>1. PICK ts \in SUBSET Tasks :
          ts = {t \in Tasks : /\ Exists(t) /\ task[t].status = "done" /\ Overdue(task[t].completed, ArchiveAfter)
                             /\ ~task[t].archived /\ task[t].deleted = Null}
    OBVIOUS
  <2>2. \A t \in ts : task[t] # Null
    BY <2>1 DEF Exists
  <2>3. UNCHANGED clock /\ task' = [t \in Tasks |-> IF t \in ts THEN [task[t] EXCEPT !.archived = TRUE] ELSE task[t]]
    BY <1>3, <2>1 DEF AutoArchive, Store
  <2>4. \A t \in Tasks : task'[t] = IF t \in ts THEN [task[t] EXCEPT !.archived = TRUE] ELSE task[t]
    BY <2>3
  <2>5. \A t \in ts : /\ [task[t] EXCEPT !.archived = TRUE] \in TaskRows
                      /\ [task[t] EXCEPT !.archived = TRUE].parent = task[t].parent
    BY <1>1, <2>2 DEF Tables, TaskRows
  <2>6. task' \in [Tasks -> TaskRows \cup {Null}]
    BY <1>1, <2>3, <2>5 DEF Tables
  <2>7. Forest' /\ Ages
    BY <1>1, <2>2, <2>3, <2>4, <2>5, <2>6, NullIsNoTask, RowsChange DEF Tree
  <2>8. QED
    BY <1>2, <2>7
<1>4. CASE TrashCleanup
  <2>1. PICK ts \in SUBSET Tasks : ts = {t \in Tasks : Exists(t) /\ Overdue(task[t].deleted, PurgeAfter)}
    OBVIOUS
  <2>2. task' = Without(ts) /\ UNCHANGED clock
    BY <1>4, <2>1 DEF TrashCleanup, Store
  <2>3. QED
    BY <1>1, <1>2, <2>2, RowsGo DEF Tree, Tables
<1>5. CASE Tick
  <2>1. UNCHANGED task /\ clock' \in Moments
    BY <1>1, <1>5, TasksHaveTime DEF Tick, Tables, Moments
  <2>2. Forest' /\ Ages
    BY <1>1, <2>1 DEF Tree, Forest, Tables, OneLevelDeep, IsForest, MailBox, GoodMail, Ages
  <2>3. QED
    BY <1>2, <2>2
<1>6. QED
  BY <1>3, <1>4, <1>5

(* A step that writes no task and no list. *)
LEMMA TreeElsewhere ==
  ASSUME Tree, Shape', UNCHANGED <<task, list, clock>>, used \subseteq used', MailBox',
         \A m \in Mails : GoodMail(m) => GoodMail(m)',
         \A g \in Handlers : request'[g] # Null /\ request'[g].at \in TreeSteps => request'[g] = request[g]
  PROVE  Tree' /\ Ages
<1>1. Forest' /\ Ages
  BY DEF Tree, Forest, Tables, OneLevelDeep, IsForest, Ages
<1>2. \A g \in Handlers : request'[g] # Null /\ request'[g].at \in TreeSteps => Meant(request[g])'
  BY <1>1, MeantStays DEF Tree, RequestsMeant
<1>3. QED
  BY <1>1, <1>2 DEF Tree, RequestsMeant

LEMMA MailsStay ==
  ASSUME Tree, UNCHANGED mail
  PROVE  MailBox' /\ \A m \in Mails : GoodMail(m) => GoodMail(m)'
BY DEF Tree, Forest, MailBox, GoodMail

ElseSteps == MemberSteps \cup AccountSteps \cup FileSteps \cup ItemSteps \cup CommentSteps \cup NoticeSteps \cup ChatSteps

LEMMA TreeOther ==
  ASSUME Tree, Shape', NEW h \in Handlers, Moves(h, ElseSteps), UNCHANGED <<task, list, clock, mail>>,
         used \subseteq used'
  PROVE  Tree' /\ Ages
<1>1. ElseSteps \cap TreeSteps = {}
  BY DEF ElseSteps, MemberSteps, AccountSteps, FileSteps, ItemSteps, CommentSteps, NoticeSteps, ChatSteps,
     TreeSteps, TaskSteps, TemplateSteps, MailSteps
<1>2. QED
  BY <1>1, MailsStay, TreeElsewhere DEF Moves, Others

LEMMA TreeContent ==
  ASSUME Tree, Shape', NEW h \in Handlers, Content(h)
  PROVE  Tree' /\ Ages
<1>1. Shape
  BY DEF Tree
<1>2. CASE (TemplatesCall(h) \/ TemplatesContinue(h)) /\ UNCHANGED mail
  BY <1>2, TemplateCalls, TemplateContinues
<1>3. CASE (\E m \in Mails : Ingest(h, m)) \/ MailTask(h) \/ MailMetadata(h)
  BY <1>3, IngestStep, MailTaskStep, MailMetadataStep
<1>4. CASE (AttachmentsCall(h) \/ AttachmentsContinue(h)) /\ UNCHANGED mail
  <2>1. UNCHANGED <<task, list, clock>> /\ used \subseteq used'
    BY <1>4 DEF AttachmentsCall, Upload, RemoveFile, AttachmentsContinue, UploadPut, UploadRow, RemoveObject,
       RemoveRow, Call, taskVars
  <2>2. QED
    BY <1>1, <1>4, <2>1, AttachmentsMove, TreeOther DEF Moves, ElseSteps
<1>5. CASE (ChecklistsCall(h) \/ ChecklistsContinue(h)) /\ UNCHANGED mail
  <2>1. UNCHANGED <<task, list, clock>> /\ used \subseteq used'
    BY <1>5 DEF ChecklistsCall, AddItem, RemoveItem, CheckItem, Reorder, ChecklistsContinue, ItemAdd, ItemCheck,
       ItemRemove, ReorderItem, ReorderCommit, GivenUp, Call, taskVars
  <2>2. QED
    BY <1>1, <1>5, <2>1, ChecklistsMove, TreeOther DEF Moves, ElseSteps
<1>6. CASE (CommentsCall(h) \/ CommentsContinue(h)) /\ UNCHANGED mail
  <2>1. UNCHANGED <<task, list, clock>> /\ used \subseteq used'
    BY <1>6 DEF CommentsCall, Comment, EditComment, RemoveComment, CommentsContinue, CommentCreate, CommentUpdate,
       CommentDelete, MentionResolve, MentionCreate, MentionRead, MentionSync, Call, taskVars
  <2>2. QED
    BY <1>1, <1>6, <2>1, CommentsMove, TreeOther DEF Moves, ElseSteps
<1>7. CASE (NoticesCall(h) \/ NoticesContinue(h)) /\ UNCHANGED mail
  <2>1. UNCHANGED taskVars
    BY <1>7 DEF NoticesCall, UpdatePrefs, Subscribe, Unsubscribe, NotifyAssigned, NotifyStatusChanged, Announce,
       NoticesContinue, PrefsStore, DeviceStore, Dispatch, Call
  <2>2. QED
    BY <1>1, <1>7, <2>1, NoticesMove, TreeOther DEF Moves, ElseSteps, taskVars
<1>8. CASE (ChatroomCall(h) \/ ChatroomContinue(h)) /\ UNCHANGED mail
  <2>1. UNCHANGED taskVars
    BY <1>8 DEF ChatroomCall, Leave, MarkRead, AddMember, Mute, SendMessage, AddReaction, RemoveReaction, TogglePin,
       Chat, ChatroomContinue, SeatStore, MessageStore, NotifyParticipants, MarkStore, Call
  <2>2. QED
    BY <1>1, <1>8, <2>1, ChatroomMove, TreeOther DEF Moves, ElseSteps, taskVars
<1>9. QED
  BY <1>2, <1>3, <1>4, <1>5, <1>6, <1>7, <1>8 DEF Content, mailVars

LEMMA TreeServe ==
  ASSUME Tree, Shape', NEW h \in Handlers, Serve(h)
  PROVE  Tree' /\ Ages
<1>1. CASE Members(h)
  <2>1. UNCHANGED taskVars /\ UNCHANGED mail
    BY <1>1 DEF Members, mailVars
  <2>2. QED
    BY <1>1, <2>1, MembersMove, TreeOther DEF Moves, ElseSteps, taskVars, Tree
<1>2. CASE SignIn(h)
  <2>1. UNCHANGED taskVars /\ UNCHANGED mail
    BY <1>2 DEF SignIn, contentVars, mailVars
  <2>2. QED
    BY <1>2, <2>1, AccountsMove, TreeOther DEF Moves, ElseSteps, taskVars, Tree
<1>3. CASE Board(h)
  <2>1. UNCHANGED mail
    BY <1>3 DEF Board, Cascade, MetadataFollows
  <2>2. QED
    BY <1>3, <2>1, TaskCalls, ListSteps, CreateSteps, OneRowSteps, ManyRowSteps DEF Board, TasksContinue
<1>4. QED
  BY <1>1, <1>2, <1>3, TreeContent DEF Serve

(* A mail is sent, or its worker is cut off. *)
LEMMA TreeMails ==
  ASSUME MailBox, (\E m \in Mails, l \in Lists, u \in Users : SendMail(m, l, u)) \/ MailsCutOff
  PROVE  MailBox' /\ \A m \in Mails : GoodMail(m) => GoodMail(m)'
<1>1. ASSUME NEW m \in Mails, NEW l \in Lists, NEW u \in Users, SendMail(m, l, u)
      PROVE  DOMAIN mail' = Mails /\ \A n \in Mails : mail'[n] = mail[n] \/ GoodMail(n)'
  <2>1. CASE mail' = [mail EXCEPT ![m] = [to |-> l, from |-> u, state |-> "sent", made |-> << >>, rejections |-> 0]]
    BY <2>1 DEF MailBox, GoodMail
  <2>2. CASE mail[m] # Null /\ mail' = [mail EXCEPT ![m].state = "sent"]
    <3>1. GoodMail(m)
      BY <2>2 DEF MailBox
    <3>2. GoodMail(m)' /\ DOMAIN mail' = Mails /\ \A n \in Mails : n # m => mail'[n] = mail[n]
      BY <2>2, <3>1 DEF MailBox, GoodMail
    <3>3. QED
      BY <3>2
  <2>3. QED
    BY <1>1, <2>1, <2>2 DEF SendMail
<1>2. CASE MailsCutOff
  <2>1. DOMAIN mail' = Mails /\ \A m \in Mails : mail'[m] = mail[m] \/ (mail[m] # Null /\ mail'[m] = Ends(m, FALSE)[m])
    BY <1>2 DEF MailsCutOff
  <2>2. ASSUME NEW m \in Mails, mail[m] # Null, mail'[m] = Ends(m, FALSE)[m] PROVE GoodMail(m)'
    BY <2>2 DEF MailBox, GoodMail, Ends
  <2>3. QED
    BY <2>1, <2>2, MailsKept
<1>3. QED
  BY <1>1, <1>2, MailsKept

LEMMA TreeNext ==
  ASSUME Tree, [Next]_vars
  PROVE  Tree' /\ Ages
<1>1. Shape'
  BY ShapeStays DEF Tree
<1>2. MailBox
  BY DEF Tree, Forest
<1>3. CASE Mailing
  BY <1>1, <1>2, <1>3, TreeMails, TreeElsewhere DEF Mailing, SendMail, taskVars
<1>4. CASE Crash
  BY <1>1, <1>2, <1>4, TreeMails, TreeElsewhere DEF Crash, Die, taskVars
<1>5. CASE UNCHANGED <<request, taskVars, mail>>
  BY <1>1, <1>5, MailsStay, TreeElsewhere DEF taskVars
<1>6. CASE Pushing \/ Chatting
  BY <1>5, <1>6 DEF Pushing, Pushes, Forget, Chatting, Background, MuteEnds, AttachLinkPreview, mailVars
<1>7. CASE Time
  <2>1. CASE \/ \E v \in invitations : Expire(v) /\ UNCHANGED <<accountVars, taskVars, contentVars>>
             \/ \E l \in DOMAIN links : ExpireLink(l) /\ UNCHANGED <<taskVars, contentVars>>
    BY <1>5, <2>1 DEF Expire, ExpireLink, contentVars, mailVars
  <2>2. CASE (AutoArchive \/ TrashCleanup \/ Tick) /\ Cascade
    BY <2>2, TreeSweeps DEF Cascade, MetadataFollows, AutoArchive, TrashCleanup, Tick
  <2>3. QED
    BY <1>7, <2>1, <2>2 DEF Time
<1>8. CASE UNCHANGED vars
  BY <1>5, <1>8 DEF vars, contentVars, mailVars
<1>9. QED
  BY <1>1, <1>3, <1>4, <1>6, <1>7, <1>8, TreeServe DEF Next

LEMMA TreeIsKept == Spec => []Tree
<1>1. Init => Tree
  <2> SUFFICES ASSUME Init PROVE Tree
    OBVIOUS
  <2>1. PICK s \in Starts : InitTasks(s.list, s.access, s.task, {i \in Items : s.item[i] # Null})
    BY DEF Init
  <2>2. /\ list \in [Lists -> Users \cup {Null}] /\ task \in [Tasks -> TaskRows \cup {Null}] /\ IsForest(task)
    BY <2>1, StartsAreTidy DEF InitTasks
  <2>3. clock \in Moments /\ \A t \in Tasks : task[t] # Null => t \in used
    BY <2>1, TasksHaveTime DEF InitTasks, Moments
  <2>4. MailBox
    BY DEF Init, InitMails, MailBox
  <2>5. Shape /\ RequestsMeant
    BY DEF Init, InitRequests, Shape, RequestsMeant
  <2>6. QED
    BY <2>2, <2>3, <2>4, <2>5 DEF Tree, Forest, Tables, OneLevelDeep
<1>2. QED
  BY <1>1, TreeNext, PTL DEF Spec

(* However creating, purging, moving, deleting a list, applying a template and the nightly
   sweep overlap: a subtask's parent is there, and is no subtask. *)
THEOREM TasksNestOnce == Spec => []OneLevelDeep
<1>1. Tree => OneLevelDeep
  BY DEF Tree, Forest
<1>2. QED
  BY <1>1, TreeIsKept, PTL

----------------------------------------------------------------------------
(* No mail is lost.  A mail that is taken is in the hands of one request, which knows the
   task it has made of it; each rejection pays for one task. *)
InHand(h) == request[h] # Null /\ request[h].at \in MailSteps

LastMade(m) == mail[m].made[Len(mail[m].made)]

RowRight(m) ==
  /\ mail[m] \in MailRows
  /\ mail[m].state \in {"sent", "rejected"} => Len(mail[m].made) <= mail[m].rejections
  /\ mail[m].state = "accepted" => Len(mail[m].made) > 0 /\ LastMade(m) \in used /\ Filed(LastMade(m))
  /\ Len(mail[m].made) <= mail[m].rejections + 1

Carried(h) ==
  LET m == On(h).mail
  IN  /\ mail[m] # Null /\ mail[m] \in MailRows /\ mail[m].state = "taken"
      /\ request[h].at = "mail:task" => Len(mail[m].made) <= mail[m].rejections
      /\ request[h].at = "mail:metadata" =>
           /\ Len(mail[m].made) > 0 /\ LastMade(m) = On(h).task /\ On(h).task \in used
           /\ Len(mail[m].made) <= mail[m].rejections + 1

Posted ==
  /\ \A m \in Mails : mail[m] # Null => RowRight(m)
  /\ \A m \in Mails : mail[m] # Null /\ mail[m].state = "taken" => \E h \in Handlers : InHand(h) /\ On(h).mail = m
  /\ \A h \in Handlers : InHand(h) => Carried(h)
  /\ \A g, h \in Handlers : InHand(g) /\ InHand(h) /\ On(g).mail = On(h).mail => g = h

(* A request of another part had no mail in its hands. *)
LEMMA NoMailInHand ==
  ASSUME NEW h \in Handlers, Serve(h)
  PROVE  \/ ~InHand(h) /\ UNCHANGED mail
         \/ \E m \in Mails : Ingest(h, m)
         \/ MailTask(h) \/ MailMetadata(h)
<1> USE DEF InHand, MailSteps, At, Free
<1>1. CASE Members(h)
  BY <1>1 DEF Members, MembersCall, MembersContinue, InviteSupersede, InviteCreate, RevokeDelete, ResendRotate,
     AcceptAccount, AcceptCreateAccount, AcceptReadMember, AcceptReactivate, AcceptCreateMember, AcceptMark,
     PatchCount, PatchWrite, DeactivateCount, DeactivateTasks, DeactivateWrite, ReactivateWrite, mailVars
<1>2. CASE SignIn(h)
  BY <1>2 DEF SignIn, AccountsCall, AccountsContinue, AccountCreate, ForgotBurn, ForgotCommit, ResetCommit,
     contentVars, mailVars
<1>3. CASE Board(h)
  BY <1>3 DEF Board, TasksCall, TasksContinue, ListCreate, ListDelete, ListAdd, ListRemove, TaskCreate, StatusStore,
     MoveStore, MoveSubtasks, AssignStore, TaskRemove, TaskRestore, TaskArchive, TaskUnarchive, TaskLock, TaskPurge,
     Cascade, MetadataFollows
<1>4. CASE (TemplatesCall(h) \/ TemplatesContinue(h)) /\ UNCHANGED mailVars
  BY <1>4 DEF TemplatesCall, TemplatesContinue, TemplateCreate, TemplateUpdate, TemplateRemove, TemplateList,
     TemplateTask, mailVars
<1>5. CASE (AttachmentsCall(h) \/ AttachmentsContinue(h)) /\ UNCHANGED mailVars
  BY <1>5 DEF AttachmentsCall, AttachmentsContinue, UploadPut, UploadRow, RemoveObject, RemoveRow, mailVars
<1>6. CASE (ChecklistsCall(h) \/ ChecklistsContinue(h)) /\ UNCHANGED mailVars
  BY <1>6 DEF ChecklistsCall, ChecklistsContinue, ItemAdd, ItemCheck, ItemRemove, ReorderItem, ReorderCommit,
     GivenUp, mailVars
<1>7. CASE (CommentsCall(h) \/ CommentsContinue(h)) /\ UNCHANGED mailVars
  BY <1>7 DEF CommentsCall, CommentsContinue, CommentCreate, CommentUpdate, CommentDelete, MentionResolve,
     MentionCreate, MentionRead, MentionSync, mailVars
<1>8. CASE (NoticesCall(h) \/ NoticesContinue(h)) /\ UNCHANGED mailVars
  BY <1>8 DEF NoticesCall, NoticesContinue, PrefsStore, DeviceStore, Dispatch, mailVars
<1>9. CASE (ChatroomCall(h) \/ ChatroomContinue(h)) /\ UNCHANGED mailVars
  BY <1>9 DEF ChatroomCall, ChatroomContinue, SeatStore, SeatLeave, SeatAdd, SeatMute, SeatMark, MessageStore,
     NotifyParticipants, MarkStore, ReactionStore, ReactionRemove, PinStore, mailVars
<1>10. CASE Content(h)
  BY <1>4, <1>5, <1>6, <1>7, <1>8, <1>9, <1>10 DEF Content
<1>11. QED
  BY <1>1, <1>2, <1>3, <1>10 DEF Serve

(* A row's metadata go only with the row, and no row comes back. *)
FilingLasts == \A t \in Tasks : t \in used /\ Filed(t) => Filed(t)'

LEMMA FiledStays ==
  ASSUME Ages, UNCHANGED metadata \/ MetadataFollows
  PROVE  FilingLasts
BY DEF Ages, FilingLasts, Filed, Exists, MetadataFollows

(* A step aside from the mails. *)
LEMMA PostedAside ==
  ASSUME Posted, UNCHANGED mail, FilingLasts, used \subseteq used',
         \A g \in Handlers : InHand(g) \/ InHand(g)' => request'[g] = request[g]
  PROVE  Posted'
<1>1. \A m \in Mails : mail[m] # Null => RowRight(m)'
  <2> SUFFICES ASSUME NEW m \in Mails, mail[m] # Null PROVE RowRight(m)'
    OBVIOUS
  <2>1. RowRight(m)
    BY DEF Posted
  <2>2. mail[m].state = "accepted" => LastMade(m) \in Tasks
    BY <2>1 DEF RowRight, MailRows, LastMade
  <2>3. LastMade(m)' = LastMade(m)
    BY DEF LastMade
  <2>4. mail[m].state = "accepted" => LastMade(m) \in used' /\ Filed(LastMade(m))'
    BY <2>1, <2>2, <2>3 DEF RowRight, FilingLasts, Filed, Exists
  <2>5. QED
    BY <2>1, <2>3, <2>4 DEF RowRight, Filed, Exists
<1>2. \A h \in Handlers : InHand(h)' => InHand(h) /\ On(h)' = On(h) /\ Carried(h)'
  BY DEF Posted, InHand, On, Carried, LastMade
<1>3. \A h \in Handlers : InHand(h) => InHand(h)' /\ On(h)' = On(h)
  BY DEF InHand, On
<1>4. QED
  BY <1>1, <1>2, <1>3 DEF Posted

(* What a step on one mail has to show: the mail's row is right, and of the requests at
   most one has it in hand. *)
LEMMA PostedOne ==
  ASSUME Posted, NEW m \in Mails, \A n \in Mails \ {m} : mail'[n] = mail[n],
         FilingLasts, used \subseteq used', RowRight(m)',
         \A g \in Handlers : (InHand(g) /\ On(g).mail # m) \/ (InHand(g) /\ On(g).mail # m)' => request'[g] = request[g],
         \A g \in Handlers : InHand(g)' /\ On(g)'.mail = m => Carried(g)',
         mail'[m].state = "taken" => \E g \in Handlers : InHand(g)' /\ On(g)'.mail = m,
         \A g, h \in Handlers : InHand(g)' /\ InHand(h)' /\ On(g)'.mail = m /\ On(h)'.mail = m => g = h,
         \A g \in Handlers : InHand(g)' => On(g)'.mail \in Mails
  PROVE  Posted'
<1>1. \A n \in Mails : mail'[n] # Null => RowRight(n)'
  <2> SUFFICES ASSUME NEW n \in Mails \ {m}, mail[n] # Null PROVE RowRight(n)'
    OBVIOUS
  <2>1. RowRight(n)
    BY DEF Posted
  <2>2. mail[n].state = "accepted" => LastMade(n) \in Tasks
    BY <2>1 DEF RowRight, MailRows, LastMade
  <2>3. LastMade(n)' = LastMade(n)
    BY DEF LastMade
  <2>4. mail[n].state = "accepted" => LastMade(n) \in used' /\ Filed(LastMade(n))'
    BY <2>1, <2>2, <2>3 DEF RowRight, FilingLasts, Filed, Exists
  <2>5. QED
    BY <2>1, <2>3, <2>4 DEF RowRight, Filed, Exists
<1>2. \A g \in Handlers : InHand(g)' /\ On(g)'.mail # m => InHand(g) /\ On(g)' = On(g) /\ Carried(g)'
  <2> SUFFICES ASSUME NEW g \in Handlers, InHand(g)', On(g)'.mail # m
               PROVE  InHand(g) /\ On(g)' = On(g) /\ Carried(g)'
    OBVIOUS
  <2>1. request'[g] = request[g] /\ On(g)' = On(g) /\ InHand(g)
    BY DEF InHand, On
  <2>2. On(g).mail \in Mails \ {m} /\ mail'[On(g).mail] = mail[On(g).mail]
    BY <2>1
  <2>3. Carried(g)
    BY <2>1 DEF Posted
  <2>4. QED
    BY <2>1, <2>2, <2>3 DEF Carried, LastMade
<1>3. \A g \in Handlers : InHand(g) /\ On(g).mail # m => InHand(g)' /\ On(g)' = On(g)
  BY DEF InHand, On
<1>4. \A n \in Mails : mail'[n] # Null /\ mail'[n].state = "taken" => \E h \in Handlers : InHand(h)' /\ On(h)'.mail = n
  BY <1>3 DEF Posted
<1>5. \A h \in Handlers : InHand(h)' => Carried(h)'
  BY <1>2
<1>6. \A g, h \in Handlers : InHand(g)' /\ InHand(h)' /\ On(g)'.mail = On(h)'.mail => g = h
  BY <1>2 DEF Posted
<1>7. QED
  BY <1>1, <1>4, <1>5, <1>6 DEF Posted

(* The requests that have a mail in hand name a mail. *)
LEMMA InHandMails ==
  ASSUME Tree
  PROVE  \A g \in Handlers : InHand(g) => On(g).mail \in Mails /\ request[g].at \in MailSteps
BY Means DEF Tree, RequestsMeant, Meant, InHand, On, TreeSteps

(* The same for a step of a request that has the mail in hand, or takes it. *)
LEMMA PostedByOne ==
  ASSUME Posted, Tree, Tree', NEW h \in Handlers, Others(h), NEW m \in Mails,
         \A n \in Mails \ {m} : mail'[n] = mail[n],
         (InHand(h) /\ On(h).mail = m) \/ (~InHand(h) /\ mail[m].state # "taken"),
         FilingLasts, used \subseteq used', RowRight(m)',
         InHand(h)' => On(h)'.mail = m /\ Carried(h)',
         mail'[m].state = "taken" => InHand(h)'
  PROVE  Posted'
<1>1. \A g \in Handlers \ {h} : /\ request'[g] = request[g] /\ On(g)' = On(g) /\ (InHand(g) <=> InHand(g)')
                                /\ (InHand(g) => On(g).mail # m)
  <2> SUFFICES ASSUME NEW g \in Handlers \ {h}
               PROVE  /\ request'[g] = request[g] /\ On(g)' = On(g) /\ (InHand(g) <=> InHand(g)')
                      /\ InHand(g) => On(g).mail # m
    OBVIOUS
  <2>1. request'[g] = request[g] /\ On(g)' = On(g) /\ (InHand(g) <=> InHand(g)')
    BY DEF Others, On, InHand
  <2>2. InHand(g) => mail[On(g).mail].state = "taken"
    BY DEF Posted, Carried
  <2>3. InHand(g) /\ InHand(h) => On(g).mail # On(h).mail
    BY DEF Posted
  <2>4. QED
    BY <2>1, <2>2, <2>3
<1>2. \A g \in Handlers : InHand(g)' => On(g)'.mail \in Mails
  <2> SUFFICES ASSUME NEW g \in Handlers, InHand(g)' PROVE On(g)'.mail \in Mails
    OBVIOUS
  <2>1. CASE g = h
    BY <2>1
  <2>2. CASE g # h
    BY <1>1, <2>2, InHandMails DEF InHand, On
  <2>3. QED
    BY <2>1, <2>2
<1>3. \A g \in Handlers : InHand(g)' /\ On(g)'.mail = m => g = h
  BY <1>1 DEF InHand, On
<1>4. \A g \in Handlers : (InHand(g) /\ On(g).mail # m) \/ (InHand(g)' /\ On(g)'.mail # m) => request'[g] = request[g]
  <2> SUFFICES ASSUME NEW g \in Handlers, (InHand(g) /\ On(g).mail # m) \/ (InHand(g)' /\ On(g)'.mail # m)
               PROVE  request'[g] = request[g]
    OBVIOUS
  <2>1. CASE g # h
    BY <1>1, <2>1 DEF InHand, On
  <2>2. g # h
    OBVIOUS
  <2>3. QED
    BY <2>1, <2>2
<1>5. \A g \in Handlers : InHand(g)' /\ On(g)'.mail = m => Carried(g)'
  <2> SUFFICES ASSUME NEW g \in Handlers, InHand(g)', On(g)'.mail = m PROVE Carried(g)'
    OBVIOUS
  <2>1. g = h
    BY <1>3
  <2>2. QED
    BY <2>1
<1>6. mail'[m].state = "taken" => \E g \in Handlers : InHand(g)' /\ On(g)'.mail = m
  OBVIOUS
<1>7. \A f, g \in Handlers : InHand(f)' /\ InHand(g)' /\ On(f)'.mail = m /\ On(g)'.mail = m => f = g
  BY <1>3
<1>8. QED
  BY <1>2, <1>4, <1>5, <1>6, <1>7, PostedOne

(* A mail's row when it ends. *)
LEMMA EndsRow ==
  ASSUME DOMAIN mail = Mails, NEW m \in Mails, mail[m] \in MailRows, NEW ok \in BOOLEAN
  PROVE  /\ Ends(m, ok)[m] \in MailRows /\ Ends(m, ok)[m].made = mail[m].made
         /\ Ends(m, ok)[m].state = IF ok THEN "accepted" ELSE "rejected"
         /\ Ends(m, ok)[m].rejections = IF ok THEN mail[m].rejections ELSE mail[m].rejections + 1
         /\ \A n \in Mails \ {m} : Ends(m, ok)[n] = mail[n]
<1>1. PICK row : row = [mail[m] EXCEPT !.state = IF ok THEN "accepted" ELSE "rejected",
                                       !.rejections = IF ok THEN @ ELSE @ + 1]
  OBVIOUS
<1>2. /\ row \in MailRows /\ row.made = mail[m].made /\ row.state = IF ok THEN "accepted" ELSE "rejected"
      /\ row.rejections = IF ok THEN mail[m].rejections ELSE mail[m].rejections + 1
  <2>1. CASE ok = TRUE
    <3>1. row = [mail[m] EXCEPT !.state = "accepted"]
      BY <1>1, <2>1 DEF MailRows
    <3>2. QED
      BY <2>1, <3>1 DEF MailRows
  <2>2. CASE ok = FALSE
    <3>1. row = [mail[m] EXCEPT !.state = "rejected", !.rejections = @ + 1]
      BY <1>1, <2>2
    <3>2. mail[m].rejections + 1 \in Nat
      BY DEF MailRows
    <3>3. QED
      BY <2>2, <3>1, <3>2 DEF MailRows
  <2>3. QED
    BY <2>1, <2>2
<1>3. Ends(m, ok)[m] = row
  BY <1>1 DEF Ends, MailRows
<1>4. \A n \in Mails \ {m} : Ends(m, ok)[n] = mail[n]
  BY DEF Ends
<1>5. QED
  BY <1>2, <1>3, <1>4

(* A mail that ends has its row right: if it is accepted, its last task is filed. *)
LEMMA RowEnds ==
  ASSUME MailBox, NEW m \in Mails, mail[m] \in MailRows, NEW ok \in BOOLEAN, mail' = Ends(m, ok),
         Len(mail[m].made) <= mail[m].rejections + 1,
         ok => /\ Len(mail[m].made) > 0 /\ LastMade(m) \in used'
               /\ task'[LastMade(m)] # Null => LastMade(m) \in metadata'
  PROVE  /\ RowRight(m)' /\ mail'[m].state # "taken"
         /\ \A n \in Mails \ {m} : mail'[n] = mail[n]
<1>1. /\ mail'[m] \in MailRows /\ mail'[m].made = mail[m].made
      /\ mail'[m].state = IF ok THEN "accepted" ELSE "rejected"
      /\ mail'[m].rejections = IF ok THEN mail[m].rejections ELSE mail[m].rejections + 1
      /\ \A n \in Mails \ {m} : mail'[n] = mail[n]
  BY EndsRow DEF MailBox
<1>2. LastMade(m)' = LastMade(m)
  BY <1>1 DEF LastMade
<1>3. mail[m].rejections \in Nat /\ Len(mail[m].made) \in Nat
  BY DEF MailRows
<1>4. CASE ok = TRUE
  BY <1>1, <1>2, <1>4 DEF RowRight, Filed, Exists
<1>5. CASE ok = FALSE
  BY <1>1, <1>2, <1>3, <1>5 DEF RowRight
<1>6. QED
  BY <1>1, <1>4, <1>5

LEMMA PostedIngest ==
  ASSUME Posted, Tree, Tree', Ages, NEW h \in Handlers, NEW m \in Mails, Ingest(h, m)
  PROVE  Posted'
<1>1. /\ mail[m] # Null /\ mail[m].state = "sent" /\ mail[m] \in MailRows
      /\ Len(mail[m].made) <= mail[m].rejections
  BY DEF Ingest, Posted, RowRight
<1>2. ~InHand(h) /\ MailBox /\ Shape
  BY DEF Ingest, Free, InHand, Tree, Forest
<1>3. mail[m].rejections \in Nat /\ Len(mail[m].made) \in Nat
  BY <1>1 DEF MailRows
<1>4. FilingLasts /\ used \subseteq used'
  BY FiledStays DEF Ingest, Ages
<1>5. CASE mail' = Ends(m, FALSE) /\ UNCHANGED request
  <2>0. Len(mail[m].made) <= mail[m].rejections + 1
    BY <1>1, <1>3
  <2>1. RowRight(m)' /\ mail'[m].state # "taken" /\ \A n \in Mails \ {m} : mail'[n] = mail[n]
    BY <1>1, <1>2, <1>5, <2>0, RowEnds
  <2>2. Others(h) /\ ~InHand(h)'
    BY <1>2, <1>5 DEF Others, InHand, Shape
  <2>3. QED
    BY <1>1, <1>2, <1>4, <2>1, <2>2, PostedByOne
<1>6. CASE /\ mail' = [mail EXCEPT ![m].state = "taken"] /\ list[mail[m].to] # Null
           /\ \E u \in Users, a \in Users \cup {Null} :
                Call(h, u, "mail:task", [mail |-> m, list |-> mail[m].to, parent |-> Null, assignee |-> a])
  <2>1. PICK row : row = [mail[m] EXCEPT !.state = "taken"]
    OBVIOUS
  <2>2. mail'[m] = row /\ \A n \in Mails \ {m} : mail'[n] = mail[n]
    BY <1>2, <1>6, <2>1 DEF MailBox
  <2>3. row \in MailRows /\ row.state = "taken" /\ row.made = mail[m].made /\ row.rejections = mail[m].rejections
    BY <1>1, <2>1 DEF MailRows
  <2>4. RowRight(m)'
    BY <1>1, <1>3, <2>2, <2>3 DEF RowRight
  <2>5. PICK u \in Users, a \in Users \cup {Null} :
          Call(h, u, "mail:task", [mail |-> m, list |-> mail[m].to, parent |-> Null, assignee |-> a])
    BY <1>6
  <2>6. PICK on : on = [mail |-> m, list |-> mail[m].to, parent |-> Null, assignee |-> a]
    OBVIOUS
  <2>7. Others(h) /\ request'[h] = [at |-> "mail:task", by |-> u, on |-> on]
    BY <1>2, <2>5, <2>6, Calls
  <2>8. On(h)' = on /\ on.mail = m /\ request'[h].at = "mail:task"
    BY <2>6, <2>7 DEF On
  <2>9. request'[h] # Null
    BY <1>1, <2>6, <2>7, NullIsNoMail DEF MailRequests, MailRows
  <2>10. InHand(h)' /\ Carried(h)'
    <3>1. mail'[m] # Null
      BY <2>2, <2>3, NullIsNoMail
    <3>2. QED
      BY <1>1, <2>2, <2>3, <2>8, <2>9, <3>1 DEF InHand, MailSteps, Carried
  <2>11. QED
    BY <1>1, <1>2, <1>4, <2>2, <2>4, <2>7, <2>8, <2>10, PostedByOne
<1>7. QED
  <2>1. mail[m].from \in Users /\ (list[mail[m].to] # Null => list[mail[m].to] \in Users)
    BY <1>1 DEF MailRows, Tree, Forest, Tables
  <2>2. CASE list[mail[m].to] # Null
    BY <1>6, <2>1, <2>2 DEF Ingest
  <2>3. CASE list[mail[m].to] = Null
    BY <1>5, <2>3 DEF Ingest
  <2>4. QED
    BY <2>2, <2>3

LEMMA PostedTask ==
  ASSUME Posted, Tree, Tree', Ages, NEW h \in Handlers, MailTask(h)
  PROVE  Posted'
<1>1. InHand(h) /\ request[h].at = "mail:task"
  BY DEF MailTask, At, InHand, MailSteps
<1>2. Meant(request[h])
  BY <1>1 DEF Tree, RequestsMeant, InHand, TreeSteps
<1>3. PICK m \in Mails : m = On(h).mail /\ By(h) \in Users
  BY <1>1, <1>2 DEF Meant, On, By, MailSteps
<1>4. /\ mail[m] \in MailRows /\ mail[m].state = "taken" /\ Len(mail[m].made) <= mail[m].rejections
  BY <1>1, <1>3 DEF Posted, Carried
<1>5. mail[m].rejections \in Nat /\ Len(mail[m].made) \in Nat /\ mail[m].made \in Seq(Tasks)
  BY <1>4 DEF MailRows
<1>6. Len(mail[m].made) <= mail[m].rejections + 1
  BY <1>4, <1>5
<1>7. FilingLasts /\ used \subseteq used' /\ MailBox /\ Shape
  BY FiledStays DEF MailTask, Ages, Tree, Forest
<1>8. CASE mail' = Ends(m, FALSE) /\ Answer(h)
  <2>1. RowRight(m)' /\ mail'[m].state # "taken" /\ \A n \in Mails \ {m} : mail'[n] = mail[n]
    BY <1>4, <1>6, <1>7, <1>8, RowEnds
  <2>2. Others(h) /\ request'[h] = Null
    BY <1>7, <1>8, Answers DEF Moves
  <2>3. ~InHand(h)'
    BY <2>2 DEF InHand
  <2>4. QED
    BY <1>1, <1>3, <1>7, <2>1, <2>2, <2>3, PostedByOne
<1>9. ASSUME NEW t \in Tasks, used' = used \cup {t}, mail' = [mail EXCEPT ![m].made = Append(@, t)],
             Await(h, [at |-> "mail:metadata", by |-> By(h), on |-> [mail |-> m, task |-> t]])
      PROVE  Posted'
  <2>1. PICK row : row = [mail[m] EXCEPT !.made = Append(@, t)]
    OBVIOUS
  <2>2. mail'[m] = row /\ \A n \in Mails \ {m} : mail'[n] = mail[n]
    BY <1>7, <1>9, <2>1 DEF MailBox
  <2>3. PICK made : made = Append(mail[m].made, t)
    OBVIOUS
  <2>4. made \in Seq(Tasks) /\ Len(made) = Len(mail[m].made) + 1 /\ made[Len(made)] = t
    BY <1>5, <2>3
  <2>5. row = [mail[m] EXCEPT !.made = made]
    BY <2>1, <2>3
  <2>6. row \in MailRows /\ row.state = "taken" /\ row.made = made /\ row.rejections = mail[m].rejections
    BY <1>4, <2>4, <2>5 DEF MailRows
  <2>7. Len(made) > 0 /\ Len(made) <= row.rejections + 1
    BY <1>4, <1>5, <2>4, <2>6
  <2>8. RowRight(m)'
    BY <2>2, <2>6, <2>7 DEF RowRight
  <2>9. PICK on : on = [mail |-> m, task |-> t]
    OBVIOUS
  <2>10. Others(h) /\ request'[h] = [at |-> "mail:metadata", by |-> By(h), on |-> on]
    BY <1>7, <1>9, <2>9, Awaits
  <2>11. On(h)' = on /\ on.mail = m /\ on.task = t /\ request'[h].at = "mail:metadata"
    BY <2>9, <2>10 DEF On
  <2>12. request'[h] # Null /\ mail'[m] # Null
    BY <1>3, <2>2, <2>6, <2>9, <2>10, NullIsNoMail DEF MailRequests
  <2>13. LastMade(m)' = t
    BY <2>2, <2>4, <2>6 DEF LastMade
  <2>14. InHand(h)' /\ Carried(h)'
    BY <1>9, <2>2, <2>6, <2>7, <2>11, <2>12, <2>13 DEF InHand, MailSteps, Carried
  <2>15. QED
    BY <1>1, <1>3, <1>7, <2>2, <2>8, <2>10, <2>11, <2>14, PostedByOne
<1>10. QED
  BY <1>3, <1>8, <1>9 DEF MailTask

LEMMA PostedMetadata ==
  ASSUME Posted, Tree, Tree', Ages, NEW h \in Handlers, MailMetadata(h)
  PROVE  Posted'
<1>1. InHand(h) /\ request[h].at = "mail:metadata"
  BY DEF MailMetadata, At, InHand, MailSteps
<1>2. PICK m \in Mails : m = On(h).mail
  BY <1>1, InHandMails
<1>3. /\ mail[m] \in MailRows /\ Len(mail[m].made) <= mail[m].rejections + 1
      /\ Len(mail[m].made) > 0 /\ LastMade(m) = On(h).task /\ On(h).task \in used
  BY <1>1, <1>2 DEF Posted, Carried
<1>4. UNCHANGED <<task, used>> /\ metadata \subseteq metadata' /\ Answer(h) /\ MailBox /\ Shape
  BY DEF MailMetadata, taskVars, Tree, Forest
<1>5. FilingLasts
  BY <1>4 DEF FilingLasts, Filed, Exists
<1>6. PICK ok \in BOOLEAN : mail' = Ends(m, ok) /\ (ok => Exists(On(h).task))
  BY <1>2 DEF MailMetadata, Exists
<1>7. Exists(On(h).task) => On(h).task \in metadata'
  BY DEF MailMetadata
<1>8. ok => /\ Len(mail[m].made) > 0 /\ LastMade(m) \in used'
            /\ task'[LastMade(m)] # Null => LastMade(m) \in metadata'
  BY <1>3, <1>4, <1>6, <1>7
<1>9. RowRight(m)' /\ mail'[m].state # "taken" /\ \A n \in Mails \ {m} : mail'[n] = mail[n]
  BY <1>3, <1>4, <1>6, <1>8, RowEnds
<1>10. Others(h) /\ request'[h] = Null
  BY <1>4, Answers DEF Moves
<1>11. ~InHand(h)'
  BY <1>10 DEF InHand
<1>12. QED
  BY <1>1, <1>2, <1>4, <1>5, <1>9, <1>10, <1>11, PostedByOne

(* A mail is sent: no request has it in hand. *)
LEMMA PostedSend ==
  ASSUME Posted, Tree, Tree', Ages, NEW m \in Mails, NEW l \in Lists, NEW u \in Users, SendMail(m, l, u)
  PROVE  Posted'
<1>1. UNCHANGED request /\ FilingLasts /\ used \subseteq used' /\ MailBox
  BY FiledStays DEF SendMail, Ages, Tree, Forest
<1>2. \A g \in Handlers : On(g)' = On(g) /\ (InHand(g)' <=> InHand(g))
  BY <1>1 DEF On, InHand
<1>3. mail[m] = Null \/ mail[m].state = "rejected"
  BY DEF SendMail
<1>4. \A g \in Handlers : InHand(g) => On(g).mail # m
  BY <1>3 DEF Posted, Carried
<1>5. RowRight(m)' /\ mail'[m].state = "sent" /\ \A n \in Mails \ {m} : mail'[n] = mail[n]
  <2>1. CASE mail' = [mail EXCEPT ![m] = [to |-> l, from |-> u, state |-> "sent", made |-> << >>, rejections |-> 0]]
    <3>1. PICK row : row = [to |-> l, from |-> u, state |-> "sent", made |-> << >>, rejections |-> 0]
      OBVIOUS
    <3>2. row \in MailRows /\ row.state = "sent" /\ Len(row.made) = 0 /\ row.rejections = 0
      BY <3>1 DEF MailRows
    <3>3. mail'[m] = row /\ \A n \in Mails \ {m} : mail'[n] = mail[n]
      BY <1>1, <2>1, <3>1 DEF MailBox
    <3>4. QED
      BY <3>2, <3>3 DEF RowRight
  <2>2. CASE mail[m] # Null /\ mail[m].state = "rejected" /\ mail' = [mail EXCEPT ![m].state = "sent"]
    <3>1. mail[m] \in MailRows /\ Len(mail[m].made) <= mail[m].rejections
      BY <2>2 DEF Posted, RowRight
    <3>2. PICK row : row = [mail[m] EXCEPT !.state = "sent"]
      OBVIOUS
    <3>3. /\ row \in MailRows /\ row.state = "sent" /\ row.made = mail[m].made
          /\ row.rejections = mail[m].rejections
      BY <3>1, <3>2 DEF MailRows
    <3>4. mail'[m] = row /\ \A n \in Mails \ {m} : mail'[n] = mail[n]
      BY <1>1, <2>2, <3>2 DEF MailBox
    <3>5. mail[m].rejections \in Nat /\ Len(mail[m].made) \in Nat
      BY <3>1 DEF MailRows
    <3>6. QED
      BY <3>1, <3>3, <3>4, <3>5 DEF RowRight
  <2>3. QED
    BY <2>1, <2>2 DEF SendMail
<1>6. \A g \in Handlers : InHand(g)' => On(g)'.mail \in Mails /\ On(g)'.mail # m
  BY <1>2, <1>4, InHandMails
<1>7. QED
  BY <1>1, <1>5, <1>6, PostedOne

(* A request of another part takes no mail in its hands either. *)
AsideSteps == ElseSteps \cup TaskSteps \cup TemplateSteps

LEMMA NoMailTaken ==
  ASSUME Shape, NEW h \in Handlers, Serve(h)
  PROVE  \/ Moves(h, AsideSteps) /\ (UNCHANGED metadata \/ MetadataFollows)
         \/ \E m \in Mails : Ingest(h, m)
         \/ MailTask(h) \/ MailMetadata(h)
<1> USE DEF AsideSteps, ElseSteps, Moves
<1>1. CASE Members(h)
  BY <1>1, MembersMove DEF Members, mailVars
<1>2. CASE SignIn(h)
  BY <1>2, AccountsMove DEF SignIn, contentVars, mailVars
<1>3. CASE Board(h)
  BY <1>3, TasksMove DEF Board, Cascade
<1>4. CASE (TemplatesCall(h) \/ TemplatesContinue(h)) /\ UNCHANGED mailVars
  BY <1>4, TemplatesMove DEF mailVars
<1>5. CASE (AttachmentsCall(h) \/ AttachmentsContinue(h)) /\ UNCHANGED mailVars
  BY <1>5, AttachmentsMove DEF mailVars
<1>6. CASE (ChecklistsCall(h) \/ ChecklistsContinue(h)) /\ UNCHANGED mailVars
  BY <1>6, ChecklistsMove DEF mailVars
<1>7. CASE (CommentsCall(h) \/ CommentsContinue(h)) /\ UNCHANGED mailVars
  BY <1>7, CommentsMove DEF mailVars
<1>8. CASE (NoticesCall(h) \/ NoticesContinue(h)) /\ UNCHANGED mailVars
  BY <1>8, NoticesMove DEF mailVars
<1>9. CASE (ChatroomCall(h) \/ ChatroomContinue(h)) /\ UNCHANGED mailVars
  BY <1>9, ChatroomMove DEF mailVars
<1>10. CASE Content(h)
  BY <1>4, <1>5, <1>6, <1>7, <1>8, <1>9, <1>10 DEF Content
<1>11. QED
  BY <1>1, <1>2, <1>3, <1>10 DEF Serve

LEMMA PostedServe ==
  ASSUME Posted, Tree, Tree', Ages, NEW h \in Handlers, Serve(h)
  PROVE  Posted'
<1>1. CASE (\E m \in Mails : Ingest(h, m)) \/ MailTask(h) \/ MailMetadata(h)
  BY <1>1, PostedIngest, PostedTask, PostedMetadata
<1>2. CASE /\ ~InHand(h) /\ UNCHANGED mail
           /\ Moves(h, AsideSteps) /\ (UNCHANGED metadata \/ MetadataFollows)
  <2>1. AsideSteps \cap MailSteps = {}
    BY DEF AsideSteps, ElseSteps, MemberSteps, AccountSteps, FileSteps, ItemSteps, CommentSteps, NoticeSteps,
       ChatSteps, TaskSteps, TemplateSteps, MailSteps
  <2>2. ~InHand(h)'
    BY <1>2, <2>1 DEF Moves, InHand
  <2>3. \A g \in Handlers \ {h} : request'[g] = request[g]
    BY <1>2 DEF Moves, Others
  <2>4. \A g \in Handlers : InHand(g) \/ InHand(g)' => request'[g] = request[g]
    BY <1>2, <2>2, <2>3
  <2>5. FilingLasts /\ used \subseteq used'
    BY <1>2, FiledStays DEF Ages
  <2>6. QED
    BY <1>2, <2>4, <2>5, PostedAside
<1>3. QED
  BY <1>1, <1>2, NoMailInHand, NoMailTaken DEF Tree

(* The process dies: the mails it had in hand are rejected. *)
LEMMA PostedCrash ==
  ASSUME Posted, Tree, Tree', Ages, Crash
  PROVE  Posted'
<1>1. /\ \A h \in Handlers : request'[h] = Null
      /\ \A m \in Mails : mail'[m] = IF mail[m] # Null /\ mail[m].state = "taken" THEN Ends(m, FALSE)[m] ELSE mail[m]
      /\ UNCHANGED <<task, used, metadata>>
  BY DEF Crash, Die, Quiet, MailsCutOff, taskVars
<1>2. \A h \in Handlers : ~InHand(h)'
  BY <1>1 DEF InHand
<1>3. DOMAIN mail = Mails /\ DOMAIN mail' = Mails
  BY DEF Tree, Forest, MailBox
<1>4. \A m \in Mails : mail'[m] # Null => RowRight(m)' /\ mail'[m].state # "taken"
  <2> SUFFICES ASSUME NEW m \in Mails, mail'[m] # Null PROVE RowRight(m)' /\ mail'[m].state # "taken"
    OBVIOUS
  <2>1. mail[m] # Null
    BY <1>1
  <2>2. RowRight(m) /\ mail[m] \in MailRows
    BY <2>1 DEF Posted, RowRight
  <2>3. CASE mail[m].state = "taken"
    <3>1. /\ mail'[m] \in MailRows /\ mail'[m].made = mail[m].made /\ mail'[m].state = "rejected"
          /\ mail'[m].rejections = mail[m].rejections + 1
      BY <1>1, <1>3, <2>1, <2>2, <2>3, EndsRow
    <3>2. mail[m].rejections \in Nat /\ Len(mail[m].made) \in Nat /\ Len(mail[m].made) <= mail[m].rejections + 1
      BY <2>2 DEF RowRight, MailRows
    <3>3. QED
      BY <3>1, <3>2 DEF RowRight
  <2>4. CASE mail[m].state # "taken"
    <3>1. mail'[m] = mail[m]
      BY <1>1, <2>4
    <3>2. LastMade(m)' = LastMade(m)
      BY <3>1 DEF LastMade
    <3>3. QED
      BY <1>1, <2>2, <2>4, <3>1, <3>2 DEF RowRight, Filed, Exists
  <2>5. QED
    BY <2>3, <2>4
<1>5. QED
  BY <1>2, <1>4 DEF Posted

LEMMA PostedNext ==
  ASSUME Posted, Tree, [Next]_vars
  PROVE  Posted'
<1>1. Tree' /\ Ages
  BY TreeNext
<1>2. CASE UNCHANGED <<request, mail>> /\ (UNCHANGED metadata \/ MetadataFollows)
  <2>1. \A g \in Handlers : InHand(g) \/ InHand(g)' => request'[g] = request[g]
    BY <1>2
  <2>2. FilingLasts /\ used \subseteq used'
    BY <1>1, <1>2, FiledStays DEF Ages
  <2>3. QED
    BY <1>2, <2>1, <2>2, PostedAside
<1>3. CASE Mailing
  BY <1>1, <1>3, PostedSend DEF Mailing
<1>4. CASE Crash
  BY <1>1, <1>4, PostedCrash
<1>5. CASE Pushing \/ Chatting
  BY <1>2, <1>5 DEF Pushing, Pushes, Forget, Chatting, Background, MuteEnds, AttachLinkPreview, mailVars
<1>6. CASE Time
  <2>1. CASE \/ \E v \in invitations : Expire(v) /\ UNCHANGED <<accountVars, taskVars, contentVars>>
             \/ \E l \in DOMAIN links : ExpireLink(l) /\ UNCHANGED <<taskVars, contentVars>>
    BY <1>2, <2>1 DEF Expire, ExpireLink, contentVars, mailVars
  <2>2. CASE (AutoArchive \/ TrashCleanup \/ Tick) /\ Cascade
    BY <1>2, <2>2 DEF Cascade, MetadataFollows, AutoArchive, TrashCleanup, Tick
  <2>3. QED
    BY <1>6, <2>1, <2>2 DEF Time
<1>7. CASE UNCHANGED vars
  BY <1>2, <1>7 DEF vars, contentVars, mailVars
<1>8. QED
  BY <1>1, <1>3, <1>4, <1>5, <1>6, <1>7, PostedServe DEF Next

LEMMA MailsArePosted == Spec => []Posted
<1>1. Init => Posted
  BY DEF Init, InitMails, InitRequests, Posted, InHand
<1>2. Tree /\ Posted /\ [Next]_vars => Posted'
  BY PostedNext
<1>3. QED
  BY <1>1, <1>2, TreeIsKept, PTL DEF Spec

(* Whatever the webhook's answer, a crash between its statements, a deletion of the list
   or a mail sent again: a mail is taken by somebody, rejected, or has become a task with
   its metadata, and makes one task more than it was rejected at most. *)
THEOREM EveryMailIsAnswered == Spec => []NoMailIsLost
<1>1. Posted => NoMailIsLost
  BY DEF Posted, NoMailIsLost, RowRight, LastMade, InHand, MailSteps
<1>2. QED
  BY <1>1, MailsArePosted, PTL

----------------------------------------------------------------------------
(* The sweeps.  The times a row carries are never older than the history says: a row that
   is done became so before its completion was written last, one in the trash got there
   before its deletion was. *)
Timed(t) ==
  /\ since[t].done \in 0..clock \cup {Null} /\ since[t].trash \in 0..clock \cup {Null}
  /\ task[t] # Null =>
       /\ task[t].status = "done" =>
            since[t].done # Null /\ (task[t].completed # Null => since[t].done <= task[t].completed)
       /\ task[t].deleted # Null => since[t].trash # Null /\ since[t].trash <= task[t].deleted

(* A request that has read a status which is no longer the row's: what changed it has
   written the completion, too, and the clock has not moved since. *)
Claims(r) ==
  task[r.on.task] # Null /\ r.on.was # task[r.on.task].status => task[r.on.task].completed \in {Null, clock}

Timely ==
  /\ \A t \in Tasks : Timed(t)
  /\ \A h \in Handlers : request[h] # Null /\ request[h].at = "status" => Claims(request[h])

(* What a statement may write: a status with a completion of now or none, a deletion of
   now or none. *)
Calm(t) ==
  /\ \/ task[t] # Null /\ task'[t].status = task[t].status /\ task'[t].completed = task[t].completed
     \/ task'[t].completed \in {Null, clock}
  /\ \/ task[t] # Null /\ task'[t].deleted = task[t].deleted
     \/ task'[t].deleted \in {Null, clock}

Writes == Store(task') /\ \A t \in Tasks : task'[t] # Null => Calm(t)

LEMMA TimedStays ==
  ASSUME Tables, Writes, NEW t \in Tasks, Timed(t)
  PROVE  Timed(t)'
<1>1. clock \in Nat /\ clock # Null /\ 0 <= clock /\ clock' = clock
  BY TasksHaveTime, NullIsNoTask DEF Tables, Moments, Writes, Store
<1>2. since'[t] = IF task'[t] = Null THEN Unplanned
                  ELSE [done |-> Kept(task'[t].status = "done", since[t].done),
                        trash |-> Kept(task'[t].deleted # Null, since[t].trash)]
  BY DEF Writes, Store
<1>3. CASE task'[t] = Null
  BY <1>1, <1>2, <1>3 DEF Timed, Unplanned
<1>4. CASE task'[t] # Null
  <2>1. /\ since'[t].done = Kept(task'[t].status = "done", since[t].done)
        /\ since'[t].trash = Kept(task'[t].deleted # Null, since[t].trash)
    BY <1>2, <1>4
  <2>2. /\ since'[t].done \in 0..clock \cup {Null} /\ since'[t].trash \in 0..clock \cup {Null}
        /\ task'[t].status = "done" => since'[t].done # Null /\ (since[t].done # Null => since'[t].done = since[t].done)
        /\ task'[t].deleted # Null => since'[t].trash # Null /\ (since[t].trash # Null => since'[t].trash = since[t].trash)
    BY <1>1, <2>1 DEF Kept, Timed
  <2>3. Calm(t)
    BY <1>4 DEF Writes
  <2>4. ASSUME task'[t].status = "done", task'[t].completed # Null PROVE since'[t].done <= task'[t].completed
    BY <1>1, <2>2, <2>3, <2>4 DEF Calm, Timed
  <2>5. ASSUME task'[t].deleted # Null PROVE since'[t].trash <= task'[t].deleted
    BY <1>1, <2>2, <2>3, <2>5 DEF Calm, Timed
  <2>6. QED
    BY <1>1, <1>4, <2>2, <2>4, <2>5 DEF Timed
<1>5. QED
  BY <1>3, <1>4

LEMMA ClaimsStay ==
  ASSUME Writes, NEW r, r.on.task \in Tasks, Claims(r)
  PROVE  Claims(r)'
<1>1. clock' = clock /\ (task'[r.on.task] # Null => Calm(r.on.task))
  BY DEF Writes, Store
<1>2. QED
  BY <1>1 DEF Calm, Claims

(* A step that writes nothing, or only what it may. *)
LEMMA TimelyStays ==
  ASSUME Tree, Timely, Writes \/ UNCHANGED <<task, clock, since>>,
         \A g \in Handlers : request'[g] # Null /\ request'[g].at = "status" =>
           request'[g] = request[g] \/ (Claims(request'[g]) /\ UNCHANGED <<task, clock>>)
  PROVE  Timely'
<1>1. \A t \in Tasks : Timed(t)'
  BY TimedStays DEF Tree, Forest, Timely, Timed
<1>2. ASSUME NEW g \in Handlers, request'[g] # Null, request'[g].at = "status" PROVE Claims(request[g])'
  <2>1. CASE Claims(request'[g]) /\ UNCHANGED <<task, clock>>
    BY <2>1 DEF Claims
  <2>2. CASE request'[g] = request[g]
    <3>1. PICK r : r = request[g] /\ r # Null /\ r.at = "status"
      BY <1>2, <2>2
    <3>2. Claims(r) /\ r.on.task \in Tasks
      BY <3>1 DEF Timely, Tree, RequestsMeant, Meant, TreeSteps, TaskSteps, OneTaskSteps
    <3>3. Claims(r)'
      BY <3>2, ClaimsStay DEF Claims
    <3>4. QED
      BY <2>2, <3>1, <3>3
  <2>3. QED
    BY <1>2, <2>1, <2>2
<1>3. QED
  BY <1>1, <1>2 DEF Timely

(* One row is written, with its status, completion and deletion or with new ones. *)
CalmRow(row, before) ==
  /\ (row.status = before.status /\ row.completed = before.completed) \/ row.completed \in {Null, clock}
  /\ row.deleted = before.deleted \/ row.deleted \in {Null, clock}

LEMMA StoreWrites ==
  ASSUME Tables, NEW t \in Tasks, task[t] # Null, NEW row, CalmRow(row, task[t]), Store([task EXCEPT ![t] = row])
  PROVE  Writes
<1>1. \A p \in Tasks : task'[p] = IF p = t THEN row ELSE task[p]
  BY DEF Store, Tables
<1>2. QED
  BY <1>1 DEF Writes, Store, Calm, CalmRow

LEMMA RowWrites ==
  ASSUME Tables, NEW h \in Handlers, On(h).task \in Tasks, NEW row, StoreRow(h, row),
         Row(h) \in TaskRows => CalmRow(row, Row(h))
  PROVE  Writes \/ UNCHANGED <<task, clock, since>>
<1>1. CASE Exists(On(h).task)
  <2>1. Row(h) \in TaskRows
    BY <1>1 DEF Tables, Exists, Row
  <2>2. Store([task EXCEPT ![On(h).task] = row])
    BY <1>1 DEF StoreRow
  <2>3. CalmRow(row, task[On(h).task])
    BY <2>1 DEF Row
  <2>4. QED
    BY <1>1, <2>2, <2>3, StoreWrites DEF Exists
<1>2. CASE ~Exists(On(h).task)
  BY <1>2 DEF StoreRow
<1>3. QED
  BY <1>1, <1>2

LEMMA RowCreated ==
  ASSUME Tables, NEW t \in Tasks, NEW row, row.completed = Null, row.deleted = Null, Store([task EXCEPT ![t] = row])
  PROVE  Writes
<1>1. \A p \in Tasks : task'[p] = IF p = t THEN row ELSE task[p]
  BY DEF Store, Tables
<1>2. QED
  BY <1>1 DEF Writes, Store, Calm

LEMMA RowsGone ==
  ASSUME Tables, NEW ts, Store(Without(ts))
  PROVE  Writes
<1>1. \A t \in Tasks : task'[t] = IF t \in ts THEN Null
                                  ELSE IF task[t] # Null /\ task[t].parent \in ts THEN [task[t] EXCEPT !.parent = Null]
                                  ELSE task[t]
  BY DEF Store, Without
<1>2. \A t \in Tasks : task[t] # Null =>
        LET row == [task[t] EXCEPT !.parent = Null]
        IN  row.status = task[t].status /\ row.completed = task[t].completed /\ row.deleted = task[t].deleted
  BY DEF Tables, TaskRows
<1>3. \A t \in Tasks : task'[t] # Null => Calm(t)
  BY <1>1, <1>2 DEF Calm
<1>4. QED
  BY <1>3 DEF Writes, Store

(* Where a request has read a status that is not the row's any more, the completion is of
   now already; where it has read the row's, the completion follows or stays. *)
LEMMA StatusWrites ==
  ASSUME Tree, Timely, NEW h \in Handlers, StatusStore(h)
  PROVE  Writes \/ UNCHANGED <<task, clock, since>>
<1>1. request[h] # Null /\ request[h].at = "status" /\ On(h).task \in Tasks /\ On(h).to \in {"todo", "done"}
  BY Means DEF StatusStore, At, TreeSteps, TaskSteps, Meant, On, OneTaskSteps
<1>2. Row(h) # Null /\ On(h).was # Row(h).status => Row(h).completed \in {Null, clock}
  BY <1>1 DEF Timely, Claims, Row, On
<1>3. PICK row : row = [Row(h) EXCEPT !.status = On(h).to, !.completed = Completion(On(h).was, On(h).to, @)]
  OBVIOUS
<1>4. ASSUME Row(h) \in TaskRows PROVE CalmRow(row, Row(h))
  <2>1. /\ row.status = On(h).to /\ row.completed = Completion(On(h).was, On(h).to, Row(h).completed)
        /\ row.deleted = Row(h).deleted
    BY <1>3, <1>4 DEF TaskRows
  <2>2. Row(h).status \in {"todo", "done"} /\ Row(h) # Null
    BY <1>4, NullIsNoTask DEF TaskRows
  <2>3. QED
    BY <1>1, <1>2, <2>1, <2>2 DEF CalmRow, Completion
<1>5. QED
  BY <1>1, <1>3, <1>4, RowWrites DEF StatusStore, Tree, Forest

LEMMA OtherWrites ==
  ASSUME Tree, NEW h \in Handlers,
         MoveStore(h) \/ AssignStore(h) \/ TaskRestore(h) \/ TaskArchive(h) \/ TaskUnarchive(h) \/ TaskLock(h)
  PROVE  Writes \/ UNCHANGED <<task, clock, since>>
<1>1. On(h).task \in Tasks /\ Tables
  BY Means DEF MoveStore, AssignStore, TaskRestore, TaskArchive, TaskUnarchive, TaskLock, TreeSteps, TaskSteps,
     Meant, OneTaskSteps, On, Tree, Forest
<1>2. ASSUME NEW row, StoreRow(h, row), Row(h) \in TaskRows => CalmRow(row, Row(h))
      PROVE  Writes \/ UNCHANGED <<task, clock, since>>
  BY <1>1, <1>2, RowWrites
<1>3. CASE MoveStore(h)
  <2>1. CASE StoreRow(h, [Row(h) EXCEPT !.list = On(h).to])
    <3>1. PICK row : row = [Row(h) EXCEPT !.list = On(h).to]
      OBVIOUS
    <3>2. Row(h) \in TaskRows => CalmRow(row, Row(h))
      BY <3>1 DEF CalmRow, TaskRows
    <3>3. QED
      BY <1>2, <2>1, <3>1, <3>2
  <2>2. QED
    BY <1>3, <2>1 DEF MoveStore
<1>4. CASE AssignStore(h)
  <2>1. PICK row : row = [Row(h) EXCEPT !.assignee = On(h).to]
    OBVIOUS
  <2>2. Row(h) \in TaskRows => CalmRow(row, Row(h))
    BY <2>1 DEF CalmRow, TaskRows
  <2>3. QED
    BY <1>2, <1>4, <2>1, <2>2 DEF AssignStore
<1>5. CASE TaskRestore(h)
  <2>1. PICK row : row = [Row(h) EXCEPT !.deleted = Null]
    OBVIOUS
  <2>2. Row(h) \in TaskRows => CalmRow(row, Row(h))
    BY <2>1 DEF CalmRow, TaskRows
  <2>3. QED
    BY <1>2, <1>5, <2>1, <2>2 DEF TaskRestore
<1>6. ASSUME NEW on, StoreRow(h, [Row(h) EXCEPT !.archived = on]) PROVE Writes \/ UNCHANGED <<task, clock, since>>
  <2>1. PICK row : row = [Row(h) EXCEPT !.archived = on]
    OBVIOUS
  <2>2. Row(h) \in TaskRows => CalmRow(row, Row(h))
    BY <2>1 DEF CalmRow, TaskRows
  <2>3. QED
    BY <1>2, <1>6, <2>1, <2>2
<1>7. CASE TaskLock(h)
  <2>1. PICK row : row = [Row(h) EXCEPT !.locked = On(h).to]
    OBVIOUS
  <2>2. Row(h) \in TaskRows => CalmRow(row, Row(h))
    BY <2>1 DEF CalmRow, TaskRows
  <2>3. QED
    BY <1>2, <1>7, <2>1, <2>2 DEF TaskLock
<1>8. QED
  BY <1>3, <1>4, <1>5, <1>6, <1>7 DEF TaskArchive, TaskUnarchive

LEMMA SetWrites ==
  ASSUME Tree, NEW h \in Handlers, MoveSubtasks(h) \/ TaskRemove(h) \/ TaskPurge(h) \/ ListDelete(h)
  PROVE  Writes \/ UNCHANGED <<task, clock, since>>
<1>1. Tables
  BY DEF Tree, Forest
<1>2. CASE MoveSubtasks(h)
  <2>1. CASE Store([t \in Tasks |-> IF t \in Children(On(h).task) THEN [task[t] EXCEPT !.list = On(h).to] ELSE task[t]])
    <3>1. \A t \in Tasks : task'[t] = IF t \in Children(On(h).task) THEN [task[t] EXCEPT !.list = On(h).to] ELSE task[t]
      BY <2>1 DEF Store
    <3>2. \A t \in Children(On(h).task) : task[t] # Null /\ CalmRow([task[t] EXCEPT !.list = On(h).to], task[t])
      BY <1>1 DEF Children, Tables, TaskRows, CalmRow
    <3>3. \A t \in Tasks : task'[t] # Null => Calm(t)
      BY <3>1, <3>2 DEF Calm, CalmRow
    <3>4. QED
      BY <2>1, <3>3 DEF Writes, Store
  <2>2. QED
    BY <1>2, <2>1 DEF MoveSubtasks
<1>3. CASE TaskRemove(h)
  <2>1. PICK ts \in SUBSET Tasks : ts = {t \in Tasks : t \in {On(h).task} \cup Children(On(h).task) /\ Exists(t)}
    OBVIOUS
  <2>2. Store([t \in Tasks |-> IF t \in {On(h).task} \cup Children(On(h).task) /\ Exists(t)
                               THEN [task[t] EXCEPT !.deleted = clock] ELSE task[t]])
    BY <1>3 DEF TaskRemove
  <2>3. \A t \in Tasks : task'[t] = IF t \in ts THEN [task[t] EXCEPT !.deleted = clock] ELSE task[t]
    BY <2>1, <2>2 DEF Store
  <2>4. \A t \in ts : task[t] # Null /\ CalmRow([task[t] EXCEPT !.deleted = clock], task[t])
    BY <1>1, <2>1 DEF Exists, Tables, TaskRows, CalmRow
  <2>5. \A t \in Tasks : task'[t] # Null => Calm(t)
    BY <2>3, <2>4 DEF Calm, CalmRow
  <2>6. QED
    BY <2>2, <2>5 DEF Writes, Store
<1>4. CASE TaskPurge(h) \/ ListDelete(h)
  BY <1>1, <1>4, RowsGone DEF TaskPurge, ListDelete
<1>5. QED
  BY <1>2, <1>3, <1>4

(* A new task is neither done nor in the trash. *)
LEMMA NewWrites ==
  ASSUME Tree, NEW h \in Handlers, TaskCreate(h) \/ TemplateTask(h) \/ MailTask(h)
  PROVE  Writes \/ UNCHANGED <<task, clock, since>>
<1>1. ASSUME NEW t \in Tasks, NEW a, Store([task EXCEPT ![t] = NewTask(h, a)]) PROVE Writes
  <2>1. PICK row : row = NewTask(h, a)
    OBVIOUS
  <2>2. row.completed = Null /\ row.deleted = Null
    BY <2>1 DEF NewTask
  <2>3. QED
    BY <1>1, <2>1, <2>2, RowCreated DEF Tree, Forest
<1>2. CASE TaskCreate(h)
  BY <1>1, <1>2 DEF TaskCreate
<1>3. CASE TemplateTask(h)
  BY <1>1, <1>3 DEF TemplateTask
<1>4. CASE MailTask(h)
  BY <1>1, <1>4 DEF MailTask
<1>5. QED
  BY <1>2, <1>3, <1>4

----------------------------------------------------------------------------
(* A request at "status" has just read the row. *)
LEMMA CallsClaim ==
  ASSUME Shape, NEW h \in Handlers, TasksCall(h), request'[h] # Null, request'[h].at = "status"
  PROVE  Claims(request'[h])
<1>1. ASSUME NEW u, NEW step, NEW on, Call(h, u, step, on), step # "status" PROVE FALSE
  <2>1. request'[h] = [at |-> step, by |-> u, on |-> on]
    BY <1>1, Calls
  <2>2. request'[h].at = step
    BY <2>1
  <2>3. QED
    BY <1>1, <2>2
<1>2. ASSUME NEW u, NEW t, NEW s, PatchStatus(h, u, t, s) PROVE Claims(request'[h])
  <2>1. request'[h] = [at |-> "status", by |-> u, on |-> [task |-> t, was |-> task[t].status, to |-> s]]
    BY <1>2, Calls DEF PatchStatus
  <2>2. request'[h].on.task = t /\ request'[h].on.was = task[t].status
    BY <2>1
  <2>3. QED
    BY <2>2 DEF Claims
<1>3. ASSUME NEW u, CreateList(h, u) PROVE FALSE
  BY <1>1, <1>3 DEF CreateList
<1>4. ASSUME NEW u, NEW l, DeleteList(h, u, l) PROVE FALSE
  BY <1>1, <1>4 DEF DeleteList
<1>5. ASSUME NEW u, NEW l, NEW m, AddToList(h, u, l, m) \/ RemoveFromList(h, u, l, m) PROVE FALSE
  BY <1>1, <1>5 DEF AddToList, RemoveFromList
<1>6. ASSUME NEW u, NEW l, NEW p, CreateTask(h, u, l, p) PROVE FALSE
  BY <1>1, <1>6 DEF CreateTask
<1>7. ASSUME NEW u, NEW t, NEW l, MoveTask(h, u, t, l) PROVE FALSE
  BY <1>1, <1>7 DEF MoveTask
<1>8. ASSUME NEW u, NEW t, NEW m, Assign(h, u, t, m) PROVE FALSE
  BY <1>1, <1>8 DEF Assign
<1>9. ASSUME NEW u, NEW t, NEW f \in Filings, File(h, u, t, f) PROVE FALSE
  BY <1>1, <1>9 DEF File, Filings
<1>10. ASSUME NEW u, NEW t, NEW on, Lock(h, u, t, on) PROVE FALSE
  BY <1>1, <1>10 DEF Lock
<1>11. ASSUME NEW u, NEW t, Purge(h, u, t) PROVE FALSE
  BY <1>1, <1>11 DEF Purge
<1>12. QED
  BY <1>2, <1>3, <1>4, <1>5, <1>6, <1>7, <1>8, <1>9, <1>10, <1>11 DEF TasksCall

LEMMA TimelyBoard ==
  ASSUME Tree, Timely, NEW h \in Handlers, Board(h)
  PROVE  Timely'
<1>1. Shape
  BY DEF Tree
<1>2. CASE TasksCall(h)
  <2>1. UNCHANGED taskVars /\ Others(h)
    BY <1>1, <1>2, TasksMove, TasksCallMoves DEF Board, Moves
  <2>2. \A g \in Handlers : request'[g] # Null /\ request'[g].at = "status" =>
          request'[g] = request[g] \/ (Claims(request'[g]) /\ UNCHANGED <<task, clock>>)
    BY <1>1, <1>2, <2>1, CallsClaim DEF Others, taskVars
  <2>3. QED
    BY <2>1, <2>2, TimelyStays DEF taskVars
<1>3. CASE TasksContinue(h)
  <2>1. Others(h)
    BY <1>1, TasksMove DEF Moves
  <2>2. Writes \/ UNCHANGED <<task, clock, since>>
    BY <1>3, StatusWrites, OtherWrites, SetWrites, NewWrites
       DEF TasksContinue, ListCreate, ListAdd, ListRemove
  <2>3. request'[h] # Null => request'[h].at # "status"
    <3>1. CASE Answer(h)
      BY <1>1, <3>1, Answers
    <3>2. CASE Await(h, [request[h] EXCEPT !.at = "move:subtasks"])
      <4>1. PICK r : r = [request[h] EXCEPT !.at = "move:subtasks"]
        OBVIOUS
      <4>2. request'[h] = r
        BY <1>1, <3>2, <4>1, Awaits
      <4>3. request[h] # Null => r.at = "move:subtasks"
        BY <1>1, <4>1 DEF Shape
      <4>4. request[h] # Null
        BY <1>3, <3>2 DEF TasksContinue, At, ListCreate, ListDelete, ListAdd, ListRemove, TaskCreate, StatusStore,
           MoveStore, MoveSubtasks, AssignStore, TaskRemove, TaskRestore, TaskArchive, TaskUnarchive, TaskLock, TaskPurge
      <4>5. QED
        BY <4>2, <4>3, <4>4
    <3>3. QED
      BY <1>3, <3>1, <3>2 DEF TasksContinue, ListCreate, ListDelete, ListAdd, ListRemove, TaskCreate, StatusStore,
         MoveStore, MoveSubtasks, AssignStore, TaskRemove, TaskRestore, TaskArchive, TaskUnarchive, TaskLock, TaskPurge
  <2>4. QED
    BY <2>1, <2>2, <2>3, TimelyStays DEF Others
<1>4. QED
  BY <1>2, <1>3 DEF Board

(* A request that is not on the board. *)
LEMMA TimelyAside ==
  ASSUME Tree, Timely, NEW h \in Handlers, NEW steps, Moves(h, steps), "status" \notin steps,
         Writes \/ UNCHANGED <<task, clock, since>>
  PROVE  Timely'
BY TimelyStays DEF Moves, Others

LEMMA TimelyContent ==
  ASSUME Tree, Timely, NEW h \in Handlers, Content(h)
  PROVE  Timely'
<1>1. Shape
  BY DEF Tree
<1>2. "status" \notin TemplateSteps \cup FileSteps \cup ItemSteps \cup CommentSteps \cup MailSteps \cup NoticeSteps \cup ChatSteps
  BY DEF TemplateSteps, FileSteps, ItemSteps, CommentSteps, MailSteps, NoticeSteps, ChatSteps
<1>3. CASE TemplatesCall(h) \/ TemplatesContinue(h)
  <2>1. ASSUME NEW u, NEW step, NEW on, Call(h, u, step, on) PROVE UNCHANGED <<task, clock, since>>
    BY <2>1 DEF Call, taskVars
  <2>2. ASSUME TemplatesCall(h) PROVE UNCHANGED <<task, clock, since>>
    BY <2>1, <2>2 DEF TemplatesCall, CreateTemplate, SaveTask, SaveList, DuplicateTemplate, NewTemplate,
       UpdateTemplate, RemoveTemplate, InstantiateList, ApplyTemplate
  <2>3. ASSUME TemplatesContinue(h) PROVE Writes \/ UNCHANGED <<task, clock, since>>
    BY <2>3, NewWrites DEF TemplatesContinue, TemplateCreate, TemplateUpdate, TemplateRemove, TemplateList, taskVars
  <2>4. QED
    BY <1>1, <1>2, <1>3, <2>2, <2>3, TemplatesMove, TimelyAside
<1>4. CASE (\E m \in Mails : Ingest(h, m)) \/ MailTask(h) \/ MailMetadata(h)
  <2>1. Writes \/ UNCHANGED <<task, clock, since>>
    BY <1>4, NewWrites DEF Ingest, MailMetadata, Call, taskVars
  <2>2. QED
    BY <1>1, <1>2, <1>4, <2>1, MailsMove, TimelyAside
<1>5. CASE AttachmentsCall(h) \/ AttachmentsContinue(h)
  <2>1. UNCHANGED <<task, clock, since>>
    BY <1>5 DEF AttachmentsCall, Upload, RemoveFile, AttachmentsContinue, UploadPut, UploadRow, RemoveObject,
       RemoveRow, Call, taskVars
  <2>2. QED
    BY <1>1, <1>2, <1>5, <2>1, AttachmentsMove, TimelyAside
<1>6. CASE ChecklistsCall(h) \/ ChecklistsContinue(h)
  <2>1. UNCHANGED <<task, clock, since>>
    BY <1>6 DEF ChecklistsCall, AddItem, RemoveItem, CheckItem, Reorder, ChecklistsContinue, ItemAdd, ItemCheck,
       ItemRemove, ReorderItem, ReorderCommit, GivenUp, Call, taskVars
  <2>2. QED
    BY <1>1, <1>2, <1>6, <2>1, ChecklistsMove, TimelyAside
<1>7. CASE CommentsCall(h) \/ CommentsContinue(h)
  <2>1. UNCHANGED <<task, clock, since>>
    BY <1>7 DEF CommentsCall, Comment, EditComment, RemoveComment, CommentsContinue, CommentCreate, CommentUpdate,
       CommentDelete, MentionResolve, MentionCreate, MentionRead, MentionSync, Call, taskVars
  <2>2. QED
    BY <1>1, <1>2, <1>7, <2>1, CommentsMove, TimelyAside
<1>8. CASE NoticesCall(h) \/ NoticesContinue(h)
  <2>1. UNCHANGED <<task, clock, since>>
    BY <1>8 DEF NoticesCall, UpdatePrefs, Subscribe, Unsubscribe, NotifyAssigned, NotifyStatusChanged, Announce,
       NoticesContinue, PrefsStore, DeviceStore, Dispatch, Call, taskVars
  <2>2. QED
    BY <1>1, <1>2, <1>8, <2>1, NoticesMove, TimelyAside
<1>9. CASE ChatroomCall(h) \/ ChatroomContinue(h)
  <2>1. UNCHANGED <<task, clock, since>>
    BY <1>9 DEF ChatroomCall, Leave, MarkRead, AddMember, Mute, SendMessage, AddReaction, RemoveReaction, TogglePin,
       Chat, ChatroomContinue, SeatStore, MessageStore, NotifyParticipants, MarkStore, Call, taskVars
  <2>2. QED
    BY <1>1, <1>2, <1>9, <2>1, ChatroomMove, TimelyAside
<1>10. QED
  BY <1>3, <1>4, <1>5, <1>6, <1>7, <1>8, <1>9 DEF Content

LEMMA TimelyServe ==
  ASSUME Tree, Timely, NEW h \in Handlers, Serve(h)
  PROVE  Timely'
<1>1. Shape /\ "status" \notin MemberSteps \cup AccountSteps
  BY DEF Tree, MemberSteps, AccountSteps
<1>2. CASE Members(h)
  BY <1>1, <1>2, MembersMove, TimelyAside DEF Members, taskVars
<1>3. CASE SignIn(h)
  BY <1>1, <1>3, AccountsMove, TimelyAside DEF SignIn, taskVars
<1>4. QED
  BY <1>2, <1>3, TimelyBoard, TimelyContent DEF Serve

(* The sweeps write no status, and the clock moves when no request has a claim. *)
LEMMA TimelySweeps ==
  ASSUME Tree, Timely, AutoArchive \/ TrashCleanup \/ Tick
  PROVE  Timely'
<1>1. Tables /\ \A g \in Handlers : request'[g] = request[g]
  BY DEF Tree, Forest, AutoArchive, TrashCleanup, Tick
<1>2. CASE AutoArchive
  <2>1. PICK ts \in SUBSET Tasks :
          ts = {t \in Tasks : /\ Exists(t) /\ task[t].status = "done" /\ Overdue(task[t].completed, ArchiveAfter)
                             /\ ~task[t].archived /\ task[t].deleted = Null}
    OBVIOUS
  <2>2. Store([t \in Tasks |-> IF /\ Exists(t) /\ task[t].status = "done" /\ Overdue(task[t].completed, ArchiveAfter)
                                  /\ ~task[t].archived /\ task[t].deleted = Null
                                 THEN [task[t] EXCEPT !.archived = TRUE] ELSE task[t]])
    BY <1>2 DEF AutoArchive
  <2>3. \A t \in Tasks : task'[t] = IF t \in ts THEN [task[t] EXCEPT !.archived = TRUE] ELSE task[t]
    BY <2>1, <2>2 DEF Store
  <2>4. \A t \in ts : task[t] # Null /\ CalmRow([task[t] EXCEPT !.archived = TRUE], task[t])
    BY <1>1, <2>1 DEF Exists, Tables, TaskRows, CalmRow
  <2>5. \A t \in Tasks : task'[t] # Null => Calm(t)
    BY <2>3, <2>4 DEF Calm, CalmRow
  <2>6. Writes
    BY <2>2, <2>5 DEF Writes, Store
  <2>7. QED
    BY <1>1, <2>6, TimelyStays
<1>3. CASE TrashCleanup
  BY <1>1, <1>3, RowsGone, TimelyStays DEF TrashCleanup
<1>4. CASE Tick
  <2>1. \A g \in Handlers : request'[g] = Null
    BY <1>1, <1>4 DEF Tick, Quiet
  <2>2. UNCHANGED <<task, since>> /\ clock \in Nat /\ clock' = clock + 1
    BY <1>1, <1>4, TasksHaveTime DEF Tick, Tables, Moments
  <2>3. \A t \in Tasks : Timed(t)'
    BY <2>2 DEF Timely, Timed
  <2>4. QED
    BY <2>1, <2>3 DEF Timely
<1>5. QED
  BY <1>2, <1>3, <1>4

LEMMA TimelyNext ==
  ASSUME Tree, Timely, [Next]_vars
  PROVE  Timely'
<1>1. CASE UNCHANGED <<request, taskVars>>
  BY <1>1, TimelyStays DEF taskVars
<1>2. CASE Mailing
  BY <1>1, <1>2 DEF Mailing, SendMail
<1>3. CASE Crash
  <2>1. UNCHANGED <<task, clock, since>> /\ \A g \in Handlers : request'[g] = Null \/ request'[g] = request[g]
    BY <1>3 DEF Crash, Die, taskVars
  <2>2. QED
    BY <2>1, TimelyStays
<1>4. CASE Pushing \/ Chatting
  BY <1>1, <1>4 DEF Pushing, Pushes, Forget, Chatting, Background, MuteEnds, AttachLinkPreview
<1>5. CASE Time
  <2>1. CASE \/ \E v \in invitations : Expire(v) /\ UNCHANGED <<accountVars, taskVars, contentVars>>
             \/ \E l \in DOMAIN links : ExpireLink(l) /\ UNCHANGED <<taskVars, contentVars>>
    BY <1>1, <2>1 DEF Expire, ExpireLink
  <2>2. QED
    BY <1>5, <2>1, TimelySweeps DEF Time
<1>6. CASE UNCHANGED vars
  BY <1>1, <1>6 DEF vars
<1>7. QED
  BY <1>2, <1>3, <1>4, <1>5, <1>6, TimelyServe DEF Next

(* However requests on a task that have read different rows overlap, a task that the
   nightly sweep archives has been done, and one it deletes has been in the trash, for
   longer than the setting without a break. *)
THEOREM SweepsAlwaysWait == Spec => SweepsArePatient
<1>1. Init => Timely
  <2> SUFFICES ASSUME Init PROVE Timely
    OBVIOUS
  <2>1. PICK s \in Starts : InitTasks(s.list, s.access, s.task, {i \in Items : s.item[i] # Null})
    BY DEF Init
  <2>2. \A t \in Tasks : since[t] = Unplanned /\ (task[t] # Null => task[t].status = "todo" /\ task[t].deleted = Null)
    BY <2>1, StartsAreTidy DEF InitTasks
  <2>3. \A h \in Handlers : request[h] = Null
    BY DEF Init, InitRequests
  <2>4. QED
    BY <2>2, <2>3 DEF Timely, Timed, Unplanned
<1>2. ASSUME Tree, Timely, AutoArchive, NEW t \in Tasks, task'[t] # task[t]
      PROVE  Overdue(since[t].done, ArchiveAfter)
  <2>1. task[t] # Null /\ task[t].status = "done" /\ task[t].completed # Null /\ task[t].completed + ArchiveAfter < clock
    BY <1>2 DEF AutoArchive, Store, Exists, Overdue
  <2>2. since[t].done # Null /\ since[t].done \in 0..clock /\ since[t].done <= task[t].completed
    BY <1>2, <2>1 DEF Timely, Timed
  <2>3. task[t].completed \in Nat /\ ArchiveAfter \in Nat /\ clock \in Nat
    BY <1>2, <2>1, TasksHaveTime DEF Tree, Forest, Tables, TaskRows, Moments
  <2>4. QED
    BY <2>1, <2>2, <2>3 DEF Overdue
<1>3. ASSUME Tree, Timely, TrashCleanup, NEW t \in Tasks, task[t] # Null, task'[t] = Null
      PROVE  Overdue(since[t].trash, PurgeAfter)
  <2>1. PICK ts \in SUBSET Tasks : ts = {p \in Tasks : Exists(p) /\ Overdue(task[p].deleted, PurgeAfter)}
    OBVIOUS
  <2>2. task' = Without(ts)
    BY <1>3, <2>1 DEF TrashCleanup, Store
  <2>3. [task[t] EXCEPT !.parent = Null] \in TaskRows
    BY <1>3 DEF Tree, Forest, Tables, TaskRows
  <2>4. t \in ts
    BY <1>3, <2>2, <2>3, NullIsNoTask DEF Without
  <2>5. task[t].deleted # Null /\ task[t].deleted + PurgeAfter < clock
    BY <2>1, <2>4 DEF Overdue
  <2>6. since[t].trash # Null /\ since[t].trash \in 0..clock /\ since[t].trash <= task[t].deleted
    BY <1>3, <2>5 DEF Timely, Timed
  <2>7. task[t].deleted \in Nat /\ PurgeAfter \in Nat /\ clock \in Nat
    BY <1>3, <2>5, TasksHaveTime DEF Tree, Forest, Tables, TaskRows, Moments
  <2>8. QED
    BY <2>5, <2>6, <2>7 DEF Overdue
<1>4. Tree /\ Timely /\ [Next]_vars =>
        [ task' # task =>
            /\ AutoArchive => \A t \in Tasks : task'[t] # task[t] => Overdue(since[t].done, ArchiveAfter)
            /\ TrashCleanup => \A t \in Tasks : task[t] # Null /\ task'[t] = Null =>
                                 Overdue(since[t].trash, PurgeAfter) ]_<<request, served, taskVars>>
  BY <1>2, <1>3
<1>5. Tree /\ Timely /\ [Next]_vars => Timely'
  BY TimelyNext
<1>6. QED
  BY <1>1, <1>4, <1>5, TreeIsKept, PTL DEF Spec, SweepsArePatient

----------------------------------------------------------------------------
(* The checklists.  A reordering names items of one task, each once; those it has updated
   and those it has yet to update are all of them. *)
Queue(r) ==
  /\ DOMAIN r = {"at", "by", "on"} /\ DOMAIN r.on = {"task", "ids", "rest", "held"}
  /\ r.on.ids \in Seq(Items) /\ IsInjective(r.on.ids) /\ r.on.rest \in Seq(Items)
  /\ Range(r.on.ids) = r.on.held \cup Range(r.on.rest)
  /\ \A i \in Range(r.on.ids) : i \in used /\ (item[i] # Null => item[i].task = r.on.task)

Lined ==
  /\ DOMAIN item = Items /\ DOMAIN ordered = Tasks
  /\ \A i \in Items : item[i] # Null => i \in used /\ DOMAIN item[i] = {"task", "checked", "place"}
  /\ \A t \in Tasks : \A m \in DOMAIN ordered[t] :
       /\ ordered[t][m] \in Items /\ ordered[t][m] \in used
       /\ item[ordered[t][m]] # Null => item[ordered[t][m]].task = t
  /\ \A h \in Handlers : At(h, "item:order") => Queue(request[h])
  /\ OrdersAreKeptWhole

(* What every statement but the commit of a reordering does: items come under new ids,
   go, or keep their task and place. *)
Tame ==
  /\ used \subseteq used' /\ UNCHANGED ordered /\ DOMAIN item' = Items
  /\ \A i \in Items : item'[i] # Null =>
       /\ i \in used' /\ DOMAIN item'[i] = {"task", "checked", "place"}
       /\ i \in used => item[i] # Null /\ item'[i].task = item[i].task /\ item'[i].place = item[i].place

LEMMA QueueStays ==
  ASSUME Tame, NEW r, Queue(r)
  PROVE  Queue(r)'
<1>1. Range(r.on.ids) \subseteq Items
  BY DEF Queue, Range
<1>2. QED
  BY <1>1 DEF Queue, Tame

LEMMA LinedStays ==
  ASSUME Lined, Tame, \A g \in Handlers : At(g, "item:order")' => Queue(request'[g])
  PROVE  Lined'
<1>1. ASSUME NEW g \in Handlers, At(g, "item:order")' PROVE Queue(request[g])'
  <2>1. PICK r : r = request'[g] /\ Queue(r)
    BY <1>1
  <2>2. QED
    BY <2>1, QueueStays
<1>2. \A t \in Tasks : \A m \in DOMAIN ordered[t] :
        /\ ordered[t][m] \in Items /\ ordered[t][m] \in used
        /\ item'[ordered[t][m]] # Null => /\ item[ordered[t][m]] # Null
                                          /\ item'[ordered[t][m]].task = t
                                          /\ item'[ordered[t][m]].place = item[ordered[t][m]].place
  BY DEF Lined, Tame
<1>3. OrdersAreKeptWhole'
  BY <1>2 DEF Tame, Lined, OrdersAreKeptWhole
<1>4. QED
  BY <1>1, <1>2, <1>3 DEF Lined, Tame

LEMMA TameSteps ==
  ASSUME Lined, used \subseteq used', ChecklistsFollow \/ UNCHANGED checklistVars
  PROVE  Tame
<1>1. UNCHANGED ordered /\ DOMAIN item' = Items /\ \A i \in Items : item'[i] = item[i] \/ item'[i] = Null
  BY DEF ChecklistsFollow, checklistVars, Lined
<1>2. QED
  BY <1>1 DEF Tame, Lined

(* A reordering arrives, with items the task has now. *)
LEMMA LinedCall ==
  ASSUME Lined, Shape, NEW h \in Handlers, ChecklistsCall(h)
  PROVE  Lined'
<1>1. Others(h)
  BY ChecklistsMove DEF Moves
<1>2. ASSUME NEW u, NEW step, NEW args, Call(h, u, step, args), UNCHANGED checklistVars,
             step = "item:order" => Queue([at |-> step, by |-> u, on |-> args])
      PROVE  Lined'
  <2>1. PICK r : r = [at |-> step, by |-> u, on |-> args]
    OBVIOUS
  <2>2. request'[h] = r /\ r.at = step
    BY <1>2, <2>1, Calls
  <2>3. At(h, "item:order")' => Queue(request'[h])
    BY <1>2, <2>1, <2>2 DEF At
  <2>4. \A g \in Handlers : At(g, "item:order")' => Queue(request'[g])
    BY <1>1, <2>3 DEF Lined, Others, At
  <2>5. Tame
    BY <1>2, TameSteps DEF Call, taskVars
  <2>6. QED
    BY <2>4, <2>5, LinedStays
<1>3. ASSUME NEW u \in Users, NEW t \in Tasks, AddItem(h, u, t) PROVE Lined'
  BY <1>2, <1>3 DEF AddItem
<1>4. ASSUME NEW u \in Users, NEW i \in Items, RemoveItem(h, u, i) \/ \E on \in BOOLEAN : CheckItem(h, u, i, on) PROVE Lined'
  BY <1>2, <1>4 DEF RemoveItem, CheckItem
<1>5. ASSUME NEW u \in Users, NEW t \in Tasks, NEW some \in SUBSET ItemsOf(t),
             NEW ids \in Maps!Bijection(1..Cardinality(some), some), Reorder(h, u, t, ids)
      PROVE  Lined'
  <2>1. some \subseteq Items /\ Cardinality(some) \in Nat
    <3>1. some \subseteq Items
      BY DEF ItemsOf
    <3>2. QED
      BY <3>1, ItemsAreFinite, FS_Subset, FS_CardinalityType
  <2>2. ids \in [1..Cardinality(some) -> some] /\ IsInjective(ids)
    BY DEF Maps!Bijection, Maps!Injection, Maps!IsInjective, IsInjective
  <2>3. ids \in Seq(Items) /\ Range(ids) \subseteq some
    BY <2>1, <2>2 DEF Range
  <2>4. \A i \in Range(ids) : i \in used /\ item[i].task = t
    BY <2>1, <2>3 DEF ItemsOf, Lined
  <2>5. PICK on : on = [task |-> t, ids |-> ids, rest |-> ids, held |-> {}]
    OBVIOUS
  <2>6. DOMAIN on = {"task", "ids", "rest", "held"} /\ on.task = t /\ on.ids = ids /\ on.rest = ids /\ on.held = {}
    BY <2>5
  <2>7. PICK r : r = [at |-> "item:order", by |-> u, on |-> on]
    OBVIOUS
  <2>8. DOMAIN r = {"at", "by", "on"} /\ r.on = on
    BY <2>7
  <2>9. Queue(r)
    BY <2>2, <2>3, <2>4, <2>6, <2>8 DEF Queue
  <2>10. QED
    BY <1>2, <1>5, <2>5, <2>7, <2>9 DEF Reorder
<1>6. QED
  BY <1>3, <1>4, <1>5 DEF ChecklistsCall

(* The items of the request are at the places it gave them. *)
LEMMA PlacesOf ==
  ASSUME NEW ids \in Seq(Items), IsInjective(ids), NEW m \in DOMAIN ids
  PROVE  Place(ids, ids[m]) = m - 1 /\ m \in Int
<1>1. ids[m] \in Range(ids) /\ m \in Int
  BY DEF Range
<1>2. Maps!Range(ids) = Range(ids)
  BY DEF Maps!Range, Range
<1>3. Maps!AntiFunction(ids)[ids[m]] = CHOOSE s \in DOMAIN ids : ids[m] \in Maps!Range(ids) => ids[s] = ids[m]
  BY <1>1, <1>2 DEF Maps!AntiFunction, Maps!Inverse
<1>4. \E s \in DOMAIN ids : ids[m] \in Maps!Range(ids) => ids[s] = ids[m]
  OBVIOUS
<1>5. PICK n : /\ n = CHOOSE s \in DOMAIN ids : ids[m] \in Maps!Range(ids) => ids[s] = ids[m]
               /\ n \in DOMAIN ids /\ ids[n] = ids[m]
  BY <1>1, <1>2, <1>4
<1>6. n = m
  BY <1>5 DEF IsInjective
<1>7. QED
  BY <1>1, <1>3, <1>5, <1>6 DEF Place

(* A reordering commits: the items of its task stand as it asked, those of other tasks
   are not its to place. *)
LEMMA LinedCommit ==
  ASSUME Lined, Shape, NEW h \in Handlers, ReorderCommit(h)
  PROVE  Lined'
<1>1. PICK r : r = request[h] /\ Queue(r) /\ r.on.rest = << >>
  BY DEF ReorderCommit, Lined, On
<1>2. /\ On(h) = r.on /\ r.on.ids \in Seq(Items) /\ IsInjective(r.on.ids) /\ r.on.held = Range(r.on.ids)
      /\ \A i \in r.on.held : i \in used /\ (item[i] # Null => item[i].task = r.on.task)
  <2>1. Range(r.on.rest) = {}
    BY <1>1 DEF Range
  <2>2. QED
    BY <1>1, <2>1 DEF Queue, On
<1>3. Others(h) /\ request'[h] = Null /\ UNCHANGED used
  BY Answers DEF ReorderCommit, Moves, taskVars
<1>4. \A i \in Items : item'[i] = IF i \in r.on.held /\ item[i] # Null
                                    THEN [item[i] EXCEPT !.place = Place(r.on.ids, i)] ELSE item[i]
  BY <1>2 DEF ReorderCommit
<1>5. /\ DOMAIN ordered' = Tasks
      /\ \A t \in Tasks : ordered'[t] = IF t = r.on.task THEN r.on.ids ELSE ordered[t]
  BY <1>2 DEF ReorderCommit, Lined
<1>6. ASSUME NEW i \in Items, item'[i] # Null
      PROVE  /\ item[i] # Null /\ i \in used /\ DOMAIN item'[i] = {"task", "checked", "place"}
             /\ item'[i].task = item[i].task
             /\ i \in r.on.held => item'[i].place = Place(r.on.ids, i)
             /\ i \notin r.on.held => item'[i].place = item[i].place
  <2>1. item[i] # Null /\ i \in used /\ DOMAIN item[i] = {"task", "checked", "place"}
    BY <1>4, <1>6 DEF Lined
  <2>2. CASE i \in r.on.held
    <3>1. PICK p : p = Place(r.on.ids, i)
      OBVIOUS
    <3>2. item'[i] = [item[i] EXCEPT !.place = p]
      BY <1>4, <2>1, <2>2, <3>1
    <3>3. QED
      BY <2>1, <2>2, <3>1, <3>2
  <2>3. CASE i \notin r.on.held
    BY <1>4, <2>1, <2>3
  <2>4. QED
    BY <2>2, <2>3
<1>7. ASSUME NEW g \in Handlers, At(g, "item:order")' PROVE Queue(request[g])'
  <2>1. PICK q : q = request'[g] /\ Queue(q)
    BY <1>3, <1>7 DEF Others, At, Lined
  <2>2. Range(q.on.ids) \subseteq Items
    BY <2>1 DEF Queue, Range
  <2>3. QED
    BY <1>3, <1>6, <2>1, <2>2 DEF Queue
<1>8. ASSUME NEW t \in Tasks, NEW m \in DOMAIN ordered'[t]
      PROVE  /\ ordered'[t][m] \in Items /\ ordered'[t][m] \in used
             /\ item'[ordered'[t][m]] # Null => item'[ordered'[t][m]].task = t
  <2>1. CASE t = r.on.task
    <3>1. ordered'[t][m] \in r.on.held /\ ordered'[t][m] \in Items
      BY <1>2, <1>5, <1>8, <2>1 DEF Range
    <3>2. QED
      BY <1>2, <1>6, <2>1, <3>1
  <2>2. CASE t # r.on.task
    BY <1>5, <1>6, <1>8, <2>2 DEF Lined
  <2>3. QED
    BY <2>1, <2>2
<1>9. ASSUME NEW t \in Tasks, NEW m \in DOMAIN ordered'[t], NEW n \in DOMAIN ordered'[t], m < n,
             item'[ordered'[t][m]] # Null, item'[ordered'[t][n]] # Null
      PROVE  item'[ordered'[t][m]].place < item'[ordered'[t][n]].place
  <2>1. PICK i, j : i = ordered'[t][m] /\ j = ordered'[t][n]
    OBVIOUS
  <2>2. i \in Items /\ j \in Items /\ item'[i] # Null /\ item'[j] # Null
    BY <1>8, <1>9, <2>1
  <2>3. CASE t = r.on.task
    <3>1. ordered'[t] = r.on.ids
      BY <1>5, <2>3
    <3>2. m \in DOMAIN r.on.ids /\ n \in DOMAIN r.on.ids /\ i = r.on.ids[m] /\ j = r.on.ids[n]
      BY <1>9, <2>1, <3>1
    <3>3. i \in r.on.held /\ j \in r.on.held
      BY <1>2, <3>2 DEF Range
    <3>4. item'[i].place = Place(r.on.ids, i) /\ item'[j].place = Place(r.on.ids, j)
      BY <1>6, <2>2, <3>3
    <3>5. Place(r.on.ids, i) = m - 1 /\ Place(r.on.ids, j) = n - 1 /\ m \in Int /\ n \in Int
      BY <1>2, <3>2, PlacesOf
    <3>6. QED
      BY <1>9, <2>1, <3>4, <3>5
  <2>4. CASE t # r.on.task
    <3>1. ordered'[t] = ordered[t] /\ item'[i].task = t /\ item'[j].task = t
      BY <1>5, <1>8, <1>9, <2>1, <2>4
    <3>2. i \notin r.on.held /\ j \notin r.on.held
      BY <1>2, <1>6, <2>2, <2>4, <3>1
    <3>3. item'[i].place = item[i].place /\ item'[j].place = item[j].place /\ item[i] # Null /\ item[j] # Null
      BY <1>6, <2>2, <3>2
    <3>4. m \in DOMAIN ordered[t] /\ n \in DOMAIN ordered[t] /\ i = ordered[t][m] /\ j = ordered[t][n]
      BY <1>9, <2>1, <3>1
    <3>5. item[i].place < item[j].place
      BY <1>9, <3>3, <3>4 DEF Lined, OrdersAreKeptWhole
    <3>6. QED
      BY <2>1, <3>3, <3>5
  <2>5. QED
    BY <2>3, <2>4
<1>10. DOMAIN item' = Items
  BY DEF ReorderCommit
<1>11. OrdersAreKeptWhole'
  BY <1>9 DEF OrdersAreKeptWhole
<1>12. \A i \in Items : item'[i] # Null => i \in used' /\ DOMAIN item'[i] = {"task", "checked", "place"}
  BY <1>3, <1>6
<1>13. \A t \in Tasks : \A m \in DOMAIN ordered'[t] :
         /\ ordered'[t][m] \in Items /\ ordered'[t][m] \in used'
         /\ item'[ordered'[t][m]] # Null => item'[ordered'[t][m]].task = t
  BY <1>3, <1>8
<1>14. QED
  BY <1>5, <1>7, <1>10, <1>11, <1>12, <1>13 DEF Lined

LEMMA LinedContinue ==
  ASSUME Lined, Shape, NEW h \in Handlers, ChecklistsContinue(h), used \subseteq used'
  PROVE  Lined'
<1>1. CASE ReorderCommit(h)
  BY <1>1, LinedCommit
<1>2. CASE ReorderItem(h)
  <2>1. PICK q : q = request[h] /\ Queue(q) /\ q.on.rest # << >> /\ On(h) = q.on
    BY <1>2 DEF ReorderItem, Lined, On
  <2>2. PICK r : r = [q EXCEPT !.on.rest = Tail(@), !.on.held = q.on.held \cup {Head(q.on.rest)}]
    OBVIOUS
  <2>3. Others(h) /\ request'[h] = r
    BY <1>2, <2>1, <2>2, Awaits DEF ReorderItem, Updated, Upcoming
  <2>4. /\ DOMAIN r = {"at", "by", "on"} /\ DOMAIN r.on = {"task", "ids", "rest", "held"}
        /\ r.on.task = q.on.task /\ r.on.ids = q.on.ids /\ r.on.rest = Tail(q.on.rest)
        /\ r.on.held = q.on.held \cup {Head(q.on.rest)}
    BY <2>1, <2>2 DEF Queue
  <2>5. Range(q.on.rest) = {Head(q.on.rest)} \cup Range(Tail(q.on.rest)) /\ Tail(q.on.rest) \in Seq(Items)
    <3>1. PICK s \in Seq(Items) : s = q.on.rest
      BY <2>1 DEF Queue
    <3>2. Len(s) \in Nat /\ Len(s) > 0 /\ DOMAIN s = 1..Len(s)
      BY <2>1, <3>1
    <3>3. /\ Tail(s) \in Seq(Items) /\ DOMAIN Tail(s) = 1..(Len(s) - 1)
          /\ \A k \in 1..(Len(s) - 1) : Tail(s)[k] = s[k + 1]
      BY <3>2
    <3>4. Head(s) = s[1]
      BY <3>2
    <3>5. ASSUME NEW k \in 1..Len(s) PROVE s[k] \in {Head(s)} \cup Range(Tail(s))
      <4>1. CASE k = 1
        BY <3>4, <4>1
      <4>2. CASE k # 1
        <5>1. k - 1 \in DOMAIN Tail(s) /\ Tail(s)[k - 1] = s[k]
          BY <3>2, <3>3, <4>2
        <5>2. QED
          BY <5>1 DEF Range
      <4>3. QED
        BY <4>1, <4>2
    <3>6. ASSUME NEW k \in 1..(Len(s) - 1) PROVE Tail(s)[k] \in Range(s)
      <4>1. k + 1 \in DOMAIN s /\ Tail(s)[k] = s[k + 1]
        BY <3>2, <3>3
      <4>2. QED
        BY <4>1 DEF Range
    <3>7. s[1] \in Range(s)
      BY <3>2 DEF Range
    <3>8. Range(s) = {Head(s)} \cup Range(Tail(s))
      <4>1. \A x \in Range(s) : x \in {Head(s)} \cup Range(Tail(s))
        BY <3>2, <3>5 DEF Range
      <4>2. \A x \in Range(Tail(s)) : x \in Range(s)
        BY <3>3, <3>6 DEF Range
      <4>3. QED
        BY <3>4, <3>7, <4>1, <4>2
    <3>9. QED
      BY <3>1, <3>3, <3>8
  <2>6. Queue(r)
    BY <2>1, <2>4, <2>5 DEF Queue
  <2>7. \A g \in Handlers : At(g, "item:order")' => Queue(request'[g])
    BY <2>3, <2>6 DEF Others, At, Lined
  <2>8. UNCHANGED checklistVars
    BY <1>2 DEF ReorderItem
  <2>9. QED
    BY <2>7, <2>8, TameSteps, LinedStays
<1>3. CASE ItemAdd(h) \/ ItemCheck(h) \/ ItemRemove(h) \/ GivenUp(h)
  <2>1. Others(h) /\ request'[h] = Null
    BY <1>3, Answers DEF ItemAdd, ItemCheck, ItemRemove, GivenUp, Moves
  <2>2. \A g \in Handlers : At(g, "item:order")' => Queue(request'[g])
    BY <2>1 DEF Others, At, Lined
  <2>3. CASE ItemAdd(h) /\ Exists(On(h).task)
    <3>1. PICK i \in Items \ used :
            /\ item' = [item EXCEPT ![i] = [task |-> On(h).task, checked |-> FALSE, place |-> On(h).place]]
            /\ used' = used \cup {i}
      BY <2>3 DEF ItemAdd
    <3>2. \A j \in Items \ {i} : item'[j] = item[j]
      BY <3>1 DEF Lined
    <3>3. item'[i] = [task |-> On(h).task, checked |-> FALSE, place |-> On(h).place] /\ DOMAIN item' = Items
      BY <3>1 DEF Lined
    <3>4. Tame
      BY <2>3, <3>1, <3>2, <3>3 DEF Tame, Lined, ItemAdd
    <3>5. QED
      BY <2>2, <3>4, LinedStays
  <2>4. CASE ItemCheck(h) /\ item[On(h).item] # Null
    <3>1. PICK i : i = On(h).item
      OBVIOUS
    <3>2. item' = [item EXCEPT ![i].checked = On(h).to] /\ UNCHANGED ordered
      BY <2>4, <3>1 DEF ItemCheck
    <3>3. \A j \in Items \ {i} : item'[j] = item[j]
      BY <3>2 DEF Lined
    <3>4. PICK to : to = On(h).to
      OBVIOUS
    <3>5. i \in Items => item'[i] = [item[i] EXCEPT !.checked = to] /\ item[i] # Null
      BY <2>4, <3>1, <3>2, <3>4 DEF Lined
    <3>6. i \in Items => DOMAIN item'[i] = {"task", "checked", "place"} /\ i \in used
                         /\ item'[i].task = item[i].task /\ item'[i].place = item[i].place
      BY <3>5 DEF Lined
    <3>7. DOMAIN item' = Items
      BY <3>2 DEF Lined
    <3>8. Tame
      BY <3>2, <3>3, <3>5, <3>6, <3>7 DEF Tame, Lined
    <3>9. QED
      BY <2>2, <3>8, LinedStays
  <2>5. CASE ItemRemove(h)
    <3>1. /\ UNCHANGED ordered /\ DOMAIN item' = Items
          /\ \A i \in Items : item'[i] = item[i] \/ item'[i] = Null
      BY <2>5 DEF ItemRemove, Lined
    <3>2. Tame
      BY <3>1 DEF Tame, Lined
    <3>3. QED
      BY <2>2, <3>2, LinedStays
  <2>6. CASE UNCHANGED checklistVars
    BY <2>2, <2>6, TameSteps, LinedStays
  <2>7. QED
    BY <1>3, <2>3, <2>4, <2>5, <2>6 DEF ItemAdd, ItemCheck, GivenUp, checklistVars
<1>4. QED
  BY <1>1, <1>2, <1>3 DEF ChecklistsContinue

(* The other parts reorder nothing, and an item goes only with its task. *)
LEMMA OrdersAside ==
  ASSUME Shape, NEW h \in Handlers, Serve(h)
  PROVE  \/ Others(h) /\ ~At(h, "item:order")' /\ (UNCHANGED checklistVars \/ ChecklistsFollow)
         \/ ChecklistsCall(h) \/ ChecklistsContinue(h)
<1>1. ASSUME NEW steps \in {MemberSteps, AccountSteps, TaskSteps, TemplateSteps, FileSteps, CommentSteps, MailSteps,
                            NoticeSteps, ChatSteps}, Moves(h, steps)
      PROVE  Others(h) /\ ~At(h, "item:order")'
  BY <1>1 DEF Moves, At, MemberSteps, AccountSteps, TaskSteps, TemplateSteps, FileSteps, CommentSteps, MailSteps,
     NoticeSteps, ChatSteps
<1>2. CASE Members(h)
  BY <1>1, <1>2, MembersMove DEF Members
<1>3. CASE SignIn(h)
  BY <1>1, <1>3, AccountsMove DEF SignIn, contentVars
<1>4. CASE Board(h)
  BY <1>1, <1>4, TasksMove DEF Board, Cascade
<1>5. CASE (TemplatesCall(h) \/ TemplatesContinue(h)) /\ UNCHANGED checklistVars
  BY <1>1, <1>5, TemplatesMove
<1>6. CASE (AttachmentsCall(h) \/ AttachmentsContinue(h)) /\ UNCHANGED checklistVars
  BY <1>1, <1>6, AttachmentsMove
<1>7. CASE ((\E m \in Mails : Ingest(h, m)) \/ MailTask(h) \/ MailMetadata(h)) /\ UNCHANGED checklistVars
  BY <1>1, <1>7, MailsMove
<1>8. CASE (CommentsCall(h) \/ CommentsContinue(h)) /\ UNCHANGED checklistVars
  BY <1>1, <1>8, CommentsMove
<1>9. CASE (NoticesCall(h) \/ NoticesContinue(h)) /\ UNCHANGED checklistVars
  BY <1>1, <1>9, NoticesMove
<1>10. CASE (ChatroomCall(h) \/ ChatroomContinue(h)) /\ UNCHANGED checklistVars
  BY <1>1, <1>10, ChatroomMove
<1>11. CASE Content(h)
  BY <1>5, <1>6, <1>7, <1>8, <1>9, <1>10, <1>11 DEF Content
<1>12. QED
  BY <1>2, <1>3, <1>4, <1>11 DEF Serve

LEMMA LinedNext ==
  ASSUME Tree, Lined, [Next]_vars
  PROVE  Lined'
<1>1. Shape /\ used \subseteq used'
  BY TreeNext DEF Tree, Ages
<1>2. CASE /\ \A g \in Handlers : request'[g] = request[g] \/ ~At(g, "item:order")'
           /\ UNCHANGED checklistVars \/ ChecklistsFollow
  <2>1. \A g \in Handlers : At(g, "item:order")' => Queue(request'[g])
    BY <1>2 DEF At, Lined
  <2>2. QED
    BY <1>1, <1>2, <2>1, TameSteps, LinedStays
<1>3. CASE Mailing \/ Pushing \/ Chatting
  BY <1>2, <1>3 DEF Mailing, SendMail, Pushing, Pushes, Forget, Chatting, Background, MuteEnds, AttachLinkPreview
<1>4. CASE Crash
  <2>1. \A g \in Handlers : ~At(g, "item:order")'
    BY <1>4 DEF Crash, Die, Quiet, At
  <2>2. QED
    BY <1>2, <1>4, <2>1 DEF Crash
<1>5. CASE Time
  BY <1>2, <1>5 DEF Time, Expire, ExpireLink, AutoArchive, TrashCleanup, Tick, Cascade, contentVars
<1>6. ASSUME NEW h \in Handlers, Serve(h) PROVE Lined'
  <2>1. CASE Others(h) /\ ~At(h, "item:order")' /\ (UNCHANGED checklistVars \/ ChecklistsFollow)
    BY <1>2, <2>1 DEF Others
  <2>2. QED
    BY <1>1, <1>6, <2>1, OrdersAside, LinedCall, LinedContinue
<1>7. CASE UNCHANGED vars
  BY <1>2, <1>7 DEF vars, contentVars
<1>8. QED
  BY <1>3, <1>4, <1>5, <1>6, <1>7 DEF Next

LEMMA ListsAreLined == Spec => []Lined
<1>1. Init => Lined
  <2> SUFFICES ASSUME Init PROVE Lined
    OBVIOUS
  <2>1. PICK s \in Starts : InitTasks(s.list, s.access, s.task, {i \in Items : s.item[i] # Null}) /\ InitChecklists(s.item)
    BY DEF Init
  <2>2. s.item \in [Items -> ItemRows \cup {Null}]
    BY StartsAreTidy
  <2>3. item \in [Items -> ItemRows \cup {Null}] /\ ordered = [t \in Tasks |-> << >>]
    BY <2>1, <2>2 DEF InitChecklists
  <2>4. \A i \in Items : item[i] # Null => i \in used
    BY <2>1 DEF InitChecklists, InitTasks
  <2>5. \A h \in Handlers : ~At(h, "item:order")
    BY DEF Init, InitRequests, At
  <2>6. \A t \in Tasks : DOMAIN ordered[t] = {}
    BY <2>3
  <2>7. OrdersAreKeptWhole
    BY <2>6 DEF OrdersAreKeptWhole
  <2>8. QED
    BY <2>3, <2>4, <2>5, <2>6, <2>7 DEF Lined, ItemRows
<1>2. Tree /\ Lined /\ [Next]_vars => Lined'
  BY LinedNext
<1>3. QED
  BY <1>1, <1>2, TreeIsKept, PTL DEF Spec

(* Whatever reorderings, additions, ticks and removals run at once, and whichever of them
   the database gives up or the process dies in, a checklist stands as the last
   reordering that committed asked. *)
THEOREM OrdersStandWhole == Spec => []OrdersAreKeptWhole
<1>1. Lined => OrdersAreKeptWhole
  BY DEF Lined
<1>2. QED
  BY <1>1, ListsAreLined, PTL

----------------------------------------------------------------------------
(* The types of the tables.  What a request knows of rows that were there when it arrived,
   where ls are the reset links and ms the messages there are. *)
Apt(r, ls, ms) ==
  /\ r.at \in {"signup", "google", "forgot", "forgot:commit"} => r.user \in Users
  /\ r.at = "reset" => r.link \in ls
  /\ r.at = "list:add" => r.on.list \in Lists /\ r.on.user \in Users
  /\ r.at = "template:create" => r.on \in TemplateRows
  /\ r.at = "template:update" =>
       r.on.seen \in TemplateRows /\ r.on.data \in Data \cup {Null} /\ r.on.shared \in BOOLEAN \cup {Null}
  /\ r.at \in FileSteps => DOMAIN r = {"at", "by", "on"} /\ r.by \in Users
  /\ r.at \in {"file:put", "file:row"} => r.on.task \in Tasks
  /\ r.at \in {"file:row", "file:delete", "file:unlink"} => r.on.file \in Files
  /\ r.at = "item:add" => r.on.task \in Tasks /\ r.on.place \in Nat
  /\ r.at = "item:check" => r.on.to \in BOOLEAN
  /\ r.at = "mail:metadata" => r.on.task \in Tasks
  /\ r.at = "chat:react" => r.by \in Users
  /\ r.at \in {"chat:react", "chat:pin"} => r.on.message \in ms

AllApt == \A h \in Handlers : request[h] # Null => Apt(request[h], DOMAIN links, said)

AccountTables == account \subseteq Users /\ google \subseteq account /\ links \in Seq(LinkRows)
ListTables == access \subseteq Lists \X Users /\ used \subseteq Lists \cup Tasks \cup Files \cup Items \cup Comments
TemplateTable == template \in [Templates -> TemplateRows \cup {Null}]
FileTables == object \subseteq Files /\ attachment \in [Files -> [task : Tasks, by : Users] \cup {Null}]
ItemTable == item \in [Items -> ItemRows \cup {Null}]
MailTables == mail = [m \in Mails |-> mail[m]] /\ metadata \subseteq Tasks
TalkTables == reaction \subseteq said \X Users /\ pinned \cup preview \cup fetching \subseteq said

Filled ==
  AccountTables /\ ListTables /\ TemplateTable /\ FileTables /\ ItemTable /\ MailTables /\ TalkTables

Apart == AllApt /\ Filled

(* Links and messages are only added. *)
LEMMA AptStays ==
  ASSUME NEW ls, NEW ms, NEW ls1, NEW ms1, ls \subseteq ls1, ms \subseteq ms1, NEW r, Apt(r, ls, ms)
  PROVE  Apt(r, ls1, ms1)
BY DEF Apt

(* A request at another step knows nothing of the kind. *)
PlainSteps ==
  MemberSteps \cup CommentSteps \cup NoticeSteps
  \cup {"list:create", "list:delete", "list:remove", "create", "status", "move", "move:subtasks", "assign", "remove",
        "restore", "archive", "unarchive", "lock", "purge", "template:remove", "template:list", "template:task",
        "item:remove", "item:order", "mail:task", "chat:leave", "chat:add", "chat:mute", "chat:mark", "chat:send",
        "chat:notify", "chat:unreact"}

LEMMA PlainIsApt ==
  ASSUME NEW r, r.at \in PlainSteps, NEW ls, NEW ms
  PROVE  Apt(r, ls, ms)
BY DEF Apt, PlainSteps, MemberSteps, CommentSteps, NoticeSteps, FileSteps

(* What a step of one request has to show. *)
LEMMA AptByOne ==
  ASSUME AllApt, NEW h \in Handlers, Others(h), DOMAIN links \subseteq DOMAIN links', said \subseteq said',
         request'[h] # Null => Apt(request'[h], DOMAIN links', said')
  PROVE  AllApt'
<1>1. ASSUME NEW g \in Handlers \ {h}, request'[g] # Null PROVE Apt(request'[g], DOMAIN links', said')
  <2>1. Apt(request[g], DOMAIN links, said) /\ request'[g] = request[g]
    BY <1>1 DEF AllApt, Others
  <2>2. QED
    BY <2>1, AptStays
<1>2. QED
  BY <1>1 DEF AllApt

(* A request of this step, in a state of this kind. *)
LEMMA AptAt ==
  ASSUME AllApt, NEW h \in Handlers, NEW step, At(h, step)
  PROVE  Apt(request[h], DOMAIN links, said) /\ request[h].at = step
BY DEF At, AllApt

(* The tables a step leaves alone. *)
LEMMA TablesStay ==
  ASSUME Filled
  PROVE  /\ UNCHANGED <<account, google, links>> => AccountTables'
         /\ UNCHANGED <<access, used>> => ListTables'
         /\ UNCHANGED template => TemplateTable'
         /\ UNCHANGED <<object, attachment>> => FileTables'
         /\ UNCHANGED item => ItemTable'
         /\ UNCHANGED <<mail, metadata>> => MailTables'
         /\ UNCHANGED <<said, reaction, pinned, preview, fetching>> => TalkTables'
BY DEF Filled, AccountTables, ListTables, TemplateTable, FileTables, ItemTable, MailTables, TalkTables

(* What goes with its task. *)
LEMMA TablesFollow ==
  ASSUME Filled, Cascade
  PROVE  TemplateTable' /\ FileTables' /\ ItemTable' /\ MailTables' /\ TalkTables'
<1>1. TemplateTable' /\ TalkTables'
  BY TablesStay DEF Cascade, templateVars, chatVars, talkVars
<1>2. FileTables'
  BY DEF Filled, FileTables, Cascade, AttachmentsFollow
<1>3. ItemTable'
  BY DEF Filled, ItemTable, Cascade, ChecklistsFollow
<1>4. MailTables'
  BY DEF Filled, MailTables, Cascade, MetadataFollows
<1>5. QED
  BY <1>1, <1>2, <1>3, <1>4

----------------------------------------------------------------------------
(* Accounts and reset links. *)
LEMMA AccountCalls ==
  ASSUME Apart, Shape, NEW h \in Handlers, AccountsCall(h)
  PROVE  Others(h) /\ UNCHANGED <<memberVars, accountVars>> /\ Apt(request'[h], DOMAIN links, said)
<1> DEFINE Known(r) == Others(h) /\ request'[h] = r /\ UNCHANGED <<memberVars, accountVars>> /\ Apt(r, DOMAIN links, said)
<1>1. ASSUME NEW r, Take(h, r), Apt(r, DOMAIN links, said), UNCHANGED <<memberVars, accountVars>>
      PROVE  Known(r)
  BY <1>1, Takes
<1>2. ASSUME NEW u \in Users, NEW step \in {"signup", "google", "forgot"}, NEW r, r = [at |-> step, user |-> u]
      PROVE  Apt(r, DOMAIN links, said)
  BY <1>2 DEF Apt, FileSteps
<1>3. ASSUME NEW l \in DOMAIN links, NEW r, r = [at |-> "reset", link |-> l]
      PROVE  Apt(r, DOMAIN links, said)
  BY <1>3 DEF Apt, FileSteps
<1> HIDE DEF Known
<1>4. ASSUME NEW u \in Users, Signup(h, u) PROVE \E r : Known(r)
  <2>1. PICK r : r = [at |-> "signup", user |-> u]
    OBVIOUS
  <2>2. QED
    BY <1>1, <1>2, <1>4, <2>1 DEF Signup
<1>5. ASSUME NEW u \in Users, LoginWithGoogle(h, u) PROVE \E r : Known(r)
  <2>1. PICK r : r = [at |-> "google", user |-> u]
    OBVIOUS
  <2>2. QED
    BY <1>1, <1>2, <1>5, <2>1 DEF LoginWithGoogle
<1>6. ASSUME NEW u \in Users, ForgotPassword(h, u) PROVE \E r : Known(r)
  <2>1. PICK r : r = [at |-> "forgot", user |-> u]
    OBVIOUS
  <2>2. QED
    BY <1>1, <1>2, <1>6, <2>1 DEF ForgotPassword
<1>7. ASSUME NEW l \in DOMAIN links, ResetPassword(h, l) PROVE \E r : Known(r)
  <2>1. PICK r : r = [at |-> "reset", link |-> l]
    OBVIOUS
  <2>2. QED
    BY <1>1, <1>3, <1>7, <2>1 DEF ResetPassword
<1>8. PICK r : Known(r)
  BY <1>4, <1>5, <1>6, <1>7 DEF AccountsCall
<1>9. UNCHANGED <<memberVars, accountVars>> /\ Others(h) /\ request'[h] = r /\ Apt(r, DOMAIN links, said)
  BY <1>8 DEF Known
<1>10. QED
  BY <1>9

LEMMA AccountContinues ==
  ASSUME Apart, Shape, NEW h \in Handlers, AccountsContinue(h)
  PROVE  AccountTables' /\ DOMAIN links \subseteq DOMAIN links' /\ Others(h)
         /\ (request'[h] # Null => Apt(request'[h], DOMAIN links, said))
<1>1. /\ account \subseteq Users /\ google \subseteq account /\ links \in Seq(LinkRows)
  BY DEF Apart, Filled, AccountTables
<1>2. CASE AccountCreate(h)
  <2>1. request[h].user \in Users
    BY <1>2, AptAt DEF AccountCreate, Apart, Apt
  <2>2. Others(h) /\ request'[h] = Null
    BY <1>2, Answers DEF AccountCreate, Moves
  <2>3. QED
    BY <1>1, <1>2, <2>1, <2>2 DEF AccountCreate, AccountTables
<1>3. CASE ForgotBurn(h)
  <2>1. request[h].user \in Users
    BY <1>3, AptAt DEF ForgotBurn, Apart, Apt
  <2>2. PICK r : r = [at |-> "forgot:commit", user |-> request[h].user, burns |-> Unused(request[h].user)]
    OBVIOUS
  <2>3. Others(h) /\ request'[h] = r
    BY <1>3, <2>2, Awaits DEF ForgotBurn
  <2>4. Apt(r, DOMAIN links, said)
    BY <2>1, <2>2 DEF Apt, FileSteps
  <2>5. UNCHANGED <<account, google, links>>
    BY <1>3 DEF ForgotBurn, memberVars, accountVars
  <2>6. QED
    BY <1>1, <2>3, <2>4, <2>5 DEF AccountTables
<1>4. CASE ForgotCommit(h)
  <2>1. Others(h) /\ request'[h] = Null
    BY <1>4, Answers DEF ForgotCommit, Moves
  <2>2. request[h].user \in Users
    BY <1>4, AptAt DEF ForgotCommit, Apart, Apt
  <2>3. PICK rest : rest = [l \in DOMAIN links |-> [links[l] EXCEPT !.used = @ \/ l \in request[h].burns]]
    OBVIOUS
  <2>4. ASSUME NEW l \in DOMAIN links PROVE rest[l] \in LinkRows
    <3>1. PICK row \in LinkRows : row = links[l]
      BY <1>1
    <3>2. PICK b \in BOOLEAN : b = (row.used \/ l \in request[h].burns)
      OBVIOUS
    <3>3. rest[l] = [row EXCEPT !.used = b]
      BY <2>3, <3>1, <3>2
    <3>4. QED
      BY <3>3 DEF LinkRows
  <2>5. rest \in Seq(LinkRows) /\ DOMAIN rest = DOMAIN links
    BY <1>1, <2>3, <2>4
  <2>6. PICK row : row = [user |-> request[h].user, used |-> FALSE, expired |-> FALSE, resets |-> 0]
    OBVIOUS
  <2>7. row \in LinkRows
    BY <2>2, <2>6 DEF LinkRows
  <2>8. links' = Append(rest, row)
    BY <1>4, <2>3, <2>6 DEF ForgotCommit
  <2>9. links' \in Seq(LinkRows) /\ DOMAIN links \subseteq DOMAIN links'
    BY <2>5, <2>7, <2>8
  <2>10. UNCHANGED <<google, account>>
    BY <1>4 DEF ForgotCommit, memberVars
  <2>11. QED
    BY <1>1, <2>1, <2>9, <2>10 DEF AccountTables
<1>5. CASE ResetCommit(h)
  <2>1. Others(h) /\ request'[h] = Null
    BY <1>5, Answers DEF ResetCommit, Moves
  <2>2. PICK l : l = request[h].link /\ l \in DOMAIN links
    BY <1>5, AptAt DEF ResetCommit, Apart, Apt
  <2>3. PICK row \in LinkRows : row = [links[l] EXCEPT !.used = TRUE, !.resets = @ + 1]
    <3>1. PICK old \in LinkRows : old = links[l]
      BY <1>1, <2>2
    <3>2. PICK n \in Nat : n = old.resets + 1
      BY DEF LinkRows
    <3>3. [old EXCEPT !.used = TRUE, !.resets = n] \in LinkRows
      BY DEF LinkRows
    <3>4. QED
      BY <3>1, <3>2, <3>3
  <2>4. links' = [links EXCEPT ![l] = row]
    BY <1>5, <2>2, <2>3 DEF ResetCommit
  <2>5. links' \in Seq(LinkRows) /\ DOMAIN links' = DOMAIN links
    BY <1>1, <2>2, <2>4
  <2>6. UNCHANGED <<google, account>>
    BY <1>5 DEF ResetCommit, memberVars
  <2>7. QED
    BY <1>1, <2>1, <2>5, <2>6 DEF AccountTables
<1>6. QED
  BY <1>2, <1>3, <1>4, <1>5 DEF AccountsContinue

LEMMA LinkExpires ==
  ASSUME Filled, NEW l \in DOMAIN links, ExpireLink(l)
  PROVE  AccountTables' /\ DOMAIN links' = DOMAIN links
<1>1. account \subseteq Users /\ google \subseteq account /\ links \in Seq(LinkRows)
  BY DEF Filled, AccountTables
<1>2. PICK row \in LinkRows : row = [links[l] EXCEPT !.expired = TRUE]
  <2>1. PICK old \in LinkRows : old = links[l]
    BY <1>1
  <2>2. [old EXCEPT !.expired = TRUE] \in LinkRows
    BY DEF LinkRows
  <2>3. QED
    BY <2>1, <2>2
<1>3. links' = [links EXCEPT ![l] = row]
  BY <1>2 DEF ExpireLink
<1>4. links' \in Seq(LinkRows) /\ DOMAIN links' = DOMAIN links
  BY <1>1, <1>3
<1>5. QED
  BY <1>1, <1>4 DEF ExpireLink, memberVars, AccountTables

LEMMA ApartSignIn ==
  ASSUME Apart, Shape, NEW h \in Handlers, SignIn(h)
  PROVE  Apart'
<1>1. UNCHANGED <<access, used, template, object, attachment, item, mail, metadata, said, reaction, pinned, preview, fetching>>
  BY DEF SignIn, taskVars, contentVars, templateVars, attachmentVars, checklistVars, mailVars, chatVars, talkVars
<1>2. AccountTables' /\ DOMAIN links \subseteq DOMAIN links' /\ Others(h)
      /\ (request'[h] # Null => Apt(request'[h], DOMAIN links, said))
  BY AccountCalls, AccountContinues, TablesStay DEF SignIn, Apart, memberVars, accountVars
<1>3. request'[h] # Null => Apt(request'[h], DOMAIN links', said')
  BY <1>1, <1>2, AptStays
<1>4. AllApt'
  BY <1>1, <1>2, <1>3, AptByOne DEF Apart
<1>5. QED
  BY <1>1, <1>2, <1>4, TablesStay DEF Apart, Filled

(* An accepted invitation makes an account. *)
LEMMA ApartMembers ==
  ASSUME Apart, Invited, NEW h \in Handlers, Members(h)
  PROVE  Apart'
<1>1. UNCHANGED <<google, links, access, used, template, object, attachment, item, mail, metadata, said, reaction, pinned, preview, fetching>>
  BY DEF Members, accountVars, taskVars, templateVars, attachmentVars, checklistVars, mailVars, chatVars, talkVars
<1>2. UNCHANGED account \/ (At(h, "accept:account") /\ account' = account \cup {request[h].inv.user})
  BY DEF Members, MembersCall, Invite, PatchRole, Deactivate, Reactivate, Revoke, Resend, Accept, MembersContinue,
     InviteSupersede, InviteCreate, RevokeDelete, ResendRotate, AcceptAccount, AcceptCreateAccount, AcceptReadMember,
     AcceptCreateMember, AcceptReactivate, AcceptMark, PatchCount, PatchWrite, DeactivateCount, DeactivateTasks,
     DeactivateWrite, ReactivateWrite, memberVars
<1>3. ASSUME At(h, "accept:account") PROVE request[h].inv.user \in Users
  BY <1>3, Remembered DEF MemberSteps, AcceptSteps, Sound, MemberRequests, Invitations
<1>4. AccountTables'
  BY <1>1, <1>2, <1>3 DEF Apart, Filled, AccountTables
<1>5. Moves(h, MemberSteps)
  BY MembersMove DEF Invited
<1>6. request'[h] # Null => Apt(request'[h], DOMAIN links', said')
  BY <1>5, PlainIsApt DEF Moves, PlainSteps
<1>7. AllApt'
  BY <1>1, <1>5, <1>6, AptByOne DEF Apart, Moves
<1>8. QED
  BY <1>1, <1>4, <1>7, TablesStay DEF Apart, Filled

----------------------------------------------------------------------------
(* Lists and tasks. *)
LEMMA ApartBoard ==
  ASSUME Apart, Tree, NEW h \in Handlers, Board(h)
  PROVE  Apart'
<1>1. UNCHANGED <<account, google, links, said>> /\ Cascade /\ Shape /\ Moves(h, TaskSteps)
  BY TasksMove DEF Board, Cascade, memberVars, accountVars, chatVars, talkVars, Tree
<1>2. access \subseteq Lists \X Users /\ used \subseteq Lists \cup Tasks \cup Files \cup Items \cup Comments
  BY DEF Apart, Filled, ListTables
<1>3. ASSUME request'[h] # Null => request'[h].at \in TaskSteps \ {"list:add"}, ListTables' PROVE Apart'
  <2>1. request'[h] # Null => Apt(request'[h], DOMAIN links', said')
    BY <1>3, PlainIsApt DEF TaskSteps, PlainSteps
  <2>2. AllApt'
    BY <1>1, <2>1, AptByOne DEF Apart, Moves
  <2>3. AccountTables'
    BY <1>1, TablesStay DEF Apart
  <2>4. QED
    BY <1>1, <1>3, <2>2, <2>3, TablesFollow DEF Apart, Filled
<1>4. ASSUME NEW u, NEW step \in TaskSteps, NEW args, Call(h, u, step, args)
      PROVE  request'[h] = [at |-> step, by |-> u, on |-> args] /\ ListTables'
  <2>1. UNCHANGED <<access, used>>
    BY <1>4 DEF Call, taskVars
  <2>2. QED
    BY <1>1, <1>4, <2>1, Calls, TablesStay DEF Apart
<1>5. ASSUME NEW u, NEW step \in TaskSteps \ {"list:add"}, NEW args, Call(h, u, step, args) PROVE Apart'
  <2>1. PICK r : r = [at |-> step, by |-> u, on |-> args]
    OBVIOUS
  <2>2. request'[h] = r /\ r.at = step /\ ListTables'
    BY <1>4, <1>5, <2>1
  <2>3. QED
    BY <1>3, <1>5, <2>2
<1>6. ASSUME NEW u \in Users, NEW l \in Lists, NEW m \in Users, AddToList(h, u, l, m) PROVE Apart'
  <2>1. PICK args : args = [list |-> l, user |-> m]
    OBVIOUS
  <2>2. PICK r : r = [at |-> "list:add", by |-> u, on |-> args]
    OBVIOUS
  <2>3. request'[h] = r /\ ListTables'
    BY <1>4, <1>6, <2>1, <2>2 DEF AddToList, TaskSteps
  <2>4. Apt(r, DOMAIN links', said')
    BY <2>1, <2>2 DEF Apt, FileSteps
  <2>5. AllApt'
    BY <1>1, <2>3, <2>4, AptByOne DEF Apart, Moves
  <2>6. AccountTables'
    BY <1>1, TablesStay DEF Apart
  <2>7. QED
    BY <1>1, <2>3, <2>5, <2>6, TablesFollow DEF Apart, Filled
<1>7. CASE TasksCall(h)
  <2>1. ASSUME NEW u \in Users, CreateList(h, u) PROVE Apart'
    BY <1>5, <2>1 DEF CreateList, TaskSteps
  <2>2. ASSUME NEW u \in Users, NEW l \in Lists, NEW m, NEW p, DeleteList(h, u, l) \/ RemoveFromList(h, u, l, m) \/ CreateTask(h, u, l, p)
        PROVE  Apart'
    BY <1>5, <2>2 DEF DeleteList, RemoveFromList, CreateTask, TaskSteps
  <2>3. ASSUME NEW u \in Users, NEW t \in Tasks, NEW x,
               PatchStatus(h, u, t, x) \/ MoveTask(h, u, t, x) \/ Assign(h, u, t, x) \/ Lock(h, u, t, x) \/ Purge(h, u, t)
        PROVE  Apart'
    BY <1>5, <2>3 DEF PatchStatus, MoveTask, Assign, Lock, Purge, TaskSteps
  <2>4. ASSUME NEW u \in Users, NEW t \in Tasks, NEW f \in Filings, File(h, u, t, f) PROVE Apart'
    BY <1>5, <2>4 DEF File, Filings, TaskSteps
  <2>5. QED
    BY <1>6, <1>7, <2>1, <2>2, <2>3, <2>4 DEF TasksCall
<1>8. CASE ListCreate(h)
  <2>1. request'[h] = Null
    BY <1>1, <1>8, Answers DEF ListCreate
  <2>2. By(h) \in Users
    BY <1>8, Means DEF ListCreate, TreeSteps, TaskSteps, Meant, By
  <2>3. ListTables'
    BY <1>2, <1>8, <2>2 DEF ListCreate, ListTables
  <2>4. QED
    BY <1>3, <2>1, <2>3
<1>9. CASE ListAdd(h)
  <2>1. request'[h] = Null
    BY <1>1, <1>9, Answers DEF ListAdd
  <2>2. On(h).list \in Lists /\ On(h).user \in Users
    BY <1>9, AptAt DEF ListAdd, Apart, Apt, On
  <2>3. ListTables'
    BY <1>2, <1>9, <2>2 DEF ListAdd, ListTables
  <2>4. QED
    BY <1>3, <2>1, <2>3
<1>10. CASE ListDelete(h) \/ ListRemove(h)
  <2>1. request'[h] = Null
    BY <1>1, <1>10, Answers DEF ListDelete, ListRemove
  <2>2. access' \subseteq access /\ UNCHANGED used
    BY <1>10 DEF ListDelete, ListRemove
  <2>3. QED
    BY <1>2, <1>3, <2>1, <2>2 DEF ListTables
<1>11. CASE TaskCreate(h)
  <2>1. request'[h] = Null
    BY <1>1, <1>11, Answers DEF TaskCreate
  <2>2. UNCHANGED access /\ (UNCHANGED used \/ \E t \in Tasks : used' = used \cup {t})
    BY <1>11 DEF TaskCreate
  <2>3. QED
    BY <1>2, <1>3, <2>1, <2>2 DEF ListTables
<1>12. CASE MoveStore(h)
  <2>1. UNCHANGED <<access, used>>
    BY <1>12 DEF MoveStore
  <2>2. PICK p : p = request[h]
    OBVIOUS
  <2>3. DOMAIN p = {"at", "by", "on"}
    BY <1>12, <2>2, Means DEF MoveStore, TreeSteps, TaskSteps, Meant
  <2>4. PICK r : r = [p EXCEPT !.at = "move:subtasks"]
    OBVIOUS
  <2>5. r.at = "move:subtasks"
    BY <2>3, <2>4
  <2>6. request'[h] = Null \/ request'[h] = r
    BY <1>1, <1>12, <2>2, <2>4, Answers, Awaits DEF MoveStore
  <2>7. QED
    BY <1>2, <1>3, <2>1, <2>5, <2>6 DEF ListTables, TaskSteps
<1>13. CASE \/ StatusStore(h) \/ MoveSubtasks(h) \/ AssignStore(h) \/ TaskRemove(h) \/ TaskRestore(h)
            \/ TaskArchive(h) \/ TaskUnarchive(h) \/ TaskLock(h) \/ TaskPurge(h)
  <2>1. request'[h] = Null /\ UNCHANGED <<access, used>>
    BY <1>1, <1>13, Answers DEF StatusStore, MoveSubtasks, AssignStore, TaskRemove, TaskRestore, TaskArchive,
       TaskUnarchive, TaskLock, TaskPurge
  <2>2. QED
    BY <1>2, <1>3, <2>1 DEF ListTables
<1>14. QED
  BY <1>7, <1>8, <1>9, <1>10, <1>11, <1>12, <1>13 DEF Board, TasksContinue

----------------------------------------------------------------------------
(* Templates. *)
LEMMA ApartElsewhere ==
  ASSUME Apart, Shape, NEW h \in Handlers, Others(h), UNCHANGED <<account, google, links, said>>,
         request'[h] # Null => Apt(request'[h], DOMAIN links, said)
  PROVE  AllApt' /\ AccountTables'
<1>1. AllApt'
  BY AptByOne DEF Apart
<1>2. QED
  BY <1>1, TablesStay DEF Apart

LEMMA NewTemplateRow ==
  ASSUME NEW h \in Handlers, Shape, NEW u \in Users, NEW type \in {"task", "list"}, NEW shared \in BOOLEAN, NEW data \in Data,
         NewTemplate(h, u, type, shared, data)
  PROVE  Apt(request'[h], DOMAIN links, said) /\ UNCHANGED taskVars
<1>1. PICK row : row = [type |-> type, creator |-> u, shared |-> shared, version |-> 1, data |-> data, history |-> << >>]
  OBVIOUS
<1>2. << >> \in Seq([version : Nat, data : Data])
  OBVIOUS
<1>3. row \in TemplateRows
  BY <1>1, <1>2 DEF TemplateRows
<1>4. PICK r : r = [at |-> "template:create", by |-> u, on |-> row]
  OBVIOUS
<1>5. request'[h] = r /\ UNCHANGED taskVars
  BY <1>1, <1>4, Calls DEF NewTemplate, Call
<1>6. Apt(r, DOMAIN links, said)
  BY <1>3, <1>4 DEF Apt, FileSteps
<1>7. QED
  BY <1>5, <1>6

(* What the tasks of a list say of their assignees. *)
LEMMA SavedData ==
  ASSUME Tree, NEW l, NEW order \in [1..Cardinality(Saved(l)) -> Saved(l)]
  PROVE  [i \in DOMAIN order |-> task[order[i]].assignee] \in Data
<1>1. Saved(l) \in SUBSET Tasks
  BY DEF Saved
<1>2. Cardinality(Saved(l)) \in Nat
  BY <1>1, TasksAreFinite, FS_Subset, FS_CardinalityType
<1>3. PICK n \in Nat : n = Cardinality(Saved(l))
  BY <1>2
<1>4. DOMAIN order = 1..n /\ \A i \in 1..n : order[i] \in Saved(l)
  BY <1>3
<1>5. \A t \in Saved(l) : task[t].assignee \in Users \cup {Null}
  BY DEF Saved, Exists, Tree, Forest, Tables, TaskRows
<1>6. PICK s : s = [i \in DOMAIN order |-> task[order[i]].assignee]
  OBVIOUS
<1>7. s \in [1..n -> Users \cup {Null}]
  BY <1>4, <1>5, <1>6
<1>8. s \in Seq(Users \cup {Null})
  BY <1>7
<1>9. QED
  BY <1>6, <1>8 DEF Data

LEMMA TemplateCallsApt ==
  ASSUME Apart, Tree, NEW h \in Handlers, TemplatesCall(h)
  PROVE  Apt(request'[h], DOMAIN links, said) /\ UNCHANGED taskVars /\ UNCHANGED templateVars
<1> DEFINE Goal == Apt(request'[h], DOMAIN links, said) /\ UNCHANGED taskVars
<1>1. UNCHANGED templateVars /\ Shape
  BY DEF TemplatesCall, Tree
<1>2. template \in [Templates -> TemplateRows \cup {Null}]
  BY DEF Apart, Filled, TemplateTable
<1> SUFFICES Goal
  BY <1>1
<1>3. ASSUME NEW u \in Users, NEW type \in {"task", "list"}, NEW shared \in BOOLEAN, NEW data \in Data,
             NewTemplate(h, u, type, shared, data)
      PROVE  Goal
  BY <1>1, <1>3, NewTemplateRow
<1>4. ASSUME NEW u, NEW step \in {"template:remove", "template:list", "template:task"}, NEW args, Call(h, u, step, args)
      PROVE  Goal
  <2>1. PICK r : r = [at |-> step, by |-> u, on |-> args]
    OBVIOUS
  <2>2. request'[h] = r /\ r.at = step /\ UNCHANGED taskVars
    BY <1>1, <1>4, <2>1, Calls DEF Call
  <2>3. QED
    BY <1>4, <2>2, PlainIsApt DEF PlainSteps
<1> HIDE DEF Goal
<1>5. ASSUME NEW u \in Users, NEW type \in {"task", "list"}, NEW shared \in BOOLEAN, NEW d \in Sendable(type),
             CreateTemplate(h, u, type, shared, d)
      PROVE  Goal
  <2>1. d \in Data
    BY DraftsAreData DEF Sendable
  <2>2. QED
    BY <1>3, <1>5, <2>1 DEF CreateTemplate
<1>6. ASSUME NEW u \in Users, NEW t \in Tasks, NEW shared \in BOOLEAN, SaveTask(h, u, t, shared) PROVE Goal
  <2>1. task[t].assignee \in Users \cup {Null}
    BY <1>6 DEF SaveTask, Exists, Tree, Forest, Tables, TaskRows
  <2>2. <<task[t].assignee>> \in Data
    BY <2>1 DEF Data
  <2>3. QED
    BY <1>3, <1>6, <2>2 DEF SaveTask
<1>7. ASSUME NEW u \in Users, NEW l \in Lists, NEW shared \in BOOLEAN, SaveList(h, u, l, shared) PROVE Goal
  <2>1. PICK order \in [1..Cardinality(Saved(l)) -> Saved(l)] :
          NewTemplate(h, u, "list", shared, [i \in DOMAIN order |-> task[order[i]].assignee])
    BY <1>7 DEF SaveList
  <2>2. PICK data \in Data : data = [i \in DOMAIN order |-> task[order[i]].assignee]
    BY SavedData
  <2>3. QED
    BY <1>3, <2>1, <2>2
<1>8. ASSUME NEW u \in Users, NEW t \in Templates, DuplicateTemplate(h, u, t) PROVE Goal
  <2>1. template[t].type \in {"task", "list"} /\ template[t].data \in Data
    BY <1>2, <1>8 DEF DuplicateTemplate, Reaches, TemplateRows
  <2>2. QED
    BY <1>3, <1>8, <2>1 DEF DuplicateTemplate
<1>9. ASSUME NEW u \in Users, NEW t \in Templates, NEW l,
             RemoveTemplate(h, u, t) \/ InstantiateList(h, u, t) \/ ApplyTemplate(h, u, t, l)
      PROVE  Goal
  BY <1>4, <1>9 DEF RemoveTemplate, InstantiateList, ApplyTemplate
<1>10. ASSUME NEW u \in Users, NEW t \in Templates, template[t] # Null, NEW d \in Sendable(template[t].type) \cup {Null},
              NEW shared \in BOOLEAN \cup {Null}, UpdateTemplate(h, u, t, d, shared)
       PROVE  Goal
  <2>1. template[t] \in TemplateRows /\ d \in Data \cup {Null}
    BY <1>2, <1>10, DraftsAreData DEF Sendable
  <2>2. PICK args : args = [id |-> t, seen |-> template[t], data |-> d, shared |-> shared]
    OBVIOUS
  <2>3. args.seen \in TemplateRows /\ args.data \in Data \cup {Null} /\ args.shared \in BOOLEAN \cup {Null}
    BY <2>1, <2>2
  <2>4. PICK r : r = [at |-> "template:update", by |-> u, on |-> args]
    OBVIOUS
  <2>5. request'[h] = r /\ UNCHANGED taskVars
    BY <1>1, <1>10, <2>2, <2>4, Calls DEF UpdateTemplate, Call
  <2>6. Apt(r, DOMAIN links, said)
    BY <2>3, <2>4 DEF Apt, FileSteps
  <2>7. QED
    BY <2>5, <2>6 DEF Goal
<1>11. PICK u \in Users :
         \/ \E shared \in BOOLEAN :
              \/ \E type \in {"task", "list"} : \E d \in Sendable(type) : CreateTemplate(h, u, type, shared, d)
              \/ \E t \in Tasks : SaveTask(h, u, t, shared)
              \/ \E l \in Lists : SaveList(h, u, l, shared)
         \/ \E t \in Templates :
              \/ DuplicateTemplate(h, u, t) \/ RemoveTemplate(h, u, t) \/ InstantiateList(h, u, t)
              \/ \E l \in Lists : ApplyTemplate(h, u, t, l)
              \/ /\ template[t] # Null
                 /\ \E d \in Sendable(template[t].type) \cup {Null}, shared \in BOOLEAN \cup {Null} :
                      UpdateTemplate(h, u, t, d, shared)
  BY DEF TemplatesCall
<1>12. ASSUME NEW shared \in BOOLEAN,
              \/ \E type \in {"task", "list"} : \E d \in Sendable(type) : CreateTemplate(h, u, type, shared, d)
              \/ \E t \in Tasks : SaveTask(h, u, t, shared)
              \/ \E l \in Lists : SaveList(h, u, l, shared)
       PROVE  Goal
  BY <1>5, <1>6, <1>7, <1>12
<1>13. ASSUME NEW t \in Templates,
              \/ DuplicateTemplate(h, u, t) \/ RemoveTemplate(h, u, t) \/ InstantiateList(h, u, t)
              \/ \E l \in Lists : ApplyTemplate(h, u, t, l)
              \/ /\ template[t] # Null
                 /\ \E d \in Sendable(template[t].type) \cup {Null}, shared \in BOOLEAN \cup {Null} :
                      UpdateTemplate(h, u, t, d, shared)
       PROVE  Goal
  <2>1. CASE template[t] # Null /\ \E d \in Sendable(template[t].type) \cup {Null}, shared \in BOOLEAN \cup {Null} :
               UpdateTemplate(h, u, t, d, shared)
    BY <1>10, <2>1
  <2>2. CASE \E l \in Lists : ApplyTemplate(h, u, t, l)
    BY <1>9, <2>2
  <2>3. CASE DuplicateTemplate(h, u, t)
    BY <1>8, <2>3
  <2>4. CASE RemoveTemplate(h, u, t) \/ InstantiateList(h, u, t)
    BY <1>9, <2>4
  <2>5. QED
    BY <1>13, <2>1, <2>2, <2>3, <2>4
<1>14. QED
  BY <1>11, <1>12, <1>13

LEMMA HistoryTyped ==
  ASSUME NEW seen \in TemplateRows, NEW data
  PROVE  History(seen, data) \in Seq([version : Nat, data : Data])
<1>1. PICK S : S = [version : Nat, data : Data]
  OBVIOUS
<1>2. PICK e : e = Entry(seen)
  OBVIOUS
<1>3. e \in S /\ seen.history \in Seq(S)
  BY <1>1, <1>2 DEF Entry, TemplateRows
<1>4. Latest(<<e>> \o seen.history) \in Seq(S)
  BY <1>3, LatestEntries
<1>5. QED
  BY <1>1, <1>2, <1>4 DEF History

LEMMA TemplateRowStored ==
  ASSUME TemplateTable, NEW t \in Templates, NEW row \in TemplateRows, StoreTemplate(t, row)
  PROVE  TemplateTable'
BY DEF TemplateTable, StoreTemplate

LEMMA TemplateUpdated ==
  ASSUME Apart, Tree, NEW h \in Handlers, TemplateUpdate(h), DOMAIN template = Templates
  PROVE  TemplateTable'
<1>1. PICK r : r = request[h] /\ r.on.seen \in TemplateRows /\ r.on.data \in Data \cup {Null} /\ r.on.shared \in BOOLEAN \cup {Null}
  BY AptAt DEF TemplateUpdate, Apart, Apt
<1>2. PICK t : t = r.on.id
  OBVIOUS
<1>3. CASE template[t] = Null
  <2>1. UNCHANGED template
    BY <1>1, <1>2, <1>3 DEF TemplateUpdate, On, templateVars
  <2>2. QED
    BY <2>1, TablesStay DEF Apart
<1>4. CASE t \notin Templates
  <2>1. UNCHANGED template
    BY <1>1, <1>2, <1>4 DEF TemplateUpdate, On, templateVars, StoreTemplate, Apart, Filled, TemplateTable
  <2>2. QED
    BY <2>1, TablesStay DEF Apart
<1>5. CASE template[t] # Null /\ t \in Templates
  <2>1. PICK old \in TemplateRows : old = template[t]
    BY <1>5 DEF Apart, Filled, TemplateTable
  <2>2. PICK v \in Nat : v = r.on.seen.version + 1
    BY <1>1 DEF TemplateRows
  <2>3. PICK past1 \in Seq([version : Nat, data : Data]) : past1 = History(r.on.seen, r.on.data)
    BY <1>1, HistoryTyped
  <2>4. PICK data \in Data : data = Given(r.on.data, old.data)
    BY <1>1 DEF Given, TemplateRows
  <2>5. PICK shared \in BOOLEAN : shared = Given(r.on.shared, old.shared)
    BY <1>1 DEF Given, TemplateRows
  <2>6. PICK row : row = [old EXCEPT !.version = v, !.history = past1, !.data = data, !.shared = shared]
    OBVIOUS
  <2>7. row \in TemplateRows
    BY <2>6 DEF TemplateRows
  <2>8. row = [template[t] EXCEPT !.version = r.on.seen.version + 1, !.history = History(r.on.seen, r.on.data),
                                  !.data = Given(r.on.data, @), !.shared = Given(r.on.shared, @)]
    BY <2>1, <2>2, <2>3, <2>4, <2>5, <2>6
  <2>9. StoreTemplate(t, row)
    BY <1>1, <1>2, <1>5, <2>8 DEF TemplateUpdate, On
  <2>10. QED
    BY <1>5, <2>7, <2>9, TemplateRowStored DEF Apart, Filled
<1>6. QED
  BY <1>3, <1>4, <1>5

LEMMA ApartTemplates ==
  ASSUME Apart, Tree, NEW h \in Handlers, TemplatesCall(h) \/ TemplatesContinue(h),
         UNCHANGED <<attachmentVars, checklistVars, mailVars, chatVars, memberVars, accountVars>>
  PROVE  Apart'
<1>1. UNCHANGED <<account, google, links, object, attachment, item, mail, metadata, said, reaction, pinned, preview, fetching>>
  BY DEF memberVars, accountVars, attachmentVars, checklistVars, mailVars, chatVars, talkVars
<1>2. Shape /\ Moves(h, TemplateSteps)
  BY TemplatesMove DEF Tree
<1>3. /\ template \in [Templates -> TemplateRows \cup {Null}]
      /\ access \subseteq Lists \X Users /\ used \subseteq Lists \cup Tasks \cup Files \cup Items \cup Comments
  BY DEF Apart, Filled, TemplateTable, ListTables
<1>4. ASSUME request'[h] # Null => Apt(request'[h], DOMAIN links, said), ListTables', TemplateTable' PROVE Apart'
  <2>1. AllApt' /\ AccountTables'
    BY <1>1, <1>2, <1>4, ApartElsewhere DEF Moves
  <2>2. QED
    BY <1>1, <1>4, <2>1, TablesStay DEF Apart, Filled
<1>5. UNCHANGED <<access, used>> => ListTables'
  BY TablesStay DEF Apart
<1>6. UNCHANGED template => TemplateTable'
  BY TablesStay DEF Apart
<1>7. CASE TemplatesCall(h)
  BY <1>4, <1>5, <1>6, <1>7, TemplateCallsApt DEF taskVars, templateVars
<1>8. CASE TemplateCreate(h)
  <2>1. request'[h] = Null
    BY <1>2, <1>8, Answers DEF TemplateCreate
  <2>2. PICK row \in TemplateRows : row = On(h)
    BY <1>8, AptAt DEF TemplateCreate, Apart, Apt, On
  <2>3. TemplateTable'
    BY <1>3, <1>8, <2>2, TemplateRowStored DEF TemplateCreate, TemplateTable
  <2>4. UNCHANGED <<access, used>>
    BY <1>8 DEF TemplateCreate, taskVars
  <2>5. QED
    BY <1>4, <1>5, <2>1, <2>3, <2>4
<1>9. CASE TemplateUpdate(h)
  <2>1. request'[h] = Null
    BY <1>2, <1>9, Answers DEF TemplateUpdate
  <2>2. TemplateTable'
    BY <1>3, <1>9, TemplateUpdated
  <2>3. UNCHANGED <<access, used>>
    BY <1>9 DEF TemplateUpdate, taskVars
  <2>4. QED
    BY <1>4, <1>5, <2>1, <2>2, <2>3
<1>10. CASE TemplateRemove(h)
  <2>1. request'[h] = Null
    BY <1>2, <1>10, Answers DEF TemplateRemove
  <2>2. TemplateTable'
    BY <1>3, <1>10 DEF TemplateRemove, TemplateTable
  <2>3. UNCHANGED <<access, used>>
    BY <1>10 DEF TemplateRemove, taskVars
  <2>4. QED
    BY <1>4, <1>5, <2>1, <2>2, <2>3
<1>11. ASSUME NEW l, NEW rest, Onward(h, l, rest)
       PROVE  request'[h] # Null => Apt(request'[h], DOMAIN links, said)
  <2>1. PICK r : r = [at |-> "template:task", by |-> By(h), on |-> [list |-> l, parent |-> Null, data |-> rest]]
    OBVIOUS
  <2>2. request'[h] = Null \/ request'[h] = r
    BY <1>2, <1>11, <2>1, Answers, Awaits DEF Onward
  <2>3. r.at \in PlainSteps
    BY <2>1 DEF PlainSteps
  <2>4. QED
    BY <2>2, <2>3, PlainIsApt
<1>12. ASSUME NEW step \in {"template:list", "template:task"}, At(h, step) PROVE By(h) \in Users
  <2>1. step \in TreeSteps
    BY DEF TreeSteps, TemplateSteps
  <2>2. QED
    BY <1>12, <2>1, Means DEF Meant, By
<1>13. CASE TemplateList(h)
  <2>1. PICK l \in Lists : access' = access \cup {<<l, By(h)>>} /\ used' = used \cup {l} /\ Onward(h, l, On(h).data)
    BY <1>13 DEF TemplateList
  <2>2. ListTables'
    BY <1>3, <1>12, <1>13, <2>1 DEF TemplateList, ListTables
  <2>3. UNCHANGED template
    BY <1>13 DEF TemplateList, templateVars
  <2>4. QED
    BY <1>4, <1>6, <1>11, <2>1, <2>2, <2>3
<1>14. CASE TemplateTask(h)
  <2>1. UNCHANGED <<access, template>>
    BY <1>14 DEF TemplateTask, templateVars
  <2>2. \/ (\E t \in Tasks : used' = used \cup {t}) /\ Onward(h, On(h).list, Tail(On(h).data))
        \/ UNCHANGED used /\ Answer(h)
    BY <1>14 DEF TemplateTask
  <2>3. ListTables'
    BY <1>3, <2>1, <2>2 DEF ListTables
  <2>4. request'[h] # Null => Apt(request'[h], DOMAIN links, said)
    BY <1>2, <1>11, <2>2, Answers
  <2>5. QED
    BY <1>4, <1>6, <2>1, <2>3, <2>4
<1>15. QED
  BY <1>7, <1>8, <1>9, <1>10, <1>13, <1>14 DEF TemplatesContinue

----------------------------------------------------------------------------
(* Attachments. *)
LEMMA ApartFiles ==
  ASSUME Apart, Shape, NEW h \in Handlers, AttachmentsCall(h) \/ AttachmentsContinue(h),
         UNCHANGED <<templateVars, checklistVars, mailVars, chatVars, memberVars, accountVars>>
  PROVE  Apart'
<1>1. UNCHANGED <<account, google, links, template, item, mail, metadata, said, reaction, pinned, preview, fetching>>
  BY DEF memberVars, accountVars, templateVars, checklistVars, mailVars, chatVars, talkVars
<1>2. Others(h)
  BY AttachmentsMove DEF Moves
<1>3. /\ object \subseteq Files /\ attachment \in [Files -> [task : Tasks, by : Users] \cup {Null}]
      /\ access \subseteq Lists \X Users /\ used \subseteq Lists \cup Tasks \cup Files \cup Items \cup Comments
  BY DEF Apart, Filled, FileTables, ListTables
<1>4. ASSUME request'[h] # Null => Apt(request'[h], DOMAIN links, said), ListTables', FileTables' PROVE Apart'
  <2>1. AllApt' /\ AccountTables'
    BY <1>1, <1>2, <1>4, ApartElsewhere
  <2>2. QED
    BY <1>1, <1>4, <2>1, TablesStay DEF Apart, Filled
<1>5. UNCHANGED <<access, used>> => ListTables'
  BY TablesStay DEF Apart
<1>6. UNCHANGED <<object, attachment>> => FileTables'
  BY TablesStay DEF Apart
<1>7. ASSUME NEW step \in FileSteps, At(h, step)
      PROVE  /\ DOMAIN request[h] = {"at", "by", "on"} /\ request[h].by \in Users
             /\ step \in {"file:put", "file:row"} => request[h].on.task \in Tasks
             /\ step \in {"file:row", "file:delete", "file:unlink"} => request[h].on.file \in Files
  BY <1>7, AptAt DEF Apart, Apt
<1>8. CASE AttachmentsCall(h)
  <2>1. ASSUME NEW u \in Users, NEW t \in Tasks, Upload(h, u, t) PROVE Apart'
    <3>1. PICK args : args = [task |-> t]
      OBVIOUS
    <3>2. PICK r : r = [at |-> "file:put", by |-> u, on |-> args]
      OBVIOUS
    <3>3. request'[h] = r /\ UNCHANGED <<taskVars, attachmentVars>>
      BY <2>1, <3>1, <3>2, Calls DEF Upload, Call
    <3>4. Apt(r, DOMAIN links, said)
      BY <3>1, <3>2 DEF Apt
    <3>5. QED
      BY <1>4, <1>5, <1>6, <3>3, <3>4 DEF taskVars, attachmentVars
  <2>2. ASSUME NEW u \in Users, NEW f \in Files, RemoveFile(h, u, f) PROVE Apart'
    <3>1. PICK args : args = [file |-> f]
      OBVIOUS
    <3>2. PICK r : r = [at |-> "file:delete", by |-> u, on |-> args]
      OBVIOUS
    <3>3. request'[h] = r /\ UNCHANGED <<taskVars, attachmentVars>>
      BY <2>2, <3>1, <3>2, Calls DEF RemoveFile, Call
    <3>4. Apt(r, DOMAIN links, said)
      BY <3>1, <3>2 DEF Apt
    <3>5. QED
      BY <1>4, <1>5, <1>6, <3>3, <3>4 DEF taskVars, attachmentVars
  <2>3. QED
    BY <1>8, <2>1, <2>2 DEF AttachmentsCall
<1>9. CASE UploadPut(h)
  <2>1. PICK p : p = request[h] /\ DOMAIN p = {"at", "by", "on"} /\ p.by \in Users /\ p.on.task \in Tasks
    BY <1>7, <1>9 DEF UploadPut, FileSteps
  <2>2. CASE Answer(h) /\ UNCHANGED <<used, object>>
    <3>1. request'[h] = Null /\ UNCHANGED <<access, attachment>>
      BY <1>9, <2>2, Answers DEF UploadPut
    <3>2. QED
      BY <1>4, <1>5, <1>6, <2>2, <3>1
  <2>3. CASE \E f \in Files \ used : used' = used \cup {f} /\ object' = object \cup {f} /\ ToRow(h, f)
    <3>1. PICK f \in Files : used' = used \cup {f} /\ object' = object \cup {f} /\ ToRow(h, f)
      BY <2>3
    <3>2. PICK args : args = [task |-> p.on.task, file |-> f]
      OBVIOUS
    <3>3. PICK r : r = [p EXCEPT !.at = "file:row", !.on = args]
      OBVIOUS
    <3>4. DOMAIN r = {"at", "by", "on"} /\ r.at = "file:row" /\ r.by = p.by /\ r.on = args
      BY <2>1, <3>3
    <3>5. r = [p EXCEPT !.at = "file:row", !.on = [task |-> @.task, file |-> f]]
      BY <2>1, <3>2, <3>3
    <3>6. request'[h] = r
      BY <2>1, <3>1, <3>5, Awaits DEF ToRow
    <3>7. Apt(r, DOMAIN links, said)
      BY <2>1, <3>2, <3>4 DEF Apt
    <3>8. UNCHANGED <<access, attachment>>
      BY <1>9 DEF UploadPut
    <3>9. ListTables' /\ FileTables'
      BY <1>3, <3>1, <3>8 DEF ListTables, FileTables
    <3>10. QED
      BY <1>4, <3>6, <3>7, <3>9
  <2>4. QED
    BY <1>9, <2>2, <2>3 DEF UploadPut
<1>10. CASE UploadRow(h)
  <2>1. PICK p : p = request[h] /\ p.by \in Users /\ p.on.task \in Tasks /\ p.on.file \in Files
    BY <1>7, <1>10 DEF UploadRow, FileSteps
  <2>2. PICK row : row = [task |-> p.on.task, by |-> p.by]
    OBVIOUS
  <2>3. row \in [task : Tasks, by : Users]
    BY <2>1, <2>2
  <2>4. attachment' = attachment \/ attachment' = [attachment EXCEPT ![p.on.file] = row]
    BY <1>10, <2>1, <2>2 DEF UploadRow, On, By
  <2>5. UNCHANGED <<object, access, used>> /\ request'[h] = Null
    BY <1>10, Answers DEF UploadRow, taskVars
  <2>6. FileTables'
    BY <1>3, <2>3, <2>4, <2>5 DEF FileTables
  <2>7. QED
    BY <1>4, <1>5, <2>5, <2>6
<1>11. CASE RemoveObject(h)
  <2>1. PICK p : p = request[h] /\ DOMAIN p = {"at", "by", "on"} /\ p.by \in Users /\ p.on.file \in Files
    BY <1>7, <1>11 DEF RemoveObject, FileSteps
  <2>2. PICK r : r = [p EXCEPT !.at = "file:unlink"]
    OBVIOUS
  <2>3. DOMAIN r = {"at", "by", "on"} /\ r.at = "file:unlink" /\ r.by = p.by /\ r.on = p.on
    BY <2>1, <2>2
  <2>4. Apt(r, DOMAIN links, said)
    BY <2>1, <2>3 DEF Apt
  <2>5. request'[h] = r
    BY <1>11, <2>1, <2>2, Awaits DEF RemoveObject
  <2>6. UNCHANGED <<access, used, attachment>> /\ object' \subseteq object
    BY <1>11 DEF RemoveObject, taskVars
  <2>7. FileTables'
    BY <1>3, <2>6 DEF FileTables
  <2>8. QED
    BY <1>4, <1>5, <2>4, <2>5, <2>6, <2>7
<1>12. CASE RemoveRow(h)
  <2>1. UNCHANGED <<object, access, used>> /\ request'[h] = Null
    BY <1>12, Answers DEF RemoveRow, taskVars
  <2>2. FileTables'
    BY <1>3, <1>12, <2>1 DEF RemoveRow, FileTables
  <2>3. QED
    BY <1>4, <1>5, <2>1, <2>2
<1>13. QED
  BY <1>8, <1>9, <1>10, <1>11, <1>12 DEF AttachmentsContinue

----------------------------------------------------------------------------
(* Checklists.  A new item goes behind the last: there is one, for the items of a task
   are finite in number. *)
LEMMA GreatestOf ==
  ASSUME NEW S \in SUBSET Int, IsFiniteSet(S), S # {}
  PROVE  Sets!Max(S) \in S /\ \A y \in S : y <= Sets!Max(S)
<1> DEFINE above(x) == {y \in S : y > x}
           sizes == {Cardinality(above(x)) : x \in S}
<1>1. ASSUME NEW x \in S PROVE above(x) \in SUBSET S /\ IsFiniteSet(above(x)) /\ Cardinality(above(x)) \in Nat
  <2>1. above(x) \in SUBSET S
    OBVIOUS
  <2>2. IsFiniteSet(above(x))
    BY <2>1, FS_Subset
  <2>3. QED
    BY <2>1, <2>2, FS_CardinalityType
<1>2. sizes \subseteq Nat /\ sizes # {}
  BY <1>1
<1> HIDE DEF sizes
<1>3. PICK least \in sizes : \A a \in sizes : ~ (<<a, least>> \in OpToRel(<, Nat))
  BY <1>2, NatLessThanWellFounded, WFMin, Zenon
<1>4. PICK x \in S : least = Cardinality(above(x))
  BY DEF sizes
<1>5. ASSUME NEW y \in S, y > x PROVE FALSE
  <2>1. x \in Int /\ y \in Int
    OBVIOUS
  <2>2. above(y) \in SUBSET above(x) /\ y \in above(x) /\ y \notin above(y)
    <3>1. ASSUME NEW z \in S, z > y PROVE z > x
      BY <1>5, <2>1, <3>1
    <3>2. ~ (y > y)
      BY <2>1
    <3>3. QED
      BY <1>5, <3>1, <3>2
  <2>3. PICK a \in sizes : a = Cardinality(above(y))
    BY DEF sizes
  <2>4. a <= least /\ above(x) # above(y)
    BY <1>1, <1>4, <2>2, <2>3, FS_Subset
  <2>5. a # least
    BY <1>1, <1>4, <2>2, <2>3, <2>4, FS_Subset
  <2>6. a \in Nat /\ least \in Nat
    BY <1>2
  <2>7. a < least
    BY <2>4, <2>5, <2>6
  <2>8. <<a, least>> \in OpToRel(<, Nat)
    BY <2>6, <2>7 DEF OpToRel
  <2>9. QED
    BY <1>3, <2>8
<1>6. \A y \in S : x >= y
  BY <1>5
<1>7. QED
  BY <1>6 DEF Sets!Max

LEMMA LastPlace ==
  ASSUME ItemTable, NEW t
  PROVE  1 + Sets!Max({-1} \cup {item[i].place : i \in ItemsOf(t)}) \in Nat
<1> DEFINE places == {item[i].place : i \in ItemsOf(t)}
           place == [i \in ItemsOf(t) |-> item[i].place]
<1>1. ItemsOf(t) \in SUBSET Items /\ \A i \in ItemsOf(t) : item[i].place \in Nat
  BY DEF ItemsOf, ItemTable, ItemRows
<1>2. IsFiniteSet(ItemsOf(t))
  BY <1>1, ItemsAreFinite, FS_Subset
<1>3. place \in Surjection(ItemsOf(t), places)
  BY DEF Surjection
<1>4. IsFiniteSet(places)
  BY <1>2, <1>3, FS_Surjection
<1>5. places \subseteq Nat
  BY <1>1
<1> HIDE DEF places
<1>6. PICK S : S = {-1} \cup places
  OBVIOUS
<1>7. IsFiniteSet(S) /\ S # {} /\ S \in SUBSET Int /\ \A y \in S : y >= -1
  <2>1. S = places \cup {-1}
    BY <1>6
  <2>2. IsFiniteSet(S)
    BY <1>4, <2>1, FS_AddElement
  <2>3. QED
    BY <1>5, <2>1, <2>2
<1>8. Sets!Max(S) \in S
  BY <1>7, GreatestOf
<1>9. 1 + Sets!Max(S) \in Nat
  <2>1. PICK g : g = Sets!Max(S)
    OBVIOUS
  <2>2. g \in Int /\ g >= -1
    BY <1>7, <1>8, <2>1
  <2>3. QED
    BY <2>1, <2>2
<1>10. QED
  BY <1>6, <1>9 DEF places

(* One item is written. *)
LEMMA ItemWritten ==
  ASSUME ItemTable, NEW i, NEW row \in ItemRows, item' = [item EXCEPT ![i] = row]
  PROVE  ItemTable'
BY DEF ItemTable

LEMMA ApartItems ==
  ASSUME Apart, Shape, Lined, NEW h \in Handlers, ChecklistsCall(h) \/ ChecklistsContinue(h),
         UNCHANGED <<templateVars, attachmentVars, mailVars, chatVars, memberVars, accountVars>>
  PROVE  Apart'
<1>1. UNCHANGED <<account, google, links, template, object, attachment, mail, metadata, said, reaction, pinned, preview, fetching>>
  BY DEF memberVars, accountVars, templateVars, attachmentVars, mailVars, chatVars, talkVars
<1>2. Others(h)
  BY ChecklistsMove DEF Moves
<1>3. /\ item \in [Items -> ItemRows \cup {Null}] /\ ItemTable
      /\ access \subseteq Lists \X Users /\ used \subseteq Lists \cup Tasks \cup Files \cup Items \cup Comments
  BY DEF Apart, Filled, ItemTable, ListTables
<1>4. ASSUME request'[h] # Null => Apt(request'[h], DOMAIN links, said), ListTables', ItemTable' PROVE Apart'
  <2>1. AllApt' /\ AccountTables'
    BY <1>1, <1>2, <1>4, ApartElsewhere
  <2>2. QED
    BY <1>1, <1>4, <2>1, TablesStay DEF Apart, Filled
<1>5. UNCHANGED <<access, used>> => ListTables'
  BY TablesStay DEF Apart
<1>6. UNCHANGED item => ItemTable'
  BY TablesStay DEF Apart
<1>7. ASSUME NEW u \in Users, NEW step \in {"item:remove", "item:order"}, NEW args, Call(h, u, step, args), UNCHANGED checklistVars
      PROVE  Apart'
  <2>1. PICK r : r = [at |-> step, by |-> u, on |-> args]
    OBVIOUS
  <2>2. request'[h] = r /\ r.at \in PlainSteps /\ UNCHANGED taskVars
    BY <1>7, <2>1, Calls DEF Call, PlainSteps
  <2>3. QED
    BY <1>4, <1>5, <1>6, <1>7, <2>2, PlainIsApt DEF taskVars, checklistVars
<1>8. CASE ChecklistsCall(h)
  <2>1. ASSUME NEW u \in Users, NEW t \in Tasks, AddItem(h, u, t) PROVE Apart'
    <3>1. PICK n \in Nat : n = 1 + Sets!Max({-1} \cup {item[i].place : i \in ItemsOf(t)})
      BY <1>3, LastPlace
    <3>2. PICK args : args = [task |-> t, place |-> n]
      OBVIOUS
    <3>3. PICK r : r = [at |-> "item:add", by |-> u, on |-> args]
      OBVIOUS
    <3>4. Call(h, u, "item:add", args) /\ UNCHANGED checklistVars
      BY <2>1, <3>1, <3>2 DEF AddItem
    <3>5. request'[h] = r /\ UNCHANGED taskVars
      BY <3>3, <3>4, Calls DEF Call
    <3>6. Apt(r, DOMAIN links, said)
      BY <3>1, <3>2, <3>3 DEF Apt, FileSteps
    <3>7. QED
      BY <1>4, <1>5, <1>6, <3>4, <3>5, <3>6 DEF taskVars, checklistVars
  <2>2. ASSUME NEW u \in Users, NEW i \in Items, NEW on \in BOOLEAN, CheckItem(h, u, i, on) PROVE Apart'
    <3>1. PICK args : args = [item |-> i, to |-> on]
      OBVIOUS
    <3>2. PICK r : r = [at |-> "item:check", by |-> u, on |-> args]
      OBVIOUS
    <3>3. request'[h] = r /\ UNCHANGED <<taskVars, checklistVars>>
      BY <2>2, <3>1, <3>2, Calls DEF CheckItem, Call
    <3>4. Apt(r, DOMAIN links, said)
      BY <3>1, <3>2 DEF Apt, FileSteps
    <3>5. QED
      BY <1>4, <1>5, <1>6, <3>3, <3>4 DEF taskVars, checklistVars
  <2>4. ASSUME NEW u \in Users, NEW t \in Tasks, NEW ids, Reorder(h, u, t, ids) PROVE Apart'
    BY <1>7, <2>4 DEF Reorder
  <2>5. ASSUME NEW u \in Users, NEW i \in Items, RemoveItem(h, u, i) PROVE Apart'
    BY <1>7, <2>5 DEF RemoveItem
  <2>6. PICK u \in Users :
          \/ \E t \in Tasks :
               \/ AddItem(h, u, t)
               \/ \E some \in SUBSET ItemsOf(t) :
                    some # {} /\ \E ids \in Maps!Bijection(1..Cardinality(some), some) : Reorder(h, u, t, ids)
          \/ \E i \in Items : RemoveItem(h, u, i) \/ \E on \in BOOLEAN : CheckItem(h, u, i, on)
    BY <1>8 DEF ChecklistsCall
  <2>7. QED
    BY <2>1, <2>2, <2>4, <2>5, <2>6
<1>9. CASE ItemAdd(h)
  <2>1. PICK p : p = request[h] /\ p.on.task \in Tasks /\ p.on.place \in Nat
    BY <1>9, AptAt DEF ItemAdd, Apart, Apt
  <2>2. PICK row : row = [task |-> p.on.task, checked |-> FALSE, place |-> p.on.place]
    OBVIOUS
  <2>3. row \in ItemRows
    BY <2>1, <2>2 DEF ItemRows
  <2>4. \/ \E i \in Items : item' = [item EXCEPT ![i] = row] /\ used' = used \cup {i}
        \/ UNCHANGED <<item, used>>
    BY <1>9, <2>1, <2>2 DEF ItemAdd, On
  <2>5. request'[h] = Null /\ UNCHANGED access
    BY <1>9, Answers DEF ItemAdd
  <2>6. ListTables' /\ ItemTable'
    BY <1>3, <1>6, <2>3, <2>4, <2>5, ItemWritten DEF ListTables
  <2>7. QED
    BY <1>4, <2>5, <2>6
<1>10. CASE ItemCheck(h)
  <2>1. PICK p : p = request[h] /\ p.on.to \in BOOLEAN
    BY <1>10, AptAt DEF ItemCheck, Apart, Apt
  <2>2. PICK i : i = p.on.item
    OBVIOUS
  <2>3. request'[h] = Null /\ UNCHANGED <<access, used>>
    BY <1>10, Answers DEF ItemCheck, taskVars
  <2>4. item' = IF item[i] = Null THEN item ELSE [item EXCEPT ![i].checked = p.on.to]
    BY <1>10, <2>1, <2>2 DEF ItemCheck, On
  <2>5. CASE i \in Items /\ item[i] # Null
    <3>1. PICK old \in ItemRows : old = item[i]
      BY <1>3, <2>5
    <3>2. PICK row : row = [old EXCEPT !.checked = p.on.to]
      OBVIOUS
    <3>3. row \in ItemRows
      BY <2>1, <3>2 DEF ItemRows
    <3>4. item' = [item EXCEPT ![i] = row]
      BY <2>4, <2>5, <3>1, <3>2
    <3>5. QED
      BY <1>3, <1>4, <1>5, <2>3, <3>3, <3>4, ItemWritten
  <2>6. CASE ~(i \in Items /\ item[i] # Null)
    <3>1. item' = item
      BY <1>3, <2>4, <2>6
    <3>2. QED
      BY <1>4, <1>5, <1>6, <2>3, <3>1
  <2>7. QED
    BY <2>5, <2>6
<1>11. CASE ItemRemove(h)
  <2>1. request'[h] = Null /\ UNCHANGED <<access, used>>
    BY <1>11, Answers DEF ItemRemove, taskVars
  <2>2. ItemTable'
    BY <1>3, <1>11 DEF ItemRemove, ItemTable
  <2>3. QED
    BY <1>4, <1>5, <2>1, <2>2
<1>12. CASE ReorderItem(h)
  <2>1. PICK p : p = request[h] /\ p.at = "item:order" /\ Queue(p)
    BY <1>12 DEF ReorderItem, Lined, At
  <2>2. PICK held : Updated(h, held) /\ UNCHANGED <<checklistVars, taskVars>>
    BY <1>12 DEF ReorderItem
  <2>3. PICK r : r = [p EXCEPT !.on.rest = Tail(@), !.on.held = held]
    OBVIOUS
  <2>4. request'[h] = r
    BY <2>1, <2>2, <2>3, Awaits DEF Updated
  <2>5. r.at = "item:order"
    BY <2>1, <2>3 DEF Queue
  <2>6. QED
    BY <1>4, <1>5, <1>6, <2>2, <2>4, <2>5, PlainIsApt DEF PlainSteps, taskVars, checklistVars
<1>13. CASE ReorderCommit(h)
  <2>1. PICK p : p = request[h] /\ Queue(p) /\ p.on.rest = << >>
    BY <1>13 DEF ReorderCommit, Lined, On
  <2>2. p.on.ids \in Seq(Items) /\ IsInjective(p.on.ids) /\ p.on.held \subseteq Range(p.on.ids)
    BY <2>1 DEF Queue
  <2>3. ASSUME NEW i \in Items, i \in p.on.held PROVE Place(p.on.ids, i) \in Nat
    <3>1. PICK m \in DOMAIN p.on.ids : i = p.on.ids[m]
      BY <2>2, <2>3 DEF Range
    <3>2. Place(p.on.ids, i) = m - 1
      BY <2>2, <3>1, PlacesOf
    <3>3. m \in Nat /\ m >= 1
      BY <2>2
    <3>4. QED
      BY <3>2, <3>3
  <2>4. item' = [i \in Items |-> IF i \in p.on.held /\ item[i] # Null
                                  THEN [item[i] EXCEPT !.place = Place(p.on.ids, i)] ELSE item[i]]
    BY <1>13, <2>1 DEF ReorderCommit, On
  <2>5. ASSUME NEW i \in Items PROVE item'[i] \in ItemRows \cup {Null}
    <3>1. CASE i \in p.on.held /\ item[i] # Null
      <4>1. PICK old \in ItemRows : old = item[i]
        BY <1>3, <3>1
      <4>2. PICK n \in Nat : n = Place(p.on.ids, i)
        BY <2>3, <3>1
      <4>3. [old EXCEPT !.place = n] \in ItemRows
        BY DEF ItemRows
      <4>4. QED
        BY <2>4, <3>1, <4>1, <4>2, <4>3
    <3>2. CASE ~(i \in p.on.held /\ item[i] # Null)
      BY <1>3, <2>4, <3>2
    <3>3. QED
      BY <3>1, <3>2
  <2>6. ItemTable'
    BY <2>4, <2>5 DEF ItemTable
  <2>7. request'[h] = Null /\ UNCHANGED <<access, used>>
    BY <1>13, Answers DEF ReorderCommit, taskVars
  <2>8. QED
    BY <1>4, <1>5, <2>6, <2>7
<1>14. CASE GivenUp(h)
  <2>1. request'[h] = Null /\ UNCHANGED <<access, used, item>>
    BY <1>14, Answers DEF GivenUp, taskVars, checklistVars
  <2>2. QED
    BY <1>4, <1>5, <1>6, <2>1
<1>15. QED
  BY <1>8, <1>9, <1>10, <1>11, <1>12, <1>13, <1>14 DEF ChecklistsContinue

----------------------------------------------------------------------------
(* Mails. *)
LEMMA MailChanges ==
  ASSUME MailTables, NEW m, NEW row, mail' = [mail EXCEPT ![m] = row]
  PROVE  mail' = [k \in Mails |-> mail'[k]]
<1>1. DOMAIN mail = Mails
  BY DEF MailTables
<1>2. mail' = [k \in Mails |-> IF k = m THEN row ELSE mail[k]]
  BY <1>1
<1>3. QED
  BY <1>2

LEMMA MailEndsInTable ==
  ASSUME MailTables, NEW m, NEW ok \in BOOLEAN, mail' = Ends(m, ok)
  PROVE  mail' = [k \in Mails |-> mail'[k]]
<1>1. PICK state : state = IF ok THEN "accepted" ELSE "rejected"
  OBVIOUS
<1>2. PICK f : f = [mail EXCEPT ![m].state = state]
  OBVIOUS
<1>3. PICK n : n = IF ok THEN f[m].rejections ELSE f[m].rejections + 1
  OBVIOUS
<1>4. PICK row : row = [f[m] EXCEPT !.rejections = n]
  OBVIOUS
<1>5. DOMAIN mail = Mails
  BY DEF MailTables
<1>6. DOMAIN f = Mails
  BY <1>2, <1>5
<1>7. mail' = [f EXCEPT ![m] = row]
  BY <1>1, <1>2, <1>3, <1>4 DEF Ends
<1>8. mail' = [k \in Mails |-> IF k = m THEN row ELSE f[k]]
  BY <1>6, <1>7
<1>9. QED
  BY <1>8

LEMMA ApartMails ==
  ASSUME Apart, Tree, NEW h \in Handlers, (\E m \in Mails : Ingest(h, m)) \/ MailTask(h) \/ MailMetadata(h),
         UNCHANGED <<templateVars, attachmentVars, checklistVars, chatVars, memberVars, accountVars>>
  PROVE  Apart'
<1>1. UNCHANGED <<account, google, links, template, object, attachment, item, said, reaction, pinned, preview, fetching>>
  BY DEF memberVars, accountVars, templateVars, checklistVars, attachmentVars, chatVars, talkVars
<1>2. Shape /\ Moves(h, MailSteps)
  BY MailsMove DEF Tree
<1>3. /\ MailTables /\ metadata \subseteq Tasks
      /\ access \subseteq Lists \X Users /\ used \subseteq Lists \cup Tasks \cup Files \cup Items \cup Comments
  BY DEF Apart, Filled, MailTables, ListTables
<1>4. ASSUME request'[h] # Null => Apt(request'[h], DOMAIN links, said), ListTables', MailTables' PROVE Apart'
  <2>1. AllApt' /\ AccountTables'
    BY <1>1, <1>2, <1>4, ApartElsewhere DEF Moves
  <2>2. QED
    BY <1>1, <1>4, <2>1, TablesStay DEF Apart, Filled
<1>5. UNCHANGED <<access, used>> => ListTables'
  BY TablesStay DEF Apart
<1>6. CASE \E m \in Mails : Ingest(h, m)
  <2>1. PICK m \in Mails : Ingest(h, m)
    BY <1>6
  <2>2. CASE mail' = Ends(m, FALSE) /\ UNCHANGED <<request, taskVars, metadata>>
    <3>1. MailTables'
      BY <1>3, <2>2, MailEndsInTable DEF MailTables
    <3>2. request'[h] = Null
      BY <2>1, <2>2 DEF Ingest, Free
    <3>3. QED
      BY <1>4, <1>5, <2>2, <3>1, <3>2 DEF taskVars
  <2>3. CASE /\ \E u, args : Call(h, u, "mail:task", args)
             /\ mail' = [mail EXCEPT ![m].state = "taken"] /\ UNCHANGED metadata
    <3>1. PICK u, args : Call(h, u, "mail:task", args)
      BY <2>3
    <3>2. PICK r : r = [at |-> "mail:task", by |-> u, on |-> args]
      OBVIOUS
    <3>3. request'[h] = r /\ UNCHANGED <<access, used>>
      BY <1>2, <3>1, <3>2, Calls DEF Call, taskVars
    <3>4. PICK row : row = [mail[m] EXCEPT !.state = "taken"]
      OBVIOUS
    <3>5. mail' = [mail EXCEPT ![m] = row]
      BY <2>3, <3>4
    <3>6. MailTables'
      BY <1>3, <2>3, <3>5, MailChanges DEF MailTables
    <3>7. r.at \in PlainSteps
      BY <3>2 DEF PlainSteps
    <3>8. QED
      BY <1>4, <1>5, <3>3, <3>6, <3>7, PlainIsApt
  <2>4. QED
    BY <2>1, <2>2, <2>3 DEF Ingest
<1>7. CASE MailTask(h)
  <2>1. UNCHANGED <<access, metadata>>
    BY <1>7 DEF MailTask
  <2>2. PICK m : m = On(h).mail
    OBVIOUS
  <2>3. CASE \E t \in Tasks \ used :
               /\ used' = used \cup {t}
               /\ mail' = [mail EXCEPT ![m].made = Append(@, t)]
               /\ Await(h, [at |-> "mail:metadata", by |-> By(h), on |-> [mail |-> m, task |-> t]])
    <3>1. PICK t \in Tasks :
               /\ used' = used \cup {t}
               /\ mail' = [mail EXCEPT ![m].made = Append(@, t)]
               /\ Await(h, [at |-> "mail:metadata", by |-> By(h), on |-> [mail |-> m, task |-> t]])
      BY <2>3
    <3>2. PICK args : args = [mail |-> m, task |-> t]
      OBVIOUS
    <3>3. PICK r : r = [at |-> "mail:metadata", by |-> By(h), on |-> args]
      OBVIOUS
    <3>4. request'[h] = r
      BY <1>2, <3>1, <3>2, <3>3, Awaits
    <3>5. Apt(r, DOMAIN links, said)
      BY <3>2, <3>3 DEF Apt, FileSteps
    <3>6. PICK row : row = [mail[m] EXCEPT !.made = Append(@, t)]
      OBVIOUS
    <3>7. mail' = [mail EXCEPT ![m] = row]
      BY <3>1, <3>6
    <3>8. MailTables'
      BY <1>3, <2>1, <3>7, MailChanges DEF MailTables
    <3>9. ListTables'
      BY <1>3, <2>1, <3>1 DEF ListTables
    <3>10. QED
      BY <1>4, <3>4, <3>5, <3>8, <3>9
  <2>4. CASE mail' = Ends(m, FALSE) /\ Answer(h) /\ UNCHANGED used
    <3>1. MailTables'
      BY <1>3, <2>1, <2>4, MailEndsInTable DEF MailTables
    <3>2. request'[h] = Null
      BY <1>2, <2>4, Answers
    <3>3. QED
      BY <1>4, <1>5, <2>1, <2>4, <3>1, <3>2
  <2>5. QED
    BY <1>7, <2>2, <2>3, <2>4 DEF MailTask
<1>8. CASE MailMetadata(h)
  <2>1. request'[h] = Null /\ UNCHANGED <<access, used>>
    BY <1>2, <1>8, Answers DEF MailMetadata, taskVars
  <2>2. On(h).task \in Tasks
    BY <1>8, AptAt DEF MailMetadata, Apart, Apt, On
  <2>3. metadata' \subseteq Tasks
    BY <1>3, <1>8, <2>2 DEF MailMetadata
  <2>4. PICK m : m = On(h).mail
    OBVIOUS
  <2>5. MailTables'
    <3>1. PICK ok \in {Exists(On(h).task), FALSE} : mail' = Ends(m, ok)
      BY <1>8, <2>4 DEF MailMetadata
    <3>2. ok \in BOOLEAN
      BY <3>1 DEF Exists
    <3>3. mail' = [k \in Mails |-> mail'[k]]
      BY <1>3, <3>1, <3>2, MailEndsInTable
    <3>4. QED
      BY <2>3, <3>3 DEF MailTables
  <2>6. QED
    BY <1>4, <1>5, <2>1, <2>5
<1>9. QED
  BY <1>6, <1>7, <1>8

LEMMA MailIsSent ==
  ASSUME MailTables, NEW m, NEW l, NEW u, SendMail(m, l, u)
  PROVE  MailTables'
<1>1. PICK row : mail' = [mail EXCEPT ![m] = row]
  <2>1. CASE mail' = [mail EXCEPT ![m] = [to |-> l, from |-> u, state |-> "sent", made |-> <<>>, rejections |-> 0]]
    BY <2>1
  <2>2. CASE mail' = [mail EXCEPT ![m].state = "sent"]
    BY <2>2
  <2>3. QED
    BY <2>1, <2>2 DEF SendMail
<1>2. UNCHANGED metadata
  BY DEF SendMail
<1>3. QED
  BY <1>1, <1>2, MailChanges DEF MailTables

----------------------------------------------------------------------------
(* What is said. *)
LEMMA ApartComments ==
  ASSUME Apart, Shape, NEW h \in Handlers, CommentsCall(h) \/ CommentsContinue(h),
         UNCHANGED <<templateVars, attachmentVars, checklistVars, mailVars, chatVars, memberVars, accountVars>>
  PROVE  Apart'
<1>1. UNCHANGED <<account, google, links, template, object, attachment, item, mail, metadata, said, reaction, pinned, preview, fetching>>
  BY DEF memberVars, accountVars, templateVars, checklistVars, attachmentVars, mailVars, chatVars, talkVars
<1>2. Moves(h, CommentSteps)
  BY CommentsMove
<1>3. request'[h] # Null => Apt(request'[h], DOMAIN links, said)
  BY <1>2, PlainIsApt DEF Moves, PlainSteps
<1>4. AllApt' /\ AccountTables'
  BY <1>1, <1>2, <1>3, ApartElsewhere DEF Moves
<1>5. UNCHANGED access /\ (UNCHANGED used \/ \E c \in Comments : used' = used \cup {c})
  <2>1. CASE CommentsCall(h)
    BY <2>1 DEF CommentsCall, Comment, EditComment, RemoveComment, Call, taskVars
  <2>2. CASE CommentCreate(h)
    BY <2>2 DEF CommentCreate
  <2>3. CASE CommentUpdate(h) \/ CommentDelete(h) \/ MentionResolve(h) \/ MentionCreate(h) \/ MentionRead(h) \/ MentionSync(h)
    BY <2>3 DEF CommentUpdate, CommentDelete, MentionResolve, MentionCreate, MentionRead, MentionSync, taskVars
  <2>4. QED
    BY <2>1, <2>2, <2>3 DEF CommentsContinue
<1>6. ListTables'
  BY <1>5 DEF Apart, Filled, ListTables
<1>7. QED
  BY <1>1, <1>4, <1>6, TablesStay DEF Apart, Filled

LEMMA ApartNotices ==
  ASSUME Apart, Shape, NEW h \in Handlers, NoticesCall(h) \/ NoticesContinue(h),
         UNCHANGED <<templateVars, attachmentVars, checklistVars, mailVars, chatVars, memberVars, accountVars>>
  PROVE  Apart'
<1>1. UNCHANGED <<account, google, links, template, object, attachment, item, mail, metadata, said, reaction, pinned, preview, fetching>>
  BY DEF memberVars, accountVars, templateVars, checklistVars, attachmentVars, mailVars, chatVars, talkVars
<1>2. Moves(h, NoticeSteps)
  BY NoticesMove
<1>3. request'[h] # Null => Apt(request'[h], DOMAIN links, said)
  BY <1>2, PlainIsApt DEF Moves, PlainSteps
<1>4. AllApt' /\ AccountTables'
  BY <1>1, <1>2, <1>3, ApartElsewhere DEF Moves
<1>5. UNCHANGED <<access, used>>
  <2>1. CASE NoticesCall(h)
    BY <2>1 DEF NoticesCall, UpdatePrefs, Subscribe, Unsubscribe, NotifyAssigned, NotifyStatusChanged, Announce, Call, taskVars
  <2>2. CASE NoticesContinue(h)
    BY <2>2 DEF NoticesContinue, PrefsStore, DeviceStore, Dispatch, taskVars
  <2>3. QED
    BY <2>1, <2>2
<1>6. QED
  BY <1>1, <1>4, <1>5, TablesStay DEF Apart, Filled

LEMMA ChatCallsApt ==
  ASSUME Apart, Shape, NEW h \in Handlers, ChatroomCall(h)
  PROVE  (request'[h] # Null => Apt(request'[h], DOMAIN links, said)) /\ UNCHANGED <<access, used>>
<1> DEFINE Goal == (request'[h] # Null => Apt(request'[h], DOMAIN links, said)) /\ UNCHANGED <<access, used>>
<1> SUFFICES Goal
  OBVIOUS
<1>1. ASSUME NEW u, NEW step, NEW args, NEW r, r = [at |-> step, by |-> u, on |-> args], Chat(h, u, step, args),
             Apt(r, DOMAIN links, said)
      PROVE  Goal
  BY <1>1, Calls DEF Chat, Call, taskVars
<1>2. ASSUME NEW u, NEW step \in PlainSteps, NEW args, Chat(h, u, step, args) PROVE Goal
  <2>1. PICK r : r = [at |-> step, by |-> u, on |-> args]
    OBVIOUS
  <2>2. Apt(r, DOMAIN links, said)
    BY <1>2, <2>1, PlainIsApt
  <2>3. QED
    BY <1>1, <1>2, <2>1, <2>2
<1> HIDE DEF Goal
<1>3. ASSUME NEW u, NEW m, AddReaction(h, u, m), u \in Users PROVE Goal
  <2>1. PICK args : args = [message |-> m]
    OBVIOUS
  <2>2. PICK r : r = [at |-> "chat:react", by |-> u, on |-> args]
    OBVIOUS
  <2>3. m \in said /\ Chat(h, u, "chat:react", args)
    BY <1>3, <2>1 DEF AddReaction
  <2>4. Apt(r, DOMAIN links, said)
    BY <1>3, <2>1, <2>2, <2>3 DEF Apt, FileSteps
  <2>5. QED
    BY <1>1, <2>2, <2>3, <2>4
<1>4. ASSUME NEW u, NEW m, TogglePin(h, u, m) PROVE Goal
  <2>1. PICK args : args = [message |-> m, pin |-> m \notin pinned]
    OBVIOUS
  <2>2. PICK r : r = [at |-> "chat:pin", by |-> u, on |-> args]
    OBVIOUS
  <2>3. m \in said /\ Chat(h, u, "chat:pin", args)
    BY <1>4, <2>1 DEF TogglePin
  <2>4. Apt(r, DOMAIN links, said)
    BY <2>1, <2>2, <2>3 DEF Apt, FileSteps
  <2>5. QED
    BY <1>1, <2>2, <2>3, <2>4
<1>5. ASSUME NEW u, NEW m, RemoveReaction(h, u, m) PROVE Goal
  BY <1>2, <1>5 DEF RemoveReaction, PlainSteps
<1>6. ASSUME NEW u, NEW x, Leave(h, u) \/ MarkRead(h, u) \/ AddMember(h, u, x) \/ Mute(h, u, x) \/ SendMessage(h, u, x) PROVE Goal
  BY <1>2, <1>6 DEF Leave, MarkRead, AddMember, Mute, SendMessage, PlainSteps
<1>7. QED
  BY <1>3, <1>4, <1>5, <1>6 DEF ChatroomCall

LEMMA ApartChatroom ==
  ASSUME Apart, Shape, NEW h \in Handlers, ChatroomCall(h) \/ ChatroomContinue(h),
         UNCHANGED <<templateVars, attachmentVars, checklistVars, mailVars, memberVars, accountVars>>
  PROVE  Apart'
<1>1. UNCHANGED <<account, google, links, template, object, attachment, item, mail, metadata>>
  BY DEF memberVars, accountVars, templateVars, checklistVars, attachmentVars, mailVars
<1>2. Others(h)
  BY ChatroomMove DEF Moves
<1>3. reaction \subseteq said \X Users /\ pinned \cup preview \cup fetching \subseteq said
  BY DEF Apart, Filled, TalkTables
<1>4. ASSUME request'[h] # Null => Apt(request'[h], DOMAIN links, said), UNCHANGED <<access, used>>,
             said \subseteq said', TalkTables'
      PROVE  Apart'
  <2>1. request'[h] # Null => Apt(request'[h], DOMAIN links', said')
    BY <1>1, <1>4, AptStays
  <2>2. AllApt'
    BY <1>1, <1>2, <1>4, <2>1, AptByOne DEF Apart
  <2>3. QED
    BY <1>1, <1>4, <2>2, TablesStay DEF Apart, Filled
<1>5. UNCHANGED talkVars => TalkTables' /\ said \subseteq said'
  BY TablesStay DEF Apart, talkVars
<1>6. ASSUME NEW step \in {"chat:react", "chat:pin"}, At(h, step)
      PROVE  On(h).message \in said /\ (step = "chat:react" => By(h) \in Users)
  BY <1>6, AptAt DEF Apart, Apt, On, By
<1>7. CASE ChatroomCall(h)
  <2>1. UNCHANGED talkVars
    BY <1>7 DEF ChatroomCall, chatVars
  <2>2. QED
    BY <1>4, <1>5, <1>7, <2>1, ChatCallsApt
<1>8. CASE SeatStore(h)
  <2>1. UNCHANGED <<talkVars, access, used>> /\ request'[h] = Null
    BY <1>8, Answers DEF SeatStore, taskVars
  <2>2. QED
    BY <1>4, <1>5, <2>1
<1>9. CASE MessageStore(h)
  <2>1. UNCHANGED <<access, used, reaction, pinned, preview>>
    BY <1>9 DEF MessageStore, taskVars
  <2>2. CASE Answer(h) /\ UNCHANGED <<said, fetching>>
    <3>1. request'[h] = Null
      BY <2>2, Answers
    <3>2. QED
      BY <1>4, <1>5, <2>1, <2>2, <3>1 DEF talkVars
  <2>3. CASE \E m \in Talks \ said :
               /\ said' = said \cup {m} /\ fetching' \in {fetching, fetching \cup {m}}
               /\ Await(h, [request[h] EXCEPT !.at = "chat:notify"])
    <3>1. PICK m : /\ said' = said \cup {m} /\ fetching' \in {fetching, fetching \cup {m}}
                   /\ Await(h, [request[h] EXCEPT !.at = "chat:notify"])
      BY <2>3
    <3>2. PICK r : r = [request[h] EXCEPT !.at = "chat:notify"]
      OBVIOUS
    <3>3. request'[h] = r
      BY <3>1, <3>2, Awaits
    <3>4. r.at \in PlainSteps
      BY <1>9, <3>2 DEF MessageStore, At, Shape, PlainSteps
    <3>5. TalkTables'
      BY <1>3, <2>1, <3>1 DEF TalkTables
    <3>6. QED
      BY <1>4, <2>1, <3>1, <3>3, <3>4, <3>5, PlainIsApt
  <2>4. QED
    BY <1>9, <2>2, <2>3 DEF MessageStore
<1>10. CASE NotifyParticipants(h)
  <2>1. UNCHANGED <<talkVars, access, used>>
    BY <1>10 DEF NotifyParticipants, taskVars, chatVars
  <2>2. Moves(h, NoticeSteps)
    <3>1. PICK e, first, next : Tell(h, e, first, next)
      BY <1>10 DEF NotifyParticipants
    <3>2. QED
      BY <3>1, TellMoves DEF Moves, NoticeSteps
  <2>3. request'[h] # Null => Apt(request'[h], DOMAIN links, said)
    BY <2>2, PlainIsApt DEF Moves, PlainSteps
  <2>4. QED
    BY <1>4, <1>5, <2>1, <2>3
<1>11. CASE MarkStore(h)
  <2>1. UNCHANGED <<access, used, said, preview, fetching>> /\ request'[h] = Null
    BY <1>11, Answers DEF MarkStore, taskVars
  <2>2. TalkTables'
    BY <1>3, <1>6, <1>11, <2>1 DEF MarkStore, ReactionStore, ReactionRemove, PinStore, TalkTables
  <2>3. QED
    BY <1>4, <2>1, <2>2
<1>12. QED
  BY <1>7, <1>8, <1>9, <1>10, <1>11 DEF ChatroomContinue

----------------------------------------------------------------------------
(* Every step keeps the tables. *)
LEMMA ApartContent ==
  ASSUME Apart, Tree, Lined, NEW h \in Handlers, Content(h)
  PROVE  Apart'
<1>1. Shape /\ UNCHANGED <<memberVars, accountVars>>
  BY DEF Content, Tree
<1>2. CASE (TemplatesCall(h) \/ TemplatesContinue(h)) /\ UNCHANGED <<attachmentVars, checklistVars, mailVars, chatVars>>
  BY <1>1, <1>2, ApartTemplates
<1>3. CASE (AttachmentsCall(h) \/ AttachmentsContinue(h)) /\ UNCHANGED <<templateVars, checklistVars, mailVars, chatVars>>
  BY <1>1, <1>3, ApartFiles
<1>4. CASE (ChecklistsCall(h) \/ ChecklistsContinue(h)) /\ UNCHANGED <<templateVars, attachmentVars, mailVars, chatVars>>
  BY <1>1, <1>4, ApartItems
<1>5. CASE (CommentsCall(h) \/ CommentsContinue(h)) /\ UNCHANGED <<templateVars, attachmentVars, checklistVars, mailVars, chatVars>>
  BY <1>1, <1>5, ApartComments
<1>6. CASE ((\E m \in Mails : Ingest(h, m)) \/ MailTask(h) \/ MailMetadata(h))
           /\ UNCHANGED <<templateVars, attachmentVars, checklistVars, chatVars>>
  BY <1>1, <1>6, ApartMails
<1>7. CASE (NoticesCall(h) \/ NoticesContinue(h)) /\ UNCHANGED <<templateVars, attachmentVars, checklistVars, mailVars, chatVars>>
  BY <1>1, <1>7, ApartNotices
<1>8. CASE (ChatroomCall(h) \/ ChatroomContinue(h)) /\ UNCHANGED <<templateVars, attachmentVars, checklistVars, mailVars>>
  BY <1>1, <1>8, ApartChatroom
<1>9. QED
  BY <1>2, <1>3, <1>4, <1>5, <1>6, <1>7, <1>8 DEF Content

(* Nobody's request moves, or all of them are gone. *)
LEMMA ApartUnasked ==
  ASSUME Apart, UNCHANGED request \/ (\A h \in Handlers : request'[h] = Null),
         DOMAIN links \subseteq DOMAIN links', said \subseteq said', Filled'
  PROVE  Apart'
<1>1. ASSUME NEW h \in Handlers, request'[h] # Null PROVE Apt(request'[h], DOMAIN links', said')
  <2>1. request'[h] = request[h] /\ Apt(request[h], DOMAIN links, said)
    BY <1>1 DEF Apart, AllApt
  <2>2. QED
    BY <2>1, AptStays
<1>2. QED
  BY <1>1 DEF Apart, AllApt

LEMMA ApartUnserved ==
  ASSUME Apart, Time \/ Mailing \/ Pushing \/ Chatting \/ Crash \/ UNCHANGED vars
  PROVE  Apart'
<1> USE DEF contentVars, memberVars, accountVars, taskVars, templateVars, attachmentVars, checklistVars, mailVars, chatVars, talkVars
<1>1. Filled
  BY DEF Apart
<1>2. CASE (\E v \in invitations : Expire(v) /\ UNCHANGED <<accountVars, taskVars, contentVars>>) \/ Pushing \/ UNCHANGED vars
  <2>1. UNCHANGED <<request, account, google, links, access, used, template, object, attachment, item, mail, metadata, said,
                    reaction, pinned, preview, fetching>>
    BY <1>2 DEF Expire, Pushing, Pushes, Forget, vars
  <2>2. QED
    BY <1>1, <2>1, TablesStay, ApartUnasked DEF Filled
<1>3. CASE \E l \in DOMAIN links : ExpireLink(l) /\ UNCHANGED <<taskVars, contentVars>>
  <2>1. PICK l \in DOMAIN links : ExpireLink(l) /\ UNCHANGED <<taskVars, contentVars>>
    BY <1>3
  <2>2. AccountTables' /\ DOMAIN links' = DOMAIN links
    BY <1>1, <2>1, LinkExpires
  <2>3. UNCHANGED <<request, access, used, template, object, attachment, item, mail, metadata, said,
                    reaction, pinned, preview, fetching>>
    BY <2>1 DEF ExpireLink
  <2>4. QED
    BY <1>1, <2>2, <2>3, TablesStay, ApartUnasked DEF Filled
<1>4. CASE (AutoArchive \/ TrashCleanup \/ Tick) /\ Cascade /\ UNCHANGED <<memberVars, accountVars>>
  <2>1. UNCHANGED <<request, account, google, links, access, used, said>>
    BY <1>4 DEF AutoArchive, TrashCleanup, Tick, Cascade
  <2>2. QED
    BY <1>1, <1>4, <2>1, TablesStay, TablesFollow, ApartUnasked DEF Filled
<1>5. CASE Mailing
  <2>1. UNCHANGED <<request, account, google, links, access, used, template, object, attachment, item, said,
                    reaction, pinned, preview, fetching>>
    BY <1>5 DEF Mailing, SendMail
  <2>2. MailTables'
    BY <1>1, <1>5, MailIsSent DEF Mailing, Filled
  <2>3. QED
    BY <1>1, <2>1, <2>2, TablesStay, ApartUnasked DEF Filled
<1>6. CASE Chatting
  <2>1. UNCHANGED <<request, account, google, links, access, used, template, object, attachment, item, mail, metadata, said>>
    BY <1>6 DEF Chatting, Background, MuteEnds, AttachLinkPreview
  <2>2. TalkTables'
    BY <1>1, <1>6 DEF Chatting, Background, MuteEnds, AttachLinkPreview, Filled, TalkTables
  <2>3. QED
    BY <1>1, <2>1, <2>2, TablesStay, ApartUnasked DEF Filled
<1>7. CASE Crash
  <2>1. UNCHANGED <<account, google, links, access, used, template, object, attachment, item, said>>
    BY <1>7 DEF Crash, ChatroomCutOff
  <2>2. UNCHANGED request \/ \A h \in Handlers : request'[h] = Null
    BY <1>7 DEF Crash, Die
  <2>3. TalkTables'
    BY <1>1, <1>7 DEF Crash, ChatroomCutOff, Filled, TalkTables
  <2>4. MailTables'
    <3>1. mail' = [m \in Mails |-> IF mail[m] # Null /\ mail[m].state = "taken" THEN Ends(m, FALSE)[m] ELSE mail[m]]
          /\ UNCHANGED metadata
      BY <1>7 DEF Crash, MailsCutOff
    <3>2. mail' = [m \in Mails |-> mail'[m]]
      BY <3>1
    <3>3. QED
      BY <1>1, <3>1, <3>2 DEF Filled, MailTables
  <2>5. QED
    BY <1>1, <2>1, <2>2, <2>3, <2>4, TablesStay, ApartUnasked DEF Filled
<1>8. QED
  BY <1>2, <1>3, <1>4, <1>5, <1>6, <1>7 DEF Time

LEMMA ApartNext ==
  ASSUME Apart, Tree, Invited, Lined, [Next]_vars
  PROVE  Apart'
<1>1. ASSUME NEW h \in Handlers, Serve(h) PROVE Apart'
  BY <1>1, ApartMembers, ApartSignIn, ApartBoard, ApartContent DEF Serve, Tree
<1>2. QED
  BY <1>1, ApartUnserved DEF Next

LEMMA ApartInit ==
  ASSUME Init
  PROVE  Apart
<1>1. PICK s \in Starts :
        /\ InitMembers(s.member) /\ InitTemplates(s.template)
        /\ InitTasks(s.list, s.access, s.task, {i \in Items : s.item[i] # Null})
        /\ InitChecklists(s.item) /\ InitChatroom(s.sitting, s.said)
  BY DEF Init
<1>2. /\ s.member \in [Users -> MemberRows \cup {Null}] /\ s.access \subseteq Lists \X Users
      /\ s.item \in [Items -> ItemRows \cup {Null}] /\ s.template \in [Templates -> TemplateRows \cup {Null}]
  BY StartsAreTidy
<1>3. TemplateTable
  BY <1>1, <1>2 DEF InitTemplates, TemplateTable
<1>4. AccountTables
  <2>1. account \subseteq Users
    BY <1>1 DEF InitMembers
  <2>2. google = {} /\ links = << >>
    BY DEF Init, InitAccounts
  <2>3. << >> \in Seq(LinkRows)
    OBVIOUS
  <2>4. QED
    BY <2>1, <2>2, <2>3 DEF AccountTables
<1>5. ListTables
  BY <1>1, <1>2 DEF InitTasks, ListTables
<1>6. FileTables /\ MailTables
  BY DEF Init, InitAttachments, InitMails, FileTables, MailTables
<1>7. ItemTable
  BY <1>1, <1>2 DEF InitChecklists, ItemTable
<1>8. TalkTables
  BY <1>1 DEF InitChatroom, TalkTables
<1>9. AllApt
  BY DEF Init, InitRequests, AllApt
<1>10. QED
  BY <1>3, <1>4, <1>5, <1>6, <1>7, <1>8, <1>9 DEF Apart, Filled

LEMMA TablesAreApart == Spec => []Apart
<1>1. Init => Apart
  BY ApartInit
<1>2. Apart /\ Tree /\ Invited /\ Lined /\ [Next]_vars => Apart'
  BY ApartNext
<1>3. QED
  BY <1>1, <1>2, TreeIsKept, InvitationsAreKept, ListsAreLined, PTL DEF Spec
=============================================================================
