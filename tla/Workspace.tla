------------------------------ MODULE Workspace ------------------------------
(***************************************************************************)
(* A workspace: its members, their accounts, its tasks and what hangs on   *)
(* them, served by the same process.  The parts meet in the guard every    *)
(* request passes, in the members that tasks, templates and comments name, *)
(* in the rows that go when a task or a list goes, and in the deactivation *)
(* of a member, which asks for the open tasks first.                       *)
(***************************************************************************)
EXTENDS Accounts, Templates, Attachments, Checklists, Comments, Ingestion, Chatroom

CONSTANT Starts   \* the workspaces a behaviour may start from, each with the first
                  \* steps of the requests that arrive in it: the bound of a behaviour

ASSUME StartsAreTidy ==
  \A s \in Starts :
    /\ s.member \in [Users -> MemberRows \cup {Null}] /\ AdminsOf(s.member) # {}
    /\ s.list \in [Lists -> Users \cup {Null}] /\ s.access \subseteq Lists \X Users
    /\ s.task \in [Tasks -> TaskRows \cup {Null}] /\ IsForest(s.task)
    /\ \A t \in Tasks : s.task[t] # Null => s.task[t].status = "todo" /\ s.task[t].deleted = Null
    /\ s.template \in [Templates -> TemplateRows \cup {Null}] /\ s.routes \subseteq STRING
    /\ \A t \in Templates : s.template[t] # Null => CountsDown(s.template[t])
    /\ s.device \in [Devices -> Users \cup {Null}] /\ s.push \in BOOLEAN /\ s.watch \subseteq Nat
    /\ s.item \in [Items -> ItemRows \cup {Null}]
    /\ s.sitting \subseteq Users /\ s.said \subseteq Talks

VARIABLE routes   \* of the start

contentVars == <<templateVars, attachmentVars, checklistVars, commentVars, mailVars, chatVars, noticeVars>>
vars == <<request, served, memberVars, accountVars, taskVars, contentVars, routes>>

Init ==
  /\ InitRequests /\ InitAccounts /\ InitAttachments /\ InitComments /\ InitMails
  /\ \E s \in Starts :
       /\ InitMembers(s.member) /\ InitTemplates(s.template)
       /\ InitTasks(s.list, s.access, s.task, {i \in Items : s.item[i] # Null})
       /\ InitChecklists(s.item) /\ InitChatroom(s.sitting, s.said)
       /\ \E w \in s.watch : InitNotices(s.device, s.push, w)
       /\ routes = s.routes

(* What refers to a task goes with it. *)
Cascade ==
  /\ AttachmentsFollow /\ ChecklistsFollow /\ CommentsFollow /\ MetadataFollows
  /\ UNCHANGED <<templateVars, chatVars, noticeVars>>

-----------------------------------------------------------------------------
(* The first steps of the requests on each part. *)
MemberRoutes ==
  {"invite", "revoke", "resend", "accept", "reactivate",
   "patch:count", "patch:write", "deactivate:count", "deactivate:tasks"}
AccountRoutes == {"signup", "google", "forgot", "reset"}
TaskRoutes ==
  {"list:create", "list:delete", "list:add", "list:remove", "create", "status", "move", "assign",
   "remove", "restore", "archive", "unarchive", "lock", "purge"}
TemplateRoutes == {"template:create", "template:update", "template:remove", "template:list", "template:task"}
FileRoutes == {"file:put", "file:delete"}
ItemRoutes == {"item:add", "item:check", "item:remove", "item:order"}
CommentRoutes == {"comment:create", "comment:update", "comment:delete"}
NoticeRoutes == {"prefs", "subscribe", "tell"}
ChatRoutes ==
  {"chat:leave", "chat:add", "chat:mute", "chat:mark", "chat:send", "chat:react", "chat:unreact", "chat:pin"}

Open(part) == routes \cap part # {}

(* Only what the start has routes for arrives. *)
Routed(h) == request[h] = Null /\ request'[h] # Null => request'[h].at \in routes

Members(h) ==
  /\ \/ Open(MemberRoutes) /\ MembersCall(h)
     \/ MembersContinue(h) \/ DeactivateTasks(h, OpenTasks(request[h].user))
  /\ Routed(h) /\ EventsFollow
  /\ UNCHANGED <<accountVars, taskVars, templateVars, attachmentVars, checklistVars, commentVars, mailVars, chatVars>>

SignIn(h) ==
  /\ (Open(AccountRoutes) /\ AccountsCall(h)) \/ AccountsContinue(h)
  /\ Routed(h) /\ UNCHANGED <<taskVars, contentVars>>

Board(h) ==
  /\ (Open(TaskRoutes) /\ TasksCall(h)) \/ TasksContinue(h)
  /\ Routed(h) /\ Cascade /\ UNCHANGED <<memberVars, accountVars>>

Content(h) ==
  /\ \/ /\ (Open(TemplateRoutes) /\ TemplatesCall(h)) \/ TemplatesContinue(h)
        /\ Routed(h) /\ UNCHANGED <<attachmentVars, checklistVars, commentVars, mailVars, chatVars, noticeVars>>
     \/ /\ (Open(FileRoutes) /\ AttachmentsCall(h)) \/ AttachmentsContinue(h)
        /\ Routed(h) /\ UNCHANGED <<templateVars, checklistVars, commentVars, mailVars, chatVars, noticeVars>>
     \/ /\ (Open(ItemRoutes) /\ ChecklistsCall(h)) \/ ChecklistsContinue(h)
        /\ Routed(h) /\ UNCHANGED <<templateVars, attachmentVars, commentVars, mailVars, chatVars, noticeVars>>
     \/ /\ (Open(CommentRoutes) /\ CommentsCall(h)) \/ CommentsContinue(h)
        /\ Routed(h) /\ UNCHANGED <<templateVars, attachmentVars, checklistVars, mailVars, chatVars>>
     \/ /\ (\E m \in Mails : Ingest(h, m)) \/ MailTask(h) \/ MailMetadata(h)
        /\ Routed(h) /\ UNCHANGED <<templateVars, attachmentVars, checklistVars, commentVars, chatVars, noticeVars>>
     \/ /\ (Open(NoticeRoutes) /\ NoticesCall(h)) \/ NoticesContinue(h)
        /\ Routed(h) /\ UNCHANGED <<templateVars, attachmentVars, checklistVars, commentVars, mailVars, chatVars>>
     \/ /\ (Open(ChatRoutes) /\ ChatroomCall(h)) \/ ChatroomContinue(h)
        /\ Routed(h) /\ UNCHANGED <<templateVars, attachmentVars, checklistVars, commentVars, mailVars>>
  /\ UNCHANGED <<memberVars, accountVars>>

Serve(h) == Members(h) \/ SignIn(h) \/ Board(h) \/ Content(h)

Time ==
  \/ \E v \in invitations : Expire(v) /\ UNCHANGED <<accountVars, taskVars, contentVars>>
  \/ \E l \in DOMAIN links : ExpireLink(l) /\ UNCHANGED <<taskVars, contentVars>>
  \/ (AutoArchive \/ TrashCleanup \/ Tick) /\ Cascade /\ UNCHANGED <<memberVars, accountVars>>

Mailing ==
  /\ "mail:task" \in routes
  /\ \E m \in Mails, l \in Lists, u \in Users : SendMail(m, l, u)
  /\ UNCHANGED <<memberVars, accountVars, templateVars, attachmentVars, checklistVars, commentVars, chatVars, noticeVars>>

Pushing ==
  /\ Pushes \/ \E d \in Devices : Forget(d)
  /\ UNCHANGED <<memberVars, accountVars, templateVars, attachmentVars, checklistVars, commentVars, mailVars, chatVars>>

Chatting ==
  Background /\ UNCHANGED <<memberVars, accountVars, templateVars, attachmentVars, checklistVars, commentVars, mailVars>>

(* The process dies, with what no handler waits for, and is started again. *)
Crash ==
  /\ Die \/ (Quiet /\ pushing \cup fetching # {} /\ UNCHANGED <<request, served>>)
  /\ CommentsCutOff /\ MailsCutOff /\ NoticesCutOff /\ ChatroomCutOff
  /\ UNCHANGED <<memberVars, accountVars, taskVars, templateVars, attachmentVars, checklistVars>>

Next == (Mailing \/ Pushing \/ Chatting \/ Time \/ Crash \/ \E h \in Handlers : Serve(h)) /\ UNCHANGED routes

Spec == Init /\ [][Next]_vars

-----------------------------------------------------------------------------
TypeOK ==
  /\ served \in 0..MaxRequests
  /\ account \subseteq Users /\ member \in [Users -> MemberRows \cup {Null}]
  /\ invitations \subseteq Invitations /\ dead \subseteq DOMAIN mailed
  /\ google \subseteq account /\ links \in Seq(LinkRows)
  /\ list \in [Lists -> Users \cup {Null}] /\ access \subseteq Lists \X Users
  /\ task \in [Tasks -> TaskRows \cup {Null}] /\ clock \in Moments
  /\ used \subseteq Lists \cup Tasks \cup Files \cup Items \cup Comments
  /\ template \in [Templates -> TemplateRows \cup {Null}]
  /\ object \subseteq Files /\ attachment \in [Files -> [task : Tasks, by : Users] \cup {Null}]
  /\ item \in [Items -> ItemRows \cup {Null}]
  /\ comment \in [Comments -> CommentRows \cup {Null}] /\ mention \in [Comments -> [Users -> Nat]]
  /\ prefs \in [Users -> Prefs] /\ subscription \in [Devices -> Users \cup {Null}]
  /\ mail \in [Mails -> MailRows \cup {Null}] /\ metadata \subseteq Tasks
  /\ seat \in [Users -> Seats \cup {Null}] /\ reaction \subseteq said \X Users
  /\ said \subseteq Talks /\ pinned \cup preview \cup fetching \subseteq said
=============================================================================
