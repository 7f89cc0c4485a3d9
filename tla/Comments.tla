------------------------------- MODULE Comments -------------------------------
(***************************************************************************)
(* The comments on a task, and the members they mention                    *)
(* (comments.module.ts).  Of a body the users it names are kept.           *)
(***************************************************************************)
EXTENDS Notices

CONSTANTS
  Comments,   \* a comment's id is never used twice
  Bodies      \* the bodies a client sends, as the users they name

VARIABLES
  comment,   \* comment -> row, or Null
  mention,   \* comment -> user -> how many mention rows: no index keeps them apart
  owed       \* history: comment -> whom its last writing found to mention, or Null once
             \* two writings overlapped or one was cut off

commentVars == <<comment, mention, owed>>

CommentRows == [task : Tasks, author : Users, names : SUBSET Users]

(* What a request knows that stores a comment, and then who is mentioned. *)
CommentRequests ==
  LET Followers == SUBSET [to : Users, channel : {"task_comment"}, nth : 1..2, seen : {Null}]
  IN  [at : {"comment:create"}, by : Users,
       on : [task : Tasks, names : SUBSET Users, followers : Followers, event : Nat]]
      \cup [at : {"comment:update"}, by : Users,
            on : [comment : Comments, author : Users, names : SUBSET Users, event : Nat]]
      \cup [at : {"mention:resolve"}, by : Users,
            on : [comment : Comments, author : Users, followers : Followers, edit : BOOLEAN, names : SUBSET Users,
                  event : Nat]]
      \cup [at : {"mention:create", "mention:read"}, by : Users,
            on : [comment : Comments, want : SUBSET Users, followers : Followers, author : Users, event : Nat]]
      \cup [at : {"mention:sync"}, by : Users,
            on : [comment : Comments, want : SUBSET Users, have : SUBSET Users, event : Nat]]

ASSUME BodiesNameUsers == Bodies \subseteq SUBSET Users
ASSUME NullIsNoComment == Null \notin CommentRows \cup CommentRequests

Unmentioned == [u \in Users |-> 0]

InitComments ==
  /\ comment = [c \in Comments |-> Null] /\ mention = [c \in Comments |-> Unmentioned]
  /\ owed = [c \in Comments |-> {}]

(* Comments go with their task, mentions with their comment. *)
CommentsFollow ==
  /\ comment' = [c \in Comments |-> IF comment[c] # Null /\ task'[comment[c].task] = Null
                                      THEN Null ELSE comment[c]]
  /\ mention' = [c \in Comments |-> IF comment'[c] = Null THEN Unmentioned ELSE mention[c]]
  /\ UNCHANGED owed

(* The comments whose mentions are being written; a crash leaves them as they are. *)
BeingWritten ==
  {On(h).comment : h \in {g \in Handlers : \E step \in {"mention:resolve", "mention:create", "mention:read", "mention:sync"} : At(g, step)}}

CommentsCutOff ==
  /\ owed' = [c \in Comments |-> IF c \in BeingWritten THEN Null ELSE owed[c]]
  /\ UNCHANGED <<comment, mention>>

-----------------------------------------------------------------------------
quiet == <<prefs, asked, subscription, gone, notice, pushing, rung, watched>>

Write(h, c, author, followers, edit) ==
  Await(h, [at |-> "mention:resolve", by |-> By(h),
            on |-> [comment |-> c, author |-> author, followers |-> followers, edit |-> edit,
                    names |-> On(h).names, event |-> On(h).event]])

(* The creator and the assignee follow a task: a list, that may have a member twice. *)
Following(t) ==
  {Recipient(task[t].creator, "task_comment", 1)} \cup
  IF task[t].assignee = Null THEN {} ELSE {Recipient(task[t].assignee, "task_comment", 2)}

(* Whom a comment concerns: the members it mentions, and who follows the task. *)
Concerned(u, t, names) ==
  LET mentioned == {v \in names \ {u} : Admitted(v)}
  IN  [v \in Users |-> IF v \in mentioned THEN "mention"
                       ELSE IF v \in {task[t].creator, task[t].assignee} \ {u} THEN "task_comment"
                       ELSE Null]

ToldTwice(u, t, names) ==
  IF task[t].creator = task[t].assignee /\ Concerned(u, t, names)[task[t].creator] = "task_comment"
    THEN task[t].creator ELSE Null

Comment(h, u, t, names) ==
  /\ Admitted(u) /\ Exists(t) /\ task[t].deleted = Null
  /\ Call(h, u, "comment:create", [task |-> t, names |-> names, followers |-> Following(t), event |-> Event])
  /\ Happens(Event, Concerned(u, t, names), ToldTwice(u, t, names)) /\ UNCHANGED quiet

CommentCreate(h) ==
  /\ At(h, "comment:create")
  /\ \/ /\ Exists(On(h).task)
        /\ \E c \in Comments \ used :
             /\ comment' = [comment EXCEPT ![c] = [task |-> On(h).task, author |-> By(h), names |-> On(h).names]]
             /\ used' = used \cup {c}
             /\ Write(h, c, By(h), On(h).followers, FALSE) /\ UNCHANGED event
     \/ ~Exists(On(h).task) /\ Answer(h) /\ DoesNotHappen(On(h).event) /\ UNCHANGED <<comment, used>>
  /\ UNCHANGED <<list, access, task, clock, since, mention, owed, quiet>>

(* The author, or an admin; a task in the trash keeps its comments as they are. *)
MayRewrite(u, c) == Admitted(u) /\ comment[c] # Null /\ (IsAdmin(u) \/ comment[c].author = u)

EditComment(h, u, c, names) ==
  /\ MayRewrite(u, c) /\ task[comment[c].task].deleted = Null
  /\ Call(h, u, "comment:update", [comment |-> c, author |-> comment[c].author, names |-> names, event |-> Event])
  /\ UNCHANGED noticeVars

CommentUpdate(h) ==
  /\ At(h, "comment:update")
  /\ LET c == On(h).comment
     IN  IF comment[c] = Null THEN Answer(h) /\ UNCHANGED commentVars
         ELSE /\ comment' = [comment EXCEPT ![c].names = On(h).names]
              /\ owed' = IF c \in BeingWritten THEN [owed EXCEPT ![c] = Null] ELSE owed
              /\ Write(h, c, On(h).author, {}, TRUE)
              /\ UNCHANGED mention
  /\ UNCHANGED <<taskVars, noticeVars>>

-----------------------------------------------------------------------------
(* resolveMentions: the active members the body names, without its author; an edit
   leaves out the editor too. *)
Targets(h) ==
  {u \in On(h).names : Admitted(u)} \ {On(h).author, IF On(h).edit THEN By(h) ELSE On(h).author}

MentionResolve(h) ==
  /\ At(h, "mention:resolve")
  /\ LET c == On(h).comment
     IN  /\ owed' = IF owed[c] = Null THEN owed ELSE [owed EXCEPT ![c] = Targets(h)]
         /\ Await(h, [at |-> IF On(h).edit THEN "mention:read" ELSE "mention:create", by |-> By(h),
                      on |-> [comment |-> c, want |-> Targets(h), followers |-> On(h).followers,
                              author |-> On(h).author, event |-> On(h).event]])
  /\ UNCHANGED <<comment, mention, taskVars, noticeVars>>

Added(rows, users) == [u \in Users |-> rows[u] + IF u \in users THEN 1 ELSE 0]

(* The rows refer to the comment: once it is gone they cannot be stored, and nobody is
   told.  Mutant: who is mentioned is told as a follower as well. *)
AllFollowers(h) == {r \in On(h).followers : r.to # On(h).author}

OtherFollowers(h) == {r \in On(h).followers : r.to \notin {On(h).author} \cup On(h).want}

MentionCreate(h) ==
  /\ At(h, "mention:create")
  /\ LET c == On(h).comment
     IN  IF comment[c] = Null /\ On(h).want # {}
           THEN Answer(h) /\ DoesNotHappen(On(h).event) /\ UNCHANGED mention
           ELSE /\ mention' = [mention EXCEPT ![c] = Added(@, On(h).want)]
                /\ Tell(h, On(h).event, Recipients(On(h).want, "mention"), OtherFollowers(h))
                /\ UNCHANGED event
  /\ UNCHANGED <<comment, owed, taskVars, quiet>>

(* syncMentions compares with the rows there are, and writes the difference. *)
MentionRead(h) ==
  /\ At(h, "mention:read")
  /\ LET have == {u \in Users : mention[On(h).comment][u] > 0}
     IN  /\ Await(h, [request[h] EXCEPT !.at = "mention:sync",
                        !.on = [comment |-> @.comment, want |-> @.want, have |-> have, event |-> @.event]])
         /\ Happens(On(h).event, Concerns(On(h).want \ have, "mention"), Null)
  /\ UNCHANGED <<commentVars, taskVars, quiet>>

(* Mutant: the mentions an edit leaves out stay. *)
SyncedAdding(rows, want, have) == Added(rows, want \ have)

Synced(rows, want, have) ==
  Added([u \in Users |-> IF u \in have \ want THEN 0 ELSE rows[u]], want \ have)

(* Only those the edit adds are told. *)
MentionSync(h) ==
  /\ At(h, "mention:sync")
  /\ LET c == On(h).comment
         added == On(h).want \ On(h).have
     IN  IF comment[c] = Null
           THEN /\ IF added = {} THEN UNCHANGED event ELSE DoesNotHappen(On(h).event)
                /\ Answer(h) /\ UNCHANGED mention
           ELSE /\ mention' = [mention EXCEPT ![c] = Synced(@, On(h).want, On(h).have)]
                /\ Tell(h, On(h).event, Recipients(added, "mention"), {}) /\ UNCHANGED event
  /\ UNCHANGED <<comment, owed, taskVars, quiet>>

-----------------------------------------------------------------------------
RemoveComment(h, u, c) ==
  MayRewrite(u, c) /\ Call(h, u, "comment:delete", [comment |-> c]) /\ UNCHANGED noticeVars

CommentDelete(h) ==
  /\ At(h, "comment:delete") /\ Answer(h)
  /\ comment' = [comment EXCEPT ![On(h).comment] = Null]
  /\ mention' = [mention EXCEPT ![On(h).comment] = Unmentioned]
  /\ UNCHANGED <<owed, taskVars, noticeVars>>

-----------------------------------------------------------------------------
CommentsCall(h) ==
  /\ Free(h)
  /\ \E u \in Users :
       \/ \E names \in Bodies :
            \/ \E t \in Tasks : Comment(h, u, t, names)
            \/ \E c \in Comments : EditComment(h, u, c, names)
       \/ \E c \in Comments : RemoveComment(h, u, c)
  /\ UNCHANGED commentVars

CommentsContinue(h) ==
  \/ CommentCreate(h) \/ CommentUpdate(h) \/ CommentDelete(h)
  \/ MentionResolve(h) \/ MentionCreate(h) \/ MentionRead(h) \/ MentionSync(h)

-----------------------------------------------------------------------------
(* Once nobody is writing a comment, it has one mention row for each member its last
   writing found in the body, and no other, whatever was edited, deactivated or deleted
   on the way; only writings that overlap, or die, leave others. *)
MentionsFollowBody ==
  \A c \in Comments : comment[c] # Null /\ c \notin BeingWritten /\ owed[c] # Null =>
    /\ mention[c] = Added(Unmentioned, owed[c])
    /\ owed[c] \subseteq comment[c].names \ {comment[c].author}
=============================================================================
