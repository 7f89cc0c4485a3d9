------------------------------- MODULE TaskTree -------------------------------
(***************************************************************************)
(* The tasks of a workspace: lists and who may open them, tasks and their  *)
(* subtasks, the archive, the trash and the two nightly sweeps             *)
(* (tasks.module.ts, lists.module.ts, trash.module.ts, permissions.ts,     *)
(* list-access.ts, and the last two processors of workers.module.ts).      *)
(*                                                                         *)
(* Time counts in units that are long beside a request: the clock moves    *)
(* when none is under way.  Of the statuses, done and not done ("todo")    *)
(* are kept.  An id is never used twice.                                   *)
(***************************************************************************)
EXTENDS Membership

CONSTANTS
  Lists, Tasks,
  ArchiveAfter,   \* settings.autoArchiveDays
  PurgeAfter,     \* settings.trashRetentionDays
  LastMoment      \* bound of the clock

Moments == 0..LastMoment
TaskRows ==
  [list : Lists, parent : Tasks \cup {Null}, status : {"todo", "done"}, completed : Moments \cup {Null},
   archived : BOOLEAN, deleted : Moments \cup {Null}, locked : BOOLEAN, creator : Users,
   assignee : Users \cup {Null}]

ASSUME TasksHaveTime == {LastMoment, ArchiveAfter, PurgeAfter} \subseteq Nat
ASSUME NullIsNoTask == Null \notin TaskRows \cup Moments

(* A subtask's parent exists and has no parent of its own. *)
IsForest(tasks) ==
  \A t \in Tasks : tasks[t] # Null /\ tasks[t].parent # Null =>
    tasks[tasks[t].parent] # Null /\ tasks[tasks[t].parent].parent = Null

Unplanned == [done |-> Null, trash |-> Null]

VARIABLES
  list,     \* list -> its creator, or Null
  access,   \* the list members
  task,     \* task -> row, or Null
  used,     \* the ids given out
  clock,
  since     \* history: task -> since when it is done, and in the trash, without a break

taskVars == <<list, access, task, used, clock, since>>

InitTasks(lists, openTo, tasks, others) ==
  /\ list = lists /\ access = openTo /\ task = tasks
  /\ used = {l \in Lists : list[l] # Null} \cup {t \in Tasks : task[t] # Null} \cup others
  /\ clock = 0 /\ since = [t \in Tasks |-> Unplanned]

Kept(holds, before) == IF holds THEN IF before = Null THEN clock ELSE before ELSE Null

(* A statement on the tasks table, and the history that goes with it. *)
Store(tasks) ==
  /\ task' = tasks
  /\ since' = [t \in Tasks |->
                IF task'[t] = Null THEN Unplanned
                ELSE [done |-> Kept(task'[t].status = "done", since[t].done),
                      trash |-> Kept(task'[t].deleted # Null, since[t].trash)]]
  /\ UNCHANGED clock

Exists(t) == task[t] # Null
Children(t) == {c \in Tasks : task[c] # Null /\ task[c].parent = t}

(* Deleting rows: a subtask that stays loses its parent (SET NULL). *)
Without(ts) ==
  [t \in Tasks |-> IF t \in ts THEN Null
                   ELSE IF task[t] # Null /\ task[t].parent \in ts THEN [task[t] EXCEPT !.parent = Null]
                   ELSE task[t]]

(* Every route passes WorkspaceGuard, and goes on to read what it decides on; the role
   is the one the guard has seen. *)
Call(h, u, step, args) ==
  /\ Take(h, [at |-> step, by |-> u, on |-> args])
  /\ UNCHANGED taskVars

By(h) == request[h].by
On(h) == request[h].on
IsAdmin(u) == Admitted(u) /\ member[u].role = "admin"

-----------------------------------------------------------------------------
(* Lists.  assertCanEditSettings, assertCanManageMembers: an admin, or the creator. *)
MayManage(u, l) == Admitted(u) /\ list[l] # Null /\ (IsAdmin(u) \/ list[l] = u)

CreateList(h, u) == Admitted(u) /\ Call(h, u, "list:create", <<>>)
DeleteList(h, u, l) == MayManage(u, l) /\ Call(h, u, "list:delete", [list |-> l])
AddToList(h, u, l, m) == MayManage(u, l) /\ Admitted(m) /\ Call(h, u, "list:add", [list |-> l, user |-> m])
RemoveFromList(h, u, l, m) == MayManage(u, l) /\ Call(h, u, "list:remove", [list |-> l, user |-> m])

ListCreate(h) ==
  /\ At(h, "list:create") /\ Answer(h)
  /\ \E l \in Lists \ used :
       /\ list' = [list EXCEPT ![l] = By(h)]
       /\ access' = access \cup {<<l, By(h)>>} /\ used' = used \cup {l}
  /\ UNCHANGED <<task, clock, since>>

(* The tasks of a deleted list, and its members, go with it. *)
ListDelete(h) ==
  /\ At(h, "list:delete") /\ Answer(h)
  /\ LET l == On(h).list
     IN  /\ list' = [list EXCEPT ![l] = Null]
         /\ access' = {a \in access : a[1] # l}
         /\ Store(Without({t \in Tasks : task[t] # Null /\ task[t].list = l}))
  /\ UNCHANGED used

ListAdd(h) ==
  /\ At(h, "list:add") /\ Answer(h)
  /\ access' = IF list[On(h).list] = Null THEN access ELSE access \cup {<<On(h).list, On(h).user>>}
  /\ UNCHANGED <<list, task, used, clock, since>>

ListRemove(h) ==
  /\ At(h, "list:remove") /\ Answer(h)
  /\ access' = access \ {<<On(h).list, On(h).user>>}
  /\ UNCHANGED <<list, task, used, clock, since>>

-----------------------------------------------------------------------------
(* Creating a task, or a subtask of one that has no parent itself. *)
MayOpen(u, l) == Admitted(u) /\ list[l] # Null /\ (IsAdmin(u) \/ <<l, u>> \in access)

(* Mutant: a subtask may be the parent. *)
CreateTaskUnderAny(h, u, l, p) ==
  /\ MayOpen(u, l)
  /\ p # Null => Exists(p)
  /\ Call(h, u, "create", [list |-> l, parent |-> p])

CreateTask(h, u, l, p) ==
  /\ MayOpen(u, l)
  /\ p # Null => Exists(p) /\ task[p].parent = Null
  /\ Call(h, u, "create", [list |-> l, parent |-> p])

(* Mutant: the creator is left out. *)
NewTaskByNobody(h, a) ==
  [list |-> On(h).list, parent |-> On(h).parent, status |-> "todo", completed |-> Null,
   archived |-> FALSE, deleted |-> Null, locked |-> FALSE, creator |-> Null, assignee |-> a]

NewTask(h, a) ==
  [list |-> On(h).list, parent |-> On(h).parent, status |-> "todo", completed |-> Null,
   archived |-> FALSE, deleted |-> Null, locked |-> FALSE, creator |-> By(h), assignee |-> a]

(* Foreign keys: the list and the parent must still be there.  The assignee is any
   member, the list's default or the creator. *)
TaskCreate(h) ==
  /\ At(h, "create") /\ Answer(h)
  /\ LET fits == list[On(h).list] # Null /\ (On(h).parent # Null => Exists(On(h).parent))
     IN  \/ /\ fits
            /\ \E t \in Tasks \ used, a \in {u \in Users : member[u] # Null} :
                 Store([task EXCEPT ![t] = NewTask(h, a)]) /\ used' = used \cup {t}
         \/ /\ ~fits \/ Tasks \subseteq used
            /\ UNCHANGED <<task, used, clock, since>>
  /\ UNCHANGED <<list, access>>

-----------------------------------------------------------------------------
(* Changing a task.  The row is read, the permission decided on it, and the row
   written by its id: what changes in between is overwritten, what is gone is a 404. *)
MayEdit(u, t) ==   \* canFullEdit, canDelete
  /\ Admitted(u) /\ Exists(t)
  /\ IsAdmin(u) \/ (~task[t].locked /\ task[t].creator = u)

MayChangeStatus(u, t) ==
  Admitted(u) /\ Exists(t) /\ (IsAdmin(u) \/ u \in {task[t].creator, task[t].assignee})

PatchStatus(h, u, t, s) ==
  MayChangeStatus(u, t) /\ Call(h, u, "status", [task |-> t, was |-> task[t].status, to |-> s])
MoveTask(h, u, t, l) ==
  MayEdit(u, t) /\ l # task[t].list /\ MayOpen(u, l) /\ Call(h, u, "move", [task |-> t, to |-> l])
Assign(h, u, t, m) ==
  MayEdit(u, t) /\ (m # Null => member[m] # Null) /\ Call(h, u, "assign", [task |-> t, to |-> m])

StoreRow(h, row) ==
  IF Exists(On(h).task) THEN Store([task EXCEPT ![On(h).task] = row])
  ELSE UNCHANGED <<task, clock, since>>

Row(h) == task[On(h).task]

(* Mutant: the first completion stays. *)
CompletionOnce(was, to, before) == IF to = "done" /\ before = Null THEN clock ELSE before

(* completedAt follows the status that was read, not the one that is overwritten. *)
Completion(was, to, before) ==
  IF to = "done" /\ was # "done" THEN clock
  ELSE IF to # "done" /\ was = "done" THEN Null
  ELSE before

StatusStore(h) ==
  /\ At(h, "status") /\ Answer(h)
  /\ StoreRow(h, [Row(h) EXCEPT !.status = On(h).to,
                                !.completed = Completion(On(h).was, On(h).to, @)])
  /\ UNCHANGED <<list, access, used>>

MoveStore(h) ==
  /\ At(h, "move")
  /\ IF Exists(On(h).task) /\ list[On(h).to] # Null
       THEN StoreRow(h, [Row(h) EXCEPT !.list = On(h).to]) /\ Await(h, [request[h] EXCEPT !.at = "move:subtasks"])
       ELSE UNCHANGED <<task, clock, since>> /\ Answer(h)
  /\ UNCHANGED <<list, access, used>>

MoveSubtasks(h) ==
  /\ At(h, "move:subtasks") /\ Answer(h)
  /\ IF list[On(h).to] # Null
       THEN Store([t \in Tasks |-> IF t \in Children(On(h).task) THEN [task[t] EXCEPT !.list = On(h).to] ELSE task[t]])
       ELSE UNCHANGED <<task, clock, since>>
  /\ UNCHANGED <<list, access, used>>

AssignStore(h) ==
  /\ At(h, "assign") /\ Answer(h)
  /\ StoreRow(h, [Row(h) EXCEPT !.assignee = On(h).to])
  /\ UNCHANGED <<list, access, used>>

-----------------------------------------------------------------------------
(* Trash, archive and lock. *)
Filings == {"remove", "restore", "archive", "unarchive"}

(* A trashed task cannot be archived. *)
File(h, u, t, what) ==
  /\ MayEdit(u, t) /\ (what = "archive" => task[t].deleted = Null)
  /\ Call(h, u, what, [task |-> t])

(* Admins only. *)
Lock(h, u, t, on) == IsAdmin(u) /\ Exists(t) /\ Call(h, u, "lock", [task |-> t, to |-> on])
Purge(h, u, t) == IsAdmin(u) /\ Call(h, u, "purge", [task |-> t])

(* The task and its subtasks, those already in the trash included. *)
TaskRemove(h) ==
  /\ At(h, "remove") /\ Answer(h)
  /\ LET both == {On(h).task} \cup Children(On(h).task)
     IN  Store([t \in Tasks |-> IF t \in both /\ Exists(t) THEN [task[t] EXCEPT !.deleted = clock] ELSE task[t]])
  /\ UNCHANGED <<list, access, used>>

TaskRestore(h) ==
  At(h, "restore") /\ Answer(h) /\ StoreRow(h, [Row(h) EXCEPT !.deleted = Null]) /\ UNCHANGED <<list, access, used>>
TaskArchive(h) ==
  At(h, "archive") /\ Answer(h) /\ StoreRow(h, [Row(h) EXCEPT !.archived = TRUE]) /\ UNCHANGED <<list, access, used>>
TaskUnarchive(h) ==
  At(h, "unarchive") /\ Answer(h) /\ StoreRow(h, [Row(h) EXCEPT !.archived = FALSE]) /\ UNCHANGED <<list, access, used>>
TaskLock(h) ==
  At(h, "lock") /\ Answer(h) /\ StoreRow(h, [Row(h) EXCEPT !.locked = On(h).to]) /\ UNCHANGED <<list, access, used>>

TaskPurge(h) ==
  /\ At(h, "purge") /\ Answer(h)
  /\ Store(Without({t \in {On(h).task} : Exists(t) /\ task[t].deleted # Null}))
  /\ UNCHANGED <<list, access, used>>

-----------------------------------------------------------------------------
(* The nightly jobs: one statement each. *)
Overdue(from, days) == from # Null /\ from + days < clock

AutoArchive ==
  /\ Store([t \in Tasks |->
       IF /\ Exists(t) /\ task[t].status = "done" /\ Overdue(task[t].completed, ArchiveAfter)
          /\ ~task[t].archived /\ task[t].deleted = Null
         THEN [task[t] EXCEPT !.archived = TRUE] ELSE task[t]])
  /\ UNCHANGED <<request, served, list, access, used>>

TrashCleanup ==
  /\ Store(Without({t \in Tasks : Exists(t) /\ Overdue(task[t].deleted, PurgeAfter)}))
  /\ UNCHANGED <<request, served, list, access, used>>

Tick ==
  /\ Quiet /\ clock < LastMoment /\ clock' = clock + 1
  /\ UNCHANGED <<request, served, list, access, task, used, since>>

-----------------------------------------------------------------------------
TasksCall(h) ==
  Free(h) /\ \E u \in Users :
    \/ CreateList(h, u)
    \/ \E l \in Lists :
         \/ DeleteList(h, u, l)
         \/ \E m \in Users : AddToList(h, u, l, m) \/ RemoveFromList(h, u, l, m)
         \/ \E p \in Tasks \cup {Null} : CreateTask(h, u, l, p)
    \/ \E t \in Tasks :
         \/ \E s \in {"todo", "done"} : PatchStatus(h, u, t, s)
         \/ \E l \in Lists : MoveTask(h, u, t, l)
         \/ \E m \in Users \cup {Null} : Assign(h, u, t, m)
         \/ \E f \in Filings : File(h, u, t, f)
         \/ \E on \in BOOLEAN : Lock(h, u, t, on)
         \/ Purge(h, u, t)

TasksContinue(h) ==
  \/ ListCreate(h) \/ ListDelete(h) \/ ListAdd(h) \/ ListRemove(h)
  \/ TaskCreate(h) \/ StatusStore(h) \/ MoveStore(h) \/ MoveSubtasks(h) \/ AssignStore(h)
  \/ TaskRemove(h) \/ TaskRestore(h) \/ TaskArchive(h) \/ TaskUnarchive(h)
  \/ TaskLock(h) \/ TaskPurge(h)

OpenTasks(u) ==
  {t \in Tasks : Exists(t) /\ task[t].assignee = u /\ task[t].status # "done"
                 /\ task[t].deleted = Null /\ ~task[t].archived}

-----------------------------------------------------------------------------
(* Tasks nest one level deep, whatever is purged, deleted with its list or promoted by
   the purge of its parent while a subtask is being created under it. *)
OneLevelDeep == IsForest(task)

(* The sweeps never act early: a task that a sweep archives has been done, and a task
   it purges has been in the trash, without a break for longer than the setting says,
   although the times they go by were written from rows read before other requests. *)
SweepsArePatient ==
  [][ task' # task =>
        /\ AutoArchive => \A t \in Tasks : task'[t] # task[t] => Overdue(since[t].done, ArchiveAfter)
        /\ TrashCleanup => \A t \in Tasks : task[t] # Null /\ task'[t] = Null =>
                             Overdue(since[t].trash, PurgeAfter) ]_<<request, served, taskVars>>
=============================================================================
