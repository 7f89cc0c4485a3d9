------------------------------ MODULE MCWorkspace ------------------------------
(* Small workspaces of an admin and one more user.  In the first four, of a colleague with
   work to do, a stranger to invite and a former admin, members and tasks change; in each
   of the others one more part of the system is at work. *)
EXTENDS Workspace, TLC

CONSTANTS ann, bob, l1, l2, t1, t2, t3, p1, p2, d1, x1, i1, i2, i3

Active(r) == [role |-> r, active |-> TRUE]
With(row) == (ann :> Active("admin")) @@ (bob :> row)
Todo(l, p) ==
  [list |-> l, parent |-> p, status |-> "todo", completed |-> Null, archived |-> FALSE,
   deleted |-> Null, locked |-> FALSE, creator |-> ann, assignee |-> bob]

NoTemplates == [t \in Templates |-> Null]
NoItems == [i \in Items |-> Null]
NoDevices == [d \in Devices |-> Null]

(* A start of the members and the tables of tasks, with the requests that arrive; the rest
   is empty, and no event is watched. *)
Start(members, lists, openTo, tasks, what) ==
  [member |-> members, list |-> lists, access |-> openTo, task |-> tasks, template |-> NoTemplates,
   device |-> NoDevices, push |-> FALSE, watch |-> {0},
   item |-> NoItems, sitting |-> {}, said |-> {}, routes |-> what]

Busy(what) ==
  Start(With(Active("employee")), (l1 :> ann) @@ (l2 :> bob), {<<l1, ann>>, <<l2, bob>>},
        (t1 :> Todo(l1, Null)) @@ (t2 :> Todo(l1, t1)) @@ (t3 :> Null), what)
Empty(row) ==
  Start(With(row), [l \in Lists |-> Null], {}, [t \in Tasks |-> Null], MemberRoutes \cup TaskRoutes)

(* A list with one task, bob's if he is a member. *)
Small(row, what) ==
  Start(With(row), (l1 :> ann) @@ (l2 :> Null), {<<l1, ann>>},
        (t1 :> [Todo(l1, Null) EXCEPT !.assignee = IF row = Null THEN ann ELSE bob]) @@ (t2 :> Null) @@ (t3 :> Null),
        what)
Pair(what) == Small(Active("employee"), what)
Alone(what) == Small(Null, what)

(* Its sixth version: the history is full. *)
Version(n) == [version |-> n, data |-> <<bob>>]
Template ==
  [type |-> "list", creator |-> ann, shared |-> TRUE, version |-> 6, data |-> <<ann, bob>>,
   history |-> [i \in 1..5 |-> Version(6 - i)]]

Item(n) == [task |-> t1, checked |-> FALSE, place |-> n]

MCDrafts == {<<bob>>}
MCPatches == {"task_comment" :> FALSE, ("push" :> FALSE) @@ ("inApp" :> FALSE)}
MCBodies == {{}, {bob}}

MCStarts ==
  {Busy({"list:delete", "create", "move", "remove"}),
   Busy({"status", "assign", "remove", "restore", "archive", "unarchive", "lock", "purge",
         "deactivate:tasks", "reactivate"}),
   Empty(Null), Empty([role |-> "admin", active |-> FALSE]),
   [Pair({"template:update", "template:remove"})
      EXCEPT !.template = (p1 :> Template) @@ (p2 :> Null)],
   [Alone({"template:create", "template:update", "template:list", "template:task", "list:delete"})
      EXCEPT !.template = (p1 :> Template) @@ (p2 :> [Template EXCEPT !.type = "task", !.data = <<Null>>])],
   Pair(MemberRoutes), Pair(FileRoutes \cup {"list:delete"}),
   [Pair(ItemRoutes \cup {"list:delete"})
      EXCEPT !.item = (i1 :> Item(0)) @@ (i2 :> Item(1)) @@ (i3 :> Null)],
   Pair({"comment:create", "comment:update"}),
   [Pair({"comment:create", "comment:delete", "list:delete"}) EXCEPT !.watch = {2}],
   [Pair({"tell", "prefs", "deactivate:tasks"})
      EXCEPT !.push = TRUE, !.device = (d1 :> bob), !.watch = {2}],
   [Pair({"tell", "subscribe"}) EXCEPT !.push = TRUE, !.device = (d1 :> bob), !.watch = {2}],
   [Pair({"chat:send", "chat:mute"}) EXCEPT !.watch = {2}, !.sitting = Users],
   [Pair(ChatRoutes \ {"chat:send", "chat:mute"}) EXCEPT !.sitting = Users, !.said = {x1}],
   Alone({"mail:task", "list:delete"}),
   Alone(AccountRoutes)}

MCAccountStarts == {Alone(AccountRoutes)}

Symmetry == Permutations(Handlers)
=============================================================================
