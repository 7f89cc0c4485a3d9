------------------------------ MODULE Templates ------------------------------
(***************************************************************************)
(* Templates of tasks and lists, with their last versions                  *)
(* (templates.module.ts).                                                  *)
(*                                                                         *)
(* Of a template's data the default assignees are kept, one for each task  *)
(* it makes: a task template makes one, a list template any number.  They  *)
(* come from the client unchecked, so that one of them may be no member.   *)
(***************************************************************************)
EXTENDS TaskTree

CONSTANTS
  Templates,
  Drafts        \* the data a client may send

VARIABLES
  template,     \* template -> row, or Null
  past          \* history: template -> the versions it has had, with their data

templateVars == <<template, past>>

Data == Seq(Users \cup {Null})
TemplateRows ==
  [type : {"task", "list"}, creator : Users, shared : BOOLEAN, version : Nat, data : Data,
   history : Seq([version : Nat, data : Data])]

ASSUME DraftsAreData == Drafts \subseteq Data
ASSUME TasksAreFinite == IsFiniteSet(Tasks)

(* At most five versions, from the one before the current down. *)
CountsDown(r) ==
  Len(r.history) <= 5 /\ \A i \in DOMAIN r.history : r.history[i].version = r.version - i

Entry(r) == [version |-> r.version, data |-> r.data]
Entries(r) == {Entry(r)} \cup {r.history[i] : i \in DOMAIN r.history}

InitTemplates(rows) ==
  /\ template = rows
  /\ past = [t \in Templates |-> IF rows[t] = Null THEN {} ELSE Entries(rows[t])]

StoreTemplate(t, row) ==
  /\ template' = [template EXCEPT ![t] = row]
  /\ past' = [past EXCEPT ![t] = @ \cup {Entry(row)}]

(* Data of the wrong shape makes templates nobody can apply, and is left out. *)
Sendable(type) == {d \in Drafts : type = "task" => Len(d) = 1}

(* A template is visible to everyone, or to its creator and the admins. *)
Reaches(u, t) ==
  /\ Admitted(u) /\ template[t] # Null
  /\ IsAdmin(u) \/ template[t].shared \/ template[t].creator = u

-----------------------------------------------------------------------------
(* Four routes make a template: from what the client sends, from another template, from
   a task, and from a list with its tasks, in the order of their creation. *)
NewTemplate(h, u, type, shared, data) ==
  Call(h, u, "template:create",
       [type |-> type, creator |-> u, shared |-> shared, version |-> 1, data |-> data, history |-> <<>>])

CreateTemplate(h, u, type, shared, data) == Admitted(u) /\ NewTemplate(h, u, type, shared, data)

DuplicateTemplate(h, u, t) ==
  Reaches(u, t) /\ NewTemplate(h, u, template[t].type, FALSE, template[t].data)

SaveTask(h, u, t, shared) ==
  /\ Admitted(u) /\ Exists(t) /\ task[t].deleted = Null
  /\ NewTemplate(h, u, "task", shared, <<task[t].assignee>>)

Saved(l) == {t \in Tasks : Exists(t) /\ task[t].list = l /\ task[t].deleted = Null /\ task[t].parent = Null}

SaveList(h, u, l, shared) ==
  /\ Admitted(u) /\ list[l] # Null
  /\ \E order \in [1..Cardinality(Saved(l)) -> Saved(l)] :
       /\ \A i, j \in DOMAIN order : order[i] = order[j] => i = j
       /\ NewTemplate(h, u, "list", shared, [i \in DOMAIN order |-> task[order[i]].assignee])

TemplateCreate(h) ==
  /\ At(h, "template:create") /\ Answer(h)
  /\ \E t \in Templates : past[t] = {} /\ StoreTemplate(t, On(h))
  /\ UNCHANGED taskVars

-----------------------------------------------------------------------------
(* Updating writes a version and a history that follow from the row as it was read.
   What the client leaves out (Null) stays as it is in the table. *)
UpdateTemplate(h, u, t, data, shared) ==
  Reaches(u, t) /\ Call(h, u, "template:update", [id |-> t, seen |-> template[t], data |-> data, shared |-> shared])

Latest(entries) == SubSeq(entries, 1, IF Len(entries) < 5 THEN Len(entries) ELSE 5)

(* Mutants: the oldest five are kept; the new data is filed under the old version. *)
HistoryFromTheEnd(seen, data) == Latest(Append(seen.history, Entry(seen)))
HistoryOfNewData(seen, data) ==
  Latest(<<[version |-> seen.version, data |-> IF data = Null THEN seen.data ELSE data]>> \o seen.history)

History(seen, data) == Latest(<<Entry(seen)>> \o seen.history)

Given(new, old) == IF new = Null THEN old ELSE new

TemplateUpdate(h) ==
  /\ At(h, "template:update") /\ Answer(h)
  /\ LET t == On(h).id
     IN  IF template[t] = Null THEN UNCHANGED templateVars
         ELSE StoreTemplate(t, [template[t] EXCEPT !.version = On(h).seen.version + 1,
                                                   !.history = History(On(h).seen, On(h).data),
                                                   !.data = Given(On(h).data, @),
                                                   !.shared = Given(On(h).shared, @)])
  /\ UNCHANGED taskVars

RemoveTemplate(h, u, t) == Reaches(u, t) /\ Call(h, u, "template:remove", [id |-> t])

TemplateRemove(h) ==
  /\ At(h, "template:remove") /\ Answer(h)
  /\ template' = [template EXCEPT ![On(h).id] = Null]
  /\ UNCHANGED <<past, taskVars>>

-----------------------------------------------------------------------------
(* Applying a template: tasks are stored one by one, for a list template after a list
   of its own.  A task whose list is gone, or whose assignee is no member, fails and
   ends the request; what has been stored stays. *)
ApplyTemplate(h, u, t, l) ==
  /\ Reaches(u, t) /\ template[t].type = "task" /\ list[l] # Null
  /\ Call(h, u, "template:task", [list |-> l, parent |-> Null, data |-> template[t].data])

InstantiateList(h, u, t) ==
  /\ Reaches(u, t) /\ template[t].type = "list"
  /\ Call(h, u, "template:list", [data |-> template[t].data])

Onward(h, l, rest) ==
  IF rest = <<>> THEN Answer(h)
  ELSE Await(h, [at |-> "template:task", by |-> By(h), on |-> [list |-> l, parent |-> Null, data |-> rest]])

TemplateList(h) ==
  /\ At(h, "template:list")
  /\ \E l \in Lists \ used :
       /\ list' = [list EXCEPT ![l] = By(h)]
       /\ access' = access \cup {<<l, By(h)>>} /\ used' = used \cup {l}
       /\ Onward(h, l, On(h).data)
  /\ UNCHANGED <<task, clock, since, templateVars>>

TemplateTask(h) ==
  /\ At(h, "template:task")
  /\ LET a == Given(Head(On(h).data), By(h))
         fits == list[On(h).list] # Null /\ a \in {u \in Users : member[u] # Null}
     IN  \/ /\ fits
            /\ \E t \in Tasks \ used : Store([task EXCEPT ![t] = NewTask(h, a)]) /\ used' = used \cup {t}
            /\ Onward(h, On(h).list, Tail(On(h).data))
         \/ /\ ~fits \/ Tasks \subseteq used
            /\ Answer(h) /\ UNCHANGED <<task, used, clock, since>>
  /\ UNCHANGED <<list, access, templateVars>>

-----------------------------------------------------------------------------
TemplatesCall(h) ==
  /\ Free(h)
  /\ \E u \in Users :
       \/ \E shared \in BOOLEAN :
            \/ \E type \in {"task", "list"} : \E d \in Sendable(type) : CreateTemplate(h, u, type, shared, d)
            \/ \E t \in Tasks : SaveTask(h, u, t, shared)
            \/ \E l \in Lists : SaveList(h, u, l, shared)
       \/ \E t \in Templates :
            \/ DuplicateTemplate(h, u, t) \/ RemoveTemplate(h, u, t) \/ InstantiateList(h, u, t)
            \/ \E l \in Lists : ApplyTemplate(h, u, t, l)
            \/ /\ template[t] # Null
               /\ \E d \in Sendable(template[t].type) \cup {Null}, shared \in BOOLEAN \cup {Null} :
                    UpdateTemplate(h, u, t, d, shared)
  /\ UNCHANGED templateVars

TemplatesContinue(h) ==
  \/ TemplateCreate(h) \/ TemplateUpdate(h) \/ TemplateRemove(h)
  \/ TemplateList(h) \/ TemplateTask(h)

-----------------------------------------------------------------------------
(* The history of a template is true: at most five versions, counting down from the one
   before the current, each with data the template really had under that number. *)
HistoryIsTrue ==
  \A t \in Templates : template[t] # Null =>
    CountsDown(template[t]) /\ \A i \in DOMAIN template[t].history : template[t].history[i] \in past[t]

(* A version gives way to another only by becoming the first of the history, or to an
   update that decided on an older row: overlapping updates are the one way to lose
   a version that was never shown as past. *)
VersionsAreKept ==
  [][ \A t \in Templates :
        template[t] # Null /\ template'[t] # Null /\ template'[t] # template[t] =>
          \/ template'[t].history # <<>> /\ Head(template'[t].history) = Entry(template[t])
          \/ \E h \in Handlers :
               /\ At(h, "template:update") /\ request'[h] # request[h]
               /\ On(h).id = t /\ On(h).seen # template[t] ]_<<request, served, taskVars, templateVars>>
=============================================================================
