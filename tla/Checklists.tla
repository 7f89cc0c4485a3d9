------------------------------ MODULE Checklists ------------------------------
(***************************************************************************)
(* The checklists of tasks (tasks.module.ts).  A new order is one update   *)
(* per item, in one transaction: an updated row stays locked, and nothing  *)
(* shows, until the commit; what needs a locked row waits.  Of an item its *)
(* place and its tick are kept, not its text.                              *)
(***************************************************************************)
EXTENDS TaskTree, Integers

Maps == INSTANCE Functions
Sets == INSTANCE FiniteSetsExt

CONSTANT Items   \* an item's id is never used twice

ASSUME ItemsAreFinite == IsFiniteSet(Items)

VARIABLES
  item,     \* item -> row, or Null
  ordered   \* history: task -> the order last asked for and carried out

checklistVars == <<item, ordered>>

ItemRows == [task : Tasks, checked : BOOLEAN, place : Nat]

InitChecklists(items) == item = items /\ ordered = [t \in Tasks |-> <<>>]

ItemsOf(t) == {i \in Items : item[i] # Null /\ item[i].task = t}

(* The rows a reordering has updated are its own until it commits. *)
Held(h) == IF At(h, "item:order") THEN On(h).held ELSE {}
Unlocked(i) == \A h \in Handlers : i \notin Held(h)

(* The items go with their task: whoever deletes it waits for the locked ones. *)
ChecklistsFollow ==
  /\ item' = [i \in Items |-> IF item[i] # Null /\ task'[item[i].task] = Null THEN Null ELSE item[i]]
  /\ \A i \in Items : item'[i] # item[i] => Unlocked(i)
  /\ UNCHANGED ordered

-----------------------------------------------------------------------------
(* assertChecklistAccess: who may edit the task, or only tick an item. *)
AddItem(h, u, t) ==
  /\ MayEdit(u, t)
  /\ Call(h, u, "item:add", [task |-> t, place |-> 1 + Sets!Max({-1} \cup {item[i].place : i \in ItemsOf(t)})])
  /\ UNCHANGED checklistVars

(* Last, as of the places that were read; unless the task is gone. *)
ItemAdd(h) ==
  /\ At(h, "item:add") /\ Answer(h)
  /\ IF Exists(On(h).task)
       THEN \E i \in Items \ used :
              /\ item' = [item EXCEPT ![i] = [task |-> On(h).task, checked |-> FALSE, place |-> On(h).place]]
              /\ used' = used \cup {i}
       ELSE UNCHANGED <<item, used>>
  /\ UNCHANGED <<ordered, list, access, task, clock, since>>

CheckItem(h, u, i, on) ==
  /\ item[i] # Null /\ MayChangeStatus(u, item[i].task)   \* canToggleChecklist
  /\ Call(h, u, "item:check", [item |-> i, to |-> on]) /\ UNCHANGED checklistVars

ItemCheck(h) ==
  /\ At(h, "item:check") /\ Answer(h)
  /\ LET i == On(h).item
     IN  /\ Unlocked(i)
         /\ item' = IF item[i] = Null THEN item ELSE [item EXCEPT ![i].checked = On(h).to]
  /\ UNCHANGED <<ordered, taskVars>>

RemoveItem(h, u, i) ==
  /\ item[i] # Null /\ MayEdit(u, item[i].task)
  /\ Call(h, u, "item:remove", [item |-> i]) /\ UNCHANGED checklistVars

ItemRemove(h) ==
  /\ At(h, "item:remove") /\ Answer(h)
  /\ Unlocked(On(h).item) /\ item' = [item EXCEPT ![On(h).item] = Null]
  /\ UNCHANGED <<ordered, taskVars>>

-----------------------------------------------------------------------------
(* Any of the task's items, each once. *)
Reorder(h, u, t, ids) ==
  /\ MayEdit(u, t)
  /\ Call(h, u, "item:order", [task |-> t, ids |-> ids, rest |-> ids, held |-> {}])
  /\ UNCHANGED checklistVars

Upcoming(h) == Head(On(h).rest)
Place(ids, i) == Maps!AntiFunction(ids)[i] - 1

Updated(h, held) ==
  Await(h, [request[h] EXCEPT !.on.rest = Tail(@), !.on.held = held])

(* Mutant: each update is committed by itself. *)
ReorderItemAlone(h) ==
  /\ At(h, "item:order") /\ On(h).rest # <<>>
  /\ Unlocked(Upcoming(h))
  /\ item' = IF item[Upcoming(h)] = Null THEN item ELSE [item EXCEPT ![Upcoming(h)].place = Place(On(h).ids, Upcoming(h))]
  /\ Updated(h, {})
  /\ UNCHANGED <<ordered, taskVars>>

ReorderItem(h) ==
  /\ At(h, "item:order") /\ On(h).rest # <<>>
  /\ Unlocked(Upcoming(h))
  /\ Updated(h, On(h).held \cup {Upcoming(h)})
  /\ UNCHANGED <<checklistVars, taskVars>>

ReorderCommit(h) ==
  /\ At(h, "item:order") /\ On(h).rest = <<>> /\ Answer(h)
  /\ item' = [i \in Items |-> IF i \in On(h).held /\ item[i] # Null
                                THEN [item[i] EXCEPT !.place = Place(On(h).ids, i)] ELSE item[i]]
  /\ ordered' = [ordered EXCEPT ![On(h).task] = On(h).ids]
  /\ UNCHANGED taskVars

(* Of two that wait for each other the database gives one up. *)
GivenUp(h) ==
  /\ At(h, "item:order") /\ On(h).rest # <<>>
  /\ \E g \in Handlers \ {h} :
       /\ At(g, "item:order") /\ On(g).rest # <<>>
       /\ Upcoming(h) \in Held(g) /\ Upcoming(g) \in Held(h)
  /\ Answer(h)
  /\ UNCHANGED <<checklistVars, taskVars>>

-----------------------------------------------------------------------------
ChecklistsCall(h) ==
  Free(h) /\ \E u \in Users :
    \/ \E t \in Tasks :
         \/ AddItem(h, u, t)
         \/ \E some \in SUBSET ItemsOf(t) :
              some # {} /\ \E ids \in Maps!Bijection(1..Cardinality(some), some) : Reorder(h, u, t, ids)
    \/ \E i \in Items : RemoveItem(h, u, i) \/ \E on \in BOOLEAN : CheckItem(h, u, i, on)

ChecklistsContinue(h) ==
  ItemAdd(h) \/ ItemCheck(h) \/ ItemRemove(h) \/ ReorderItem(h) \/ ReorderCommit(h) \/ GivenUp(h)

-----------------------------------------------------------------------------
(* A checklist stands in the order that was last carried out, whole: two reorderings
   never leave a mixture of what they asked for, nor does one that is given up or dies
   half-way change anything, whatever is added, ticked or removed meanwhile. *)
OrdersAreKeptWhole ==
  \A t \in Tasks : \A m, n \in DOMAIN ordered[t] :
    LET i == ordered[t][m]
        j == ordered[t][n]
    IN  m < n /\ item[i] # Null /\ item[j] # Null => item[i].place < item[j].place
=============================================================================
