---------------------------- MODULE RemindersProofs ----------------------------
(***************************************************************************)
(* Proofs about Reminders, for any calendar, any number of reminders,      *)
(* members, passes, requests and deaths: types, how often a reminder may   *)
(* fire, how often the assignee is told, and when a reminder fires.        *)
(*                                                                         *)
(* A reminder that has fired is never due again, so a pass can only hold   *)
(* it when it was listed before.  Sends counts a reminder's dispatches     *)
(* together with the passes that hold it: firing moves one from the second *)
(* to the first, and listing happens only before the first dispatch.       *)
(***************************************************************************)
EXTENDS Reminders, FiniteSetTheorems, TLAPS

Passes ==
  {Idle} \cup [pc : {"fire"}, todo : SUBSET Reminders]
         \cup [pc : {"send"}, id : Reminders, todo : SUBSET Reminders]

Checks == {Idle} \cup [pc : {"check", "tell"}, to : Members, since : Days]

(* What a re-anchoring lists of a reminder; only relative ones have an offset. *)
Listed == [id : Reminders, offset : Offsets \cup {Null}]

Requests ==
  {Idle} \cup [pc : {"create"}, offset : Offsets, due : Dues]
         \cup [pc : {"patch"}, id : Reminders, offset : Offsets, due : Dues]
         \cup [pc : {"due"}, old : Dues, due : Dues]
         \cup [pc : {"reload"}] \cup [pc : {"pending"}, due : Dues]
         \cup [pc : {"anchor"}, due : Dues, todo : SUBSET Listed]

Typed ==
  /\ now \in 0..LastTime
  /\ task \in TaskRows \cup {Null}
  /\ reminder \in [Reminders -> ReminderRows \cup {Null}] /\ ids \subseteq Reminders
  /\ pass \in [Workers -> Passes]
  /\ check \in [Checkers -> Checks]
  /\ request \in [Clients -> Requests]
  /\ sent \in [Reminders -> Nat]
  /\ rows \subseteq [to : Members, day : Days] /\ told \in [Members \X Days -> Nat]
  /\ adrift \subseteq Reminders

IsRelative(i) == reminder[i].kind = "relative" /\ reminder[i].offset \in Offsets

(* A row exists only under an id that was given out, and under a task; only relative
   rows are re-anchored, and they have an offset. *)
Related ==
  /\ \A i \in Reminders : reminder[i] # Null =>
       /\ i \in ids /\ task # Null
       /\ reminder[i].kind = "relative" => reminder[i].offset \in Offsets
  /\ \A c \in Clients : request[c].pc = "anchor" =>
       \A r \in request[c].todo :
         r.offset \in Offsets /\ r.id \in ids /\ (reminder[r.id] # Null => IsRelative(r.id))

(* Division by the length of a day is monotone. *)
LEMMA DivIsMonotone ==
  ASSUME NEW a \in Nat, NEW b \in Nat, NEW d \in Nat \ {0}, a <= b
  PROVE  a \div d \in Nat /\ a \div d <= b \div d
OBVIOUS

(* The days of the two calendars are days of the instance. *)
LEMMA DaysAreDays ==
  ASSUME NEW t \in 0..LastTime
  PROVE  UtcDay(t) \in Days /\ Today(t) \in Int
<1>1. /\ t \div DayLength \in Nat
      /\ t \div DayLength <= (LastTime + ZoneAhead) \div DayLength
  BY DivIsMonotone, TimeIsSane
<1>2. (LastTime + ZoneAhead) \div DayLength \in Nat /\ (t + ZoneAhead) \div DayLength \in Nat
  BY DivIsMonotone, TimeIsSane
<1>3. QED
  BY <1>1, <1>2 DEF UtcDay, Today, Days

(* The due instant minus the offset is an instant. *)
LEMMA FireTimeIsInstant ==
  ASSUME NEW due \in Dues, NEW offset \in Offsets
  PROVE  FireTime(due, offset) \in Instants
<1>1. due # Null => due \in Int /\ due * DayLength \in Int
  BY TimeIsSane DEF Dues, Days
<1>2. QED
  BY <1>1, TimeIsSane DEF FireTime, Instants

(* A write keeps the type of the table when the row it writes has it. *)
LEMMA WriteType ==
  ASSUME reminder \in [Reminders -> ReminderRows \cup {Null}], NEW i \in Reminders,
         NEW row \in ReminderRows \cup {Null}, Write(i, row)
  PROVE  reminder' \in [Reminders -> ReminderRows \cup {Null}] /\ ids' = ids
BY DEF Write

(* One case per action: each assignment keeps its variable's type. *)
LEMMA TypeStep ==
  ASSUME Typed, Related, [Next]_vars
  PROVE  Typed'
<1> USE DEF Typed, counters
<1>1. CASE UNCHANGED vars
  BY <1>1 DEF vars
<1>2. CASE Tick
  BY <1>2, TimeIsSane DEF Tick
<1>3. CASE Die
  <2>1. \A c \in Clients : ToAnchor(c) \subseteq Reminders
    BY DEF ToAnchor, Requests, Listed, Idle
  <2>2. UNCHANGED <<now, task, reminder, ids, sent, rows, told>>
    BY <1>3 DEF Die
  <2>3. pass' \in [Workers -> Passes] /\ check' \in [Checkers -> Checks] /\ request' \in [Clients -> Requests]
    BY <1>3 DEF Die, Passes, Checks, Requests
  <2>4. adrift' \subseteq Reminders
    BY <1>3, <2>1 DEF Die
  <2>5. QED
    BY <2>2, <2>3, <2>4
<1>4. ASSUME NEW c \in Clients, NEW i \in Reminders, NEW at \in Times, CreateExact(c, i, at)
      PROVE  Typed'
  <2>1. at \in Instants
    BY TimeIsSane DEF Instants
  <2>2. reminder' \in [Reminders -> ReminderRows \cup {Null}] /\ ids' \subseteq Reminders
    BY <1>4, <2>1 DEF CreateExact, Insert, NewRow, ReminderRows
  <2>3. request' \in [Clients -> Requests]
    BY <1>4 DEF CreateExact, Asks, Requests
  <2>4. QED
    BY <1>4, <2>2, <2>3 DEF CreateExact, Asks
<1>5. ASSUME NEW c \in Clients, NEW i \in Reminders, NEW until \in Times, Snooze(c, i, until)
      PROVE  Typed'
  <2>1. until \in Instants
    BY TimeIsSane DEF Instants
  <2>2. reminder' \in [Reminders -> ReminderRows \cup {Null}]
    BY <1>5, <2>1, ZenonT(40) DEF Snooze, Write, ReminderRows
  <2>3. request' \in [Clients -> Requests]
    BY <1>5 DEF Snooze, Asks, Requests
  <2>4. QED
    BY <1>5, <2>2, <2>3 DEF Snooze, Asks, Write
<1>6. ASSUME NEW c \in Clients, NEW offset \in Offsets, CreateRelative(c, offset)
      PROVE  Typed'
  <2>1. task.due \in Dues
    BY <1>6 DEF CreateRelative, TaskRows, Dues
  <2>2. request' \in [Clients -> Requests]
    BY <1>6, <2>1 DEF CreateRelative, Asks, Requests
  <2>3. QED
    BY <1>6, <2>2 DEF CreateRelative, Asks
<1>7. ASSUME NEW c \in Clients, NEW i \in Reminders, NEW offset \in Offsets, NEW at \in Times,
             Patch(c, i, offset, at)
      PROVE  Typed'
  <2>1. at \in Instants
    BY TimeIsSane DEF Instants
  <2>2. task.due \in Dues
    BY <1>7 DEF Patch, TaskRows, Dues, Related
  <2>3. reminder' \in [Reminders -> ReminderRows \cup {Null}]
    <3>1. CASE reminder[i].kind = "exact"
      <4>1. Write(i, [reminder[i] EXCEPT !.next = at, !.snoozed = Null]) /\ reminder[i] \in ReminderRows
        BY <1>7, <3>1 DEF Patch
      <4>2. [reminder[i] EXCEPT !.next = at, !.snoozed = Null] \in ReminderRows
        BY <4>1, <2>1 DEF ReminderRows
      <4>3. QED
        BY <4>1, <4>2, WriteType
    <3>2. CASE reminder[i].kind # "exact"
      BY <1>7, <3>2 DEF Patch
    <3>3. QED
      BY <3>1, <3>2
  <2>4. request' \in [Clients -> Requests]
    BY <1>7, <2>2 DEF Patch, Asks, Requests
  <2>5. QED
    BY <1>7, <2>3, <2>4 DEF Patch, Asks, Write
<1>8. ASSUME NEW c \in Clients, NEW i \in Reminders, Dismiss(c, i) \/ Remove(c, i)
      PROVE  Typed'
  <2>1. reminder' \in [Reminders -> ReminderRows \cup {Null}]
    <3>1. CASE Dismiss(c, i)
      <4>1. Write(i, [reminder[i] EXCEPT !.dismissed = TRUE]) /\ reminder[i] \in ReminderRows
        BY <3>1 DEF Dismiss
      <4>2. [reminder[i] EXCEPT !.dismissed = TRUE] \in ReminderRows
        BY <4>1 DEF ReminderRows
      <4>3. QED
        BY <4>1, <4>2, WriteType
    <3>2. CASE Remove(c, i)
      BY <3>2, WriteType DEF Remove
    <3>3. QED
      BY <1>8, <3>1, <3>2
  <2>2. request' \in [Clients -> Requests]
    BY <1>8 DEF Dismiss, Remove, Asks, Requests
  <2>3. QED
    BY <1>8, <2>1, <2>2 DEF Dismiss, Remove, Asks, Write
<1>9. ASSUME NEW c \in Clients, NEW due \in Dues, MoveDue(c, due)
      PROVE  Typed'
  BY <1>9 DEF MoveDue, Asks, Requests, Dues, TaskRows
<1>10. ASSUME NEW c \in Clients, NEW m \in Members \cup {Null}, Reassign(c, m)
       PROVE  Typed'
  BY <1>10 DEF Reassign, UpdateTask, TaskRows
<1>11. ASSUME NEW c \in Clients, Close(c) \/ Reopen(c)
       PROVE  Typed'
  BY <1>11 DEF Close, Reopen, UpdateTask, TaskRows
<1>12. ASSUME NEW c \in Clients, Purge(c)
       PROVE  Typed'
  BY <1>12 DEF Purge, UpdateTask
<1>13. ASSUME NEW c \in Clients, Store(c)
       PROVE  Typed'
  <2>1. request[c].offset \in Offsets /\ FireTime(request[c].due, request[c].offset) \in Instants
    BY <1>13, FireTimeIsInstant DEF Store, Requests, Idle
  <2>2. reminder' \in [Reminders -> ReminderRows \cup {Null}] /\ ids' \subseteq Reminders
    <3>1. CASE UNCHANGED <<reminder, ids>>
      BY <3>1
    <3>2. ASSUME NEW i \in Reminders,
                 Insert(i, "relative", request[c].offset, FireTime(request[c].due, request[c].offset))
          PROVE  reminder' \in [Reminders -> ReminderRows \cup {Null}] /\ ids' \subseteq Reminders
      BY <3>2, <2>1 DEF Insert, NewRow, ReminderRows
    <3>3. QED
      BY <1>13, <3>1, <3>2 DEF Store
  <2>3. adrift' \subseteq Reminders
    BY <1>13 DEF Store, Computed
  <2>4. QED
    BY <1>13, <2>2, <2>3 DEF Store, Continue, Requests
<1>14. ASSUME NEW c \in Clients, StorePatch(c)
       PROVE  Typed'
  <2>1. request[c] \in [pc : {"patch"}, id : Reminders, offset : Offsets, due : Dues]
    BY <1>14 DEF StorePatch, Requests, Idle
  <2>2. reminder' \in [Reminders -> ReminderRows \cup {Null}] /\ ids' = ids
    <3>1. CASE reminder[request[c].id] = Null
      BY <1>14, <3>1 DEF StorePatch
    <3>2. CASE reminder[request[c].id] # Null
      <4>1. reminder[request[c].id] \in ReminderRows /\ request[c].id \in Reminders
            /\ request[c].offset \in Offsets \cup {Null}
            /\ FireTime(request[c].due, request[c].offset) \in Instants
        BY <2>1, <3>2, FireTimeIsInstant
      <4>2. Write(request[c].id, [reminder[request[c].id] EXCEPT !.offset = request[c].offset,
                   !.snoozed = Null, !.next = FireTime(request[c].due, request[c].offset)])
        BY <1>14, <3>2 DEF StorePatch
      <4>3. [reminder[request[c].id] EXCEPT !.offset = request[c].offset, !.snoozed = Null,
               !.next = FireTime(request[c].due, request[c].offset)] \in ReminderRows
        BY <4>1 DEF ReminderRows
      <4>4. QED
        BY <4>1, <4>2, <4>3, WriteType
    <3>3. QED
      BY <3>1, <3>2
  <2>3. adrift' \subseteq Reminders
    BY <1>14, <2>1 DEF StorePatch, Computed
  <2>4. QED
    BY <1>14, <2>2, <2>3 DEF StorePatch, Continue, Requests
<1>15. ASSUME NEW c \in Clients, WriteDue(c)
       PROVE  Typed'
  <2>1. request[c].due \in Dues
    BY <1>15 DEF WriteDue, Requests, Idle
  <2>2. QED
    BY <1>15, <2>1 DEF WriteDue, Continue, Requests, TaskRows, Dues
<1>16. ASSUME NEW c \in Clients, Reload(c)
       PROVE  Typed'
  BY <1>16 DEF Reload, Continue, Requests, TaskRows, Dues
<1>17. ASSUME NEW c \in Clients, ListPending(c)
       PROVE  Typed'
  <2> DEFINE todo == {[id |-> i, offset |-> reminder[i].offset] : i \in {j \in Reminders : Anchored(j)}}
  <2>1. request[c].due \in Dues
    BY <1>17 DEF ListPending, Requests, Idle
  <2>2. \A i \in Reminders : Anchored(i) => reminder[i].offset \in Offsets \cup {Null}
    BY DEF Anchored, ReminderRows
  <2>3. todo \subseteq Listed
    BY <2>2 DEF Listed
  <2>4. Continue(c, Anchoring(request[c].due, todo)) /\ UNCHANGED <<task, reminder, ids, adrift>>
    BY <1>17 DEF ListPending
  <2> HIDE DEF todo
  <2>5. QED
    BY <2>1, <2>3, <2>4 DEF Continue, Requests, Anchoring
<1>18. ASSUME NEW c \in Clients, Anchor(c)
       PROVE  Typed'
  <2>1. request[c] \in [pc : {"anchor"}, due : Dues, todo : SUBSET Listed]
    BY <1>18 DEF Anchor, Requests, Idle
  <2>2. PICK r \in request[c].todo :
          IF reminder[r.id] = Null
          THEN Continue(c, Idle) /\ adrift' = adrift \cup ToAnchor(c) /\ UNCHANGED <<reminder, ids>>
          ELSE /\ Write(r.id, [reminder[r.id] EXCEPT !.snoozed = Null,
                                 !.next = FireTime(request[c].due, r.offset)])
               /\ Computed(r.id, request[c].due = task.due /\ r.offset = reminder[r.id].offset)
               /\ Continue(c, Anchoring(request[c].due, request[c].todo \ {r}))
    BY <1>18 DEF Anchor
  <2> DEFINE i == r.id
  <2>3. i \in Reminders /\ r.offset \in Offsets /\ request[c].pc = "anchor"
    BY <2>1 DEF Related, Listed
  <2>4. FireTime(request[c].due, r.offset) \in Instants
    BY <2>1, <2>3, FireTimeIsInstant
  <2>5. reminder' \in [Reminders -> ReminderRows \cup {Null}] /\ ids' = ids
    <3>1. CASE reminder[i] = Null
      BY <2>2, <3>1
    <3>2. CASE reminder[i] # Null
      <4>1. Write(i, [reminder[i] EXCEPT !.snoozed = Null, !.next = FireTime(request[c].due, r.offset)])
        BY <2>2, <3>2
      <4>2. reminder[i] \in ReminderRows
        BY <2>3, <3>2
      <4>3. [reminder[i] EXCEPT !.snoozed = Null, !.next = FireTime(request[c].due, r.offset)] \in ReminderRows
        BY <4>2, <2>4, <3>2 DEF ReminderRows
      <4>4. QED
        BY <4>1, <4>3, <2>3, WriteType
    <3>3. QED
      BY <3>1, <3>2
  <2>6. request' \in [Clients -> Requests]
    BY <2>1, <2>2 DEF Continue, Anchoring, Requests
  <2>7. adrift' \subseteq Reminders
    <3>1. ToAnchor(c) = {s.id : s \in request[c].todo}
      BY <2>3 DEF ToAnchor
    <3>2. ToAnchor(c) \subseteq Reminders
      BY <2>1, <3>1 DEF Listed
    <3>3. QED
      BY <2>2, <2>3, <3>2 DEF Computed
  <2>8. UNCHANGED <<now, task, pass, check, sent, rows, told>>
    BY <1>18 DEF Anchor, Continue
  <2>9. QED
    BY <2>5, <2>6, <2>7, <2>8
<1>19. ASSUME NEW w \in Workers, List(w)
       PROVE  Typed'
  BY <1>19 DEF List, PassOn, Passing, Passes
<1>20. ASSUME NEW w \in Workers, Mark(w)
       PROVE  Typed'
  <2>1. pass[w] \in [pc : {"fire"}, todo : SUBSET Reminders]
    BY <1>20 DEF Mark, Passes, Idle
  <2>2. PICK i \in pass[w].todo :
          IF reminder[i] = Null THEN PassOn(w, Idle) /\ UNCHANGED <<reminder, ids>>
          ELSE /\ Write(i, [reminder[i] EXCEPT !.fired = TRUE, !.snoozed = Null])
               /\ PassOn(w, [pc |-> "send", id |-> i, todo |-> pass[w].todo \ {i}])
    BY <1>20 DEF Mark
  <2>3. reminder' \in [Reminders -> ReminderRows \cup {Null}] /\ ids' = ids
    <3>1. CASE reminder[i] = Null
      BY <2>2, <3>1
    <3>2. CASE reminder[i] # Null
      <4>1. Write(i, [reminder[i] EXCEPT !.fired = TRUE, !.snoozed = Null])
        BY <2>2, <3>2
      <4>2. i \in Reminders /\ reminder[i] \in ReminderRows
        BY <2>1, <3>2
      <4>3. [reminder[i] EXCEPT !.fired = TRUE, !.snoozed = Null] \in ReminderRows
        BY <4>2 DEF ReminderRows
      <4>4. QED
        BY <4>1, <4>2, <4>3, WriteType
    <3>3. QED
      BY <3>1, <3>2
  <2>4. pass' \in [Workers -> Passes]
    BY <2>1, <2>2 DEF PassOn, Passes
  <2>5. UNCHANGED <<now, task, check, request, rows, told, sent, adrift>>
    BY <1>20 DEF Mark, PassOn
  <2>6. QED
    BY <2>3, <2>4, <2>5
<1>21. ASSUME NEW w \in Workers, Send(w)
       PROVE  Typed'
  <2>1. pass[w] \in [pc : {"send"}, id : Reminders, todo : SUBSET Reminders]
    BY <1>21 DEF Send, Passes, Idle
  <2>2. pass' \in [Workers -> Passes] /\ sent' \in [Reminders -> Nat]
    BY <1>21, <2>1 DEF Send, PassOn, Passing, Passes
  <2>3. QED
    BY <1>21, <2>2 DEF Send, PassOn
<1>22. ASSUME NEW k \in Checkers, ListOverdue(k)
       PROVE  Typed'
  <2>1. task.assignee \in Members /\ UtcDay(now) \in Days
    BY <1>22, DaysAreDays DEF ListOverdue, Overdue, TaskRows
  <2>2. QED
    BY <1>22, <2>1 DEF ListOverdue, CheckOn, Checks
<1>23. ASSUME NEW k \in Checkers, LookUp(k)
       PROVE  Typed'
  BY <1>23 DEF LookUp, CheckOn, Checks, Idle
<1>24. ASSUME NEW k \in Checkers, Tell(k)
       PROVE  Typed'
  <2>1. check[k].to \in Members /\ UtcDay(now) \in Days
    BY <1>24, DaysAreDays DEF Tell, Checks, Idle
  <2>2. rows' \subseteq [to : Members, day : Days]
    BY <1>24, <2>1 DEF Tell
  <2>3. told' \in [Members \X Days -> Nat]
    <3> DEFINE n == <<check[k].to, UtcDay(now)>>
    <3>1. told' = [told EXCEPT ![n] = told[n] + 1]
      BY <1>24 DEF Tell
    <3>2. n \in Members \X Days
      BY <2>1
    <3> HIDE DEF n
    <3>3. told[n] + 1 \in Nat
      BY <3>2
    <3>4. QED
      BY <3>1, <3>3
  <2>4. QED
    BY <1>24, <2>2, <2>3 DEF Tell, CheckOn, Checks
<1>25. QED
  BY <1>1, <1>2, <1>3, <1>4, <1>5, <1>6, <1>7, <1>8, <1>9, <1>10, <1>11, <1>12, <1>13, <1>14, <1>15,
     <1>16, <1>17, <1>18, <1>19, <1>20, <1>21, <1>22, <1>23, <1>24
     DEF Next, Api, Reminding, Checking
(* How a row may change: it keeps its kind, its offset stays one, what has fired
   stays fired, and a new row takes an id that was never used. *)
RowsMove ==
  /\ ids \subseteq ids'
  /\ task' = Null => \A i \in Reminders : reminder'[i] = Null
  /\ \A i \in Reminders : reminder'[i] # Null =>
       /\ i \in ids'
       /\ reminder[i] # Null =>
            /\ reminder'[i].kind = reminder[i].kind
            /\ reminder'[i].offset = reminder[i].offset \/ reminder'[i].offset \in Offsets
            /\ reminder[i].fired => reminder'[i].fired
       /\ reminder[i] = Null =>
            /\ i \notin ids
            /\ reminder'[i].kind = "relative" => reminder'[i].offset \in Offsets

LEMMA NothingMoves ==
  ASSUME Typed, Related, UNCHANGED <<reminder, ids>>, task' = Null => task = Null
  PROVE  RowsMove
BY DEF Related, RowsMove

(* An edit of one row, or its removal. *)
LEMMA WriteMoves ==
  ASSUME Typed, Related, task' = task, NEW i \in Reminders, reminder[i] # Null,
         NEW row \in ReminderRows \cup {Null}, Write(i, row),
         row # Null => /\ row.kind = reminder[i].kind
                       /\ row.offset = reminder[i].offset \/ row.offset \in Offsets
                       /\ reminder[i].fired => row.fired
  PROVE  RowsMove
<1>1. reminder'[i] = row /\ ids' = ids /\ \A j \in Reminders \ {i} : reminder'[j] = reminder[j]
  BY DEF Write, Typed
<1>2. i \in ids /\ task # Null
  BY DEF Related
<1>3. QED
  BY <1>1, <1>2 DEF RowsMove, Related

LEMMA InsertMoves ==
  ASSUME Typed, Related, task' = task, task # Null, NEW i \in Reminders, NEW kind, NEW offset, NEW next,
         Insert(i, kind, offset, next), kind = "relative" => offset \in Offsets
  PROVE  RowsMove
<1>1. i \notin ids /\ ids' = ids \cup {i}
  BY DEF Insert
<1>2. \A j \in Reminders \ {i} : reminder'[j] = reminder[j]
  BY DEF Insert, Typed
<1>3. reminder[i] = Null /\ reminder'[i].kind = kind /\ reminder'[i].offset = offset
  BY <1>1 DEF Insert, NewRow, Typed, Related
<1>4. QED
  BY <1>1, <1>2, <1>3 DEF RowsMove, Related

LEMMA RowSteps ==
  ASSUME Typed, Related, [Next]_vars
  PROVE  RowsMove
<1>1. CASE UNCHANGED vars
  BY <1>1, NothingMoves DEF vars
<1>2. CASE Tick \/ Die
  BY <1>2, NothingMoves DEF Tick, Die
<1>3. ASSUME NEW c \in Clients, NEW i \in Reminders, NEW at \in Times, CreateExact(c, i, at)
      PROVE  RowsMove
  BY <1>3, InsertMoves DEF CreateExact, Asks
<1>4. ASSUME NEW c \in Clients, NEW i \in Reminders, NEW until \in Times, Snooze(c, i, until)
      PROVE  RowsMove
  <2>1. reminder[i] \in ReminderRows /\ until \in Instants
    BY <1>4, TimeIsSane DEF Snooze, Typed, Instants
  <2> DEFINE row == [reminder[i] EXCEPT !.snoozed = until, !.next = until]
  <2>2. row \in ReminderRows /\ row.kind = reminder[i].kind /\ row.offset = reminder[i].offset /\ row.fired = reminder[i].fired
    BY <2>1 DEF ReminderRows
  <2>3. reminder[i] # Null /\ Write(i, row) /\ task' = task
    BY <1>4 DEF Snooze, Asks
  <2> HIDE DEF row
  <2>4. QED
    BY <2>2, <2>3, WriteMoves
<1>5. ASSUME NEW c \in Clients, NEW i \in Reminders, NEW offset \in Offsets, NEW at \in Times,
             Patch(c, i, offset, at)
      PROVE  RowsMove
  <2>1. reminder[i] \in ReminderRows /\ at \in Instants /\ reminder[i] # Null /\ task' = task
    BY <1>5, TimeIsSane DEF Patch, Asks, Typed, Instants
  <2> DEFINE row == [reminder[i] EXCEPT !.next = at, !.snoozed = Null]
  <2>2. row \in ReminderRows /\ row.kind = reminder[i].kind /\ row.offset = reminder[i].offset /\ row.fired = reminder[i].fired
    BY <2>1 DEF ReminderRows
  <2>3. Write(i, row) \/ UNCHANGED <<reminder, ids>>
    BY <1>5 DEF Patch
  <2> HIDE DEF row
  <2>4. QED
    BY <2>1, <2>2, <2>3, WriteMoves, NothingMoves
<1>6. ASSUME NEW c \in Clients, NEW i \in Reminders, Dismiss(c, i)
      PROVE  RowsMove
  <2>1. reminder[i] \in ReminderRows /\ reminder[i] # Null /\ task' = task
    BY <1>6 DEF Dismiss, Asks, Typed
  <2> DEFINE row == [reminder[i] EXCEPT !.dismissed = TRUE]
  <2>2. row \in ReminderRows /\ row.kind = reminder[i].kind /\ row.offset = reminder[i].offset /\ row.fired = reminder[i].fired
    BY <2>1 DEF ReminderRows
  <2>3. Write(i, row)
    BY <1>6 DEF Dismiss
  <2> HIDE DEF row
  <2>4. QED
    BY <2>1, <2>2, <2>3, WriteMoves
<1>7. ASSUME NEW c \in Clients, NEW i \in Reminders, Remove(c, i)
      PROVE  RowsMove
  BY <1>7, WriteMoves DEF Remove, Asks
<1>8. ASSUME NEW c \in Clients,
             \/ \E offset \in Offsets : CreateRelative(c, offset)
             \/ \E due \in Dues : MoveDue(c, due)
             \/ \E m \in Members \cup {Null} : Reassign(c, m)
             \/ Close(c) \/ Reopen(c) \/ WriteDue(c) \/ Reload(c) \/ ListPending(c)
      PROVE  RowsMove
  <2>1. UNCHANGED <<reminder, ids>>
    BY <1>8 DEF CreateRelative, MoveDue, Reassign, Close, Reopen, WriteDue, Reload, ListPending
  <2>2. task' = task \/ task' \in TaskRows
    <3>1. CASE WriteDue(c)
      <4>1. request[c].due \in Dues
        BY <3>1 DEF WriteDue, Typed, Requests, Idle
      <4>2. QED
        BY <3>1, <4>1 DEF WriteDue, Typed, TaskRows, Dues
    <3>2. CASE \E m \in Members \cup {Null} : Reassign(c, m)
      BY <3>2 DEF Reassign, UpdateTask, Typed, TaskRows
    <3>3. CASE Close(c) \/ Reopen(c)
      BY <3>3 DEF Close, Reopen, UpdateTask, Typed, TaskRows
    <3>4. CASE \/ \E offset \in Offsets : CreateRelative(c, offset)
               \/ \E due \in Dues : MoveDue(c, due)
               \/ Reload(c) \/ ListPending(c)
      BY <3>4 DEF CreateRelative, MoveDue, Reload, ListPending, Asks
    <3>5. QED
      BY <1>8, <3>1, <3>2, <3>3, <3>4
  <2>3. QED
    BY <2>1, <2>2, NullIsApart, NothingMoves
<1>9. ASSUME NEW c \in Clients, Purge(c)
      PROVE  RowsMove
  BY <1>9 DEF Purge, RowsMove, Typed
<1>10. ASSUME NEW c \in Clients, Store(c)
       PROVE  RowsMove
  <2>1. request[c].offset \in Offsets /\ task' = task
    BY <1>10 DEF Store, Typed, Requests, Idle
  <2>2. CASE UNCHANGED <<reminder, ids>>
    BY <2>1, <2>2, NothingMoves
  <2>3. CASE task # Null /\ \E i \in Reminders :
               Insert(i, "relative", request[c].offset, FireTime(request[c].due, request[c].offset))
    BY <2>1, <2>3, InsertMoves
  <2>4. QED
    BY <1>10, <2>2, <2>3 DEF Store
<1>11. ASSUME NEW c \in Clients, StorePatch(c)
       PROVE  RowsMove
  <2>1. request[c] \in [pc : {"patch"}, id : Reminders, offset : Offsets, due : Dues]
        /\ FireTime(request[c].due, request[c].offset) \in Instants
    BY <1>11, FireTimeIsInstant DEF StorePatch, Typed, Requests, Idle
  <2> DEFINE i == request[c].id
             row == [reminder[i] EXCEPT !.offset = request[c].offset, !.snoozed = Null,
                                        !.next = FireTime(request[c].due, request[c].offset)]
  <2>2. task' = task /\ i \in Reminders
    BY <1>11, <2>1 DEF StorePatch
  <2>3. CASE reminder[i] = Null
    BY <1>11, <2>2, <2>3, NothingMoves DEF StorePatch
  <2>4. CASE reminder[i] # Null
    <3>1. reminder[i] \in ReminderRows
      BY <2>1, <2>4 DEF Typed
    <3>2. row \in ReminderRows /\ row.kind = reminder[i].kind /\ row.offset \in Offsets /\ row.fired = reminder[i].fired
      BY <2>1, <3>1 DEF ReminderRows
    <3>3. Write(i, row)
      BY <1>11, <2>4 DEF StorePatch
    <3> HIDE DEF row
    <3>4. QED
      BY <2>2, <2>4, <3>2, <3>3, WriteMoves
  <2>5. QED
    BY <2>3, <2>4
<1>12. ASSUME NEW c \in Clients, Anchor(c)
       PROVE  RowsMove
  <2>1. request[c] \in [pc : {"anchor"}, due : Dues, todo : SUBSET Listed]
    BY <1>12 DEF Anchor, Typed, Requests, Idle
  <2>2. PICK r \in request[c].todo :
          IF reminder[r.id] = Null THEN UNCHANGED <<reminder, ids>>
          ELSE Write(r.id, [reminder[r.id] EXCEPT !.snoozed = Null, !.next = FireTime(request[c].due, r.offset)])
    BY <1>12 DEF Anchor
  <2> DEFINE i == r.id
             row == [reminder[i] EXCEPT !.snoozed = Null, !.next = FireTime(request[c].due, r.offset)]
  <2>3. i \in Reminders /\ r.offset \in Offsets /\ task' = task
    BY <1>12, <2>1 DEF Related, Anchor, Listed
  <2>4. CASE reminder[i] = Null
    BY <2>2, <2>3, <2>4, NothingMoves
  <2>5. CASE reminder[i] # Null
    <3>1. reminder[i] \in ReminderRows /\ FireTime(request[c].due, r.offset) \in Instants
      BY <2>1, <2>3, <2>5, FireTimeIsInstant DEF Typed
    <3>2. row \in ReminderRows /\ row.kind = reminder[i].kind /\ row.offset = reminder[i].offset /\ row.fired = reminder[i].fired
      BY <3>1 DEF ReminderRows
    <3>3. Write(i, row)
      BY <2>2, <2>5
    <3> HIDE DEF row
    <3>4. QED
      BY <2>3, <2>5, <3>2, <3>3, WriteMoves
  <2>6. QED
    BY <2>4, <2>5
<1>13. ASSUME NEW w \in Workers, Mark(w)
       PROVE  RowsMove
  <2>1. pass[w] \in [pc : {"fire"}, todo : SUBSET Reminders]
    BY <1>13 DEF Mark, Typed, Passes, Idle
  <2>2. PICK i \in pass[w].todo :
          IF reminder[i] = Null THEN PassOn(w, Idle) /\ UNCHANGED <<reminder, ids>>
          ELSE /\ Write(i, [reminder[i] EXCEPT !.fired = TRUE, !.snoozed = Null])
               /\ PassOn(w, [pc |-> "send", id |-> i, todo |-> pass[w].todo \ {i}])
    BY <1>13 DEF Mark
  <2>3. i \in Reminders /\ task' = task
    BY <1>13, <2>1 DEF Mark, PassOn
  <2> DEFINE row == [reminder[i] EXCEPT !.fired = TRUE, !.snoozed = Null]
  <2>4. CASE reminder[i] = Null
    BY <2>2, <2>3, <2>4, NothingMoves
  <2>5. CASE reminder[i] # Null
    <3>1. reminder[i] \in ReminderRows
      BY <2>3, <2>5 DEF Typed
    <3>2. row \in ReminderRows /\ row.kind = reminder[i].kind /\ row.offset = reminder[i].offset /\ row.fired
      BY <3>1 DEF ReminderRows
    <3>3. Write(i, row)
      BY <2>2, <2>5
    <3> HIDE DEF row
    <3>4. QED
      BY <2>3, <2>5, <3>2, <3>3, WriteMoves
  <2>6. QED
    BY <2>4, <2>5
<1>14. ASSUME NEW w \in Workers, List(w) \/ Send(w)
       PROVE  RowsMove
  BY <1>14, NothingMoves DEF List, Send, PassOn
<1>15. ASSUME NEW k \in Checkers, Checking(k)
       PROVE  RowsMove
  BY <1>15, NothingMoves DEF Checking, ListOverdue, LookUp, Tell, CheckOn
<1>16. QED
  BY <1>1, <1>2, <1>3, <1>4, <1>5, <1>6, <1>7, <1>8, <1>9, <1>10, <1>11, <1>12, <1>13, <1>14, <1>15
     DEF Next, Api, Reminding
(* What a step does to a request that re-anchors: nothing, or it goes on with less. *)
LEMMA AnchorSteps ==
  ASSUME Typed, Related, [Next]_vars, NEW c \in Clients, request'[c].pc = "anchor", NEW r \in request'[c].todo
  PROVE  \/ request[c].pc = "anchor" /\ r \in request[c].todo
         \/ /\ r.id \in Reminders /\ Anchored(r.id) /\ r.offset = reminder[r.id].offset
            /\ reminder' = reminder
<1> USE DEF Typed
<1>1. CASE request' = request
  BY <1>1
<1>2. ASSUME NEW d \in Clients, NEW fields, request' = [request EXCEPT ![d] = fields], fields.pc # "anchor"
      PROVE  request[c].pc = "anchor" /\ r \in request[c].todo
  BY <1>2
<1>3. ASSUME NEW d \in Clients, ListPending(d)
      PROVE  \/ request[c].pc = "anchor" /\ r \in request[c].todo
             \/ /\ r.id \in Reminders /\ Anchored(r.id) /\ r.offset = reminder[r.id].offset
                /\ reminder' = reminder
  BY <1>3 DEF ListPending, Continue, Anchoring, Idle
<1>4. ASSUME NEW d \in Clients, Anchor(d)
      PROVE  request[c].pc = "anchor" /\ r \in request[c].todo
  BY <1>4 DEF Anchor, Continue, Anchoring, Idle
<1>5. ASSUME NEW d \in Clients, Api(d), ~ListPending(d), ~Anchor(d)
      PROVE  \/ request' = request
             \/ \E fields : request' = [request EXCEPT ![d] = fields] /\ fields.pc # "anchor"
  <2> DEFINE Sets(fields) == request' = [request EXCEPT ![d] = fields]
             Goal == request' = request \/ \E fields : Sets(fields) /\ fields.pc # "anchor"
  <2>1. CASE \/ \E j \in Reminders, at \in Times : CreateExact(d, j, at) \/ Snooze(d, j, at)
             \/ \E j \in Reminders : Dismiss(d, j) \/ Remove(d, j)
             \/ Store(d) \/ StorePatch(d)
    <3>1. Sets(Idle)
      BY <2>1 DEF CreateExact, Snooze, Dismiss, Remove, Store, StorePatch, Asks, Continue
    <3>2. Idle.pc # "anchor"
      BY DEF Idle
    <3>3. QED
      BY <3>1, <3>2
  <2>2. ASSUME NEW offset \in Offsets, CreateRelative(d, offset)
        PROVE  Goal
    <3> DEFINE fields == [pc |-> "create", offset |-> offset, due |-> task.due]
    <3>1. Sets(fields) /\ fields.pc # "anchor"
      BY <2>2 DEF CreateRelative, Asks
    <3> HIDE DEF fields
    <3>2. QED
      BY <3>1
  <2>3. ASSUME NEW j \in Reminders, NEW offset \in Offsets, NEW at \in Times, Patch(d, j, offset, at)
        PROVE  Goal
    <3> DEFINE fields == [pc |-> "patch", id |-> j, offset |-> offset, due |-> task.due]
    <3>1. Sets(Idle) \/ Sets(fields)
      BY <2>3 DEF Patch, Asks
    <3>2. Idle.pc # "anchor" /\ fields.pc # "anchor"
      BY DEF Idle
    <3> HIDE DEF fields
    <3>3. QED
      BY <3>1, <3>2
  <2>4. ASSUME NEW due \in Dues, MoveDue(d, due)
        PROVE  Goal
    <3> DEFINE fields == [pc |-> "due", old |-> task.due, due |-> due]
    <3>1. Sets(fields) /\ fields.pc # "anchor"
      BY <2>4 DEF MoveDue, Asks
    <3> HIDE DEF fields
    <3>2. QED
      BY <3>1
  <2>5. CASE WriteDue(d)
    <3>1. Sets(Idle) \/ Sets([pc |-> "reload"])
      BY <2>5 DEF WriteDue, Continue
    <3>2. QED
      BY <3>1 DEF Idle
  <2>6. CASE Reload(d)
    <3>1. Sets(Idle) \/ Sets([pc |-> "pending", due |-> task.due])
      BY <2>6 DEF Reload, Continue
    <3>2. QED
      BY <3>1 DEF Idle
  <2>7. CASE (\E m \in Members \cup {Null} : Reassign(d, m)) \/ Close(d) \/ Reopen(d) \/ Purge(d)
    BY <2>7 DEF Reassign, Close, Reopen, Purge, UpdateTask
  <2>8. QED
    BY <1>5, <2>1, <2>2, <2>3, <2>4, <2>5, <2>6, <2>7 DEF Api
<1>6. ASSUME ~\E d \in Clients : Api(d), ~Die
      PROVE  request' = request
  BY <1>6 DEF Next, vars, Tick, Reminding, List, Mark, Send, PassOn, Checking, ListOverdue, LookUp, Tell, CheckOn
<1>7. CASE Die
  <2>1. request' = request \/ \E d \in Clients : request' = [request EXCEPT ![d] = Idle]
    BY <1>7 DEF Die
  <2>2. Idle.pc # "anchor"
    BY DEF Idle
  <2>3. QED
    BY <1>1, <1>2, <2>1, <2>2
<1>8. QED
  BY <1>1, <1>2, <1>3, <1>4, <1>5, <1>6, <1>7

LEMMA RelatedStep ==
  ASSUME Typed, Related, [Next]_vars
  PROVE  Related'
<1>1. RowsMove
  BY RowSteps
<1>2. ASSUME NEW i \in Reminders, reminder'[i] # Null
      PROVE  /\ i \in ids' /\ task' # Null
             /\ reminder'[i].kind = "relative" => reminder'[i].offset \in Offsets
  BY <1>1, <1>2 DEF RowsMove, Related
<1>3. ASSUME NEW c \in Clients, request'[c].pc = "anchor", NEW r \in request'[c].todo
      PROVE  r.offset \in Offsets /\ r.id \in ids' /\ (reminder'[r.id] # Null => IsRelative(r.id)')
  <2>1. /\ r.id \in ids /\ r.id \in Reminders /\ r.offset \in Offsets
        /\ reminder[r.id] # Null => reminder[r.id].kind = "relative"
    BY <1>3, AnchorSteps DEF Related, Anchored, IsRelative, Typed
  <2>2. reminder'[r.id] # Null => reminder[r.id] # Null /\ reminder'[r.id].kind = "relative"
    BY <1>1, <2>1 DEF RowsMove
  <2>3. QED
    BY <1>1, <1>2, <2>1, <2>2 DEF RowsMove, IsRelative
<1>4. QED
  BY <1>2, <1>3 DEF Related

(* A behaviour starts with rows of the table's type. *)
LEMMA NewRowType ==
  ASSUME NEW due \in Dues, NEW r \in NewRows(due)
  PROVE  r \in ReminderRows /\ (r.kind = "relative" => r.offset \in Offsets)
<1>1. CASE \E at \in Times : r = NewRow("exact", Null, at)
  BY <1>1, TimeIsSane DEF NewRow, ReminderRows, Instants
<1>2. CASE \E offset \in Offsets : r = NewRow("relative", offset, FireTime(due, offset))
  BY <1>2, FireTimeIsInstant DEF NewRow, ReminderRows
<1>3. QED
  BY <1>1, <1>2 DEF NewRows

LEMMA InitHolds == Init => Typed /\ Related
<1> SUFFICES ASSUME Init
             PROVE  Typed /\ Related
  OBVIOUS
<1>1. task \in TaskRows /\ task.due \in Dues /\ task # Null
  BY NullIsApart DEF Init, TaskRows
<1>2. \A i \in Reminders : reminder[i] # Null =>
        reminder[i] \in ReminderRows /\ (reminder[i].kind = "relative" => reminder[i].offset \in Offsets)
  BY <1>1, NewRowType DEF Init
<1>3. Typed
  BY <1>1, <1>2, TimeIsSane DEF Init, Typed, Passes, Checks, Requests
<1>4. Related
  BY <1>1, <1>2 DEF Init, Related, Idle
<1>5. QED
  BY <1>3, <1>4

(* ReminderRows, passes and requests keep their types, for any calendar and any number of
   them, and no reminder outlives its task (the cascade of the foreign key). *)
THEOREM TypesHold == Spec => []TypeOK
<1>1. Init => Typed /\ Related
  BY InitHolds
<1>2. Typed /\ Related /\ [Next]_vars => (Typed /\ Related)'
  BY TypeStep, RelatedStep
<1>3. Typed /\ Related => TypeOK
  BY DEF Typed, Related, TypeOK, ReminderRows, Instants
<1>4. QED
  BY <1>1, <1>2, <1>3, PTL DEF Spec
-----------------------------------------------------------------------------
(* How often a reminder fires. *)
Sending(w, i) == pass[w].pc = "send" /\ pass[w].id = i
Holds(w, i) == (pass[w].pc \in {"fire", "send"} /\ i \in pass[w].todo) \/ Sending(w, i)
Holders(i) == {w \in Workers : Holds(w, i)}

Sends ==
  /\ \A w \in Workers : pass[w].pc = "send" => pass[w].id \notin pass[w].todo
  /\ \A i \in Reminders :
       /\ sent[i] + Cardinality(Holders(i)) <= Cardinality(Workers)
       /\ (sent[i] # 0 \/ \E w \in Workers : Sending(w, i)) =>
            i \in ids /\ (reminder[i] # Null => reminder[i].fired)

(* What has fired stays fired, whatever a step does to its row. *)
LEMMA FiredStays ==
  ASSUME Typed, RowsMove, NEW i \in Reminders, i \in ids, reminder[i] # Null => reminder[i].fired
  PROVE  i \in ids' /\ (reminder'[i] # Null => reminder'[i].fired)
BY DEF RowsMove

(* A step that only takes passes away from a reminder. *)
LEMMA FewerHold ==
  ASSUME IsFiniteSet(Workers), Typed, Sends, RowsMove, sent' = sent, NEW i \in Reminders,
         \A w \in Workers : Holds(w, i)' => Holds(w, i),
         \A w \in Workers : Sending(w, i)' => Sending(w, i)
  PROVE  /\ sent'[i] + Cardinality(Holders(i)') <= Cardinality(Workers)
         /\ (sent'[i] # 0 \/ \E w \in Workers : Sending(w, i)') =>
              i \in ids' /\ (reminder'[i] # Null => reminder'[i].fired)
<1>1. IsFiniteSet(Holders(i)) /\ Holders(i)' \subseteq Holders(i)
  BY FS_Subset DEF Holders
<1>2. Cardinality(Holders(i)') <= Cardinality(Holders(i)) /\ Cardinality(Holders(i)') \in Nat
      /\ Cardinality(Holders(i)) \in Nat /\ Cardinality(Workers) \in Nat
  BY <1>1, FS_Subset, FS_CardinalityType
<1>3. sent[i] \in Nat /\ sent[i] + Cardinality(Holders(i)) <= Cardinality(Workers)
  BY DEF Typed, Sends
<1>4. sent'[i] + Cardinality(Holders(i)') <= Cardinality(Workers)
  BY <1>2, <1>3
<1>5. ASSUME sent'[i] # 0 \/ \E w \in Workers : Sending(w, i)'
      PROVE  i \in ids' /\ (reminder'[i] # Null => reminder'[i].fired)
  BY <1>5, FiredStays DEF Sends
<1>6. QED
  BY <1>4, <1>5

LEMMA SendsStep ==
  ASSUME IsFiniteSet(Workers), Typed, Related, Sends, [Next]_vars
  PROVE  Sends'
<1> DEFINE Bound(i) == sent[i] + Cardinality(Holders(i)) <= Cardinality(Workers)
           Fired(i) == i \in ids /\ (reminder[i] # Null => reminder[i].fired)
           Known(i) == (sent[i] # 0 \/ \E w \in Workers : Sending(w, i)) => Fired(i)
           Apart == \A w \in Workers : pass[w].pc = "send" => pass[w].id \notin pass[w].todo
<1>a. RowsMove
  BY RowSteps
<1>b. Cardinality(Workers) \in Nat /\ \A i : IsFiniteSet(Holders(i)) /\ IsFiniteSet(Holders(i)')
  BY FS_CardinalityType, FS_Subset DEF Holders
<1>1. CASE UNCHANGED sent /\ \A w \in Workers : pass'[w] = pass[w] \/ pass'[w] = Idle
  <2>1. \A w \in Workers, i \in Reminders :
          (Sending(w, i)' => Sending(w, i)) /\ (Holds(w, i)' => Holds(w, i))
    BY <1>1 DEF Sending, Holds, Idle
  <2>2. Apart'
    BY <1>1 DEF Sends, Idle
  <2>3. \A i \in Reminders : Bound(i)' /\ Known(i)'
    BY <1>1, <1>a, <2>1, FewerHold
  <2>4. QED
    BY <2>2, <2>3 DEF Sends
<1>2. ASSUME NEW w \in Workers, List(w)
      PROVE  Sends'
  <2>1. /\ pass'[w] = Passing({i \in Reminders : reminder[i] # Null /\ Due(reminder[i])})
        /\ pass[w] = Idle /\ sent' = sent /\ reminder' = reminder /\ ids' = ids
        /\ \A v \in Workers \ {w} : pass'[v] = pass[v]
    BY <1>2 DEF List, PassOn, Typed
  <2>2. \A v \in Workers, i \in Reminders : Sending(v, i)' => Sending(v, i)
    BY <2>1 DEF Sending, Passing, Idle
  <2>3. Apart'
    BY <2>1 DEF Sends, Passing, Idle
  <2>4. ASSUME NEW i \in Reminders
        PROVE  Bound(i)' /\ Known(i)'
    <3>1. CASE reminder[i] # Null /\ Due(reminder[i])
      <4>1. sent[i] = 0 /\ \A v \in Workers : ~Sending(v, i)
        BY <3>1 DEF Sends, Due, Pending, Typed, ReminderRows
      <4>2. Cardinality(Holders(i)') <= Cardinality(Workers) /\ Cardinality(Holders(i)') \in Nat
        BY <1>b, FS_Subset, FS_CardinalityType DEF Holders
      <4>3. QED
        BY <2>1, <2>2, <4>1, <4>2
    <3>2. CASE ~(reminder[i] # Null /\ Due(reminder[i]))
      <4>1. \A v \in Workers : Holds(v, i)' => Holds(v, i)
        BY <2>1, <3>2 DEF Holds, Sending, Passing, Idle
      <4>2. QED
        BY <1>a, <2>1, <2>2, <4>1, FewerHold
    <3>3. QED
      BY <3>1, <3>2
  <2>5. QED
    BY <2>3, <2>4 DEF Sends
<1>3. ASSUME NEW w \in Workers, Mark(w)
      PROVE  Sends'
  <2>1. pass[w] \in [pc : {"fire"}, todo : SUBSET Reminders] /\ sent' = sent
    BY <1>3 DEF Mark, Typed, Passes, Idle
  <2>2. PICK j \in pass[w].todo :
          IF reminder[j] = Null THEN PassOn(w, Idle) /\ UNCHANGED <<reminder, ids>>
          ELSE /\ Write(j, [reminder[j] EXCEPT !.fired = TRUE, !.snoozed = Null])
               /\ PassOn(w, [pc |-> "send", id |-> j, todo |-> pass[w].todo \ {j}])
    BY <1>3 DEF Mark
  <2>3. CASE reminder[j] = Null
    <3>1. \A v \in Workers : pass'[v] = pass[v] \/ pass'[v] = Idle
      BY <2>2, <2>3 DEF PassOn, Typed
    <3>2. QED
      BY <1>1, <2>1, <3>1
  <2>4. CASE reminder[j] # Null
    <3>1. /\ pass'[w].pc = "send" /\ pass'[w].id = j /\ pass'[w].todo = pass[w].todo \ {j}
          /\ \A v \in Workers \ {w} : pass'[v] = pass[v]
      BY <2>2, <2>4 DEF PassOn, Typed
    <3>2. j \in ids' /\ reminder'[j].fired
      BY <2>1, <2>2, <2>4, ZenonT(40) DEF Write, Related, Typed, ReminderRows
    <3>3. Apart'
      BY <3>1 DEF Sends
    <3>4. ASSUME NEW i \in Reminders
          PROVE  Bound(i)' /\ Known(i)'
      <4>1. \A v \in Workers : Holds(v, i)' => Holds(v, i)
        BY <2>1, <2>2, <3>1 DEF Holds, Sending
      <4>2. CASE i = j
        <5>1. Holders(i)' \subseteq Holders(i)
          BY <4>1 DEF Holders
        <5>2. Cardinality(Holders(i)') <= Cardinality(Holders(i)) /\ Cardinality(Holders(i)') \in Nat
              /\ Cardinality(Holders(i)) \in Nat
          BY <1>b, <5>1, FS_Subset, FS_CardinalityType
        <5>3. sent'[i] = sent[i] /\ sent[i] \in Nat /\ Bound(i)
          BY <2>1 DEF Typed, Sends
        <5>4. Bound(i)'
          BY <1>b, <5>2, <5>3
        <5>5. QED
          BY <3>2, <4>2, <5>4
      <4>3. CASE i # j
        <5>1. \A v \in Workers : Sending(v, i)' => Sending(v, i)
          BY <3>1, <4>3 DEF Sending
        <5>2. QED
          BY <1>a, <2>1, <4>1, <5>1, FewerHold
      <4>4. QED
        BY <4>2, <4>3
    <3>5. QED
      BY <3>3, <3>4 DEF Sends
  <2>5. QED
    BY <2>3, <2>4
<1>4. ASSUME NEW w \in Workers, Send(w)
      PROVE  Sends'
  <2>1. pass[w] \in [pc : {"send"}, id : Reminders, todo : SUBSET Reminders]
    BY <1>4 DEF Send, Typed, Passes, Idle
  <2> DEFINE j == pass[w].id
  <2>2. /\ pass'[w] = Passing(pass[w].todo) /\ \A v \in Workers \ {w} : pass'[v] = pass[v]
        /\ reminder' = reminder /\ ids' = ids /\ j \in Reminders
        /\ sent'[j] = sent[j] + 1 /\ \A i \in Reminders \ {j} : sent'[i] = sent[i]
    BY <1>4, <2>1 DEF Send, PassOn, Typed
  <2>3. j \notin pass[w].todo
    BY <2>1 DEF Sends
  <2>4. \A v \in Workers, i \in Reminders : (Sending(v, i)' => Sending(v, i)) /\ (Holds(v, i)' => Holds(v, i))
    BY <2>1, <2>2 DEF Sending, Holds, Passing, Idle
  <2>5. Apart'
    BY <2>2 DEF Sends, Passing, Idle
  <2>6. ASSUME NEW i \in Reminders
        PROVE  Bound(i)' /\ Known(i)'
    <3>1. Holders(i)' \subseteq Holders(i)
      BY <2>4 DEF Holders
    <3>2. Cardinality(Holders(i)') \in Nat /\ Cardinality(Holders(i)) \in Nat
          /\ Cardinality(Holders(i)') <= Cardinality(Holders(i))
      BY <1>b, <3>1, FS_Subset, FS_CardinalityType
    <3>3. sent[i] \in Nat /\ Bound(i) /\ Known(i)
      BY DEF Typed, Sends
    <3>4. CASE i = j
      <4>1. w \in Holders(i) /\ w \notin Holders(i)'
        BY <2>1, <2>2, <2>3, <3>4 DEF Holders, Holds, Sending, Passing, Idle
      <4>2. Cardinality(Holders(i)') <= Cardinality(Holders(i)) - 1
        <5>1. Holders(i)' \subseteq Holders(i) \ {w}
          BY <3>1, <4>1
        <5>2. IsFiniteSet(Holders(i) \ {w}) /\ Cardinality(Holders(i) \ {w}) = Cardinality(Holders(i)) - 1
          BY <1>b, <4>1, FS_RemoveElement
        <5>3. QED
          BY <5>1, <5>2, FS_Subset
      <4>3. Sending(w, i)
        BY <2>1, <3>4 DEF Sending
      <4>4. QED
        BY <1>b, <2>2, <3>2, <3>3, <3>4, <4>2, <4>3
    <3>5. CASE i # j
      BY <1>b, <2>2, <2>4, <3>2, <3>3, <3>5
    <3>6. QED
      BY <3>4, <3>5
  <2>7. QED
    BY <2>5, <2>6 DEF Sends
<1>5. ASSUME ~\E w \in Workers : Reminding(w)
      PROVE  UNCHANGED sent /\ \A w \in Workers : pass'[w] = pass[w] \/ pass'[w] = Idle
  <2>1. CASE UNCHANGED <<pass, sent>>
    BY <2>1
  <2>2. CASE Die
    BY <2>2 DEF Die, Typed
  <2>3. ASSUME NEW c \in Clients, Api(c)
        PROVE  UNCHANGED <<pass, sent>>
    BY <2>3 DEF Api, CreateExact, Snooze, CreateRelative, Patch, Dismiss, Remove, MoveDue, Reassign, Close, Reopen,
         Purge, Store, StorePatch, WriteDue, Reload, ListPending, Anchor, UpdateTask, Asks, Continue
  <2>4. QED
    BY <1>5, <2>1, <2>2, <2>3 DEF Next, vars, Tick, Checking, ListOverdue, LookUp, Tell, CheckOn
<1>6. QED
  BY <1>1, <1>2, <1>3, <1>4, <1>5 DEF Reminding

(* "a reminder fires once" (reminders.module.ts, ReminderProcessor): with any finite
   number of passes in progress, wherever they die and whatever is snoozed, edited,
   re-anchored or removed meanwhile, a reminder is dispatched at most once per pass;
   with the one worker of the deployment, at most once. *)
THEOREM NeverFiresAgain ==
  ASSUME IsFiniteSet(Workers)
  PROVE  Spec => []FiresOncePerPass
<1>1. Init => Typed /\ Related
  BY InitHolds
<1>2. Init => Sends
  <2> SUFFICES ASSUME Init
               PROVE  Sends
    OBVIOUS
  <2>1. \A i \in Reminders : Holders(i) = {} /\ sent[i] = 0 /\ \A w \in Workers : ~Sending(w, i)
    BY DEF Init, Holders, Holds, Sending, Idle
  <2>2. Cardinality({}) = 0 /\ Cardinality(Workers) \in Nat
    BY FS_EmptySet, FS_CardinalityType
  <2>3. \A w \in Workers : pass[w].pc # "send"
    BY DEF Init, Idle
  <2>4. QED
    BY <2>1, <2>2, <2>3 DEF Sends
<1>3. Typed /\ Related /\ Sends /\ [Next]_vars => (Typed /\ Related /\ Sends)'
  BY TypeStep, RelatedStep, SendsStep
<1>4. Typed /\ Sends => FiresOncePerPass
  <2> SUFFICES ASSUME Typed, Sends, NEW i \in Reminders
               PROVE  sent[i] <= Cardinality(Workers)
    BY DEF FiresOncePerPass
  <2>1. IsFiniteSet(Holders(i))
    BY FS_Subset DEF Holders
  <2>2. Cardinality(Holders(i)) \in Nat /\ Cardinality(Workers) \in Nat
    BY <2>1, FS_CardinalityType
  <2>3. QED
    BY <2>2 DEF Typed, Sends
<1>5. QED
  BY <1>1, <1>2, <1>3, <1>4, PTL DEF Spec
-----------------------------------------------------------------------------
(* How often the assignee is told that the task is overdue. *)
Noticed ==
  /\ \A m \in Members, d \in Days :
       told[<<m, d>>] <= 1 /\ (told[<<m, d>>] # 0 => [to |-> m, day |-> d] \in rows)
  /\ \A k \in Checkers : check[k].pc \in {"check", "tell"} => check[k].since <= UtcDay(now)
  /\ \A k \in Checkers : check[k].pc = "tell" => ~Already(check[k].to, check[k].since)

LEMMA NoticedStep ==
  ASSUME InAppOff = {}, \A k, l \in Checkers : k = l, Typed, Noticed, [Next]_vars
  PROVE  Noticed'
<1>1. ASSUME UNCHANGED <<now, rows, told>>, \A k \in Checkers : check'[k] = check[k] \/ check'[k] = Idle
      PROVE  Noticed'
  BY <1>1 DEF Noticed, Already, Idle
<1>2. CASE Tick
  <2>1. UtcDay(now) <= UtcDay(now') /\ UtcDay(now) \in Int /\ UtcDay(now') \in Int
    <3>1. now \in Nat /\ now' \in Nat /\ now <= now'
      BY <1>2, TimeIsSane DEF Tick, Typed
    <3>2. \A a, b \in Nat : a <= b => a \div DayLength \in Nat /\ a \div DayLength <= b \div DayLength
      BY TimeIsSane, DivIsMonotone
    <3>3. QED
      BY <3>1, <3>2 DEF UtcDay
  <2>2. \A k \in Checkers : check[k].pc \in {"check", "tell"} => check[k].since \in Int
    BY DEF Typed, Checks, Idle, Days
  <2>3. UNCHANGED <<check, rows, told>>
    BY <1>2 DEF Tick
  <2>4. \A k \in Checkers : check'[k].pc \in {"check", "tell"} => check'[k].since <= UtcDay(now')
    BY <2>1, <2>2, <2>3 DEF Noticed
  <2>5. QED
    BY <2>3, <2>4 DEF Noticed, Already, UtcDay
<1>3. ASSUME NEW k \in Checkers, ListOverdue(k)
      PROVE  Noticed'
  <2>1. /\ check'[k] = [pc |-> "check", to |-> task.assignee, since |-> UtcDay(now)]
        /\ \A l \in Checkers \ {k} : check'[l] = check[l]
        /\ UNCHANGED <<now, rows, told>>
    BY <1>3 DEF ListOverdue, CheckOn, Typed
  <2>2. UtcDay(now) \in Int
    BY DaysAreDays DEF Typed, Days
  <2>3. QED
    BY <2>1, <2>2 DEF Noticed, Already, UtcDay
<1>4. ASSUME NEW k \in Checkers, LookUp(k)
      PROVE  Noticed'
  <2>1. check[k] \in [pc : {"check", "tell"}, to : Members, since : Days]
    BY <1>4 DEF LookUp, Typed, Checks, Idle
  <2>2. /\ \A l \in Checkers \ {k} : check'[l] = check[l]
        /\ UNCHANGED <<now, rows, told>>
    BY <1>4 DEF LookUp, CheckOn, Typed
  <2>3. CASE Already(check[k].to, check[k].since)
    <3>1. check'[k] = Idle
      BY <1>4, <2>3 DEF LookUp, CheckOn, Typed
    <3>2. QED
      BY <1>1, <2>2, <3>1
  <2>4. CASE ~Already(check[k].to, check[k].since)
    <3>1. check'[k].pc = "tell" /\ check'[k].to = check[k].to /\ check'[k].since = check[k].since
      BY <1>4, <2>1, <2>4 DEF LookUp, CheckOn, Typed
    <3>2. QED
      BY <2>1, <2>2, <2>4, <3>1 DEF Noticed, Already, UtcDay
  <2>5. QED
    BY <2>3, <2>4
<1>5. ASSUME NEW k \in Checkers, Tell(k)
      PROVE  Noticed'
  <2> DEFINE to == check[k].to
             today == UtcDay(now)
  <2>1. check[k] \in [pc : {"check", "tell"}, to : Members, since : Days] /\ check[k].pc = "tell"
    BY <1>5 DEF Tell, Typed, Checks, Idle
  <2>2. to \in Members /\ today \in Days /\ check[k].since <= today
    BY <2>1, DaysAreDays DEF Typed, Noticed
  <2>3. /\ rows' = rows \cup {[to |-> to, day |-> today]} /\ now' = now
        /\ told' = [told EXCEPT ![<<to, today>>] = @ + 1]
        /\ \A l \in Checkers : check'[l] = Idle
    BY <1>5 DEF Tell, CheckOn, Typed
  <2>4. told[<<to, today>>] = 0
    <3>1. SUFFICES ASSUME told[<<to, today>>] # 0
                   PROVE  FALSE
      OBVIOUS
    <3>2. [to |-> to, day |-> today] \in rows
      BY <2>2, <3>1 DEF Noticed
    <3>3. Already(to, check[k].since)
      BY <2>1, <2>2, <3>2 DEF Already, Days
    <3>4. QED
      BY <2>1, <3>3 DEF Noticed
  <2>5. ASSUME NEW m \in Members, NEW d \in Days
        PROVE  told'[<<m, d>>] <= 1 /\ (told'[<<m, d>>] # 0 => [to |-> m, day |-> d] \in rows')
    <3>1. CASE m = to /\ d = today
      BY <2>2, <2>3, <2>4, <3>1 DEF Typed
    <3>2. CASE ~(m = to /\ d = today)
      <4>1. told'[<<m, d>>] = told[<<m, d>>]
        BY <2>2, <2>3, <3>2 DEF Typed
      <4>2. QED
        BY <2>3, <4>1 DEF Noticed
    <3>3. QED
      BY <3>1, <3>2
  <2>6. \A l \in Checkers : check'[l].pc \notin {"check", "tell"}
    BY <2>3 DEF Idle
  <2>7. QED
    BY <2>5, <2>6 DEF Noticed
<1>6. ASSUME ~Tick, ~\E k \in Checkers : Checking(k)
      PROVE  UNCHANGED <<now, rows, told>> /\ \A k \in Checkers : check'[k] = check[k] \/ check'[k] = Idle
  <2>1. CASE Die
    BY <2>1 DEF Die, Typed
  <2>2. ASSUME NEW c \in Clients, Api(c)
        PROVE  UNCHANGED <<now, check, rows, told>>
    BY <2>2 DEF Api, CreateExact, Snooze, CreateRelative, Patch, Dismiss, Remove, MoveDue, Reassign, Close, Reopen,
         Purge, Store, StorePatch, WriteDue, Reload, ListPending, Anchor, UpdateTask, Asks, Continue
  <2>3. ASSUME NEW w \in Workers, Reminding(w)
        PROVE  UNCHANGED <<now, check, rows, told>>
    BY <2>3 DEF Reminding, List, Mark, Send, PassOn
  <2>4. QED
    BY <1>6, <2>1, <2>2, <2>3 DEF Next, vars
<1>7. QED
  BY <1>1, <1>2, <1>3, <1>4, <1>5, <1>6 DEF Checking

(* "Notify once per task per day" (OverdueProcessor), for one pass at a time and
   members who all keep in-app notices on: no assignee is told twice on one day of
   the server's calendar, however the task is reassigned, re-dated, closed and
   reopened, wherever passes die, and whatever the workspace's calendar. *)
THEOREM OverdueIsToldOnce ==
  ASSUME InAppOff = {}, \A k, l \in Checkers : k = l
  PROVE  Spec => []OneOverduePerDay
<1>1. Init => Typed /\ Related
  BY InitHolds
<1>2. Init => Noticed
  BY DEF Init, Noticed, Idle
<1>3. Typed /\ Related /\ Noticed /\ [Next]_vars => (Typed /\ Related /\ Noticed)'
  BY TypeStep, RelatedStep, NoticedStep
<1>4. Noticed => OneOverduePerDay
  <2> SUFFICES ASSUME Noticed, NEW n \in Members \X Days
               PROVE  told[n] <= 1
    BY DEF OneOverduePerDay
  <2>1. PICK m \in Members, d \in Days : n = <<m, d>>
    OBVIOUS
  <2>2. QED
    BY <2>1 DEF Noticed
<1>5. QED
  BY <1>1, <1>2, <1>3, <1>4, PTL DEF Spec
-----------------------------------------------------------------------------
(* When a pending reminder fires, however the requests overlap.  A row's fire time is its
   snooze's end, or what the stored date and offset say, or else a request is on its way
   to write it, or it is adrift. *)
SnoozeKept(r) == Pending(r) /\ r.snoozed # Null => r.next = r.snoozed

Agrees(r, due) ==
  Pending(r) /\ r.snoozed = Null /\ r.kind = "relative" => r.next = FireTime(due, r.offset)

(* A request that moved the due date has not yet been at the row. *)
Waits(i) ==
  \E c \in Clients :
    \/ request[c].pc \in {"reload", "pending"}
    \/ request[c].pc = "anchor" /\ \E r \in request[c].todo : r.id = i

FiresRight ==
  \A i \in Reminders : reminder[i] # Null =>
    SnoozeKept(reminder[i]) /\ (i \in adrift \/ Waits(i) \/ Agrees(reminder[i], task.due))

(* Only rows a re-anchoring lists can disagree with the date. *)
LEMMA OnlyAnchoredDisagree ==
  ASSUME NEW i \in Reminders, reminder[i] # Null, ~Anchored(i), NEW due
  PROVE  Agrees(reminder[i], due)
BY DEF Anchored, Agrees

(* A request that re-anchors nothing may go on as it likes. *)
LEMMA WaitsStays ==
  ASSUME Typed, NEW c \in Clients, NEW fields, request' = [request EXCEPT ![c] = fields],
         request[c].pc \notin {"reload", "pending", "anchor"}, NEW i, Waits(i)
  PROVE  Waits(i)'
<1>1. PICK d \in Clients :
        \/ request[d].pc \in {"reload", "pending"}
        \/ request[d].pc = "anchor" /\ \E r \in request[d].todo : r.id = i
  BY DEF Waits
<1>2. request'[d] = request[d]
  BY <1>1 DEF Typed
<1>3. QED
  BY <1>1, <1>2 DEF Waits

(* No row is written: what was waited for is waited for still, or came right, or is adrift. *)
LEMMA NoRowWritten ==
  ASSUME FiresRight, reminder' = reminder, task' = task \/ task'.due = task.due, adrift \subseteq adrift',
         \A i \in Reminders : reminder[i] # Null /\ Waits(i) =>
           i \in adrift' \/ Waits(i)' \/ Agrees(reminder[i], task.due)
  PROVE  FiresRight'
BY DEF FiresRight

(* One row is written, and its fire time is right or counted as adrift. *)
LEMMA RowWritten ==
  ASSUME Typed, FiresRight, task' = task, NEW i \in Reminders, NEW row,
         reminder' = [reminder EXCEPT ![i] = row],
         adrift \subseteq adrift' \cup {i}, \A j \in Reminders \ {i} : Waits(j) => Waits(j)',
         row # Null => SnoozeKept(row) /\ (i \in adrift' \/ Agrees(row, task.due))
  PROVE  FiresRight'
<1>1. ASSUME NEW j \in Reminders \ {i}, reminder'[j] # Null
      PROVE  SnoozeKept(reminder'[j]) /\ (j \in adrift' \/ Waits(j)' \/ Agrees(reminder'[j], task'.due))
  <2>1. reminder'[j] = reminder[j]
    BY DEF Typed
  <2>2. QED
    BY <1>1, <2>1 DEF FiresRight
<1>2. reminder'[i] = row
  BY DEF Typed
<1>3. QED
  BY <1>1, <1>2 DEF FiresRight

(* What the edits write: a row that is snoozed to its fire time, that is not relative, or
   that will not fire. *)
LEMMA EditsAgree ==
  ASSUME NEW r \in ReminderRows, NEW due
  PROVE  /\ \A at \in Times : r.kind = "exact" =>
              LET row == [r EXCEPT !.next = at, !.snoozed = Null] IN SnoozeKept(row) /\ Agrees(row, due)
         /\ \A until \in Times :
              LET row == [r EXCEPT !.snoozed = until, !.next = until] IN SnoozeKept(row) /\ Agrees(row, due)
         /\ LET row == [r EXCEPT !.dismissed = TRUE] IN SnoozeKept(row) /\ Agrees(row, due)
         /\ LET row == [r EXCEPT !.fired = TRUE, !.snoozed = Null] IN SnoozeKept(row) /\ Agrees(row, due)
<1>1. ASSUME NEW at \in Times, r.kind = "exact"
      PROVE  LET row == [r EXCEPT !.next = at, !.snoozed = Null] IN SnoozeKept(row) /\ Agrees(row, due)
  BY <1>1 DEF ReminderRows, SnoozeKept, Agrees
<1>2. ASSUME NEW until \in Times
      PROVE  LET row == [r EXCEPT !.snoozed = until, !.next = until] IN SnoozeKept(row) /\ Agrees(row, due)
  BY NullIsApart DEF ReminderRows, SnoozeKept, Agrees
<1>3. LET row == [r EXCEPT !.dismissed = TRUE] IN SnoozeKept(row) /\ Agrees(row, due)
  BY DEF ReminderRows, SnoozeKept, Agrees, Pending
<1>4. LET row == [r EXCEPT !.fired = TRUE, !.snoozed = Null] IN SnoozeKept(row) /\ Agrees(row, due)
  BY DEF ReminderRows, SnoozeKept, Agrees, Pending
<1>5. QED
  BY <1>1, <1>2, <1>3, <1>4

(* A computed fire time agrees with the due date it was computed from. *)
LEMMA ComputedAgrees ==
  ASSUME NEW r, r.snoozed = Null, NEW due, NEW offset, r.next = FireTime(due, offset)
  PROVE  SnoozeKept(r) /\ (r.offset = offset => Agrees(r, due))
BY DEF SnoozeKept, Agrees

LEMMA FiresRightStep ==
  ASSUME Typed, Related, FiresRight, [Next]_vars
  PROVE  FiresRight'
<1>a. task = Null => \A i \in Reminders : reminder[i] = Null
  BY DEF Related
<1>b. reminder \in [Reminders -> ReminderRows \cup {Null}]
  BY DEF Typed
<1>1. ASSUME UNCHANGED <<task, reminder, adrift, request>>
      PROVE  FiresRight'
  BY <1>1 DEF FiresRight, Waits
<1>2. ASSUME NEW c \in Clients, NEW fields, request' = [request EXCEPT ![c] = fields],
             request[c].pc \notin {"reload", "pending", "anchor"},
             UNCHANGED <<reminder, adrift>>, task' = task \/ task'.due = task.due
      PROVE  FiresRight'
  BY <1>2, WaitsStays, NoRowWritten
<1>3. ASSUME NEW c \in Clients, request' = [request EXCEPT ![c] = Idle],
             request[c].pc \notin {"reload", "pending", "anchor"}, task' = task,
             NEW i \in Reminders, NEW row, reminder' = [reminder EXCEPT ![i] = row],
             adrift \subseteq adrift' \cup {i},
             row # Null => SnoozeKept(row) /\ (i \in adrift' \/ Agrees(row, task.due))
      PROVE  FiresRight'
  <2>1. \A j \in Reminders \ {i} : Waits(j) => Waits(j)'
    BY <1>3, WaitsStays
  <2>2. QED
    BY <1>3, <2>1, RowWritten
<1>4. CASE UNCHANGED vars \/ Tick
  BY <1>1, <1>4 DEF vars, Tick, counters
<1>5. CASE Die
  <2>1. CASE UNCHANGED <<request, adrift>>
    BY <1>1, <1>5, <2>1 DEF Die
  <2>2. ASSUME NEW c \in Clients, request' = [request EXCEPT ![c] = Idle], adrift' = adrift \cup ToAnchor(c)
        PROVE  FiresRight'
    <3>1. ASSUME NEW i \in Reminders, reminder[i] # Null, Waits(i), ~Waits(i)'
          PROVE  i \in adrift' \/ Agrees(reminder[i], task.due)
      <4>1. PICK d \in Clients :
              \/ request[d].pc \in {"reload", "pending"}
              \/ request[d].pc = "anchor" /\ \E r \in request[d].todo : r.id = i
        BY <3>1 DEF Waits
      <4>2. d = c
        <5>1. d # c => request'[d] = request[d]
          BY <2>2 DEF Typed
        <5>2. QED
          BY <3>1, <4>1, <5>1 DEF Waits
      <4>3. Anchored(i) => i \in ToAnchor(c)
        BY <4>1, <4>2 DEF ToAnchor
      <4>4. QED
        BY <2>2, <3>1, <4>3, OnlyAnchoredDisagree
    <3>2. task' = task /\ reminder' = reminder
      BY <1>5 DEF Die
    <3>3. QED
      BY <2>2, <3>1, <3>2, NoRowWritten
  <2>3. QED
    BY <1>5, <2>1, <2>2 DEF Die
<1>6. ASSUME NEW c \in Clients, NEW i \in Reminders, NEW at \in Times, CreateExact(c, i, at)
      PROVE  FiresRight'
  <2>1. request[c].pc = "idle" /\ task' = task /\ adrift' = adrift /\ request' = [request EXCEPT ![c] = Idle]
    BY <1>6 DEF CreateExact, Asks, Idle
  <2> DEFINE row == NewRow("exact", Null, at)
  <2>2. SnoozeKept(row) /\ Agrees(row, task.due)
    BY DEF NewRow, SnoozeKept, Agrees
  <2>3. reminder' = [reminder EXCEPT ![i] = row]
    BY <1>6 DEF CreateExact, Insert
  <2> HIDE DEF row
  <2>4. QED
    BY <1>3, <2>1, <2>2, <2>3
<1>7. ASSUME NEW c \in Clients, NEW i \in Reminders, NEW until \in Times, Snooze(c, i, until)
      PROVE  FiresRight'
  <2>1. /\ request[c].pc = "idle" /\ reminder[i] \in ReminderRows /\ task' = task /\ adrift' = adrift
        /\ request' = [request EXCEPT ![c] = Idle]
    BY <1>7, <1>b DEF Snooze, Asks, Idle
  <2> DEFINE row == [reminder[i] EXCEPT !.snoozed = until, !.next = until]
  <2>2. SnoozeKept(row) /\ Agrees(row, task.due)
    BY <2>1, EditsAgree
  <2>3. reminder' = [reminder EXCEPT ![i] = row]
    BY <1>7 DEF Snooze, Write
  <2> HIDE DEF row
  <2>4. QED
    BY <1>3, <2>1, <2>2, <2>3
<1>8. ASSUME NEW c \in Clients, NEW i \in Reminders, NEW offset \in Offsets, NEW at \in Times,
             Patch(c, i, offset, at)
      PROVE  FiresRight'
  <2>1. request[c].pc = "idle" /\ reminder[i] \in ReminderRows /\ task' = task /\ adrift' = adrift
    BY <1>8, <1>b DEF Patch, Asks, Idle
  <2>2. CASE reminder[i].kind = "exact"
    <3> DEFINE row == [reminder[i] EXCEPT !.next = at, !.snoozed = Null]
    <3>1. SnoozeKept(row) /\ Agrees(row, task.due)
      BY <2>1, <2>2, EditsAgree
    <3>2. reminder' = [reminder EXCEPT ![i] = row] /\ request' = [request EXCEPT ![c] = Idle]
      BY <1>8, <2>2 DEF Patch, Asks, Write
    <3> HIDE DEF row
    <3>3. QED
      BY <1>3, <2>1, <3>1, <3>2
  <2>3. CASE reminder[i].kind = "relative"
    <3> DEFINE fields == [pc |-> "patch", id |-> i, offset |-> offset, due |-> task.due]
    <3>1. reminder' = reminder /\ request' = [request EXCEPT ![c] = fields]
      BY <1>8, <2>3 DEF Patch, Asks
    <3> HIDE DEF fields
    <3>2. QED
      BY <1>2, <2>1, <3>1
  <2>4. QED
    BY <1>8, <2>2, <2>3 DEF Patch
<1>9. ASSUME NEW c \in Clients, NEW i \in Reminders, Dismiss(c, i) \/ Remove(c, i)
      PROVE  FiresRight'
  <2>1. /\ request[c].pc = "idle" /\ reminder[i] \in ReminderRows /\ task' = task /\ adrift' = adrift
        /\ request' = [request EXCEPT ![c] = Idle]
    BY <1>9, <1>b DEF Dismiss, Remove, Asks, Idle
  <2> DEFINE row == [reminder[i] EXCEPT !.dismissed = TRUE]
  <2>2. SnoozeKept(row) /\ Agrees(row, task.due)
    BY <2>1, EditsAgree
  <2>3. reminder' = [reminder EXCEPT ![i] = row] \/ reminder' = [reminder EXCEPT ![i] = Null]
    BY <1>9 DEF Dismiss, Remove, Write
  <2> HIDE DEF row
  <2>4. QED
    BY <1>3, <2>1, <2>2, <2>3
<1>10. ASSUME NEW c \in Clients, NEW offset \in Offsets, CreateRelative(c, offset)
       PROVE  FiresRight'
  <2> DEFINE fields == [pc |-> "create", offset |-> offset, due |-> task.due]
  <2>1. request[c].pc = "idle" /\ UNCHANGED <<task, reminder, adrift>> /\ request' = [request EXCEPT ![c] = fields]
    BY <1>10 DEF CreateRelative, Asks, Idle
  <2> HIDE DEF fields
  <2>2. QED
    BY <1>2, <2>1
<1>11. ASSUME NEW c \in Clients, NEW due \in Dues, MoveDue(c, due)
       PROVE  FiresRight'
  <2> DEFINE fields == [pc |-> "due", old |-> task.due, due |-> due]
  <2>1. request[c].pc = "idle" /\ UNCHANGED <<task, reminder, adrift>> /\ request' = [request EXCEPT ![c] = fields]
    BY <1>11 DEF MoveDue, Asks, Idle
  <2> HIDE DEF fields
  <2>2. QED
    BY <1>2, <2>1
<1>12. ASSUME NEW c \in Clients, (\E m \in Members \cup {Null} : Reassign(c, m)) \/ Close(c) \/ Reopen(c)
       PROVE  FiresRight'
  <2>1. UNCHANGED <<request, reminder, adrift>> /\ task \in TaskRows
    BY <1>12 DEF Reassign, Close, Reopen, UpdateTask, Typed
  <2>2. task'.due = task.due
    BY <1>12, <2>1 DEF Reassign, Close, Reopen, UpdateTask, TaskRows
  <2>3. QED
    BY <2>1, <2>2, NoRowWritten DEF Waits
<1>13. ASSUME NEW c \in Clients, Purge(c)
       PROVE  FiresRight'
  BY <1>13 DEF Purge, FiresRight
<1>14. ASSUME NEW c \in Clients, Store(c)
       PROVE  FiresRight'
  <2>1. request[c].pc = "create" /\ task' = task /\ request' = [request EXCEPT ![c] = Idle]
    BY <1>14 DEF Store, Continue
  <2>2. CASE UNCHANGED <<reminder, adrift>>
    BY <1>2, <2>1, <2>2
  <2>3. ASSUME NEW i \in Reminders,
               Insert(i, "relative", request[c].offset, FireTime(request[c].due, request[c].offset)),
               Computed(i, request[c].due = task.due)
        PROVE  FiresRight'
    <3> DEFINE row == NewRow("relative", request[c].offset, FireTime(request[c].due, request[c].offset))
    <3>1. SnoozeKept(row) /\ Agrees(row, request[c].due)
      BY DEF NewRow, SnoozeKept, Agrees
    <3>2. reminder' = [reminder EXCEPT ![i] = row]
      BY <2>3 DEF Insert
    <3> HIDE DEF row
    <3>3. adrift \subseteq adrift' \cup {i} /\ (i \in adrift' \/ request[c].due = task.due)
      BY <2>3 DEF Computed
    <3>4. QED
      BY <1>3, <2>1, <3>1, <3>2, <3>3
  <2>4. QED
    BY <1>14, <2>2, <2>3 DEF Store
<1>15. ASSUME NEW c \in Clients, StorePatch(c)
       PROVE  FiresRight'
  <2>1. request[c] \in [pc : {"patch"}, id : Reminders, offset : Offsets, due : Dues]
        /\ task' = task /\ request' = [request EXCEPT ![c] = Idle]
    BY <1>15 DEF StorePatch, Continue, Typed, Requests, Idle
  <2> DEFINE i == request[c].id
             row == [reminder[i] EXCEPT !.offset = request[c].offset, !.snoozed = Null,
                                        !.next = FireTime(request[c].due, request[c].offset)]
  <2>2. request[c].pc = "patch" /\ i \in Reminders
    BY <2>1
  <2>3. CASE reminder[i] = Null
    <3>1. UNCHANGED <<reminder, adrift>>
      BY <1>15, <2>3 DEF StorePatch
    <3>2. QED
      BY <1>2, <2>1, <2>2, <3>1
  <2>4. CASE reminder[i] # Null
    <3>1. reminder[i] \in ReminderRows
      BY <1>b, <2>2, <2>4
    <3>2. row.snoozed = Null /\ row.offset = request[c].offset
          /\ row.next = FireTime(request[c].due, request[c].offset)
      BY <3>1 DEF ReminderRows
    <3>3. reminder' = [reminder EXCEPT ![i] = row] /\ Computed(i, request[c].due = task.due)
      BY <1>15, <2>4 DEF StorePatch, Write
    <3>4. adrift \subseteq adrift' \cup {i} /\ (i \in adrift' \/ request[c].due = task.due)
      BY <3>3 DEF Computed
    <3> HIDE DEF row
    <3>5. SnoozeKept(row) /\ Agrees(row, request[c].due)
      BY <3>2, ComputedAgrees
    <3>6. QED
      BY <1>3, <2>1, <2>2, <3>3, <3>4, <3>5
  <2>5. QED
    BY <2>3, <2>4
<1>16. ASSUME NEW c \in Clients, WriteDue(c)
       PROVE  FiresRight'
  <2>1. request[c].pc = "due" /\ reminder' = reminder
    BY <1>16 DEF WriteDue
  <2>2. CASE task = Null
    BY <1>2, <1>16, <2>1, <2>2 DEF WriteDue, Continue
  <2>3. CASE task # Null
    <3>1. task' = [task EXCEPT !.due = request[c].due] /\ task \in TaskRows
      BY <1>16, <2>3 DEF WriteDue, Typed
    <3>2. CASE request[c].due # request[c].old
      <4>1. request'[c].pc = "reload"
        BY <1>16, <2>3, <3>2 DEF WriteDue, Continue, Typed
      <4>2. \A i \in Reminders : Waits(i)'
        BY <4>1 DEF Waits
      <4>3. QED
        BY <2>1, <4>2 DEF FiresRight
    <3>3. CASE request[c].due = request[c].old
      <4>1. request' = [request EXCEPT ![c] = Idle]
        BY <1>16, <2>3, <3>3 DEF WriteDue, Continue
      <4>2. CASE request[c].due = task.due
        <5>1. task'.due = task.due /\ adrift' = adrift
          BY <1>16, <2>3, <3>1, <4>2 DEF WriteDue, TaskRows
        <5>2. QED
          BY <1>2, <2>1, <4>1, <5>1
      <4>3. CASE request[c].due # task.due
        <5>1. adrift' = adrift \cup {i \in Reminders : Anchored(i)}
          BY <1>16, <2>3, <3>3, <4>3 DEF WriteDue
        <5>2. QED
          BY <2>1, <5>1, OnlyAnchoredDisagree DEF FiresRight
      <4>4. QED
        BY <4>2, <4>3
    <3>4. QED
      BY <3>2, <3>3
  <2>4. QED
    BY <2>2, <2>3
<1>17. ASSUME NEW c \in Clients, Reload(c)
       PROVE  FiresRight'
  <2>1. UNCHANGED <<task, reminder, adrift>>
    BY <1>17 DEF Reload
  <2>2. CASE task = Null
    BY <1>a, <2>1, <2>2 DEF FiresRight
  <2>3. CASE task # Null
    <3>1. request'[c].pc = "pending"
      BY <1>17, <2>3 DEF Reload, Continue, Typed
    <3>2. \A i \in Reminders : Waits(i)'
      BY <3>1 DEF Waits
    <3>3. QED
      BY <2>1, <3>2 DEF FiresRight
  <2>4. QED
    BY <2>2, <2>3
<1>18. ASSUME NEW c \in Clients, ListPending(c)
       PROVE  FiresRight'
  <2> DEFINE todo == {[id |-> i, offset |-> reminder[i].offset] : i \in {j \in Reminders : Anchored(j)}}
  <2>1. /\ UNCHANGED <<task, reminder, adrift>>
        /\ request' = [request EXCEPT ![c] = Anchoring(request[c].due, todo)]
    BY <1>18 DEF ListPending, Continue
  <2>2. ASSUME NEW i \in Reminders, Anchored(i)
        PROVE  Waits(i)'
    <3> DEFINE r == [id |-> i, offset |-> reminder[i].offset]
    <3>1. r \in todo /\ r.id = i
      BY <2>2
    <3> HIDE DEF r, todo
    <3>2. request'[c].pc = "anchor" /\ request'[c].todo = todo
      BY <2>1, <3>1 DEF Anchoring, Typed
    <3>3. QED
      BY <3>1, <3>2 DEF Waits
  <2>3. QED
    BY <2>1, <2>2, OnlyAnchoredDisagree, NoRowWritten
<1>19. ASSUME NEW c \in Clients, Anchor(c)
       PROVE  FiresRight'
  <2>1. request[c] \in [pc : {"anchor"}, due : Dues, todo : SUBSET Listed] /\ task' = task
    BY <1>19 DEF Anchor, Typed, Requests, Idle
  <2>2. PICK r \in request[c].todo :
          IF reminder[r.id] = Null
          THEN Continue(c, Idle) /\ adrift' = adrift \cup ToAnchor(c) /\ UNCHANGED <<reminder, ids>>
          ELSE /\ Write(r.id, [reminder[r.id] EXCEPT !.snoozed = Null,
                                 !.next = FireTime(request[c].due, r.offset)])
               /\ Computed(r.id, request[c].due = task.due /\ r.offset = reminder[r.id].offset)
               /\ Continue(c, Anchoring(request[c].due, request[c].todo \ {r}))
    BY <1>19 DEF Anchor
  <2> DEFINE i == r.id
             row == [reminder[i] EXCEPT !.snoozed = Null, !.next = FireTime(request[c].due, r.offset)]
             rest == request[c].todo \ {r}
  <2>3. i \in Reminders /\ request[c].pc = "anchor"
    BY <2>1 DEF Listed
  <2>4. \A d \in Clients \ {c} : request'[d] = request[d]
    BY <2>2 DEF Continue, Typed
  <2>5. CASE reminder[i] = Null
    <3>1. ASSUME NEW j \in Reminders, Waits(j), ~Waits(j)'
          PROVE  j \in adrift'
      <4>1. \E s \in request[c].todo : s.id = j
        BY <2>3, <2>4, <3>1 DEF Waits
      <4>2. j \in ToAnchor(c)
        BY <2>3, <4>1 DEF ToAnchor
      <4>3. QED
        BY <2>2, <2>5, <4>2
    <3>2. reminder' = reminder /\ adrift \subseteq adrift'
      BY <2>2, <2>5
    <3>3. QED
      BY <2>1, <3>1, <3>2, NoRowWritten
  <2>6. CASE reminder[i] # Null
    <3>1. reminder[i] \in ReminderRows
      BY <1>b, <2>3, <2>6
    <3>2. row.snoozed = Null /\ row.offset = reminder[i].offset /\ row.next = FireTime(request[c].due, r.offset)
      BY <3>1 DEF ReminderRows
    <3>3. /\ reminder' = [reminder EXCEPT ![i] = row]
          /\ Computed(i, request[c].due = task.due /\ r.offset = reminder[i].offset)
          /\ request' = [request EXCEPT ![c] = Anchoring(request[c].due, rest)]
      BY <2>2, <2>6 DEF Write, Continue
    <3>4. adrift \subseteq adrift' \cup {i}
          /\ (i \in adrift' \/ (request[c].due = task.due /\ r.offset = reminder[i].offset))
      BY <3>3 DEF Computed
    <3> HIDE DEF row
    <3>5. SnoozeKept(row) /\ (r.offset = reminder[i].offset => Agrees(row, request[c].due))
      BY <3>2, ComputedAgrees
    <3>6. ASSUME NEW j \in Reminders \ {i}, Waits(j)
          PROVE  Waits(j)'
      <4>1. CASE \E s \in request[c].todo : s.id = j
        <5>1. PICK s \in rest : s.id = j
          BY <3>6, <4>1
        <5> HIDE DEF rest
        <5>2. request'[c].pc = "anchor" /\ request'[c].todo = rest
          BY <3>3, <5>1 DEF Anchoring, Typed
        <5>3. QED
          BY <5>1, <5>2 DEF Waits
      <4>2. CASE ~\E s \in request[c].todo : s.id = j
        BY <2>3, <2>4, <3>6, <4>2 DEF Waits
      <4>3. QED
        BY <4>1, <4>2
    <3>7. row # Null => SnoozeKept(row) /\ (i \in adrift' \/ Agrees(row, task.due))
      BY <3>4, <3>5
    <3> HIDE DEF i
    <3>8. QED
      BY <2>1, <2>3, <3>3, <3>4, <3>6, <3>7, RowWritten
  <2>7. QED
    BY <2>5, <2>6
<1>20. ASSUME NEW w \in Workers, Mark(w)
       PROVE  FiresRight'
  <2>1. pass[w] \in [pc : {"fire"}, todo : SUBSET Reminders] /\ UNCHANGED <<task, request, adrift>>
    BY <1>20 DEF Mark, PassOn, Typed, Passes, Idle
  <2>2. PICK i \in pass[w].todo :
          IF reminder[i] = Null THEN PassOn(w, Idle) /\ UNCHANGED <<reminder, ids>>
          ELSE /\ Write(i, [reminder[i] EXCEPT !.fired = TRUE, !.snoozed = Null])
               /\ PassOn(w, [pc |-> "send", id |-> i, todo |-> pass[w].todo \ {i}])
    BY <1>20 DEF Mark
  <2>3. CASE reminder[i] = Null
    BY <1>1, <2>1, <2>2, <2>3
  <2>4. CASE reminder[i] # Null
    <3> DEFINE row == [reminder[i] EXCEPT !.fired = TRUE, !.snoozed = Null]
    <3>1. i \in Reminders /\ reminder[i] \in ReminderRows
      BY <1>b, <2>1, <2>4
    <3>2. SnoozeKept(row) /\ Agrees(row, task.due)
      BY <3>1, EditsAgree
    <3>3. reminder' = [reminder EXCEPT ![i] = row]
      BY <2>2, <2>4 DEF Write
    <3>4. \A j : Waits(j) => Waits(j)'
      BY <2>1 DEF Waits
    <3> HIDE DEF row
    <3>5. QED
      BY <2>1, <3>1, <3>2, <3>3, <3>4, RowWritten
  <2>5. QED
    BY <2>3, <2>4
<1>21. ASSUME NEW w \in Workers, List(w) \/ Send(w)
       PROVE  FiresRight'
  BY <1>1, <1>21 DEF List, Send, PassOn
<1>22. ASSUME NEW k \in Checkers, Checking(k)
       PROVE  FiresRight'
  BY <1>1, <1>22 DEF Checking, ListOverdue, LookUp, Tell, CheckOn
<1>23. QED
  BY <1>4, <1>5, <1>6, <1>7, <1>8, <1>9, <1>10, <1>11, <1>12, <1>13, <1>14, <1>15, <1>16, <1>17, <1>18,
     <1>19, <1>20, <1>21, <1>22 DEF Next, Api, Reminding

(* "an active snooze is cleared because it was relative to the old due instant"
   (recomputeRelativeForTask), for any number of requests and passes that overlap and die:
   a pending snoozed reminder fires when the snooze ends, and a pending relative one its
   offset before the due instant the task has now, unless a re-anchoring is still to reach
   it or it missed a change (adrift): a stale date or offset was written over another
   request's, or its re-anchoring was cut off. *)
THEOREM FireTimesAreCurrent == Spec => []FireTimeIsCurrent
<1>1. Init => Typed /\ Related
  BY InitHolds
<1>2. Init => FiresRight
  <2> SUFFICES ASSUME Init, NEW i \in Reminders, reminder[i] # Null
               PROVE  SnoozeKept(reminder[i]) /\ Agrees(reminder[i], task.due)
    BY DEF FiresRight
  <2>1. reminder[i] \in NewRows(task.due)
    BY DEF Init
  <2>2. QED
    BY <2>1 DEF NewRows, NewRow, SnoozeKept, Agrees
<1>3. Typed /\ Related /\ FiresRight /\ [Next]_vars => (Typed /\ Related /\ FiresRight)'
  BY TypeStep, RelatedStep, FiresRightStep
<1>4. FiresRight => FireTimeIsCurrent
  <2> SUFFICES ASSUME FiresRight, NEW i \in Reminders, reminder[i] # Null, Pending(reminder[i])
               PROVE  /\ reminder[i].snoozed # Null => reminder[i].next = reminder[i].snoozed
                      /\ (/\ reminder[i].snoozed = Null /\ reminder[i].kind = "relative"
                          /\ i \notin adrift /\ \A c \in Clients : i \notin ToAnchor(c)) =>
                           reminder[i].next = FireTime(task.due, reminder[i].offset)
    BY DEF FireTimeIsCurrent
  <2>1. reminder[i].snoozed # Null => reminder[i].next = reminder[i].snoozed
    BY DEF FiresRight, SnoozeKept
  <2>2. ASSUME reminder[i].snoozed = Null, reminder[i].kind = "relative", i \notin adrift,
               \A c \in Clients : i \notin ToAnchor(c)
        PROVE  reminder[i].next = FireTime(task.due, reminder[i].offset)
    <3>1. Anchored(i)
      BY <2>2 DEF Anchored
    <3>2. ~Waits(i)
      BY <2>2, <3>1 DEF Waits, ToAnchor
    <3>3. QED
      BY <2>2, <3>2 DEF FiresRight, Agrees
  <2>3. QED
    BY <2>1, <2>2
<1>5. QED
  BY <1>1, <1>2, <1>3, <1>4, PTL DEF Spec
=============================================================================
