------------------------------ MODULE Reminders ------------------------------
(***************************************************************************)
(* What the workers tell a member about one task: its reminders            *)
(* (reminders.module.ts, ReminderProcessor) and the daily overdue notice   *)
(* (OverdueProcessor), with the requests that move the due date, snooze,   *)
(* dismiss and edit meanwhile.                                             *)
(*                                                                         *)
(* Both processors treat the tasks and reminders they list one by one and  *)
(* relate no two tasks, so one task stands for all.  Every statement of a  *)
(* processor, and every read or write of a request that depends on an      *)
(* earlier read, is a step.  Time is a number; a day has DayLength of them *)
(* and the workspace's calendar runs ZoneAhead ahead of UTC's.             *)
(***************************************************************************)
EXTENDS Integers, FiniteSets

CONSTANTS
  Null,
  Reminders,     \* the ids a behaviour may create
  Members,       \* whom the task may be assigned to
  InAppOff,      \* the members who switched in-app notices off
  Offsets,       \* the offsets of relative reminders
  Times,         \* the instants a request may name for an exact reminder or a snooze
  DayLength, ZoneAhead,
  DueHour,       \* the task's due time (default 09:00), within its day
  LastTime,      \* the clock of an instance stops here
  Workers,       \* passes of the reminders queue that may be in progress at once
  Checkers,      \* passes of the overdue-check queue, likewise
  Clients,       \* requests that may be in progress at once
  MaxRequests,   \* bound on the requests of a behaviour
  MaxDeaths      \* bound on the passes and requests that die half way

ASSUME TimeIsSane ==
  /\ DayLength \in Nat \ {0} /\ ZoneAhead \in Nat /\ DueHour \in Nat /\ LastTime \in Nat
  /\ Offsets \subseteq Nat /\ Times \subseteq Nat /\ InAppOff \subseteq Members
  /\ MaxRequests \in Nat /\ MaxDeaths \in Nat

VARIABLES
  now,
  task,       \* [due, assignee, open], Null once purged; open: neither done nor in the trash
  reminder,   \* id -> row or Null
  ids,        \* the ids ever given out
  pass,       \* per worker: its pass over the pending reminders
  check,      \* per checker: its pass over the overdue tasks
  request,    \* per client: a request between its read and its write
  sent,       \* id -> how often the reminder was dispatched
  rows,       \* the overdue notification rows: [to, day]
  told,       \* [to, day] -> how often the overdue notice was dispatched that day
  adrift,     \* history: the reminders whose fire time missed a change, see Computed
  requests, deaths

vars == <<now, task, reminder, ids, pass, check, request, sent, rows, told, adrift, requests, deaths>>
counters == <<requests, deaths>>

Days == 0..((LastTime + ZoneAhead) \div DayLength)
Dues == Days \cup {Null}
Instants == Int \cup {Null}

(* The columns of a task and of a reminder the workers look at. *)
TaskRows == [due : Dues, assignee : Members \cup {Null}, open : BOOLEAN]

ReminderRows ==
  [kind : {"exact", "relative"}, offset : Offsets \cup {Null}, next : Instants,
   snoozed : Times \cup {Null}, fired : BOOLEAN, dismissed : BOOLEAN]

ASSUME NullIsApart == Null \notin TaskRows \cup ReminderRows \cup Times

UtcDay(t) == t \div DayLength
Today(t) == (t + ZoneAhead) \div DayLength

Idle == [pc |-> "idle"]

(* relativeFireTime: the due instant minus the offset. *)
FireTime(due, offset) ==
  IF due = Null THEN Null ELSE due * DayLength + DueHour - ZoneAhead - offset

Reached(t) == t # Null /\ t <= now

Pending(r) == ~r.fired /\ ~r.dismissed

(* Mutant: the snoozed and the moved reminders are the only ones looked for. *)
DueOnSnooze(r) == Pending(r) /\ Reached(r.snoozed)

Due(r) == Pending(r) /\ (Reached(r.next) \/ Reached(r.snoozed))

NewRow(kind, offset, next) ==
  [kind |-> kind, offset |-> offset, next |-> next, snoozed |-> Null, fired |-> FALSE, dismissed |-> FALSE]

(* What may be stored of a task with this due date before anything happens to it. *)
NewRows(due) ==
  {NewRow("exact", Null, at) : at \in Times}
    \cup {NewRow("relative", offset, FireTime(due, offset)) : offset \in Offsets}

(* The task may have reminders already. *)
Init ==
  /\ now = 0
  /\ task \in {row \in TaskRows : row.open}
  /\ reminder \in [Reminders -> NewRows(task.due) \cup {Null}]
  /\ ids = {i \in Reminders : reminder[i] # Null}
  /\ pass = [w \in Workers |-> Idle] /\ check = [k \in Checkers |-> Idle]
  /\ request = [c \in Clients |-> Idle]
  /\ sent = [i \in Reminders |-> 0]
  /\ rows = {} /\ told = [n \in Members \X Days |-> 0]
  /\ adrift = {} /\ requests = 0 /\ deaths = 0

Tick ==
  /\ now < LastTime /\ now' = now + 1
  /\ UNCHANGED <<task, reminder, ids, pass, check, request, sent, rows, told, adrift, counters>>

-----------------------------------------------------------------------------
(* Requests.  The reads a request makes before it stops to write are one step. *)
Asks(c, fields) ==
  /\ request[c] = Idle /\ requests < MaxRequests /\ requests' = requests + 1
  /\ request' = [request EXCEPT ![c] = fields]
  /\ UNCHANGED <<now, task, pass, check, sent, rows, told, adrift, deaths>>

Continue(c, fields) ==
  /\ request' = [request EXCEPT ![c] = fields]
  /\ UNCHANGED <<now, pass, check, sent, rows, told, counters>>

Insert(i, kind, offset, next) ==
  /\ i \notin ids /\ ids' = ids \cup {i}
  /\ reminder' = [reminder EXCEPT ![i] = NewRow(kind, offset, next)]

CreateExact(c, i, at) ==
  /\ task # Null /\ Insert(i, "exact", Null, at) /\ Asks(c, Idle)

(* A relative reminder is computed from the task as read, then stored. *)
CreateRelative(c, offset) ==
  /\ task # Null /\ task.due # Null
  /\ Asks(c, [pc |-> "create", offset |-> offset, due |-> task.due])
  /\ UNCHANGED <<reminder, ids>>

(* History: a fire time is right when it is computed from what is stored now, and not
   from a due date or an offset that was read before another request changed it. *)
Computed(i, fresh) == adrift' = IF fresh THEN adrift \ {i} ELSE adrift \cup {i}

(* The foreign key refuses the row when the task is gone. *)
Store(c) ==
  /\ request[c].pc = "create"
  /\ \/ /\ task # Null
        /\ \E i \in Reminders :
             /\ Insert(i, "relative", request[c].offset, FireTime(request[c].due, request[c].offset))
             /\ Computed(i, request[c].due = task.due)
     \/ task = Null /\ UNCHANGED <<reminder, ids, adrift>>
  /\ Continue(c, Idle) /\ UNCHANGED task

Write(i, row) == reminder' = [reminder EXCEPT ![i] = row] /\ UNCHANGED ids

Patch(c, i, offset, at) ==
  /\ reminder[i] # Null
  /\ \/ /\ reminder[i].kind = "exact"
        /\ Write(i, [reminder[i] EXCEPT !.next = at, !.snoozed = Null]) /\ Asks(c, Idle)
     \/ /\ reminder[i].kind = "relative"
        /\ Asks(c, [pc |-> "patch", id |-> i, offset |-> offset, due |-> task.due])
        /\ UNCHANGED <<reminder, ids>>

StorePatch(c) ==
  /\ request[c].pc = "patch"
  /\ LET i == request[c].id IN
       IF reminder[i] = Null THEN UNCHANGED <<reminder, ids, adrift>>
       ELSE /\ Write(i, [reminder[i] EXCEPT !.offset = request[c].offset, !.snoozed = Null,
                           !.next = FireTime(request[c].due, request[c].offset)])
            /\ Computed(i, request[c].due = task.due)
  /\ Continue(c, Idle) /\ UNCHANGED task

(* Mutant: a snooze arms a fired reminder again. *)
SnoozeRearms(c, i, until) ==
  /\ reminder[i] # Null
  /\ Write(i, [reminder[i] EXCEPT !.snoozed = until, !.next = until, !.fired = FALSE]) /\ Asks(c, Idle)

Snooze(c, i, until) ==
  /\ reminder[i] # Null
  /\ Write(i, [reminder[i] EXCEPT !.snoozed = until, !.next = until]) /\ Asks(c, Idle)

Dismiss(c, i) ==
  /\ reminder[i] # Null
  /\ Write(i, [reminder[i] EXCEPT !.dismissed = TRUE]) /\ Asks(c, Idle)

Remove(c, i) == reminder[i] # Null /\ Write(i, Null) /\ Asks(c, Idle)

(* PATCH of the task's due date: the row is read, written, and when the written
   date differs from the read one the pending relative reminders are re-anchored
   one by one, on the task as read again. *)
MoveDue(c, due) ==
  /\ task # Null
  /\ Asks(c, [pc |-> "due", old |-> task.due, due |-> due]) /\ UNCHANGED <<reminder, ids>>

Anchored(i) == reminder[i] # Null /\ reminder[i].kind = "relative" /\ Pending(reminder[i])

(* A date written back over another's change is not a change to who wrote it. *)
WriteDue(c) ==
  /\ request[c].pc = "due"
  /\ IF task = Null THEN Continue(c, Idle) /\ UNCHANGED <<task, adrift>>
     ELSE LET changed == request[c].due # request[c].old IN
          /\ task' = [task EXCEPT !.due = request[c].due]
          /\ Continue(c, IF changed THEN [pc |-> "reload"] ELSE Idle)
          /\ adrift' = IF changed \/ request[c].due = task.due THEN adrift
                       ELSE adrift \cup {i \in Reminders : Anchored(i)}
  /\ UNCHANGED <<reminder, ids>>

Reload(c) ==
  /\ request[c].pc = "reload"
  /\ Continue(c, IF task = Null THEN Idle ELSE [pc |-> "pending", due |-> task.due])
  /\ UNCHANGED <<task, reminder, ids, adrift>>

Anchoring(due, todo) == IF todo = {} THEN Idle ELSE [pc |-> "anchor", due |-> due, todo |-> todo]

ListPending(c) ==
  /\ request[c].pc = "pending"
  /\ Continue(c, Anchoring(request[c].due,
       {[id |-> i, offset |-> reminder[i].offset] : i \in {j \in Reminders : Anchored(j)}}))
  /\ UNCHANGED <<task, reminder, ids, adrift>>

(* The reminders a request would still re-anchor. *)
ToAnchor(c) ==
  CASE request[c].pc \in {"reload", "pending"} -> {i \in Reminders : Anchored(i)}
    [] request[c].pc = "anchor" -> {r.id : r \in request[c].todo}
    [] OTHER -> {}

(* Mutant: a snooze outlives the date it was relative to. *)
AnchorKeepingSnooze(c) ==
  /\ request[c].pc = "anchor"
  /\ \E r \in request[c].todo :
       IF reminder[r.id] = Null
       THEN Continue(c, Idle) /\ adrift' = adrift \cup ToAnchor(c) /\ UNCHANGED <<reminder, ids>>
       ELSE /\ Write(r.id, [reminder[r.id] EXCEPT !.next = FireTime(request[c].due, r.offset)])
            /\ Computed(r.id, request[c].due = task.due /\ r.offset = reminder[r.id].offset)
            /\ Continue(c, Anchoring(request[c].due, request[c].todo \ {r}))
  /\ UNCHANGED task

(* An update of a removed reminder throws, and update() of the task swallows it: the
   rest of the list is left as it was. *)
Anchor(c) ==
  /\ request[c].pc = "anchor"
  /\ \E r \in request[c].todo :
       IF reminder[r.id] = Null
       THEN Continue(c, Idle) /\ adrift' = adrift \cup ToAnchor(c) /\ UNCHANGED <<reminder, ids>>
       ELSE /\ Write(r.id, [reminder[r.id] EXCEPT !.snoozed = Null,
                              !.next = FireTime(request[c].due, r.offset)])
            /\ Computed(r.id, request[c].due = task.due /\ r.offset = reminder[r.id].offset)
            /\ Continue(c, Anchoring(request[c].due, request[c].todo \ {r}))
  /\ UNCHANGED task

(* The other requests that matter to the processors are single writes. *)
UpdateTask(c, row) ==
  /\ task # Null /\ request[c] = Idle /\ requests < MaxRequests /\ requests' = requests + 1
  /\ task' = row
  /\ UNCHANGED <<now, pass, check, request, sent, rows, told, adrift, deaths>>

Reassign(c, m) == UpdateTask(c, [task EXCEPT !.assignee = m]) /\ UNCHANGED <<reminder, ids>>
Close(c)       == UpdateTask(c, [task EXCEPT !.open = FALSE]) /\ UNCHANGED <<reminder, ids>>
Reopen(c)      == UpdateTask(c, [task EXCEPT !.open = TRUE]) /\ UNCHANGED <<reminder, ids>>

Purge(c) == UpdateTask(c, Null) /\ reminder' = [i \in Reminders |-> Null] /\ UNCHANGED ids

-----------------------------------------------------------------------------
(* ReminderProcessor: the list read at the start of the pass is worked off; a
   reminder is marked fired, then its notice is sent. *)
Passing(todo) == IF todo = {} THEN Idle ELSE [pc |-> "fire", todo |-> todo]

PassOn(w, fields) ==
  /\ pass' = [pass EXCEPT ![w] = fields]
  /\ UNCHANGED <<now, task, check, request, rows, told, adrift, counters>>

List(w) ==
  /\ pass[w] = Idle
  /\ \E i \in Reminders : reminder[i] # Null /\ Due(reminder[i])
  /\ PassOn(w, Passing({i \in Reminders : reminder[i] # Null /\ Due(reminder[i])}))
  /\ UNCHANGED <<reminder, ids, sent>>

(* An update of a removed reminder throws: the job fails and is run again. *)
Mark(w) ==
  /\ pass[w].pc = "fire"
  /\ \E i \in pass[w].todo :
       IF reminder[i] = Null THEN PassOn(w, Idle) /\ UNCHANGED <<reminder, ids>>
       ELSE /\ Write(i, [reminder[i] EXCEPT !.fired = TRUE, !.snoozed = Null])
            /\ PassOn(w, [pc |-> "send", id |-> i, todo |-> pass[w].todo \ {i}])
  /\ UNCHANGED sent

(* dispatch swallows its own failures. *)
Send(w) ==
  /\ pass[w].pc = "send"
  /\ sent' = [sent EXCEPT ![pass[w].id] = @ + 1]
  /\ PassOn(w, Passing(pass[w].todo))
  /\ UNCHANGED <<reminder, ids>>

-----------------------------------------------------------------------------
(* OverdueProcessor. *)
CheckOn(k, fields) ==
  /\ check' = [check EXCEPT ![k] = fields]
  /\ UNCHANGED <<now, task, reminder, ids, pass, request, sent, adrift, counters>>

Overdue == task # Null /\ task.open /\ task.due # Null /\ task.assignee # Null /\ Today(now) > task.due

(* The dedupe day and the candidates are read at the start of the pass. *)
ListOverdue(k) ==
  /\ check[k] = Idle /\ Overdue
  /\ CheckOn(k, [pc |-> "check", to |-> task.assignee, since |-> UtcDay(now)])
  /\ UNCHANGED <<rows, told>>

(* Mutant: the day is the workspace's, the rows' are UTC's. *)
AlreadyInZone(to, since) == \E r \in rows : r.to = to /\ r.day >= Today(now)

Already(to, since) == \E r \in rows : r.to = to /\ r.day >= since

LookUp(k) ==
  /\ check[k].pc = "check"
  /\ CheckOn(k, IF Already(check[k].to, check[k].since) THEN Idle ELSE [check[k] EXCEPT !.pc = "tell"])
  /\ UNCHANGED <<rows, told>>

(* dispatch: the row is skipped for a member with in-app notices off, the push is
   not. The row has a foreign key to the workspace only. *)
Tell(k) ==
  /\ check[k].pc = "tell"
  /\ rows' = IF check[k].to \in InAppOff THEN rows ELSE rows \cup {[to |-> check[k].to, day |-> UtcDay(now)]}
  /\ told' = [told EXCEPT ![<<check[k].to, UtcDay(now)>>] = @ + 1]
  /\ CheckOn(k, Idle)

-----------------------------------------------------------------------------
(* A connection is lost: the job or the request fails where it is. *)
Die ==
  /\ deaths < MaxDeaths /\ deaths' = deaths + 1
  /\ \/ \E w \in Workers : /\ pass[w] # Idle /\ pass' = [pass EXCEPT ![w] = Idle]
                           /\ UNCHANGED <<check, request, adrift>>
     \/ \E k \in Checkers : /\ check[k] # Idle /\ check' = [check EXCEPT ![k] = Idle]
                            /\ UNCHANGED <<pass, request, adrift>>
     \/ \E c \in Clients : /\ request[c] # Idle /\ request' = [request EXCEPT ![c] = Idle]
                           /\ adrift' = adrift \cup ToAnchor(c)
                           /\ UNCHANGED <<pass, check>>
  /\ UNCHANGED <<now, task, reminder, ids, sent, rows, told, requests>>

Api(c) ==
  \/ \E i \in Reminders, at \in Times : CreateExact(c, i, at) \/ Snooze(c, i, at)
  \/ \E offset \in Offsets : CreateRelative(c, offset)
  \/ \E i \in Reminders, offset \in Offsets, at \in Times : Patch(c, i, offset, at)
  \/ \E i \in Reminders : Dismiss(c, i) \/ Remove(c, i)
  \/ \E due \in Dues : MoveDue(c, due)
  \/ \E m \in Members \cup {Null} : Reassign(c, m)
  \/ Close(c) \/ Reopen(c) \/ Purge(c)
  \/ Store(c) \/ StorePatch(c) \/ WriteDue(c) \/ Reload(c) \/ ListPending(c) \/ Anchor(c)

Reminding(w) == List(w) \/ Mark(w) \/ Send(w)
Checking(k) == ListOverdue(k) \/ LookUp(k) \/ Tell(k)

Next ==
  \/ Tick \/ Die
  \/ \E c \in Clients : Api(c)
  \/ \E w \in Workers : Reminding(w)
  \/ \E k \in Checkers : Checking(k)

(* The scheduler runs both processors forever; nothing makes a request come. *)
Spec ==
  /\ Init /\ [][Next]_vars
  /\ \A w \in Workers : WF_vars(Reminding(w))
  /\ \A k \in Checkers : WF_vars(Checking(k))

-----------------------------------------------------------------------------
(* Types, and a reminder never outlives its task. *)
TypeOK ==
  /\ now \in 0..LastTime
  /\ task \in TaskRows \cup {Null}
  /\ reminder \in [Reminders -> ReminderRows \cup {Null}] /\ sent \in [Reminders -> Nat]
  /\ rows \subseteq [to : Members, day : Days] /\ told \in [Members \X Days -> Nat]
  /\ task = Null => \A i \in Reminders : reminder[i] = Null

(* However requests overlap, a pending reminder that is snoozed fires when the snooze
   ends and not before ("an active snooze is cleared because it was relative to the
   old due instant").  One that is not, and is relative, fires its offset before the due
   instant the task has, unless a re-anchoring is still to reach it, or it has missed a
   change: its fire time was computed from a date or an offset read before another
   request changed it, a date was written back over a change, or the re-anchoring was
   cut off on its way to it. *)
FireTimeIsCurrent ==
  \A i \in Reminders : (reminder[i] # Null /\ Pending(reminder[i])) =>
    /\ reminder[i].snoozed # Null => reminder[i].next = reminder[i].snoozed
    /\ (/\ reminder[i].snoozed = Null /\ reminder[i].kind = "relative"
        /\ i \notin adrift /\ \A c \in Clients : i \notin ToAnchor(c)) =>
         reminder[i].next = FireTime(task.due, reminder[i].offset)

(* "a reminder fires once": per pass of the processor that may be in progress,
   wherever passes die and whatever is snoozed, moved or dismissed meanwhile. *)
FiresOncePerPass == \A i \in Reminders : sent[i] <= Cardinality(Workers)

(* "Notify once per task per day": one overdue notice per assignee and UTC day,
   across reassignments, moved due dates, dying passes and midnights in either
   calendar. *)
OneOverduePerDay == \A n \in Members \X Days : told[n] <= 1

TimeHasCome(i) == reminder[i] # Null /\ Pending(reminder[i]) /\ Reached(reminder[i].next)

(* A reminder whose time has come is fired, unless it is dismissed, moved or
   removed first. *)
RemindersFire == \A i \in Reminders : TimeHasCome(i) ~> ~TimeHasCome(i)
=============================================================================
