--------------------------- MODULE RecurrenceRules ---------------------------
(***************************************************************************)
(* One recurrence rule, its source task, the instances generated from it,  *)
(* the hourly generator ticks that generate them and the API requests that *)
(* edit the rule meanwhile (recurrence.module.ts, workers.module.ts,       *)
(* tasks.module.ts).                                                       *)
(*                                                                         *)
(* A task has at most one rule (taskId is unique) and the generator        *)
(* handles the rules one by one, each in its own try/catch, touching no    *)
(* row of another rule: the system is a set of independent copies of this  *)
(* module.  Every write is a step of its own, and so is every read of the  *)
(* generator, because nothing but the unique index (rule, occurrenceDate)  *)
(* relates two of them; the reads a request makes before its write are one *)
(* step.  Days are the calendar days of the rule's timezone.  The calendar *)
(* itself is a parameter; RecurrenceEngine is the engine's own.            *)
(***************************************************************************)
EXTENDS RecurrenceEnd, FiniteSets

CONSTANTS
  Configs,                    \* the rule settings a request may store
  NextOnSchedule(_, _, _),    \* the day after "after" on a schedule: (settings, anchor, after)
  NextFromCompletion(_, _),  \* the day a completion schedules: (settings, completedOn)
  HorizonDays,                \* RECURRENCE_HORIZON_DAYS
  MaxPerTick,                 \* MAX_INSTANCES_PER_RULE_PER_TICK
  RetentionDays,              \* trashRetentionDays
  LastDay,                    \* the calendar of an instance ends here; the clock stops HorizonDays before
  Workers,                    \* generator ticks that may be in progress at once
  Clients,                    \* API requests that may be in progress at once
  UserOps,                    \* the kinds of user operation an instance exercises
  MaxUserOps,                 \* bound on the user operations of a behaviour
  MaxCrashes                  \* bound on the ticks that die half way

Day == 0..LastDay

(* What the generator relies on of the calendar: a schedule only moves forward,
   it has no day between a day and its next day, and a completion never schedules
   the past.  EngineMovesForward of RecurrenceWalkProofs
   proves it of the engine. *)
ASSUME CalendarMovesForward ==
  \A c \in Configs, a \in Day, d \in Day :
    /\ NextOnSchedule(c, a, d) \in Nat
    /\ NextOnSchedule(c, a, d) > d
    /\ NextOnSchedule(c, a, d) > a
    /\ \A e \in Day : (d <= e /\ e < NextOnSchedule(c, a, d)) =>
                        NextOnSchedule(c, a, e) = NextOnSchedule(c, a, d)
    /\ NextFromCompletion(c, d) \in Nat
    /\ NextFromCompletion(c, d) >= d

(* What create() and update() require of the settings they store. *)
ASSUME EndsAreGiven ==
  \A c \in Configs :
    /\ c.repeatAfterCompletion \in BOOLEAN
    /\ c.endType \in {"never", "after_count", "on_date"}
    /\ c.endType = "after_count" => c.endCount \in Nat \ {0}
    /\ c.endType = "on_date" => c.endDate \in Int

ASSUME ConstantsAreSane ==
  /\ HorizonDays \in Nat /\ RetentionDays \in Nat /\ MaxPerTick \in Nat \ {0}
  /\ LastDay \in Nat /\ HorizonDays <= LastDay
  /\ MaxUserOps \in Nat /\ MaxCrashes \in Nat
  /\ UserOps \subseteq {"create", "update", "remove", "complete", "reopen", "trash", "restore", "due"}

VARIABLES
  today,      \* the calendar day
  task,       \* the source task's row, Null once purged
  rule,       \* the rule's row, Null when the task has none
  instances,  \* the task_instances rows, each with its task's completion and trash days
  job,        \* per worker: the tick in progress
  request,    \* per client: the rule it is about to write
  created,    \* instances ever created: createdAt order, and the history of the rule
  log,        \* history: the rule as last stored by a request, and the days covered since
  ops,        \* user operations so far
  crashes     \* ticks that died so far

vars == <<today, task, rule, instances, job, request, created, log, ops, crashes>>

----------------------------------------------------------------------------
(* Rows. *)

Rule(cfg, next, isActive) == [cfg |-> cfg, next |-> next, isActive |-> isActive]
RuleRows == [cfg : Configs, next : Nat \cup {Null}, isActive : BOOLEAN]

TaskRows == [anchor : Day, completedOn : Day \cup {Null}, trashedOn : Day \cup {Null}]

InstanceRows ==
  [id : Nat, day : Nat, completedOn : Day \cup {Null}, trashedOn : Day \cup {Null}]

(* The history variable: the rule as stored, and the days it has covered. *)
LogRows ==
  [cfg : Configs, anchor : Day, first : Nat \cup {Null}, covered : SUBSET Nat]

(* An absent row is not a row. *)
ASSUME NullIsNoRow == Null \notin TaskRows /\ Null \notin RuleRows /\ Null \notin LogRows

OccurrenceDays == { i.day : i \in instances }

(* findFirst ... orderBy createdAt desc *)
Latest == CHOOSE i \in instances : \A j \in instances : j.id <= i.id

Idle == [pc |-> "idle"]

Generated == Cardinality(instances)

NextOccurrence(cfg, anchor, generated, after) ==
  ApplyEnd(cfg, generated,
           IF cfg.repeatAfterCompletion THEN NextFromCompletion(cfg, after)
                                        ELSE NextOnSchedule(cfg, anchor, after))

(* computeNextFromRule, for the row create() and update() store. *)
ComputeNext(cfg, generated) ==
  IF cfg.repeatAfterCompletion
  THEN IF task.completedOn = Null THEN Null
       ELSE NextOccurrence(cfg, task.anchor, generated, task.completedOn)
  ELSE NextOccurrence(cfg, task.anchor, generated,
                      IF task.anchor > today THEN task.anchor ELSE today)

(* A schedule that can never fire again is refused (400). *)
Storable(cfg, next) == next # Null \/ cfg.repeatAfterCompletion

Init ==
  /\ today = 0
  /\ \E a \in Day : a <= 1 /\ task = [anchor |-> a, completedOn |-> Null, trashedOn |-> Null]
  /\ rule = Null
  /\ instances = {}
  /\ job = [w \in Workers |-> Idle]
  /\ request = [c \in Clients |-> Idle]
  /\ created = 0
  /\ log = Null
  /\ ops = 0
  /\ crashes = 0

----------------------------------------------------------------------------
(* The API: create and update read the rule and its task, then write. *)

UserOp(kind) == kind \in UserOps /\ ops < MaxUserOps /\ ops' = ops + 1

BeginWrite(c, kind, row) ==
  /\ Storable(row.cfg, row.next)
  /\ request' = [request EXCEPT ![c] = [pc |-> kind, row |-> row, found |-> (rule # Null)]]
  /\ UNCHANGED <<today, task, rule, instances, job, created, log, crashes>>

(* POST: an active rule is a conflict; an inactive one is replaced in place. *)
CreateRead(c, cfg) ==
  /\ request[c] = Idle
  /\ UserOp("create")
  /\ task # Null /\ task.trashedOn = Null
  /\ rule # Null => ~rule.isActive
  /\ BeginWrite(c, "create", Rule(cfg, ComputeNext(cfg, 0), TRUE))

(* PATCH: the merged rule; isActive is the value given, or the one read. *)
UpdateRead(c, cfg, isActive) ==
  /\ request[c] = Idle
  /\ UserOp("update")
  /\ rule # Null
  /\ task.trashedOn = Null
  /\ BeginWrite(c, "update", Rule(cfg, ComputeNext(cfg, Generated), isActive))

(* The write: an insert fails when another request has created the row, an
   update by id fails when the row is gone. *)
Store(c) ==
  /\ request[c].pc \in {"create", "update"}
  /\ request' = [request EXCEPT ![c] = Idle]
  /\ IF task # Null /\ request[c].found = (rule # Null)
     THEN /\ rule' = request[c].row
          /\ log' = [cfg |-> request[c].row.cfg, anchor |-> task.anchor,
                     first |-> request[c].row.next, covered |-> {}]
     ELSE UNCHANGED <<rule, log>>
  /\ UNCHANGED <<today, task, instances, job, created, ops, crashes>>

(* DELETE *)
Remove ==
  /\ UserOp("remove")
  /\ rule # Null
  /\ rule' = [rule EXCEPT !.isActive = FALSE]
  /\ UNCHANGED <<today, task, instances, job, request, created, log, crashes>>

----------------------------------------------------------------------------
(* The tasks: completing, reopening, trashing, restoring and re-dating the
   source task, and the same for the task of an instance. *)

UpdateSource(row) ==
  /\ task' = row
  /\ UNCHANGED <<today, rule, instances, job, request, created, log, crashes>>

UpdateInstance(i, row) ==
  /\ instances' = (instances \ {i}) \cup {row}
  /\ UNCHANGED <<today, task, rule, job, request, created, log, crashes>>

CompleteSource ==
  UserOp("complete") /\ task # Null /\ task.completedOn = Null
    /\ UpdateSource([task EXCEPT !.completedOn = today])

ReopenSource ==
  UserOp("reopen") /\ task # Null /\ task.completedOn # Null
    /\ UpdateSource([task EXCEPT !.completedOn = Null])

TrashSource ==
  UserOp("trash") /\ task # Null
    /\ UpdateSource([task EXCEPT !.trashedOn = today])

RestoreSource ==
  UserOp("restore") /\ task # Null /\ task.trashedOn # Null
    /\ UpdateSource([task EXCEPT !.trashedOn = Null])

(* PATCH of the due date moves the anchor; the rule's row is not recomputed. *)
MoveSource(day) ==
  UserOp("due") /\ task # Null /\ task.anchor # day
    /\ UpdateSource([task EXCEPT !.anchor = day])

CompleteInstance(i) ==
  UserOp("complete") /\ i.completedOn = Null
    /\ UpdateInstance(i, [i EXCEPT !.completedOn = today])

ReopenInstance(i) ==
  UserOp("reopen") /\ i.completedOn # Null
    /\ UpdateInstance(i, [i EXCEPT !.completedOn = Null])

TrashInstance(i) ==
  UserOp("trash") /\ UpdateInstance(i, [i EXCEPT !.trashedOn = today])

RestoreInstance(i) ==
  UserOp("restore") /\ i.trashedOn # Null
    /\ UpdateInstance(i, [i EXCEPT !.trashedOn = Null])

(* The nightly purge deletes every task trashed long enough ago, and by cascade
   the instance rows of those tasks; with the source go its rule and all the
   instance rows of the rule. *)
Expired(row) ==
  row # Null /\ row.trashedOn # Null /\ row.trashedOn + RetentionDays < today

(* Mutant: the purge of the source does not cascade to its rule. *)
PurgeTrashNoCascade ==
  /\ \/ Expired(task) /\ task' = Null /\ UNCHANGED <<rule, instances>>
     \/ /\ ~Expired(task)
        /\ \E i \in instances : Expired(i)
        /\ instances' = { i \in instances : ~Expired(i) }
        /\ UNCHANGED <<task, rule>>
  /\ UNCHANGED <<today, job, request, created, log, ops, crashes>>

PurgeTrash ==
  /\ \/ /\ Expired(task)
        /\ task' = Null /\ rule' = Null /\ instances' = {}
     \/ /\ ~Expired(task)
        /\ \E i \in instances : Expired(i)
        /\ instances' = { i \in instances : ~Expired(i) }
        /\ UNCHANGED <<task, rule>>
  /\ UNCHANGED <<today, job, request, created, log, ops, crashes>>

NextDay ==
  /\ today + HorizonDays < LastDay
  /\ today' = today + 1
  /\ UNCHANGED <<task, rule, instances, job, request, created, log, ops, crashes>>

----------------------------------------------------------------------------
(* The generator tick. *)

Move(w, fields) == job' = [job EXCEPT ![w] = fields]

End(w) == Move(w, Idle)

(* Mutant: only rules whose next occurrence has not passed are selected. *)
SelectedUpcoming ==
  /\ rule # Null
  /\ rule.isActive
  /\ task.trashedOn = Null
  /\ rule.cfg.repeatAfterCompletion \/ (rule.next # Null /\ rule.next \in today..(today + HorizonDays + 1))

(* Mutant: after-completion rules are selected by their next occurrence too. *)
SelectedByNext ==
  /\ rule # Null
  /\ rule.isActive
  /\ task.trashedOn = Null
  /\ rule.next # Null /\ rule.next <= today + HorizonDays + 1

(* findMany: the rule and its task as they are now; a superset of the horizon
   by instants. *)
Selected ==
  /\ rule # Null
  /\ rule.isActive
  /\ task.trashedOn = Null
  /\ rule.cfg.repeatAfterCompletion \/ (rule.next # Null /\ rule.next <= today + HorizonDays + 1)

Start(w) ==
  /\ job[w] = Idle
  /\ Selected
  /\ Move(w, [pc |-> IF rule.cfg.repeatAfterCompletion THEN "latest" ELSE "count",
              rule |-> rule, task |-> task, today |-> today,
              cursor |-> rule.next, generated |-> 0, made |-> 0])
  /\ UNCHANGED <<today, task, rule, instances, request, created, log, ops, crashes>>

(* Mutant: every tick counts from zero. *)
CountFromZero(w) ==
  /\ job[w].pc = "count"
  /\ Move(w, IF job[w].cursor = Null THEN Idle ELSE [job[w] EXCEPT !.pc = "loop"])
  /\ UNCHANGED <<today, task, rule, instances, request, created, log, ops, crashes>>

(* processScheduled: the instances are counted once. *)
Count(w) ==
  /\ job[w].pc = "count"
  /\ Move(w, IF job[w].cursor = Null THEN Idle
             ELSE [job[w] EXCEPT !.pc = "loop", !.generated = Generated])
  /\ UNCHANGED <<today, task, rule, instances, request, created, log, ops, crashes>>

Continues(j) ==
  /\ j.cursor # Null
  /\ j.cursor <= j.today + HorizonDays
  /\ j.made < MaxPerTick

(* Mutant: no unique index. *)
InsertAgain(day) ==
  /\ rule # Null
  /\ instances' = instances \cup {[id |-> created, day |-> day, completedOn |-> Null, trashedOn |-> Null]}
  /\ created' = created + 1
  /\ log' = [log EXCEPT !.covered = @ \cup {day}]

(* createInstance in its transaction: task, instance row and checklist. *)
Insert(day) ==
  /\ rule # Null
  /\ day \notin OccurrenceDays
  /\ instances' = instances \cup {[id |-> created, day |-> day, completedOn |-> Null, trashedOn |-> Null]}
  /\ created' = created + 1
  /\ log' = [log EXCEPT !.covered = @ \cup {day}]

(* P2002: another tick, or this rule's past, already has that day. *)
Duplicate(day) ==
  /\ rule # Null
  /\ day \in OccurrenceDays
  /\ log' = [log EXCEPT !.covered = @ \cup {day}]
  /\ UNCHANGED <<instances, created>>

(* Mutant: a late tick resumes from today instead of catching up. *)
AdvanceFromToday(w, generated, made) ==
  Move(w, [job[w] EXCEPT
    !.cursor = NextOccurrence(job[w].rule.cfg, job[w].task.anchor, generated,
                              IF @ < job[w].today THEN job[w].today ELSE @),
    !.generated = generated,
    !.made = made])

Advance(w, generated, made) ==
  Move(w, [job[w] EXCEPT
    !.cursor = NextOccurrence(job[w].rule.cfg, job[w].task.anchor, generated, job[w].cursor),
    !.generated = generated,
    !.made = made])

Generate(w) ==
  /\ job[w].pc = "loop"
  /\ Continues(job[w])
  /\ \/ Insert(job[w].cursor) /\ Advance(w, job[w].generated + 1, job[w].made + 1)
     \/ Duplicate(job[w].cursor) /\ Advance(w, job[w].generated, job[w].made)
  /\ UNCHANGED <<today, task, rule, request, ops, crashes>>

(* The row is written by id from the tick's own reading of it. *)
WriteRule(row) == rule' = IF rule = Null THEN Null ELSE row

Finish(w) ==
  /\ job[w].pc = "loop"
  /\ ~Continues(job[w])
  /\ IF job[w].made = 0 /\ job[w].cursor = job[w].rule.next
     THEN UNCHANGED rule
     ELSE WriteRule([rule EXCEPT !.next = job[w].cursor, !.isActive = (job[w].cursor # Null)])
  /\ End(w)
  /\ UNCHANGED <<today, task, instances, request, created, log, ops, crashes>>

Open(row) == row.trashedOn # Null \/ row.completedOn = Null

(* Mutant: an instance that is not completed counts from its own day. *)
ReadLatestFromDay(w) ==
  /\ job[w].pc = "latest"
  /\ LET basis == IF instances = {} THEN job[w].task ELSE Latest
     IN  Move(w,
           IF ~Open(basis) THEN [job[w] EXCEPT !.pc = "decide", !.cursor = basis.completedOn]
           ELSE IF instances # {} THEN [job[w] EXCEPT !.pc = "decide", !.cursor = basis.day]
           ELSE Idle)
  /\ UNCHANGED <<today, task, rule, instances, request, created, log, ops, crashes>>

(* processAfterCompletion: the latest instance decides, the source task before
   there is any. *)
ReadLatest(w) ==
  /\ job[w].pc = "latest"
  /\ LET basis == IF instances = {} THEN job[w].task ELSE Latest
     IN  Move(w,
           IF ~Open(basis) THEN [job[w] EXCEPT !.pc = "decide", !.cursor = basis.completedOn]
           ELSE IF job[w].rule.next # Null /\ instances # {} THEN [job[w] EXCEPT !.pc = "clear"]
           ELSE Idle)
  /\ UNCHANGED <<today, task, rule, instances, request, created, log, ops, crashes>>

(* The instances are counted and the next day computed from the completion. *)
Decide(w) ==
  /\ job[w].pc = "decide"
  /\ \E next \in {NextOccurrence(job[w].rule.cfg, job[w].task.anchor, Generated, job[w].cursor)} :
       Move(w,
         IF next = Null THEN [job[w] EXCEPT !.pc = "exhaust"]
         ELSE IF next <= job[w].today + HorizonDays THEN [job[w] EXCEPT !.pc = "make", !.cursor = next]
         ELSE IF job[w].rule.next # next THEN [job[w] EXCEPT !.pc = "defer", !.cursor = next]
         ELSE Idle)
  /\ UNCHANGED <<today, task, rule, instances, request, created, log, ops, crashes>>

MakeNext(w) ==
  /\ job[w].pc = "make"
  /\ Insert(job[w].cursor) \/ Duplicate(job[w].cursor)
  /\ Move(w, [job[w] EXCEPT !.pc = "clear"])
  /\ UNCHANGED <<today, task, rule, request, ops, crashes>>

(* The writes that end an after-completion tick. *)
Settle(w) ==
  /\ \/ /\ job[w].pc = "clear"
        /\ WriteRule([rule EXCEPT !.next = Null])
     \/ /\ job[w].pc = "exhaust"
        /\ WriteRule([rule EXCEPT !.next = Null, !.isActive = FALSE])
     \/ /\ job[w].pc = "defer"
        /\ WriteRule([rule EXCEPT !.next = job[w].cursor])
  /\ End(w)
  /\ UNCHANGED <<today, task, instances, request, created, log, ops, crashes>>

(* The foreign key of an instance fails once the rule is purged: the error ends
   the rule's part of the tick. *)
Orphaned(w) ==
  /\ job[w].pc = "make" \/ (job[w].pc = "loop" /\ Continues(job[w]))
  /\ rule = Null
  /\ End(w)
  /\ UNCHANGED <<today, task, rule, instances, request, created, log, ops, crashes>>

(* A dropped connection or a dead process ends the tick where it stands. *)
Crash(w) ==
  /\ job[w] # Idle
  /\ crashes < MaxCrashes
  /\ crashes' = crashes + 1
  /\ End(w)
  /\ UNCHANGED <<today, task, rule, instances, request, created, log, ops>>

----------------------------------------------------------------------------
(* The whole system. *)

Tick(w) ==
  \/ Start(w) \/ Count(w) \/ Generate(w) \/ Finish(w)
  \/ ReadLatest(w) \/ Decide(w) \/ MakeNext(w) \/ Settle(w)
  \/ Orphaned(w)

Api(c) ==
  \/ \E cfg \in Configs :
       \/ CreateRead(c, cfg)
       \/ \E isActive \in BOOLEAN : UpdateRead(c, cfg, isActive)
  \/ Store(c)

SourceOp ==
  \/ CompleteSource \/ ReopenSource \/ TrashSource \/ RestoreSource
  \/ \E day \in Day : MoveSource(day)

InstanceOp ==
  \E i \in instances :
    CompleteInstance(i) \/ ReopenInstance(i) \/ TrashInstance(i) \/ RestoreInstance(i)

Next ==
  \/ \E w \in Workers : Tick(w) \/ Crash(w)
  \/ \E c \in Clients : Api(c)
  \/ Remove \/ SourceOp \/ InstanceOp \/ PurgeTrash \/ NextDay

(* The queue runs every tick to its end, again every hour. *)
Spec == Init /\ [][Next]_vars /\ \A w \in Workers : WF_vars(Tick(w))

----------------------------------------------------------------------------
(* Properties. *)

JobRows ==
  [pc : {"count", "loop", "latest", "decide", "make", "clear", "exhaust", "defer"},
   rule : RuleRows, task : TaskRows, today : Day,
   cursor : Nat \cup {Null}, generated : Nat, made : Nat]

RequestRows == [pc : {"create", "update"}, row : RuleRows, found : BOOLEAN]

(* Types of the rows, of the ticks in progress and of the requests. *)
TypeOK ==
  /\ today \in Day
  /\ task \in TaskRows \cup {Null}
  /\ rule \in RuleRows \cup {Null}
  /\ instances \subseteq InstanceRows
  /\ job \in [Workers -> JobRows \cup {Idle}]
  /\ request \in [Clients -> RequestRows \cup {Idle}]
  /\ created \in Nat
  /\ log \in LogRows \cup {Null}
  /\ ops \in Nat
  /\ crashes \in Nat

(* A rule outlives neither its task nor the request that stored it; a tick in
   progress works on a day that has begun, and what it is about to create lies
   within the horizon of that day; createdAt orders the instances. *)
RowsAgree ==
  /\ rule # Null => task # Null /\ log # Null
  /\ today + HorizonDays <= LastDay
  /\ \A i \in instances : i.id < created
  /\ \A w \in Workers : job[w] # Idle =>
       /\ job[w].today <= today
       /\ job[w].pc = "decide" => job[w].cursor \in Day
       /\ job[w].pc = "make" => job[w].cursor \in 0..(job[w].today + HorizonDays)

(* A rule never has two instances for one day, whatever ticks overlap, die and
   run again, and whatever is completed, trashed, purged or edited meanwhile
   (createInstance and its unique index). *)
OneInstancePerDay ==
  \A i, j \in instances : i.day = j.day => i = j

(* A tick never generates beyond its horizon, even from a stale reading of the
   rule or across midnight. *)
WithinHorizon ==
  \A i \in instances : i.day <= today + HorizonDays

(* "catching up every missed occurrence": the stored next occurrence never
   moves past a scheduled day that has no instance, so a tick that dies after
   any of its statements loses nothing; and a rule is only exhausted once every
   day up to its last, or its full count, is generated. *)
OnLoggedSchedule(d) == d > 0 /\ NextOnSchedule(log.cfg, log.anchor, d - 1) = d

NoSkippedOccurrence ==
  (rule # Null /\ ~rule.cfg.repeatAfterCompletion) =>
    /\ \A d \in Day :
         ( /\ OnLoggedSchedule(d)
           /\ log.first <= d
           /\ rule.next # Null => d < rule.next
           /\ rule.next = Null => rule.cfg.endType = "on_date" /\ d <= rule.cfg.endDate
         ) => d \in log.covered
    /\ (rule.next = Null /\ rule.cfg.endType = "after_count") =>
         Generated >= rule.cfg.endCount - 1

(* "a rule after 3 generates 2 instances": a rule generates no more occurrences
   than its count allows, whatever ticks die and run again. *)
CountRespected ==
  (rule # Null /\ ~rule.cfg.repeatAfterCompletion /\ rule.cfg.endType = "after_count") =>
    Cardinality(log.covered) <= rule.cfg.endCount - 1

(* An after-completion rule has at most one instance that is still open: the
   next one is generated only once the latest is completed, also when a tick
   dies between its statements and runs again. *)
OneOpenInstance ==
  (rule # Null /\ rule.cfg.repeatAfterCompletion) =>
    \A i, j \in instances : (Open(i) /\ Open(j)) => i = j

(* Every occurrence that has come within the horizon of an active rule is
   eventually generated (or the rule is stopped): ticks run every hour. *)
Live == rule # Null /\ rule.isActive /\ task.trashedOn = Null

OccurrenceDue ==
  /\ Live
  /\ ~rule.cfg.repeatAfterCompletion
  /\ rule.next # Null /\ rule.next <= today + HorizonDays

DueOccurrencesAreGenerated == OccurrenceDue ~> ~OccurrenceDue

(* Once the latest instance of an after-completion rule (or its source task) is
   completed, and the day it schedules has come within the horizon, the next
   instance is eventually generated or the rule exhausted. *)
CompletionDue ==
  /\ Live
  /\ rule.cfg.repeatAfterCompletion
  /\ LET basis == IF instances = {} THEN task ELSE Latest
     IN  /\ ~Open(basis)
         /\ NextFromCompletion(rule.cfg, basis.completedOn) <= today + HorizonDays

CompletionsAreAnswered == CompletionDue ~> ~CompletionDue

(* The instances of a schedule-based rule are exactly its occurrences, in order,
   each once, none skipped and none after the end, and those of a rule that waits
   for completions move on in time and keep to its count: ticks that die, duplicates
   that are skipped and completions in between change nothing. *)
Log == INSTANCE OccurrenceLog

LogIsFaithful == Log!LogSpec
=============================================================================
