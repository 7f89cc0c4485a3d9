------------------------ MODULE RecurrenceRulesProofs ------------------------
(***************************************************************************)
(* Proofs about RecurrenceRules, for every calendar, horizon, number of    *)
(* overlapping ticks and requests; those of what a rule promises (nothing  *)
(* skipped, the count kept, one open instance, the refinement of           *)
(* OccurrenceLog) for one tick at a time and rules that are not stored in  *)
(* the middle of one.                                                      *)
(***************************************************************************)
EXTENDS RecurrenceRules, FiniteSetTheorems, WellFoundedInduction, TLAPS

(* The inductive invariant: the rows are typed and agree with each other, the
   instances are finite in number (they are counted), unique per day and within
   the horizon. *)
IInv ==
  /\ TypeOK
  /\ IsFiniteSet(instances)
  /\ RowsAgree
  /\ OneInstancePerDay
  /\ WithinHorizon

(* The stored or computed next occurrence is a day or absent. *)
LEMMA NextOccurrenceType ==
  ASSUME NEW cfg \in Configs, NEW anchor \in Day, NEW after \in Day, NEW generated \in Nat
  PROVE  NextOccurrence(cfg, anchor, generated, after) \in Nat \cup {Null}
BY CalendarMovesForward DEF NextOccurrence, ApplyEnd

(* What a request computes for the row it stores is a day or absent. *)
LEMMA ComputeNextType ==
  ASSUME TypeOK, task # Null, NEW cfg \in Configs, NEW generated \in Nat
  PROVE  ComputeNext(cfg, generated) \in Nat \cup {Null}
<1>1. task \in TaskRows /\ today \in Day
  BY DEF TypeOK
<1>2. /\ task.anchor \in Day
      /\ task.completedOn # Null => task.completedOn \in Day
      /\ (IF task.anchor > today THEN task.anchor ELSE today) \in Day
  BY <1>1 DEF TaskRows
<1>3. QED BY <1>2, NextOccurrenceType DEF ComputeNext

(* A step of a tick that records a well-typed row keeps the ticks well-typed. *)
LEMMA MoveType ==
  ASSUME TypeOK, NEW w \in Workers, NEW fields \in JobRows \cup {Idle}, Move(w, fields)
  PROVE  /\ job' \in [Workers -> JobRows \cup {Idle}]
         /\ job'[w] = fields
         /\ \A v \in Workers \ {w} : job'[v] = job[v]
BY DEF TypeOK, Move

THEOREM InitIInv == Init => IInv
<1> SUFFICES ASSUME Init PROVE IInv
  OBVIOUS
<1>1. IsFiniteSet(instances)
  BY FS_EmptySet DEF Init
<1>2. TypeOK
  BY ConstantsAreSane DEF Init, TypeOK, Day, TaskRows
<1>3. RowsAgree
  BY ConstantsAreSane DEF Init, RowsAgree
<1>4. QED
  BY <1>1, <1>2, <1>3 DEF IInv, Init, OneInstancePerDay, WithinHorizon

----------------------------------------------------------------------------
(* Requests. *)

LEMMA CreateReadIInv ==
  ASSUME IInv, NEW c \in Clients, NEW cfg \in Configs, CreateRead(c, cfg)
  PROVE  IInv'
<1>1. Rule(cfg, ComputeNext(cfg, 0), TRUE) \in RuleRows
  BY ComputeNextType DEF IInv, CreateRead, Rule, RuleRows
<1>2. TypeOK'
  <2>1. [pc |-> "create", row |-> Rule(cfg, ComputeNext(cfg, 0), TRUE), found |-> (rule # Null)] \in RequestRows
    BY <1>1, Zenon DEF RequestRows
  <2>2. request' \in [Clients -> RequestRows \cup {Idle}]
    BY <2>1, Zenon DEF IInv, TypeOK, CreateRead, BeginWrite
  <2>3. UNCHANGED <<today, task, rule, instances, job, created, log, crashes>> /\ ops' = ops + 1
    BY Zenon DEF CreateRead, BeginWrite, UserOp
  <2>4. QED
    BY <2>2, <2>3 DEF IInv, TypeOK
<1>3. UNCHANGED <<today, task, rule, instances, job, created, log>>
  BY DEF CreateRead, BeginWrite
<1>4. QED
  BY <1>2, <1>3 DEF IInv, RowsAgree, OneInstancePerDay, WithinHorizon

LEMMA UpdateReadIInv ==
  ASSUME IInv, NEW c \in Clients, NEW cfg \in Configs, NEW isActive \in BOOLEAN,
         UpdateRead(c, cfg, isActive)
  PROVE  IInv'
<1>1. task # Null /\ Generated \in Nat
  BY FS_CardinalityType DEF IInv, RowsAgree, UpdateRead, Generated
<1>2. Rule(cfg, ComputeNext(cfg, Generated), isActive) \in RuleRows
  BY <1>1, ComputeNextType DEF IInv, Rule, RuleRows
<1>3. TypeOK'
  <2>1. [pc |-> "update", row |-> Rule(cfg, ComputeNext(cfg, Generated), isActive), found |-> (rule # Null)] \in RequestRows
    BY <1>2, Zenon DEF RequestRows
  <2>2. request' \in [Clients -> RequestRows \cup {Idle}]
    BY <2>1, Zenon DEF IInv, TypeOK, UpdateRead, BeginWrite
  <2>3. UNCHANGED <<today, task, rule, instances, job, created, log, crashes>> /\ ops' = ops + 1
    BY Zenon DEF UpdateRead, BeginWrite, UserOp
  <2>4. QED
    BY <2>2, <2>3 DEF IInv, TypeOK
<1>4. UNCHANGED <<today, task, rule, instances, job, created, log>>
  BY DEF UpdateRead, BeginWrite
<1>5. QED
  BY <1>3, <1>4 DEF IInv, RowsAgree, OneInstancePerDay, WithinHorizon

LEMMA StoreIInv ==
  ASSUME IInv, NEW c \in Clients, Store(c)
  PROVE  IInv'
<1>1. UNCHANGED <<today, task, instances, job, created>>
  BY DEF Store
<1>2. request[c] \in RequestRows
  BY DEF IInv, TypeOK, Store, Idle
<1>3. /\ rule' \in RuleRows \cup {Null}
      /\ log' \in LogRows \cup {Null}
      /\ rule' # Null => task # Null /\ log' # Null
  <2>1. CASE task # Null /\ request[c].found = (rule # Null)
    <3>1. /\ request[c].row \in RuleRows
          /\ task.anchor \in Day
      BY <1>2, <2>1 DEF RequestRows, IInv, TypeOK, TaskRows
    <3>2. /\ request[c].row.cfg \in Configs
          /\ request[c].row.next \in Nat \cup {Null}
      BY <3>1 DEF RuleRows
    <3>3. log' \in LogRows /\ rule' = request[c].row
      BY <2>1, <3>1, <3>2 DEF Store, LogRows
    <3>4. log' # Null
      BY <3>3, NullIsNoRow
    <3>5. QED BY <2>1, <3>1, <3>3, <3>4
  <2>2. CASE ~(task # Null /\ request[c].found = (rule # Null))
    BY <2>2 DEF Store, IInv, TypeOK, RowsAgree
  <2>3. QED BY <2>1, <2>2
<1>4. TypeOK'
  BY <1>1, <1>3 DEF IInv, TypeOK, Store
<1>5. QED
  BY <1>1, <1>3, <1>4 DEF IInv, RowsAgree, OneInstancePerDay, WithinHorizon

(* Overwriting the columns a tick or a DELETE writes keeps the rule's row typed. *)
LEMMA RuleWriteType ==
  ASSUME NEW row \in RuleRows, NEW next \in Nat \cup {Null}, NEW isActive \in BOOLEAN
  PROVE  /\ [row EXCEPT !.next = next] \in RuleRows
         /\ [row EXCEPT !.isActive = isActive] \in RuleRows
         /\ [row EXCEPT !.next = next, !.isActive = isActive] \in RuleRows
BY DEF RuleRows

LEMMA RemoveIInv ==
  ASSUME IInv, Remove
  PROVE  IInv'
<1>1. rule \in RuleRows
  BY DEF IInv, TypeOK, Remove
<1>2. rule' \in RuleRows
  <2>1. \A b \in BOOLEAN : [rule EXCEPT !.isActive = b] \in RuleRows
    BY <1>1, RuleWriteType
  <2>2. QED BY <2>1, Zenon DEF Remove
<1>3. UNCHANGED <<today, task, instances, job, request, created, log, crashes>> /\ ops' \in Nat
  BY DEF Remove, UserOp, IInv, TypeOK
<1>4. TypeOK'
  BY <1>2, <1>3 DEF IInv, TypeOK
<1>5. rule # Null
  BY DEF Remove
<1>6. QED
  BY <1>3, <1>4, <1>5 DEF IInv, RowsAgree, OneInstancePerDay, WithinHorizon

----------------------------------------------------------------------------
(* The tasks. *)

(* Every operation on the source task writes a typed row over a live one. *)
LEMMA SourceIInv ==
  ASSUME IInv, task # Null, NEW row \in TaskRows, UpdateSource(row), ops' \in Nat
  PROVE  IInv'
<1>1. TypeOK'
  BY DEF IInv, TypeOK, UpdateSource
<1>2. task' # Null
  BY NullIsNoRow DEF UpdateSource
<1>3. QED
  BY <1>1, <1>2 DEF IInv, UpdateSource, RowsAgree, OneInstancePerDay, WithinHorizon

LEMMA SourceOpIInv ==
  ASSUME IInv, SourceOp
  PROVE  IInv'
<1>1. /\ today \in Day /\ ops \in Nat
      /\ task # Null => task \in TaskRows
  BY DEF IInv, TypeOK
<1>2. \A row \in TaskRows, d \in Day :
        /\ [row EXCEPT !.completedOn = d] \in TaskRows
        /\ [row EXCEPT !.completedOn = Null] \in TaskRows
        /\ [row EXCEPT !.trashedOn = d] \in TaskRows
        /\ [row EXCEPT !.trashedOn = Null] \in TaskRows
        /\ [row EXCEPT !.anchor = d] \in TaskRows
  BY DEF TaskRows
<1>3. PICK row \in TaskRows : task # Null /\ UpdateSource(row) /\ ops' = ops + 1
  BY <1>1, <1>2, Zenon DEF SourceOp, CompleteSource, ReopenSource, TrashSource, RestoreSource, MoveSource, UserOp
<1>4. QED
  BY <1>1, <1>3, SourceIInv

(* Every operation on an instance's task keeps its identity and its day. *)
LEMMA InstanceIInv ==
  ASSUME IInv, NEW i \in instances, NEW row \in InstanceRows,
         row.id = i.id, row.day = i.day, UpdateInstance(i, row), ops' \in Nat
  PROVE  IInv'
<1>1. instances' = (instances \ {i}) \cup {row}
  BY DEF UpdateInstance
<1>2. TypeOK'
  BY DEF IInv, TypeOK, UpdateInstance
<1>3. IsFiniteSet(instances')
  BY <1>1, FS_RemoveElement, FS_AddElement DEF IInv
<1>4. OneInstancePerDay'
  BY <1>1 DEF IInv, OneInstancePerDay
<1>5. QED
  BY <1>1, <1>2, <1>3, <1>4 DEF IInv, UpdateInstance, RowsAgree, WithinHorizon

LEMMA InstanceOpIInv ==
  ASSUME IInv, InstanceOp
  PROVE  IInv'
<1>1. today \in Day /\ ops \in Nat /\ instances \subseteq InstanceRows
  BY DEF IInv, TypeOK
<1>2. \A row \in InstanceRows, d \in Day \cup {Null} :
        /\ [row EXCEPT !.completedOn = d] \in InstanceRows
        /\ [row EXCEPT !.completedOn = d].id = row.id
        /\ [row EXCEPT !.completedOn = d].day = row.day
        /\ [row EXCEPT !.trashedOn = d] \in InstanceRows
        /\ [row EXCEPT !.trashedOn = d].id = row.id
        /\ [row EXCEPT !.trashedOn = d].day = row.day
  BY DEF InstanceRows
<1>3. today \in Day \cup {Null} /\ Null \in Day \cup {Null}
  BY <1>1
<1>4. PICK i \in instances :
        CompleteInstance(i) \/ ReopenInstance(i) \/ TrashInstance(i) \/ RestoreInstance(i)
  BY DEF InstanceOp
<1>5. i \in InstanceRows
  BY <1>1
<1>6. PICK row \in InstanceRows :
        row.id = i.id /\ row.day = i.day /\ UpdateInstance(i, row) /\ ops' = ops + 1
  BY <1>2, <1>3, <1>4, <1>5, Zenon
  DEF CompleteInstance, ReopenInstance, TrashInstance, RestoreInstance, UserOp
<1>7. QED
  BY <1>1, <1>6, InstanceIInv

LEMMA PurgeTrashIInv ==
  ASSUME IInv, PurgeTrash
  PROVE  IInv'
<1>1. /\ instances' \subseteq instances
      /\ UNCHANGED <<today, job, request, created, log, ops, crashes>>
      /\ \/ task' = Null /\ rule' = Null
         \/ UNCHANGED <<task, rule>>
  BY Zenon DEF PurgeTrash
<1>2. TypeOK'
  BY <1>1 DEF IInv, TypeOK
<1>3. IsFiniteSet(instances')
  BY <1>1, FS_Subset DEF IInv
<1>4. QED
  BY <1>1, <1>2, <1>3 DEF IInv, RowsAgree, OneInstancePerDay, WithinHorizon

LEMMA NextDayIInv ==
  ASSUME IInv, NextDay
  PROVE  IInv'
<1>1. today \in Day /\ today' = today + 1 /\ today' \in Day /\ today' + HorizonDays <= LastDay
  BY ConstantsAreSane DEF IInv, TypeOK, NextDay, Day
<1>2. UNCHANGED <<task, rule, instances, job, request, created, log, ops, crashes>>
  BY DEF NextDay
<1>3. TypeOK'
  BY <1>1, <1>2 DEF IInv, TypeOK
<1>4. RowsAgree'
  <2>1. \A w \in Workers : job[w] # Idle => job[w].today \in Day
    BY DEF IInv, TypeOK, JobRows
  <2>2. \A w \in Workers : job[w] # Idle => job[w].today <= today'
    BY <1>1, <2>1 DEF IInv, RowsAgree, Day
  <2>3. QED
    BY <1>1, <1>2, <2>2 DEF IInv, RowsAgree
<1>5. WithinHorizon'
  BY <1>1, <1>2, ConstantsAreSane DEF IInv, TypeOK, InstanceRows, WithinHorizon, Day
<1>6. QED
  BY <1>2, <1>3, <1>4, <1>5 DEF IInv, OneInstancePerDay

----------------------------------------------------------------------------
(* The generator. *)

(* What a tick may record of itself. *)
Sound(fields) ==
  /\ fields \in JobRows \cup {Idle}
  /\ fields # Idle =>
       /\ fields.today <= today
       /\ fields.pc = "decide" => fields.cursor \in Day
       /\ fields.pc = "make" => fields.cursor \in 0..(fields.today + HorizonDays)

LEMMA IdleIsSound == Sound(Idle)
BY DEF Sound

LEMMA JobIsSound ==
  ASSUME IInv, NEW w \in Workers
  PROVE  Sound(job[w])
BY DEF IInv, TypeOK, RowsAgree, Sound

(* A tick that is not idle knows a rule, a task and a day. *)
LEMMA JobRow ==
  ASSUME IInv, NEW w \in Workers, job[w].pc # "idle"
  PROVE  /\ job[w] \in JobRows
         /\ job[w] # Idle
         /\ job[w].rule \in RuleRows /\ job[w].rule.cfg \in Configs
         /\ job[w].task \in TaskRows /\ job[w].task.anchor \in Day
         /\ job[w].today \in Day /\ job[w].today <= today
         /\ job[w].today + HorizonDays <= LastDay
         /\ job[w].cursor \in Nat \cup {Null}
         /\ job[w].generated \in Nat /\ job[w].made \in Nat
<1>1. job[w] \in JobRows /\ job[w] # Idle
  BY DEF IInv, TypeOK, Idle
<1>2. job[w].rule \in RuleRows /\ job[w].task \in TaskRows /\ job[w].today \in Day
  BY <1>1 DEF JobRows
<1>3. job[w].rule.cfg \in Configs /\ job[w].task.anchor \in Day
  BY <1>2 DEF RuleRows, TaskRows
<1>4. job[w].today <= today /\ today + HorizonDays <= LastDay /\ today \in Day
  BY <1>1 DEF IInv, RowsAgree, TypeOK
<1>5. job[w].today + HorizonDays <= LastDay
  BY <1>2, <1>4, ConstantsAreSane DEF Day
<1>6. QED BY <1>1, <1>2, <1>3, <1>4, <1>5 DEF JobRows

(* Moving on with a new cursor. *)
LEMMA CursorIsSound ==
  ASSUME NEW j \in JobRows, j.today <= today, NEW day \in Nat,
         NEW pc \in {"decide", "make", "defer"},
         pc = "decide" => day \in Day,
         pc = "make" => day \in 0..(j.today + HorizonDays)
  PROVE  Sound([j EXCEPT !.pc = pc, !.cursor = day])
<1> DEFINE fields == [j EXCEPT !.pc = pc, !.cursor = day]
<1>1. fields \in JobRows
  BY DEF JobRows
<1>2. fields.pc = pc /\ fields.cursor = day /\ fields.today = j.today
  BY DEF JobRows
<1> HIDE DEF fields
<1>3. Sound(fields)
  BY <1>1, <1>2 DEF Sound
<1>4. QED
  BY <1>3 DEF fields

(* A step that changes only the tick's own state. *)
LEMMA ThinkIInv ==
  ASSUME IInv, NEW w \in Workers, NEW fields, Sound(fields), Move(w, fields),
         UNCHANGED <<today, task, rule, instances, request, created, log, ops>>,
         crashes' \in Nat
  PROVE  IInv'
<1>1. /\ job' \in [Workers -> JobRows \cup {Idle}]
      /\ job'[w] = fields
      /\ \A v \in Workers \ {w} : job'[v] = job[v]
  BY MoveType DEF Sound, IInv
<1>2. TypeOK'
  BY <1>1 DEF IInv, TypeOK
<1>3. RowsAgree'
  BY <1>1 DEF IInv, RowsAgree, Sound
<1>4. QED
  BY <1>2, <1>3 DEF IInv, OneInstancePerDay, WithinHorizon

(* A write of the rule's row that ends a tick. *)
LEMMA WriteIInv ==
  ASSUME IInv, NEW w \in Workers, End(w),
         rule' \in RuleRows \cup {Null}, rule = Null => rule' = Null,
         UNCHANGED <<today, task, instances, request, created, log, ops, crashes>>
  PROVE  IInv'
<1>1. /\ job' \in [Workers -> JobRows \cup {Idle}]
      /\ job'[w] = Idle
      /\ \A v \in Workers \ {w} : job'[v] = job[v]
  BY MoveType DEF End, IInv
<1>2. TypeOK'
  BY <1>1 DEF IInv, TypeOK
<1>3. RowsAgree'
  BY <1>1 DEF IInv, RowsAgree
<1>4. QED
  BY <1>2, <1>3 DEF IInv, OneInstancePerDay, WithinHorizon

(* The creation of an instance: a new day within the tick's horizon, and the
   next free createdAt. *)
LEMMA CreateIInv ==
  ASSUME IInv, NEW w \in Workers, NEW fields, Sound(fields), Move(w, fields),
         NEW day \in Nat, day <= today + HorizonDays,
         Insert(day) \/ Duplicate(day),
         UNCHANGED <<today, task, rule, request, ops, crashes>>
  PROVE  IInv'
<1>1. /\ job' \in [Workers -> JobRows \cup {Idle}]
      /\ job'[w] = fields
      /\ \A v \in Workers \ {w} : job'[v] = job[v]
  BY MoveType DEF Sound, IInv
<1>2. rule # Null /\ log' = [log EXCEPT !.covered = @ \cup {day}]
  BY DEF Insert, Duplicate
<1>3. log \in LogRows
  BY <1>2 DEF IInv, TypeOK, RowsAgree
<1>4. log' \in LogRows
  BY <1>2, <1>3 DEF LogRows
<1>5. log' # Null
  BY <1>4, NullIsNoRow
<1>6. RowsAgree'
  <2>1. created \in Nat /\ instances \subseteq InstanceRows
    BY DEF IInv, TypeOK
  <2>2. \A i \in instances' : i.id < created'
    BY <2>1 DEF IInv, RowsAgree, Insert, Duplicate, InstanceRows
  <2>3. QED
    BY <1>1, <1>5, <2>2 DEF IInv, RowsAgree, Sound
<1>7. CASE Duplicate(day)
  <2>1. TypeOK'
    BY <1>1, <1>4, <1>7 DEF IInv, TypeOK, Duplicate
  <2>2. QED
    BY <1>6, <1>7, <2>1 DEF IInv, Duplicate, OneInstancePerDay, WithinHorizon
<1>8. CASE Insert(day)
  <2> DEFINE row == [id |-> created, day |-> day, completedOn |-> Null, trashedOn |-> Null]
  <2>1. instances' = instances \cup {row} /\ created' = created + 1
    BY <1>8 DEF Insert
  <2>2. row \in InstanceRows
    BY DEF InstanceRows, IInv, TypeOK
  <2>3. TypeOK'
    BY <1>1, <1>4, <2>1, <2>2 DEF IInv, TypeOK
  <2>4. IsFiniteSet(instances')
    BY <2>1, FS_AddElement DEF IInv
  <2>5. OneInstancePerDay'
    <3>1. \A i \in instances : i.day # row.day
      BY <1>8 DEF Insert, OccurrenceDays
    <3>2. QED
      BY <2>1, <3>1 DEF IInv, OneInstancePerDay
  <2>6. WithinHorizon'
    BY <2>1 DEF IInv, WithinHorizon
  <2>7. QED
    BY <1>6, <2>3, <2>4, <2>5, <2>6 DEF IInv
<1>9. QED
  BY <1>7, <1>8

(* Instances, when there are any, have a latest one: the number of later
   createdAt values cannot decrease for ever. *)
LEMMA LatestExists ==
  ASSUME IInv, instances # {}
  PROVE  \E i \in instances : \A j \in instances : j.id <= i.id
<1> DEFINE ages == { created - i.id : i \in instances }
<1>1. created \in Nat /\ \A i \in instances : i.id \in Nat /\ i.id < created
  BY DEF IInv, TypeOK, RowsAgree, InstanceRows
<1>2. ages \subseteq Nat /\ ages # {}
  BY <1>1
<1> HIDE DEF ages
<1>3. PICK youngest \in ages : \A a \in ages : ~ (<<a, youngest>> \in OpToRel(<, Nat))
  BY <1>2, NatLessThanWellFounded, WFMin, Zenon
<1>4. \A a \in ages : youngest <= a
  <2>1. \A a, b \in Nat : a < b => <<a, b>> \in OpToRel(<, Nat)
    BY DEF OpToRel
  <2>2. ASSUME NEW a \in ages PROVE youngest <= a
    <3>1. a \in Nat /\ youngest \in Nat
      BY <1>2
    <3>2. ~ (a < youngest)
      BY <1>3, <2>1, <3>1, Zenon
    <3>3. QED BY <3>1, <3>2
  <2>3. QED BY <2>2
<1>5. PICK latest \in instances : youngest = created - latest.id
  BY DEF ages
<1>6. \A i \in instances : youngest <= created - i.id
  BY <1>4 DEF ages
<1>7. \A i \in instances : i.id <= latest.id
  BY <1>1, <1>5, <1>6
<1>8. QED
  BY <1>7

LEMMA StartIInv ==
  ASSUME IInv, NEW w \in Workers, Start(w)
  PROVE  IInv'
<1>1. rule \in RuleRows /\ task \in TaskRows /\ today \in Day
  BY DEF IInv, TypeOK, RowsAgree, Start, Selected
<1>2. rule.next \in Nat \cup {Null}
  BY <1>1 DEF RuleRows
<1>3. PICK pc \in {"latest", "count"} :
        Move(w, [pc |-> pc, rule |-> rule, task |-> task, today |-> today,
                 cursor |-> rule.next, generated |-> 0, made |-> 0])
  BY Zenon DEF Start
<1> DEFINE fields == [pc |-> pc, rule |-> rule, task |-> task, today |-> today,
                      cursor |-> rule.next, generated |-> 0, made |-> 0]
<1>4. Sound(fields)
  BY <1>1, <1>2 DEF Sound, JobRows, Day
<1>5. UNCHANGED <<today, task, rule, instances, request, created, log, ops, crashes>>
  BY DEF Start
<1>6. QED
  BY <1>3, <1>4, <1>5, ThinkIInv DEF IInv, TypeOK

LEMMA CountIInv ==
  ASSUME IInv, NEW w \in Workers, Count(w)
  PROVE  IInv'
<1> DEFINE fields == [job[w] EXCEPT !.pc = "loop", !.generated = Generated]
<1>1. Generated \in Nat
  BY FS_CardinalityType DEF IInv, Generated
<1>2. Sound(fields)
  BY <1>1, JobRow DEF Count, Sound, JobRows
<1>3. Move(w, Idle) \/ Move(w, fields)
  BY DEF Count
<1>4. UNCHANGED <<today, task, rule, instances, request, created, log, ops, crashes>>
  BY DEF Count
<1>5. QED
  BY <1>2, <1>3, <1>4, IdleIsSound, ThinkIInv DEF IInv, TypeOK

LEMMA GenerateIInv ==
  ASSUME IInv, NEW w \in Workers, Generate(w)
  PROVE  IInv'
<1> DEFINE j == job[w]
<1>1. j.pc = "loop" /\ Continues(j)
  BY DEF Generate
<1>2. /\ j \in JobRows /\ j.rule.cfg \in Configs /\ j.task.anchor \in Day
      /\ j.today \in Day /\ j.today <= today /\ j.today + HorizonDays <= LastDay
      /\ j.cursor \in Nat \cup {Null} /\ j.generated \in Nat /\ j.made \in Nat
  BY <1>1, JobRow
<1>3. j.cursor \in Nat /\ j.cursor <= j.today + HorizonDays
  BY <1>1, <1>2 DEF Continues
<1>4. j.cursor \in Day /\ j.cursor <= today + HorizonDays
  BY <1>2, <1>3, ConstantsAreSane DEF Day, IInv, TypeOK
<1>5. ASSUME NEW g \in Nat, NEW m \in Nat
      PROVE  Sound([j EXCEPT !.cursor = NextOccurrence(j.rule.cfg, j.task.anchor, g, j.cursor),
                             !.generated = g, !.made = m])
  <2>1. NextOccurrence(j.rule.cfg, j.task.anchor, g, j.cursor) \in Nat \cup {Null}
    BY <1>2, <1>4, NextOccurrenceType
  <2>2. QED
    BY <1>1, <1>2, <2>1 DEF Sound, JobRows
<1>6. UNCHANGED <<today, task, rule, request, ops, crashes>>
  BY DEF Generate
<1>7. CASE Insert(j.cursor) /\ Advance(w, j.generated + 1, j.made + 1)
  <2>1. j.generated + 1 \in Nat /\ j.made + 1 \in Nat
    BY <1>2
  <2>2. QED
    BY <1>3, <1>4, <1>5, <1>6, <1>7, <2>1, CreateIInv DEF Advance
<1>8. CASE Duplicate(j.cursor) /\ Advance(w, j.generated, j.made)
  BY <1>2, <1>3, <1>4, <1>5, <1>6, <1>8, CreateIInv DEF Advance
<1>9. QED
  BY <1>7, <1>8 DEF Generate

LEMMA FinishIInv ==
  ASSUME IInv, NEW w \in Workers, Finish(w)
  PROVE  IInv'
<1>1. job[w].pc = "loop" /\ End(w) /\ UNCHANGED <<today, task, instances, request, created, log, ops, crashes>>
  BY DEF Finish
<1>2. job[w].cursor \in Nat \cup {Null}
  BY <1>1, JobRow
<1>3. rule' = rule \/ WriteRule([rule EXCEPT !.next = job[w].cursor, !.isActive = (job[w].cursor # Null)])
  BY Zenon DEF Finish
<1>4. rule' \in RuleRows \cup {Null} /\ (rule = Null => rule' = Null)
  <2>1. CASE rule = Null
    BY <1>3, <2>1, Zenon DEF WriteRule
  <2>2. CASE rule # Null
    <3>1. rule \in RuleRows
      BY <2>2 DEF IInv, TypeOK
    <3>2. (job[w].cursor # Null) \in BOOLEAN
      BY Zenon
    <3>3. [rule EXCEPT !.next = job[w].cursor, !.isActive = (job[w].cursor # Null)] \in RuleRows
      BY <1>2, <3>1, <3>2, RuleWriteType, Zenon
    <3>4. QED
      BY <1>3, <2>2, <3>1, <3>3, Zenon DEF WriteRule
  <2>3. QED BY <2>1, <2>2
<1>5. QED
  BY <1>1, <1>4, WriteIInv

LEMMA ReadLatestIInv ==
  ASSUME IInv, NEW w \in Workers, ReadLatest(w)
  PROVE  IInv'
<1> DEFINE basis == IF instances = {} THEN job[w].task ELSE Latest
           decide == [job[w] EXCEPT !.pc = "decide", !.cursor = basis.completedOn]
           clear  == [job[w] EXCEPT !.pc = "clear"]
<1>1. job[w].pc = "latest"
  BY DEF ReadLatest
<1>2. job[w] \in JobRows /\ job[w].task \in TaskRows /\ job[w].today <= today
  BY <1>1, JobRow
<1>3. basis \in TaskRows \/ basis \in InstanceRows
  <2>1. CASE instances = {}
    BY <1>2, <2>1
  <2>2. CASE instances # {}
    <3>1. \E i \in instances : \A j \in instances : j.id <= i.id
      BY <2>2, LatestExists
    <3>2. Latest \in instances
      BY <3>1 DEF Latest
    <3>3. QED
      BY <2>2, <3>2 DEF IInv, TypeOK
  <2>3. QED BY <2>1, <2>2
<1>4. ~Open(basis) => basis.completedOn \in Day
  BY <1>3 DEF Open, TaskRows, InstanceRows
<1>5. ~Open(basis) => Sound(decide)
  <2>1. ASSUME ~Open(basis) PROVE basis.completedOn \in Nat /\ basis.completedOn \in Day
    BY <1>4, <2>1, ConstantsAreSane DEF Day
  <2> HIDE DEF basis
  <2>2. QED
    BY <1>2, <2>1, CursorIsSound
<1>6. Sound(clear)
  BY <1>2 DEF Sound, JobRows
<1>7. \/ ~Open(basis) /\ Move(w, decide)
      \/ Move(w, clear)
      \/ Move(w, Idle)
  BY Zenon DEF ReadLatest
<1>8. UNCHANGED <<today, task, rule, instances, request, created, log, ops, crashes>>
  BY DEF ReadLatest
<1>9. QED
  BY <1>5, <1>6, <1>7, <1>8, IdleIsSound, ThinkIInv DEF IInv, TypeOK

LEMMA DecideIInv ==
  ASSUME IInv, NEW w \in Workers, Decide(w)
  PROVE  IInv'
<1> DEFINE next == NextOccurrence(job[w].rule.cfg, job[w].task.anchor, Generated, job[w].cursor)
           exhaust == [job[w] EXCEPT !.pc = "exhaust"]
           make    == [job[w] EXCEPT !.pc = "make", !.cursor = next]
           defer   == [job[w] EXCEPT !.pc = "defer", !.cursor = next]
<1>1. job[w].pc = "decide"
  BY DEF Decide
<1>2. /\ job[w] \in JobRows /\ job[w] # Idle
      /\ job[w].rule.cfg \in Configs /\ job[w].task.anchor \in Day
      /\ job[w].today \in Day /\ job[w].today <= today
  BY <1>1, JobRow
<1>3. job[w].cursor \in Day /\ Generated \in Nat
  BY <1>1, <1>2, FS_CardinalityType DEF IInv, RowsAgree, Generated
<1>4. next \in Nat \cup {Null}
  BY <1>2, <1>3, NextOccurrenceType
<1> HIDE DEF next
<1>5. Sound(exhaust)
  BY <1>2 DEF Sound, JobRows
<1>6. next # Null => Sound(defer)
  BY <1>2, <1>4, CursorIsSound
<1>7. (next # Null /\ next <= job[w].today + HorizonDays) => Sound(make)
  <2>1. ASSUME next # Null, next <= job[w].today + HorizonDays
        PROVE  next \in Nat /\ next \in 0..(job[w].today + HorizonDays)
    BY <1>2, <1>4, <2>1, ConstantsAreSane DEF Day
  <2>2. QED
    BY <1>2, <2>1, CursorIsSound
<1>8. \/ Move(w, exhaust)
      \/ next # Null /\ next <= job[w].today + HorizonDays /\ Move(w, make)
      \/ next # Null /\ Move(w, defer)
      \/ Move(w, Idle)
  BY Zenon DEF Decide, next
<1>9. UNCHANGED <<today, task, rule, instances, request, created, log, ops, crashes>>
  BY DEF Decide
<1>10. QED
  BY <1>5, <1>6, <1>7, <1>8, <1>9, IdleIsSound, ThinkIInv DEF IInv, TypeOK

LEMMA MakeNextIInv ==
  ASSUME IInv, NEW w \in Workers, MakeNext(w)
  PROVE  IInv'
<1> DEFINE fields == [job[w] EXCEPT !.pc = "clear"]
<1>1. job[w].pc = "make" /\ Move(w, fields) /\ UNCHANGED <<today, task, rule, request, ops, crashes>>
  BY DEF MakeNext
<1>2. /\ job[w] \in JobRows /\ job[w] # Idle
      /\ job[w].today \in Day /\ job[w].today <= today
  BY <1>1, JobRow
<1>3. job[w].cursor \in Nat /\ job[w].cursor <= today + HorizonDays
  BY <1>1, <1>2, ConstantsAreSane DEF IInv, RowsAgree, TypeOK, Day
<1>4. Sound(fields)
  BY <1>2 DEF Sound, JobRows
<1>5. QED
  BY <1>1, <1>3, <1>4, CreateIInv DEF MakeNext

LEMMA SettleIInv ==
  ASSUME IInv, NEW w \in Workers, Settle(w)
  PROVE  IInv'
<1>1. job[w].pc # "idle" /\ End(w) /\ UNCHANGED <<today, task, instances, request, created, log, ops, crashes>>
  BY DEF Settle
<1>2. job[w].cursor \in Nat \cup {Null}
  BY <1>1, JobRow
<1>3. rule # Null => /\ [rule EXCEPT !.next = Null] \in RuleRows
                     /\ [rule EXCEPT !.next = Null, !.isActive = FALSE] \in RuleRows
                     /\ [rule EXCEPT !.next = job[w].cursor] \in RuleRows
  <2>1. rule # Null => rule \in RuleRows
    BY DEF IInv, TypeOK
  <2>2. FALSE \in BOOLEAN /\ Null \in Nat \cup {Null}
    BY Zenon
  <2>3. QED
    BY <1>2, <2>1, <2>2, RuleWriteType, Zenon
<1>4. rule' \in RuleRows \cup {Null} /\ (rule = Null => rule' = Null)
  BY <1>3, Zenon DEF Settle, WriteRule
<1>5. QED
  BY <1>1, <1>4, WriteIInv

LEMMA EndIInv ==
  ASSUME IInv, NEW w \in Workers, Orphaned(w) \/ Crash(w)
  PROVE  IInv'
<1>1. End(w) /\ UNCHANGED <<today, task, rule, instances, request, created, log, ops>>
  BY DEF Orphaned, Crash
<1>2. crashes' \in Nat
  BY DEF Orphaned, Crash, IInv, TypeOK
<1>3. QED
  BY <1>1, <1>2, IdleIsSound, ThinkIInv DEF End

----------------------------------------------------------------------------
(* Every step of the system preserves the invariant. *)
THEOREM NextIInv == IInv /\ [Next]_vars => IInv'
<1> SUFFICES ASSUME IInv, [Next]_vars PROVE IInv'
  OBVIOUS
<1>1. ASSUME NEW w \in Workers, Tick(w) \/ Crash(w) PROVE IInv'
  BY <1>1, StartIInv, CountIInv, GenerateIInv, FinishIInv, ReadLatestIInv, DecideIInv,
     MakeNextIInv, SettleIInv, EndIInv DEF Tick
<1>2. ASSUME NEW c \in Clients, Api(c) PROVE IInv'
  BY <1>2, CreateReadIInv, UpdateReadIInv, StoreIInv DEF Api
<1>3. CASE Remove \/ SourceOp \/ InstanceOp \/ PurgeTrash \/ NextDay
  BY <1>3, RemoveIInv, SourceOpIInv, InstanceOpIInv, PurgeTrashIInv, NextDayIInv
<1>4. CASE UNCHANGED vars
  BY <1>4 DEF vars, IInv, TypeOK, RowsAgree, OneInstancePerDay, WithinHorizon
<1>5. QED
  BY <1>1, <1>2, <1>3, <1>4 DEF Next

(* The invariant holds in every reachable state. *)
THEOREM Invariance == Spec => []IInv
<1>1. Init => IInv
  BY InitIInv
<1>2. IInv /\ [Next]_vars => IInv'
  BY NextIInv
<1>3. QED
  BY <1>1, <1>2, PTL DEF Spec

(* Rows, ticks and requests keep their types, for every calendar and any number
   of overlapping ticks and requests. *)
THEOREM TypeCorrect == Spec => []TypeOK
<1>1. IInv => TypeOK
  BY DEF IInv
<1>2. QED
  BY <1>1, Invariance, PTL

(* A rule is never left without its task, and a tick never works from a day that
   has not begun (TrashCleanup's cascade against the generator's snapshot). *)
THEOREM RowsAlwaysAgree == Spec => []RowsAgree
<1>1. IInv => RowsAgree
  BY DEF IInv
<1>2. QED
  BY <1>1, Invariance, PTL

(* No day of a rule ever has two instances, however many ticks overlap or die
   (createInstance under the unique index). *)
THEOREM NoDuplicateInstance == Spec => []OneInstancePerDay
<1>1. IInv => OneInstancePerDay
  BY DEF IInv
<1>2. QED
  BY <1>1, Invariance, PTL

(* No instance is ever generated beyond the horizon. *)
THEOREM NeverTooEarly == Spec => []WithinHorizon
<1>1. IInv => WithinHorizon
  BY DEF IInv
<1>2. QED
  BY <1>1, Invariance, PTL

----------------------------------------------------------------------------
(* What a rule promises. *)

(* One tick at a time, as deployed: the queue has one worker. *)
OneTick == \A v, w \in Workers : v = w

(* A request stores a rule while no tick is at it. *)
StoredAlone == \A c \in Clients : Store(c) => \A w \in Workers : job[w] = Idle

(* Nothing is trashed, so nothing is purged: every row lasts. *)
RowsLast ==
  /\ task # Null /\ task.trashedOn = Null
  /\ \A i \in instances : i.trashedOn = Null

OnSchedule(cfg, anchor, d) == d > 0 /\ NextOnSchedule(cfg, anchor, d - 1) = d

(* The history keeps the rule's settings, and its anchor is still the task's. *)
Logged ==
  rule # Null => log # Null /\ rule.cfg = log.cfg /\ log.anchor = task.anchor

(* A cursor before which nothing is missing. *)
Reached(k) ==
  /\ k \in Nat /\ log.first \in Nat /\ log.first <= k
  /\ k \in Day => OnSchedule(log.cfg, log.anchor, k)
  /\ log.cfg.endType = "on_date" => k <= log.cfg.endDate
  /\ \A d \in Day : OnSchedule(log.cfg, log.anchor, d) /\ log.first <= d /\ d < k => d \in log.covered
  /\ log.cfg.endType = "after_count" /\ k \notin log.covered => Cardinality(log.covered) < log.cfg.endCount - 1

(* The end, once nothing is missing before it. *)
Over ==
  /\ log.cfg.endType # "never"
  /\ log.cfg.endType = "after_count" => Generated >= log.cfg.endCount - 1
  /\ log.cfg.endType = "on_date" =>
       \A d \in Day : OnSchedule(log.cfg, log.anchor, d) /\ log.first <= d /\ d <= log.cfg.endDate => d \in log.covered

Whole(k) == (k = Null /\ Over) \/ Reached(k)

(* The days covered are the first of the schedule, without a gap. *)
Prefix ==
  /\ log.first \in Day => OnSchedule(log.cfg, log.anchor, log.first)
  /\ log.covered \subseteq OccurrenceDays /\ log.covered \subseteq Day
  /\ \A e \in log.covered :
       /\ OnSchedule(log.cfg, log.anchor, e) /\ log.first <= e
       /\ log.cfg.endType = "on_date" => e <= log.cfg.endDate
       /\ \A d \in Day : OnSchedule(log.cfg, log.anchor, d) /\ log.first <= d /\ d < e => d \in log.covered
  /\ log.cfg.endType = "after_count" => Cardinality(log.covered) <= log.cfg.endCount - 1

Scheduled ==
  rule # Null /\ ~rule.cfg.repeatAfterCompletion => log.first \in Nat /\ Prefix /\ Whole(rule.next)

(* A tick works from the rule and the task as they are, ahead of the stored cursor. *)
InStep(j) ==
  /\ rule # Null
  /\ j.rule.cfg = rule.cfg
  /\ j.task.anchor = task.anchor
  /\ j.pc \in {"count", "loop"} <=> ~rule.cfg.repeatAfterCompletion
  /\ j.pc = "loop" => j.generated = Generated
  /\ ~rule.cfg.repeatAfterCompletion =>
       /\ Whole(j.cursor)
       /\ j.cursor # Null /\ rule.next # Null => rule.next <= j.cursor

Ticking == \A w \in Workers : job[w] # Idle => InStep(job[w])

(* What a request is about to store of a schedule. *)
Promise(r) ==
  ~r.row.cfg.repeatAfterCompletion =>
    /\ r.row.next \in Nat
    /\ r.row.next \in Day => OnSchedule(r.row.cfg, task.anchor, r.row.next)
    /\ r.row.cfg.endType = "on_date" => r.row.next <= r.row.cfg.endDate
    /\ r.row.cfg.endType = "after_count" => 0 < r.row.cfg.endCount - 1

Promised == \A c \in Clients : request[c] # Idle => Promise(request[c])

Gapless == RowsLast /\ Logged /\ Scheduled /\ Ticking /\ Promised

----------------------------------------------------------------------------
(* The calendar: a day's next day is on the schedule, and none is between. *)
LEMMA NextIsOnSchedule ==
  ASSUME NEW cfg \in Configs, NEW a \in Day, NEW d \in Day, NextOnSchedule(cfg, a, d) \in Day
  PROVE  OnSchedule(cfg, a, NextOnSchedule(cfg, a, d))
<1>1. PICK n \in Day : n = NextOnSchedule(cfg, a, d)
  OBVIOUS
<1>2. n > d /\ \A e \in Day : d <= e /\ e < n => NextOnSchedule(cfg, a, e) = n
  BY <1>1, CalendarMovesForward
<1>3. n - 1 \in Day /\ d <= n - 1 /\ n - 1 < n /\ n > 0
  BY <1>2, ConstantsAreSane DEF Day
<1>4. QED
  BY <1>1, <1>2, <1>3 DEF OnSchedule

LEMMA NoneBetween ==
  ASSUME NEW cfg \in Configs, NEW a \in Day, NEW d \in Day, NEW e \in Day, d < e, OnSchedule(cfg, a, e)
  PROVE  NextOnSchedule(cfg, a, d) <= e
<1>1. PICK n \in Nat : n = NextOnSchedule(cfg, a, d)
  BY CalendarMovesForward
<1>2. \A x \in Day : d <= x /\ x < n => NextOnSchedule(cfg, a, x) = n
  BY <1>1, CalendarMovesForward
<1>3. e - 1 \in Day /\ d <= e - 1
  BY ConstantsAreSane DEF Day
<1>4. NextOnSchedule(cfg, a, e - 1) = e
  BY DEF OnSchedule
<1>5. CASE e < n
  BY <1>2, <1>3, <1>4, <1>5 DEF Day
<1>6. QED
  BY <1>1, <1>5 DEF Day

(* What a request computes. *)
LEMMA Promises ==
  ASSUME IInv, RowsLast, NEW cfg \in Configs, NEW g \in Nat, NEW r,
         r.row = Rule(cfg, ComputeNext(cfg, g), r.row.isActive), Storable(cfg, ComputeNext(cfg, g))
  PROVE  Promise(r)
<1> SUFFICES ASSUME ~cfg.repeatAfterCompletion PROVE Promise(r)
  BY DEF Promise, Rule
<1>1. task \in TaskRows /\ today \in Day /\ task.anchor \in Day
  BY DEF IInv, TypeOK, RowsLast, TaskRows
<1>2. PICK after \in Day : after = IF task.anchor > today THEN task.anchor ELSE today
  BY <1>1
<1>3. PICK n \in Nat : n = NextOnSchedule(cfg, task.anchor, after)
  BY <1>1, CalendarMovesForward
<1>4. PICK k : k = ComputeNext(cfg, g)
  OBVIOUS
<1>5. k = ApplyEnd(cfg, g, n) /\ k # Null
  BY <1>1, <1>2, <1>3, <1>4 DEF ComputeNext, NextOccurrence, Storable
<1>6. k = n /\ ~CountExhausted(cfg, g) /\ ~PastEndDate(cfg, n)
  BY <1>5 DEF ApplyEnd
<1>7. r.row.next = n /\ r.row.cfg = cfg
  BY <1>4, <1>6 DEF Rule
<1>8. n \in Day => OnSchedule(cfg, task.anchor, n)
  BY <1>1, <1>3, NextIsOnSchedule
<1>9. cfg.endType = "on_date" => n <= cfg.endDate
  BY <1>6, EndsAreGiven, NullIsNoNumber DEF PastEndDate
<1>10. cfg.endType = "after_count" => 0 < cfg.endCount - 1
  BY <1>6, EndsAreGiven, NullIsNoNumber DEF CountExhausted
<1>11. QED
  BY <1>7, <1>8, <1>9, <1>10 DEF Promise

----------------------------------------------------------------------------
(* One occurrence is covered. *)

(* There are no more days than instances. *)
LEMMA DaysAreCounted ==
  ASSUME NEW rows, IsFiniteSet(rows)
  PROVE  /\ Cardinality(rows) \in Nat
         /\ \A days \in SUBSET { i.day : i \in rows } :
              IsFiniteSet(days) /\ Cardinality(days) \in Nat /\ Cardinality(days) <= Cardinality(rows)
<1> DEFINE all == { i.day : i \in rows }
<1>1. PICK f \in [rows -> all] : \A i \in rows : f[i] = i.day
  <2>1. [i \in rows |-> i.day] \in [rows -> all]
    OBVIOUS
  <2>2. QED BY <2>1
<1>2. f \in Surjection(rows, all)
  BY <1>1 DEF Surjection
<1> HIDE DEF all
<1>3. IsFiniteSet(all) /\ Cardinality(all) <= Cardinality(rows)
  BY <1>2, FS_Surjection
<1>4. Cardinality(all) \in Nat /\ Cardinality(rows) \in Nat
  BY <1>3, FS_CardinalityType
<1>5. ASSUME NEW days \in SUBSET all
      PROVE  IsFiniteSet(days) /\ Cardinality(days) \in Nat /\ Cardinality(days) <= Cardinality(rows)
  <2>1. IsFiniteSet(days) /\ Cardinality(days) <= Cardinality(all)
    BY <1>3, FS_Subset
  <2>2. QED BY <1>3, <1>4, <2>1, FS_CardinalityType
<1>6. QED BY <1>4, <1>5 DEF all

(* The day a tick covers: nothing is missing before it, and the stored next
   occurrence is not ahead of it. *)
Covering(k) ==
  /\ rule # Null /\ ~rule.cfg.repeatAfterCompletion
  /\ k \in Day /\ Reached(k)
  /\ rule.next # Null => rule.next <= k
  /\ log' = [log EXCEPT !.covered = @ \cup {k}]
  /\ UNCHANGED <<task, rule>>
  /\ OccurrenceDays' = OccurrenceDays \cup {k}
  /\ IsFiniteSet(instances') /\ Generated' >= Generated

LEMMA CoveringLog ==
  ASSUME IInv, Logged, NEW k, Covering(k)
  PROVE  /\ log \in LogRows /\ log.cfg \in Configs /\ log.anchor \in Day
         /\ log'.cfg = log.cfg /\ log'.anchor = log.anchor /\ log'.first = log.first
         /\ log'.covered = log.covered \cup {k}
         /\ rule \in RuleRows /\ rule.cfg = log.cfg /\ rule.next \in Nat \cup {Null}
<1>1. log \in LogRows /\ rule \in RuleRows
  BY DEF IInv, TypeOK, Logged, Covering
<1>2. rule.cfg = log.cfg /\ log' = [log EXCEPT !.covered = @ \cup {k}]
  BY DEF Logged, Covering
<1>3. QED
  BY <1>1, <1>2 DEF LogRows, RuleRows

LEMMA CoveredCount ==
  ASSUME IInv, Logged, Prefix, NEW k, Covering(k)
  PROVE  /\ Generated' \in Nat /\ Cardinality(log'.covered) \in Nat /\ Cardinality(log'.covered) <= Generated'
         /\ log.cfg.endType = "after_count" => Cardinality(log'.covered) <= log.cfg.endCount - 1
<1>1. IsFiniteSet(instances) /\ log.covered \subseteq OccurrenceDays /\ IsFiniteSet(instances')
  BY DEF IInv, Prefix, Covering
<1>2. IsFiniteSet(log.covered) /\ Cardinality(log.covered) \in Nat
  BY <1>1, DaysAreCounted DEF OccurrenceDays
<1>3. log'.covered = log.covered \cup {k} /\ log.cfg \in Configs
  BY CoveringLog
<1>4. log'.covered \subseteq OccurrenceDays'
  BY <1>1, <1>3 DEF Covering
<1>5. Generated' \in Nat /\ \A days \in SUBSET OccurrenceDays' : Cardinality(days) \in Nat /\ Cardinality(days) <= Generated'
  BY <1>1, DaysAreCounted DEF OccurrenceDays, Generated
<1>6. ASSUME log.cfg.endType = "after_count" PROVE Cardinality(log'.covered) <= log.cfg.endCount - 1
  <2>1. log.cfg.endCount \in Nat
    BY <1>3, <1>6, EndsAreGiven
  <2>2. CASE k \in log.covered
    BY <1>3, <1>6, <2>2 DEF Prefix
  <2>3. CASE k \notin log.covered
    <3>1. Cardinality(log.covered) < log.cfg.endCount - 1
      BY <1>6, <2>3 DEF Covering, Reached
    <3>2. Cardinality(log'.covered) = Cardinality(log.covered) + 1
      BY <1>2, <1>3, <2>3, FS_AddElement
    <3>3. QED BY <1>2, <2>1, <3>1, <3>2
  <2>4. QED BY <2>2, <2>3
<1>7. QED BY <1>4, <1>5, <1>6

(* It lengthens the prefix by one. *)
LEMMA PrefixGrows ==
  ASSUME IInv, Logged, Prefix, NEW k, Covering(k)
  PROVE  Prefix'
<1>1. /\ log'.cfg = log.cfg /\ log'.anchor = log.anchor /\ log'.first = log.first
      /\ log'.covered = log.covered \cup {k}
  BY CoveringLog
<1>2. log'.covered \subseteq OccurrenceDays' /\ log'.covered \subseteq Day
  BY <1>1 DEF Prefix, Covering
<1>3. OnSchedule(log.cfg, log.anchor, k)
  BY DEF Covering, Reached
<1>4. ASSUME NEW e \in log'.covered
      PROVE  /\ OnSchedule(log.cfg, log.anchor, e) /\ log.first <= e
             /\ log.cfg.endType = "on_date" => e <= log.cfg.endDate
             /\ \A d \in Day : OnSchedule(log.cfg, log.anchor, d) /\ log.first <= d /\ d < e => d \in log'.covered
  <2>1. CASE e = k
    BY <1>1, <1>3, <2>1 DEF Covering, Reached
  <2>2. CASE e \in log.covered
    BY <1>1, <2>2 DEF Prefix
  <2>3. QED BY <1>1, <2>1, <2>2
<1>5. log.cfg.endType = "after_count" => Cardinality(log'.covered) <= log.cfg.endCount - 1
  BY CoveredCount
<1>6. QED
  BY <1>1, <1>2, <1>4, <1>5 DEF Prefix, OnSchedule

(* Nothing that was covered is missing afterwards. *)
LEMMA StillWhole ==
  ASSUME IInv, Logged, Prefix, NEW k, Covering(k), Whole(rule.next)
  PROVE  Whole(rule.next)'
<1>1. /\ log'.cfg = log.cfg /\ log'.anchor = log.anchor /\ log'.first = log.first
      /\ log'.covered = log.covered \cup {k} /\ log.cfg \in Configs
      /\ rule'.next = rule.next /\ rule.next \in Nat \cup {Null}
  BY CoveringLog DEF Covering
<1>2. Generated' \in Nat /\ Generated \in Nat
  BY CoveredCount, DaysAreCounted DEF IInv, Generated
<1>3. CASE rule.next = Null
  <2>1. Over
    BY <1>3, NullIsNoNumber DEF Whole, Reached
  <2>2. log.cfg.endType = "after_count" => log.cfg.endCount \in Nat
    BY <1>1, EndsAreGiven
  <2>3. Over'
    BY <1>1, <1>2, <2>1, <2>2 DEF Over, Covering, OnSchedule
  <2>4. QED
    BY <1>1, <1>3, <2>3 DEF Whole
<1>4. CASE rule.next # Null
  <2>1. Reached(rule.next) /\ rule.next <= k /\ rule.next \in Nat
    BY <1>4 DEF Whole, Covering, Reached
  <2>2. rule.next \in log'.covered
    <3>1. CASE rule.next = k
      BY <1>1, <3>1
    <3>2. CASE rule.next < k
      <4>1. rule.next \in Day /\ OnSchedule(log.cfg, log.anchor, rule.next) /\ log.first <= rule.next
        BY <2>1, <3>2, ConstantsAreSane DEF Covering, Day, Reached
      <4>2. QED
        BY <1>1, <3>2, <4>1 DEF Covering, Reached
    <3>3. QED BY <2>1, <3>1, <3>2, ConstantsAreSane DEF Covering, Day
  <2>3. Reached(rule.next)'
    BY <1>1, <2>1, <2>2 DEF Reached, OnSchedule
  <2>4. QED
    BY <2>3 DEF Whole
<1>5. QED BY <1>3, <1>4

(* The next day of the schedule is the next that can be covered, or the rule is over. *)
LEMMA NextIsWhole ==
  ASSUME IInv, Logged, Prefix, NEW k, Covering(k),
         NEW next, next = ApplyEnd(log.cfg, Generated', NextOnSchedule(log.cfg, log.anchor, k))
  PROVE  Whole(next)' /\ (next # Null => next \in Nat /\ k < next)
<1>1. /\ log'.cfg = log.cfg /\ log'.anchor = log.anchor /\ log'.first = log.first
      /\ log'.covered = log.covered \cup {k} /\ log.cfg \in Configs /\ log.anchor \in Day
  BY CoveringLog
<1>2. k \in Day /\ k \in Nat /\ log.first \in Nat /\ log.first <= k
  BY ConstantsAreSane DEF Covering, Reached, Day
<1>3. PICK n \in Nat : n = NextOnSchedule(log.cfg, log.anchor, k)
  BY <1>1, <1>2, CalendarMovesForward
<1>4. n > k
  BY <1>1, <1>2, <1>3, CalendarMovesForward
<1>5. Generated' \in Nat /\ Cardinality(log'.covered) \in Nat /\ Cardinality(log'.covered) <= Generated'
  BY CoveredCount
<1>6. /\ log.cfg.endType \in {"never", "after_count", "on_date"}
      /\ log.cfg.endType = "after_count" => log.cfg.endCount \in Nat \ {0}
      /\ log.cfg.endType = "on_date" => log.cfg.endDate \in Int
  BY <1>1, EndsAreGiven
<1>7. \A d \in Day : OnSchedule(log.cfg, log.anchor, d) /\ log.first <= d /\ d < n => d \in log'.covered
  <2>1. SUFFICES ASSUME NEW d \in Day, OnSchedule(log.cfg, log.anchor, d), log.first <= d, d < n
                 PROVE  d \in log'.covered
    OBVIOUS
  <2>2. d <= k
    <3>1. CASE k < d
      BY <1>1, <1>2, <1>3, <2>1, <3>1, NoneBetween DEF Day
    <3>2. QED BY <1>2, <3>1 DEF Day
  <2>3. CASE d = k
    BY <1>1, <2>3
  <2>4. CASE d < k
    BY <1>1, <2>1, <2>4 DEF Covering, Reached
  <2>5. QED BY <1>2, <2>2, <2>3, <2>4 DEF Day
<1>8. n # Null
  BY NullIsNoNumber
<1>9. CASE CountExhausted(log.cfg, Generated') \/ PastEndDate(log.cfg, n)
  <2>1. next = Null
    BY <1>3, <1>9 DEF ApplyEnd
  <2>2. log.cfg.endType = "after_count" => Generated' >= log.cfg.endCount - 1
    BY <1>9 DEF CountExhausted, PastEndDate
  <2>3. log.cfg.endType = "on_date" => n > log.cfg.endDate
    BY <1>9 DEF CountExhausted, PastEndDate
  <2>4. log.cfg.endType = "on_date" => \A d \in Day : OnSchedule(log.cfg, log.anchor, d) /\ log.first <= d /\ d <= log.cfg.endDate => d \in log'.covered
    BY <1>6, <1>7, <2>3 DEF Day
  <2>5. log.cfg.endType # "never"
    BY <1>9 DEF CountExhausted, PastEndDate
  <2>6. Over'
    BY <1>1, <2>2, <2>4, <2>5 DEF Over, OnSchedule
  <2>7. QED
    BY <2>1, <2>6 DEF Whole
<1>10. CASE ~CountExhausted(log.cfg, Generated') /\ ~PastEndDate(log.cfg, n)
  <2>1. next = n
    BY <1>3, <1>8, <1>10 DEF ApplyEnd
  <2>2. log.cfg.endType = "on_date" => n <= log.cfg.endDate
    BY <1>6, <1>10, NullIsNoNumber DEF PastEndDate
  <2>3. log.cfg.endType = "after_count" => Cardinality(log'.covered) < log.cfg.endCount - 1
    BY <1>5, <1>6, <1>10, NullIsNoNumber DEF CountExhausted
  <2>4. n \in Day => OnSchedule(log.cfg, log.anchor, n)
    BY <1>1, <1>2, <1>3, NextIsOnSchedule
  <2>5. log.first <= n
    BY <1>2, <1>4
  <2>6. Reached(n)'
    BY <1>1, <1>2, <1>7, <2>2, <2>3, <2>4, <2>5 DEF Reached, OnSchedule
  <2>7. QED
    BY <1>4, <2>1, <2>6 DEF Whole
<1>11. QED BY <1>9, <1>10

----------------------------------------------------------------------------
(* The steps. *)

(* A step that leaves the rule, its history and the days of its instances alone. *)
LEMMA SameGapless ==
  ASSUME Gapless, RowsLast', task'.anchor = task.anchor,
         UNCHANGED <<rule, job, request, log>>,
         OccurrenceDays' = OccurrenceDays, Generated' = Generated
  PROVE  Gapless'
<1>1. \A k : Whole(k)' <=> Whole(k)
  BY DEF Whole, Over, Reached, OnSchedule
<1>2. Prefix' <=> Prefix
  BY DEF Prefix, OnSchedule
<1>3. Logged' /\ Promised'
  BY DEF Gapless, Logged, Promised, Promise, OnSchedule
<1>4. Scheduled'
  BY <1>1, <1>2 DEF Gapless, Scheduled
<1>5. Ticking'
  <2>1. \A w \in Workers : job'[w] # Idle => job[w] # Idle
    BY DEF Idle
  <2>2. ASSUME NEW w \in Workers, job'[w] # Idle PROVE InStep(job[w])'
    <3>1. InStep(job[w])
      BY <2>1, <2>2 DEF Gapless, Ticking
    <3>2. Whole(job[w].cursor)' <=> Whole(job[w].cursor)
      BY DEF Whole, Over, Reached, OnSchedule
    <3>3. QED
      BY <3>1, <3>2 DEF InStep
  <2>3. QED BY <2>2 DEF Ticking
<1>6. QED
  BY <1>3, <1>4, <1>5 DEF Gapless

(* What a tick does to itself. *)
LEMMA OnlyTick ==
  ASSUME IInv, OneTick, NEW w \in Workers, NEW fields \in JobRows \cup {Idle}, Move(w, fields)
  PROVE  \A v \in Workers : job'[v] = fields
BY MoveType DEF IInv, OneTick

(* A step of a tick that changes nothing but itself and the rule's stored cursor. *)
LEMMA ThinkGapless ==
  ASSUME IInv, Gapless, OneTick, NEW w \in Workers, NEW fields \in JobRows \cup {Idle}, Move(w, fields),
         UNCHANGED <<task, instances, request, log>>,
         rule # Null => rule' # Null /\ rule'.cfg = rule.cfg,
         rule = Null => rule' = Null,
         rule # Null /\ ~rule.cfg.repeatAfterCompletion => Whole(rule'.next),
         fields # Idle => rule' = rule /\ InStep(fields)
  PROVE  Gapless'
<1>1. OccurrenceDays' = OccurrenceDays /\ Generated' = Generated
  BY DEF OccurrenceDays, Generated
<1>2. \A k : Whole(k)' <=> Whole(k)
  BY <1>1 DEF Whole, Over, Reached, OnSchedule
<1>3. Prefix' <=> Prefix
  BY <1>1 DEF Prefix, OnSchedule
<1>4. RowsLast' /\ Logged' /\ Promised'
  BY DEF Gapless, RowsLast, Logged, Promised, Promise, OnSchedule
<1>5. Scheduled'
  <2>1. SUFFICES ASSUME rule' # Null, ~rule'.cfg.repeatAfterCompletion
                 PROVE  log'.first \in Nat /\ Prefix' /\ Whole(rule.next)'
    BY DEF Scheduled
  <2>2. rule # Null /\ ~rule.cfg.repeatAfterCompletion
    BY <2>1
  <2>3. PICK next : next = rule'.next
    OBVIOUS
  <2>4. Whole(next)
    BY <2>2, <2>3
  <2>5. Whole(next)'
    BY <1>2, <2>4
  <2>6. QED
    BY <1>3, <2>2, <2>3, <2>5 DEF Gapless, Scheduled
<1>6. Ticking'
  <2>1. SUFFICES ASSUME NEW v \in Workers, job'[v] # Idle PROVE InStep(job[v])'
    BY DEF Ticking
  <2>2. job'[v] = fields /\ fields # Idle
    BY <2>1, OnlyTick
  <2>3. InStep(fields) /\ rule' = rule
    BY <2>2
  <2>4. InStep(fields)'
    BY <1>1, <1>2, <2>3 DEF InStep
  <2>5. QED
    BY <2>2, <2>4 DEF InStep
<1>7. QED
  BY <1>4, <1>5, <1>6 DEF Gapless

LEMMA StoreGapless ==
  ASSUME IInv, Gapless, NEW c \in Clients, Store(c), \A w \in Workers : job[w] = Idle
  PROVE  Gapless'
<1>1. request[c] # Idle /\ request[c] \in RequestRows
  BY DEF Store, Idle, IInv, TypeOK
<1>2. UNCHANGED <<task, instances, job>> /\ request' = [request EXCEPT ![c] = Idle]
  BY DEF Store
<1>3. RowsLast' /\ Promised'
  BY <1>2 DEF Gapless, RowsLast, Promised, Promise, OnSchedule, IInv, TypeOK
<1>4. Ticking'
  BY <1>2 DEF Ticking
<1>5. CASE UNCHANGED <<rule, log>>
  <2>1. OccurrenceDays' = OccurrenceDays /\ Generated' = Generated
    BY <1>2 DEF OccurrenceDays, Generated
  <2>2. (Prefix' <=> Prefix) /\ (Whole(rule.next)' <=> Whole(rule.next))
    BY <1>2, <1>5, <2>1 DEF Prefix, Whole, Over, Reached, OnSchedule
  <2>3. Logged' /\ Scheduled'
    BY <1>2, <1>5, <2>2 DEF Gapless, Logged, Scheduled
  <2>4. QED
    BY <1>3, <1>4, <2>3 DEF Gapless
<1>6. CASE task # Null /\ request[c].found = (rule # Null)
  <2>1. PICK row \in RuleRows : row = request[c].row
    BY <1>1 DEF RequestRows
  <2>2. rule' = row /\ log' = [cfg |-> row.cfg, anchor |-> task.anchor, first |-> row.next, covered |-> {}]
    BY <1>6, <2>1 DEF Store
  <2>3. Logged'
    <3>1. log' \in LogRows
      BY <2>1, <2>2, <1>6 DEF LogRows, RuleRows, IInv, TypeOK, TaskRows
    <3>2. log' # Null
      BY <3>1, NullIsNoRow
    <3>3. QED
      BY <1>2, <2>2, <3>2 DEF Logged
  <2>4. Scheduled'
    <3>1. SUFFICES ASSUME ~row.cfg.repeatAfterCompletion
                   PROVE  log'.first \in Nat /\ Prefix' /\ Reached(rule.next)'
      BY <2>2 DEF Scheduled, Whole
    <3>2. Promise(request[c])
      BY <1>1 DEF Gapless, Promised
    <3>3. /\ row.next \in Nat
          /\ row.next \in Day => OnSchedule(row.cfg, task.anchor, row.next)
          /\ row.cfg.endType = "on_date" => row.next <= row.cfg.endDate
          /\ row.cfg.endType = "after_count" => 0 < row.cfg.endCount - 1
      BY <2>1, <3>1, <3>2 DEF Promise
    <3>4. /\ log'.cfg = row.cfg /\ log'.anchor = task.anchor /\ log'.first = row.next
          /\ log'.covered = {} /\ rule'.next = row.next /\ Cardinality(log'.covered) = 0
      BY <2>2, FS_EmptySet
    <3>5. row.cfg.endType = "after_count" => row.cfg.endCount \in Nat
      BY <2>1, EndsAreGiven DEF RuleRows
    <3>6. Prefix'
      BY <3>3, <3>4, <3>5 DEF Prefix, OnSchedule
    <3>7. Reached(rule.next)'
      BY <3>3, <3>4, ConstantsAreSane DEF Reached, OnSchedule, Day
    <3>8. QED
      BY <3>3, <3>4, <3>6, <3>7
  <2>5. QED
    BY <1>3, <1>4, <2>3, <2>4 DEF Gapless
<1>7. QED
  BY <1>5, <1>6 DEF Store

LEMMA RequestGapless ==
  ASSUME IInv, Gapless, "trash" \notin UserOps, NEW c \in Clients, NEW cfg \in Configs,
         CreateRead(c, cfg) \/ \E isActive \in BOOLEAN : UpdateRead(c, cfg, isActive)
  PROVE  Gapless'
<1>1. PICK kind \in {"create", "update"}, g \in Nat, isActive \in BOOLEAN :
        BeginWrite(c, kind, Rule(cfg, ComputeNext(cfg, g), isActive))
  <2>1. 0 \in Nat /\ Generated \in Nat
    BY FS_CardinalityType DEF IInv, Generated
  <2>2. QED
    BY <2>1, Zenon DEF CreateRead, UpdateRead
<1>2. PICK row : row = Rule(cfg, ComputeNext(cfg, g), isActive)
  OBVIOUS
<1>3. row.cfg = cfg /\ row.next = ComputeNext(cfg, g) /\ row.isActive = isActive
  BY <1>2 DEF Rule
<1>4. Storable(cfg, ComputeNext(cfg, g))
  BY <1>1, <1>2, <1>3 DEF BeginWrite
<1>5. PICK r : r = [pc |-> kind, row |-> row, found |-> (rule # Null)]
  OBVIOUS
<1>6. r.row = Rule(cfg, ComputeNext(cfg, g), r.row.isActive)
  BY <1>2, <1>3, <1>5
<1>7. RowsLast
  BY DEF Gapless
<1>8. Promise(r)
  BY <1>4, <1>6, <1>7, Promises
<1>9. request' = [request EXCEPT ![c] = r] /\ UNCHANGED <<task, rule, instances, job, log>>
  BY <1>1, <1>2, <1>5, Zenon DEF BeginWrite
<1>10. Promised'
  <2>1. request \in [Clients -> RequestRows \cup {Idle}]
    BY DEF IInv, TypeOK
  <2>2. SUFFICES ASSUME NEW d \in Clients, request'[d] # Idle PROVE Promise(request[d])'
    BY DEF Promised
  <2>3. Promise(request'[d])
    BY <1>8, <1>9, <2>1, <2>2 DEF Gapless, Promised
  <2>4. QED
    BY <1>9, <2>3 DEF Promise, OnSchedule
<1>11. OccurrenceDays' = OccurrenceDays /\ Generated' = Generated
  BY <1>9 DEF OccurrenceDays, Generated
<1>12. \A k : Whole(k)' <=> Whole(k)
  BY <1>9, <1>11 DEF Whole, Over, Reached, OnSchedule
<1>13. Prefix' <=> Prefix
  BY <1>9, <1>11 DEF Prefix, OnSchedule
<1>14. RowsLast' /\ Logged'
  BY <1>9 DEF Gapless, RowsLast, Logged
<1>15. Scheduled'
  BY <1>9, <1>12, <1>13 DEF Gapless, Scheduled
<1>16. Ticking'
  <2>1. SUFFICES ASSUME NEW w \in Workers, job[w] # Idle PROVE InStep(job[w])'
    BY <1>9 DEF Ticking
  <2>2. InStep(job[w])
    BY <2>1 DEF Gapless, Ticking
  <2>3. Whole(job[w].cursor)' <=> Whole(job[w].cursor)
    BY <1>9, <1>11 DEF Whole, Over, Reached, OnSchedule
  <2>4. QED
    BY <1>9, <1>11, <2>2, <2>3 DEF InStep
<1>17. QED
  BY <1>10, <1>14, <1>15, <1>16 DEF Gapless

LEMMA RemoveGapless ==
  ASSUME IInv, Gapless, Remove
  PROVE  Gapless'
<1>1. rule \in RuleRows /\ rule # Null
  BY DEF IInv, TypeOK, Remove
<1>2. PICK row : row = [rule EXCEPT !.isActive = FALSE]
  OBVIOUS
<1>3. rule' = row /\ UNCHANGED <<task, instances, job, request, log>>
  BY <1>2, Zenon DEF Remove
<1>4. row.cfg = rule.cfg /\ row.next = rule.next /\ row \in RuleRows /\ row # Null
  BY <1>1, <1>2, NullIsNoRow DEF RuleRows
<1>5. OccurrenceDays' = OccurrenceDays /\ Generated' = Generated
  BY <1>3 DEF OccurrenceDays, Generated
<1>6. \A k : Whole(k)' <=> Whole(k)
  BY <1>3, <1>5 DEF Whole, Over, Reached, OnSchedule
<1>7. Prefix' <=> Prefix
  BY <1>3, <1>5 DEF Prefix, OnSchedule
<1>8. RowsLast' /\ Logged' /\ Promised'
  <2>1. RowsLast' /\ Logged'
    BY <1>1, <1>3, <1>4 DEF Gapless, RowsLast, Logged
  <2>2. Promised'
    BY <1>3 DEF Gapless, Promised, Promise, OnSchedule
  <2>3. QED BY <2>1, <2>2
<1>9. Scheduled'
  <2>1. PICK next : next = rule.next
    OBVIOUS
  <2>2. Whole(next)' <=> Whole(next)
    BY <1>6
  <2>3. QED
    BY <1>1, <1>3, <1>4, <1>7, <2>1, <2>2 DEF Gapless, Scheduled
<1>10. Ticking'
  <2>1. SUFFICES ASSUME NEW w \in Workers, job[w] # Idle PROVE InStep(job[w])'
    BY <1>3 DEF Ticking
  <2>2. InStep(job[w])
    BY <2>1 DEF Gapless, Ticking
  <2>3. Whole(job[w].cursor)' <=> Whole(job[w].cursor)
    BY <1>3, <1>5 DEF Whole, Over, Reached, OnSchedule
  <2>4. QED
    BY <1>3, <1>4, <1>5, <2>2, <2>3 DEF InStep
<1>11. QED
  BY <1>8, <1>9, <1>10 DEF Gapless

(* Nothing is trashed and the due date stays: what users do to the tasks is to
   complete and to reopen them. *)
LEMMA SourceOpGapless ==
  ASSUME IInv, Gapless, {"trash", "due"} \cap UserOps = {}, SourceOp
  PROVE  Gapless'
<1>1. PICK d \in Day \cup {Null} : UpdateSource([task EXCEPT !.completedOn = d])
  BY Zenon DEF SourceOp, CompleteSource, ReopenSource, TrashSource, RestoreSource, MoveSource, UserOp,
     Gapless, RowsLast, IInv, TypeOK
<1>2. task \in TaskRows
  BY DEF Gapless, RowsLast, IInv, TypeOK
<1>3. PICK row : row = [task EXCEPT !.completedOn = d]
  OBVIOUS
<1>4. row \in TaskRows /\ row.anchor = task.anchor /\ row.trashedOn = task.trashedOn /\ row # Null
  BY <1>2, <1>3, NullIsNoRow DEF TaskRows
<1>5. task' = row /\ UNCHANGED <<rule, instances, job, request, log>>
  BY <1>1, <1>3 DEF UpdateSource
<1>6. RowsLast' /\ task'.anchor = task.anchor
  BY <1>4, <1>5 DEF Gapless, RowsLast
<1>7. OccurrenceDays' = OccurrenceDays /\ Generated' = Generated
  BY <1>5 DEF OccurrenceDays, Generated
<1>8. QED
  BY <1>5, <1>6, <1>7, SameGapless

LEMMA InstanceOpGapless ==
  ASSUME IInv, Gapless, "trash" \notin UserOps, InstanceOp
  PROVE  Gapless'
<1>1. PICK i \in instances : \E d \in Day \cup {Null} : UpdateInstance(i, [i EXCEPT !.completedOn = d])
  BY Zenon DEF InstanceOp, CompleteInstance, ReopenInstance, TrashInstance, RestoreInstance, UserOp,
     Gapless, RowsLast, IInv, TypeOK
<1>2. PICK d \in Day \cup {Null} : UpdateInstance(i, [i EXCEPT !.completedOn = d])
  BY <1>1
<1>3. i \in InstanceRows /\ instances \subseteq InstanceRows
  BY DEF IInv, TypeOK
<1>4. PICK row : row = [i EXCEPT !.completedOn = d]
  OBVIOUS
<1>5. row \in InstanceRows /\ row.day = i.day /\ row.trashedOn = i.trashedOn
  BY <1>3, <1>4 DEF InstanceRows
<1>6. instances' = (instances \ {i}) \cup {row} /\ UNCHANGED <<task, rule, job, request, log>>
  BY <1>2, <1>4 DEF UpdateInstance
<1>7. RowsLast' /\ task'.anchor = task.anchor
  BY <1>5, <1>6 DEF Gapless, RowsLast
<1>8. OccurrenceDays' = OccurrenceDays
  BY <1>5, <1>6 DEF OccurrenceDays
<1>9. Generated' = Generated
  <2>1. row \notin instances \ {i}
    BY <1>5 DEF IInv, OneInstancePerDay
  <2>2. IsFiniteSet(instances \ {i}) /\ Cardinality(instances \ {i}) = Cardinality(instances) - 1
    BY FS_RemoveElement DEF IInv
  <2>3. Cardinality((instances \ {i}) \cup {row}) = Cardinality(instances \ {i}) + 1
    BY <2>1, <2>2, FS_AddElement
  <2>4. Cardinality(instances) \in Nat
    BY FS_CardinalityType DEF IInv
  <2>5. QED
    BY <1>6, <2>2, <2>3, <2>4 DEF Generated
<1>10. QED
  BY <1>6, <1>7, <1>8, <1>9, SameGapless

LEMMA ClockGapless ==
  ASSUME IInv, Gapless, PurgeTrash \/ NextDay
  PROVE  Gapless'
<1>1. ~PurgeTrash
  BY Zenon DEF PurgeTrash, Expired, Gapless, RowsLast
<1>2. UNCHANGED <<task, rule, instances, job, request, log>>
  BY <1>1, Zenon DEF NextDay
<1>3. RowsLast' /\ task'.anchor = task.anchor /\ OccurrenceDays' = OccurrenceDays /\ Generated' = Generated
  BY <1>2 DEF Gapless, RowsLast, OccurrenceDays, Generated
<1>4. QED
  BY <1>2, <1>3, SameGapless

LEMMA StartGapless ==
  ASSUME IInv, Gapless, OneTick, NEW w \in Workers, Start(w)
  PROVE  Gapless'
<1>1. rule \in RuleRows /\ rule # Null /\ task \in TaskRows /\ today \in Day /\ rule.next \in Nat \cup {Null}
  BY DEF IInv, TypeOK, RowsAgree, Start, Selected, RuleRows
<1>2. PICK pc \in {"latest", "count"} :
        /\ pc = IF rule.cfg.repeatAfterCompletion THEN "latest" ELSE "count"
        /\ Move(w, [pc |-> pc, rule |-> rule, task |-> task, today |-> today,
                    cursor |-> rule.next, generated |-> 0, made |-> 0])
  BY Zenon DEF Start
<1>3. PICK fields : fields = [pc |-> pc, rule |-> rule, task |-> task, today |-> today,
                              cursor |-> rule.next, generated |-> 0, made |-> 0]
  OBVIOUS
<1>4. fields \in JobRows /\ Move(w, fields)
  BY <1>1, <1>2, <1>3 DEF JobRows, Day
<1>5. InStep(fields)
  <2>1. rule.cfg.repeatAfterCompletion \in BOOLEAN
    BY <1>1, EndsAreGiven DEF RuleRows
  <2>2. ~rule.cfg.repeatAfterCompletion => Whole(rule.next)
    BY <1>1 DEF Gapless, Scheduled
  <2>3. /\ fields.pc = pc /\ fields.rule = rule /\ fields.task = task /\ fields.cursor = rule.next
        /\ fields.generated = 0
    BY <1>3
  <2>4. pc \in {"count", "loop"} <=> ~rule.cfg.repeatAfterCompletion
    BY <1>2, <2>1
  <2>5. rule.next # Null => rule.next <= rule.next
    BY <1>1
  <2>6. QED
    BY <1>1, <1>2, <2>2, <2>3, <2>4, <2>5 DEF InStep
<1>6. UNCHANGED <<task, rule, instances, request, log>>
  BY DEF Start
<1>7. rule # Null /\ ~rule.cfg.repeatAfterCompletion => Whole(rule.next)
  BY DEF Gapless, Scheduled
<1>8. QED
  BY <1>4, <1>5, <1>6, <1>7, ThinkGapless

(* What a tick that has not ended knows. *)
LEMMA StepJob ==
  ASSUME IInv, Gapless, NEW w \in Workers, job[w].pc # "idle"
  PROVE  job[w] \in JobRows /\ InStep(job[w]) /\ rule # Null /\ rule \in RuleRows
<1>1. job[w] \in JobRows /\ job[w] # Idle
  BY JobRow
<1>2. QED
  BY <1>1 DEF Gapless, Ticking, InStep, IInv, TypeOK

LEMMA CountGapless ==
  ASSUME IInv, Gapless, OneTick, NEW w \in Workers, Count(w)
  PROVE  Gapless'
<1>1. job[w].pc = "count" /\ UNCHANGED <<task, rule, instances, request, log>>
  BY DEF Count
<1>2. job[w] \in JobRows /\ InStep(job[w]) /\ rule # Null
  BY <1>1, StepJob
<1>3. PICK fields : fields = [job[w] EXCEPT !.pc = "loop", !.generated = Generated]
  OBVIOUS
<1>4. Generated \in Nat
  BY FS_CardinalityType DEF IInv, Generated
<1>5. /\ fields.pc = "loop" /\ fields.generated = Generated /\ fields.cursor = job[w].cursor
      /\ fields.rule = job[w].rule /\ fields.task = job[w].task /\ fields \in JobRows
  BY <1>2, <1>3, <1>4 DEF JobRows
<1>6. InStep(fields)
  BY <1>1, <1>2, <1>5 DEF InStep
<1>7. Move(w, Idle) \/ Move(w, fields)
  BY <1>3, Zenon DEF Count
<1>8. ~rule.cfg.repeatAfterCompletion => Whole(rule.next)
  BY <1>2 DEF Gapless, Scheduled
<1>9. QED
  BY <1>1, <1>2, <1>5, <1>6, <1>7, <1>8, ThinkGapless

LEMMA FinishGapless ==
  ASSUME IInv, Gapless, OneTick, NEW w \in Workers, Finish(w)
  PROVE  Gapless'
<1>1. job[w].pc = "loop" /\ Move(w, Idle) /\ UNCHANGED <<task, instances, request, log>>
  BY DEF Finish, End
<1>2. job[w] \in JobRows /\ InStep(job[w]) /\ rule # Null /\ rule \in RuleRows
  BY <1>1, StepJob
<1>3. rule' = rule \/ rule' = [rule EXCEPT !.next = job[w].cursor, !.isActive = (job[w].cursor # Null)]
  BY <1>2, Zenon DEF Finish, WriteRule
<1>4. ~rule.cfg.repeatAfterCompletion /\ Whole(job[w].cursor) /\ Whole(rule.next)
  BY <1>1, <1>2 DEF InStep, Gapless, Scheduled
<1>5. rule' # Null /\ rule'.cfg = rule.cfg /\ Whole(rule'.next)
  <2>1. CASE rule' = rule
    BY <1>2, <1>4, <2>1
  <2>2. CASE rule' = [rule EXCEPT !.next = job[w].cursor, !.isActive = (job[w].cursor # Null)]
    <3>1. PICK cursor \in Nat \cup {Null} : cursor = job[w].cursor
      BY <1>2 DEF JobRows
    <3>2. PICK isActive \in BOOLEAN : isActive = (cursor # Null)
      OBVIOUS
    <3>3. PICK row : row = [rule EXCEPT !.next = cursor, !.isActive = isActive]
      OBVIOUS
    <3>4. row \in RuleRows /\ row.cfg = rule.cfg /\ row.next = cursor
      BY <1>2, <3>3 DEF RuleRows
    <3>5. rule' = row
      BY <2>2, <3>1, <3>2, <3>3, Zenon
    <3>6. QED
      BY <1>4, <3>1, <3>4, <3>5, NullIsNoRow
  <2>3. QED BY <1>3, <2>1, <2>2
<1>6. QED
  BY <1>1, <1>2, <1>5, ThinkGapless

(* The tick of a rule that waits for completions touches no schedule. *)
LEMMA WaitingGapless ==
  ASSUME IInv, Gapless, OneTick, NEW w \in Workers, ReadLatest(w) \/ Decide(w) \/ Settle(w)
  PROVE  Gapless'
<1>1. /\ job[w].pc \notin {"idle", "count", "loop"}
      /\ UNCHANGED <<task, instances, request, log>>
  BY DEF ReadLatest, Decide, Settle
<1>2. job[w] \in JobRows /\ InStep(job[w]) /\ rule # Null /\ rule \in RuleRows
  BY <1>1, StepJob
<1>3. rule.cfg.repeatAfterCompletion
  BY <1>1, <1>2 DEF InStep
<1>4. CASE Settle(w)
  <2>1. Move(w, Idle)
    BY <1>4 DEF Settle, End
  <2>2. PICK row : rule' = row /\ row \in RuleRows /\ row.cfg = rule.cfg
    <3>1. PICK cursor \in Nat \cup {Null} : cursor = job[w].cursor
      BY <1>2 DEF JobRows
    <3>2. \A next \in Nat \cup {Null} :
            /\ [rule EXCEPT !.next = next] \in RuleRows /\ [rule EXCEPT !.next = next].cfg = rule.cfg
            /\ [rule EXCEPT !.next = next, !.isActive = FALSE] \in RuleRows
            /\ [rule EXCEPT !.next = next, !.isActive = FALSE].cfg = rule.cfg
      BY <1>2 DEF RuleRows
    <3>3. Null \in Nat \cup {Null}
      OBVIOUS
    <3>4. QED
      BY <1>2, <1>4, <3>1, <3>2, <3>3, Zenon DEF Settle, WriteRule
  <2>3. QED
    BY <1>1, <1>2, <1>3, <2>1, <2>2, NullIsNoRow, ThinkGapless
<1>5. CASE ReadLatest(w) \/ Decide(w)
  <2>1. PICK fields \in JobRows \cup {Idle} :
          /\ Move(w, fields)
          /\ fields # Idle => fields.rule = job[w].rule /\ fields.task = job[w].task /\ fields.pc \notin {"count", "loop"}
    <3>1. PICK p \in {"decide", "clear", "exhaust", "make", "defer"} :
            \/ Move(w, Idle)
            \/ Move(w, [job[w] EXCEPT !.pc = p])
            \/ \E x : Move(w, [job[w] EXCEPT !.pc = p, !.cursor = x])
      BY <1>5, Zenon DEF ReadLatest, Decide
    <3>2. IInv'
      BY <1>5, ReadLatestIInv, DecideIInv
    <3>3. job'[w] \in JobRows \cup {Idle} /\ job \in [Workers -> JobRows \cup {Idle}]
      BY <3>2 DEF IInv, TypeOK
    <3>4. PICK j : j = job[w]
      OBVIOUS
    <3>5. \A x : /\ [j EXCEPT !.pc = p].rule = j.rule /\ [j EXCEPT !.pc = p].task = j.task
                /\ [j EXCEPT !.pc = p].pc = p
                /\ [j EXCEPT !.pc = p, !.cursor = x].rule = j.rule
                /\ [j EXCEPT !.pc = p, !.cursor = x].task = j.task
                /\ [j EXCEPT !.pc = p, !.cursor = x].pc = p
      BY <1>2, <3>4 DEF JobRows
    <3>6. \E fields : Move(w, fields) /\ (fields # Idle => fields.rule = j.rule /\ fields.task = j.task /\ fields.pc = p)
      BY <3>1, <3>4, <3>5, Zenon
    <3>7. PICK fields : Move(w, fields) /\ (fields # Idle => fields.rule = j.rule /\ fields.task = j.task /\ fields.pc = p)
      BY <3>6
    <3>8. fields = job'[w]
      BY <3>3, <3>7 DEF Move
    <3>9. QED
      BY <3>3, <3>4, <3>7, <3>8
  <2>2. UNCHANGED rule
    BY <1>5 DEF ReadLatest, Decide
  <2>3. fields # Idle => InStep(fields)
    BY <1>2, <1>3, <2>1 DEF InStep
  <2>4. QED
    BY <1>1, <1>2, <1>3, <2>1, <2>2, <2>3, ThinkGapless
<1>6. QED BY <1>4, <1>5


(* The instance of an after-completion rule. *)
LEMMA MakeNextGapless ==
  ASSUME IInv, Gapless, OneTick, NEW w \in Workers, MakeNext(w)
  PROVE  Gapless'
<1>1. job[w].pc = "make" /\ UNCHANGED <<task, rule, request>>
  BY DEF MakeNext
<1>2. job[w] \in JobRows /\ InStep(job[w]) /\ rule # Null /\ rule \in RuleRows
  BY <1>1, StepJob
<1>3. rule.cfg.repeatAfterCompletion
  BY <1>1, <1>2 DEF InStep
<1>4. PICK day : /\ log' = [log EXCEPT !.covered = @ \cup {day}]
                 /\ \A i \in instances' : i \in instances \/ i.trashedOn = Null
  <2>1. Insert(job[w].cursor) \/ Duplicate(job[w].cursor)
    BY DEF MakeNext
  <2>2. CASE Insert(job[w].cursor)
    <3>1. log' = [log EXCEPT !.covered = @ \cup {job[w].cursor}]
      BY <2>2 DEF Insert
    <3>2. \A i \in instances' : i \in instances \/ i.trashedOn = Null
      BY <2>2 DEF Insert
    <3>3. QED BY <3>1, <3>2
  <2>3. CASE Duplicate(job[w].cursor)
    BY <2>3 DEF Duplicate
  <2>4. QED BY <2>1, <2>2, <2>3
<1>5. log \in LogRows
  BY <1>2 DEF Gapless, Logged, IInv, TypeOK
<1>6. log' \in LogRows /\ log' # Null /\ log'.cfg = log.cfg /\ log'.anchor = log.anchor
  <2>1. log'.cfg = log.cfg /\ log'.anchor = log.anchor
    BY <1>4, <1>5 DEF LogRows
  <2>2. IInv'
    BY MakeNextIInv
  <2>3. log' # Null
    BY <1>1, <1>2, <2>2 DEF IInv, RowsAgree
  <2>4. log' \in LogRows
    BY <2>2, <2>3 DEF IInv, TypeOK
  <2>5. QED BY <2>1, <2>3, <2>4
<1>7. RowsLast' /\ Logged' /\ Promised'
  <2>1. RowsLast'
    BY <1>1, <1>4 DEF Gapless, RowsLast
  <2>2. Logged'
    BY <1>1, <1>2, <1>6 DEF Gapless, Logged
  <2>3. Promised'
    BY <1>1 DEF Gapless, Promised, Promise, OnSchedule
  <2>4. QED BY <2>1, <2>2, <2>3
<1>8. Scheduled'
  BY <1>1, <1>3 DEF Scheduled
<1>9. Ticking'
  <2>1. PICK j : j = job[w]
    OBVIOUS
  <2>2. PICK fields : fields = [j EXCEPT !.pc = "clear"]
    OBVIOUS
  <2>3. fields \in JobRows /\ fields.rule = j.rule /\ fields.task = j.task /\ fields.pc = "clear"
    BY <1>2, <2>1, <2>2 DEF JobRows
  <2>4. Move(w, fields)
    BY <2>1, <2>2 DEF MakeNext
  <2>5. \A v \in Workers : job'[v] = fields
    BY <2>3, <2>4, OnlyTick
  <2>6. ASSUME NEW v \in Workers PROVE InStep(job[v])'
    <3>1. job'[v] = fields
      BY <2>5
    <3>2. fields.rule.cfg = rule'.cfg /\ fields.task.anchor = task'.anchor
      BY <1>1, <1>2, <2>1, <2>3 DEF InStep
    <3>3. QED
      BY <1>1, <1>2, <1>3, <2>3, <3>1, <3>2 DEF InStep
  <2>7. QED BY <2>6 DEF Ticking
<1>10. QED
  BY <1>7, <1>8, <1>9 DEF Gapless

(* The instance of a schedule. *)
LEMMA GenerateCovers ==
  ASSUME IInv, Gapless, NEW w \in Workers, Generate(w)
  PROVE  \E k :
           /\ k = job[w].cursor /\ Covering(k)
           /\ \A i \in instances' : i \in instances \/ i.trashedOn = Null
           /\ \E made : Advance(w, Generated', made)
<1>1. job[w].pc = "loop" /\ Continues(job[w]) /\ UNCHANGED <<task, rule, request>>
  BY DEF Generate
<1>2. job[w] \in JobRows /\ InStep(job[w]) /\ rule # Null /\ rule \in RuleRows
  BY <1>1, StepJob
<1>3. /\ ~rule.cfg.repeatAfterCompletion /\ job[w].rule.cfg = log.cfg /\ job[w].task.anchor = log.anchor
      /\ job[w].generated = Generated /\ log.anchor = task.anchor
      /\ Prefix /\ Whole(rule.next) /\ log.first \in Nat /\ Logged
  BY <1>1, <1>2 DEF InStep, Gapless, Logged, Scheduled
<1>4. PICK k : k = job[w].cursor
  OBVIOUS
<1>5. k \in Day /\ Reached(k) /\ (rule.next # Null => rule.next <= k)
  <2>1. /\ job[w].cursor \in Nat \cup {Null} /\ job[w].today \in Day /\ job[w].today + HorizonDays <= LastDay
    BY <1>1, JobRow
  <2>2. k # Null /\ k <= job[w].today + HorizonDays
    BY <1>1, <1>4 DEF Continues
  <2>3. k \in Day
    BY <1>4, <2>1, <2>2, ConstantsAreSane DEF Day
  <2>4. Whole(k) /\ (rule.next # Null => rule.next <= k)
    BY <1>2, <1>3, <1>4, <2>2 DEF InStep
  <2>5. QED
    BY <2>2, <2>3, <2>4 DEF Whole
<1>6. /\ log' = [log EXCEPT !.covered = @ \cup {k}]
      /\ OccurrenceDays' = OccurrenceDays \cup {k}
      /\ \A i \in instances' : i \in instances \/ i.trashedOn = Null
  <2>1. CASE Insert(k)
    <3>1. PICK row : row = [id |-> created, day |-> k, completedOn |-> Null, trashedOn |-> Null]
      OBVIOUS
    <3>2. instances' = instances \cup {row} /\ row.day = k /\ row.trashedOn = Null
      BY <2>1, <3>1 DEF Insert
    <3>3. log' = [log EXCEPT !.covered = @ \cup {k}]
      BY <2>1 DEF Insert
    <3>4. QED
      BY <3>2, <3>3 DEF OccurrenceDays
  <2>2. CASE Duplicate(k)
    BY <2>2 DEF Duplicate, OccurrenceDays
  <2>3. QED BY <1>4, <2>1, <2>2 DEF Generate
<1>7. Generated \in Nat /\ Generated' \in Nat /\ Generated' >= Generated
      /\ \E made : Advance(w, Generated', made)
  <2>1. Generated \in Nat
    BY FS_CardinalityType DEF IInv, Generated
  <2>2. CASE Insert(k) /\ Advance(w, job[w].generated + 1, job[w].made + 1)
    <3>1. PICK row : row = [id |-> created, day |-> k, completedOn |-> Null, trashedOn |-> Null]
      OBVIOUS
    <3>2. instances' = instances \cup {row} /\ row.day = k /\ k \notin OccurrenceDays
      BY <2>2, <3>1 DEF Insert
    <3>3. row \notin instances
      BY <3>2 DEF OccurrenceDays
    <3>4. Generated' = Generated + 1
      BY <3>2, <3>3, FS_AddElement DEF IInv, Generated
    <3>5. QED
      BY <1>3, <2>1, <2>2, <3>4
  <2>3. CASE Duplicate(k) /\ Advance(w, job[w].generated, job[w].made)
    <3>1. Generated' = Generated
      BY <2>3 DEF Duplicate, Generated
    <3>2. QED
      BY <1>3, <2>1, <2>3, <3>1
  <2>4. QED BY <1>4, <2>2, <2>3 DEF Generate
<1>8. IInv'
  BY GenerateIInv
<1>9. Covering(k)
  BY <1>1, <1>2, <1>3, <1>5, <1>6, <1>7, <1>8 DEF Covering, IInv
<1>10. QED
  BY <1>4, <1>6, <1>7, <1>9

LEMMA GenerateGapless ==
  ASSUME IInv, Gapless, OneTick, NEW w \in Workers, Generate(w)
  PROVE  Gapless'
<1>1. job[w].pc = "loop" /\ UNCHANGED <<task, rule, request>>
  BY DEF Generate
<1>2. job[w] \in JobRows /\ InStep(job[w]) /\ rule # Null /\ rule \in RuleRows
  BY <1>1, StepJob
<1>3. /\ ~rule.cfg.repeatAfterCompletion /\ job[w].rule.cfg = log.cfg /\ job[w].task.anchor = log.anchor
      /\ log.anchor = task.anchor
      /\ Prefix /\ Whole(rule.next) /\ log.first \in Nat /\ Logged
  BY <1>1, <1>2 DEF InStep, Gapless, Logged, Scheduled
<1>4. PICK k : /\ k = job[w].cursor /\ Covering(k)
               /\ \A i \in instances' : i \in instances \/ i.trashedOn = Null
               /\ \E made : Advance(w, Generated', made)
  BY GenerateCovers
<1>5. k \in Day /\ (rule.next # Null => rule.next <= k)
  BY <1>4 DEF Covering
<1>6. IInv'
  BY GenerateIInv
<1>7. PICK n : n = ApplyEnd(log.cfg, Generated', NextOnSchedule(log.cfg, log.anchor, k))
  OBVIOUS
<1>8. Prefix' /\ Whole(rule.next)' /\ Whole(n)' /\ (n # Null => n \in Nat /\ k < n)
  BY <1>3, <1>4, <1>7, PrefixGrows, StillWhole, NextIsWhole
<1>9. log'.cfg = log.cfg /\ log'.anchor = log.anchor /\ log'.first = log.first
  BY <1>3, <1>4, CoveringLog
<1>10. RowsLast' /\ Logged' /\ Promised' /\ Scheduled'
  <2>1. RowsLast'
    BY <1>1, <1>4 DEF Gapless, RowsLast
  <2>2. Logged'
    BY <1>1, <1>2, <1>3, <1>6, <1>9 DEF Logged, IInv, RowsAgree
  <2>3. Promised'
    BY <1>1 DEF Gapless, Promised, Promise, OnSchedule
  <2>4. Scheduled'
    BY <1>3, <1>8, <1>9 DEF Scheduled
  <2>5. QED BY <2>1, <2>2, <2>3, <2>4
<1>11. Ticking'
  <2>1. PICK made : Advance(w, Generated', made)
    BY <1>4
  <2>2. PICK j \in JobRows : j = job[w]
    BY <1>2
  <2>3. PICK g : g = Generated'
    OBVIOUS
  <2>4. PICK fields : fields = [j EXCEPT !.cursor = n, !.generated = g, !.made = made]
    OBVIOUS
  <2>5. n = NextOccurrence(j.rule.cfg, j.task.anchor, g, j.cursor)
    BY <1>2, <1>3, <1>4, <1>7, <2>2, <2>3 DEF NextOccurrence, InStep
  <2>6. Move(w, fields)
    BY <2>1, <2>2, <2>3, <2>4, <2>5 DEF Advance
  <2>7. /\ fields.rule = j.rule /\ fields.task = j.task /\ fields.pc = j.pc
        /\ fields.cursor = n /\ fields.generated = g
    BY <2>4 DEF JobRows
  <2>8. fields = job'[w] /\ job'[w] \in JobRows \cup {Idle}
    BY <1>6, <2>6 DEF IInv, TypeOK, Move
  <2>9. \A v \in Workers : job'[v] = fields
    BY <2>6, <2>8, OnlyTick
  <2>10. ASSUME NEW v \in Workers PROVE InStep(job[v])'
    <3>1. job'[v] = fields
      BY <2>9
    <3>2. fields.rule.cfg = rule'.cfg /\ fields.task.anchor = task'.anchor /\ fields.pc = "loop"
      BY <1>1, <1>2, <2>2, <2>7 DEF InStep
    <3>3. fields.generated = Generated'
      BY <2>3, <2>7
    <3>4. Whole(n)' /\ (n # Null /\ rule'.next # Null => rule'.next <= n)
      <4>1. rule.next \in Nat \cup {Null}
        BY <1>2 DEF RuleRows
      <4>2. QED
        BY <1>1, <1>5, <1>8, <4>1, ConstantsAreSane DEF Day
    <3>5. Whole(job[v].cursor)'
      BY <2>7, <3>1, <3>4
    <3>6. QED
      BY <1>1, <1>2, <1>3, <2>7, <3>1, <3>2, <3>3, <3>4, <3>5 DEF InStep
  <2>11. QED BY <2>10 DEF Ticking
<1>12. QED
  BY <1>10, <1>11 DEF Gapless

LEMMA EndGapless ==
  ASSUME IInv, Gapless, OneTick, NEW w \in Workers, Orphaned(w) \/ Crash(w)
  PROVE  Gapless'
<1>1. Move(w, Idle) /\ UNCHANGED <<task, rule, instances, request, log>>
  BY DEF Orphaned, Crash, End
<1>2. rule # Null /\ ~rule.cfg.repeatAfterCompletion => Whole(rule.next)
  BY DEF Gapless, Scheduled
<1>3. QED
  BY <1>1, <1>2, ThinkGapless

LEMMA InitGapless == Init => Gapless
<1>1. ASSUME Init PROVE Gapless
  <2>1. rule = Null /\ instances = {} /\ task # Null /\ task.trashedOn = Null
    <3>1. PICK a \in Day : a <= 1 /\ task = [anchor |-> a, completedOn |-> Null, trashedOn |-> Null]
      BY <1>1 DEF Init
    <3>2. task \in TaskRows
      BY <3>1 DEF TaskRows
    <3>3. QED
      BY <1>1, <3>1, <3>2, NullIsNoRow DEF Init
  <2>2. (\A w \in Workers : job[w] = Idle) /\ (\A c \in Clients : request[c] = Idle)
    BY <1>1 DEF Init
  <2>3. QED
    BY <2>1, <2>2 DEF Gapless, RowsLast, Logged, Scheduled, Ticking, Promised
<1>2. QED BY <1>1

LEMMA NextGapless ==
  ASSUME OneTick, {"trash", "due"} \cap UserOps = {}
  PROVE  IInv /\ Gapless /\ [Next]_vars /\ [StoredAlone]_vars => Gapless'
<1> SUFFICES ASSUME IInv, Gapless, [Next]_vars, [StoredAlone]_vars PROVE Gapless'
  OBVIOUS
<1>1. CASE UNCHANGED vars
  <2>1. RowsLast' /\ task'.anchor = task.anchor /\ OccurrenceDays' = OccurrenceDays /\ Generated' = Generated
    BY <1>1 DEF vars, Gapless, RowsLast, OccurrenceDays, Generated
  <2>2. QED
    BY <1>1, <2>1, SameGapless DEF vars
<1>2. CASE Next /\ StoredAlone
  <2>1. ASSUME NEW w \in Workers, Tick(w) \/ Crash(w) PROVE Gapless'
    BY <2>1, StartGapless, CountGapless, GenerateGapless, FinishGapless, WaitingGapless,
       MakeNextGapless, EndGapless DEF Tick
  <2>2. ASSUME NEW c \in Clients, Api(c) PROVE Gapless'
    BY <1>2, <2>2, RequestGapless, StoreGapless DEF Api, StoredAlone
  <2>3. CASE Remove \/ SourceOp \/ InstanceOp \/ PurgeTrash \/ NextDay
    BY <2>3, RemoveGapless, SourceOpGapless, InstanceOpGapless, ClockGapless
  <2>4. QED
    BY <1>2, <2>1, <2>2, <2>3 DEF Next
<1>3. QED
  BY <1>1, <1>2

LEMMA GaplessHolds ==
  ASSUME OneTick, {"trash", "due"} \cap UserOps = {}
  PROVE  Spec /\ [][StoredAlone]_vars => []Gapless
<1>1. Init => Gapless
  BY InitGapless
<1>2. IInv /\ Gapless /\ [Next]_vars /\ [StoredAlone]_vars => Gapless'
  BY NextGapless
<1>3. QED
  BY <1>1, <1>2, Invariance, PTL DEF Spec

(* "Catching up every missed occurrence": however late a tick runs and after
   whichever of its statements it dies, the stored next occurrence has not moved
   past a scheduled day without its instance, and a rule is exhausted only at its
   end (processScheduled writes the instances before the cursor).  For one tick at a
   time, nothing trashed or re-dated, and rules stored while no tick runs. *)
THEOREM NothingIsSkipped ==
  ASSUME OneTick, {"trash", "due"} \cap UserOps = {}
  PROVE  Spec /\ [][StoredAlone]_vars => []NoSkippedOccurrence
<1>1. IInv /\ Gapless => NoSkippedOccurrence
  <2>1. SUFFICES ASSUME IInv, Gapless, rule # Null, ~rule.cfg.repeatAfterCompletion
                 PROVE  NoSkippedOccurrence
    BY DEF NoSkippedOccurrence
  <2>2. Whole(rule.next) /\ rule.cfg = log.cfg
    BY <2>1 DEF Gapless, Scheduled, Logged
  <2>3. CASE rule.next = Null
    <3>1. Over
      BY <2>2, <2>3, NullIsNoNumber DEF Whole, Reached
    <3>2. QED
      BY <2>1, <2>2, <2>3, <3>1 DEF Over, NoSkippedOccurrence, OnLoggedSchedule, OnSchedule
  <2>4. CASE rule.next # Null
    BY <2>1, <2>2, <2>4 DEF Whole, Reached, NoSkippedOccurrence, OnLoggedSchedule, OnSchedule
  <2>5. QED BY <2>3, <2>4
<1>2. QED
  BY <1>1, GaplessHolds, Invariance, PTL

(* A rule never covers more days than its count allows, whatever ticks die and
   run again (processScheduled counts the instances anew in every tick), on the same
   conditions: two overlapping ticks do over-count. *)
THEOREM CountIsKept ==
  ASSUME OneTick, {"trash", "due"} \cap UserOps = {}
  PROVE  Spec /\ [][StoredAlone]_vars => []CountRespected
<1>1. Gapless => CountRespected
  BY DEF Gapless, Scheduled, Logged, Prefix, CountRespected
<1>2. QED
  BY <1>1, GaplessHolds, PTL

----------------------------------------------------------------------------
(* A rule that waits for completions. *)

(* A request that replaces a rule keeps its kind. *)
KindKept ==
  \A c \in Clients : Store(c) /\ log # Null =>
    request[c].row.cfg.repeatAfterCompletion = log.cfg.repeatAfterCompletion

IsLast(i) == \A j \in instances : j.id <= i.id

UniqueIds == \A i, j \in instances : i.id = j.id => i = j

(* No rule yet, no instance yet. *)
RulesFirst == rule = Null => instances = {} /\ log = Null

AllDone == \A i \in instances : ~Open(i)

(* Only the latest instance may be open, and a tick that goes on to the next
   found every one completed. *)
OneByOne ==
  rule # Null /\ rule.cfg.repeatAfterCompletion =>
    /\ \A i \in instances : Open(i) => IsLast(i)
    /\ \A w \in Workers : job[w].pc \in {"decide", "make"} => AllDone

(* The days covered have instances, none is further from the completion of the
   latest than the horizon, and the day about to be made comes after them all. *)
Timely ==
  rule # Null /\ rule.cfg.repeatAfterCompletion =>
    /\ log.covered \subseteq OccurrenceDays
    /\ \A i \in instances : ~Open(i) /\ IsLast(i) =>
         \A d \in OccurrenceDays : d <= i.completedOn + HorizonDays
    /\ \A w \in Workers :
         /\ job[w].pc = "decide" => \A d \in OccurrenceDays : d <= job[w].cursor + HorizonDays
         /\ job[w].pc = "make" =>
              /\ \A d \in OccurrenceDays : d < job[w].cursor
              /\ rule.cfg.endType = "after_count" => Generated < rule.cfg.endCount - 1

Identified == UniqueIds /\ RulesFirst

(* A step that leaves the rule's settings, the history and the instances alone,
   and takes no tick to a completion. *)
Quiet ==
  /\ rule # Null => rule' # Null /\ rule'.cfg = rule.cfg
  /\ rule = Null => rule' = Null
  /\ UNCHANGED <<instances, log>>
  /\ \A w \in Workers : job'[w].pc \in {"decide", "make"} => job'[w] = job[w]

LEMMA QuietSteps ==
  ASSUME IInv, Gapless, OneTick, {"trash", "due"} \cap UserOps = {}
  PROVE  /\ \A w \in Workers : Start(w) \/ Count(w) \/ Finish(w) \/ Settle(w) \/ Orphaned(w) \/ Crash(w) => Quiet
         /\ \A c \in Clients, cfg \in Configs : CreateRead(c, cfg) => Quiet
         /\ \A c \in Clients, cfg \in Configs, isActive \in BOOLEAN : UpdateRead(c, cfg, isActive) => Quiet
         /\ Remove \/ SourceOp \/ PurgeTrash \/ NextDay => Quiet
         /\ UNCHANGED vars => Quiet
<1>1. ASSUME NEW w \in Workers, Start(w) \/ Count(w) \/ Finish(w) \/ Settle(w) \/ Orphaned(w) \/ Crash(w)
      PROVE  Quiet
  <2>1. UNCHANGED <<instances, log>>
    BY <1>1 DEF Start, Count, Finish, Settle, Orphaned, Crash
  <2>2. rule' = rule \/ (job[w].pc # "idle" /\ End(w) /\ rule # Null /\ \E row : rule' = row /\ row # Null /\ row.cfg = rule.cfg)
    <3>1. CASE Start(w) \/ Count(w) \/ Orphaned(w) \/ Crash(w)
      BY <3>1 DEF Start, Count, Orphaned, Crash
    <3>2. CASE Finish(w) \/ Settle(w)
      <4>1. job[w].pc # "idle" /\ End(w)
        BY <3>2 DEF Finish, Settle
      <4>2. rule # Null /\ rule \in RuleRows /\ job[w] \in JobRows
        BY <4>1, StepJob
      <4>3. PICK cursor \in Nat \cup {Null} : cursor = job[w].cursor
        BY <4>2 DEF JobRows
      <4>4. \A next \in Nat \cup {Null}, isActive \in BOOLEAN :
              /\ [rule EXCEPT !.next = next] # Null /\ [rule EXCEPT !.next = next].cfg = rule.cfg
              /\ [rule EXCEPT !.next = next, !.isActive = isActive] # Null
              /\ [rule EXCEPT !.next = next, !.isActive = isActive].cfg = rule.cfg
        BY <4>2, NullIsNoRow DEF RuleRows
      <4>5. Null \in Nat \cup {Null} /\ FALSE \in BOOLEAN /\ (cursor # Null) \in BOOLEAN
        BY Zenon
      <4>6. QED
        BY <3>2, <4>1, <4>2, <4>3, <4>4, <4>5, Zenon DEF Finish, Settle, WriteRule
    <3>3. QED BY <1>1, <3>1, <3>2
  <2>3. job'[w].pc \notin {"decide", "make"}
    <3>1. job \in [Workers -> JobRows \cup {Idle}]
      BY DEF IInv, TypeOK
    <3>2. CASE Start(w)
      BY <3>1, <3>2 DEF Start, Move
    <3>3. CASE Count(w)
      <4>1. job[w] \in JobRows
        BY <3>3, JobRow DEF Count
      <4>2. QED BY <3>1, <3>3, <4>1 DEF Count, Move, Idle, JobRows
    <3>4. CASE Finish(w) \/ Settle(w) \/ Orphaned(w) \/ Crash(w)
      BY <3>1, <3>4 DEF Finish, Settle, Orphaned, Crash, End, Move, Idle
    <3>5. QED BY <1>1, <3>2, <3>3, <3>4
  <2>4. \A v \in Workers : v = w
    BY DEF OneTick
  <2>5. QED
    BY <2>1, <2>2, <2>3, <2>4 DEF Quiet
<1>2. ASSUME NEW c \in Clients, NEW cfg \in Configs,
             CreateRead(c, cfg) \/ \E isActive \in BOOLEAN : UpdateRead(c, cfg, isActive)
      PROVE  Quiet
  <2>1. UNCHANGED <<rule, instances, log, job>>
    BY <1>2, Zenon DEF CreateRead, UpdateRead, BeginWrite
  <2>2. QED BY <2>1 DEF Quiet
<1>3. ASSUME Remove PROVE Quiet
  <2>1. rule \in RuleRows /\ rule # Null
    BY <1>3 DEF Remove, IInv, TypeOK
  <2>2. PICK row : row = [rule EXCEPT !.isActive = FALSE]
    OBVIOUS
  <2>3. row # Null /\ row.cfg = rule.cfg
    BY <2>1, <2>2, NullIsNoRow DEF RuleRows
  <2>4. rule' = row /\ UNCHANGED <<instances, log, job>>
    BY <1>3, <2>2, Zenon DEF Remove
  <2>5. QED BY <2>1, <2>3, <2>4 DEF Quiet
<1>4. ASSUME SourceOp \/ NextDay \/ UNCHANGED vars PROVE Quiet
  <2>1. UNCHANGED <<rule, instances, log, job>>
    BY <1>4, Zenon DEF SourceOp, CompleteSource, ReopenSource, TrashSource, RestoreSource, MoveSource,
       UpdateSource, NextDay, vars
  <2>2. QED BY <2>1 DEF Quiet
<1>5. ~PurgeTrash
  BY Zenon DEF PurgeTrash, Expired, Gapless, RowsLast
<1>6. QED
  BY <1>1, <1>2, <1>3, <1>4, <1>5

LEMMA QuietKeeps ==
  ASSUME Quiet
  PROVE  /\ Identified => Identified'
         /\ OneByOne => OneByOne'
         /\ Timely => Timely'
<1>1. OccurrenceDays' = OccurrenceDays /\ Generated' = Generated
  BY DEF Quiet, OccurrenceDays, Generated
<1>2. \A i : IsLast(i)' <=> IsLast(i)
  BY DEF Quiet, IsLast
<1>3. AllDone' <=> AllDone
  BY DEF Quiet, AllDone, Open
<1>4. Identified => Identified'
  BY DEF Quiet, Identified, UniqueIds, RulesFirst
<1>5. OneByOne => OneByOne'
  BY <1>2, <1>3 DEF Quiet, OneByOne
<1>6. Timely => Timely'
  BY <1>1, <1>2 DEF Quiet, Timely
<1>7. QED BY <1>4, <1>5, <1>6

(* A request's write. *)
LEMMA StoreWaits ==
  ASSUME IInv, Gapless, NEW c \in Clients, Store(c), \A w \in Workers : job[w] = Idle,
         Identified, OneByOne
  PROVE  /\ Identified'
         /\ (log # Null => request[c].row.cfg.repeatAfterCompletion = log.cfg.repeatAfterCompletion) =>
              OneByOne' /\ (Timely => Timely')
<1>1. UNCHANGED <<instances, job>>
  BY DEF Store
<1>2. \A w \in Workers : job'[w].pc \notin {"decide", "make"}
  BY <1>1 DEF Idle
<1>3. OccurrenceDays' = OccurrenceDays /\ \A i : IsLast(i)' <=> IsLast(i)
  BY <1>1 DEF OccurrenceDays, IsLast
<1>4. CASE UNCHANGED <<rule, log>>
  <2>1. Quiet
    BY <1>1, <1>4 DEF Quiet
  <2>2. QED BY <2>1, QuietKeeps
<1>5. CASE task # Null /\ request[c].found = (rule # Null)
  <2>1. request[c] \in RequestRows
    BY DEF Store, Idle, IInv, TypeOK
  <2>2. PICK row \in RuleRows : row = request[c].row
    BY <2>1 DEF RequestRows
  <2>3. PICK entry : entry = [cfg |-> row.cfg, anchor |-> task.anchor, first |-> row.next, covered |-> {}]
    OBVIOUS
  <2>4. rule' = row /\ log' = entry /\ entry.covered = {} /\ row # Null
    BY <1>5, <2>2, <2>3, NullIsNoRow DEF Store
  <2>5. Identified'
    BY <1>1, <2>4 DEF Identified, UniqueIds, RulesFirst
  <2>6. ASSUME log # Null => row.cfg.repeatAfterCompletion = log.cfg.repeatAfterCompletion,
               row.cfg.repeatAfterCompletion
        PROVE  (rule # Null /\ rule.cfg.repeatAfterCompletion) \/ (instances = {} /\ log = Null)
    BY <2>6 DEF Gapless, Logged, Identified, RulesFirst
  <2>7. ASSUME log # Null => row.cfg.repeatAfterCompletion = log.cfg.repeatAfterCompletion PROVE OneByOne'
    BY <1>1, <1>2, <1>3, <2>4, <2>6, <2>7 DEF OneByOne, Open
  <2>8. ASSUME log # Null => row.cfg.repeatAfterCompletion = log.cfg.repeatAfterCompletion, Timely PROVE Timely'
    BY <1>1, <1>2, <1>3, <2>4, <2>6, <2>8 DEF Timely, Open
  <2>9. QED
    BY <2>2, <2>5, <2>7, <2>8
<1>6. QED
  BY <1>4, <1>5 DEF Store

(* The completion of an instance. *)
LEMMA CompletionWaits ==
  ASSUME IInv, Gapless, {"trash", "reopen"} \cap UserOps = {}, InstanceOp, Identified, OneByOne
  PROVE  Identified' /\ OneByOne' /\ (Timely => Timely')
<1>1. PICK i \in instances : i.completedOn = Null /\ UpdateInstance(i, [i EXCEPT !.completedOn = today])
  BY Zenon DEF InstanceOp, CompleteInstance, ReopenInstance, TrashInstance, RestoreInstance, UserOp,
     Gapless, RowsLast
<1>2. i \in InstanceRows /\ instances \subseteq InstanceRows /\ today \in Day /\ today \in Nat
  BY ConstantsAreSane DEF IInv, TypeOK, Day
<1>3. PICK row : row = [i EXCEPT !.completedOn = today]
  OBVIOUS
<1>4. row \in InstanceRows /\ row.id = i.id /\ row.day = i.day /\ row.trashedOn = Null /\ row.completedOn = today
  BY <1>2, <1>3 DEF InstanceRows, Gapless, RowsLast
<1>5. instances' = (instances \ {i}) \cup {row} /\ UNCHANGED <<today, task, rule, job, log>>
  BY <1>1, <1>3 DEF UpdateInstance
<1>6. row.completedOn # Null
  BY <1>2, <1>4, NullIsNoNumber
<1>7. OccurrenceDays' = OccurrenceDays
  BY <1>4, <1>5 DEF OccurrenceDays
<1>8. \A j \in instances : IsLast(j)' <=> IsLast(j)
  BY <1>4, <1>5 DEF IsLast
<1>9. ~Open(row)
  BY <1>4, <1>6 DEF Open
<1>10. Identified'
  BY <1>4, <1>5 DEF Identified, UniqueIds, RulesFirst
<1>11. OneByOne'
  <2>1. SUFFICES ASSUME rule # Null, rule.cfg.repeatAfterCompletion
                 PROVE  /\ \A j \in instances' : Open(j) => IsLast(j)'
                        /\ \A w \in Workers : job[w].pc \in {"decide", "make"} => AllDone'
    BY <1>5 DEF OneByOne, Open
  <2>2. \A j \in instances' : Open(j) => IsLast(j)'
    BY <1>5, <1>8, <1>9, <2>1 DEF OneByOne
  <2>3. \A w \in Workers : job[w].pc \in {"decide", "make"} => AllDone'
    BY <1>5, <1>9, <2>1 DEF OneByOne, AllDone, Open
  <2>4. QED BY <2>2, <2>3
<1>12. ASSUME Timely PROVE Timely'
  <2>1. SUFFICES ASSUME rule # Null, rule.cfg.repeatAfterCompletion PROVE Timely'
    BY <1>5 DEF Timely
  <2>2. \A d \in OccurrenceDays : d <= row.completedOn + HorizonDays
    BY <1>4 DEF IInv, WithinHorizon, OccurrenceDays
  <2>3. \A j \in instances' : ~Open(j) /\ IsLast(j)' => \A d \in OccurrenceDays' : d <= j.completedOn + HorizonDays
    BY <1>5, <1>7, <1>8, <1>12, <2>1, <2>2 DEF Timely
  <2>4. Generated' = Generated
    <3>1. row \notin instances \ {i}
      BY <1>4 DEF IInv, OneInstancePerDay
    <3>2. IsFiniteSet(instances \ {i}) /\ Cardinality(instances \ {i}) = Cardinality(instances) - 1
      BY FS_RemoveElement DEF IInv
    <3>3. Cardinality((instances \ {i}) \cup {row}) = Cardinality(instances \ {i}) + 1
      BY <3>1, <3>2, FS_AddElement
    <3>4. Cardinality(instances) \in Nat
      BY FS_CardinalityType DEF IInv
    <3>5. QED
      BY <1>5, <3>2, <3>3, <3>4 DEF Generated
  <2>5. log.covered \subseteq OccurrenceDays'
    BY <1>7, <1>12, <2>1 DEF Timely
  <2>6. QED
    BY <1>5, <1>7, <1>12, <2>1, <2>3, <2>4, <2>5 DEF Timely, Open
<1>13. QED
  BY <1>10, <1>11, <1>12

(* The tick reads the latest instance: when it is completed, all are. *)
LEMMA ReadLatestWaits ==
  ASSUME IInv, Gapless, OneTick, NEW w \in Workers, ReadLatest(w), Identified, OneByOne
  PROVE  Identified' /\ OneByOne' /\ (Timely => Timely')
<1>1. job[w].pc = "latest" /\ UNCHANGED <<rule, instances, log>>
  BY DEF ReadLatest
<1>2. job[w] \in JobRows /\ InStep(job[w]) /\ rule # Null /\ rule \in RuleRows
  BY <1>1, StepJob
<1>3. rule.cfg.repeatAfterCompletion
  BY <1>1, <1>2 DEF InStep
<1>4. PICK basis : basis = IF instances = {} THEN job[w].task ELSE Latest
  OBVIOUS
<1>5. CASE Open(basis)
  <2>1. Move(w, Idle) \/ Move(w, [job[w] EXCEPT !.pc = "clear"])
    BY <1>4, <1>5, Zenon DEF ReadLatest
  <2>2. job'[w].pc \in {"idle", "clear"}
    BY <1>2, <2>1 DEF Move, Idle, JobRows, IInv, TypeOK
  <2>3. Quiet
    BY <1>1, <2>2 DEF Quiet, OneTick
  <2>4. QED BY <2>3, QuietKeeps
<1>6. CASE ~Open(basis)
  <2>1. Move(w, [job[w] EXCEPT !.pc = "decide", !.cursor = basis.completedOn])
    BY <1>4, <1>6, Zenon DEF ReadLatest
  <2>2. job'[w].pc = "decide" /\ job'[w].cursor = basis.completedOn
    BY <1>2, <2>1 DEF Move, JobRows, IInv, TypeOK
  <2>3. \A v \in Workers : v = w
    BY DEF OneTick
  <2>4. instances # {} => basis \in instances /\ IsLast(basis)
    <3>1. ASSUME instances # {} PROVE \E i \in instances : \A j \in instances : j.id <= i.id
      BY <3>1, LatestExists
    <3>2. QED BY <1>4, <3>1 DEF Latest, IsLast
  <2>5. AllDone
    <3>1. SUFFICES ASSUME NEW i \in instances, Open(i) PROVE FALSE
      BY DEF AllDone
    <3>2. IsLast(i) /\ basis \in instances /\ IsLast(basis)
      BY <1>2, <1>3, <2>4, <3>1 DEF OneByOne
    <3>3. i.id \in Nat /\ basis.id \in Nat
      BY <3>2 DEF IInv, TypeOK, InstanceRows
    <3>4. i.id = basis.id
      BY <3>2, <3>3 DEF IsLast
    <3>5. i = basis
      BY <3>2, <3>4 DEF Identified, UniqueIds
    <3>6. QED
      BY <1>6, <3>1, <3>5
  <2>6. ASSUME Timely PROVE \A d \in OccurrenceDays : d <= basis.completedOn + HorizonDays
    <3>1. CASE instances = {}
      BY <3>1 DEF OccurrenceDays
    <3>2. CASE instances # {}
      BY <1>2, <1>3, <1>6, <2>4, <2>6, <3>2 DEF Timely
    <3>3. QED BY <3>1, <3>2
  <2>7. OccurrenceDays' = OccurrenceDays /\ (AllDone' <=> AllDone) /\ \A i : IsLast(i)' <=> IsLast(i)
    BY <1>1 DEF OccurrenceDays, AllDone, IsLast, Open
  <2>8. Identified'
    BY <1>1 DEF Identified, UniqueIds, RulesFirst
  <2>9. OneByOne'
    BY <1>1, <2>5, <2>7 DEF OneByOne
  <2>10. ASSUME Timely PROVE Timely'
    BY <1>1, <2>2, <2>3, <2>6, <2>7, <2>10 DEF Timely
  <2>11. QED BY <2>8, <2>9, <2>10
<1>7. QED BY <1>5, <1>6

(* Every delay is longer than the horizon. *)
SlowDelays ==
  \A cfg \in Configs, d \in Day : cfg.repeatAfterCompletion => NextFromCompletion(cfg, d) > d + HorizonDays

(* The tick decides on a day after all that have an instance. *)
LEMMA DecideWaits ==
  ASSUME IInv, Gapless, OneTick, NEW w \in Workers, Decide(w), Identified, OneByOne
  PROVE  Identified' /\ OneByOne' /\ (SlowDelays /\ Timely => Timely')
<1>1. job[w].pc = "decide" /\ UNCHANGED <<rule, instances, log>>
  BY DEF Decide
<1>2. job[w] \in JobRows /\ InStep(job[w]) /\ rule # Null /\ rule \in RuleRows
  BY <1>1, StepJob
<1>3. rule.cfg.repeatAfterCompletion /\ rule.cfg \in Configs
  BY <1>1, <1>2 DEF InStep, RuleRows
<1>4. PICK next : next = NextOccurrence(job[w].rule.cfg, job[w].task.anchor, Generated, job[w].cursor)
  OBVIOUS
<1>5. PICK p \in {"idle", "exhaust", "make", "defer"} :
        /\ job'[w].pc = p
        /\ p = "make" => job'[w].cursor = next /\ next # Null
  <2>1. job \in [Workers -> JobRows \cup {Idle}]
    BY DEF IInv, TypeOK
  <2>2. \/ Move(w, Idle)
        \/ Move(w, [job[w] EXCEPT !.pc = "exhaust"])
        \/ next # Null /\ Move(w, [job[w] EXCEPT !.pc = "make", !.cursor = next])
        \/ Move(w, [job[w] EXCEPT !.pc = "defer", !.cursor = next])
    BY <1>4, Zenon DEF Decide
  <2>3. PICK j \in JobRows : j = job[w]
    BY <1>2
  <2>4. CASE Move(w, Idle)
    BY <2>1, <2>4 DEF Move, Idle
  <2>5. CASE Move(w, [j EXCEPT !.pc = "exhaust"])
    BY <2>1, <2>5 DEF Move, JobRows
  <2>6. CASE next # Null /\ Move(w, [j EXCEPT !.pc = "make", !.cursor = next])
    BY <2>1, <2>6 DEF Move, JobRows
  <2>7. CASE Move(w, [j EXCEPT !.pc = "defer", !.cursor = next])
    BY <2>1, <2>7 DEF Move, JobRows
  <2>8. QED
    BY <2>2, <2>3, <2>4, <2>5, <2>6, <2>7
<1>6. \A v \in Workers : v = w
  BY DEF OneTick
<1>7. OccurrenceDays' = OccurrenceDays /\ Generated' = Generated /\ (AllDone' <=> AllDone) /\ \A i : IsLast(i)' <=> IsLast(i)
  BY <1>1 DEF OccurrenceDays, Generated, AllDone, IsLast, Open
<1>8. Identified'
  BY <1>1 DEF Identified, UniqueIds, RulesFirst
<1>9. AllDone
  BY <1>1, <1>2, <1>3 DEF OneByOne
<1>10. OneByOne'
  BY <1>1, <1>7, <1>9 DEF OneByOne
<1>11. ASSUME SlowDelays, Timely, p = "make"
       PROVE  /\ \A d \in OccurrenceDays : d < next
              /\ rule.cfg.endType = "after_count" => Generated < rule.cfg.endCount - 1
  <2>1. job[w].cursor \in Day /\ Generated \in Nat
    BY <1>1, <1>2, FS_CardinalityType DEF IInv, RowsAgree, Generated, Idle
  <2>2. PICK after \in Day : after = job[w].cursor
    BY <2>1
  <2>3. PICK n \in Nat : n = NextFromCompletion(rule.cfg, after)
    BY <1>3, CalendarMovesForward
  <2>4. next = ApplyEnd(rule.cfg, Generated, n) /\ next # Null
    BY <1>2, <1>3, <1>4, <1>5, <1>11, <2>2, <2>3 DEF NextOccurrence, InStep
  <2>5. next = n /\ ~CountExhausted(rule.cfg, Generated)
    BY <2>4 DEF ApplyEnd
  <2>6. n > after + HorizonDays
    BY <1>3, <1>11, <2>3 DEF SlowDelays
  <2>7. \A d \in OccurrenceDays : d \in Nat /\ d <= after + HorizonDays
    BY <1>1, <1>2, <1>3, <1>11, <2>2 DEF Timely, OccurrenceDays, IInv, TypeOK, InstanceRows
  <2>8. rule.cfg.endType = "after_count" => Generated < rule.cfg.endCount - 1
    BY <1>3, <2>1, <2>5, EndsAreGiven, NullIsNoNumber DEF CountExhausted
  <2>9. QED
    BY <2>2, <2>5, <2>6, <2>7, <2>8, ConstantsAreSane DEF Day
<1>12. ASSUME SlowDelays, Timely PROVE Timely'
  BY <1>1, <1>2, <1>3, <1>5, <1>6, <1>7, <1>11, <1>12 DEF Timely
<1>13. QED
  BY <1>8, <1>10, <1>12

(* The tick makes the next instance: it is the latest, and the only one open. *)
LEMMA MakeNextWaits ==
  ASSUME IInv, Gapless, OneTick, NEW w \in Workers, MakeNext(w), Identified, OneByOne
  PROVE  Identified' /\ OneByOne' /\ (Timely => Timely')
<1>1. job[w].pc = "make" /\ UNCHANGED rule
  BY DEF MakeNext
<1>2. job[w] \in JobRows /\ InStep(job[w]) /\ rule # Null /\ rule \in RuleRows
  BY <1>1, StepJob
<1>3. rule.cfg.repeatAfterCompletion
  BY <1>1, <1>2 DEF InStep
<1>4. AllDone
  BY <1>1, <1>2, <1>3 DEF OneByOne
<1>5. \A v \in Workers : job'[v].pc = "clear"
  BY <1>2 DEF MakeNext, Move, OneTick, IInv, TypeOK, JobRows
<1>6. PICK k : k = job[w].cursor
  OBVIOUS
<1>7. \A i \in instances : i.id \in Nat /\ i.id < created
  BY DEF IInv, TypeOK, RowsAgree, InstanceRows
<1>8. log \in LogRows
  BY <1>2 DEF Gapless, Logged, IInv, TypeOK
<1>9. CASE Duplicate(k)
  <2>1. UNCHANGED instances /\ log' = [log EXCEPT !.covered = @ \cup {k}] /\ k \in OccurrenceDays
    BY <1>9 DEF Duplicate
  <2>2. log'.covered = log.covered \cup {k}
    BY <1>8, <2>1 DEF LogRows
  <2>3. OccurrenceDays' = OccurrenceDays /\ (AllDone' <=> AllDone) /\ \A i : IsLast(i)' <=> IsLast(i)
    BY <2>1 DEF OccurrenceDays, AllDone, IsLast, Open
  <2>4. Identified'
    BY <1>1, <1>2, <2>1 DEF Identified, UniqueIds, RulesFirst
  <2>5. OneByOne'
    BY <1>1, <1>4, <2>1, <2>3 DEF OneByOne
  <2>6. ASSUME Timely PROVE Timely'
    BY <1>1, <1>2, <1>3, <1>5, <2>1, <2>2, <2>3, <2>6 DEF Timely
  <2>7. QED BY <2>4, <2>5, <2>6
<1>10. CASE Insert(k)
  <2>1. PICK row : row = [id |-> created, day |-> k, completedOn |-> Null, trashedOn |-> Null]
    OBVIOUS
  <2>2. /\ instances' = instances \cup {row} /\ row.id = created /\ row.day = k /\ Open(row)
        /\ log' = [log EXCEPT !.covered = @ \cup {k}]
    BY <1>10, <2>1 DEF Insert, Open
  <2>3. log'.covered = log.covered \cup {k} /\ OccurrenceDays' = OccurrenceDays \cup {k}
    BY <1>8, <2>2 DEF LogRows, OccurrenceDays
  <2>4. created \in Nat
    BY DEF IInv, TypeOK
  <2>5. IsLast(row)' /\ \A i \in instances : ~IsLast(i)' /\ i.id # row.id
    BY <1>7, <2>2, <2>4 DEF IsLast
  <2>6. Identified'
    BY <1>1, <1>2, <2>2, <2>5 DEF Identified, UniqueIds, RulesFirst
  <2>7. \A i \in instances' : Open(i) => i = row
    BY <1>4, <2>2 DEF AllDone
  <2>8. OneByOne'
    BY <1>5, <2>5, <2>7 DEF OneByOne, Open
  <2>9. ASSUME Timely PROVE Timely'
    <3>1. log'.covered \subseteq OccurrenceDays'
      BY <1>2, <1>3, <2>3, <2>9 DEF Timely
    <3>2. \A i \in instances' : ~(~Open(i) /\ IsLast(i)')
      BY <2>2, <2>5
    <3>3. QED
      BY <1>5, <3>1, <3>2 DEF Timely, Open
  <2>10. QED BY <2>6, <2>8, <2>9
<1>11. QED
  BY <1>6, <1>9, <1>10 DEF MakeNext

LEMMA GenerateWaits ==
  ASSUME IInv, Gapless, OneTick, NEW w \in Workers, Generate(w), Identified
  PROVE  Identified' /\ OneByOne' /\ Timely'
<1>1. job[w].pc = "loop" /\ UNCHANGED rule
  BY DEF Generate
<1>2. InStep(job[w]) /\ rule # Null
  BY <1>1, StepJob
<1>3. ~rule.cfg.repeatAfterCompletion
  BY <1>1, <1>2 DEF InStep
<1>4. OneByOne' /\ Timely'
  BY <1>1, <1>3 DEF OneByOne, Timely
<1>5. UniqueIds'
  <2>1. \A i \in instances : i.id \in Nat /\ i.id < created
    BY DEF IInv, TypeOK, RowsAgree, InstanceRows
  <2>2. created \in Nat
    BY DEF IInv, TypeOK
  <2>3. instances' = instances \/ \E row : row.id = created /\ instances' = instances \cup {row}
    BY DEF Generate, Insert, Duplicate
  <2>4. QED
    BY <2>1, <2>2, <2>3 DEF Identified, UniqueIds
<1>6. QED
  BY <1>1, <1>2, <1>4, <1>5 DEF Identified, RulesFirst

LEMMA InitWaits == Init => Identified /\ OneByOne /\ Timely
BY DEF Init, Identified, UniqueIds, RulesFirst, OneByOne, Timely

(* Every step of the system. *)
LEMMA NextWaits ==
  ASSUME OneTick, {"trash", "due", "reopen"} \cap UserOps = {},
         IInv, Gapless, [Next]_vars, [StoredAlone]_vars, [KindKept]_vars, Identified, OneByOne
  PROVE  Identified' /\ OneByOne' /\ (SlowDelays /\ Timely => Timely')
<1>1. ASSUME NEW w \in Workers, Tick(w) \/ Crash(w)
      PROVE  Quiet \/ (Identified' /\ OneByOne' /\ (SlowDelays /\ Timely => Timely'))
  BY <1>1, QuietSteps, GenerateWaits, ReadLatestWaits, DecideWaits, MakeNextWaits DEF Tick
<1>2. ASSUME NEW c \in Clients, Api(c), ~UNCHANGED vars
      PROVE  Quiet \/ (Identified' /\ OneByOne' /\ (SlowDelays /\ Timely => Timely'))
  <2>1. CASE Store(c)
    BY <1>2, <2>1, StoreWaits DEF StoredAlone, KindKept
  <2>2. CASE ~Store(c)
    BY <1>2, <2>2, QuietSteps DEF Api
  <2>3. QED BY <2>1, <2>2
<1>3. CASE InstanceOp
  BY <1>3, CompletionWaits
<1>4. CASE Remove \/ SourceOp \/ PurgeTrash \/ NextDay \/ UNCHANGED vars
  BY <1>4, QuietSteps, QuietKeeps
<1>5. Quiet \/ (Identified' /\ OneByOne' /\ (SlowDelays /\ Timely => Timely'))
  BY <1>1, <1>2, <1>3, <1>4 DEF Next
<1>6. QED
  BY <1>5, QuietKeeps

(* The users complete the tasks of one rule; the requests that replace it keep
   its kind and find no tick in progress. *)
Calm == StoredAlone /\ KindKept

LEMMA WaitsHold ==
  ASSUME OneTick, {"trash", "due", "reopen"} \cap UserOps = {}
  PROVE  Spec /\ [][Calm]_vars => [](Identified /\ OneByOne)
<1> DEFINE Inv == IInv /\ Gapless /\ Identified /\ OneByOne
<1>1. Init => Inv
  BY InitIInv, InitGapless, InitWaits
<1>2. Inv /\ [Next]_vars /\ [Calm]_vars => Inv'
  <2>1. SUFFICES ASSUME Inv, [Next]_vars, [Calm]_vars PROVE Inv'
    OBVIOUS
  <2>2. [StoredAlone]_vars /\ [KindKept]_vars
    BY <2>1 DEF Calm
  <2>3. IInv' /\ Gapless'
    BY <2>1, <2>2, NextIInv, NextGapless
  <2>4. Identified' /\ OneByOne'
    BY <2>1, <2>2, NextWaits
  <2>5. QED BY <2>3, <2>4
<1>3. QED
  BY <1>1, <1>2, PTL DEF Spec

(* A rule that waits for completions never has two open instances: the next is
   made only from a latest instance that is completed (processAfterCompletion).  For one
   tick at a time, nothing trashed, re-dated or reopened, and Calm requests. *)
THEOREM OneOpenAtATime ==
  ASSUME OneTick, {"trash", "due", "reopen"} \cap UserOps = {}
  PROVE  Spec /\ [][Calm]_vars => []OneOpenInstance
<1>1. IInv /\ Identified /\ OneByOne => OneOpenInstance
  <2>1. SUFFICES ASSUME IInv, Identified, OneByOne, rule # Null, rule.cfg.repeatAfterCompletion,
                        NEW i \in instances, NEW j \in instances, Open(i), Open(j)
                 PROVE  i = j
    BY DEF OneOpenInstance
  <2>2. IsLast(i) /\ IsLast(j)
    BY <2>1 DEF OneByOne
  <2>3. i.id \in Nat /\ j.id \in Nat
    BY <2>1 DEF IInv, TypeOK, InstanceRows
  <2>4. QED
    BY <2>1, <2>2, <2>3 DEF IsLast, Identified, UniqueIds
<1>2. QED
  BY <1>1, WaitsHold, Invariance, PTL

----------------------------------------------------------------------------
(* The refinement of OccurrenceLog. *)

(* The covered days, when there are any, have a latest. *)
LEMMA LatestCovered ==
  ASSUME NEW days \in SUBSET Nat, NEW bound \in Nat, \A d \in days : d <= bound, days # {}
  PROVE  \E d \in days : \A e \in days : e <= d
<1> DEFINE gaps == { bound - d : d \in days }
<1>1. gaps \subseteq Nat /\ gaps # {}
  <2>1. gaps \subseteq Nat
    <3>1. \A d \in days : bound - d \in Nat
      OBVIOUS
    <3>2. QED BY <3>1
  <2>2. PICK d \in days : TRUE
    OBVIOUS
  <2>3. bound - d \in gaps
    BY <2>2
  <2>4. QED BY <2>1, <2>3
<1> HIDE DEF gaps
<1>2. PICK least \in gaps : \A g \in gaps : ~ (<<g, least>> \in OpToRel(<, Nat))
  BY <1>1, NatLessThanWellFounded, WFMin, Zenon
<1>3. \A g \in gaps : least <= g
  <2>1. \A a, b \in Nat : a < b => <<a, b>> \in OpToRel(<, Nat)
    BY DEF OpToRel
  <2>2. ASSUME NEW g \in gaps PROVE least <= g
    <3>1. g \in Nat /\ least \in Nat
      BY <1>1
    <3>2. ~ (g < least)
      BY <1>2, <2>1, <3>1, Zenon
    <3>3. QED BY <3>1, <3>2
  <2>3. QED BY <2>2
<1>4. PICK d \in days : least = bound - d
  BY DEF gaps
<1>5. \A e \in days : least <= bound - e
  BY <1>3 DEF gaps
<1>6. \A e \in days : e <= d
  BY <1>4, <1>5
<1>7. QED BY <1>6

LEMMA SameCount == \A S : Log!Cardinality(S) = Cardinality(S)
BY Zenon DEF Cardinality, Log!Cardinality

(* The day a tick is about to cover for the first time is the one the log owes. *)
LEMMA CursorIsOwed ==
  ASSUME IInv, Gapless, NEW k, Covering(k), k \notin log.covered
  PROVE  Log!Owed = k
<1>1. /\ log \in LogRows /\ log.cfg \in Configs /\ log.anchor \in Day /\ Prefix /\ Reached(k) /\ k \in Day
      /\ Logged
  BY CoveringLog DEF Gapless, Covering, Scheduled
<1>2. Day \subseteq Nat /\ log.covered \subseteq Day /\ log.first \in Nat
  BY <1>1, ConstantsAreSane DEF Day, Prefix, Reached
<1>3. OnSchedule(log.cfg, log.anchor, k) /\ log.first <= k
  BY <1>1 DEF Reached
<1>4. CASE log.covered = {}
  <2>1. log.first = k
    <3>1. CASE log.first < k
      <4>1. log.first \in Day
        BY <1>1, <1>2, <3>1, ConstantsAreSane DEF Day
      <4>2. log.first \in log.covered
        BY <1>1, <1>2, <3>1, <4>1 DEF Prefix, Reached
      <4>3. QED BY <1>4, <4>2
    <3>2. QED BY <1>1, <1>2, <1>3, <3>1
  <2>2. QED BY <1>4, <2>1 DEF Log!Owed
<1>5. CASE log.covered # {}
  <2>1. \A e \in log.covered : e < k
    <3>1. SUFFICES ASSUME NEW e \in log.covered, ~(e < k) PROVE FALSE
      OBVIOUS
    <3>2. e # k /\ e \in Nat /\ k \in Nat
      BY <1>1, <1>2
    <3>3. k < e
      BY <3>1, <3>2
    <3>4. k \in log.covered
      BY <1>1, <1>3, <3>3 DEF Prefix
    <3>5. QED BY <3>4
  <2>2. \E d \in log.covered : \A e \in log.covered : e <= d
    <3>1. k \in Nat /\ log.covered \in SUBSET Nat
      BY <1>1, <1>2
    <3>2. \A d \in log.covered : d \in Nat /\ d < k
      BY <2>1, <3>1
    <3>3. \A d \in log.covered : d <= k
      BY <3>1, <3>2
    <3>4. QED BY <1>5, <3>1, <3>3, LatestCovered
  <2>3. PICK latest : latest = CHOOSE d \in log.covered : \A e \in log.covered : e <= d
    OBVIOUS
  <2>4. latest \in log.covered /\ \A e \in log.covered : e <= latest
    BY <2>2, <2>3
  <2>5. latest \in Day /\ latest < k /\ log.first <= latest
    BY <1>1, <1>2, <2>1, <2>4 DEF Prefix
  <2>6. PICK n \in Nat : n = NextOnSchedule(log.cfg, log.anchor, latest)
    BY <1>1, <2>5, CalendarMovesForward
  <2>7. n <= k /\ latest < n
    BY <1>1, <1>3, <2>5, <2>6, NoneBetween, CalendarMovesForward
  <2>8. n = k
    <3>1. CASE n < k
      <4>1. n \in Day
        BY <1>1, <2>6, <3>1, ConstantsAreSane DEF Day
      <4>2. OnSchedule(log.cfg, log.anchor, n)
        BY <1>1, <2>5, <2>6, <4>1, NextIsOnSchedule
      <4>3. log.first <= n
        BY <1>2, <2>5, <2>7, <4>1
      <4>4. n \in log.covered
        BY <1>1, <3>1, <4>1, <4>2, <4>3 DEF Reached
      <4>5. QED BY <1>2, <2>4, <2>5, <2>6, <2>7, <4>4
    <3>2. QED BY <1>1, <1>2, <2>6, <2>7, <3>1
  <2>9. Cardinality(log.covered) \in Nat
    BY <1>1, DaysAreCounted DEF IInv, Prefix, OccurrenceDays
  <2>10. ~Log!CountExhausted(log.cfg, Cardinality(log.covered))
    BY <1>1, <2>9, EndsAreGiven DEF Log!CountExhausted, Reached
  <2>11. ~Log!PastEndDate(log.cfg, k)
    BY <1>1, <1>2, EndsAreGiven DEF Log!PastEndDate, Reached
  <2>12. Log!ApplyEnd(log.cfg, Cardinality(log.covered), k) = k
    BY <1>1, <1>2, <2>10, <2>11, NullIsNoNumber DEF Log!ApplyEnd
  <2>13. QED
    BY <1>5, <2>3, <2>6, <2>8, <2>12, SameCount DEF Log!Owed
<1>6. QED BY <1>4, <1>5

(* What a generating step does to the log. *)
LEMMA GenerateEmits ==
  ASSUME IInv, Gapless, OneTick, NEW w \in Workers, Generate(w)
  PROVE  [Log!LogNext]_log
<1>1. PICK k : Covering(k)
  BY GenerateCovers
<1>2. log \in LogRows /\ log # Null /\ ~log.cfg.repeatAfterCompletion /\ k \in Day /\ k \in Nat
  BY <1>1, CoveringLog, NullIsNoRow, ConstantsAreSane DEF Gapless, Covering, Day
<1>3. log' = [log EXCEPT !.covered = @ \cup {k}]
  BY <1>1 DEF Covering
<1>4. CASE k \in log.covered
  <2>1. log.covered \cup {k} = log.covered
    BY <1>4
  <2>2. log' = log
    BY <1>2, <1>3, <2>1 DEF LogRows
  <2>3. QED BY <2>2
<1>5. CASE k \notin log.covered
  <2>1. Log!Owed = k
    BY <1>1, <1>5, CursorIsOwed
  <2>2. k # Null
    BY <1>2, NullIsNoNumber
  <2>3. Log!Emit
    BY <1>2, <1>3, <2>1, <2>2 DEF Log!Emit
  <2>4. QED BY <2>3 DEF Log!LogNext
<1>6. QED BY <1>4, <1>5

LEMMA MakeNextEmits ==
  ASSUME IInv, Gapless, OneByOne, Timely, NEW w \in Workers, MakeNext(w)
  PROVE  [Log!LogNext]_log
<1>1. job[w].pc = "make"
  BY DEF MakeNext
<1>2. job[w] \in JobRows /\ InStep(job[w]) /\ rule # Null /\ rule \in RuleRows
  BY <1>1, StepJob
<1>3. /\ rule.cfg.repeatAfterCompletion /\ rule.cfg = log.cfg /\ log # Null /\ log \in LogRows
      /\ log.cfg \in Configs
  BY <1>1, <1>2 DEF InStep, Gapless, Logged, IInv, TypeOK, LogRows
<1>4. PICK k : k = job[w].cursor
  OBVIOUS
<1>5. /\ log.covered \subseteq OccurrenceDays
      /\ \A d \in OccurrenceDays : d < k
      /\ log.cfg.endType = "after_count" => Generated < log.cfg.endCount - 1
  BY <1>1, <1>2, <1>3, <1>4 DEF Timely
<1>6. log' = [log EXCEPT !.covered = @ \cup {k}]
  BY <1>4 DEF MakeNext, Insert, Duplicate
<1>7. log'.covered = log.covered \cup {k}
  BY <1>3, <1>6 DEF LogRows
<1>8. log.cfg.endType = "after_count" => Cardinality(log.covered) < log.cfg.endCount - 1
  <2>1. Generated \in Nat /\ Cardinality(log.covered) \in Nat /\ Cardinality(log.covered) <= Generated
    BY <1>5, DaysAreCounted DEF IInv, Generated, OccurrenceDays
  <2>2. log.cfg.endType = "after_count" => log.cfg.endCount \in Nat
    BY <1>3, EndsAreGiven
  <2>3. QED BY <1>5, <2>1, <2>2
<1>9. k \in log'.covered /\ \A e \in log.covered : e < k
  BY <1>5, <1>7
<1>10. Log!EmitAfterCompletion
  BY <1>3, <1>6, <1>8, <1>9, SameCount DEF Log!EmitAfterCompletion
<1>11. QED BY <1>10 DEF Log!LogNext

LEMMA StoreAdopts ==
  ASSUME IInv, NEW c \in Clients, Store(c)
  PROVE  [Log!LogNext]_log
<1>1. CASE UNCHANGED log
  BY <1>1
<1>2. CASE task # Null /\ request[c].found = (rule # Null)
  <2>1. request[c] \in RequestRows
    BY DEF Store, Idle, IInv, TypeOK
  <2>2. PICK row \in RuleRows : row = request[c].row
    BY <2>1 DEF RequestRows
  <2>3. log' = [cfg |-> row.cfg, anchor |-> task.anchor, first |-> row.next, covered |-> {}]
    BY <1>2, <2>2 DEF Store
  <2>4. log'.cfg \in Configs /\ log'.covered = {}
    BY <2>3 DEF RuleRows
  <2>5. log' # Null
    BY <1>2, <2>2, <2>3, StoreIInv, NullIsNoRow DEF Store, IInv, RowsAgree
  <2>6. Log!Adopt
    BY <2>4, <2>5 DEF Log!Adopt
  <2>7. QED BY <2>6 DEF Log!LogNext
<1>3. QED
  BY <1>1, <1>2 DEF Store

LEMMA NextIsFaithful ==
  ASSUME IInv, Gapless, OneByOne, Timely, OneTick, [Next]_vars
  PROVE  [Log!LogNext]_log
<1>1. ASSUME NEW w \in Workers, Tick(w) \/ Crash(w) PROVE [Log!LogNext]_log
  <2>1. CASE Generate(w)
    BY <2>1, GenerateEmits
  <2>2. CASE MakeNext(w)
    BY <2>2, MakeNextEmits
  <2>3. CASE ~Generate(w) /\ ~MakeNext(w)
    BY <1>1, <2>3 DEF Tick, Start, Count, Finish, ReadLatest, Decide, Settle, Orphaned, Crash
  <2>4. QED BY <2>1, <2>2, <2>3
<1>2. ASSUME NEW c \in Clients, Api(c) PROVE [Log!LogNext]_log
  <2>1. CASE Store(c)
    BY <2>1, StoreAdopts
  <2>2. CASE ~Store(c)
    BY <1>2, <2>2, Zenon DEF Api, CreateRead, UpdateRead, BeginWrite
  <2>3. QED BY <2>1, <2>2
<1>3. CASE Remove \/ SourceOp \/ InstanceOp \/ PurgeTrash \/ NextDay \/ UNCHANGED vars
  BY <1>3, Zenon DEF Remove, SourceOp, CompleteSource, ReopenSource, TrashSource, RestoreSource, MoveSource,
     UpdateSource, InstanceOp, CompleteInstance, ReopenInstance, TrashInstance, RestoreInstance, UpdateInstance,
     PurgeTrash, NextDay, vars
<1>4. QED
  BY <1>1, <1>2, <1>3 DEF Next

(* The generator implements the abstract log: a schedule's days come in order,
   each once, none skipped, none after the end; a rule that waits for completions
   moves on in time and keeps to its count.  This is so on conditions only: one tick at a
   time (the queue has one worker), nothing trashed, re-dated or reopened, rules that are
   stored while no tick runs and keep their kind when replaced (Calm), and delays after a
   completion that are longer than the horizon.  Without them the code does lose or repeat
   days: an edit or a removal during a tick is overwritten by the tick's last write, and a
   shorter delay can run into a day that has its instance already. *)
THEOREM LogIsKept ==
  ASSUME OneTick, SlowDelays, {"trash", "due", "reopen"} \cap UserOps = {}
  PROVE  Spec /\ [][Calm]_vars => LogIsFaithful
<1> DEFINE Inv == IInv /\ Gapless /\ Identified /\ OneByOne /\ Timely
<1>1. Init => Inv
  BY InitIInv, InitGapless, InitWaits
<1>2. Inv /\ [Next]_vars /\ [Calm]_vars => Inv' /\ [Log!LogNext]_log
  <2>1. SUFFICES ASSUME Inv, [Next]_vars, [Calm]_vars PROVE Inv' /\ [Log!LogNext]_log
    OBVIOUS
  <2>2. [StoredAlone]_vars /\ [KindKept]_vars
    BY <2>1 DEF Calm
  <2>3. IInv' /\ Gapless'
    BY <2>1, <2>2, NextIInv, NextGapless
  <2>4. Identified' /\ OneByOne' /\ Timely'
    BY <2>1, <2>2, NextWaits
  <2>5. [Log!LogNext]_log
    BY <2>1, NextIsFaithful
  <2>6. QED BY <2>3, <2>4, <2>5
<1>3. Init => Log!LogInit
  BY DEF Init, Log!LogInit
<1>4. QED
  BY <1>1, <1>2, <1>3, PTL DEF Spec, LogIsFaithful, Log!LogSpec

----------------------------------------------------------------------------
(* When no tick is at a rule that is stored: rules are created, one request at a
   time, and neither edited nor removed.  An inactive rule has no tick, and a
   rule is only replaced while it is inactive. *)
Active == rule # Null /\ rule.isActive

Asleep ==
  /\ task # Null /\ task.trashedOn = Null
  /\ Active \/ \A w \in Workers : job[w] = Idle
  /\ Active => \A c \in Clients : request[c] = Idle

LEMMA TickAsleep ==
  ASSUME IInv, Asleep, OneTick, NEW w \in Workers, Tick(w) \/ Crash(w)
  PROVE  Asleep'
<1>1. UNCHANGED <<task, request>>
  BY DEF Tick, Start, Count, Generate, Finish, ReadLatest, Decide, MakeNext, Settle, Orphaned, Crash
<1>2. Active
  <2>1. CASE Start(w)
    BY <2>1 DEF Start, Selected, Active
  <2>2. CASE ~Start(w)
    <3>1. job[w] # Idle
      BY <2>2 DEF Tick, Count, Generate, Finish, ReadLatest, Decide, MakeNext, Settle, Orphaned, Crash, Idle
    <3>2. QED BY <3>1 DEF Asleep
  <2>3. QED BY <2>1, <2>2
<1>3. rule' = rule \/ End(w)
  BY DEF Tick, Start, Count, Generate, Finish, ReadLatest, Decide, MakeNext, Settle, Orphaned, Crash
<1>4. End(w) => \A v \in Workers : job'[v] = Idle
  BY DEF End, Move, OneTick, IInv, TypeOK
<1>5. QED
  BY <1>1, <1>2, <1>3, <1>4 DEF Asleep, Active

(* With one tick and one request at a time, rules that are created and never
   edited or removed are stored only while no tick is in progress: create()
   refuses an active rule, and only an active rule has a tick. *)
THEOREM CreatedAlone ==
  ASSUME OneTick, \A c, d \in Clients : c = d, UserOps \subseteq {"create", "complete", "reopen"}
  PROVE  Spec => [][StoredAlone]_vars
<1>1. Init => Asleep
  <2>1. ASSUME Init PROVE Asleep
    <3>1. rule = Null /\ (\A w \in Workers : job[w] = Idle)
      BY <2>1 DEF Init
    <3>2. task # Null /\ task.trashedOn = Null
      <4>1. PICK a \in Day : task = [anchor |-> a, completedOn |-> Null, trashedOn |-> Null]
        BY <2>1 DEF Init
      <4>2. task \in TaskRows
        BY <4>1 DEF TaskRows
      <4>3. QED BY <4>1, <4>2, NullIsNoRow
    <3>3. QED BY <3>1, <3>2 DEF Asleep, Active
  <2>2. QED BY <2>1
<1>2. IInv /\ Asleep /\ [Next]_vars => Asleep'
  <2>1. SUFFICES ASSUME IInv, Asleep, [Next]_vars PROVE Asleep'
    OBVIOUS
  <2>2. task \in TaskRows
    BY <2>1 DEF Asleep, IInv, TypeOK
  <2>3. ASSUME NEW w \in Workers, Tick(w) \/ Crash(w) PROVE Asleep'
    BY <2>1, <2>3, TickAsleep
  <2>4. ASSUME NEW c \in Clients, Api(c) PROVE Asleep'
    <3>1. CASE Store(c)
      <4>1. request[c] # Idle
        BY <3>1 DEF Store, Idle
      <4>2. \A w \in Workers : job[w] = Idle
        BY <2>1, <4>1 DEF Asleep
      <4>3. UNCHANGED <<task, job>> /\ \A d \in Clients : request'[d] = Idle
        BY <2>1, <3>1 DEF Store, IInv, TypeOK
      <4>4. QED BY <2>1, <4>2, <4>3 DEF Asleep
    <3>2. CASE ~Store(c)
      <4>1. PICK cfg \in Configs : CreateRead(c, cfg)
        BY <2>4, <3>2, Zenon DEF Api, UpdateRead, UserOp
      <4>2. ~Active /\ UNCHANGED <<task, rule, job>>
        BY <4>1, Zenon DEF CreateRead, BeginWrite, Active
      <4>3. QED BY <2>1, <4>2 DEF Asleep, Active
    <3>3. QED BY <3>1, <3>2
  <2>5. CASE SourceOp
    <3>1. PICK d \in Day \cup {Null} : UpdateSource([task EXCEPT !.completedOn = d])
      BY <2>1, <2>5, Zenon DEF SourceOp, CompleteSource, ReopenSource, TrashSource, RestoreSource, MoveSource, UserOp,
         IInv, TypeOK
    <3>2. PICK row : row = [task EXCEPT !.completedOn = d]
      OBVIOUS
    <3>3. row # Null /\ row.trashedOn = task.trashedOn
      BY <2>2, <3>2, NullIsNoRow DEF TaskRows
    <3>4. task' = row /\ UNCHANGED <<rule, job, request>>
      BY <3>1, <3>2 DEF UpdateSource
    <3>5. QED BY <2>1, <3>3, <3>4 DEF Asleep, Active
  <2>6. CASE Remove \/ InstanceOp \/ PurgeTrash \/ NextDay \/ UNCHANGED vars
    <3>1. ~Remove
      BY DEF Remove, UserOp
    <3>2. UNCHANGED <<task, rule, job, request>>
      BY <2>1, <2>6, <3>1, Zenon DEF InstanceOp, CompleteInstance, ReopenInstance, TrashInstance, RestoreInstance,
         UpdateInstance, PurgeTrash, Expired, NextDay, vars, Asleep
    <3>3. QED BY <2>1, <3>2 DEF Asleep, Active
  <2>7. QED
    BY <2>1, <2>3, <2>4, <2>5, <2>6 DEF Next
<1>3. Asleep => StoredAlone
  BY DEF Asleep, StoredAlone, Store, Idle
<1>4. QED
  BY <1>1, <1>2, <1>3, Invariance, PTL DEF Spec

(* So a schedule that is never edited skips nothing and keeps to its count (the
   generator as deployed, one worker for one queue). *)
THEOREM UneditedSchedules ==
  ASSUME OneTick, \A c, d \in Clients : c = d, UserOps \subseteq {"create", "complete", "reopen"}
  PROVE  Spec => [](NoSkippedOccurrence /\ CountRespected)
<1>1. {"trash", "due"} \cap UserOps = {}
  OBVIOUS
<1>2. QED
  BY <1>1, CreatedAlone, NothingIsSkipped, CountIsKept, PTL

(* And the log of such rules is kept, without a condition on how the steps of requests and
   ticks interleave: one worker, one request at a time, rules of one kind that are created
   and never edited or removed, tasks that are completed and not reopened, delays longer
   than the horizon. *)
THEOREM UneditedLog ==
  ASSUME OneTick, SlowDelays, \A c, d \in Clients : c = d, UserOps \subseteq {"create", "complete"},
         \A a, b \in Configs : a.repeatAfterCompletion = b.repeatAfterCompletion
  PROVE  Spec => LogIsFaithful
<1>1. {"trash", "due", "reopen"} \cap UserOps = {}
  OBVIOUS
<1>2. Spec => [][StoredAlone]_vars
  BY CreatedAlone
<1>3. IInv => KindKept
  <2>1. SUFFICES ASSUME IInv, NEW c \in Clients, Store(c), log # Null
                 PROVE  request[c].row.cfg.repeatAfterCompletion = log.cfg.repeatAfterCompletion
    BY DEF KindKept
  <2>2. request[c] \in RequestRows
    BY <2>1 DEF IInv, TypeOK, Store, Idle
  <2>3. request[c].row.cfg \in Configs
    BY <2>2 DEF RequestRows, RuleRows
  <2>4. log.cfg \in Configs
    BY <2>1 DEF IInv, TypeOK, LogRows
  <2>5. QED
    BY <2>3, <2>4
<1>4. StoredAlone /\ KindKept => Calm
  BY DEF Calm
<1>5. Spec => [][Calm]_vars
  BY <1>2, <1>3, <1>4, Invariance, PTL
<1>6. QED
  BY <1>1, <1>5, LogIsKept, PTL
=============================================================================
