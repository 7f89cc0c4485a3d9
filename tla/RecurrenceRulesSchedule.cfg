\* One generator, as deployed; ticks die and run again; a rule runs its schedule, or waits for completions.
SPECIFICATION Spec
CONSTANTS
  Null = Null
  Configs <- MCDeployedConfigs
  NextOnSchedule <- MCNextOnSchedule
  NextFromCompletion <- MCNextFromCompletion
  HorizonDays = 2
  MaxPerTick = 2
  RetentionDays = 1
  LastDay = 7
  Workers = {w1}
  Clients = {c1}
  UserOps = {"create", "complete"}
  MaxUserOps = 2
  MaxCrashes = 2
INVARIANTS
  NoSkippedOccurrence
  CountRespected
  OneOpenInstance
PROPERTIES
  LogIsFaithful
  CompletionsAreAnswered
  DueOccurrencesAreGenerated
ACTION_CONSTRAINT KindStays
\* The clock stops at LastDay - HorizonDays.
CHECK_DEADLOCK FALSE
