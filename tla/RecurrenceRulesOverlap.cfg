\* Two ticks overlap each other and the requests, and tasks are trashed, restored and purged.
SPECIFICATION Spec
CONSTANTS
  Null = Null
  Configs <- MCMixedConfigs
  NextOnSchedule <- MCNextOnSchedule
  NextFromCompletion <- MCNextFromCompletion
  HorizonDays = 1
  MaxPerTick = 2
  RetentionDays = 0
  LastDay = 3
  Workers = {w1, w2}
  Clients = {c1}
  UserOps = {"create", "update", "remove", "complete", "reopen", "trash", "restore", "due"}
  MaxUserOps = 3
  MaxCrashes = 0
INVARIANTS
  RowsAgree
  OneInstancePerDay
SYMMETRY Symmetry
\* The clock stops at LastDay - HorizonDays.
CHECK_DEADLOCK FALSE
