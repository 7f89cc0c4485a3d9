\* A delay within the horizon: the completion may schedule a day that already has its instance.
SPECIFICATION Spec
CONSTANTS
  Null = Null
  Configs <- MCQuickDelays
  NextOnSchedule <- MCNextOnSchedule
  NextFromCompletion <- MCNextFromCompletion
  HorizonDays = 1
  MaxPerTick = 3
  RetentionDays = 1
  LastDay = 4
  Workers = {w1}
  Clients = {c1}
  UserOps = {"create", "complete"}
  MaxUserOps = 3
  MaxCrashes = 0
PROPERTIES
  CompletionsAreAnswered
\* The clock stops at LastDay - HorizonDays.
CHECK_DEADLOCK FALSE
