\* A member who switched in-app notices off; nothing dies, nobody edits.
SPECIFICATION Spec
CONSTANTS
  Null = Null
  Reminders = {r1}
  Members = {m1}
  InAppOff = {m1}
  Offsets = {0}
  Times = {1}
  DayLength = 2
  ZoneAhead = 1
  DueHour = 1
  LastTime = 4
  Workers = {w1}
  Checkers = {k1}
  Clients = {c1}
  MaxRequests = 0
  MaxDeaths = 0
INVARIANTS
  OneOverduePerDay
\* The clock stops.
CHECK_DEADLOCK FALSE
