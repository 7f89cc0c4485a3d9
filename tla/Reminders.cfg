\* One worker per queue, as deployed; two requests at a time; one of them dies.
SPECIFICATION Spec
CONSTANTS
  Null = Null
  Reminders = {r1}
  Members = {m1}
  InAppOff = {}
  Offsets = {0, 1}
  Times = {1, 2}
  DayLength = 2
  ZoneAhead = 1
  DueHour = 1
  LastTime = 2
  Workers = {w1}
  Checkers = {k1}
  Clients = {c1, c2}
  MaxRequests = 2
  MaxDeaths = 1
INVARIANTS
  FireTimeIsCurrent
  FiresOncePerPass
  OneOverduePerDay
PROPERTIES
  RemindersFire
\* The clock stops.
CHECK_DEADLOCK FALSE
