\* Every frequency, end condition and completion delay, from creation days before,
\* on and long after the day of the source task.
SPECIFICATION Spec
CONSTANTS
  Null = Null
  Starts <- MCStarts
  Delays <- MCDelays
  MaxSteps = 5
INVARIANTS
  NextIsEarliestScheduled
  StopsExactlyAtTheEnd
  DelayCountsFromCompletion
\* A rule stops at its end, or at the bound of the walk.
CHECK_DEADLOCK FALSE
