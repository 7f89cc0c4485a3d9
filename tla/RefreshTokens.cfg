\* Two requests at a time, over four tokens and two passwords.
SPECIFICATION Spec
CONSTANTS
  Null = Null
  Requests = {r1, r2}
  Grace = 0
  Life = 0
  PruneAge = 0
  MaxTokens = 4
  MaxPasswords = 2
  MaxTime = 1
INVARIANTS
  NeverForks
  SessionsEndWithPassword
  NoCircularWait
PROPERTIES
  SessionsAreChains
SYMMETRY Symmetry
VIEW Behaviour
\* No tokens are left to issue.
CHECK_DEADLOCK FALSE
