\* Logout with a token that has been spent.
SPECIFICATION Spec
CONSTANTS
  Null = Null
  Requests = {r1}
  Grace = 1
  Life = 1
  PruneAge = 1
  MaxTokens = 4
  MaxPasswords = 1
  MaxTime = 1
PROPERTIES
  LoggedOutStaysOut
\* No tokens are left to issue.
CHECK_DEADLOCK FALSE
