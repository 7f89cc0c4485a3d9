\* Any handlers of a member's tabs, closing at any await.
SPECIFICATION Spec
CONSTANTS
  Null = Null
  Sockets = {s1, s2, s3, s4}
  Members = {m1, m2, m3}
  MaxParticipants = 2
SYMMETRY Symmetry
INVARIANTS
  SocketsAreCounted
  DotsAreRight
  PeersAgree
  CallWithinLimit
\* Every socket may be closed in the end.
CHECK_DEADLOCK FALSE
