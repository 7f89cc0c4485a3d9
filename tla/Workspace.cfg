\* Two requests at a time, three in all, from small workspaces.
SPECIFICATION Spec
CONSTANTS
  Null = Null
  ann = ann
  bob = bob
  l1 = l1
  l2 = l2
  t1 = t1
  t2 = t2
  t3 = t3
  p1 = p1
  p2 = p2
  d1 = d1
  x1 = x1
  i1 = i1
  i2 = i2
  i3 = i3
  Handlers = {h1, h2}
  MaxRequests = 3
  Users = {ann, bob}
  Lists = {l1, l2}
  Tasks = {t1, t2, t3}
  Templates = {p1, p2}
  Drafts <- MCDrafts
  Files = {f1, f2}
  Items = {i1, i2, i3}
  Devices = {d1}
  Talks = {x1}
  Named <- MCBodies
  Patches <- MCPatches
  Comments = {c1, c2}
  Bodies <- MCBodies
  Mails = {m1}
  Starts <- MCStarts
  ArchiveAfter = 0
  PurgeAfter = 0
  LastMoment = 1
INVARIANTS
  TypeOK
  AcceptedMeansMember
  DeadLinksStayDead
  OneLevelDeep
  HistoryIsTrue
  RowsHaveObjects
  OrdersAreKeptWhole
  MentionsFollowBody
  PatchesAreKept
  EveryoneIsTold
  NoMailIsLost
PROPERTIES
  LastAdminStays
  SweepsArePatient
  VersionsAreKept
SYMMETRY Symmetry
\* Every request is answered and the clock stops at LastMoment.
CHECK_DEADLOCK FALSE
