\* One link, two submissions of it at the same time.
SPECIFICATION Spec
CONSTANTS
  Null = Null
  ann = ann
  bob = bob
  l1 = l1
  l2 = l2
  t1 = t1
  t2 = t2
  t3 = t3
  p1 = p1
  p2 = p2
  d1 = d1
  x1 = x1
  i1 = i1
  i2 = i2
  i3 = i3
  Handlers = {h1, h2}
  MaxRequests = 3
  Users = {ann, bob}
  Lists = {l1, l2}
  Tasks = {t1, t2, t3}
  Templates = {p1, p2}
  Drafts <- MCDrafts
  Files = {f1, f2}
  Items = {i1, i2, i3}
  Devices = {d1}
  Talks = {x1}
  Named <- MCBodies
  Patches <- MCPatches
  Comments = {c1, c2}
  Bodies <- MCBodies
  Mails = {m1, m2}
  Starts <- MCAccountStarts
  ArchiveAfter = 0
  PurgeAfter = 0
  LastMoment = 1
INVARIANTS
  ResetHappensOnce
SYMMETRY Symmetry
\* Every request is answered.
CHECK_DEADLOCK FALSE
