\* Two requests at a time, three in all, in a workspace with a group and a direct conversation.
SPECIFICATION Spec
CONSTANTS
  Null = Null
  ann = ann
  bob = bob
  eve = eve
  group = group
  direct = direct
  spare = spare
  m1 = m1
  m2 = m2
  m3 = m3
  f1 = f1
  Handlers = {h1, h2}
  MaxRequests = 3
  Members = {ann, bob, eve}
  WorkspaceAdmins = {ann}
  Chats = {group, direct, spare}
  Messages = {m1, m2, m3}
  Files = {f1}
  Starts <- MCStarts
PROPERTIES
  SendersTakePart
  LinkedOnce
  KicksLeaveTwo
SYMMETRY Symmetry
\* Every request is answered.
CHECK_DEADLOCK FALSE
