SPECIFICATION MCSpec
CONSTANTS
  s1 = s1
  m1 = m1
  m2 = m2
  u1 = u1
  u2 = u2
  u3 = u3
  d1 = d1
  d2 = d2
  Callbacks = {c1, c2, c3}
  Messages <- MCMessages
  Users <- MCUsers
  Sender <- MCSender
  Docs = {d1, d2}
  Objects = {u1, u2, u3}
  IndexVersions = {i1, i2}
  MaxVersions = 3
  KeywordOnly = TRUE
  None = None
  Null = Null
SYMMETRY Symmetry
INVARIANTS
  TypeOK
  OneQuestionPerMessage
  SuccessMeansQueued
  PublishedIsPersisted
  UploadsOK
  TablesAgree
  CreatedIsStored
PROPERTIES
  InboxSpec
  NeverOutOfService
CHECK_DEADLOCK FALSE
