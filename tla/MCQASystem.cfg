SPECIFICATION FairSpec
CONSTANTS
  m1 = m1
  m2 = m2
  u1 = u1
  u2 = u2
  r1 = r1
  r2 = r2
  d1 = d1
  s1 = s1
  Messages <- MCMessages
  Users <- MCUsers
  Sender <- MCSender
  Requests = {r1, r2}
  Texts = {t1}
  Dispatchers = {d1}
  Senders = {s1}
  BatchSize = 1
  MaxRequested = 2
  MaxFaults = 1
  None = None
INVARIANTS
  AnswerReachesAsker
  ConfirmedIsKept
  RepeatsNeedFaults
PROPERTY ConfirmedIsAnswered
