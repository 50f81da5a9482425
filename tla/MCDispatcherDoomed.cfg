SPECIFICATION FairSpec
CONSTANTS
  w1 = w1
  w2 = w2
  Workers = {w1}
  Requests = {r1, r2}
  Users = {u1}
  Answers = {a1}
  Doomed = {r2}
  BatchSize = 2
  MaxEntries = 2
  None = None
PROPERTY DoomedEntriesLeave
