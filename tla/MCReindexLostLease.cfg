SPECIFICATION Spec
CONSTANTS
  w1 = w1
  w2 = w2
  j1 = j1
  j2 = j2
  Docs = {d1}
  Objects = {u}
  IndexVersions = {i1, i2}
  MaxVersions = 2
  Workers = {w1, w2}
  Jobs = {j1}
  MaxAttempts = 2
  Lease = 2
  RetryDelay = 1
  StepLimit = 3
  Batches = 1
  None = None
PROPERTY LostLeaseStops
