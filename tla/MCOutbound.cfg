SPECIFICATION FairSpec
CONSTANTS
  w1 = w1
  w2 = w2
  Workers = {w1, w2}
  Events = {e1}
  Users = {u1}
  Answers = {a1}
  BatchSize = 2
  MaxEntries = 2
  MaxAttempts = 2
INVARIANTS
  AckedIsAccepted
  SentIsAccepted
PROPERTIES
  DoneIsFinal
  EntriesSettle
