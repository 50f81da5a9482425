SPECIFICATION FairSpec
CONSTANTS
  c1 = c1
  c2 = c2
  Calls = {c1, c2}
  Requests = {r1}
  Inputs = {x1, x2}
  ModelAnswers = {a1}
  ModelRefusals = {refusal}
  NoEvidence = NoEvidence
  Extractive = Extractive
  AllowFallback = FALSE
  LLMEnabled = TRUE
  Deadline = 2
  Takeover = 3
  None = None
INVARIANTS
  TypeOK
  RepliesAgree
  SingleFlight
PROPERTIES
  CompletedIsFinal
  AnswerOnceSpec
  EventuallyAnswered
