SPECIFICATION Spec
CONSTANTS
  c1 = c1
  c2 = c2
  Calls = {c1, c2}
  Requests = {r1}
  Inputs = {x1, x2}
  ModelAnswers = {a1}
  ModelRefusals = {refusal}
  NoEvidence = NoEvidence
  Extractive = Extractive
  AllowFallback = FALSE
  LLMEnabled = TRUE
  Deadline = 1
  Takeover = 2
  None = None
SYMMETRY Symmetry
INVARIANT CancelledRunIsRetryable
