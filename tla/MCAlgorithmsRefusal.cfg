SPECIFICATION MCSpec
CONSTANTS
  Letters = {a, b}
  Stop = stop
  Blank = blank
  MaxLength = 6
  MaxSize = 4
  Chunks = {1, 2, 3}
  Content <- MCContent
  TopK = 2
  TopFinal = 2
  QuoteLimit = 2
  MaxWords = 3
  WordBytes = 4
  MarkerBytes = 3
  EllipsisBytes = 3
  HeaderBytes = 5
  SourceBytes <- MCSourceBytes
  Limit = 20
  MaxCases = 2
  MaxKeywords = 2
  MaxSources = 1
  Callers = {s1, s2}
  MaxTokens = 4
INVARIANT MarkersMatchCitations
CHECK_DEADLOCK FALSE
