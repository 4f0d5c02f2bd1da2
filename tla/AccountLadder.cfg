SPECIFICATION Spec
CONSTANTS
  BASE_MS = 1000
  MAX_MS = 240000
  BACKOFF_MAX_LEVEL = 8
  TRANSIENT_MS = 5000
  TIMEOUT_MS = 10000
  SECOND_MS = 1000
  StreakBound = 10
  Responses <- MCResponses
INVARIANTS
  LadderCountsFailures
  SemanticCodesDecide
