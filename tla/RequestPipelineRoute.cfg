SPECIFICATION Spec
CONSTANTS
  BASE_MS = 1
  MAX_MS = 2
  BACKOFF_MAX_LEVEL = 2
  TRANSIENT_MS = 1
  TIMEOUT_MS = 1
  SECOND_MS = 1
  NONE = NONE
  Account <- RouteAccounts
  InitialAccounts <- RouteInitial
  Request = {r1, r2}
  Model <- RouteModels
  Key = {k1}
  AccountProvider <- RouteProvider
  ModelProvider <- RouteModelProvider
  IncompleteAccounts <- RouteIncomplete
  SelectionSettings <- RouteSettings
  STEP = 1
  CursorPeriod = 2
  UpstreamErrors <- RouteErrors
  AdminOps <- RouteOps
  MaxTimer = 1
SYMMETRY RequestSymmetry
INVARIANTS
  NoOrphanLocks
  ForeignFetchOnlyByFallThrough
  OneRowPerAnswer
