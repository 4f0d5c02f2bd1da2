SPECIFICATION Spec
CONSTANTS
  BASE_MS = 1
  MAX_MS = 2
  BACKOFF_MAX_LEVEL = 2
  TRANSIENT_MS = 1
  TIMEOUT_MS = 1
  SECOND_MS = 1
  NONE = NONE
  Account <- PoolAccounts
  InitialAccounts <- PoolInitial
  Request = {r1, r2}
  Model <- PoolModels
  Key = {k1}
  AccountProvider <- PoolProvider
  ModelProvider <- PoolModelProvider
  IncompleteAccounts = {}
  SelectionSettings <- PoolSettings
  STEP = 1
  CursorPeriod = 2
  UpstreamErrors <- PoolErrors
  AdminOps <- PoolOps
  MaxTimer = 1
PROPERTIES
  SuccessResets
