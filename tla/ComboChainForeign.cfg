SPECIFICATION CSpec
CONSTANTS
  BASE_MS = 1
  MAX_MS = 2
  BACKOFF_MAX_LEVEL = 2
  TRANSIENT_MS = 1
  TIMEOUT_MS = 1
  SECOND_MS = 1
  NONE = NONE
  Account <- MCAccounts
  InitialAccounts <- MCAccounts
  Request = {r1}
  Model <- ForeignModels
  Key = {k1}
  AccountProvider <- ForeignProvider
  ModelProvider <- ForeignModelProvider
  IncompleteAccounts = {}
  SelectionSettings <- StickySettings
  STEP = 1
  CursorPeriod = 2
  UpstreamErrors <- ForeignErrors
  AdminOps = {}
  MaxTimer = 1
  Combos <- ForeignCombos
  MaxMembers = 1
INVARIANTS
  MiniMaxPathUsesMiniMaxAccounts
