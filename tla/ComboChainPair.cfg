SPECIFICATION CSpec
CONSTANTS
  BASE_MS = 1
  MAX_MS = 2
  BACKOFF_MAX_LEVEL = 2
  TRANSIENT_MS = 1
  TIMEOUT_MS = 1
  SECOND_MS = 1
  NONE = NONE
  Account <- MCAccounts
  InitialAccounts <- MCAccounts
  Request = {r1, r2}
  Model <- PairModels
  Key = {k1}
  AccountProvider <- MCProvider
  ModelProvider <- PairModelProvider
  IncompleteAccounts = {}
  SelectionSettings <- StickySettings
  STEP = 1
  CursorPeriod = 2
  UpstreamErrors <- PairErrors
  AdminOps <- PairOps
  MaxTimer = 1
  Combos <- PairCombos
  MaxMembers = 2
SYMMETRY RequestSymmetry
INVARIANTS
  EveryAttemptLogged
PROPERTIES
  TriesOnlyFreshAccounts
