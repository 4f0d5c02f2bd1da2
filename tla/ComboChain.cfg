SPECIFICATION FairCSpec
CONSTANTS
  BASE_MS = 1
  MAX_MS = 2
  BACKOFF_MAX_LEVEL = 2
  TRANSIENT_MS = 1
  TIMEOUT_MS = 1
  SECOND_MS = 1
  NONE = NONE
  Account <- MCAccounts
  InitialAccounts <- MCAccounts
  Request = {r1}
  Model <- MCModels
  Key = {k1}
  AccountProvider <- MCProvider
  ModelProvider <- MCModelProvider
  IncompleteAccounts = {}
  SelectionSettings <- MCSettings
  STEP = 1
  CursorPeriod = 2
  UpstreamErrors <- MCErrors
  AdminOps <- MCOps
  MaxTimer = 1
  Combos <- MCCombos
  MaxMembers = 3
INVARIANTS
  NoMemberLeftOut
PROPERTIES
  PromiseKept
  ComboSettles
