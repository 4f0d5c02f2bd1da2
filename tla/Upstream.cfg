SPECIFICATION UpstreamSpec
CONSTANTS
  NONE = NONE
  TransportId <- MCTransportId
  TransportAccount = {a}
  KiroAccount = {a}
  TransportCall = {c1, c2}
  RowChoices <- MCRowChoices
  Patches <- MCPatches
  InitialTransports <- MCInitialTransports
  Assignments <- MCAssignments
  Globals <- MCGlobals
  EnvProxy = NONE
  CacheSize = 1
  ResolvedTtl = 1
  MaxAgents = 2
  MaxEdits = 1
  KiroCall = {k1, k2}
  BearerTtl = 1
  MaxTokens = 3
  MaxKiroEdits = 1
  Lifetime = 2
  MaxCodes = 2
  MaxPolls = 2
  QuotaAccount <- MCQuotaAccount
  Puller = {p1, p2}
  DayLength = 2
  KeepDays = 1
  MaxTime = 4
  MaxRows = 2
INVARIANTS
  UpstreamTypeOK
  ResolutionsCurrent
  NoDispatcherLeaks
  BlockedNeverDirect
  StoredTokenAccepted
PROPERTIES
  EditUndoneOnlyByOlderCopy
  PollingEnds
  RetentionWithinADay
CHECK_DEADLOCK FALSE
