SPECIFICATION GatewaySpec
CONSTANTS
  HandlerRequest = {h1, h2}
  Augments = TRUE
  MaxCooldown = 1
  Tool = {"t1", "t2"}
  MaxInputs = 3
  KiroWellBehaved = TRUE
  Bodies <- MCBodies
  Size <- MCSize
  UsageUnits = {"usage"}
  TailBytes = 3
  OpenAIMessages <- MCOpenAIMessages
  AnthropicMessages <- MCAnthropicMessages
  MaxMessages = 3
  Setups <- MCSetups
  MaxMembers = 2
  Replies <- MCReplies
  NONE = NONE
  EMPTY = EMPTY
  RegistryName <- MCRegistryName
  PrefixOf <- MCPrefixOf
  Catalogue <- MCCatalogue
  SeedSetsEnabled = {"kiro"}
  SeededOff <- MCSeededOff
  BareName = {"x", "n"}
  AliasPut = {p1}
  ComboId = {c1, c2}
  AliasTtl = 1
  ClientKey = {k1, k2}
  SettingValue = {v1, v2}
  MaxFlushes = 2
  MaxRequests = 2
  RingCap = 2
  MaxEvents = 2
  HighWater = 1
  MaxConnections = 2
  MaxLog = 3
  MaxVisits = 2
  MaxWrites = 2
  MaxActs = 3
INVARIANTS
  GatewayTypeOK
  HealthyAnswersDelivered
  ContentInItsBlock
  UsageSurvivesCuts
  ConversationReachesUpstream
  NamesResolveAsListed
  CachesCurrent
  ConsoleReplay
  PageShowsWhatWasSaved
PROPERTIES
  LocksBindEveryRoute
  StreamGrammar
CHECK_DEADLOCK FALSE
