SPECIFICATION StreamsOnly
CONSTANTS
  c1 = c1  c2 = c2
  hosted = hosted  local = local
  ToolIndexes = {0, 1, 2}
  ToolKind <- MCToolKind
  Chunks <- MCChunks
  MaxChunks = 3
  MaxAttempts = 3
  Indexes = {0, 1}
  MaxSent = 5
  NoActive = NoActive
  NoItem = NoItem
  MaxWords = 3
  MaxBlock = 4
  Names = {"p", "q"}
  SchemaType <- MCSchemaType
  MaxDepth = 2
  MaxTokens = 5
  CallIds = {a, b}
  Modes = {"disabled", "think_tags", "field"}
  MaxMessages = 3
  MaxItems = 4
  NoCall = NoCall
  MaxCached = 1
  Stranger = Stranger
  Preferences = {"inherit", "off", "client", "low", "max"}
  MaxTools = 2
  MaxProperties = 3
  MaxAttemptsLeft = 2
  Keys = {0, 1, 2}
  Strategies = {"sequential", "round_robin"}
  PoolCallers = {c1, c2}
  RetryAfters = {}
  MaxKeyFailures = 1
  Root = 1
  Inner = {2, 3}
  StatusIds = {3}
  OtherRoot = 5
  MaxEvents = 4
  MaxLost = 1
  Updates <- MCUpdates
  MaxApplies = 2
  ProviderOrder <- MCProviderOrder
  LocalProviders = {local}
  SettingsSeen <- MCSettings
  Lists <- MCLists
  MaxReplacements = 2
  MaxRefreshes = 1
  MaxTests = 2
CHECK_DEADLOCK FALSE
INVARIANT RecoveredInputsWhole
