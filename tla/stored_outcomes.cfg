SPECIFICATION StoredOnly
CONSTANTS
  c1 = c1  c2 = c2  c3 = c3  c4 = c4
  a1 = a1  a2 = a2  x1 = x1  x2 = x2
  r1 = r1  r2 = r2  s0 = s0
  f1 = f1  f2 = f2  f3 = f3  m1 = m1  m2 = m2  m3 = m3
  Openings = {o1, o2}
  MaxTokens = 2
  MaxOpenAttempts = 2
  MaxNamed = 2
  Callers = {c1, c2, c3, c4}
  Limit = 2
  Window = 3
  MaxLag = 1
  MaxIdle = 1
  MaxFrames = 2
  MaxCancels = 2
  MaxVersions = 2
  MaxRestarts = 2
  MaxRelaunches = 2
  MaxFailures = 2
  Chats = {h1}
  Messages = {m1}
  Cap = 1
  Timers = {t1, t2}
  MaxVersion = 2
  MaxFailedWrites = 1
  MaxCrashes = 1
  MaxAsks = 2
  MaxOrders = 2
  MaxDeaths = 1
  SlowRuns = TRUE
  NoTree = NoTree
  Fresh = Fresh
  Nobody = Nobody
  Runs = {r1, r2}
  Conversations <- MCConversations
  Cancels = 1
  MaxPrompts = 2
  Directives = {d1}
  MaxRefusals = 1
  Flows = {f1, f2, f3}
  MessageOf <- MCMessageOf
  Commands = {}
  NoFlow = NoFlow
  Clients = {c1}
  Admins <- MCAdmins
  Closers <- MCClosers
  Cancellable <- OneOfEach
  MaxRuntimes = 3
  None = None
  Events = {e1, e2}
  Notices = {n1, n2}
  MaxPlatformFaults = 2
  Doomed <- MCDoomed
  BatchSize = 2
CHECK_DEADLOCK FALSE
PROPERTY OutcomesKept
