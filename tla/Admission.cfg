\* Gates, limits, scores, quotas, tokens, sessions and addresses, two clients at a time.
CONSTANTS
  r1 = r1
  r2 = r2
  Requests = {r1, r2}
  Routes <- SomeRoutes
  MaxInFlight = 2
  MaxBody = 1
  MaxDecoded = 2
  BudgetMax = 5
  Inflate = 2
  Coraza = TRUE
  DlpBlock = FALSE
  Bearers = {r1, r2}
  Tokens <- SomeTokens
  KeySets <- SomeKeySets
  KeyKind <- SomeKeyKinds
  Algorithms = {"RS256", "HS256"}
  Subjects = {"u", "v"}
  Ttl = 2
  MinRefresh = 1
  FetchTicks = 1
  Leeway = 1
  Word = 16
  MaxJti = 1
  KeepOneIn = 2
  MaxNow = 3
  MaxReloads = 1
  Suspects = {r1, r2}
  RiskIdentities <- SomeIdentities
  RiskPoints <- SomePoints
  Decay = 1
  SlowAt = 1
  BlockAt = 2
  MaxScore = 2
  BanTicks = 2
  StaleTicks = 1
  PathTicks = 1
  PathThreshold = 1
  AgentThreshold = 1
  MaxTracked = 1
  CleanupInterval = 2
  Visitors = {r1, r2}
  Sites = {"s"}
  Networks = {"n1", "n2"}
  Fingerprints = {"f"}
  Sessions = {}
  Identities <- OneFingerprint
  Inputs <- SomePaths
  WindowOf <- TwoTicks
  MaxOf <- OneOfEach
  Challenge = "pow"
  ChallengeScore = 40
  RotateNetworks = 2
  MaxNetworks = 2
  MaxKeys = 4
  SweepEvery = 2
  Queries = {r1, r2}
  QuotaKeys = {"k1", "k2"}
  Overlays = {"s", "t"}
  Quota <- TwoQuotas
  QuotaWindow <- TwoQuotaWindows
  Costs = {1, 2}
  MaxBooked = 1
  BookSweep = 2
  QuotaAge = 2
  Visits = {r1, r2}
  Peers = {"p"}
  Loopback = {"p"}
  HasToken = FALSE
  HasOidc = TRUE
  CertRole <- NoCertificates
  Users = {"ann"}
  UserRole <- SomeRoles
  Bind = FALSE
  Production = FALSE
  SessionTtl = 2
  PendingTtl = 1
  BodyTicks = 1
  ExchangeTicks = 1
  MaxSessions = 1
  RateMax = 1
  RateWindow = 1
  RatePeers = 1
  ApiSweepEvery = 2
  MaxIds = 3
  Addresses = {"p", "q", "c"}
  Trusted = {"p", "q"}
  Orders <- SomeOrders
  MaxHops = 2
  Files <- Blocks
  Inquiries <- Abouts
  Answers <- Replies
  HeadLen = 2
  ReadSize = 3
  MaxResponse = 5
  DefaultTimeout = 1
  MaxTimeout = 2
SPECIFICATION AdmissionSpec
SYMMETRY Symmetry
INVARIANTS WindowHeld BanServed SharedCap NoReplay
INVARIANTS WithdrawnKeyDies ReloadLateness OneSessionPerSignIn NearestUntrusted FailClosed
INVARIANTS RefusalsAreDenied Accounting DecisionObeyed
PROPERTIES KnownKid QuotaHeld
CHECK_DEADLOCK FALSE
