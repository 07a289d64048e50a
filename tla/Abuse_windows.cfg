\* One client of two sites whose quotas have different windows.
CONSTANTS
  Visitors = {r1}
  Sites = {"long", "short"}
  Networks = {"n"}
  Fingerprints = {"f"}
  Sessions = {}
  Identities <- Clients
  Inputs <- SignUps
  WindowOf <- TwoWindows
  MaxOf <- OneEach
  Challenge = "none"
  ChallengeScore = 0
  RotateNetworks = 2
  MaxNetworks = 2
  MaxKeys = 9
  SweepEvery = 2
SPECIFICATION AbuseSpec
INVARIANTS SharedCap
CHECK_DEADLOCK FALSE
