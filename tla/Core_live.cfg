\* Connections for two slots, requests for one, reloads, connection windows.
CONSTANTS
  Conns = {c1, c2, c3}
  Addrs = {a1, a2}
  Max = 2
  r1 = r1
  r2 = r2
  p1 = p1
  p2 = p2
  p3 = p3
  s1 = s1
  s2 = s2
  hup = hup
  post = post
  Policies <- ThreePolicies
  First = p1
  Edits <- Forward
  Sites <- TwoSites
  Balanced <- BalancedSites
  Reloaders = {hup, post}
  Requests = {r1, r2}
  IPs = {i1, i2, i3, i4}
  Window = 3
  MaxAttempts = 2
  MaxGlobal = 4
  MaxIPs = 3
  EvictEvery = 3
SPECIFICATION LiveSpec
INVARIANTS Accounting Bounded PoolsWhole LiveIsLatest WindowLimits
PROPERTIES GateReopens Drained PoolsFollow
