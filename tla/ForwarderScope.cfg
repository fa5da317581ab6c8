SPECIFICATION Spec
CHECK_DEADLOCK FALSE
CONSTANTS
  d1 = d1  d2 = d2  u1 = u1  u2 = u2  n1 = n1  n2 = n2
  NoFace = NoFace  NoNonce = NoNonce
  Localhost = "localhost"  Localhop = "localhop"
  Faces = {d1, d2, u1}
  NonLocal = {d2, u1}
  P2P = {d1, d2}
  AdHoc = {u1}
  Keys <- ScopedKeys
  Data <- ScopedData
  NextHops <- EveryoneIsNextHop
  Nonces = {n1}
  Lifetimes = {1}
  Hops = {1, 9}
  Tokens = {"none"}
  NextHopTags = {NoFace, d1, u1}
  SuppressionInitial = 1
  SuppressionMax = 2
  DnlLifetime = 2
  PmLimit = 0
  EmLimit = 1
  CacheUnsolicited = {d1}
  Removable = {u1}
  MaxTime = 1
  Strategies = {"best-route", "multicast"}
  Changeable = {}
INVARIANTS ScopeKept
