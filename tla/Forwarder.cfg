SPECIFICATION Spec
CHECK_DEADLOCK FALSE
CONSTANTS
  d1 = d1  d2 = d2  u1 = u1  u2 = u2  n1 = n1  n2 = n2
  NoFace = NoFace  NoNonce = NoNonce
  Localhost = "localhost"  Localhop = "localhop"
  Faces = {d1, d2, u1, u2}
  NonLocal = {d1, d2, u1, u2}
  P2P = {d1, d2, u1, u2}
  AdHoc = {}
  Keys <- OneKey
  Data <- OneData
  NextHops <- BothUpstreams
  Nonces = {n1, n2}
  Lifetimes = {2}
  Hops = {9}
  Tokens = {"none"}
  NextHopTags = {NoFace}
  SuppressionInitial = 1
  SuppressionMax = 2
  DnlLifetime = 2
  PmLimit = 0
  EmLimit = 0
  CacheUnsolicited = {}
  Removable = {}
  MaxTime = 3
  Strategies = {"best-route", "multicast"}
  Changeable = {}
INVARIANTS TypeOK WaitsForSomeone
 
