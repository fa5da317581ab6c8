SPECIFICATION Spec
CHECK_DEADLOCK FALSE
CONSTANTS
  d1 = d1  d2 = d2  u1 = u1  u2 = u2  n1 = n1  n2 = n2
  NoFace = NoFace  NoNonce = NoNonce
  Localhost = "localhost"  Localhop = "localhop"
  Faces = {d1, d2, u1}
  NonLocal = {d1, d2, u1}
  P2P = {d1, d2}
  AdHoc = {}
  Keys <- TwoKeys
  Data <- FreshData
  NextHops <- OneUpstream
  Nonces = {n1}
  Lifetimes = {1}
  Hops = {9}
  Tokens = {"own"}
  NextHopTags = {NoFace}
  SuppressionInitial = 1
  SuppressionMax = 2
  DnlLifetime = 2
  PmLimit = 1
  EmLimit = 1
  CacheUnsolicited = {}
  Removable = {}
  MaxTime = 2
  Strategies = {"best-route", "multicast"}
  Changeable <- LongerName
SYMMETRY Alike
PROPERTIES AnswersPending TokenReturned
