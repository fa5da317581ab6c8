SPECIFICATION Spec
CONSTANTS
  Component = {"a", "b", "c"}
  Digest = {"p", "q"}
  NoDigest = NoDigest
  Data <- MCData
  Rank <- MCRank
  Freshness <- MCFreshness
  Prefixes <- MCPrefixes
  Counts = {1, 9}
  Limits = {1, 2}
  ConfigLimits <- MCConfigLimits
  EraseLimit = 2
  MaxTime = 1
INVARIANTS TypeOK QueuesInStep WithinLimits NeverEvictsFromEmpty HitSatisfies
