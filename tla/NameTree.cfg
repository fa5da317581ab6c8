SPECIFICATION Spec
CHECK_DEADLOCK FALSE
CONSTANTS
  FibNames <- MCFibNames
  PitNames <- MCPitNames
  ChoiceNames <- MCChoiceNames
  MeasNames <- MCMeasNames
  Component = {"a", "b", "digest"}
  Digest = "digest"
  ComponentHash <- MCComponentHash
  Hash <- MCHash
  Faces = {f1}
  Strategies <- MCStrategies
  MinBuckets = 1
  expandLoadFactor = 50
  expandFactor = 2
  shrinkLoadFactor = 25
  shrinkDivisor = 2
INVARIANTS TreeInStep StrategyInfoFits  TokenFindsEntry
PROPERTY NodesFreed
