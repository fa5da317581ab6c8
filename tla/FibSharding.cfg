SPECIFICATION Spec
CONSTANTS
    Component <- MCComponent
    LocalhostLike = {"localhost"}
    Localhost = "localhost"
    CityHash64 <- MCHash
    NWorkers = 2
    PrefixLength = 2
    Names <- MCNames
    Prefixes <- MCPrefixes
    f1 = f1
    f2 = f2
    Faces = {f1, f2}
    Requested <- MCRequested
    FibShardingOn = TRUE
    QueueBound = 1
INVARIANTS
    TypeOK
    ShardedLookup
    
    LookupDuringEmission
    NoDeadRecord
    LinksInStep
CHECK_DEADLOCK FALSE
