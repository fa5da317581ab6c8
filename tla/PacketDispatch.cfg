SPECIFICATION PacketSpec
CONSTANTS
    Component <- MCComponent
    LocalhostLike = {"localhost"}
    NWorkers = 2
    PrefixLength = 2
    CityHash64 <- MCHash
    Inputs = {i1}
    InterestNames <- MCInterestNames
    DataNames <- MCDataNames
    QueueLength = 1
INVARIANTS PacketTypeOK AnswersGoHome
