SPECIFICATION Spec
CONSTANTS
    Packets <- MCPackets
    FragCount <- MCFragCount
    TxSpace = 7
    Starts = {4}
    maxRetx = 1
    seqNumLossThreshold = 1
    None = None
    MaxAcks = 1
    MaxForgotten = 1
INVARIANTS TypeOK WindowStart ListsInStep CountedOnce OnceUnlessForgotten
CHECK_DEADLOCK FALSE
PROPERTY RefinesChannel
