SPECIFICATION StreamFairSpec
CONSTANTS
    CallCount = 2
    MaxPieces = 2
    MaxRetries = 1
    Chain = 2
INVARIANTS AgentCallsDelivered
PROPERTIES HandsOutBlocks StreamEnds
CHECK_DEADLOCK FALSE
