SPECIFICATION StreamSpec
CONSTANTS
    CallCount = 2
    MaxPieces = 2
    MaxRetries = 1
    Chain = 2
INVARIANTS CliCallsDelivered
CHECK_DEADLOCK FALSE
