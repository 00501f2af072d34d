SPECIFICATION Spec
CONSTANTS
    MaxRuns = 2
    MaxCrashes = 0
    MaxTurns = 2
    MaxCalls = 2
    CallKinds <- FileKinds
    Sandboxes <- SandboxWrite
    Approvals <- PolicyFailure
    Terminals <- NoTerminal
    RecentLimit = 3
    MinTurnsBetweenSummaries = 2
    Window = 12
    Budget = 5
    OutputCeiling = 5
    Margin = 1
    MinReply = 1
    ToolsTokens = 1
    Sizes <- OneSize
    MayFailWrites = FALSE
INVARIANTS
    GoalAlwaysKept
CHECK_DEADLOCK FALSE
