SPECIFICATION FairSpec
CONSTANTS
    MaxRuns = 2
    MaxCrashes = 1
    MaxTurns = 2
    MaxCalls = 2
    CallKinds <- ToolKinds
    Sandboxes <- SandboxWrite
    Approvals <- PolicyRequest
    Terminals <- BOOLEAN
    RecentLimit = 2
    MinTurnsBetweenSummaries = 2
    Window = 8
    Budget = 4
    OutputCeiling = 5
    Margin = 1
    MinReply = 1
    ToolsTokens = 1
    Sizes <- OneSize
    MayFailWrites = TRUE
INVARIANTS
    NoOrphanToolResult
    GoalKept
    FinishHonest
PROPERTIES
    RunEnds
CHECK_DEADLOCK FALSE
