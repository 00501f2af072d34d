CONSTANTS
    Jobs = 3
    Schedule <- Schedules
    MaxTime = 9
    Modes = {"default", "dontAsk"}
    MaxEdits = 3
    Agents = {"a1", "a2"}
    Crons = {"c1", "c2"}
    About <- AboutCrons
    MaxLaneFaults = 2
    Bundled = {"b"}
    External = {"e"}
    MaxVersion = 2
    MaxFaults = 2
    Prompts = {"p1", "p2"}
    CompletionTtl = 2
    PromptTtl = 3
    MinDrop = 1
    MaxRead = 1
    MaxClock = 5
    PipeSize = 2
    MaxOutput = 3
    Timeouts = {1, 2}
    MaxElapsed = 3
SPECIFICATION ControlSpec
INVARIANTS
    OncePerMinute
    PlanModeGivesBack
    CronsOffWithReason
    ManifestAgreesWithReport
    PluginSyncRepairs
    PluginMemoryFollowsSettings
    ExitedIsWhole
PROPERTIES
    UnexpectedIsRecent
    TimedCallReturns
CHECK_DEADLOCK FALSE
