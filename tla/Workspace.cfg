SPECIFICATION WorkspaceSpec
CONSTANTS
    Prompts = {p1, p2}
    None = none
    MaxAttempts = 2
    SolarProcs = {s1, s2}
    SolarIds = 2
    SolarIterations = 2
    SolarCalls = 2
    SolarTurns = 2
    SkillNames <- Names
    NoName = noname
    SkillStem = "skill"
    SkillSanitized <- Sanitized
    SkillDirs <- Dirs
    SkillHome = "config/skills"
    SkillEntries <- Entries
    SkillSources <- Sources
    SkillInstallers = {i1, i2}
    ChainModels = 3
    ChainRetries = 2
    ChainBlocks = 2
SYMMETRY Symmetric
INVARIANTS
    ReplayIsLast
    ResumableIsWhole
    ListedIsRun
    LoneInstallsWhole
    ChainOutcome
PROPERTIES
    SavesExtend
CHECK_DEADLOCK FALSE
