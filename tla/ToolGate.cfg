SPECIFICATION GateFairSpec
CONSTANTS
    Plain = Plain
    Risky = Risky
    Inputs = {Plain, Risky}
    Modes <- MCModes
    RuleSets <- MCRuleSets
    ToolLists <- MCToolLists
    NoInput = NoInput
    MaxHooks = 2
    MaxCalls = 2
INVARIANTS
    RulesHold
    ModeHolds
    VetoHolds
PROPERTIES
    AbortEndsCalls
CHECK_DEADLOCK FALSE
