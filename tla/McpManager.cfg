SPECIFICATION McpFairSpec
CONSTANTS
    ServerCount <- ServerCountMC
    Tools <- ToolsMC
    Offers <- OffersMC
    Qualified <- QualifiedMC
    MaxPages <- MaxPagesMC
INVARIANTS CleanPipe GreetedFirst RetriesBounded RoutesSound
PROPERTIES OperationEnds
CHECK_DEADLOCK FALSE
