SPECIFICATION FairSpec
CONSTANTS
    Calls = {c1, c2}
    MaxPages = 2
    SendMayFail = TRUE
INVARIANTS
    AnswersMatch
PROPERTIES
    CloseSettles
CHECK_DEADLOCK FALSE
