SPECIFICATION FairSpec
CONSTANTS
    MaxTasks = 2
    Batches = {b1, b2}
    IdLists <- SomeLists
    Widths <- OneOrTwo
    Interferes = TRUE
INVARIANTS
    SliceBarrier
PROPERTIES
    NoneLeftRunning
CHECK_DEADLOCK FALSE
