CONSTANTS
    w1 = w1
    w2 = w2
    Worker <- MCWorker
    NumJobs = 4
    Example <- MCExample
    Skip <- MCSkip
    Garbled <- MCGarbled
SPECIFICATION Spec
INVARIANTS
    NoJobLost
    SuccessMeansAllPassed
    InterruptStopsWork
    CopiedFilesAreWhole
PROPERTIES
    RunEnds
CHECK_DEADLOCK FALSE
