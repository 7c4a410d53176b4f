CONSTANTS
    Periods = {1, 2}
    MaxGap = 1
    MaxMessages = 2
    MaxFirings = 3
    MaxActions = 4
SPECIFICATION Spec
INVARIANTS
    MessagesShownOnce
    ModelNotAheadOfView
    OneUpdateTimer
PROPERTIES
    QuitEnds
CHECK_DEADLOCK FALSE
