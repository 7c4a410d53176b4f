CONSTANTS
    Delays = {0, 1}
    MaxEvents = 4
SPECIFICATION Spec
INVARIANTS
    UnscheduledEventsIsExact
    HandlesAreExact
    FlagMissesNothing
PROPERTIES
    KeepsOrder
CHECK_DEADLOCK FALSE
