CONSTANTS
    MaxSent = 5
    Delimiter = Delimiter
SPECIFICATION Spec
INVARIANTS
    DeliveredExactly
PROPERTIES
    DeliversInOrder
CHECK_DEADLOCK FALSE
