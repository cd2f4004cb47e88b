SPECIFICATION Spec
CONSTANTS
    Half = 8
    Interval = 5
INVARIANTS
    TypeOK
    DueAfterInterval
CHECK_DEADLOCK FALSE
