CONSTANTS
    PmpTestPrograms <- AllPmpPrograms
    PmpPlatforms <- AllPlatforms
SPECIFICATION Spec
INVARIANTS
    TypeOK
    TrapAsNamed
    EntriesCoverTheirRegions
PROPERTIES
    PmpGuarded
    PmpTestsPass
CHECK_DEADLOCK FALSE
