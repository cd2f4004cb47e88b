SPECIFICATION FairSpec
CONSTANTS
    IrqPrograms <- AllIrqPrograms
    IrqPlatforms <- AllPlatforms
    MaxTraps = 3
INVARIANTS
    TypeOK
    OneTrapAtATime
    TrapsAsNamed
PROPERTIES
    TrapsNest
    EveryTestPasses
    SoftwareIrqServed
CHECK_DEADLOCK FALSE
