SPECIFICATION FairSpec
CONSTANTS
    IrqPrograms <- NestedEcallProgram
    IrqPlatforms <- AllPlatforms
    MaxTraps = 3
PROPERTIES
    InterruptedMainResumes
CHECK_DEADLOCK FALSE
