SPECIFICATION Spec
CONSTANTS
    Entries = 1024
    RamPages = 128
    MmuPrograms <- SimpleProgram
    MmuPlatforms <- AllPlatforms
INVARIANTS
    SameMemoryAsMachine
CHECK_DEADLOCK FALSE
