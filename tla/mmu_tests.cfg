SPECIFICATION Spec
CONSTANTS
    Entries = 1024
    RamPages = 128
    MmuPrograms <- AllMmuPrograms
    MmuPlatforms <- AllPlatforms
INVARIANTS
    TypeOK
    LastRequestWins
    AccessesReachWhatIsMeant
    SupervisorProgramIsClosed
    EndsInNamedTrap
CHECK_DEADLOCK FALSE
