CONSTANTS
    Programs <- AllPrograms
    PmpKinds = {"absent", "strict", "qemu6"}
    IrqMasks = {"irqbit", "zero", "one"}
    LibcEcalls = {TRUE, FALSE}
SPECIFICATION FairSpec
INVARIANTS
    TypeOK
    FuncRunsAtItsLevel
    LevelInv
    DelegatedEcallsStayInSupervisor
    PassIsEarned
    LadderHolds
    StiGoesWhereTested
    UnfinishedTestsNeverPass
PROPERTIES
    LadderClimbed
    EnabledTestsPass
    StiIsTaken
    TimerKeepsFiring
    SoftwareIrqIsServed
CHECK_DEADLOCK FALSE
