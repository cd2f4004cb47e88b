CONSTANTS
    Programs <- TimerProgram
    PmpKinds = {"absent"}
    IrqMasks = {"zero"}
    LibcEcalls = {FALSE}
SPECIFICATION Spec
INVARIANT TimerIrqIsRecognised
CHECK_DEADLOCK FALSE
