CONSTANTS
    Programs <- NestedProgram
    PmpKinds = {"strict"}
    IrqMasks = {"irqbit"}
    LibcEcalls = {FALSE}
SPECIFICATION Spec
INVARIANT NestedTrapIsTheSoftwareIrq
CHECK_DEADLOCK FALSE
