SPECIFICATION Spec
CONSTANTS
    NumTests = 2
    MaxInterrupts = 1
    FaultSets <- UpToTwoFaults
INVARIANTS
    SuccessMeansPass
CHECK_DEADLOCK FALSE
