SPECIFICATION FairSpec
CONSTANTS
    NumTests = 2
    MaxInterrupts = 1
    FaultSets <- UpToTwoFaults
INVARIANTS
    TypeOK
    DoneMeansAllConverted
    CleanRunIsComplete
    PeerIsOwn
    FailureIsNotForgotten
PROPERTIES
    ScriptsEnd
CHECK_DEADLOCK FALSE
