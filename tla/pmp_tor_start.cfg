CONSTANTS
    PmpTestPrograms <- EncodingTests
    PmpPlatforms <- StrictPlatforms
SPECIFICATION Spec
INVARIANT TorStartsAtStart
CHECK_DEADLOCK FALSE
