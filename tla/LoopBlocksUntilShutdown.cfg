SPECIFICATION Spec
CONSTANTS
    ImuNames = {"pipe"}
INVARIANT
    LoopBlocksUntilShutdown
