SPECIFICATION Spec
CONSTANTS
    ImuNames = {"nullptr", "empty", "pipe"}
INVARIANTS
    NoThreadOutlivesMain
    NothingLeftOpen
    SuccessMeansServed
PROPERTIES
    ImplementsThreads
    ShutdownCompletes
