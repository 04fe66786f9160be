SPECIFICATION Spec
CONSTANTS
    WORD = 16
    BUF = 10
    NS_PER_SEC = 2
    INT32_RANGE = 4
    Shapes = {"stamped", "unstamped", "short", "joint"}
    MaxFrames = 4
    MaxSubscribers = 1
INVARIANTS
    ParsesExactly
    StampOfItsFrame
PROPERTIES
    SamplesFresh
    LatestWritten
    ImplementsThread
