SPECIFICATION Spec
CONSTANTS
    WORD = 16
    BUF = 10
    DOFS = 3
    NumPipes = 2
    Shapes = {"stamped", "short"}
    MaxFrames = 3
INVARIANTS
    OwnPipe
PROPERTIES
    PublishedIsNew
    NewestShown
    ImplementsThread
