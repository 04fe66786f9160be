SPECIFICATION Spec
CONSTANTS
    WORD = 16
    BUF = 10
    DOFS = 2
    NumPipes = 2
    Shapes = {"stamped"}
    MaxFrames = 3
INVARIANT
    RecordedTogether
