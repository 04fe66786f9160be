SPECIFICATION Spec
CONSTANTS
    Capacity = 2
    MaxSeq = 5
INVARIANTS
    ExitStatusHonest
PROPERTIES
    NoGap
    SignalEnds
