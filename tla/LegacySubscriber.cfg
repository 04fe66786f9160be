SPECIFICATION Spec
CONSTANTS
    MaxPeers = 2
    Callback = {c1, c2}
    PrintEvery = 2
    MaxSamples = 3
    MaxCount = 1
INVARIANTS
    PublishersCounted
    PrintsEveryNth
PROPERTIES
    SigintEnds
