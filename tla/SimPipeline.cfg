SPECIFICATION Spec
CONSTANTS
    RING_CAPACITY = 2
    NS_PER_SEC = 2
    INT32_RANGE = 4
    Duration = 3
    MaxSeq = 5
    MaxElapse = 1
    MaxSubscribers = 1
INVARIANTS
    SlotExclusive
    SamplesIntact
    SamplesOrdered
PROPERTIES
    ImplementsChannel
    ImplementsThreads
