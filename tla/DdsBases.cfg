SPECIFICATION Spec
CONSTANTS
    DOFS = 2
    NameCounts = {2, 3}
    MaxPeers = 2
    Callback = {c1, c2}
INVARIANTS
    PointersValid
    NothingSurvives
    MatchedExact
PROPERTIES
    SubscriberNoticed
