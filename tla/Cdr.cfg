SPECIFICATION CdrSpec
CONSTANTS
    Sample <- MCSample
    FrameLengths = {0, 3, 4}
    Slack = 1
INVARIANTS
    SizeExact
    RoundTrip
PROPERTIES
    CutBetweenMembers
