SPECIFICATION Spec
CONSTANTS
    MaxPeers = 2
    Callback = {c1}
    MaxDevices = 2
    MaxSent = 3
    MaxCount = 1
INVARIANTS
    OneDescriptor
PROPERTIES
    PublishedWhole
    Reconnects
    StopsUnlessSilent
