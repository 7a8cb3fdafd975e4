SPECIFICATION FairSpec
CONSTANTS
    Recipients = {g1}
    MaxStreams = 1
    ChannelCapacity = 1
    Apps = {a, b}
    None = None
    Paths = {p}
    MaxEdits = 4
INVARIANTS
    StoredRoutesServed
PROPERTIES
    EventuallyRouted
