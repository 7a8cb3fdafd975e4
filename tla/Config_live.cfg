SPECIFICATION FairSpec
CONSTANTS
    Recipients = {h1}
    MaxStreams = 2
    ChannelCapacity = 1
    Apps = {a, b}
    None = None
    Topics = {x}
    MaxEdits = 1
    MaxRotations = 1
PROPERTIES
    DroppedStreamResyncs
    EventuallyCurrent
