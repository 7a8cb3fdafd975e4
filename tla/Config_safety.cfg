SPECIFICATION Spec
CONSTANTS
    Recipients = {h1}
    MaxStreams = 2
    ChannelCapacity = 1
    Apps = {a, b}
    None = None
    Topics = {x}
    MaxEdits = 3
    MaxRotations = 1
SYMMETRY DataSymmetry
CONSTRAINT ThreeChanges
INVARIANTS
    StreamCarriesDifference
    RegisteredChannelOpen
