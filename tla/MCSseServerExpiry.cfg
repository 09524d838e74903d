\* What README says of the idle-TTL expiry, with a client that disconnects early.
CONSTANTS
    Clients = {c1}
    NoClient = NoClient
    SubIds = {s1}
    Handles = {h1}
    NoHandle = NoHandle
    Elements = {e1}
    ServiceElements = {}
    StructuralElements = {}
    MaxQueued = 1
    MaxPerClient = 1
    MaxTotal = 1
    MaxMonitored = 1
    MaxStreams = 1
    TTL = 0
    MaxVersion = 2
    MaxSeq = 2
SPECIFICATION SseFairSpec
PROPERTIES
    IdleExpiry
CHECK_DEADLOCK FALSE
