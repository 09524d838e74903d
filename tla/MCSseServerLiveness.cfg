\* The same two streams under fairness: delivery, and the end of every stream.
CONSTANTS
    Clients = {c1}
    NoClient = NoClient
    SubIds = {s1}
    Handles = {h1, h2}
    NoHandle = NoHandle
    Elements = {e1}
    ServiceElements = {}
    StructuralElements = {}
    MaxQueued = 1
    MaxPerClient = 1
    MaxTotal = 1
    MaxMonitored = 1
    MaxStreams = 1
    TTL = 0
    MaxVersion = 2
    MaxSeq = 1
SPECIFICATION SseFairSpec
PROPERTIES
    StreamDelivers
    AbandonedReclaimed
    ToldStreamsEnd
CHECK_DEADLOCK FALSE
