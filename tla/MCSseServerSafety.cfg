\* One subscription, one plain entity, two streams that take over from each other, a
\* queue of two batches; the manager and its queue keep their own promises under it.
CONSTANTS
    Clients = {c1}
    NoClient = NoClient
    SubIds = {s1}
    Handles = {h1, h2}
    NoHandle = NoHandle
    Elements = {e1}
    ServiceElements = {}
    StructuralElements = {}
    MaxQueued = 2
    MaxPerClient = 1
    MaxTotal = 1
    MaxMonitored = 1
    MaxStreams = 1
    TTL = 0
    MaxVersion = 3
    MaxSeq = 3
SPECIFICATION SseSpec
SYMMETRY Interchangeable
INVARIANTS
    SingleStream
    AtMostOnce
    QueuesInOrder
    NumbersContiguous
    ReadyCoversQueue
PROPERTIES
    ManagerSpec
    ChannelSpec
CHECK_DEADLOCK FALSE
