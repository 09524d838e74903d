\* Two clients with a subscription each and one service-backed entity: registrations,
\* takeovers, expiry, overflow, late follow-ups and the limits, two at a time.
CONSTANTS
    Clients = {c1, c2}
    NoClient = NoClient
    SubIds = {s1, s2}
    Handles = {h1, h2}
    NoHandle = NoHandle
    Elements = {e1}
    ServiceElements = {e1}
    StructuralElements = {}
    MaxQueued = 1
    MaxPerClient = 1
    MaxTotal = 2
    MaxMonitored = 1
    MaxStreams = 1
    TTL = 0
    MaxVersion = 2
    MaxSeq = 2
SPECIFICATION Spec
SYMMETRY Interchangeable
INVARIANTS
    TypeOK
    WatchersAgree
    SlotIsOpen
    LimitsHold
PROPERTIES
    FanOutExact
    OnlyMonitoredQueued
CHECK_DEADLOCK FALSE
