\* Reads, follow-ups, and a change of the registries or the states.
CONSTANTS
    a1 = a1
    d1 = d1
    e1 = e1
    Areas = {a1}
    Devices = {d1}
    Entities = {e1}
    Registered = {e1}
    Home = Home
    None = None
    MaxAge = 0
    MaxChanges = 1
    Requests = {r1}
    IdLists <- ListAndDevice
    ServiceBacked = {e1}
    NoPayload = NoPayload
    DataTTL = 1
    MaxVersion = 2
    MaxPayload = 2
SPECIFICATION Spec
INVARIANTS
    EdgesFit
    SnapshotCurrent
    AnswerCurrent
    FollowUpCatchesUp
CHECK_DEADLOCK FALSE
