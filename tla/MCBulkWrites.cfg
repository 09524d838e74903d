\* Two bulks at once on two switches, beside a button, a lock and a device.
CONSTANTS
    e1 = e1
    e2 = e2
    b1 = b1
    k1 = k1
    d1 = d1
    unknown = unknown
    on = on
    off = off
    Requests = {r1, r2}
    Actuators = {e1, e2}
    Pressed = {b1}
    Fixed = {k1}
    Structural = {d1}
    Values = {on, off}
    Unusable = Unusable
    Breaking = Breaking
    Missing = Missing
    Unknown = unknown
    NoId = NoId
    Unavailable = Unavailable
    Bulks <- SmallBulks
    MaxOutside = 1
SPECIFICATION Spec
SYMMETRY Interchangeable
INVARIANTS
    LastWriteStands
    AnswersTell
PROPERTIES
    OnlyGranted
CHECK_DEADLOCK FALSE
