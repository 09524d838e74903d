CONSTANTS
    n = n
    s = s
    d = d
    Entities = {n, s}
    Numeric = {n}
    Structured = {s}
    Devices = {d}
    Components <- MCComponents
    HourLength = 2
    MaxHistoryRows = 3
    Requests <- MCRequests
    Windows <- MCWindows
    MaxTime = 3
    MaxReadings = 2
SPECIFICATION Spec
INVARIANTS
    NothingSilentlyMissing
    Chronological
    PartialIsTold
    WriteBackAccepted
CHECK_DEADLOCK FALSE
