\* One counter through three hours of two ticks, with a lookback of one hour.
CONSTANTS
    m1 = m1
    c1 = c1
    Measurements <- NoList
    Counters <- CounterC
    Imports = {i1, i2}
    TicksPerHour = 2
    Lookback = 1
    MaxHistoryRows = 1
    MaxDelay = 1
    Values = {1}
    MaxTick = 6
    MaxQueue = 1
    MaxCrashes = 1
SPECIFICATION Spec
INVARIANTS
    NoHourSkipped
CHECK_DEADLOCK FALSE
