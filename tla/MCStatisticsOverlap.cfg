\* One counter: imports that overlap, fail and are cut off by a crash.
CONSTANTS
    m1 = m1
    c1 = c1
    Measurements <- NoList
    Counters <- CounterC
    Imports = {i1, i2}
    TicksPerHour = 1
    Lookback = 2
    MaxHistoryRows = 9
    MaxDelay = 2
    Values = {1, 2}
    MaxTick = 3
    MaxQueue = 1
    MaxCrashes = 1
SPECIFICATION Spec
INVARIANTS
    RecentHoursStored
    NeverDoubleCounts
CHECK_DEADLOCK FALSE
