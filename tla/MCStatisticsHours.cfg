\* A measurement and a counter, hours of two ticks, one import at a time, fair.
CONSTANTS
    m1 = m1
    c1 = c1
    Measurements <- MeasuredM
    Counters <- CounterC
    Imports = {i1}
    TicksPerHour = 2
    Lookback = 3
    MaxHistoryRows = 9
    MaxDelay = 3
    Values = {1}
    MaxTick = 3
    MaxQueue = 1
    MaxCrashes = 1
SPECIFICATION FairSpec
INVARIANTS
    HoursWhole
PROPERTIES
    CaughtUp
CHECK_DEADLOCK FALSE
