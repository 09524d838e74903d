CONSTANTS
    None = None
    a1 = a1
    a2 = a2
    a3 = a3
    Addresses = {a1, a2, a3}
    Unit = 2
    Rate = 3
    Burst = 4
    MaxIps = 2
    Choices <- MCChoices
    MaxActs = 3
    MaxTime = 1
SPECIFICATION FairSpec
INVARIANTS
    NothingLeftRunning
    RateBound
    BucketsBounded
PROPERTIES
    OptionsTakeEffect
CHECK_DEADLOCK FALSE
