\* Both modes: overflow, lost requests and answers, a reload of the server, expiry,
\* the subscription limit and stale polls.  With sync the loop converges on its
\* own, without polls; in stream mode polls make up for what streams miss.
CONSTANTS
    Elements = {e1}
    MaxPerClient = 1
    NoPoll = NoPoll
    MaxQueued = 2
    MaxVersion = 4
    MaxSeq = 5
    MaxReloads = 1
SPECIFICATION FairSpec
INVARIANTS
    GapsExact
    AppliedOnce
    PushesForward
PROPERTIES
    Converges
    Recovers
CHECK_DEADLOCK FALSE
