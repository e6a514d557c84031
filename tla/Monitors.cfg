CONSTANTS
    m1 = m1
    m2 = m2
    Monitors = {m1, m2}
    OnlyIfChanged = {m1}
    MaxQueued = 1
    MaxFaults = 1
SPECIFICATION FairSpec
INVARIANT ActiveIsScheduled
PROPERTY EnqueuedOnce
PROPERTY StoredReachesRun
