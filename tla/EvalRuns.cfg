SPECIFICATION FairSpec
CONSTANTS
    r1 = r1
    Runs = {r1}
    Targets = 2
    m1 = m1
    m2 = m2
    Metrics = {m1, m2}
    MaxRetries = 2
    MaxCrashes = 1
    MaxFaults = 1
    MaxEdits = 2
INVARIANTS
    CountersMatchScores
    CompletedIsWhole
PROPERTIES
    AcceptedRunEnds
CHECK_DEADLOCK FALSE
