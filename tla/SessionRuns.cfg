SPECIFICATION SessionSpec
CONSTANTS
    r1 = r1
    r2 = r2
    Runs = {r1, r2}
    Targets = 1
    m1 = m1
    Metrics = {m1}
    s1 = s1
    Signals = {s1}
    MaxRetries = 1
    MaxCrashes = 0
    MaxFaults = 0
    MaxEdits = 2
    Scale = 2
    Outputs <- MCOutputs
    Words <- MCWords
    Cosine <- MCCosine
    NoOutput = NoOutput
    MaxTraces = 13
    Weightings <- MCWeightings
    Contexts <- MCContexts
INVARIANTS
    CountersMatchScores
    SignalsOnce
    ScoresFollowSignals
CHECK_DEADLOCK FALSE
