SPECIFICATION FairInboxSpec
CONSTANTS
    e1 = e1
    w1 = w1
    w2 = w2
    w3 = w3
    Events = {e1}
    Workers = {w1, w2, w3}
    MaxInboxFaults = 2
INVARIANTS
    EffectsBounded
    AckedIsProcessed
PROPERTIES
    EventuallyHandled
