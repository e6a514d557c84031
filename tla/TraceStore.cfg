SPECIFICATION FairSpec
CONSTANTS
    Trace = trace
    Spans = {s1}
    Payloads = {p1, p2}
    Edits = {e1}
    Content <- MCContent
    p1 = p1
    p2 = p2
    Tag = label
    NoWriter = NoWriter
    FieldSets <- MCFieldSets
    MaxRetries = 1
    MaxFaults = 2
INVARIANTS
    NewestStands
PROPERTIES
    OnlyNamedFields
    CountedIsStored
CHECK_DEADLOCK FALSE
