SPECIFICATION Spec
CONSTANTS
    Trace = trace
    Spans = {s1}
    Payloads = {p1, p2}
    Edits = {}
    Content <- MCContent
    p1 = p1
    p2 = p2
    Tag = label
    NoWriter = NoWriter
    FieldSets <- MCFieldSets
    MaxRetries = 1
    MaxFaults = 0
PROPERTIES
    AbsentFieldsKept
CHECK_DEADLOCK FALSE
