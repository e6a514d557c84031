CONSTANTS
    h1 = h1
    h2 = h2
    NumCategories = 1
    Base = 0
    FreeBase = 1
    MaxUsage = 2
    MaxPeriod = 2
    MaxFree = 1
    Hooks = {h1, h2}
    InOrder = FALSE
    Contended = TRUE
    MaxFaults = 1
SPECIFICATION SubscriptionsSpec
CONSTRAINT Bound
SYMMETRY HookSymmetry
CHECK_DEADLOCK FALSE
INVARIANT WatermarkIsInvoiced
INVARIANT InvoicedOnce
INVARIANT CalmlyInvoiced
INVARIANT FreeUsageEarned
INVARIANT PageTellsInvoices
