CONSTANTS
    h1 = h1
    h2 = h2
    NumCategories = 1
    Base = 1
    FreeBase = 1
    MaxUsage = 2
    MaxPeriod = 2
    MaxFree = 1
    Hooks = {h1}
    InOrder = FALSE
    Contended = FALSE
    MaxFaults = 0
SPECIFICATION SubscriptionsSpec
CHECK_DEADLOCK FALSE
INVARIANT CurrentPeriodBillable
