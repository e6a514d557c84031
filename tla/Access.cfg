SPECIFICATION FairSpec
CONSTANTS
    a = a
    b = b
    People = {a, b}
    o1 = o1
    o2 = o2
    o3 = o3
    Orgs = {o1, o2, o3}
    Onboarding = "onboarding"
    Slots = {"onboarding", "s2"}
    Names = {"onboarding", "other"}
    k1 = k1
    k2 = k2
    Keys = {k1, k2}
    c1 = c1
    Codes = {c1}
    r1 = r1
    r2 = r2
    Requests = {r1, r2}
    MaxOwned = 2
    Pool = 2
    MaxAborts = 1
    Workloads <- MixedOperations
    None = None
INVARIANTS
    FoundedWithinLimit
    WelcomedOnce
    OneKeyPerCode
PROPERTIES
    KeysForMembers
    RequestsEnd
CHECK_DEADLOCK FALSE
