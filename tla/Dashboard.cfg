SPECIFICATION DashboardSpec
CONSTANTS
    Times = {1, 2, 3}
    Scale = 4
    Buckets = 2
    Period = 2
    ScoreKinds <- MCScoreKinds
    RunKinds <- MCRunKinds
    TraceKinds <- MCTraceKinds
    Listings <- MCListings
    Limit = 1
    DetailLimit = 2
    MaxCommits = 2
    None = None
INVARIANTS
    PagesSkipNothing
    PagesRepeatNothing
    DetailAddsUp
    FiguresAgree
CHECK_DEADLOCK FALSE
