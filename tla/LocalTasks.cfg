SPECIFICATION FairSpec
CONSTANTS
    MaxJobs = 2
    Tasks = {"process_trace", "check_eval_monitors", "bill_single_org", "retired_task"}
    Registered = {"process_trace", "check_eval_monitors", "bill_single_org"}
    Periodic = {"check_eval_monitors"}
    RetryOnTimeout = {"bill_single_org"}
    MaxRetries <- MCRetries
    MaxStarts = 2
    MaxFaults = 1
INVARIANTS
    SingleFlight
    AttemptsBounded
    PeriodicUnique
PROPERTIES
    ImplementsContract
    QueuedIsSettled
CHECK_DEADLOCK FALSE
