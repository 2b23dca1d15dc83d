\* One job, its event delivered twice and retried, its enqueue answer possibly lost.
SPECIFICATION FairSpec
CONSTANTS
    j1 = j1
    None = None
    Jobs = {j1}
    Async = TRUE
    AmbiguousEnqueue = TRUE
    MaxCopies = 2
    MaxAttempts = 2
INVARIANTS
    EveryResultWasAudited
PROPERTIES
    LifecycleAtLeastOnce
    JobsFinish
\* Every request and every event of the instance may have been used up.
CHECK_DEADLOCK FALSE
