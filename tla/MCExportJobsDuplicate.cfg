\* One job, its event delivered twice and its enqueue answer possibly lost.
SPECIFICATION Spec
CONSTANTS
    p1 = p1
    None = None
    Jobs = {j1}
    Projects = {p1}
    ProjectOf <- MCProjectOf
    Async = TRUE
    PdfConverter = TRUE
    AmbiguousEnqueue = TRUE
    MaxCopies = 2
    MaxAttempts = 1
INVARIANTS
    NeverDocxOnly
PROPERTIES
    LifecycleAtLeastOnce
\* Every request and every event of the instance may have been used up.
CHECK_DEADLOCK FALSE
