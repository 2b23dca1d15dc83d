\* One run, its event delivered twice and its enqueue answer possibly lost.
SPECIFICATION Spec
CONSTANTS
    r1 = r1
    r2 = r2
    p1 = p1
    None = None
    Jobs = {r1}
    Projects = {p1}
    ProjectOf <- MCProjectOf
    SectionRuns <- MCSectionRuns
    DraftRuns <- MCDraftRuns
    Async = TRUE
    AmbiguousEnqueue = TRUE
    MaxCopies = 2
    MaxAttempts = 1
INVARIANTS
    SucceededDraftIsOnTimeline
    FinishedRunIsAudited
PROPERTIES
    LifecycleAtLeastOnce
\* Every request and every event of the instance may have been used up.
CHECK_DEADLOCK FALSE
