\* One delivery per event and no lost answer: retries after crashes only.
SPECIFICATION FairSpec
CONSTANTS
    r1 = r1
    r2 = r2
    p1 = p1
    None = None
    Jobs = {r1, r2}
    Projects = {p1}
    ProjectOf <- MCProjectOf
    SectionRuns <- MCSectionRuns
    DraftRuns <- MCDraftRuns
    Async = TRUE
    AmbiguousEnqueue = FALSE
    MaxCopies = 1
    MaxAttempts = 2
INVARIANTS
    TypeOK
    TimelineMatchesRun
    TwoDraftsOnlyAfterCrash
PROPERTIES
    LifecycleFinal
    RunsFinish
\* Every request and every event of the instance may have been used up.
CHECK_DEADLOCK FALSE
