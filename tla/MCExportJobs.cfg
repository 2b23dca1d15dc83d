\* One job, retried after crashes, with a PDF converter that may be late.
SPECIFICATION FairSpec
CONSTANTS
    p1 = p1
    None = None
    Jobs = {j1}
    Projects = {p1}
    ProjectOf <- MCProjectOf
    Async = TRUE
    PdfConverter = TRUE
    AmbiguousEnqueue = FALSE
    MaxCopies = 1
    MaxAttempts = 3
INVARIANTS
    TypeOK
    DocumentMatchesJob
    PdfMatchesDocument
PROPERTIES
    LifecycleFinal
    ExportsFinish
\* Every request and every event of the instance may have been used up.
CHECK_DEADLOCK FALSE
