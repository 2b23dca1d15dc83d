\* Two requests at once of those that administrators of firms and users make.  A
\* request that dies exempts the one person there is, so none dies here.
SPECIFICATION Spec
CONSTANTS
    None = None
    Platform = Platform
    Slots = {s1, s2}
    Firms = {f1}
    Emails = {e1}
    MaxAccounts = 1
    Operations <- FirmOperations
    Crashes = FALSE
INVARIANTS
    LeaversAreLockedOut
SYMMETRY Symmetries
