\* An administrator whose email was changed is invited by two firms, one after the other.
SPECIFICATION Spec
CONSTANTS
    None = None
    Platform = Platform
    Slots = {s1}
    Firms = {f1, f2}
    Emails = {e1, e2}
    MaxAccounts = 1
    Operations <- RenameOperations
    Crashes = FALSE
INVARIANTS
    SingleFirm
SYMMETRY Symmetries
