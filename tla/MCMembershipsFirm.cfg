\* A firm invites an administrator.
SPECIFICATION Spec
CONSTANTS
    None = None
    Platform = Platform
    Slots = {s1}
    Firms = {f1}
    Emails = {e1}
    MaxAccounts = 1
    Operations <- AllOperations
    Crashes = FALSE
INVARIANTS
    AdminsBelongToPlatformOnly
SYMMETRY Symmetries
