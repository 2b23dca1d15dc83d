\* Requests one after the other, any of which may die half way.  With one
\* email, an update of an administrator ("rename admin") changes the rest of
\* the profile only: after a change of the email the account that belongs to a
\* profile cannot be found (MCMembershipsTwoEmails.cfg).
SPECIFICATION Spec
CONSTANTS
    None = None
    Platform = Platform
    Slots = {s1}
    Firms = {f1, f2}
    Emails = {e1}
    MaxAccounts = 2
    Operations <- AllOperations
    Crashes = TRUE
INVARIANTS
    TypeOK
    SingleFirm
    LeaversAreLockedOut
    MembersHaveProfiles
    ReinvitesSucceed
PROPERTIES
    OnlyAppointmentsMakeAdmins
SYMMETRY Symmetries
