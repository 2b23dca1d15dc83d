---------------------------- MODULE MCMemberships ---------------------------
(***************************************************************************)
(* Small instances of Memberships.                                         *)
(***************************************************************************)
EXTENDS Memberships, TLC

\* What the administrators of firms and their users do.
FirmOperations == {"create user", "update user", "delete user", "get me", "update me"}

\* Appointing, renaming and removing administrators who are members of a firm.
RenameOperations == {"create user", "rename admin", "delete admin", "get me"}

\* Requests differ in what they ask for, never in the slot they have.
Symmetries == Permutations(Firms) \cup Permutations(Slots)

=============================================================================
