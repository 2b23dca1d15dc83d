----------------------------- MODULE Memberships ----------------------------
(***************************************************************************)
(* Users and their memberships: services/user.py, services/                *)
(* platform_tenant.py, the login half of services/tenant.py, and the       *)
(* Cognito pool behind services/cognito.py.                                *)
(*                                                                         *)
(* A person is three things in two systems: a profile and memberships in   *)
(* the store, an account in Cognito.  Every operation changes several of   *)
(* them one after the other, from copies it read before, and may die in    *)
(* between.  A slot is one request in flight; each action is one write to  *)
(* the store or one call of the provisioner, or the reads up to the next   *)
(* of these.  With one slot, requests follow one another.                  *)
(*                                                                         *)
(* A row that is read may be overlooked: DynamoDBStore._get makes None of  *)
(* an error, reads are eventually consistent, and the index of memberships *)
(* follows the rows.  What cannot be found leads where a missing row does. *)
(* Two things are taken for granted: who appoints or repairs an            *)
(* administrator finds the rows of the Platform tenant (otherwise there is *)
(* another one, see Tenants, or the memberships in firms stay), and the    *)
(* listing that decides whether a profile is deleted shows what earlier    *)
(* requests did.                                                           *)
(*                                                                         *)
(* Left out: names, phones and dates; the audit events at the end of each  *)
(* operation; the check that the caller is an administrator (somebody who  *)
(* is, outside the modelled people, makes the calls); deployments without  *)
(* a Cognito pool.  Of the roles only PlatformAdmin is told apart, and     *)
(* only in the Platform tenant, the one place where the code asks for it.  *)
(* An email is its normal form.                                            *)
(***************************************************************************)
EXTENDS Naturals, FiniteSets

CONSTANTS
    Slots,         \* the requests that can be in flight at once
    Firms,         \* the tenants other than the Platform tenant
    Platform,      \* the Platform tenant, which every process creates at start
    Emails,        \* email addresses, which are Cognito usernames
    MaxAccounts,   \* bound: accounts ever created under one email
    Operations,    \* bound: the operations that are called
    Crashes,       \* may a request die between two accesses?
    None           \* an absent row

AllOperations == {"create user", "update user", "delete user", "create admin",
                  "rename admin", "invalidate invite", "delete admin", "grant",
                  "backfill", "get me", "update me"}

Tenants == Firms \cup {Platform}

\* A user id is the sub of the Cognito account the profile was made for: here
\* the email and how many accounts that email had.
Users == Emails \X (1 .. MaxAccounts)

Roles    == {"MEMBER", "PLATFORM_ADMIN"}
Statuses == {"INVITED", "ACTIVE", "DISABLED"}
Members  == [role : Roles, status : Statuses]
Accounts == [sub : Users, enabled : BOOLEAN]

ASSUME MembershipsAssumption ==
    /\ Platform \notin Firms
    /\ MaxAccounts \in Nat \ {0}
    /\ Operations \subseteq AllOperations
    /\ Crashes \in BOOLEAN
    /\ None \notin Emails \cup Tenants \cup Users \cup Members \cup Accounts

\* What an update may leave alone.
Keep == "KEEP"

VARIABLES
    profiles,      \* profiles[u]: the email in the profile row of u
    memberships,   \* memberships[t][u]: the membership row of u in t
    admins,        \* the users with a PLATFORM_ADMIN row (the flag)
    accounts,      \* accounts[e]: the Cognito account of e
    created,       \* created[e]: how many accounts e has had
    sessions,      \* the users that hold a token, which outlives their account
    requests,      \* requests[s]: the request in slot s
    unfinished,    \* the people about whom a request died half way, or did not
                   \* find the profile that names the account to close
    misread        \* the people of whom an invitation overlooked a row

store  == <<profiles, memberships, admins>>
pool   == <<accounts, created>>
vars   == <<profiles, memberships, admins, accounts, created, sessions,
            requests, unfinished, misread>>

-----------------------------------------------------------------------------
(* Requests *)

\* A request: its operation, its next access, its arguments, and the copies it
\* holds: the membership to put (copy) and the listed rows to work off (todo).
Idle == [op |-> "none", at |-> "idle", tenant |-> None, email |-> None,
         user |-> None, role |-> Keep, want |-> Keep, copy |-> None, todo |-> {}]

At(s, step) == requests[s].at = step

Becomes(s, request) ==
    /\ requests' = [requests EXCEPT ![s] = request]
    /\ UNCHANGED sessions

\* A request arrives.
Opens(s, request) ==
    /\ At(s, "idle")
    /\ request.op \in Operations
    /\ Becomes(s, request)

Start(s, request) == Opens(s, request) /\ UNCHANGED <<unfinished, misread>>

\* The request goes on with another access, or answers.
Continue(s, request) == Becomes(s, request) /\ UNCHANGED <<unfinished, misread>>

Goto(s, step) == Continue(s, [requests[s] EXCEPT !.at = step])

Return(s) == Continue(s, Idle)

Concerns(s, e) ==
    /\ ~At(s, "idle")
    /\ requests[s].email = e \/ (requests[s].user # None /\ requests[s].user[1] = e)

Settled(e) == e \notin unfinished /\ \A s \in Slots : ~Concerns(s, e)

Init ==
    /\ profiles = [u \in Users |-> None]
    /\ memberships = [t \in Tenants |-> [u \in Users |-> None]]
    /\ admins = {}
    /\ accounts = [e \in Emails |-> None]
    /\ created = [e \in Emails |-> 0]
    /\ sessions = {}
    /\ requests = [s \in Slots |-> Idle]
    /\ unfinished = {}
    /\ misread = {}

-----------------------------------------------------------------------------
(* Reading *)

IsMember(u, t) == memberships[t][u] # None

TenantsOf(u) == {t \in Tenants : IsMember(u, t)}

\* is_platform_admin_user
IsPlatformAdmin(u) ==
    \/ u \in admins
    \/ /\ IsMember(u, Platform)
       /\ memberships[Platform][u].role = "PLATFORM_ADMIN"
       /\ memberships[Platform][u].status \in {"ACTIVE", "INVITED"}

\* _profile_by_email: any member or flagged user with that email; failing that
\* the profile of the account, if it still has the email.
ProfilesByEmail(e) ==
    LET known == {u \in Users : profiles[u] = e /\ (TenantsOf(u) # {} \/ u \in admins)}
        orphan == {u \in Users : profiles[u] = e /\ accounts[e] # None
                                                 /\ accounts[e].sub = u}
    IN  IF known # {} THEN known ELSE orphan

\* What a look-up can find when it overlooks some of the rows.
Findable(e) == {u \in Users : /\ profiles[u] = e
                              /\ \/ TenantsOf(u) # {}
                                 \/ u \in admins
                                 \/ accounts[e] # None /\ accounts[e].sub = u}

\* The profile of u is read for its email.  When it is there and not found,
\* the account will stay as it is.
ReadsEmail(u, email) ==
    /\ email \in {profiles[u], None}
    /\ unfinished' = unfinished \cup (IF email = profiles[u] THEN {} ELSE {u[1]})
    /\ UNCHANGED misread

\* Broken: a member who has not accepted an invitation yet may be taken.
BelongsToActiveFirm(u, t) ==
    \E f \in TenantsOf(u) \ {t} :
        f # Platform /\ t # Platform /\ memberships[f][u].status # "INVITED"

\* _assert_single_tenant_membership raises.
BelongsElsewhere(u, t) == \E f \in TenantsOf(u) \ {t} : f # Platform /\ t # Platform

-----------------------------------------------------------------------------
(* create_user, create_platform_admin: find the person, or make an account *)

\* POST /v1/users; the invitation of a tenant's administrator; the second half
\* of create_tenant_with_admin.  A password or invite = false makes the
\* membership ACTIVE at once.
CreateUser(s, t, e, role, want) ==
    /\ Start(s, [Idle EXCEPT !.op = "create user", !.at = "look up", !.tenant = t,
                             !.email = e, !.role = role, !.want = want])
    /\ UNCHANGED <<store, pool>>

CreatePlatformAdmin(s, e, want) ==
    /\ Start(s, [Idle EXCEPT !.op = "create admin", !.at = "look up",
                             !.email = e, !.want = want])
    /\ UNCHANGED <<store, pool>>

\* Nobody is found when there is nobody, or when a read gave nothing.
LookUp(s) ==
    LET r == requests[s]
        known == ProfilesByEmail(r.email)
    IN  /\ At(s, "look up")
        /\ \E u \in Findable(r.email) \cup {None} :
              /\ Becomes(s, [r EXCEPT !.user = u,
                      !.at = IF u = None THEN "provision"
                             ELSE IF r.op = "create user" THEN "check" ELSE "set flag"])
              /\ misread' = misread \cup
                     (IF u \in known \/ (u = None /\ known = {}) THEN {} ELSE {r.email})
        /\ UNCHANGED <<unfinished, store, pool>>

\* A member of another firm, or already of this one, is a conflict; so is any
\* member when the row of the Platform tenant is not found.  A membership that
\* is not found does not keep the request from going on.
Check(s) ==
    LET r == requests[s]
        overlooked == BelongsElsewhere(r.user, r.tenant)
    IN  /\ At(s, "check")
        /\ \/ /\ TenantsOf(r.user) # {}
              /\ Return(s)
           \/ /\ Becomes(s, [r EXCEPT !.at = "restore profile"])
              /\ misread' = misread \cup (IF overlooked THEN {r.user[1]} ELSE {})
              /\ UNCHANGED unfinished
        /\ UNCHANGED <<store, pool>>

RestoreProfile(s) ==
    LET r == requests[s]
    IN  /\ At(s, "restore profile")
        /\ profiles' = [profiles EXCEPT ![r.user] = r.email]
        /\ Goto(s, IF r.want = "INVITED" THEN "reinvite" ELSE "add member")
        /\ UNCHANGED <<memberships, admins, pool>>

Enable(e) == accounts' = [accounts EXCEPT ![e].enabled = TRUE]

\* reinvite_existing_user; without an account it raises, which is a conflict.
Reinvite(s) ==
    LET e == requests[s].email
    IN  /\ At(s, "reinvite")
        /\ IF accounts[e] = None
           THEN Return(s) /\ UNCHANGED pool
           ELSE Enable(e) /\ Goto(s, "add member") /\ UNCHANGED created
        /\ UNCHANGED store

\* provision_user: a new account with a new sub, or the existing one enabled.
Provision(s) ==
    LET r == requests[s]
        e == r.email
    IN  /\ At(s, "provision")
        /\ \/ /\ accounts[e] = None
              /\ created[e] < MaxAccounts
              /\ LET u == <<e, created[e] + 1>>
                 IN  /\ accounts' = [accounts EXCEPT ![e] = [sub |-> u, enabled |-> TRUE]]
                     /\ created' = [created EXCEPT ![e] = @ + 1]
                     /\ Continue(s, [r EXCEPT !.user = u, !.at = "store profile"])
           \/ /\ accounts[e] # None
              /\ Enable(e)
              /\ Continue(s, [r EXCEPT !.user = accounts[e].sub, !.at = "store profile"])
              /\ UNCHANGED created
        /\ UNCHANGED store

\* Cognito refuses.
ProvisionRaises(s) ==
    /\ At(s, "provision")
    /\ Return(s)
    /\ UNCHANGED <<store, pool>>

StoreProfile(s) ==
    LET r == requests[s]
    IN  /\ At(s, "store profile")
        /\ profiles' = [profiles EXCEPT ![r.user] = r.email]
        /\ Goto(s, IF r.op = "create user" THEN "add member" ELSE "set flag")
        /\ UNCHANGED <<memberships, admins, pool>>

AddMember(s) ==
    LET r == requests[s]
    IN  /\ At(s, "add member")
        /\ memberships' = [memberships EXCEPT ![r.tenant][r.user] =
                               [role |-> r.role, status |-> r.want]]
        /\ Return(s)
        /\ UNCHANGED <<profiles, admins, pool>>

-----------------------------------------------------------------------------
(* update_user, delete_user *)

\* Broken: a field that the caller left out is stored as well.
UpdateUserStoresUnset(s, t, u, role, want) ==
    /\ profiles[u] # None
    /\ IsMember(u, t)
    /\ Start(s, [Idle EXCEPT !.op = "update user", !.tenant = t, !.user = u,
            !.email = profiles[u], !.copy = [role |-> role, status |-> want],
            !.at = IF want = "DISABLED" THEN "disable" ELSE "put profile"])
    /\ UNCHANGED <<store, pool>>

\* The profile and the membership are read, and put back changed or not.
UpdateUser(s, t, u, role, want) ==
    LET old == memberships[t][u]
        new == [role   |-> IF role = Keep THEN old.role ELSE role,
                status |-> IF want = Keep THEN old.status ELSE want]
    IN  /\ profiles[u] # None
        /\ IsMember(u, t)
        /\ Start(s, [Idle EXCEPT !.op = "update user", !.tenant = t, !.user = u,
                !.email = profiles[u], !.copy = new,
                !.at = IF want = "DISABLED" THEN "disable" ELSE "put profile"])
        /\ UNCHANGED <<store, pool>>

\* disable_user, which ignores an email that has no account.
Disable(s) ==
    LET r == requests[s]
    IN  /\ At(s, "disable")
        /\ IF accounts[r.email] = None
           THEN UNCHANGED accounts
           ELSE accounts' = [accounts EXCEPT ![r.email].enabled = FALSE]
        /\ IF r.op = "update user" THEN Goto(s, "put profile") ELSE Return(s)
        /\ UNCHANGED <<store, created>>

PutProfile(s) ==
    LET r == requests[s]
    IN  /\ At(s, "put profile")
        /\ profiles' = [profiles EXCEPT ![r.user] = r.email]
        /\ CASE r.op = "update user"  -> Goto(s, "put member")
             [] r.op = "update me"    -> Goto(s, "list invited")
             [] r.op = "rename admin" -> Return(s)
        /\ UNCHANGED <<memberships, admins, pool>>

PutMember(s) ==
    LET r == requests[s]
    IN  /\ At(s, "put member")
        /\ memberships' = [memberships EXCEPT ![r.tenant][r.user] = r.copy]
        /\ IF r.op = "invalidate invite" THEN Goto(s, "clear flag") ELSE Return(s)
        /\ UNCHANGED <<profiles, admins, pool>>

DeleteUser(s, t, u) ==
    /\ IsMember(u, t)
    /\ \E email \in {profiles[u], None} :
          /\ Opens(s, [Idle EXCEPT !.op = "delete user", !.at = "remove member",
                                   !.tenant = t, !.user = u, !.email = email])
          /\ ReadsEmail(u, email)
    /\ UNCHANGED <<store, pool>>

\* What follows when the profile that was read, if any, gives an email.
DisableOrReturn(s) ==
    IF requests[s].email = None THEN Return(s) ELSE Goto(s, "disable")

\* Broken: an invited person has no account to disable yet, the caller thinks.
RemoveMemberKeepsInvited(s) ==
    LET r == requests[s]
    IN  /\ At(s, "remove member")
        /\ memberships' = [memberships EXCEPT ![r.tenant][r.user] = None]
        /\ CASE r.op = "delete admin" -> Goto(s, "list remaining")
             [] r.op = "delete user" /\ IsMember(r.user, r.tenant)
                  /\ memberships[r.tenant][r.user].status = "INVITED" -> Return(s)
             [] OTHER -> DisableOrReturn(s)
        /\ UNCHANGED <<profiles, admins, pool>>

RemoveMember(s) ==
    LET r == requests[s]
    IN  /\ At(s, "remove member")
        /\ memberships' = [memberships EXCEPT ![r.tenant][r.user] = None]
        /\ IF r.op = "delete admin" THEN Goto(s, "list remaining") ELSE DisableOrReturn(s)
        /\ UNCHANGED <<profiles, admins, pool>>

-----------------------------------------------------------------------------
(* Platform administrators *)

\* POST /v1/admin/platform-admins/{user_id}
GrantPlatformAdmin(s, u) ==
    /\ profiles[u] # None
    /\ Start(s, [Idle EXCEPT !.op = "grant", !.at = "set flag", !.user = u])
    /\ UNCHANGED <<store, pool>>

\* The callers set the flag before ensure_platform_admin_membership, which sets
\* it again.
SetFlag(s) ==
    /\ At(s, "set flag") \/ At(s, "confirm flag")
    /\ admins' = admins \cup {requests[s].user}
    /\ Goto(s, IF At(s, "set flag") THEN "ensure" ELSE "list firms")
    /\ UNCHANGED <<profiles, memberships, pool>>

FullMember == [role |-> "PLATFORM_ADMIN", status |-> "ACTIVE"]

\* ensure_platform_admin_membership: a membership of another kind, or none that
\* is found, is replaced.
Ensure(s) ==
    /\ At(s, "ensure")
    /\ \/ /\ memberships[Platform][requests[s].user] = FullMember
          /\ Goto(s, "confirm flag")
       \/ Goto(s, "put platform member")
    /\ UNCHANGED <<store, pool>>

PutPlatformMember(s) ==
    /\ At(s, "put platform member")
    /\ memberships' = [memberships EXCEPT ![Platform][requests[s].user] = FullMember]
    /\ Goto(s, "confirm flag")
    /\ UNCHANGED <<profiles, admins, pool>>

\* purge_non_platform_memberships: list, then delete one by one.
ListFirms(s) ==
    LET r == requests[s]
    IN  /\ At(s, "list firms")
        /\ Continue(s, [r EXCEPT !.todo = TenantsOf(r.user) \ {Platform},
                                 !.at = "purge firms"])
        /\ UNCHANGED <<store, pool>>

PurgeFirm(s) ==
    LET r == requests[s]
    IN  /\ At(s, "purge firms")
        /\ \E t \in r.todo :
              /\ memberships' = [memberships EXCEPT ![t][r.user] = None]
              /\ Continue(s, [r EXCEPT !.todo = @ \ {t}])
        /\ UNCHANGED <<profiles, admins, pool>>

\* create_platform_admin turns the new membership, if it finds it, into an
\* invitation.
EndPurge(s) ==
    LET r == requests[s]
        current == memberships[Platform][r.user]
    IN  /\ At(s, "purge firms")
        /\ r.todo = {}
        /\ \/ /\ r.op = "create admin" /\ r.want = "INVITED"
              /\ current # None /\ current.status = "ACTIVE"
              /\ Continue(s, [r EXCEPT !.tenant = Platform, !.at = "put member",
                                 !.copy = [current EXCEPT !.status = "INVITED"]])
           \/ Return(s)
        /\ UNCHANGED <<store, pool>>

UpdatePlatformAdmin(s, u, e) ==
    /\ u \in admins
    /\ profiles[u] # None
    /\ Start(s, [Idle EXCEPT !.op = "rename admin", !.at = "put profile",
                             !.user = u, !.email = e])
    /\ UNCHANGED <<store, pool>>

InvalidateInvite(s, u) ==
    /\ u \in admins
    /\ IsMember(u, Platform)
    /\ memberships[Platform][u].status = "INVITED"
    /\ \E email \in {profiles[u], None} :
          /\ Opens(s, [Idle EXCEPT !.op = "invalidate invite", !.at = "put member",
                  !.tenant = Platform, !.user = u, !.email = email,
                  !.copy = [memberships[Platform][u] EXCEPT !.status = "DISABLED"]])
          /\ ReadsEmail(u, email)
    /\ UNCHANGED <<store, pool>>

\* Without the Platform tenant, only a flag is found.
DeletePlatformAdmin(s, u) ==
    /\ \E found \in {Platform, None} :
          /\ \/ u \in admins
             \/ /\ found = Platform
                /\ IsMember(u, Platform)
                /\ memberships[Platform][u].status = "DISABLED"
          /\ Start(s, [Idle EXCEPT !.op = "delete admin", !.at = "clear flag",
                                   !.tenant = found, !.user = u])
    /\ UNCHANGED <<store, pool>>

ClearFlag(s) ==
    LET r == requests[s]
    IN  /\ At(s, "clear flag")
        /\ admins' = admins \ {r.user}
        /\ IF r.op = "delete admin" THEN Goto(s, "read profile") ELSE DisableOrReturn(s)
        /\ UNCHANGED <<profiles, memberships, pool>>

ReadProfile(s) ==
    LET r == requests[s]
    IN  /\ At(s, "read profile")
        /\ \E email \in {profiles[r.user], None} :
              /\ Becomes(s, [r EXCEPT !.email = email,
                     !.at = IF r.tenant = None THEN "list remaining" ELSE "remove member"])
              /\ ReadsEmail(r.user, email)
        /\ UNCHANGED <<store, pool>>

\* Broken: the profile goes whatever the person still belongs to.
ListRemainingForgetsFirms(s) ==
    /\ At(s, "list remaining")
    /\ IF requests[s].email = None THEN Return(s) ELSE Goto(s, "delete profile")
    /\ UNCHANGED <<store, pool>>

\* Broken: the account goes and the profile stays when memberships remain.
ListRemainingDeletesAccount(s) ==
    LET r == requests[s]
    IN  /\ At(s, "list remaining")
        /\ IF r.email = None THEN Return(s)
           ELSE Goto(s, IF TenantsOf(r.user) = {} THEN "delete profile" ELSE "delete account")
        /\ UNCHANGED <<store, pool>>

\* Without a membership left the person is deleted, otherwise only disabled;
\* the index may still show the membership that was just removed.
ListRemaining(s) ==
    LET r == requests[s]
    IN  /\ At(s, "list remaining")
        /\ \/ /\ r.email # None
              /\ TenantsOf(r.user) = {}
              /\ Goto(s, "delete profile")
           \/ DisableOrReturn(s)
        /\ UNCHANGED <<store, pool>>

DeleteProfile(s) ==
    /\ At(s, "delete profile")
    /\ profiles' = [profiles EXCEPT ![requests[s].user] = None]
    /\ Goto(s, "delete account")
    /\ UNCHANGED <<memberships, admins, pool>>

DeleteAccount(s) ==
    /\ At(s, "delete account")
    /\ accounts' = [accounts EXCEPT ![requests[s].email] = None]
    /\ Return(s)
    /\ UNCHANGED <<store, created>>

\* backfill_platform_admin_memberships, at every start of a process: one
\* request for each listed administrator.
Backfill(s, u) ==
    /\ u \in admins
    /\ Start(s, [Idle EXCEPT !.op = "backfill", !.at = "ensure", !.user = u])
    /\ UNCHANGED <<store, pool>>

-----------------------------------------------------------------------------
(* Signing in *)

\* Cognito gives out a token to an enabled account; it stays valid when the
\* account is disabled or deleted.
SignIn(e) ==
    /\ accounts[e] # None
    /\ accounts[e].enabled
    /\ sessions' = sessions \cup {accounts[e].sub}
    /\ UNCHANGED <<store, pool, requests, unfinished, misread>>

GetMe(s, u) ==
    /\ u \in sessions
    /\ Start(s, [Idle EXCEPT !.op = "get me", !.at = "list invited", !.user = u])
    /\ UNCHANGED <<store, pool>>

\* PATCH /v1/me puts the profile back and then does the same.
UpdateMe(s, u) ==
    /\ u \in sessions
    /\ profiles[u] # None
    /\ Start(s, [Idle EXCEPT !.op = "update me", !.at = "put profile",
                             !.user = u, !.email = profiles[u]])
    /\ UNCHANGED <<store, pool>>

\* Broken: activates what is not active, the disabled memberships as well.
ListInvitedAndDisabled(s) ==
    LET r == requests[s]
        listed == {t \in TenantsOf(r.user) : memberships[t][r.user].status # "ACTIVE"}
    IN  /\ At(s, "list invited")
        /\ Continue(s, [r EXCEPT !.at = "activate",
                !.todo = {<<t, memberships[t][r.user].role>> : t \in listed}])
        /\ UNCHANGED <<store, pool>>

\* activate_invited_memberships: list, then put back one by one.
ListInvited(s) ==
    LET r == requests[s]
        listed == {t \in TenantsOf(r.user) : memberships[t][r.user].status = "INVITED"}
    IN  /\ At(s, "list invited")
        /\ Continue(s, [r EXCEPT !.at = "activate",
                !.todo = {<<t, memberships[t][r.user].role>> : t \in listed}])
        /\ UNCHANGED <<store, pool>>

Activate(s) ==
    LET r == requests[s]
    IN  /\ At(s, "activate")
        /\ \E m \in r.todo :
              /\ memberships' = [memberships EXCEPT ![m[1]][r.user] =
                                    [role |-> m[2], status |-> "ACTIVE"]]
              /\ Continue(s, [r EXCEPT !.todo = @ \ {m}])
        /\ UNCHANGED <<profiles, admins, pool>>

\* The membership of an administrator who is found to be one is repaired; the
\* rest of the answer is read.
CheckAdmin(s) ==
    LET r == requests[s]
    IN  /\ At(s, "activate")
        /\ r.todo = {}
        /\ \/ IsPlatformAdmin(r.user) /\ Goto(s, "ensure")
           \/ Return(s)
        /\ UNCHANGED <<store, pool>>

\* The process of a request dies, or an access raises.
Crash(s) ==
    LET r == requests[s]
    IN  /\ Crashes
        /\ ~At(s, "idle")
        /\ unfinished' = unfinished \cup {e \in Emails : Concerns(s, e)}
        /\ Becomes(s, Idle)
        /\ UNCHANGED <<store, pool, misread>>

-----------------------------------------------------------------------------

\* A role is chosen for the Platform tenant only.
RolesIn(t) == IF t = Platform THEN Roles ELSE {"MEMBER"}

Arrive(s) ==
    \/ \E e \in Emails, t \in Tenants, want \in {"INVITED", "ACTIVE"} :
          \E role \in RolesIn(t) : CreateUser(s, t, e, role, want)
    \/ \E e \in Emails, want \in {"INVITED", "ACTIVE"} : CreatePlatformAdmin(s, e, want)
    \/ \E u \in Users, t \in Tenants, want \in Statuses \cup {Keep} :
          \E role \in RolesIn(t) \cup {Keep} : UpdateUser(s, t, u, role, want)
    \/ \E u \in Users, t \in Tenants : DeleteUser(s, t, u)
    \/ \E u \in Users : \/ GrantPlatformAdmin(s, u)
                        \/ InvalidateInvite(s, u)
                        \/ DeletePlatformAdmin(s, u)
                        \/ Backfill(s, u)
                        \/ GetMe(s, u)
                        \/ UpdateMe(s, u)
    \/ \E u \in Users, e \in Emails : UpdatePlatformAdmin(s, u, e)

Step(s) ==
    \/ LookUp(s) \/ Check(s) \/ RestoreProfile(s) \/ Reinvite(s) \/ Provision(s)
    \/ ProvisionRaises(s) \/ StoreProfile(s) \/ AddMember(s)
    \/ Disable(s) \/ PutProfile(s) \/ PutMember(s) \/ RemoveMember(s)
    \/ SetFlag(s) \/ Ensure(s) \/ PutPlatformMember(s) \/ ListFirms(s)
    \/ PurgeFirm(s) \/ EndPurge(s) \/ ClearFlag(s) \/ ReadProfile(s)
    \/ ListRemaining(s) \/ DeleteProfile(s) \/ DeleteAccount(s)
    \/ ListInvited(s) \/ Activate(s) \/ CheckAdmin(s)

Next ==
    \/ \E s \in Slots : Arrive(s) \/ Step(s) \/ Crash(s)
    \/ \E e \in Emails : SignIn(e)

Spec == Init /\ [][Next]_vars

-----------------------------------------------------------------------------
(* Properties *)

TypeOK ==
    /\ profiles \in [Users -> Emails \cup {None}]
    /\ memberships \in [Tenants -> [Users -> Members \cup {None}]]
    /\ admins \subseteq Users
    /\ accounts \in [Emails -> Accounts \cup {None}]
    /\ created \in [Emails -> 0 .. MaxAccounts]
    /\ sessions \subseteq Users
    /\ unfinished \subseteq Emails
    /\ misread \subseteq Emails

\* test_single_tenant_membership_enforced: nobody is a member of two firms.
\* Each invitation checks the memberships it lists before it adds one; what
\* gets around the check is an invitation that did not find the profile, or a
\* membership, of the person it is for.
SingleFirm ==
    \A u \in Users : u[1] \notin misread => Cardinality(TenantsOf(u) \ {Platform}) <= 1

\* Whoever has left everything cannot sign in any more: a settled person who is
\* no administrator and has no membership has no enabled account, unless a
\* removal died half way or did not find the person's profile.  Removal and
\* re-invitation enable and disable the account at different points.
LeaversAreLockedOut ==
    \A e \in Emails :
        Settled(e) /\ accounts[e] # None /\ accounts[e].enabled =>
            LET u == accounts[e].sub IN u \in admins \/ TenantsOf(u) # {}

\* Every membership has its profile: listings skip a member without one, and
\* the look-up by email does not find such a person.
MembersHaveProfiles ==
    \A u \in Users : TenantsOf(u) # {} => profiles[u] # None

\* "Re-inviting a previously deleted user must succeed" (create_user): when a
\* known person is invited, the account to enable is there, unless a request
\* about the person died between the profile and the account.  Profiles that
\* are overlooked do not spoil this: what cannot be found is not deleted.
ReinvitesSucceed ==
    \A s \in Slots :
        At(s, "reinvite") /\ requests[s].email \notin unfinished
            => accounts[requests[s].email] # None

\* Only the operations that appoint administrators make one: signing in, which
\* activates and repairs memberships, never does, nor does the start of a
\* process.
OnlyAppointmentsMakeAdmins ==
    [][\A u \in Users : ~IsPlatformAdmin(u) /\ IsPlatformAdmin(u)' =>
          \E s \in Slots :
             /\ requests[s].user = u
             /\ requests[s].op \in {"create user", "update user", "create admin", "grant"}]_vars

\* "Platform admins belong only to the reserved Platform tenant." (also when
\* every row that is read is found)
AdminsBelongToPlatformOnly ==
    \A u \in admins :
        Settled(u[1]) /\ u[1] \notin misread => TenantsOf(u) \subseteq {Platform}

=============================================================================
