------------------------- MODULE MembershipsProofs -------------------------
(***************************************************************************)
(* Proofs about Memberships: a person's profile, memberships, flag and     *)
(* account stay in step.                                                   *)
(*                                                                         *)
(* Nothing in the code keeps two requests about one person apart, and what *)
(* the runs show holds for requests that follow one another or, where      *)
(* administrators are only ever appointed, for requests in any order.      *)
(* Peaceful says so; it also leaves out the change of an administrator's   *)
(* email, after which a profile and its account no longer belong together. *)
(***************************************************************************)
EXTENDS Memberships, FiniteSetTheorems, TLAPS

-----------------------------------------------------------------------------
(* When the properties are claimed *)

OneAtATime == \A s, x \in Slots : s = x

AdminsStay == Operations \cap {"delete admin", "invalidate invite"} = {}

\* An update of an administrator changes the rest of the profile only.
EmailsStay == "rename admin" \in Operations => \A e, f \in Emails : e = f

Peaceful == EmailsStay /\ (OneAtATime \/ AdminsStay)

-----------------------------------------------------------------------------
(* The type of requests *)

RequestSteps ==
    {"idle", "look up", "check", "restore profile", "reinvite", "provision",
     "store profile", "add member", "disable", "put profile", "put member",
     "remove member", "set flag", "ensure", "put platform member", "confirm flag",
     "list firms", "purge firms", "clear flag", "read profile", "list remaining",
     "delete profile", "delete account", "list invited", "activate"}

\* The rows left to work off: tenants, or tenants with the role there.
Rows == Tenants \cup (Tenants \X Roles)

Requests == [op : AllOperations \cup {"none"}, at : RequestSteps, tenant : Tenants \cup {None},
             email : Emails \cup {None}, user : Users \cup {None}, role : Roles \cup {Keep},
             want : Statuses \cup {Keep}, copy : Members \cup {None},
             todo : SUBSET Rows]

\* Which operations take a step, and the arguments that a step relies on.
Form(r) ==
    /\ IF r.at = "idle" THEN r.op = "none" ELSE r.op \in Operations
    /\ r.at \notin {"idle", "look up", "provision"} => r.user \in Users
    /\ r.at \in {"look up", "provision", "store profile"} =>
          r.op \in {"create user", "create admin"} /\ r.email \in Emails
    /\ r.at \in {"check", "restore profile", "reinvite", "add member"} =>
          r.op = "create user" /\ r.email \in Emails
    /\ r.op = "create user" =>
          r.tenant \in Tenants /\ r.role \in Roles /\ r.want \in {"INVITED", "ACTIVE"}
    /\ r.at = "put profile" =>
          r.op \in {"update user", "update me", "rename admin"} /\ r.email \in Emails
    /\ r.op = "update user" =>
          r.tenant \in Tenants /\ r.copy \in Members /\ r.email \in Emails
    /\ r.at = "put member" =>
          /\ r.op \in {"update user", "invalidate invite", "create admin"}
          /\ r.copy \in Members
          /\ r.op # "update user" => r.tenant = Platform
    /\ r.op = "invalidate invite" =>
          /\ r.at \in {"put member", "clear flag", "disable"}
          /\ r.tenant = Platform /\ r.copy \in Members /\ r.copy.status = "DISABLED"
    /\ r.at = "disable" =>
          /\ r.op \in {"update user", "delete user", "invalidate invite", "delete admin"}
          /\ r.email \in Emails
    /\ r.at = "remove member" => r.op \in {"delete user", "delete admin"} /\ r.tenant \in Tenants
    /\ r.at = "set flag" => r.op \in {"create admin", "grant"}
    /\ r.at \in {"ensure", "put platform member", "confirm flag", "list firms", "purge firms"} =>
          r.op \in {"create admin", "grant", "backfill", "get me", "update me"}
    /\ r.at = "purge firms" => r.todo \subseteq Firms
    /\ r.at \in {"list invited", "activate"} => r.op \in {"get me", "update me"}
    /\ r.at = "activate" => r.todo \subseteq Tenants \X Roles
    /\ r.at = "clear flag" => r.op \in {"invalidate invite", "delete admin"}
    /\ r.op = "delete admin" => r.tenant \in {Platform, None}
    /\ r.at \in {"read profile", "list remaining", "delete profile", "delete account"} =>
          r.op = "delete admin"
    /\ r.at \in {"delete profile", "delete account"} => r.email \in Emails

RequestsInForm ==
    /\ requests \in [Slots -> Requests]
    /\ \A s \in Slots : Form(requests[s])

TypeInv == TypeOK /\ RequestsInForm

-----------------------------------------------------------------------------
(* The invariant of peaceful requests *)

\* A profile has the email and the sub of its account; who is a member or an
\* administrator has one.
Identities ==
    /\ \A u \in Users :
          /\ profiles[u] \in {None, u[1]}
          /\ profiles[u] # None => accounts[u[1]] # None /\ accounts[u[1]].sub = u
          /\ TenantsOf(u) # {} \/ u \in admins => profiles[u] # None
    /\ \A e \in Emails : accounts[e] # None => accounts[e].sub[1] = e

\* The steps that act on a person known to have a profile.
ProfileSteps == {"check", "restore profile", "reinvite", "add member", "set flag",
                 "put profile", "put member", "ensure", "put platform member",
                 "confirm flag", "list firms", "purge firms", "clear flag", "read profile",
                 "remove member", "list remaining", "delete profile"}

\* What a request has found out and still counts on.
Kept(r) ==
    /\ r.user # None /\ r.email # None => r.user[1] = r.email
    /\ \/ r.at \in ProfileSteps
       \/ r.op = "update user"
       \/ r.at = "activate" /\ r.todo # {}
       => profiles[r.user] # None
    /\ r.at = "store profile" => accounts[r.email] # None /\ accounts[r.email].sub = r.user
    /\ r.at \in {"list firms", "purge firms"} => r.user \in admins
    /\ \/ r.op \in {"delete user", "invalidate invite"}
       \/ r.at \in {"remove member", "list remaining"}
       => r.email # None \/ r.user[1] \in unfinished
    /\ r.op = "delete admin" /\ r.at \notin {"clear flag", "disable"} => r.user \notin admins
    /\ r.at \in {"delete profile", "delete account"} => TenantsOf(r.user) = {}
    /\ r.at = "delete account" => \A v \in Users : v[1] = r.email => profiles[v] = None

\* The steps of a request that will yet add a membership or a flag, or disable
\* or delete the account.
OwingSteps == {"store profile", "add member", "set flag", "read profile", "remove member",
               "list remaining", "delete profile", "delete account", "disable"}

Owes(r, e) ==
    /\ r.at \in OwingSteps
    /\ r.email = e \/ (r.user # None /\ r.user[1] = e)

LockedOut(e) ==
    accounts[e] # None /\ accounts[e].enabled =>
        accounts[e].sub \in admins \/ TenantsOf(accounts[e].sub) # {}

InStep ==
    /\ Identities
    /\ \A s \in Slots : Kept(requests[s])
    /\ \A e \in Emails \ unfinished : LockedOut(e) \/ \E s \in Slots : Owes(requests[s], e)

-----------------------------------------------------------------------------
(* The invariant of requests that follow one another *)

\* What a request has read is still so.
Alone(r) ==
    /\ r.at \in {"provision", "store profile"} /\ r.email \notin misread =>
          \A v \in Users : v[1] = r.email => TenantsOf(v) = {} /\ v \notin admins
    /\ /\ r.at \in {"restore profile", "reinvite", "add member"}
       /\ r.tenant # Platform /\ r.user[1] \notin misread
       => TenantsOf(r.user) \subseteq {Platform, r.tenant}
    /\ r.op = "update user" /\ r.at \in {"disable", "put profile", "put member"} =>
          IsMember(r.user, r.tenant)
    /\ r.at = "activate" => \A m \in r.todo :
          memberships[m[1]][r.user] = [role |-> m[2], status |-> "INVITED"]
    /\ /\ r.at \in {"ensure", "put platform member", "confirm flag"}
       /\ r.op \in {"get me", "update me", "backfill"}
       => IsPlatformAdmin(r.user)

OneFirm(u) == \A f, g \in TenantsOf(u) \ {Platform} : f = g

OneFirmEach == \A u \in Users : u[1] \notin misread => OneFirm(u)

OneByOne ==
    /\ \A s \in Slots : Alone(requests[s])
    /\ OneFirmEach

-----------------------------------------------------------------------------
(* How a request moves *)

\* m is the request r at the step a.
MovedTo(m, r, a) ==
    /\ m.at = a /\ m.op = r.op /\ m.tenant = r.tenant /\ m.email = r.email
    /\ m.user = r.user /\ m.role = r.role /\ m.want = r.want /\ m.copy = r.copy
    /\ m.todo = r.todo

\* s has the request m now, and the other requests are as they were.
Moves(s, m) == requests' = [requests EXCEPT ![s] = m]

\* The operations that arrive and the steps that a request is sent to.
LEMMA Names ==
  /\ "create user" \in AllOperations /\ "create admin" \in AllOperations
  /\ "update user" \in AllOperations /\ "delete user" \in AllOperations
  /\ "rename admin" \in AllOperations /\ "invalidate invite" \in AllOperations
  /\ "delete admin" \in AllOperations /\ "grant" \in AllOperations
  /\ "backfill" \in AllOperations /\ "get me" \in AllOperations
  /\ "update me" \in AllOperations
  /\ "look up" \in RequestSteps /\ "store profile" \in RequestSteps
  /\ "remove member" \in RequestSteps /\ "set flag" \in RequestSteps
  /\ "put member" \in RequestSteps /\ "clear flag" \in RequestSteps
  /\ "ensure" \in RequestSteps /\ "list invited" \in RequestSteps
  /\ "put profile" \in RequestSteps /\ "purge firms" \in RequestSteps
  /\ "activate" \in RequestSteps
BY DEF AllOperations, RequestSteps

\* A request that goes to another step is the same request otherwise.
LEMMA GoesOn ==
  ASSUME TypeInv, NEW s \in Slots, NEW a \in RequestSteps, Goto(s, a)
  PROVE  \E m \in Requests : Moves(s, m) /\ MovedTo(m, requests[s], a)
<1> DEFINE m == [requests[s] EXCEPT !.at = a]
<1>1. requests[s] \in Requests
  BY DEF TypeInv, RequestsInForm
<1>2. m \in Requests /\ MovedTo(m, requests[s], a)
  BY <1>1 DEF Requests, MovedTo
<1> QED
  BY <1>2 DEF Moves, Goto, Continue, Becomes

\* No request is a request in form, and counts on nothing.
LEMMA IdleIsFine ==
  Idle \in Requests /\ Form(Idle) /\ Kept(Idle) /\ Alone(Idle) /\ \A e : ~Owes(Idle, e)
<1>1. Idle.op = "none" /\ Idle.at = "idle" /\ Idle.user = None /\ Idle.email = None
  BY DEF Idle
<1>2. Idle \in Requests
  BY DEF Idle, Requests, RequestSteps
<1> QED
  BY <1>1, <1>2 DEF Form, Kept, Alone, Owes, ProfileSteps, OwingSteps

\* When one request moves to a request in form, all are in form.
LEMMA OneMoves ==
  ASSUME RequestsInForm, NEW s \in Slots, NEW m \in Requests, Form(m), Moves(s, m)
  PROVE  /\ RequestsInForm'
         /\ requests'[s] = m
         /\ \A x \in Slots \ {s} : requests'[x] = requests[x]
<1>1. requests' \in [Slots -> Requests]
  BY DEF RequestsInForm, Moves
<1>2. \A x \in Slots : requests'[x] = IF x = s THEN m ELSE requests[x]
  BY DEF RequestsInForm, Moves
<1> QED
  BY <1>1, <1>2 DEF RequestsInForm

\* People keep their profiles, accounts and flags.
Grows ==
    /\ \A u \in Users : profiles[u] # None => profiles'[u] # None
    /\ \A e \in Emails : accounts[e] # None =>
          accounts'[e] # None /\ accounts'[e].sub = accounts[e].sub
    /\ admins \subseteq admins'

\* While people keep what they have, the other requests are not disturbed.
LEMMA OthersKept ==
  ASSUME TypeInv, Peaceful, InStep, NEW s \in Slots, NEW x \in Slots \ {s},
         requests'[x] = requests[x], unfinished \subseteq unfinished', Grows \/ OneAtATime
  PROVE  Kept(requests[x])'
<1> DEFINE r == requests[x]
<1>1. AdminsStay /\ Grows
  BY DEF Peaceful, OneAtATime
<1>2. r \in Requests /\ Form(r) /\ Kept(r)
  BY DEF TypeInv, RequestsInForm, InStep
<1>3. r.op \notin {"delete admin", "invalidate invite"}
  BY <1>1, <1>2 DEF Form, AdminsStay
<1>4. r.at \in {"delete profile", "delete account"} => FALSE
  BY <1>2, <1>3 DEF Form
<1>5. \/ r.at \in ProfileSteps
      \/ r.op = "update user"
      \/ r.at = "activate" /\ r.todo # {}
      => profiles'[r.user] # None
  BY <1>1, <1>2 DEF Form, Kept, Grows, ProfileSteps
<1>6. r.at = "store profile" => accounts'[r.email] # None /\ accounts'[r.email].sub = r.user
  BY <1>1, <1>2 DEF Form, Kept, Grows
<1> HIDE DEF r
<1>7. requests'[x] = r
  BY DEF r
<1> QED
  BY <1>1, <1>2, <1>3, <1>4, <1>5, <1>6, <1>7 DEF Kept, Grows

\* After the move to m the request owes what it owed.
Settles(s, m) == \A e \in Emails \ unfinished : Owes(requests[s], e) => Owes(m, e)

\* A move that changes nothing but the request keeps the invariants, when the
\* request may count on what it does and goes on owing what it owed.
LEMMA QuietMove ==
  ASSUME TypeInv, NEW s \in Slots, NEW m \in Requests, Form(m), Moves(s, m),
         UNCHANGED <<store, pool, sessions, unfinished, misread>>
  PROVE  /\ TypeInv'
         /\ Peaceful /\ InStep /\ Kept(m) /\ Settles(s, m) => InStep'
         /\ OneAtATime /\ OneByOne /\ Alone(m) => OneByOne'
<1>1. /\ RequestsInForm'
      /\ requests'[s] = m
      /\ \A x \in Slots \ {s} : requests'[x] = requests[x]
  BY OneMoves DEF TypeInv
<1>2. /\ profiles' = profiles /\ memberships' = memberships /\ admins' = admins
      /\ accounts' = accounts /\ created' = created /\ sessions' = sessions
      /\ unfinished' = unfinished /\ misread' = misread
  BY DEF store, pool
<1>3. TypeOK'
  BY <1>2 DEF TypeInv, TypeOK
<1>4. ASSUME Peaceful, InStep, Kept(m), Settles(s, m) PROVE InStep'
  <2>1. Identities'
    BY <1>2, <1>4 DEF InStep, Identities, TenantsOf, IsMember
  <2>2. Kept(requests[s])'
    BY <1>1, <1>2, <1>4 DEF Kept, TenantsOf, IsMember
  <2>3. ASSUME NEW x \in Slots \ {s} PROVE Kept(requests[x])'
    BY <1>1, <1>2, <1>4, OthersKept DEF Grows
  <2>4. ASSUME NEW e \in Emails \ unfinished'
        PROVE  LockedOut(e)' \/ \E x \in Slots : Owes(requests[x], e)'
    <3>1. CASE LockedOut(e)
      BY <1>2, <3>1 DEF LockedOut, TenantsOf, IsMember
    <3>2. CASE \E x \in Slots : Owes(requests[x], e)
      <4>1. PICK x \in Slots : Owes(requests[x], e)
        BY <3>2
      <4>2. Owes(requests'[x], e)
        BY <1>1, <1>4, <4>1 DEF Settles
      <4> QED
        BY <4>2 DEF Owes
    <3> QED
      BY <1>2, <1>4, <3>1, <3>2 DEF InStep
  <2> QED
    BY <2>1, <2>2, <2>3, <2>4 DEF InStep
<1>5. ASSUME OneAtATime, OneByOne, Alone(m) PROVE OneByOne'
  <2>1. Alone(requests[s])'
    BY <1>1, <1>2, <1>5 DEF Alone, TenantsOf, IsMember, IsPlatformAdmin
  <2>2. OneFirmEach'
    BY <1>2, <1>5 DEF OneByOne, OneFirmEach, OneFirm, TenantsOf, IsMember
  <2> QED
    BY <1>5, <2>1, <2>2 DEF OneByOne, OneAtATime
<1> QED
  BY <1>1, <1>3, <1>4, <1>5 DEF TypeInv

\* What every lemma about an action shows.
Preserved ==
    /\ TypeInv'
    /\ Peaceful /\ InStep => InStep'
    /\ Peaceful /\ OneAtATime /\ InStep /\ OneByOne => OneByOne'

-----------------------------------------------------------------------------
(* How a step keeps the invariants *)

\* After the move to m nobody is left with an account and nothing else unless
\* the request owes something, or the person's profile was not found.
Pays(s, m) ==
    \A e \in Emails \ unfinished' :
        LockedOut(e) \/ Owes(requests[s], e) => LockedOut(e)' \/ Owes(m, e)

\* Nobody gets a second firm, but for somebody whose firm was overlooked.
FirmsKept == \A u \in Users : u[1] \notin misread' /\ OneFirm(u) => OneFirm(u)'

\* A step keeps the invariants when it keeps the people in order, moves to a
\* request that may count on what it does, and pays.
LEMMA WriteMove ==
  ASSUME TypeInv, NEW s \in Slots, NEW m \in Requests, Form(m), Moves(s, m), TypeOK',
         unfinished \subseteq unfinished', misread \subseteq misread',
         Peaceful /\ InStep =>
            Identities' /\ Kept(m)' /\ Pays(s, m) /\ (Grows \/ OneAtATime),
         Peaceful /\ OneAtATime /\ InStep /\ OneByOne =>
            Alone(m)' /\ FirmsKept
  PROVE  Preserved
<1>1. /\ RequestsInForm'
      /\ requests'[s] = m
      /\ \A x \in Slots \ {s} : requests'[x] = requests[x]
  BY OneMoves DEF TypeInv
<1>2. ASSUME Peaceful, InStep PROVE InStep'
  <2>1. Kept(requests[s])'
    BY <1>1, <1>2
  <2>2. ASSUME NEW x \in Slots \ {s} PROVE Kept(requests[x])'
    BY <1>1, <1>2, OthersKept
  <2>3. ASSUME NEW e \in Emails \ unfinished'
        PROVE  LockedOut(e)' \/ \E x \in Slots : Owes(requests[x], e)'
    <3>1. CASE LockedOut(e) \/ Owes(requests[s], e)
      <4>1. LockedOut(e)' \/ Owes(m, e)
        BY <1>2, <3>1 DEF Pays
      <4> QED
        BY <1>1, <4>1 DEF Owes
    <3>2. CASE \E x \in Slots \ {s} : Owes(requests[x], e)
      BY <1>1, <3>2 DEF Owes
    <3> QED
      BY <1>2, <3>1, <3>2 DEF InStep
  <2> QED
    BY <1>2, <2>1, <2>2, <2>3 DEF InStep
<1>3. ASSUME Peaceful, OneAtATime, InStep, OneByOne PROVE OneByOne'
  <2>1. OneFirmEach'
    BY <1>3 DEF OneByOne, OneFirmEach, FirmsKept
  <2> QED
    BY <1>1, <1>3, <2>1 DEF OneByOne, OneAtATime
<1> QED
  BY <1>1, <1>2, <1>3 DEF Preserved, TypeInv

\* While no membership changes nobody gets a second firm.
LEMMA FirmsStay ==
  ASSUME memberships' = memberships
  PROVE  /\ \A u : TenantsOf(u)' = TenantsOf(u)
         /\ FirmsKept
BY DEF TenantsOf, IsMember, FirmsKept, OneFirm

\* A step that reads, and may overlook what it reads.
LEMMA ReadingMove ==
  ASSUME TypeInv, NEW s \in Slots, NEW m \in Requests, Form(m), Moves(s, m),
         UNCHANGED <<store, pool, sessions>>,
         unfinished \subseteq unfinished', unfinished' \subseteq Emails,
         misread \subseteq misread', misread' \subseteq Emails,
         Peaceful /\ InStep =>
            /\ Kept(m)'
            /\ \A e \in Emails \ unfinished' : Owes(requests[s], e) => Owes(m, e),
         Peaceful /\ OneAtATime /\ InStep /\ OneByOne => Alone(m)'
  PROVE  Preserved
<1>1. /\ profiles' = profiles /\ memberships' = memberships /\ admins' = admins
      /\ accounts' = accounts /\ created' = created /\ sessions' = sessions
  BY DEF store, pool
<1>2. TypeOK' /\ Grows
  BY <1>1 DEF TypeInv, TypeOK, Grows
<1>3. InStep => Identities'
  BY <1>1, FirmsStay DEF InStep, Identities
<1>4. \A e \in Emails : LockedOut(e) => LockedOut(e)'
  BY <1>1, FirmsStay DEF LockedOut
<1>5. Peaceful /\ InStep => Pays(s, m)
  BY <1>4 DEF Pays
<1> QED
  BY <1>1, <1>2, <1>3, <1>5, FirmsStay, WriteMove

-----------------------------------------------------------------------------
(* Requests that arrive *)

\* An idle slot owes nothing, so a request that arrives has only to count on
\* what is so.
LEMMA Arrives ==
  ASSUME TypeInv, NEW s \in Slots, NEW m \in Requests, Start(s, m), UNCHANGED <<store, pool>>,
         m.op \in Operations => Form(m),
         Peaceful /\ InStep => Kept(m),
         InStep /\ OneByOne => Alone(m)
  PROVE  Preserved
<1>1. /\ Moves(s, m) /\ m.op \in Operations /\ At(s, "idle")
      /\ UNCHANGED <<store, pool, sessions, unfinished, misread>>
  BY DEF Start, Opens, Becomes, Moves
<1>2. Settles(s, m)
  BY <1>1 DEF Settles, Owes, OwingSteps, At
<1> QED
  BY <1>1, <1>2, QuietMove DEF Preserved

\* A request that reads an email first.
LEMMA ArrivesReading ==
  ASSUME TypeInv, NEW s \in Slots, NEW m \in Requests, NEW u \in Users,
         NEW email, Opens(s, m), ReadsEmail(u, email), UNCHANGED <<store, pool>>,
         m.op \in Operations => Form(m),
         Peaceful /\ InStep => Kept(m)',
         Alone(m)'
  PROVE  Preserved
<1>1. /\ Moves(s, m) /\ m.op \in Operations /\ At(s, "idle")
      /\ UNCHANGED <<store, pool, sessions>>
  BY DEF Opens, Becomes, Moves
<1>2. \A e : ~Owes(requests[s], e)
  BY <1>1 DEF Owes, OwingSteps, At
<1>3. /\ unfinished \subseteq unfinished' /\ unfinished' \subseteq Emails
      /\ misread' = misread /\ misread \subseteq Emails
  BY DEF ReadsEmail, TypeInv, TypeOK, Users
<1> QED
  BY <1>1, <1>2, <1>3, ReadingMove

\* An invitation knows its tenant and its email.
LEMMA CreateUserKeeps ==
  ASSUME TypeInv, NEW s \in Slots, NEW t \in Tenants, NEW e \in Emails,
         NEW want \in {"INVITED", "ACTIVE"}, NEW role \in Roles,
         CreateUser(s, t, e, role, want)
  PROVE  Preserved
<1> DEFINE m == [Idle EXCEPT !.op = "create user", !.at = "look up", !.tenant = t,
                             !.email = e, !.role = role, !.want = want]
<1>1. Start(s, m) /\ UNCHANGED <<store, pool>>
  BY DEF CreateUser
<1>2. /\ m \in Requests
      /\ m.op = "create user" /\ m.at = "look up" /\ m.tenant = t
      /\ m.email = e /\ m.user = None /\ m.role = role
      /\ m.want = want
  BY IdleIsFine, Names DEF TypeInv, TypeOK, Requests, Statuses, Roles, Keep, Idle, Tenants
<1> HIDE DEF m
<1>3. m.op \in Operations => Form(m)
  BY <1>2 DEF TypeInv, TypeOK, Form, Tenants
<1>4. Peaceful /\ InStep => Kept(m)
  BY <1>1, <1>2 DEF InStep, Identities, TenantsOf, IsMember, Kept, ProfileSteps,
     Peaceful, EmailsStay, Start, Opens, Becomes, Users, Tenants
<1>5. InStep /\ OneByOne => Alone(m)
  BY <1>2 DEF Alone, IsPlatformAdmin
<1> QED
  BY <1>1, <1>2, <1>3, <1>4, <1>5, Arrives

\* The appointment of an administrator knows its email.
LEMMA CreatePlatformAdminKeeps ==
  ASSUME TypeInv, NEW s \in Slots, NEW e \in Emails, NEW want \in {"INVITED", "ACTIVE"},
         CreatePlatformAdmin(s, e, want)
  PROVE  Preserved
<1> DEFINE m == [Idle EXCEPT !.op = "create admin", !.at = "look up", !.email = e,
                             !.want = want]
<1>1. Start(s, m) /\ UNCHANGED <<store, pool>>
  BY DEF CreatePlatformAdmin
<1>2. /\ m \in Requests
      /\ m.op = "create admin" /\ m.at = "look up" /\ m.tenant = None
      /\ m.email = e /\ m.user = None /\ m.want = want
  BY IdleIsFine, Names DEF TypeInv, TypeOK, Requests, Statuses, Roles, Keep, Idle, Tenants
<1> HIDE DEF m
<1>3. m.op \in Operations => Form(m)
  BY <1>2 DEF TypeInv, TypeOK, Form, Tenants
<1>4. Peaceful /\ InStep => Kept(m)
  BY <1>1, <1>2 DEF InStep, Identities, TenantsOf, IsMember, Kept, ProfileSteps,
     Peaceful, EmailsStay, Start, Opens, Becomes, Users, Tenants
<1>5. InStep /\ OneByOne => Alone(m)
  BY <1>2 DEF Alone, IsPlatformAdmin
<1> QED
  BY <1>1, <1>2, <1>3, <1>4, <1>5, Arrives

\* An update holds the profile and the membership of one person.
LEMMA UpdateUserKeeps ==
  ASSUME TypeInv, NEW s \in Slots, NEW t \in Tenants, NEW u \in Users,
         NEW want \in Statuses \cup {Keep}, NEW role \in Roles \cup {Keep},
         UpdateUser(s, t, u, role, want)
  PROVE  Preserved
<1> DEFINE old == memberships[t][u]
<1> DEFINE new == [role   |-> IF role = Keep THEN old.role ELSE role,
                   status |-> IF want = Keep THEN old.status ELSE want]
<1> DEFINE a == IF want = "DISABLED" THEN "disable" ELSE "put profile"
<1> DEFINE m == [Idle EXCEPT !.op = "update user", !.tenant = t, !.user = u,
                             !.email = profiles[u], !.copy = new, !.at = a]
<1>1. Start(s, m) /\ UNCHANGED <<store, pool>>
  BY DEF UpdateUser
<1>2. profiles[u] # None /\ IsMember(u, t)
  BY DEF UpdateUser
<1>3. new \in Members
  BY <1>2 DEF TypeInv, TypeOK, IsMember, Members, Keep, Statuses, Roles
<1>4. a \in {"disable", "put profile"} /\ a \in RequestSteps
  BY DEF RequestSteps
<1>5. profiles[u] \in Emails
  BY <1>2 DEF TypeInv, TypeOK
<1> HIDE DEF new, a
<1>6. /\ m \in Requests
      /\ m.op = "update user" /\ m.at = a /\ m.tenant = t
      /\ m.email = profiles[u] /\ m.user = u /\ m.copy = new
  <2>1. Idle \in Requests /\ "update user" \in AllOperations
    BY IdleIsFine DEF AllOperations
  <2> QED
    BY <1>3, <1>4, <1>5, <2>1 DEF Requests
<1> HIDE DEF m
<1>7. m.op \in Operations => Form(m)
  BY <1>3, <1>4, <1>5, <1>6 DEF Form
<1>8. Peaceful /\ InStep => Kept(m)
  BY <1>2, <1>4, <1>5, <1>6, MembershipsAssumption DEF InStep, Identities, Kept, ProfileSteps
<1>9. InStep /\ OneByOne => Alone(m)
  BY <1>2, <1>4, <1>6 DEF Alone
<1> QED
  BY <1>1, <1>6, <1>7, <1>8, <1>9, Arrives

\* Whoever is removed from a tenant has a profile.
LEMMA DeleteUserKeeps ==
  ASSUME TypeInv, NEW s \in Slots, NEW t \in Tenants, NEW u \in Users,
         DeleteUser(s, t, u)
  PROVE  Preserved
<1>1. IsMember(u, t) /\ UNCHANGED <<store, pool>>
  BY DEF DeleteUser
<1>2. PICK email \in {profiles[u], None} :
         /\ Opens(s, [Idle EXCEPT !.op = "delete user", !.at = "remove member",
                                  !.tenant = t, !.user = u, !.email = email])
         /\ ReadsEmail(u, email)
  BY DEF DeleteUser
<1>3. email \in Emails \cup {None}
  BY DEF TypeInv, TypeOK
<1>4. PICK m \in Requests :
         /\ Opens(s, m)
         /\ m.op = "delete user" /\ m.at = "remove member" /\ m.tenant = t
         /\ m.email = email /\ m.user = u
  <2> DEFINE m == [Idle EXCEPT !.op = "delete user", !.at = "remove member",
                               !.tenant = t, !.user = u, !.email = email]
  <2>1. /\ m \in Requests
        /\ m.op = "delete user" /\ m.at = "remove member" /\ m.tenant = t
        /\ m.email = email /\ m.user = u
    BY <1>3, IdleIsFine, Names DEF Requests, Idle
  <2> QED
    BY <1>2, <2>1
<1>5. m.op \in Operations => Form(m)
  BY <1>4 DEF Form
<1>6. InStep => profiles[u] # None /\ profiles[u] = u[1]
  BY <1>1 DEF InStep, Identities, TenantsOf, IsMember, Tenants
<1>7. Peaceful /\ InStep => Kept(m)'
  BY <1>1, <1>2, <1>4, <1>6 DEF Kept, ProfileSteps, ReadsEmail, store
<1>8. Alone(m)'
  BY <1>4 DEF Alone
<1> QED
  BY <1>1, <1>2, <1>4, <1>5, <1>7, <1>8, ArrivesReading

\* Whoever is made an administrator has a profile.
LEMMA GrantPlatformAdminKeeps ==
  ASSUME TypeInv, NEW s \in Slots, NEW u \in Users,
         GrantPlatformAdmin(s, u)
  PROVE  Preserved
<1> DEFINE m == [Idle EXCEPT !.op = "grant", !.at = "set flag", !.user = u]
<1>1. Start(s, m) /\ UNCHANGED <<store, pool>>
  BY DEF GrantPlatformAdmin
<1>2. profiles[u] # None
  BY DEF GrantPlatformAdmin
<1>3. /\ m \in Requests
      /\ m.op = "grant" /\ m.at = "set flag" /\ m.tenant = None
      /\ m.email = None /\ m.user = u
  BY IdleIsFine, Names, <1>2 DEF TypeInv, TypeOK, Requests, Statuses, Roles, Keep, Idle, Tenants
<1> HIDE DEF m
<1>4. m.op \in Operations => Form(m)
  BY <1>2, <1>3 DEF TypeInv, TypeOK, Form, Tenants
<1>5. Peaceful /\ InStep => Kept(m)
  BY <1>1, <1>2, <1>3 DEF InStep, Identities, TenantsOf, IsMember, Kept, ProfileSteps,
     Peaceful, EmailsStay, Start, Opens, Becomes, Users, Tenants
<1>6. InStep /\ OneByOne => Alone(m)
  BY <1>2, <1>3 DEF Alone, IsPlatformAdmin
<1> QED
  BY <1>1, <1>3, <1>4, <1>5, <1>6, Arrives

\* Whoever loses an invitation has a profile.
LEMMA InvalidateInviteKeeps ==
  ASSUME TypeInv, NEW s \in Slots, NEW u \in Users,
         InvalidateInvite(s, u)
  PROVE  Preserved
<1> DEFINE new == [memberships[Platform][u] EXCEPT !.status = "DISABLED"]
<1>1. IsMember(u, Platform) /\ u \in admins /\ UNCHANGED <<store, pool>>
  BY DEF InvalidateInvite
<1>2. PICK email \in {profiles[u], None} :
         /\ Opens(s, [Idle EXCEPT !.op = "invalidate invite", !.at = "put member",
                  !.tenant = Platform, !.user = u, !.email = email, !.copy = new])
         /\ ReadsEmail(u, email)
  BY DEF InvalidateInvite
<1>3. email \in Emails \cup {None}
  BY DEF TypeInv, TypeOK
<1>4. new \in Members /\ new.status = "DISABLED" /\ Platform \in Tenants
  BY <1>1 DEF TypeInv, TypeOK, IsMember, Members, Statuses, Tenants
<1> HIDE DEF new
<1>5. PICK m \in Requests :
         /\ Opens(s, m)
         /\ m.op = "invalidate invite" /\ m.at = "put member" /\ m.tenant = Platform
         /\ m.email = email /\ m.user = u /\ m.copy = new
  <2> DEFINE m == [Idle EXCEPT !.op = "invalidate invite", !.at = "put member",
                       !.tenant = Platform, !.user = u, !.email = email, !.copy = new]
  <2>1. /\ m \in Requests
        /\ m.op = "invalidate invite" /\ m.at = "put member" /\ m.tenant = Platform
        /\ m.email = email /\ m.user = u /\ m.copy = new
    BY <1>3, <1>4, IdleIsFine, Names DEF Requests, Idle
  <2> QED
    BY <1>2, <2>1
<1>6. m.op \in Operations => Form(m)
  BY <1>4, <1>5 DEF Form
<1>7. InStep => profiles[u] # None /\ profiles[u] = u[1]
  BY <1>1 DEF InStep, Identities
<1>8. Peaceful /\ InStep => Kept(m)'
  BY <1>1, <1>2, <1>5, <1>7 DEF Kept, ProfileSteps, ReadsEmail, store
<1>9. Alone(m)'
  BY <1>5 DEF Alone
<1> QED
  BY <1>1, <1>2, <1>5, <1>6, <1>8, <1>9, ArrivesReading

\* An administrator who is removed has a profile.
LEMMA DeletePlatformAdminKeeps ==
  ASSUME TypeInv, NEW s \in Slots, NEW u \in Users,
         DeletePlatformAdmin(s, u)
  PROVE  Preserved
<1>1. PICK found \in {Platform, None} :
         Start(s, [Idle EXCEPT !.op = "delete admin", !.at = "clear flag",
                               !.tenant = found, !.user = u])
  BY DEF DeletePlatformAdmin
<1>2. (u \in admins \/ IsMember(u, Platform)) /\ UNCHANGED <<store, pool>>
  BY DEF DeletePlatformAdmin
<1> DEFINE m == [Idle EXCEPT !.op = "delete admin", !.at = "clear flag",
                             !.tenant = found, !.user = u]
<1>3. Start(s, m)
  BY <1>1
<1>4. /\ m \in Requests
      /\ m.op = "delete admin" /\ m.at = "clear flag" /\ m.tenant = found
      /\ m.email = None /\ m.user = u
  BY IdleIsFine, Names DEF Requests, Idle, Tenants
<1> HIDE DEF m
<1>5. m.op \in Operations => Form(m)
  BY <1>4 DEF Form
<1>6. InStep => profiles[u] # None /\ profiles[u] = u[1]
  BY <1>2 DEF InStep, Identities, TenantsOf, IsMember, Tenants
<1>7. Peaceful /\ InStep => Kept(m)
  BY <1>4, <1>6 DEF Kept, ProfileSteps
<1>8. InStep /\ OneByOne => Alone(m)
  BY <1>4 DEF Alone
<1> QED
  BY <1>2, <1>3, <1>4, <1>5, <1>7, <1>8, Arrives

\* The start of a process repairs administrators only.
LEMMA BackfillKeeps ==
  ASSUME TypeInv, NEW s \in Slots, NEW u \in Users,
         Backfill(s, u)
  PROVE  Preserved
<1> DEFINE m == [Idle EXCEPT !.op = "backfill", !.at = "ensure", !.user = u]
<1>1. Start(s, m) /\ UNCHANGED <<store, pool>>
  BY DEF Backfill
<1>2. u \in admins
  BY DEF Backfill
<1>3. /\ m \in Requests
      /\ m.op = "backfill" /\ m.at = "ensure" /\ m.tenant = None
      /\ m.email = None /\ m.user = u
  BY IdleIsFine, Names, <1>2 DEF TypeInv, TypeOK, Requests, Statuses, Roles, Keep, Idle, Tenants
<1> HIDE DEF m
<1>4. m.op \in Operations => Form(m)
  BY <1>2, <1>3 DEF TypeInv, TypeOK, Form, Tenants
<1>5. Peaceful /\ InStep => Kept(m)
  BY <1>1, <1>2, <1>3 DEF InStep, Identities, TenantsOf, IsMember, Kept, ProfileSteps,
     Peaceful, EmailsStay, Start, Opens, Becomes, Users, Tenants
<1>6. InStep /\ OneByOne => Alone(m)
  BY <1>2, <1>3 DEF Alone, IsPlatformAdmin
<1> QED
  BY <1>1, <1>3, <1>4, <1>5, <1>6, Arrives

\* Signing in counts on nothing.
LEMMA GetMeKeeps ==
  ASSUME TypeInv, NEW s \in Slots, NEW u \in Users,
         GetMe(s, u)
  PROVE  Preserved
<1> DEFINE m == [Idle EXCEPT !.op = "get me", !.at = "list invited", !.user = u]
<1>1. Start(s, m) /\ UNCHANGED <<store, pool>>
  BY DEF GetMe
<1>2. /\ m \in Requests
      /\ m.op = "get me" /\ m.at = "list invited" /\ m.tenant = None
      /\ m.email = None /\ m.user = u
  BY IdleIsFine, Names DEF TypeInv, TypeOK, Requests, Statuses, Roles, Keep, Idle, Tenants
<1> HIDE DEF m
<1>3. m.op \in Operations => Form(m)
  BY <1>2 DEF TypeInv, TypeOK, Form, Tenants
<1>4. Peaceful /\ InStep => Kept(m)
  BY <1>1, <1>2 DEF InStep, Identities, TenantsOf, IsMember, Kept, ProfileSteps,
     Peaceful, EmailsStay, Start, Opens, Becomes, Users, Tenants
<1>5. InStep /\ OneByOne => Alone(m)
  BY <1>2 DEF Alone, IsPlatformAdmin
<1> QED
  BY <1>1, <1>2, <1>3, <1>4, <1>5, Arrives

\* Somebody who changes the own profile has one.
LEMMA UpdateMeKeeps ==
  ASSUME TypeInv, NEW s \in Slots, NEW u \in Users,
         UpdateMe(s, u)
  PROVE  Preserved
<1> DEFINE m == [Idle EXCEPT !.op = "update me", !.at = "put profile", !.user = u,
                             !.email = profiles[u]]
<1>1. Start(s, m) /\ UNCHANGED <<store, pool>>
  BY DEF UpdateMe
<1>2. profiles[u] # None
  BY DEF UpdateMe
<1>3. /\ m \in Requests
      /\ m.op = "update me" /\ m.at = "put profile" /\ m.tenant = None
      /\ m.email = profiles[u] /\ m.user = u
  BY IdleIsFine, Names, <1>2 DEF TypeInv, TypeOK, Requests, Statuses, Roles, Keep, Idle, Tenants
<1> HIDE DEF m
<1>4. m.op \in Operations => Form(m)
  BY <1>2, <1>3 DEF TypeInv, TypeOK, Form, Tenants
<1>5. Peaceful /\ InStep => Kept(m)
  BY <1>1, <1>2, <1>3 DEF InStep, Identities, TenantsOf, IsMember, Kept, ProfileSteps,
     Peaceful, EmailsStay, Start, Opens, Becomes, Users, Tenants
<1>6. InStep /\ OneByOne => Alone(m)
  BY <1>2, <1>3 DEF Alone, IsPlatformAdmin
<1> QED
  BY <1>1, <1>3, <1>4, <1>5, <1>6, Arrives

\* An administrator whose profile is changed has one, and keeps the email.
LEMMA UpdatePlatformAdminKeeps ==
  ASSUME TypeInv, NEW s \in Slots, NEW u \in Users, NEW e \in Emails,
         UpdatePlatformAdmin(s, u, e)
  PROVE  Preserved
<1> DEFINE m == [Idle EXCEPT !.op = "rename admin", !.at = "put profile",
                             !.user = u, !.email = e]
<1>1. Start(s, m) /\ UNCHANGED <<store, pool>>
  BY DEF UpdatePlatformAdmin
<1>2. profiles[u] # None
  BY DEF UpdatePlatformAdmin
<1>3. /\ m \in Requests
      /\ m.op = "rename admin" /\ m.at = "put profile" /\ m.tenant = None
      /\ m.email = e /\ m.user = u
  BY IdleIsFine, Names, <1>2 DEF TypeInv, TypeOK, Requests, Statuses, Roles, Keep, Idle, Tenants
<1> HIDE DEF m
<1>4. m.op \in Operations => Form(m)
  BY <1>2, <1>3 DEF TypeInv, TypeOK, Form, Tenants
<1>5. u[1] \in Emails /\ "rename admin" \in Operations
  BY <1>1, <1>3 DEF Start, Opens, Becomes, Users
<1>6. Peaceful => u[1] = e
  BY <1>5 DEF Peaceful, EmailsStay
<1>7. Peaceful /\ InStep => Kept(m)
  BY <1>2, <1>3, <1>6 DEF Kept, ProfileSteps
<1>8. InStep /\ OneByOne => Alone(m)
  BY <1>2, <1>3 DEF Alone, IsPlatformAdmin
<1> QED
  BY <1>1, <1>3, <1>4, <1>7, <1>8, Arrives

-----------------------------------------------------------------------------
(* Steps that only read *)

\* A request in flight is a request in form.
LEMMA InFlight ==
  ASSUME TypeInv, NEW s \in Slots
  PROVE  /\ requests[s] \in Requests /\ Form(requests[s])
         /\ InStep => Kept(requests[s])
         /\ OneByOne => Alone(requests[s])
BY DEF TypeInv, RequestsInForm, InStep, OneByOne

\* A step that reads and goes on.
LEMMA ReadsAndGoesOn ==
  ASSUME TypeInv, NEW s \in Slots, NEW a \in RequestSteps, Goto(s, a), UNCHANGED <<store, pool>>,
         \A m \in Requests : MovedTo(m, requests[s], a) =>
            /\ Form(m)
            /\ Peaceful /\ InStep => Kept(m) /\ Settles(s, m)
            /\ Peaceful /\ InStep /\ OneByOne => Alone(m)
  PROVE  Preserved
<1>1. PICK m \in Requests : Moves(s, m) /\ MovedTo(m, requests[s], a)
  BY GoesOn
<1>2. UNCHANGED <<store, pool, sessions, unfinished, misread>>
  BY DEF Goto, Continue, Becomes
<1> QED
  BY <1>1, <1>2, QuietMove DEF Preserved

\* A step that reads and answers, when nothing is owed.
LEMMA ReadsAndAnswers ==
  ASSUME TypeInv, NEW s \in Slots, Return(s), UNCHANGED <<store, pool>>,
         Peaceful /\ InStep => requests[s].at \notin OwingSteps
  PROVE  Preserved
<1>1. Moves(s, Idle) /\ UNCHANGED <<store, pool, sessions, unfinished, misread>>
  BY DEF Return, Continue, Becomes, Moves
<1>2. Peaceful /\ InStep => Settles(s, Idle)
  BY DEF Settles, Owes
<1> QED
  BY <1>1, <1>2, IdleIsFine, QuietMove DEF Preserved

\* Whoever is found by email has that email; when nobody is found, no user of
\* that email is a member or an administrator, or some row was overlooked.
LEMMA LookUpKeeps ==
  ASSUME TypeInv, NEW s \in Slots, LookUp(s)
  PROVE  Preserved
<1> DEFINE r == requests[s]
<1>1. PICK e : e = r.email
  OBVIOUS
<1>2. /\ r.at = "look up" /\ r \in Requests /\ Form(r)
      /\ UNCHANGED <<store, pool, sessions, unfinished>>
      /\ InStep => Kept(r)
  BY InFlight DEF LookUp, At, Becomes
<1>3. e \in Emails /\ e # None /\ r.op \in {"create user", "create admin"}
  BY <1>1, <1>2, MembershipsAssumption DEF Form
<1>4. PICK u \in Findable(e) \cup {None} :
         /\ Becomes(s, [r EXCEPT !.user = u,
                !.at = IF u = None THEN "provision"
                       ELSE IF r.op = "create user" THEN "check" ELSE "set flag"])
         /\ misread' = misread \cup
                (IF u \in ProfilesByEmail(e) \/ (u = None /\ ProfilesByEmail(e) = {})
                 THEN {} ELSE {e})
  BY <1>1 DEF LookUp
<1>5. u # None => u \in Users /\ profiles[u] = e
  BY <1>4 DEF Findable
<1>6. PICK a \in {"provision", "check", "set flag"} :
         /\ a = "provision" <=> u = None
         /\ a = "check" => r.op = "create user"
         /\ a = "set flag" => r.op = "create admin"
         /\ Becomes(s, [r EXCEPT !.user = u, !.at = a])
  BY <1>3, <1>4
<1>7. a \in RequestSteps
  BY <1>6 DEF RequestSteps
<1>8. PICK m \in Requests :
         /\ Moves(s, m) /\ m.user = u /\ m.at = a
         /\ m.op = r.op /\ m.tenant = r.tenant /\ m.email = e
         /\ m.role = r.role /\ m.want = r.want
  <2> DEFINE m == [r EXCEPT !.user = u, !.at = a]
  <2>1. /\ m \in Requests /\ m.user = u /\ m.at = a
        /\ m.op = r.op /\ m.tenant = r.tenant /\ m.email = e
        /\ m.role = r.role /\ m.want = r.want
    BY <1>1, <1>2, <1>5, <1>7 DEF Requests
  <2>2. Moves(s, m)
    BY <1>6 DEF Moves, Becomes
  <2> QED
    BY <2>1, <2>2
<1>9. Form(m)
  BY <1>1, <1>2, <1>3, <1>5, <1>6, <1>8 DEF Form
<1>10. profiles' = profiles /\ memberships' = memberships /\ admins' = admins
  BY <1>2 DEF store
<1>11. InStep /\ u # None => u[1] = e /\ profiles[u] # None
  BY <1>3, <1>5 DEF InStep, Identities
<1> HIDE DEF r
<1>12. InStep => Kept(m)'
  <2>1. m.at \notin {"store profile", "activate", "list firms", "purge firms", "clear flag",
                    "delete profile", "delete account", "remove member", "list remaining"}
    BY <1>6, <1>8
  <2>2. m.op \notin {"update user", "delete user", "invalidate invite", "delete admin"}
    BY <1>3, <1>8
  <2>3. m.at \in ProfileSteps => m.user # None
    BY <1>6, <1>8 DEF ProfileSteps
  <2>4. InStep /\ m.user # None => m.user[1] = m.email /\ profiles'[m.user] # None
    BY <1>8, <1>10, <1>11
  <2> QED
    BY <2>1, <2>2, <2>3, <2>4 DEF Kept
<1>13. \A f : ~Owes(requests[s], f)
  BY <1>2 DEF r, Owes, OwingSteps
<1>14. ASSUME InStep, a = "provision", e \notin misread', NEW v \in Users, v[1] = e
       PROVE  TenantsOf(v) = {} /\ v \notin admins
  <2>1. ProfilesByEmail(e) = {}
    BY <1>4, <1>6, <1>14, MembershipsAssumption DEF ProfilesByEmail
  <2> QED
    BY <1>14, <2>1 DEF InStep, Identities, ProfilesByEmail
<1>15. InStep => Alone(m)'
  BY <1>3, <1>6, <1>8, <1>10, <1>14, FirmsStay DEF Alone
<1>16. misread \subseteq misread' /\ misread' \subseteq Emails /\ unfinished \subseteq Emails
  BY <1>3, <1>4 DEF TypeInv, TypeOK
<1> QED
  BY <1>2, <1>8, <1>9, <1>12, <1>13, <1>15, <1>16, ReadingMove

\* Nobody is invited into a second firm, unless the first one was overlooked.
LEMMA CheckKeeps ==
  ASSUME TypeInv, NEW s \in Slots, Check(s)
  PROVE  Preserved
<1> DEFINE r == requests[s]
<1>1. PICK u, t : u = r.user /\ t = r.tenant
  OBVIOUS
<1>2. /\ r.at = "check" /\ r \in Requests /\ Form(r) /\ UNCHANGED <<store, pool>>
      /\ InStep => Kept(r)
  BY InFlight DEF Check, At
<1>3. u \in Users /\ t \in Tenants /\ r.email \in Emails /\ r.op = "create user"
  BY <1>1, <1>2 DEF Form
<1>4. CASE Return(s)
  BY <1>2, <1>4, ReadsAndAnswers DEF OwingSteps
<1>5. CASE /\ Becomes(s, [r EXCEPT !.at = "restore profile"])
           /\ misread' = misread \cup (IF BelongsElsewhere(u, t) THEN {u[1]} ELSE {})
           /\ unfinished' = unfinished
  <2>1. UNCHANGED <<store, pool, sessions>>
    BY <1>2, <1>5 DEF Becomes
  <2>2. PICK m \in Requests : Moves(s, m) /\ MovedTo(m, r, "restore profile")
    <3> DEFINE m == [r EXCEPT !.at = "restore profile"]
    <3>1. m \in Requests /\ MovedTo(m, r, "restore profile")
      BY <1>2 DEF Requests, RequestSteps, MovedTo
    <3> QED
      BY <1>5, <3>1 DEF Moves, Becomes
  <2>3. Form(m)
    BY <1>2, <1>3, <2>2 DEF Form, MovedTo
  <2>4. profiles' = profiles /\ memberships' = memberships /\ admins' = admins
    BY <2>1 DEF store
  <2>5. InStep => Kept(m)'
    BY <1>1, <1>2, <1>3, <2>2, <2>4 DEF MovedTo, Kept, ProfileSteps
  <2>6. t # Platform /\ u[1] \notin misread' => TenantsOf(u) \subseteq {Platform, t}
    BY <1>5 DEF BelongsElsewhere
  <2>7. Alone(m)'
    BY <1>1, <1>3, <2>2, <2>4, <2>6, FirmsStay DEF Alone, MovedTo
  <2>8. \A f : ~Owes(r, f)
    BY <1>2 DEF Owes, OwingSteps
  <2>9. /\ misread \subseteq misread' /\ misread' \subseteq Emails
        /\ unfinished' = unfinished /\ unfinished \subseteq Emails
    BY <1>3, <1>5 DEF TypeInv, TypeOK, Users
  <2> QED
    BY <2>1, <2>2, <2>3, <2>5, <2>7, <2>8, <2>9, ReadingMove
<1> QED
  BY <1>1, <1>4, <1>5 DEF Check

\* A refusal of Cognito leaves everything as it was.
LEMMA ProvisionRaisesKeeps ==
  ASSUME TypeInv, NEW s \in Slots, ProvisionRaises(s)
  PROVE  Preserved
BY ReadsAndAnswers DEF ProvisionRaises, At, OwingSteps

\* The repair of an administrator's membership is of an administrator.
LEMMA EnsureKeeps ==
  ASSUME TypeInv, NEW s \in Slots, Ensure(s)
  PROVE  Preserved
<1> DEFINE r == requests[s]
<1>1. /\ r.at = "ensure" /\ r \in Requests /\ Form(r) /\ UNCHANGED <<store, pool>>
      /\ InStep => Kept(r)
      /\ OneByOne => Alone(r)
  BY InFlight DEF Ensure, At
<1>2. PICK a \in {"confirm flag", "put platform member"} : Goto(s, a)
  BY DEF Ensure
<1>3. ASSUME NEW m \in Requests, MovedTo(m, r, a)
      PROVE  Form(m) /\ (OneByOne => Alone(m))
  BY <1>1, <1>2, <1>3 DEF MovedTo, Form, Alone
<1>4. ASSUME NEW m \in Requests, MovedTo(m, r, a), InStep PROVE Kept(m) /\ Settles(s, m)
  BY <1>1, <1>2, <1>4 DEF MovedTo, Form, Kept, Settles, Owes, OwingSteps, ProfileSteps
<1> QED
  BY <1>1, <1>2, <1>3, <1>4, ReadsAndGoesOn DEF RequestSteps

\* The memberships that an administrator loses are those in firms.
LEMMA ListFirmsKeeps ==
  ASSUME TypeInv, NEW s \in Slots, ListFirms(s)
  PROVE  Preserved
<1> DEFINE r == requests[s]
<1> DEFINE firms == TenantsOf(r.user) \ {Platform}
<1> DEFINE m == [r EXCEPT !.todo = firms, !.at = "purge firms"]
<1>1. /\ r.at = "list firms" /\ r \in Requests /\ Form(r)
      /\ InStep => Kept(r)
      /\ Moves(s, m) /\ UNCHANGED <<store, pool, sessions, unfinished, misread>>
  BY InFlight DEF ListFirms, At, Continue, Becomes, Moves
<1>2. firms \subseteq Firms /\ firms \subseteq Rows
  BY DEF TenantsOf, Tenants, Rows
<1> HIDE DEF firms
<1>3. /\ m \in Requests /\ m.at = "purge firms" /\ m.op = r.op /\ m.tenant = r.tenant
      /\ m.email = r.email /\ m.user = r.user /\ m.role = r.role /\ m.want = r.want
      /\ m.copy = r.copy /\ m.todo \subseteq Firms
  BY <1>1, <1>2, Names DEF Requests
<1> HIDE DEF m
<1>4. Form(m) /\ Alone(m)
  BY <1>1, <1>3 DEF Form, Alone
<1>5. InStep => Kept(m) /\ Settles(s, m)
  BY <1>1, <1>3 DEF Form, Kept, Settles, Owes, OwingSteps, ProfileSteps
<1> QED
  BY <1>1, <1>3, <1>4, <1>5, QuietMove DEF Preserved

\* What is put back as an invitation is the membership in the Platform tenant.
LEMMA EndPurgeKeeps ==
  ASSUME TypeInv, NEW s \in Slots, EndPurge(s)
  PROVE  Preserved
<1> DEFINE r == requests[s]
<1> DEFINE current == memberships[Platform][r.user]
<1> DEFINE new == [current EXCEPT !.status = "INVITED"]
<1> DEFINE m == [r EXCEPT !.tenant = Platform, !.at = "put member", !.copy = new]
<1>1. /\ r.at = "purge firms" /\ r \in Requests /\ Form(r) /\ UNCHANGED <<store, pool>>
      /\ InStep => Kept(r)
  BY InFlight DEF EndPurge, At
<1>2. CASE Return(s)
  BY <1>1, <1>2, ReadsAndAnswers DEF OwingSteps
<1>3. CASE r.op = "create admin" /\ current # None /\ Continue(s, m)
  <2>1. r.user \in Users
    BY <1>1 DEF Form
  <2>2. memberships[Platform][r.user] \in Members \cup {None}
    BY <2>1 DEF TypeInv, TypeOK, Tenants
  <2>3. current \in Members
    BY <2>2, <1>3
  <2>4. new \in Members
    BY <2>3 DEF Members, Statuses
  <2> HIDE DEF new
  <2>5. /\ m \in Requests /\ m.at = "put member" /\ m.op = r.op /\ m.tenant = Platform
        /\ m.email = r.email /\ m.user = r.user /\ m.role = r.role /\ m.want = r.want
        /\ m.copy = new
    BY <1>1, <2>4, Names DEF Requests, Tenants
  <2>6. Moves(s, m) /\ UNCHANGED <<store, pool, sessions, unfinished, misread>>
    BY <1>1, <1>3 DEF Continue, Becomes, Moves
  <2> HIDE DEF m
  <2>7. Form(m) /\ Alone(m)
    BY <1>1, <1>3, <2>4, <2>5 DEF Form, Alone
  <2>8. InStep => Kept(m) /\ Settles(s, m)
    BY <1>1, <1>3, <2>5 DEF Form, Kept, Settles, Owes, OwingSteps, ProfileSteps
  <2> QED
    BY <2>5, <2>6, <2>7, <2>8, QuietMove DEF Preserved
<1> QED
  BY <1>2, <1>3 DEF EndPurge

\* The email of a removed administrator is the one of the profile, if found.
LEMMA ReadProfileKeeps ==
  ASSUME TypeInv, NEW s \in Slots, ReadProfile(s)
  PROVE  Preserved
<1> DEFINE r == requests[s]
<1>1. PICK u : u = r.user
  OBVIOUS
<1>2. /\ r.at = "read profile" /\ r \in Requests /\ Form(r)
      /\ InStep => Kept(r)
      /\ UNCHANGED <<store, pool, sessions>>
  BY InFlight DEF ReadProfile, At, Becomes
<1>3. u \in Users /\ u # None /\ r.op = "delete admin" /\ r.tenant \in {Platform, None}
  BY <1>1, <1>2, MembershipsAssumption DEF Form
<1>4. PICK a \in {"list remaining", "remove member"}, email \in {profiles[u], None} :
         /\ Becomes(s, [r EXCEPT !.email = email, !.at = a])
         /\ a = "remove member" => r.tenant # None
         /\ ReadsEmail(u, email)
  BY <1>1 DEF ReadProfile
<1>5. email \in Emails \cup {None} /\ a \in RequestSteps
  BY <1>3 DEF TypeInv, TypeOK, RequestSteps
<1>6. PICK m \in Requests :
         /\ Moves(s, m) /\ m.email = email /\ m.at = a
         /\ m.op = r.op /\ m.tenant = r.tenant /\ m.user = u
  <2> DEFINE m == [r EXCEPT !.email = email, !.at = a]
  <2>1. /\ m \in Requests /\ m.email = email /\ m.at = a
        /\ m.op = r.op /\ m.tenant = r.tenant /\ m.user = u
    BY <1>1, <1>2, <1>5 DEF Requests
  <2> QED
    BY <1>4, <2>1 DEF Moves, Becomes
<1>7. Form(m)
  BY <1>2, <1>3, <1>4, <1>6 DEF Form, Tenants
<1>8. profiles' = profiles /\ memberships' = memberships /\ admins' = admins
  BY <1>2 DEF store
<1>9. InStep => profiles[u] # None /\ profiles[u] = u[1] /\ u \notin admins
  BY <1>1, <1>2, <1>3 DEF Kept, ProfileSteps, InStep, Identities
<1>10. InStep => Kept(m)'
  BY <1>3, <1>4, <1>6, <1>8, <1>9 DEF Kept, ProfileSteps, ReadsEmail
<1>11. Alone(m)'
  BY <1>3, <1>4, <1>6 DEF Alone
<1>12. InStep => \A f \in Emails : Owes(r, f) => f = u[1]
  BY <1>1, <1>2, <1>3, MembershipsAssumption DEF Owes, Kept
<1>13. \A f \in Emails : f = u[1] => Owes(m, f)
  BY <1>3, <1>4, <1>6 DEF Owes, OwingSteps
<1>14. /\ unfinished \subseteq unfinished' /\ unfinished' \subseteq Emails
       /\ misread' = misread /\ misread \subseteq Emails
  BY <1>3, <1>4 DEF ReadsEmail, TypeInv, TypeOK, Users
<1> QED
  BY <1>2, <1>6, <1>7, <1>10, <1>11, <1>12, <1>13, <1>14, ReadingMove

\* The profile goes only when no membership is left.
LEMMA ListRemainingKeeps ==
  ASSUME TypeInv, NEW s \in Slots, ListRemaining(s)
  PROVE  Preserved
<1> DEFINE r == requests[s]
<1>1. /\ r.at = "list remaining" /\ r \in Requests /\ Form(r) /\ UNCHANGED <<store, pool>>
      /\ InStep => Kept(r)
  BY InFlight DEF ListRemaining, At
<1>2. CASE r.email = None
  <2>1. /\ Moves(s, Idle) /\ UNCHANGED <<store, pool, sessions, unfinished, misread>>
    BY <1>1, <1>2 DEF ListRemaining, DisableOrReturn, Return, Continue, Becomes, Moves
  <2>2. InStep => r.user[1] \in unfinished
    BY <1>1, <1>2 DEF Kept
  <2>3. InStep => Settles(s, Idle)
    BY <1>2, <2>2, MembershipsAssumption DEF Settles, Owes
  <2> QED
    BY <2>1, <2>3, IdleIsFine, QuietMove DEF Preserved
<1>3. CASE r.email # None
  <2>1. PICK a \in {"delete profile", "disable"} :
           Goto(s, a) /\ (a = "delete profile" => TenantsOf(r.user) = {})
    BY <1>3 DEF ListRemaining, DisableOrReturn
  <2>2. ASSUME NEW m \in Requests, MovedTo(m, r, a) PROVE Form(m) /\ Alone(m)
    BY <1>1, <1>3, <2>1, <2>2 DEF MovedTo, Form, Alone, Requests
  <2>3. ASSUME NEW m \in Requests, MovedTo(m, r, a), InStep PROVE Kept(m) /\ Settles(s, m)
    BY <1>1, <1>3, <2>1, <2>3 DEF MovedTo, Form, Kept, Settles, Owes, OwingSteps, ProfileSteps
  <2> QED
    BY <1>1, <2>1, <2>2, <2>3, ReadsAndGoesOn DEF RequestSteps
<1> QED
  BY <1>2, <1>3

\* The invitations that are listed are what the memberships are.
LEMMA ListInvitedKeeps ==
  ASSUME TypeInv, NEW s \in Slots, ListInvited(s)
  PROVE  Preserved
<1> DEFINE r == requests[s]
<1> DEFINE listed == {t \in TenantsOf(r.user) : memberships[t][r.user].status = "INVITED"}
<1> DEFINE rows == {<<t, memberships[t][r.user].role>> : t \in listed}
<1> DEFINE m == [r EXCEPT !.at = "activate", !.todo = rows]
<1>1. /\ r.at = "list invited" /\ r \in Requests /\ Form(r)
      /\ InStep => Kept(r)
      /\ Moves(s, m) /\ UNCHANGED <<store, pool, sessions, unfinished, misread>>
  BY InFlight DEF ListInvited, At, Continue, Becomes, Moves
<1>2. r.user \in Users
  BY <1>1 DEF Form
<1>3. \A t \in listed : t \in Tenants /\ memberships[t][r.user] \in Members
                        /\ memberships[t][r.user].status = "INVITED"
  BY <1>2 DEF TenantsOf, IsMember, TypeInv, TypeOK
<1>4. \A x \in rows : /\ x \in Tenants \X Roles
                      /\ memberships[x[1]][r.user] = [role |-> x[2], status |-> "INVITED"]
  BY <1>3 DEF Members
<1>5. rows \subseteq Rows
  BY <1>4 DEF Rows
<1> HIDE DEF rows
<1>6. /\ m \in Requests /\ m.at = "activate" /\ m.op = r.op /\ m.tenant = r.tenant
      /\ m.email = r.email /\ m.user = r.user /\ m.role = r.role /\ m.want = r.want
      /\ m.copy = r.copy /\ m.todo = rows
  BY <1>1, <1>5, Names DEF Requests
<1> HIDE DEF m
<1>7. Form(m) /\ Alone(m)
  BY <1>1, <1>4, <1>6 DEF Form, Alone
<1>8. ASSUME InStep, rows # {} PROVE profiles[r.user] # None
  <2>1. TenantsOf(r.user) # {}
    BY <1>3, <1>8 DEF rows
  <2> QED
    BY <1>2, <1>8, <2>1 DEF InStep, Identities
<1>9. InStep => Kept(m) /\ Settles(s, m)
  BY <1>1, <1>6, <1>8 DEF Form, Kept, Settles, Owes, OwingSteps, ProfileSteps
<1> QED
  BY <1>1, <1>6, <1>7, <1>9, QuietMove DEF Preserved

\* Only an administrator's membership is repaired at a log-in.
LEMMA CheckAdminKeeps ==
  ASSUME TypeInv, NEW s \in Slots, CheckAdmin(s)
  PROVE  Preserved
<1> DEFINE r == requests[s]
<1>1. /\ r.at = "activate" /\ r \in Requests /\ Form(r) /\ UNCHANGED <<store, pool>>
      /\ InStep => Kept(r)
  BY InFlight DEF CheckAdmin, At
<1>2. CASE Return(s)
  BY <1>1, <1>2, ReadsAndAnswers DEF OwingSteps
<1>3. CASE IsPlatformAdmin(r.user) /\ Goto(s, "ensure")
  <2>1. Goto(s, "ensure") /\ r.user \in Users
    BY <1>1, <1>3 DEF Form
  <2>2. InStep => profiles[r.user] # None
    BY <1>3, <2>1 DEF InStep, Identities, IsPlatformAdmin, TenantsOf, Tenants
  <2>3. ASSUME NEW m \in Requests, MovedTo(m, r, "ensure") PROVE Form(m) /\ Alone(m)
    BY <1>1, <1>3, <2>3 DEF MovedTo, Form, Alone
  <2>4. ASSUME NEW m \in Requests, MovedTo(m, r, "ensure"), InStep
        PROVE  Kept(m) /\ Settles(s, m)
    BY <1>1, <2>2, <2>4 DEF MovedTo, Form, Kept, Settles, Owes, OwingSteps, ProfileSteps
  <2> QED
    BY <1>1, <2>1, <2>3, <2>4, ReadsAndGoesOn DEF RequestSteps
<1> QED
  BY <1>2, <1>3 DEF CheckAdmin

-----------------------------------------------------------------------------
(* Steps that write *)

\* A profile is put back or made for the sub of its account.
LEMMA ProfilePut ==
  ASSUME TypeInv, InStep, NEW u \in Users, profiles' = [profiles EXCEPT ![u] = u[1]],
         accounts[u[1]] # None, accounts[u[1]].sub = u,
         UNCHANGED <<memberships, admins, accounts>>
  PROVE  /\ Identities' /\ Grows
         /\ profiles'[u] = u[1] /\ u[1] \in Emails /\ u[1] # None
         /\ \A e \in Emails : LockedOut(e) => LockedOut(e)'
<1>1. u[1] \in Emails /\ u[1] # None
  BY MembershipsAssumption DEF Users
<1>2. \A v \in Users : profiles'[v] = IF v = u THEN u[1] ELSE profiles[v]
  BY DEF TypeInv, TypeOK
<1>3. Identities' /\ Grows
  BY <1>1, <1>2 DEF InStep, Identities, Grows, TenantsOf, IsMember
<1>4. \A e \in Emails : LockedOut(e) => LockedOut(e)'
  BY DEF LockedOut, TenantsOf, IsMember
<1> QED
  BY <1>1, <1>2, <1>3, <1>4

\* A person's profile is put with the email that the person has.
LEMMA RestoreProfileKeeps ==
  ASSUME TypeInv, NEW s \in Slots, RestoreProfile(s)
  PROVE  Preserved
<1> DEFINE r == requests[s]
<1> DEFINE a == IF r.want = "INVITED" THEN "reinvite" ELSE "add member"
<1>1. /\ r.at = "restore profile" /\ r \in Requests /\ Form(r)
      /\ InStep => Kept(r)
      /\ OneByOne => Alone(r)
      /\ profiles' = [profiles EXCEPT ![r.user] = r.email]
      /\ UNCHANGED <<memberships, admins, pool, sessions, unfinished, misread>>
  BY InFlight DEF RestoreProfile, At, Goto, Continue, Becomes
<1>2. a \in {"reinvite", "add member"} /\ a \in RequestSteps
  BY DEF RequestSteps
<1>3. PICK m \in Requests : Moves(s, m) /\ MovedTo(m, r, a)
  BY <1>2, GoesOn DEF RestoreProfile
<1> HIDE DEF a
<1>4. r.user \in Users /\ r.email \in Emails /\ r.op = "create user"
  BY <1>1 DEF Form
<1>5. Form(m)
  BY <1>1, <1>2, <1>3 DEF Form, MovedTo
<1>6. TypeOK'
  BY <1>1, <1>4 DEF TypeInv, TypeOK, pool
<1>7. ASSUME InStep PROVE Identities' /\ Kept(m)' /\ Pays(s, m) /\ Grows
  <2>1. r.user[1] = r.email /\ profiles[r.user] # None
    BY <1>1, <1>4, <1>7, MembershipsAssumption DEF Kept, ProfileSteps
  <2>2. accounts[r.email] # None /\ accounts[r.email].sub = r.user
    BY <1>4, <1>7, <2>1 DEF InStep, Identities
  <2>3. /\ Identities' /\ Grows /\ profiles'[r.user] # None
        /\ \A e \in Emails : LockedOut(e) => LockedOut(e)'
    BY <1>1, <1>4, <1>7, <2>1, <2>2, ProfilePut DEF pool
  <2>4. Kept(m)'
    BY <1>2, <1>3, <1>4, <2>1, <2>3 DEF MovedTo, Kept, ProfileSteps
  <2>5. Pays(s, m)
    BY <1>1, <2>3 DEF Pays, Owes, OwingSteps
  <2> QED
    BY <2>3, <2>4, <2>5
<1>8. ASSUME OneByOne PROVE Alone(m)' /\ FirmsKept
  <2>1. r.tenant # Platform /\ r.user[1] \notin misread
            => TenantsOf(r.user) \subseteq {Platform, r.tenant}
    BY <1>1, <1>4, <1>8 DEF Alone
  <2>2. m.user = r.user /\ m.tenant = r.tenant /\ m.op = "create user" /\ m.at = a
    BY <1>3, <1>4 DEF MovedTo
  <2>3. Alone(m)'
    BY <1>1, <1>2, <2>1, <2>2, FirmsStay DEF Alone
  <2> QED
    BY <1>1, <1>8, <2>3, FirmsStay
<1> QED
  BY <1>1, <1>3, <1>5, <1>6, <1>7, <1>8, WriteMove

\* The profile of a new member is the one of the account just provisioned.
LEMMA StoreProfileKeeps ==
  ASSUME TypeInv, NEW s \in Slots, StoreProfile(s)
  PROVE  Preserved
<1> DEFINE r == requests[s]
<1> DEFINE a == IF r.op = "create user" THEN "add member" ELSE "set flag"
<1>1. /\ r.at = "store profile" /\ r \in Requests /\ Form(r)
      /\ InStep => Kept(r)
      /\ OneByOne => Alone(r)
      /\ profiles' = [profiles EXCEPT ![r.user] = r.email]
      /\ UNCHANGED <<memberships, admins, pool, sessions, unfinished, misread>>
  BY InFlight DEF StoreProfile, At, Goto, Continue, Becomes
<1>2. a \in {"add member", "set flag"} /\ a \in RequestSteps
  BY DEF RequestSteps
<1>3. PICK m \in Requests : Moves(s, m) /\ MovedTo(m, r, a)
  BY <1>2, GoesOn DEF StoreProfile
<1>4. r.user \in Users /\ r.email \in Emails /\ r.op \in {"create user", "create admin"}
  BY <1>1 DEF Form
<1>5. Form(m)
  BY <1>1, <1>3, <1>4 DEF Form, MovedTo
<1>6. TypeOK'
  BY <1>1, <1>4 DEF TypeInv, TypeOK, pool
<1> HIDE DEF a
<1>7. ASSUME InStep PROVE Identities' /\ Kept(m)' /\ Pays(s, m) /\ Grows
  <2>1. r.user[1] = r.email /\ accounts[r.email] # None /\ accounts[r.email].sub = r.user
    BY <1>1, <1>4, <1>7, MembershipsAssumption DEF Kept
  <2>2. /\ Identities' /\ Grows /\ profiles'[r.user] # None
        /\ \A e \in Emails : LockedOut(e) => LockedOut(e)'
    BY <1>1, <1>4, <1>7, <2>1, ProfilePut DEF pool
  <2>3. Kept(m)'
    BY <1>2, <1>3, <1>4, <2>1, <2>2 DEF MovedTo, Kept, ProfileSteps
  <2>4. Pays(s, m)
    BY <1>1, <1>2, <1>3, <2>2 DEF Pays, Owes, OwingSteps, MovedTo
  <2> QED
    BY <2>2, <2>3, <2>4
<1>8. ASSUME InStep, OneByOne PROVE Alone(m)' /\ FirmsKept
  <2>1. r.user[1] = r.email
    BY <1>1, <1>4, <1>8, MembershipsAssumption DEF Kept
  <2>2. r.user[1] \notin misread => TenantsOf(r.user) = {}
    BY <1>1, <1>4, <1>8, <2>1 DEF Alone
  <2>3. m.user = r.user /\ m.op \in {"create user", "create admin"} /\ m.at = a
    BY <1>3, <1>4 DEF MovedTo
  <2>4. Alone(m)'
    BY <1>1, <1>2, <2>2, <2>3, FirmsStay DEF Alone
  <2> QED
    BY <1>1, <1>8, <2>4, FirmsStay
<1> QED
  BY <1>1, <1>3, <1>5, <1>6, <1>7, <1>8, WriteMove

\* An update of a profile leaves the email.
LEMMA PutProfileKeeps ==
  ASSUME TypeInv, NEW s \in Slots, PutProfile(s)
  PROVE  Preserved
<1> DEFINE r == requests[s]
<1>1. /\ r.at = "put profile" /\ r \in Requests /\ Form(r)
      /\ InStep => Kept(r)
      /\ OneByOne => Alone(r)
      /\ profiles' = [profiles EXCEPT ![r.user] = r.email]
      /\ UNCHANGED <<memberships, admins, pool>>
  BY InFlight DEF PutProfile, At
<1>2. /\ r.user \in Users /\ r.email \in Emails
      /\ r.op \in {"update user", "update me", "rename admin"}
  BY <1>1 DEF Form
<1>3. PICK m \in Requests :
        /\ Moves(s, m) /\ Form(m) /\ UNCHANGED <<sessions, unfinished, misread>>
        /\ \/ /\ m.at = "put member" /\ m.op = "update user"
              /\ m.op = r.op /\ m.tenant = r.tenant /\ m.user = r.user /\ m.email = r.email
           \/ /\ m.at = "list invited"
              /\ m.op = r.op /\ m.tenant = r.tenant /\ m.user = r.user /\ m.email = r.email
           \/ m = Idle
  <2>1. CASE r.op = "rename admin"
    BY <1>1, <2>1, IdleIsFine DEF PutProfile, Return, Continue, Becomes, Moves
  <2>2. CASE r.op = "update user"
    <3>1. Goto(s, "put member")
      BY <2>2 DEF PutProfile
    <3>2. PICK m \in Requests : Moves(s, m) /\ MovedTo(m, r, "put member")
      BY <3>1, GoesOn DEF RequestSteps
    <3>3. Form(m)
      BY <1>1, <2>2, <3>2 DEF Form, MovedTo
    <3> QED
      BY <2>2, <3>1, <3>2, <3>3 DEF MovedTo, Goto, Continue, Becomes
  <2>3. CASE r.op = "update me"
    <3>1. Goto(s, "list invited")
      BY <2>3 DEF PutProfile
    <3>2. PICK m \in Requests : Moves(s, m) /\ MovedTo(m, r, "list invited")
      BY <3>1, GoesOn DEF RequestSteps
    <3>3. Form(m)
      BY <1>1, <2>3, <3>2 DEF Form, MovedTo
    <3> QED
      BY <3>1, <3>2, <3>3 DEF MovedTo, Goto, Continue, Becomes
  <2> QED
    BY <1>2, <2>1, <2>2, <2>3
<1>4. Idle.user = None /\ Idle.at = "idle" /\ Idle.op = "none"
  BY DEF Idle
<1>5. TypeOK'
  BY <1>1, <1>2, <1>3 DEF TypeInv, TypeOK, pool
<1>6. ASSUME InStep PROVE Identities' /\ Kept(m)' /\ Pays(s, m) /\ Grows
  <2>1. r.user[1] = r.email /\ profiles[r.user] # None
    BY <1>1, <1>2, <1>6, MembershipsAssumption DEF Kept, ProfileSteps
  <2>2. accounts[r.email] # None /\ accounts[r.email].sub = r.user
    BY <1>2, <1>6, <2>1 DEF InStep, Identities
  <2>3. /\ Identities' /\ Grows /\ profiles'[r.user] # None
        /\ \A e \in Emails : LockedOut(e) => LockedOut(e)'
    BY <1>1, <1>2, <1>6, <2>1, <2>2, ProfilePut DEF pool
  <2>4. Kept(m)'
    BY <1>2, <1>3, <1>4, <2>1, <2>3 DEF Kept, ProfileSteps
  <2>5. Pays(s, m)
    BY <1>1, <2>3 DEF Pays, Owes, OwingSteps
  <2> QED
    BY <2>3, <2>4, <2>5
<1>7. ASSUME OneByOne PROVE Alone(m)' /\ FirmsKept
  <2>1. r.op = "update user" => IsMember(r.user, r.tenant)
    BY <1>1, <1>7 DEF Alone
  <2>2. Alone(m)'
    BY <1>1, <1>2, <1>3, <1>4, <2>1, FirmsStay DEF Alone, IsMember
  <2> QED
    BY <1>1, <1>7, <2>2, FirmsStay
<1> QED
  BY <1>3, <1>5, <1>6, <1>7, WriteMove

-----------------------------------------------------------------------------
(* Steps that write to the pool *)

\* An account that is enabled or disabled stays the account of its person.
LEMMA AccountSet ==
  ASSUME TypeInv, NEW e \in Emails, NEW b \in BOOLEAN, accounts[e] # None,
         accounts' = [accounts EXCEPT ![e].enabled = b],
         UNCHANGED <<store, created, sessions, unfinished, misread>>
  PROVE  /\ TypeOK' /\ (InStep => Identities') /\ Grows
         /\ \A f \in Emails \ {e} : LockedOut(f) => LockedOut(f)'
         /\ ~b => LockedOut(e)'
<1>1. accounts[e] \in Accounts /\ accounts \in [Emails -> Accounts \cup {None}]
  BY DEF TypeInv, TypeOK
<1> DEFINE new == [accounts[e] EXCEPT !.enabled = b]
<1>2. new \in Accounts /\ new.sub = accounts[e].sub /\ new.enabled = b
  BY <1>1 DEF Accounts
<1>3. accounts' = [accounts EXCEPT ![e] = new]
  BY <1>1
<1> HIDE DEF new
<1>4. new # None
  BY <1>2, MembershipsAssumption
<1>5. \A f \in Emails : accounts'[f] = IF f = e THEN new ELSE accounts[f]
  BY <1>1, <1>3
<1>6. profiles' = profiles /\ admins' = admins /\ memberships' = memberships
  BY DEF store
<1>7. TypeOK'
  BY <1>1, <1>2, <1>3, <1>6 DEF TypeInv, TypeOK
<1>8. \A f \in Emails : /\ accounts'[f] # None <=> accounts[f] # None
                        /\ accounts'[f].sub = accounts[f].sub
  BY <1>2, <1>4, <1>5
<1>9. Grows
  BY <1>6, <1>8 DEF Grows
<1>10. ASSUME InStep PROVE Identities'
  <2>1. \A u \in Users : u[1] \in Emails
    BY DEF Users
  <2> QED
    BY <1>6, <1>8, <1>10, <2>1, FirmsStay DEF InStep, Identities
<1>11. \A f \in Emails \ {e} : LockedOut(f) => LockedOut(f)'
  BY <1>5, <1>6, FirmsStay DEF LockedOut
<1>12. ~b => LockedOut(e)'
  BY <1>2, <1>5 DEF LockedOut
<1> QED
  BY <1>7, <1>9, <1>10, <1>11, <1>12

\* The account that a new invitation enables will have a membership again.
LEMMA ReinviteKeeps ==
  ASSUME TypeInv, NEW s \in Slots, Reinvite(s)
  PROVE  Preserved
<1> DEFINE r == requests[s]
<1>1. /\ r.at = "reinvite" /\ r \in Requests /\ Form(r) /\ UNCHANGED store
      /\ InStep => Kept(r)
      /\ OneByOne => Alone(r)
  BY InFlight DEF Reinvite, At
<1>2. r.user \in Users /\ r.email \in Emails /\ r.op = "create user"
  BY <1>1 DEF Form
<1>3. CASE accounts[r.email] = None
  BY <1>1, <1>3, ReadsAndAnswers DEF Reinvite, OwingSteps
<1>4. CASE accounts[r.email] # None
  <2>1. /\ accounts' = [accounts EXCEPT ![r.email].enabled = TRUE]
        /\ UNCHANGED <<store, created, sessions, unfinished, misread>>
        /\ Goto(s, "add member")
    BY <1>4 DEF Reinvite, Enable, Goto, Continue, Becomes
  <2>2. PICK m \in Requests : Moves(s, m) /\ MovedTo(m, r, "add member")
    BY <2>1, GoesOn DEF RequestSteps
  <2>3. Form(m)
    BY <1>1, <2>2 DEF Form, MovedTo
  <2>4. /\ TypeOK' /\ (InStep => Identities') /\ Grows
        /\ \A f \in Emails \ {r.email} : LockedOut(f) => LockedOut(f)'
    BY <1>2, <1>4, <2>1, AccountSet
  <2>5. profiles' = profiles /\ memberships' = memberships
    BY <1>1 DEF store
  <2>6. InStep => Kept(m)'
    BY <1>1, <1>2, <2>2, <2>5 DEF Kept, ProfileSteps, MovedTo
  <2>7. Pays(s, m)
    BY <1>1, <2>2, <2>4 DEF Pays, Owes, OwingSteps, MovedTo
  <2>8. OneByOne => Alone(m)' /\ FirmsKept
    BY <1>1, <1>2, <2>1, <2>2, <2>5, FirmsStay DEF Alone, MovedTo
  <2> QED
    BY <2>1, <2>2, <2>3, <2>4, <2>6, <2>7, <2>8, WriteMove
<1> QED
  BY <1>3, <1>4

\* A new account belongs to nobody yet, and one that was there to whoever has
\* had it.
LEMMA ProvisionKeeps ==
  ASSUME TypeInv, NEW s \in Slots, Provision(s)
  PROVE  Preserved
<1> DEFINE r == requests[s]
<1> DEFINE e == r.email
<1>1. /\ r.at = "provision" /\ r \in Requests /\ Form(r) /\ UNCHANGED store
      /\ InStep => Kept(r)
      /\ OneByOne => Alone(r)
  BY InFlight DEF Provision, At
<1>2. e \in Emails /\ r.op \in {"create user", "create admin"} /\ e # None
  BY <1>1, MembershipsAssumption DEF Form
<1>3. profiles' = profiles /\ memberships' = memberships /\ admins' = admins
  BY <1>1 DEF store
<1>4. PICK u \in Users :
        /\ InStep => u[1] = e
        /\ Continue(s, [r EXCEPT !.user = u, !.at = "store profile"])
        /\ TypeOK' /\ (InStep => Identities') /\ Grows
        /\ accounts'[e] # None /\ accounts'[e].sub = u
        /\ \A f \in Emails \ {e} : LockedOut(f) => LockedOut(f)'
  <2>1. CASE accounts[e] = None
    <3> DEFINE u == <<e, created[e] + 1>>
    <3> DEFINE new == [sub |-> u, enabled |-> TRUE]
    <3>1. /\ created[e] < MaxAccounts /\ accounts' = [accounts EXCEPT ![e] = new]
          /\ created' = [created EXCEPT ![e] = @ + 1]
          /\ Continue(s, [r EXCEPT !.user = u, !.at = "store profile"])
      BY <2>1 DEF Provision
    <3>2. created \in [Emails -> 0 .. MaxAccounts] /\ MaxAccounts \in Nat
      BY MembershipsAssumption DEF TypeInv, TypeOK
    <3>3. created[e] \in 0 .. MaxAccounts
      BY <1>2, <3>2
    <3>4. created[e] + 1 \in 1 .. MaxAccounts /\ created[e] + 1 \in 0 .. MaxAccounts
      BY <3>2, <3>3, <3>1
    <3>5. u \in Users /\ u[1] = e
      BY <1>2, <3>4 DEF Users
    <3> HIDE DEF u
    <3>6. new \in Accounts /\ new.sub = u
      BY <3>5 DEF Accounts
    <3> HIDE DEF new
    <3>7. new # None
      BY <3>6, MembershipsAssumption
    <3>8. \A f \in Emails : accounts'[f] = IF f = e THEN new ELSE accounts[f]
      BY <1>2, <3>1 DEF TypeInv, TypeOK
    <3>9. sessions' = sessions /\ unfinished' = unfinished /\ misread' = misread
      BY <3>1 DEF Continue, Becomes
    <3>10. created' \in [Emails -> 0 .. MaxAccounts]
      BY <1>2, <3>2, <3>1, <3>4
    <3>11. accounts' \in [Emails -> Accounts \cup {None}]
      BY <1>2, <3>6, <3>1 DEF TypeInv, TypeOK
    <3>12. TypeOK'
      BY <1>3, <3>9, <3>10, <3>11 DEF TypeInv, TypeOK
    <3>13. \A v \in Users : v[1] \in Emails
      BY DEF Users
    <3>14. InStep => Identities'
      BY <1>3, <2>1, <3>5, <3>6, <3>7, <3>8, <3>13, FirmsStay DEF InStep, Identities
    <3>15. Grows
      BY <1>3, <2>1, <3>8 DEF Grows
    <3>16. \A f \in Emails \ {e} : LockedOut(f) => LockedOut(f)'
      BY <1>3, <3>8, FirmsStay DEF LockedOut
    <3> QED
      BY <1>2, <3>1, <3>5, <3>6, <3>7, <3>8, <3>12, <3>14, <3>15, <3>16
  <2>2. CASE accounts[e] # None
    <3>1. /\ accounts' = [accounts EXCEPT ![e].enabled = TRUE]
          /\ UNCHANGED <<store, created, sessions, unfinished, misread>>
          /\ Continue(s, [r EXCEPT !.user = accounts[e].sub, !.at = "store profile"])
      BY <2>2 DEF Provision, Enable, Continue, Becomes
    <3>2. accounts[e] \in Accounts
      BY <1>2, <2>2 DEF TypeInv, TypeOK
    <3>3. accounts[e].sub \in Users
      BY <3>2 DEF Accounts
    <3>4. /\ TypeOK' /\ (InStep => Identities') /\ Grows
          /\ \A f \in Emails \ {e} : LockedOut(f) => LockedOut(f)'
      BY <1>2, <2>2, <3>1, AccountSet
    <3>5. accounts'[e] # None /\ accounts'[e].sub = accounts[e].sub
      BY <1>2, <2>2, <3>4 DEF Grows
    <3>6. InStep => accounts[e].sub[1] = e
      BY <1>2, <2>2 DEF InStep, Identities
    <3> QED
      BY <3>1, <3>3, <3>4, <3>5, <3>6
  <2> QED
    BY <2>1, <2>2
<1>5. PICK m \in Requests :
         /\ Moves(s, m) /\ unfinished' = unfinished /\ misread' = misread
         /\ m.at = "store profile" /\ m.op = r.op /\ m.tenant = r.tenant
         /\ m.email = e /\ m.user = u /\ m.role = r.role /\ m.want = r.want
  <2> DEFINE m == [r EXCEPT !.user = u, !.at = "store profile"]
  <2>1. Moves(s, m) /\ unfinished' = unfinished /\ misread' = misread
    BY <1>4 DEF Continue, Becomes, Moves
  <2>2. /\ m \in Requests /\ m.at = "store profile" /\ m.op = r.op /\ m.tenant = r.tenant
        /\ m.email = e /\ m.user = u /\ m.role = r.role /\ m.want = r.want
    BY <1>1, Names DEF Requests
  <2> QED
    BY <2>1, <2>2
<1>6. accounts'[m.email] # None /\ accounts'[m.email].sub = u
  BY <1>4, <1>5
<1>7. Form(m)
  BY <1>1, <1>2, <1>5 DEF Form
<1>8. InStep => Kept(m)'
  BY <1>2, <1>4, <1>5, <1>6 DEF Kept, ProfileSteps
<1>9. Pays(s, m)
  BY <1>1, <1>4, <1>5 DEF Pays, Owes, OwingSteps
<1>10. OneByOne => Alone(m)' /\ FirmsKept
  <2>1. OneByOne /\ e \notin misread =>
           \A v \in Users : v[1] = e => TenantsOf(v) = {} /\ v \notin admins
    BY <1>1 DEF Alone
  <2> QED
    BY <1>2, <1>3, <1>5, <2>1, FirmsStay DEF Alone
<1> QED
  BY <1>4, <1>5, <1>7, <1>8, <1>9, <1>10, WriteMove

\* A disabled account locks its person out.
LEMMA DisableKeeps ==
  ASSUME TypeInv, NEW s \in Slots, Disable(s)
  PROVE  Preserved
<1> DEFINE r == requests[s]
<1>1. PICK e : e = r.email
  OBVIOUS
<1>2. /\ r.at = "disable" /\ r \in Requests /\ Form(r) /\ UNCHANGED <<store, created>>
      /\ InStep => Kept(r)
      /\ OneByOne => Alone(r)
  BY InFlight DEF Disable, At
<1>3. /\ e \in Emails /\ e # None /\ r.user \in Users /\ r.user # None
      /\ r.op \in {"update user", "delete user", "invalidate invite", "delete admin"}
  BY <1>1, <1>2, MembershipsAssumption DEF Form
<1>4. profiles' = profiles /\ memberships' = memberships /\ admins' = admins
  BY <1>2 DEF store
<1>5. PICK m \in Requests :
        /\ Moves(s, m) /\ UNCHANGED <<sessions, unfinished, misread>>
        /\ m = Idle \/ (MovedTo(m, r, "put profile") /\ r.op = "update user")
  <2>1. CASE r.op = "update user"
    <3>1. Goto(s, "put profile")
      BY <2>1 DEF Disable
    <3>2. PICK m \in Requests : Moves(s, m) /\ MovedTo(m, r, "put profile")
      BY <3>1, GoesOn DEF RequestSteps
    <3> QED
      BY <2>1, <3>1, <3>2 DEF Goto, Continue, Becomes
  <2>2. CASE r.op # "update user"
    <3>1. Return(s)
      BY <2>2 DEF Disable
    <3>2. Moves(s, Idle) /\ UNCHANGED <<sessions, unfinished, misread>>
      BY <3>1 DEF Return, Continue, Becomes, Moves
    <3>3. Idle \in Requests
      BY IdleIsFine
    <3> QED
      BY <3>2, <3>3
  <2> QED
    BY <2>1, <2>2
<1>6. Form(m)
  <2>1. CASE m = Idle
    BY <2>1, IdleIsFine
  <2>2. CASE MovedTo(m, r, "put profile") /\ r.op = "update user"
    BY <1>2, <2>2 DEF Form, MovedTo
  <2> QED
    BY <1>5, <2>1, <2>2
<1>7. /\ TypeOK' /\ (InStep => Identities') /\ Grows
      /\ \A f \in Emails \ {e} : LockedOut(f) => LockedOut(f)'
      /\ LockedOut(e)'
  <2>1. CASE accounts[e] = None
    <3>1. accounts' = accounts
      BY <1>1, <2>1 DEF Disable
    <3>2. TypeOK'
      BY <1>2, <1>4, <1>5, <3>1 DEF TypeInv, TypeOK
    <3>3. InStep => Identities'
      BY <1>4, <3>1, FirmsStay DEF InStep, Identities
    <3>4. Grows
      BY <1>4, <3>1 DEF Grows
    <3>5. \A f \in Emails \ {e} : LockedOut(f) => LockedOut(f)'
      BY <1>4, <3>1, FirmsStay DEF LockedOut
    <3>6. LockedOut(e)'
      BY <2>1, <3>1 DEF LockedOut
    <3> QED
      BY <3>2, <3>3, <3>4, <3>5, <3>6
  <2>2. CASE accounts[e] # None
    <3>1. accounts' = [accounts EXCEPT ![e].enabled = FALSE]
      BY <1>1, <2>2 DEF Disable
    <3> QED
      BY <1>2, <1>3, <1>5, <2>2, <3>1, AccountSet
  <2> QED
    BY <2>1, <2>2
<1>8. /\ Idle.user = None /\ Idle.email = None /\ Idle.at = "idle" /\ Idle.op = "none"
  BY DEF Idle
<1>9. InStep => r.user[1] = e
  BY <1>1, <1>2, <1>3 DEF Kept
<1>10. InStep => Kept(m)'
  <2>1. r.op = "update user" /\ InStep => profiles[r.user] # None
    BY <1>2 DEF Kept
  <2>2. CASE m = Idle
    BY <1>8, <2>2 DEF Kept, ProfileSteps
  <2>3. CASE MovedTo(m, r, "put profile") /\ r.op = "update user"
    BY <1>1, <1>3, <1>4, <1>9, <2>1, <2>3 DEF Kept, ProfileSteps, MovedTo
  <2> QED
    BY <1>5, <2>2, <2>3
<1>11. InStep => Pays(s, m)
  BY <1>1, <1>3, <1>7, <1>9 DEF Pays, Owes
<1>12. OneByOne => Alone(m)' /\ FirmsKept
  <2>1. OneByOne /\ r.op = "update user" => IsMember(r.user, r.tenant)
    BY <1>2 DEF Alone
  <2> QED
    BY <1>4, <1>5, <1>8, <2>1, FirmsStay DEF Alone, MovedTo, IsMember
<1> QED
  BY <1>5, <1>6, <1>7, <1>10, <1>11, <1>12, WriteMove

\* The account that is deleted is the one of a person without a profile.
LEMMA DeleteAccountKeeps ==
  ASSUME TypeInv, NEW s \in Slots, DeleteAccount(s)
  PROVE  Preserved
<1> DEFINE r == requests[s]
<1>1. PICK e : e = r.email
  OBVIOUS
<1>2. /\ r.at = "delete account" /\ r \in Requests /\ Form(r)
      /\ InStep => Kept(r)
      /\ accounts' = [accounts EXCEPT ![e] = None]
      /\ UNCHANGED <<store, created, sessions, unfinished, misread>>
      /\ Moves(s, Idle)
  BY <1>1, InFlight DEF DeleteAccount, At, Return, Continue, Becomes, Moves
<1>3. /\ e \in Emails /\ e # None /\ r.user \in Users /\ r.user # None
      /\ r.op = "delete admin" /\ r.op \in Operations
  BY <1>1, <1>2, MembershipsAssumption DEF Form
<1>4. profiles' = profiles /\ memberships' = memberships /\ admins' = admins
  BY <1>2 DEF store
<1>5. \A f \in Emails : accounts'[f] = IF f = e THEN None ELSE accounts[f]
  BY <1>2, <1>3 DEF TypeInv, TypeOK
<1>6. TypeOK'
  BY <1>2, <1>3, <1>4 DEF TypeInv, TypeOK
<1>7. Peaceful => OneAtATime
  BY <1>3 DEF Peaceful, AdminsStay
<1>8. ASSUME InStep PROVE Identities'
  <2>1. \A v \in Users : v[1] = e => profiles[v] = None
    BY <1>1, <1>2, <1>8 DEF Kept
  <2>2. \A v \in Users : v[1] \in Emails
    BY DEF Users
  <2> QED
    BY <1>4, <1>5, <1>8, <2>1, <2>2, FirmsStay DEF InStep, Identities
<1>9. InStep => r.user[1] = e
  BY <1>1, <1>2, <1>3 DEF Kept
<1>10. LockedOut(e)' /\ \A f \in Emails \ {e} : LockedOut(f) => LockedOut(f)'
  BY <1>3, <1>4, <1>5, FirmsStay DEF LockedOut
<1>11. InStep => Pays(s, Idle)
  BY <1>1, <1>3, <1>9, <1>10 DEF Pays, Owes
<1>12. Kept(Idle)' /\ Alone(Idle)' /\ Form(Idle) /\ Idle \in Requests
  <2>1. Idle.user = None /\ Idle.email = None /\ Idle.at = "idle" /\ Idle.op = "none"
    BY DEF Idle
  <2> QED
    BY <2>1, IdleIsFine DEF Kept, Alone, ProfileSteps
<1> QED
  BY <1>2, <1>4, <1>6, <1>7, <1>8, <1>11, <1>12, FirmsStay, WriteMove

-----------------------------------------------------------------------------
(* Steps that write memberships *)

\* What a put of a membership row does to the invariants.
PutsMember(t, u, row) ==
    /\ Grows
    /\ memberships'[t][u] = row
    /\ \A x \in Tenants : x # t => memberships'[x][u] = memberships[x][u]
    /\ \A e \in Emails : LockedOut(e) => LockedOut(e)'
    /\ InStep /\ profiles[u] # None => Identities' /\ LockedOut(u[1])'
    /\ \/ u[1] \in misread \/ t = Platform
       \/ IsMember(u, t) \/ TenantsOf(u) \subseteq {Platform, t}
       => FirmsKept

\* A membership that is put locks its person in, and is a second firm only if
\* the person had another one.
LEMMA MemberPut ==
  ASSUME TypeInv, NEW t \in Tenants, NEW u \in Users, NEW row \in Members,
         memberships' = [memberships EXCEPT ![t][u] = row],
         UNCHANGED <<profiles, admins, pool, sessions, unfinished, misread>>
  PROVE  TypeOK' /\ PutsMember(t, u, row)
<1>1. memberships \in [Tenants -> [Users -> Members \cup {None}]]
  BY DEF TypeInv, TypeOK
<1>2. memberships' \in [Tenants -> [Users -> Members \cup {None}]]
  BY <1>1
<1>3. \A x \in Tenants, v \in Users :
         memberships'[x][v] = IF x = t /\ v = u THEN row ELSE memberships[x][v]
  BY <1>1
<1>4. row # None
  BY MembershipsAssumption
<1>5. \A v \in Users : TenantsOf(v)' = IF v = u THEN TenantsOf(u) \cup {t} ELSE TenantsOf(v)
  BY <1>3, <1>4 DEF TenantsOf, IsMember
<1>6. accounts' = accounts /\ created' = created
  BY DEF pool
<1>7. TypeOK'
  BY <1>2, <1>6 DEF TypeInv, TypeOK
<1>8. Grows
  BY <1>6 DEF Grows
<1>9. \A e \in Emails : accounts[e] # None => accounts[e].sub \in Users
  BY DEF TypeInv, TypeOK, Accounts
<1>10. \A e \in Emails : LockedOut(e) => LockedOut(e)'
  BY <1>5, <1>6, <1>9 DEF LockedOut
<1>11. ASSUME InStep, profiles[u] # None PROVE Identities' /\ LockedOut(u[1])'
  <2>1. Identities'
    BY <1>5, <1>6, <1>11 DEF InStep, Identities
  <2>2. accounts[u[1]].sub = u
    BY <1>11 DEF InStep, Identities
  <2> QED
    BY <1>5, <1>6, <2>1, <2>2 DEF LockedOut
<1>12. ASSUME \/ u[1] \in misread \/ t = Platform
              \/ IsMember(u, t) \/ TenantsOf(u) \subseteq {Platform, t}
       PROVE  FirmsKept
  <2> SUFFICES ASSUME NEW v \in Users, v[1] \notin misread, OneFirm(v) PROVE OneFirm(v)'
    BY DEF FirmsKept
  <2>1. CASE v # u
    BY <1>5, <2>1 DEF OneFirm
  <2>2. CASE v = u /\ (t = Platform \/ IsMember(u, t))
    <3>1. TenantsOf(v)' \ {Platform} = TenantsOf(v) \ {Platform}
      BY <1>5, <2>2 DEF TenantsOf
    <3> QED
      BY <3>1 DEF OneFirm
  <2>3. CASE v = u /\ TenantsOf(u) \subseteq {Platform, t}
    BY <1>5, <2>3 DEF OneFirm
  <2> QED
    BY <1>12, <2>1, <2>2, <2>3
<1> QED
  BY <1>3, <1>7, <1>8, <1>10, <1>11, <1>12 DEF PutsMember

\* The member that an invitation adds had no firm, and has a profile.
LEMMA AddMemberKeeps ==
  ASSUME TypeInv, NEW s \in Slots, AddMember(s)
  PROVE  Preserved
<1> DEFINE r == requests[s]
<1>1. PICK u, t, e : u = r.user /\ t = r.tenant /\ e = r.email
  OBVIOUS
<1>2. /\ r.at = "add member" /\ r \in Requests /\ Form(r)
      /\ InStep => Kept(r)
      /\ OneByOne => Alone(r)
      /\ memberships' = [memberships EXCEPT ![t][u] = [role |-> r.role, status |-> r.want]]
      /\ UNCHANGED <<profiles, admins, pool, sessions, unfinished, misread>>
      /\ Moves(s, Idle)
  BY <1>1, InFlight DEF AddMember, At, Return, Continue, Becomes, Moves
<1>3. /\ u \in Users /\ t \in Tenants /\ e \in Emails /\ r.role \in Roles
      /\ r.want \in {"INVITED", "ACTIVE"}
      /\ u # None /\ e # None
  BY <1>1, <1>2, MembershipsAssumption DEF Form
<1>4. [role |-> r.role, status |-> r.want] \in Members
  BY <1>3 DEF Members, Statuses
<1>5. TypeOK' /\ PutsMember(t, u, [role |-> r.role, status |-> r.want])
  BY <1>2, <1>3, <1>4, MemberPut
<1>6. InStep => u[1] = e /\ profiles[u] # None
  BY <1>1, <1>2, <1>3 DEF Kept, ProfileSteps
<1>7. InStep => Pays(s, Idle)
  BY <1>1, <1>3, <1>5, <1>6 DEF Pays, Owes, PutsMember
<1>8. Kept(Idle)' /\ Alone(Idle)'
  <2>1. Idle.user = None /\ Idle.email = None /\ Idle.at = "idle" /\ Idle.op = "none"
    BY DEF Idle
  <2> QED
    BY <2>1 DEF Kept, Alone, ProfileSteps
<1>9. OneByOne => u[1] \in misread \/ t = Platform \/ TenantsOf(u) \subseteq {Platform, t}
  BY <1>1, <1>2 DEF Alone
<1> QED
  BY <1>2, <1>5, <1>6, <1>7, <1>8, <1>9, IdleIsFine, WriteMove DEF PutsMember

\* A membership that an update puts back was there.
LEMMA PutMemberKeeps ==
  ASSUME TypeInv, NEW s \in Slots, PutMember(s)
  PROVE  Preserved
<1> DEFINE r == requests[s]
<1>1. PICK u, t : u = r.user /\ t = r.tenant
  OBVIOUS
<1>2. /\ r.at = "put member" /\ r \in Requests /\ Form(r)
      /\ InStep => Kept(r)
      /\ OneByOne => Alone(r)
      /\ memberships' = [memberships EXCEPT ![t][u] = r.copy]
      /\ UNCHANGED <<profiles, admins, pool>>
  BY <1>1, InFlight DEF PutMember, At
<1>3. /\ u \in Users /\ t \in Tenants /\ r.copy \in Members
      /\ r.op \in {"update user", "invalidate invite", "create admin"}
      /\ r.op # "update user" => t = Platform
  BY <1>1, <1>2 DEF Form, Tenants
<1>4. PICK m \in Requests :
        /\ Moves(s, m) /\ UNCHANGED <<sessions, unfinished, misread>>
        /\ m = Idle \/ (MovedTo(m, r, "clear flag") /\ r.op = "invalidate invite")
  <2>1. CASE r.op = "invalidate invite"
    <3>1. Goto(s, "clear flag")
      BY <2>1 DEF PutMember, DisableOrReturn
    <3>2. PICK m \in Requests : Moves(s, m) /\ MovedTo(m, r, "clear flag")
      BY <3>1, GoesOn DEF RequestSteps
    <3> QED
      BY <2>1, <3>1, <3>2 DEF Goto, Continue, Becomes
  <2>2. CASE r.op # "invalidate invite"
    <3>1. Return(s)
      BY <2>2 DEF PutMember
    <3>2. Moves(s, Idle) /\ UNCHANGED <<sessions, unfinished, misread>>
      BY <3>1 DEF Return, Continue, Becomes, Moves
    <3> QED
      BY <3>2, IdleIsFine
  <2> QED
    BY <2>1, <2>2
<1>5. TypeOK' /\ PutsMember(t, u, r.copy)
  BY <1>2, <1>3, <1>4, MemberPut
<1>6. InStep => profiles[u] # None
  BY <1>1, <1>2 DEF Kept, ProfileSteps
<1>7. Pays(s, m)
  BY <1>2, <1>5 DEF Pays, Owes, OwingSteps, PutsMember
<1>8. Form(m) /\ (InStep => Kept(m)') /\ Alone(m)'
  <2>1. CASE m = Idle
    <3>1. m.user = None /\ m.email = None /\ m.at = "idle" /\ m.op = "none"
      BY <2>1 DEF Idle
    <3> QED
      BY <2>1, <3>1, IdleIsFine DEF Kept, Alone, ProfileSteps
  <2>2. CASE MovedTo(m, r, "clear flag") /\ r.op = "invalidate invite"
    <3>1. Form(m) /\ Alone(m)'
      BY <1>2, <2>2 DEF Form, MovedTo, Alone
    <3>2. InStep => Kept(m)'
      BY <1>1, <1>2, <1>4, <1>6, <2>2 DEF Kept, MovedTo, ProfileSteps
    <3> QED
      BY <3>1, <3>2
  <2> QED
    BY <1>4, <2>1, <2>2
<1>9. OneByOne => t = Platform \/ IsMember(u, t)
  BY <1>1, <1>2, <1>3 DEF Alone
<1> QED
  BY <1>4, <1>5, <1>6, <1>7, <1>8, <1>9, WriteMove DEF PutsMember

\* The membership of an administrator is the one in the Platform tenant.
LEMMA PutPlatformMemberKeeps ==
  ASSUME TypeInv, NEW s \in Slots, PutPlatformMember(s)
  PROVE  Preserved
<1> DEFINE r == requests[s]
<1>1. PICK u : u = r.user
  OBVIOUS
<1>2. /\ r.at = "put platform member" /\ r \in Requests /\ Form(r)
      /\ InStep => Kept(r)
      /\ memberships' = [memberships EXCEPT ![Platform][u] = FullMember]
      /\ UNCHANGED <<profiles, admins, pool, sessions, unfinished, misread>>
      /\ Goto(s, "confirm flag")
  BY <1>1, InFlight DEF PutPlatformMember, At, Goto, Continue, Becomes
<1>3. PICK m \in Requests : Moves(s, m) /\ MovedTo(m, r, "confirm flag")
  BY <1>2, GoesOn DEF RequestSteps
<1>4. u \in Users /\ Platform \in Tenants /\ FullMember \in Members
  BY <1>1, <1>2 DEF Form, Tenants, FullMember, Members, Roles, Statuses
<1>5. TypeOK' /\ PutsMember(Platform, u, FullMember)
  BY <1>2, <1>4, MemberPut
<1>6. InStep => profiles[u] # None
  BY <1>1, <1>2 DEF Kept, ProfileSteps
<1>7. Form(m)
  BY <1>2, <1>3 DEF Form, MovedTo
<1>8. InStep => Kept(m)'
  BY <1>1, <1>2, <1>3, <1>6, <1>7 DEF Form, Kept, MovedTo, ProfileSteps
<1>9. Pays(s, m)
  BY <1>2, <1>5 DEF Pays, Owes, OwingSteps, PutsMember
<1>10. Alone(m)'
  <2>1. IsPlatformAdmin(m.user)'
    <3>1. m.user = u /\ FullMember # None
      BY <1>1, <1>3, <1>4, MembershipsAssumption DEF MovedTo
    <3> QED
      BY <1>5, <3>1 DEF IsPlatformAdmin, IsMember, FullMember, PutsMember
  <2>2. m.at = "confirm flag" /\ m.op # "update user"
    BY <1>2, <1>3 DEF Form, MovedTo
  <2> QED
    BY <2>1, <2>2 DEF Alone
<1> QED
  BY <1>2, <1>3, <1>5, <1>6, <1>7, <1>8, <1>9, <1>10, WriteMove DEF PutsMember

\* An invitation that is accepted is a membership already.
LEMMA ActivateKeeps ==
  ASSUME TypeInv, NEW s \in Slots, Activate(s)
  PROVE  Preserved
<1> DEFINE r == requests[s]
<1>1. PICK u : u = r.user
  OBVIOUS
<1>2. PICK x \in r.todo :
         /\ memberships' = [memberships EXCEPT ![x[1]][u] = [role |-> x[2], status |-> "ACTIVE"]]
         /\ Continue(s, [r EXCEPT !.todo = @ \ {x}])
  BY <1>1 DEF Activate
<1>3. /\ r.at = "activate" /\ r \in Requests /\ Form(r)
      /\ InStep => Kept(r)
      /\ OneByOne => Alone(r)
      /\ UNCHANGED <<profiles, admins, pool, sessions, unfinished, misread>>
  BY <1>2, InFlight DEF Activate, At, Continue, Becomes
<1>4. u \in Users /\ r.todo \subseteq Tenants \X Roles
  BY <1>1, <1>3 DEF Form
<1>5. x[1] \in Tenants /\ x[2] \in Roles /\ [role |-> x[2], status |-> "ACTIVE"] \in Members
  BY <1>4 DEF Members, Statuses
<1>6. PICK m \in Requests :
         /\ Moves(s, m)
         /\ m.at = "activate" /\ m.op = r.op /\ m.tenant = r.tenant /\ m.email = r.email
         /\ m.user = u /\ m.role = r.role /\ m.want = r.want /\ m.copy = r.copy
         /\ m.todo = r.todo \ {x}
  <2> DEFINE m == [r EXCEPT !.todo = @ \ {x}]
  <2>1. Moves(s, m)
    BY <1>2 DEF Continue, Becomes, Moves
  <2>2. /\ m \in Requests /\ m.at = "activate" /\ m.op = r.op /\ m.tenant = r.tenant
        /\ m.email = r.email /\ m.user = u /\ m.role = r.role /\ m.want = r.want
        /\ m.copy = r.copy /\ m.todo = r.todo \ {x}
    BY <1>1, <1>3 DEF Requests
  <2> QED
    BY <2>1, <2>2
<1>7. TypeOK' /\ PutsMember(x[1], u, [role |-> x[2], status |-> "ACTIVE"])
  BY <1>2, <1>3, <1>4, <1>5, MemberPut
<1>8. Form(m)
  BY <1>1, <1>3, <1>4, <1>6 DEF Form
<1>9. InStep => Kept(m)'
  BY <1>1, <1>3, <1>6, <1>8 DEF Kept, Form, ProfileSteps
<1>10. Pays(s, m)
  BY <1>3, <1>7 DEF Pays, Owes, OwingSteps, PutsMember
<1>11. InStep => profiles[u] # None
  BY <1>1, <1>2, <1>3 DEF Kept
<1>12. OneByOne => \A y \in r.todo :
          memberships[y[1]][u] = [role |-> y[2], status |-> "INVITED"]
  BY <1>1, <1>3 DEF Alone
<1>13. \A y \in r.todo : /\ [role |-> y[2], status |-> "INVITED"] \in Members
                       /\ [role |-> y[2], status |-> "INVITED"].role = y[2]
  BY <1>4 DEF Members, Statuses
<1>14. OneByOne => IsMember(u, x[1])
  BY <1>2, <1>12, <1>13, MembershipsAssumption DEF IsMember
<1>15. ASSUME OneByOne, NEW y \in m.todo
       PROVE  memberships'[y[1]][u] = [role |-> y[2], status |-> "INVITED"]
  <2>1. y \in r.todo /\ y # x /\ x \in r.todo
    BY <1>6, <1>15
  <2>2. y = <<y[1], y[2]>> /\ x = <<x[1], x[2]>> /\ y[1] \in Tenants
    BY <1>4, <2>1
  <2>3. y[1] # x[1]
    BY <1>12, <1>15, <1>13, <2>1, <2>2
  <2> QED
    BY <1>7, <1>12, <1>15, <2>1, <2>2, <2>3 DEF PutsMember
<1>16. OneByOne => Alone(m)'
  BY <1>3, <1>6, <1>15 DEF Alone, Form
<1> QED
  BY <1>3, <1>6, <1>7, <1>8, <1>9, <1>10, <1>11, <1>14, <1>16, WriteMove DEF PutsMember

\* What the removal of a membership row does to the invariants.
RemovesMember(t, u) ==
    /\ Grows
    /\ TenantsOf(u)' = TenantsOf(u) \ {t}
    /\ \A v \in Users \ {u} : TenantsOf(v)' = TenantsOf(v)
    /\ InStep => Identities'
    /\ InStep => \A e \in Emails \ {u[1]} : LockedOut(e) => LockedOut(e)'
    /\ InStep /\ u \in admins => \A e \in Emails : LockedOut(e) => LockedOut(e)'
    /\ FirmsKept

\* A membership that goes leaves everybody else as they were.
LEMMA MemberGone ==
  ASSUME TypeInv, NEW t \in Tenants, NEW u \in Users,
         memberships' = [memberships EXCEPT ![t][u] = None],
         UNCHANGED <<profiles, admins, pool, sessions, unfinished, misread>>
  PROVE  TypeOK' /\ RemovesMember(t, u)
<1>1. memberships \in [Tenants -> [Users -> Members \cup {None}]]
  BY DEF TypeInv, TypeOK
<1>2. memberships' \in [Tenants -> [Users -> Members \cup {None}]]
  BY <1>1
<1>3. \A x \in Tenants, v \in Users :
         memberships'[x][v] = IF x = t /\ v = u THEN None ELSE memberships[x][v]
  BY <1>1
<1>4. \A v \in Users : TenantsOf(v)' = IF v = u THEN TenantsOf(u) \ {t} ELSE TenantsOf(v)
  BY <1>3 DEF TenantsOf, IsMember
<1>5. accounts' = accounts /\ created' = created
  BY DEF pool
<1>6. TypeOK'
  BY <1>2, <1>5 DEF TypeInv, TypeOK
<1>7. Grows
  BY <1>5 DEF Grows
<1>8. \A e \in Emails : accounts[e] # None => accounts[e].sub \in Users
  BY DEF TypeInv, TypeOK, Accounts
<1>9. InStep => Identities'
  BY <1>4, <1>5 DEF InStep, Identities
<1>10. ASSUME InStep, NEW e \in Emails, e # u[1] \/ u \in admins, LockedOut(e) PROVE LockedOut(e)'
  <2>1. accounts[e] # None => accounts[e].sub[1] = e
    BY <1>10 DEF InStep, Identities
  <2> QED
    BY <1>4, <1>5, <1>8, <1>10, <2>1 DEF LockedOut
<1>11. FirmsKept
  BY <1>4 DEF FirmsKept, OneFirm
<1> QED
  BY <1>4, <1>6, <1>7, <1>9, <1>10, <1>11 DEF RemovesMember

\* Whoever is removed will have no account that is enabled.
LEMMA RemoveMemberKeeps ==
  ASSUME TypeInv, NEW s \in Slots, RemoveMember(s)
  PROVE  Preserved
<1> DEFINE r == requests[s]
<1>1. PICK u, t, e : u = r.user /\ t = r.tenant /\ e = r.email
  OBVIOUS
<1>2. /\ r.at = "remove member" /\ r \in Requests /\ Form(r)
      /\ InStep => Kept(r)
      /\ memberships' = [memberships EXCEPT ![t][u] = None]
      /\ UNCHANGED <<profiles, admins, pool>>
  BY <1>1, InFlight DEF RemoveMember, At
<1>3. /\ u \in Users /\ t \in Tenants /\ r.op \in {"delete user", "delete admin"}
      /\ e \in Emails \cup {None} /\ u # None
  BY <1>1, <1>2, MembershipsAssumption DEF Form, Requests
<1>4. PICK m \in Requests :
        /\ Moves(s, m) /\ UNCHANGED <<sessions, unfinished, misread>>
        /\ \/ MovedTo(m, r, "list remaining") /\ r.op = "delete admin"
           \/ MovedTo(m, r, "disable") /\ e # None
           \/ m = Idle /\ e = None
  <2>1. CASE r.op = "delete admin"
    <3>1. Goto(s, "list remaining")
      BY <2>1 DEF RemoveMember
    <3>2. PICK m \in Requests : Moves(s, m) /\ MovedTo(m, r, "list remaining")
      BY <3>1, GoesOn DEF RequestSteps
    <3> QED
      BY <2>1, <3>1, <3>2 DEF Goto, Continue, Becomes
  <2>2. CASE r.op # "delete admin" /\ e # None
    <3>1. Goto(s, "disable")
      BY <1>1, <2>2 DEF RemoveMember, DisableOrReturn
    <3>2. PICK m \in Requests : Moves(s, m) /\ MovedTo(m, r, "disable")
      BY <3>1, GoesOn DEF RequestSteps
    <3> QED
      BY <2>2, <3>1, <3>2 DEF Goto, Continue, Becomes
  <2>3. CASE r.op # "delete admin" /\ e = None
    <3>1. Return(s)
      BY <1>1, <2>3 DEF RemoveMember, DisableOrReturn
    <3>2. Moves(s, Idle) /\ UNCHANGED <<sessions, unfinished, misread>>
      BY <3>1 DEF Return, Continue, Becomes, Moves
    <3> QED
      BY <2>3, <3>2, IdleIsFine
  <2> QED
    BY <2>1, <2>2, <2>3
<1>5. TypeOK' /\ RemovesMember(t, u)
  BY <1>2, <1>3, <1>4, MemberGone
<1>6. Form(m)
  <2>1. CASE MovedTo(m, r, "list remaining") /\ r.op = "delete admin"
    BY <1>1, <1>2, <1>3, <2>1 DEF Form, MovedTo
  <2>2. CASE MovedTo(m, r, "disable") /\ e # None
    BY <1>1, <1>2, <1>3, <2>2 DEF Form, MovedTo
  <2> QED
    BY <1>4, <2>1, <2>2, IdleIsFine
<1>7. ASSUME InStep PROVE Kept(m)' /\ Pays(s, m)
  <2>1. /\ e # None => u[1] = e
        /\ e = None => u[1] \in unfinished
        /\ profiles[u] # None /\ (r.op = "delete admin" => u \notin admins)
    BY <1>1, <1>2, <1>3, <1>7 DEF Kept, ProfileSteps
  <2>2. \/ /\ m.op = r.op /\ m.user = u /\ m.email = e
           /\ m.at = "list remaining" \/ (m.at = "disable" /\ e # None)
        \/ m = Idle /\ e = None
    BY <1>1, <1>4 DEF MovedTo
  <2>3. Kept(m)'
    <3>1. CASE m = Idle
      BY <3>1 DEF Idle, Kept, ProfileSteps
    <3>2. CASE m # Idle
      BY <1>2, <1>3, <1>4, <2>1, <2>2, <3>2 DEF Kept, ProfileSteps
    <3> QED
      BY <3>1, <3>2
  <2>4. \A f \in Emails \ unfinished' : f = u[1] => Owes(m, f)
    BY <1>3, <1>4, <2>1, <2>2 DEF Owes, OwingSteps
  <2>5. \A f \in Emails : Owes(r, f) => f = u[1]
    BY <1>1, <1>3, <2>1, MembershipsAssumption DEF Owes
  <2>6. Pays(s, m)
    BY <1>5, <1>7, <2>4, <2>5 DEF Pays, RemovesMember
  <2> QED
    BY <2>3, <2>6
<1>8. Alone(m)'
  <2>1. Idle.op = "none" /\ Idle.at = "idle"
    BY DEF Idle
  <2>2. m.op \in {"delete user", "delete admin", "none"}
    BY <1>3, <1>4, <2>1 DEF MovedTo
  <2>3. m.at \in {"list remaining", "disable", "idle"}
    BY <1>4, <2>1 DEF MovedTo
  <2> QED
    BY <2>2, <2>3 DEF Alone
<1> QED
  BY <1>2, <1>4, <1>5, <1>6, <1>7, <1>8, WriteMove DEF RemovesMember

\* An administrator who loses the firms stays an administrator.
LEMMA PurgeFirmKeeps ==
  ASSUME TypeInv, NEW s \in Slots, PurgeFirm(s)
  PROVE  Preserved
<1> DEFINE r == requests[s]
<1>1. PICK u : u = r.user
  OBVIOUS
<1>2. PICK t \in r.todo : /\ memberships' = [memberships EXCEPT ![t][u] = None]
                          /\ Continue(s, [r EXCEPT !.todo = @ \ {t}])
  BY <1>1 DEF PurgeFirm
<1>3. /\ r.at = "purge firms" /\ r \in Requests /\ Form(r)
      /\ InStep => Kept(r)
      /\ UNCHANGED <<profiles, admins, pool, sessions, unfinished, misread>>
  BY <1>2, InFlight DEF PurgeFirm, At, Continue, Becomes
<1>4. u \in Users /\ t \in Tenants /\ r.todo \subseteq Firms
  BY <1>1, <1>2, <1>3 DEF Form, Tenants
<1>5. PICK m \in Requests :
         /\ Moves(s, m)
         /\ m.at = "purge firms" /\ m.op = r.op /\ m.tenant = r.tenant /\ m.email = r.email
         /\ m.user = u /\ m.role = r.role /\ m.want = r.want /\ m.copy = r.copy
         /\ m.todo = r.todo \ {t}
  <2> DEFINE m == [r EXCEPT !.todo = @ \ {t}]
  <2>1. Moves(s, m)
    BY <1>2 DEF Continue, Becomes, Moves
  <2>2. /\ m \in Requests /\ m.at = "purge firms" /\ m.op = r.op /\ m.tenant = r.tenant
        /\ m.email = r.email /\ m.user = u /\ m.role = r.role /\ m.want = r.want
        /\ m.copy = r.copy /\ m.todo = r.todo \ {t}
    BY <1>1, <1>3 DEF Requests
  <2> QED
    BY <2>1, <2>2
<1>6. TypeOK' /\ RemovesMember(t, u)
  BY <1>2, <1>3, <1>4, MemberGone
<1>7. Form(m)
  BY <1>1, <1>3, <1>4, <1>5 DEF Form
<1>8. ASSUME InStep PROVE Kept(m)' /\ Pays(s, m)
  <2>1. u \in admins /\ profiles[u] # None
    BY <1>1, <1>3, <1>8 DEF Kept, ProfileSteps
  <2>2. Kept(m)'
    BY <1>1, <1>3, <1>5, <1>7, <1>8, <2>1 DEF Kept, Form, ProfileSteps
  <2>3. Pays(s, m)
    BY <1>3, <1>6, <1>8, <2>1 DEF Pays, Owes, OwingSteps, RemovesMember
  <2> QED
    BY <2>2, <2>3
<1>9. Alone(m)'
  BY <1>5, <1>7 DEF Alone, Form
<1> QED
  BY <1>3, <1>5, <1>6, <1>7, <1>8, <1>9, WriteMove DEF RemovesMember

-----------------------------------------------------------------------------
(* Steps that write the flag, and the deletion of a profile *)

\* Whoever becomes an administrator has a profile.
LEMMA SetFlagKeeps ==
  ASSUME TypeInv, NEW s \in Slots, SetFlag(s)
  PROVE  Preserved
<1> DEFINE r == requests[s]
<1>1. PICK u, a : u = r.user /\ a = (IF At(s, "set flag") THEN "ensure" ELSE "list firms")
  OBVIOUS
<1>2. /\ r.at \in {"set flag", "confirm flag"} /\ r \in Requests /\ Form(r)
      /\ InStep => Kept(r)
      /\ OneByOne => Alone(r)
      /\ admins' = admins \cup {u}
      /\ UNCHANGED <<profiles, memberships, pool, sessions, unfinished, misread>>
      /\ Goto(s, a)
  BY <1>1, InFlight DEF SetFlag, At, Goto, Continue, Becomes
<1>3. /\ a \in {"ensure", "list firms"} /\ a \in RequestSteps
      /\ a = "ensure" => r.at = "set flag"
  BY <1>1, <1>2 DEF At, RequestSteps
<1>4. PICK m \in Requests : Moves(s, m) /\ MovedTo(m, r, a)
  BY <1>2, <1>3, GoesOn
<1>5. u \in Users
  BY <1>1, <1>2 DEF Form
<1>6. accounts' = accounts /\ created' = created
  BY <1>2 DEF pool
<1>7. TypeOK' /\ Grows
  BY <1>2, <1>5, <1>6 DEF TypeInv, TypeOK, Grows
<1>8. Form(m)
  BY <1>2, <1>3, <1>4 DEF Form, MovedTo
<1>9. ASSUME InStep PROVE Identities' /\ Kept(m)' /\ Pays(s, m)
  <2>1. profiles[u] # None
    BY <1>1, <1>2, <1>9 DEF Kept, ProfileSteps
  <2>2. Identities'
    <3>1. Identities /\ \A v \in Users : v \in admins' => v \in admins \/ v = u
      BY <1>2, <1>9 DEF InStep
    <3>2. \A v \in Users : TenantsOf(v)' = TenantsOf(v)
      BY <1>2, FirmsStay
    <3>3. profiles' = profiles /\ accounts' = accounts
      BY <1>2, <1>6
    <3>4. ASSUME NEW v \in Users
          PROVE  /\ profiles[v] \in {None, v[1]}
                 /\ profiles[v] # None => accounts[v[1]] # None /\ accounts[v[1]].sub = v
                 /\ TenantsOf(v) # {} \/ v \in admins' => profiles[v] # None
      BY <2>1, <3>1 DEF Identities
    <3>5. \A f \in Emails : accounts[f] # None => accounts[f].sub[1] = f
      BY <3>1 DEF Identities
    <3> HIDE DEF r
    <3> QED
      BY <3>2, <3>3, <3>4, <3>5 DEF Identities
  <2>3. Kept(m)'
    <3>1. r.op \in {"create admin", "grant", "backfill", "get me", "update me"}
      BY <1>2 DEF Form
    <3>2. u # None /\ r.email # None => u[1] = r.email
      BY <1>1, <1>2, <1>9 DEF Kept
    <3>3. m.user = u /\ m.at = a /\ m.op = r.op /\ m.email = r.email
      BY <1>1, <1>4 DEF MovedTo
    <3>4. profiles'[u] # None /\ u \in admins'
      BY <1>2, <2>1
    <3> HIDE DEF r
    <3> QED
      BY <1>3, <3>1, <3>2, <3>3, <3>4 DEF Kept, ProfileSteps
  <2>4. \A e \in Emails : LockedOut(e) => LockedOut(e)'
    BY <1>2, <1>6, FirmsStay DEF LockedOut
  <2>5. LockedOut(u[1])' /\ profiles[u] = u[1]
    BY <1>2, <1>5, <1>6, <1>9, <2>1 DEF InStep, Identities, LockedOut
  <2>6. ASSUME NEW e \in Emails, Owes(r, e) PROVE e = u[1]
    BY <1>1, <1>2, <1>5, <1>9, <2>6, MembershipsAssumption DEF Owes, Kept
  <2>7. Pays(s, m)
    BY <2>4, <2>5, <2>6 DEF Pays
  <2> QED
    BY <2>2, <2>3, <2>7
<1>10. Alone(m)'
  BY <1>2, <1>3, <1>4 DEF Alone, Form, MovedTo
<1> QED
  BY <1>2, <1>4, <1>7, <1>8, <1>9, <1>10, FirmsStay, WriteMove

\* Whoever loses the flag will have no account that is enabled, or another role.
LEMMA ClearFlagKeeps ==
  ASSUME TypeInv, NEW s \in Slots, ClearFlag(s)
  PROVE  Preserved
<1> DEFINE r == requests[s]
<1>1. PICK u, e : u = r.user /\ e = r.email
  OBVIOUS
<1>2. /\ r.at = "clear flag" /\ r \in Requests /\ Form(r)
      /\ InStep => Kept(r)
      /\ admins' = admins \ {u}
      /\ UNCHANGED <<profiles, memberships, pool>>
  BY <1>1, InFlight DEF ClearFlag, At
<1>3. /\ u \in Users /\ u # None /\ e \in Emails \cup {None} /\ None \notin Emails
      /\ r.op \in {"invalidate invite", "delete admin"} /\ r.op \in Operations
  BY <1>1, <1>2, MembershipsAssumption DEF Form, Requests
<1>4. PICK m \in Requests :
        /\ Moves(s, m) /\ UNCHANGED <<sessions, unfinished, misread>>
        /\ \/ MovedTo(m, r, "read profile") /\ r.op = "delete admin"
           \/ MovedTo(m, r, "disable") /\ r.op = "invalidate invite" /\ e # None
           \/ m = Idle /\ r.op = "invalidate invite" /\ e = None
  <2>1. CASE r.op = "delete admin"
    <3>1. Goto(s, "read profile")
      BY <2>1 DEF ClearFlag
    <3>2. PICK m \in Requests : Moves(s, m) /\ MovedTo(m, r, "read profile")
      BY <3>1, GoesOn DEF RequestSteps
    <3> QED
      BY <2>1, <3>1, <3>2 DEF Goto, Continue, Becomes
  <2>2. CASE r.op = "invalidate invite" /\ e # None
    <3>1. Goto(s, "disable")
      BY <1>1, <2>2 DEF ClearFlag, DisableOrReturn
    <3>2. PICK m \in Requests : Moves(s, m) /\ MovedTo(m, r, "disable")
      BY <3>1, GoesOn DEF RequestSteps
    <3> QED
      BY <2>2, <3>1, <3>2 DEF Goto, Continue, Becomes
  <2>3. CASE r.op = "invalidate invite" /\ e = None
    <3>1. Return(s)
      BY <1>1, <2>3 DEF ClearFlag, DisableOrReturn
    <3>2. Moves(s, Idle) /\ UNCHANGED <<sessions, unfinished, misread>>
      BY <3>1 DEF Return, Continue, Becomes, Moves
    <3> QED
      BY <2>3, <3>2, IdleIsFine
  <2> QED
    BY <1>3, <2>1, <2>2, <2>3
<1>5. Peaceful => OneAtATime
  BY <1>3 DEF Peaceful, AdminsStay
<1>6. accounts' = accounts /\ created' = created
  BY <1>2 DEF pool
<1>7. TypeOK'
  BY <1>2, <1>4, <1>6 DEF TypeInv, TypeOK
<1>8. Form(m)
  <2>1. CASE MovedTo(m, r, "read profile") /\ r.op = "delete admin"
    BY <1>1, <1>2, <1>3, <2>1 DEF Form, MovedTo
  <2>2. CASE MovedTo(m, r, "disable") /\ r.op = "invalidate invite" /\ e # None
    BY <1>1, <1>2, <1>3, <2>2 DEF Form, MovedTo
  <2> QED
    BY <1>4, <2>1, <2>2, IdleIsFine
<1>9. ASSUME InStep PROVE Identities' /\ Kept(m)' /\ Pays(s, m)
  <2>1. /\ profiles[u] # None /\ (e # None => u[1] = e)
        /\ r.op = "invalidate invite" /\ e = None => u[1] \in unfinished
    BY <1>1, <1>2, <1>3, <1>9 DEF Kept, ProfileSteps
  <2>2. \/ /\ m.op = r.op /\ m.user = u /\ m.email = e
           /\ \/ m.at = "read profile" /\ r.op = "delete admin"
              \/ m.at = "disable" /\ r.op = "invalidate invite" /\ e # None
        \/ m = Idle /\ u[1] \in unfinished
    BY <1>1, <1>4, <2>1 DEF MovedTo
  <2>3. Identities'
    BY <1>2, <1>6, <1>9, FirmsStay DEF InStep, Identities
  <2>4. Kept(m)'
    <3>1. CASE m = Idle
      BY <3>1 DEF Idle, Kept, ProfileSteps
    <3>2. CASE m # Idle
      BY <1>2, <1>3, <1>4, <2>1, <2>2, <3>2 DEF Kept, ProfileSteps
    <3> QED
      BY <3>1, <3>2
  <2>5. ASSUME NEW f \in Emails, f # u[1], LockedOut(f) PROVE LockedOut(f)'
    <3>1. accounts[f] # None => accounts[f].sub # u
      BY <1>9, <2>5 DEF InStep, Identities
    <3> QED
      BY <1>2, <1>6, <2>5, <3>1, FirmsStay DEF LockedOut
  <2>6. u[1] \in unfinished' \/ Owes(m, u[1])
    BY <1>3, <1>4, <2>2 DEF Owes, OwingSteps
  <2>7. \A f \in Emails : ~Owes(r, f)
    BY <1>2 DEF Owes, OwingSteps
  <2>8. Pays(s, m)
    BY <2>5, <2>6, <2>7 DEF Pays
  <2> QED
    BY <2>3, <2>4, <2>8
<1>10. Alone(m)'
  <2>1. Idle.op = "none" /\ Idle.at = "idle"
    BY DEF Idle
  <2>2. m.op \in {"invalidate invite", "delete admin", "none"}
    BY <1>3, <1>4, <2>1 DEF MovedTo
  <2>3. m.at \in {"read profile", "disable", "idle"}
    BY <1>4, <2>1 DEF MovedTo
  <2> QED
    BY <2>2, <2>3 DEF Alone
<1> QED
  BY <1>2, <1>4, <1>5, <1>7, <1>8, <1>9, <1>10, FirmsStay, WriteMove

\* The profile that is deleted is of somebody who is nothing any more.
LEMMA DeleteProfileKeeps ==
  ASSUME TypeInv, NEW s \in Slots, DeleteProfile(s)
  PROVE  Preserved
<1> DEFINE r == requests[s]
<1>1. PICK u, e : u = r.user /\ e = r.email
  OBVIOUS
<1>2. /\ r.at = "delete profile" /\ r \in Requests /\ Form(r)
      /\ InStep => Kept(r)
      /\ profiles' = [profiles EXCEPT ![u] = None]
      /\ UNCHANGED <<memberships, admins, pool, sessions, unfinished, misread>>
      /\ Goto(s, "delete account")
  BY <1>1, InFlight DEF DeleteProfile, At, Goto, Continue, Becomes
<1>3. PICK m \in Requests : Moves(s, m) /\ MovedTo(m, r, "delete account")
  BY <1>2, GoesOn DEF RequestSteps
<1>4. /\ u \in Users /\ u # None /\ e \in Emails /\ e # None
      /\ r.op = "delete admin" /\ r.op \in Operations
  BY <1>1, <1>2, MembershipsAssumption DEF Form
<1>5. Peaceful => OneAtATime
  BY <1>4 DEF Peaceful, AdminsStay
<1>6. accounts' = accounts /\ created' = created
  BY <1>2 DEF pool
<1>7. \A v \in Users : profiles'[v] = IF v = u THEN None ELSE profiles[v]
  BY <1>2 DEF TypeInv, TypeOK
<1>8. TypeOK'
  BY <1>2, <1>4, <1>6 DEF TypeInv, TypeOK
<1>9. Form(m)
  BY <1>2, <1>3 DEF Form, MovedTo
<1>10. ASSUME InStep PROVE Identities' /\ Kept(m)' /\ Pays(s, m)
  <2>1. Kept(r)
    BY <1>2, <1>10
  <2>2. u[1] = e /\ profiles[u] # None
    BY <1>1, <1>2, <1>4, <2>1 DEF Kept, ProfileSteps
  <2>3. TenantsOf(u) = {} /\ u \notin admins
    BY <1>1, <1>2, <1>4, <2>1 DEF Kept
  <2>4. /\ profiles[u] # None /\ u[1] = e /\ TenantsOf(u) = {} /\ u \notin admins
    BY <2>2, <2>3
  <2>5. Identities'
    <3>1. \A v \in Users : TenantsOf(v)' = TenantsOf(v)
      BY <1>2, FirmsStay
    <3>2. Identities
      BY <1>10 DEF InStep
    <3>3. admins' = admins /\ accounts' = accounts
      BY <1>2, <1>6
    <3>4. ASSUME NEW v \in Users
          PROVE  /\ profiles'[v] \in {None, v[1]}
                 /\ profiles'[v] # None => accounts[v[1]] # None /\ accounts[v[1]].sub = v
                 /\ TenantsOf(v) # {} \/ v \in admins => profiles'[v] # None
      BY <1>7, <2>4, <3>2 DEF Identities
    <3>5. \A f \in Emails : accounts[f] # None => accounts[f].sub[1] = f
      BY <3>2 DEF Identities
    <3> HIDE DEF r
    <3> QED
      BY <3>1, <3>3, <3>4, <3>5 DEF Identities
  <2>6. \A v \in Users : v[1] = e => profiles'[v] = None
    <3>1. ASSUME NEW v \in Users, v[1] = e, profiles[v] # None PROVE v = u
      <4>1. accounts[v[1]].sub = v /\ accounts[u[1]].sub = u
        BY <1>4, <1>10, <2>4, <3>1 DEF InStep, Identities
      <4> QED
        BY <2>4, <3>1, <4>1
    <3> QED
      BY <1>7, <3>1
  <2>7. m.user = u /\ m.email = e /\ m.op = "delete admin" /\ m.at = "delete account"
    BY <1>1, <1>3, <1>4 DEF MovedTo
  <2>8. Kept(m)'
    BY <1>2, <2>4, <2>6, <2>7, FirmsStay DEF Kept, ProfileSteps
  <2>9. \A f \in Emails : LockedOut(f) => LockedOut(f)'
    BY <1>2, <1>6, FirmsStay DEF LockedOut
  <2>10. Pays(s, m)
    BY <1>1, <2>7, <2>9 DEF Pays, Owes, OwingSteps
  <2> QED
    BY <2>5, <2>8, <2>10
<1>11. Alone(m)'
  BY <1>3, <1>4 DEF Alone, MovedTo
<1> QED
  BY <1>2, <1>3, <1>5, <1>8, <1>9, <1>10, <1>11, FirmsStay, WriteMove


-----------------------------------------------------------------------------
(* Crashes, logins, and all steps together *)

\* When a request dies, what it owed is owed by somebody about whom a request
\* died.
LEMMA CrashKeeps ==
  ASSUME TypeInv, NEW s \in Slots, Crash(s)
  PROVE  Preserved
<1>1. /\ Moves(s, Idle) /\ ~At(s, "idle")
      /\ unfinished' = unfinished \cup {e \in Emails : Concerns(s, e)} /\ misread' = misread
      /\ UNCHANGED <<store, pool, sessions>>
  BY DEF Crash, Becomes, Moves
<1>2. /\ RequestsInForm'
      /\ requests'[s] = Idle
      /\ \A x \in Slots \ {s} : requests'[x] = requests[x]
  BY <1>1, OneMoves, IdleIsFine DEF TypeInv
<1>3. /\ profiles' = profiles /\ memberships' = memberships /\ admins' = admins
      /\ accounts' = accounts /\ created' = created /\ sessions' = sessions
  BY <1>1 DEF store, pool
<1>4. TypeOK'
  BY <1>1, <1>3 DEF TypeInv, TypeOK
<1>5. ASSUME Peaceful, InStep PROVE InStep'
  <2>1. Identities'
    BY <1>3, <1>5 DEF InStep, Identities, TenantsOf, IsMember
  <2>2. Kept(requests[s])'
    BY <1>2 DEF Kept, Idle, ProfileSteps
  <2>3. ASSUME NEW x \in Slots \ {s} PROVE Kept(requests[x])'
    BY <1>1, <1>2, <1>3, <1>5, OthersKept DEF Grows
  <2>4. ASSUME NEW e \in Emails \ unfinished'
        PROVE  LockedOut(e)' \/ \E x \in Slots : Owes(requests[x], e)'
    <3>1. e \in Emails \ unfinished /\ ~Concerns(s, e)
      BY <1>1
    <3>2. ~Owes(requests[s], e)
      BY <1>1, <3>1 DEF Owes, OwingSteps, Concerns
    <3>3. CASE LockedOut(e)
      BY <1>3, <3>3 DEF LockedOut, TenantsOf, IsMember
    <3>4. CASE \E x \in Slots : Owes(requests[x], e)
      <4>1. PICK x \in Slots \ {s} : Owes(requests[x], e)
        BY <3>2, <3>4
      <4>2. Owes(requests'[x], e)
        BY <1>2, <4>1
      <4> QED
        BY <4>2 DEF Owes
    <3> QED
      BY <1>5, <3>1, <3>3, <3>4 DEF InStep
  <2> QED
    BY <2>1, <2>2, <2>3, <2>4 DEF InStep
<1>6. ASSUME OneAtATime, OneByOne PROVE OneByOne'
  <2>1. Alone(requests[s])'
    <3>1. Idle.op = "none" /\ Idle.at = "idle"
      BY DEF Idle
    <3> QED
      BY <1>2, <3>1 DEF Alone
  <2>2. OneFirmEach'
    BY <1>1, <1>3, <1>6, FirmsStay DEF OneByOne, OneFirmEach, FirmsKept
  <2> QED
    BY <1>6, <2>1, <2>2 DEF OneByOne, OneAtATime
<1> QED
  BY <1>2, <1>4, <1>5, <1>6 DEF Preserved, TypeInv

\* Who holds a token matters to no other part of the state.
LEMMA NothingMoves ==
  ASSUME TypeInv, UNCHANGED <<store, pool, requests, unfinished, misread>>, sessions' \subseteq Users
  PROVE  Preserved
<1>1. /\ profiles' = profiles /\ memberships' = memberships /\ admins' = admins
      /\ accounts' = accounts /\ created' = created /\ requests' = requests
      /\ unfinished' = unfinished /\ misread' = misread
  BY DEF store, pool
<1>2. TypeInv'
  BY <1>1 DEF TypeInv, TypeOK, RequestsInForm
<1>3. ASSUME InStep PROVE InStep'
  <2>1. Identities'
    BY <1>1, <1>3 DEF InStep, Identities, TenantsOf, IsMember
  <2>2. ASSUME NEW x \in Slots PROVE Kept(requests[x])'
    BY <1>1, <1>3 DEF InStep, Kept, TenantsOf, IsMember
  <2>3. ASSUME NEW e \in Emails \ unfinished
        PROVE  LockedOut(e)' \/ \E x \in Slots : Owes(requests[x], e)'
    BY <1>1, <1>3 DEF InStep, LockedOut, TenantsOf, IsMember, Owes
  <2> QED
    BY <1>1, <2>1, <2>2, <2>3 DEF InStep
<1>4. ASSUME OneByOne PROVE OneByOne'
  <2>1. ASSUME NEW x \in Slots PROVE Alone(requests[x])'
    BY <1>1, <1>4 DEF OneByOne, Alone, TenantsOf, IsMember, IsPlatformAdmin
  <2>2. OneFirmEach'
    BY <1>1, <1>4, FirmsStay DEF OneByOne, OneFirmEach, FirmsKept
  <2> QED
    BY <2>1, <2>2 DEF OneByOne
<1> QED
  BY <1>2, <1>3, <1>4 DEF Preserved

\* An account is the account of a user.
LEMMA SignInKeeps ==
  ASSUME TypeInv, NEW e \in Emails, SignIn(e)
  PROVE  Preserved
<1>1. accounts[e] \in Accounts /\ sessions \subseteq Users
  BY DEF SignIn, TypeInv, TypeOK
<1>2. sessions' \subseteq Users
  BY <1>1 DEF SignIn, Accounts
<1> QED
  BY <1>2, NothingMoves DEF SignIn

\* Every request that can arrive arrives in form.
LEMMA ArriveKeeps ==
  ASSUME TypeInv, NEW s \in Slots, Arrive(s)
  PROVE  Preserved
<1>1. \A t : RolesIn(t) \subseteq Roles
  BY DEF RolesIn, Roles
<1>2. CASE \E e \in Emails, t \in Tenants, want \in {"INVITED", "ACTIVE"} :
             \E role \in RolesIn(t) : CreateUser(s, t, e, role, want)
  BY <1>1, <1>2, CreateUserKeeps
<1>3. CASE \E e \in Emails, want \in {"INVITED", "ACTIVE"} : CreatePlatformAdmin(s, e, want)
  BY <1>3, CreatePlatformAdminKeeps
<1>4. CASE \E u \in Users, t \in Tenants, want \in Statuses \cup {Keep} :
             \E role \in RolesIn(t) \cup {Keep} : UpdateUser(s, t, u, role, want)
  <2>1. PICK u \in Users, t \in Tenants, want \in Statuses \cup {Keep} :
             \E role \in RolesIn(t) \cup {Keep} : UpdateUser(s, t, u, role, want)
    BY <1>4
  <2>2. PICK role \in Roles \cup {Keep} : UpdateUser(s, t, u, role, want)
    BY <1>1, <2>1
  <2> QED
    BY <2>2, UpdateUserKeeps
<1>5. CASE \E u \in Users, t \in Tenants : DeleteUser(s, t, u)
  BY <1>5, DeleteUserKeeps
<1>6. CASE \E u \in Users : \/ GrantPlatformAdmin(s, u)
                            \/ InvalidateInvite(s, u)
                            \/ DeletePlatformAdmin(s, u)
                            \/ Backfill(s, u)
                            \/ GetMe(s, u)
                            \/ UpdateMe(s, u)
  BY <1>6, GrantPlatformAdminKeeps, InvalidateInviteKeeps, DeletePlatformAdminKeeps,
     BackfillKeeps, GetMeKeeps, UpdateMeKeeps
<1>7. CASE \E u \in Users, e \in Emails : UpdatePlatformAdmin(s, u, e)
  BY <1>7, UpdatePlatformAdminKeeps
<1> QED
  BY <1>2, <1>3, <1>4, <1>5, <1>6, <1>7 DEF Arrive

\* Every step preserves the invariants.
LEMMA NextKeeps ==
  ASSUME TypeInv, [Next]_vars
  PROVE  Preserved
<1>1. ASSUME NEW s \in Slots, Step(s) PROVE Preserved
  BY <1>1, LookUpKeeps, CheckKeeps, RestoreProfileKeeps, ReinviteKeeps, ProvisionKeeps,
     ProvisionRaisesKeeps, StoreProfileKeeps, AddMemberKeeps, DisableKeeps, PutProfileKeeps,
     PutMemberKeeps, RemoveMemberKeeps, SetFlagKeeps, EnsureKeeps, PutPlatformMemberKeeps,
     ListFirmsKeeps, PurgeFirmKeeps, EndPurgeKeeps, ClearFlagKeeps, ReadProfileKeeps,
     ListRemainingKeeps, DeleteProfileKeeps, DeleteAccountKeeps, ListInvitedKeeps,
     ActivateKeeps, CheckAdminKeeps
     DEF Step
<1>2. CASE UNCHANGED vars
  BY <1>2, NothingMoves DEF vars, store, pool, TypeInv, TypeOK
<1> QED
  BY <1>1, <1>2, ArriveKeeps, CrashKeeps, SignInKeeps DEF Next

\* Nobody is known at first, and no request is in flight.
LEMMA InitKeeps ==
  Init => TypeInv /\ InStep /\ OneByOne
<1> SUFFICES ASSUME Init PROVE TypeInv /\ InStep /\ OneByOne
  OBVIOUS
<1>1. \A s \in Slots : requests[s] = Idle
  BY DEF Init
<1>2. \A u \in Users : TenantsOf(u) = {} /\ u \notin admins /\ profiles[u] = None
  BY DEF Init, TenantsOf, IsMember
<1>3. \A e \in Emails : accounts[e] = None
  BY DEF Init
<1>4. MaxAccounts \in Nat /\ 0 \in 0 .. MaxAccounts
  BY MembershipsAssumption
<1>5. TypeOK
  BY <1>4 DEF Init, TypeOK
<1>6. RequestsInForm
  BY <1>1, IdleIsFine DEF Init, RequestsInForm
<1>7. Identities
  BY <1>2, <1>3 DEF Identities
<1>8. \A e \in Emails : LockedOut(e)
  BY <1>3 DEF LockedOut
<1>9. OneFirmEach
  BY <1>2 DEF OneFirmEach, OneFirm
<1> QED
  BY <1>1, <1>5, <1>6, <1>7, <1>8, <1>9, IdleIsFine DEF TypeInv, InStep, OneByOne

-----------------------------------------------------------------------------
(* What holds for every value of the constants *)

\* Rows, accounts and requests in flight have their types, in whatever order
\* requests are handled.
THEOREM TypeCorrect == Spec => []TypeOK
<1>1. Init => TypeInv
  BY InitKeeps
<1>2. TypeInv /\ [Next]_vars => TypeInv'
  BY NextKeeps DEF Preserved
<1>3. TypeInv => TypeOK
  BY DEF TypeInv
<1> QED
  BY <1>1, <1>2, <1>3, PTL DEF Spec

\* The invariant of peaceful requests.
LEMMA AlwaysInStep ==
  ASSUME Peaceful
  PROVE  Spec => [](TypeInv /\ InStep)
<1>1. Init => TypeInv /\ InStep
  BY InitKeeps
<1>2. TypeInv /\ InStep /\ [Next]_vars => (TypeInv /\ InStep)'
  BY NextKeeps DEF Preserved
<1> QED
  BY <1>1, <1>2, PTL DEF Spec

\* Every membership has its profile: create_user stores the profile before the
\* membership, and delete_platform_admin deletes it when no membership is left.
THEOREM MembersAlwaysHaveProfiles ==
  ASSUME Peaceful
  PROVE  Spec => []MembersHaveProfiles
<1>1. InStep => MembersHaveProfiles
  BY DEF InStep, Identities, MembersHaveProfiles
<1> QED
  BY <1>1, AlwaysInStep, PTL

\* Whoever has left everything cannot sign in any more, unless a request about
\* the person is under way, has died or did not find the profile: delete_user, delete_platform_admin and
\* invalidate_platform_admin_invite end with the account, and only a request
\* that will add a membership enables it again.
THEOREM LeaversAreAlwaysLockedOut ==
  ASSUME Peaceful
  PROVE  Spec => []LeaversAreLockedOut
<1>1. TypeInv /\ InStep => LeaversAreLockedOut
  <2> SUFFICES ASSUME TypeInv, InStep, NEW e \in Emails, Settled(e) PROVE LockedOut(e)
    BY DEF LeaversAreLockedOut, LockedOut
  <2>1. \A s \in Slots : ~Owes(requests[s], e)
    BY DEF Settled, Concerns, At, Owes, OwingSteps
  <2> QED
    BY <2>1 DEF InStep, Settled
<1> QED
  BY <1>1, AlwaysInStep, PTL

\* Re-inviting somebody who is known finds the account to enable: the profile
\* is deleted before the account, and no profile is without one.
THEOREM ReinvitesAlwaysSucceed ==
  ASSUME Peaceful
  PROVE  Spec => []ReinvitesSucceed
<1>1. TypeInv /\ InStep => ReinvitesSucceed
  <2> SUFFICES ASSUME TypeInv, InStep, NEW s \in Slots, At(s, "reinvite")
               PROVE  accounts[requests[s].email] # None
    BY DEF ReinvitesSucceed
  <2>1. /\ requests[s].at = "reinvite" /\ Form(requests[s]) /\ Kept(requests[s])
    BY InFlight DEF At
  <2>2. requests[s].user \in Users /\ requests[s].email \in Emails
    BY <2>1 DEF Form
  <2>3. requests[s].user[1] = requests[s].email /\ profiles[requests[s].user] # None
    BY <2>1, <2>2, MembershipsAssumption DEF Kept, ProfileSteps
  <2> QED
    BY <2>2, <2>3 DEF InStep, Identities
<1> QED
  BY <1>1, AlwaysInStep, PTL

\* The invariant of requests that follow one another.
LEMMA AlwaysOneByOne ==
  ASSUME Peaceful, OneAtATime
  PROVE  Spec => [](TypeInv /\ InStep /\ OneByOne)
<1>1. Init => TypeInv /\ InStep /\ OneByOne
  BY InitKeeps
<1>2. TypeInv /\ InStep /\ OneByOne /\ [Next]_vars => (TypeInv /\ InStep /\ OneByOne)'
  BY NextKeeps DEF Preserved
<1> QED
  BY <1>1, <1>2, PTL DEF Spec

\* Nobody is a member of two firms, while requests follow one another, unless
\* an invitation overlooked the profile or a membership of that person: what
\* _assert_single_tenant_membership found is still so when the row is put.
THEOREM AlwaysSingleFirm ==
  ASSUME Peaceful, OneAtATime
  PROVE  Spec => []SingleFirm
<1>1. OneByOne => SingleFirm
  <2> SUFFICES ASSUME OneByOne, NEW u \in Users, u[1] \notin misread
               PROVE  Cardinality(TenantsOf(u) \ {Platform}) <= 1
    BY DEF SingleFirm
  <2>1. \A f, g \in TenantsOf(u) \ {Platform} : f = g
    BY DEF OneByOne, OneFirmEach, OneFirm
  <2>2. CASE TenantsOf(u) \ {Platform} = {}
    BY <2>2, FS_EmptySet
  <2>3. CASE TenantsOf(u) \ {Platform} # {}
    <3>1. PICK f : TenantsOf(u) \ {Platform} = {f}
      BY <2>1, <2>3
    <3>2. Cardinality({f}) = 1
      BY FS_Singleton
    <3> QED
      BY <3>1, <3>2
  <2> QED
    BY <2>2, <2>3
<1> QED
  BY <1>1, AlwaysOneByOne, PTL

\* A put of a membership row makes somebody an administrator only when it is
\* that person's row, and the row of an administrator.
LEMMA AppointedByRow ==
  ASSUME TypeInv, NEW t \in Tenants, NEW v \in Users, NEW row, NEW u \in Users,
         memberships' = [memberships EXCEPT ![t][v] = row], admins' = admins,
         ~IsPlatformAdmin(u), IsPlatformAdmin(u)'
  PROVE  /\ u = v /\ t = Platform
         /\ row # None /\ row.role = "PLATFORM_ADMIN" /\ row.status \in {"ACTIVE", "INVITED"}
<1>1. Platform \in Tenants /\ memberships \in [Tenants -> [Users -> Members \cup {None}]]
  BY DEF TypeInv, TypeOK, Tenants
<1>2. memberships'[Platform][u] =
         IF t = Platform /\ v = u THEN row ELSE memberships[Platform][u]
  BY <1>1
<1> QED
  BY <1>2 DEF IsPlatformAdmin, IsMember

\* While requests follow one another, only a step of an appointment makes an
\* administrator.
LEMMA AppointedByStep ==
  ASSUME TypeInv, OneByOne, NEW s \in Slots, Step(s), NEW u \in Users,
         ~IsPlatformAdmin(u), IsPlatformAdmin(u)'
  PROVE  /\ requests[s].user = u
         /\ requests[s].op \in {"create user", "update user", "create admin", "grant"}
<1> DEFINE r == requests[s]
<1>1. r \in Requests /\ Form(r) /\ Alone(r)
  BY InFlight
<1>2. PICK v, t, copy : v = r.user /\ t = r.tenant /\ copy = r.copy
  OBVIOUS
<1>3. Platform \in Tenants /\ memberships \in [Tenants -> [Users -> Members \cup {None}]]
  BY DEF TypeInv, TypeOK, Tenants
<1>4. ~(memberships'[Platform][u] = memberships[Platform][u] /\ admins' = admins)
  BY DEF IsPlatformAdmin, IsMember
<1>5. ~(memberships' = memberships /\ admins' = admins)
  BY DEF IsPlatformAdmin, IsMember
<1>6. \/ AddMember(s) \/ PutMember(s) \/ RemoveMember(s) \/ SetFlag(s)
      \/ PutPlatformMember(s) \/ PurgeFirm(s) \/ ClearFlag(s) \/ Activate(s)
  BY <1>5 DEF Step, LookUp, Check, RestoreProfile, Reinvite, Provision, ProvisionRaises,
     StoreProfile, Disable, PutProfile, Ensure, ListFirms, EndPurge, ReadProfile,
     ListRemaining, DeleteProfile, DeleteAccount, ListInvited, CheckAdmin, store
<1>7. CASE AddMember(s)
  <2>1. r.at = "add member"
    BY <1>7 DEF AddMember, At
  <2>2. r.op = "create user" /\ v \in Users /\ t \in Tenants
    BY <1>2, <1>1, <2>1 DEF Form
  <2>3. PICK row : memberships' = [memberships EXCEPT ![t][v] = row] /\ admins' = admins
    BY <1>2, <1>7 DEF AddMember
  <2>4. u = v
    BY <1>3, <1>4, <2>2, <2>3
  <2> QED
    BY <1>2, <2>2, <2>4
<1>8. CASE PutMember(s)
  <2>1. r.at = "put member"
    BY <1>8 DEF PutMember, At
  <2>2. /\ r.op \in {"update user", "invalidate invite", "create admin"}
        /\ v \in Users /\ t \in Tenants
        /\ r.op = "invalidate invite" => copy.status = "DISABLED"
    BY <1>2, <1>1, <2>1 DEF Form, Tenants
  <2>3. memberships' = [memberships EXCEPT ![t][v] = copy] /\ admins' = admins
    BY <1>2, <1>8 DEF PutMember
  <2>4. u = v /\ copy.status \in {"ACTIVE", "INVITED"}
    BY <2>2, <2>3, AppointedByRow
  <2> QED
    BY <1>2, <2>2, <2>4
<1>9. CASE RemoveMember(s)
  <2>1. v \in Users /\ t \in Tenants
    BY <1>2, <1>1, <1>9 DEF Form, RemoveMember, At
  <2>2. memberships' = [memberships EXCEPT ![t][v] = None] /\ admins' = admins
    BY <1>2, <1>9 DEF RemoveMember
  <2> QED
    BY <2>1, <2>2, AppointedByRow
<1>10. CASE SetFlag(s)
  <2>1. r.at \in {"set flag", "confirm flag"} /\ admins' = admins \cup {r.user}
        /\ memberships' = memberships
    BY <1>10 DEF SetFlag, At
  <2>2. u = r.user
    BY <2>1 DEF IsPlatformAdmin, IsMember
  <2> QED
    BY <1>1, <2>1, <2>2 DEF Form, Alone
<1>11. CASE PutPlatformMember(s)
  <2>1. r.at = "put platform member" /\ v \in Users /\ Platform \in Tenants
    BY <1>2, <1>1, <1>11 DEF Form, PutPlatformMember, At, Tenants
  <2>2. memberships' = [memberships EXCEPT ![Platform][v] = FullMember] /\ admins' = admins
    BY <1>2, <1>11 DEF PutPlatformMember
  <2>3. u = v
    BY <1>3, <1>4, <2>1, <2>2
  <2> QED
    BY <1>2, <1>1, <2>1, <2>3 DEF Form, Alone
<1>12. CASE PurgeFirm(s)
  <2>1. v \in Users /\ r.todo \subseteq Tenants
    BY <1>2, <1>1, <1>12 DEF Form, PurgeFirm, At, Tenants
  <2>2. PICK f \in r.todo : memberships' = [memberships EXCEPT ![f][v] = None]
    BY <1>2, <1>12 DEF PurgeFirm
  <2>3. f \in Tenants /\ admins' = admins
    BY <1>12, <2>1 DEF PurgeFirm
  <2> QED
    BY <2>1, <2>2, <2>3, AppointedByRow
<1>13. CASE ClearFlag(s)
  BY <1>13 DEF ClearFlag, IsPlatformAdmin, IsMember
<1>14. CASE Activate(s)
  <2>1. r.at = "activate" /\ v \in Users /\ r.todo \subseteq Tenants \X Roles
    BY <1>2, <1>1, <1>14 DEF Form, Activate, At
  <2>2. PICK m \in r.todo :
           memberships' = [memberships EXCEPT ![m[1]][v] = [role |-> m[2], status |-> "ACTIVE"]]
    BY <1>2, <1>14 DEF Activate
  <2>3. m[1] \in Tenants /\ admins' = admins
    BY <1>14, <2>1 DEF Activate
  <2>4. u = v /\ m[1] = Platform /\ m[2] = "PLATFORM_ADMIN"
    <3>1. PICK x, row : x = m[1] /\ row = [role |-> m[2], status |-> "ACTIVE"]
      OBVIOUS
    <3>2. x \in Tenants /\ memberships' = [memberships EXCEPT ![x][v] = row]
      BY <2>2, <2>3, <3>1
    <3>3. u = v /\ x = Platform
      BY <1>3, <1>4, <2>1, <2>3, <3>2
    <3>4. memberships'[Platform][u] = row
      BY <1>3, <2>1, <3>2, <3>3
    <3>5. row.role = "PLATFORM_ADMIN"
      BY <2>3, <3>4 DEF IsPlatformAdmin, IsMember
    <3> QED
      BY <3>1, <3>3, <3>5
  <2>5. memberships[Platform][u] = [role |-> "PLATFORM_ADMIN", status |-> "INVITED"]
    BY <1>2, <1>1, <2>1, <2>2, <2>4 DEF Alone
  <2>6. memberships[Platform][u] # None
    BY <2>5, MembershipsAssumption DEF Members, Roles, Statuses
  <2>7. IsPlatformAdmin(u)
    BY <2>5, <2>6 DEF IsPlatformAdmin, IsMember
  <2> QED
    BY <2>7
<1> QED
  BY <1>6, <1>7, <1>8, <1>9, <1>10, <1>11, <1>12, <1>13, <1>14

\* Signing in, which activates and repairs memberships, never makes somebody an
\* administrator, and neither does the start of a process: while requests
\* follow one another, activate_invited_memberships puts back the role that the
\* row has, and ensure_platform_admin_membership is called for administrators.
THEOREM OnlyAppointmentsEverMakeAdmins ==
  ASSUME Peaceful, OneAtATime
  PROVE  Spec => OnlyAppointmentsMakeAdmins
<1> DEFINE Appointment ==
      \A u \in Users : ~IsPlatformAdmin(u) /\ IsPlatformAdmin(u)' =>
          \E s \in Slots :
             /\ requests[s].user = u
             /\ requests[s].op \in {"create user", "update user", "create admin", "grant"}
<1>1. TypeInv /\ InStep /\ OneByOne /\ [Next]_vars => [Appointment]_vars
  <2> SUFFICES ASSUME TypeInv, OneByOne, Next,
                      NEW u \in Users, ~IsPlatformAdmin(u), IsPlatformAdmin(u)'
               PROVE  \E s \in Slots :
                         /\ requests[s].user = u
                         /\ requests[s].op \in
                               {"create user", "update user", "create admin", "grant"}
    OBVIOUS
  <2>1. ~(memberships' = memberships /\ admins' = admins)
    BY DEF IsPlatformAdmin, IsMember
  <2>2. ASSUME NEW e \in Emails, SignIn(e) PROVE FALSE
    BY <2>1, <2>2 DEF SignIn, store
  <2>3. ASSUME NEW s \in Slots, Crash(s) PROVE FALSE
    BY <2>1, <2>3 DEF Crash, store
  <2>4. ASSUME NEW s \in Slots, Arrive(s) PROVE FALSE
    BY <2>1, <2>4 DEF Arrive, CreateUser, CreatePlatformAdmin, UpdateUser, DeleteUser,
       GrantPlatformAdmin, InvalidateInvite, DeletePlatformAdmin, Backfill, GetMe, UpdateMe,
       UpdatePlatformAdmin, store
  <2>5. PICK s \in Slots : Step(s)
    BY <2>2, <2>3, <2>4 DEF Next
  <2> QED
    BY <2>5, AppointedByStep
<1> QED
  BY <1>1, AlwaysOneByOne, PTL DEF Spec, OnlyAppointmentsMakeAdmins

=============================================================================
