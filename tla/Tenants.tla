----------------------------- MODULE Tenants -----------------------------
(***************************************************************************)
(* services/tenant.py, services/platform_tenant.py (the tenant itself),    *)
(* services/llm_config.py, services/tenant_purge.py and the tenant rows of *)
(* store/dynamodb.py.                                                      *)
(*                                                                         *)
(* A tenant is a META row with its slug, a SLUG row that leads from the    *)
(* slug to the tenant, an LLM configuration row and whatever else is filed *)
(* under its key: memberships and work (clients, projects, runs; here one  *)
(* row).  All of them are written one by one.                              *)
(*                                                                         *)
(* Data: a slug is a base and a number (unique_slug appends -2, -3, ...).  *)
(* A META row is its slug and what its name slugifies to.  People are kept *)
(* as their profile, their account and their memberships, and join as in   *)
(* create_user; Memberships has the details of that, and people who leave. *)
(* The authorization code of a purge is right (a wrong one changes         *)
(* nothing).                                                               *)
(*                                                                         *)
(* A read may miss a row: _get of store/dynamodb.py answers None when the  *)
(* call fails, and reads are eventually consistent, so that a handler may  *)
(* be shown what was there before its own put.  The reads that decide what *)
(* is written are \E found \in ... below; the other ones end in an error.  *)
(* JoinTenant finds what is stored: Memberships has the reads of joining.  *)
(*                                                                         *)
(* torn names what requests that collided, died half way or missed a row   *)
(* have touched: tenants, people, the slugs, the baseline, and "platform": *)
(* which tenant is the Platform tenant.                                    *)
(***************************************************************************)
EXTENDS Requests, Naturals, FiniteSetsExt

CONSTANTS
    TenantIds,       \* ids that new_id may return
    SlugBases,       \* slugified names
    PlatformBase,    \* the reserved slug "platform", one of SlugBases
    Users,           \* people
    Configs,         \* LLM lab configurations
    DefaultConfig,   \* default_llm_lab_config(), one of Configs
    MaxVersion       \* bound: versions of the baseline

VARIABLES
    metas,           \* META rows
    slugs,           \* SLUG rows
    baseline,        \* the LLM baseline row
    configs,         \* LLM configuration rows
    members,         \* the members by tenant
    profiles,        \* people with a profile row
    logins,          \* people with a Cognito account
    work,            \* tenants with a work row
    pending,         \* purge codes in the memory of the process, by tenant
    made,            \* tenant ids handed out
    published,       \* history: the configuration of each baseline version
    torn             \* history: what collisions, crashes and misses have touched

slugVars == <<metas, slugs, made>>
llmVars == <<baseline, configs, published>>
purgeVars == <<members, profiles, logins, work, pending>>
tenantVars == <<slugVars, llmVars, purgeVars, torn>>

SlugNumbers == 1 .. Cardinality(TenantIds)
Slugs == SlugBases \X SlugNumbers
PlatformSlug == <<PlatformBase, 1>>

\* A row of before the slugs has none yet; its name is slugified on a load.
MetaRows == [slug : Slugs \cup {None}, base : SlugBases]
Baselines == [version : 1 .. MaxVersion, config : Configs]

\* own: a config that an administrator has entered for the tenant.
ConfigRows == [version : 1 .. MaxVersion, config : Configs \cup {"own"}]

ASSUME TenantsAssumption ==
    /\ IsFiniteSet(TenantIds)
    /\ PlatformBase \in SlugBases /\ SlugBases # {PlatformBase}
    /\ DefaultConfig \in Configs
    /\ MaxVersion \in Nat \ {0}
    /\ None \notin TenantIds \cup Users
    /\ None \notin Slugs /\ None \notin MetaRows
    /\ None \notin Baselines /\ None \notin ConfigRows

\* What a deployment starts with: kind[t] is "platform", a "firm" with its
\* slug, a "legacy" firm of before the slugs, "gone" (purged with its slug not
\* taken) or "new", an id not in use.  A fresh deployment has no Platform tenant
\* and no baseline yet.  A slug is one tenant's.
TenantKinds == {"platform", "firm", "legacy", "gone", "new"}

StartingKinds ==
    {kind \in [TenantIds -> TenantKinds] :
        \A t, u \in TenantIds : kind[t] = kind[u] /\ kind[t] \in {"platform", "firm"} => t = u}

FirmBase == CHOOSE b \in SlugBases : b # PlatformBase

SlugOf(kind) ==
    CASE kind = "platform" -> PlatformSlug [] kind = "firm" -> <<FirmBase, 1>> [] OTHER -> None

TenantsInit(kind) ==
    LET fresh == \A t \in TenantIds : kind[t] # "platform" IN
    /\ metas = [t \in TenantIds |->
            IF kind[t] \in {"new", "gone"} THEN None
            ELSE [slug |-> SlugOf(kind[t]),
                  base |-> IF kind[t] = "platform" THEN PlatformBase ELSE FirmBase]]
    /\ slugs = [x \in Slugs |->
            IF \E t \in TenantIds : SlugOf(kind[t]) = x
            THEN CHOOSE t \in TenantIds : SlugOf(kind[t]) = x ELSE None]
    /\ baseline = IF fresh THEN None ELSE [version |-> 1, config |-> DefaultConfig]
    /\ configs = [t \in TenantIds |-> IF kind[t] \in {"platform", "firm"} THEN baseline ELSE None]
    /\ members = [t \in TenantIds |-> {}]
    /\ profiles = {} /\ logins = {} /\ work = {} /\ pending = {}
    /\ made = {t \in TenantIds : kind[t] # "new"}
    /\ published = [v \in 1 .. MaxVersion |-> IF v = 1 /\ ~fresh THEN DefaultConfig ELSE None]
    /\ torn = {}

Tear(what, collided) == torn' = IF collided THEN torn \cup what ELSE torn

-----------------------------------------------------------------------------
(* Slugs *)

Known == {t \in TenantIds : metas[t] # None}
KnownSlugs == {metas[t].slug : t \in Known} \ {None}

\* unique_slug: the base itself, else the first number that is free.
UniqueSlug(base, taken) ==
    <<base, Min({n \in 1 .. (Cardinality(TenantIds) + 1) : <<base, n>> \notin taken})>>

\* The slug that a put of row gives up, by the META row it has found.
GivenUp(found, row) == IF found = None \/ found.slug = row.slug THEN None ELSE found.slug

\* put_tenant reads the slug that the META row has had.  When it misses the row,
\* the SLUG row of a slug that is given up stays.  (old: the row as it was.)
PutTenant(s) ==
    LET r == req[s]  old == metas[r.t] IN
    /\ At(s, "tenant.put")
    /\ \E found \in {old, None} :
        LET previous == GivenUp(found, r.row) IN
        /\ Become(s, [at |-> IF previous = None THEN "tenant.meta" ELSE "tenant.unslug",
                      t |-> r.t, row |-> r.row, old |-> old, previous |-> previous,
                      then |-> r.then])
        /\ Tear({"slugs"}, previous # GivenUp(old, r.row))
    /\ UNCHANGED <<slugVars, llmVars, purgeVars>>

\* Broken: a rename leaves the SLUG row of the old slug.
DeleteNoSlug(s) ==
    /\ At(s, "tenant.unslug")
    /\ Goto(s, "tenant.meta")
    /\ UNCHANGED tenantVars

DeleteOldSlug(s) ==
    LET r == req[s] IN
    /\ At(s, "tenant.unslug")
    /\ slugs' = [slugs EXCEPT ![r.previous] = None]
    /\ Tear({"slugs"}, metas[r.t] # r.old \/ slugs[r.previous] # r.t)
    /\ Goto(s, "tenant.meta")
    /\ UNCHANGED <<metas, made, llmVars, purgeVars>>

PutMeta(s) ==
    LET r == req[s] IN
    /\ At(s, "tenant.meta")
    /\ metas' = [metas EXCEPT ![r.t] = r.row]
    /\ Tear({"slugs", r.t},
            \/ metas[r.t] # r.old
            \/ \E u \in Known \ {r.t} : metas[u].slug = r.row.slug)
    /\ Goto(s, "tenant.slug")
    /\ UNCHANGED <<slugs, made, llmVars, purgeVars>>

\* Another handler is about to give up the slug x of t.
Renaming(t, x) ==
    \E s \in Slots : /\ req[s].at \in {"tenant.unslug", "tenant.meta"}
                     /\ req[s].t = t /\ req[s].previous = x

PutSlug(s) ==
    LET r == req[s] IN
    /\ At(s, "tenant.slug")
    /\ slugs' = [slugs EXCEPT ![r.row.slug] = r.t]
    /\ Tear({"slugs"}, metas[r.t] # r.row \/ Renaming(r.t, r.row.slug))
    /\ IF r.then = "copy"
       THEN Become(s, [at |-> "llm.read", t |-> r.t, then |-> "copy"])
       ELSE Return(s)
    /\ UNCHANGED <<metas, made, llmVars, purgeVars>>

\* create_tenant: the slug is unique among the tenants listed now.
CreateTenant(s, t, base) ==
    /\ t \notin made
    /\ made' = made \cup {t}
    /\ Begin(s, [at |-> "tenant.put", t |-> t, then |-> "copy",
                 row |-> [slug |-> UniqueSlug(base, KnownSlugs), base |-> base]])
    /\ UNCHANGED <<metas, slugs, llmVars, purgeVars, torn>>

\* ensure_platform_tenant: no SLUG row, or one that leads nowhere, or it is
\* missed: then a second tenant gets the slug.
EnsurePlatformTenant(s, t) ==
    /\ \E found \in {slugs[PlatformSlug], None} : found \notin Known
    /\ t \notin made
    /\ made' = made \cup {t}
    /\ Begin(s, [at |-> "tenant.put", t |-> t, then |-> "copy",
                 row |-> [slug |-> PlatformSlug, base |-> PlatformBase]])
    /\ Tear({"slugs"}, slugs[PlatformSlug] \in Known)
    /\ UNCHANGED <<metas, slugs, llmVars, purgeVars>>

\* is_platform_tenant_id, of the row that it has found.
IsPlatformTenant(row) == row # None /\ row.slug = PlatformSlug

\* update_tenant; slug is None in a PATCH that leaves it alone.  The Platform
\* tenant keeps its slug (and its name) unless it is missed when it is read once
\* more; the rest of it may change.  A slug that is taken may be missed, too.
UpdateTenant(s, t, slug) ==
    /\ t \in Known /\ metas[t].slug # None
    /\ slug # None =>
        /\ \E again \in {metas[t], None} : ~IsPlatformTenant(again)
        /\ \E found \in {slugs[slug], None} : found \notin Known \ {t}
    /\ Begin(s, [at |-> "tenant.put", t |-> t, then |-> "answer",
                 row |-> [metas[t] EXCEPT !.slug = IF slug = None THEN @ ELSE slug]])
    /\ torn' = torn
          \cup {x \in {"platform"} : slug # None /\ slug # metas[t].slug
                                      /\ PlatformSlug \in {slug, metas[t].slug}}
          \cup {x \in {"slugs"} : slug # None /\ slugs[slug] \in Known \ {t}}
    /\ UNCHANGED <<slugVars, llmVars, purgeVars>>

\* get_tenant and list_tenants give a row without slug one: scan, then write
\* without looking for a previous slug.
BackfillSlug(s, t) ==
    LET row == metas[t] IN
    /\ t \in Known /\ metas[t].slug = None
    /\ Begin(s, [at |-> "tenant.meta", t |-> t, old |-> row, previous |-> None,
                 then |-> "answer",
                 row |-> [row EXCEPT !.slug = UniqueSlug(row.base, KnownSlugs)]])
    /\ UNCHANGED tenantVars

-----------------------------------------------------------------------------
(* LLM configuration *)

\* What a handler does with the baseline b it has got.
WithBaseline(s, b) ==
    LET r == req[s] IN
    CASE r.then = "answer" -> Return(s)
      [] r.then = "update" ->
            Become(s, [at |-> "llm.update", read |-> b, config |-> r.config])
      [] r.then = "copy" ->
            Become(s, [at |-> "llm.put", t |-> r.t, read |-> None, base |-> b,
                       row |-> [version |-> b.version, config |-> b.config]])
      [] r.then = "own" ->
            Become(s, [at |-> "llm.put", t |-> r.t, read |-> None, base |-> b,
                       row |-> [version |-> b.version, config |-> "own"]])

\* The versions that may still be read of the baseline, though it has a newer
\* one (update_baseline reads what it has just put).
Superseded ==
    {[version |-> v, config |-> published[v]] :
        v \in {n \in 1 .. MaxVersion : /\ baseline # None /\ n = baseline.version - 1
                                       /\ published[n] # None}}

\* ensure_llm_baseline: who finds none puts version 1, if there is one or not.
ReadBaseline(s) ==
    /\ At(s, "llm.read")
    /\ \E found \in {baseline, None} \cup Superseded :
        IF found = None THEN Goto(s, "llm.init") ELSE WithBaseline(s, found)
    /\ UNCHANGED tenantVars

PutFirstBaseline(s) ==
    LET first == [version |-> 1, config |-> DefaultConfig] IN
    /\ At(s, "llm.init")
    /\ baseline' = first
    /\ published' = [published EXCEPT ![1] = DefaultConfig]
    /\ Tear({"baseline"}, baseline # None)
    /\ WithBaseline(s, first)
    /\ UNCHANGED <<slugVars, configs, purgeVars>>

\* Broken: the version of the baseline stays.
PutBaselineSameVersion(s) ==
    LET r == req[s] IN
    /\ At(s, "llm.update")
    /\ baseline' = [r.read EXCEPT !.config = r.config]
    /\ published' = [published EXCEPT ![r.read.version] = r.config]
    /\ Tear({"baseline"}, baseline # r.read)
    /\ IF slugs[PlatformSlug] \in Known
       THEN Become(s, [at |-> "llm.read", t |-> slugs[PlatformSlug], then |-> "copy"])
       ELSE Return(s)
    /\ UNCHANGED <<slugVars, configs, purgeVars>>

\* update_baseline, then a copy for the Platform tenant if it is found.
PutBaseline(s) ==
    LET r == req[s]  v == r.read.version + 1 IN
    /\ At(s, "llm.update") /\ v <= MaxVersion
    /\ baseline' = [version |-> v, config |-> r.config]
    /\ published' = [published EXCEPT ![v] = r.config]
    /\ \E found \in {slugs[PlatformSlug], None} :
        /\ IF found \in Known
           THEN Become(s, [at |-> "llm.read", t |-> found, then |-> "copy"])
           ELSE Return(s)
        /\ torn' = torn \cup {x \in {"baseline"} : baseline # r.read}
                        \cup {t \in Known : t = slugs[PlatformSlug] /\ t # found}
    /\ UNCHANGED <<slugVars, configs, purgeVars>>

PurgeSteps == {"purge.emails", "purge.users", "purge.query", "purge.rows", "purge.people",
               "purge.accounts"}

Purging(t) == \E s \in Slots : req[s].at \in PurgeSteps /\ req[s].t = t

\* put_tenant_llm_config; nothing looks for the tenant once more.
PutConfig(s) ==
    LET r == req[s] IN
    /\ At(s, "llm.put")
    /\ configs' = [configs EXCEPT ![r.t] = r.row]
    /\ Tear({r.t}, \/ r.t \notin Known \/ Purging(r.t)
                   \/ baseline # r.base
                   \/ r.row.config = "own" /\ configs[r.t] # r.read)
    /\ Return(s)
    /\ UNCHANGED <<slugVars, baseline, published, purgeVars>>

UpdateBaseline(s, config) ==
    /\ Begin(s, [at |-> "llm.read", then |-> "update", config |-> config])
    /\ UNCHANGED tenantVars

GetBaseline(s) ==
    /\ Begin(s, [at |-> "llm.read", then |-> "answer"])
    /\ UNCHANGED tenantVars

\* restore_tenant_llm_from_baseline, and get_tenant_llm_response of a tenant
\* that has no configuration yet or whose configuration is missed.
CopyBaseline(s, t) ==
    /\ t \in Known
    /\ Begin(s, [at |-> "llm.read", t |-> t, then |-> "copy"])
    /\ UNCHANGED tenantVars

\* update_tenant_llm keeps the version of the copy that it finds.
UpdateTenantLlm(s, t) ==
    /\ t \in Known
    /\ \E found \in {configs[t], None} :
        IF found = None
        THEN Begin(s, [at |-> "llm.read", t |-> t, then |-> "own"])
        ELSE Begin(s, [at |-> "llm.put", t |-> t, read |-> found, base |-> baseline,
                       row |-> [found EXCEPT !.config = "own"]])
    /\ UNCHANGED tenantVars

-----------------------------------------------------------------------------
(* People and work *)

Leaving(u) ==
    \E s \in Slots : req[s].at \in PurgeSteps /\ u \in req[s].users \cup req[s].emails

\* create_user up to the put of the profile: the account is made or enabled.
\* A person has one firm.
JoinTenant(s, t, u) ==
    /\ t \in Known /\ \A v \in TenantIds : u \notin members[v]
    /\ Begin(s, [at |-> "join.member", t |-> t, u |-> u])
    /\ profiles' = profiles \cup {u}
    /\ logins' = logins \cup {u}
    /\ Tear({u}, Leaving(u) \/ \E x \in Slots : At(x, "join.member") /\ req[x].u = u)
    /\ UNCHANGED <<slugVars, llmVars, members, work, pending>>

PutMember(s) ==
    LET t == req[s].t  u == req[s].u IN
    /\ At(s, "join.member")
    /\ members' = [members EXCEPT ![t] = @ \cup {u}]
    /\ Tear({t, u}, \/ t \notin Known \/ Purging(t) \/ Leaving(u)
                    \/ \E v \in TenantIds \ {t} : u \in members[v])
    /\ Return(s)
    /\ UNCHANGED <<slugVars, llmVars, profiles, logins, work, pending>>

\* Any handler or worker that has found its tenant and files a row under it.
StartWork(s, t) ==
    /\ t \in Known
    /\ Begin(s, [at |-> "work.put", t |-> t])
    /\ UNCHANGED tenantVars

PutWork(s) ==
    LET t == req[s].t IN
    /\ At(s, "work.put")
    /\ work' = work \cup {t}
    /\ Tear({t}, t \notin Known \/ Purging(t))
    /\ Return(s)
    /\ UNCHANGED <<slugVars, llmVars, members, profiles, logins, pending>>

-----------------------------------------------------------------------------
(* Purge *)

\* request_tenant_purge: not of the Platform tenant, unless the read that is to
\* tell it misses (get_tenant reads it once more).
RequestPurge(t) ==
    /\ t \in Known
    /\ \E found \in {metas[t], None} : ~IsPlatformTenant(found)
    /\ pending' = pending \cup {t}
    /\ Tear({"platform"}, metas[t].slug = PlatformSlug)
    /\ UNCHANGED <<req, slugVars, llmVars, members, profiles, logins, work>>

\* The codes are lost with the process; one that has expired is dropped.
ForgetPurge(t) ==
    /\ t \in pending
    /\ pending' \in {{}, pending \ {t}}
    /\ UNCHANGED <<req, slugVars, llmVars, members, profiles, logins, work, torn>>

\* confirm_tenant_purge by the one who asked for it, with the code: the code is
\* used up, then the members are listed.
ConfirmPurge(s, t) ==
    /\ t \in pending
    /\ pending' = pending \ {t}
    /\ Begin(s, [at |-> "purge.emails", t |-> t, emails |-> members[t], users |-> {}])
    /\ UNCHANGED <<slugVars, llmVars, members, profiles, logins, work, torn>>

\* The emails of the members whose profile is found: the account of one that is
\* missed stays.
ReadEmails(s) ==
    LET there == req[s].emails \cap profiles IN
    /\ At(s, "purge.emails")
    /\ \E found \in SUBSET there :
        /\ Become(s, [req[s] EXCEPT !.at = "purge.users", !.emails = found])
        /\ torn' = torn \cup (there \ found)
    /\ UNCHANGED <<slugVars, llmVars, purgeVars>>

\* purge_tenant_data lists the members once more.
ListUsers(s) ==
    /\ At(s, "purge.users")
    /\ Become(s, [req[s] EXCEPT !.at = "purge.query", !.users = members[req[s].t]])
    /\ UNCHANGED tenantVars

\* Broken: the query finds the META row only.
QueryMetaOnly(s) ==
    LET r == req[s] IN
    /\ At(s, "purge.query")
    /\ Become(s, [at |-> "purge.rows", t |-> r.t, emails |-> r.emails, users |-> r.users,
                  rows |-> {x \in {"meta"} : r.t \in Known}])
    /\ UNCHANGED tenantVars

\* All rows under the tenant's key.
QueryTenant(s) ==
    LET r == req[s]  t == r.t
        rows == {x \in {"meta", "config", "work"} :
                    CASE x = "meta" -> t \in Known
                      [] x = "config" -> configs[t] # None
                      [] x = "work" -> t \in work} \cup members[t]
    IN  /\ At(s, "purge.query")
        /\ Become(s, [at |-> "purge.rows", t |-> t, emails |-> r.emails, users |-> r.users,
                      rows |-> rows])
        /\ UNCHANGED tenantVars

\* The rows that were found go one by one.
DeleteRow(s) ==
    LET r == req[s]  t == r.t IN
    /\ At(s, "purge.rows")
    /\ IF r.rows = {}
       THEN /\ Goto(s, "purge.people")
            /\ UNCHANGED <<metas, configs, work, members>>
       ELSE \E x \in r.rows :
            /\ metas' = IF x = "meta" THEN [metas EXCEPT ![t] = None] ELSE metas
            /\ configs' = IF x = "config" THEN [configs EXCEPT ![t] = None] ELSE configs
            /\ work' = IF x = "work" THEN work \ {t} ELSE work
            /\ members' = [members EXCEPT ![t] = @ \ {x}]
            /\ Become(s, [r EXCEPT !.rows = @ \ {x}])
    /\ UNCHANGED <<slugs, made, baseline, published, profiles, logins, pending, torn>>

\* People without another membership lose their profile: an index says which, and
\* it may still list the membership that has just been deleted.
DeletePerson(s) ==
    LET r == req[s] IN
    /\ At(s, "purge.people")
    /\ IF r.users = {}
       THEN Goto(s, "purge.accounts") /\ UNCHANGED <<profiles, torn>>
       ELSE \E u \in r.users, lags \in BOOLEAN :
            LET left == \A v \in TenantIds : u \notin members[v] IN
            /\ profiles' = IF left /\ ~lags THEN profiles \ {u} ELSE profiles
            /\ Tear({u}, left /\ lags)
            /\ Become(s, [r EXCEPT !.users = @ \ {u}])
    /\ UNCHANGED <<slugVars, llmVars, members, logins, work, pending>>

\* The accounts of the members listed first.
DeleteAccount(s) ==
    LET r == req[s] IN
    /\ At(s, "purge.accounts")
    /\ IF r.emails = {}
       THEN Return(s) /\ UNCHANGED logins
       ELSE \E u \in r.emails :
            /\ logins' = logins \ {u}
            /\ Become(s, [r EXCEPT !.emails = @ \ {u}])
    /\ UNCHANGED <<slugVars, llmVars, members, profiles, work, pending, torn>>

-----------------------------------------------------------------------------
\* What is half done when the handler in slot s dies.
HalfDoneAt(s) ==
    LET r == req[s] IN
    CASE r.at = "tenant.meta" /\ r.previous # None -> {"slugs"}
      [] r.at = "tenant.slug" -> {"slugs"}
      [] r.at \in {"llm.read", "llm.init"} /\ r.then = "copy" -> {r.t}
      [] r.at = "llm.put" -> {r.t}
      [] r.at = "join.member" -> {r.u}
      [] r.at \in PurgeSteps -> {r.t} \cup Users
      [] OTHER -> {}

TenantSteps == PurgeSteps \cup {"tenant.put", "tenant.unslug", "tenant.meta", "tenant.slug",
                                "llm.read", "llm.init", "llm.update", "llm.put",
                                "join.member", "work.put"}

\* The handler dies, or a call it makes raises.
AbortTenantRequest(s) ==
    /\ req[s].at \in TenantSteps
    /\ Return(s)
    /\ torn' = torn \cup HalfDoneAt(s)
    /\ UNCHANGED <<slugVars, llmVars, purgeVars>>

\* A process serves requests when it has seen to the Platform tenant.
Serving == slugs[PlatformSlug] \in Known

TenantRequest(s, t) ==
    \/ EnsurePlatformTenant(s, t)
    \/ BackfillSlug(s, t)
    \/ Serving /\ \E base \in SlugBases : CreateTenant(s, t, base)

\* bound: the slugs that a PATCH asks for have no number.
SlugRequest(s, t) ==
    Serving /\ \E slug \in (SlugBases \X {1}) \cup {None} : UpdateTenant(s, t, slug)

LlmRequest(s, t) ==
    /\ Serving
    /\ \/ \E config \in Configs : UpdateBaseline(s, config)
       \/ GetBaseline(s) \/ CopyBaseline(s, t) \/ UpdateTenantLlm(s, t)

PurgeRequest(s, t) ==
    /\ Serving
    /\ \/ \E u \in Users : JoinTenant(s, t, u)
       \/ RequestPurge(t) \/ ForgetPurge(t) \/ ConfirmPurge(s, t) \/ StartWork(s, t)

TenantStep(s) ==
    \/ PutTenant(s) \/ DeleteOldSlug(s) \/ PutMeta(s) \/ PutSlug(s)
    \/ ReadBaseline(s) \/ PutFirstBaseline(s) \/ PutBaseline(s) \/ PutConfig(s)
    \/ PutMember(s) \/ PutWork(s)
    \/ ReadEmails(s) \/ ListUsers(s) \/ QueryTenant(s) \/ DeleteRow(s) \/ DeletePerson(s)
    \/ DeleteAccount(s)

-----------------------------------------------------------------------------
(* Properties *)

Quiet(t) == \A s \in Slots : "t" \in DOMAIN req[s] => req[s].t # t

\* The slug of a tenant leads to it and to nobody else, and a SLUG row leads
\* home or to a tenant that is gone: unless renames and creations collided, died
\* half way (update_tenant and unique_slug check, _write_tenant writes) or
\* missed the row they ask for.
SlugsLeadHome ==
    "slugs" \notin torn =>
        /\ \A t \in Known : Quiet(t) /\ metas[t].slug # None => slugs[metas[t].slug] = t
        /\ \A x \in Slugs : slugs[x] \in Known /\ Quiet(slugs[x]) => metas[slugs[x]].slug = x

\* A baseline version stands for one configuration, and what a tenant has
\* copied under a version is that configuration (baseline_version_at_copy):
\* unless updates collided or a reader missed the baseline and put version 1.
CopiesMatchTheirVersion ==
    "baseline" \notin torn =>
        \A t \in TenantIds : configs[t] # None =>
            /\ configs[t].version <= baseline.version
            /\ configs[t].config \in {"own", published[configs[t].version]}

\* update_baseline carries every change on to the Platform tenant: unless it
\* missed the tenant or read the version before its own, or the Platform tenant
\* was missed by a rename or a purge that it is protected from.
PlatformHasNewest ==
    {"baseline", "platform"} \cap torn = {} => \A t \in Known \ torn :
        /\ metas[t].slug = PlatformSlug /\ slugs[PlatformSlug] = t
        /\ \A s \in Slots : ~Busy(s)
        => configs[t] # None /\ configs[t].version = baseline.version

CopiesFollowBaseline == CopiesMatchTheirVersion /\ PlatformHasNewest

\* A purge "permanently" deletes: of a tenant that is gone no row is left but
\* its slug, and the people of a purged tenant keep neither profile nor
\* account; but one whose profile was missed keeps the account, and one whom the
\* index still listed the profile.  Others keep theirs.
PurgeIsComplete ==
    /\ \A t \in made \ (Known \cup torn) : Quiet(t) =>
            configs[t] = None /\ members[t] = {} /\ t \notin work
    /\ \A u \in Users \ torn :
            (\A s \in Slots : ~Busy(s)) =>
                LET member == \E t \in TenantIds : u \in members[t] IN
                (u \in profiles <=> member) /\ (u \in logins <=> member)
=============================================================================
