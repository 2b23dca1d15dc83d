# Verification of the Civil AI platform API

TLA+ models of the platform service in `src/src/civilai_platform`, checked with
TLC and, for the most part, proved with TLAPS.  Paths below are relative to
`src/src/civilai_platform` unless they start with `src/`.

## The system

The platform is a FastAPI application behind API Gateway and AWS Lambda (or
uvicorn in development).  One Lambda function serves both HTTP requests and the
asynchronous events it sends to itself: `lambda_handler.handler` looks at
`civilai_async` and dispatches to one of three worker entry points, or hands
the event to the HTTP application.  State lives in one DynamoDB table (puts are
unconditional, there are no transactions), in S3 (exports, artifacts, the
training corpus) and in Cognito (accounts).  Development uses an in-memory
store or its JSON snapshot.

| part | code | state | operations | what is hard |
|---|---|---|---|---|
| async delivery | `lambda_handler.py`, `_enqueue_async_completion` in three services | Lambda's event queue | self-invoke, dispatch to a worker | at-least-once delivery, retries, 900 s limit, an invoke call that raises after Lambda took the event |
| agent runs | `services/agent_run.py` | `AGENT_RUN` rows | create, execute, complete from event, get, list | five systems written without a transaction; duplicate executors |
| export jobs | `services/export/service.py`, `services/export/pdf.py`, `src/export-pdf/handler.py` | `EXPORT_JOB` rows, `study.docx`, `study.pdf` | create, execute, complete from event, get; convert | a second Lambda that outlives its caller; documents and record under different keys |
| LLM invoke jobs | `services/llm_invoke.py` | `LLM_JOB` rows | invoke, start, complete from event, get | audit inside the execution, duplicates |
| audit trail | `services/audit.py` | `AuditEvent` rows | record | written after the change, by the same executor |
| training corpus | `services/agent_corpus.py` | S3 objects | draft, section transitions | best effort, a fresh id per event |
| project activity | `services/project_activity.py` | activity rows | record, create, update, delete, list | check-then-act on event ids, rows of deleted projects |
| projects, state | `services/project.py`, `api/routes/projects.py` | `PROJECT`, `STATE` rows | create, update, delete, patch state, compute zoning | whole-document read-modify-write, a row synced from a document that was stripped |
| tenants, slugs | `services/tenant.py`, `store/dynamodb.py` | tenant row, slug row | create, rename, backfill, look up | two rows, check-then-act |
| tenant purge | `services/tenant_purge.py` | pending codes in process memory | request, confirm | in-flight work puts rows back |
| users, memberships | `services/user.py`, `services/platform_tenant.py`, `services/cognito.py` | profiles, memberships, Cognito accounts | create, invite, update, delete, grant, activate on login, purge | three stores; stale copies put back; single-tenant rule |
| authorization | `auth/authz.py`, `api/deps.py` | none | role checks | depends on memberships |
| guard rails | `services/guardrails.py`, `services/guardrails_merge.py` | scope rows, version row | upsert, delete, seed, resolve | version computed from a listing; five levels of scopes merged key by key |
| LLM configuration | `services/llm_config.py` | baseline, tenant copies | update, copy, restore | version read-modify-write, lazy copies |
| clients | `services/client.py` | client rows | merging create, update, delete | check-then-act |
| file store | `store/file.py`, `store/memory.py` | dictionaries, snapshot | save, load | threads that change what is being saved; what is not in the snapshot |
| data routing | `services/data_routing.py`, `services/agent_run.py` | an environment variable and a global client of the process | choose a base, set and put back | state that outlives a request of a warm container |
| topic briefs | `services/topic_brief.py`, `services/zoning_brief_context.py` | none | compose, citation gate | what a language model says must not pass ungated |
| zoning compute | `services/zoning_scenario_compute.py` | none | compare a baseline with a proposal | five sources of one text, chosen in several places |
| prompts | `services/agent_prompt.py`, `services/search_policy.py`, `services/llm_invoke.py` | none | resolve a configuration into a call | two executors read one configuration with code of their own |
| artifacts | `services/artifacts.py` | S3 objects, preview tokens in memory | presign, store, resolve | tokens of another process |
| rendering, data proxy | `services/export/*`, `services/data_proxy.py` | none | formatting and forwarding | nothing that interleaves |

`PROJECT.json` lists every part with its status and, under `hazards`, the lines
where something can go wrong that a test would hardly reach, with the property
that covers each, or what part of it no property can cover.

### What makes each part correct

* *Jobs of all three kinds*: a client that polls sees RUNNING and then one
  final result; nothing leaves a job RUNNING for ever except an executor that
  died for good or a worker that did not find the row; every result has its audit
  event; side effects (timeline, corpus, documents) agree with the record.
* *Slugs*: a slug leads to the tenant that has it, and to one tenant only.
* *Purge*: nothing of a purged tenant is left; the people of others keep what
  they have.
* *Memberships*: a person belongs to one tenant, or is a platform admin; an
  ACTIVE member can sign in and a removed one cannot.
* *Project state*: the rows of a project come and go together, the training
  corpus replays to the text that is stored, what is stored can be loaded.
* *Clients*: what was put on file for a company is in its one row.
* *Guard rails, LLM configuration*: versions identify contents; the most
  specific scope decides.
* *Data routing*: a request is served by the data of its own origin.
* *File store*: a restart changes nothing.
* *Topic briefs*: no extract in a brief that the rules do not let in.
* *Zoning compute*: texts, gaps, limit and risk of one result agree.
* *Prompts*: every fact that a section may see and no other; the configuration
  means the same to both executors, but for two settings that nothing validates.

## Modules

    AsyncDelivery          who executes a job; Lambda's delivery (external)
                                                        -> AsyncDeliveryProofs
      AgentRuns            services/agent_run.py        -> AgentRunsProofs
      ExportJobs           services/export/service.py   -> ExportJobsProofs
      LlmInvokeJobs        services/llm_invoke.py       -> LlmInvokeJobsProofs
    JobLifecycle           the promise to a polling client; the three job
                           modules implement it
    Memberships            services/user.py, services/platform_tenant.py, login;
                           the Cognito pool behind services/cognito.py
                                                        -> MembershipsProofs
    Requests               HTTP handlers in flight, one per slot
      Projects             services/project.py, project_activity.py, the
                           section events of agent_corpus.py
                                                        -> ProjectsProofs
      Clients              services/client.py           -> StoreProofs
      Tenants              services/tenant.py, llm_config.py, tenant_purge.py
                                                        -> StoreProofs
      GuardRails           services/guardrails.py       -> StoreProofs
      DataRouting          services/data_routing.py     -> StoreProofs
      FileStore            store/file.py over store/memory.py
                                                        -> StoreProofs
    GuardRailRules         services/guardrails_merge.py (no state)
                                                        -> ControlPlaneProofs
      TopicBriefs          services/topic_brief.py, zoning_brief_context.py
                                                        -> ControlPlaneProofs
    ZoningCompute          services/zoning_scenario_compute.py (no state)
                                                        -> ControlPlaneProofs
    SectionPrompts         services/agent_prompt.py, search_policy.py and the
                           resolution part of llm_invoke.py (no state)
                                                        -> ControlPlaneProofs
    ControlPlane           the six modules over Requests in one system, and
                           questions to the four algorithms
                                                        -> ControlPlaneProofs
    MCAgentRuns, MCExportJobs, MCLlmInvokeJobs, MCMemberships,
    MCControlPlane, MCProjects
                           constants for TLC

### AsyncDelivery

Lambda is not in the repository; this module states what the code relies on.
An *executor* of a job is the HTTP request that created it
(`Request(j)`) or one attempt to deliver one copy of its event
(`Attempt(j, c, a)`).  Each executor runs at most once, so its whole life is
one program counter `pc[e]`, and a crash is final for it: Lambda goes on with
the *next* attempt of the copy, if there is one.  Two independent sources of
double execution are modelled: `MaxCopies > 1` (Lambda delivers an event twice)
and `AmbiguousEnqueue` (the invoke call raises in the request although Lambda
took the event).  `GivenUp(j)` says that the request died or that Lambda used
up the attempts of a copy.

### Reads that miss

`DynamoDBStore._get` answers a failed read like a missing row
(`store/dynamodb.py:121`), its reads are eventually consistent, and so are the
queries of the table and, later still, of the index of memberships.  The code
takes what it did not find for what is not there and goes on.  An access that
reads therefore has an outcome "found nothing" (`\E found \in {row, None}`)
wherever the code then goes a way of its own that is not a mere 404:

| module | the read that may miss | what the code then does | remembered as |
|---|---|---|---|
| `AgentRuns`, `ExportJobs`, `LlmInvokeJobs` | the worker's read of its job (`Deliver`) | logs and returns, Lambda does not retry, the job stays RUNNING | `Overlooked`: a worker returned without a copy |
| `Memberships` | the profile and the memberships that an invitation looks up (`LookUp`, `Check`) | goes on without the check, or makes an account | `misread` |
| `Memberships` | the profile whose email is to be disabled or deleted (`DeleteUser`, `InvalidateInvite`, `ReadProfile`), the index (`ListRemaining`) | leaves the account | `unfinished` |
| `Tenants` | the META row at a put, the SLUG row of the platform or of a rename | keeps an old SLUG row, makes a second Platform tenant, takes a slug that is taken | `"slugs"`, `"platform"` in `torn` |
| `Tenants` | the baseline, a copy of it | publishes version 1 again; copies once more | `"baseline"` in `torn` |
| `Tenants` | the baseline that was put a moment before (`Superseded`) | copies the version before to the Platform tenant | the tenant in `torn` |
| `Tenants` | a profile or the index in a purge (`ReadEmails`, `DeletePerson`) | leaves the account or the profile | the person in `torn` |
| `GuardRails` | the handler's own writes in its list (`ListScopes`), a seeded scope | hashes an old list; seeds again | `outdated`, then `behind` |

Not every read needs this.  A read that gives an older version of a row is the
same read a moment earlier, which the interleavings with other handlers have; what
they do not have is a handler that does not see what it wrote itself, and these are
the cases of the table.  Where a miss is answered by a 404 or by leaving the request
undone, nothing changes and nothing is left to say: so `Projects` and
`Clients` read what is stored.  Taken for granted: who appoints or repairs an
administrator finds the rows of the Platform tenant; the listing that decides whether
a profile is deleted, and the lists of a tenant's members, show what requests that
ended before have put; `JoinTenant` of `Tenants` reads what is stored
(`Memberships` has its misses); and `GuardRailRules.Layers` is about the rows that
were read: a level whose read fails is left out of the merge
(`services/guardrails.py:224`).

### AgentRuns

One action per store access, in the order of the code.  The request:
`Post` (route check of the project), `ContextRaises` or `CreateRun`, `Enqueue`
or `EnqueueRaises` (the fallback to synchronous execution).  The worker:
`Deliver`, with the terminal check on the copy it read.  The execution that the
two share (`_execute_agent_run`): `Invoke` (agent answer, artifacts, success
copy, best-effort draft capture) or `InvokeRaises`; for section drafts
`CheckProject` and `RecordActivity` or `RecordActivityRaises`
(`record_project_activity` reads the project and then puts the row under the
run's own id); `Save`; `Audit`.  The environment: `Crash` at any of these
steps, `Redeliver`, and a user who deletes the project, whose row goes before
its activity rows (`DeleteProject`, `DeleteActivity`, in which the deleting
request may also die half way).

`local[e]` is the `AgentRun` object in the memory of an executor: every put
writes such a copy and overwrites whatever is stored.  Data is reduced to
provenance: the output of a record, the writer of the activity row, the authors
of drafts and audits are executors.  A run without `CIVILAI_AGENT_ASYNC` behaves
like one whose enqueue raised at once, so the runs set `Async = TRUE` and have
both paths.

### ExportJobs

The same shape, with a third actor: the converter Lambda.  `CallConverter`
hands it the keys, it reads the DOCX that is stored *then* (`converting[e]`),
and `ConverterWrites` may come long after its caller crashed or gave up
(`ConvertRaises`).  The DOCX and the PDF of all attempts share one key each.
`build_export_context` needs the tenant, project and state rows; a project that
is deleted row by row makes the job fail.

### LlmInvokeJobs

The audit event is written inside the call, before the job is saved, and inside
the `try` of the worker: a failing audit throws away the answer.

### JobLifecycle

The abstract specification.  `Spec`: absent, RUNNING, one result.
`AtLeastOnceSpec`: a result may be replaced by another result, never by an
unfinished job; and a success carries an output.  `Lifecycle` in the three job
modules is the refinement mapping: the stored row is the abstract record.

### Memberships

A person has a profile (`profiles[u]`, its email), memberships
(`memberships[t][u]`), perhaps the platform-admin flag (`admins`), and an
account in Cognito (`accounts[e]`, under the email, with the `sub` that is the
user id).  A user id is `<<e, n>>`, the n-th account ever created under email
`e`.  `requests[s]` is the request in slot `s`: its operation, its next access
(`at`) and the copies it holds.  `Arrive` lists the operations with their
guards, `Step` the accesses, which operations share as the code shares
functions: `LookUp` is `_profile_by_email`; `Ensure` to `EndPurge` are
`ensure_platform_admin_membership` and the rest of its callers; `ListInvited`,
`Activate` and `CheckAdmin` are `get_me`.  Consecutive reads are one action, as
are the calls within one call of the provisioner.  Requests that answer 404
change nothing and are left out.  `Crash` ends a request anywhere and remembers
the person in `unfinished`, as does a removal that does not find the profile;
`misread` are the people whose rows an invitation overlooked.  The properties use
both.  A token outlives its account
(`sessions`), so log-ins also come from people who were disabled.

### Requests and ControlPlane

`Requests` is the frame of the REST handlers: `req[s]` is the handler in slot
`s`, the store access it is about to do (`at`) and the copies it has read.
Handlers of one process run in threads and Lambda runs many processes, so two
slots interleave at every access; a handler may die before any access
(`Abort...Request`).

`ControlPlane` puts the six modules over one set of slots.  A behaviour has
requests of one *area* only, chosen in the initial state: areas touch different
rows, so an interleaving of two areas shows nothing that the areas do not show
alone, and TLC need not multiply them.  The areas of `Projects` and of `Tenants`
are the groups of operations that meet on the same rows ("sections", "parcel",
"zoning", "notes", "project clients"; "fresh", "slugs", "llm", "purge"); every
area of `Projects` has creation and deletion.  Four more areas ("rules",
"briefs", "compute", "prompts") put one *question*, a member of a set of inputs,
to an algorithm without a state (`Ask`) and look at the answer; the sets are
built so that each precedence between two sources is decided by some question.

*Exemptions as history variables.*  This code has no locks, transactions or
conditional puts, so that two requests that collide on the same rows, or one
that dies between two of them, do spoil what the properties are about, and so does
one that overlooks the row it asks for; the code does not try to prevent it.  What
it does promise is everything else, and that is not little: most interleavings are
not collisions.  Each module therefore remembers what collisions, crashes and
overlooked rows have touched, as precisely as the code allows: `tainted` projects (a put replaced something its reader had not seen, a
handler died with rows half written), `muddled` companies, `torn` tenants,
people, slugs and baseline, `behind` for the guard-rail version until the next
refresh makes up for it, `mixed` when a request came while a run had the data
base set, `unsaved` kinds of rows until the next save.  They are written only
where the two requests really meet or a miss makes a difference, and the
properties hold of everything that was not touched, in states full of overlapping
requests.  `filed` and `published` remember what was put on file for a company, and which
configuration a version stood for; `saver` whose save of a state was the last.

### Projects

A project is a PROJECT row (of which the thumbnail is kept), a STATE row (one
section, the parcel, the zoning scenario) and activity rows.  `CreateProject`
to `ComputePut` follow `services/project.py`, `project_activity.py` and the
zoning compute of `api/routes/projects.py` access by access.  `Transition` says
which event a save of a section is for the corpus, `corpus` is what a reader
gets who replays the events.

### Clients, Tenants, GuardRails

`Clients`: the merging create (`CreateClient` lists, `PutNewClient` or
`MergeReadClient` and `PutClient`), update, delete.  `Tenants`: META and SLUG
rows, the choice of a free slug, rename (`PutTenant`, `DeleteOldSlug`, `PutMeta`,
`PutSlug`), the Platform tenant and the backfill of slugs; the LLM baseline, its
versions, the copies of the tenants; the purge row by row, with people and work
that come in meanwhile.  `GuardRails`: scopes, the version row as the list it
was computed from, seeding.

### DataRouting, FileStore

`DataRouting`: `base` and `agentClient` are the two globals of the process that
a run sets and puts back (`SetBase` ... `ResetClient`), also when the agent
raises; a request that is served by a client of its own reads the first.
`FileStore`: a change is made in the dictionary, then the thread takes the lock,
dumps the kinds one by one and replaces the file; `Restart` reads it back.

### GuardRailRules, TopicBriefs, ZoningCompute, SectionPrompts

Pure.  A stored rule is a function on the keys that the row gives, so that the
difference between a key that is absent and one that has the default value,
which the merge is about, is there.  `PrefetchedBriefs` goes from a project to
its briefs; replies are a failure, text without JSON, or JSON with any subset
of extracts.  `ComputeScenario` takes search hits by the best thing that the
title patterns see in them.  `Draft` resolves one configuration for both
executors, with operators of their own for each (`AgentModelPreset` and
`InvokeModelPreset`, `AgentSystemPrompt` and `InvokeSystemPrompt`, `AgentSearch` and
`SectionSearch`), since the code has two implementations.  A setting may be absent,
blank, or of another type (`NotText`): configurations are free dictionaries.

Lists whose length the code does not bound are functions here, so that what is
computed from them can be reasoned about without induction: the scopes of a
request are a function on the four levels (`None` where a scope is absent or
without a row), which `MergeRules` adds one after the other; a list of search
hits is a function on its places, where taking a hit out leaves its place empty
(`DistinctCites`, `First3`), and `Ranked` puts three copies of the list one
after the other, one for each rank; a prompt has its lines under their numbers
in the template.

## What TLC checks

| run | instance | properties |
|---|---|---|
| `agent_runs_single` | two runs (a section draft and a question), one copy, two attempts | `TypeOK`, `TimelineMatchesRun`, `TwoDraftsOnlyAfterCrash`, `LifecycleFinal`, `RunsFinish` |
| `agent_runs_duplicate` | one section draft, two copies, a possibly lost enqueue answer | `SucceededDraftIsOnTimeline`, `FinishedRunIsAudited`, `LifecycleAtLeastOnce` |
| `export_jobs` | one export, one copy, three attempts, PDF converter | `TypeOK`, `DocumentMatchesJob`, `PdfMatchesDocument`, `LifecycleFinal`, `ExportsFinish` |
| `export_jobs_duplicate` | one export, two copies, a possibly lost enqueue answer, PDF converter | `NeverDocxOnly`, `LifecycleAtLeastOnce` |
| `llm_invoke_jobs` | one job, two copies, two attempts, a possibly lost enqueue answer | `EveryResultWasAudited`, `LifecycleAtLeastOnce`, `JobsFinish` |
| `memberships` | one person, two firms and the Platform tenant, requests one after the other, any may die or overlook a row | `TypeOK`, `SingleFirm`, `LeaversAreLockedOut`, `MembersHaveProfiles`, `ReinvitesSucceed`, `OnlyAppointmentsMakeAdmins` |
| `memberships_concurrent` | one person, one firm, two overlapping requests of firm administrators and users, none dies | `LeaversAreLockedOut` |
| `control_plane` | two slots, one project, two clients of two companies, three tenants, two guard-rail scopes, all areas; 37,880 initial states, most of them questions | the fifteen properties below |
| `memberships_two_emails` | one request at a time, changes of an email | `SingleFirm` *violated* |
| `memberships_admin_in_firm` | one request at a time | `AdminsBelongToPlatformOnly` *violated* |
| `projects_thumbnail` | one project, one request at a time | `CapturedThumbnailStays` *violated* |
| `briefs_summary_only` | the questions of area "briefs" | `ExtractsPassTheGate` *violated* |

| property of `control_plane` | area | says |
|---|---|---|
| `RowsAgree` | projects | PROJECT, STATE and activity rows come and go together |
| `CorpusReplaysSection` | sections | the corpus replays to the stored text and approval; approvals and reopenings alternate |
| `StoredStatesLoad` | zoning | whatever is stored passes its validators when it is loaded, however computes and saves overlap |
| `CompaniesKeepTheirFiles` | companies | a company has one row with all that was put on file |
| `VersionMatchesScopes` | guard rails | the version row is the hash of the scopes as they are |
| `OriginsDecide` | data routing | who was served, was served by the base of the origin |
| `RestartsChangeNothing` | file store | the file holds what the process holds |
| `MostSpecificScopeDecides` | rules | a merged rule is that of the most specific scope, gated by the catalog |
| `BriefsAreGrounded` | briefs | extracts come from indexed ordinances of the place looked at, under rules that let them in |
| `ComputedScenarioAgrees` | compute | gaps are the empty texts, the limit used is the one displayed, low risk is known where the text has a source |
| `PromptLabDecides` | prompts | prompts say the facts of the section; structured answers with search have room |
| `ExecutorsAgree` | prompts | an agent run and an LLM invoke read model, instructions and search alike, but for blank prompts and presets that are no text |
| `SlugsLeadHome` | fresh, slugs | a slug leads to its tenant, a slug row home or to nobody |
| `CopiesFollowBaseline` | fresh, llm | a version is one configuration, copies have that of their version, the Platform tenant has the newest |
| `PurgeIsComplete` | purge | nothing is left of a purged tenant and its people, others keep theirs |

The runs not marked pass.  What they show together:

* With one executor at a time (Lambda retries after a crash, no duplicates) the
  terminal check of the worker entry points is enough: the first result is
  final (`LifecycleFinal`), and the timeline, the document and the record
  belong to the same execution however many attempts died in between.
* With duplicates, that is lost, and deliberately not claimed: the later put
  wins, even a failure over a success.  What remains is
  `LifecycleAtLeastOnce`, `SucceededDraftIsOnTimeline`, `FinishedRunIsAudited`,
  `NeverDocxOnly` and `EveryResultWasAudited`.
* The corpus may hold two drafts of one run even without duplicates, but then
  one of the authors crashed (`TwoDraftsOnlyAfterCrash`): nothing in a draft
  event tells the two apart except the run id they share.
* An agent run or an export can lose its audit event (a crash between the two
  puts), an LLM answer cannot.
* A late PDF of a dead attempt may replace that of the attempt that succeeded:
  `PdfMatchesDocument` states exactly this exception.
* A job stays RUNNING for ever only when its request died, Lambda gave up, or a
  worker's read of the row missed it; the last needs no crash and nobody retries.
* Requests about a person that follow one another keep profile, memberships,
  flag and account in step, wherever earlier ones died: one firm at most (unless
  the invitation overlooked a row), a profile for every member, an account for every
  re-invitation, no administrator by signing in.
* In the control plane, requests that overlap without meeting on the same rows
  leave everything whole: no order of their accesses, and no crash of a handler
  that has written all or none of its rows, breaks one of the fifteen
  properties.  Six of them have no exemption at all: `StoredStatesLoad` (a
  compute that puts back an old document never stores one that cannot be loaded)
  and those of the four algorithms.
* Overlapping membership requests keep only part of that.  Among the operations of firms
  and users, nobody who is out has an enabled account
  (`LeaversAreLockedOut`); an appointment that overlaps the invalidation of the
  same invitation breaks this too.  As long as no administrator is removed, no
  invitation of one is invalidated and no email of one is changed, the same is true
  of appointments; every member has a profile, and a re-invitation finds its
  account.  This is proved for any number of overlapping requests.
  Otherwise, with two slots, TLC finds a
  membership without a profile (an appointment overlaps the deletion of the
  administrator), a removed membership put back by a log-in, and a re-invitation
  whose account is deleted under it.  `SingleFirm` and `OnlyAppointmentsMakeAdmins`
  need the order in any case: a check, or a listed role, is stale when the row is
  put.  They are checked and proved for requests that follow one another, and not
  claimed beyond that.

**Disagreements found.**

* `memberships_two_emails`: the test `test_single_tenant_membership_enforced`
  says that the second firm is refused.  It is not when the person is an
  administrator in a firm whose email was changed: `create_user` then takes the
  branch of unknown people, which makes no check.  (Nor when two invitations
  overlap: the check at `services/user.py:55` and the put are two accesses.)
* `memberships_admin_in_firm`: "Platform admins belong only to the reserved
  Platform tenant" (`services/platform_tenant.py:69`), but a firm can invite
  one; the membership stays until the next log-in.
* `projects_thumbnail`: the list "prefers a captured `listThumbnailUrl`"
  (`services/project.py:42`), but the parcel is stored without it
  (`services/project.py:281`), and the next save of anything else syncs the
  project row from the stored parcel: the thumbnail is cleared, or replaced by
  the static basemap.
* `briefs_summary_only`: `apply_citation_gate` is there to "drop extracts that
  violate field guardrails" (`services/topic_brief.py:54`), but is skipped for
  summary-only topics (`services/topic_brief.py:217`), whose extracts are kept
  if the reply has any.  `BriefsAreGrounded` states what holds with that
  exception.

**Observed while modelling**, in the models and not claimed as wrong:

* Zoning compute: no comparison is ever "high", so the overall risk never is;
  a gap whose baseline is stored as an empty text compares as "unchanged"; the
  text of `LDC_REFERENCE` may be empty without being a gap; the compute reads
  the data service of the deployment and ignores the request's origin.
* Guard rails: a county scope applies also where its state scope does not (only
  the prefixes of two states are known); a topic that is summary-only is off
  unless another topic or field hydrates; `upsert_scope` stores rules that
  resolution may refuse; the audit listing applies its limit before its filter.
* File store: agent runs, LLM jobs, LLM configurations and guard rails are lost
  on a restart, a deleted profile is back unless something was saved since.
* Data routing: in the threads of a local server, two overlapping runs may
  leave the wrong base set for good.
* Prompts: `{CODE}` in a search hint is resolved only if the section has the
  code for another reason, since only `{{field.CODE}}` makes a code visible;
  and an LLM invoke does not ask whether a search provider is configured, as an
  agent run does.  The two also differ on a `sectionSystemPrompt` of blanks
  (stripped at `services/agent_prompt.py:251`, sent at `services/llm_invoke.py:160`)
  and on a `modelPreset` of a section that is no text (taken for an unknown model at
  `services/agent_prompt.py:255`, ignored at `services/llm_invoke.py:140`).  No
  document promises that they agree, so this is no finding.

**Bounds.**  Jobs interact only through the projects they share, so two runs in
one project already show every interaction; three attempts of an export are
Lambda's default, and the third adds the case of two late conversions.  Two
copies give two simultaneous workers and, with the ambiguous enqueue, a third
executor.  The program counters bound everything else: an executor runs once.
`Memberships` is about one person at a time except where emails are mixed up;
two firms are enough to belong to two, and two accounts under one email show a
profile whose account was deleted and made anew (`MaxAccounts`; beyond it
Cognito refuses).  The concurrent run and `memberships_two_emails` restrict `Operations`
and have one account per email, to be exhaustive; in the concurrent run no request dies,
since a crash exempts the one person there is.
The runs of the jobs say `CHECK_DEADLOCK FALSE` because an instance really
stops when all its requests and events are used up, and so do those of the
control plane: ids run out, and a question is answered once.

In `ControlPlane` two slots are enough because every property is about rows
that a pair of requests can spoil; a third request could only be one more
writer of the same rows.  One project has all the races of its own rows; two
companies and two clients give merges, renames into each other and re-use; three
tenants, three slug bases and their numbers give a taken slug, a suffixed one
and the Platform tenant; two guard-rail scopes give a list that is old in one
place.  `MaxVersion` bounds updates of the baseline; slugs asked for by a PATCH
have no number.  The slots are symmetric (no action or property names one;
all properties are state predicates).  The constraint `Interesting` stops at
states in which collisions have touched everything that the properties of the
area are about: whatever follows is exempt as well, as history variables only
grow there.  In the areas of tenants it also stops once slugs were missed or collided
on or the Platform tenant was, which all other properties of these areas depend
on.  Two more of its conjuncts keep the run short: of two ids that mean the same
before they are in use, the second is not taken first (clients in "companies",
tenants in "slugs"), and a tenant made in the area "llm", where slugs do not matter,
has one slug.  The file store has one kind with two contents, one whose deletion is
not saved and one that is never saved; a further saved kind only makes the dump
longer.  Areas with variables that can recover (`behind`, `unsaved`,
`mixed`) and the area "zoning" are explored to the end.

**Fairness.**  Weak fairness of the steps of a request that arrived, of
delivery, of a worker and of the converter: a thread runs until it returns or
dies, Lambda delivers what it accepted, and both HTTP clients and Lambdas have
timeouts (900 s for the function, 120 s for the converter), so a call ends.
Nothing forces requests to arrive, crashes to happen or not to happen, or users
to delete projects.

**Mutants.**  Every property of every passing run has a broken variant of one of the
modelled definitions (marked *Broken* in the module) under which TLC finds it
violated: a terminal check that only looks whether the record exists, a lost
`return` after the enqueue, an activity put made best-effort, success decided
before the conversion, an answer stored before its audit, and so on.

## What is proved

Every theorem holds for all values of the constants that satisfy the named
assumptions of the modules (types, and that `None` is nothing else), which TLC
evaluates in the runs.  Those of `Tenants` say more: tenant ids are finitely many,
there is a slug besides the platform's, and among the rows that a deployment may
start with at most one tenant is the platform and one firm has its slug
(`StartingKinds`).  Those of `ControlPlane` speak of the questions where an algorithm
needs it: a search answers with a list of hits of any length or not at all, a
limit of tokens is a natural number, and a field code that was renamed is no
zoning dimension and has a new name that was not renamed again
(`services/agent_prompt.py:24`).  Nothing else is assumed of rows, replies, templates and
contexts, so the theorems are about more than the questions of the run.
`SingleDelivery` is `MaxCopies = 1` and no ambiguous
enqueue: what the code relies on where it has no protection against duplicates.

| module | theorem | statement |
|---|---|---|
| `AgentRunsProofs` | `TypeCorrect` | `Spec => []TypeOK` |
| | `RunsAreAtLeastOnce` | `Spec => LifecycleAtLeastOnce` (refinement) |
| | `FinishedRunsAreAudited` | `Spec => []FinishedRunIsAudited` |
| | `SucceededDraftsAreOnTimeline` | `Spec => []SucceededDraftIsOnTimeline` |
| | `FirstResultIsFinal` | `SingleDelivery`: `Spec => LifecycleFinal` (refinement) |
| | `TwoDraftsMeanACrash` | `SingleDelivery`: `Spec => []TwoDraftsOnlyAfterCrash` |
| | `TimelinesMatchRuns` | `SingleDelivery`: `Spec => []TimelineMatchesRun` |
| `ExportJobsProofs` | `TypeCorrect` | `Spec => []TypeOK` |
| | `ExportsAreAtLeastOnce` | `Spec => LifecycleAtLeastOnce` (refinement) |
| | `ExportsAreNeverDocxOnly` | `Spec => []NeverDocxOnly` |
| | `FirstResultIsFinal` | `SingleDelivery`: `Spec => LifecycleFinal` (refinement) |
| | `DocumentsMatchJobs` | `SingleDelivery`: `Spec => []DocumentMatchesJob` |
| | `PdfsMatchDocuments` | `SingleDelivery`: `Spec => []PdfMatchesDocument` |
| `LlmInvokeJobsProofs` | `TypeCorrect` | `Spec => []TypeOK` |
| | `InvokesAreAtLeastOnce` | `Spec => LifecycleAtLeastOnce` (refinement) |
| | `ResultsWereAudited` | `Spec => []EveryResultWasAudited` |
| | `FirstResultIsFinal` | `SingleDelivery`: `Spec => Lifecycle!Spec` (refinement) |
| `MembershipsProofs` | `TypeCorrect` | `Spec => []TypeOK` |
| | `MembersAlwaysHaveProfiles` | `Peaceful`: `Spec => []MembersHaveProfiles` |
| | `LeaversAreAlwaysLockedOut` | `Peaceful`: `Spec => []LeaversAreLockedOut` |
| | `ReinvitesAlwaysSucceed` | `Peaceful`: `Spec => []ReinvitesSucceed` |
| | `AlwaysSingleFirm` | `Peaceful`, `OneAtATime`: `Spec => []SingleFirm` |
| | `OnlyAppointmentsEverMakeAdmins` | `Peaceful`, `OneAtATime`: `Spec => OnlyAppointmentsMakeAdmins` |
| `ControlPlaneProofs` | `RowsAlwaysAgree` | `Spec => []RowsAgree` |
| | `CorpusAlwaysReplays` | `Spec => []CorpusReplaysSection` |
| | `StoredStatesAlwaysLoad` | `Spec => []StoredStatesLoad` |
| | `FilesAreKept` | `Spec => []CompaniesKeepTheirFiles` |
| | `VersionsAreOfTheScopes` | `Spec => []VersionMatchesScopes` |
| | `OriginsAlwaysDecide` | `Spec => [](area = "data routing" => OriginsDecide)` |
| | `RestartsAreHarmless` | `Spec => []RestartsChangeNothing` |
| | `SlugsAlwaysLeadHome` | `Spec => []SlugsLeadHome` |
| | `CopiesAlwaysFollow` | `Spec => []CopiesFollowBaseline` |
| | `PurgesAreComplete` | `Spec => []PurgeIsComplete` |
| | `ScopesAlwaysDecide` | `Spec => []MostSpecificScopeDecides` |
| | `BriefsAreAlwaysGrounded` | `Spec => []BriefsAreGrounded` |
| | `ScenariosAlwaysAgree` | `Spec => []ComputedScenarioAgrees` |
| | `PromptLabAlwaysDecides` | `Spec => []PromptLabDecides` |
| | `ExecutorsAlwaysAgree` | `Spec => []ExecutorsAgree` |

### Jobs

*What the three kinds of jobs share* is in `AsyncDeliveryProofs`.  `DeliveryInv`
says that no event exists before the enqueue and that an attempt after the first
exists only when the one before it crashed.  Under single delivery, `ChainInv`
adds that the request has handed over before its worker starts and that all
earlier attempts crashed; so (`OneAtATime`) two executors of one job are never
both at work.

None of the properties is inductive.  For each kind, `LifecycleInv` says that
nobody works on a job that was not stored, that an executor past its terminal
check holds an unfinished or a complete copy, and that at `save` it holds a
result: with it, each change of a record is a `Submit`, a `Complete` or a
`Replace` of `JobLifecycle`.  Single delivery makes the record an executor holds
the stored one (`FinishedIsLeftAlone`), so that a `Replace` never happens.

*Agent runs.*  `WrittenByAuditor` carries a finished run's executor from `Save` to
`Audit`; `SavedDraftIsOnTimeline` says that a successful copy on its way to the
put has its row already, or the project is being deleted, and that a project
never comes back.  An executor holds the row it wrote itself (`HoldsOwnDraft`),
and two drafts have authors of which one crashed (`DraftInv`).

*Export jobs.*  An executor that converts has stored a DOCX and one that saves a
success has stored all documents (`CompleteInv`); as documents are never
removed, that is enough for any delivery.  Under single delivery an executor at
work has its own document under the key (`HoldsOwnDocument`), its converter reads
that one (`ConvertsOwnDocument`), and the PDF that it saves is of that document
unless it arrived late from an executor that crashed (`SavedPdfIsFit`).

*LLM jobs.*  A result on its way to the put was audited (`SavedWasAudited`): the
event is recorded inside the execution.

### Memberships

`OneAtATime` is one slot: requests about people follow one another, any of them
may die half way.  `Peaceful` says that they do, or that administrators are only
appointed (`AdminsStay`: neither "delete admin" nor "invalidate invite" is among
the operations), and in both cases that no administrator's email changes
(`EmailsStay`).  Both bounds are about `Slots`, `Operations` and `Emails`: the run
`memberships` has one slot, `memberships_concurrent` only operations that leave
administrators alone, and firms, people, accounts, slots and crashes are
arbitrary in the theorems.  `memberships_two_emails` shows what a changed email does, and
two slots what the rest does (above).

Of the properties only `TypeOK` is close to inductive: it needs the form of the
requests in flight (`Form`), which steps an operation takes and which arguments
it has there.  `InStep` carries the rest:

* `Identities`: a profile has the email and the sub of its account, and members
  and administrators have a profile.
* `Kept` is what a request in flight has found out and still counts on: the
  profile of its person, the account of a profile it is about to store, no
  membership left when it deletes the profile, no profile left when it deletes
  the account.  Other requests do not take this away, since under `AdminsStay`
  people lose neither profile nor account nor flag (`Grows`, `OthersKept`).
* Somebody who has an enabled account and nothing else is owed a step: a request
  is on its way to a membership or a flag, or to the account (`Owes`), or died or
  did not find the profile.
  `LeaversAreLockedOut` is the case that nobody owes anything.

For one slot `OneByOne` adds that what a request has read is still so (`Alone`):
the person that an invitation checked is in no other firm (or is `misread`), a listed invitation
has the role that was listed, and a membership is repaired for an
administrator.  A step that only reads or only moves the request is dealt with
by `QuietMove`, a step that writes by `WriteMove`, with one lemma for each kind
of row (`ProfilePut`, `AccountSet`, `MemberPut`, `MemberGone`).  TLC checked the
invariants before they were proved.

### Control plane

A behaviour of `ControlPlane` has requests of one area.  In the area of a component
every step is a step of the component, which keeps the component's inductive
invariant; in the others its rows are as they were at first
(`GuardRailSteps`, `CompanySteps`, `RoutingSteps`, `FileSteps`, `ProjectsMove`,
`TenantsMove`).
The invariants say of each handler, at any step, how what it has read compares
with what is stored: it is the same, or the collision that changed it is on
record in a history variable, or will be at the handler's next put.

* *Projects* (`ProjectsInv`): an id is handed out once and has one creator
  (`UnusedIsEmpty`, `OneCreator`), before whose put of the state nobody can have
  read one (`NoStateYet`).  The rows of a project disagree only while the handler
  that creates or deletes it is on its way to put that right (`RowsAreTended`); it
  answers for each activity row until it has deleted it (`WillSweep`).  The corpus
  tells of the stored section, or of the one the last saver had read, whose event
  is still to come (`CorpusIsTold`); when somebody else puts the state before that
  event, the handler is bound to note the collision (`Doomed`), and until then
  nothing is claimed.  `ReplayTells` says that the event of a transition leads the
  reader of the old section to the new one.  What is about to be put loads again
  (`LoadsAgain`), whoever overtakes it.
* *Clients* (`ClientsInv`): a handler's merge is of the row that it has read, or
  the company is muddled (`MergeFits`), and the one row of every other company is
  what is on file (`FileKept`).
* *Guard rails* (`RailsInv`): a listing that is about to become the version is of
  the scopes as they are, unless it is noted as outdated (`ListsAreFresh`).
* *Data routing* (`RoutingInv`): unless requests are mixed, the base and the
  client of the process are what the one run at work has set, and those of the
  deployment when there is none (`Unmixed`).
* *File store* (`FileInv`): the lock is held by the call that dumps (`OneSaves`); the part
  of the payload dumped so far is of the dictionaries as they are, or a call whose
  own save is still to come has changed them since (`DumpIsFresh`, `Accounted`).
* *Tenants*: the areas have two invariants, since tenants are set up in some and
  people join and leave in the other.  `SetupInv`: a tenant that is being created is
  its own handler's (`CreationsAreAlone`); a handler between the two puts holds the
  slug that the SLUG rows lack (`SlugsInStep`), unless the slugs are torn; what is
  stored or about to be put as a copy was published (`CopiesInStep`); and the
  Platform tenant has the newest configuration, or a handler that copies it is on
  its way (`Current`).  Whoever gives the slug of the platform to a tenant copies,
  and nobody takes it away (`PlatformKeepsSlug`).
  `PurgeInv`: the rows that a purge has listed are all there are (`SeesAll`), unless
  the tenant is torn; each member that it has not deleted it has listed wherever it
  has looked (`Finds`); a profile or an account without membership is that of
  somebody who is joining or about to lose it (`OnePerson`), never both
  (`OneJoin`).  The proof has one lemma for each handler's step; `PersonMoves` and
  `RowsMove` deal with the people and tenants that a step is not about.
  In every other area the rows are as a deployment starts (`TenantsAtRest`).

The invariants of these six were checked by TLC on the instances of the runs
before they were proved.

* *The four algorithms*: question and answer never change once there is an answer,
  which is what the algorithm makes of the question (`AnswersAreComputed`).  The rest is about
  operators.
  *Rules*: what is merged up to a level (`MergedUpTo`) has, for each code named so
  far, all that the last layer says that names it, because a layer dumps its
  defaults too (`DumpsCoverAll`, `NextLayer`); a budget, which is not dumped when it
  is missing, is excepted.  *Briefs*: the place of the request is the one looked
  at, and the gate asks the merged rules, which are those in force.
  *Zoning compute*: the hits that are kept for a citation field are findings
  (`KeptHits`, `FilteredHits`), so that the text composed of them is not empty and has
  evidence (`FindingsAreText`); hence a text is empty where a gap is noted, and a value that
  is not compared as unchanged is backed.  *Prompts*: the codes that a template
  names are among those the section may see, and scrubbing a fact a second time
  changes nothing (`FactsOfScope`); the settings of the two executors are compared case
  by case (`WaysOfDraftsAgree`).

### Only model-checked

* Liveness (`RunsFinish`, `ExportsFinish`, `JobsFinish`): fairness and ENABLED are out of
  the prover's reach.

The modules over `Requests` have no `TypeOK`; their types are conjuncts of the
inductive invariants.  That of `LlmInvokeJobs` is proved and in no run.

## Not modelled

* The wording of prompts, answers, summaries and documents; of `ExportJobs` what
  the document contains (context, renderer, linter, skins): formatting without a
  state.
* Token validation, presigning, HTTP forwarding by the data proxy: libraries and
  other services.  Preview tokens and the artifacts of a run in the memory of
  its own process.
* Of memberships: the audit events, the authority of the caller, the development
  bootstrap, and deployments without a Cognito pool.
* Of reads that miss, those listed as taken for granted under *Reads that miss*.
* Of the control plane: audit events of handlers (appended last, read by none of
  them); fields of rows that are saved like the ones kept; listings that only
  read; the clearing of the platform-admin flag by a purge
  (`store/dynamodb.py:219`); validation of guard-rail documents; two processes
  on one file; the refine form of a request, temperatures, disclaimers and
  search domains, which are handed on as they are.
* Infrastructure code and scripts.

In a process without Lambda the request executes the job: that is the path of
`EnqueueRaises`.

## Plan

Modelled and checked: all of the above.  Proved: every property of a passing run
except those listed under *Only model-checked*.

The proof of `ComputedScenarioAgrees` corrected the property: the data service may
hydrate a text of the impervious regulations and name no section for it.  The
comparison then has no evidence and is "unknown" under an overall risk of "low".
The run had only hydrated texts with a section; it now has both, and the property excepts
texts without a source (`Unsourced`).

No module declares RECURSIVE operators, and the modules of the four algorithms
do without folds.  What remains is liveness in a prover that has ENABLED, and of the code the
parts listed under *Not modelled*.
