---------------------------- MODULE Projects ----------------------------
(***************************************************************************)
(* services/project.py, services/project_activity.py, the section events   *)
(* of services/agent_corpus.py, the zoning compute of                      *)
(* api/routes/projects.py and the rows of store/dynamodb.py behind them.   *)
(*                                                                         *)
(* A project is a PROJECT row (name, list thumbnail), a STATE row (the     *)
(* whole document the front end edits) and activity rows.  Each handler    *)
(* is one action per store access, in the order of the code; every put     *)
(* replaces the whole row.                                                 *)
(*                                                                         *)
(* Data: a state is one section, the parcel and the zoning scenario.  The  *)
(* other fields of the document are saved like these and read by nobody    *)
(* here.  Of a project row only the thumbnail is kept.  The training       *)
(* corpus is kept as what a replay of its events yields.  Audit events and *)
(* names of actors are left out: no property reads them.                   *)
(*                                                                         *)
(* tainted names the projects on which two requests collided or one died   *)
(* between two writes: the code has no protection there (see Overtaken).   *)
(***************************************************************************)
EXTENDS Requests, FiniteSets

CONSTANTS
    ProjectIds,      \* ids that new_id may return
    EventIds,        \* ids of notes, chosen by the front end
    Authors,         \* authors of notes
    Bodies,          \* texts of a section or a note
    NoBody,          \* the empty text, one of Bodies
    Customers,       \* client identities
    Patches          \* bodies of PATCH .../state: partial functions on StateFields

VARIABLES
    projects,        \* PROJECT rows
    states,          \* STATE rows
    activities,      \* activity rows, by project and event id
    corpus,          \* what a replay of the section's events yields
    used,            \* project ids handed out
    saver,           \* history: whose put of the STATE row was the last
    tainted          \* history: projects that a collision or a crash has touched

projectVars == <<projects, states, activities, corpus, used, saver, tainted>>

-----------------------------------------------------------------------------
(* Rows *)

SectionStatuses == {"draft", "in_review", "approved"}
ScenarioStatuses == {"draft", "computed", "review", "accepted", "rejected"}

\* models/zoning_scenario.py: the statuses under which the proposed facts may
\* be the basis of the analysis.
ProposedBasisStatuses == {"computed", "review", "accepted"}

Sections == [body: Bodies, status: SectionStatuses, client: Customers \cup {None}]

\* Which image URLs a parcel carries: the captured thumbnail of the live map
\* and the static basemap.
Parcels == [captured: BOOLEAN, basemap: BOOLEAN]

\* At most one scenario per project; scenario is its status.
ZoningStates == [basis: {"baseline", "proposed"}, active: BOOLEAN,
                 scenario: ScenarioStatuses \cup {None}]

StateFields == {"section", "parcel", "zoning"}

ProjectStates == [section: Sections, parcel: Parcels \cup {None},
                  zoning: ZoningStates \cup {None}]

Images == {"captured", "basemap"}

ProjectRows == [image: Images \cup {None}]

ActivityRows == [type: {"project_created", "note_added"},
                 author: Authors \cup {None}, text: Bodies \cup {None}]

\* A patch is of fields of the state and has been validated, but for the
\* validators that look at the whole scenario (ValidZoning).
ASSUME ProjectsAssumption ==
    /\ NoBody \in Bodies
    /\ \A patch \in Patches :
        /\ "section" \in DOMAIN patch => patch.section \in Sections
        /\ "parcel" \in DOMAIN patch => patch.parcel \in Parcels \cup {None}
        /\ "zoning" \in DOMAIN patch => patch.zoning \in ZoningStates \cup {None}
    /\ None \notin Parcels \cup ZoningStates \cup ProjectStates \cup ProjectRows
                    \cup ActivityRows \cup Slots
                    \cup {"edit", "approve", "reopen"}

CreatedEvent == "project_created"   \* stands for the fresh id of that event

NewState(c) == [section |-> [body |-> NoBody, status |-> "draft", client |-> c],
                parcel |-> None, zoning |-> None]

NoEvents == [e \in EventIds \cup {CreatedEvent} |-> None]

\* No event yet: a reader of the corpus sees an empty, unapproved section.
EmptyTrajectory == [text |-> NoBody, approved |-> FALSE, alternates |-> TRUE]

ProjectsInit ==
    /\ projects = [p \in ProjectIds |-> None]
    /\ states = [p \in ProjectIds |-> None]
    /\ activities = [p \in ProjectIds |-> NoEvents]
    /\ corpus = [p \in ProjectIds |-> EmptyTrajectory]
    /\ used = {}
    /\ saver = [p \in ProjectIds |-> None]
    /\ tainted = {}

\* The validators of ZoningScenarioState, run on every load and every patch.
ValidZoning(z) ==
    z # None /\ z.basis = "proposed" =>
        z.active /\ z.scenario \in ProposedBasisStatuses

-----------------------------------------------------------------------------
(* Pure parts of the handlers *)

\* _parcel_image_url_from_state: the captured thumbnail wins.
ImageOf(parcel) ==
    CASE parcel = None -> None
      [] parcel # None /\ parcel.captured -> "captured"
      [] parcel # None /\ ~parcel.captured /\ parcel.basemap -> "basemap"
      [] OTHER -> None

\* _sync_project_meta_from_state: a parcel without usable image clears the
\* thumbnail, no parcel leaves it.
SyncedMeta(row, state) ==
    [row EXCEPT !.image = IF state.parcel = None THEN @ ELSE ImageOf(state.parcel)]

\* _merge_project_state: the fields that the patch sets, the stored ones else.
Merge(state, patch) ==
    [f \in StateFields |-> IF f \in DOMAIN patch THEN patch[f] ELSE state[f]]

\* _compact_state_for_storage: of the fields kept here only the parcel has
\* something to drop, the captured thumbnail.
Compact(state) ==
    [state EXCEPT !.parcel = IF @ = None THEN None ELSE [@ EXCEPT !.captured = FALSE]]

\* Broken: the compute leaves the status of the scenario to be set later.
ComputedAsDraft(z) == [z EXCEPT !.active = TRUE, !.scenario = "draft"]

\* compute_zoning_scenario as the route sees it.
Computed(z) == [z EXCEPT !.active = TRUE, !.scenario = "computed"]

\* Broken: a section that is changed while approved is captured as an edit.
TransitionWithoutReopen(old, new) ==
    CASE new.status = "approved" /\ old.status # "approved" -> "approve"
      [] new.body # old.body /\ new.status # "approved" -> "edit"
      [] OTHER -> None

\* capture_section_transitions: the event, if any, of one saved section.
Transition(old, new) ==
    CASE new.status = "approved" /\ old.status # "approved" -> "approve"
      [] old.status = "approved" /\ new.status # "approved" -> "reopen"
      [] new.body # old.body /\ (new.status = "approved" <=> old.status = "approved") -> "edit"
      [] OTHER -> None

\* What a reader of the corpus knows after one more event.
Replay(trajectory, event, body) ==
    CASE event = None -> trajectory
      [] event = "edit" -> [trajectory EXCEPT !.text = body]
      [] event = "approve" ->
            [text |-> body, approved |-> TRUE,
             alternates |-> trajectory.alternates /\ ~trajectory.approved]
      [] event = "reopen" ->
            [text |-> body, approved |-> FALSE,
             alternates |-> trajectory.alternates /\ trajectory.approved]

\* A write that no longer fits what the handler has read: another request got
\* between.  Nothing in the code notices it.
Overtaken(p, collided) == tainted' = IF collided THEN tainted \cup {p} ELSE tainted

-----------------------------------------------------------------------------
(* create_project *)

\* POST .../projects up to the put of the PROJECT row; c is the client row
\* that the request names, None without one.
CreateProject(s, p, c) ==
    /\ p \notin used
    /\ Begin(s, [at |-> "create.state", p |-> p, state |-> NewState(c)])
    /\ used' = used \cup {p}
    /\ projects' = [projects EXCEPT ![p] = [image |-> None]]
    /\ UNCHANGED <<states, activities, corpus, saver, tainted>>

\* put_project_state of the new project.
CreateState(s) ==
    LET p == req[s].p IN
    /\ At(s, "create.state")
    /\ saver' = [saver EXCEPT ![p] = s]
    /\ states' = [states EXCEPT ![p] = req[s].state]
    /\ Overtaken(p, projects[p] = None)
    /\ Become(s, [at |-> "record.check", p |-> p, e |-> CreatedEvent,
                  row |-> [type |-> "project_created", author |-> None, text |-> None]])
    /\ UNCHANGED <<projects, activities, corpus, used>>

(* record_project_activity, also the end of create_project_activity *)

\* No activity without a project; the handler raises.
RecordRefused(s) ==
    /\ At(s, "record.check") /\ projects[req[s].p] = None
    /\ Return(s)
    /\ UNCHANGED projectVars

CheckProjectOfActivity(s) ==
    /\ At(s, "record.check") /\ projects[req[s].p] # None
    /\ Goto(s, "record.put")
    /\ UNCHANGED projectVars

PutActivity(s) ==
    LET p == req[s].p IN
    /\ At(s, "record.put")
    /\ activities' = [activities EXCEPT ![p][req[s].e] = req[s].row]
    /\ Overtaken(p, projects[p] = None)
    /\ Return(s)
    /\ UNCHANGED <<projects, states, corpus, used, saver>>

\* create_project_activity: an event id that exists already is the answer.
CreateNote(s, p, e, u, b) ==
    /\ activities[p][e] = None
    /\ Begin(s, [at |-> "record.check", p |-> p, e |-> e,
                 row |-> [type |-> "note_added", author |-> u, text |-> b]])
    /\ UNCHANGED projectVars

\* Who may touch a note: its author, or an administrator of the tenant.
MayTouch(row, u, admin) ==
    row # None /\ row.type = "note_added" /\ (row.author = u \/ admin)

\* update_project_activity reads the row; the route does not look for the project.
UpdateNote(s, p, e, u, admin, b) ==
    /\ MayTouch(activities[p][e], u, admin)
    /\ Begin(s, [at |-> "note.put", p |-> p, e |-> e, read |-> activities[p][e], text |-> b])
    /\ UNCHANGED projectVars

PutNote(s) ==
    LET p == req[s].p  e == req[s].e IN
    /\ At(s, "note.put")
    /\ activities' = [activities EXCEPT ![p][e] = [req[s].read EXCEPT !.text = req[s].text]]
    /\ Overtaken(p, activities[p][e] # req[s].read)
    /\ Return(s)
    /\ UNCHANGED <<projects, states, corpus, used, saver>>

DeleteNote(s, p, e, u, admin) ==
    /\ MayTouch(activities[p][e], u, admin)
    /\ Begin(s, [at |-> "note.delete", p |-> p, e |-> e])
    /\ UNCHANGED projectVars

RemoveNote(s) ==
    /\ At(s, "note.delete")
    /\ activities' = [activities EXCEPT ![req[s].p][req[s].e] = None]
    /\ Return(s)
    /\ UNCHANGED <<projects, states, corpus, used, saver, tainted>>

-----------------------------------------------------------------------------
(* update_project *)

\* PATCH .../projects/{id}: reads the row; c is the client that is chosen, or
\* None when the patch chooses none or one that does not exist.
UpdateProject(s, p, c) ==
    /\ projects[p] # None
    /\ Begin(s, [at |-> "update.put", p |-> p, read |-> projects[p], client |-> c])
    /\ UNCHANGED projectVars

UpdatePut(s) ==
    LET p == req[s].p IN
    /\ At(s, "update.put")
    /\ projects' = [projects EXCEPT ![p] = req[s].read]
    /\ Overtaken(p, projects[p] # req[s].read)
    /\ IF req[s].client = None THEN Return(s) ELSE Goto(s, "sync.read")
    /\ UNCHANGED <<states, activities, corpus, used, saver>>

\* The client's identity is copied into the sections of the state.
SyncRead(s) ==
    LET p == req[s].p IN
    /\ At(s, "sync.read")
    /\ IF states[p] = None THEN Return(s)
       ELSE Become(s, [at |-> "sync.put", p |-> p, read |-> states[p],
                       client |-> req[s].client])
    /\ UNCHANGED projectVars

SyncPut(s) ==
    LET p == req[s].p IN
    /\ At(s, "sync.put")
    /\ saver' = [saver EXCEPT ![p] = s]
    /\ states' = [states EXCEPT
            ![p] = [req[s].read EXCEPT !.section.client = req[s].client]]
    /\ Overtaken(p, states[p] # req[s].read)
    /\ Return(s)
    /\ UNCHANGED <<projects, activities, corpus, used>>

-----------------------------------------------------------------------------
(* delete_project: the rows go one by one *)

DeleteProject(s, p) ==
    /\ projects[p] # None
    /\ Begin(s, [at |-> "delete.project", p |-> p])
    /\ UNCHANGED projectVars

DeleteProjectRow(s) ==
    /\ At(s, "delete.project")
    /\ projects' = [projects EXCEPT ![req[s].p] = None]
    /\ Goto(s, "delete.state")
    /\ UNCHANGED <<states, activities, corpus, used, saver, tainted>>

DeleteStateRow(s) ==
    /\ At(s, "delete.state")
    /\ states' = [states EXCEPT ![req[s].p] = None]
    /\ Goto(s, "delete.query")
    /\ UNCHANGED <<projects, activities, corpus, used, saver, tainted>>

\* Broken: the rows of the timeline stay behind.
QueryNoActivities(s) ==
    /\ At(s, "delete.query")
    /\ Return(s)
    /\ UNCHANGED projectVars

\* The activity rows that the query finds are the ones that are deleted.
QueryActivities(s) ==
    LET p == req[s].p IN
    /\ At(s, "delete.query")
    /\ Become(s, [at |-> "delete.activities", p |-> p,
                  rows |-> {e \in DOMAIN activities[p] : activities[p][e] # None}])
    /\ UNCHANGED projectVars

DeleteActivityRow(s) ==
    LET p == req[s].p IN
    /\ At(s, "delete.activities")
    /\ IF req[s].rows = {}
       THEN Return(s) /\ UNCHANGED activities
       ELSE \E e \in req[s].rows :
                /\ activities' = [activities EXCEPT ![p][e] = None]
                /\ Become(s, [req[s] EXCEPT !.rows = @ \ {e}])
    /\ UNCHANGED <<projects, states, corpus, used, saver, tainted>>

-----------------------------------------------------------------------------
(* patch_project_state *)

\* PATCH .../state: reads the state and merges the patch; a merge that does
\* not validate is answered with 400 and changes nothing.
PatchState(s, p, patch) ==
    /\ states[p] # None
    /\ ValidZoning(Merge(states[p], patch).zoning)
    /\ Begin(s, [at |-> "patch.project", p |-> p, read |-> states[p], patch |-> patch])
    /\ UNCHANGED projectVars

Merged(s) == Merge(req[s].read, req[s].patch)

\* get_project; the save goes on without a project row.
PatchReadProject(s) ==
    LET p == req[s].p IN
    /\ At(s, "patch.project")
    /\ IF projects[p] = None
       THEN Goto(s, "patch.put")
       ELSE Become(s, [at |-> "patch.meta", p |-> p, read |-> req[s].read,
                       patch |-> req[s].patch, row |-> projects[p]])
    /\ UNCHANGED projectVars

\* The list thumbnail follows the merged state.
PatchPutProject(s) ==
    LET p == req[s].p IN
    /\ At(s, "patch.meta")
    /\ projects' = [projects EXCEPT ![p] = SyncedMeta(req[s].row, Merged(s))]
    /\ Overtaken(p, projects[p] # req[s].row)
    /\ Become(s, [at |-> "patch.put", p |-> p, read |-> req[s].read, patch |-> req[s].patch])
    /\ UNCHANGED <<states, activities, corpus, used, saver>>

PatchPutState(s) ==
    LET p == req[s].p IN
    /\ At(s, "patch.put")
    /\ saver' = [saver EXCEPT ![p] = s]
    /\ states' = [states EXCEPT ![p] = Compact(Merged(s))]
    /\ Overtaken(p, states[p] # req[s].read)
    /\ Goto(s, "patch.capture")
    /\ UNCHANGED <<projects, activities, corpus, used>>

\* The put may exceed DynamoDB's item limit; the project row is saved already.
PatchTooLarge(s) ==
    /\ At(s, "patch.put")
    /\ Return(s)
    /\ tainted' = tainted \cup {req[s].p}
    /\ UNCHANGED <<projects, states, activities, corpus, used, saver>>

\* _put_event: best effort, so that an event may be lost.
PutEvent(p, event, body, collided) ==
    \/ /\ corpus' = [corpus EXCEPT ![p] = Replay(@, event, body)]
       /\ Overtaken(p, collided)
    \/ /\ event # None
       /\ Overtaken(p, TRUE)
       /\ UNCHANGED corpus

\* One event for a changed section.
Capture(s) ==
    LET p == req[s].p
        old == req[s].read.section
        new == Merged(s).section
    IN  /\ At(s, "patch.capture")
        /\ PutEvent(p, Transition(old, new), new.body, saver[p] # s)
        /\ Return(s)
        /\ UNCHANGED <<projects, states, activities, used, saver>>

-----------------------------------------------------------------------------
(* POST .../zoning-scenarios/{id}/compute *)

\* Reads the state; the corpus service is asked for up to 30 s per call.
ComputeZoning(s, p) ==
    /\ states[p] # None /\ states[p].zoning # None
    /\ states[p].zoning.scenario # None
    /\ Begin(s, [at |-> "compute.put", p |-> p, read |-> states[p]])
    /\ UNCHANGED projectVars

\* The whole state that was read goes back, with the computed scenario.
ComputePut(s) ==
    LET p == req[s].p IN
    /\ At(s, "compute.put")
    /\ saver' = [saver EXCEPT ![p] = s]
    /\ states' = [states EXCEPT ![p] = [req[s].read EXCEPT !.zoning = Computed(@)]]
    /\ Overtaken(p, states[p] # req[s].read)
    /\ Return(s)
    /\ UNCHANGED <<projects, activities, corpus, used>>

-----------------------------------------------------------------------------
\* Steps at which a handler has written some of its rows and not all.
HalfDone == {"create.state", "record.check", "record.put", "delete.state",
             "delete.query", "delete.activities", "patch.put", "patch.capture"}

ProjectSteps == HalfDone \cup {"note.put", "note.delete", "update.put", "sync.read",
                               "sync.put", "delete.project", "patch.project",
                               "patch.meta", "compute.put"}

\* The handler dies, or a call it makes raises.
AbortProjectRequest(s) ==
    /\ req[s].at \in ProjectSteps
    /\ Return(s)
    /\ tainted' = IF req[s].at \in HalfDone THEN tainted \cup {req[s].p} ELSE tainted
    /\ UNCHANGED <<projects, states, activities, corpus, used, saver>>

LifeRequest(s, p) == CreateProject(s, p, None) \/ DeleteProject(s, p)

ClientRequest(s, p) ==
    \E c \in Customers \cup {None} : CreateProject(s, p, c) \/ UpdateProject(s, p, c)

DocumentRequest(s, p, patches) ==
    \/ \E patch \in patches : PatchState(s, p, patch)
    \/ ComputeZoning(s, p)

NoteRequest(s, p) ==
    \E e \in EventIds, u \in Authors :
        \/ \E b \in Bodies : CreateNote(s, p, e, u, b)
        \/ \E admin \in BOOLEAN :
            \/ \E b \in Bodies : UpdateNote(s, p, e, u, admin, b)
            \/ DeleteNote(s, p, e, u, admin)

ProjectStep(s) ==
    \/ CreateState(s) \/ RecordRefused(s) \/ CheckProjectOfActivity(s) \/ PutActivity(s)
    \/ PutNote(s) \/ RemoveNote(s)
    \/ UpdatePut(s) \/ SyncRead(s) \/ SyncPut(s)
    \/ DeleteProjectRow(s) \/ DeleteStateRow(s) \/ QueryActivities(s) \/ DeleteActivityRow(s)
    \/ PatchReadProject(s) \/ PatchPutProject(s) \/ PatchPutState(s) \/ PatchTooLarge(s)
    \/ Capture(s) \/ ComputePut(s)

ProjectsNext ==
    \E s \in Slots :
        \/ \E p \in ProjectIds : \/ LifeRequest(s, p)
                                 \/ ClientRequest(s, p)
                                 \/ DocumentRequest(s, p, Patches)
                                 \/ NoteRequest(s, p)
        \/ ProjectStep(s)
        \/ AbortProjectRequest(s)

-----------------------------------------------------------------------------
(* Properties *)

Untouched(p) ==
    p \notin tainted /\ \A s \in Slots : "p" \in DOMAIN req[s] => req[s].p # p

\* Unless requests collided on a project or died half way, its rows come and
\* go together: a PROJECT row has its STATE row, and nothing is left of a
\* project that is gone (create_project, delete_project, and the saves and
\* notes that run at the same time).
RowsAgree ==
    \A p \in ProjectIds : Untouched(p) =>
        /\ projects[p] = None <=> states[p] = None
        /\ projects[p] = None => activities[p] = NoEvents

\* agent_corpus.py: "a prefix listing replays the whole trajectory in order".
\* Unless requests collided or an event was lost, the replay ends at the text
\* and the approval that are stored, and approvals and reopenings alternate.
CorpusReplaysSection ==
    \A p \in ProjectIds : Untouched(p) /\ states[p] # None =>
        LET section == states[p].section IN
        corpus[p] = [text |-> section.body, approved |-> section.status = "approved",
                     alternates |-> TRUE]

\* Every state that is stored can be loaded again: ProjectState.model_validate
\* accepts its zoning scenario, also the one the compute wrote with model_copy,
\* which does not validate.
StoredStatesLoad ==
    \A p \in ProjectIds : states[p] # None => ValidZoning(states[p].zoning)

\* project.py prefers "a captured listThumbnailUrl (live map + boundary) over
\* the static Mapbox basemap URL": a save that carries no parcel leaves the
\* captured thumbnail of the list alone.
CapturedThumbnailStays ==
    [][\A p \in ProjectIds, s \in Slots :
        /\ At(s, "patch.meta") /\ req[s].p = p /\ "parcel" \notin DOMAIN req[s].patch
        /\ projects[p] # None /\ projects'[p] # projects[p]
        => projects[p].image # "captured"]_projects
=============================================================================
