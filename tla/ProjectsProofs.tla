--------------------------- MODULE ProjectsProofs ---------------------------
(***************************************************************************)
(* An inductive invariant of the projects: what the handlers know of a     *)
(* project, and how its rows and its corpus agree while requests on it are *)
(* under way.  It is kept by every step of every request that the control  *)
(* plane makes of Projects; ControlPlaneProofs concludes that it holds.    *)
(***************************************************************************)
EXTENDS Projects, TLAPS

(***************************************************************************)
(* Types: a handler is where it is and what it has read                    *)
(***************************************************************************)
Events == EventIds \cup {CreatedEvent}
ClientChoices == Customers \cup {None}
NewStates == {NewState(c) : c \in ClientChoices}

CreateHandlers == [at : {"create.state"}, p : ProjectIds, state : NewStates]
RecordHandlers == [at : {"record.check", "record.put"}, p : ProjectIds, e : Events,
                   row : ActivityRows]
NotePutHandlers == [at : {"note.put"}, p : ProjectIds, e : Events, read : ActivityRows,
                    text : Bodies]
NoteDeleteHandlers == [at : {"note.delete"}, p : ProjectIds, e : Events]
UpdateHandlers == [at : {"update.put", "sync.read"}, p : ProjectIds, read : ProjectRows,
                   client : ClientChoices]
SyncHandlers == [at : {"sync.put"}, p : ProjectIds, read : ProjectStates, client : ClientChoices]
DeleteHandlers == [at : {"delete.project", "delete.state", "delete.query"}, p : ProjectIds]
SweepHandlers == [at : {"delete.activities"}, p : ProjectIds, rows : SUBSET Events]
PatchHandlers == [at : {"patch.project", "patch.put", "patch.capture"}, p : ProjectIds,
                  read : ProjectStates, patch : Patches]
PatchMetaHandlers == [at : {"patch.meta"}, p : ProjectIds, read : ProjectStates,
                      patch : Patches, row : ProjectRows]
ComputeHandlers == [at : {"compute.put"}, p : ProjectIds, read : ProjectStates]

ProjectHandlers ==
    {Idle} \cup CreateHandlers \cup RecordHandlers \cup NotePutHandlers
    \cup NoteDeleteHandlers \cup UpdateHandlers \cup SyncHandlers \cup DeleteHandlers
    \cup SweepHandlers \cup PatchHandlers \cup PatchMetaHandlers \cup ComputeHandlers

Trajectories == [text : Bodies, approved : BOOLEAN, alternates : BOOLEAN]

ProjectsType ==
    /\ req \in [Slots -> ProjectHandlers]
    /\ projects \in [ProjectIds -> ProjectRows \cup {None}]
    /\ states \in [ProjectIds -> ProjectStates \cup {None}]
    /\ activities \in [ProjectIds -> [Events -> ActivityRows \cup {None}]]
    /\ corpus \in [ProjectIds -> Trajectories]
    /\ used \subseteq ProjectIds
    /\ saver \in [ProjectIds -> Slots \cup {None}]
    /\ tainted \subseteq ProjectIds

(***************************************************************************)
(* The states that are about to be stored                                  *)
(***************************************************************************)
SaveSteps == {"patch.project", "patch.meta", "patch.put", "patch.capture"}
StateWriters == SaveSteps \cup {"sync.put", "compute.put"}

\* What the handler r is about to store can be loaded again.
LoadsAgain(r) ==
    /\ r.at = "sync.put" => ValidZoning(r.read.zoning)
    /\ r.at = "compute.put" => r.read.zoning # None
    /\ r.at \in SaveSteps => ValidZoning(Merge(r.read, r.patch).zoning)

StatesLoad == StoredStatesLoad /\ \A s \in Slots : LoadsAgain(req[s])

(***************************************************************************)
(* The rows of a project                                                   *)
(***************************************************************************)
\* The handler r is at one of the steps ats of project p.
Does(r, p, ats) == r.at \in ats /\ r.p = p

Removals == {"delete.state", "delete.query", "delete.activities"}

\* Nothing is stored of a project that is not made yet, or only its row.
UnusedIsEmpty(p) ==
    p \notin used =>
        /\ projects[p] = None
        /\ \A s \in Slots : ~Does(req[s], p, {"create.state", "update.put", "delete.project"}
                                      \cup Removals)

NoStateYet(p) ==
    p \notin used \/ (\E s \in Slots : Does(req[s], p, {"create.state"})) =>
        /\ states[p] = None /\ corpus[p] = EmptyTrajectory
        /\ \A s \in Slots : ~Does(req[s], p, StateWriters)

OneCreator(p) ==
    \A s, t \in Slots :
        Does(req[s], p, {"create.state"}) /\ Does(req[t], p, {"create.state"}) => s = t

\* A handler will still delete the activity row e of p.
WillSweep(r, p, e) ==
    \/ Does(r, p, {"delete.state", "delete.query"})
    \/ Does(r, p, {"delete.activities"}) /\ e \in r.rows

\* The rows of a project disagree only while a handler that makes or deletes it
\* is on its way to put that right.
RowsAreTended(p) ==
    /\ \A s \in Slots : Does(req[s], p, Removals) => projects[p] = None
    /\ projects[p] = None /\ states[p] # None =>
            \E s \in Slots : Does(req[s], p, {"delete.state"})
    /\ projects[p] # None /\ states[p] = None =>
            \E s \in Slots : Does(req[s], p, {"create.state"})
    /\ projects[p] = None =>
            \A e \in Events : activities[p][e] # None =>
                \E s \in Slots : WillSweep(req[s], p, e)

(***************************************************************************)
(* The corpus of a project                                                 *)
(***************************************************************************)
\* What a reader of the corpus should know of a section.
Trajectory(section) ==
    [text |-> section.body, approved |-> section.status = "approved", alternates |-> TRUE]

\* The save of handler r is in the state of p and its event is still to come.
Capturing(r, p) == Does(r, p, {"patch.capture"})

\* Someone else has put the state since the save that r has to tell of.
Doomed(p) == \E s \in Slots : Capturing(req[s], p) /\ saver[p] # s

SameText(section, other) == section.body = other.body /\ section.status = other.status

CorpusIsTold(p) ==
    ~Doomed(p) /\ states[p] # None =>
        /\ \A s \in Slots : Capturing(req[s], p) =>
            /\ corpus[p] = Trajectory(req[s].read.section)
            /\ SameText(states[p].section, Merge(req[s].read, req[s].patch).section)
        /\ (\A s \in Slots : ~Capturing(req[s], p)) =>
            corpus[p] = Trajectory(states[p].section)

-----------------------------------------------------------------------------
ProjectKept(p) ==
    /\ UnusedIsEmpty(p) /\ NoStateYet(p) /\ OneCreator(p)
    /\ p \notin tainted => RowsAreTended(p) /\ CorpusIsTold(p)

ProjectsInv == ProjectsType /\ StatesLoad /\ \A p \in ProjectIds : ProjectKept(p)

-----------------------------------------------------------------------------
(* Handlers *)

\* What a handler knows is told by the step it is at.
LEMMA HandlersKnow ==
    ASSUME ProjectsType, NEW s \in Slots
    PROVE  /\ At(s, "create.state") => req[s] \in CreateHandlers
           /\ At(s, "record.check") \/ At(s, "record.put") => req[s] \in RecordHandlers
           /\ At(s, "note.put") => req[s] \in NotePutHandlers
           /\ At(s, "note.delete") => req[s] \in NoteDeleteHandlers
           /\ At(s, "update.put") \/ At(s, "sync.read") => req[s] \in UpdateHandlers
           /\ At(s, "sync.put") => req[s] \in SyncHandlers
           /\ At(s, "delete.project") \/ At(s, "delete.state") \/ At(s, "delete.query")
                => req[s] \in DeleteHandlers
           /\ At(s, "delete.activities") => req[s] \in SweepHandlers
           /\ At(s, "patch.project") \/ At(s, "patch.put") \/ At(s, "patch.capture")
                => req[s] \in PatchHandlers
           /\ At(s, "patch.meta") => req[s] \in PatchMetaHandlers
           /\ At(s, "compute.put") => req[s] \in ComputeHandlers
           /\ ~At(s, "idle") => req[s].p \in ProjectIds /\ "p" \in DOMAIN req[s]
<1>1. req[s] \in ProjectHandlers
  BY DEF ProjectsType
<1> QED
  BY <1>1 DEF At, Idle, ProjectHandlers, CreateHandlers, RecordHandlers, NotePutHandlers,
     NoteDeleteHandlers, UpdateHandlers, SyncHandlers, DeleteHandlers, SweepHandlers,
     PatchHandlers, PatchMetaHandlers, ComputeHandlers

\* A step moves one handler.
LEMMA ProjectMoves ==
    ASSUME ProjectsType, NEW s \in Slots, NEW n \in ProjectHandlers, Become(s, n)
    PROVE  /\ req' \in [Slots -> ProjectHandlers]
           /\ req'[s] = n
           /\ \A t \in Slots \ {s} : req'[t] = req[t]
BY DEF ProjectsType, Become

\* The handler r has to do with project p.
About(r, p) == r.at # "idle" /\ r.p = p

\* Nothing that is stored or known of project p changes.
Same(p) ==
    /\ projects'[p] = projects[p] /\ states'[p] = states[p]
    /\ activities'[p] = activities[p] /\ corpus'[p] = corpus[p]
    /\ saver'[p] = saver[p]
    /\ p \in used' <=> p \in used
    /\ p \in tainted' <=> p \in tainted

\* A step of a handler of another project does not matter.
LEMMA OtherProjects ==
    ASSUME ProjectsType, NEW s \in Slots, NEW n \in ProjectHandlers, Become(s, n),
           NEW p \in ProjectIds, ProjectKept(p), Same(p), ~About(req[s], p), ~About(n, p)
    PROVE  ProjectKept(p)'
<1>1. req'[s] = n /\ \A t \in Slots \ {s} : req'[t] = req[t]
  BY ProjectMoves
<1> DEFINE Steps == {"create.state", "update.put", "delete.project"} \cup Removals \cup StateWriters
<1>2. \A ats \in SUBSET Steps, t \in Slots : Does(req'[t], p, ats) <=> Does(req[t], p, ats)
  BY <1>1 DEF About, Does, Removals, StateWriters, SaveSteps
<1>3. UnusedIsEmpty(p)'
  BY <1>2 DEF ProjectKept, UnusedIsEmpty, Same
<1>4. NoStateYet(p)'
  BY <1>2 DEF ProjectKept, NoStateYet, Same
<1>5. OneCreator(p)'
  BY <1>2 DEF ProjectKept, OneCreator
<1>6. ASSUME p \notin tainted' PROVE RowsAreTended(p)'
  <2>1. RowsAreTended(p)
    BY <1>6 DEF ProjectKept, Same
  <2>2. \A t \in Slots, e \in Events : WillSweep(req'[t], p, e) <=> WillSweep(req[t], p, e)
    BY <1>1 DEF WillSweep, About, Does
  <2> QED BY <1>2, <2>1, <2>2 DEF RowsAreTended, Same, Removals
<1>7. ASSUME p \notin tainted' PROVE CorpusIsTold(p)'
  <2>1. CorpusIsTold(p)
    BY <1>7 DEF ProjectKept, Same
  <2>2. \A t \in Slots : /\ Capturing(req'[t], p) <=> Capturing(req[t], p)
                         /\ Capturing(req[t], p) => req'[t] = req[t]
    BY <1>1 DEF Capturing, About, Does
  <2>3. Doomed(p)' <=> Doomed(p)
    BY <2>2 DEF Doomed, Same
  <2> QED BY <2>1, <2>2, <2>3 DEF CorpusIsTold, Same
<1> QED BY <1>3, <1>4, <1>5, <1>6, <1>7 DEF ProjectKept

\* Of the steps of one project only the project itself has to be looked at.
LEMMA OneProject ==
    ASSUME ProjectsInv, NEW s \in Slots, NEW n \in ProjectHandlers, Become(s, n),
           LoadsAgain(n), NEW p \in ProjectIds, About(req[s], p) \/ At(s, "idle"),
           About(n, p) \/ n.at = "idle", \A q \in ProjectIds \ {p} : Same(q), ProjectsType',
           states'[p] # None => states'[p] = states[p] \/ ValidZoning(states'[p].zoning),
           ProjectKept(p)'
    PROVE  ProjectsInv'
<1>1. ASSUME NEW q \in ProjectIds \ {p} PROVE ProjectKept(q)'
  <2>1. Same(q) /\ ProjectKept(q) /\ ProjectsType
    BY DEF ProjectsInv
  <2>2. ~About(req[s], q) /\ ~About(n, q)
    BY DEF About, At
  <2> QED BY <2>1, <2>2, OtherProjects
<1>2. \A q \in ProjectIds : states'[q] # None => ValidZoning(states'[q].zoning)
  BY DEF ProjectsInv, StatesLoad, StoredStatesLoad, Same
<1>3. \A t \in Slots : LoadsAgain(req'[t])
  BY ProjectMoves DEF ProjectsInv, StatesLoad
<1>4. StatesLoad'
  BY <1>2, <1>3 DEF StatesLoad, StoredStatesLoad, LoadsAgain
<1> QED BY <1>1, <1>4 DEF ProjectsInv

\* The steps that the rows of a project or its corpus wait for.
Awaited == {"create.state", "patch.capture"} \cup Removals

\* Most steps are not awaited, leave the state and the corpus alone and put a
\* row only where there was one, unless a collision is noted.
LEMMA OrdinaryStep ==
    ASSUME ProjectsInv, NEW s \in Slots, NEW n \in ProjectHandlers, Become(s, n), LoadsAgain(n),
           UNCHANGED <<states, corpus, used, saver>>,
           projects' \in [ProjectIds -> ProjectRows \cup {None}],
           activities' \in [ProjectIds -> [Events -> ActivityRows \cup {None}]],
           tainted \subseteq tainted', tainted' \subseteq ProjectIds,
           \A p \in ProjectIds : projects'[p] # None => projects[p] # None \/ p \in used,
           \A p \in ProjectIds \ tainted' : projects'[p] = None <=> projects[p] = None,
           \A p \in ProjectIds \ tainted', e \in Events :
                activities'[p][e] # None => activities[p][e] # None \/ projects[p] # None,
           req[s].at \in Awaited => req[s].p \in tainted',
           n.at \notin Awaited,
           n.at \in {"update.put", "delete.project"} => n.p \in used \/ projects[n.p] # None,
           n.at \in StateWriters =>
                states[n.p] # None \/ (req[s].at \in StateWriters /\ req[s].p = n.p)
    PROVE  ProjectsInv'
<1>1. /\ ProjectsType
      /\ req' \in [Slots -> ProjectHandlers]
      /\ req'[s] = n /\ \A t \in Slots \ {s} : req'[t] = req[t]
  BY ProjectMoves DEF ProjectsInv
<1>2. ProjectsType'
  BY <1>1 DEF ProjectsType
<1>3. StatesLoad'
  BY <1>1 DEF ProjectsInv, StatesLoad, StoredStatesLoad, LoadsAgain
<1>4. ASSUME NEW p \in ProjectIds PROVE ProjectKept(p)'
  <2>1. ProjectKept(p)
    BY DEF ProjectsInv
  <2>2. UnusedIsEmpty(p)'
    BY <1>1, <2>1 DEF ProjectKept, UnusedIsEmpty, Does, Awaited, Removals
  <2>3. NoStateYet(p)'
    BY <1>1, <2>1 DEF ProjectKept, NoStateYet, Does, Awaited
  <2>4. OneCreator(p)'
    BY <1>1, <2>1 DEF ProjectKept, OneCreator, Does, Awaited
  <2>5. ASSUME p \notin tainted' PROVE RowsAreTended(p)'
    <3>1. RowsAreTended(p) /\ p \notin tainted
      BY <2>1, <2>5 DEF ProjectKept
    <3>2. \A t \in Slots, a \in Awaited : Does(req'[t], p, {a}) <=> Does(req[t], p, {a})
      BY <1>1, <2>5 DEF Does
    <3>3. \A t \in Slots : /\ Does(req'[t], p, Removals) <=> Does(req[t], p, Removals)
                           /\ Does(req'[t], p, {"delete.state"})
                                <=> Does(req[t], p, {"delete.state"})
                           /\ Does(req'[t], p, {"create.state"})
                                <=> Does(req[t], p, {"create.state"})
      BY <3>2 DEF Does, Removals, Awaited
    <3>4. \A t \in Slots, e \in Events : WillSweep(req'[t], p, e) <=> WillSweep(req[t], p, e)
      BY <1>1, <2>5 DEF WillSweep, Does, Awaited, Removals
    <3>5. projects'[p] = None <=> projects[p] = None
      BY <2>5
    <3> QED BY <2>5, <3>1, <3>3, <3>4, <3>5 DEF RowsAreTended
  <2>6. ASSUME p \notin tainted' PROVE CorpusIsTold(p)'
    <3>1. CorpusIsTold(p) /\ p \notin tainted
      BY <2>1, <2>6 DEF ProjectKept
    <3>2. \A t \in Slots : /\ Capturing(req'[t], p) <=> Capturing(req[t], p)
                           /\ Capturing(req[t], p) => req'[t] = req[t]
      BY <1>1, <2>6 DEF Capturing, Does, Awaited
    <3>3. Doomed(p)' <=> Doomed(p)
      BY <3>2 DEF Doomed
    <3> QED BY <3>1, <3>2, <3>3 DEF CorpusIsTold
  <2> QED BY <2>2, <2>3, <2>4, <2>5, <2>6 DEF ProjectKept
<1> QED BY <1>2, <1>3, <1>4 DEF ProjectsInv

-----------------------------------------------------------------------------
(* Data *)

\* A merge of a valid patch is a state.
LEMMA MergeIsAState ==
    ASSUME NEW state \in ProjectStates, NEW patch \in Patches
    PROVE  Merge(state, patch) \in ProjectStates
<1> DEFINE merged == Merge(state, patch)
<1>1. merged = [section |-> merged.section, parcel |-> merged.parcel, zoning |-> merged.zoning]
  BY DEF Merge, StateFields
<1>2. merged.section \in Sections
  BY ProjectsAssumption DEF Merge, StateFields, ProjectStates
<1>3. merged.parcel \in Parcels \cup {None}
  BY ProjectsAssumption DEF Merge, StateFields, ProjectStates
<1>4. merged.zoning \in ZoningStates \cup {None}
  BY ProjectsAssumption DEF Merge, StateFields, ProjectStates
<1> HIDE DEF merged
<1>5. merged \in ProjectStates
  BY <1>1, <1>2, <1>3, <1>4 DEF ProjectStates
<1> QED BY <1>5 DEF merged

\* A compacted state keeps its section and its scenario.
LEMMA CompactIsAState ==
    ASSUME NEW state \in ProjectStates
    PROVE  /\ Compact(state) \in ProjectStates
           /\ Compact(state).section = state.section
           /\ Compact(state).zoning = state.zoning
BY DEF Compact, ProjectStates, Parcels

\* The thumbnail that follows a state is one.
LEMMA SyncedMetaIsARow ==
    ASSUME NEW row \in ProjectRows, NEW state
    PROVE  SyncedMeta(row, state) \in ProjectRows
<1>1. ImageOf(state.parcel) \in Images \cup {None}
  BY DEF ImageOf, Images
<1> QED BY <1>1 DEF SyncedMeta, ProjectRows

\* The event of a transition tells the reader of the old section of the new one.
LEMMA ReplayTells ==
    ASSUME NEW old \in Sections, NEW new \in Sections
    PROVE  Replay(Trajectory(old), Transition(old, new), new.body) = Trajectory(new)
<1>1. None \notin {"edit", "approve", "reopen"}
  BY ProjectsAssumption
<1>2. CASE new.status = "approved" /\ old.status # "approved"
  <2>1. Transition(old, new) = "approve"
    BY <1>2 DEF Transition
  <2> QED BY <1>1, <1>2, <2>1 DEF Replay, Trajectory
<1>3. CASE new.status # "approved" /\ old.status = "approved"
  <2>1. Transition(old, new) = "reopen"
    BY <1>3 DEF Transition
  <2> QED BY <1>1, <1>3, <2>1 DEF Replay, Trajectory
<1>4. CASE (new.status = "approved" <=> old.status = "approved") /\ new.body # old.body
  <2>1. Transition(old, new) = "edit"
    BY <1>4 DEF Transition
  <2> QED BY <1>1, <1>4, <2>1 DEF Replay, Trajectory
<1>5. CASE (new.status = "approved" <=> old.status = "approved") /\ new.body = old.body
  <2>1. Transition(old, new) = None
    BY <1>5 DEF Transition
  <2> QED BY <1>1, <1>5, <2>1 DEF Replay, Trajectory
<1> QED BY <1>2, <1>3, <1>4, <1>5

\* An event leaves a trajectory behind.
LEMMA ReplayIsATrajectory ==
    ASSUME NEW old \in Sections, NEW new \in Sections, NEW trajectory \in Trajectories
    PROVE  Replay(trajectory, Transition(old, new), new.body) \in Trajectories
<1>1. None \notin {"edit", "approve", "reopen"} /\ new.body \in Bodies
  BY ProjectsAssumption DEF Sections
<1>2. Transition(old, new) \in {None, "edit", "approve", "reopen"}
  BY DEF Transition
<1> QED BY <1>1, <1>2 DEF Replay, Trajectories

-----------------------------------------------------------------------------
(* Making a project *)

\* Without a project everything is in order.
LEMMA ProjectsInvInit ==
    ASSUME RequestsInit, ProjectsInit
    PROVE  ProjectsInv
<1>1. ProjectsType
  <2>1. EmptyTrajectory \in Trajectories
    BY ProjectsAssumption DEF EmptyTrajectory, Trajectories
  <2> QED BY <2>1 DEF RequestsInit, ProjectsInit, ProjectsType, ProjectHandlers, NoEvents, Events
<1>2. StatesLoad
  BY DEF RequestsInit, ProjectsInit, StatesLoad, StoredStatesLoad, LoadsAgain, Idle, SaveSteps
<1>3. \A s \in Slots : req[s].at = "idle"
  BY DEF RequestsInit, Idle
<1>4. ASSUME NEW p \in ProjectIds PROVE ProjectKept(p)
  <2>1. UnusedIsEmpty(p) /\ NoStateYet(p) /\ OneCreator(p)
    BY <1>3 DEF ProjectsInit, UnusedIsEmpty, NoStateYet, OneCreator, Does, Removals,
                StateWriters, SaveSteps
  <2>2. RowsAreTended(p)
    BY <1>3 DEF ProjectsInit, RowsAreTended, Does, Removals, NoEvents, Events
  <2>3. CorpusIsTold(p)
    BY DEF ProjectsInit, CorpusIsTold
  <2> QED BY <2>1, <2>2, <2>3 DEF ProjectKept
<1> QED BY <1>1, <1>2, <1>4 DEF ProjectsInv

\* The row of a new project is put; its handler owes the state.
LEMMA CreateProjectStep ==
    ASSUME ProjectsInv, NEW s \in Slots, NEW p \in ProjectIds, NEW c \in ClientChoices,
           CreateProject(s, p, c)
    PROVE  ProjectsInv'
<1>1. PICK n : n = [at |-> "create.state", p |-> p, state |-> NewState(c)]
  OBVIOUS
<1>2. /\ n \in ProjectHandlers /\ n.at = "create.state" /\ n.p = p
      /\ LoadsAgain(n) /\ About(n, p)
  BY <1>1 DEF ProjectHandlers, CreateHandlers, NewStates, LoadsAgain, SaveSteps, About
<1>3. /\ p \notin used /\ At(s, "idle") /\ Become(s, n) /\ used' = used \cup {p}
      /\ projects' = [projects EXCEPT ![p] = [image |-> None]]
      /\ UNCHANGED <<states, activities, corpus, saver, tainted>>
  BY <1>1 DEF CreateProject, Begin, Become
<1>4. /\ ProjectsType /\ ProjectKept(p) /\ req' \in [Slots -> ProjectHandlers]
      /\ req'[s] = n /\ \A t \in Slots \ {s} : req'[t] = req[t]
  BY <1>2, <1>3, ProjectMoves DEF ProjectsInv
<1>5. [image |-> None] \in ProjectRows /\ [image |-> None] # None
  BY ProjectsAssumption DEF ProjectRows
<1>6. ProjectsType' /\ projects'[p] # None
  BY <1>3, <1>4, <1>5 DEF ProjectsType
<1>7. \A q \in ProjectIds \ {p} : Same(q)
  BY <1>3, <1>4 DEF Same, ProjectsType
<1>8. /\ projects[p] = None /\ states[p] = None /\ corpus[p] = EmptyTrajectory
      /\ \A t \in Slots : /\ ~Does(req[t], p, {"create.state"} \cup Removals)
                          /\ ~Does(req[t], p, StateWriters)
  BY <1>3, <1>4 DEF ProjectKept, UnusedIsEmpty, NoStateYet, Does
<1>9. UnusedIsEmpty(p)'
  BY <1>3 DEF UnusedIsEmpty
<1>10. NoStateYet(p)'
  BY <1>2, <1>3, <1>4, <1>8 DEF NoStateYet, Does, StateWriters, SaveSteps
<1>11. OneCreator(p)'
  BY <1>4, <1>8 DEF OneCreator, Does
<1>12. RowsAreTended(p)'
  <2>1. \A t \in Slots : ~Does(req'[t], p, Removals)
    BY <1>2, <1>4, <1>8 DEF Does, Removals
  <2>2. Does(req'[s], p, {"create.state"})
    BY <1>2, <1>4 DEF Does
  <2> QED BY <1>3, <1>6, <1>8, <2>1, <2>2 DEF RowsAreTended
<1>13. CorpusIsTold(p)'
  BY <1>3, <1>8 DEF CorpusIsTold
<1>14. ProjectKept(p)'
  BY <1>9, <1>10, <1>11, <1>12, <1>13 DEF ProjectKept
<1> QED BY <1>2, <1>3, <1>6, <1>7, <1>8, <1>14, OneProject

\* The one creator of a project puts its state; a reader of the corpus expects
\* just that.
LEMMA CreateStateStep ==
    ASSUME ProjectsInv, NEW s \in Slots, CreateState(s)
    PROVE  ProjectsInv'
<1>0. PICK p \in ProjectIds : p = req[s].p
  BY HandlersKnow DEF CreateState, At, ProjectsInv
<1>1. req[s] \in CreateHandlers /\ p = req[s].p
  BY <1>0, HandlersKnow DEF CreateState, At, ProjectsInv
<1>2. PICK row : row = [type |-> "project_created", author |-> None, text |-> None]
  OBVIOUS
<1>3. PICK n : n = [at |-> "record.check", p |-> p, e |-> CreatedEvent, row |-> row]
  OBVIOUS
<1>4. /\ n \in ProjectHandlers /\ n.at = "record.check" /\ n.p = p
      /\ LoadsAgain(n) /\ About(n, p) /\ About(req[s], p)
  <2>1. row \in ActivityRows /\ CreatedEvent \in Events
    BY <1>2 DEF ActivityRows, Events
  <2> QED BY <1>1, <1>3, <2>1 DEF ProjectHandlers, RecordHandlers, LoadsAgain, SaveSteps, About,
                                  CreateHandlers
<1>5. PICK state \in NewStates : state = req[s].state
  BY <1>1 DEF CreateHandlers
<1>6. /\ Become(s, n) /\ saver' = [saver EXCEPT ![p] = s]
      /\ states' = [states EXCEPT ![p] = state]
      /\ tainted' = IF projects[p] = None THEN tainted \cup {p} ELSE tainted
      /\ UNCHANGED <<projects, activities, corpus, used>>
  BY <1>1, <1>2, <1>3, <1>5 DEF CreateState, Overtaken
<1>7. /\ ProjectsType /\ ProjectKept(p) /\ req' \in [Slots -> ProjectHandlers]
      /\ req'[s] = n /\ \A t \in Slots \ {s} : req'[t] = req[t]
  BY <1>1, <1>4, <1>6, ProjectMoves DEF ProjectsInv
<1>8. /\ state \in ProjectStates /\ state # None /\ ValidZoning(state.zoning)
      /\ Trajectory(state.section) = EmptyTrajectory
  <2>1. PICK c \in ClientChoices : state = NewState(c)
    BY DEF NewStates
  <2>2. state.section = [body |-> NoBody, status |-> "draft", client |-> c] /\ state.zoning = None
    BY <2>1 DEF NewState
  <2>3. state \in ProjectStates
    BY <2>1, ProjectsAssumption DEF NewState, ProjectStates, Sections, SectionStatuses,
       ClientChoices
  <2>4. state.section.body = NoBody /\ (state.section.status = "approved") = FALSE
    BY <2>2
  <2>5. Trajectory(state.section) = EmptyTrajectory
    BY <2>4, Zenon DEF Trajectory, EmptyTrajectory
  <2>6. state # None /\ ValidZoning(state.zoning)
    BY <2>2, <2>3, ProjectsAssumption DEF ValidZoning
  <2> QED BY <2>3, <2>5, <2>6
<1>9. ProjectsType' /\ states'[p] = state
  BY <1>1, <1>6, <1>7, <1>8 DEF ProjectsType
<1>10. \A q \in ProjectIds \ {p} : Same(q)
  BY <1>1, <1>6, <1>7 DEF Same, ProjectsType
<1>11. /\ Does(req[s], p, {"create.state"})
       /\ \A t \in Slots \ {s} : ~Does(req[t], p, {"create.state"})
  <2>1. Does(req[s], p, {"create.state"})
    BY <1>1 DEF Does, CreateHandlers
  <2> QED BY <1>7, <2>1 DEF ProjectKept, OneCreator
<1>12. /\ p \in used /\ corpus[p] = EmptyTrajectory
       /\ \A t \in Slots : ~Does(req[t], p, StateWriters)
  BY <1>7, <1>11 DEF ProjectKept, UnusedIsEmpty, NoStateYet, Does
<1>13. \A t \in Slots : /\ ~Does(req'[t], p, {"create.state"})
                        /\ ~Capturing(req'[t], p)
  BY <1>4, <1>7, <1>11, <1>12 DEF Does, Capturing, StateWriters, SaveSteps
<1>14. UnusedIsEmpty(p)' /\ NoStateYet(p)' /\ OneCreator(p)'
  BY <1>6, <1>12, <1>13 DEF UnusedIsEmpty, NoStateYet, OneCreator
<1>15. ASSUME p \notin tainted' PROVE RowsAreTended(p)'
  <2>1. projects[p] # None /\ RowsAreTended(p)
    BY <1>6, <1>7, <1>15 DEF ProjectKept
  <2>2. \A t \in Slots : ~Does(req'[t], p, Removals)
    BY <1>4, <1>7, <2>1 DEF RowsAreTended, Does, Removals
  <2> QED BY <1>6, <1>8, <1>9, <2>1, <2>2 DEF RowsAreTended
<1>16. CorpusIsTold(p)'
  BY <1>6, <1>8, <1>9, <1>12, <1>13 DEF CorpusIsTold
<1>17. ProjectKept(p)'
  BY <1>14, <1>15, <1>16 DEF ProjectKept
<1> QED BY <1>1, <1>4, <1>6, <1>8, <1>9, <1>10, <1>17, OneProject

-----------------------------------------------------------------------------
(* Saving the state *)

\* A put of a state on which nobody has got between finds the corpus told, and
\* leaves it told or has its event still to come.
LEMMA SaveStep ==
    ASSUME ProjectsInv, NEW s \in Slots, NEW p \in ProjectIds, NEW n \in ProjectHandlers,
           NEW state \in ProjectStates, Become(s, n), LoadsAgain(n),
           req[s].at \in {"patch.put", "sync.put", "compute.put"}, req[s].p = p,
           req[s].read \in ProjectStates,
           ValidZoning(state.zoning),
           saver' = [saver EXCEPT ![p] = s],
           states' = [states EXCEPT ![p] = state],
           Overtaken(p, states[p] # req[s].read),
           UNCHANGED <<projects, activities, corpus, used>>,
           \/ n.at = "idle" /\ SameText(state.section, req[s].read.section)
           \/ /\ n.at = "patch.capture" /\ n.p = p /\ n.read = req[s].read
              /\ SameText(state.section, Merge(n.read, n.patch).section)
    PROVE  ProjectsInv'
<1> DEFINE read == req[s].read
<1>1. /\ ProjectsType /\ ProjectKept(p) /\ req' \in [Slots -> ProjectHandlers]
      /\ req'[s] = n /\ \A t \in Slots \ {s} : req'[t] = req[t]
  BY ProjectMoves DEF ProjectsInv
<1>2. /\ About(req[s], p) /\ (About(n, p) \/ n.at = "idle")
      /\ Does(req[s], p, StateWriters)
  BY DEF About, Does, StateWriters, SaveSteps
<1>3. /\ state # None /\ states'[p] = state
      /\ tainted' = IF states[p] # req[s].read THEN tainted \cup {p} ELSE tainted
      /\ req[s].read # None
  BY <1>1, ProjectsAssumption DEF Overtaken, ProjectsType
<1>4. ProjectsType'
  BY <1>1, <1>3 DEF ProjectsType
<1>5. \A q \in ProjectIds \ {p} : Same(q)
  BY <1>1, <1>3 DEF Same, ProjectsType
<1>6. p \in used /\ \A t \in Slots : ~Does(req[t], p, {"create.state"})
  BY <1>1, <1>2 DEF ProjectKept, NoStateYet
<1>7. \A t \in Slots, ats \in {Removals, {"create.state"}, {"delete.state"}} :
        Does(req'[t], p, ats) <=> Does(req[t], p, ats)
  BY <1>1 DEF Does, Removals
<1>8. UnusedIsEmpty(p)' /\ NoStateYet(p)' /\ OneCreator(p)'
  BY <1>6, <1>7 DEF UnusedIsEmpty, NoStateYet, OneCreator
<1>9. ASSUME p \notin tainted' PROVE RowsAreTended(p)'
  <2>1. RowsAreTended(p) /\ states[p] # None
    BY <1>1, <1>3, <1>9 DEF ProjectKept
  <2>2. \A t \in Slots, e \in Events : WillSweep(req'[t], p, e) <=> WillSweep(req[t], p, e)
    BY <1>1 DEF WillSweep, Does
  <2> QED BY <1>3, <1>7, <2>1, <2>2 DEF RowsAreTended
<1>10. ASSUME p \notin tainted', ~Doomed(p)'
       PROVE  CorpusIsTold(p)'
  <2>1. CorpusIsTold(p) /\ states[p] = read
    BY <1>1, <1>3, <1>10 DEF ProjectKept
  <2>2. \A t \in Slots \ {s} : ~Capturing(req[t], p) /\ ~Capturing(req'[t], p)
    <3>1. saver'[p] = s
      BY <1>1 DEF ProjectsType
    <3> QED BY <1>1, <1>10, <3>1 DEF Doomed, Capturing
  <2>3. ~Capturing(req[s], p)
    BY DEF Capturing, Does
  <2>4. corpus[p] = Trajectory(read.section)
    <3>1. ~Doomed(p)
      BY <2>2, <2>3 DEF Doomed
    <3> QED BY <1>3, <2>1, <2>2, <2>3, <3>1 DEF CorpusIsTold
  <2>5. CASE n.at = "idle" /\ SameText(state.section, read.section)
    <3>1. Trajectory(state.section) = Trajectory(read.section)
      BY <2>5 DEF SameText, Trajectory
    <3>2. ~Capturing(req'[s], p)
      BY <1>1, <2>5 DEF Capturing, Does
    <3> QED BY <1>3, <2>2, <2>4, <3>1, <3>2 DEF CorpusIsTold
  <2>6. CASE /\ n.at = "patch.capture" /\ n.p = p /\ n.read = read
             /\ SameText(state.section, Merge(n.read, n.patch).section)
    <3>1. Capturing(req'[s], p)
      BY <1>1, <2>6 DEF Capturing, Does
    <3> QED BY <1>1, <1>3, <2>2, <2>4, <2>6, <3>1 DEF CorpusIsTold
  <2> QED BY <2>5, <2>6
<1>11. p \notin tainted' => CorpusIsTold(p)'
  BY <1>10 DEF CorpusIsTold
<1>12. ProjectKept(p)'
  BY <1>8, <1>9, <1>11 DEF ProjectKept
<1> QED BY <1>2, <1>3, <1>4, <1>5, <1>12, OneProject

\* The client that is copied into a section is no part of what the corpus tells.
LEMMA SyncPutStep ==
    ASSUME ProjectsInv, NEW s \in Slots, SyncPut(s)
    PROVE  ProjectsInv'
<1>1. req[s] \in SyncHandlers /\ req[s].p \in ProjectIds
  BY HandlersKnow DEF SyncPut, At, ProjectsInv
<1> DEFINE read == req[s].read
           next == [read EXCEPT !.section.client = req[s].client]
<1>2. read \in ProjectStates /\ read.section \in Sections /\ req[s].client \in ClientChoices
  BY <1>1 DEF SyncHandlers, ProjectStates
<1>3. next = [read EXCEPT !.section = [read.section EXCEPT !.client = req[s].client]]
  OBVIOUS
<1>4. /\ [read.section EXCEPT !.client = req[s].client] \in Sections
      /\ SameText([read.section EXCEPT !.client = req[s].client], read.section)
  BY <1>2 DEF Sections, ClientChoices, SameText
<1>5. /\ next \in ProjectStates /\ SameText(next.section, read.section)
      /\ next.zoning = read.zoning
  BY <1>2, <1>3, <1>4 DEF ProjectStates
<1>6. ValidZoning(read.zoning)
  BY DEF ProjectsInv, StatesLoad, LoadsAgain, SyncPut, At
<1>7. PICK p \in ProjectIds : p = req[s].p
  BY <1>1
<1>8. PICK state \in ProjectStates : state = next
  BY <1>5
<1>9. PICK n : n = Idle
  OBVIOUS
<1>10. n \in ProjectHandlers /\ n.at = "idle" /\ LoadsAgain(n)
  BY <1>9 DEF ProjectHandlers, Idle, LoadsAgain, SaveSteps
<1>11. /\ Become(s, n) /\ req[s].at = "sync.put"
       /\ saver' = [saver EXCEPT ![p] = s] /\ states' = [states EXCEPT ![p] = state]
       /\ Overtaken(p, states[p] # req[s].read)
       /\ UNCHANGED <<projects, activities, corpus, used>>
  BY <1>7, <1>8, <1>9 DEF SyncPut, At, Become, Return
<1>12. /\ req[s].p = p /\ req[s].read \in ProjectStates /\ ValidZoning(state.zoning)
       /\ SameText(state.section, req[s].read.section)
  BY <1>2, <1>5, <1>6, <1>7, <1>8
<1> HIDE DEF read, next
<1> QED BY <1>10, <1>11, <1>12, SaveStep

\* A compute puts back the section it has read and a scenario that loads.
LEMMA ComputePutStep ==
    ASSUME ProjectsInv, NEW s \in Slots, ComputePut(s)
    PROVE  ProjectsInv'
<1>1. req[s] \in ComputeHandlers /\ req[s].p \in ProjectIds
  BY HandlersKnow DEF ComputePut, At, ProjectsInv
<1> DEFINE read == req[s].read
           next == [read EXCEPT !.zoning = Computed(@)]
<1>2. read \in ProjectStates /\ read.zoning \in ZoningStates
  <2>1. read.zoning # None
    BY DEF ProjectsInv, StatesLoad, LoadsAgain, ComputePut, At
  <2> QED BY <1>1, <2>1 DEF ComputeHandlers, ProjectStates
<1>3. Computed(read.zoning) \in ZoningStates /\ ValidZoning(Computed(read.zoning))
  BY <1>2 DEF Computed, ZoningStates, ScenarioStatuses, ValidZoning, ProposedBasisStatuses
<1>4. /\ next \in ProjectStates /\ next.section = read.section
      /\ next.zoning = Computed(read.zoning)
  BY <1>2, <1>3 DEF ProjectStates
<1>5. PICK p \in ProjectIds : p = req[s].p
  BY <1>1
<1>6. PICK state \in ProjectStates : state = next
  BY <1>4
<1>7. PICK n : n = Idle
  OBVIOUS
<1>8. n \in ProjectHandlers /\ n.at = "idle" /\ LoadsAgain(n)
  BY <1>7 DEF ProjectHandlers, Idle, LoadsAgain, SaveSteps
<1>9. /\ Become(s, n) /\ req[s].at = "compute.put"
      /\ saver' = [saver EXCEPT ![p] = s] /\ states' = [states EXCEPT ![p] = state]
      /\ Overtaken(p, states[p] # req[s].read)
      /\ UNCHANGED <<projects, activities, corpus, used>>
  BY <1>5, <1>6, <1>7 DEF ComputePut, At, Become, Return
<1>10. /\ req[s].p = p /\ req[s].read \in ProjectStates /\ ValidZoning(state.zoning)
       /\ SameText(state.section, req[s].read.section)
  BY <1>2, <1>3, <1>4, <1>5, <1>6 DEF SameText
<1> HIDE DEF read, next
<1> QED BY <1>8, <1>9, <1>10, SaveStep

\* A patch puts the merge that was validated; its event is still to come.
LEMMA PatchPutStateStep ==
    ASSUME ProjectsInv, NEW s \in Slots, PatchPutState(s)
    PROVE  ProjectsInv'
<1>1. req[s] \in PatchHandlers /\ req[s].p \in ProjectIds
  BY HandlersKnow DEF PatchPutState, At, ProjectsInv
<1>2. req[s].read \in ProjectStates /\ req[s].patch \in Patches
  BY <1>1 DEF PatchHandlers
<1>3. PICK merged \in ProjectStates : merged = Merged(s)
  BY <1>2, MergeIsAState DEF Merged
<1>4. PICK state \in ProjectStates : state = Compact(merged)
  BY CompactIsAState
<1>5. state.section = merged.section /\ ValidZoning(state.zoning)
  <2>1. ValidZoning(merged.zoning)
    BY <1>3 DEF ProjectsInv, StatesLoad, LoadsAgain, SaveSteps, PatchPutState, At, Merged
  <2> QED BY <1>4, <2>1, CompactIsAState
<1>6. PICK p \in ProjectIds : p = req[s].p
  BY <1>1
<1>7. PICK n : n = [req[s] EXCEPT !.at = "patch.capture"]
  OBVIOUS
<1>8. /\ n \in PatchHandlers /\ n.at = "patch.capture" /\ n.p = p
      /\ n.read = req[s].read /\ n.patch = req[s].patch
  BY <1>1, <1>6, <1>7 DEF PatchHandlers
<1>9. n \in ProjectHandlers /\ LoadsAgain(n)
  BY <1>8 DEF ProjectHandlers, ProjectsInv, StatesLoad, LoadsAgain, SaveSteps, PatchPutState, At
<1>10. /\ Become(s, n) /\ req[s].at = "patch.put"
       /\ saver' = [saver EXCEPT ![p] = s] /\ states' = [states EXCEPT ![p] = state]
       /\ Overtaken(p, states[p] # req[s].read)
       /\ UNCHANGED <<projects, activities, corpus, used>>
  BY <1>3, <1>4, <1>6, <1>7 DEF PatchPutState, At, Become, Goto, ProjectsInv, ProjectsType
<1>11. SameText(state.section, Merge(n.read, n.patch).section)
  BY <1>3, <1>5, <1>8 DEF SameText, Merged
<1> QED BY <1>2, <1>5, <1>6, <1>8, <1>9, <1>10, <1>11, SaveStep

\* The event of a save that nobody has overtaken completes the corpus.
LEMMA CaptureStep ==
    ASSUME ProjectsInv, NEW s \in Slots, Capture(s)
    PROVE  ProjectsInv'
<1>1. req[s] \in PatchHandlers /\ req[s].at = "patch.capture"
  BY HandlersKnow DEF Capture, At, ProjectsInv
<1>2. PICK p \in ProjectIds : p = req[s].p
  BY <1>1 DEF PatchHandlers
<1>3. PICK old \in Sections, new \in Sections :
        old = req[s].read.section /\ new = Merge(req[s].read, req[s].patch).section
  BY <1>1, MergeIsAState DEF PatchHandlers, ProjectStates
<1>4. PICK event : event = Transition(old, new)
  OBVIOUS
<1>5. PICK n : n = Idle
  OBVIOUS
<1>6. n \in ProjectHandlers /\ n.at = "idle" /\ LoadsAgain(n)
  BY <1>5 DEF ProjectHandlers, Idle, LoadsAgain, SaveSteps
<1>7. /\ Become(s, n) /\ PutEvent(p, event, new.body, saver[p] # s)
      /\ UNCHANGED <<projects, states, activities, used, saver>>
  BY <1>2, <1>3, <1>4, <1>5 DEF Capture, Become, Return, Merged
<1>8. /\ ProjectsType /\ ProjectKept(p) /\ req' \in [Slots -> ProjectHandlers]
      /\ req'[s] = n /\ \A t \in Slots \ {s} : req'[t] = req[t]
  BY <1>6, <1>7, ProjectMoves DEF ProjectsInv
<1>9. /\ \/ /\ corpus' = [corpus EXCEPT ![p] = Replay(corpus[p], event, new.body)]
            /\ saver[p] = s
         \/ /\ corpus' = [corpus EXCEPT ![p] = Replay(corpus[p], event, new.body)]
            /\ p \in tainted'
         \/ corpus' = corpus /\ p \in tainted'
      /\ tainted' \in {tainted, tainted \cup {p}}
  BY <1>7 DEF PutEvent, Overtaken
<1>10. Replay(corpus[p], event, new.body) \in Trajectories
  BY <1>4, <1>8, ReplayIsATrajectory DEF ProjectsType
<1>11. ProjectsType' /\ \A q \in ProjectIds \ {p} : Same(q)
  BY <1>7, <1>8, <1>9, <1>10 DEF ProjectsType, Same
<1>12. /\ About(req[s], p) /\ Capturing(req[s], p) /\ Does(req[s], p, StateWriters)
       /\ ~Capturing(req'[s], p)
  BY <1>1, <1>2, <1>6, <1>8 DEF About, Capturing, Does, StateWriters, SaveSteps
<1>13. p \in used /\ \A t \in Slots : ~Does(req[t], p, {"create.state"})
  BY <1>8, <1>12 DEF ProjectKept, NoStateYet
<1>14. \A t \in Slots, ats \in {Removals, {"create.state"}, {"delete.state"}} :
        Does(req'[t], p, ats) <=> Does(req[t], p, ats)
  BY <1>1, <1>6, <1>8 DEF Does, Removals
<1>15. UnusedIsEmpty(p)' /\ NoStateYet(p)' /\ OneCreator(p)'
  BY <1>7, <1>13, <1>14 DEF UnusedIsEmpty, NoStateYet, OneCreator
<1>16. ASSUME p \notin tainted' PROVE RowsAreTended(p)'
  <2>1. RowsAreTended(p)
    BY <1>8, <1>9, <1>16 DEF ProjectKept
  <2>2. \A t \in Slots, e \in Events : WillSweep(req'[t], p, e) <=> WillSweep(req[t], p, e)
    BY <1>1, <1>6, <1>8 DEF WillSweep, Does
  <2> QED BY <1>7, <1>14, <2>1, <2>2 DEF RowsAreTended
<1>17. ASSUME p \notin tainted', ~Doomed(p)', states[p] # None
       PROVE  CorpusIsTold(p)'
  <2>1. /\ CorpusIsTold(p) /\ saver[p] = s
        /\ corpus' = [corpus EXCEPT ![p] = Replay(corpus[p], event, new.body)]
    BY <1>8, <1>9, <1>17 DEF ProjectKept
  <2>2. \A t \in Slots \ {s} : ~Capturing(req[t], p) /\ ~Capturing(req'[t], p)
    BY <1>7, <1>8, <1>17, <2>1 DEF Doomed
  <2>3. ~Doomed(p)
    BY <2>1, <2>2 DEF Doomed
  <2>4. corpus[p] = Trajectory(old) /\ SameText(states[p].section, new)
    BY <1>3, <1>12, <1>17, <2>1, <2>3 DEF CorpusIsTold
  <2>5. corpus'[p] = Trajectory(new)
    BY <1>4, <1>8, <2>1, <2>4, ReplayTells DEF ProjectsType
  <2>6. Trajectory(states[p].section) = Trajectory(new)
    BY <2>4 DEF SameText, Trajectory
  <2> QED BY <1>7, <1>12, <2>2, <2>5, <2>6 DEF CorpusIsTold
<1>18. p \notin tainted' => CorpusIsTold(p)'
  BY <1>7, <1>17 DEF CorpusIsTold
<1>19. ProjectKept(p)'
  BY <1>15, <1>16, <1>18 DEF ProjectKept
<1> QED BY <1>6, <1>7, <1>11, <1>12, <1>19, OneProject

-----------------------------------------------------------------------------
(* Deleting a project: its handler answers for the rows it has not got to *)

\* A step of a deletion.  The handler still owes, for all the rows that are
\* left, what somebody owed before.
LEMMA DeletionStep ==
    ASSUME ProjectsInv, NEW s \in Slots, NEW p \in ProjectIds, NEW n \in ProjectHandlers,
           Become(s, n), req[s].at \in {"delete.project"} \cup Removals, req[s].p = p,
           n.at = "idle" \/ (n.at \in Removals /\ n.p = p),
           projects' \in [ProjectIds -> ProjectRows \cup {None}],
           \A q \in ProjectIds \ {p} : projects'[q] = projects[q],
           states' \in [ProjectIds -> ProjectStates \cup {None}],
           \A q \in ProjectIds \ {p} : states'[q] = states[q],
           activities' \in [ProjectIds -> [Events -> ActivityRows \cup {None}]],
           \A q \in ProjectIds \ {p} : activities'[q] = activities[q],
           UNCHANGED <<corpus, used, saver, tainted>>,
           p \notin tainted => projects'[p] = None,
           projects'[p] \in {projects[p], None},
           states'[p] \in {states[p], None},
           states'[p] # None => Does(n, p, {"delete.state"}) \/ ~Does(req[s], p, {"delete.state"}),
           Does(req[s], p, {"delete.project"}) => Does(n, p, {"delete.state"}),
           \A e \in Events : activities'[p][e] # None =>
                /\ activities[p][e] # None
                /\ WillSweep(req[s], p, e) => WillSweep(n, p, e)
    PROVE  ProjectsInv'
<1>1. /\ ProjectsType /\ ProjectKept(p) /\ req' \in [Slots -> ProjectHandlers]
      /\ req'[s] = n /\ \A t \in Slots \ {s} : req'[t] = req[t]
  BY ProjectMoves DEF ProjectsInv
<1>2. /\ About(req[s], p) /\ (About(n, p) \/ n.at = "idle") /\ LoadsAgain(n)
      /\ Does(req[s], p, {"delete.project"} \cup Removals)
  BY DEF About, LoadsAgain, Does, Removals, SaveSteps
<1>3. ProjectsType'
  BY <1>1 DEF ProjectsType
<1>4. \A q \in ProjectIds \ {p} : Same(q)
  BY DEF Same
<1>5. p \in used
  BY <1>1, <1>2 DEF ProjectKept, UnusedIsEmpty, Does
<1>6. \A t \in Slots, ats \in {{"create.state"}, StateWriters} :
        Does(req'[t], p, ats) <=> Does(req[t], p, ats)
  BY <1>1 DEF Does, Removals, StateWriters, SaveSteps
<1>7. UnusedIsEmpty(p)' /\ OneCreator(p)'
  BY <1>1, <1>5, <1>6 DEF UnusedIsEmpty, OneCreator, ProjectKept
<1>8. NoStateYet(p)'
  BY <1>1, <1>5, <1>6 DEF NoStateYet, ProjectKept
<1>9. ASSUME p \notin tainted PROVE RowsAreTended(p)'
  <2>1. RowsAreTended(p) /\ projects'[p] = None
    BY <1>1, <1>9 DEF ProjectKept
  <2>2. states'[p] # None => \E t \in Slots : Does(req'[t], p, {"delete.state"})
    <3> SUFFICES ASSUME states'[p] # None
                 PROVE  \E t \in Slots : Does(req'[t], p, {"delete.state"})
      OBVIOUS
    <3>1. CASE Does(n, p, {"delete.state"})
      BY <1>1, <3>1
    <3>2. CASE ~Does(n, p, {"delete.state"})
      <4>1. req[s].at # "delete.project" /\ ~Does(req[s], p, {"delete.state"})
        BY <3>2 DEF Does
      <4>2. projects[p] = None /\ states[p] # None
        BY <1>2, <2>1, <4>1 DEF RowsAreTended, Does
      <4>3. PICK t \in Slots : Does(req[t], p, {"delete.state"})
        BY <2>1, <4>2 DEF RowsAreTended
      <4> QED BY <1>1, <4>1, <4>3
    <3> QED BY <3>1, <3>2
  <2>3. ASSUME NEW e \in Events, activities'[p][e] # None
        PROVE  \E t \in Slots : WillSweep(req'[t], p, e)
    <3>1. CASE req[s].at = "delete.project"
      BY <1>1, <3>1 DEF Does, WillSweep
    <3>2. CASE req[s].at # "delete.project"
      <4>1. projects[p] = None /\ activities[p][e] # None
        BY <1>2, <2>1, <2>3, <3>2 DEF RowsAreTended, Does
      <4>2. PICK t \in Slots : WillSweep(req[t], p, e)
        BY <2>1, <4>1 DEF RowsAreTended
      <4> QED BY <1>1, <2>3, <4>2
    <3> QED BY <3>1, <3>2
  <2> QED BY <2>1, <2>2, <2>3 DEF RowsAreTended
<1>10. ASSUME p \notin tainted PROVE CorpusIsTold(p)'
  <2>1. CorpusIsTold(p)
    BY <1>1, <1>10 DEF ProjectKept
  <2>2. \A t \in Slots : /\ Capturing(req'[t], p) <=> Capturing(req[t], p)
                         /\ Capturing(req[t], p) => req'[t] = req[t]
    BY <1>1 DEF Capturing, Does, Removals
  <2>3. Doomed(p)' <=> Doomed(p)
    BY <2>2 DEF Doomed
  <2> QED BY <2>1, <2>2, <2>3 DEF CorpusIsTold
<1>11. ProjectKept(p)'
  BY <1>7, <1>8, <1>9, <1>10 DEF ProjectKept
<1>12. states'[p] # None => states'[p] = states[p]
  OBVIOUS
<1> QED BY <1>2, <1>3, <1>4, <1>11, <1>12, OneProject DEF At

\* With the row of a project gone the deleting handler owes all the rest.
LEMMA DeleteProjectRowStep ==
    ASSUME ProjectsInv, NEW s \in Slots, DeleteProjectRow(s)
    PROVE  ProjectsInv'
<1>1. req[s] \in DeleteHandlers /\ req[s].at = "delete.project"
  BY HandlersKnow DEF DeleteProjectRow, At, ProjectsInv
<1>2. PICK p \in ProjectIds : p = req[s].p
  BY <1>1 DEF DeleteHandlers
<1>3. PICK n : n = [req[s] EXCEPT !.at = "delete.state"]
  OBVIOUS
<1>4. n \in ProjectHandlers /\ n.at = "delete.state" /\ n.p = p
  BY <1>1, <1>2, <1>3 DEF ProjectHandlers, DeleteHandlers
<1>5. /\ Become(s, n) /\ projects' = [projects EXCEPT ![p] = None]
      /\ UNCHANGED <<states, activities, corpus, used, saver, tainted>>
  BY <1>2, <1>3 DEF DeleteProjectRow, Goto, Become, ProjectsInv, ProjectsType
<1>6. ProjectsType
  BY DEF ProjectsInv
<1>7. Does(n, p, {"delete.state"}) /\ \A e \in Events : WillSweep(n, p, e)
  BY <1>4 DEF Does, WillSweep
<1> QED BY <1>1, <1>2, <1>4, <1>5, <1>6, <1>7, DeletionStep DEF ProjectsType, Removals

\* With the state gone it owes the activity rows.
LEMMA DeleteStateRowStep ==
    ASSUME ProjectsInv, NEW s \in Slots, DeleteStateRow(s)
    PROVE  ProjectsInv'
<1>1. req[s] \in DeleteHandlers /\ req[s].at = "delete.state"
  BY HandlersKnow DEF DeleteStateRow, At, ProjectsInv
<1>2. PICK p \in ProjectIds : p = req[s].p
  BY <1>1 DEF DeleteHandlers
<1>3. PICK n : n = [req[s] EXCEPT !.at = "delete.query"]
  OBVIOUS
<1>4. n \in ProjectHandlers /\ n.at = "delete.query" /\ n.p = p
  BY <1>1, <1>2, <1>3 DEF ProjectHandlers, DeleteHandlers
<1>5. /\ Become(s, n) /\ states' = [states EXCEPT ![p] = None]
      /\ UNCHANGED <<projects, activities, corpus, used, saver, tainted>>
  BY <1>2, <1>3 DEF DeleteStateRow, Goto, Become, ProjectsInv, ProjectsType
<1>6. ProjectsType /\ (p \notin tainted => projects[p] = None)
  BY <1>1, <1>2 DEF ProjectsInv, ProjectKept, RowsAreTended, Does, Removals
<1>7. /\ \A e \in Events : WillSweep(n, p, e)
      /\ ~Does(req[s], p, {"delete.project"})
  BY <1>1, <1>4 DEF Does, WillSweep
<1>8. /\ states' \in [ProjectIds -> ProjectStates \cup {None}] /\ states'[p] = None
      /\ \A q \in ProjectIds \ {p} : states'[q] = states[q]
      /\ projects \in [ProjectIds -> ProjectRows \cup {None}]
      /\ activities \in [ProjectIds -> [Events -> ActivityRows \cup {None}]]
  BY <1>5, <1>6 DEF ProjectsType
<1>9. "delete.state" \in Removals /\ "delete.query" \in Removals
  BY DEF Removals
<1> QED BY <1>1, <1>2, <1>4, <1>5, <1>6, <1>7, <1>8, <1>9, DeletionStep

\* It owes the rows that its query finds, which are all there are.
LEMMA QueryActivitiesStep ==
    ASSUME ProjectsInv, NEW s \in Slots, QueryActivities(s)
    PROVE  ProjectsInv'
<1>1. req[s] \in DeleteHandlers /\ req[s].at = "delete.query"
  BY HandlersKnow DEF QueryActivities, At, ProjectsInv
<1>2. PICK p \in ProjectIds : p = req[s].p
  BY <1>1 DEF DeleteHandlers
<1>3. PICK found : found = {e \in Events : activities[p][e] # None}
  OBVIOUS
<1>4. PICK n : n = [at |-> "delete.activities", p |-> p, rows |-> found]
  OBVIOUS
<1>5. /\ n \in ProjectHandlers /\ n.at = "delete.activities" /\ n.p = p /\ n.rows = found
  BY <1>3, <1>4 DEF ProjectHandlers, SweepHandlers
<1>6. ProjectsType /\ (p \notin tainted => projects[p] = None)
  BY <1>1, <1>2 DEF ProjectsInv, ProjectKept, RowsAreTended, Does, Removals
<1>7. Become(s, n) /\ UNCHANGED projectVars
  <2>1. DOMAIN activities[p] = Events
    BY <1>6 DEF ProjectsType
  <2> QED BY <1>2, <1>3, <1>4, <2>1 DEF QueryActivities, Become
<1>8. /\ \A e \in Events : activities[p][e] # None => WillSweep(n, p, e)
      /\ ~Does(req[s], p, {"delete.project"}) /\ ~Does(req[s], p, {"delete.state"})
  BY <1>1, <1>3, <1>5 DEF Does, WillSweep
<1> QED BY <1>1, <1>2, <1>5, <1>6, <1>7, <1>8, DeletionStep DEF ProjectsType, Removals, projectVars

\* And it has them deleted one by one.
LEMMA DeleteActivityRowStep ==
    ASSUME ProjectsInv, NEW s \in Slots, DeleteActivityRow(s)
    PROVE  ProjectsInv'
<1>1. req[s] \in SweepHandlers /\ req[s].at = "delete.activities"
  BY HandlersKnow DEF DeleteActivityRow, At, ProjectsInv
<1>2. PICK p \in ProjectIds : p = req[s].p
  BY <1>1 DEF SweepHandlers
<1>3. PICK rows \in SUBSET Events : rows = req[s].rows
  BY <1>1 DEF SweepHandlers
<1>4. /\ ProjectsType /\ (p \notin tainted => projects[p] = None)
      /\ UNCHANGED <<projects, states, corpus, used, saver, tainted>>
  BY <1>1, <1>2 DEF ProjectsInv, ProjectKept, RowsAreTended, Does, Removals, DeleteActivityRow
<1>5. ~Does(req[s], p, {"delete.project"}) /\ ~Does(req[s], p, {"delete.state"})
  BY <1>1 DEF Does
<1>6. CASE rows = {}
  <2>1. PICK n : n = Idle
    OBVIOUS
  <2>2. /\ n \in ProjectHandlers /\ n.at = "idle" /\ Become(s, n) /\ activities' = activities
    BY <1>3, <1>6, <2>1 DEF ProjectHandlers, Idle, DeleteActivityRow, Return, Become
  <2>3. \A e \in Events : ~WillSweep(req[s], p, e)
    BY <1>1, <1>3, <1>6 DEF WillSweep, Does
  <2> QED BY <1>1, <1>2, <1>4, <1>5, <2>2, <2>3, DeletionStep DEF ProjectsType, Removals
<1>7. CASE rows # {}
  <2>1. PICK e \in rows : /\ activities' = [activities EXCEPT ![p][e] = None]
                          /\ Become(s, [req[s] EXCEPT !.rows = rows \ {e}])
    BY <1>2, <1>3, <1>7 DEF DeleteActivityRow
  <2>2. PICK n : n = [req[s] EXCEPT !.rows = rows \ {e}]
    OBVIOUS
  <2>3. /\ n \in SweepHandlers /\ n.at = "delete.activities" /\ n.p = p /\ n.rows = rows \ {e}
        /\ Become(s, n)
    BY <1>1, <1>2, <2>1, <2>2 DEF SweepHandlers
  <2>4. /\ activities' \in [ProjectIds -> [Events -> ActivityRows \cup {None}]]
        /\ \A q \in ProjectIds \ {p} : activities'[q] = activities[q]
        /\ activities'[p] = [activities[p] EXCEPT ![e] = None]
    BY <1>4, <2>1 DEF ProjectsType
  <2>5. \A f \in Events : activities'[p][f] # None =>
            /\ f # e /\ activities[p][f] # None
            /\ WillSweep(req[s], p, f) => WillSweep(n, p, f)
    BY <1>1, <1>3, <1>4, <2>3, <2>4 DEF ProjectsType, WillSweep, Does
  <2>6. n \in ProjectHandlers
    BY <2>3 DEF ProjectHandlers
  <2>7. "delete.activities" \in Removals
    BY DEF Removals
  <2>8. /\ projects' \in [ProjectIds -> ProjectRows \cup {None}] /\ projects' = projects
        /\ states' \in [ProjectIds -> ProjectStates \cup {None}] /\ states' = states
        /\ UNCHANGED <<corpus, used, saver, tainted>> /\ req[s].p = p
    BY <1>2, <1>4 DEF ProjectsType
  <2>9. p \notin tainted => projects'[p] = None
    BY <1>4
  <2> QED BY <1>1, <1>5, <2>3, <2>4, <2>5, <2>6, <2>7, <2>8, <2>9, DeletionStep
<1> QED BY <1>6, <1>7

-----------------------------------------------------------------------------
(* The other steps *)

\* A step that only reads.
LEMMA ReadingStep ==
    ASSUME ProjectsInv, NEW s \in Slots, NEW n \in ProjectHandlers, Become(s, n), LoadsAgain(n),
           UNCHANGED projectVars, req[s].at \notin Awaited, n.at \notin Awaited,
           n.at \in {"update.put", "delete.project"} => projects[n.p] # None,
           n.at \in StateWriters =>
                states[n.p] # None \/ (req[s].at \in StateWriters /\ req[s].p = n.p)
    PROVE  ProjectsInv'
BY OrdinaryStep DEF projectVars, ProjectsInv, ProjectsType

\* A step that answers, having put an activity row or a project row where there
\* was one, or not at all.
LEMMA AnsweringStep ==
    ASSUME ProjectsInv, NEW s \in Slots, Return(s),
           UNCHANGED <<projects, states, corpus, used, saver>>,
           activities' \in [ProjectIds -> [Events -> ActivityRows \cup {None}]],
           tainted \subseteq tainted', tainted' \subseteq ProjectIds,
           \A p \in ProjectIds \ tainted', e \in Events :
                activities'[p][e] # None => activities[p][e] # None \/ projects[p] # None,
           req[s].at \in Awaited => req[s].p \in tainted'
    PROVE  ProjectsInv'
<1>1. PICK n : n = Idle
  OBVIOUS
<1>2. n \in ProjectHandlers /\ Become(s, n) /\ LoadsAgain(n) /\ n.at = "idle"
  BY <1>1 DEF ProjectHandlers, Return, Become, LoadsAgain, Idle, SaveSteps
<1>3. "idle" \notin Awaited \cup StateWriters \cup {"update.put", "delete.project"}
  BY DEF Awaited, Removals, StateWriters, SaveSteps
<1>4. ProjectsType
  BY DEF ProjectsInv
<1> QED BY <1>2, <1>3, <1>4, OrdinaryStep DEF ProjectsType

\* Requests about notes read before they write.
LEMMA NoteRequestStep ==
    ASSUME ProjectsInv, NEW s \in Slots, NEW p \in ProjectIds, NoteRequest(s, p)
    PROVE  ProjectsInv'
<1>1. PICK e \in EventIds, u \in Authors :
        \/ \E b \in Bodies : CreateNote(s, p, e, u, b)
        \/ \E admin \in BOOLEAN :
            \/ \E b \in Bodies : UpdateNote(s, p, e, u, admin, b)
            \/ DeleteNote(s, p, e, u, admin)
  BY DEF NoteRequest
<1>2. /\ e \in Events /\ activities[p][e] \in ActivityRows \cup {None}
      /\ ProjectsType
  <2>1. ProjectsType /\ e \in Events
    BY DEF Events, ProjectsInv
  <2>. QED BY <2>1 DEF ProjectsType
<1>3. {"idle", "record.check", "note.put", "note.delete"} \cap
        (Awaited \cup StateWriters \cup {"update.put", "delete.project"}) = {}
  BY DEF Awaited, Removals, StateWriters, SaveSteps
<1>4. ASSUME NEW b \in Bodies, CreateNote(s, p, e, u, b)
      PROVE  ProjectsInv'
  <2>1. PICK row \in ActivityRows : row = [type |-> "note_added", author |-> u, text |-> b]
    BY DEF ActivityRows
  <2>2. PICK n : n = [at |-> "record.check", p |-> p, e |-> e, row |-> row]
    OBVIOUS
  <2>3. /\ n \in ProjectHandlers /\ n.at = "record.check" /\ LoadsAgain(n)
    BY <1>2, <2>2 DEF ProjectHandlers, RecordHandlers, LoadsAgain, SaveSteps
  <2>4. req[s].at = "idle" /\ Become(s, n) /\ UNCHANGED projectVars
    BY <1>4, <2>1, <2>2 DEF CreateNote, Begin, Become, At
  <2> QED BY <1>3, <2>3, <2>4, ReadingStep
<1>5. ASSUME NEW admin \in BOOLEAN, NEW b \in Bodies, UpdateNote(s, p, e, u, admin, b)
      PROVE  ProjectsInv'
  <2>1. PICK n : n = [at |-> "note.put", p |-> p, e |-> e, read |-> activities[p][e], text |-> b]
    OBVIOUS
  <2>2. activities[p][e] \in ActivityRows
    BY <1>2, <1>5 DEF UpdateNote, MayTouch
  <2>3. n \in ProjectHandlers /\ n.at = "note.put" /\ LoadsAgain(n)
    BY <1>2, <2>1, <2>2 DEF ProjectHandlers, NotePutHandlers, LoadsAgain, SaveSteps
  <2>4. req[s].at = "idle" /\ Become(s, n) /\ UNCHANGED projectVars
    BY <1>5, <2>1 DEF UpdateNote, Begin, Become, At
  <2> QED BY <1>3, <2>3, <2>4, ReadingStep
<1>6. ASSUME NEW admin \in BOOLEAN, DeleteNote(s, p, e, u, admin)
      PROVE  ProjectsInv'
  <2>1. PICK n : n = [at |-> "note.delete", p |-> p, e |-> e]
    OBVIOUS
  <2>2. n \in ProjectHandlers /\ n.at = "note.delete" /\ LoadsAgain(n)
    BY <1>2, <2>1 DEF ProjectHandlers, NoteDeleteHandlers, LoadsAgain, SaveSteps
  <2>3. req[s].at = "idle" /\ Become(s, n) /\ UNCHANGED projectVars
    BY <1>6, <2>1 DEF DeleteNote, Begin, Become, At
  <2> QED BY <1>3, <2>2, <2>3, ReadingStep
<1> QED BY <1>1, <1>4, <1>5, <1>6

\* A patch and a compute go on only with a state, and with a merge that loads.
LEMMA DocumentRequestStep ==
    ASSUME ProjectsInv, NEW s \in Slots, NEW p \in ProjectIds, NEW patches \in SUBSET Patches,
           DocumentRequest(s, p, patches)
    PROVE  ProjectsInv'
<1>1. states[p] \in ProjectStates \cup {None}
  BY DEF ProjectsInv, ProjectsType
<1>2. {"idle", "patch.project", "compute.put"} \cap
        (Awaited \cup {"update.put", "delete.project"}) = {}
  BY DEF Awaited, Removals
<1>3. ASSUME NEW patch \in Patches, PatchState(s, p, patch)
      PROVE  ProjectsInv'
  <2>1. PICK n : n = [at |-> "patch.project", p |-> p, read |-> states[p], patch |-> patch]
    OBVIOUS
  <2>2. /\ n \in ProjectHandlers /\ n.at = "patch.project" /\ n.p = p
        /\ n.read = states[p] /\ n.patch = patch
    BY <1>1, <1>3, <2>1 DEF PatchState, ProjectHandlers, PatchHandlers
  <2>3. LoadsAgain(n) /\ states[p] # None
    BY <1>3, <2>2 DEF PatchState, LoadsAgain
  <2>4. req[s].at = "idle" /\ Become(s, n) /\ UNCHANGED projectVars
    BY <1>3, <2>1 DEF PatchState, Begin, Become, At
  <2> QED BY <1>2, <2>2, <2>3, <2>4, ReadingStep
<1>4. ASSUME ComputeZoning(s, p)
      PROVE  ProjectsInv'
  <2>1. PICK n : n = [at |-> "compute.put", p |-> p, read |-> states[p]]
    OBVIOUS
  <2>2. n \in ProjectHandlers /\ n.at = "compute.put" /\ n.p = p /\ n.read = states[p]
    BY <1>1, <1>4, <2>1 DEF ComputeZoning, ProjectHandlers, ComputeHandlers
  <2>3. LoadsAgain(n) /\ states[p] # None
    BY <1>4, <2>2 DEF ComputeZoning, LoadsAgain, SaveSteps
  <2>4. req[s].at = "idle" /\ Become(s, n) /\ UNCHANGED projectVars
    BY <1>4, <2>1 DEF ComputeZoning, Begin, Become, At
  <2> QED BY <1>2, <2>2, <2>3, <2>4, ReadingStep
<1> QED BY <1>3, <1>4 DEF DocumentRequest

\* An update goes on only with a project.
LEMMA UpdateProjectStep ==
    ASSUME ProjectsInv, NEW s \in Slots, NEW p \in ProjectIds, NEW c \in ClientChoices,
           UpdateProject(s, p, c)
    PROVE  ProjectsInv'
<1>1. PICK n : n = [at |-> "update.put", p |-> p, read |-> projects[p], client |-> c]
  OBVIOUS
<1>2. projects[p] \in ProjectRows /\ projects[p] # None
  BY DEF UpdateProject, ProjectsInv, ProjectsType
<1>3. n \in ProjectHandlers /\ n.at = "update.put" /\ n.p = p /\ LoadsAgain(n)
  BY <1>1, <1>2 DEF ProjectHandlers, UpdateHandlers, LoadsAgain, SaveSteps
<1>4. req[s].at = "idle" /\ Become(s, n) /\ UNCHANGED projectVars
  BY <1>1 DEF UpdateProject, Begin, Become, At
<1>5. {"idle", "update.put"} \cap Awaited = {} /\ "update.put" \notin StateWriters
  BY DEF Awaited, Removals, StateWriters, SaveSteps
<1> QED BY <1>2, <1>3, <1>4, <1>5, ReadingStep

\* So does a deletion.
LEMMA DeleteProjectStep ==
    ASSUME ProjectsInv, NEW s \in Slots, NEW p \in ProjectIds, DeleteProject(s, p)
    PROVE  ProjectsInv'
<1>1. PICK n : n = [at |-> "delete.project", p |-> p]
  OBVIOUS
<1>2. n \in ProjectHandlers /\ n.at = "delete.project" /\ n.p = p /\ LoadsAgain(n)
  BY <1>1 DEF ProjectHandlers, DeleteHandlers, LoadsAgain, SaveSteps
<1>3. req[s].at = "idle" /\ Become(s, n) /\ UNCHANGED projectVars /\ projects[p] # None
  BY <1>1 DEF DeleteProject, Begin, Become, At
<1>4. {"idle", "delete.project"} \cap Awaited = {} /\ "delete.project" \notin StateWriters
  BY DEF Awaited, Removals, StateWriters, SaveSteps
<1> QED BY <1>2, <1>3, <1>4, ReadingStep

\* Activity rows are put for a project that is there, unless a collision is
\* noted.
LEMMA ActivitySteps ==
    ASSUME ProjectsInv, NEW s \in Slots,
           \/ RecordRefused(s) \/ CheckProjectOfActivity(s) \/ PutActivity(s)
           \/ PutNote(s) \/ RemoveNote(s)
    PROVE  ProjectsInv'
<1>1. ProjectsType
  BY DEF ProjectsInv
<1>2. {"record.check", "record.put", "note.put", "note.delete"} \cap
        (Awaited \cup StateWriters \cup {"update.put", "delete.project"}) = {}
  BY DEF Awaited, Removals, StateWriters, SaveSteps
<1>3. ASSUME RecordRefused(s) PROVE ProjectsInv'
  <2>1. Return(s) /\ UNCHANGED projectVars /\ req[s].at \notin Awaited
    BY <1>2, <1>3 DEF RecordRefused, At
  <2> QED BY <1>1, <2>1, AnsweringStep DEF projectVars, ProjectsType
<1>4. ASSUME CheckProjectOfActivity(s) PROVE ProjectsInv'
  <2>1. PICK n : n = [req[s] EXCEPT !.at = "record.put"]
    OBVIOUS
  <2>2. req[s] \in RecordHandlers /\ req[s].at = "record.check"
    BY <1>1, <1>4, HandlersKnow DEF CheckProjectOfActivity, At
  <2>3. n \in ProjectHandlers /\ n.at = "record.put" /\ LoadsAgain(n)
    BY <2>1, <2>2 DEF ProjectHandlers, RecordHandlers, LoadsAgain, SaveSteps
  <2>4. Become(s, n) /\ UNCHANGED projectVars
    BY <1>1, <1>4, <2>1 DEF CheckProjectOfActivity, Goto, Become, ProjectsType
  <2> QED BY <1>2, <2>2, <2>3, <2>4, ReadingStep
<1>5. ASSUME PutActivity(s) PROVE ProjectsInv'
  <2>1. req[s] \in RecordHandlers /\ req[s].at = "record.put"
    BY <1>1, <1>5, HandlersKnow DEF PutActivity, At
  <2>2. PICK p \in ProjectIds, e \in Events, row \in ActivityRows :
            p = req[s].p /\ e = req[s].e /\ row = req[s].row
    BY <2>1 DEF RecordHandlers
  <2>3. /\ activities' = [activities EXCEPT ![p][e] = row]
        /\ tainted' = IF projects[p] = None THEN tainted \cup {p} ELSE tainted
        /\ Return(s) /\ UNCHANGED <<projects, states, corpus, used, saver>>
    BY <1>5, <2>2 DEF PutActivity, Overtaken
  <2>4. activities' \in [ProjectIds -> [Events -> ActivityRows \cup {None}]]
    BY <1>1, <2>3 DEF ProjectsType
  <2>5. \A q \in ProjectIds \ tainted', f \in Events :
            activities'[q][f] # None => activities[q][f] # None \/ projects[q] # None
    BY <1>1, <2>3 DEF ProjectsType
  <2>6. tainted \subseteq tainted' /\ tainted' \subseteq ProjectIds
    BY <1>1, <2>3 DEF ProjectsType
  <2> QED BY <1>2, <2>1, <2>3, <2>4, <2>5, <2>6, AnsweringStep
<1>6. ASSUME PutNote(s) PROVE ProjectsInv'
  <2>1. req[s] \in NotePutHandlers /\ req[s].at = "note.put"
    BY <1>1, <1>6, HandlersKnow DEF PutNote, At
  <2>2. PICK p \in ProjectIds, e \in Events, read \in ActivityRows, text \in Bodies :
            p = req[s].p /\ e = req[s].e /\ read = req[s].read /\ text = req[s].text
    BY <2>1 DEF NotePutHandlers
  <2>3. PICK row \in ActivityRows : row = [read EXCEPT !.text = text]
    BY DEF ActivityRows
  <2>4. /\ activities' = [activities EXCEPT ![p][e] = row]
        /\ tainted' = IF activities[p][e] # read THEN tainted \cup {p} ELSE tainted
        /\ Return(s) /\ UNCHANGED <<projects, states, corpus, used, saver>>
    BY <1>6, <2>2, <2>3 DEF PutNote, Overtaken
  <2>5. activities' \in [ProjectIds -> [Events -> ActivityRows \cup {None}]]
    BY <1>1, <2>4 DEF ProjectsType
  <2>6. read # None
    BY ProjectsAssumption
  <2>7. \A q \in ProjectIds \ tainted', f \in Events :
            activities'[q][f] # None => activities[q][f] # None \/ projects[q] # None
    BY <1>1, <2>4, <2>6 DEF ProjectsType
  <2>8. tainted \subseteq tainted' /\ tainted' \subseteq ProjectIds
    BY <1>1, <2>4 DEF ProjectsType
  <2> QED BY <1>2, <2>1, <2>4, <2>5, <2>7, <2>8, AnsweringStep
<1>7. ASSUME RemoveNote(s) PROVE ProjectsInv'
  <2>1. req[s] \in NoteDeleteHandlers /\ req[s].at = "note.delete"
    BY <1>1, <1>7, HandlersKnow DEF RemoveNote, At
  <2>2. PICK p \in ProjectIds, e \in Events : p = req[s].p /\ e = req[s].e
    BY <2>1 DEF NoteDeleteHandlers
  <2>3. /\ activities' = [activities EXCEPT ![p][e] = None]
        /\ Return(s) /\ UNCHANGED <<projects, states, corpus, used, saver, tainted>>
    BY <1>7, <2>2 DEF RemoveNote
  <2>4. activities' \in [ProjectIds -> [Events -> ActivityRows \cup {None}]]
    BY <1>1, <2>3 DEF ProjectsType
  <2>5. \A q \in ProjectIds, f \in Events : activities'[q][f] # None => activities[q][f] # None
    BY <1>1, <2>3 DEF ProjectsType
  <2> QED BY <1>1, <1>2, <2>1, <2>3, <2>4, <2>5, AnsweringStep DEF ProjectsType
<1> QED BY <1>3, <1>4, <1>5, <1>6, <1>7

\* A put of a row of a project that is not gone in the meantime.
LEMMA ProjectRowPut ==
    ASSUME ProjectsInv, NEW p \in ProjectIds, NEW read \in ProjectRows, NEW row \in ProjectRows,
           projects' = [projects EXCEPT ![p] = row], Overtaken(p, projects[p] # read), p \in used
    PROVE  /\ projects' \in [ProjectIds -> ProjectRows \cup {None}]
           /\ tainted \subseteq tainted' /\ tainted' \subseteq ProjectIds
           /\ \A q \in ProjectIds : projects'[q] # None => projects[q] # None \/ q \in used
           /\ \A q \in ProjectIds \ tainted' : projects'[q] = None <=> projects[q] = None
<1>1. ProjectsType /\ read # None /\ row # None
  BY ProjectsAssumption DEF ProjectsInv
<1>2. tainted' = IF projects[p] # read THEN tainted \cup {p} ELSE tainted
  BY DEF Overtaken
<1> QED BY <1>1, <1>2 DEF ProjectsType

\* An update puts the project row and reads the state that it is to sync.
LEMMA UpdateSteps ==
    ASSUME ProjectsInv, NEW s \in Slots, UpdatePut(s) \/ SyncRead(s)
    PROVE  ProjectsInv'
<1>1. ProjectsType
  BY DEF ProjectsInv
<1>2. {"idle", "update.put", "sync.read", "sync.put"} \cap Awaited = {}
  BY DEF Awaited, Removals
<1>3. {"idle", "sync.read"} \cap (StateWriters \cup {"update.put", "delete.project"}) = {}
  BY DEF StateWriters, SaveSteps
<1>4. ASSUME UpdatePut(s) PROVE ProjectsInv'
  <2>1. req[s] \in UpdateHandlers /\ req[s].at = "update.put"
    BY <1>1, <1>4, HandlersKnow DEF UpdatePut, At
  <2>2. PICK p \in ProjectIds, read \in ProjectRows : p = req[s].p /\ read = req[s].read
    BY <2>1 DEF UpdateHandlers
  <2>3. PICK n : n = IF req[s].client = None THEN Idle ELSE [req[s] EXCEPT !.at = "sync.read"]
    OBVIOUS
  <2>4. n \in ProjectHandlers /\ n.at \in {"idle", "sync.read"}
    <3>1. CASE req[s].client = None
      BY <2>3, <3>1 DEF ProjectHandlers, Idle
    <3>2. CASE req[s].client # None
      BY <2>1, <2>3, <3>2 DEF ProjectHandlers, UpdateHandlers
    <3> QED BY <3>1, <3>2
  <2>5. LoadsAgain(n)
    BY <2>4 DEF LoadsAgain, SaveSteps
  <2>6. /\ Become(s, n) /\ projects' = [projects EXCEPT ![p] = read]
        /\ Overtaken(p, projects[p] # read)
        /\ UNCHANGED <<states, activities, corpus, used, saver>>
    BY <1>1, <1>4, <2>2, <2>3 DEF UpdatePut, Return, Goto, Become, ProjectsType
  <2>7. p \in used
    BY <2>1, <2>2 DEF ProjectsInv, ProjectKept, UnusedIsEmpty, Does
  <2>8. /\ projects' \in [ProjectIds -> ProjectRows \cup {None}]
        /\ tainted \subseteq tainted' /\ tainted' \subseteq ProjectIds
        /\ \A q \in ProjectIds : projects'[q] # None => projects[q] # None \/ q \in used
        /\ \A q \in ProjectIds \ tainted' : projects'[q] = None <=> projects[q] = None
    BY <2>2, <2>6, <2>7, ProjectRowPut
  <2>9. activities' \in [ProjectIds -> [Events -> ActivityRows \cup {None}]]
    BY <1>1, <2>6 DEF ProjectsType
  <2>10. n.at \notin Awaited \cup StateWriters \cup {"update.put", "delete.project"}
    BY <1>2, <1>3, <2>4
  <2> QED BY <1>2, <2>1, <2>4, <2>5, <2>6, <2>8, <2>9, <2>10, OrdinaryStep
<1>5. ASSUME SyncRead(s) PROVE ProjectsInv'
  <2>1. req[s] \in UpdateHandlers /\ req[s].at = "sync.read" /\ UNCHANGED projectVars
    BY <1>1, <1>5, HandlersKnow DEF SyncRead, At
  <2>2. PICK p \in ProjectIds, client \in ClientChoices : p = req[s].p /\ client = req[s].client
    BY <2>1 DEF UpdateHandlers
  <2>3. CASE states[p] = None
    <3>1. Return(s)
      BY <1>5, <2>2, <2>3 DEF SyncRead
    <3> QED BY <1>1, <1>2, <2>1, <3>1, AnsweringStep DEF projectVars, ProjectsType
  <2>4. CASE states[p] # None
    <3>1. PICK n : n = [at |-> "sync.put", p |-> p, read |-> states[p], client |-> client]
      OBVIOUS
    <3>2. n \in ProjectHandlers /\ n.at = "sync.put" /\ n.p = p /\ n.read = states[p]
      BY <1>1, <2>4, <3>1 DEF ProjectsType, ProjectHandlers, SyncHandlers
    <3>3. LoadsAgain(n)
      BY <2>4, <3>2 DEF ProjectsInv, StatesLoad, StoredStatesLoad, LoadsAgain, SaveSteps
    <3>4. Become(s, n)
      BY <1>5, <2>2, <2>4, <3>1 DEF SyncRead
    <3>5. req[s].at \notin Awaited /\ n.at \notin Awaited /\ states[n.p] # None
      BY <1>2, <2>1, <2>4, <3>2
    <3> QED BY <2>1, <3>2, <3>3, <3>4, <3>5, ReadingStep
  <2> QED BY <2>3, <2>4
<1> QED BY <1>4, <1>5

\* A save puts the project row before the state and may stop in between.
LEMMA PatchSteps ==
    ASSUME ProjectsInv, NEW s \in Slots,
           PatchReadProject(s) \/ PatchPutProject(s) \/ PatchTooLarge(s)
    PROVE  ProjectsInv'
<1>1. ProjectsType
  BY DEF ProjectsInv
<1>2. /\ {"patch.project", "patch.meta", "patch.put"}
            \cap (Awaited \cup {"update.put", "delete.project"}) = {}
      /\ {"patch.project", "patch.meta", "patch.put"} \subseteq StateWriters
  BY DEF Awaited, Removals, StateWriters, SaveSteps
<1>3. ASSUME PatchReadProject(s) PROVE ProjectsInv'
  <2>1. req[s] \in PatchHandlers /\ req[s].at = "patch.project" /\ UNCHANGED projectVars
    BY <1>1, <1>3, HandlersKnow DEF PatchReadProject, At
  <2>2. PICK p \in ProjectIds : p = req[s].p
    BY <2>1 DEF PatchHandlers
  <2>3. PICK n : n = IF projects[p] = None THEN [req[s] EXCEPT !.at = "patch.put"]
                     ELSE [at |-> "patch.meta", p |-> p, read |-> req[s].read,
                           patch |-> req[s].patch, row |-> projects[p]]
    OBVIOUS
  <2>4. /\ n \in ProjectHandlers /\ n.at \in {"patch.put", "patch.meta"} /\ n.p = p
        /\ n.read = req[s].read /\ n.patch = req[s].patch
    <3>1. CASE projects[p] = None
      BY <2>1, <2>2, <2>3, <3>1 DEF ProjectHandlers, PatchHandlers
    <3>2. CASE projects[p] # None
      <4>1. n = [at |-> "patch.meta", p |-> p, read |-> req[s].read,
                 patch |-> req[s].patch, row |-> projects[p]]
        BY <2>3, <3>2
      <4>2. projects[p] \in ProjectRows
        BY <1>1, <3>2 DEF ProjectsType
      <4>3. n \in PatchMetaHandlers
        BY <2>1, <4>1, <4>2 DEF PatchMetaHandlers, PatchHandlers
      <4> QED BY <4>1, <4>3 DEF ProjectHandlers
    <3> QED BY <3>1, <3>2
  <2>5. LoadsAgain(n)
    BY <2>1, <2>4 DEF ProjectsInv, StatesLoad, LoadsAgain, SaveSteps
  <2>6. Become(s, n)
    BY <1>1, <1>3, <2>2, <2>3 DEF PatchReadProject, Goto, Become, ProjectsType
  <2>7. /\ req[s].at \notin Awaited /\ n.at \notin Awaited
        /\ n.at \notin {"update.put", "delete.project"} /\ req[s].at \in StateWriters
        /\ req[s].p = n.p
    BY <1>2, <2>1, <2>2, <2>4
  <2> QED BY <2>1, <2>4, <2>5, <2>6, <2>7, ReadingStep
<1>4. ASSUME PatchPutProject(s) PROVE ProjectsInv'
  <2>1. req[s] \in PatchMetaHandlers /\ req[s].at = "patch.meta"
    BY <1>1, <1>4, HandlersKnow DEF PatchPutProject, At
  <2>2. PICK p \in ProjectIds, read \in ProjectRows : p = req[s].p /\ read = req[s].row
    BY <2>1 DEF PatchMetaHandlers
  <2>3. PICK row \in ProjectRows : row = SyncedMeta(read, Merged(s))
    BY SyncedMetaIsARow
  <2>4. PICK n : n = [at |-> "patch.put", p |-> p, read |-> req[s].read, patch |-> req[s].patch]
    OBVIOUS
  <2>5. /\ n \in ProjectHandlers /\ n.at = "patch.put" /\ n.p = p
        /\ n.read = req[s].read /\ n.patch = req[s].patch
    BY <2>1, <2>4 DEF ProjectHandlers, PatchMetaHandlers, PatchHandlers
  <2>6. LoadsAgain(n)
    BY <2>1, <2>5 DEF ProjectsInv, StatesLoad, LoadsAgain, SaveSteps
  <2>7. /\ Become(s, n) /\ projects' = [projects EXCEPT ![p] = row]
        /\ Overtaken(p, projects[p] # read)
        /\ UNCHANGED <<states, activities, corpus, used, saver>>
    BY <1>4, <2>2, <2>3, <2>4 DEF PatchPutProject
  <2>8. p \in used
    BY <1>2, <2>1, <2>2 DEF ProjectsInv, ProjectKept, NoStateYet, Does
  <2>9. /\ projects' \in [ProjectIds -> ProjectRows \cup {None}]
        /\ tainted \subseteq tainted' /\ tainted' \subseteq ProjectIds
        /\ \A q \in ProjectIds : projects'[q] # None => projects[q] # None \/ q \in used
        /\ \A q \in ProjectIds \ tainted' : projects'[q] = None <=> projects[q] = None
    BY <2>2, <2>3, <2>7, <2>8, ProjectRowPut
  <2>10. activities' \in [ProjectIds -> [Events -> ActivityRows \cup {None}]]
    BY <1>1, <2>7 DEF ProjectsType
  <2>11. /\ req[s].at \notin Awaited /\ n.at \notin Awaited
         /\ n.at \notin {"update.put", "delete.project"} /\ req[s].at \in StateWriters
         /\ req[s].p = n.p
    BY <1>2, <2>1, <2>2, <2>5
  <2> QED BY <2>5, <2>6, <2>7, <2>9, <2>10, <2>11, OrdinaryStep
<1>5. ASSUME PatchTooLarge(s) PROVE ProjectsInv'
  <2>1. req[s].at \notin Awaited /\ req[s].p \in ProjectIds
    BY <1>1, <1>2, <1>5, HandlersKnow DEF PatchTooLarge, At
  <2>2. /\ Return(s) /\ tainted' = tainted \cup {req[s].p}
        /\ UNCHANGED <<projects, states, activities, corpus, used, saver>>
    BY <1>5 DEF PatchTooLarge
  <2>3. tainted \subseteq tainted' /\ tainted' \subseteq ProjectIds
    BY <1>1, <2>1, <2>2 DEF ProjectsType
  <2> QED BY <1>1, <2>1, <2>2, <2>3, AnsweringStep DEF ProjectsType
<1> QED BY <1>3, <1>4, <1>5

\* A handler that dies at a step that is awaited is noted.
LEMMA AbortStep ==
    ASSUME ProjectsInv, NEW s \in Slots, AbortProjectRequest(s)
    PROVE  ProjectsInv'
<1>1. ProjectsType
  BY DEF ProjectsInv
<1>2. req[s].p \in ProjectIds /\ Awaited \subseteq HalfDone
  BY <1>1, HandlersKnow
     DEF AbortProjectRequest, ProjectSteps, HalfDone, At, Awaited, Removals
<1>3. /\ Return(s) /\ UNCHANGED <<projects, states, activities, corpus, used, saver>>
      /\ tainted' = IF req[s].at \in HalfDone THEN tainted \cup {req[s].p} ELSE tainted
  BY DEF AbortProjectRequest
<1>4. tainted \subseteq tainted' /\ tainted' \subseteq ProjectIds
  BY <1>1, <1>2, <1>3 DEF ProjectsType
<1>5. req[s].at \in Awaited => req[s].p \in tainted'
  BY <1>2, <1>3
<1> QED BY <1>1, <1>3, <1>4, <1>5, AnsweringStep DEF ProjectsType

-----------------------------------------------------------------------------
\* Every step of the projects keeps their invariant, whatever requests an area
\* has.
LEMMA ProjectsInvStep ==
    ASSUME ProjectsInv, NEW s \in Slots,
           \/ \E p \in ProjectIds :
                \/ LifeRequest(s, p) \/ ClientRequest(s, p) \/ NoteRequest(s, p)
                \/ \E patches \in SUBSET Patches : DocumentRequest(s, p, patches)
           \/ ProjectStep(s)
           \/ AbortProjectRequest(s)
    PROVE  ProjectsInv'
<1>1. ASSUME NEW p \in ProjectIds, LifeRequest(s, p) PROVE ProjectsInv'
  BY <1>1, CreateProjectStep, DeleteProjectStep DEF LifeRequest, ClientChoices
<1>2. ASSUME NEW p \in ProjectIds, ClientRequest(s, p) PROVE ProjectsInv'
  BY <1>2, CreateProjectStep, UpdateProjectStep DEF ClientRequest, ClientChoices
<1>3. ASSUME NEW p \in ProjectIds, NoteRequest(s, p) PROVE ProjectsInv'
  BY <1>3, NoteRequestStep
<1>4. ASSUME NEW p \in ProjectIds, NEW patches \in SUBSET Patches,
             DocumentRequest(s, p, patches)
      PROVE  ProjectsInv'
  BY <1>4, DocumentRequestStep
<1>5. ASSUME ProjectStep(s) PROVE ProjectsInv'
  BY <1>5, CreateStateStep, ActivitySteps, UpdateSteps, SyncPutStep, DeleteProjectRowStep,
     DeleteStateRowStep, QueryActivitiesStep, DeleteActivityRowStep, PatchSteps,
     PatchPutStateStep, CaptureStep, ComputePutStep
     DEF ProjectStep
<1> QED BY <1>1, <1>2, <1>3, <1>4, <1>5, AbortStep


\* With no handler on a project, nothing of it is waited for.
LEMMA ProjectsInOrder ==
    ASSUME ProjectsInv
    PROVE  RowsAgree /\ CorpusReplaysSection /\ StoredStatesLoad
<1>1. ProjectsType
  BY DEF ProjectsInv
<1>2. ASSUME NEW p \in ProjectIds, Untouched(p)
      PROVE  /\ RowsAreTended(p) /\ CorpusIsTold(p)
             /\ \A s \in Slots : /\ ~Does(req[s], p, {"create.state"})
                                 /\ ~Does(req[s], p, {"delete.state"})
                                 /\ ~Capturing(req[s], p)
                                 /\ \A e \in Events : ~WillSweep(req[s], p, e)
  <2>1. ASSUME NEW s \in Slots, req[s].at # "idle" PROVE req[s].p # p
    BY <1>1, <1>2, <2>1, HandlersKnow DEF At, Untouched
  <2> QED BY <1>2, <2>1 DEF ProjectsInv, ProjectKept, Untouched, Does, Capturing, WillSweep
<1>3. ASSUME NEW p \in ProjectIds, Untouched(p)
      PROVE  /\ projects[p] = None <=> states[p] = None
             /\ projects[p] = None => activities[p] = NoEvents
  <2>1. activities[p] \in [Events -> ActivityRows \cup {None}]
    BY <1>1 DEF ProjectsType
  <2>2. projects[p] = None => \A e \in Events : activities[p][e] = None
    BY <1>2, <1>3 DEF RowsAreTended
  <2>3. projects[p] = None => activities[p] = NoEvents
    BY <2>1, <2>2 DEF NoEvents, Events
  <2> QED BY <1>2, <1>3, <2>3 DEF RowsAreTended
<1>4. ASSUME NEW p \in ProjectIds, Untouched(p), states[p] # None
      PROVE  corpus[p] = Trajectory(states[p].section)
  BY <1>2, <1>4 DEF CorpusIsTold, Doomed
<1> QED
  BY <1>3, <1>4 DEF RowsAgree, CorpusReplaysSection, Trajectory, ProjectsInv, StatesLoad


\* The invariant is about the requests and the projects only.
LEMMA ProjectsStutter ==
    ASSUME ProjectsInv, UNCHANGED <<req, projectVars>>
    PROVE  ProjectsInv'
BY DEF projectVars, ProjectsInv, ProjectsType, StatesLoad, StoredStatesLoad, LoadsAgain,
       ProjectKept, UnusedIsEmpty, NoStateYet, OneCreator, RowsAreTended, WillSweep,
       CorpusIsTold, Capturing, Doomed
=============================================================================
