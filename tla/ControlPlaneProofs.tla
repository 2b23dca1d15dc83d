------------------------ MODULE ControlPlaneProofs ------------------------
(***************************************************************************)
(* What is proved of the control plane as a whole.  A behaviour has        *)
(* requests of one area.  In the area of a component every step is a step  *)
(* of the component, whose inductive invariant is in StoreProofs; in the   *)
(* other areas the component's state is what it was at first.              *)
(***************************************************************************)
EXTENDS ControlPlane, StoreProofs, ProjectsProofs

\* The area of a behaviour never changes.
LEMMA AreaIsFixed ==
    ASSUME [Next]_vars
    PROVE  area' = area
BY DEF Next, vars, ProjectWork, CompanyWork, TenantWork, GuardRailWork, RoutingWork, FileWork, Ask

-----------------------------------------------------------------------------
(* Guard rails *)

\* Only the area of the guard rails touches them, by steps of GuardRails.
LEMMA GuardRailSteps ==
    ASSUME [Next]_vars
    PROVE  IF area = "guard rails" THEN [GuardRailsNext]_<<req, railVars>>
           ELSE UNCHANGED railVars
BY DEF Next, vars, ProjectWork, CompanyWork, TenantWork, GuardRailWork, RoutingWork, FileWork, Ask,
       ProjectAreas, TenantAreas

GuardRailsInOrder ==
    IF area = "guard rails" THEN RailsInv ELSE versionMeta = scopes

\* GET and the agents compare versions to find out if their copy of the rules
\* is stale: whenever no writer owes a refresh and none went wrong, the
\* version is the one of the scopes.
THEOREM VersionsAreOfTheScopes == Spec => []VersionMatchesScopes
<1>1. Init => GuardRailsInOrder
  <2> SUFFICES ASSUME Init PROVE GuardRailsInOrder
    OBVIOUS
  <2>1. RequestsInit /\ GuardRailsInit
    BY DEF Init
  <2>2. RailsInv
    BY <2>1, RailsInvInit
  <2>3. versionMeta = scopes
    BY <2>1 DEF GuardRailsInit
  <2> QED BY <2>2, <2>3 DEF GuardRailsInOrder
<1>2. GuardRailsInOrder /\ [Next]_vars => GuardRailsInOrder'
  <2> SUFFICES ASSUME GuardRailsInOrder, [Next]_vars PROVE GuardRailsInOrder'
    OBVIOUS
  <2>1. area' = area
    BY AreaIsFixed
  <2>2. CASE area = "guard rails"
    <3>1. RailsInv /\ [GuardRailsNext]_<<req, railVars>>
      BY <2>2, GuardRailSteps DEF GuardRailsInOrder
    <3>2. RailsInv'
      BY <3>1, RailsInvStep
    <3> QED BY <2>1, <2>2, <3>2 DEF GuardRailsInOrder
  <2>3. CASE area # "guard rails"
    <3>1. versionMeta = scopes /\ UNCHANGED railVars
      BY <2>3, GuardRailSteps DEF GuardRailsInOrder
    <3> QED BY <2>1, <2>3, <3>1 DEF GuardRailsInOrder, railVars
  <2> QED BY <2>2, <2>3
<1>3. GuardRailsInOrder => VersionMatchesScopes
  BY DEF GuardRailsInOrder, RailsInv, VersionMatchesScopes
<1> QED
  BY <1>1, <1>2, <1>3, PTL DEF Spec

-----------------------------------------------------------------------------
(* Clients *)

\* Only the area of the companies touches the clients, by steps of Clients.
LEMMA CompanySteps ==
    ASSUME [Next]_vars
    PROVE  IF area = "companies" THEN [ClientsNext]_<<req, clientVars>>
           ELSE UNCHANGED clientVars
BY DEF Next, vars, ProjectWork, CompanyWork, TenantWork, GuardRailWork, RoutingWork, FileWork, Ask,
       ProjectAreas, TenantAreas

NoClientYet ==
    /\ \A i \in ClientIds : clients[i] = None
    /\ \A c \in Companies : filed[c] = None

CompaniesInOrder ==
    IF area = "companies" THEN ClientsInv ELSE NoClientYet

\* The one row of a company says all that was ever put on file for it, by
\* however many requests, unless requests on the company collided.
THEOREM FilesAreKept == Spec => []CompaniesKeepTheirFiles
<1>1. Init => CompaniesInOrder
  <2> SUFFICES ASSUME Init PROVE CompaniesInOrder
    OBVIOUS
  <2>1. RequestsInit /\ ClientsInit
    BY DEF Init
  <2>2. ClientsInv
    BY <2>1, ClientsInvInit
  <2>3. NoClientYet
    BY <2>1 DEF ClientsInit, NoClientYet
  <2> QED BY <2>2, <2>3 DEF CompaniesInOrder
<1>2. CompaniesInOrder /\ [Next]_vars => CompaniesInOrder'
  <2> SUFFICES ASSUME CompaniesInOrder, [Next]_vars PROVE CompaniesInOrder'
    OBVIOUS
  <2>1. area' = area
    BY AreaIsFixed
  <2>2. CASE area = "companies"
    <3>1. ClientsInv /\ [ClientsNext]_<<req, clientVars>>
      BY <2>2, CompanySteps DEF CompaniesInOrder
    <3>2. ClientsInv'
      BY <3>1, ClientsInvStep
    <3> QED BY <2>1, <2>2, <3>2 DEF CompaniesInOrder
  <2>3. CASE area # "companies"
    <3>1. NoClientYet /\ UNCHANGED clientVars
      BY <2>3, CompanySteps DEF CompaniesInOrder
    <3> QED BY <2>1, <2>3, <3>1 DEF CompaniesInOrder, clientVars, NoClientYet
  <2> QED BY <2>2, <2>3
<1>3. CompaniesInOrder => CompaniesKeepTheirFiles
  BY DEF CompaniesInOrder, ClientsInv, CompaniesKeepTheirFiles, NoClientYet, RowsOf
<1> QED
  BY <1>1, <1>2, <1>3, PTL DEF Spec

-----------------------------------------------------------------------------
(* Data routing *)

\* In the area of the data routing every step is one of DataRouting.
LEMMA RoutingSteps ==
    ASSUME [Next]_vars, area = "data routing"
    PROVE  [DataRoutingNext]_<<req, routingVars>>
BY DEF Next, vars, ProjectWork, CompanyWork, TenantWork, GuardRailWork, RoutingWork, FileWork, Ask,
       ProjectAreas, TenantAreas

RoutingInOrder == area = "data routing" => RoutingInv

\* Whoever is served is served by the base of its origin, however many runs
\* have set and put back the base before, unless requests overlap with a run.
\* (Handlers of other areas are served by no data service.)
THEOREM OriginsAlwaysDecide == Spec => [](area = "data routing" => OriginsDecide)
<1>1. Init => RoutingInOrder
  <2> SUFFICES ASSUME Init, area = "data routing" PROVE RoutingInv
    BY DEF RoutingInOrder
  <2>1. RequestsInit /\ DataRoutingInit(Environments)
    BY DEF Init
  <2> QED BY <2>1, RoutingInvInit
<1>2. RoutingInOrder /\ [Next]_vars => RoutingInOrder'
  <2> SUFFICES ASSUME RoutingInOrder, [Next]_vars, area' = "data routing" PROVE RoutingInv'
    BY DEF RoutingInOrder
  <2>1. area = "data routing"
    BY AreaIsFixed
  <2>2. RoutingInv /\ [DataRoutingNext]_<<req, routingVars>>
    BY <2>1, RoutingSteps DEF RoutingInOrder
  <2> QED BY <2>2, RoutingInvStep
<1>3. RoutingInOrder => (area = "data routing" => OriginsDecide)
  BY DEF RoutingInOrder, RoutingInv
<1> QED
  BY <1>1, <1>2, <1>3, PTL DEF Spec

-----------------------------------------------------------------------------
(* File store *)

\* Only the area of the file store touches the file, by steps of FileStore.
LEMMA FileSteps ==
    ASSUME [Next]_vars
    PROVE  IF area = "file store" THEN [FileStoreNext]_<<req, fileVars>>
           ELSE UNCHANGED fileVars
BY DEF Next, vars, ProjectWork, CompanyWork, TenantWork, GuardRailWork, RoutingWork, FileWork, Ask,
       ProjectAreas, TenantAreas

NothingStoredYet ==
    /\ DOMAIN disk \subseteq DOMAIN mem
    /\ \A k \in DOMAIN disk : disk[k] = mem[k]
    /\ slugIndex = SlugsOf(mem)

FilesInOrder ==
    IF area = "file store" THEN FileInv ELSE NothingStoredYet

\* When no call is under way, the file holds what the process holds, but for
\* what is known to be unsaved, and a restart leads every slug where it led.
THEOREM RestartsAreHarmless == Spec => []RestartsChangeNothing
<1>1. Init => FilesInOrder
  <2> SUFFICES ASSUME Init PROVE FilesInOrder
    OBVIOUS
  <2>1. RequestsInit /\ FileStoreInit
    BY DEF Init
  <2>2. FileInv
    BY <2>1, FileInvInit
  <2>3. NothingStoredYet
    BY <2>1, FileStoreAssumption
       DEF FileStoreInit, NothingStoredYet, Empty, SlugsOf, SavedKinds
  <2> QED BY <2>2, <2>3 DEF FilesInOrder
<1>2. FilesInOrder /\ [Next]_vars => FilesInOrder'
  <2> SUFFICES ASSUME FilesInOrder, [Next]_vars PROVE FilesInOrder'
    OBVIOUS
  <2>1. area' = area
    BY AreaIsFixed
  <2>2. CASE area = "file store"
    <3>1. FileInv /\ [FileStoreNext]_<<req, fileVars>>
      BY <2>2, FileSteps DEF FilesInOrder
    <3>2. FileInv'
      BY <3>1, FileInvStep
    <3> QED BY <2>1, <2>2, <3>2 DEF FilesInOrder
  <2>3. CASE area # "file store"
    <3>1. NothingStoredYet /\ UNCHANGED fileVars
      BY <2>3, FileSteps DEF FilesInOrder
    <3> QED BY <2>1, <2>3, <3>1 DEF FilesInOrder, fileVars, NothingStoredYet, SlugsOf
  <2> QED BY <2>2, <2>3
<1>3. FilesInOrder => RestartsChangeNothing
  <2>1. FileInv => RestartsChangeNothing
    <3> SUFFICES ASSUME FileInv, \A s \in Slots : ~Busy(s)
                 PROVE  /\ \A k \in DOMAIN disk \ unsaved : disk[k] = mem[k]
                        /\ slugIndex = SlugsOf(mem)
      BY DEF RestartsChangeNothing
    <3>1. \A s \in Slots : ~At(s, "file.save") /\ ~At(s, "file.dump")
      BY DEF Busy, At
    <3>2. DOMAIN disk = SavedKinds
      BY DEF FileInv, FileType
    <3> QED BY <3>1, <3>2 DEF FileInv, Accounted
  <2>2. NothingStoredYet => RestartsChangeNothing
    BY DEF NothingStoredYet, RestartsChangeNothing
  <2> QED BY <2>1, <2>2 DEF FilesInOrder
<1> QED
  BY <1>1, <1>2, <1>3, PTL DEF Spec

-----------------------------------------------------------------------------
(* Projects *)

\* In the areas of the projects a step is one of Projects, with the patches of
\* the area; in the other areas it leaves the projects alone.
LEMMA ProjectsMove ==
    ASSUME [Next]_vars
    PROVE  \/ area \in ProjectAreas /\ ProjectWork
           \/ area \in ProjectAreas /\ UNCHANGED <<req, projectVars>>
           \/ area \notin ProjectAreas /\ UNCHANGED projectVars
BY DEF Next, vars, ProjectWork, CompanyWork, TenantWork, GuardRailWork, RoutingWork, FileWork, Ask,
       ProjectAreas, TenantAreas

\* Whatever the area, a request on a project keeps the invariant of the projects.
LEMMA ProjectWorkStep ==
    ASSUME ProjectsInv, ProjectWork
    PROVE  ProjectsInv'
<1>1. PICK s \in Slots : \/ \E p \in ProjectIds : ProjectRequest(s, p)
                         \/ ProjectStep(s)
                         \/ AbortProjectRequest(s)
  BY DEF ProjectWork
<1>2. PatchesOf(area) \in SUBSET Patches
  BY ControlPlaneAssumption DEF PatchesOf
<1>3. ASSUME NEW p \in ProjectIds, ProjectRequest(s, p)
      PROVE  \/ LifeRequest(s, p) \/ ClientRequest(s, p) \/ NoteRequest(s, p)
             \/ \E patches \in SUBSET Patches : DocumentRequest(s, p, patches)
  BY <1>2, <1>3 DEF ProjectRequest
<1> QED BY <1>1, <1>3, ProjectsInvStep

NoProjectYet ==
    \A p \in ProjectIds : projects[p] = None /\ states[p] = None /\ activities[p] = NoEvents

ProjectsHold ==
    IF area \in ProjectAreas THEN ProjectsInv ELSE NoProjectYet

\* The projects are in order in every area.
LEMMA ProjectsAlwaysHold == Spec => []ProjectsHold
<1>1. Init => ProjectsHold
  <2> SUFFICES ASSUME Init PROVE ProjectsHold
    OBVIOUS
  <2>1. RequestsInit /\ ProjectsInit
    BY DEF Init
  <2>2. ProjectsInv
    BY <2>1, ProjectsInvInit
  <2>3. NoProjectYet
    BY <2>1 DEF ProjectsInit, NoProjectYet
  <2> QED BY <2>2, <2>3 DEF ProjectsHold
<1>2. ProjectsHold /\ [Next]_vars => ProjectsHold'
  <2> SUFFICES ASSUME ProjectsHold, [Next]_vars PROVE ProjectsHold'
    OBVIOUS
  <2>1. area' = area
    BY AreaIsFixed
  <2>2. CASE area \in ProjectAreas /\ ProjectWork
    <3>1. ProjectsInv'
      BY <2>2, ProjectWorkStep DEF ProjectsHold
    <3> QED BY <2>1, <2>2, <3>1 DEF ProjectsHold
  <2>3. CASE area \in ProjectAreas /\ UNCHANGED <<req, projectVars>>
    <3>1. ProjectsInv
      BY <2>3 DEF ProjectsHold
    <3>2. ProjectsInv'
      BY <2>3, <3>1, ProjectsStutter
    <3> QED BY <2>1, <2>3, <3>2 DEF ProjectsHold
  <2>4. CASE area \notin ProjectAreas /\ UNCHANGED projectVars
    <3>1. NoProjectYet
      BY <2>4 DEF ProjectsHold
    <3> QED BY <2>1, <2>4, <3>1 DEF ProjectsHold, NoProjectYet, projectVars
  <2> QED BY <2>2, <2>3, <2>4, ProjectsMove
<1> QED
  BY <1>1, <1>2, PTL DEF Spec

\* With no request under way on a project that no collision or crash has
\* touched, its rows are all there or all gone, whatever requests there have
\* been, on it or on others.
THEOREM RowsAlwaysAgree == Spec => []RowsAgree
<1>1. ProjectsHold => RowsAgree
  <2>1. NoProjectYet => RowsAgree
    BY DEF NoProjectYet, RowsAgree
  <2> QED BY <2>1, ProjectsInOrder DEF ProjectsHold
<1> QED
  BY <1>1, ProjectsAlwaysHold, PTL

\* Whoever replays the events of a section ends at the stored text and
\* approval, unless requests collided or an event was lost.
THEOREM CorpusAlwaysReplays == Spec => []CorpusReplaysSection
<1>1. ProjectsHold => CorpusReplaysSection
  <2>1. NoProjectYet => CorpusReplaysSection
    BY DEF NoProjectYet, CorpusReplaysSection
  <2> QED BY <2>1, ProjectsInOrder DEF ProjectsHold
<1> QED
  BY <1>1, ProjectsAlwaysHold, PTL

\* No sequence of patches, computes and client changes, overtaking each other
\* or not, stores a state that the next load refuses.
THEOREM StoredStatesAlwaysLoad == Spec => []StoredStatesLoad
<1>1. ProjectsHold => StoredStatesLoad
  <2>1. NoProjectYet => StoredStatesLoad
    BY DEF NoProjectYet, StoredStatesLoad
  <2> QED BY <2>1, ProjectsInOrder DEF ProjectsHold
<1> QED
  BY <1>1, ProjectsAlwaysHold, PTL

-----------------------------------------------------------------------------
(* Tenants *)

\* In the areas of the tenants a step is one of Tenants; in the other areas it
\* leaves the tenants alone.
LEMMA TenantsMove ==
    ASSUME [Next]_vars
    PROVE  \/ area \in TenantAreas /\ TenantWork
           \/ area \in TenantAreas /\ UNCHANGED <<req, tenantVars>>
           \/ area \notin TenantAreas /\ UNCHANGED tenantVars
BY DEF Next, vars, ProjectWork, CompanyWork, TenantWork, GuardRailWork, RoutingWork, FileWork, Ask,
       ProjectAreas, TenantAreas

TenantsHold ==
    IF area = "purge" THEN PurgeInv
    ELSE IF area \in TenantAreas THEN SetupInv(area = "llm")
    ELSE TenantsAtRest

\* The requests of an area keep the invariant of the area.
LEMMA TenantWorkStep ==
    ASSUME TenantsHold, TenantWork
    PROVE  TenantsHold'
<1>1. area \in TenantAreas /\ area' = area
  BY DEF TenantWork
<1>2. PICK s \in Slots :
        \/ \E t \in TenantIds :
            \/ area # "purge" /\ TenantRequest(s, t)
            \/ area \in {"fresh", "slugs"} /\ SlugRequest(s, t)
            \/ area = "llm" /\ LlmRequest(s, t)
            \/ area = "purge" /\ PurgeRequest(s, t)
        \/ TenantStep(s)
        \/ AbortTenantRequest(s)
  BY DEF TenantWork
<1>3. CASE area = "purge"
  <2>1. PurgeInv
    BY <1>3 DEF TenantsHold
  <2>2. PurgeInv'
    BY <1>2, <1>3, <2>1, PurgeInvStep
  <2> QED BY <1>1, <1>3, <2>2 DEF TenantsHold
<1>4. CASE area = "llm"
  <2>1. SetupInv(TRUE)
    BY <1>1, <1>4 DEF TenantsHold
  <2>2. SetupInv(TRUE)'
    BY <1>2, <1>4, <2>1, SetupInvStep
  <2>3. SetupInv(area = "llm")'
    BY <1>1, <1>4, <2>2
  <2> QED BY <1>1, <1>4, <2>3 DEF TenantsHold
<1>5. CASE area \in {"fresh", "slugs"}
  <2>1. SetupInv(FALSE)
    BY <1>1, <1>5 DEF TenantsHold
  <2>2. SetupInv(FALSE)'
    BY <1>2, <1>5, <2>1, SetupInvStep
  <2>3. SetupInv(area = "llm")'
    BY <1>1, <1>5, <2>2
  <2> QED BY <1>1, <1>5, <2>3 DEF TenantsHold
<1> QED BY <1>1, <1>3, <1>4, <1>5 DEF TenantAreas

\* The tenants are in order in every area.
LEMMA TenantsAlwaysHold == Spec => []TenantsHold
<1>1. Init => TenantsHold
  <2> SUFFICES ASSUME Init PROVE TenantsHold
    OBVIOUS
  <2>1. RequestsInit /\ TenantsInit(Deployment(area)) /\ Deployment(area) \in StartingKinds
    BY ControlPlaneAssumption DEF Init
  <2>2. TenantsAtRest
    BY <2>1, StartsAtRest
  <2> QED BY <2>1, <2>2, SetupInvInit, PurgeInvInit DEF TenantsHold
<1>2. TenantsHold /\ [Next]_vars => TenantsHold'
  <2> SUFFICES ASSUME TenantsHold, [Next]_vars PROVE TenantsHold'
    OBVIOUS
  <2>1. area' = area
    BY AreaIsFixed
  <2>2. CASE area \in TenantAreas /\ TenantWork
    BY <2>2, TenantWorkStep
  <2>3. CASE area = "purge" /\ UNCHANGED <<req, tenantVars>>
    <3>1. PurgeInv
      BY <2>3 DEF TenantsHold
    <3>2. PurgeInv'
      BY <2>3, <3>1, PurgeInvStutter
    <3> QED BY <2>1, <2>3, <3>2 DEF TenantsHold
  <2>4. CASE area # "purge" /\ area \in TenantAreas /\ UNCHANGED <<req, tenantVars>>
    <3> PICK updates \in BOOLEAN : updates = (area = "llm")
      OBVIOUS
    <3>1. SetupInv(updates)
      BY <2>4 DEF TenantsHold
    <3>2. SetupInv(updates)'
      BY <2>4, <3>1, SetupInvStutter
    <3>3. SetupInv(area = "llm")'
      BY <2>1, <3>2
    <3> QED BY <2>1, <2>4, <3>3 DEF TenantsHold
  <2>5. CASE area \notin TenantAreas /\ UNCHANGED tenantVars
    <3>1. TenantsAtRest
      BY <2>5 DEF TenantsHold, TenantAreas
    <3>2. TenantsAtRest'
      BY <2>5, <3>1, TenantsStayAtRest
    <3> QED BY <2>1, <2>5, <3>2 DEF TenantsHold, TenantAreas
  <2> QED BY <2>2, <2>3, <2>4, <2>5, TenantsMove
<1> QED
  BY <1>1, <1>2, PTL DEF Spec

\* What the tenants promise follows from their order in every area.
LEMMA TenantsKeepPromises ==
    ASSUME TenantsHold
    PROVE  SlugsLeadHome /\ CopiesFollowBaseline /\ PurgeIsComplete
BY SetupKeepsPromises, PurgeKeepsPromises, RestKeepsPromises DEF TenantsHold

\* The slug of a tenant leads to it and to nobody else, however creations,
\* renames and the numbering of old tenants overlap, unless two of them collided
\* or one died half way.
THEOREM SlugsAlwaysLeadHome == Spec => []SlugsLeadHome
<1>1. TenantsHold => SlugsLeadHome
  BY TenantsKeepPromises
<1> QED
  BY <1>1, TenantsAlwaysHold, PTL

\* What a tenant has copied under a version of the baseline is what was
\* published as that version, and the Platform tenant has the newest when
\* nothing is under way, unless updates of the baseline collided.
THEOREM CopiesAlwaysFollow == Spec => []CopiesFollowBaseline
<1>1. TenantsHold => CopiesFollowBaseline
  BY TenantsKeepPromises
<1> QED
  BY <1>1, TenantsAlwaysHold, PTL

\* No row is left of a tenant that was purged, its people are left with neither
\* profile nor account, and all others keep theirs, unless somebody wrote into
\* the tenant while it was purged.
THEOREM PurgesAreComplete == Spec => []PurgeIsComplete
<1>1. TenantsHold => PurgeIsComplete
  BY TenantsKeepPromises
<1> QED
  BY <1>1, TenantsAlwaysHold, PTL

-----------------------------------------------------------------------------
(* Merged guard rails and the briefs that follow them *)

\* The levels of a place in their order, up to one of them.
UpTo(l) ==
    CASE l = "default" -> {"default"}
      [] l = "state" -> {"default", "state"}
      [] l = "county" -> {"default", "state", "county"}
      [] l = "jurisdiction" -> Briefs!Levels

NamingUpTo(layers, l, kind, c) ==
    {m \in UpTo(l) : layers[m] # None /\ c \in DOMAIN layers[m][kind]}

\* What has been merged up to a level: the codes that are named so far, and of
\* each all that the last layer that names it says, but maybe a budget.
MergedUpTo(merged, layers, l, kind, defaults) ==
    /\ DOMAIN merged = UNION {DOMAIN layers[m][kind] : m \in {n \in UpTo(l) : layers[n] # None}}
    /\ \A c \in DOMAIN merged :
        LET rule == layers[Briefs!MostSpecific(NamingUpTo(layers, l, kind, c))][kind][c]
        IN  \A k \in DOMAIN defaults \ {"retrieval_budget"} :
                k \in DOMAIN merged[c] /\ merged[c][k] = Briefs!Validated(rule, defaults)[k]

\* A rule on top of another one says all that it says itself, defaults included.
LEMMA DumpsCoverAll ==
    ASSUME NEW broader, NEW rule, NEW defaults, NEW k \in DOMAIN defaults \ {"retrieval_budget"}
    PROVE  LET merged == Briefs!DeepMerge(broader, Briefs!Dump(Briefs!Validated(rule, defaults)))
           IN  k \in DOMAIN merged /\ merged[k] = Briefs!Validated(rule, defaults)[k]
<1> DEFINE valid == Briefs!Validated(rule, defaults)
           dump == Briefs!Dump(valid)
<1>1. DOMAIN valid = DOMAIN defaults
  BY DEF Briefs!Validated
<1>2. k \in DOMAIN dump /\ dump[k] = valid[k]
  <2> HIDE DEF valid
  <2> QED BY <1>1 DEF Briefs!Dump
<1> HIDE DEF valid, dump
<1>3. k \in DOMAIN Briefs!DeepMerge(broader, dump) /\ Briefs!DeepMerge(broader, dump)[k] = dump[k]
  BY <1>2 DEF Briefs!DeepMerge
<1> QED BY <1>2, <1>3 DEF valid, dump

\* Adding the layer of the next level.
LEMMA NextLayer ==
    ASSUME NEW merged, NEW layers, NEW kind, NEW defaults, NEW l, NEW next,
           \/ l = "default" /\ next = "state"
           \/ l = "state" /\ next = "county"
           \/ l = "county" /\ next = "jurisdiction",
           MergedUpTo(merged, layers, l, kind, defaults)
    PROVE  MergedUpTo(Briefs!WithLayer(merged, layers[next], kind, defaults),
                      layers, next, kind, defaults)
<1> DEFINE layer == layers[next]
           with == Briefs!WithLayer(merged, layer, kind, defaults)
           Rule(m, c) == layers[Briefs!MostSpecific(NamingUpTo(layers, m, kind, c))][kind][c]
<1>1. UpTo(next) = UpTo(l) \cup {next} /\ next \notin UpTo(l)
  BY DEF UpTo, Briefs!Levels
<1>2. /\ UpTo(l) \subseteq {"default", "state", "county"}
      /\ l = "default" => UpTo(l) = {"default"}
      /\ l = "state" => UpTo(l) = {"default", "state"}
  BY DEF UpTo
<1>3. CASE layer = None
  <2>1. with = merged
    BY <1>3 DEF Briefs!WithLayer
  <2>2. \A c : NamingUpTo(layers, next, kind, c) = NamingUpTo(layers, l, kind, c)
    BY <1>1, <1>3 DEF NamingUpTo
  <2>3. {n \in UpTo(next) : layers[n] # None} = {n \in UpTo(l) : layers[n] # None}
    BY <1>1, <1>3
  <2>4. MergedUpTo(merged, layers, next, kind, defaults)
    BY <2>2, <2>3 DEF MergedUpTo
  <2> QED BY <2>1, <2>4
<1>4. CASE layer # None
  <2> DEFINE Prior(c) == IF c \in DOMAIN merged THEN merged[c] ELSE <<>>
             Top(c) == Briefs!DeepMerge(Prior(c), Briefs!Dump(Briefs!Validated(layer[kind][c], defaults)))
  <2>1. with = [c \in DOMAIN merged \cup DOMAIN layer[kind] |->
                  IF c \in DOMAIN layer[kind] THEN Top(c) ELSE merged[c]]
    BY <1>4 DEF Briefs!WithLayer
  <2>2. {n \in UpTo(next) : layers[n] # None} = {n \in UpTo(l) : layers[n] # None} \cup {next}
    BY <1>1, <1>4
  <2>3. DOMAIN with = UNION {DOMAIN layers[m][kind] : m \in {n \in UpTo(next) : layers[n] # None}}
    <3>1. DOMAIN with = DOMAIN merged \cup DOMAIN layer[kind]
      <4> HIDE DEF Top, with
      <4> QED BY <2>1
    <3>2. DOMAIN merged = UNION {DOMAIN layers[m][kind] : m \in {n \in UpTo(l) : layers[n] # None}}
      BY DEF MergedUpTo
    <3> HIDE DEF with
    <3> QED BY <2>2, <3>1, <3>2
  <2>4. ASSUME NEW c \in DOMAIN with, NEW k \in DOMAIN defaults \ {"retrieval_budget"}
        PROVE  k \in DOMAIN with[c] /\ with[c][k] = Briefs!Validated(Rule(next, c), defaults)[k]
    <3>1. CASE c \in DOMAIN layer[kind]
      <4>1. with[c] = Top(c)
        <5> HIDE DEF Top, with
        <5> QED BY <2>1, <2>4, <3>1
      <4>2. next \in NamingUpTo(layers, next, kind, c)
        BY <1>1, <1>4, <3>1 DEF NamingUpTo
      <4>3. Briefs!MostSpecific(NamingUpTo(layers, next, kind, c)) = next
        <5>1. NamingUpTo(layers, next, kind, c) \subseteq UpTo(next)
          BY DEF NamingUpTo
        <5> QED BY <1>1, <1>2, <4>2, <5>1 DEF Briefs!MostSpecific
      <4>4. Rule(next, c) = layer[kind][c]
        BY <4>3
      <4>5. k \in DOMAIN Top(c) /\ Top(c)[k] = Briefs!Validated(layer[kind][c], defaults)[k]
        BY DumpsCoverAll
      <4> HIDE DEF Top, with, Rule
      <4> QED BY <4>1, <4>4, <4>5
    <3>2. CASE c \notin DOMAIN layer[kind]
      <4>1. c \in DOMAIN merged /\ with[c] = merged[c]
        <5> HIDE DEF Top, with
        <5> QED BY <2>1, <2>4, <3>2
      <4>2. NamingUpTo(layers, next, kind, c) = NamingUpTo(layers, l, kind, c)
        BY <1>1, <3>2 DEF NamingUpTo
      <4>3. Rule(next, c) = Rule(l, c)
        BY <4>2
      <4>4. k \in DOMAIN merged[c] /\ merged[c][k] = Briefs!Validated(Rule(l, c), defaults)[k]
        BY <2>4, <4>1 DEF MergedUpTo
      <4> HIDE DEF with, Rule
      <4> QED BY <4>1, <4>3, <4>4
    <3> QED BY <3>1, <3>2
  <2>5. MergedUpTo(with, layers, next, kind, defaults)
    <3> HIDE DEF with
    <3> QED BY <2>3, <2>4 DEF MergedUpTo
  <2> QED BY <2>5
<1> QED BY <1>3, <1>4

\* Nothing is merged before the first level.
LEMMA FirstLayer ==
    ASSUME NEW layers, NEW kind, NEW defaults
    PROVE  MergedUpTo(Briefs!WithLayer(<<>>, layers["default"], kind, defaults),
                      layers, "default", kind, defaults)
<1> DEFINE layer == layers["default"]
           with == Briefs!WithLayer(<<>>, layer, kind, defaults)
<1>1. UpTo("default") = {"default"}
  BY DEF UpTo
<1>2. DOMAIN <<>> = {}
  OBVIOUS
<1>3. CASE layer = None
  <2>1. with = <<>>
    BY <1>3 DEF Briefs!WithLayer
  <2>2. {n \in UpTo("default") : layers[n] # None} = {}
    BY <1>1, <1>3
  <2>3. DOMAIN with = {}
    BY <1>2, <2>1
  <2>4. MergedUpTo(with, layers, "default", kind, defaults)
    <3> HIDE DEF with
    <3> QED BY <2>2, <2>3 DEF MergedUpTo
  <2> QED BY <2>4
<1>4. CASE layer # None
  <2> DEFINE Top(c) == Briefs!DeepMerge(<<>>, Briefs!Dump(Briefs!Validated(layer[kind][c], defaults)))
  <2>1. with = [c \in DOMAIN layer[kind] |-> Top(c)]
    BY <1>2, <1>4 DEF Briefs!WithLayer
  <2>2. {n \in UpTo("default") : layers[n] # None} = {"default"}
    BY <1>1, <1>4
  <2>3. DOMAIN with = UNION {DOMAIN layers[m][kind] :
                              m \in {n \in UpTo("default") : layers[n] # None}}
    <3> HIDE DEF Top, with
    <3> QED BY <2>1, <2>2
  <2>4. ASSUME NEW c \in DOMAIN with, NEW k \in DOMAIN defaults \ {"retrieval_budget"}
        PROVE  LET rule == layers[Briefs!MostSpecific(NamingUpTo(layers, "default", kind, c))][kind][c]
               IN  k \in DOMAIN with[c] /\ with[c][k] = Briefs!Validated(rule, defaults)[k]
    <3>1. with[c] = Top(c) /\ c \in DOMAIN layer[kind]
      <4> HIDE DEF Top, with
      <4> QED BY <2>1, <2>4
    <3>2. NamingUpTo(layers, "default", kind, c) = {"default"}
      BY <1>1, <1>4, <3>1 DEF NamingUpTo
    <3>3. Briefs!MostSpecific({"default"}) = "default"
      BY DEF Briefs!MostSpecific
    <3>4. k \in DOMAIN Top(c) /\ Top(c)[k] = Briefs!Validated(layer[kind][c], defaults)[k]
      BY DumpsCoverAll
    <3> HIDE DEF Top, with
    <3> QED BY <3>1, <3>2, <3>3, <3>4
  <2>5. MergedUpTo(with, layers, "default", kind, defaults)
    <3> HIDE DEF with
    <3> QED BY <2>3, <2>4 DEF MergedUpTo
  <2> QED BY <2>5
<1> QED BY <1>3, <1>4

\* The codes of a merge are those that some scope of the place names, and the
\* most specific one of these says all of a rule but the budget.
LEMMA MergesAreOfTheMostSpecific ==
    ASSUME NEW rows, NEW place, NEW kind, NEW defaults
    PROVE  LET rules == Briefs!MergeRules(Briefs!Layers(rows, place), kind, defaults)
           IN  /\ DOMAIN rules = Briefs!Named(rows, place, kind)
               /\ \A c \in DOMAIN rules :
                    /\ DOMAIN rules[c] = DOMAIN defaults
                    /\ \A k \in DOMAIN defaults \ {"retrieval_budget"} :
                        rules[c][k] =
                            Briefs!Validated(Briefs!Deciding(rows, place, kind, c), defaults)[k]
<1> DEFINE layers == Briefs!Layers(rows, place)
           Add(merged, level) == Briefs!WithLayer(merged, layers[level], kind, defaults)
           all == Add(Add(Add(Add(<<>>, "default"), "state"), "county"), "jurisdiction")
           rules == [c \in DOMAIN all |-> Briefs!Validated(all[c], defaults)]
<1>1. Briefs!MergeRules(layers, kind, defaults) = rules
  BY DEF Briefs!MergeRules
<1>2. MergedUpTo(all, layers, "jurisdiction", kind, defaults)
  <2> HIDE DEF layers
  <2>1. MergedUpTo(Add(<<>>, "default"), layers, "default", kind, defaults)
    BY FirstLayer
  <2>2. MergedUpTo(Add(Add(<<>>, "default"), "state"), layers, "state", kind, defaults)
    BY <2>1, NextLayer
  <2>3. MergedUpTo(Add(Add(Add(<<>>, "default"), "state"), "county"), layers, "county", kind, defaults)
    BY <2>2, NextLayer
  <2> QED BY <2>3, NextLayer
<1>3. UpTo("jurisdiction") = Briefs!Levels
  BY DEF UpTo
<1> HIDE DEF all
<1>4. DOMAIN rules = Briefs!Named(rows, place, kind)
  BY <1>2, <1>3 DEF MergedUpTo, Briefs!Named
<1>5. ASSUME NEW c \in DOMAIN rules, NEW k \in DOMAIN defaults \ {"retrieval_budget"}
      PROVE  rules[c][k] = Briefs!Validated(Briefs!Deciding(rows, place, kind, c), defaults)[k]
  <2>1. NamingUpTo(layers, "jurisdiction", kind, c) = Briefs!Naming(rows, place, kind, c)
    BY <1>3 DEF NamingUpTo, Briefs!Naming
  <2>2. k \in DOMAIN all[c]
        /\ all[c][k] = Briefs!Validated(Briefs!Deciding(rows, place, kind, c), defaults)[k]
    BY <1>2, <1>5, <2>1 DEF MergedUpTo, Briefs!Deciding
  <2>3. rules[c][k] = all[c][k]
    BY <1>5, <2>2 DEF Briefs!Validated
  <2> QED BY <2>2, <2>3
<1>6. \A c \in DOMAIN rules : DOMAIN rules[c] = DOMAIN defaults
  BY DEF Briefs!Validated
<1> HIDE DEF rules, layers
<1> QED BY <1>1, <1>4, <1>5, <1>6 DEF layers

\* The merged rules of fields are the rules in force; those of topics are but
\* for the budget.
LEMMA MergesAreInForce ==
    ASSUME NEW rows, NEW place
    PROVE  LET layers == Briefs!Layers(rows, place)
               fields == Briefs!MergeRules(layers, "fields", Briefs!FieldDefaults)
               topics == Briefs!MergeRules(layers, "topics", Briefs!TopicDefaults)
           IN  /\ DOMAIN fields = Briefs!Named(rows, place, "fields")
               /\ DOMAIN topics = Briefs!Named(rows, place, "topics")
               /\ \A c \in DOMAIN fields : fields[c] = Briefs!FieldInForce(rows, place, c)
               /\ \A t \in DOMAIN topics :
                    /\ DOMAIN topics[t] = DOMAIN Briefs!TopicDefaults
                    /\ topics[t].enabled = Briefs!TopicInForce(rows, place, t).enabled
                    /\ topics[t].source_tier = Briefs!TopicInForce(rows, place, t).source_tier
<1> DEFINE layers == Briefs!Layers(rows, place)
           fields == Briefs!MergeRules(layers, "fields", Briefs!FieldDefaults)
           topics == Briefs!MergeRules(layers, "topics", Briefs!TopicDefaults)
<1>1. /\ DOMAIN Briefs!FieldDefaults =
            {"source_tier", "citation_required", "llm_extract_allowed", "not_applicable"}
      /\ {"enabled", "source_tier"} \subseteq DOMAIN Briefs!TopicDefaults
  BY DEF Briefs!FieldDefaults, Briefs!TopicDefaults
<1>2. /\ DOMAIN fields = Briefs!Named(rows, place, "fields")
      /\ \A c \in DOMAIN fields : DOMAIN fields[c] = DOMAIN Briefs!FieldDefaults
      /\ \A c \in DOMAIN fields : \A k \in DOMAIN Briefs!FieldDefaults \ {"retrieval_budget"} :
            fields[c][k] = Briefs!Validated(Briefs!Deciding(rows, place, "fields", c),
                                            Briefs!FieldDefaults)[k]
  BY MergesAreOfTheMostSpecific
<1>3. /\ DOMAIN topics = Briefs!Named(rows, place, "topics")
      /\ \A c \in DOMAIN topics : DOMAIN topics[c] = DOMAIN Briefs!TopicDefaults
      /\ \A c \in DOMAIN topics : \A k \in DOMAIN Briefs!TopicDefaults \ {"retrieval_budget"} :
            topics[c][k] = Briefs!Validated(Briefs!Deciding(rows, place, "topics", c),
                                            Briefs!TopicDefaults)[k]
  BY MergesAreOfTheMostSpecific
<1>4. ASSUME NEW c \in DOMAIN fields PROVE fields[c] = Briefs!FieldInForce(rows, place, c)
  <2> DEFINE rule == Briefs!Deciding(rows, place, "fields", c)
  <2>1. \A k \in DOMAIN Briefs!FieldDefaults :
            fields[c][k] = Briefs!Validated(rule, Briefs!FieldDefaults)[k]
    BY <1>1, <1>2, <1>4
  <2>2. fields[c] = [k \in DOMAIN fields[c] |-> fields[c][k]]
    BY <1>4 DEF Briefs!MergeRules, Briefs!Validated
  <2>3. Briefs!Validated(rule, Briefs!FieldDefaults) =
            [k \in DOMAIN Briefs!FieldDefaults |-> Briefs!Validated(rule, Briefs!FieldDefaults)[k]]
    BY DEF Briefs!Validated
  <2> HIDE DEF fields, rule
  <2>4. fields[c] = Briefs!Validated(rule, Briefs!FieldDefaults)
    BY <1>2, <1>4, <2>1, <2>2, <2>3
  <2> QED BY <2>4 DEF Briefs!FieldInForce, rule
<1>5. ASSUME NEW t \in DOMAIN topics
      PROVE  /\ topics[t].enabled = Briefs!TopicInForce(rows, place, t).enabled
             /\ topics[t].source_tier = Briefs!TopicInForce(rows, place, t).source_tier
  <2> HIDE DEF topics
  <2> QED BY <1>1, <1>3, <1>5 DEF Briefs!TopicInForce
<1> HIDE DEF fields, topics
<1> QED BY <1>2, <1>3, <1>4, <1>5 DEF fields, topics, layers

\* What the gate of a place without an index makes of a field and of a topic.
LEMMA GatedField ==
    ASSUME NEW rule, DOMAIN rule = DOMAIN Briefs!FieldDefaults
    PROVE  LET gated == Briefs!GateField(rule)
           IN  /\ gated.llm_extract_allowed = FALSE
               /\ gated.source_tier \cap Briefs!TopicTiers = {}
               /\ gated.not_applicable = rule.not_applicable
<1>1. {"source_tier", "llm_extract_allowed", "not_applicable"} \subseteq DOMAIN rule
  BY DEF Briefs!FieldDefaults
<1> DEFINE bare == Briefs!WithoutTopicTiers(rule, {"lake", "dsi"})
<1>2. /\ DOMAIN bare = DOMAIN rule
      /\ bare.not_applicable = rule.not_applicable
      /\ bare.source_tier \cap Briefs!TopicTiers = {}
  BY <1>1 DEF Briefs!WithoutTopicTiers, Briefs!TopicTiers
<1> HIDE DEF bare
<1>3. /\ Briefs!GateField(rule).llm_extract_allowed = FALSE
      /\ Briefs!GateField(rule).source_tier = bare.source_tier
      /\ Briefs!GateField(rule).not_applicable = bare.not_applicable
  BY <1>1, <1>2 DEF Briefs!GateField, bare
<1> QED BY <1>2, <1>3

\* A gated topic is on only if it was, with tiers of its own that are left.
LEMMA GatedTopic ==
    ASSUME NEW rule, DOMAIN rule = DOMAIN Briefs!TopicDefaults, Briefs!GateTopic(rule).enabled
    PROVE  /\ rule.enabled
           /\ Briefs!GateTopic(rule).source_tier \subseteq rule.source_tier \ Briefs!TopicTiers
<1>1. {"source_tier", "enabled"} \subseteq DOMAIN rule
  BY DEF Briefs!TopicDefaults
<1> DEFINE bare == Briefs!WithoutTopicTiers(rule, {"topic_summary"})
<1>2. /\ DOMAIN bare = DOMAIN rule
      /\ bare.enabled = rule.enabled
      /\ ~(rule.source_tier \subseteq Briefs!TopicTiers) =>
            bare.source_tier = rule.source_tier \ Briefs!TopicTiers
  BY <1>1 DEF Briefs!WithoutTopicTiers
<1>3. /\ Briefs!GateTopic(rule).enabled =
            (bare.enabled /\ ~(rule.source_tier \subseteq Briefs!TopicTiers))
      /\ Briefs!GateTopic(rule).source_tier = bare.source_tier
  <2> HIDE DEF bare
  <2> QED BY <1>1, <1>2 DEF Briefs!GateTopic, bare
<1> QED BY <1>2, <1>3

\* The answer to a question about guard rails.
LEMMA RulesOfTheMostSpecificScope ==
    ASSUME area = "rules", answer = AnswerTo(question)
    PROVE  MostSpecificScopeDecides
<1> DEFINE q == question
           ready == Briefs!CatalogReady(q.catalog, q.place.jurisdiction)
           layers == Briefs!Layers(q.rows, q.place)
           fields == Briefs!MergeRules(layers, "fields", Briefs!FieldDefaults)
           topics == Briefs!MergeRules(layers, "topics", Briefs!TopicDefaults)
<1>1. answer = Briefs!MergeGuardRails(layers, ready)
  BY DEF AnswerTo, Briefs!ResolveGuardRails
<1>2. /\ answer.fields = IF ready THEN fields ELSE [c \in DOMAIN fields |-> Briefs!GateField(fields[c])]
      /\ answer.topics = IF ready THEN topics ELSE [t \in DOMAIN topics |-> Briefs!GateTopic(topics[t])]
      /\ answer.topic_hydrate_enabled = (ready /\ Briefs!TopicHydrateEnabled(fields, topics))
  BY <1>1 DEF Briefs!MergeGuardRails
<1>3. /\ DOMAIN fields = Briefs!Named(q.rows, q.place, "fields")
      /\ DOMAIN topics = Briefs!Named(q.rows, q.place, "topics")
      /\ \A c \in DOMAIN fields : fields[c] = Briefs!FieldInForce(q.rows, q.place, c)
      /\ \A t \in DOMAIN topics :
            /\ DOMAIN topics[t] = DOMAIN Briefs!TopicDefaults
            /\ topics[t].enabled = Briefs!TopicInForce(q.rows, q.place, t).enabled
            /\ topics[t].source_tier = Briefs!TopicInForce(q.rows, q.place, t).source_tier
  BY MergesAreInForce
<1>4. \A c \in DOMAIN fields : DOMAIN fields[c] = DOMAIN Briefs!FieldDefaults
  BY <1>3 DEF Briefs!FieldInForce, Briefs!Validated
<1> HIDE DEF fields, topics, ready
<1>5. DOMAIN answer.fields = DOMAIN fields /\ DOMAIN answer.topics = DOMAIN topics
  BY <1>2
<1>6. ASSUME NEW c \in DOMAIN answer.fields
      PROVE  IF ready THEN answer.fields[c] = Briefs!FieldInForce(q.rows, q.place, c)
             ELSE /\ ~answer.fields[c].llm_extract_allowed
                  /\ answer.fields[c].source_tier \cap Briefs!TopicTiers = {}
                  /\ answer.fields[c].not_applicable
                        = Briefs!FieldInForce(q.rows, q.place, c).not_applicable
  <2>1. CASE ready
    BY <1>2, <1>3, <1>5, <1>6, <2>1
  <2>2. CASE ~ready
    <3>1. answer.fields[c] = Briefs!GateField(fields[c])
      BY <1>2, <1>5, <1>6, <2>2
    <3>2. /\ Briefs!GateField(fields[c]).llm_extract_allowed = FALSE
          /\ Briefs!GateField(fields[c]).source_tier \cap Briefs!TopicTiers = {}
          /\ Briefs!GateField(fields[c]).not_applicable = fields[c].not_applicable
      BY <1>4, <1>5, <1>6, GatedField
    <3> QED BY <1>3, <1>5, <1>6, <2>2, <3>1, <3>2
  <2> QED BY <2>1, <2>2
<1>7. ASSUME NEW t \in DOMAIN answer.topics
      PROVE  IF ready
             THEN /\ answer.topics[t].enabled = Briefs!TopicInForce(q.rows, q.place, t).enabled
                  /\ answer.topics[t].source_tier
                        = Briefs!TopicInForce(q.rows, q.place, t).source_tier
             ELSE answer.topics[t].enabled =>
                    /\ Briefs!TopicInForce(q.rows, q.place, t).enabled
                    /\ answer.topics[t].source_tier
                        \subseteq Briefs!TopicInForce(q.rows, q.place, t).source_tier
                                    \ Briefs!TopicTiers
  <2>1. CASE ready
    BY <1>2, <1>3, <1>5, <1>7, <2>1
  <2>2. CASE ~ready
    <3>1. answer.topics[t] = Briefs!GateTopic(topics[t])
      BY <1>2, <1>5, <1>7, <2>2
    <3>2. Briefs!GateTopic(topics[t]).enabled =>
            /\ topics[t].enabled
            /\ Briefs!GateTopic(topics[t]).source_tier
                    \subseteq topics[t].source_tier \ Briefs!TopicTiers
      BY <1>3, <1>5, <1>7, GatedTopic
    <3> QED BY <1>3, <1>5, <1>7, <2>2, <3>1, <3>2
  <2> QED BY <2>1, <2>2
<1>8. answer.topic_hydrate_enabled => ready
  BY <1>2
<1> QED BY <1>3, <1>5, <1>6, <1>7, <1>8 DEF MostSpecificScopeDecides, ready

\* The first of some values is the first one, if that is there.
LEMMA FirstOfAll ==
    ASSUME NEW a, NEW b, NEW c, NEW d, NEW e, a # None
    PROVE  Briefs!FirstOf(<<a, b, c, d, e>>) = a
<1> DEFINE values == <<a, b, c, d, e>>
           given == {i \in DOMAIN values : values[i] # None}
<1>1. DOMAIN values = 1 .. 5 /\ values[1] = a
  OBVIOUS
<1> HIDE DEF values
<1>2. 1 \in given /\ given \subseteq 1 .. 5
  BY <1>1
<1> HIDE DEF given
<1>3. (CHOOSE i \in given : \A j \in given : i <= j) = 1
  <2>1. \A j \in given : 1 <= j
    BY <1>2
  <2>2. \A i \in given : (\A j \in given : i <= j) => i = 1
    BY <1>2
  <2> QED BY <1>2, <2>1, <2>2
<1>4. given # {}
  BY <1>2
<1>5. Briefs!FirstOf(values) = values[CHOOSE i \in given : \A j \in given : i <= j]
  BY <1>4 DEF Briefs!FirstOf, given
<1> QED BY <1>1, <1>3, <1>5 DEF values

\* A project is looked at where its briefs are made.
LEMMA BriefsAreLookedAt ==
    ASSUME NEW project
    PROVE  PlaceLookedAt(project) = Briefs!BriefPlace(project)
<1>1. project.effective # None => Briefs!JurisdictionKey(project) = project.effective
  BY FirstOfAll DEF Briefs!JurisdictionKey
<1> QED BY <1>1 DEF PlaceLookedAt, Briefs!BriefPlace

\* The answer to a question about the topics of a project.
LEMMA BriefsOfTheScopes ==
    ASSUME area = "briefs", answer = AnswerTo(question)
    PROVE  BriefsAreGrounded
<1> DEFINE q == question
           place == Briefs!BriefPlace(q.project)
           ready == Briefs!CatalogReady(q.catalog, place.jurisdiction)
           layers == Briefs!Layers(q.rows, place)
           effective == Briefs!ResolveGuardRails(q.rows, place, q.catalog)
           fields == Briefs!MergeRules(layers, "fields", Briefs!FieldDefaults)
           topics == Briefs!MergeRules(layers, "topics", Briefs!TopicDefaults)
<1>1. answer = IF Briefs!JurisdictionKey(q.project) = None THEN <<>>
               ELSE [t \in Briefs!EnabledTopics(effective, {}) |->
                        Briefs!TopicBrief(effective, t, q.retrieval, q.reply)]
  BY DEF AnswerTo, Briefs!PrefetchedBriefs, Briefs!ZoningBriefs
<1>2. PlaceLookedAt(q.project) = place
  BY BriefsAreLookedAt
<1>3. /\ DOMAIN fields = Briefs!Named(q.rows, place, "fields")
      /\ DOMAIN topics = Briefs!Named(q.rows, place, "topics")
      /\ \A c \in DOMAIN fields : fields[c] = Briefs!FieldInForce(q.rows, place, c)
      /\ \A t \in DOMAIN topics :
            /\ DOMAIN topics[t] = DOMAIN Briefs!TopicDefaults
            /\ topics[t].enabled = Briefs!TopicInForce(q.rows, place, t).enabled
            /\ topics[t].source_tier = Briefs!TopicInForce(q.rows, place, t).source_tier
  BY MergesAreInForce
<1>4. /\ effective.topic_hydrate_enabled => ready
      /\ ready => effective.fields = fields /\ effective.topics = topics
  BY DEF Briefs!ResolveGuardRails, Briefs!MergeGuardRails
<1> SUFFICES ASSUME NEW t \in DOMAIN answer, answer[t].fields # {}
             PROVE  /\ ready
                    /\ Briefs!TopicInForce(q.rows, place, t).enabled
                    /\ \/ Briefs!SummaryOnly(q.rows, place, t)
                       \/ \A x \in answer[t].fields : Briefs!MayExtract(q.rows, place, x)
  <2> HIDE DEF place
  <2> QED BY <1>2 DEF BriefsAreGrounded
<1> HIDE DEF effective, fields, topics, place, ready
<1>5. /\ t \in Briefs!EnabledTopics(effective, {})
      /\ answer[t] = Briefs!TopicBrief(effective, t, q.retrieval, q.reply)
  <2>1. DOMAIN <<>> = {}
    OBVIOUS
  <2> QED BY <1>1, <2>1
<1>6. t \in DOMAIN effective.topics /\ effective.topics[t].enabled
  BY <1>5 DEF Briefs!EnabledTopics
<1>7. Briefs!Outcome(effective, t, q.retrieval) = "asked"
      /\ answer[t].fields = Briefs!BriefFromLlm(effective, t, q.retrieval, q.reply).fields
  BY <1>5 DEF Briefs!TopicBrief
<1>8. effective.topic_hydrate_enabled
  BY <1>7 DEF Briefs!Outcome
<1>9. ready /\ effective.fields = fields /\ effective.topics = topics
  BY <1>4, <1>8
<1>10. Briefs!TopicInForce(q.rows, place, t).enabled
  BY <1>3, <1>6, <1>9
<1>11. CASE ~Briefs!Hydrates(effective.topics[t])
  BY <1>3, <1>6, <1>9, <1>10, <1>11 DEF Briefs!SummaryOnly, Briefs!Hydrates
<1>12. CASE Briefs!Hydrates(effective.topics[t])
  <2>1. answer[t].fields \subseteq Briefs!CitationGate(q.reply.fields, fields)
    BY <1>7, <1>9, <1>12 DEF Briefs!BriefFromLlm
  <2>2. ASSUME NEW x \in answer[t].fields PROVE Briefs!MayExtract(q.rows, place, x)
    <3>1. Briefs!PassesGate(x, fields)
      BY <2>1 DEF Briefs!CitationGate
    <3>2. x.code \in DOMAIN fields /\ fields[x.code] = Briefs!FieldInForce(q.rows, place, x.code)
      BY <1>3, <3>1 DEF Briefs!PassesGate
    <3> QED BY <1>3, <3>1, <3>2 DEF Briefs!MayExtract, Briefs!PassesGate, Briefs!Cited
  <2> QED BY <1>9, <1>10, <2>2
<1> QED BY <1>11, <1>12

-----------------------------------------------------------------------------
(* Computed zoning scenarios *)

\* The cardinalities of ZoningCompute are those of FiniteSets.
LEMMA ComputeCounts == \A S : Compute!Cardinality(S) = Cardinality(S)
BY Zenon DEF Compute!Cardinality, Cardinality

\* A list of hits: numbered places, finitely many.
IsHitList(hits) == DOMAIN hits \subseteq Int /\ IsFiniteSet(DOMAIN hits)

\* A part of a list is a list, and its hits are those of the list.
LEMMA KeptHits ==
    ASSUME NEW hits, IsHitList(hits), NEW kept,
           kept = Compute!First3(hits) \/ kept = Compute!DistinctCites(hits)
    PROVE  /\ IsHitList(kept) /\ DOMAIN kept \subseteq DOMAIN hits
           /\ \A i \in DOMAIN kept : kept[i] = hits[i]
<1>1. PICK places \in SUBSET DOMAIN hits : kept = [i \in places |-> hits[i]]
  BY DEF Compute!First3, Compute!DistinctCites, Compute!Restrict
<1>2. IsFiniteSet(places)
  BY <1>1, FS_Subset DEF IsHitList
<1> QED BY <1>1, <1>2 DEF IsHitList

\* The hits before a place are finitely many, fewer in a part of the list.
LEMMA FewerBefore ==
    ASSUME NEW hits, IsHitList(hits), NEW kept, DOMAIN kept \subseteq DOMAIN hits,
           NEW i \in DOMAIN hits
    PROVE  /\ Cardinality(Compute!Before(kept, i)) \in Nat
           /\ Cardinality(Compute!Before(kept, i)) <= Cardinality(Compute!Before(hits, i))
           /\ Cardinality(Compute!Before(hits, i)) \in Nat
<1>1. Compute!Before(kept, i) \subseteq Compute!Before(hits, i)
  BY DEF Compute!Before
<1>2. IsFiniteSet(Compute!Before(hits, i))
  <2>1. Compute!Before(hits, i) \subseteq DOMAIN hits
    BY DEF Compute!Before
  <2> QED BY <2>1, FS_Subset DEF IsHitList
<1>3. IsFiniteSet(Compute!Before(kept, i))
  BY <1>1, <1>2, FS_Subset
<1>4. Cardinality(Compute!Before(kept, i)) <= Cardinality(Compute!Before(hits, i))
  BY <1>1, <1>2, FS_Subset
<1> QED BY <1>2, <1>3, <1>4, FS_CardinalityType

\* The first three of a list that are each a section of its own.
IsFinding(hits) ==
    /\ IsHitList(hits)
    /\ \A i \in DOMAIN hits :
        /\ hits[i].cite # None
        /\ Cardinality(Compute!Before(hits, i)) < 3
        /\ \A j \in Compute!Before(hits, i) : hits[j].cite # hits[i].cite

LEMMA FilteredHits ==
    ASSUME NEW code, NEW hits \in Compute!HitLists
    PROVE  IsFinding(Compute!FilterCitationHits(code, hits))
<1> DEFINE ranked == Compute!Ranked(code, hits)
           distinct == Compute!DistinctCites(ranked)
           found == Compute!First3(distinct)
<1>1. IsHitList(ranked)
  <2>1. Len(hits) \in Nat
    BY DEF Compute!HitLists
  <2>2. DOMAIN ranked \subseteq 1 .. 3 * Len(hits)
    BY DEF Compute!Ranked
  <2>3. 3 * Len(hits) \in Int
    BY <2>1
  <2>4. IsFiniteSet(1 .. 3 * Len(hits))
    BY <2>3, FS_Interval
  <2> HIDE DEF ranked
  <2>5. IsFiniteSet(DOMAIN ranked)
    BY <2>2, <2>4, FS_Subset
  <2> QED BY <2>2, <2>3, <2>5 DEF IsHitList
<1> HIDE DEF ranked
<1>2. IsHitList(distinct) /\ \A i \in DOMAIN distinct : distinct[i] = ranked[i]
  BY <1>1, KeptHits
<1>3. \A i \in DOMAIN distinct :
        /\ distinct[i].cite # None
        /\ \A j \in Compute!Before(ranked, i) : ranked[j].cite # distinct[i].cite
  <2>1. \A i \in DOMAIN distinct :
            ranked[i].cite \notin {ranked[j].cite : j \in Compute!Before(ranked, i)} \cup {None}
    BY DEF Compute!DistinctCites, Compute!Restrict
  <2> HIDE DEF distinct
  <2> QED BY <1>2, <2>1
<1>4. DOMAIN distinct \subseteq DOMAIN ranked
  BY <1>1, KeptHits
<1> HIDE DEF distinct
<1>5. IsHitList(found) /\ DOMAIN found \subseteq DOMAIN distinct
      /\ \A i \in DOMAIN found : found[i] = distinct[i]
  BY <1>2, KeptHits
<1>6. \A i \in DOMAIN found : Cardinality(Compute!Before(distinct, i)) < 3
  BY ComputeCounts DEF Compute!First3, Compute!Restrict
<1> HIDE DEF found
<1>7. ASSUME NEW i \in DOMAIN found
      PROVE  /\ found[i].cite # None
             /\ Cardinality(Compute!Before(found, i)) < 3
             /\ \A j \in Compute!Before(found, i) : found[j].cite # found[i].cite
  <2>1. Cardinality(Compute!Before(found, i)) < 3
    <3>1. /\ Cardinality(Compute!Before(found, i)) \in Nat
          /\ Cardinality(Compute!Before(distinct, i)) \in Nat
          /\ Cardinality(Compute!Before(found, i)) <= Cardinality(Compute!Before(distinct, i))
      BY <1>2, <1>5, <1>7, FewerBefore
    <3>2. Cardinality(Compute!Before(distinct, i)) < 3
      BY <1>6, <1>7
    <3> QED BY <3>1, <3>2
  <2>2. ASSUME NEW j \in Compute!Before(found, i) PROVE found[j].cite # found[i].cite
    <3>1. j \in DOMAIN found /\ j \in Compute!Before(ranked, i)
      BY <1>4, <1>5, <2>2 DEF Compute!Before
    <3> QED BY <1>2, <1>3, <1>5, <1>7, <3>1
  <2> QED BY <1>3, <1>5, <1>7, <2>1, <2>2
<1>8. IsFinding(found)
  BY <1>5, <1>7 DEF IsFinding
<1> QED BY <1>8 DEF Compute!FilterCitationHits, found, distinct, ranked

\* The hit that is taken from the DSI record.
LEMMA RecordHits ==
    ASSUME NEW dsi
    PROVE  IsFinding(Compute!DsiCitationHits(dsi))
<1> DEFINE hits == Compute!DsiCitationHits(dsi)
           Hit(c) == [title |-> "other", cite |-> c, excerpt |-> FALSE]
<1>1. hits \in {<<Hit("impervious")>>, <<Hit("dimensional")>>, <<>>}
  BY DEF Compute!DsiCitationHits
<1>2. \/ DOMAIN hits = {}
      \/ DOMAIN hits = {1} /\ hits[1].cite \in {"impervious", "dimensional"}
  <2> HIDE DEF hits
  <2>1. CASE hits = <<>>
    BY <2>1
  <2>2. CASE hits = <<Hit("impervious")>>
    <3>1. DOMAIN hits = 1 .. 1 /\ hits[1] = Hit("impervious")
      <4> HIDE DEF Hit
      <4> QED BY <2>2
    <3> QED BY <3>1
  <2>3. CASE hits = <<Hit("dimensional")>>
    <3>1. DOMAIN hits = 1 .. 1 /\ hits[1] = Hit("dimensional")
      <4> HIDE DEF Hit
      <4> QED BY <2>3
    <3> QED BY <3>1
  <2> QED BY <1>1, <2>1, <2>2, <2>3
<1> HIDE DEF hits
<1>3. IsFiniteSet(DOMAIN hits)
  <2>1. DOMAIN hits = {} \/ DOMAIN hits = {1}
    BY <1>2
  <2>2. IsFiniteSet({}) /\ IsFiniteSet({1})
    BY FS_EmptySet, FS_Singleton
  <2> QED BY <2>1, <2>2
<1>4. \A i \in DOMAIN hits : Compute!Before(hits, i) = {}
  BY <1>2 DEF Compute!Before
<1>5. Cardinality({}) = 0
  BY FS_EmptySet
<1>6. IsHitList(hits)
  BY <1>2, <1>3 DEF IsHitList
<1>7. \A i \in DOMAIN hits : hits[i].cite # None
  BY <1>2, ControlPlaneAssumption
<1>8. IsFinding(hits)
  BY <1>4, <1>5, <1>6, <1>7 DEF IsFinding
<1> QED BY <1>8 DEF hits

\* Sections that were found make a text, with evidence.
LEMMA FindingsAreText ==
    ASSUME NEW hits, IsFinding(hits), DOMAIN hits # {}
    PROVE  Compute!ComposeCitations(hits) # Compute!EmptyText /\ Compute!Evidence(hits) # 0
<1> DEFINE first == Compute!First3(hits)
           kept == Compute!DistinctCites(first)
<1>1. IsHitList(hits)
  BY DEF IsFinding
<1>2. DOMAIN first = DOMAIN hits /\ \A i \in DOMAIN hits : first[i] = hits[i]
  BY ComputeCounts DEF IsFinding, Compute!First3, Compute!Restrict
<1> HIDE DEF first
<1>3. \A i \in DOMAIN first : /\ Compute!Before(first, i) = Compute!Before(hits, i)
                              /\ Compute!Before(first, i) \subseteq DOMAIN hits
  BY <1>2 DEF Compute!Before
<1>4. DOMAIN kept = DOMAIN first
  <2>1. DOMAIN kept = {i \in DOMAIN first : first[i].cite
                            \notin {first[j].cite : j \in Compute!Before(first, i)} \cup {None}}
    BY DEF Compute!DistinctCites, Compute!Restrict
  <2>2. \A i \in DOMAIN first : first[i].cite
            \notin {first[j].cite : j \in Compute!Before(first, i)} \cup {None}
    BY <1>2, <1>3 DEF IsFinding
  <2> HIDE DEF kept
  <2> QED BY <2>1, <2>2
<1>5. DOMAIN kept # {}
  BY <1>2, <1>4
<1>6. Compute!ComposeCitations(hits) # Compute!EmptyText
  <2>1. PICK f : Compute!ComposeCitations(hits) = <<"cites", f>>
    BY <1>5 DEF Compute!ComposeCitations, first
  <2> QED BY <2>1 DEF Compute!EmptyText
<1>7. Compute!Evidence(hits) # 0
  <2>1. IsFiniteSet(DOMAIN first) /\ DOMAIN first # {}
    BY <1>1, <1>2 DEF IsHitList
  <2>2. Cardinality(DOMAIN first) # 0
    BY <2>1, FS_EmptySet
  <2> QED BY <2>2, ComputeCounts DEF Compute!Evidence, first
<1> QED BY <1>6, <1>7

\* What the search finds for a code.
LEMMA SearchesFind ==
    ASSUME NEW q \in ComputeQuestions, NEW c \in Compute!ComparableCodes
    PROVE  IsFinding(Compute!FilterCitationHits(c, Compute!SearchHits(q, c)))
<1>1. Compute!SearchHits(q, c) \in Compute!HitLists
  <2>1. q.hits[c] \in Compute!HitLists \cup {None}
    BY ControlPlaneAssumption
  <2>2. <<>> \in Compute!HitLists
    BY DEF Compute!HitLists
  <2> QED BY <2>1, <2>2 DEF Compute!SearchHits
<1> QED BY <1>1, FilteredHits

\* The value of a code of the DSI record: a gap is an empty text.
LEMMA DsiValues ==
    ASSUME NEW q, NEW c
    PROVE  LET v == Compute!DsiValue(q, c)
           IN  /\ v.gap <=> v.text = Compute!EmptyText
               /\ Compute!NotFound(q.dsi) /\ c # "IMPERVIOUS_COVER_LIMIT" => v.gap
<1> DEFINE texts == Compute!DsiTexts(q.dsi)
           family == Compute!HydratedFamily(q.hydrate)
           v == Compute!DsiValue(q, c)
<1>1. CASE c \in DOMAIN texts
  <2>1. ~Compute!NotFound(q.dsi)
    <3>1. Compute!NotFound(q.dsi) => DOMAIN texts = {}
      BY DEF Compute!NotFound, Compute!DsiTexts
    <3> QED BY <1>1, <3>1
  <2>2. PICK n : texts[c] = <<n>>
    <3> DEFINE Standard(code) == IF code = "EASEMENTS_SETBACKS" THEN "SETBACKS" ELSE code
               named == {d \in Compute!DsiCodes : Standard(d) \in DOMAIN q.dsi.standards}
    <3>1. DOMAIN <<>> = {}
      OBVIOUS
    <3>2. texts = [d \in named |-> <<q.dsi.standards[Standard(d)]>>]
      BY <1>1, <3>1 DEF Compute!DsiTexts
    <3>3. texts[c] = <<q.dsi.standards[Standard(c)]>>
      BY <1>1, <3>2
    <3> QED BY <3>3
  <2>3. v.text = texts[c] /\ v.gap = FALSE
    BY <1>1 DEF Compute!DsiValue, Compute!Value
  <2>4. <<n>> # <<>>
    OBVIOUS
  <2> QED BY <2>1, <2>2, <2>3, <2>4 DEF Compute!EmptyText
<1>2. CASE c \notin DOMAIN texts /\ c = "IMPERVIOUS_COVER_LIMIT" /\ family # None /\ family.limit # None
  <2>1. v.text = <<family.limit>> /\ v.gap = FALSE
    BY <1>2 DEF Compute!DsiValue, Compute!Value
  <2>2. <<family.limit>> # <<>>
    OBVIOUS
  <2> QED BY <1>2, <2>1, <2>2 DEF Compute!EmptyText
<1>3. CASE c \notin DOMAIN texts
           /\ ~(c = "IMPERVIOUS_COVER_LIMIT" /\ family # None /\ family.limit # None)
  <2>1. v = Compute!Gap
    BY <1>3 DEF Compute!DsiValue
  <2> QED BY <2>1 DEF Compute!Gap
<1> QED BY <1>1, <1>2, <1>3

\* The impervious cover regulations: hydrated, or found.
LEMMA ImperviousValues ==
    ASSUME NEW q \in ComputeQuestions
    PROVE  LET v == Compute!ImperviousRegs(q)
           IN  /\ v.gap <=> v.text = Compute!EmptyText
               /\ ~v.gap /\ "IMPERVIOUS_REGS" \notin Compute!Unsourced(q) => v.evidence # 0
<1> DEFINE family == Compute!HydratedFamily(q.hydrate)
           found == Compute!FilterCitationHits("IMPERVIOUS_REGS",
                                               Compute!SearchHits(q, "IMPERVIOUS_REGS"))
           relevant == IF DOMAIN found = {} THEN Compute!DsiCitationHits(q.dsi) ELSE found
           first == relevant[CHOOSE i \in DOMAIN relevant : Compute!Before(relevant, i) = {}]
           text == IF first.excerpt THEN <<"excerpt", first.cite>>
                   ELSE Compute!ComposeCitations(relevant)
           v == Compute!ImperviousRegs(q)
<1>1. v = IF family # None
          THEN Compute!Value(<<"regs", "hydrated">>, Compute!HydrateEvidence(family))
          ELSE IF DOMAIN relevant = {} THEN Compute!Gap
          ELSE Compute!Value(text, Compute!Evidence(relevant))
  BY DEF Compute!ImperviousRegs
<1>2. IsFinding(relevant)
  <2>1. "IMPERVIOUS_REGS" \in Compute!ComparableCodes
    BY DEF Compute!ComparableCodes
  <2>2. IsFinding(found)
    BY <2>1, SearchesFind
  <2>3. IsFinding(Compute!DsiCitationHits(q.dsi))
    BY RecordHits
  <2> QED BY <2>2, <2>3
<1>3. DOMAIN relevant # {} => text # Compute!EmptyText /\ Compute!Evidence(relevant) # 0
  <2> HIDE DEF relevant, first
  <2>1. <<"excerpt", first.cite>> # Compute!EmptyText
    BY DEF Compute!EmptyText
  <2> QED BY <1>2, <2>1, FindingsAreText
<1> HIDE DEF relevant, text
<1>4. CASE family # None
  <2>1. /\ v.text = <<"regs", "hydrated">> /\ v.gap = FALSE
        /\ v.evidence = Compute!HydrateEvidence(family)
    BY <1>1, <1>4 DEF Compute!Value
  <2>2. <<"regs", "hydrated">> # Compute!EmptyText
    BY DEF Compute!EmptyText
  <2>3. "IMPERVIOUS_REGS" \notin Compute!Unsourced(q) => family.cite
    BY <1>4 DEF Compute!Unsourced
  <2>4. family.cite => Compute!HydrateEvidence(family) # 0
    BY DEF Compute!HydrateEvidence
  <2> HIDE DEF v, family
  <2> QED BY <2>1, <2>2, <2>3, <2>4 DEF v
<1>5. CASE family = None /\ DOMAIN relevant = {}
  <2>1. v = Compute!Gap
    BY <1>1, <1>5
  <2> QED BY <2>1 DEF Compute!Gap
<1>6. CASE family = None /\ DOMAIN relevant # {}
  <2>1. v.text = text /\ v.gap = FALSE /\ v.evidence = Compute!Evidence(relevant)
    BY <1>1, <1>6 DEF Compute!Value
  <2> QED BY <1>3, <1>6, <2>1
<1> QED BY <1>4, <1>5, <1>6

\* The open gap of a code is its empty text, and a text that needs a section
\* has one.
LEMMA ProposedValues ==
    ASSUME NEW q \in ComputeQuestions, NEW c \in Compute!ComparableCodes \ {"LDC_REFERENCE"}
    PROVE  LET v == Compute!ProposedValue(q, c)
           IN  /\ v.gap <=> v.text = Compute!EmptyText
               /\ ~v.gap /\ c \notin Compute!DsiCodes \cup Compute!Unsourced(q) => v.evidence # 0
               /\ Compute!NotFound(q.dsi) /\ c \in Compute!DsiCodes /\ c # "IMPERVIOUS_COVER_LIMIT"
                    => v.gap
<1> DEFINE v == Compute!ProposedValue(q, c)
<1>1. CASE c \in Compute!DsiCodes
  <2>1. v = Compute!DsiValue(q, c)
    BY <1>1 DEF Compute!ProposedValue, Compute!DsiCodes, Compute!CitationOnlyCodes
  <2> HIDE DEF v
  <2> QED BY <1>1, <2>1, DsiValues DEF v
<1>2. CASE c \in Compute!CitationOnlyCodes
  <2>1. c \notin Compute!DsiCodes
    BY <1>2 DEF Compute!DsiCodes, Compute!CitationOnlyCodes
  <2>2. v = Compute!CitationOnly(q, c)
    BY <1>2, <2>1 DEF Compute!ProposedValue, Compute!CitationOnlyCodes
  <2> DEFINE relevant == Compute!FilterCitationHits(c, Compute!SearchHits(q, c))
  <2>3. /\ v.text = Compute!ComposeCitations(relevant)
        /\ v.gap = (v.text = Compute!EmptyText)
        /\ v.evidence = Compute!Evidence(relevant)
    BY <2>2 DEF Compute!CitationOnly
  <2>4. IsFinding(relevant)
    BY SearchesFind
  <2>5. DOMAIN relevant = {} => Compute!ComposeCitations(relevant) = Compute!EmptyText
    <3> HIDE DEF relevant
    <3> QED BY DEF Compute!ComposeCitations, Compute!DistinctCites, Compute!First3, Compute!Restrict
  <2> HIDE DEF relevant
  <2>6. v.text # Compute!EmptyText => v.evidence # 0
    BY <2>3, <2>4, <2>5, FindingsAreText
  <2> HIDE DEF v
  <2> QED BY <2>1, <2>3, <2>6 DEF v
<1>3. CASE c = "IMPERVIOUS_REGS"
  <2>1. v = Compute!ImperviousRegs(q) /\ c \notin Compute!DsiCodes
    BY <1>3 DEF Compute!ProposedValue, Compute!DsiCodes, Compute!CitationOnlyCodes
  <2>2. Compute!ImperviousRegs(q).gap <=> Compute!ImperviousRegs(q).text = Compute!EmptyText
    BY ImperviousValues
  <2>3. ~Compute!ImperviousRegs(q).gap /\ "IMPERVIOUS_REGS" \notin Compute!Unsourced(q)
            => Compute!ImperviousRegs(q).evidence # 0
    BY ImperviousValues
  <2> HIDE DEF v
  <2> QED BY <1>3, <2>1, <2>2, <2>3 DEF v
<1>4. CASE c = "GOVERNING_JURIS"
  <2>1. v = Compute!Value(<<"jurisdiction", Compute!Jurisdiction(q)>>,
                          Compute!Evidence(Compute!SearchHits(q, c)))
        /\ c \notin Compute!DsiCodes
    BY <1>4 DEF Compute!ProposedValue, Compute!DsiCodes, Compute!CitationOnlyCodes
  <2>2. v.text = <<"jurisdiction", Compute!Jurisdiction(q)>> /\ v.gap = FALSE
    BY <2>1 DEF Compute!Value
  <2>3. <<"jurisdiction", Compute!Jurisdiction(q)>> # Compute!EmptyText
    BY DEF Compute!EmptyText
  <2>4. c \in Compute!Unsourced(q)
    BY <1>4 DEF Compute!Unsourced
  <2> HIDE DEF v
  <2> QED BY <2>1, <2>2, <2>3, <2>4 DEF v
<1> QED BY <1>1, <1>2, <1>3, <1>4 DEF Compute!ComparableCodes

\* An open gap is an empty text.
LEMMA OpenGapsAreEmptyTexts ==
    ASSUME NEW q \in ComputeQuestions
    PROVE  Compute!GapsAreEmptyTexts(Compute!ComputeScenario(q))
<1> SUFFICES ASSUME NEW c \in Compute!ComparableCodes \ {"LDC_REFERENCE"}
             PROVE  c \in Compute!OpenGaps(q)
                        <=> Compute!ProposedValue(q, c).text = Compute!EmptyText
  BY DEF Compute!GapsAreEmptyTexts, Compute!ComputeScenario
<1>1. /\ Compute!ProposedValue(q, c).gap
            <=> Compute!ProposedValue(q, c).text = Compute!EmptyText
      /\ Compute!NotFound(q.dsi) /\ c \in Compute!DsiCodes /\ c # "IMPERVIOUS_COVER_LIMIT"
            => Compute!ProposedValue(q, c).gap
  BY ProposedValues
<1> QED BY <1>1 DEF Compute!OpenGaps

\* The limit to calculate with is the one that is displayed.
LEMMA LimitsAreDisplayed ==
    ASSUME NEW q
    PROVE  Compute!LimitIsDisplayed(Compute!ComputeScenario(q))
<1> DEFINE c == "IMPERVIOUS_COVER_LIMIT"
           texts == Compute!DsiTexts(q.dsi)
           family == Compute!HydratedFamily(q.hydrate)
           v == Compute!DsiValue(q, c)
           limit == Compute!ImperviousLimit(q)
<1>1. c \in Compute!DsiCodes /\ c \in Compute!ComparableCodes
  BY DEF Compute!DsiCodes, Compute!ComparableCodes
<1>2. Compute!ProposedValue(q, c) = v
  BY <1>1 DEF Compute!ProposedValue, Compute!DsiCodes, Compute!CitationOnlyCodes
<1>3. Compute!ComputeScenario(q).texts[c] = v.text /\ Compute!ComputeScenario(q).limit = limit
  BY <1>1, <1>2 DEF Compute!ComputeScenario
<1>4. CASE c \in DOMAIN texts
  <2>1. v.text = texts[c]
    BY <1>4 DEF Compute!DsiValue, Compute!Value
  <2>2. limit = Compute!Number(texts[c])
    BY <1>4 DEF Compute!ImperviousLimit
  <2>3. DOMAIN <<>> = {}
    OBVIOUS
  <2>4. texts[c] = <<q.dsi.standards[c]>>
    BY <1>4, <2>3 DEF Compute!DsiTexts
  <2>5. \A n : Compute!Number(<<n>>) = n
    BY DEF Compute!Number
  <2> QED BY <1>3, <2>1, <2>2, <2>4, <2>5 DEF Compute!LimitIsDisplayed
<1>5. CASE c \notin DOMAIN texts /\ family # None /\ family.limit # None
  <2>1. v.text = <<family.limit>> /\ limit = family.limit
    BY <1>5 DEF Compute!DsiValue, Compute!Value, Compute!ImperviousLimit
  <2> QED BY <1>3, <2>1 DEF Compute!LimitIsDisplayed
<1>6. CASE c \notin DOMAIN texts /\ ~(family # None /\ family.limit # None)
  <2>1. v = Compute!Gap
    BY <1>6 DEF Compute!DsiValue
  <2>2. v.text = Compute!EmptyText
    BY <2>1 DEF Compute!Gap
  <2> QED BY <1>3, <2>2 DEF Compute!LimitIsDisplayed
<1> QED BY <1>4, <1>5, <1>6

\* Where the overall risk is low, the comparisons of sourced texts are known.
LEMMA LowRisksAreKnown ==
    ASSUME NEW q \in ComputeQuestions
    PROVE  Compute!LowRiskIsKnown(q, Compute!ComputeScenario(q))
<1> DEFINE Level(c) == Compute!Compare(q, c).level
<1>1. /\ Compute!ComputeScenario(q).overall = Compute!Overall(q)
      /\ \A c \in Compute!ComparableCodes :
            Compute!ComputeScenario(q).comparisons[c] = Compute!Compare(q, c)
  BY DEF Compute!ComputeScenario
<1> SUFFICES ASSUME Compute!Overall(q) = "low",
                    NEW c \in Compute!ComparableCodes \ Compute!Unsourced(q)
             PROVE  Level(c) # "unknown"
  <2> HIDE DEF Level
  <2> QED BY <1>1 DEF Compute!LowRiskIsKnown, Level
<1>2. ~Compute!DistrictChanged(q) /\ Compute!OpenGaps(q) = {}
  BY DEF Compute!Overall
<1> DEFINE value == Compute!ProposedValue(q, c)
           before == IF c \in DOMAIN q.fields THEN q.fields[c] ELSE None
           kind == Compute!DiffKind(before, value.text)
           stale == c \in Compute!DsiCodes /\ q.dsi # None /\ q.dsi.stale
           first == Compute!FirstLevel(kind, Compute!DistrictChanged(q))
           dated == IF stale /\ first = "low" THEN "medium" ELSE first
           unbacked == value.evidence = 0 /\ kind # "unchanged" /\ c \notin Compute!DsiCodes
<1>3. c # "LDC_REFERENCE"
  BY DEF Compute!Unsourced
<1>4. ~value.gap
  BY <1>2 DEF Compute!OpenGaps
<1>5. value.text # Compute!EmptyText /\ (c \notin Compute!DsiCodes => value.evidence # 0)
  BY <1>3, <1>4, ProposedValues
<1>6. Level(c) = IF unbacked /\ dated = "low" THEN "unknown" ELSE dated
  BY DEF Compute!Compare
<1> HIDE DEF value, before, Level
<1>7. ~unbacked
  BY <1>5
<1>8. kind \in {"unchanged", "added", "changed"}
  BY <1>5 DEF Compute!DiffKind
<1> HIDE DEF kind, stale, unbacked
<1>9. first \in {"low", "medium"}
  BY <1>2, <1>8 DEF Compute!FirstLevel
<1> HIDE DEF first
<1> QED BY <1>6, <1>7, <1>9

-----------------------------------------------------------------------------
(* Prompts of sections *)

\* What a section may say of a code of its template is what the context that it
\* is given says, whether under the code or under its new name.
LEMMA FactsOfScope ==
    ASSUME NEW section, NEW context, NEW i \in DOMAIN section.template,
           NEW c \in section.template[i]
    PROVE  LET facts == Prompts!ScopedContext(section, context)
               said == Prompts!Sayable(section, context, c)
           IN  Prompts!SanitizedField(facts, c) = said /\ Prompts!Value(facts, c) = said
<1> DEFINE facts == Prompts!ScopedContext(section, context)
           allowed == Prompts!AllowedCodes(section)
           known == {d \in allowed : Prompts!SanitizedField(context, d) # None}
           alias == LegacyAliases[c]
<1>1. facts = [d \in known |-> Prompts!SanitizedField(context, d)]
  BY DEF Prompts!ScopedContext
<1>2. c \in allowed <=> (section.id = "zoning" \/ c \notin ZoningDsiFieldCodes)
  BY DEF Prompts!AllowedCodes
<1>3. ASSUME NEW d PROVE Prompts!Fact(context, d) # Stem /\ Prompts!SanitizedField(context, d) # Stem
  BY ControlPlaneAssumption DEF Prompts!Fact, Prompts!Sanitized, Prompts!SanitizedField
<1>4. ASSUME NEW d
      PROVE  /\ d \in known => Prompts!Value(facts, d) = Prompts!SanitizedField(context, d)
             /\ d \notin known => Prompts!Value(facts, d) = None
  BY <1>1 DEF Prompts!Value
<1>5. ASSUME NEW d PROVE Prompts!Fact(facts, d) = Prompts!Value(facts, d)
  <2> HIDE DEF facts, known
  <2>1. CASE d \in known
    BY <1>3, <1>4, <2>1 DEF Prompts!Fact, Prompts!Sanitized
  <2>2. CASE d \notin known
    BY <1>4, <2>2, ControlPlaneAssumption DEF Prompts!Fact, Prompts!Sanitized
  <2> QED BY <2>1, <2>2
<1>6. CASE c \in known
  <2>1. Prompts!Fact(facts, c) = Prompts!SanitizedField(context, c)
    BY <1>4, <1>5, <1>6
  <2>2. Prompts!SanitizedField(context, c) # None /\ c \in allowed
    BY <1>6
  <2>3. Prompts!SanitizedField(facts, c) = Prompts!SanitizedField(context, c)
    BY <2>1, <2>2 DEF Prompts!SanitizedField
  <2>4. Prompts!Sayable(section, context, c) = Prompts!SanitizedField(context, c)
    BY <1>2, <2>2 DEF Prompts!Sayable
  <2> QED BY <1>4, <1>6, <2>3, <2>4
<1>7. CASE c \notin known
  <2>1. Prompts!Fact(facts, c) = None
    BY <1>4, <1>5, <1>7
  <2>2. Prompts!Sayable(section, context, c) = None
    BY <1>2, <1>7 DEF Prompts!Sayable
  <2>3. CASE c \notin DOMAIN LegacyAliases
    <3>1. Prompts!SanitizedField(facts, c) = None
      BY <2>1, <2>3 DEF Prompts!SanitizedField
    <3> QED BY <1>4, <1>7, <2>2, <3>1
  <2>4. CASE c \in DOMAIN LegacyAliases
    <3>1. c \notin ZoningDsiFieldCodes /\ alias \notin DOMAIN LegacyAliases
      BY <2>4, ControlPlaneAssumption
    <3>2. Prompts!SanitizedField(context, c) = None
      BY <1>2, <1>7, <3>1
    <3>3. Prompts!Fact(context, c) = None /\ Prompts!Fact(context, alias) = None
      BY <2>4, <3>2 DEF Prompts!SanitizedField
    <3>4. Prompts!SanitizedField(context, alias) = None
      BY <3>1, <3>3 DEF Prompts!SanitizedField
    <3>5. alias \notin known
      BY <3>4
    <3>6. Prompts!Fact(facts, alias) = None
      BY <1>4, <1>5, <3>5
    <3>7. Prompts!SanitizedField(facts, c) = None
      BY <2>1, <2>4, <3>6 DEF Prompts!SanitizedField
    <3> QED BY <1>4, <1>7, <2>2, <3>7
  <2> QED BY <2>3, <2>4
<1> QED BY <1>6, <1>7

\* An agent's prompt has the lines of the template with something to say.
LEMMA PromptsPlaceFacts ==
    ASSUME NEW q
    PROVE  Prompts!FactsArePlaced(q, Prompts!Draft(q).agent)
<1> DEFINE facts == Prompts!ScopedContext(q.section, q.context)
           agent == Prompts!Draft(q).agent
           line == q.section.template
           Said(c) == Prompts!Sayable(q.section, q.context, c)
           speaking == {i \in DOMAIN line : line[i] = {} \/ \E c \in line[i] : Said(c) # None}
           kept == Prompts!KeptLines(line, facts)
<1>1. /\ agent.context = facts
      /\ agent.prompt = Prompts!RenderedPrompt(line, facts)
      /\ agent.hint = [c \in q.section.labTokens |-> Prompts!Value(facts, c)]
  BY DEF Prompts!Draft, Prompts!AgentPrompt
<1>2. \A i \in DOMAIN line : \A c \in line[i] :
        Prompts!SanitizedField(facts, c) = Said(c) /\ Prompts!Value(facts, c) = Said(c)
  BY FactsOfScope
<1>3. kept = speaking
  BY <1>2 DEF Prompts!KeptLines
<1>4. agent.prompt = [i \in kept |-> [c \in line[i] |-> Prompts!SanitizedField(facts, c)]]
  BY <1>1 DEF Prompts!RenderedPrompt
<1>5. \A i \in kept : [c \in line[i] |-> Prompts!SanitizedField(facts, c)] = [c \in line[i] |-> Said(c)]
  <2> HIDE DEF facts, Said
  <2> QED BY <1>2, <1>3
<1>6. agent.prompt = [i \in speaking |-> [c \in line[i] |-> Said(c)]]
  <2> HIDE DEF agent, facts, Said, kept, speaking
  <2> QED BY <1>3, <1>4, <1>5
<1>7. \A i \in speaking : \A c \in line[i] : agent.prompt[i][c] = Prompts!Value(agent.context, c)
  <2> HIDE DEF agent, facts, Said
  <2> QED BY <1>1, <1>2, <1>6
<1>8. \A c \in DOMAIN agent.hint : agent.hint[c] = Prompts!Value(agent.context, c)
  <2> HIDE DEF agent, facts
  <2> QED BY <1>1
<1> QED BY <1>6, <1>7, <1>8 DEF Prompts!FactsArePlaced

\* The two ways resolve the same model, instructions and search: each setting
\* apart, by what the section and the tenant have.
LEMMA WaysOfDraftsAgree ==
    ASSUME NEW q
    PROVE  Prompts!WaysAgree(q, Prompts!Draft(q))
<1> DEFINE draft == Prompts!Draft(q)
<1> SUFFICES ASSUME q.request.mode = "section"
             PROVE  Prompts!WaysAgree(q, draft)
  BY DEF Prompts!WaysAgree
<1>1. ASSUME q.section.modelPreset # NotText
      PROVE  draft.agent.model = draft.invoke.model
  <2>1. /\ draft.agent.model = Prompts!ModelId(Prompts!AgentModelPreset(q.tenant, q.section))
        /\ draft.invoke.model = Prompts!ModelId(Prompts!InvokeModelPreset(q.tenant, q.section))
    BY DEF Prompts!Draft, Prompts!AgentPrompt, Prompts!InvokeBody
  <2>2. CASE q.section.modelPreset \notin {None, Blank}
    BY <1>1, <2>1, <2>2
       DEF Prompts!AgentModelPreset, Prompts!InvokeModelPreset, Prompts!NonEmpty, Prompts!Or
  <2>3. CASE q.section.modelPreset \in {None, Blank}
    <3>1. /\ Prompts!AgentModelPreset(q.tenant, q.section)
                = Prompts!Or(Prompts!NonEmpty(q.tenant.modelPreset), "haiku")
          /\ Prompts!InvokeModelPreset(q.tenant, q.section)
                = Prompts!Or(q.tenant.modelPreset, "haiku")
      BY <2>3 DEF Prompts!AgentModelPreset, Prompts!InvokeModelPreset, Prompts!NonEmpty, Prompts!Or
    <3> QED
      BY <2>1, <3>1, ControlPlaneAssumption DEF Prompts!NonEmpty, Prompts!Or, Prompts!ModelId
  <2> QED BY <2>2, <2>3
<1>2. ASSUME q.tenant.sectionSystemPrompt # Blank
      PROVE  draft.agent.system = Prompts!NonEmpty(draft.invoke.system)
  <2>1. /\ draft.agent.system = Prompts!AgentSystemPrompt(q.tenant, q.section)
        /\ draft.invoke.system = Prompts!Or(q.tenant.sectionSystemPrompt, q.section.systemPrompt)
    BY DEF Prompts!Draft, Prompts!AgentPrompt, Prompts!InvokeBody, Prompts!InvokeSystemPrompt
  <2> QED BY <1>2, <2>1 DEF Prompts!AgentSystemPrompt, Prompts!NonEmpty, Prompts!Or
<1>3. ASSUME q.request.search = None, q.section.id # "draft"
      PROVE  draft.agent.search <=> draft.invoke.search /\ q.tenant.provider
  <2>1. /\ draft.agent.search = Prompts!AgentSearch(q.tenant, q.section)
        /\ draft.invoke.search = Prompts!SectionSearch(q.tenant, q.section, q.request)
    BY DEF Prompts!Draft, Prompts!AgentPrompt, Prompts!InvokeBody, Prompts!InvokeSearch
  <2> QED BY <1>3, <2>1 DEF Prompts!AgentSearch, Prompts!SectionSearch
<1> QED BY <1>1, <1>2, <1>3 DEF Prompts!WaysAgree

\* A structured answer with a search gets the tokens of the floor at least.
LEMMA StructuredSearchesFit ==
    ASSUME NEW q, q.section.maxOutputTokens \in Nat
    PROVE  Prompts!StructuredSearchFits(Prompts!Draft(q).invoke)
BY DEF Prompts!StructuredSearchFits, Prompts!Draft, Prompts!InvokeBody,
       Prompts!ResponseMode, Prompts!MaxOutputTokens, Prompts!TokenFloor

-----------------------------------------------------------------------------
(* Answers *)

\* An answer is what the algorithm of the area makes of the question.
AnswersAreComputed ==
    answer # None => question \in Questions(area) /\ answer = AnswerTo(question)

\* A question and its answer do not change any more.
LEMMA AnswersStayComputed == Spec => []AnswersAreComputed
<1>1. Init => AnswersAreComputed
  BY DEF Init, AnswersAreComputed
<1>2. Init => question \in Questions(area)
  BY DEF Init
<1>3. ASSUME question \in Questions(area), AnswersAreComputed, [Next]_vars
      PROVE  (question \in Questions(area))' /\ AnswersAreComputed'
  <2>1. area' = area /\ question' = question
    BY <1>3, AreaIsFixed
       DEF Next, vars, ProjectWork, CompanyWork, TenantWork, GuardRailWork, RoutingWork, FileWork, Ask
  <2>2. answer' = answer \/ answer' = AnswerTo(question)
    BY <1>3
       DEF Next, vars, ProjectWork, CompanyWork, TenantWork, GuardRailWork, RoutingWork, FileWork, Ask
  <2>3. (question \in Questions(area))'
    BY <1>3, <2>1 DEF Questions
  <2>4. AnswerTo(question)' = AnswerTo(question)
    BY <2>1 DEF AnswerTo
  <2> QED BY <1>3, <2>1, <2>2, <2>3, <2>4 DEF AnswersAreComputed
<1> QED BY <1>1, <1>2, <1>3, PTL DEF Spec

\* Of the scopes that name a code, the most specific one decides alone, and
\* where the ordinances are not indexed nothing is left to the model.
THEOREM ScopesAlwaysDecide == Spec => []MostSpecificScopeDecides
<1>1. AnswersAreComputed => MostSpecificScopeDecides
  BY RulesOfTheMostSpecificScope DEF AnswersAreComputed, MostSpecificScopeDecides, Answered
<1> QED BY <1>1, AnswersStayComputed, PTL

\* No extract gets into a brief that the scopes of the place do not allow.
THEOREM BriefsAreAlwaysGrounded == Spec => []BriefsAreGrounded
<1>1. AnswersAreComputed => BriefsAreGrounded
  BY BriefsOfTheScopes DEF AnswersAreComputed, BriefsAreGrounded, Answered
<1> QED BY <1>1, AnswersStayComputed, PTL

\* The gaps, the limit and the overall risk of a computed scenario agree with
\* its texts and comparisons.
THEOREM ScenariosAlwaysAgree == Spec => []ComputedScenarioAgrees
<1>1. ASSUME AnswersAreComputed, Answered("compute")
      PROVE  question \in ComputeQuestions /\ answer = Compute!ComputeScenario(question)
  BY <1>1 DEF AnswersAreComputed, Answered, Questions, AnswerTo
<1>2. AnswersAreComputed => ComputedScenarioAgrees
  BY <1>1, OpenGapsAreEmptyTexts, LimitsAreDisplayed, LowRisksAreKnown DEF ComputedScenarioAgrees
<1> QED BY <1>2, AnswersStayComputed, PTL

\* A prompt says the facts of its section, and a structured answer that searches
\* has room.
THEOREM PromptLabAlwaysDecides == Spec => []PromptLabDecides
<1>1. ASSUME AnswersAreComputed, Answered("prompts")
      PROVE  question.section.maxOutputTokens \in Nat /\ answer = Prompts!Draft(question)
  BY <1>1, ControlPlaneAssumption DEF AnswersAreComputed, Answered, Questions, AnswerTo
<1>2. AnswersAreComputed => PromptLabDecides
  BY <1>1, PromptsPlaceFacts, StructuredSearchesFit DEF PromptLabDecides
<1> QED BY <1>2, AnswersStayComputed, PTL

\* Agent runs and LLM invokes resolve any configuration alike, but for a
\* section's preset that is no text and a blank prompt of the tenant.
THEOREM ExecutorsAlwaysAgree == Spec => []ExecutorsAgree
<1>1. ASSUME AnswersAreComputed, Answered("prompts")
      PROVE  answer = Prompts!Draft(question)
  BY <1>1 DEF AnswersAreComputed, Answered, AnswerTo
<1>2. AnswersAreComputed => ExecutorsAgree
  BY <1>1, WaysOfDraftsAgree DEF ExecutorsAgree
<1> QED BY <1>2, AnswersStayComputed, PTL
=============================================================================
