--------------------------- MODULE ControlPlane ---------------------------
(***************************************************************************)
(* The REST control plane: the handlers of api/routes over one store.      *)
(* Projects, clients, tenants and guard rails share the request slots.  A  *)
(* behaviour has requests of one area only, since areas touch different    *)
(* rows.  Two further areas are a process in which requests share more     *)
(* than the store: its environment and its file.  Four put one question to *)
(* an algorithm that has no state of its own and look at the answer.       *)
(***************************************************************************)
EXTENDS Projects, Clients, Tenants, GuardRails, DataRouting, FileStore

Briefs == INSTANCE TopicBriefs
Compute == INSTANCE ZoningCompute

CONSTANTS
    Areas,             \* the areas that are looked at
    SectionPatches, ParcelPatches, ZoningPatches,  \* the patches of each area
    Deployment(_),     \* the kind of each tenant id at first, by area
    Blank, NotText, Stem, LegacyAliases, ZoningDsiFieldCodes, AlwaysKeepCodes, ModelPresets,
                       \* of SectionPrompts
    RuleQuestions,     \* guard rails to merge for a place
    BriefQuestions,    \* topics to brief
    ComputeQuestions,  \* zoning scenarios to compute
    PromptQuestions    \* sections to draft

Prompts == INSTANCE SectionPrompts

VARIABLES area, question, answer

vars == <<req, projectVars, clientVars, tenantVars, railVars, routingVars, fileVars,
          area, question, answer>>

ProjectAreas == {"project clients", "sections", "parcel", "zoning", "notes"}
TenantAreas == {"fresh", "slugs", "llm", "purge"}

ASSUME ControlPlaneAssumption ==
    /\ Areas \subseteq ProjectAreas \cup TenantAreas
                       \cup {"companies", "guard rails", "data routing", "file store",
                             "rules", "briefs", "compute", "prompts"}
    /\ SectionPatches \cup ParcelPatches \cup ZoningPatches \subseteq Patches
    /\ "haiku" \in ModelPresets /\ Blank \notin ModelPresets
    /\ None # Stem /\ None \notin {"impervious", "dimensional"}
    /\ DOMAIN LegacyAliases \cap ZoningDsiFieldCodes = {}
    /\ \A c \in DOMAIN LegacyAliases : LegacyAliases[c] \notin DOMAIN LegacyAliases
    /\ \A q \in PromptQuestions : q.section.maxOutputTokens \in Nat
    /\ \A q \in ComputeQuestions : \A c \in Compute!ComparableCodes :
        q.hits[c] \in Compute!HitLists \cup {None}
    /\ \A a \in Areas : Deployment(a) \in StartingKinds

Questions(a) ==
    CASE a = "rules" -> RuleQuestions
      [] a = "briefs" -> BriefQuestions
      [] a = "compute" -> ComputeQuestions
      [] a = "prompts" -> PromptQuestions
      [] OTHER -> {None}

Init ==
    /\ area \in Areas
    /\ RequestsInit /\ ProjectsInit /\ ClientsInit /\ GuardRailsInit
    /\ DataRoutingInit(IF area = "data routing" THEN Environments ELSE {None})
    /\ FileStoreInit
    /\ TenantsInit(Deployment(area))
    /\ question \in Questions(area)
    /\ answer = None

-----------------------------------------------------------------------------
PatchesOf(a) ==
    CASE a = "sections" -> SectionPatches
      [] a = "parcel" -> ParcelPatches
      [] a = "zoning" -> ZoningPatches
      [] OTHER -> {}

ProjectRequest(s, p) ==
    \/ LifeRequest(s, p)
    \/ area = "project clients" /\ ClientRequest(s, p)
    \/ area \in {"sections", "parcel", "zoning"} /\ DocumentRequest(s, p, PatchesOf(area))
    \/ area = "notes" /\ NoteRequest(s, p)

ProjectWork ==
    /\ area \in ProjectAreas
    /\ \E s \in Slots : \/ \E p \in ProjectIds : ProjectRequest(s, p)
                        \/ ProjectStep(s)
                        \/ AbortProjectRequest(s)
    /\ UNCHANGED <<clientVars, tenantVars, railVars, routingVars, fileVars, area, question, answer>>

CompanyWork ==
    /\ area = "companies"
    /\ ClientsNext
    /\ UNCHANGED <<projectVars, tenantVars, railVars, routingVars, fileVars, area, question, answer>>

TenantWork ==
    /\ area \in TenantAreas
    /\ \E s \in Slots :
        \/ \E t \in TenantIds :
            \/ area # "purge" /\ TenantRequest(s, t)
            \/ area \in {"fresh", "slugs"} /\ SlugRequest(s, t)
            \/ area = "llm" /\ LlmRequest(s, t)
            \/ area = "purge" /\ PurgeRequest(s, t)
        \/ TenantStep(s)
        \/ AbortTenantRequest(s)
    /\ UNCHANGED <<projectVars, clientVars, railVars, routingVars, fileVars, area, question, answer>>

GuardRailWork ==
    /\ area = "guard rails"
    /\ GuardRailsNext
    /\ UNCHANGED <<projectVars, clientVars, tenantVars, routingVars, fileVars, area, question, answer>>

RoutingWork ==
    /\ area = "data routing"
    /\ DataRoutingNext
    /\ UNCHANGED <<projectVars, clientVars, tenantVars, railVars, fileVars, area, question, answer>>

FileWork ==
    /\ area = "file store"
    /\ FileStoreNext
    /\ UNCHANGED <<projectVars, clientVars, tenantVars, railVars, routingVars, area, question, answer>>

AnswerTo(q) ==
    CASE area = "rules" -> Briefs!ResolveGuardRails(q.rows, q.place, q.catalog)
      [] area = "briefs" ->
            Briefs!PrefetchedBriefs(q.rows, q.project, q.catalog, q.retrieval, q.reply)
      [] area = "compute" -> Compute!ComputeScenario(q)
      [] area = "prompts" -> Prompts!Draft(q)

Ask ==
    /\ question # None /\ answer = None
    /\ answer' = AnswerTo(question)
    /\ question' = question
    /\ UNCHANGED <<req, projectVars, clientVars, tenantVars, railVars, routingVars, fileVars, area>>

Next == \/ ProjectWork \/ CompanyWork \/ TenantWork \/ GuardRailWork
        \/ RoutingWork \/ FileWork \/ Ask

Spec == Init /\ [][Next]_vars

-----------------------------------------------------------------------------
(* Properties of the answers *)

Answered(a) == area = a /\ answer # None

\* guardrails_merge.py merges dumps of whole rules with their defaults: of the
\* scopes that name a code, the most specific one decides alone.  When the
\* ordinances are not indexed, nothing is left to the model and no topic is
\* on that was off or needs the index.
MostSpecificScopeDecides ==
    Answered("rules") =>
        LET ready == Briefs!CatalogReady(question.catalog, question.place.jurisdiction)
            Field(c) == Briefs!FieldInForce(question.rows, question.place, c)
            Topic(t) == Briefs!TopicInForce(question.rows, question.place, t)
        IN  /\ DOMAIN answer.fields = Briefs!Named(question.rows, question.place, "fields")
            /\ DOMAIN answer.topics = Briefs!Named(question.rows, question.place, "topics")
            /\ answer.topic_hydrate_enabled => ready
            /\ \A c \in DOMAIN answer.fields :
                IF ready THEN answer.fields[c] = Field(c)
                ELSE /\ ~answer.fields[c].llm_extract_allowed
                     /\ answer.fields[c].source_tier \cap Briefs!TopicTiers = {}
                     /\ answer.fields[c].not_applicable = Field(c).not_applicable
            /\ \A t \in DOMAIN answer.topics :
                IF ready THEN /\ answer.topics[t].enabled = Topic(t).enabled
                              /\ answer.topics[t].source_tier = Topic(t).source_tier
                ELSE answer.topics[t].enabled =>
                        /\ Topic(t).enabled
                        /\ answer.topics[t].source_tier
                            \subseteq Topic(t).source_tier \ Briefs!TopicTiers

\* A project is looked at where its scenario is, if it has one.
PlaceLookedAt(project) ==
    [Briefs!BriefPlace(project) EXCEPT
        !.jurisdiction = IF project.effective # None THEN project.effective ELSE @]

\* An extract gets into a brief only where the ordinances of the jurisdiction
\* that is looked at are indexed, under a topic that the most specific scope
\* leaves on.  Unless the topic is summary-only, that scope also lets the model
\* extract the field, and the extract is cited if it asks for that.
BriefsAreGrounded ==
    Answered("briefs") =>
        LET place == PlaceLookedAt(question.project) IN
        \A t \in DOMAIN answer : answer[t].fields # {} =>
            /\ Briefs!CatalogReady(question.catalog, place.jurisdiction)
            /\ Briefs!TopicInForce(question.rows, place, t).enabled
            /\ \/ Briefs!SummaryOnly(question.rows, place, t)
               \/ \A x \in answer[t].fields : Briefs!MayExtract(question.rows, place, x)

\* topic_brief.py: "Drop extracts that violate field guardrails (T1 citation
\* gate)", of which the module is "retrieve + closed-world LLM + citation gate".
ExtractsPassTheGate ==
    Answered("briefs") =>
        \A t \in DOMAIN answer : \A x \in answer[t].fields :
            Briefs!MayExtract(question.rows, PlaceLookedAt(question.project), x)

\* The open gaps of a computed scenario are the codes without a proposed text
\* (but the land development code, whose first hit may have no citation): a
\* DSI record that is missing opens them, a hydrated limit closes one again.
\* The impervious cover limit that later steps calculate with is the one that
\* is displayed; the two are chosen from the same sources in two places.  And
\* an overall risk of "low" is never the word for a comparison that is not
\* known, but for codes whose text the platform makes up itself or gets hydrated
\* without a section.
ComputedScenarioAgrees ==
    Answered("compute") =>
        /\ Compute!GapsAreEmptyTexts(answer)
        /\ Compute!LimitIsDisplayed(answer)
        /\ Compute!LowRiskIsKnown(question, answer)

\* "Prompt Lab defines drafting behavior" (agent_prompt.py): the prompt of a
\* section says the facts that the section may see, all of them and no others,
\* and a structured answer of an invoke that searches has the tokens for it.
PromptLabDecides ==
    Answered("prompts") =>
        /\ Prompts!FactsArePlaced(question, answer.agent)
        /\ Prompts!StructuredSearchFits(answer.invoke)

\* The agent run and the LLM invoke, each of which resolves the configuration
\* itself (agent_prompt.py, llm_invoke.py), draft a section with one model, the
\* same instructions and the same search, but where the code of the two differs
\* (WaysAgree).
ExecutorsAgree ==
    Answered("prompts") => Prompts!WaysAgree(question, answer)
=============================================================================
