-------------------------- MODULE MCControlPlane --------------------------
(* Two requests at a time; the data of each area as small as its hazards    *)
(* allow.                                                                   *)
EXTENDS ControlPlane, TLC

CONSTANTS b0, b1, m1, x, c2, i1, i2, t1, t2, t3, k1, k2, u1, u2

Symmetry == Permutations(Slots)

-----------------------------------------------------------------------------
(* Projects *)

SectionPatch(b, st) == [section |-> [body |-> b, status |-> st, client |-> None]]

MCSectionPatches ==
    {SectionPatch(b0, "approved"), SectionPatch(b0, "in_review"),
     SectionPatch(b1, "draft"), SectionPatch(b1, "approved")}

MCParcelPatches == [parcel : [captured : BOOLEAN, basemap : BOOLEAN]]

Zoning(basis, active, status) ==
    [zoning |-> [basis |-> basis, active |-> active, scenario |-> status]]

MCZoningPatches ==
    {Zoning("baseline", FALSE, "draft"), Zoning("proposed", TRUE, "accepted"),
     Zoning("proposed", TRUE, "rejected")}

MCPatches == MCSectionPatches \cup MCParcelPatches \cup MCZoningPatches

-----------------------------------------------------------------------------
(* Clients *)

MCClientBodies ==
    {[contacts |-> [NoContacts EXCEPT ![m1] = x], notes |-> {}],
     [contacts |-> NoContacts, notes |-> Remarks]}

MCClientPatches == {[company |-> c2], [contacts |-> NoContacts]}

-----------------------------------------------------------------------------
(* Tenants: a deployment of before the slugs, one with its Platform tenant  *)
(* only, and one with a firm.                                               *)

MCDeployment(a) ==
    [t \in TenantIds |->
        CASE a = "fresh" /\ t = t2 -> "legacy"
          [] a \in {"slugs", "llm", "purge"} /\ t = t1 -> "platform"
          [] a = "purge" /\ t = t2 -> "firm"
          [] a # "slugs" /\ t = t3 -> "gone"
          [] OTHER -> "new"]

-----------------------------------------------------------------------------
(* File store: a row that is saved, one whose deletion is not, and a kind    *)
(* that is never saved.                                                      *)

MCContents ==
    [k \in {"tenant", "profile", "agent run"} |->
        IF k = "tenant" THEN {"a", "b"} ELSE {"there"}]

-----------------------------------------------------------------------------
(* Guard rails *)

MCSeedScopes == <<[key |-> k1, rails |-> "r1"], [key |-> k2, rails |-> "r1"]>>

Row(fields, topics) == [prompt |-> None, fields |-> fields, topics |-> topics]

Allowed == [llm_extract_allowed |-> TRUE, source_tier |-> {"topic_hydrate"}]

FieldRules ==
    {<<>>, [f1 |-> <<>>], [f1 |-> Allowed],
     [f1 |-> [llm_extract_allowed |-> TRUE, citation_required |-> FALSE]],
     [f1 |-> [llm_extract_allowed |-> TRUE, not_applicable |-> TRUE]]}

TopicRules ==
    {<<>>, [t1 |-> <<>>], [t1 |-> [enabled |-> FALSE]],
     [t1 |-> [source_tier |-> {"topic_summary"}]],
     [t1 |-> [source_tier |-> {"dsi", "topic_hydrate"}, retrieval_budget |-> 7]]}

DefaultKey == <<"default", "all">>
StateKey == <<"state", "TX">>
CountyKey == <<"county", "48453">>
Jurisdiction1 == <<"jurisdiction", "j1">>
Jurisdiction2 == <<"jurisdiction", "j2">>

NoRows ==
    [k \in {DefaultKey, StateKey, CountyKey, Jurisdiction1, Jurisdiction2} |-> None]

\* Rows that lift, take back, leave alone or replace what a broader scope says.
Overrides ==
    {Row([f1 |-> Allowed], [t1 |-> <<>>]),
     Row([f1 |-> <<>>], <<>>),
     Row(<<>>, [t1 |-> [source_tier |-> {"topic_summary"}]]),
     Row([f1 |-> [llm_extract_allowed |-> TRUE, citation_required |-> FALSE]],
         [t1 |-> [enabled |-> FALSE]])}

Maybe(set) == set \cup {None}

MCRuleQuestions ==
    {[rows |-> [NoRows EXCEPT ![DefaultKey] = Row(f, t), ![StateKey] = st, ![Jurisdiction1] = j],
      place |-> [jurisdiction |-> key, county |-> None, state |-> "TX"],
      catalog |-> c] :
        f \in FieldRules, t \in TopicRules, st \in Maybe(Overrides), j \in Maybe(Overrides),
        key \in {"j1", None}, c \in {[j1 |-> "ready"], [j1 |-> "building"]}}

-----------------------------------------------------------------------------
(* Briefs *)

\* A project with a scenario for its own or for another jurisdiction, and one
\* without a scenario.
MCProjectPlaces ==
    [baseline : {"j1"}, effective : {"j1", "j2"}, site : {<<None, "j1", None>>},
     counties : {<<None, None, "48453">>}]
    \cup [baseline : {None}, effective : {None}, site : {<<None, "j1", None>>, <<None, None, None>>},
          counties : {<<None, None, None>>}]

Extracts == [code : {"f1"}, section : BOOLEAN, quote : BOOLEAN]

Replies ==
    {[kind |-> "failed"], [kind |-> "text"], [kind |-> "json", summary |-> TRUE, fields |-> {}],
     [kind |-> "json", summary |-> TRUE, fields |-> Extracts]}

Retrievals ==
    {[corpus |-> "building", result |-> "none", sections |-> FALSE]}
    \cup [corpus : {"ready"}, result : {"complete", "partial", "skipped"},
          sections : BOOLEAN]

MCBriefQuestions ==
    {[rows |-> [NoRows EXCEPT ![DefaultKey] = d, ![Jurisdiction1] = i, ![Jurisdiction2] = j],
      project |-> p, catalog |-> c, retrieval |-> r, reply |-> l] :
        d \in Overrides, i \in Maybe(Overrides), j \in Maybe(Overrides), p \in MCProjectPlaces,
        c \in {[j1 |-> "ready"], [j1 |-> "ready", j2 |-> "ready"]},
        r \in Retrievals, l \in Replies}

-----------------------------------------------------------------------------
(* Zoning scenarios *)

Hit(title, cite, excerpt) == [title |-> title, cite |-> cite, excerpt |-> excerpt]

\* Nothing found; boilerplate; districts out of rank order and one section
\* twice; a section for every code; a hit without a citation.
HitLists ==
    {<<>>, <<Hit("boilerplate", "a", TRUE)>>,
     <<Hit("a district", "a", FALSE), Hit("own district", "b", FALSE),
       Hit("names code", "b", TRUE), Hit("names code", "c", TRUE), Hit("a district", "d", TRUE)>>,
     <<Hit("own district", "a", TRUE), Hit("compatibility", "b", TRUE),
       Hit("impervious", "c", TRUE)>>,
     <<Hit("impervious", None, TRUE), Hit("other", "b", FALSE)>>}

Dsi(found, stale, citations, standards) ==
    [found |-> found, stale |-> stale, citations |-> citations, standards |-> standards]

AllStandards == [c \in Compute!DsiCodes \ {"EASEMENTS_SETBACKS"} |-> 2]

Dsis ==
    {None, Dsi(FALSE, FALSE, {}, <<>>)}
    \cup {Dsi(TRUE, stale, cites, std) :
            stale \in BOOLEAN, cites \in {{}, {"impervious", "dimensional"}},
            std \in {<<>>, [IMPERVIOUS_COVER_LIMIT |-> 2], AllStandards}}

Hydrations ==
    Maybe([status : {"complete"}, regs : BOOLEAN, limit : {3, None}, cite : BOOLEAN])

\* Nothing in the zoning section, empty texts, numbers on either side of the
\* proposed ones, and the very values that are proposed.
BaselineFields ==
    {<<>>} \cup {[c \in Compute!ComparableCodes |-> v] : v \in {<<>>, <<1>>, <<3>>}}
    \cup {[c \in Compute!ComparableCodes |->
            CASE c = "GOVERNING_JURIS" -> <<"jurisdiction", "j1">>
              [] c = "ZONING_REGS" -> <<"regs", "proposed">>
              [] OTHER -> <<2>>]}

MCComputeQuestions ==
    {[hits |-> [c \in Compute!ComparableCodes |-> h], dsi |-> d, hydrate |-> y, fields |-> f,
      siteDistrict |-> sd, jurisdictions |-> <<None, "j1", "j2">>] :
        h \in HitLists \cup {None}, d \in Dsis, y \in Hydrations, f \in BaselineFields,
        sd \in {"proposed", None}}

-----------------------------------------------------------------------------
(* Prompts: a renamed code, a zoning dimension and two plain codes; lines    *)
(* without tokens, with one and with siblings.                               *)

MCLegacyAliases == [TCAD_INFO |-> "CAD_INFO"]

MCSection ==
    [id |-> "parcel", template |-> <<{}, {"UTILITY"}>>, inputCodes |-> {"UTILITY"},
     labTokens |-> {}, plainTokens |-> {}, modelPreset |-> None, systemPrompt |-> None,
     webSearch |-> None, maxOutputTokens |-> 1024]

MCTenant ==
    [modelPreset |-> "opus", sectionSystemPrompt |-> "tenant's", chatPrompt |-> "chat's",
     webSearch |-> TRUE, chatSearch |-> TRUE, provider |-> TRUE, responseMode |-> "structured"]

MCRequest == [mode |-> "section", search |-> None]

MCTemplates ==
    {<<{}>>, <<{"TCAD_INFO"}, {}>>, <<{"TCAD_INFO", "UTILITY"}, {"SETBACKS"}>>,
     <<{"SETBACKS", "UTILITY"}, {"CAD_INFO"}, {"TCAD_INFO", "SETBACKS"}>>}

MCFactQuestions ==
    {[tenant |-> MCTenant, request |-> MCRequest, context |-> facts,
      section |-> [MCSection EXCEPT !.id = i, !.template = template, !.inputCodes = codes,
                        !.labTokens = lab, !.plainTokens = {"UTILITY"}]] :
        facts \in [{"TCAD_INFO", "CAD_INFO", "SETBACKS", "UTILITY"} -> {None, "stem", "fact"}],
        i \in {"parcel", "zoning"}, template \in MCTemplates,
        codes \in {{}, {"SETBACKS", "CAD_INFO"}}, lab \in {{}, {"UTILITY", "SETBACKS"}}}

\* Texts of every kind for both settings, at both of their places.
MCTextQuestions ==
    {[tenant |-> [MCTenant EXCEPT !.modelPreset = tm, !.sectionSystemPrompt = tp],
      section |-> [MCSection EXCEPT !.id = i, !.modelPreset = sm, !.systemPrompt = sp],
      request |-> [mode |-> mode, search |-> None],
      context |-> [UTILITY |-> "fact"]] :
        tm \in {None, Blank, NotText, "opus"}, sm \in {None, Blank, NotText, "retired", "haiku"},
        tp \in {None, Blank, NotText, "tenant's"}, sp \in {None, Blank, NotText, "section's"},
        i \in {"parcel", "draft"}, mode \in {"section", "chat"}}

MCSearchQuestions ==
    {[tenant |-> [MCTenant EXCEPT !.webSearch = ts, !.provider = provider,
                        !.chatSearch = cs, !.responseMode = response],
      section |-> [MCSection EXCEPT !.id = i, !.webSearch = ss, !.maxOutputTokens = tokens],
      request |-> [mode |-> mode, search |-> over],
      context |-> [UTILITY |-> "fact"]] :
        ts \in BOOLEAN, ss \in BOOLEAN \cup {None, NotText}, provider \in BOOLEAN,
        cs \in BOOLEAN, response \in {"structured", "text"}, i \in {"parcel", "draft"},
        tokens \in {1024, 8192}, mode \in {"section", "chat"}, over \in Maybe(BOOLEAN)}

MCPromptQuestions == MCFactQuestions \cup MCTextQuestions \cup MCSearchQuestions

-----------------------------------------------------------------------------
\* States in which collisions and misses have touched all that the properties of
\* the area are about are not explored any further: the properties hold of what
\* is untouched only.  (StoredStatesLoad holds of all states of the zoning area.)
\* Nor is what happens once the Platform tenant has lost its slug or may be
\* purged, or there are two of them: then it is a tenant like the others.  Of two
\* ids that are not in use i1 or t2 is taken first, and where configurations are looked
\* at, a new tenant has the slug a.
NamedA == \A s \in Slots :
    req[s].at \in {"tenant.put", "tenant.unslug", "tenant.meta", "tenant.slug"} =>
        req[s].row.slug \in {PlatformSlug, <<"a", 1>>}

Interesting ==
    /\ area \in ProjectAreas \ {"zoning"} => ~(ProjectIds \subseteq tainted)
    /\ area = "companies" => ~(Companies \subseteq muddled) /\ (i2 \in issued => i1 \in issued)
    /\ area \in TenantAreas => {"slugs", "platform"} \cap torn = {}
    /\ area = "slugs" => (t3 \in made => t2 \in made)
    /\ area = "llm" => "baseline" \notin torn /\ NamedA
    /\ area = "purge" => ~(Users \cup {t2} \subseteq torn)
=============================================================================
