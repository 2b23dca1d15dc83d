--------------------------- MODULE TopicBriefs ---------------------------
(***************************************************************************)
(* services/topic_brief.py and services/zoning_brief_context.py: the       *)
(* briefs of zoning topics that POST /v1/zoning/brief answers with and     *)
(* that an agent run fetches before it drafts the zoning section.  The     *)
(* guard rails in force say which topics are briefed and which extracts of *)
(* the model are kept; the data service retrieves the ordinance sections.  *)
(*                                                                         *)
(* Data: labels, messages, prompts, summaries and citations are left out,  *)
(* a summary but for being there.  An extract is its field code and        *)
(* whether it names a section and quotes it.  The model's reply is JSON,   *)
(* text without JSON or a failure.  All topics get the same retrieval      *)
(* result and the same reply.                                             *)
(***************************************************************************)
EXTENDS GuardRailRules

-----------------------------------------------------------------------------
(* build_zoning_brief_request: where the project is *)

\* The first of the values that is there.
FirstOf(values) ==
    LET given == {i \in DOMAIN values : values[i] # None}
    IN  IF given = {} THEN None
        ELSE values[CHOOSE i \in given : \A j \in given : i <= j]

\* Broken: the parcel's own jurisdiction is preferred to that of the scenario.
BaselineJurisdiction(project) ==
    FirstOf(<<project.baseline, project.effective,
              project.site[1], project.site[2], project.site[3]>>)

\* _jurisdiction_key: of the scenario that is being looked at, else of the
\* site's payload (three places).
JurisdictionKey(project) ==
    FirstOf(<<project.effective, project.baseline,
              project.site[1], project.site[2], project.site[3]>>)

\* _county_fips: the parcel's, else the geometry's; a FIPS code that is not
\* five digits is as good as absent.
CountyFips(project) == FirstOf(project.counties)

\* _state_abbr: the prefix of the FIPS code, for two states.
StateAbbr(county) ==
    CASE county = "48453" -> "TX"
      [] county = "53033" -> "WA"
      [] OTHER -> None

BriefPlace(project) ==
    [jurisdiction |-> JurisdictionKey(project),
     county       |-> CountyFips(project),
     state        |-> StateAbbr(CountyFips(project))]

-----------------------------------------------------------------------------
(* build_zoning_briefs *)

Cited(extract) == extract.section /\ extract.quote

PassesGate(extract, rules) ==
    /\ extract.code \in DOMAIN rules
    /\ ~rules[extract.code].not_applicable
    /\ rules[extract.code].llm_extract_allowed
    /\ rules[extract.code].citation_required => Cited(extract)

\* apply_citation_gate
CitationGate(extracts, rules) == {x \in extracts : PassesGate(x, rules)}

\* _enabled_topic_ids
EnabledTopics(effective, requested) ==
    IF requested # {} THEN requested
    ELSE {t \in DOMAIN effective.topics :
            effective.topics[t].enabled /\ effective.topics[t].source_tier \cap TopicTiers # {}}

Hydrates(rule) == "topic_hydrate" \in rule.source_tier

\* What becomes of a topic before the model is asked, or "asked".
Outcome(effective, topic, retrieval) ==
    IF ~effective.topic_hydrate_enabled THEN "disabled"
    ELSE IF retrieval.corpus # "ready" THEN "unavailable"
    ELSE IF topic \notin DOMAIN effective.topics \/ ~effective.topics[topic].enabled THEN "disabled"
    ELSE IF effective.topics[topic].source_tier \cap TopicTiers = {} THEN "skipped"
    ELSE IF retrieval.result = "none" THEN "unavailable"
    ELSE IF retrieval.result \in {"disabled", "skipped", "no_router"} THEN "skipped"
    ELSE IF ~retrieval.sections THEN "no_sections"
    ELSE "asked"

\* _parse_llm_json finds an object in the reply.
Parsed(reply) == reply.kind = "json"

\* _brief_from_llm: a reply without JSON is a summary at best.
BriefFromLlm(effective, topic, retrieval, reply) ==
    LET hydrates == Hydrates(effective.topics[topic])
        fields == IF hydrates THEN CitationGate(reply.fields, effective.fields) ELSE reply.fields
        Summarised(status, otherwise) == IF reply.summary THEN status ELSE otherwise
    IN  IF ~Parsed(reply) THEN [status |-> "partial", fields |-> {}]
        ELSE
        [fields |-> fields,
         status |-> IF ~hydrates THEN Summarised("summary_only", "partial")
                    ELSE IF retrieval.result = "partial" \/ fields = {}
                    THEN Summarised("partial", "unavailable")
                    ELSE "complete"]

TopicBrief(effective, topic, retrieval, reply) ==
    LET outcome == Outcome(effective, topic, retrieval) IN
    IF outcome # "asked" THEN [status |-> outcome, fields |-> {}]
    ELSE IF reply.kind = "failed" THEN [status |-> "partial", fields |-> {}]
    ELSE BriefFromLlm(effective, topic, retrieval, reply)

ZoningBriefs(rows, place, catalog, requested, retrieval, reply) ==
    LET effective == ResolveGuardRails(rows, place, catalog)
    IN  [t \in EnabledTopics(effective, requested) |->
            TopicBrief(effective, t, retrieval, reply)]

\* An agent's prefetch: no briefs for a project whose jurisdiction is not known.
PrefetchedBriefs(rows, project, catalog, retrieval, reply) ==
    IF JurisdictionKey(project) = None THEN <<>>
    ELSE ZoningBriefs(rows, BriefPlace(project), catalog, {}, retrieval, reply)

-----------------------------------------------------------------------------
(* What the rows themselves say of an extract, at the place. *)
MayExtract(rows, place, x) ==
    /\ x.code \in Named(rows, place, "fields")
    /\ LET rule == FieldInForce(rows, place, x.code) IN
       /\ rule.llm_extract_allowed /\ ~rule.not_applicable
       /\ rule.citation_required => x.section /\ x.quote

SummaryOnly(rows, place, t) == ~Hydrates(TopicInForce(rows, place, t))
=============================================================================
