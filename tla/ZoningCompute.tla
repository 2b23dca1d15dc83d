-------------------------- MODULE ZoningCompute --------------------------
(***************************************************************************)
(* services/zoning_scenario_compute.py: what a zoning scenario's compute   *)
(* makes of the baseline of the project and of the data service's answers  *)
(* (DSI record, hydrated impervious cover text, ordinance search).  The    *)
(* result is stored by a compute request, which Projects models.           *)
(*                                                                         *)
(* Data: a text is empty (<<>>), a number with its unit (<<n>>), or names  *)
(* what it was composed from.  The title of a search hit is the best thing *)
(* that the title patterns see in it, its section is named by a citation   *)
(* or not at all.  Links, excerpts' wording, times, fingerprints, units    *)
(* and the fixed queries are left out; evidence is how many sections.  A   *)
(* list of hits is a function on numbers, its places, which need not be    *)
(* consecutive: what is taken out of a list leaves its place empty.        *)
(***************************************************************************)
EXTENDS Integers, Sequences, FiniteSets, Functions

CONSTANT None  \* no answer, no field, no number

\* What the ordinance search answers with.
HitLists == Seq([title : STRING, cite : STRING \cup {None}, excerpt : BOOLEAN])

DsiCodes == {"MIN_LOT_SIZE", "MIN_LOT_WIDTH", "SETBACKS", "MAX_BUILDING_COVERAGE",
             "MAX_BUILDING_HEIGHT", "IMPERVIOUS_COVER_LIMIT", "EASEMENTS_SETBACKS"}

CitationOnlyCodes == {"ZONING_REGS", "COMPATIBILITY_STDS"}

ComparableCodes ==
    DsiCodes \cup CitationOnlyCodes \cup {"IMPERVIOUS_REGS", "LDC_REFERENCE", "GOVERNING_JURIS"}

\* Maxima: a lower number is more restrictive.
MaxCodes == {"MAX_BUILDING_COVERAGE", "MAX_BUILDING_HEIGHT", "IMPERVIOUS_COVER_LIMIT"}

EmptyText == <<>>

-----------------------------------------------------------------------------
(* The answers of the data service *)

\* _dsi_field_texts: the standards of the record by code; two codes are made
\* of the setbacks.
DsiTexts(dsi) ==
    LET Standard(code) == IF code = "EASEMENTS_SETBACKS" THEN "SETBACKS" ELSE code
        named == {c \in DsiCodes : Standard(c) \in DOMAIN dsi.standards}
    IN  IF dsi = None \/ ~dsi.found THEN <<>>
        ELSE [c \in named |-> <<dsi.standards[Standard(c)]>>]

\* _evidence_from_dsi: a section for every citation, else the pack's link.
DsiEvidence(dsi) == IF dsi.citations = {} THEN 1 ELSE Cardinality(dsi.citations)

\* _dsi_citation_hits: of the impervious standard, else of the dimensional ones.
DsiCitationHits(dsi) ==
    LET cites == IF dsi = None THEN {} ELSE dsi.citations
        Hit(c) == [title |-> "other", cite |-> c, excerpt |-> FALSE]
    IN  IF "impervious" \in cites THEN <<Hit("impervious")>>
        ELSE IF "dimensional" \in cites THEN <<Hit("dimensional")>> ELSE <<>>

\* _hydrate_ic_family: a family without a text is no family.
HydratedFamily(hydrate) ==
    IF hydrate # None /\ hydrate.status \in {"complete", "partial"} /\ hydrate.regs
    THEN hydrate ELSE None

HydrateEvidence(family) == IF family.cite THEN 1 ELSE 0

-----------------------------------------------------------------------------
(* Search hits *)

\* _search_regtext: what the index has for the query of a code; a search that
\* fails finds nothing.
SearchHits(q, code) == IF q.hits[code] = None THEN <<>> ELSE q.hits[code]

\* The rank of a hit for a code, 0 for one that is not kept.
Priority(code, hit) ==
    CASE hit.title = "boilerplate" -> 0
      [] code = "ZONING_REGS" /\ hit.title # "boilerplate" ->
            (CASE hit.title = "own district" -> 3
               [] hit.title = "names code" -> 2
               [] hit.title = "a district" -> 1
               [] OTHER -> 0)
      [] code = "IMPERVIOUS_REGS" /\ hit.title # "boilerplate" ->
            (CASE hit.title = "impervious" -> 2
               [] hit.title = "own district" -> 1
               [] OTHER -> 0)
      [] code = "COMPATIBILITY_STDS" /\ hit.title # "boilerplate" ->
            IF hit.title = "compatibility" THEN 2 ELSE 0
      [] OTHER -> 1

\* The places of a list before a place.
Before(hits, i) == {j \in DOMAIN hits : j < i}

DistinctCites(hits) ==
    LET seen(i) == {hits[j].cite : j \in Before(hits, i)}
    IN  Restrict(hits, {i \in DOMAIN hits : hits[i].cite \notin seen(i) \cup {None}})

First3(hits) == Restrict(hits, {i \in DOMAIN hits : Cardinality(Before(hits, i)) < 3})

\* The hits by rank and then in their order: three copies of the list one after
\* the other, the hits of rank 3 from the first, of rank 2 from the second.
Ranked(code, hits) ==
    LET rank(n) == 3 - (n - 1) \div Len(hits)
        hit(n) == hits[((n - 1) % Len(hits)) + 1]
    IN  [n \in {m \in 1 .. 3 * Len(hits) : Priority(code, hit(m)) = rank(m)} |-> hit(n)]

\* _filter_citation_hits: each section once.
FilterCitationHits(code, hits) == First3(DistinctCites(Ranked(code, hits)))

\* _compose_citations: each section with its position.
ComposeCitations(hits) ==
    LET kept == DistinctCites(First3(hits))
        at(c) == CHOOSE i \in DOMAIN kept : kept[i].cite = c
    IN  IF DOMAIN kept = {} THEN EmptyText
        ELSE <<"cites", [c \in {kept[i].cite : i \in DOMAIN kept} |->
                            Cardinality(Before(kept, at(c)))]>>

Evidence(hits) == Cardinality(DOMAIN First3(hits))

-----------------------------------------------------------------------------
(* _baseline_from_state *)

\* The texts of the zoning section; the regulations may name a district.
BaselineDistrict(q) ==
    IF "ZONING_REGS" \in DOMAIN q.fields /\ Len(q.fields["ZONING_REGS"]) = 2
    THEN q.fields["ZONING_REGS"][2] ELSE q.siteDistrict

Number(text) == IF Len(text) = 1 THEN text[1] ELSE None

BaselineLimit(q) ==
    IF "IMPERVIOUS_COVER_LIMIT" \in DOMAIN q.fields
    THEN Number(q.fields["IMPERVIOUS_COVER_LIMIT"]) ELSE None

\* The jurisdiction of the intent, else the effective one, the baseline's, or
\* the default one.
Jurisdiction(q) ==
    LET given == {i \in DOMAIN q.jurisdictions : q.jurisdictions[i] # None}
    IN  IF given = {} THEN "coa_full"
        ELSE q.jurisdictions[CHOOSE i \in given : \A j \in given : i <= j]

\* The scenario's district is called "proposed".
DistrictChanged(q) == BaselineDistrict(q) # "proposed"

-----------------------------------------------------------------------------
(* The proposed value of a code: its text, how many sections back it, and   *)
(* whether the loop of compute_zoning_scenario lists it as an open gap.     *)

Value(text, evidence) == [text |-> text, evidence |-> evidence, gap |-> FALSE]

Gap == [text |-> EmptyText, evidence |-> 0, gap |-> TRUE]

\* A DSI standard, else the hydrated limit, else a gap.
DsiValue(q, code) ==
    LET texts == DsiTexts(q.dsi)
        family == HydratedFamily(q.hydrate)
    IN  IF code \in DOMAIN texts THEN Value(texts[code], DsiEvidence(q.dsi))
        ELSE IF code = "IMPERVIOUS_COVER_LIMIT" /\ family # None /\ family.limit # None
        THEN Value(<<family.limit>>, HydrateEvidence(family))
        ELSE Gap

\* The hydrated text, else the best section that search or DSI names.
ImperviousRegs(q) ==
    LET family == HydratedFamily(q.hydrate)
        found == FilterCitationHits("IMPERVIOUS_REGS", SearchHits(q, "IMPERVIOUS_REGS"))
        relevant == IF DOMAIN found = {} THEN DsiCitationHits(q.dsi) ELSE found
        first == relevant[CHOOSE i \in DOMAIN relevant : Before(relevant, i) = {}]
        text == IF first.excerpt THEN <<"excerpt", first.cite>> ELSE ComposeCitations(relevant)
    IN  IF family # None THEN Value(<<"regs", "hydrated">>, HydrateEvidence(family))
        ELSE IF DOMAIN relevant = {} THEN Gap
        ELSE Value(text, Evidence(relevant))

CitationOnly(q, code) ==
    LET relevant == FilterCitationHits(code, SearchHits(q, code))
        text == ComposeCitations(relevant)
    IN  [text |-> text, evidence |-> Evidence(relevant), gap |-> text = EmptyText]

\* The first hit's citation, whatever it is, else a text of its own.
LdcReference(q) ==
    LET hits == SearchHits(q, "LDC_REFERENCE")
        text == IF hits = <<>> THEN <<"code of", Jurisdiction(q)>>
                ELSE IF hits[1].cite = None THEN EmptyText
                ELSE <<"citation", hits[1].cite>>
    IN  Value(text, Evidence(hits))

ProposedValue(q, code) ==
    CASE code \in DsiCodes -> DsiValue(q, code)
      [] code \in CitationOnlyCodes -> CitationOnly(q, code)
      [] code = "IMPERVIOUS_REGS" -> ImperviousRegs(q)
      [] code = "LDC_REFERENCE" -> LdcReference(q)
      [] code = "GOVERNING_JURIS" ->
            Value(<<"jurisdiction", Jurisdiction(q)>>, Evidence(SearchHits(q, code)))

NotFound(dsi) == dsi # None /\ ~dsi.found

\* Broken: the hydrated limit does not close the gap that DSI has left.
OpenGapsOfAll(q) ==
    (IF NotFound(q.dsi) THEN DsiCodes ELSE {})
    \cup {c \in ComparableCodes : ProposedValue(q, c).gap}

\* A record that is not found opens all its codes; the hydrated limit closes
\* one of them again.  (The code's list may name a code twice.)
OpenGaps(q) ==
    ((IF NotFound(q.dsi) THEN DsiCodes ELSE {})
        \ {c \in {"IMPERVIOUS_COVER_LIMIT"} : ~ProposedValue(q, c).gap})
    \cup {c \in ComparableCodes : ProposedValue(q, c).gap}

-----------------------------------------------------------------------------
(* _compare_field *)

DiffKind(before, text) ==
    IF before = text THEN "unchanged"
    ELSE IF text = EmptyText THEN (IF before = None THEN "incomparable" ELSE "removed")
    ELSE IF before \in {None, EmptyText} THEN "added"
    ELSE "changed"

\* The level before the age of the standards and the evidence count.
FirstLevel(kind, districtChanged) ==
    CASE kind = "unchanged" -> "low"
      [] kind = "changed" -> IF districtChanged THEN "medium" ELSE "low"
      [] kind = "added" -> "medium"
      [] kind \in {"removed", "incomparable"} -> "unknown"

\* Which way a number moved, for the codes that have one.
NumericDrivers(code, before, text) ==
    LET less == text[1] < before[1]
        more == text[1] > before[1]
        compared == code \in DsiCodes /\ Len(before) = 1 /\ Len(text) = 1
    IN  IF compared /\ more THEN
            {IF code \in MaxCodes THEN "dimensional_more_permissive"
             ELSE "dimensional_more_restrictive"}
        ELSE IF compared /\ less /\ code # "EASEMENTS_SETBACKS" THEN
            {IF code \in MaxCodes THEN "dimensional_more_restrictive"
             ELSE "dimensional_more_permissive"}
        ELSE {}

Drivers(code, kind, before, text, districtChanged) ==
    CASE kind = "changed" ->
            NumericDrivers(code, before, text)
            \cup {d \in {"entitlement_rezoning_required"} : districtChanged /\ code = "ZONING_REGS"}
      [] kind \in {"removed", "incomparable"} -> {"corpus_gap"}
      [] OTHER -> {}

Compare(q, code) ==
    LET value == ProposedValue(q, code)
        before == IF code \in DOMAIN q.fields THEN q.fields[code] ELSE None
        kind == DiffKind(before, value.text)
        stale == code \in DsiCodes /\ q.dsi # None /\ q.dsi.stale
        first == FirstLevel(kind, DistrictChanged(q))
        dated == IF stale /\ first = "low" THEN "medium" ELSE first
        unbacked == value.evidence = 0 /\ kind # "unchanged" /\ code \notin DsiCodes
    IN  [kind |-> kind,
         drivers |-> Drivers(code, kind, before, value.text, DistrictChanged(q))
                     \cup {d \in {"standards_stale"} : stale}
                     \cup {d \in {"corpus_gap"} : unbacked},
         level |-> IF unbacked /\ dated = "low" THEN "unknown" ELSE dated,
         needsReview |-> kind # "unchanged" \/ stale]

-----------------------------------------------------------------------------
(* compute_zoning_scenario *)

\* No comparison is ever "high", so that the overall risk never is.
Overall(q) ==
    IF DistrictChanged(q) THEN "medium"
    ELSE IF OpenGaps(q) # {} THEN "unknown"
    ELSE IF q.dsi # None /\ q.dsi.stale THEN "medium"
    ELSE "low"

\* The limit that the proposal is structured with.
ImperviousLimit(q) ==
    LET family == HydratedFamily(q.hydrate)
        texts == DsiTexts(q.dsi)
    IN  IF "IMPERVIOUS_COVER_LIMIT" \in DOMAIN texts
        THEN Number(texts["IMPERVIOUS_COVER_LIMIT"])
        ELSE IF family # None /\ family.limit # None THEN family.limit
        ELSE BaselineLimit(q)

\* The result.  A search or a hydration that fails leaves gaps; a DSI request
\* that raises ends the handler (AbortProjectRequest in Projects).
ComputeScenario(q) ==
    [texts |-> [c \in ComparableCodes |-> ProposedValue(q, c).text],
     comparisons |-> [c \in ComparableCodes |-> Compare(q, c)],
     openGaps |-> OpenGaps(q),
     overall |-> Overall(q),
     limit |-> ImperviousLimit(q),
     jurisdiction |-> Jurisdiction(q)]

-----------------------------------------------------------------------------
(* What a reader of the result relies on *)

\* The open gaps are the codes without a proposed text (but for the land
\* development code, whose first hit may have no citation).
GapsAreEmptyTexts(result) ==
    \A c \in ComparableCodes \ {"LDC_REFERENCE"} :
        c \in result.openGaps <=> result.texts[c] = EmptyText

\* The codes whose text no section need back: two that the platform can make up
\* itself, and a hydrated text, of which the data service may not say where it
\* is from.
Unsourced(q) ==
    LET family == HydratedFamily(q.hydrate)
    IN  {"LDC_REFERENCE", "GOVERNING_JURIS"}
        \cup {c \in {"IMPERVIOUS_REGS"} : family # None /\ ~family.cite}

\* An overall low risk is the word for a project whose comparisons are all
\* known, but for those of unsourced texts.
LowRiskIsKnown(q, result) ==
    result.overall = "low" =>
        \A c \in ComparableCodes : result.comparisons[c].level = "unknown" =>
            c \in Unsourced(q)

\* The number that later steps calculate with is the one that is displayed.
LimitIsDisplayed(result) ==
    result.texts["IMPERVIOUS_COVER_LIMIT"] # EmptyText =>
        <<result.limit>> = result.texts["IMPERVIOUS_COVER_LIMIT"]
=============================================================================
