-------------------------- MODULE GuardRailRules --------------------------
(***************************************************************************)
(* services/guardrails_merge.py: what the stored scopes mean for a         *)
(* request.  The scopes that apply are merged from the platform's defaults *)
(* to the jurisdiction and then gated by whether the ordinances of the     *)
(* jurisdiction are indexed.                                               *)
(*                                                                         *)
(* Data: a stored rule is a function on the keys that the row gives, the   *)
(* key of a scope is <<level, place>>, and search queries, pinned fields   *)
(* and hashes are left out.  A retrieval budget is one value: its dump has *)
(* every key, so that merging two budgets gives the second.                *)
(***************************************************************************)
EXTENDS Naturals, Sequences

CONSTANT None  \* the blank place of a request, a scope without a row, no value

FieldDefaults ==
    [source_tier         |-> {"lake", "dsi"},
     citation_required   |-> TRUE,
     llm_extract_allowed |-> FALSE,
     not_applicable      |-> FALSE]

TopicDefaults ==
    [enabled          |-> TRUE,
     source_tier      |-> {"topic_hydrate"},
     retrieval_budget |-> None]

TopicTiers == {"topic_hydrate", "topic_summary"}

\* model_validate: what the row does not say is the default.
Validated(rule, defaults) ==
    [k \in DOMAIN defaults |-> IF k \in DOMAIN rule THEN rule[k] ELSE defaults[k]]

\* model_dump(exclude_none=True): the defaults are dumped too.
Dump(rule) ==
    [k \in {j \in DOMAIN rule : ~(j = "retrieval_budget" /\ rule[j] = None)} |-> rule[k]]

DeepMerge(base, patch) ==
    [k \in DOMAIN base \cup DOMAIN patch |-> IF k \in DOMAIN patch THEN patch[k] ELSE base[k]]

Levels == {"default", "state", "county", "jurisdiction"}

\* scope_keys_for_request: a key for each level, without a place if the request
\* leaves it blank.
ScopeKeysForRequest(request) ==
    [l \in Levels |-> <<l, IF l = "default" THEN "all" ELSE request[l]>>]

\* _layers_for_request: the row of each level, None where there is none.
Layers(rows, request) ==
    LET keys == ScopeKeysForRequest(request)
    IN  [l \in Levels |-> IF keys[l][2] = None THEN None ELSE rows[keys[l]]]

\* The rules of a layer on top of those of the layers before it.
WithLayer(merged, layer, kind, defaults) ==
    LET Before(c) == IF c \in DOMAIN merged THEN merged[c] ELSE <<>>
    IN  IF layer = None THEN merged
        ELSE [c \in DOMAIN merged \cup DOMAIN layer[kind] |->
                IF c \in DOMAIN layer[kind]
                THEN DeepMerge(Before(c), Dump(Validated(layer[kind][c], defaults)))
                ELSE merged[c]]

\* Merges the rules of one kind, fields or topics, layer by layer.
MergeRules(layers, kind, defaults) ==
    LET Add(merged, level) == WithLayer(merged, layers[level], kind, defaults)
        all == Add(Add(Add(Add(<<>>, "default"), "state"), "county"), "jurisdiction")
    IN  [c \in DOMAIN all |-> Validated(all[c], defaults)]

MostSpecific(levels) ==
    IF "jurisdiction" \in levels THEN "jurisdiction"
    ELSE IF "county" \in levels THEN "county"
    ELSE IF "state" \in levels THEN "state" ELSE "default"

\* The last layer's that has one.
MergePrompts(layers) ==
    LET given == {l \in Levels : layers[l] # None /\ layers[l].prompt # None}
    IN  IF given = {} THEN None ELSE layers[MostSpecific(given)].prompt

WithoutTopicTiers(rule, rest) ==
    [rule EXCEPT !.source_tier = IF @ \subseteq TopicTiers THEN rest ELSE @ \ TopicTiers]

\* Broken: a jurisdiction without an index still lets the model extract.
GateFieldTiers(rule) == WithoutTopicTiers(rule, {"lake", "dsi"})

\* _apply_catalog_gate when the catalog is not ready
GateField(rule) ==
    [WithoutTopicTiers(rule, {"lake", "dsi"}) EXCEPT !.llm_extract_allowed = FALSE]

GateTopic(rule) ==
    [WithoutTopicTiers(rule, {"topic_summary"}) EXCEPT
        !.enabled = @ /\ ~(rule.source_tier \subseteq TopicTiers)]

\* The same when it is ready: whether any topic or field is hydrated.
TopicHydrateEnabled(fields, topics) ==
    \/ \E t \in DOMAIN topics : topics[t].enabled /\ "topic_hydrate" \in topics[t].source_tier
    \/ \E c \in DOMAIN fields : "topic_hydrate" \in fields[c].source_tier

\* merge_guardrails
MergeGuardRails(layers, ready) ==
    LET fields == MergeRules(layers, "fields", FieldDefaults)
        topics == MergeRules(layers, "topics", TopicDefaults)
    IN  [fields |-> IF ready THEN fields ELSE [c \in DOMAIN fields |-> GateField(fields[c])],
         topics |-> IF ready THEN topics ELSE [t \in DOMAIN topics |-> GateTopic(topics[t])],
         prompt |-> MergePrompts(layers),
         topic_hydrate_enabled |-> ready /\ TopicHydrateEnabled(fields, topics)]

\* jurisdiction_catalog_ready: the data service's catalog, by jurisdiction;
\* no jurisdiction, no answer and no row all mean no.
CatalogReady(catalog, jurisdiction) ==
    jurisdiction \in DOMAIN catalog /\ catalog[jurisdiction] = "ready"

\* resolve_guardrails and resolve_guardrails_effective for the zoning domain
ResolveGuardRails(rows, request, catalog) ==
    MergeGuardRails(Layers(rows, request), CatalogReady(catalog, request.jurisdiction))

-----------------------------------------------------------------------------
(* The meaning of the scopes, stated without merging. *)

\* The levels of the request whose scopes name the code.
Naming(rows, request, kind, code) ==
    LET layers == Layers(rows, request)
    IN  {l \in Levels : layers[l] # None /\ code \in DOMAIN layers[l][kind]}

Deciding(rows, request, kind, code) ==
    Layers(rows, request)[MostSpecific(Naming(rows, request, kind, code))][kind][code]

Named(rows, request, kind) ==
    LET layers == Layers(rows, request)
    IN  UNION {DOMAIN layers[l][kind] : l \in {m \in Levels : layers[m] # None}}

\* The rule that a person who reads the rows would apply: all of it is what the
\* most specific scope that names the code says, and defaults; nothing that a
\* broader scope says of the code survives (but a budget).
FieldInForce(rows, request, code) ==
    Validated(Deciding(rows, request, "fields", code), FieldDefaults)

TopicInForce(rows, request, topic) ==
    Validated(Deciding(rows, request, "topics", topic), TopicDefaults)
=============================================================================
