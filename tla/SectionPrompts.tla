-------------------------- MODULE SectionPrompts --------------------------
(***************************************************************************)
(* services/agent_prompt.py with services/search_policy.py, and the        *)
(* _resolve_ functions of services/llm_invoke.py: what a tenant's Prompt   *)
(* Lab configuration makes of a request to draft a section.  There are two *)
(* ways to ask, an agent run and an LLM invoke; both read the same         *)
(* configuration, each with code of its own, and not quite alike: a        *)
(* configuration is a free dictionary that nothing validates.              *)
(*                                                                         *)
(* Data: a line of a template is the set of the field codes of its tokens, *)
(* and a prompt has its lines under their numbers in the template.         *)
(* A search hint is the sets of its {{field.CODE}} tokens (labTokens) and  *)
(* of its {CODE} tokens (plainTokens).  A field's value is empty, a stem   *)
(* that is scrubbed to nothing, or a fact.  A text setting is absent (as   *)
(* is an empty one), Blank, NotText or a text, of which blanks around it   *)
(* are left out.  Forbidden phrases, disclaimers, temperatures, domains    *)
(* and the parts of a refine request are left out: they are handed on as   *)
(* they are.                                                               *)
(***************************************************************************)
EXTENDS Naturals, Sequences

CONSTANTS
    None,                \* an absent text or setting
    Blank,               \* a text of blanks only
    NotText,             \* a setting that is neither a text nor a Boolean
    Stem,                \* a placeholder like "rule extraction pending"
    LegacyAliases,       \* field codes that were renamed, and their new names
    ZoningDsiFieldCodes, \* field codes of zoning dimensions
    AlwaysKeepCodes,     \* PROPERTY_ADDRESS and AVAILABLE_EXHIBITS
    ModelPresets         \* the keys of MODEL_PRESET_IDS, "haiku" among them
                         \* (ControlPlaneAssumption)

TokenFloor == 4096

-----------------------------------------------------------------------------
(* The facts of a prompt *)

Sanitized(value) == IF value = Stem THEN None ELSE value

Value(context, code) == IF code \in DOMAIN context THEN context[code] ELSE None

Fact(context, code) == Sanitized(Value(context, code))

\* _sanitized_field: under its code, else under the code's new name.
SanitizedField(context, code) ==
    IF Fact(context, code) = None /\ code \in DOMAIN LegacyAliases
    THEN Fact(context, LegacyAliases[code]) ELSE Fact(context, code)

\* The codes a section may see: those it selects, those its template and its
\* hint name, those that are always kept; zoning dimensions in zoning only.
AllowedCodes(section) ==
    (section.inputCodes \cup UNION {section.template[i] : i \in DOMAIN section.template}
        \cup section.labTokens \cup AlwaysKeepCodes)
    \ (IF section.id = "zoning" THEN {} ELSE ZoningDsiFieldCodes)

\* section_draft_field_context
ScopedContext(section, context) ==
    LET known == {c \in AllowedCodes(section) : SanitizedField(context, c) # None}
    IN  [c \in known |-> SanitizedField(context, c)]

\* Broken: a missing field drops the whole line.
KeptFullLines(template, facts) ==
    {i \in DOMAIN template : \A c \in template[i] : SanitizedField(facts, c) # None}

\* _omit_empty_field_token_lines: a line goes when all its tokens are empty.
KeptLines(template, facts) ==
    {i \in DOMAIN template :
        template[i] = {} \/ \E c \in template[i] : SanitizedField(facts, c) # None}

\* compose_section_template
RenderedPrompt(template, facts) ==
    [i \in KeptLines(template, facts) |-> [c \in template[i] |-> SanitizedField(facts, c)]]

\* substitute_search_hint_tokens: a token whose code is not in the context
\* stays as it is, which the set of the tokens left says.
PlainTokensLeft(tokens, facts) == tokens \ DOMAIN facts

-----------------------------------------------------------------------------
(* The settings: of the section, else of the tenant *)

Or(value, default) == IF value = None THEN default ELSE value

\* resolve_model_id; a key that is not known is as good as the default.
ModelId(preset) == IF preset \in ModelPresets THEN preset ELSE "haiku"

\* _nonempty: a blank text is none.
NonEmpty(text) == IF text = Blank THEN None ELSE text

AgentModelPreset(tenant, section) ==
    Or(NonEmpty(section.modelPreset), Or(NonEmpty(tenant.modelPreset), "haiku"))

\* The tenant's prompt for all sections comes first.
AgentSystemPrompt(tenant, section) ==
    Or(NonEmpty(tenant.sectionSystemPrompt), NonEmpty(section.systemPrompt))

\* Without a search provider an agent does not search.
AgentSearch(tenant, section) ==
    /\ tenant.provider
    /\ IF section.webSearch \in BOOLEAN THEN section.webSearch ELSE tenant.webSearch

\* resolve_section_agent_prompt: what an agent run is given.
AgentPrompt(tenant, section, context) ==
    LET facts == ScopedContext(section, context)
    IN  [context |-> facts,
         prompt  |-> RenderedPrompt(section.template, facts),
         hint    |-> [c \in section.labTokens |-> Value(facts, c)],
         left    |-> PlainTokensLeft(section.plainTokens, facts),
         model   |-> ModelId(AgentModelPreset(tenant, section)),
         system  |-> AgentSystemPrompt(tenant, section),
         search  |-> AgentSearch(tenant, section)]

-----------------------------------------------------------------------------
(* invoke_tenant_section_llm_sync *)

\* resolve_search_run_policy: for a chat, all three must agree.
ChatSearch(tenant) == tenant.chatSearch /\ tenant.webSearch /\ tenant.provider

\* _resolve_web_search_enabled: never for the assembly of the whole draft.
SectionSearch(tenant, section, request) ==
    /\ section.id # "draft"
    /\ CASE request.search # None -> request.search
         [] request.search = None /\ section.webSearch \in BOOLEAN -> section.webSearch
         [] OTHER -> tenant.webSearch

InvokeSearch(tenant, section, request) ==
    IF request.mode = "chat" THEN Or(request.search, ChatSearch(tenant))
    ELSE SectionSearch(tenant, section, request)

\* _resolve_response_mode
ResponseMode(tenant, section, request) ==
    IF request.mode = "chat" \/ section.id = "draft" THEN "text" ELSE tenant.responseMode

\* _resolve_guardrails, of which the number of tokens is kept here.
MaxOutputTokens(tenant, section, request) ==
    LET raised == IF section.maxOutputTokens > TokenFloor THEN section.maxOutputTokens
                  ELSE TokenFloor
        structured == ResponseMode(tenant, section, request) = "structured"
    IN  IF request.mode = "chat" THEN TokenFloor
        ELSE IF section.id = "draft" \/ (structured /\ InvokeSearch(tenant, section, request))
        THEN raised ELSE section.maxOutputTokens

\* Broken: a preset of blanks hides the tenant's.
PresetUnstripped(tenant, section) ==
    IF section.modelPreset \notin {None, NotText} THEN section.modelPreset
    ELSE Or(tenant.modelPreset, "haiku")

\* _resolve_model_preset: a section's preset that is no text is ignored.
InvokeModelPreset(tenant, section) ==
    IF section.modelPreset \notin {None, Blank, NotText} THEN section.modelPreset
    ELSE Or(tenant.modelPreset, "haiku")

\* _resolve_system_prompt: a blank one is sent as it is.
InvokeSystemPrompt(tenant, section, request) ==
    IF request.mode = "chat" THEN NonEmpty(tenant.chatPrompt)
    ELSE Or(tenant.sectionSystemPrompt, section.systemPrompt)

InvokeBody(tenant, section, request) ==
    [model    |-> ModelId(InvokeModelPreset(tenant, section)),
     system   |-> InvokeSystemPrompt(tenant, section, request),
     search   |-> InvokeSearch(tenant, section, request),
     response |-> ResponseMode(tenant, section, request),
     tokens   |-> MaxOutputTokens(tenant, section, request)]

\* Both ways to ask for a draft.
Draft(q) == [agent  |-> AgentPrompt(q.tenant, q.section, q.context),
             invoke |-> InvokeBody(q.tenant, q.section, q.request)]

-----------------------------------------------------------------------------
(* What a tenant's administrator relies on *)

\* What may be said of a code in a section.
Sayable(section, context, code) ==
    IF code \in ZoningDsiFieldCodes /\ section.id # "zoning" THEN None
    ELSE SanitizedField(context, code)

\* "One missing sibling token ... must not wipe filled neighbors on the same
\* Prompt Lab line", "DSI dimensionals are dropped unless the active section is
\* zoning": every line with a fact that may be said is there with all its
\* facts, others are not, and what the prompt says is in the context as well.
FactsArePlaced(q, agent) ==
    LET line == q.section.template
        Said(c) == Sayable(q.section, q.context, c)
        speaking == {i \in DOMAIN line : line[i] = {} \/ \E c \in line[i] : Said(c) # None}
    IN  /\ agent.prompt = [i \in speaking |-> [c \in line[i] |-> Said(c)]]
        /\ \A i \in speaking : \A c \in line[i] :
            agent.prompt[i][c] = Value(agent.context, c)
        /\ \A c \in DOMAIN agent.hint : agent.hint[c] = Value(agent.context, c)

\* Whichever way a section is drafted, the model is the same, unless the section
\* presets what is no text, which the agent takes for an unknown model and the
\* invoke ignores; so are the instructions, unless the tenant's prompt is blank,
\* which the agent ignores and the invoke sends; and so is the web search, unless
\* the request overrides it or no search provider is configured, which only the
\* agent's way asks for.
WaysAgree(q, draft) ==
    q.request.mode = "section" =>
        /\ q.section.modelPreset # NotText => draft.agent.model = draft.invoke.model
        /\ q.tenant.sectionSystemPrompt # Blank =>
                draft.agent.system = NonEmpty(draft.invoke.system)
        /\ q.request.search = None /\ q.section.id # "draft" =>
            (draft.agent.search <=> draft.invoke.search /\ q.tenant.provider)

\* "Structured JSON drafts that run web search must also fit content_markdown
\* plus a sources array in one response".
StructuredSearchFits(invoke) ==
    invoke.response = "structured" /\ invoke.search => invoke.tokens >= TokenFloor
=============================================================================
