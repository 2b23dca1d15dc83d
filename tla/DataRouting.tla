--------------------------- MODULE DataRouting ---------------------------
(***************************************************************************)
(* services/data_routing.py and the routing part of services/agent_run.py: *)
(* which data service a request is served by.  A request's Origin selects  *)
(* the deployment's base or the development base.  Most handlers make a    *)
(* client of their own for the base; an agent reads the base from          *)
(* CIVILAI_DATA_API_BASE and from a global client, so a run sets both and  *)
(* puts them back.  A warm Lambda container handles one request after the  *)
(* other with one environment; a local server handles them in threads.     *)
(***************************************************************************)
EXTENDS Requests

CONSTANTS
    Bases,       \* roots of data services
    LocalBase,   \* http://localhost:8000
    DevBase,     \* CIVILAI_DEV_DATA_API_BASE, or None
    Origins,     \* Origin headers
    DevOrigins   \* CIVILAI_DEV_DATA_ORIGINS

VARIABLES
    deployed,    \* CIVILAI_DATA_API_BASE as the process was started, or None
    base,        \* CIVILAI_DATA_API_BASE now
    agentClient, \* the base of the agent's global client
    mixed        \* history: a request came while a run had the base set

routingVars == <<deployed, base, agentClient, mixed>>

Environments == Bases \cup {None}

ASSUME DataRoutingAssumption ==
    LocalBase \in Bases /\ DevBase \in Environments /\ DevOrigins \subseteq Origins

Or(value, default) == IF value = None THEN default ELSE value

DataRoutingInit(environments) ==
    /\ deployed \in environments
    /\ base = deployed
    /\ agentClient = Or(deployed, LocalBase)
    /\ mixed = FALSE

\* The steps of a run while the base of its request is set.
Routed == {"run.client", "run.agent", "run.reset", "run.reset client"}

InRun == \E s \in Slots : req[s].at \in Routed

\* data_api_base_for_origin, in an environment whose base is b.
DataApiBaseForOrigin(o, b) ==
    IF DevBase # None /\ o \in DevOrigins THEN DevBase ELSE Or(b, LocalBase)

-----------------------------------------------------------------------------
\* A request whose handler asks the data service through a client of its own.
AskDirectly(s, o) ==
    /\ Begin(s, [at |-> "served", origin |-> o, bases |-> {DataApiBaseForOrigin(o, base)}])
    /\ mixed' = (mixed \/ InRun)
    /\ UNCHANGED <<deployed, base, agentClient>>

\* create_agent_run, or a worker that is handed the base with its event.
StartRouted(s, o) ==
    /\ Begin(s, [at |-> "run.set", origin |-> o, want |-> DataApiBaseForOrigin(o, base)])
    /\ mixed' = (mixed \/ InRun)
    /\ UNCHANGED <<deployed, base, agentClient>>

\* _agent_data_api_base remembers the base and sets its own.
SetBase(s) ==
    LET r == req[s] IN
    /\ At(s, "run.set")
    /\ base' = r.want
    /\ mixed' = (mixed \/ InRun)
    /\ Become(s, [at |-> "run.client", origin |-> r.origin, want |-> r.want, previous |-> base])
    /\ UNCHANGED <<deployed, agentClient>>

SetClient(s) ==
    /\ At(s, "run.client")
    /\ agentClient' = req[s].want
    /\ Goto(s, "run.agent")
    /\ UNCHANGED <<deployed, base, mixed>>

\* Broken: a run that raises leaves its base behind.
RunAgentWithoutFinally(s) ==
    LET r == req[s] IN
    /\ At(s, "run.agent")
    /\ \/ Become(s, [at |-> "run.reset", origin |-> r.origin, previous |-> r.previous,
                     bases |-> {Or(base, LocalBase), agentClient}])
       \/ Return(s)
    /\ UNCHANGED routingVars

\* The pipeline reads the environment afresh, the tool loop uses the client;
\* whether the agent answers or raises, the base is put back.
RunAgent(s) ==
    LET r == req[s] IN
    /\ At(s, "run.agent")
    /\ Become(s, [at |-> "run.reset", origin |-> r.origin, previous |-> r.previous,
                  bases |-> {Or(base, LocalBase), agentClient}])
    /\ UNCHANGED routingVars

ResetBase(s) ==
    /\ At(s, "run.reset")
    /\ base' = req[s].previous
    /\ Goto(s, "run.reset client")
    /\ UNCHANGED <<deployed, agentClient, mixed>>

ResetClient(s) ==
    LET r == req[s] IN
    /\ At(s, "run.reset client")
    /\ agentClient' = Or(r.previous, LocalBase)
    /\ Become(s, [at |-> "served", origin |-> r.origin, bases |-> r.bases])
    /\ UNCHANGED <<deployed, base, mixed>>

Answer(s) ==
    /\ At(s, "served")
    /\ Return(s)
    /\ UNCHANGED routingVars

\* A killed process starts anew.
RestartProcess ==
    /\ req' = [s \in Slots |-> Idle]
    /\ base' = deployed
    /\ agentClient' = Or(deployed, LocalBase)
    /\ mixed' = FALSE
    /\ UNCHANGED deployed

DataRoutingNext ==
    \/ \E s \in Slots :
        \/ \E o \in Origins : AskDirectly(s, o) \/ StartRouted(s, o)
        \/ SetBase(s) \/ SetClient(s) \/ RunAgent(s) \/ ResetBase(s) \/ ResetClient(s)
        \/ Answer(s)
    \/ RestartProcess

-----------------------------------------------------------------------------
(* Properties *)

\* "production is the fail-closed default; only an exact configured Origin may
\* select" the development base: whoever was served was served by the base of
\* its origin in the environment the process was started with, by both ways
\* that an agent has to the data, however many runs the process has handled
\* before - unless requests overlapped with a run, which Lambda never does.
OriginsDecide ==
    ~mixed =>
        \A s \in Slots : "bases" \in DOMAIN req[s] =>
            req[s].bases = {DataApiBaseForOrigin(req[s].origin, deployed)}
=============================================================================
