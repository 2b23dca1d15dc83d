------------------------------ MODULE AgentRuns -----------------------------
(***************************************************************************)
(* Agent runs: services/agent_run.py on the DynamoDB store.                *)
(*                                                                         *)
(* POST .../agent-runs checks the project, builds the context, stores the  *)
(* run RUNNING and, when CIVILAI_AGENT_ASYNC is set, hands it to a worker  *)
(* by a Lambda self-invoke; when that call raises, or when the flag is not *)
(* set, the request executes the run itself.  An execution invokes the     *)
(* agent, captures a draft event in the training corpus, records the draft *)
(* in the project activity, overwrites the run record and writes an audit  *)
(* event: five systems and no transaction.  Meanwhile a user may delete    *)
(* the project.                                                            *)
(*                                                                         *)
(* Left out: the content of requests, responses and prompts.  An output is *)
(* the executor that produced it, so "whose draft is this" can be asked of *)
(* every copy.  Also left out: the files that _write_run_artifacts keeps   *)
(* in the memory of the executor's process, where no other process and no  *)
(* later request finds them, and the copy of the LLM baseline that the     *)
(* first read of a tenant's configuration stores.                          *)
(***************************************************************************)
EXTENDS AsyncDelivery

CONSTANTS
    Projects,          \* project identifiers
    ProjectOf,         \* the project of each run
    SectionRuns,       \* runs with an active_section_id
    DraftRuns,         \* of those, the runs of the section_draft workflow
    Async,             \* CIVILAI_AGENT_ASYNC
    AmbiguousEnqueue,  \* may the invoke call raise after Lambda took the event?
    None               \* no output

ASSUME AgentRunsAssumption ==
    /\ ProjectOf \in [Jobs -> Projects]
    /\ DraftRuns \subseteq SectionRuns
    /\ SectionRuns \subseteq Jobs
    /\ Async \in BOOLEAN
    /\ AmbiguousEnqueue \in BOOLEAN
    /\ None \notin Executors

VARIABLES
    projects,   \* projects[p]: "live" while p has its PROJECT row, "deleting"
                \* while delete_project runs, then "deleted"
    runs,       \* runs[j]: the AGENT_RUN row, as GET returns it
    local,      \* local[e]: the AgentRun object in the memory of executor e
    drafts,     \* drafts[j]: the executors whose draft event is in the corpus
    activity,   \* activity[j]: who wrote the section_draft_created row of run j,
                \* whose event_id is the run_id
    audits      \* audits[j]: the executors that wrote an agent.run audit event

vars == <<pc, projects, runs, local, drafts, activity, audits>>

\* AgentRunStatus also has QUEUED and CANCELLED, which nothing stores.
Terminal == {"SUCCEEDED", "FAILED"}
Absent   == [status |-> "absent", output |-> None]
Running  == [status |-> "RUNNING", output |-> None]
Records  == [status : {"absent", "RUNNING", "SUCCEEDED", "FAILED"},
             output : Executors \cup {None}]

\* The steps between the first and the last store access of an executor.
Executing == {"invoke", "check project", "record activity", "save", "audit"}
Steps     == {"idle", "context", "enqueue", "absent", "queued", "done", "crashed"}
                 \cup Executing

Init ==
    /\ DeliveryInit
    /\ projects = [p \in Projects |-> "live"]
    /\ runs = [j \in Jobs |-> Absent]
    /\ local = [e \in Executors |-> Absent]
    /\ drafts = [j \in Jobs |-> {}]
    /\ activity = [j \in Jobs |-> None]
    /\ audits = [j \in Jobs |-> {}]

-----------------------------------------------------------------------------
(* The request *)

IsLive(p) == projects[p] = "live"

stores == <<projects, runs, drafts, activity, audits>>

\* The route answers 404 unless the project is there, then builds the context.
Post(j) ==
    /\ At(Request(j), "idle")
    /\ IsLive(ProjectOf[j])
    /\ Goto(Request(j), "context")
    /\ UNCHANGED <<local, stores>>

\* _build_context_payload raises: the request fails and no run is stored.
ContextRaises(j) ==
    /\ At(Request(j), "context")
    /\ Goto(Request(j), "done")
    /\ UNCHANGED <<local, stores>>

\* The context took data API calls to build: the project may be gone by now.
CreateRun(j) ==
    /\ At(Request(j), "context")
    /\ runs' = [runs EXCEPT ![j] = Running]
    /\ local' = [local EXCEPT ![Request(j)] = Running]
    /\ Goto(Request(j), IF Async THEN "enqueue" ELSE "invoke")
    /\ UNCHANGED <<projects, drafts, activity, audits>>

\* Broken: the return after the enqueue is lost, the request executes as well.
EnqueueFallsThrough(j) ==
    /\ At(Request(j), "enqueue")
    /\ GotoAccepted(j, "invoke")
    /\ UNCHANGED <<local, stores>>

\* Lambda takes the event and the POST returns the RUNNING run.
Enqueue(j) ==
    /\ At(Request(j), "enqueue")
    /\ GotoAccepted(j, "done")
    /\ UNCHANGED <<local, stores>>

\* The invoke call raises (no function name, a refusal, a lost answer): the
\* request executes the run.  After a lost answer Lambda has the event too.
EnqueueRaises(j) ==
    /\ At(Request(j), "enqueue")
    /\ \/ Goto(Request(j), "invoke")
       \/ AmbiguousEnqueue /\ GotoAccepted(j, "invoke")
    /\ UNCHANGED <<local, stores>>

-----------------------------------------------------------------------------
(* The worker, and the execution shared by the request and the worker *)

\* Broken: the worker only looks whether the run exists.
IsStored(run) == run.status # "absent"

\* A missing or finished run is left alone.
IsOpen(run) == run.status \notin Terminal \cup {"absent"}

\* complete_agent_run_from_event reads the run once and works on that copy.
\* A read that fails, or is answered by a replica behind the put, finds nothing
\* (DynamoDBStore._get): the worker returns as if all were well.
Deliver(w) ==
    /\ At(w, "queued")
    /\ \E found \in {runs[w.job], Absent} :
           /\ local' = [local EXCEPT ![w] = found]
           /\ Goto(w, IF IsOpen(found) THEN "invoke" ELSE "done")
    /\ UNCHANGED stores

\* A worker returned without having found the run.
Overlooked(j) ==
    \E w \in Workers : w.job = j /\ At(w, "done") /\ local[w] = Absent

\* Broken: a failure is stored with a status that nobody polls for.
FailAsCancelled(e) == local' = [local EXCEPT ![e].status = "CANCELLED"]

\* The except branch: the copy keeps what a success has put into it.
Fail(e) == local' = [local EXCEPT ![e].status = "FAILED"]

\* Broken: the execution announces itself in the run record first.
InvokeMarksRunning(e) ==
    /\ At(e, "invoke")
    /\ runs' = [runs EXCEPT ![e.job] = Running]
    /\ local' = [local EXCEPT ![e] = [status |-> "SUCCEEDED", output |-> e]]
    /\ Goto(e, IF e.job \in DraftRuns THEN "check project" ELSE "save")
    /\ UNCHANGED <<projects, drafts, activity, audits>>

\* The agent answers; the draft capture swallows its own errors.
Invoke(e) ==
    /\ At(e, "invoke")
    /\ \/ UNCHANGED drafts
       \/ /\ e.job \in SectionRuns
          /\ drafts' = [drafts EXCEPT ![e.job] = @ \cup {e}]
    /\ local' = [local EXCEPT ![e] = [status |-> "SUCCEEDED", output |-> e]]
    /\ Goto(e, IF e.job \in DraftRuns THEN "check project" ELSE "save")
    /\ UNCHANGED <<projects, runs, activity, audits>>

\* Broken: the error is logged and the execution returns without a put.
InvokeRaisesUnsaved(e) ==
    /\ At(e, "invoke")
    /\ Fail(e)
    /\ Goto(e, "done")
    /\ UNCHANGED stores

InvokeRaises(e) ==
    /\ At(e, "invoke")
    /\ Fail(e)
    /\ Goto(e, "save")
    /\ UNCHANGED stores

\* record_project_activity reads the project; when it is gone, or its row is
\* not found, the run fails and keeps the message it already carries.
CheckProject(e) ==
    /\ At(e, "check project")
    /\ \/ /\ IsLive(ProjectOf[e.job])
          /\ Goto(e, "record activity")
          /\ UNCHANGED local
       \/ /\ Goto(e, "save")
          /\ Fail(e)
    /\ UNCHANGED stores

\* The put overwrites the row that an earlier execution of the run left.
RecordActivity(e) ==
    /\ At(e, "record activity")
    /\ activity' = [activity EXCEPT ![e.job] = e]
    /\ Goto(e, "save")
    /\ UNCHANGED <<projects, runs, local, drafts, audits>>

\* Broken: the activity is best effort, like the draft capture.
RecordActivityBestEffort(e) ==
    /\ At(e, "record activity")
    /\ UNCHANGED <<local, stores>>
    /\ Goto(e, "save")

\* The put raises, and may have written the row before.
RecordActivityRaises(e) ==
    /\ At(e, "record activity")
    /\ \/ activity' = [activity EXCEPT ![e.job] = e]
       \/ UNCHANGED activity
    /\ Fail(e)
    /\ Goto(e, "save")
    /\ UNCHANGED <<projects, runs, drafts, audits>>

\* Broken: the execution returns right after the put.
SaveWithoutAudit(e) ==
    /\ At(e, "save")
    /\ runs' = [runs EXCEPT ![e.job] = local[e]]
    /\ Goto(e, "done")
    /\ UNCHANGED <<projects, local, drafts, activity, audits>>

\* put_agent_run overwrites whatever the row holds.
Save(e) ==
    /\ At(e, "save")
    /\ runs' = [runs EXCEPT ![e.job] = local[e]]
    /\ Goto(e, "audit")
    /\ UNCHANGED <<projects, local, drafts, activity, audits>>

Audit(e) ==
    /\ At(e, "audit")
    /\ audits' = [audits EXCEPT ![e.job] = @ \cup {e}]
    /\ Goto(e, "done")
    /\ UNCHANGED <<projects, runs, local, drafts, activity>>

-----------------------------------------------------------------------------
(* The environment *)

\* Any step may be the last one of an executor: the 900 s limit, a killed
\* container, or a store error outside the try block.
Crash(e) ==
    /\ CrashAt(e, {"context", "enqueue"} \cup Executing)
    /\ UNCHANGED <<local, stores>>

\* Lambda delivers one more copy of an accepted event.
Redeliver(j) ==
    /\ \E c \in 2 .. MaxCopies : Duplicate(j, c)
    /\ UNCHANGED <<local, stores>>

\* delete_project: the PROJECT row goes first, then the activity rows that a
\* query returns.  The runs of the project stay.
DeleteProject(p) ==
    /\ IsLive(p)
    /\ projects' = [projects EXCEPT ![p] = "deleting"]
    /\ UNCHANGED <<pc, local, runs, drafts, activity, audits>>

\* The deleting request reaches all rows of the activity, or dies on the way.
DeleteActivity(p) ==
    /\ projects[p] = "deleting"
    /\ projects' = [projects EXCEPT ![p] = "deleted"]
    /\ \E gone \in SUBSET {j \in Jobs : ProjectOf[j] = p} :
           activity' = [j \in Jobs |-> IF j \in gone THEN None ELSE activity[j]]
    /\ UNCHANGED <<pc, local, runs, drafts, audits>>

-----------------------------------------------------------------------------

Start(j) == Post(j) \/ ContextRaises(j) \/ CreateRun(j) \/ Enqueue(j) \/ EnqueueRaises(j)

Execute(e) ==
    \/ Invoke(e) \/ InvokeRaises(e)
    \/ CheckProject(e) \/ RecordActivity(e) \/ RecordActivityRaises(e)
    \/ Save(e) \/ Audit(e)

Next ==
    \/ \E j \in Jobs : Start(j) \/ Redeliver(j)
    \/ \E w \in Workers : Deliver(w)
    \/ \E e \in Executors : Execute(e) \/ Crash(e)
    \/ \E p \in Projects : DeleteProject(p) \/ DeleteActivity(p)

Spec == Init /\ [][Next]_vars

\* A request that arrived runs until it returns or dies, Lambda delivers what
\* it accepted, and a worker runs until it returns or dies.  Nothing forces a
\* request to arrive, an executor to die or a user to delete a project.
Fairness ==
    /\ \A j \in Jobs :
          WF_vars(ContextRaises(j) \/ CreateRun(j) \/ Enqueue(j) \/ EnqueueRaises(j))
    /\ \A w \in Workers : WF_vars(Deliver(w))
    /\ \A e \in Executors : WF_vars(Execute(e))

FairSpec == Spec /\ Fairness

-----------------------------------------------------------------------------
(* Properties *)

(***************************************************************************)
(* Every variable stays in its range: statuses, steps and provenance.      *)
(***************************************************************************)
TypeOK ==
    /\ pc \in [Executors -> Steps]
    /\ projects \in [Projects -> {"live", "deleting", "deleted"}]
    /\ runs \in [Jobs -> Records]
    /\ local \in [Executors -> Records]
    /\ drafts \in [Jobs -> SUBSET Executors]
    /\ activity \in [Jobs -> Executors \cup {None}]
    /\ audits \in [Jobs -> SUBSET Executors]

(***************************************************************************)
(* A finished section draft can be found on the timeline of its project:   *)
(* while a run shows SUCCEEDED and its project was never deleted, the      *)
(* section_draft_created row is there, whoever executed the run and        *)
(* whoever else died or failed on it.                                      *)
(***************************************************************************)
SucceededDraftIsOnTimeline ==
    \A j \in DraftRuns :
        runs[j].status = "SUCCEEDED" /\ IsLive(ProjectOf[j]) => activity[j] # None

(***************************************************************************)
(* A finished run was audited, is about to be, or lost its auditor: an     *)
(* agent.run event is missing only if an executor died between the put of  *)
(* the run and the put of the event.                                       *)
(***************************************************************************)
FinishedRunIsAudited ==
    \A j \in Jobs :
        runs[j].status \in Terminal =>
            \E e \in Executors :
                /\ e.job = j
                /\ \/ e \in audits[j]
                   \/ pc[e] = "audit"
                   \/ pc[e] = "crashed" /\ local[e] = runs[j]

(***************************************************************************)
(* The timeline and the run record tell the same story: the entry of a     *)
(* SUCCEEDED draft is the one its own execution wrote (same completion     *)
(* time, same model), even if earlier attempts died after they wrote       *)
(* theirs; it is missing only when the project was deleted.  Needs one     *)
(* executor at a time, which the terminal check of the worker entrypoint   *)
(* provides for retries but not for duplicate deliveries.                  *)
(***************************************************************************)
TimelineMatchesRun ==
    \A j \in DraftRuns :
        runs[j].status = "SUCCEEDED" =>
            \/ activity[j] = runs[j].output
            \/ activity[j] = None /\ ~IsLive(ProjectOf[j])

(***************************************************************************)
(* The training corpus sees a run twice only after a crash: of two draft   *)
(* events of one run, one comes from an executor that died.                *)
(***************************************************************************)
TwoDraftsOnlyAfterCrash ==
    \A j \in Jobs : \A e, f \in drafts[j] :
        e # f => pc[e] = "crashed" \/ pc[f] = "crashed"

(***************************************************************************)
(* A run that was stored RUNNING is finished eventually, unless the        *)
(* request that worked on it died, Lambda used up its attempts, or a       *)
(* worker looked for the run and did not find it: there is no other way    *)
(* for a client to poll forever.                                           *)
(***************************************************************************)
RunsFinish ==
    \A j \in Jobs :
        runs[j].status = "RUNNING" ~>
            runs[j].status \in Terminal \/ GivenUp(j) \/ Overlooked(j)

(***************************************************************************)
(* What a polling client is promised (JobLifecycle), for any delivery:     *)
(* results may be replaced, a finished run never becomes unfinished; and   *)
(* with one executor at a time: the first result is final.                 *)
(***************************************************************************)
Lifecycle == INSTANCE JobLifecycle WITH record <- runs, Outputs <- Executors

LifecycleAtLeastOnce == Lifecycle!AtLeastOnceSpec
LifecycleFinal == Lifecycle!Spec

=============================================================================
