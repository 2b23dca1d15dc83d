---------------------------- MODULE LlmInvokeJobs ---------------------------
(***************************************************************************)
(* LLM invoke jobs: services/llm_invoke.py.                                *)
(*                                                                         *)
(* With the async flag, POST .../llm/invoke stores a RUNNING job and hands *)
(* it to a worker; without it, the request calls the model and returns the *)
(* answer, and no job exists.  Both go through                             *)
(* invoke_tenant_section_llm_sync, which writes the audit event itself:    *)
(* before the job is stored, and inside the try block of the worker.  That *)
(* order is the opposite of the one in agent runs and exports.             *)
(*                                                                         *)
(* Left out: the resolution of the tenant's prompts, models and search     *)
(* policy into the body of the call, with the copy of the baseline that    *)
(* the first read of a tenant's configuration stores.  A result is the     *)
(* executor whose call returned it.                                        *)
(***************************************************************************)
EXTENDS AsyncDelivery

CONSTANTS
    Async,             \* CIVILAI_LLM_ASYNC, or CIVILAI_AGENT_ASYNC
    AmbiguousEnqueue,  \* may the invoke call raise after Lambda took the event?
    None               \* no result

ASSUME LlmInvokeJobsAssumption ==
    /\ Async \in BOOLEAN
    /\ AmbiguousEnqueue \in BOOLEAN
    /\ None \notin Executors

VARIABLES
    jobs,    \* jobs[j]: the LLM_JOB row
    local,   \* local[e]: the LlmInvokeJob object in the memory of executor e
    audits   \* audits[j]: the executors that wrote a tenant_llm.invoke event

vars == <<pc, jobs, local, audits>>

Terminal == {"SUCCEEDED", "FAILED"}
Absent   == [status |-> "absent", output |-> None]
Running  == [status |-> "RUNNING", output |-> None]
Failed   == [status |-> "FAILED", output |-> None]
Records  == [status : {"absent", "RUNNING", "SUCCEEDED", "FAILED"},
             output : Executors \cup {None}]

Executing == {"invoke", "audit", "save"}
Steps     == {"idle", "create", "enqueue", "absent", "queued", "done", "crashed"}
                 \cup Executing

Init ==
    /\ DeliveryInit
    /\ jobs = [j \in Jobs |-> Absent]
    /\ local = [e \in Executors |-> Absent]
    /\ audits = [j \in Jobs |-> {}]

-----------------------------------------------------------------------------
(* The request *)

Post(j) ==
    /\ At(Request(j), "idle")
    /\ Goto(Request(j), IF Async THEN "create" ELSE "invoke")
    /\ UNCHANGED <<jobs, local, audits>>

CreateJob(j) ==
    /\ At(Request(j), "create")
    /\ jobs' = [jobs EXCEPT ![j] = Running]
    /\ local' = [local EXCEPT ![Request(j)] = Running]
    /\ Goto(Request(j), "enqueue")
    /\ UNCHANGED audits

Enqueue(j) ==
    /\ At(Request(j), "enqueue")
    /\ GotoAccepted(j, "done")
    /\ UNCHANGED <<jobs, local, audits>>

EnqueueRaises(j) ==
    /\ At(Request(j), "enqueue")
    /\ \/ Goto(Request(j), "invoke")
       \/ AmbiguousEnqueue /\ GotoAccepted(j, "invoke")
    /\ UNCHANGED <<jobs, local, audits>>

-----------------------------------------------------------------------------
(* The worker, and the call shared by the request and the worker *)

\* A missing or finished job is left alone.
IsOpen(job) == job.status \notin Terminal \cup {"absent"}

\* A read that fails, or is answered by a replica behind the put, finds nothing
\* (DynamoDBStore._get): the worker returns as if all were well.
Deliver(w) ==
    /\ At(w, "queued")
    /\ \E found \in {jobs[w.job], Absent} :
           /\ local' = [local EXCEPT ![w] = found]
           /\ Goto(w, IF IsOpen(found) THEN "invoke" ELSE "done")
    /\ UNCHANGED <<jobs, audits>>

\* A worker returned without having found the job.
Overlooked(j) ==
    \E w \in Workers : w.job = j /\ At(w, "done") /\ local[w] = Absent

\* Without a job the answer, or the error, goes to the client.
AfterCall == IF Async THEN "save" ELSE "done"

\* Broken: the answer goes into the job before the audit event is written.
InvokeBeforeAudit(e) ==
    /\ At(e, "invoke")
    /\ local' = [local EXCEPT ![e] = [status |-> "SUCCEEDED", output |-> e]]
    /\ Goto(e, AfterCall)
    /\ UNCHANGED <<jobs, audits>>

\* The data API calls the model and answers.
Invoke(e) ==
    /\ At(e, "invoke")
    /\ Goto(e, "audit")
    /\ UNCHANGED <<jobs, local, audits>>

\* Broken: the except branch leaves the job as it was read.
FailUntouched(e) == UNCHANGED local

\* The except branch: the result and the status are overwritten together.
Fail(e) == local' = [local EXCEPT ![e] = Failed]

\* The config, the model or the data API raises.
InvokeRaises(e) ==
    /\ At(e, "invoke")
    /\ Fail(e)
    /\ Goto(e, AfterCall)
    /\ UNCHANGED <<jobs, audits>>

Audit(e) ==
    /\ At(e, "audit")
    /\ audits' = [audits EXCEPT ![e.job] = @ \cup {e}]
    /\ local' = [local EXCEPT ![e] = [status |-> "SUCCEEDED", output |-> e]]
    /\ Goto(e, AfterCall)
    /\ UNCHANGED jobs

\* The put of the event raises, and may have written it: the answer, paid for
\* and complete, is thrown away.
AuditRaises(e) ==
    /\ At(e, "audit")
    /\ \/ audits' = [audits EXCEPT ![e.job] = @ \cup {e}]
       \/ UNCHANGED audits
    /\ Fail(e)
    /\ Goto(e, AfterCall)
    /\ UNCHANGED jobs

\* put_llm_invoke_job overwrites whatever the row holds.
Save(e) ==
    /\ At(e, "save")
    /\ jobs' = [jobs EXCEPT ![e.job] = local[e]]
    /\ Goto(e, "done")
    /\ UNCHANGED <<local, audits>>

-----------------------------------------------------------------------------
(* The environment *)

Crash(e) ==
    /\ CrashAt(e, {"create", "enqueue"} \cup Executing)
    /\ UNCHANGED <<jobs, local, audits>>

Redeliver(j) ==
    /\ \E c \in 2 .. MaxCopies : Duplicate(j, c)
    /\ UNCHANGED <<jobs, local, audits>>

-----------------------------------------------------------------------------

Start(j) == Post(j) \/ CreateJob(j) \/ Enqueue(j) \/ EnqueueRaises(j)

Execute(e) ==
    \/ Invoke(e) \/ InvokeRaises(e)
    \/ Audit(e) \/ AuditRaises(e)
    \/ Save(e)

Next ==
    \/ \E j \in Jobs : Start(j) \/ Redeliver(j)
    \/ \E w \in Workers : Deliver(w)
    \/ \E e \in Executors : Execute(e) \/ Crash(e)

Spec == Init /\ [][Next]_vars

\* As for the agent runs.
Fairness ==
    /\ \A j \in Jobs : WF_vars(CreateJob(j) \/ Enqueue(j) \/ EnqueueRaises(j))
    /\ \A w \in Workers : WF_vars(Deliver(w))
    /\ \A e \in Executors : WF_vars(Execute(e))

FairSpec == Spec /\ Fairness

-----------------------------------------------------------------------------
(* Properties *)

(***************************************************************************)
(* Every variable stays in its range: statuses, steps and provenance.      *)
(***************************************************************************)
TypeOK ==
    /\ pc \in [Executors -> Steps]
    /\ jobs \in [Jobs -> Records]
    /\ local \in [Executors -> Records]
    /\ audits \in [Jobs -> SUBSET Executors]

(***************************************************************************)
(* No client ever reads an answer of the model that the audit trail does   *)
(* not show, whoever died, failed or executed the job a second time: the   *)
(* event of the very call that gave the result is there.                   *)
(***************************************************************************)
EveryResultWasAudited ==
    \A j \in Jobs :
        jobs[j].status = "SUCCEEDED" => jobs[j].output \in audits[j]

(***************************************************************************)
(* A job that was stored RUNNING is finished eventually, for any number of *)
(* deliveries, unless its request died, Lambda used up its attempts, or a  *)
(* worker looked for the job and did not find it.                          *)
(***************************************************************************)
JobsFinish ==
    \A j \in Jobs :
        jobs[j].status = "RUNNING" ~>
            jobs[j].status \in Terminal \/ GivenUp(j) \/ Overlooked(j)

(***************************************************************************)
(* What a polling client is promised for any delivery: a result may be     *)
(* replaced by another result, never by an unfinished job.                 *)
(***************************************************************************)
Lifecycle == INSTANCE JobLifecycle WITH record <- jobs, Outputs <- Executors

LifecycleAtLeastOnce == Lifecycle!AtLeastOnceSpec

=============================================================================
