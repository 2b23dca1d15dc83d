----------------------------- MODULE ExportJobs -----------------------------
(***************************************************************************)
(* Export jobs: services/export/service.py on the DynamoDB store and the   *)
(* S3 artifact backend.                                                    *)
(*                                                                         *)
(* The document is not made from the request: whoever executes the job     *)
(* reads the project and its state at that time, renders and lints a DOCX, *)
(* stores it under a key all executions of the job share, has a second     *)
(* Lambda (the LibreOffice converter) turn the stored DOCX into a PDF, and *)
(* overwrites the job record.  The converter is an actor of its own: it    *)
(* goes on when its caller has died or has stopped waiting.                *)
(*                                                                         *)
(* Left out: what is in the document.  A rendering is the executor that    *)
(* made it, and so are the findings and the provenance of the job record.  *)
(***************************************************************************)
EXTENDS AsyncDelivery

CONSTANTS
    Projects,          \* project identifiers
    ProjectOf,         \* the project of each job
    Async,             \* CIVILAI_EXPORT_ASYNC
    PdfConverter,      \* is CIVILAI_EXPORT_PDF_FUNCTION set?
    AmbiguousEnqueue,  \* may the invoke call raise after Lambda took the event?
    None               \* no rendering

ASSUME ExportJobsAssumption ==
    /\ ProjectOf \in [Jobs -> Projects]
    /\ Async \in BOOLEAN
    /\ PdfConverter \in BOOLEAN
    /\ AmbiguousEnqueue \in BOOLEAN
    /\ None \notin Executors

VARIABLES
    projects,   \* projects[p]: how many of the rows PROJECT and STATE are left
    jobs,       \* jobs[j]: the EXPORT_JOB row; output is the rendering it describes
    local,      \* local[e]: the ExportJob object in the memory of executor e
    docx,       \* docx[j]: the rendering stored as study.docx
    pdf,        \* pdf[j]: the rendering that study.pdf was made from
    converting, \* converting[e]: the rendering the converter works on for e
    audits      \* audits[j]: the executors that wrote an export.render event

vars == <<pc, projects, jobs, local, docx, pdf, converting, audits>>

Terminal == {"SUCCEEDED", "FAILED"}
Absent   == [status |-> "absent", output |-> None]
Running  == [status |-> "RUNNING", output |-> None]
Records  == [status : {"absent", "RUNNING", "SUCCEEDED", "FAILED"},
             output : Executors \cup {None}]

Executing == {"render", "store", "convert", "wait", "save", "audit"}
Steps     == {"idle", "create", "enqueue", "absent", "queued", "done", "crashed"}
                 \cup Executing

Init ==
    /\ DeliveryInit
    /\ projects = [p \in Projects |-> {"PROJECT", "STATE"}]
    /\ jobs = [j \in Jobs |-> Absent]
    /\ local = [e \in Executors |-> Absent]
    /\ docx = [j \in Jobs |-> None]
    /\ pdf = [j \in Jobs |-> None]
    /\ converting = [e \in Executors |-> None]
    /\ audits = [j \in Jobs |-> {}]

\* Both rows are there.
IsComplete(p) == projects[p] = {"PROJECT", "STATE"}

-----------------------------------------------------------------------------
(* The request *)

stores == <<projects, jobs, docx, pdf, audits>>

\* The route answers 404 or 409 unless the project and its state are there.
Post(j) ==
    /\ At(Request(j), "idle")
    /\ IsComplete(ProjectOf[j])
    /\ Goto(Request(j), "create")
    /\ UNCHANGED <<local, converting, stores>>

\* No tenant row, or a skin that does not exist: nothing is stored.
CreateRaises(j) ==
    /\ At(Request(j), "create")
    /\ Goto(Request(j), "done")
    /\ UNCHANGED <<local, converting, stores>>

CreateJob(j) ==
    /\ At(Request(j), "create")
    /\ jobs' = [jobs EXCEPT ![j] = Running]
    /\ local' = [local EXCEPT ![Request(j)] = Running]
    /\ Goto(Request(j), IF Async THEN "enqueue" ELSE "render")
    /\ UNCHANGED <<projects, docx, pdf, converting, audits>>

Enqueue(j) ==
    /\ At(Request(j), "enqueue")
    /\ GotoAccepted(j, "done")
    /\ UNCHANGED <<local, converting, stores>>

\* The request falls back to executing the job.
EnqueueRaises(j) ==
    /\ At(Request(j), "enqueue")
    /\ \/ Goto(Request(j), "render")
       \/ AmbiguousEnqueue /\ GotoAccepted(j, "render")
    /\ UNCHANGED <<local, converting, stores>>

-----------------------------------------------------------------------------
(* The worker, and the execution shared by the request and the worker *)

\* Broken: the worker only looks whether the job exists.
IsStored(job) == job.status # "absent"

\* A missing or finished job is left alone.
IsOpen(job) == job.status \notin Terminal \cup {"absent"}

\* A read that fails, or is answered by a replica behind the put, finds nothing
\* (DynamoDBStore._get): the worker returns as if all were well.
Deliver(w) ==
    /\ At(w, "queued")
    /\ \E found \in {jobs[w.job], Absent} :
           /\ local' = [local EXCEPT ![w] = found]
           /\ Goto(w, IF IsOpen(found) THEN "render" ELSE "done")
    /\ UNCHANGED <<converting, stores>>

\* A worker returned without having found the job.
Overlooked(j) ==
    \E w \in Workers : w.job = j /\ At(w, "done") /\ local[w] = Absent

\* Broken: the job is closed with a status outside ExportJobStatus.
FailAsCancelled(e) ==
    /\ local' = [local EXCEPT ![e].status = "CANCELLED"]
    /\ Goto(e, "save")

\* The except branch.  Nothing of the rendering is in the job yet.
Fail(e) ==
    /\ local' = [local EXCEPT ![e].status = "FAILED"]
    /\ Goto(e, "save")

Succeed(e) ==
    /\ local' = [local EXCEPT ![e] = [status |-> "SUCCEEDED", output |-> e]]
    /\ Goto(e, "save")

\* build_export_context reads tenant, project and state; render and lint work
\* on what it returns.
Render(e) ==
    /\ At(e, "render")
    /\ IsComplete(ProjectOf[e.job])
    /\ Goto(e, "store")
    /\ UNCHANGED <<local, converting, stores>>

\* A row is gone or not found, or the skin, the renderer or the linter raises.
RenderRaises(e) ==
    /\ At(e, "render")
    /\ Fail(e)
    /\ UNCHANGED <<converting, stores>>

\* Broken: success is decided before the converter is asked.
StoreWithoutConversion(e) ==
    /\ At(e, "store")
    /\ docx' = [docx EXCEPT ![e.job] = e]
    /\ Succeed(e)
    /\ UNCHANGED <<projects, jobs, pdf, converting, audits>>

StoreDocx(e) ==
    /\ At(e, "store")
    /\ docx' = [docx EXCEPT ![e.job] = e]
    /\ IF PdfConverter THEN Goto(e, "convert") /\ UNCHANGED local ELSE Succeed(e)
    /\ UNCHANGED <<projects, jobs, pdf, converting, audits>>

\* The put raises, and may have stored the object before.
StoreDocxRaises(e) ==
    /\ At(e, "store")
    /\ \/ docx' = [docx EXCEPT ![e.job] = e]
       \/ UNCHANGED docx
    /\ Fail(e)
    /\ UNCHANGED <<projects, jobs, pdf, converting, audits>>

\* Broken: the executor announces itself before the conversion.
CallConverterMarksRunning(e) ==
    /\ At(e, "convert")
    /\ jobs' = [jobs EXCEPT ![e.job] = Running]
    /\ converting' = [converting EXCEPT ![e] = docx[e.job]]
    /\ Goto(e, "wait")
    /\ UNCHANGED <<projects, local, docx, pdf, audits>>

\* invoke_pdf_converter names two keys; the converter reads what is there.
CallConverter(e) ==
    /\ At(e, "convert")
    /\ converting' = [converting EXCEPT ![e] = docx[e.job]]
    /\ Goto(e, "wait")
    /\ UNCHANGED <<local, stores>>

\* The converter stores the PDF; its caller succeeds if it still waits.
ConverterWrites(e) ==
    /\ converting[e] # None
    /\ pdf' = [pdf EXCEPT ![e.job] = converting[e]]
    /\ converting' = [converting EXCEPT ![e] = None]
    /\ IF At(e, "wait") THEN Succeed(e) ELSE UNCHANGED <<pc, local>>
    /\ UNCHANGED <<projects, jobs, docx, audits>>

ConverterDies(e) ==
    /\ converting[e] # None
    /\ converting' = [converting EXCEPT ![e] = None]
    /\ UNCHANGED <<pc, local, stores>>

\* An error answer, or no answer in time: the converter may still be at work.
ConvertRaises(e) ==
    /\ At(e, "wait")
    /\ Fail(e)
    /\ UNCHANGED <<converting, stores>>

\* Broken: a failed job is logged and not stored.
SaveOnlySuccess(e) ==
    /\ At(e, "save")
    /\ jobs' = [jobs EXCEPT ![e.job] =
                   IF local[e].status = "SUCCEEDED" THEN local[e] ELSE @]
    /\ Goto(e, "audit")
    /\ UNCHANGED <<projects, local, docx, pdf, converting, audits>>

\* put_export_job overwrites whatever the row holds.
Save(e) ==
    /\ At(e, "save")
    /\ jobs' = [jobs EXCEPT ![e.job] = local[e]]
    /\ Goto(e, "audit")
    /\ UNCHANGED <<projects, local, docx, pdf, converting, audits>>

Audit(e) ==
    /\ At(e, "audit")
    /\ audits' = [audits EXCEPT ![e.job] = @ \cup {e}]
    /\ Goto(e, "done")
    /\ UNCHANGED <<projects, jobs, local, docx, pdf, converting>>

-----------------------------------------------------------------------------
(* The environment *)

Crash(e) ==
    /\ CrashAt(e, {"create", "enqueue"} \cup Executing)
    /\ UNCHANGED <<local, converting, stores>>

Redeliver(j) ==
    /\ \E c \in 2 .. MaxCopies : Duplicate(j, c)
    /\ UNCHANGED <<local, converting, stores>>

\* delete_project removes the PROJECT row and then the STATE row; the export
\* jobs of the project and their documents stay.
DeleteRow(p) ==
    /\ \/ IsComplete(p) /\ projects' = [projects EXCEPT ![p] = {"STATE"}]
       \/ projects[p] = {"STATE"} /\ projects' = [projects EXCEPT ![p] = {}]
    /\ UNCHANGED <<pc, local, jobs, docx, pdf, converting, audits>>

-----------------------------------------------------------------------------

Start(j) == Post(j) \/ CreateRaises(j) \/ CreateJob(j) \/ Enqueue(j) \/ EnqueueRaises(j)

Execute(e) ==
    \/ Render(e) \/ RenderRaises(e)
    \/ StoreDocx(e) \/ StoreDocxRaises(e)
    \/ CallConverter(e) \/ ConvertRaises(e)
    \/ Save(e) \/ Audit(e)

Convert(e) == ConverterWrites(e) \/ ConverterDies(e)

Next ==
    \/ \E j \in Jobs : Start(j) \/ Redeliver(j)
    \/ \E w \in Workers : Deliver(w)
    \/ \E e \in Executors : Execute(e) \/ Convert(e) \/ Crash(e)
    \/ \E p \in Projects : DeleteRow(p)

Spec == Init /\ [][Next]_vars

\* As for the agent runs; the converter is bounded by its own timeout, and the
\* wait for its answer by the client's.
Fairness ==
    /\ \A j \in Jobs :
          WF_vars(CreateRaises(j) \/ CreateJob(j) \/ Enqueue(j) \/ EnqueueRaises(j))
    /\ \A w \in Workers : WF_vars(Deliver(w))
    /\ \A e \in Executors : WF_vars(Execute(e)) /\ WF_vars(Convert(e))

FairSpec == Spec /\ Fairness

-----------------------------------------------------------------------------
(* Properties *)

(***************************************************************************)
(* Every variable stays in its range: statuses, steps and provenance.      *)
(***************************************************************************)
TypeOK ==
    /\ pc \in [Executors -> Steps]
    /\ projects \in [Projects -> SUBSET {"PROJECT", "STATE"}]
    /\ jobs \in [Jobs -> Records]
    /\ local \in [Executors -> Records]
    /\ docx \in [Jobs -> Executors \cup {None}]
    /\ pdf \in [Jobs -> Executors \cup {None}]
    /\ converting \in [Executors -> Executors \cup {None}]
    /\ audits \in [Jobs -> SUBSET Executors]

(***************************************************************************)
(* The findings and the provenance a client reads from a SUCCEEDED job are *)
(* those of the document it downloads, even when earlier attempts died     *)
(* after they stored theirs.  Needs one executor at a time.                *)
(***************************************************************************)
DocumentMatchesJob ==
    \A j \in Jobs :
        jobs[j].status = "SUCCEEDED" => docx[j] = jobs[j].output

(***************************************************************************)
(* With a converter, a SUCCEEDED job is never DOCX-only, and its PDF was   *)
(* made from its DOCX.  One thing can come between them: an attempt that   *)
(* died while its conversion was on the way, whose PDF arrives late.       *)
(***************************************************************************)
PdfMatchesDocument ==
    \A j \in Jobs :
        PdfConverter /\ jobs[j].status = "SUCCEEDED" =>
            /\ pdf[j] # None
            /\ \/ pdf[j] = docx[j]
               \/ pc[pdf[j]] = "crashed"

(***************************************************************************)
(* What is left of it for any delivery: once a client has seen SUCCEEDED,  *)
(* there is a DOCX and, with a converter, a PDF to download, however many  *)
(* executors store, convert and fail on the job afterwards.                *)
(***************************************************************************)
NeverDocxOnly ==
    \A j \in Jobs :
        jobs[j].status = "SUCCEEDED" =>
            /\ docx[j] # None
            /\ PdfConverter => pdf[j] # None

(***************************************************************************)
(* A job that was stored RUNNING is finished eventually, also when the     *)
(* converter never answers, unless its request died, Lambda used up its    *)
(* attempts, or a worker looked for the job and did not find it.           *)
(***************************************************************************)
ExportsFinish ==
    \A j \in Jobs :
        jobs[j].status = "RUNNING" ~>
            jobs[j].status \in Terminal \/ GivenUp(j) \/ Overlooked(j)

(***************************************************************************)
(* What a polling client is promised: the first result is final with one   *)
(* executor at a time, and a finished job never becomes unfinished at all. *)
(***************************************************************************)
Lifecycle == INSTANCE JobLifecycle WITH record <- jobs, Outputs <- Executors

LifecycleAtLeastOnce == Lifecycle!AtLeastOnceSpec
LifecycleFinal == Lifecycle!Spec

=============================================================================
