-------------------------- MODULE ExportJobsProofs --------------------------
(***************************************************************************)
(* Proofs about ExportJobs, for any number of jobs, copies and attempts,   *)
(* with and without a PDF converter.                                       *)
(*                                                                         *)
(* A step of the system is quiet (it writes no row and no document), or it *)
(* creates a job, or an executor or its converter works.  The proofs split *)
(* along these three, the last one along a table of what work does.        *)
(***************************************************************************)
EXTENDS ExportJobs, AsyncDeliveryProofs

-----------------------------------------------------------------------------
(* The inductive invariants, for every delivery *)

\* The steps of a request up to the enqueue, and those after it.
Early == {"idle", "create", "enqueue"}
After == IF AmbiguousEnqueue THEN {"done", "render"} ELSE {"done"}

\* Before the request stores the job there is no job.
NothingBeforeCreate ==
    \A j \in Jobs : pc[Request(j)] \in {"idle", "create"} => jobs[j] = Absent

\* The values a job record goes through: RUNNING carries no provenance.
RecordShape ==
    \A j \in Jobs : jobs[j] \in {Absent, Running} \cup Lifecycle!Results

\* Whoever executes a job works on a stored one.
ExecutorHasJob ==
    \A e \in Executors :
        pc[e] \in Executing \cup {"enqueue"} => jobs[e.job].status # "absent"

\* Who is about to save holds a result.
HoldsResult ==
    \A e \in Executors : pc[e] = "save" => local[e] \in Lifecycle!Results

LifecycleInv == NothingBeforeCreate /\ RecordShape /\ ExecutorHasJob /\ HoldsResult

\* The converter is only asked for a DOCX that is there.
DocxBeforeConversion ==
    \A e \in Executors : pc[e] \in {"convert", "wait"} => docx[e.job] # None

\* The documents are there before their executor saves the success.
SavedIsComplete ==
    \A e \in Executors :
        pc[e] = "save" /\ local[e].status = "SUCCEEDED" =>
            /\ docx[e.job] # None
            /\ PdfConverter => pdf[e.job] # None

CompleteInv == DocxBeforeConversion /\ SavedIsComplete /\ NeverDocxOnly

-----------------------------------------------------------------------------
(* The invariants of a single delivery *)

\* One copy per event, and a call that raises has failed.
SingleDelivery == MaxCopies = 1 /\ ~AmbiguousEnqueue

\* Nobody works on a finished job.
FinishedIsLeftAlone ==
    \A e \in Executors :
        jobs[e.job].status \in Terminal =>
            pc[e] \notin {"create", "enqueue", "render", "store", "convert", "wait", "save"}

\* What an executor has stored is there until it has saved the job.
HoldsOwnDocument ==
    \A e \in Executors :
        /\ pc[e] \in {"convert", "wait"} => docx[e.job] = e
        /\ pc[e] = "save" /\ local[e].status = "SUCCEEDED" =>
               local[e].output = e /\ docx[e.job] = e

DocumentInv == HoldsOwnDocument /\ DocumentMatchesJob

\* The converter works for an executor on the document of that executor; when
\* the executor goes on without the PDF, the job fails.
ConvertsOwnDocument ==
    \A e \in Executors :
        converting[e] # None =>
            /\ converting[e] = e
            /\ pc[e] \in {"wait", "save", "audit", "done", "crashed"}
            /\ pc[e] = "save" => local[e].status = "FAILED"
            /\ pc[e] \in {"audit", "done"} => jobs[e.job].status = "FAILED"

\* The PDF of job j was made from its DOCX, or came late from a dead attempt.
PdfIsFit(j) ==
    /\ pdf[j] # None
    /\ pdf[j] = docx[j] \/ pc[pdf[j]] = "crashed"

SavedPdfIsFit ==
    \A e \in Executors :
        PdfConverter /\ pc[e] = "save" /\ local[e].status = "SUCCEEDED" => PdfIsFit(e.job)

PdfInv == ConvertsOwnDocument /\ SavedPdfIsFit /\ PdfMatchesDocument

-----------------------------------------------------------------------------
(* What the steps do *)

\* The steps that the delivery of an event leads to, and what the delivery
\* lemmas ask of the steps before and after the enqueue.
LEMMA StepFacts ==
    /\ {"queued", "crashed", "done", "render"} \subseteq Steps
    /\ Early \cap After = {} /\ "enqueue" \in Early /\ "crashed" \notin Early
    /\ SingleDelivery => After = {"done"} /\ MaxCopies = 1
  BY DEF Steps, Executing, Early, After, SingleDelivery

\* The three ways in which an executor comes to save a result.
LEMMA ResultFacts ==
    ASSUME TypeOK, NEW e \in Executors
    PROVE  /\ Fail(e) => /\ pc'[e] = "save"
                         /\ local'[e].status = "FAILED"
                         /\ local'[e] \in Records /\ local'[e] \in Lifecycle!Results
           /\ Succeed(e) => /\ pc'[e] = "save"
                            /\ local'[e] = [status |-> "SUCCEEDED", output |-> e]
                            /\ local'[e] \in Records /\ local'[e] \in Lifecycle!Results
           /\ Fail(e) \/ Succeed(e) =>
                 /\ pc' \in [Executors -> Steps] /\ local' \in [Executors -> Records]
                 /\ \A f \in Executors \ {e} : pc'[f] = pc[f] /\ local'[f] = local[f]
<1>1. "save" \in Steps
  BY DEF Steps, Executing
<1>2. local[e] \in Records /\ local \in [Executors -> Records]
          /\ pc \in [Executors -> Steps]
  BY DEF TypeOK
<1>3. [local[e] EXCEPT !.status = "FAILED"]
          = [status |-> "FAILED", output |-> local[e].output]
  BY <1>2 DEF Records
<1>4. /\ [status |-> "FAILED", output |-> local[e].output] \in Records
      /\ [status |-> "FAILED", output |-> local[e].output] \in Lifecycle!Results
      /\ [status |-> "SUCCEEDED", output |-> e] \in Records
      /\ [status |-> "SUCCEEDED", output |-> e] \in Lifecycle!Results
  BY <1>2 DEF Records, Lifecycle!Results
<1>5. CASE Fail(e)
  <2>1. local' = [local EXCEPT ![e] = [status |-> "FAILED", output |-> local[e].output]]
    BY <1>3, <1>5 DEF Fail
  <2>. QED BY <1>1, <1>2, <1>4, <1>5, <2>1 DEF Fail, Succeed, Goto
<1>6. CASE Succeed(e) /\ ~Fail(e)
  BY <1>1, <1>2, <1>4, <1>6 DEF Succeed, Goto
<1>. QED BY <1>5, <1>6

\* The executor stays where it is, and its copy of the job what it is.
Rests(f) == pc'[f] = pc[f] /\ local'[f] = local[f]

\* Nothing is written.  An executor may die, return, be queued, or begin.
Quiet ==
    /\ UNCHANGED <<jobs, docx, pdf, converting, audits>>
    /\ \A f \in Executors :
          \/ Rests(f)
          \/ pc'[f] \in {"queued", "crashed"}
          \/ pc'[f] = "done" /\ pc[f] \in {"create", "enqueue", "queued"}
          \/ pc'[f] = "create" /\ pc[f] = "idle" /\ f = Request(f.job)
          \/ /\ pc'[f] = "render"
             /\ pc[f] = "enqueue" \/ (pc[f] = "queued" /\ IsOpen(jobs[f.job]))

\* The executor goes on to save a failure, or its own success.
Fails(e) ==
    pc'[e] = "save" /\ local'[e].status = "FAILED" /\ local'[e] \in Lifecycle!Results

Succeeds(e) ==
    pc'[e] = "save" /\ local'[e] = [status |-> "SUCCEEDED", output |-> e]

\* The executor or its converter works on the job; one line per action.
Work(e) ==
    \/ pc[e] = "render" /\ pc'[e] = "store"
         /\ UNCHANGED <<local, jobs, docx, pdf, converting>>
    \/ pc[e] \in {"render", "wait"} /\ Fails(e) /\ UNCHANGED <<jobs, docx, pdf, converting>>
    \/ pc[e] = "store" /\ Fails(e) /\ UNCHANGED <<jobs, pdf, converting>>
    \/ pc[e] = "store" /\ docx'[e.job] = e /\ Succeeds(e) /\ ~PdfConverter
         /\ UNCHANGED <<jobs, pdf, converting>>
    \/ pc[e] = "store" /\ docx'[e.job] = e /\ pc'[e] = "convert" /\ PdfConverter
         /\ UNCHANGED <<local, jobs, pdf, converting>>
    \/ pc[e] = "convert" /\ pc'[e] = "wait" /\ converting'[e] = docx[e.job]
         /\ UNCHANGED <<local, jobs, docx, pdf>>
    \/ pc[e] = "save" /\ pc'[e] = "audit" /\ jobs' = [jobs EXCEPT ![e.job] = local[e]]
         /\ UNCHANGED <<local, docx, pdf, converting>>
    \/ pc[e] = "audit" /\ pc'[e] = "done" /\ UNCHANGED <<local, jobs, docx, pdf, converting>>
    \/ converting[e] # None /\ pdf'[e.job] = converting[e] /\ converting'[e] = None
         /\ \/ pc[e] = "wait" /\ Succeeds(e)
            \/ pc[e] # "wait" /\ Rests(e)
         /\ UNCHANGED <<jobs, docx>>
    \/ converting'[e] = None /\ Rests(e) /\ UNCHANGED <<jobs, docx, pdf>>

Works(e) ==
    /\ Work(e)
    /\ pc'[e] \in {pc[e], "store", "convert", "wait", "save", "audit", "done"}
    /\ pc'[e] # pc[e] => pc[e] \in Executing
    /\ \A f \in Executors \ {e} : Rests(f) /\ converting'[f] = converting[f]
    /\ docx'[e.job] = docx[e.job] \/ docx'[e.job] = e
    /\ \A j \in Jobs \ {e.job} : docx'[j] = docx[j] /\ pdf'[j] = pdf[j]

\* A worker leaves the queue with the record it read, and executes it if open.
LEMMA DeliverEffect ==
    ASSUME TypeOK, NEW w \in Workers, Deliver(w)
    PROVE  /\ w \in Executors
           /\ pc' \in [Executors -> Steps] /\ local' \in [Executors -> Records]
           /\ pc[w] = "queued" /\ pc'[w] \in {"render", "done"}
           /\ pc'[w] = "render" => local'[w] = jobs[w.job] /\ IsOpen(jobs[w.job])
           /\ \A f \in Executors \ {w} : pc'[f] = pc[f] /\ local'[f] = local[f]
<1>. w \in Executors /\ w.job \in Jobs
  BY ExecutorFacts
<1>1. PICK found \in {jobs[w.job], Absent} :
          /\ local' = [local EXCEPT ![w] = found]
          /\ Goto(w, IF IsOpen(found) THEN "render" ELSE "done")
  BY DEF Deliver
<1>2. found \in Records /\ (IsOpen(found) => found = jobs[w.job])
  BY DEF TypeOK, Records, Absent, IsOpen
<1>3. /\ local' \in [Executors -> Records] /\ local'[w] = found
      /\ \A f \in Executors \ {w} : local'[f] = local[f]
  BY <1>1, <1>2 DEF TypeOK
<1>4. /\ pc' \in [Executors -> Steps]
      /\ pc'[w] = IF IsOpen(found) THEN "render" ELSE "done"
      /\ \A f \in Executors \ {w} : pc'[f] = pc[f]
  BY <1>1 DEF TypeOK, Goto, Steps, Executing
<1>. QED BY <1>2, <1>3, <1>4 DEF Deliver, At

-----------------------------------------------------------------------------
(* Type correctness *)

\* The type invariant holds in every reachable state, for any constants.
THEOREM TypeCorrect == Spec => []TypeOK
<1>1. Init => TypeOK
  BY ExportJobsAssumption
  DEF Init, TypeOK, DeliveryInit, Steps, Executing, Records, Absent
<1>2. TypeOK /\ [Next]_vars => TypeOK'
  <2>. SUFFICES ASSUME TypeOK, [Next]_vars PROVE TypeOK'
    OBVIOUS
  <2>. USE ExecutorFacts
  <2>1. ASSUME NEW j \in Jobs, Start(j) PROVE TypeOK'
    <3>1. CASE Post(j)
      BY <3>1 DEF TypeOK, Post, Goto, Steps, stores
    <3>2. CASE CreateRaises(j)
      BY <3>2 DEF TypeOK, CreateRaises, Goto, Steps, stores
    <3>3. CASE CreateJob(j)
      BY <3>3 DEF TypeOK, CreateJob, Goto, Steps, Executing, Records, Running
    <3>4. CASE Enqueue(j)
      BY <3>4, AcceptedEffect, StepFacts DEF TypeOK, Enqueue, stores
    <3>5. CASE EnqueueRaises(j)
      <4>1. pc' \in [Executors -> Steps]
        BY <3>5, AcceptedEffect, GotoEffect, StepFacts DEF TypeOK, EnqueueRaises
      <4>. QED BY <3>5, <4>1 DEF TypeOK, EnqueueRaises, stores
    <3>. QED BY <2>1, <3>1, <3>2, <3>3, <3>4, <3>5 DEF Start
  <2>2. ASSUME NEW j \in Jobs, Redeliver(j) PROVE TypeOK'
    BY <2>2, DuplicateEffect, StepFacts DEF TypeOK, Redeliver, stores
  <2>3. ASSUME NEW w \in Workers, Deliver(w) PROVE TypeOK'
    BY <2>3, DeliverEffect DEF TypeOK, Deliver, stores
  <2>4. ASSUME NEW e \in Executors, Execute(e) PROVE TypeOK'
    <3>. DEFINE Moves == pc' \in [Executors -> Steps] /\ local' \in [Executors -> Records]
    <3>0. Fail(e) \/ Succeed(e) => Moves
      BY ResultFacts
    <3>1. CASE Render(e)
      BY <3>1 DEF TypeOK, Render, Goto, Steps, Executing, stores
    <3>2. CASE RenderRaises(e)
      BY <3>0, <3>2 DEF TypeOK, RenderRaises, stores
    <3>3. CASE StoreDocx(e)
      <4>1. Goto(e, "convert") /\ UNCHANGED local => Moves
        BY DEF TypeOK, Goto, Steps, Executing
      <4>2. Moves
        BY <3>0, <3>3, <4>1 DEF StoreDocx
      <4>. QED BY <3>3, <4>2 DEF TypeOK, StoreDocx
    <3>4. CASE StoreDocxRaises(e)
      <4>1. Moves
        BY <3>0, <3>4 DEF StoreDocxRaises
      <4>2. docx' \in [Jobs -> Executors \cup {None}]
        BY <3>4 DEF TypeOK, StoreDocxRaises
      <4>. QED BY <3>4, <4>1, <4>2 DEF TypeOK, StoreDocxRaises
    <3>5. CASE CallConverter(e)
      BY <3>5 DEF TypeOK, CallConverter, Goto, Steps, Executing, stores
    <3>6. CASE ConvertRaises(e)
      BY <3>0, <3>6 DEF TypeOK, ConvertRaises, stores
    <3>7. CASE Save(e)
      BY <3>7 DEF TypeOK, Save, Goto, Steps, Executing
    <3>8. CASE Audit(e)
      BY <3>8 DEF TypeOK, Audit, Goto, Steps
    <3>. QED BY <2>4, <3>1, <3>2, <3>3, <3>4, <3>5, <3>6, <3>7, <3>8 DEF Execute
  <2>5. ASSUME NEW e \in Executors, Convert(e) PROVE TypeOK'
    <3>1. Succeed(e) \/ UNCHANGED <<pc, local>>
      BY <2>5 DEF Convert, ConverterWrites, ConverterDies
    <3>2. Succeed(e) => pc' \in [Executors -> Steps] /\ local' \in [Executors -> Records]
      BY ResultFacts
    <3>3. pc' \in [Executors -> Steps] /\ local' \in [Executors -> Records]
      BY <3>1, <3>2 DEF TypeOK
    <3>. QED BY <2>5, <3>3 DEF TypeOK, Convert, ConverterWrites, ConverterDies, stores
  <2>6. ASSUME NEW e \in Executors, Crash(e) PROVE TypeOK'
    BY <2>6, CrashEffect, StepFacts DEF TypeOK, Crash, stores
  <2>7. ASSUME NEW p \in Projects, DeleteRow(p) PROVE TypeOK'
    BY <2>7 DEF TypeOK, DeleteRow
  <2>8. CASE UNCHANGED vars
    BY <2>8 DEF TypeOK, vars
  <2>. QED BY <2>1, <2>2, <2>3, <2>4, <2>5, <2>6, <2>7, <2>8 DEF Next
<1>. QED BY <1>1, <1>2, PTL DEF Spec

-----------------------------------------------------------------------------
(* Kinds of steps *)

\* Every step of the system is one of the five kinds of delivery steps.
LEMMA KindsOfSteps ==
    ASSUME TypeOK, [Next]_vars PROVE DeliveryStep(Early, After)
<1>. USE ExecutorFacts DEF Early
<1>1. ASSUME NEW j \in Jobs, Start(j)
      PROVE  Advances(Request(j), Early) \/ Accepted(j, After)
  <2>1. CASE Post(j)
    BY <2>1 DEF Post, Goto, At, Advances, TypeOK
  <2>2. CASE CreateRaises(j)
    BY <2>2 DEF CreateRaises, Goto, At, Advances, TypeOK
  <2>3. CASE CreateJob(j)
    BY <2>3 DEF CreateJob, Goto, At, Advances, TypeOK
  <2>4. CASE Enqueue(j)
    BY <2>4, AcceptedEffect, StepFacts DEF Enqueue, At, Accepted, After, TypeOK
  <2>5. CASE EnqueueRaises(j)
    <3>1. CASE Goto(Request(j), "render")
      BY <2>5, <3>1 DEF EnqueueRaises, Goto, At, Advances, TypeOK
    <3>2. CASE AmbiguousEnqueue /\ GotoAccepted(j, "render")
      BY <2>5, <3>2, AcceptedEffect, StepFacts
      DEF EnqueueRaises, At, Accepted, After, TypeOK
    <3>. QED BY <2>5, <3>1, <3>2 DEF EnqueueRaises
  <2>. QED BY <1>1, <2>1, <2>2, <2>3, <2>4, <2>5 DEF Start
<1>2. ASSUME NEW j \in Jobs, Redeliver(j) PROVE \E c \in 2 .. MaxCopies : Repeated(j, c)
  <2>1. PICK c \in 2 .. MaxCopies : Duplicate(j, c)
    BY <1>2 DEF Redeliver
  <2>. QED BY <2>1, DuplicateEffect, StepFacts DEF Repeated, TypeOK
<1>3. ASSUME NEW w \in Workers, Deliver(w) PROVE Advances(w, Early)
  BY <1>3, DeliverEffect DEF Advances
<1>4. ASSUME NEW e \in Executors, Execute(e) \/ Convert(e)
      PROVE  Advances(e, Early) \/ pc' = pc
  <2>1. \/ \E from \in Executing, to \in Executing \cup {"done"} :
              At(e, from) /\ Goto(e, to)
        \/ pc' = pc
    BY <1>4 DEF Execute, Render, RenderRaises, StoreDocx, StoreDocxRaises, CallConverter,
                ConvertRaises, Save, Audit, Convert, ConverterWrites, ConverterDies,
                Fail, Succeed, Executing
  <2>. QED BY <2>1 DEF Goto, At, Advances, TypeOK, Executing
<1>5. ASSUME NEW e \in Executors, Crash(e)
      PROVE  Advances(e, Early) \/ (e \in Workers /\ Retried(e))
  <2>1. CrashAt(e, {"create", "enqueue"} \cup Executing)
    BY <1>5 DEF Crash
  <2>2. {"absent", "done", "crashed"} \cap ({"create", "enqueue"} \cup Executing) = {}
    BY DEF Executing
  <2>. QED BY <2>1, <2>2, CrashKind, StepFacts DEF TypeOK
<1>6. ASSUME NEW p \in Projects, DeleteRow(p) PROVE pc' = pc
  BY <1>6 DEF DeleteRow
<1>7. UNCHANGED vars => pc' = pc
  BY DEF vars
<1>. QED BY <1>1, <1>2, <1>3, <1>4, <1>5, <1>6, <1>7 DEF Next, DeliveryStep

\* No event is out before its request tried to enqueue it, and attempts follow
\* crashes.
LEMMA DeliveryInvariant == Spec => []DeliveryInv(Early)
<1>1. Init => DeliveryInv(Early)
  BY DeliveryInvInit DEF Init
<1>2. TypeOK /\ DeliveryInv(Early) /\ [Next]_vars => DeliveryInv(Early)'
  BY KindsOfSteps, StepFacts, DeliveryInvStep
<1>. QED BY <1>1, <1>2, TypeCorrect, PTL DEF Spec

\* A job is created, something is rendered, converted or saved, or the step is
\* quiet.
LEMMA StepKinds ==
    ASSUME TypeOK, [Next]_vars
    PROVE  \/ Quiet
           \/ \E j \in Jobs : CreateJob(j)
           \/ \E e \in Executors : Works(e)
<1>. USE ExecutorFacts
<1>1. ASSUME NEW j \in Jobs, Start(j), ~CreateJob(j) PROVE Quiet
  <2>1. UNCHANGED <<jobs, docx, pdf, converting, audits, local>>
    BY <1>1 DEF Start, Post, CreateRaises, Enqueue, EnqueueRaises, stores
  <2>2. CASE Post(j)
    BY <2>1, <2>2 DEF Post, Goto, At, Quiet, Rests, TypeOK
  <2>3. CASE CreateRaises(j)
    BY <2>1, <2>3 DEF CreateRaises, Goto, At, Quiet, Rests, TypeOK
  <2>4. CASE Enqueue(j) \/ EnqueueRaises(j)
    <3>1. pc[Request(j)] = "enqueue"
      BY <2>4 DEF Enqueue, EnqueueRaises, At
    <3>2. PICK step \in {"render", "done"} :
              Goto(Request(j), step) \/ GotoAccepted(j, step)
      BY <2>4 DEF Enqueue, EnqueueRaises
    <3>. step \in Steps /\ Request(j) \in Executors
      BY StepFacts
    <3>3. Goto(Request(j), step) =>
              pc'[Request(j)] = step /\ \A f \in Executors \ {Request(j)} : pc'[f] = pc[f]
      BY ZenonT(40), GotoEffect DEF TypeOK
    <3>4. GotoAccepted(j, step) =>
              /\ pc'[Request(j)] = step /\ pc'[Attempt(j, 1, 1)] = "queued"
              /\ \A f \in Executors \ {Request(j), Attempt(j, 1, 1)} : pc'[f] = pc[f]
      BY AcceptedEffect, StepFacts DEF TypeOK
    <3>5. pc'[Request(j)] = step
      BY <3>2, <3>3, <3>4
    <3>. QED BY <2>1, <3>1, <3>2, <3>3, <3>4, <3>5 DEF Quiet, Rests
  <2>. QED BY <1>1, <2>2, <2>3, <2>4 DEF Start
<1>2. ASSUME NEW j \in Jobs, Redeliver(j) PROVE Quiet
  BY <1>2, DuplicateEffect, StepFacts DEF Redeliver, Quiet, Rests, TypeOK, stores
<1>3. ASSUME NEW w \in Workers, Deliver(w) PROVE Quiet
  BY <1>3, DeliverEffect DEF Deliver, Quiet, Rests, stores
<1>4. ASSUME NEW e \in Executors, Execute(e) PROVE Works(e)
  <2>. USE DEF Works, Work, Executing
  <2>1. Fail(e) \/ Succeed(e) => \A f \in Executors \ {e} : Rests(f)
    BY ResultFacts DEF Rests
  <2>2. (Fail(e) => Fails(e)) /\ (Succeed(e) => Succeeds(e))
    BY ResultFacts DEF Fails, Succeeds
  <2>3. Fails(e) \/ Succeeds(e) => pc'[e] = "save"
    BY DEF Fails, Succeeds
  <2>4. CASE Render(e)
    BY <2>4 DEF Render, At, Goto, stores, Rests, TypeOK
  <2>5. CASE RenderRaises(e)
    BY <2>1, <2>2, <2>3, <2>5 DEF RenderRaises, At, stores
  <2>6. CASE StoreDocx(e)
    <3>1. /\ docx'[e.job] = e /\ \A j \in Jobs \ {e.job} : docx'[j] = docx[j]
          /\ UNCHANGED <<jobs, pdf, converting>> /\ pc[e] = "store"
      BY <2>6 DEF StoreDocx, At, TypeOK
    <3>2. CASE PdfConverter
      BY <2>6, <3>1, <3>2 DEF StoreDocx, Goto, Rests, TypeOK
    <3>3. CASE ~PdfConverter
      BY <2>1, <2>2, <2>3, <2>6, <3>1, <3>3 DEF StoreDocx
    <3>. QED BY <3>2, <3>3
  <2>7. CASE StoreDocxRaises(e)
    <3>1. /\ docx'[e.job] \in {docx[e.job], e}
          /\ \A j \in Jobs \ {e.job} : docx'[j] = docx[j]
      BY <2>7 DEF StoreDocxRaises, TypeOK
    <3>. QED BY <2>1, <2>2, <2>3, <2>7, <3>1 DEF StoreDocxRaises, At
  <2>8. CASE CallConverter(e)
    BY <2>8 DEF CallConverter, At, Goto, stores, Rests, TypeOK
  <2>9. CASE ConvertRaises(e)
    BY <2>1, <2>2, <2>3, <2>9 DEF ConvertRaises, At, stores
  <2>10. CASE Save(e)
    BY <2>10 DEF Save, At, Goto, Rests, TypeOK
  <2>11. CASE Audit(e)
    BY <2>11 DEF Audit, At, Goto, Rests, TypeOK
  <2>. QED BY <1>4, <2>4, <2>5, <2>6, <2>7, <2>8, <2>9, <2>10, <2>11 DEF Execute
<1>5. ASSUME NEW e \in Executors, Convert(e) PROVE Works(e)
  <2>. USE DEF Works, Work, Executing
  <2>1. CASE ConverterWrites(e)
    <3>1. /\ converting[e] # None /\ converting'[e] = None
          /\ pdf'[e.job] = converting[e] /\ UNCHANGED <<jobs, docx>>
          /\ \A j \in Jobs \ {e.job} : pdf'[j] = pdf[j]
          /\ \A f \in Executors \ {e} : converting'[f] = converting[f]
      BY <2>1 DEF ConverterWrites, TypeOK
    <3>2. CASE pc[e] = "wait"
      <4>1. Succeeds(e) /\ pc'[e] = "save" /\ \A f \in Executors \ {e} : Rests(f)
        BY <2>1, <3>2, ResultFacts DEF ConverterWrites, At, Rests, Succeeds
      <4>. QED BY <2>1, <3>1, <3>2, <4>1 DEF ConverterWrites, At
    <3>3. CASE pc[e] # "wait"
      BY <2>1, <3>1, <3>3 DEF ConverterWrites, At, Rests
    <3>. QED BY <3>2, <3>3
  <2>2. CASE ConverterDies(e)
    BY <2>2 DEF ConverterDies, stores, Rests, TypeOK
  <2>. QED BY <1>5, <2>1, <2>2 DEF Convert
<1>6. ASSUME NEW e \in Executors, Crash(e) PROVE Quiet
  BY <1>6, CrashEffect, StepFacts DEF Crash, Quiet, Rests, TypeOK, stores
<1>7. ASSUME NEW p \in Projects, DeleteRow(p) PROVE Quiet
  BY <1>7 DEF DeleteRow, Quiet, Rests
<1>8. UNCHANGED vars => Quiet
  BY DEF vars, Quiet, Rests
<1>. QED BY <1>1, <1>2, <1>3, <1>4, <1>5, <1>6, <1>7, <1>8 DEF Next

-----------------------------------------------------------------------------
(* Any delivery: the life of a job *)

\* The initial states of the program are initial states of its promise.
LEMMA LifecycleInit == Init => LifecycleInv /\ Lifecycle!Init
<1>. USE ExecutorFacts
<1>1. Init => NothingBeforeCreate
  BY DEF Init, NothingBeforeCreate, DeliveryInit
<1>2. Init => RecordShape /\ Lifecycle!Init
  BY DEF Init, RecordShape, Lifecycle!Init, Absent, Lifecycle!Absent
<1>3. Init => ExecutorHasJob /\ HoldsResult
  BY DEF Init, ExecutorHasJob, HoldsResult, DeliveryInit, Executing
<1>. QED BY <1>1, <1>2, <1>3 DEF LifecycleInv

\* Only the creating request and a saving executor touch a job record.
LEMMA JobsChange ==
    ASSUME TypeOK, LifecycleInv, [Next]_vars
    PROVE  \/ jobs' = jobs
           \/ \E j \in Jobs : CreateJob(j) /\ jobs[j] = Absent
                              /\ jobs' = [jobs EXCEPT ![j] = Running]
           \/ \E e \in Executors : /\ Works(e) /\ pc[e] = "save"
                                   /\ jobs[e.job].status # "absent"
                                   /\ local[e] \in Lifecycle!Results
                                   /\ jobs' = [jobs EXCEPT ![e.job] = local[e]]
<1>. USE ExecutorFacts DEF LifecycleInv
<1>1. ASSUME NEW j \in Jobs, CreateJob(j)
      PROVE  jobs[j] = Absent /\ jobs' = [jobs EXCEPT ![j] = Running]
  BY <1>1 DEF CreateJob, At, NothingBeforeCreate
<1>2. ASSUME NEW e \in Executors, Works(e), jobs' # jobs
      PROVE  /\ pc[e] = "save"
             /\ jobs[e.job].status # "absent"
             /\ local[e] \in Lifecycle!Results
             /\ jobs' = [jobs EXCEPT ![e.job] = local[e]]
  <2>1. pc[e] = "save" /\ jobs' = [jobs EXCEPT ![e.job] = local[e]]
    BY <1>2 DEF Works, Work
  <2>. QED BY <2>1 DEF ExecutorHasJob, HoldsResult, Executing
<1>. QED BY <1>1, <1>2, StepKinds DEF Quiet

\* The invariant behind the life of a job record is inductive.
LEMMA LifecycleInvStep == TypeOK /\ LifecycleInv /\ [Next]_vars => LifecycleInv'
<1>. SUFFICES ASSUME TypeOK, LifecycleInv, [Next]_vars PROVE LifecycleInv'
  OBVIOUS
<1>. USE ExecutorFacts DEF LifecycleInv
<1>1. CASE Quiet
  <2>1. NothingBeforeCreate'
    BY <1>1 DEF Quiet, Rests, NothingBeforeCreate
  <2>2. ExecutorHasJob'
    BY <1>1 DEF Quiet, Rests, ExecutorHasJob, IsOpen, Executing
  <2>3. RecordShape' /\ HoldsResult'
    BY <1>1 DEF Quiet, Rests, RecordShape, HoldsResult
  <2>. QED BY <2>1, <2>2, <2>3
<1>2. ASSUME NEW j \in Jobs, CreateJob(j) PROVE LifecycleInv'
  <2>1. /\ pc'[Request(j)] \in {"enqueue", "render"}
        /\ \A f \in Executors \ {Request(j)} : Rests(f)
    BY <1>2 DEF CreateJob, Goto, Rests, TypeOK
  <2>2. jobs'[j] = Running /\ \A i \in Jobs \ {j} : jobs'[i] = jobs[i]
    BY <1>2 DEF CreateJob, TypeOK
  <2>3. NothingBeforeCreate'
    BY <2>1, <2>2 DEF NothingBeforeCreate, Rests
  <2>4. ExecutorHasJob'
    BY <2>1, <2>2 DEF ExecutorHasJob, Rests, Running
  <2>5. RecordShape' /\ HoldsResult'
    BY <2>1, <2>2 DEF RecordShape, HoldsResult, Rests
  <2>. QED BY <2>3, <2>4, <2>5
<1>3. ASSUME NEW e \in Executors, Works(e) PROVE LifecycleInv'
  <2>1. \A i \in Jobs : \/ jobs'[i] = jobs[i]
                        \/ i = e.job /\ pc[e] = "save" /\ jobs'[i] = local[e]
    BY <1>3 DEF Works, Work, TypeOK
  <2>2. pc[e] = "save" => local[e] \in Lifecycle!Results
    BY DEF HoldsResult
  <2>3. RecordShape'
    BY <2>1, <2>2 DEF RecordShape
  <2>4. NothingBeforeCreate'
    <3>1. \A f \in Executors : pc'[f] \in {"idle", "create"} => pc'[f] = pc[f]
      BY <1>3 DEF Works, Rests
    <3>2. pc[e] = "save" => pc[Request(e.job)] \notin {"idle", "create"}
      BY DEF ExecutorHasJob, NothingBeforeCreate, Absent, Executing
    <3>. QED BY <2>1, <3>1, <3>2 DEF NothingBeforeCreate
  <2>5. ExecutorHasJob'
    <3>1. \A i \in Jobs : jobs[i].status # "absent" => jobs'[i].status # "absent"
      BY <2>1, <2>2 DEF Lifecycle!Results
    <3>2. \A f \in Executors : pc'[f] # pc[f] => pc[f] \in Executing
      BY <1>3 DEF Works, Rests
    <3>. QED BY <3>1, <3>2 DEF ExecutorHasJob
  <2>6. HoldsResult'
    <3>1. \A f \in Executors : pc'[f] = "save" => Rests(f) \/ local'[f] \in Lifecycle!Results
      BY <1>3 DEF Works, Work, Fails, Succeeds, Lifecycle!Results
    <3>. QED BY <3>1 DEF HoldsResult, Rests
  <2>. QED BY <2>3, <2>4, <2>5, <2>6
<1>. QED BY <1>1, <1>2, <1>3, StepKinds

\* However events are delivered and answers lost, a finished job is never
\* RUNNING again: export jobs implement the at-least-once promise.
THEOREM ExportsAreAtLeastOnce == Spec => LifecycleAtLeastOnce
<1>1. TypeOK /\ LifecycleInv /\ [Next]_vars => [Lifecycle!AtLeastOnceNext]_jobs
  <2>. SUFFICES ASSUME TypeOK, LifecycleInv, [Next]_vars, jobs' # jobs
                PROVE  Lifecycle!AtLeastOnceNext
    OBVIOUS
  <2>1. CASE \E j \in Jobs : jobs[j] = Absent /\ jobs' = [jobs EXCEPT ![j] = Running]
    BY <2>1 DEF Lifecycle!AtLeastOnceNext, Lifecycle!Submit, Absent, Lifecycle!Absent,
                Running, Lifecycle!Running
  <2>2. ASSUME NEW e \in Executors, jobs[e.job].status # "absent",
               local[e] \in Lifecycle!Results, jobs' = [jobs EXCEPT ![e.job] = local[e]]
        PROVE  Lifecycle!AtLeastOnceNext
    <3>. e.job \in Jobs
      BY ExecutorFacts
    <3>1. CASE jobs[e.job] = Running
      BY <2>2, <3>1
      DEF Lifecycle!AtLeastOnceNext, Lifecycle!Complete, Running, Lifecycle!Running
    <3>2. CASE jobs[e.job] \in Lifecycle!Results
      <4>1. jobs[e.job].status \in Lifecycle!Terminal
        BY <3>2 DEF Lifecycle!Results, Lifecycle!Terminal
      <4>. QED BY <2>2, <4>1 DEF Lifecycle!AtLeastOnceNext, Lifecycle!Replace
    <3>3. jobs[e.job] # Absent
      BY <2>2 DEF Absent
    <3>. QED BY <3>1, <3>2, <3>3 DEF LifecycleInv, RecordShape
  <2>. QED BY <2>1, <2>2, JobsChange
<1>. QED BY <1>1, LifecycleInit, LifecycleInvStep, TypeCorrect, PTL
         DEF Spec, LifecycleAtLeastOnce, Lifecycle!AtLeastOnceSpec

-----------------------------------------------------------------------------
(* Any delivery: the documents of a success *)

\* Documents are overwritten, but never removed.
LEMMA CompleteInvStep == TypeOK /\ CompleteInv /\ [Next]_vars => CompleteInv'
<1>. SUFFICES ASSUME TypeOK, CompleteInv, [Next]_vars PROVE CompleteInv'
  OBVIOUS
<1>. USE ExecutorFacts DEF CompleteInv
<1>1. CASE Quiet
  BY <1>1 DEF Quiet, Rests, DocxBeforeConversion, SavedIsComplete, NeverDocxOnly
<1>2. ASSUME NEW j \in Jobs, CreateJob(j) PROVE CompleteInv'
  <2>1. /\ pc'[Request(j)] \in {"enqueue", "render"} /\ UNCHANGED <<docx, pdf>>
        /\ \A f \in Executors \ {Request(j)} : Rests(f)
    BY <1>2 DEF CreateJob, Goto, Rests, TypeOK
  <2>2. jobs'[j] = Running /\ \A i \in Jobs \ {j} : jobs'[i] = jobs[i]
    BY <1>2 DEF CreateJob, TypeOK
  <2>3. DocxBeforeConversion' /\ SavedIsComplete'
    BY <2>1 DEF DocxBeforeConversion, SavedIsComplete, Rests
  <2>4. NeverDocxOnly'
    BY <2>1, <2>2 DEF NeverDocxOnly, Running
  <2>. QED BY <2>3, <2>4
<1>3. ASSUME NEW e \in Executors, Works(e) PROVE CompleteInv'
  <2>1. e # None /\ e.job \in Jobs
    BY ExportJobsAssumption
  <2>2. \A i \in Jobs : /\ docx[i] # None => docx'[i] # None
                        /\ pdf[i] # None => pdf'[i] # None
    <3>1. docx[e.job] # None => docx'[e.job] # None
      BY <1>3, <2>1 DEF Works
    <3>2. pdf[e.job] # None => pdf'[e.job] # None
      BY <1>3 DEF Works, Work
    <3>. QED BY <1>3, <3>1, <3>2 DEF Works
  <2>3. \A f \in Executors \ {e} : Rests(f)
    BY <1>3 DEF Works
  <2>4. pc'[e] \in {"convert", "wait"} => Rests(e) \/ docx'[e.job] # None
    BY <1>3, <2>1 DEF Works, Work, Fails, Succeeds, DocxBeforeConversion
  <2>5. pc'[e] = "save" /\ local'[e].status = "SUCCEEDED" =>
            \/ Rests(e)
            \/ docx'[e.job] # None /\ (PdfConverter => pdf'[e.job] # None)
    BY <1>3, <2>1 DEF Works, Work, Fails, Succeeds, DocxBeforeConversion
  <2>6. DocxBeforeConversion'
    BY <2>2, <2>3, <2>4 DEF DocxBeforeConversion, Rests
  <2>7. SavedIsComplete'
    BY <2>2, <2>3, <2>5 DEF SavedIsComplete, Rests
  <2>8. NeverDocxOnly'
    <3>1. \A i \in Jobs :
             \/ jobs'[i] = jobs[i]
             \/ i = e.job /\ jobs'[i] = local[e] /\ pc[e] = "save" /\ UNCHANGED <<docx, pdf>>
      BY <1>3 DEF Works, Work, TypeOK
    <3>. QED BY <2>2, <3>1 DEF NeverDocxOnly, SavedIsComplete
  <2>. QED BY <2>6, <2>7, <2>8
<1>. QED BY <1>1, <1>2, <1>3, StepKinds

\* However events are delivered, and whoever stores, converts and fails on the
\* job: once it shows SUCCEEDED there is a DOCX, and a PDF with a converter.
THEOREM ExportsAreNeverDocxOnly == Spec => []NeverDocxOnly
<1>1. Init => CompleteInv
  BY ExecutorFacts DEF Init, DeliveryInit, Absent, CompleteInv, DocxBeforeConversion,
                       SavedIsComplete, NeverDocxOnly
<1>2. CompleteInv => NeverDocxOnly
  BY DEF CompleteInv
<1>. QED BY <1>1, <1>2, CompleteInvStep, TypeCorrect, PTL DEF Spec

-----------------------------------------------------------------------------
(* A single delivery: one executor at a time *)

SingleInv ==
    TypeOK /\ DeliveryInv(Early) /\ ChainInv /\ LifecycleInv /\ FinishedIsLeftAlone

\* Who creates a job is alone with it, and so is who works on it.
LEMMA Alone ==
    ASSUME SingleDelivery, SingleInv, NEW e \in Executors, NEW f \in Executors,
           f # e, f.job = e.job
    PROVE  /\ pc[e] \in {"render", "store", "convert", "wait", "save", "audit"} =>
                  pc[f] \in {"idle", "absent", "done", "crashed"}
           /\ e = Request(e.job) /\ pc[e] = "create" => pc[f] = "absent"
  <1>1. pc[e] \in {"render", "store", "convert", "wait", "save", "audit"} =>
            pc[f] \in {"idle", "absent", "done", "crashed"}
    BY OneAtATime, StepFacts DEF SingleInv
  <1>2. e = Request(e.job) => f \in Workers
    BY ExecutorFacts
  <1>. QED BY <1>1, <1>2, ExecutorFacts
           DEF SingleInv, DeliveryInv, NoEventBeforeEnqueue, Early

\* The save that finishes a job is the last one of the only executor at work.
LEMMA FinishedIsLeftAloneStep ==
    ASSUME SingleDelivery, SingleInv, [Next]_vars PROVE FinishedIsLeftAlone'
<1>. USE ExecutorFacts
<1>. DEFINE Open == {"create", "enqueue", "render", "store", "convert", "wait", "save"}
<1>. SUFFICES ASSUME NEW f \in Executors, jobs'[f.job].status \in Terminal
              PROVE  pc'[f] \notin Open
  BY DEF FinishedIsLeftAlone
<1>0. jobs[f.job].status \in Terminal => pc[f] \notin Open
  BY DEF SingleInv, FinishedIsLeftAlone
<1>1. CASE Quiet
  <2>1. pc[f] = "idle" /\ f = Request(f.job) => jobs[f.job].status \notin Terminal
    BY DEF SingleInv, LifecycleInv, NothingBeforeCreate, Absent, Terminal
  <2>. QED BY <1>0, <1>1, <2>1 DEF Quiet, Rests, IsOpen
<1>2. ASSUME NEW j \in Jobs, CreateJob(j) PROVE pc'[f] \notin Open
  <2>1. jobs'[j] = Running /\ \A i \in Jobs \ {j} : jobs'[i] = jobs[i]
    BY <1>2 DEF CreateJob, SingleInv, TypeOK
  <2>2. f.job # j
    BY <2>1 DEF Running, Terminal
  <2>3. pc'[f] = pc[f] /\ jobs'[f.job] = jobs[f.job]
    BY <1>2, <2>1, <2>2 DEF CreateJob, Goto, SingleInv, TypeOK
  <2>. QED BY <1>0, <2>3
<1>3. ASSUME NEW e \in Executors, Works(e) PROVE pc'[f] \notin Open
  <2>1. CASE jobs'[f.job] = jobs[f.job]
    <3>1. CASE f = e
      BY <1>0, <1>3, <2>1, <3>1 DEF Works, Work, Rests, Fails, Succeeds
    <3>2. CASE f # e
      BY <1>0, <1>3, <2>1, <3>2 DEF Works, Rests
    <3>. QED BY <3>1, <3>2
  <2>2. CASE jobs'[f.job] # jobs[f.job]
    <3>1. pc[e] = "save" /\ pc'[e] = "audit" /\ f.job = e.job
      BY <1>3, <2>2 DEF Works, Work, SingleInv, TypeOK
    <3>2. f # e => pc[f] \in {"idle", "absent", "done", "crashed"}
      BY <3>1, Alone
    <3>. QED BY <1>3, <3>1, <3>2 DEF Works, Rests
  <2>. QED BY <2>1, <2>2
<1>. QED BY <1>1, <1>2, <1>3, StepKinds DEF SingleInv

\* What every reachable state of a single delivery satisfies.
LEMMA SingleInvHolds == ASSUME SingleDelivery PROVE Spec => []SingleInv
<1>1. Init => ChainInv /\ FinishedIsLeftAlone
  BY ChainInvInit, ExecutorFacts DEF Init, FinishedIsLeftAlone, Absent, Terminal
<1>2. TypeOK /\ DeliveryInv(Early) /\ ChainInv /\ [Next]_vars => ChainInv'
  BY ChainInvStep, KindsOfSteps, StepFacts
<1>3. SingleInv /\ [Next]_vars => FinishedIsLeftAlone'
  BY FinishedIsLeftAloneStep
<1>. QED BY <1>1, <1>2, <1>3, LifecycleInit, LifecycleInvStep, TypeCorrect,
            DeliveryInvariant, PTL DEF Spec, SingleInv

\* With a single delivery the first result of a job is final, however many
\* attempts died before it: export jobs implement the promise to the client.
THEOREM FirstResultIsFinal == ASSUME SingleDelivery PROVE Spec => LifecycleFinal
<1>1. SingleInv /\ [Next]_vars => [Lifecycle!Next]_jobs
  <2>. SUFFICES ASSUME SingleInv, [Next]_vars, jobs' # jobs PROVE Lifecycle!Next
    OBVIOUS
  <2>1. CASE \E j \in Jobs : jobs[j] = Absent /\ jobs' = [jobs EXCEPT ![j] = Running]
    BY <2>1 DEF Lifecycle!Next, Lifecycle!Submit, Absent, Lifecycle!Absent,
                Running, Lifecycle!Running
  <2>2. ASSUME NEW e \in Executors, pc[e] = "save", jobs[e.job].status # "absent",
               local[e] \in Lifecycle!Results, jobs' = [jobs EXCEPT ![e.job] = local[e]]
        PROVE  Lifecycle!Next
    <3>. e.job \in Jobs
      BY ExecutorFacts
    <3>1. jobs[e.job].status \notin Terminal /\ jobs[e.job] # Absent
      BY <2>2 DEF SingleInv, FinishedIsLeftAlone, Absent
    <3>2. jobs[e.job] = Running
      BY <3>1 DEF SingleInv, LifecycleInv, RecordShape, Lifecycle!Results, Terminal
    <3>. QED BY <2>2, <3>2 DEF Lifecycle!Next, Lifecycle!Complete, Running, Lifecycle!Running
  <2>. QED BY <2>1, <2>2, JobsChange DEF SingleInv
<1>. QED BY <1>1, LifecycleInit, SingleInvHolds, PTL
         DEF Spec, LifecycleFinal, Lifecycle!Spec

-----------------------------------------------------------------------------
(* A single delivery: the document a job describes *)

\* Nobody stores a document between an executor's own and its save.
LEMMA DocumentInvStep ==
    ASSUME SingleDelivery, SingleInv, DocumentInv, [Next]_vars PROVE DocumentInv'
<1>. USE ExecutorFacts DEF DocumentInv
<1>1. CASE Quiet
  BY <1>1 DEF Quiet, Rests, HoldsOwnDocument, DocumentMatchesJob
<1>2. ASSUME NEW j \in Jobs, CreateJob(j) PROVE DocumentInv'
  <2>1. /\ pc'[Request(j)] \in {"enqueue", "render"} /\ docx' = docx
        /\ \A f \in Executors \ {Request(j)} : Rests(f)
    BY <1>2 DEF CreateJob, Goto, Rests, SingleInv, TypeOK
  <2>2. jobs'[j] = Running /\ \A i \in Jobs \ {j} : jobs'[i] = jobs[i]
    BY <1>2 DEF CreateJob, SingleInv, TypeOK
  <2>. QED BY <2>1, <2>2 DEF HoldsOwnDocument, DocumentMatchesJob, Rests, Running
<1>3. ASSUME NEW e \in Executors, Works(e) PROVE DocumentInv'
  <2>1. \A i \in Jobs : docx'[i] = docx[i] \/ (i = e.job /\ pc[e] = "store")
    BY <1>3 DEF Works, Work
  <2>2. HoldsOwnDocument'
    <3>. SUFFICES ASSUME NEW f \in Executors
                  PROVE  /\ pc'[f] \in {"convert", "wait"} => docx'[f.job] = f
                         /\ pc'[f] = "save" /\ local'[f].status = "SUCCEEDED" =>
                                local'[f].output = f /\ docx'[f.job] = f
      BY DEF HoldsOwnDocument
    <3>1. CASE f = e
      BY <1>3, <3>1 DEF Works, Work, Rests, Fails, Succeeds, HoldsOwnDocument
    <3>2. CASE f # e
      <4>1. pc[f] \in {"convert", "wait", "save"} => docx'[f.job] = docx[f.job]
        BY <2>1, <3>2, Alone
      <4>. QED BY <1>3, <3>2, <4>1 DEF Works, Rests, HoldsOwnDocument
    <3>. QED BY <3>1, <3>2
  <2>3. DocumentMatchesJob'
    <3>. SUFFICES ASSUME NEW i \in Jobs, jobs'[i].status = "SUCCEEDED"
                  PROVE  docx'[i] = jobs'[i].output
      BY DEF DocumentMatchesJob
    <3>1. \/ jobs'[i] = jobs[i]
          \/ i = e.job /\ jobs'[i] = local[e] /\ pc[e] = "save" /\ docx' = docx
      BY <1>3 DEF Works, Work, SingleInv, TypeOK
    <3>2. jobs[i].status = "SUCCEEDED" => ~(i = e.job /\ pc[e] = "store")
      BY DEF SingleInv, FinishedIsLeftAlone, Terminal
    <3>. QED BY <2>1, <3>1, <3>2 DEF DocumentMatchesJob, HoldsOwnDocument
  <2>. QED BY <2>2, <2>3
<1>. QED BY <1>1, <1>2, <1>3, StepKinds DEF SingleInv

\* At first there are no documents and no results.
LEMMA DocumentInvInit == Init => DocumentInv
  BY ExecutorFacts DEF Init, DeliveryInit, Absent, DocumentInv, HoldsOwnDocument,
                       DocumentMatchesJob

\* With a single delivery, findings and provenance of a SUCCEEDED job are those
\* of the document under its key, whatever earlier attempts stored there.
THEOREM DocumentsMatchJobs == ASSUME SingleDelivery PROVE Spec => []DocumentMatchesJob
<1>1. SingleInv /\ DocumentInv /\ [Next]_vars => DocumentInv'
  BY DocumentInvStep
<1>2. DocumentInv => DocumentMatchesJob
  BY DEF DocumentInv
<1>. QED BY <1>1, <1>2, DocumentInvInit, SingleInvHolds, PTL DEF Spec

-----------------------------------------------------------------------------
(* A single delivery: the PDF of a job *)

\* A PDF stays fit as long as nobody writes the documents of its job.
LEMMA FitnessLasts ==
    ASSUME SingleInv, [Next]_vars, NEW j \in Jobs, PdfIsFit(j),
           docx'[j] = docx[j], pdf'[j] = pdf[j]
    PROVE  PdfIsFit(j)'
  <1>1. pdf[j] \in Executors
    BY DEF SingleInv, TypeOK, PdfIsFit
  <1>2. pc[pdf[j]] = "crashed" => pc'[pdf[j]] = "crashed"
    BY <1>1, EndIsFinal, KindsOfSteps, StepFacts DEF SingleInv
  <1>. QED BY <1>2 DEF PdfIsFit

\* The converter is at work for its caller, or for one that went on without it.
LEMMA ConvertsOwnDocumentStep ==
    ASSUME SingleDelivery, SingleInv, DocumentInv, PdfInv, [Next]_vars
    PROVE  ConvertsOwnDocument'
<1>. USE ExecutorFacts
<1>. DEFINE Owns(f) == /\ converting[f] = f
                       /\ pc[f] \in {"wait", "save", "audit", "done", "crashed"}
                       /\ pc[f] = "save" => local[f].status = "FAILED"
                       /\ pc[f] \in {"audit", "done"} => jobs[f.job].status = "FAILED"
<1>. SUFFICES ASSUME NEW f \in Executors, converting'[f] # None PROVE Owns(f)'
  BY DEF ConvertsOwnDocument
<1>0. converting[f] # None => Owns(f)
  BY DEF PdfInv, ConvertsOwnDocument
<1>1. CASE Quiet
  <2>1. converting'[f] = converting[f] /\ jobs' = jobs /\ Owns(f)
    BY <1>0, <1>1 DEF Quiet
  <2>2. pc'[f] \notin {"queued", "absent"} \/ pc'[f] = pc[f]
    BY <2>1, WorkGoesOn, KindsOfSteps, StepFacts DEF SingleInv, Advances
  <2>. QED BY <1>1, <2>1, <2>2 DEF Quiet, Rests
<1>2. ASSUME NEW j \in Jobs, CreateJob(j) PROVE Owns(f)'
  <2>1. converting'[f] = converting[f] /\ pc[Request(j)] = "create"
    BY <1>2 DEF CreateJob, At
  <2>2. Owns(f) /\ f # Request(j)
    BY <1>0, <2>1
  <2>3. f.job # j
    BY <2>1, <2>2, Alone
  <2>4. Rests(f) /\ jobs'[f.job] = jobs[f.job]
    BY <1>2, <2>2, <2>3 DEF CreateJob, Goto, Rests, SingleInv, TypeOK
  <2>. QED BY <2>1, <2>2, <2>4 DEF Rests
<1>3. ASSUME NEW e \in Executors, Works(e) PROVE Owns(f)'
  <2>1. CASE f = e
    <3>1. pc[e] = "convert" => docx[e.job] = e
      BY DEF DocumentInv, HoldsOwnDocument
    <3>2. pc[e] = "save" => jobs' = [jobs EXCEPT ![e.job] = local[e]] \/ jobs' = jobs
      BY <1>3 DEF Works, Work
    <3>3. jobs'[e.job] = jobs[e.job] \/ (jobs'[e.job] = local[e] /\ pc[e] = "save")
      BY <1>3, <3>2 DEF Works, Work, SingleInv, TypeOK
    <3>4. pc[e] = "save" /\ pc'[e] = "audit" => jobs'[e.job] = local[e]
      BY <1>3 DEF Works, Work, Fails, Succeeds, Rests, SingleInv, TypeOK
    <3>. QED BY <1>0, <1>3, <2>1, <3>1, <3>3, <3>4 DEF Works, Work, Fails, Succeeds, Rests
  <2>2. CASE f # e
    <3>1. Rests(f) /\ converting'[f] = converting[f] /\ Owns(f)
      BY <1>0, <1>3, <2>2 DEF Works
    <3>2. jobs'[f.job] = jobs[f.job] \/ (f.job = e.job /\ pc[e] = "save")
      BY <1>3 DEF Works, Work, SingleInv, TypeOK
    <3>3. f.job = e.job /\ pc[e] = "save" => pc[f] \notin {"audit", "done"}
      <4>. SUFFICES ASSUME f.job = e.job, pc[e] = "save", pc[f] \in {"audit", "done"}
                    PROVE  FALSE
        OBVIOUS
      <4>1. jobs[e.job].status \in Terminal
        BY <3>1 DEF Terminal
      <4>. QED BY <4>1 DEF SingleInv, FinishedIsLeftAlone
    <3>. QED BY <3>1, <3>2, <3>3 DEF Rests
  <2>. QED BY <2>1, <2>2
<1>. QED BY <1>1, <1>2, <1>3, StepKinds DEF SingleInv

\* While its executor saves a success, a PDF arrives late only from a dead one.
LEMMA SavedPdfIsFitStep ==
    ASSUME SingleDelivery, SingleInv, DocumentInv, PdfInv, [Next]_vars
    PROVE  SavedPdfIsFit'
<1>. USE ExecutorFacts
<1>. SUFFICES ASSUME NEW f \in Executors, PdfConverter,
                     pc'[f] = "save", local'[f].status = "SUCCEEDED"
              PROVE  PdfIsFit(f.job)'
  BY DEF SavedPdfIsFit
<1>0. Rests(f) => PdfIsFit(f.job)
  BY DEF PdfInv, SavedPdfIsFit, Rests
<1>1. CASE Quiet
  BY <1>0, <1>1, FitnessLasts DEF Quiet
<1>2. ASSUME NEW j \in Jobs, CreateJob(j) PROVE PdfIsFit(f.job)'
  <2>1. Rests(f) /\ docx' = docx /\ pdf' = pdf
    BY <1>2 DEF CreateJob, Goto, Rests, SingleInv, TypeOK
  <2>. QED BY <1>0, <2>1, FitnessLasts
<1>3. ASSUME NEW e \in Executors, Works(e) PROVE PdfIsFit(f.job)'
  <2>0. converting[e] # None =>
            /\ converting[e] = e
            /\ pc[e] = "save" => local[e].status = "FAILED"
            /\ pc[e] \in {"wait", "save", "audit", "done", "crashed"}
            /\ pc[e] \in {"audit", "done"} => jobs[e.job].status = "FAILED"
    BY DEF PdfInv, ConvertsOwnDocument
  <2>1. CASE f = e
    <3>1. CASE Rests(e)
      <4>1. pdf' = pdf /\ docx' = docx
        BY <1>3, <2>0, <2>1, <3>1 DEF Works, Work, Rests, Fails, Succeeds
      <4>. QED BY <1>0, <2>1, <3>1, <4>1, FitnessLasts
    <3>2. CASE ~Rests(e)
      <4>1. pc[e] = "wait" /\ pdf'[e.job] = e /\ docx' = docx
        BY <1>3, <2>0, <2>1, <3>2 DEF Works, Work, Fails
      <4>2. docx[e.job] = e /\ e # None
        BY <4>1, ExportJobsAssumption DEF DocumentInv, HoldsOwnDocument
      <4>. QED BY <2>1, <4>1, <4>2 DEF PdfIsFit
    <3>. QED BY <3>1, <3>2
  <2>2. CASE f # e
    <3>1. Rests(f) /\ PdfIsFit(f.job)
      BY <1>0, <1>3, <2>2 DEF Works
    <3>2. CASE f.job # e.job
      <4>1. docx'[f.job] = docx[f.job] /\ pdf'[f.job] = pdf[f.job]
        BY <1>3, <3>2 DEF Works
      <4>. QED BY <3>1, <4>1, FitnessLasts
    <3>3. CASE f.job = e.job
      <4>1. pc[f] = "save" /\ jobs[f.job].status \notin Terminal
        BY <3>1 DEF SingleInv, FinishedIsLeftAlone, Rests
      <4>2. pc[e] \in {"idle", "absent", "done", "crashed"}
        BY <2>2, <3>3, <4>1, Alone
      <4>3. CASE pdf' = pdf
        <5>1. docx' = docx
          BY <1>3, <4>2 DEF Works, Work
        <5>. QED BY <3>1, <4>3, <5>1, FitnessLasts
      <4>4. CASE pdf' # pdf
        <5>1. converting[e] # None /\ pdf'[e.job] = converting[e] /\ Rests(e)
          BY <1>3, <4>2, <4>4 DEF Works, Work
        <5>2. pc[e] = "crashed" /\ converting[e] = e
          BY <2>0, <3>3, <4>1, <4>2, <5>1 DEF Terminal
        <5>3. e # None
          BY ExportJobsAssumption
        <5>. QED BY <3>3, <5>1, <5>2, <5>3 DEF PdfIsFit, Rests
      <4>. QED BY <4>3, <4>4
    <3>. QED BY <3>2, <3>3
  <2>. QED BY <2>1, <2>2
<1>. QED BY <1>1, <1>2, <1>3, StepKinds DEF SingleInv

\* After the save, a PDF arrives late only from a dead executor, too.
LEMMA PdfMatchesDocumentStep ==
    ASSUME SingleDelivery, SingleInv, DocumentInv, PdfInv, [Next]_vars
    PROVE  PdfMatchesDocument'
<1>. USE ExecutorFacts
<1>. SUFFICES ASSUME NEW i \in Jobs, PdfConverter, jobs'[i].status = "SUCCEEDED"
              PROVE  PdfIsFit(i)'
  BY DEF PdfMatchesDocument, PdfIsFit
<1>0. jobs[i].status = "SUCCEEDED" => PdfIsFit(i)
  BY DEF PdfInv, PdfMatchesDocument, PdfIsFit
<1>1. CASE Quiet
  BY <1>0, <1>1, FitnessLasts DEF Quiet
<1>2. ASSUME NEW j \in Jobs, CreateJob(j) PROVE PdfIsFit(i)'
  <2>1. /\ jobs'[j] = Running /\ \A k \in Jobs \ {j} : jobs'[k] = jobs[k]
        /\ docx' = docx /\ pdf' = pdf
    BY <1>2 DEF CreateJob, SingleInv, TypeOK
  <2>2. i # j
    BY <2>1 DEF Running
  <2>. QED BY <1>0, <2>1, <2>2, FitnessLasts
<1>3. ASSUME NEW e \in Executors, Works(e) PROVE PdfIsFit(i)'
  <2>1. CASE i # e.job
    <3>1. docx'[i] = docx[i] /\ pdf'[i] = pdf[i] /\ jobs'[i] = jobs[i]
      BY <1>3, <2>1 DEF Works, Work, SingleInv, TypeOK
    <3>. QED BY <1>0, <3>1, FitnessLasts
  <2>2. CASE i = e.job /\ jobs' # jobs
    <3>1. /\ pc[e] = "save" /\ docx' = docx /\ pdf' = pdf
          /\ jobs' = [jobs EXCEPT ![e.job] = local[e]]
      BY <1>3, <2>2 DEF Works, Work
    <3>2. local[e].status = "SUCCEEDED"
      BY <2>2, <3>1 DEF SingleInv, TypeOK
    <3>3. PdfIsFit(i)
      BY <2>2, <3>1, <3>2 DEF PdfInv, SavedPdfIsFit
    <3>. QED BY <3>1, <3>3, FitnessLasts
  <2>3. CASE i = e.job /\ jobs' = jobs
    <3>1. PdfIsFit(i) /\ jobs[i].status \in Terminal
      BY <1>0, <2>3 DEF Terminal
    <3>2. pc[e] \notin {"render", "store", "convert", "wait", "save"}
      BY <2>3, <3>1 DEF SingleInv, FinishedIsLeftAlone
    <3>3. CASE pdf' = pdf
      <4>1. docx' = docx
        BY <1>3, <3>2 DEF Works, Work
      <4>. QED BY <3>1, <3>3, <4>1, FitnessLasts
    <3>4. CASE pdf' # pdf
      <4>1. converting[e] # None /\ pdf'[e.job] = converting[e] /\ Rests(e)
        BY <1>3, <3>2, <3>4 DEF Works, Work
      <4>2. pc[e] = "crashed" /\ converting[e] = e
        BY <2>3, <3>2, <4>1 DEF PdfInv, ConvertsOwnDocument
      <4>3. e # None
        BY ExportJobsAssumption
      <4>. QED BY <2>3, <4>1, <4>2, <4>3 DEF PdfIsFit, Rests
    <3>. QED BY <3>3, <3>4
  <2>. QED BY <2>1, <2>2, <2>3
<1>. QED BY <1>1, <1>2, <1>3, StepKinds DEF SingleInv

\* With a single delivery and a converter, the PDF of a SUCCEEDED job was made
\* from its DOCX, or it arrived late from an attempt that died while it waited.
THEOREM PdfsMatchDocuments == ASSUME SingleDelivery PROVE Spec => []PdfMatchesDocument
<1>1. Init => PdfInv
  BY ExecutorFacts DEF Init, DeliveryInit, Absent, PdfInv, ConvertsOwnDocument,
                       SavedPdfIsFit, PdfMatchesDocument
<1>2. SingleInv /\ DocumentInv /\ [Next]_vars => DocumentInv'
  BY DocumentInvStep
<1>3. SingleInv /\ DocumentInv /\ PdfInv /\ [Next]_vars => PdfInv'
  BY ConvertsOwnDocumentStep, SavedPdfIsFitStep, PdfMatchesDocumentStep DEF PdfInv
<1>4. PdfInv => PdfMatchesDocument
  BY DEF PdfInv
<1>. QED BY <1>1, <1>2, <1>3, <1>4, DocumentInvInit, SingleInvHolds, PTL DEF Spec

=============================================================================
