------------------------- MODULE LlmInvokeJobsProofs ------------------------
(***************************************************************************)
(* Proofs about LlmInvokeJobs, for any number of jobs, copies and          *)
(* attempts, with and without the async flag.                              *)
(*                                                                         *)
(* Without the flag a request calls the model and has no job: what an      *)
(* executor knows of its job depends on the flag until it saves.           *)
(***************************************************************************)
EXTENDS LlmInvokeJobs, AsyncDeliveryProofs

-----------------------------------------------------------------------------
(* The inductive invariants *)

\* The steps of a request up to the enqueue, and those after it.
Early == {"idle", "create", "enqueue"}
After == IF AmbiguousEnqueue THEN {"done", "invoke"} ELSE {"done"}

\* One copy per event, and a call that raises has failed.
SingleDelivery == MaxCopies = 1 /\ ~AmbiguousEnqueue

\* Before the request stores the job there is no job.
NothingBeforeCreate ==
    \A j \in Jobs : pc[Request(j)] \in {"idle", "create"} => jobs[j] = Absent

\* The values a job record goes through: RUNNING carries no result.
RecordShape ==
    \A j \in Jobs : jobs[j] \in {Absent, Running} \cup Lifecycle!Results

\* With the flag, whoever executes a job works on a stored one.
ExecutorHasJob ==
    \A e \in Executors :
        \/ pc[e] \in {"enqueue", "save"}
        \/ Async /\ pc[e] \in {"invoke", "audit"}
        => jobs[e.job].status # "absent"

\* Who is about to save holds a result.
HoldsResult ==
    \A e \in Executors : pc[e] = "save" => local[e] \in Lifecycle!Results

LifecycleInv == NothingBeforeCreate /\ RecordShape /\ ExecutorHasJob /\ HoldsResult

\* The event of a call is there before its answer is saved.
SavedWasAudited ==
    \A e \in Executors :
        pc[e] = "save" /\ local[e].status = "SUCCEEDED" =>
            local[e].output \in audits[e.job]

AuditInv == SavedWasAudited /\ EveryResultWasAudited

\* Nobody works on a finished job.
FinishedIsLeftAlone ==
    \A e \in Executors :
        jobs[e.job].status \in Terminal => pc[e] \notin {"create", "enqueue"} \cup Executing

-----------------------------------------------------------------------------
(* What the steps do *)

\* The steps that the delivery of an event leads to, and what the delivery
\* lemmas ask of the steps before and after the enqueue.
LEMMA StepFacts ==
    /\ {"queued", "crashed", "done", "invoke"} \subseteq Steps
    /\ Early \cap After = {} /\ "enqueue" \in Early /\ "crashed" \notin Early
    /\ SingleDelivery => After = {"done"} /\ MaxCopies = 1
    /\ AfterCall \in {"save", "done"} /\ (AfterCall = "save" => Async)
  BY DEF Steps, Executing, Early, After, SingleDelivery, AfterCall

\* A step that leaves the record and the events alone moves an executor to its
\* end, to its beginning, or on with the call.
Rests(f) == pc'[f] = pc[f] /\ local'[f] = local[f]

Quiet ==
    /\ UNCHANGED <<jobs, audits>>
    /\ \A f \in Executors :
          \/ Rests(f)
          \/ pc'[f] \in {"queued", "crashed", "done"}
          \/ /\ pc[f] = "idle" /\ f = Request(f.job)
             /\ pc'[f] = "create" \/ (pc'[f] = "invoke" /\ ~Async)
          \/ /\ pc'[f] = "invoke"
             /\ pc[f] = "enqueue" \/ (pc[f] = "queued" /\ IsOpen(jobs[f.job]))

\* The call goes on; one line per action.  Without a job it just ends.
Work(e) ==
    \/ pc[e] = "invoke" /\ pc'[e] = "audit" /\ UNCHANGED <<jobs, local, audits>>
    \/ pc[e] = "invoke" /\ pc'[e] = AfterCall /\ local'[e] = Failed
         /\ UNCHANGED <<jobs, audits>>
    \/ pc[e] = "audit" /\ pc'[e] = AfterCall /\ UNCHANGED jobs
         /\ audits'[e.job] = audits[e.job] \cup {e}
         /\ local'[e] = [status |-> "SUCCEEDED", output |-> e]
    \/ pc[e] = "audit" /\ pc'[e] = AfterCall /\ UNCHANGED jobs /\ local'[e] = Failed
    \/ pc[e] = "save" /\ pc'[e] = "done" /\ UNCHANGED <<local, audits>>
         /\ jobs' = [jobs EXCEPT ![e.job] = local[e]]

Works(e) ==
    /\ Work(e)
    /\ pc[e] \in Executing
    /\ \A f \in Executors \ {e} : Rests(f)
    /\ \A j \in Jobs : audits[j] \subseteq audits'[j]

\* A worker leaves the queue with the record it read, and executes it if open.
LEMMA DeliverEffect ==
    ASSUME TypeOK, NEW w \in Workers, Deliver(w)
    PROVE  /\ w \in Executors
           /\ pc' \in [Executors -> Steps] /\ local' \in [Executors -> Records]
           /\ pc[w] = "queued" /\ pc'[w] \in {"invoke", "done"}
           /\ pc'[w] = "invoke" => local'[w] = jobs[w.job] /\ IsOpen(jobs[w.job])
           /\ \A f \in Executors \ {w} : pc'[f] = pc[f] /\ local'[f] = local[f]
<1>. w \in Executors /\ w.job \in Jobs
  BY ExecutorFacts
<1>1. PICK found \in {jobs[w.job], Absent} :
          /\ local' = [local EXCEPT ![w] = found]
          /\ Goto(w, IF IsOpen(found) THEN "invoke" ELSE "done")
  BY DEF Deliver
<1>2. found \in Records /\ (IsOpen(found) => found = jobs[w.job])
  BY DEF TypeOK, Records, Absent, IsOpen
<1>3. /\ local' \in [Executors -> Records] /\ local'[w] = found
      /\ \A f \in Executors \ {w} : local'[f] = local[f]
  BY <1>1, <1>2 DEF TypeOK
<1>4. /\ pc' \in [Executors -> Steps]
      /\ pc'[w] = IF IsOpen(found) THEN "invoke" ELSE "done"
      /\ \A f \in Executors \ {w} : pc'[f] = pc[f]
  BY <1>1 DEF TypeOK, Goto, Steps, Executing
<1>. QED BY <1>2, <1>3, <1>4 DEF Deliver, At

-----------------------------------------------------------------------------
(* Type correctness *)

\* The type invariant holds in every reachable state, for any constants.
THEOREM TypeCorrect == Spec => []TypeOK
<1>1. Init => TypeOK
  BY LlmInvokeJobsAssumption
  DEF Init, TypeOK, DeliveryInit, Steps, Executing, Records, Absent
<1>2. TypeOK /\ [Next]_vars => TypeOK'
  <2>. SUFFICES ASSUME TypeOK, [Next]_vars PROVE TypeOK'
    OBVIOUS
  <2>. USE ExecutorFacts
  <2>1. ASSUME NEW j \in Jobs, Start(j) PROVE TypeOK'
    <3>1. CASE Post(j)
      BY <3>1 DEF TypeOK, Post, Goto, Steps, Executing
    <3>2. CASE CreateJob(j)
      BY <3>2 DEF TypeOK, CreateJob, Goto, Steps, Records, Running
    <3>3. CASE Enqueue(j)
      BY <3>3, AcceptedEffect, StepFacts DEF TypeOK, Enqueue
    <3>4. CASE EnqueueRaises(j)
      <4>1. pc' \in [Executors -> Steps]
        BY <3>4, AcceptedEffect, GotoEffect, StepFacts DEF TypeOK, EnqueueRaises
      <4>. QED BY <3>4, <4>1 DEF TypeOK, EnqueueRaises
    <3>. QED BY <2>1, <3>1, <3>2, <3>3, <3>4 DEF Start
  <2>2. ASSUME NEW j \in Jobs, Redeliver(j) PROVE TypeOK'
    BY <2>2, DuplicateEffect, StepFacts DEF TypeOK, Redeliver
  <2>3. ASSUME NEW w \in Workers, Deliver(w) PROVE TypeOK'
    BY <2>3, DeliverEffect DEF TypeOK, Deliver
  <2>4. ASSUME NEW e \in Executors, Execute(e) PROVE TypeOK'
    <3>1. \E step \in {"audit", "save", "done"} : Goto(e, step)
      BY <2>4, StepFacts DEF Execute, Invoke, InvokeRaises, Audit, AuditRaises, Save
    <3>2. pc' \in [Executors -> Steps]
      BY <3>1 DEF Goto, TypeOK, Steps, Executing
    <3>3. local' \in [Executors -> Records]
      BY <2>4 DEF Execute, Invoke, InvokeRaises, Audit, AuditRaises, Save, Fail, Failed,
                  Records, TypeOK
    <3>4. audits' \in [Jobs -> SUBSET Executors]
      <4>1. audits[e.job] \cup {e} \in SUBSET Executors
        BY DEF TypeOK
      <4>2. audits' = [audits EXCEPT ![e.job] = audits[e.job] \cup {e}] \/ audits' = audits
        BY <2>4 DEF Execute, Invoke, InvokeRaises, Audit, AuditRaises, Save
      <4>. QED BY <4>1, <4>2 DEF TypeOK
    <3>5. jobs' \in [Jobs -> Records]
      BY <2>4 DEF Execute, Invoke, InvokeRaises, Audit, AuditRaises, Save, TypeOK
    <3>. QED BY <3>2, <3>3, <3>4, <3>5 DEF TypeOK
  <2>5. ASSUME NEW e \in Executors, Crash(e) PROVE TypeOK'
    BY <2>5, CrashEffect, StepFacts DEF TypeOK, Crash
  <2>6. CASE UNCHANGED vars
    BY <2>6 DEF TypeOK, vars
  <2>. QED BY <2>1, <2>2, <2>3, <2>4, <2>5, <2>6 DEF Next
<1>. QED BY <1>1, <1>2, PTL DEF Spec

-----------------------------------------------------------------------------
(* Kinds of steps *)

\* Every step of the system is one of the five kinds of delivery steps.
LEMMA KindsOfSteps ==
    ASSUME TypeOK, [Next]_vars PROVE DeliveryStep(Early, After)
<1>. USE ExecutorFacts DEF Early
<1>1. ASSUME NEW j \in Jobs, Start(j)
      PROVE  Advances(Request(j), Early) \/ Accepted(j, After)
  <2>1. CASE Post(j)
    BY <2>1 DEF Post, Goto, At, Advances, TypeOK
  <2>2. CASE CreateJob(j)
    BY <2>2 DEF CreateJob, Goto, At, Advances, TypeOK
  <2>3. CASE Enqueue(j)
    BY <2>3, AcceptedEffect, StepFacts DEF Enqueue, At, Accepted, After, TypeOK
  <2>4. CASE EnqueueRaises(j)
    <3>1. CASE Goto(Request(j), "invoke")
      BY <2>4, <3>1 DEF EnqueueRaises, Goto, At, Advances, TypeOK
    <3>2. CASE AmbiguousEnqueue /\ GotoAccepted(j, "invoke")
      BY <2>4, <3>2, AcceptedEffect, StepFacts
      DEF EnqueueRaises, At, Accepted, After, TypeOK
    <3>. QED BY <2>4, <3>1, <3>2 DEF EnqueueRaises
  <2>. QED BY <1>1, <2>1, <2>2, <2>3, <2>4 DEF Start
<1>2. ASSUME NEW j \in Jobs, Redeliver(j) PROVE \E c \in 2 .. MaxCopies : Repeated(j, c)
  <2>1. PICK c \in 2 .. MaxCopies : Duplicate(j, c)
    BY <1>2 DEF Redeliver
  <2>. QED BY <2>1, DuplicateEffect, StepFacts DEF Repeated, TypeOK
<1>3. ASSUME NEW w \in Workers, Deliver(w) PROVE Advances(w, Early)
  BY <1>3, DeliverEffect DEF Advances
<1>4. ASSUME NEW e \in Executors, Execute(e) PROVE Advances(e, Early)
  <2>1. \E from \in Executing, to \in {"audit", "save", "done"} : At(e, from) /\ Goto(e, to)
    BY <1>4, StepFacts
    DEF Execute, Invoke, InvokeRaises, Audit, AuditRaises, Save, Executing
  <2>. QED BY <2>1 DEF Goto, At, Advances, TypeOK, Executing
<1>5. ASSUME NEW e \in Executors, Crash(e)
      PROVE  Advances(e, Early) \/ (e \in Workers /\ Retried(e))
  <2>1. CrashAt(e, {"create", "enqueue"} \cup Executing)
    BY <1>5 DEF Crash
  <2>2. {"absent", "done", "crashed"} \cap ({"create", "enqueue"} \cup Executing) = {}
    BY DEF Executing
  <2>. QED BY <2>1, <2>2, CrashKind, StepFacts DEF TypeOK
<1>6. UNCHANGED vars => pc' = pc
  BY DEF vars
<1>. QED BY <1>1, <1>2, <1>3, <1>4, <1>5, <1>6 DEF Next, DeliveryStep

\* No event is out before its request tried to enqueue it, and attempts follow
\* crashes.
LEMMA DeliveryInvariant == Spec => []DeliveryInv(Early)
<1>1. Init => DeliveryInv(Early)
  BY DeliveryInvInit DEF Init
<1>2. TypeOK /\ DeliveryInv(Early) /\ [Next]_vars => DeliveryInv(Early)'
  BY KindsOfSteps, StepFacts, DeliveryInvStep
<1>. QED BY <1>1, <1>2, TypeCorrect, PTL DEF Spec

\* A job is created, a call goes on, or the step is quiet.
LEMMA StepKinds ==
    ASSUME TypeOK, [Next]_vars
    PROVE  \/ Quiet
           \/ \E j \in Jobs : CreateJob(j)
           \/ \E e \in Executors : Works(e)
<1>. USE ExecutorFacts
<1>1. ASSUME NEW j \in Jobs, Start(j), ~CreateJob(j) PROVE Quiet
  <2>1. UNCHANGED <<jobs, local, audits>>
    BY <1>1 DEF Start, Post, Enqueue, EnqueueRaises
  <2>2. CASE Post(j)
    BY <2>1, <2>2 DEF Post, Goto, At, Quiet, Rests, TypeOK
  <2>3. CASE Enqueue(j) \/ EnqueueRaises(j)
    <3>1. pc[Request(j)] = "enqueue"
      BY <2>3 DEF Enqueue, EnqueueRaises, At
    <3>2. PICK step \in {"invoke", "done"} :
              Goto(Request(j), step) \/ GotoAccepted(j, step)
      BY <2>3 DEF Enqueue, EnqueueRaises
    <3>. step \in Steps /\ Request(j) \in Executors
      BY StepFacts
    <3>3. Goto(Request(j), step) =>
              pc'[Request(j)] = step /\ \A f \in Executors \ {Request(j)} : pc'[f] = pc[f]
      BY GotoEffect DEF TypeOK
    <3>4. GotoAccepted(j, step) =>
              /\ pc'[Request(j)] = step /\ pc'[Attempt(j, 1, 1)] = "queued"
              /\ \A f \in Executors \ {Request(j), Attempt(j, 1, 1)} : pc'[f] = pc[f]
      BY AcceptedEffect, StepFacts DEF TypeOK
    <3>. QED BY <2>1, <3>1, <3>2, <3>3, <3>4 DEF Quiet, Rests
  <2>. QED BY <1>1, <2>2, <2>3 DEF Start
<1>2. ASSUME NEW j \in Jobs, Redeliver(j) PROVE Quiet
  BY <1>2, DuplicateEffect, StepFacts DEF Redeliver, Quiet, Rests, TypeOK
<1>3. ASSUME NEW w \in Workers, Deliver(w) PROVE Quiet
  BY <1>3, DeliverEffect DEF Deliver, Quiet, Rests
<1>4. ASSUME NEW e \in Executors, Execute(e) PROVE Works(e)
  <2>. USE DEF Works, Work, Rests, Executing, At, Goto, TypeOK
  <2>1. CASE Invoke(e)
    BY <2>1 DEF Invoke
  <2>2. CASE InvokeRaises(e)
    BY <2>2 DEF InvokeRaises, Fail
  <2>3. CASE Audit(e)
    BY <2>3 DEF Audit
  <2>4. CASE AuditRaises(e)
    BY <2>4 DEF AuditRaises, Fail
  <2>5. CASE Save(e)
    BY <2>5 DEF Save
  <2>. QED BY <1>4, <2>1, <2>2, <2>3, <2>4, <2>5 DEF Execute
<1>5. ASSUME NEW e \in Executors, Crash(e) PROVE Quiet
  BY <1>5, CrashEffect, StepFacts DEF Crash, Quiet, Rests, TypeOK
<1>6. UNCHANGED vars => Quiet
  BY DEF vars, Quiet, Rests
<1>. QED BY <1>1, <1>2, <1>3, <1>4, <1>5, <1>6 DEF Next

-----------------------------------------------------------------------------
(* Any delivery: the life of a job *)

\* The initial states of the program are initial states of its promise.
LEMMA LifecycleInit == Init => LifecycleInv /\ Lifecycle!Init
<1>. USE ExecutorFacts
<1>1. Init => NothingBeforeCreate
  BY DEF Init, NothingBeforeCreate, DeliveryInit
<1>2. Init => RecordShape /\ Lifecycle!Init
  BY DEF Init, RecordShape, Lifecycle!Init, Absent, Lifecycle!Absent
<1>3. Init => ExecutorHasJob /\ HoldsResult
  BY DEF Init, ExecutorHasJob, HoldsResult, DeliveryInit
<1>. QED BY <1>1, <1>2, <1>3 DEF LifecycleInv

\* What an executor saves is a result.
LEMMA ResultFacts ==
    /\ Failed \in Lifecycle!Results
    /\ \A e \in Executors : [status |-> "SUCCEEDED", output |-> e] \in Lifecycle!Results
    /\ \A r \in Lifecycle!Results : r.status \in Terminal /\ r.status # "absent"
  BY DEF Lifecycle!Results, Failed, Terminal

\* Only the creating request and a saving executor touch a job record.
LEMMA JobsChange ==
    ASSUME TypeOK, LifecycleInv, [Next]_vars
    PROVE  \/ jobs' = jobs
           \/ \E j \in Jobs : jobs[j] = Absent /\ jobs' = [jobs EXCEPT ![j] = Running]
           \/ \E e \in Executors : /\ pc[e] = "save"
                                   /\ jobs[e.job].status # "absent"
                                   /\ local[e] \in Lifecycle!Results
                                   /\ jobs' = [jobs EXCEPT ![e.job] = local[e]]
<1>. USE ExecutorFacts DEF LifecycleInv
<1>1. ASSUME NEW j \in Jobs, CreateJob(j)
      PROVE  jobs[j] = Absent /\ jobs' = [jobs EXCEPT ![j] = Running]
  BY <1>1 DEF CreateJob, At, NothingBeforeCreate
<1>2. ASSUME NEW e \in Executors, Works(e), jobs' # jobs
      PROVE  /\ pc[e] = "save"
             /\ jobs[e.job].status # "absent"
             /\ local[e] \in Lifecycle!Results
             /\ jobs' = [jobs EXCEPT ![e.job] = local[e]]
  BY <1>2 DEF Works, Work, ExecutorHasJob, HoldsResult
<1>. QED BY <1>1, <1>2, StepKinds DEF Quiet

\* The invariant behind the life of a job record is inductive.
LEMMA LifecycleInvStep == TypeOK /\ LifecycleInv /\ [Next]_vars => LifecycleInv'
<1>. SUFFICES ASSUME TypeOK, LifecycleInv, [Next]_vars PROVE LifecycleInv'
  OBVIOUS
<1>. USE ExecutorFacts DEF LifecycleInv
<1>1. CASE Quiet
  <2>1. NothingBeforeCreate'
    BY <1>1 DEF Quiet, Rests, NothingBeforeCreate
  <2>2. ExecutorHasJob'
    BY <1>1 DEF Quiet, Rests, ExecutorHasJob, IsOpen
  <2>3. RecordShape' /\ HoldsResult'
    BY <1>1 DEF Quiet, Rests, RecordShape, HoldsResult
  <2>. QED BY <2>1, <2>2, <2>3
<1>2. ASSUME NEW j \in Jobs, CreateJob(j) PROVE LifecycleInv'
  <2>1. /\ pc'[Request(j)] = "enqueue"
        /\ \A f \in Executors \ {Request(j)} : Rests(f)
    BY <1>2 DEF CreateJob, Goto, Rests, TypeOK
  <2>2. jobs'[j] = Running /\ \A i \in Jobs \ {j} : jobs'[i] = jobs[i]
    BY <1>2 DEF CreateJob, TypeOK
  <2>3. NothingBeforeCreate'
    BY <2>1, <2>2 DEF NothingBeforeCreate, Rests
  <2>4. ExecutorHasJob'
    BY <2>1, <2>2 DEF ExecutorHasJob, Rests, Running
  <2>5. RecordShape' /\ HoldsResult'
    BY <2>1, <2>2 DEF RecordShape, HoldsResult, Rests
  <2>. QED BY <2>3, <2>4, <2>5
<1>3. ASSUME NEW e \in Executors, Works(e) PROVE LifecycleInv'
  <2>1. \A i \in Jobs : \/ jobs'[i] = jobs[i]
                        \/ i = e.job /\ pc[e] = "save" /\ jobs'[i] = local[e]
    BY <1>3 DEF Works, Work, TypeOK
  <2>2. pc[e] = "save" => local[e] \in Lifecycle!Results
    BY DEF HoldsResult
  <2>3. RecordShape'
    BY <2>1, <2>2 DEF RecordShape
  <2>4. /\ pc'[e] \in {"audit", "save", "done"}
        /\ pc'[e] = "save" => Async
        /\ pc[e] \in {"invoke", "audit"} \/ pc'[e] = "done"
    BY <1>3, StepFacts DEF Works, Work
  <2>5. \A f \in Executors \ {e} : Rests(f)
    BY <1>3 DEF Works
  <2>6. NothingBeforeCreate'
    <3>1. pc[e] = "save" => pc[Request(e.job)] \notin {"idle", "create"}
      BY DEF ExecutorHasJob, NothingBeforeCreate, Absent
    <3>. QED BY <2>1, <2>4, <2>5, <3>1 DEF NothingBeforeCreate, Rests
  <2>7. ExecutorHasJob'
    <3>1. \A i \in Jobs : jobs[i].status # "absent" => jobs'[i].status # "absent"
      BY <2>1, <2>2, ResultFacts
    <3>. QED BY <2>4, <2>5, <3>1 DEF ExecutorHasJob, Rests
  <2>8. HoldsResult'
    <3>1. pc'[e] = "save" => local'[e] \in Lifecycle!Results
      BY <1>3, <2>4, ResultFacts, StepFacts DEF Works, Work
    <3>. QED BY <2>5, <3>1 DEF HoldsResult, Rests
  <2>. QED BY <2>3, <2>6, <2>7, <2>8
<1>. QED BY <1>1, <1>2, <1>3, StepKinds

\* However events are delivered and answers lost, a finished job is never
\* RUNNING again: LLM invoke jobs implement the at-least-once promise.
THEOREM InvokesAreAtLeastOnce == Spec => LifecycleAtLeastOnce
<1>1. TypeOK /\ LifecycleInv /\ [Next]_vars => [Lifecycle!AtLeastOnceNext]_jobs
  <2>. SUFFICES ASSUME TypeOK, LifecycleInv, [Next]_vars, jobs' # jobs
                PROVE  Lifecycle!AtLeastOnceNext
    OBVIOUS
  <2>1. CASE \E j \in Jobs : jobs[j] = Absent /\ jobs' = [jobs EXCEPT ![j] = Running]
    BY <2>1 DEF Lifecycle!AtLeastOnceNext, Lifecycle!Submit, Absent, Lifecycle!Absent,
                Running, Lifecycle!Running
  <2>2. ASSUME NEW e \in Executors, jobs[e.job].status # "absent",
               local[e] \in Lifecycle!Results, jobs' = [jobs EXCEPT ![e.job] = local[e]]
        PROVE  Lifecycle!AtLeastOnceNext
    <3>. e.job \in Jobs
      BY ExecutorFacts
    <3>1. CASE jobs[e.job] = Running
      BY <2>2, <3>1
      DEF Lifecycle!AtLeastOnceNext, Lifecycle!Complete, Running, Lifecycle!Running
    <3>2. CASE jobs[e.job] \in Lifecycle!Results
      <4>1. jobs[e.job].status \in Lifecycle!Terminal
        BY <3>2 DEF Lifecycle!Results, Lifecycle!Terminal
      <4>. QED BY <2>2, <4>1 DEF Lifecycle!AtLeastOnceNext, Lifecycle!Replace
    <3>3. jobs[e.job] # Absent
      BY <2>2 DEF Absent
    <3>. QED BY <3>1, <3>2, <3>3 DEF LifecycleInv, RecordShape
  <2>. QED BY <2>1, <2>2, JobsChange
<1>. QED BY <1>1, LifecycleInit, LifecycleInvStep, TypeCorrect, PTL
         DEF Spec, LifecycleAtLeastOnce, Lifecycle!AtLeastOnceSpec

-----------------------------------------------------------------------------
(* Any delivery: the audit trail *)

\* Events are only added, and the answer of a call follows its event.
LEMMA AuditInvStep == TypeOK /\ AuditInv /\ [Next]_vars => AuditInv'
<1>. SUFFICES ASSUME TypeOK, AuditInv, [Next]_vars PROVE AuditInv'
  OBVIOUS
<1>. USE ExecutorFacts DEF AuditInv
<1>1. CASE Quiet
  BY <1>1 DEF Quiet, Rests, SavedWasAudited, EveryResultWasAudited
<1>2. ASSUME NEW j \in Jobs, CreateJob(j) PROVE AuditInv'
  <2>1. /\ pc'[Request(j)] = "enqueue" /\ audits' = audits
        /\ \A f \in Executors \ {Request(j)} : Rests(f)
    BY <1>2 DEF CreateJob, Goto, Rests, TypeOK
  <2>2. jobs'[j] = Running /\ \A i \in Jobs \ {j} : jobs'[i] = jobs[i]
    BY <1>2 DEF CreateJob, TypeOK
  <2>. QED BY <2>1, <2>2 DEF SavedWasAudited, EveryResultWasAudited, Rests, Running
<1>3. ASSUME NEW e \in Executors, Works(e) PROVE AuditInv'
  <2>1. \A i \in Jobs : audits[i] \subseteq audits'[i]
    BY <1>3 DEF Works
  <2>2. pc'[e] = "save" /\ local'[e].status = "SUCCEEDED" =>
            local'[e].output \in audits'[e.job]
    BY <1>3, StepFacts DEF Works, Work, Failed
  <2>3. SavedWasAudited'
    BY <1>3, <2>1, <2>2 DEF Works, Rests, SavedWasAudited
  <2>4. \A i \in Jobs : \/ jobs'[i] = jobs[i]
                        \/ i = e.job /\ pc[e] = "save" /\ jobs'[i] = local[e]
    BY <1>3 DEF Works, Work, TypeOK
  <2>5. EveryResultWasAudited'
    BY <2>1, <2>4 DEF SavedWasAudited, EveryResultWasAudited
  <2>. QED BY <2>3, <2>5
<1>. QED BY <1>1, <1>2, <1>3, StepKinds

\* Whoever died, failed or executed the job a second time: the event of the
\* very call that gave a result is in the audit trail.
THEOREM ResultsWereAudited == Spec => []EveryResultWasAudited
<1>1. Init => AuditInv
  BY ExecutorFacts DEF Init, DeliveryInit, Absent, AuditInv, SavedWasAudited,
                       EveryResultWasAudited
<1>2. AuditInv => EveryResultWasAudited
  BY DEF AuditInv
<1>. QED BY <1>1, <1>2, AuditInvStep, TypeCorrect, PTL DEF Spec

-----------------------------------------------------------------------------
(* A single delivery *)

SingleInv ==
    TypeOK /\ DeliveryInv(Early) /\ ChainInv /\ LifecycleInv /\ FinishedIsLeftAlone

\* The save that finishes a job is the last step of the only executor at work.
LEMMA FinishedIsLeftAloneStep ==
    ASSUME SingleDelivery, SingleInv, [Next]_vars PROVE FinishedIsLeftAlone'
<1>. USE ExecutorFacts
<1>. DEFINE Open == {"create", "enqueue", "invoke", "audit", "save"}
<1>. SUFFICES ASSUME NEW f \in Executors, jobs'[f.job].status \in Terminal
              PROVE  pc'[f] \notin Open
  BY DEF FinishedIsLeftAlone, Executing
<1>0. jobs[f.job].status \in Terminal => pc[f] \notin Open
  BY DEF SingleInv, FinishedIsLeftAlone, Executing
<1>1. CASE Quiet
  <2>1. pc[f] = "idle" /\ f = Request(f.job) => jobs[f.job].status \notin Terminal
    BY DEF SingleInv, LifecycleInv, NothingBeforeCreate, Absent, Terminal
  <2>. QED BY <1>0, <1>1, <2>1 DEF Quiet, Rests, IsOpen
<1>2. ASSUME NEW j \in Jobs, CreateJob(j) PROVE pc'[f] \notin Open
  <2>1. jobs'[j] = Running /\ \A i \in Jobs \ {j} : jobs'[i] = jobs[i]
    BY <1>2 DEF CreateJob, SingleInv, TypeOK
  <2>2. f.job # j
    BY <2>1 DEF Running, Terminal
  <2>3. pc'[f] = pc[f] /\ jobs'[f.job] = jobs[f.job]
    BY <1>2, <2>1, <2>2 DEF CreateJob, Goto, SingleInv, TypeOK
  <2>. QED BY <1>0, <2>3
<1>3. ASSUME NEW e \in Executors, Works(e) PROVE pc'[f] \notin Open
  <2>1. CASE jobs'[f.job] = jobs[f.job]
    <3>1. f # e
      BY <1>0, <1>3, <2>1, StepFacts DEF Works, Work, Executing
    <3>. QED BY <1>0, <1>3, <2>1, <3>1 DEF Works, Rests
  <2>2. CASE jobs'[f.job] # jobs[f.job]
    <3>1. pc[e] = "save" /\ pc'[e] = "done" /\ f.job = e.job
      BY <1>3, <2>2 DEF Works, Work, SingleInv, TypeOK
    <3>2. f # e => pc[f] \in {"idle", "absent", "done", "crashed"}
      BY <3>1, OneAtATime, StepFacts DEF SingleInv
    <3>. QED BY <1>3, <3>1, <3>2 DEF Works, Rests
  <2>. QED BY <2>1, <2>2
<1>. QED BY <1>1, <1>2, <1>3, StepKinds DEF SingleInv

\* What every reachable state of a single delivery satisfies.
LEMMA SingleInvHolds == ASSUME SingleDelivery PROVE Spec => []SingleInv
<1>1. Init => ChainInv /\ FinishedIsLeftAlone
  BY ChainInvInit, ExecutorFacts DEF Init, FinishedIsLeftAlone, Absent, Terminal
<1>2. TypeOK /\ DeliveryInv(Early) /\ ChainInv /\ [Next]_vars => ChainInv'
  BY ChainInvStep, KindsOfSteps, StepFacts
<1>3. SingleInv /\ [Next]_vars => FinishedIsLeftAlone'
  BY FinishedIsLeftAloneStep
<1>. QED BY <1>1, <1>2, <1>3, LifecycleInit, LifecycleInvStep, TypeCorrect,
            DeliveryInvariant, PTL DEF Spec, SingleInv

\* With a single delivery the first result of a job is final, however many
\* attempts died before it: LLM invoke jobs keep the whole promise, too.
THEOREM FirstResultIsFinal == ASSUME SingleDelivery PROVE Spec => Lifecycle!Spec
<1>1. SingleInv /\ [Next]_vars => [Lifecycle!Next]_jobs
  <2>. SUFFICES ASSUME SingleInv, [Next]_vars, jobs' # jobs PROVE Lifecycle!Next
    OBVIOUS
  <2>1. CASE \E j \in Jobs : jobs[j] = Absent /\ jobs' = [jobs EXCEPT ![j] = Running]
    BY <2>1 DEF Lifecycle!Next, Lifecycle!Submit, Absent, Lifecycle!Absent,
                Running, Lifecycle!Running
  <2>2. ASSUME NEW e \in Executors, pc[e] = "save", jobs[e.job].status # "absent",
               local[e] \in Lifecycle!Results, jobs' = [jobs EXCEPT ![e.job] = local[e]]
        PROVE  Lifecycle!Next
    <3>. e.job \in Jobs
      BY ExecutorFacts
    <3>1. jobs[e.job].status \notin Terminal /\ jobs[e.job] # Absent
      BY <2>2 DEF SingleInv, FinishedIsLeftAlone, Absent, Executing
    <3>2. jobs[e.job] = Running
      BY <3>1, ResultFacts DEF SingleInv, LifecycleInv, RecordShape
    <3>. QED BY <2>2, <3>2 DEF Lifecycle!Next, Lifecycle!Complete, Running, Lifecycle!Running
  <2>. QED BY <2>1, <2>2, JobsChange DEF SingleInv
<1>. QED BY <1>1, LifecycleInit, SingleInvHolds, PTL DEF Spec, Lifecycle!Spec

=============================================================================
