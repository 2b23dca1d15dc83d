--------------------------- MODULE AgentRunsProofs --------------------------
(***************************************************************************)
(* Proofs about AgentRuns, for any number of runs, copies and attempts.    *)
(*                                                                         *)
(* Part 1 holds for every delivery: duplicates, lost answers, retries.     *)
(* Part 2 assumes a single delivery: one copy per event, and an invoke     *)
(* call that raises only when Lambda did not take the event.  Then the     *)
(* executors of a run follow each other, and each starts after the one     *)
(* before it has died.                                                     *)
(***************************************************************************)
EXTENDS AgentRuns, AsyncDeliveryProofs

-----------------------------------------------------------------------------
(* Effects *)

\* The steps that the delivery of an event leads to.
LEMMA StepFacts == {"queued", "crashed", "done", "invoke"} \subseteq Steps
  BY DEF Steps, Executing

\* The except branch changes the status of the executor's copy, nothing else.
LEMMA FailEffect ==
    ASSUME local \in [Executors -> Records], NEW e \in Executors, Fail(e)
    PROVE  /\ local' \in [Executors -> Records]
           /\ local'[e] = [status |-> "FAILED", output |-> local[e].output]
           /\ local'[e] \in Lifecycle!Results
           /\ \A f \in Executors \ {e} : local'[f] = local[f]
  <1>1. local[e] \in Records
    OBVIOUS
  <1>2. [local[e] EXCEPT !.status = "FAILED"]
            = [status |-> "FAILED", output |-> local[e].output]
    BY <1>1 DEF Records
  <1>3. /\ [status |-> "FAILED", output |-> local[e].output] \in Records
        /\ [status |-> "FAILED", output |-> local[e].output] \in Lifecycle!Results
    BY <1>1 DEF Records, Lifecycle!Results
  <1>. QED BY <1>2, <1>3 DEF Fail

\* A worker leaves the queue with the record it read, and executes it if open.
LEMMA DeliverEffect ==
    ASSUME TypeOK, NEW w \in Workers, Deliver(w)
    PROVE  /\ w \in Executors
           /\ pc' \in [Executors -> Steps] /\ local' \in [Executors -> Records]
           /\ pc[w] = "queued" /\ pc'[w] \in {"invoke", "done"}
           /\ pc'[w] = "invoke" => local'[w] = runs[w.job] /\ IsOpen(runs[w.job])
           /\ \A f \in Executors \ {w} : pc'[f] = pc[f] /\ local'[f] = local[f]
<1>. w \in Executors /\ w.job \in Jobs
  BY ExecutorFacts
<1>1. PICK found \in {runs[w.job], Absent} :
          /\ local' = [local EXCEPT ![w] = found]
          /\ Goto(w, IF IsOpen(found) THEN "invoke" ELSE "done")
  BY DEF Deliver
<1>2. found \in Records /\ (IsOpen(found) => found = runs[w.job])
  BY DEF TypeOK, Records, Absent, IsOpen
<1>3. /\ local' \in [Executors -> Records] /\ local'[w] = found
      /\ \A f \in Executors \ {w} : local'[f] = local[f]
  BY <1>1, <1>2 DEF TypeOK
<1>4. /\ pc' \in [Executors -> Steps]
      /\ pc'[w] = IF IsOpen(found) THEN "invoke" ELSE "done"
      /\ \A f \in Executors \ {w} : pc'[f] = pc[f]
  BY <1>1 DEF TypeOK, Goto, Steps, Executing
<1>. QED BY <1>2, <1>3, <1>4 DEF Deliver, At

\* The check goes on with the copy it has, or fails the copy.
LEMMA CheckEffect ==
    ASSUME TypeOK, NEW e \in Executors, CheckProject(e)
    PROVE  /\ pc[e] = "check project" /\ UNCHANGED stores
           /\ pc' \in [Executors -> Steps] /\ local' \in [Executors -> Records]
           /\ \/ pc'[e] = "record activity" /\ local' = local
              \/ pc'[e] = "save" /\ Fail(e)
           /\ \A f \in Executors \ {e} : pc'[f] = pc[f] /\ local'[f] = local[f]
<1>1. PICK step \in {"record activity", "save"} :
          /\ Goto(e, step)
          /\ IF step = "save" THEN Fail(e) ELSE UNCHANGED local
  BY DEF CheckProject
<1>2. /\ pc' \in [Executors -> Steps] /\ pc'[e] = step
      /\ \A f \in Executors \ {e} : pc'[f] = pc[f]
  BY <1>1 DEF TypeOK, Goto, Steps, Executing
<1>3. /\ local' \in [Executors -> Records]
      /\ \A f \in Executors \ {e} : local'[f] = local[f]
  BY <1>1, FailEffect DEF TypeOK
<1>. QED BY <1>1, <1>2, <1>3 DEF CheckProject, At

-----------------------------------------------------------------------------
(* Type correctness *)

\* The type invariant holds in every reachable state, for any constants.
THEOREM TypeCorrect == Spec => []TypeOK
<1>1. Init => TypeOK
  BY AgentRunsAssumption
  DEF Init, TypeOK, DeliveryInit, Steps, Executing, Records, Absent
<1>2. TypeOK /\ [Next]_vars => TypeOK'
  <2>. SUFFICES ASSUME TypeOK, [Next]_vars PROVE TypeOK'
    OBVIOUS
  <2>. USE ExecutorFacts
  <2>1. ASSUME NEW j \in Jobs, Start(j) PROVE TypeOK'
    <3>1. CASE Post(j)
      BY <3>1 DEF TypeOK, Post, Goto, Steps, stores
    <3>2. CASE ContextRaises(j)
      BY <3>2 DEF TypeOK, ContextRaises, Goto, Steps, stores
    <3>3. CASE CreateRun(j)
      BY <3>3 DEF TypeOK, CreateRun, Goto, Steps, Executing, Records, Running
    <3>4. CASE Enqueue(j)
      BY <3>4, AcceptedEffect, StepFacts DEF TypeOK, Enqueue, Steps, stores
    <3>5. CASE EnqueueRaises(j)
      <4>1. pc' \in [Executors -> Steps]
        BY <3>5, AcceptedEffect, GotoEffect, StepFacts DEF TypeOK, EnqueueRaises
      <4>. QED BY <3>5, <4>1 DEF TypeOK, EnqueueRaises, stores
    <3>. QED BY <2>1, <3>1, <3>2, <3>3, <3>4, <3>5 DEF Start
  <2>2. ASSUME NEW j \in Jobs, Redeliver(j) PROVE TypeOK'
    BY <2>2, DuplicateEffect, StepFacts DEF TypeOK, Redeliver, stores
  <2>3. ASSUME NEW w \in Workers, Deliver(w) PROVE TypeOK'
    BY <2>3, DeliverEffect DEF TypeOK, Deliver, stores
  <2>4. ASSUME NEW e \in Executors, Execute(e) PROVE TypeOK'
    <3>1. CASE Invoke(e)
      <4>1. pc' \in [Executors -> Steps]
        BY <3>1 DEF TypeOK, Invoke, Goto, Steps, Executing
      <4>2. local' \in [Executors -> Records]
        BY <3>1 DEF TypeOK, Invoke, Records
      <4>3. drafts' \in [Jobs -> SUBSET Executors]
        <5>1. drafts[e.job] \cup {e} \in SUBSET Executors
          BY DEF TypeOK
        <5>. QED BY <3>1, <5>1 DEF TypeOK, Invoke
      <4>. QED BY <3>1, <4>1, <4>2, <4>3 DEF TypeOK, Invoke
    <3>2. CASE InvokeRaises(e)
      <4>1. pc' \in [Executors -> Steps]
        BY <3>2 DEF TypeOK, InvokeRaises, Goto, Steps, Executing
      <4>2. local' \in [Executors -> Records]
        BY <3>2, FailEffect DEF TypeOK, InvokeRaises
      <4>. QED BY <3>2, <4>1, <4>2 DEF TypeOK, InvokeRaises, stores
    <3>3. CASE CheckProject(e)
      BY <3>3, CheckEffect DEF TypeOK, stores
    <3>4. CASE RecordActivity(e)
      BY <3>4 DEF TypeOK, RecordActivity, Goto, Steps, Executing
    <3>5. CASE RecordActivityRaises(e)
      <4>1. pc' \in [Executors -> Steps]
        BY <3>5 DEF TypeOK, RecordActivityRaises, Goto, Steps, Executing
      <4>2. local' \in [Executors -> Records]
        BY <3>5, FailEffect DEF TypeOK, RecordActivityRaises
      <4>3. activity' \in [Jobs -> Executors \cup {None}]
        <5>1. activity' = [activity EXCEPT ![e.job] = e] \/ activity' = activity
          BY <3>5 DEF RecordActivityRaises
        <5>. QED BY <5>1 DEF TypeOK
      <4>. QED BY <3>5, <4>1, <4>2, <4>3 DEF TypeOK, RecordActivityRaises
    <3>6. CASE Save(e)
      BY <3>6 DEF TypeOK, Save, Goto, Steps, Executing
    <3>7. CASE Audit(e)
      BY <3>7 DEF TypeOK, Audit, Goto, Steps
    <3>. QED BY <2>4, <3>1, <3>2, <3>3, <3>4, <3>5, <3>6, <3>7 DEF Execute
  <2>5. ASSUME NEW e \in Executors, Crash(e) PROVE TypeOK'
    BY <2>5, CrashEffect, StepFacts DEF TypeOK, Crash, stores
  <2>6. ASSUME NEW p \in Projects, DeleteProject(p) \/ DeleteActivity(p) PROVE TypeOK'
    BY <2>6 DEF TypeOK, DeleteProject, DeleteActivity
  <2>7. CASE UNCHANGED vars
    BY <2>7 DEF TypeOK, vars
  <2>. QED BY <2>1, <2>2, <2>3, <2>4, <2>5, <2>6, <2>7 DEF Next
<1>. QED BY <1>1, <1>2, PTL DEF Spec

-----------------------------------------------------------------------------
(* The inductive invariants *)

\* The steps of a request up to the enqueue, and those after it.
Early == {"idle", "context", "enqueue"}
After == IF AmbiguousEnqueue THEN {"done", "invoke"} ELSE {"done"}

\* One copy per event, and a call that raises has failed.
SingleDelivery == MaxCopies = 1 /\ ~AmbiguousEnqueue

\* Before the request stores the run there is no run.
NothingBeforeCreate ==
    \A j \in Jobs : pc[Request(j)] \in {"idle", "context"} => runs[j] = Absent

\* The values a run record goes through: RUNNING carries no output.
RecordShape ==
    \A j \in Jobs : runs[j] \in {Absent, Running} \cup Lifecycle!Results

\* Whoever executes a run works on a stored one.
ExecutorHasRun ==
    \A e \in Executors :
        pc[e] \in Executing \cup {"enqueue"} => runs[e.job].status # "absent"

\* From the answer of the agent on, an executor holds a result.
HoldsResult ==
    \A e \in Executors :
        pc[e] \in {"check project", "record activity", "save"} =>
            local[e] \in Lifecycle!Results

LifecycleInv == NothingBeforeCreate /\ RecordShape /\ ExecutorHasRun /\ HoldsResult

\* A finished run shows the copy of an executor that has written the audit
\* event, or will, or died before.
WrittenByAuditor ==
    \A j \in Jobs :
        runs[j].status \in Terminal =>
            \E e \in Executors :
                /\ e.job = j
                /\ local[e] = runs[j]
                /\ \/ pc[e] \in {"audit", "crashed"}
                   \/ pc[e] = "done" /\ e \in audits[j]

\* The draft is on the timeline before its executor saves the success.
SavedDraftIsOnTimeline ==
    \A e \in Executors :
        (/\ pc[e] = "save"
         /\ local[e].status = "SUCCEEDED"
         /\ e.job \in DraftRuns
         /\ IsLive(ProjectOf[e.job]))
        => activity[e.job] # None

TimelineInv == SavedDraftIsOnTimeline /\ SucceededDraftIsOnTimeline

\* Nobody works on a finished run.
FinishedIsLeftAlone ==
    \A e \in Executors :
        runs[e.job].status \in Terminal =>
            pc[e] \notin {"context", "enqueue", "invoke", "check project",
                          "record activity", "save"}

\* A success in memory is the executor's own, and when it is about to be saved,
\* so is the row on the timeline.
HoldsOwnDraft ==
    \A e \in Executors :
        (/\ pc[e] \in {"check project", "record activity", "save"}
         /\ local[e].status = "SUCCEEDED")
        => /\ local[e].output = e
           /\ pc[e] = "save" /\ e.job \in DraftRuns =>
                  activity[e.job] = e
                      \/ (activity[e.job] = None /\ ~IsLive(ProjectOf[e.job]))

DraftRowInv == HoldsOwnDraft /\ TimelineMatchesRun

\* Drafts come from executors that got as far as the agent's answer; when the
\* request was one of them, there is no worker.
DraftAuthors ==
    \A j \in Jobs : \A e \in drafts[j] :
        /\ e.job = j
        /\ pc[e] \in {"check project", "record activity", "save", "audit",
                      "done", "crashed"}

RequestDraftsAlone ==
    \A w \in Workers : Request(w.job) \in drafts[w.job] => pc[w] = "absent"

DraftInv == DraftAuthors /\ RequestDraftsAlone

-----------------------------------------------------------------------------
(* Part 1: any delivery *)

\* Every step of the system is one of the five kinds.
LEMMA KindsOfSteps ==
    ASSUME TypeOK, [Next]_vars PROVE DeliveryStep(Early, After)
<1>1. ASSUME NEW j \in Jobs, Start(j)
      PROVE  Advances(Request(j), Early) \/ Accepted(j, After)
  <2>. USE ExecutorFacts DEF Early
  <2>1. CASE Post(j)
    BY <2>1 DEF Post, Goto, At, Advances, TypeOK
  <2>2. CASE ContextRaises(j)
    BY <2>2 DEF ContextRaises, Goto, At, Advances, TypeOK
  <2>3. CASE CreateRun(j)
    BY <2>3 DEF CreateRun, Goto, At, Advances, TypeOK
  <2>4. CASE Enqueue(j)
    BY <2>4, AcceptedEffect, StepFacts DEF Enqueue, At, Accepted, After, TypeOK
  <2>5. CASE EnqueueRaises(j)
    <3>1. CASE Goto(Request(j), "invoke")
      BY <2>5, <3>1 DEF EnqueueRaises, Goto, At, Advances, TypeOK
    <3>2. CASE AmbiguousEnqueue /\ GotoAccepted(j, "invoke")
      BY <2>5, <3>2, AcceptedEffect, StepFacts
      DEF EnqueueRaises, At, Accepted, After, TypeOK
    <3>. QED BY <2>5, <3>1, <3>2 DEF EnqueueRaises
  <2>. QED BY <1>1, <2>1, <2>2, <2>3, <2>4, <2>5 DEF Start
<1>2. ASSUME NEW j \in Jobs, Redeliver(j) PROVE \E c \in 2 .. MaxCopies : Repeated(j, c)
  <2>1. PICK c \in 2 .. MaxCopies : Duplicate(j, c)
    BY <1>2 DEF Redeliver
  <2>. QED BY <2>1, DuplicateEffect, StepFacts DEF Repeated, TypeOK
<1>3. ASSUME NEW w \in Workers, Deliver(w) PROVE Advances(w, Early)
  BY <1>3, ExecutorFacts DEF Deliver, Goto, At, Advances, Early, TypeOK
<1>4. ASSUME NEW e \in Executors, Execute(e) PROVE Advances(e, Early)
  <2>1. \E from \in Executing, to \in (Executing \ {"invoke"}) \cup {"done"} :
          At(e, from) /\ Goto(e, to)
    BY <1>4 DEF Execute, Invoke, InvokeRaises, CheckProject, RecordActivity,
                RecordActivityRaises, Save, Audit, Executing
  <2>. QED BY <2>1 DEF Goto, At, Advances, Early, TypeOK, Executing
<1>5. ASSUME NEW e \in Executors, Crash(e)
      PROVE  Advances(e, Early) \/ (e \in Workers /\ Retried(e))
  <2>1. CrashAt(e, {"context", "enqueue"} \cup Executing)
    BY <1>5 DEF Crash
  <2>2. {"absent", "done", "crashed"} \cap ({"context", "enqueue"} \cup Executing) = {}
            /\ "crashed" \notin Early
    BY DEF Executing, Early
  <2>. QED BY <2>1, <2>2, CrashKind DEF TypeOK
<1>6. ASSUME NEW p \in Projects, DeleteProject(p) \/ DeleteActivity(p) PROVE pc' = pc
  BY <1>6 DEF DeleteProject, DeleteActivity
<1>7. UNCHANGED vars => pc' = pc
  BY DEF vars
<1>. QED BY <1>1, <1>2, <1>3, <1>4, <1>5, <1>6, <1>7, ExecutorFacts DEF Next, DeliveryStep

\* Nobody gets to the agent from a later step.
LEMMA InvokeComesFirst ==
    ASSUME TypeOK, [Next]_vars, NEW e \in Executors, pc'[e] = "invoke"
    PROVE  pc[e] \in Early \cup {"queued", "invoke"}
<1>. USE ExecutorFacts DEF Early
<1>1. ASSUME NEW j \in Jobs, Start(j) PROVE pc[e] \in Early \cup {"queued", "invoke"}
  <2>1. pc[Request(j)] \in Early
    BY <1>1 DEF Start, Post, ContextRaises, CreateRun, Enqueue, EnqueueRaises, At
  <2>2. pc'[e] # pc[e] => e = Request(j) \/ pc'[e] = "queued"
    BY <1>1 DEF Start, Post, ContextRaises, CreateRun, Enqueue, EnqueueRaises,
                Goto, GotoAccepted, TypeOK
  <2>. QED BY <2>1, <2>2
<1>2. ASSUME NEW j \in Jobs, Redeliver(j) PROVE pc[e] = "invoke"
  BY <1>2 DEF Redeliver, Duplicate, Goto, TypeOK
<1>3. ASSUME NEW w \in Workers, Deliver(w) PROVE pc[e] \in {"queued", "invoke"}
  BY <1>3 DEF Deliver, Goto, At, TypeOK
<1>4. ASSUME NEW f \in Executors, Execute(f) PROVE pc[e] = "invoke"
  BY <1>4 DEF Execute, Invoke, InvokeRaises, CheckProject, RecordActivity,
              RecordActivityRaises, Save, Audit, Goto, TypeOK
<1>5. ASSUME NEW f \in Executors, Crash(f) PROVE pc[e] = "invoke"
  BY <1>5, CrashEffect, StepFacts DEF Crash, TypeOK
<1>6. ASSUME NEW p \in Projects, DeleteProject(p) \/ DeleteActivity(p) PROVE pc' = pc
  BY <1>6 DEF DeleteProject, DeleteActivity
<1>7. UNCHANGED vars => pc' = pc
  BY DEF vars
<1>. QED BY <1>1, <1>2, <1>3, <1>4, <1>5, <1>6, <1>7 DEF Next

\* What the delivery lemmas ask of the steps before and after the enqueue.
LEMMA EarlySteps ==
    /\ Early \cap After = {} /\ "enqueue" \in Early /\ "crashed" \notin Early
    /\ SingleDelivery => After = {"done"} /\ MaxCopies = 1
  BY DEF Early, After, SingleDelivery

\* No event is out before its request tried to enqueue it, and attempts follow
\* crashes.
LEMMA DeliveryInvariant == Spec => []DeliveryInv(Early)
<1>1. Init => DeliveryInv(Early)
  BY DeliveryInvInit DEF Init
<1>2. TypeOK /\ DeliveryInv(Early) /\ [Next]_vars => DeliveryInv(Early)'
  BY KindsOfSteps, EarlySteps, DeliveryInvStep
<1>. QED BY <1>1, <1>2, TypeCorrect, PTL DEF Spec

\* What an execution does to the steps, the copies and the run record.
LEMMA ExecuteEffect ==
    ASSUME TypeOK, HoldsResult, NEW e \in Executors, Execute(e)
    PROVE  /\ pc[e] \in Executing
           /\ pc'[e] \in (Executing \ {"invoke"}) \cup {"done"}
           /\ \A f \in Executors \ {e} : pc'[f] = pc[f] /\ local'[f] = local[f]
           /\ pc'[e] \in {"check project", "record activity", "save"} =>
                  local'[e] \in Lifecycle!Results
           /\ \/ runs' = runs
              \/ /\ pc[e] = "save"
                 /\ runs' = [runs EXCEPT ![e.job] = local[e]]
<1>. USE DEF TypeOK, Executing
<1>1. CASE Invoke(e)
  BY <1>1 DEF Invoke, Goto, At, Lifecycle!Results
<1>2. CASE InvokeRaises(e)
  <2>1. /\ local'[e] \in Lifecycle!Results
        /\ \A f \in Executors \ {e} : local'[f] = local[f]
    BY <1>2, FailEffect DEF InvokeRaises
  <2>. QED BY <1>2, <2>1 DEF InvokeRaises, Goto, At, stores
<1>3. CASE CheckProject(e)
  <2>1. local'[e] \in Lifecycle!Results
    BY <1>3, CheckEffect, FailEffect DEF HoldsResult
  <2>. QED BY <1>3, <2>1, CheckEffect DEF stores
<1>4. CASE RecordActivity(e)
  BY <1>4 DEF RecordActivity, Goto, At, HoldsResult
<1>5. CASE RecordActivityRaises(e)
  <2>1. /\ local'[e] \in Lifecycle!Results
        /\ \A f \in Executors \ {e} : local'[f] = local[f]
    BY <1>5, FailEffect DEF RecordActivityRaises
  <2>. QED BY <1>5, <2>1 DEF RecordActivityRaises, Goto, At
<1>6. CASE Save(e)
  BY <1>6 DEF Save, Goto, At
<1>7. CASE Audit(e)
  BY <1>7 DEF Audit, Goto, At
<1>. QED BY <1>1, <1>2, <1>3, <1>4, <1>5, <1>6, <1>7 DEF Execute

\* The invariant behind the life of a run record is inductive.
LEMMA LifecycleInvStep == TypeOK /\ LifecycleInv /\ [Next]_vars => LifecycleInv'
<1>. SUFFICES ASSUME TypeOK, LifecycleInv, [Next]_vars PROVE LifecycleInv'
  OBVIOUS
<1>. USE ExecutorFacts DEF LifecycleInv
<1>1. ASSUME NEW j \in Jobs, Post(j) PROVE LifecycleInv'
  <2>1. pc' = [pc EXCEPT ![Request(j)] = "context"] /\ pc[Request(j)] = "idle"
    BY <1>1 DEF Post, Goto, At
  <2>2. runs' = runs /\ local' = local
    BY <1>1 DEF Post, stores
  <2>3. /\ pc'[Request(j)] = "context"
        /\ \A f \in Executors \ {Request(j)} : pc'[f] = pc[f]
    BY <2>1 DEF TypeOK
  <2>4. NothingBeforeCreate'
    BY <2>1, <2>2, <2>3 DEF NothingBeforeCreate
  <2>5. ExecutorHasRun' /\ HoldsResult'
    BY <2>2, <2>3 DEF ExecutorHasRun, HoldsResult, Executing
  <2>. QED BY <2>2, <2>4, <2>5 DEF RecordShape
<1>2. ASSUME NEW j \in Jobs, ContextRaises(j) PROVE LifecycleInv'
  <2>1. pc' = [pc EXCEPT ![Request(j)] = "done"]
    BY <1>2 DEF ContextRaises, Goto
  <2>2. runs' = runs /\ local' = local
    BY <1>2 DEF ContextRaises, stores
  <2>3. /\ pc'[Request(j)] = "done"
        /\ \A f \in Executors \ {Request(j)} : pc'[f] = pc[f]
    BY <2>1 DEF TypeOK
  <2>4. NothingBeforeCreate'
    BY <2>1, <2>2, <2>3 DEF NothingBeforeCreate
  <2>5. ExecutorHasRun' /\ HoldsResult'
    BY <2>2, <2>3 DEF ExecutorHasRun, HoldsResult, Executing
  <2>. QED BY <2>2, <2>4, <2>5 DEF RecordShape
<1>3. ASSUME NEW j \in Jobs, CreateRun(j) PROVE LifecycleInv'
  <2>1. /\ pc[Request(j)] = "context"
        /\ pc'[Request(j)] \in {"enqueue", "invoke"}
        /\ \A f \in Executors \ {Request(j)} : pc'[f] = pc[f] /\ local'[f] = local[f]
    BY <1>3 DEF CreateRun, Goto, At, TypeOK
  <2>2. runs' = [runs EXCEPT ![j] = Running] /\ runs'[j] = Running
    BY <1>3 DEF CreateRun, TypeOK
  <2>3. \A i \in Jobs \ {j} : runs'[i] = runs[i]
    BY <2>2 DEF TypeOK
  <2>4. NothingBeforeCreate'
    BY <2>1, <2>3 DEF NothingBeforeCreate
  <2>5. RecordShape'
    BY <2>2, <2>3 DEF RecordShape
  <2>6. ExecutorHasRun'
    BY <2>1, <2>2, <2>3 DEF ExecutorHasRun, Running
  <2>7. HoldsResult'
    BY <2>1 DEF HoldsResult
  <2>. QED BY <2>4, <2>5, <2>6, <2>7
<1>4. ASSUME NEW j \in Jobs, Enqueue(j) \/ EnqueueRaises(j) PROVE LifecycleInv'
  <2>1. /\ pc[Request(j)] = "enqueue"
        /\ runs' = runs /\ local' = local
    BY <1>4 DEF Enqueue, EnqueueRaises, stores, At
  <2>2. /\ pc'[Request(j)] \in {"invoke", "done"}
        /\ \A f \in Executors \ {Request(j)} :
              pc'[f] = pc[f] \/ (f = Attempt(j, 1, 1) /\ pc'[f] = "queued")
    <3>1. {"invoke", "done"} \subseteq Steps
      BY DEF Steps, Executing
    <3>2. \E step \in {"invoke", "done"} : Goto(Request(j), step) \/ GotoAccepted(j, step)
      BY <1>4 DEF Enqueue, EnqueueRaises
    <3>3. PICK step \in {"invoke", "done"} : Goto(Request(j), step) \/ GotoAccepted(j, step)
      BY <3>2
    <3>. step \in Steps
      BY <3>1
    <3>4. CASE Goto(Request(j), step)
      BY ZenonT(40), <3>4, GotoEffect DEF TypeOK
    <3>5. CASE GotoAccepted(j, step)
      BY <3>5, AcceptedEffect, StepFacts DEF TypeOK
    <3>. QED BY <3>3, <3>4, <3>5
  <2>3. Attempt(j, 1, 1) \in Workers
    BY AttemptFacts, DeliveryAssumption
  <2>4. NothingBeforeCreate'
    BY <2>1, <2>2, <2>3 DEF NothingBeforeCreate
  <2>5. ExecutorHasRun'
    BY <2>1, <2>2 DEF ExecutorHasRun, Executing
  <2>6. HoldsResult'
    BY <2>1, <2>2 DEF HoldsResult
  <2>. QED BY <2>1, <2>4, <2>5, <2>6 DEF RecordShape
<1>5. ASSUME NEW j \in Jobs, Redeliver(j) PROVE LifecycleInv'
  <2>1. PICK c \in 2 .. MaxCopies : Duplicate(j, c)
    BY <1>5 DEF Redeliver
  <2>2. runs' = runs /\ local' = local
    BY <1>5 DEF Redeliver, stores
  <2>3. /\ Attempt(j, c, 1) \in Workers
        /\ pc'[Attempt(j, c, 1)] = "queued"
        /\ \A f \in Executors \ {Attempt(j, c, 1)} : pc'[f] = pc[f]
    BY <2>1, DuplicateEffect, StepFacts DEF TypeOK
  <2>4. NothingBeforeCreate'
    BY <2>2, <2>3 DEF NothingBeforeCreate
  <2>5. ExecutorHasRun' /\ HoldsResult'
    BY <2>2, <2>3 DEF ExecutorHasRun, HoldsResult, Executing
  <2>. QED BY <2>2, <2>4, <2>5 DEF RecordShape
<1>6. ASSUME NEW w \in Workers, Deliver(w) PROVE LifecycleInv'
  <2>1. /\ pc[w] = "queued" /\ pc'[w] \in {"invoke", "done"}
        /\ pc'[w] = "invoke" => runs[w.job].status # "absent"
        /\ \A f \in Executors \ {w} : pc'[f] = pc[f] /\ local'[f] = local[f]
    BY <1>6, DeliverEffect DEF IsOpen
  <2>2. runs' = runs
    BY <1>6 DEF Deliver, stores
  <2>3. NothingBeforeCreate'
    BY <2>1, <2>2 DEF NothingBeforeCreate
  <2>4. ExecutorHasRun' /\ HoldsResult'
    BY <2>1, <2>2 DEF ExecutorHasRun, HoldsResult, Executing
  <2>. QED BY <2>2, <2>3, <2>4 DEF RecordShape
<1>7. ASSUME NEW e \in Executors, Execute(e) PROVE LifecycleInv'
  <2>1. /\ pc[e] \in Executing
        /\ pc'[e] \in (Executing \ {"invoke"}) \cup {"done"}
        /\ \A f \in Executors \ {e} : pc'[f] = pc[f] /\ local'[f] = local[f]
        /\ pc'[e] \in {"check project", "record activity", "save"} =>
              local'[e] \in Lifecycle!Results
    BY <1>7, ExecuteEffect
  <2>2. \/ runs' = runs
        \/ pc[e] = "save" /\ runs' = [runs EXCEPT ![e.job] = local[e]]
    BY <1>7, ExecuteEffect
  <2>3. \A i \in Jobs :
          \/ runs'[i] = runs[i]
          \/ i = e.job /\ runs'[i] \in Lifecycle!Results
    BY <2>2 DEF HoldsResult, TypeOK
  <2>4. pc[Request(e.job)] \notin {"idle", "context"}
    <3>1. runs[e.job].status # "absent" /\ e.job \in Jobs
      BY <2>1 DEF ExecutorHasRun
    <3>. QED BY <3>1 DEF NothingBeforeCreate, Absent
  <2>5. NothingBeforeCreate'
    <3>. SUFFICES ASSUME NEW i \in Jobs, pc'[Request(i)] \in {"idle", "context"}
                  PROVE  runs'[i] = Absent
      BY DEF NothingBeforeCreate
    <3>1. Request(i) # e
      BY <2>1 DEF Executing
    <3>2. pc[Request(i)] \in {"idle", "context"} /\ i # e.job
      BY <2>1, <2>4, <3>1
    <3>. QED BY <2>3, <3>2 DEF NothingBeforeCreate
  <2>6. RecordShape'
    BY <2>3 DEF RecordShape
  <2>7. ExecutorHasRun'
    BY <2>1, <2>3 DEF ExecutorHasRun, Lifecycle!Results
  <2>8. HoldsResult'
    BY <2>1 DEF HoldsResult
  <2>. QED BY <2>5, <2>6, <2>7, <2>8
<1>8. ASSUME NEW e \in Executors, Crash(e) PROVE LifecycleInv'
  <2>1. runs' = runs /\ local' = local
    BY <1>8 DEF Crash, stores
  <2>2. /\ pc[e] \in {"context", "enqueue"} \cup Executing
        /\ pc'[e] = "crashed"
        /\ \A f \in Executors \ {e} :
              \/ pc'[f] = pc[f]
              \/ pc'[f] = "queued" /\ HasRetry(e) /\ f = NextAttempt(e)
    BY <1>8, CrashEffect, StepFacts DEF Crash, TypeOK
  <2>3. NothingBeforeCreate'
    <3>1. HasRetry(e) => NextAttempt(e) \in Workers
      BY AttemptFacts DEF HasRetry
    <3>. QED BY <2>1, <2>2, <3>1 DEF NothingBeforeCreate
  <2>4. ExecutorHasRun' /\ HoldsResult'
    BY <2>1, <2>2 DEF ExecutorHasRun, HoldsResult, Executing
  <2>. QED BY <2>1, <2>3, <2>4 DEF RecordShape
<1>9. ASSUME NEW p \in Projects, DeleteProject(p) \/ DeleteActivity(p) PROVE LifecycleInv'
  <2>1. UNCHANGED <<pc, runs, local>>
    BY <1>9 DEF DeleteProject, DeleteActivity
  <2>. QED BY <2>1 DEF NothingBeforeCreate, RecordShape, ExecutorHasRun, HoldsResult
<1>10. CASE UNCHANGED vars
  BY <1>10 DEF vars, NothingBeforeCreate, RecordShape, ExecutorHasRun, HoldsResult
<1>. QED BY <1>1, <1>2, <1>3, <1>4, <1>5, <1>6, <1>7, <1>8, <1>9, <1>10 DEF Next, Start

\* The initial states of the program are initial states of its promise.
LEMMA LifecycleInit == Init => LifecycleInv /\ Lifecycle!Init
<1>. USE ExecutorFacts
<1>1. Init => NothingBeforeCreate
  BY DEF Init, NothingBeforeCreate, DeliveryInit
<1>2. Init => RecordShape /\ Lifecycle!Init
  BY DEF Init, RecordShape, Lifecycle!Init, Absent, Lifecycle!Absent
<1>3. Init => ExecutorHasRun /\ HoldsResult
  BY DEF Init, ExecutorHasRun, HoldsResult, DeliveryInit, Executing
<1>. QED BY <1>1, <1>2, <1>3 DEF LifecycleInv

\* Only the creating request and a saving executor touch a run record.
LEMMA RunsChange ==
    ASSUME TypeOK, LifecycleInv, [Next]_vars
    PROVE  \/ runs' = runs
           \/ \E j \in Jobs : /\ runs[j] = Absent
                            /\ runs' = [runs EXCEPT ![j] = Running]
           \/ \E e \in Executors :
                 /\ pc[e] = "save"
                 /\ runs[e.job].status # "absent"
                 /\ local[e] \in Lifecycle!Results
                 /\ runs' = [runs EXCEPT ![e.job] = local[e]]
<1>. USE ExecutorFacts DEF LifecycleInv
<1>1. ASSUME NEW j \in Jobs, Start(j) PROVE runs' = runs \/ CreateRun(j)
  BY <1>1 DEF Start, Post, ContextRaises, Enqueue, EnqueueRaises, stores
<1>2. ASSUME NEW j \in Jobs, CreateRun(j)
      PROVE  runs[j] = Absent /\ runs' = [runs EXCEPT ![j] = Running]
  BY <1>2 DEF CreateRun, At, NothingBeforeCreate
<1>3. ASSUME NEW e \in Executors, Execute(e)
      PROVE  \/ runs' = runs
             \/ /\ pc[e] = "save"
                /\ runs[e.job].status # "absent"
                /\ local[e] \in Lifecycle!Results
                /\ runs' = [runs EXCEPT ![e.job] = local[e]]
  BY <1>3, ExecuteEffect DEF ExecutorHasRun, HoldsResult, Executing
<1>4. ASSUME NEW j \in Jobs, Redeliver(j) PROVE runs' = runs
  BY <1>4 DEF Redeliver, stores
<1>5. ASSUME NEW w \in Workers, Deliver(w) PROVE runs' = runs
  BY <1>5 DEF Deliver, stores
<1>6. ASSUME NEW e \in Executors, Crash(e) PROVE runs' = runs
  BY <1>6 DEF Crash, stores
<1>7. ASSUME NEW p \in Projects, DeleteProject(p) \/ DeleteActivity(p) PROVE runs' = runs
  BY <1>7 DEF DeleteProject, DeleteActivity
<1>8. UNCHANGED vars => runs' = runs
  BY DEF vars
<1>. QED BY <1>1, <1>2, <1>3, <1>4, <1>5, <1>6, <1>7, <1>8 DEF Next

\* However events are delivered and answers lost, a finished run is never
\* RUNNING again: agent runs implement the at-least-once promise.
THEOREM RunsAreAtLeastOnce == Spec => LifecycleAtLeastOnce
<1>1. TypeOK /\ LifecycleInv /\ [Next]_vars => [Lifecycle!AtLeastOnceNext]_runs
  <2>. SUFFICES ASSUME TypeOK, LifecycleInv, [Next]_vars, runs' # runs
                PROVE  Lifecycle!AtLeastOnceNext
    OBVIOUS
  <2>1. CASE \E j \in Jobs : runs[j] = Absent /\ runs' = [runs EXCEPT ![j] = Running]
    BY <2>1 DEF Lifecycle!AtLeastOnceNext, Lifecycle!Submit, Absent, Lifecycle!Absent,
                Running, Lifecycle!Running
  <2>2. CASE \E e \in Executors :
                /\ runs[e.job].status # "absent"
                /\ local[e] \in Lifecycle!Results
                /\ runs' = [runs EXCEPT ![e.job] = local[e]]
    <3>1. PICK e \in Executors :
                /\ runs[e.job].status # "absent"
                /\ local[e] \in Lifecycle!Results
                /\ runs' = [runs EXCEPT ![e.job] = local[e]]
      BY <2>2
    <3>2. e.job \in Jobs
      BY ExecutorFacts
    <3>3. CASE runs[e.job] = Running
      BY <3>1, <3>2, <3>3
      DEF Lifecycle!AtLeastOnceNext, Lifecycle!Complete, Running, Lifecycle!Running
    <3>4. CASE runs[e.job] \in Lifecycle!Results
      <4>1. runs[e.job].status \in Lifecycle!Terminal
        BY <3>4 DEF Lifecycle!Results, Lifecycle!Terminal
      <4>. QED BY <3>1, <3>2, <4>1 DEF Lifecycle!AtLeastOnceNext, Lifecycle!Replace
    <3>5. runs[e.job] # Absent
      BY <3>1 DEF Absent
    <3>. QED BY <3>2, <3>3, <3>4, <3>5 DEF LifecycleInv, RecordShape
  <2>. QED BY <2>1, <2>2, RunsChange
<1>. QED BY <1>1, LifecycleInit, LifecycleInvStep, TypeCorrect, PTL
         DEF Spec, LifecycleAtLeastOnce, Lifecycle!AtLeastOnceSpec

-----------------------------------------------------------------------------

\* Of the executor that wrote the shown copy, the copy does not change any more.
LEMMA WrittenByAuditorStep ==
    TypeOK /\ DeliveryInv(Early) /\ WrittenByAuditor /\ [Next]_vars => WrittenByAuditor'
<1>. SUFFICES ASSUME TypeOK, DeliveryInv(Early), WrittenByAuditor, [Next]_vars,
                     NEW j \in Jobs, runs'[j].status \in Terminal
              PROVE  \E e \in Executors :
                        /\ e.job = j
                        /\ local'[e] = runs'[j]
                        /\ \/ pc'[e] \in {"audit", "crashed"}
                           \/ pc'[e] = "done" /\ e \in audits'[j]
  BY DEF WrittenByAuditor
<1>. USE ExecutorFacts
<1>. DEFINE Wrote(e) == /\ e.job = j
                        /\ local[e] = runs[j]
                        /\ \/ pc[e] \in {"audit", "crashed"}
                           \/ pc[e] = "done" /\ e \in audits[j]
            Unread == {"idle", "context", "enqueue", "queued", "invoke",
                       "check project", "record activity", "save"}
<1>1. ASSUME runs'[j] = runs[j], audits[j] \subseteq audits'[j],
             \A f \in Executors : pc[f] \in Unread \/ local'[f] = local[f],
             \A f \in Executors : pc[f] = "audit" =>
                 \/ pc'[f] \in {"audit", "crashed"}
                 \/ pc'[f] = "done" /\ f \in audits'[f.job]
      PROVE  \E e \in Executors : Wrote(e)'
  <2>1. PICK e \in Executors : Wrote(e)
    BY <1>1 DEF WrittenByAuditor
  <2>2. pc[e] \in {"done", "crashed"} => pc'[e] = pc[e]
    BY EndIsFinal, KindsOfSteps, EarlySteps
  <2>. QED BY <1>1, <2>1, <2>2
<1>2. ASSUME NEW i \in Jobs, Start(i) PROVE \E e \in Executors : Wrote(e)'
  <2>1. CASE CreateRun(i)
    <3>1. i # j
      BY <2>1 DEF CreateRun, Running, Terminal, TypeOK
    <3>2. runs'[j] = runs[j] /\ audits' = audits
      BY <2>1, <3>1 DEF CreateRun, TypeOK
    <3>3. \A f \in Executors : pc[f] \in Unread \/ local'[f] = local[f]
      BY <2>1 DEF CreateRun, At, TypeOK
    <3>4. \A f \in Executors : pc[f] = "audit" => pc'[f] = "audit"
      BY <2>1 DEF CreateRun, At, Goto, TypeOK
    <3>. QED BY <1>1, <3>2, <3>3, <3>4
  <2>2. CASE ~CreateRun(i)
    <3>1. UNCHANGED <<runs, audits, local>>
      BY <1>2, <2>2 DEF Start, Post, ContextRaises, Enqueue, EnqueueRaises, stores
    <3>2. \A f \in Executors : pc[f] = "audit" => pc'[f] = "audit"
      <4>1. CASE Post(i) \/ ContextRaises(i)
        BY <4>1 DEF Post, ContextRaises, At, Goto, TypeOK
      <4>2. CASE Enqueue(i) \/ EnqueueRaises(i)
        <5>1. At(Request(i), "enqueue")
          BY <4>2 DEF Enqueue, EnqueueRaises
        <5>2. \A f \in Workers : f.job = i => pc[f] = "absent"
          BY <5>1 DEF DeliveryInv, NoEventBeforeEnqueue, Early, At
        <5>3. \A f \in Executors \ {Request(i), Attempt(i, 1, 1)} : pc'[f] = pc[f]
          BY <4>2 DEF Enqueue, EnqueueRaises, Goto, GotoAccepted, TypeOK
        <5>4. Attempt(i, 1, 1) \in Workers /\ Attempt(i, 1, 1).job = i
          BY AttemptFacts, DeliveryAssumption
        <5>. QED BY <5>1, <5>2, <5>3, <5>4 DEF At
      <4>. QED BY <1>2, <2>2, <4>1, <4>2 DEF Start
    <3>. QED BY <1>1, <3>1, <3>2
  <2>. QED BY <2>1, <2>2
<1>3. ASSUME NEW e \in Executors, Execute(e) PROVE \E f \in Executors : Wrote(f)'
  <2>1. CASE Save(e)
    <3>1. CASE e.job = j
      BY <2>1, <3>1 DEF Save, Goto, TypeOK
    <3>2. CASE e.job # j
      <4>1. runs'[j] = runs[j] /\ audits' = audits /\ local' = local
        BY <2>1, <3>2 DEF Save, TypeOK
      <4>2. \A f \in Executors : pc[f] = "audit" => pc'[f] = "audit"
        BY <2>1 DEF Save, Goto, At, TypeOK
      <4>. QED BY <1>1, <4>1, <4>2
    <3>. QED BY <3>1, <3>2
  <2>2. CASE Audit(e)
    <3>1. runs' = runs /\ local' = local
      BY <2>2 DEF Audit
    <3>2. /\ audits[j] \subseteq audits'[j]
          /\ e \in audits'[e.job]
      BY <2>2 DEF Audit, TypeOK
    <3>3. pc'[e] = "done" /\ \A f \in Executors \ {e} : pc'[f] = pc[f]
      BY <2>2 DEF Audit, Goto, TypeOK
    <3>. QED BY <1>1, <3>1, <3>2, <3>3
  <2>3. CASE ~Save(e) /\ ~Audit(e)
    <3>1. /\ runs' = runs /\ audits' = audits
          /\ pc[e] \in Unread
      BY <1>3, <2>3 DEF Execute, Invoke, InvokeRaises, CheckProject, RecordActivity,
                        RecordActivityRaises, At, stores
    <3>2. \A f \in Executors \ {e} : local'[f] = local[f]
      <4>1. CASE Fail(e)
        BY <4>1 DEF Fail, TypeOK
      <4>2. CASE ~Fail(e)
        BY <1>3, <2>3, <4>2 DEF Execute, Invoke, InvokeRaises, CheckProject,
                                RecordActivity, RecordActivityRaises, TypeOK
      <4>. QED BY <4>1, <4>2
    <3>3. \A f \in Executors : pc[f] = "audit" => pc'[f] = "audit"
      BY <1>3, <2>3 DEF Execute, Invoke, InvokeRaises, CheckProject, RecordActivity,
                        RecordActivityRaises, At, Goto, TypeOK
    <3>. QED BY <1>1, <3>1, <3>2, <3>3
  <2>. QED BY <2>1, <2>2, <2>3
<1>4. ASSUME NEW w \in Workers, Deliver(w) PROVE \E e \in Executors : Wrote(e)'
  <2>1. runs' = runs /\ audits' = audits /\ pc[w] \in Unread
    BY <1>4 DEF Deliver, stores, At
  <2>2. \A f \in Executors : pc[f] \in Unread \/ local'[f] = local[f]
    BY <1>4, <2>1 DEF Deliver, TypeOK
  <2>3. \A f \in Executors : pc[f] = "audit" => pc'[f] = "audit"
    BY <1>4 DEF Deliver, Goto, At, TypeOK
  <2>. QED BY <1>1, <2>1, <2>2, <2>3
<1>5. ASSUME NEW i \in Jobs, Redeliver(i) PROVE \E e \in Executors : Wrote(e)'
  <2>1. runs' = runs /\ audits' = audits /\ local' = local
    BY <1>5 DEF Redeliver, stores
  <2>2. \A f \in Executors : pc[f] = "audit" => pc'[f] = "audit"
    <3>1. PICK c \in 2 .. MaxCopies : Duplicate(i, c)
      BY <1>5 DEF Redeliver
    <3>. QED BY <3>1, DuplicateEffect, StepFacts DEF Duplicate, TypeOK
  <2>. QED BY <1>1, <2>1, <2>2
<1>6. ASSUME NEW f \in Executors, Crash(f) PROVE \E e \in Executors : Wrote(e)'
  <2>1. runs' = runs /\ audits' = audits /\ local' = local
    BY <1>6 DEF Crash, stores
  <2>2. /\ pc[f] \in {"context", "enqueue"} \cup Executing
        /\ pc'[f] = "crashed"
        /\ \A g \in Executors \ {f} :
              \/ pc'[g] = pc[g]
              \/ HasRetry(f) /\ g = NextAttempt(f)
    BY <1>6, CrashEffect, StepFacts DEF Crash, TypeOK
  <2>3. HasRetry(f) => pc[NextAttempt(f)] = "absent"
    BY <2>2 DEF DeliveryInv, RetryAfterCrash, HasRetry, Executing
  <2>4. \A g \in Executors : pc[g] = "audit" => pc'[g] \in {"audit", "crashed"}
    BY <2>2, <2>3
  <2>. QED BY <1>1, <2>1, <2>4
<1>7. ASSUME NEW p \in Projects, DeleteProject(p) \/ DeleteActivity(p)
      PROVE  \E e \in Executors : Wrote(e)'
  BY <1>1, <1>7 DEF DeleteProject, DeleteActivity
<1>8. CASE UNCHANGED vars
  BY <1>1, <1>8 DEF vars
<1>. QED BY <1>2, <1>3, <1>4, <1>5, <1>6, <1>7, <1>8 DEF Next

\* However events are delivered, a finished run lacks its audit event only if
\* an executor died between the put of the run and the put of the event.
THEOREM FinishedRunsAreAudited == Spec => []FinishedRunIsAudited
<1>1. Init => WrittenByAuditor
  BY DEF Init, WrittenByAuditor, Absent, Terminal
<1>2. WrittenByAuditor => FinishedRunIsAudited
  BY DEF WrittenByAuditor, FinishedRunIsAudited
<1>. QED BY <1>1, <1>2, WrittenByAuditorStep, TypeCorrect, DeliveryInvariant,
            PTL DEF Spec

-----------------------------------------------------------------------------

\* A project is live as long as nobody deletes it, and keeps its timeline.
LEMMA LiveKeepsActivity ==
    ASSUME TypeOK, [Next]_vars, NEW j \in Jobs, IsLive(ProjectOf[j])'
    PROVE  IsLive(ProjectOf[j]) /\ (activity[j] # None => activity'[j] # None)
<1>. USE AgentRunsAssumption, ExecutorFacts DEF IsLive
<1>1. ASSUME NEW p \in Projects, DeleteProject(p) \/ DeleteActivity(p)
      PROVE  IsLive(ProjectOf[j]) /\ (activity[j] # None => activity'[j] # None)
  BY <1>1 DEF DeleteProject, DeleteActivity, TypeOK
<1>2. ASSUME NEW i \in Jobs, Start(i) PROVE UNCHANGED <<projects, activity>>
  BY <1>2 DEF Start, Post, ContextRaises, CreateRun, Enqueue, EnqueueRaises, stores
<1>3. ASSUME NEW i \in Jobs, Redeliver(i) PROVE UNCHANGED <<projects, activity>>
  BY <1>3 DEF Redeliver, stores
<1>4. ASSUME NEW w \in Workers, Deliver(w) PROVE UNCHANGED <<projects, activity>>
  BY <1>4 DEF Deliver, stores
<1>5. ASSUME NEW e \in Executors, Execute(e)
      PROVE  projects' = projects /\ (activity[j] # None => activity'[j] # None)
  <2>1. /\ projects' = projects
        /\ activity' = activity \/ activity' = [activity EXCEPT ![e.job] = e]
    BY <1>5 DEF Execute, Invoke, InvokeRaises, CheckProject, RecordActivity,
                RecordActivityRaises, Save, Audit, stores
  <2>2. e # None
    OBVIOUS
  <2>. QED BY <2>1, <2>2 DEF TypeOK
<1>6. ASSUME NEW e \in Executors, Crash(e) PROVE UNCHANGED <<projects, activity>>
  BY <1>6 DEF Crash, stores
<1>7. UNCHANGED vars => UNCHANGED <<projects, activity>>
  BY DEF vars
<1>. QED BY <1>1, <1>2, <1>3, <1>4, <1>5, <1>6, <1>7 DEF Next

\* An executor reaches "save" with a success only over its activity row.
LEMMA ReachSave ==
    ASSUME TypeOK, SavedDraftIsOnTimeline, [Next]_vars,
           NEW e \in Executors, pc'[e] = "save", local'[e].status = "SUCCEEDED",
           e.job \in DraftRuns, IsLive(ProjectOf[e.job])'
    PROVE  activity'[e.job] # None
<1>. USE ExecutorFacts
<1>1. IsLive(ProjectOf[e.job]) /\ (activity[e.job] # None => activity'[e.job] # None)
  BY LiveKeepsActivity
<1>2. CASE pc[e] = "save" /\ local'[e] = local[e]
  BY <1>1, <1>2 DEF SavedDraftIsOnTimeline
<1>3. ASSUME Execute(e) PROVE activity'[e.job] # None
  <2>1. CASE Invoke(e)
    BY <2>1 DEF Invoke, Goto, TypeOK
  <2>2. CASE Fail(e)
    <3>1. local'[e] = [status |-> "FAILED", output |-> local[e].output]
      BY <2>2, FailEffect DEF TypeOK
    <3>. QED BY <3>1
  <2>3. CASE RecordActivity(e)
    <3>1. activity'[e.job] = e
      BY <2>3 DEF RecordActivity, TypeOK
    <3>. QED BY <3>1, AgentRunsAssumption
  <2>4. CASE Save(e) \/ Audit(e)
    BY <2>4 DEF Save, Audit, Goto, TypeOK
  <2>5. CASE CheckProject(e) /\ ~Fail(e)
    BY <2>5, <1>1 DEF CheckProject, Goto, TypeOK
  <2>. QED BY <1>3, <2>1, <2>2, <2>3, <2>4, <2>5
           DEF Execute, InvokeRaises, RecordActivityRaises
<1>4. ASSUME NEW f \in Executors \ {e}, Execute(f) PROVE activity'[e.job] # None
  <2>1. pc'[e] = pc[e]
    BY <1>4 DEF Execute, Invoke, InvokeRaises, CheckProject, RecordActivity,
                RecordActivityRaises, Save, Audit, Goto, TypeOK
  <2>2. CASE Fail(f)
    BY <2>1, <2>2, <1>2, FailEffect DEF TypeOK
  <2>3. CASE ~Fail(f)
    BY <1>4, <2>1, <2>3, <1>2 DEF Execute, Invoke, InvokeRaises, CheckProject,
       RecordActivity, RecordActivityRaises, Save, Audit, TypeOK
  <2>. QED BY <2>2, <2>3
<1>5. ASSUME NEW j \in Jobs, Start(j) PROVE activity'[e.job] # None
  <2>1. CASE Post(j) \/ ContextRaises(j)
    BY <2>1, <1>2 DEF Post, ContextRaises, Goto, TypeOK
  <2>2. CASE CreateRun(j)
    BY <2>2, <1>2 DEF CreateRun, Goto, TypeOK
  <2>3. CASE Enqueue(j) \/ EnqueueRaises(j)
    <3>1. pc'[e] = pc[e] \/ pc'[e] \in {"queued", "done", "invoke"}
      BY <2>3 DEF Enqueue, EnqueueRaises, Goto, GotoAccepted, TypeOK
    <3>. QED BY <2>3, <3>1, <1>2 DEF Enqueue, EnqueueRaises
  <2>. QED BY <1>5, <2>1, <2>2, <2>3 DEF Start
<1>6. ASSUME NEW w \in Workers, Deliver(w) PROVE activity'[e.job] # None
  BY <1>6, <1>2 DEF Deliver, Goto, TypeOK
<1>7. ASSUME NEW j \in Jobs, Redeliver(j) PROVE activity'[e.job] # None
  <2>1. PICK c \in 2 .. MaxCopies : Duplicate(j, c)
    BY <1>7 DEF Redeliver
  <2>2. pc'[e] \in {"queued", pc[e]}
    BY <2>1, DuplicateEffect, StepFacts DEF TypeOK
  <2>. QED BY <1>7, <2>2, <1>2 DEF Redeliver
<1>8. ASSUME NEW f \in Executors, Crash(f) PROVE activity'[e.job] # None
  <2>1. pc'[e] \in {"queued", "crashed", pc[e]}
    BY <1>8, CrashEffect, StepFacts DEF Crash, TypeOK
  <2>. QED BY <1>8, <2>1, <1>2 DEF Crash
<1>9. ASSUME NEW p \in Projects, DeleteProject(p) \/ DeleteActivity(p)
      PROVE  activity'[e.job] # None
  BY <1>9, <1>2 DEF DeleteProject, DeleteActivity
<1>10. CASE UNCHANGED vars
  BY <1>10, <1>2 DEF vars
<1>. QED BY <1>3, <1>4, <1>5, <1>6, <1>7, <1>8, <1>9, <1>10 DEF Next

\* However events are delivered: a section draft that shows SUCCEEDED is on
\* the timeline of its project until somebody deletes the project.
THEOREM SucceededDraftsAreOnTimeline == Spec => []SucceededDraftIsOnTimeline
<1>1. Init => TimelineInv
  BY ExecutorFacts, AgentRunsAssumption
  DEF Init, TimelineInv, SavedDraftIsOnTimeline, SucceededDraftIsOnTimeline,
      DeliveryInit, Absent
<1>2. TypeOK /\ LifecycleInv /\ TimelineInv /\ [Next]_vars => TimelineInv'
  <2>. SUFFICES ASSUME TypeOK, LifecycleInv, TimelineInv, [Next]_vars PROVE TimelineInv'
    OBVIOUS
  <2>1. SavedDraftIsOnTimeline'
    BY ReachSave DEF TimelineInv, SavedDraftIsOnTimeline
  <2>2. ASSUME NEW j \in DraftRuns, runs'[j].status = "SUCCEEDED", IsLive(ProjectOf[j])'
        PROVE  activity'[j] # None
    <3>1. j \in Jobs
      BY AgentRunsAssumption
    <3>2. IsLive(ProjectOf[j]) /\ (activity[j] # None => activity'[j] # None)
      BY <2>2, <3>1, LiveKeepsActivity
    <3>3. CASE runs'[j] = runs[j]
      BY <2>2, <3>2, <3>3 DEF TimelineInv, SucceededDraftIsOnTimeline
    <3>4. CASE runs'[j] # runs[j]
      <4>1. \/ runs'[j] = Running
            \/ \E e \in Executors : pc[e] = "save" /\ e.job = j /\ runs'[j] = local[e]
        BY <3>1, <3>4, RunsChange DEF TypeOK
      <4>. QED BY <2>2, <3>2, <4>1 DEF Running, TimelineInv, SavedDraftIsOnTimeline
    <3>. QED BY <3>3, <3>4
  <2>. QED BY <2>1, <2>2 DEF TimelineInv, SucceededDraftIsOnTimeline
<1>. QED BY <1>1, <1>2, TypeCorrect, LifecycleInit, LifecycleInvStep, PTL
         DEF Spec, TimelineInv

-----------------------------------------------------------------------------
(* Part 2: a single delivery *)

\* With single delivery no copy of an event is a duplicate.
LEMMA NoDuplicates == ASSUME SingleDelivery PROVE 2 .. MaxCopies = {}
  BY DEF SingleDelivery

\* A run that is not stored or is RUNNING is not finished.
LEMMA AbsentIsOpen == Absent.status \notin Terminal /\ Running.status \notin Terminal
  BY DEF Absent, Running, Terminal

\* The step that finishes a run is the last one of the only executor at work.
LEMMA FinishedIsLeftAloneStep ==
    ASSUME SingleDelivery
    PROVE  TypeOK /\ LifecycleInv /\ DeliveryInv(Early) /\ ChainInv /\ FinishedIsLeftAlone
               /\ [Next]_vars => FinishedIsLeftAlone'
<1>. DEFINE Unsaved == {"context", "enqueue", "invoke", "check project",
                        "record activity", "save"}
<1>. SUFFICES ASSUME TypeOK, LifecycleInv, DeliveryInv(Early), ChainInv, FinishedIsLeftAlone,
                     [Next]_vars, NEW e \in Executors,
                     runs'[e.job].status \in Terminal, pc'[e] \in Unsaved
              PROVE  FALSE
  BY DEF FinishedIsLeftAlone
<1>. USE ExecutorFacts
<1>1. ASSUME runs'[e.job] = runs[e.job] PROVE pc[e] \notin Unsaved
  BY <1>1 DEF FinishedIsLeftAlone
<1>2. ASSUME NEW j \in Jobs, Start(j) PROVE FALSE
  <2>1. CASE CreateRun(j)
    <3>1. j # e.job
      BY <2>1 DEF CreateRun, TypeOK, Running, Terminal
    <3>2. runs'[e.job] = runs[e.job] /\ pc'[e] = pc[e]
      BY <2>1, <3>1 DEF CreateRun, Goto, TypeOK
    <3>. QED BY <1>1, <3>2
  <2>2. CASE Post(j)
    <3>1. runs' = runs /\ runs[j] = Absent
      BY <2>2 DEF Post, At, stores, LifecycleInv, NothingBeforeCreate
    <3>2. runs'[j].status \notin Terminal
      BY <3>1, AbsentIsOpen
    <3>3. j # e.job
      BY <3>2
    <3>. QED BY <1>1, <2>2, <3>1, <3>3 DEF Post, Goto, TypeOK
  <2>3. CASE ContextRaises(j)
    BY <1>1, <2>3 DEF ContextRaises, Goto, TypeOK, stores
  <2>4. CASE Enqueue(j) \/ EnqueueRaises(j)
    <3>1. runs' = runs /\ pc[Request(j)] = "enqueue"
      BY <2>4 DEF Enqueue, EnqueueRaises, At, stores
    <3>2. e # Request(j)
      BY <1>1, <3>1
    <3>3. pc'[e] = pc[e] \/ pc'[e] = "queued"
      BY <2>4, <3>2 DEF Enqueue, EnqueueRaises, Goto, GotoAccepted, TypeOK
    <3>. QED BY <1>1, <3>1, <3>3
  <2>. QED BY <1>2, <2>1, <2>2, <2>3, <2>4 DEF Start
<1>3. ASSUME NEW f \in Executors, Execute(f) PROVE FALSE
  <2>1. /\ pc[f] \in Executing
        /\ \A g \in Executors \ {f} : pc'[g] = pc[g]
        /\ \/ runs' = runs
           \/ pc[f] = "save" /\ runs' = [runs EXCEPT ![f.job] = local[f]]
    BY <1>3, ExecuteEffect DEF LifecycleInv
  <2>2. CASE runs' = runs
    <3>1. e = f
      BY <1>1, <2>1, <2>2
    <3>2. pc[e] = "audit"
      BY <1>1, <2>1, <2>2, <3>1 DEF Executing
    <3>. QED BY <1>3, <3>1, <3>2 DEF Execute, Invoke, InvokeRaises, CheckProject,
                RecordActivity, RecordActivityRaises, Save, Audit, At, Goto, TypeOK
  <2>3. CASE pc[f] = "save" /\ runs' = [runs EXCEPT ![f.job] = local[f]]
    <3>1. pc'[f] = "audit"
      BY <1>3, <2>3 DEF Execute, Invoke, InvokeRaises, CheckProject,
         RecordActivity, RecordActivityRaises, Save, Audit, At, Goto, TypeOK
    <3>2. e # f /\ pc[e] \in Unsaved
      BY <2>1, <3>1
    <3>3. e.job # f.job
      BY <2>3, <3>2, OneAtATime DEF SingleDelivery
    <3>. QED BY <1>1, <2>3, <3>2, <3>3 DEF TypeOK
  <2>. QED BY <2>1, <2>2, <2>3
<1>4. ASSUME NEW w \in Workers, Deliver(w) PROVE FALSE
  <2>1. runs' = runs
    BY <1>4 DEF Deliver, stores
  <2>2. CASE e = w
    BY <1>1, <1>4, <2>1, <2>2, DeliverEffect DEF IsOpen
  <2>3. CASE e # w
    BY <1>1, <1>4, <2>1, <2>3 DEF Deliver, Goto, TypeOK
  <2>. QED BY <2>2, <2>3
<1>5. ASSUME NEW j \in Jobs, Redeliver(j) PROVE FALSE
  BY <1>5, NoDuplicates DEF Redeliver
<1>6. ASSUME NEW f \in Executors, Crash(f) PROVE FALSE
  <2>1. pc'[e] \in {"queued", "crashed", pc[e]} /\ runs' = runs
    BY <1>6, CrashEffect, StepFacts DEF Crash, TypeOK, stores
  <2>. QED BY <1>1, <2>1
<1>7. ASSUME NEW p \in Projects, DeleteProject(p) \/ DeleteActivity(p) PROVE FALSE
  BY <1>1, <1>7 DEF DeleteProject, DeleteActivity
<1>8. CASE UNCHANGED vars
  BY <1>1, <1>8 DEF vars
<1>. QED BY <1>2, <1>3, <1>4, <1>5, <1>6, <1>7, <1>8 DEF Next

\* What every reachable state of a single delivery satisfies.
SingleInv == TypeOK /\ LifecycleInv /\ DeliveryInv(Early) /\ ChainInv /\ FinishedIsLeftAlone

\* The invariant of single delivery holds in every behaviour.
LEMMA SingleInvHolds == ASSUME SingleDelivery PROVE Spec => []SingleInv
<1>1. Init => SingleInv
  <2>1. Init => FinishedIsLeftAlone
    <3>1. Init => \A e \in Executors : runs[e.job] = Absent
      BY ExecutorFacts DEF Init
    <3>. QED BY <3>1, AbsentIsOpen DEF FinishedIsLeftAlone
  <2>2. Init => TypeOK
    BY AgentRunsAssumption
    DEF Init, TypeOK, DeliveryInit, Steps, Executing, Records, Absent
  <2>. QED BY <2>1, <2>2, LifecycleInit, DeliveryInvInit, ChainInvInit DEF Init, SingleInv
<1>2. SingleInv /\ [Next]_vars
        => (LifecycleInv /\ DeliveryInv(Early) /\ ChainInv /\ FinishedIsLeftAlone)'
  <2>. SUFFICES ASSUME SingleInv, [Next]_vars
                PROVE  (LifecycleInv /\ DeliveryInv(Early) /\ ChainInv /\ FinishedIsLeftAlone)'
    OBVIOUS
  <2>. USE DEF SingleInv
  <2>1. DeliveryInv(Early)' /\ ChainInv'
    BY KindsOfSteps, EarlySteps, DeliveryInvStep, ChainInvStep
  <2>. QED BY <2>1, LifecycleInvStep, FinishedIsLeftAloneStep
<1>. QED BY <1>1, <1>2, TypeCorrect, PTL DEF Spec, SingleInv

\* With a single delivery the first result of a run is final, however many
\* attempts died before it: agent runs implement the promise to the client.
THEOREM FirstResultIsFinal == ASSUME SingleDelivery PROVE Spec => LifecycleFinal
<1>1. SingleInv /\ [Next]_vars => [Lifecycle!Next]_runs
  <2>. SUFFICES ASSUME SingleInv, [Next]_vars, runs' # runs PROVE Lifecycle!Next
    OBVIOUS
  <2>1. CASE \E j \in Jobs : runs[j] = Absent /\ runs' = [runs EXCEPT ![j] = Running]
    BY <2>1 DEF Lifecycle!Next, Lifecycle!Submit, Absent, Lifecycle!Absent,
                Running, Lifecycle!Running
  <2>2. ASSUME NEW e \in Executors, pc[e] = "save", runs[e.job].status # "absent",
               local[e] \in Lifecycle!Results, runs' = [runs EXCEPT ![e.job] = local[e]]
        PROVE  Lifecycle!Next
    <3>1. runs[e.job].status \notin Terminal
      BY <2>2 DEF SingleInv, FinishedIsLeftAlone
    <3>2. e.job \in Jobs
      BY ExecutorFacts
    <3>3. runs[e.job] = Running
      BY <2>2, <3>1, <3>2
      DEF SingleInv, LifecycleInv, RecordShape, Absent, Terminal, Lifecycle!Results
    <3>. QED BY <2>2, <3>2, <3>3
             DEF Lifecycle!Next, Lifecycle!Complete, Running, Lifecycle!Running
  <2>. QED BY <2>1, <2>2, RunsChange DEF SingleInv
<1>. QED BY <1>1, LifecycleInit, SingleInvHolds, PTL
         DEF Spec, LifecycleFinal, Lifecycle!Spec

\* The row on the timeline is only written while nobody else is at work and the
\* run is open; a project once deleted stays so.
LEMMA DraftRowInvStep ==
    ASSUME SingleDelivery
    PROVE  SingleInv /\ DraftRowInv /\ [Next]_vars => DraftRowInv'
<1>. SUFFICES ASSUME SingleInv, DraftRowInv, [Next]_vars PROVE DraftRowInv'
  OBVIOUS
<1>. DEFINE Answered == {"check project", "record activity", "save"}
            Kept(e) == pc[e] \in Answered /\ local'[e] = local[e] /\ pc'[e] = pc[e]
            SameRow(j) == activity'[j] = activity[j]
                             \/ (activity'[j] = None /\ ~IsLive(ProjectOf[j])')
<1>. USE ExecutorFacts, AgentRunsAssumption DEF SingleInv, DraftRowInv
<1>1. \A j \in Jobs : ~IsLive(ProjectOf[j]) => ~IsLive(ProjectOf[j])'
  BY LiveKeepsActivity
\* Steps that change neither a record nor a copy that is about to be saved.
<1>2. ASSUME runs' = runs, \A j \in Jobs : SameRow(j),
             \A e \in Executors :
                 pc'[e] \in Answered => Kept(e) \/ local'[e].status # "SUCCEEDED"
      PROVE  DraftRowInv'
  <2>1. HoldsOwnDraft'
    <3>. SUFFICES ASSUME NEW e \in Executors, pc'[e] \in Answered,
                         local'[e].status = "SUCCEEDED"
                  PROVE  /\ local'[e].output = e
                         /\ pc'[e] = "save" /\ e.job \in DraftRuns =>
                               activity'[e.job] = e
                                 \/ (activity'[e.job] = None /\ ~IsLive(ProjectOf[e.job])')
      BY DEF HoldsOwnDraft
    <3>1. Kept(e) /\ SameRow(e.job)
      BY <1>2
    <3>. QED BY <1>1, <3>1 DEF HoldsOwnDraft
  <2>2. TimelineMatchesRun'
    BY <1>1, <1>2 DEF TimelineMatchesRun
  <2>. QED BY <2>1, <2>2
<1>3. ASSUME NEW j \in Jobs, Start(j) PROVE DraftRowInv'
  <2>1. activity' = activity
    BY <1>3 DEF Start, Post, ContextRaises, CreateRun, Enqueue, EnqueueRaises, stores
  <2>2. \A e \in Executors : pc'[e] \in Answered => Kept(e)
    <3>1. CASE CreateRun(j)
      BY <3>1 DEF CreateRun, Goto, TypeOK
    <3>2. CASE Post(j) \/ ContextRaises(j)
      BY <3>2 DEF Post, ContextRaises, Goto, TypeOK
    <3>3. CASE Enqueue(j) \/ EnqueueRaises(j)
      <4>1. \A e \in Executors : pc'[e] \in Answered => pc'[e] = pc[e]
        BY ZenonT(40), <3>3 DEF Enqueue, EnqueueRaises, Goto, GotoAccepted, TypeOK
      <4>. QED BY <3>3, <4>1 DEF Enqueue, EnqueueRaises
    <3>. QED BY <1>3, <3>1, <3>2, <3>3 DEF Start
  <2>3. CASE CreateRun(j)
    <3>1. runs' = [runs EXCEPT ![j] = Running]
      BY <2>3 DEF CreateRun
    <3>2. Running.status # "SUCCEEDED" /\ projects' = projects
      BY <2>3 DEF Running, CreateRun
    <3>3. HoldsOwnDraft'
      BY ZenonT(40), <2>1, <2>2, <3>2 DEF HoldsOwnDraft, IsLive
    <3>4. TimelineMatchesRun'
      BY <2>1, <3>1, <3>2 DEF TimelineMatchesRun, TypeOK, IsLive
    <3>. QED BY <3>3, <3>4
  <2>4. CASE ~CreateRun(j)
    <3>1. runs' = runs
      BY <1>3, <2>4 DEF Start, Post, ContextRaises, Enqueue, EnqueueRaises, stores
    <3>. QED BY <1>2, <2>1, <2>2, <3>1
  <2>. QED BY <2>3, <2>4
<1>4. ASSUME NEW f \in Executors, Execute(f) PROVE DraftRowInv'
  <2>1. ASSUME runs' = runs, activity' = activity,
               local'[f].status # "SUCCEEDED" \/ pc'[f] \notin Answered,
               \A e \in Executors \ {f} : pc'[e] = pc[e] /\ local'[e] = local[e]
        PROVE  DraftRowInv'
    BY <1>2, <2>1
  <2>2. ASSUME Fail(f) PROVE local'[f].status # "SUCCEEDED"
    <3>1. local'[f] = [status |-> "FAILED", output |-> local[f].output]
      BY <2>2, FailEffect DEF TypeOK
    <3>. QED BY <3>1
  <2>3. \A e \in Executors \ {f} : pc'[e] = pc[e] /\ local'[e] = local[e]
    BY <1>4, ExecuteEffect DEF LifecycleInv
  <2>4. CASE Invoke(f)
    <3>1. runs' = runs /\ activity' = activity /\ projects' = projects
      BY <2>4 DEF Invoke
    <3>2. local'[f].output = f /\ (pc'[f] = "save" => f.job \notin DraftRuns)
      BY <2>4 DEF Invoke, Goto, TypeOK
    <3>3. HoldsOwnDraft'
      BY ZenonT(40), <2>3, <3>1, <3>2 DEF HoldsOwnDraft, IsLive
    <3>4. TimelineMatchesRun'
      BY <3>1 DEF TimelineMatchesRun, IsLive
    <3>. QED BY <3>3, <3>4
  <2>5. CASE InvokeRaises(f)
    BY <2>1, <2>2, <2>3, <2>5 DEF InvokeRaises, stores
  <2>6. CASE CheckProject(f)
    <3>1. CASE local' = local /\ pc'[f] = "record activity"
      <4>1. /\ runs' = runs /\ activity' = activity /\ projects' = projects
            /\ pc[f] = "check project"
        BY <2>6, CheckEffect DEF stores
      <4>2. HoldsOwnDraft'
        BY <2>3, <3>1, <4>1 DEF HoldsOwnDraft, IsLive
      <4>3. TimelineMatchesRun'
        BY <4>1 DEF TimelineMatchesRun, IsLive
      <4>. QED BY <4>2, <4>3
    <3>2. CASE Fail(f)
      BY <2>1, <2>2, <2>3, <2>6, <3>2 DEF CheckProject, stores
    <3>. QED BY <2>6, <3>1, <3>2, CheckEffect
  <2>7. CASE RecordActivity(f) \/ RecordActivityRaises(f)
    <3>1. pc[f] = "record activity" /\ pc'[f] = "save" /\ runs' = runs /\ projects' = projects
      BY <2>7 DEF RecordActivity, RecordActivityRaises, At, Goto, TypeOK
    <3>2. activity' = activity \/ activity' = [activity EXCEPT ![f.job] = f]
      BY <2>7 DEF RecordActivity, RecordActivityRaises
    <3>3. \A i \in Jobs \ {f.job} : activity'[i] = activity[i]
      BY <3>2 DEF TypeOK
    <3>4. runs[f.job].status # "SUCCEEDED"
      BY <3>1 DEF FinishedIsLeftAlone, Terminal
    <3>5. \A e \in Executors \ {f} : pc[e] \in Answered => e.job # f.job
      BY <3>1, OneAtATime DEF SingleDelivery
    <3>6. TimelineMatchesRun'
      BY <3>1, <3>3, <3>4 DEF TimelineMatchesRun, IsLive
    <3>7. CASE RecordActivity(f)
      <4>1. activity'[f.job] = f /\ local' = local
        BY <3>7 DEF RecordActivity, TypeOK
      <4>2. HoldsOwnDraft'
        <5>. SUFFICES ASSUME NEW e \in Executors, pc'[e] \in Answered,
                             local'[e].status = "SUCCEEDED"
                      PROVE  /\ local'[e].output = e
                             /\ pc'[e] = "save" /\ e.job \in DraftRuns =>
                                   activity'[e.job] = e
                                     \/ (activity'[e.job] = None /\ ~IsLive(ProjectOf[e.job])')
          BY DEF HoldsOwnDraft
        <5>1. CASE e = f
          BY <3>1, <4>1, <5>1 DEF HoldsOwnDraft
        <5>2. CASE e # f
          <6>1. pc[e] \in Answered /\ local[e].status = "SUCCEEDED" /\ pc'[e] = pc[e]
                  /\ local'[e] = local[e]
            BY <2>3, <5>2
          <6>2. activity'[e.job] = activity[e.job]
            BY <3>3, <3>5, <5>2, <6>1
          <6>. QED BY <3>1, <6>1, <6>2 DEF HoldsOwnDraft, IsLive
        <5>. QED BY <5>1, <5>2
      <4>. QED BY <3>6, <4>2
    <3>8. CASE RecordActivityRaises(f)
      <4>1. local'[f].status # "SUCCEEDED"
        BY <2>2, <3>8 DEF RecordActivityRaises
      <4>2. HoldsOwnDraft'
        <5>. SUFFICES ASSUME NEW e \in Executors, pc'[e] \in Answered,
                             local'[e].status = "SUCCEEDED"
                      PROVE  /\ local'[e].output = e
                             /\ pc'[e] = "save" /\ e.job \in DraftRuns =>
                                   activity'[e.job] = e
                                     \/ (activity'[e.job] = None /\ ~IsLive(ProjectOf[e.job])')
          BY DEF HoldsOwnDraft
        <5>1. e # f
          BY <4>1
        <5>2. pc[e] \in Answered /\ local[e].status = "SUCCEEDED" /\ pc'[e] = pc[e]
                /\ local'[e] = local[e]
          BY <2>3, <5>1
        <5>3. activity'[e.job] = activity[e.job]
          BY <3>3, <3>5, <5>1, <5>2
        <5>. QED BY <3>1, <5>2, <5>3 DEF HoldsOwnDraft, IsLive
      <4>. QED BY <3>6, <4>2
    <3>. QED BY <2>7, <3>7, <3>8
  <2>8. CASE Save(f)
    <3>1. /\ pc[f] = "save" /\ runs' = [runs EXCEPT ![f.job] = local[f]]
          /\ local' = local /\ activity' = activity /\ projects' = projects
          /\ pc'[f] = "audit"
      BY <2>8 DEF Save, At, Goto, TypeOK
    <3>2. HoldsOwnDraft'
      BY <2>3, <3>1 DEF HoldsOwnDraft, IsLive
    <3>3. TimelineMatchesRun'
      <4>. SUFFICES ASSUME NEW j \in DraftRuns, runs'[j].status = "SUCCEEDED"
                    PROVE  activity'[j] = runs'[j].output
                             \/ (activity'[j] = None /\ ~IsLive(ProjectOf[j])')
        BY DEF TimelineMatchesRun
      <4>1. j \in Jobs /\ f.job \in Jobs
        OBVIOUS
      <4>2. CASE j = f.job
        <5>1. runs'[j] = local[f]
          BY <3>1, <4>1, <4>2 DEF TypeOK
        <5>. QED BY <3>1, <4>2, <5>1 DEF HoldsOwnDraft, IsLive
      <4>3. CASE j # f.job
        <5>1. runs'[j] = runs[j]
          BY <3>1, <4>1, <4>3 DEF TypeOK
        <5>. QED BY <3>1, <5>1 DEF TimelineMatchesRun, IsLive
      <4>. QED BY <4>2, <4>3
    <3>. QED BY <3>2, <3>3
  <2>9. CASE Audit(f)
    BY <2>1, <2>3, <2>9 DEF Audit, Goto, TypeOK
  <2>. QED BY <1>4, <2>4, <2>5, <2>6, <2>7, <2>8, <2>9 DEF Execute
<1>5. ASSUME NEW w \in Workers, Deliver(w) PROVE DraftRowInv'
  <2>1. \A e \in Executors : pc'[e] \in Answered => Kept(e)
    BY <1>5 DEF Deliver, Goto, TypeOK
  <2>. QED BY <1>2, <1>5, <2>1 DEF Deliver, stores
<1>6. ASSUME NEW j \in Jobs, Redeliver(j) PROVE DraftRowInv'
  BY <1>6, NoDuplicates DEF Redeliver
<1>7. ASSUME NEW f \in Executors, Crash(f) PROVE DraftRowInv'
  <2>1. \A e \in Executors : pc'[e] \in {"queued", "crashed", pc[e]}
    BY <1>7, CrashEffect, StepFacts DEF Crash, TypeOK
  <2>. QED BY <1>2, <1>7, <2>1 DEF Crash, stores
<1>8. ASSUME NEW p \in Projects, DeleteProject(p) PROVE DraftRowInv'
  BY <1>2, <1>8 DEF DeleteProject
<1>9. ASSUME NEW p \in Projects, DeleteActivity(p) PROVE DraftRowInv'
  <2>1. \A j \in Jobs : SameRow(j)
    BY <1>9 DEF DeleteActivity, IsLive, TypeOK
  <2>. QED BY <1>2, <1>9, <2>1 DEF DeleteActivity
<1>10. CASE UNCHANGED vars
  BY <1>2, <1>10 DEF vars
<1>. QED BY <1>3, <1>4, <1>5, <1>6, <1>7, <1>8, <1>9, <1>10 DEF Next

\* With a single delivery, the timeline entry of a SUCCEEDED draft comes from
\* the execution whose result the run shows, or went with its project.
THEOREM TimelinesMatchRuns == ASSUME SingleDelivery PROVE Spec => []TimelineMatchesRun
<1>1. Init => DraftRowInv
  <2>1. Init => HoldsOwnDraft
    BY ExecutorFacts DEF Init, DeliveryInit, HoldsOwnDraft
  <2>2. Init => TimelineMatchesRun
    BY AgentRunsAssumption DEF Init, Absent, TimelineMatchesRun
  <2>. QED BY <2>1, <2>2 DEF DraftRowInv
<1>2. DraftRowInv => TimelineMatchesRun
  BY DEF DraftRowInv
<1>. QED BY <1>1, <1>2, DraftRowInvStep, SingleInvHolds, PTL DEF Spec

\* Only an executor that gets the agent's answer adds to the corpus.
LEMMA DraftsChange ==
    ASSUME TypeOK, [Next]_vars, drafts' # drafts
    PROVE  \E e \in Executors : Advances(e, Early) /\ pc[e] = "invoke"
              /\ pc'[e] \in {"check project", "save"}
              /\ drafts' = [drafts EXCEPT ![e.job] = @ \cup {e}]
<1>1. ASSUME NEW j \in Jobs, Start(j) PROVE drafts' = drafts
  BY <1>1 DEF Start, Post, ContextRaises, CreateRun, Enqueue, EnqueueRaises, stores
<1>2. ASSUME NEW j \in Jobs, Redeliver(j) PROVE drafts' = drafts
  BY <1>2 DEF Redeliver, stores
<1>3. ASSUME NEW w \in Workers, Deliver(w) PROVE drafts' = drafts
  BY <1>3 DEF Deliver, stores
<1>4. ASSUME NEW e \in Executors, Execute(e) PROVE drafts' = drafts \/ Invoke(e)
  BY <1>4 DEF Execute, InvokeRaises, CheckProject, RecordActivity,
              RecordActivityRaises, Save, Audit, stores
<1>5. ASSUME NEW e \in Executors, Crash(e) PROVE drafts' = drafts
  BY <1>5 DEF Crash, stores
<1>6. ASSUME NEW p \in Projects, DeleteProject(p) \/ DeleteActivity(p)
      PROVE  drafts' = drafts
  BY <1>6 DEF DeleteProject, DeleteActivity
<1>7. UNCHANGED vars => drafts' = drafts
  BY DEF vars
<1>8. PICK e \in Executors : Invoke(e)
  BY <1>1, <1>2, <1>3, <1>4, <1>5, <1>6, <1>7 DEF Next
<1>9. Advances(e, Early) /\ pc[e] = "invoke" /\ pc'[e] \in {"check project", "save"}
  BY <1>8 DEF Invoke, Goto, At, Advances, Early, TypeOK
<1>. QED BY <1>8, <1>9 DEF Invoke

\* The steps from the agent's answer on are never left for an earlier one.
LEMMA DraftAuthorsStep ==
    ASSUME TypeOK, TypeOK', DeliveryInv(Early), DraftAuthors, [Next]_vars
    PROVE  DraftAuthors'
<1>. DEFINE Author == {"check project", "record activity", "save", "audit",
                       "done", "crashed"}
<1>. USE ExecutorFacts
<1>1. \A e \in Executors : pc[e] \in Author => pc'[e] \in Author
  <2>. SUFFICES ASSUME NEW e \in Executors, pc[e] \in Author PROVE pc'[e] \in Author
    OBVIOUS
  <2>1. ASSUME Advances(e, Early) PROVE pc'[e] \in Author
    BY <2>1, InvokeComesFirst DEF Advances, Early, TypeOK, Steps, Executing
  <2>. QED BY <2>1, WorkGoesOn, KindsOfSteps, EarlySteps
<1>2. drafts \in [Jobs -> SUBSET Executors]
  BY DEF TypeOK
<1>3. CASE drafts' = drafts
  BY <1>1, <1>2, <1>3 DEF DraftAuthors
<1>4. CASE drafts' # drafts
  <2>1. PICK f \in Executors :
           /\ pc'[f] \in {"check project", "save"}
           /\ drafts' = [drafts EXCEPT ![f.job] = @ \cup {f}]
    BY <1>4, DraftsChange
  <2>2. \A j \in Jobs : \A e \in drafts'[j] : e \in drafts[j] \/ (e = f /\ j = f.job)
    BY <1>2, <2>1
  <2>3. \A j \in Jobs : \A e \in drafts[j] : e.job = j /\ pc[e] \in Author /\ e \in Executors
    BY <1>2 DEF DraftAuthors
  <2>4. \A j \in Jobs : \A e \in drafts'[j] : e.job = j /\ pc'[e] \in Author
    BY <1>1, <2>1, <2>2, <2>3
  <2>. QED BY <2>4 DEF DraftAuthors
<1>. QED BY <1>3, <1>4

\* A request that drafted is not followed by a worker.
LEMMA RequestDraftsAloneStep ==
    ASSUME SingleInv, DraftInv, [Next]_vars
    PROVE  RequestDraftsAlone'
<1>. SUFFICES ASSUME NEW w \in Workers, Request(w.job) \in drafts'[w.job]
              PROVE  pc'[w] = "absent"
  BY DEF RequestDraftsAlone
<1>. USE ExecutorFacts DEF SingleInv, DraftInv
<1>1. CASE Request(w.job) \in drafts[w.job]
  <2>1. pc[w] = "absent" /\ pc[Request(w.job)] # "enqueue"
    BY <1>1 DEF RequestDraftsAlone, DraftAuthors
  <2>2. \A v \in Workers : v.job = w.job => pc[v] = "absent"
    BY <1>1 DEF RequestDraftsAlone
  <2>3. ASSUME NEW e \in Executors, Advances(e, Early) PROVE pc'[w] = "absent"
    BY <2>1, <2>3 DEF Advances, Early
  <2>4. ASSUME NEW j \in Jobs, Accepted(j, After) PROVE pc'[w] = "absent"
    BY <2>1, <2>4, FirstAttempt DEF Accepted
  <2>5. ASSUME NEW j \in Jobs, NEW c \in 2 .. MaxCopies, Repeated(j, c)
        PROVE  pc'[w] = "absent"
    <3>1. c \in 1 .. MaxCopies /\ 1 \in 1 .. MaxCopies
      BY DeliveryAssumption
    <3>2. /\ Attempt(j, 1, 1) \in Workers /\ Attempt(j, 1, 1).job = j
          /\ Attempt(j, c, 1).job = j
      BY <3>1, AttemptFacts
    <3>. QED BY <2>1, <2>2, <2>5, <3>2 DEF Repeated
  <2>6. ASSUME NEW v \in Workers, Retried(v) PROVE pc'[w] = "absent"
    <3>1. NextAttempt(v).job = v.job
      BY <2>6, AttemptFacts DEF Retried
    <3>. QED BY <2>1, <2>2, <2>6, <3>1 DEF Retried
  <2>. QED BY <2>1, <2>3, <2>4, <2>5, <2>6, KindsOfSteps DEF DeliveryStep
<1>2. CASE Request(w.job) \notin drafts[w.job]
  <2>1. PICK e \in Executors : Advances(e, Early) /\ pc[e] = "invoke"
                /\ drafts' = [drafts EXCEPT ![e.job] = @ \cup {e}]
    BY <1>2, DraftsChange
  <2>2. e = Request(w.job)
    BY <1>2, <2>1 DEF TypeOK
  <2>3. pc[w] = "absent"
    BY <2>1, <2>2 DEF ChainInv, HandedOver
  <2>. QED BY <2>1, <2>2, <2>3 DEF Advances, Early
<1>. QED BY <1>1, <1>2

\* With a single delivery, two draft events of one run mean that one of their
\* executors died.
THEOREM TwoDraftsMeanACrash == ASSUME SingleDelivery PROVE Spec => []TwoDraftsOnlyAfterCrash
<1>1. Init => DraftInv
  BY DEF Init, DraftInv, DraftAuthors, RequestDraftsAlone, Workers
<1>2. SingleInv /\ SingleInv' /\ DraftInv /\ [Next]_vars => DraftInv'
  BY DraftAuthorsStep, RequestDraftsAloneStep DEF SingleInv, DraftInv
<1>3. SingleInv /\ DraftInv => TwoDraftsOnlyAfterCrash
  <2>. SUFFICES ASSUME SingleInv, DraftInv, NEW j \in Jobs,
                       NEW e \in drafts[j], NEW f \in drafts[j], e # f
                PROVE  pc[e] = "crashed" \/ pc[f] = "crashed"
    BY DEF TwoDraftsOnlyAfterCrash
  <2>. USE ExecutorFacts DEF SingleInv, DraftInv
  <2>1. /\ e \in Executors /\ e.job = j /\ pc[e] # "absent"
        /\ f \in Executors /\ f.job = j /\ pc[f] # "absent"
    BY DEF TypeOK, DraftAuthors
  <2>2. e \in Workers /\ f \in Workers
    BY <2>1 DEF RequestDraftsAlone
  <2>3. e.copy = f.copy /\ e.attempt \in Nat /\ f.attempt \in Nat
    BY <2>2 DEF Workers, SingleDelivery
  <2>4. e.attempt # f.attempt
    BY <2>1, <2>2, <2>3 DEF Workers
  <2>5. e.attempt < f.attempt \/ f.attempt < e.attempt
    BY <2>3, <2>4
  <2>. QED BY <2>1, <2>2, <2>5 DEF ChainInv, EarlierCrashed
<1>. QED BY <1>1, <1>2, <1>3, SingleInvHolds, PTL DEF Spec

=============================================================================
