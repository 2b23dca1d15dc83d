------------------------- MODULE AsyncDeliveryProofs ------------------------
(***************************************************************************)
(* Lemmas about AsyncDelivery, shared by the proofs about the three kinds  *)
(* of jobs.                                                                *)
(*                                                                         *)
(* A job module names the steps `early` that a request passes before it    *)
(* has handed its job over ("enqueue" is the last of them), and the steps  *)
(* `after` to which it goes when Lambda has taken the event.  Once every   *)
(* step of the module is known to be one of five kinds (DeliveryStep), the *)
(* order in which the executors of a job come about follows.               *)
(***************************************************************************)
EXTENDS AsyncDelivery, TLAPS

-----------------------------------------------------------------------------
(* Executors *)

\* A request and the attempts of its event are executors of its job.
LEMMA ExecutorFacts ==
    /\ Workers \subseteq Executors
    /\ Requests = Executors \ Workers
    /\ \A e \in Executors : e.job \in Jobs
    /\ \A e \in Executors \ Workers : e = Request(e.job)
    /\ \A j \in Jobs : Request(j) \in Executors \ Workers /\ Request(j).job = j
  <1>1. \A w \in Workers : w.copy # 0 /\ w.job \in Jobs
    BY DEF Workers
  <1>2. \A r \in Requests : r.copy = 0 /\ r = Request(r.job) /\ r.job \in Jobs
    BY DEF Requests, Request
  <1>3. Requests = Executors \ Workers
    BY <1>1, <1>2 DEF Executors
  <1>4. \A j \in Jobs : Request(j) \in Requests /\ Request(j).job = j
    BY DEF Requests, Request
  <1>. QED BY <1>1, <1>2, <1>3, <1>4 DEF Executors

\* The first attempt of a copy is nobody's next attempt, and an attempt is the
\* next one of at most one other.
LEMMA AttemptFacts ==
    /\ \A j \in Jobs : \A c \in 1 .. MaxCopies :
          Attempt(j, c, 1) \in Workers /\ Attempt(j, c, 1).job = j
    /\ \A w \in Workers :
          HasRetry(w) =>
              /\ NextAttempt(w) \in Workers \ {w}
              /\ NextAttempt(w).job = w.job
              /\ NextAttempt(w).attempt = w.attempt + 1
              /\ \A v \in Workers :
                    HasRetry(v) /\ NextAttempt(v) = NextAttempt(w) => v = w
              /\ \A j \in Jobs : \A c \in 1 .. MaxCopies :
                    NextAttempt(w) # Attempt(j, c, 1)
  <1>1. \A j \in Jobs : \A c \in 1 .. MaxCopies :
          Attempt(j, c, 1) \in Workers /\ Attempt(j, c, 1).job = j
    BY DeliveryAssumption DEF Workers, Attempt
  <1>2. \A w \in Workers :
          HasRetry(w) =>
              /\ NextAttempt(w) \in Workers \ {w}
              /\ NextAttempt(w).job = w.job
              /\ NextAttempt(w).attempt = w.attempt + 1
    BY DeliveryAssumption DEF Workers, HasRetry, NextAttempt, Attempt
  <1>3. \A v, w \in Workers :
          HasRetry(v) /\ HasRetry(w) /\ NextAttempt(v) = NextAttempt(w) => v = w
    BY DEF Workers, NextAttempt, Attempt
  <1>4. \A w \in Workers : \A j \in Jobs : \A c \in 1 .. MaxCopies :
          HasRetry(w) => NextAttempt(w) # Attempt(j, c, 1)
    BY DEF Workers, NextAttempt, Attempt
  <1>. QED BY <1>1, <1>2, <1>3, <1>4

\* The event of a job has a first attempt.
LEMMA FirstAttempt ==
    \A j \in Jobs : Attempt(j, 1, 1) \in Workers /\ Attempt(j, 1, 1).job = j
  <1>1. 1 \in 1 .. MaxCopies
    BY DeliveryAssumption
  <1>. QED BY <1>1, AttemptFacts

\* A step of an executor moves that executor only.
LEMMA GotoEffect ==
    ASSUME NEW S, pc \in [Executors -> S], NEW e \in Executors, NEW step \in S,
           Goto(e, step)
    PROVE  /\ pc' \in [Executors -> S]
           /\ pc'[e] = step
           /\ \A f \in Executors \ {e} : pc'[f] = pc[f]
  BY DEF Goto

\* A lost or repeated answer changes only the request and the first attempt.
LEMMA AcceptedEffect ==
    ASSUME NEW S, pc \in [Executors -> S], "queued" \in S,
           NEW j \in Jobs, NEW step \in S, GotoAccepted(j, step)
    PROVE  /\ pc' \in [Executors -> S]
           /\ pc'[Request(j)] = step
           /\ pc'[Attempt(j, 1, 1)] = "queued"
           /\ \A f \in Executors \ {Request(j), Attempt(j, 1, 1)} : pc'[f] = pc[f]
  <1>1. Request(j) \in Executors /\ Attempt(j, 1, 1) \in Workers
    BY ExecutorFacts, FirstAttempt
  <1>2. Request(j) # Attempt(j, 1, 1) /\ Attempt(j, 1, 1) \in Executors
    BY <1>1, ExecutorFacts
  <1>. QED BY <1>1, <1>2 DEF GotoAccepted

\* A crash queues at most one worker of the same job.
LEMMA CrashEffect ==
    ASSUME NEW S, pc \in [Executors -> S], "queued" \in S, "crashed" \in S,
           NEW e \in Executors, NEW steps, CrashAt(e, steps)
    PROVE  /\ pc' \in [Executors -> S]
           /\ pc[e] \in steps
           /\ pc'[e] = "crashed"
           /\ \A f \in Executors \ {e} :
                 \/ pc'[f] = pc[f]
                 \/ /\ pc'[f] = "queued"
                    /\ HasRetry(e)
                    /\ f = NextAttempt(e)
  <1>1. HasRetry(e) => NextAttempt(e) \in Executors \ {e}
    BY ExecutorFacts, AttemptFacts DEF HasRetry
  <1>. QED BY <1>1 DEF CrashAt, Goto

\* A duplicate queues one worker of an accepted event.
LEMMA DuplicateEffect ==
    ASSUME NEW S, pc \in [Executors -> S], "queued" \in S,
           NEW j \in Jobs, NEW c \in 2 .. MaxCopies, Duplicate(j, c)
    PROVE  /\ pc' \in [Executors -> S]
           /\ Attempt(j, c, 1) \in Workers
           /\ pc[Attempt(j, 1, 1)] # "absent"
           /\ pc[Attempt(j, c, 1)] = "absent"
           /\ pc'[Attempt(j, c, 1)] = "queued"
           /\ \A f \in Executors \ {Attempt(j, c, 1)} : pc'[f] = pc[f]
  <1>1. c \in 1 .. MaxCopies
    BY DeliveryAssumption
  <1>2. Attempt(j, c, 1) \in Workers /\ Attempt(j, c, 1) \in Executors
    BY <1>1, ExecutorFacts, AttemptFacts
  <1>. QED BY <1>2 DEF Duplicate, Goto

-----------------------------------------------------------------------------
(* The kinds of steps *)

\* An executor goes on, returns or dies for good.
Advances(e, early) ==
    /\ pc[e] \notin {"absent", "done", "crashed"}
    /\ pc'[e] \notin {"absent", "queued"}
    /\ pc'[e] \in early => pc[e] \in early
    /\ \A f \in Executors \ {e} : pc'[f] = pc[f]

\* Lambda has taken the event of job j.
Accepted(j, after) ==
    /\ pc[Request(j)] = "enqueue"
    /\ pc'[Request(j)] \in after
    /\ pc'[Attempt(j, 1, 1)] = "queued"
    /\ \A f \in Executors \ {Request(j), Attempt(j, 1, 1)} : pc'[f] = pc[f]

\* Lambda delivers the event of job j once more.
Repeated(j, c) ==
    /\ pc[Attempt(j, 1, 1)] # "absent"
    /\ pc[Attempt(j, c, 1)] = "absent"
    /\ pc'[Attempt(j, c, 1)] = "queued"
    /\ \A f \in Executors \ {Attempt(j, c, 1)} : pc'[f] = pc[f]

\* A worker died and Lambda will make another attempt.
Retried(w) ==
    /\ HasRetry(w)
    /\ pc[w] \notin {"absent", "done", "crashed"}
    /\ pc'[w] = "crashed"
    /\ pc'[NextAttempt(w)] = "queued"
    /\ \A f \in Executors \ {w, NextAttempt(w)} : pc'[f] = pc[f]

DeliveryStep(early, after) ==
    \/ pc' = pc
    \/ \E e \in Executors : Advances(e, early)
    \/ \E j \in Jobs : Accepted(j, after)
    \/ \E j \in Jobs, c \in 2 .. MaxCopies : Repeated(j, c)
    \/ \E w \in Workers : Retried(w)

\* A crash is a step of one of two of the kinds.
LEMMA CrashKind ==
    ASSUME NEW S, pc \in [Executors -> S], NEW e \in Executors,
           NEW steps, NEW early, CrashAt(e, steps),
           {"absent", "done", "crashed"} \cap steps = {}, "crashed" \notin early
    PROVE  Advances(e, early) \/ (e \in Workers /\ Retried(e))
  <1>1. pc[e] \in steps
    BY DEF CrashAt
  <1>2. CASE ~HasRetry(e)
    BY <1>1, <1>2 DEF CrashAt, Goto, Advances
  <1>3. CASE HasRetry(e)
    <2>1. e \in Workers /\ NextAttempt(e) \in Executors \ {e}
      BY <1>3, AttemptFacts, ExecutorFacts DEF HasRetry
    <2>2. pc' = [pc EXCEPT ![e] = "crashed", ![NextAttempt(e)] = "queued"]
      BY <1>3 DEF CrashAt
    <2>. QED BY <1>1, <1>3, <2>1, <2>2 DEF Retried
  <1>. QED BY <1>2, <1>3

-----------------------------------------------------------------------------
(* What holds for every delivery *)

\* No worker is about before the request has tried to enqueue the event.
NoEventBeforeEnqueue(early) ==
    \A j \in Jobs :
        pc[Request(j)] \in early =>
            \A w \in Workers : w.job = j => pc[w] = "absent"

\* An attempt is made only after the one before it has died.
RetryAfterCrash ==
    \A w \in Workers :
        HasRetry(w) /\ pc[NextAttempt(w)] # "absent" => pc[w] = "crashed"

DeliveryInv(early) == NoEventBeforeEnqueue(early) /\ RetryAfterCrash

\* At first no event is about.
LEMMA DeliveryInvInit == ASSUME NEW early PROVE DeliveryInit => DeliveryInv(early)
  <1>1. \A w \in Workers : HasRetry(w) => NextAttempt(w) \in Workers
    BY AttemptFacts
  <1>. QED BY <1>1, ExecutorFacts
           DEF DeliveryInit, DeliveryInv, NoEventBeforeEnqueue, RetryAfterCrash

\* No event is out before its request tried to enqueue it, and attempts follow
\* crashes: inductive, because only the steps of the executors matter.
LEMMA DeliveryInvStep ==
    ASSUME NEW early, NEW after, early \cap after = {}, "enqueue" \in early,
           "crashed" \notin early,
           DeliveryInv(early), DeliveryStep(early, after)
    PROVE  DeliveryInv(early)'
<1>. USE ExecutorFacts DEF DeliveryInv
<1>1. CASE pc' = pc
  BY <1>1 DEF NoEventBeforeEnqueue, RetryAfterCrash
<1>2. ASSUME NEW e \in Executors, Advances(e, early) PROVE DeliveryInv(early)'
  <2>1. NoEventBeforeEnqueue(early)'
    BY <1>2 DEF Advances, NoEventBeforeEnqueue
  <2>2. \A w \in Workers : HasRetry(w) => NextAttempt(w) \in Executors
    BY AttemptFacts
  <2>3. RetryAfterCrash'
    BY <1>2, <2>2 DEF Advances, RetryAfterCrash
  <2>. QED BY <2>1, <2>3
<1>3. ASSUME NEW j \in Jobs, Accepted(j, after) PROVE DeliveryInv(early)'
  <2>1. Attempt(j, 1, 1) \in Workers /\ Attempt(j, 1, 1).job = j
    BY FirstAttempt
  <2>2. NoEventBeforeEnqueue(early)'
    BY <1>3, <2>1 DEF Accepted, NoEventBeforeEnqueue
  <2>3. \A w \in Workers :
          HasRetry(w) => NextAttempt(w) \in Workers \ {Attempt(j, 1, 1)}
    BY AttemptFacts, DeliveryAssumption
  <2>4. pc[Attempt(j, 1, 1)] = "absent"
    BY <1>3, <2>1 DEF Accepted, NoEventBeforeEnqueue
  <2>5. RetryAfterCrash'
    BY <1>3, <2>1, <2>3, <2>4 DEF Accepted, RetryAfterCrash
  <2>. QED BY <2>2, <2>5
<1>4. ASSUME NEW j \in Jobs, NEW c \in 2 .. MaxCopies, Repeated(j, c)
      PROVE  DeliveryInv(early)'
  <2>1. c \in 1 .. MaxCopies /\ 1 \in 1 .. MaxCopies
    BY DeliveryAssumption
  <2>2. /\ Attempt(j, 1, 1) \in Workers /\ Attempt(j, 1, 1).job = j
        /\ Attempt(j, c, 1) \in Workers /\ Attempt(j, c, 1).job = j
    BY <2>1, AttemptFacts
  <2>3. NoEventBeforeEnqueue(early)'
    BY <1>4, <2>2 DEF Repeated, NoEventBeforeEnqueue
  <2>4. \A w \in Workers :
          HasRetry(w) => NextAttempt(w) \in Workers \ {Attempt(j, c, 1)}
    BY <2>1, AttemptFacts
  <2>5. RetryAfterCrash'
    BY <1>4, <2>2, <2>4 DEF Repeated, RetryAfterCrash
  <2>. QED BY <2>3, <2>5
<1>5. ASSUME NEW w \in Workers, Retried(w) PROVE DeliveryInv(early)'
  <2>1. /\ NextAttempt(w) \in Workers \ {w} /\ NextAttempt(w).job = w.job
        /\ pc[NextAttempt(w)] = "absent"
    BY <1>5, AttemptFacts DEF Retried, RetryAfterCrash
  <2>2. NoEventBeforeEnqueue(early)'
    BY <1>5, <2>1 DEF Retried, NoEventBeforeEnqueue
  <2>3. \A v \in Workers \ {w} :
          HasRetry(v) => NextAttempt(v) \in Workers \ {NextAttempt(w)}
    BY <1>5, AttemptFacts DEF Retried
  <2>4. RetryAfterCrash'
    <3>. SUFFICES ASSUME NEW v \in Workers, HasRetry(v), pc'[NextAttempt(v)] # "absent"
                  PROVE  pc'[v] = "crashed"
      BY DEF RetryAfterCrash
    <3>1. CASE v = w
      BY <1>5, <3>1 DEF Retried
    <3>2. CASE v # w
      <4>1. pc[NextAttempt(v)] # "absent"
        BY <1>5, <2>1, <2>3, <3>2 DEF Retried
      <4>2. pc[v] = "crashed"
        BY <4>1 DEF RetryAfterCrash
      <4>. QED BY <1>5, <2>1, <3>2, <4>2 DEF Retried
    <3>. QED BY <3>1, <3>2
  <2>. QED BY <2>2, <2>4
<1>. QED BY <1>1, <1>2, <1>3, <1>4, <1>5 DEF DeliveryStep

\* Nobody takes the place of an executor that is at work: what its step makes
\* of it is what it was, its own next step, or its death.
LEMMA WorkGoesOn ==
    ASSUME NEW early, NEW after, "enqueue" \in early,
           DeliveryInv(early), DeliveryStep(early, after),
           NEW e \in Executors, pc[e] \notin {"absent", "enqueue"}
    PROVE  \/ pc'[e] = pc[e]
           \/ Advances(e, early)
           \/ pc'[e] = "crashed" /\ pc[e] \notin {"done", "crashed"}
<1>. USE ExecutorFacts DEF DeliveryInv
<1>1. ASSUME NEW f \in Executors, f # e, Advances(f, early) PROVE pc'[e] = pc[e]
  BY <1>1 DEF Advances
<1>2. ASSUME NEW j \in Jobs, Accepted(j, after) PROVE pc'[e] = pc[e]
  <2>1. pc[Attempt(j, 1, 1)] = "absent"
    BY <1>2, FirstAttempt DEF Accepted, NoEventBeforeEnqueue
  <2>. QED BY <1>2, <2>1 DEF Accepted
<1>3. ASSUME NEW j \in Jobs, NEW c \in 2 .. MaxCopies, Repeated(j, c) PROVE pc'[e] = pc[e]
  BY <1>3 DEF Repeated
<1>4. ASSUME NEW w \in Workers, Retried(w)
      PROVE  pc'[e] = pc[e] \/ (pc'[e] = "crashed" /\ pc[e] \notin {"done", "crashed"})
  <2>1. pc[NextAttempt(w)] = "absent"
    BY <1>4 DEF Retried, RetryAfterCrash
  <2>. QED BY <1>4, <2>1 DEF Retried
<1>. QED BY <1>1, <1>2, <1>3, <1>4 DEF DeliveryStep

\* An executor that returned or died stays where it is.
LEMMA EndIsFinal ==
    ASSUME NEW early, NEW after, "enqueue" \in early,
           DeliveryInv(early), DeliveryStep(early, after),
           NEW e \in Executors, pc[e] \in {"done", "crashed"}
    PROVE  pc'[e] = pc[e]
  BY WorkGoesOn DEF Advances

-----------------------------------------------------------------------------
(* What holds when an event has one copy and a call that raises has failed *)

\* The request has handed the job over before a worker starts, and every
\* attempt before a started one has died.
HandedOver ==
    \A w \in Workers : pc[w] # "absent" => pc[Request(w.job)] = "done"

EarlierCrashed ==
    \A v, w \in Workers :
        v.job = w.job /\ v.attempt < w.attempt /\ pc[w] # "absent" => pc[v] = "crashed"

ChainInv == HandedOver /\ EarlierCrashed

\* At first nobody is at work, so that nothing overlaps.
LEMMA ChainInvInit == DeliveryInit => ChainInv
  BY ExecutorFacts DEF DeliveryInit, ChainInv, HandedOver, EarlierCrashed

\* The attempts of an event stay in their order.
LEMMA ChainInvStep ==
    ASSUME MaxCopies = 1, NEW early, "enqueue" \in early,
           DeliveryInv(early), ChainInv, DeliveryStep(early, {"done"})
    PROVE  ChainInv'
<1>. USE ExecutorFacts DEF ChainInv
<1>1. CASE pc' = pc
  BY <1>1 DEF HandedOver, EarlierCrashed
<1>2. ASSUME NEW e \in Executors, Advances(e, early) PROVE ChainInv'
  BY <1>2 DEF Advances, HandedOver, EarlierCrashed
<1>3. ASSUME NEW j \in Jobs, Accepted(j, {"done"}) PROVE ChainInv'
  <2>1. /\ Attempt(j, 1, 1) \in Workers
        /\ Attempt(j, 1, 1).job = j
        /\ Attempt(j, 1, 1).attempt = 1
    BY FirstAttempt DEF Attempt
  <2>2. pc'[Request(j)] = "done"
    BY <1>3 DEF Accepted
  <2>3. \A w \in Workers : w.job = j => pc[w] = "absent"
    BY <1>3 DEF Accepted, DeliveryInv, NoEventBeforeEnqueue
  <2>4. HandedOver'
    BY <1>3, <2>1, <2>2 DEF Accepted, HandedOver
  <2>5. \A w \in Workers : w.attempt \in Nat /\ w.attempt >= 1
    BY DeliveryAssumption DEF Workers
  <2>6. EarlierCrashed'
    BY <1>3, <2>1, <2>3, <2>5 DEF Accepted, EarlierCrashed
  <2>. QED BY <2>4, <2>6
<1>4. ~ \E j \in Jobs, c \in 2 .. MaxCopies : Repeated(j, c)
  OBVIOUS
<1>5. ASSUME NEW w \in Workers, Retried(w) PROVE ChainInv'
  <2>1. /\ NextAttempt(w) \in Workers \ {w}
        /\ NextAttempt(w).job = w.job
        /\ NextAttempt(w).attempt = w.attempt + 1
        /\ pc[NextAttempt(w)] = "absent"
    BY <1>5, AttemptFacts DEF Retried, DeliveryInv, RetryAfterCrash
  <2>2. HandedOver'
    BY <1>5, <2>1 DEF Retried, HandedOver
  <2>3. EarlierCrashed'
    <3>. SUFFICES ASSUME NEW v \in Workers, NEW u \in Workers, v.job = u.job,
                         v.attempt < u.attempt, pc'[u] # "absent"
                  PROVE  pc'[v] = "crashed"
      BY DEF EarlierCrashed
    <3>1. \A t \in Workers : t.copy = 1 /\ t.attempt \in Nat
      BY DEF Workers
    <3>2. \A t \in Workers : t.job = w.job /\ t.attempt = w.attempt => t = w
      BY <3>1 DEF Workers
    <3>3. CASE u = NextAttempt(w)
      <4>1. v.attempt < w.attempt \/ v = w
        BY <2>1, <3>1, <3>2, <3>3
      <4>2. v.attempt < w.attempt => pc[v] = "crashed"
        BY <1>5, <2>1, <3>3 DEF EarlierCrashed, Retried
      <4>. QED BY <1>5, <2>1, <4>1, <4>2, <3>3 DEF Retried
    <3>4. CASE u # NextAttempt(w)
      <4>1. pc[u] # "absent"
        BY <1>5, <3>4 DEF Retried
      <4>2. pc[v] = "crashed"
        BY <4>1 DEF EarlierCrashed
      <4>. QED BY <1>5, <2>1, <4>2 DEF Retried
    <3>. QED BY <3>3, <3>4
  <2>. QED BY <2>2, <2>3
<1>. QED BY <1>1, <1>2, <1>3, <1>4, <1>5 DEF DeliveryStep

\* While an executor works on a job, every other one has not started, was
\* skipped, or has ended.
LEMMA OneAtATime ==
    ASSUME MaxCopies = 1, ChainInv,
           NEW e \in Executors, NEW f \in Executors, e # f, e.job = f.job,
           pc[e] \notin {"idle", "absent", "done", "crashed"}
    PROVE  pc[f] \in {"idle", "absent", "done", "crashed"}
<1>. USE ExecutorFacts
<1>1. CASE e \in Workers /\ f \in Workers
  <2>1. e.copy = f.copy /\ e.attempt \in Nat /\ f.attempt \in Nat
    BY <1>1 DEF Workers
  <2>2. e.attempt # f.attempt
    BY <1>1, <2>1 DEF Workers
  <2>3. e.attempt < f.attempt \/ f.attempt < e.attempt
    BY <2>1, <2>2
  <2>. QED BY <1>1, <2>3 DEF ChainInv, EarlierCrashed
<1>2. CASE e \in Workers /\ f \notin Workers
  BY <1>2 DEF ChainInv, HandedOver
<1>3. CASE e \notin Workers /\ f \in Workers
  BY <1>3 DEF ChainInv, HandedOver
<1>4. CASE e \notin Workers /\ f \notin Workers
  BY <1>4
<1>. QED BY <1>1, <1>2, <1>3, <1>4

=============================================================================
