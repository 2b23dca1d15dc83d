---------------------------- MODULE AsyncDelivery ---------------------------
(***************************************************************************)
(* Who executes a job, and how AWS Lambda delivers a self-invocation.      *)
(*                                                                         *)
(* Lambda is external to the repository: this module states what the code  *)
(* relies on when it calls invoke(InvocationType="Event").  The service    *)
(* accepts the event, delivers it to a worker some time later, delivers it *)
(* again after a failed attempt until MaxAttempts attempts were made, and  *)
(* may deliver one event more than once (a client-side retry of the invoke *)
(* call, or a duplicate of the service's own queue): each such delivery is *)
(* a copy.                                                                 *)
(*                                                                         *)
(* A job is executed by the HTTP request that created it (when the event   *)
(* was not accepted) or by a worker attempt.  Every executor runs at most  *)
(* once; pc[e] is the step it will take next:                              *)
(*    "idle"     a request that has not arrived                            *)
(*    "absent"   an attempt that Lambda has not scheduled                  *)
(*    "queued"   an attempt that Lambda will deliver                       *)
(*    "done"     returned                                                  *)
(*    "crashed"  died: a timeout, a killed container, or an exception that *)
(*               leaves the handler                                        *)
(* and the other values are the steps of the job module that extends this. *)
(***************************************************************************)
EXTENDS Naturals

CONSTANTS
    Jobs,         \* the job identifiers, one request each (new_id())
    MaxCopies,    \* how many times one accepted event may be delivered
    MaxAttempts   \* attempts per copy; Lambda's default is 3

ASSUME DeliveryAssumption ==
    /\ MaxCopies \in Nat \ {0}
    /\ MaxAttempts \in Nat \ {0}

VARIABLE pc

Request(j) == [job |-> j, copy |-> 0, attempt |-> 0]
Attempt(j, c, a) == [job |-> j, copy |-> c, attempt |-> a]

Requests  == [job : Jobs, copy : {0}, attempt : {0}]
Workers   == [job : Jobs, copy : 1 .. MaxCopies, attempt : 1 .. MaxAttempts]
Executors == Requests \cup Workers

At(e, step) == pc[e] = step
Goto(e, step) == pc' = [pc EXCEPT ![e] = step]

DeliveryInit ==
    pc = [e \in Executors |-> IF e \in Requests THEN "idle" ELSE "absent"]

\* The request of job j goes on to `step`, and Lambda has taken its event.
GotoAccepted(j, step) ==
    pc' = [pc EXCEPT ![Request(j)] = step, ![Attempt(j, 1, 1)] = "queued"]

\* Lambda delivers another copy of an event that it accepted.
Duplicate(j, c) ==
    /\ pc[Attempt(j, 1, 1)] # "absent"
    /\ pc[Attempt(j, c, 1)] = "absent"
    /\ Goto(Attempt(j, c, 1), "queued")

\* Lambda will run the next attempt after e.
HasRetry(e) == e \in Workers /\ e.attempt < MaxAttempts

NextAttempt(e) == Attempt(e.job, e.copy, e.attempt + 1)

\* Executor e dies at any of `steps`; Lambda retries a failed worker.
CrashAt(e, steps) ==
    /\ pc[e] \in steps
    /\ \/ /\ HasRetry(e)
          /\ pc' = [pc EXCEPT ![e] = "crashed", ![NextAttempt(e)] = "queued"]
       \/ /\ ~HasRetry(e)
          /\ Goto(e, "crashed")

\* Nobody will work on job j any more: its request died, or Lambda gave up
\* on an event after the last attempt.
GivenUp(j) ==
    \/ At(Request(j), "crashed")
    \/ \E c \in 1 .. MaxCopies : At(Attempt(j, c, MaxAttempts), "crashed")

=============================================================================
