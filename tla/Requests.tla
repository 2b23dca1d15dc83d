---------------------------- MODULE Requests ----------------------------
(***************************************************************************)
(* HTTP requests in flight.  FastAPI runs the handlers of one process in   *)
(* threads and Lambda runs many processes, so the store accesses of two    *)
(* handlers interleave freely; there are no locks and no transactions.  A  *)
(* slot holds one handler: where it is and what it has read.  A handler    *)
(* may die between any two accesses: an exception, the 30 s limit of API   *)
(* Gateway's caller or the end of the Lambda container.                    *)
(***************************************************************************)
CONSTANTS
    Slots,   \* handlers that may run at once
    None     \* an absent row, field or value

VARIABLE req \* req[s]: the handler in slot s

Idle == [at |-> "idle"]

RequestsInit == req = [s \in Slots |-> Idle]

\* The handler in slot s is about to do the access named step.
At(s, step) == req[s].at = step

\* A request arrives and its handler has come as far as r says.
Begin(s, r) == At(s, "idle") /\ req' = [req EXCEPT ![s] = r]

\* The handler goes on to another access with what it knows now.
Become(s, r) == req' = [req EXCEPT ![s] = r]

Goto(s, step) == req' = [req EXCEPT ![s].at = step]

\* The handler answers, with a result or with an error.
Return(s) == req' = [req EXCEPT ![s] = Idle]

Busy(s) == ~At(s, "idle")
=============================================================================
