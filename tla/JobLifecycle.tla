---------------------------- MODULE JobLifecycle ----------------------------
(***************************************************************************)
(* What the platform promises a client that polls a job.                   *)
(*                                                                         *)
(* Agent runs, export jobs and LLM invoke jobs share one life: the POST    *)
(* creates a RUNNING record, somebody works on it, and the record ends     *)
(* SUCCEEDED or FAILED.  A record is what GET returns: its status and the  *)
(* execution whose output it carries (None when it carries none).          *)
(*                                                                         *)
(* Spec is the promise when a job is executed by one executor at a time:   *)
(* the first result is final.  AtLeastOnceSpec is what is left of it when  *)
(* the same job may be executed twice at once: a result may be replaced by *)
(* another result, but a finished job never becomes unfinished.            *)
(***************************************************************************)
CONSTANTS
    Jobs,      \* the identifiers of the jobs
    Outputs,   \* the outputs an execution can produce
    None       \* stands for the absence of an output

VARIABLE record   \* record[j]: the stored record of job j

Terminal == {"SUCCEEDED", "FAILED"}

Absent  == [status |-> "absent", output |-> None]
Running == [status |-> "RUNNING", output |-> None]

\* A success always carries an output, a failure may carry one.
Results == [status : {"SUCCEEDED"}, output : Outputs]
             \cup [status : {"FAILED"}, output : Outputs \cup {None}]

-----------------------------------------------------------------------------

Init == record = [j \in Jobs |-> Absent]

\* The POST stores the job.
Submit(j) ==
    /\ record[j] = Absent
    /\ record' = [record EXCEPT ![j] = Running]

\* The job ends with a result.
Complete(j) ==
    /\ record[j] = Running
    /\ \E result \in Results : record' = [record EXCEPT ![j] = result]

\* A second execution of the same job replaces the result.
Replace(j) ==
    /\ record[j].status \in Terminal
    /\ \E result \in Results : record' = [record EXCEPT ![j] = result]

Next == \E j \in Jobs : Submit(j) \/ Complete(j)

AtLeastOnceNext == \E j \in Jobs : Submit(j) \/ Complete(j) \/ Replace(j)

Spec == Init /\ [][Next]_record

AtLeastOnceSpec == Init /\ [][AtLeastOnceNext]_record

=============================================================================
