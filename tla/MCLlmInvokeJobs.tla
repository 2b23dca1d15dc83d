--------------------------- MODULE MCLlmInvokeJobs --------------------------
(***************************************************************************)
(* A small instance of LlmInvokeJobs.                                      *)
(***************************************************************************)
EXTENDS LlmInvokeJobs

CONSTANT j1

=============================================================================
