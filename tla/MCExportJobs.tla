---------------------------- MODULE MCExportJobs ----------------------------
(***************************************************************************)
(* A small instance of ExportJobs.                                         *)
(***************************************************************************)
EXTENDS ExportJobs

CONSTANTS p1

MCProjectOf == [j \in Jobs |-> p1]

=============================================================================
