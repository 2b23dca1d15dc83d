----------------------------- MODULE MCAgentRuns ----------------------------
(***************************************************************************)
(* Small instances of AgentRuns: run r1 drafts a section, run r2 is a      *)
(* project-wide question without a section.                                *)
(***************************************************************************)
EXTENDS AgentRuns

CONSTANTS r1, r2, p1

MCProjectOf == [j \in Jobs |-> p1]
MCSectionRuns == {r1}
MCDraftRuns == {r1}

=============================================================================
