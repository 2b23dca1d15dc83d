---------------------------- MODULE MCProjects ----------------------------
(* One project and one request at a time: saves with and without a parcel.  *)
EXTENDS Projects

CONSTANTS b0, b1

MCPatches ==
    [parcel : [captured : BOOLEAN, basemap : BOOLEAN]]
    \cup {[section |-> [body |-> b1, status |-> "draft", client |-> None]]}

Spec == RequestsInit /\ ProjectsInit /\ [][ProjectsNext]_<<req, projectVars>>
=============================================================================
