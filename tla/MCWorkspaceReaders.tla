------------------------- MODULE MCWorkspaceReaders -------------------------
(* One connection to one workspace, and explicit index runs beside it. *)
EXTENDS WorkspaceReaders

CONSTANTS r1, c1, c2
=============================================================================
