-------------------------- MODULE MCWorkspaceEvents ---------------------------
(* Instances of WorkspaceEvents for TLC.                                   *)
EXTENDS WorkspaceEvents

LargeState == {2}
===============================================================================
