---------------------------- MODULE MCSessionDisk -----------------------------
(* Instances of SessionDisk for TLC. *)
EXTENDS SessionDisk

CrashFaults == {"power", "rot"}
RotFaults == {"rot"}
===============================================================================
