-------------------------- MODULE MCFileTransaction ---------------------------
(* An instance of FileTransaction for TLC. *)
EXTENDS FileTransaction

BlindOnly == {"blind"}
===============================================================================
