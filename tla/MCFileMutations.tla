---------------------------- MODULE MCFileMutations ----------------------------
(***************************************************************************)
(* How a file of the workspace is replaced: the transaction behind every   *)
(* FILE_PUT and FILE_PATCH (FileTransaction), and the patches that decide  *)
(* which bytes it installs (FilePatch).  A behaviour exercises one of them *)
(* and leaves the other where it started.                                  *)
(***************************************************************************)
EXTENDS FileTransaction, FilePatch

AllPolicies == {"create", "guarded", "blind"}

VARIABLE subject  \* "transaction" or "patch"

mutationVars == <<vars, patchVars, subject>>

MutationInit ==
    /\ subject \in {"transaction", "patch"} /\ Init /\ PatchInit
    \* one way to start for the one that is left out
    /\ subject = "transaction" \/ target = Absent
    /\ subject = "patch" \/ (remote = <<>> /\ wanted = <<>>)

MutationNext ==
    \/ subject = "transaction" /\ Next /\ UNCHANGED <<patchVars, subject>>
    \/ subject = "patch" /\ PatchNext /\ UNCHANGED <<vars, subject>>

MutationSpec == MutationInit /\ [][MutationNext]_mutationVars /\ Fairness
===============================================================================
