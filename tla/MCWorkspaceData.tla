---------------------------- MODULE MCWorkspaceData ----------------------------
(***************************************************************************)
(* Three ways to the bytes of a session: queries of the tree, the text and *)
(* the repository (WorkspaceIndex), streamed uploads and downloads of      *)
(* files (FileTransfer), and artifacts (ArtifactStore).  They share no     *)
(* state, so a behaviour exercises one of them and leaves the others where *)
(* they started.                                                           *)
(***************************************************************************)
EXTENDS WorkspaceIndex, FileTransfer, ArtifactStore

CONSTANTS c1, c2
\* Scans race scans and Git queries; Git queries take no lock of each other.
SomeKinds == (c1 :> {"scan"}) @@ (c2 :> {"scan", "git"})

\* Two artifact uploads of one session, and an agent's upload in another; the last one
\* is for the artifact of the first two or for another.
TwoAndOne == ("r1" :> "s1") @@ ("r2" :> "s2") @@ ("r3" :> "s1")
SameOrOther == {("r1" :> "a") @@ ("r2" :> "a") @@ ("r3" :> x) : x \in Artifacts}

VARIABLE subject

dataVars == <<vars, transferVars, artifactVars, subject>>

DataInit ==
    /\ subject \in {"index", "upload", "download", "artifacts"}
    /\ Init /\ TransferInit /\ ArtifactInit
    \* where two artifacts compete for the quota, the other session has no slot left
    /\ wanted["r3"] = "a" \/ others["s2"] = SlotMax
    \* one way to start for those that are left out
    /\ subject = "index" \/ \A c \in Clients : mem[c].kind = "scan"
    /\ subject = "upload" \/ source = 1
    /\ subject = "download" \/ target = Content(1)
    /\ subject = "artifacts" \/ (wanted["r3"] = "a" /\ \A s \in Sessions : others[s] = 0)

DataNext ==
    \/ subject = "index" /\ Next /\ UNCHANGED <<transferVars, artifactVars, subject>>
    \/ subject = "upload" /\ UploadNext /\ UNCHANGED <<vars, artifactVars, subject>>
    \/ subject = "download" /\ DownloadNext /\ UNCHANGED <<vars, artifactVars, subject>>
    \/ subject = "artifacts" /\ ArtifactNext /\ UNCHANGED <<vars, transferVars, subject>>

DataSpec == DataInit /\ [][DataNext]_dataVars
===============================================================================
