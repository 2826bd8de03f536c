----------------------------- MODULE SessionStore ------------------------------
(***************************************************************************)
(* The state directory .asp of a workspace: sessions and their owners, the *)
(* aliases that make OPEN_SESSION idempotent, and the offline commands     *)
(* that delete sessions, give them an owner, and back up and restore the   *)
(* whole tree.  The daemon and the commands exclude each other by a lock   *)
(* file inside the tree, which moves away with it when the tree is renamed.*)
(*                                                                         *)
(* A handler or command that holds its locks throughout is one action; an  *)
(* error or a death inside it leaves a prefix of its file operations.      *)
(* Session IDs are numbers in the order they were drawn.                   *)
(***************************************************************************)
EXTENDS Naturals, FiniteSets

CONSTANTS
    Opens,        \* request IDs of OPEN_SESSION
    Asker,        \* the principal of each
    Owners,       \* principals
    MaxSessions,     \* MAX_SESSIONS
    MaxOwnSessions,  \* MAX_SESSIONS_PER_PRINCIPAL
    MaxIds,       \* bound: session IDs drawn
    MaxMishaps    \* bound: errors, deaths and offline commands

VARIABLES
    asp,      \* the tree at .asp, or NoTree
    lock,     \* who holds its lock
    aside,    \* trees a restore moved aside
    copy,     \* the last backup, or NoTree
    daemon,   \* the daemon: up, its sessions and open_requests
    restore,  \* the tree a restore has just moved aside, between its two renames
    drawn,    \* session IDs drawn so far, and what for
    answers,  \* session IDs sent to the asker
    errored,  \* requests that were answered with an error
    removed,  \* sessions that a delete command was run for
    reverted, \* a backup has been put in place of the tree
    storeMishaps

storeVars == <<asp, lock, aside, copy, daemon, restore, drawn, answers, errored, removed,
               reverted, storeMishaps>>

Ids == 1 .. MaxIds
Bare == "no owner file"

ASSUME StoreAssumption ==
    "legacy" \in Owners /\ Bare \notin Owners /\ Asker \in [Opens -> Owners]

(* A tree maps request IDs to sessions, and each session directory to the content
   of its owner file. *)
EmptyTree == [alias |-> [r \in {} |-> 0], owner |-> [i \in {} |-> Bare]]
NoTree == [EmptyTree EXCEPT !.owner = [i \in {0} |-> Bare]]
Present == IF asp = NoTree THEN EmptyTree ELSE asp
Assign(f, k, v) == [x \in DOMAIN f \cup {k} |-> IF x = k THEN v ELSE f[x]]
Without(f, S) == [x \in DOMAIN f \ S |-> f[x]]
StoreMishap == storeMishaps < MaxMishaps /\ storeMishaps' = storeMishaps + 1

(* load_session_owner *)
OwnerOf(file) == IF file = Bare THEN "legacy" ELSE file

Down == [up |-> FALSE, sessions |-> {}, alias |-> EmptyTree.alias]

StoreInit ==
    /\ asp = EmptyTree /\ lock = "free" /\ aside = {} /\ copy = NoTree
    /\ daemon = Down /\ restore = NoTree
    /\ drawn = [i \in {} |-> 0] /\ answers = [r \in Opens |-> {}]
    /\ errored = {} /\ removed = {} /\ reverted = FALSE /\ storeMishaps = 0

------------------------------------------------------------------------------
(* The daemon *)

(* ensure_private_directory, acquire_daemon_lock, open_with_budgets: aliases of
   sessions that are not there are dropped in memory. *)
StartDaemon ==
    /\ ~daemon.up /\ lock = "free"
    /\ LET tree == Present
           dead == {r \in DOMAIN tree.alias : tree.alias[r] \notin DOMAIN tree.owner}
       IN  /\ asp' = tree
           /\ daemon' = [up |-> TRUE, sessions |-> DOMAIN tree.owner,
                         alias |-> Without(tree.alias, dead)]
    /\ lock' = "daemon"
    /\ UNCHANGED <<aside, copy, restore, drawn, answers, errored, removed, reverted, storeMishaps>>

StopDaemon ==
    /\ daemon.up /\ daemon' = Down /\ lock' = "free"
    /\ UNCHANGED <<asp, aside, copy, restore, drawn, answers, errored, removed, reverted, storeMishaps>>

Known(r) == daemon.up /\ r \in DOMAIN daemon.alias /\ daemon.alias[r] \in daemon.sessions

(* A repeated request is answered with its session, if the asker owns it. *)
OwnerChecked(r) == OwnerOf(asp.owner[daemon.alias[r]]) = Asker[r]
OpenKnown(r) ==
    /\ Known(r) /\ OwnerChecked(r)
    /\ answers' = [answers EXCEPT ![r] = @ \cup {daemon.alias[r]}]
    /\ UNCHANGED <<asp, lock, aside, copy, daemon, restore, drawn, errored, removed, reverted, storeMishaps>>

(* Mutant: the directory is made before the alias is saved. *)
MadeDirectoryFirst(tree, r, i, k) ==
    [alias |-> IF k >= 3 THEN Assign(daemon.alias, r, i) ELSE tree.alias,
     owner |-> CASE k = 0 -> tree.owner
                 [] k = 1 -> Assign(tree.owner, i, Bare)
                 [] OTHER -> Assign(tree.owner, i, Asker[r])]

(* open_session and Session::persisted: the aliases are saved, the directory is
   made, and its owner file is written; what there is after k of these. *)
Made(tree, r, i, k) ==
    [alias |-> IF k = 0 THEN tree.alias ELSE Assign(daemon.alias, r, i),
     owner |-> CASE k <= 1 -> tree.owner
                 [] k = 2 -> Assign(tree.owner, i, Bare)
                 [] OTHER -> Assign(tree.owner, i, Asker[r])]

Draw(r, i) ==
    /\ daemon.up /\ ~Known(r) /\ Cardinality(daemon.sessions) < MaxSessions
    /\ Cardinality({s \in daemon.sessions : OwnerOf(asp.owner[s]) = Asker[r]}) < MaxOwnSessions
    /\ i \in Ids /\ DOMAIN drawn = 1 .. i - 1 /\ drawn' = Assign(drawn, i, r)

OpenNew(r, i) ==
    /\ Draw(r, i)
    /\ asp' = Made(asp, r, i, 3)
    /\ daemon' = [daemon EXCEPT !.sessions = @ \cup {i}, !.alias = Assign(@, r, i)]
    /\ answers' = [answers EXCEPT ![r] = @ \cup {i}]
    /\ UNCHANGED <<lock, aside, copy, restore, errored, removed, reverted, storeMishaps>>

(* The daemon dies on the way, at the latest before the answer. *)
OpenCut(r, i, k) ==
    /\ Draw(r, i) /\ StoreMishap
    /\ asp' = Made(asp, r, i, k)
    /\ daemon' = Down /\ lock' = "free"
    /\ UNCHANGED <<aside, copy, restore, answers, errored, removed, reverted>>

(* An error after k steps: the alias is taken back in memory, and then in the file
   unless that fails; what was made of the directory stays. *)
OpenSessionFails(r, i, k) ==
    /\ Draw(r, i) /\ StoreMishap
    /\ \E file \in {IF k = 0 THEN asp.alias ELSE Without(daemon.alias, {r}),
                    Made(asp, r, i, 1).alias} :
          asp' = [Made(asp, r, i, k) EXCEPT !.alias = file]
    /\ daemon' = [daemon EXCEPT !.alias = Without(@, {r})]
    /\ errored' = errored \cup {r}
    /\ UNCHANGED <<lock, aside, copy, restore, answers, removed, reverted>>

------------------------------------------------------------------------------
(* Offline commands.  Each takes the lock, and one that cannot is not run. *)

Offline == lock = "free" /\ StoreMishap

(* delete_session of one without processes or terminal: the aliases, then the directory,
   whose files go one by one. *)
DeleteSession(i) ==
    /\ Offline /\ asp # NoTree /\ i \in DOMAIN asp.owner
    /\ LET named == {r \in DOMAIN asp.alias : asp.alias[r] \notin DOMAIN asp.owner \ {i}}
           alias == Without(asp.alias, named)
       IN  asp' \in {asp, [alias |-> alias, owner |-> asp.owner],
                     [alias |-> alias, owner |-> Assign(asp.owner, i, Bare)],
                     [alias |-> alias, owner |-> Without(asp.owner, {i})]}
    /\ removed' = removed \cup {i}
    /\ UNCHANGED <<lock, aside, copy, daemon, restore, drawn, answers, errored, reverted>>

(* migrate_legacy_session_owners: some or all of them. *)
MigrateLegacyOwners(p) ==
    /\ Offline /\ asp # NoTree
    /\ \E done \in SUBSET {i \in DOMAIN asp.owner : OwnerOf(asp.owner[i]) = "legacy"} :
          asp' = [asp EXCEPT !.owner = [i \in DOMAIN @ |-> IF i \in done THEN p ELSE @[i]]]
    /\ UNCHANGED <<lock, aside, copy, daemon, restore, drawn, answers, errored, removed, reverted>>

(* backup_state: a copy that failed is removed. *)
BackupState ==
    /\ Offline /\ copy' = Present /\ asp' = Present
    /\ UNCHANGED <<lock, aside, daemon, restore, drawn, answers, errored, removed, reverted>>

(* Mutant: the present tree is deleted to make room. *)
ReplacedTree == aside

(* restore_state renames the present tree to a name of its own. *)
MovedAside == aside \cup {Present}

RestoreMovesAside ==
    /\ Offline /\ copy # NoTree /\ restore = NoTree
    /\ aside' = MovedAside /\ asp' = NoTree /\ restore' = Present
    /\ UNCHANGED <<lock, copy, daemon, drawn, answers, errored, removed, reverted>>

(* The second rename, if nobody has made a directory of that name meanwhile. *)
RestoreInstalls ==
    /\ restore # NoTree /\ restore' = NoTree
    /\ asp' = IF asp = NoTree THEN copy ELSE asp
    /\ reverted' = (reverted \/ asp = NoTree)
    /\ UNCHANGED <<lock, aside, copy, daemon, drawn, answers, errored, removed, storeMishaps>>

(* It fails, and the present tree gets its name back; or that fails too, or the
   command dies between the two. *)
RestoreFails ==
    /\ restore # NoTree /\ restore' = NoTree /\ StoreMishap
    /\ \/ asp = NoTree /\ asp' = restore /\ aside' = aside \ {restore}
       \/ UNCHANGED <<asp, aside>>
    /\ UNCHANGED <<lock, copy, daemon, drawn, answers, errored, removed, reverted>>

StoreNext ==
    \/ StartDaemon \/ StopDaemon \/ BackupState
    \/ RestoreMovesAside \/ RestoreInstalls \/ RestoreFails
    \/ \E r \in Opens : \/ OpenKnown(r)
                        \/ \E i \in Ids : OpenNew(r, i)
                        \/ \E i \in Ids, k \in 0 .. 3 : OpenCut(r, i, k) \/ OpenSessionFails(r, i, k)
    \/ \E i \in Ids : DeleteSession(i)
    \/ \E p \in Owners : MigrateLegacyOwners(p)

StoreSpec == StoreInit /\ [][StoreNext]_storeVars

------------------------------------------------------------------------------
Here(r) == {i \in DOMAIN asp.owner \ removed : drawn[i] = r}

(* "Safe retries remain idempotent after a daemon restart": the store never holds
   two sessions made for one request, unless an open of it was answered with an
   error; all answers to a request that are still there are one session, and it
   belongs to the asker, unless a restored backup was made before it did. *)
OpenExact ==
    asp # NoTree => \A r \in Opens :
        /\ r \notin errored => Cardinality(Here(r)) <= 1
        /\ Cardinality(Here(r) \cap answers[r]) <= 1
        /\ \A i \in Here(r) \cap answers[r] :
              Asker[r] # "legacy" /\ ~reverted => asp.owner[i] = Asker[r]

(* "Existing state is never deleted": every session a client was told of, and no
   delete command, is in the present tree or in one that was moved aside, also
   when a restore is cut short or a daemon starts inside it. *)
RestoreKeeps ==
    \A r \in Opens : \A i \in answers[r] \ removed :
        \E tree \in aside \cup {asp} : tree # NoTree /\ i \in DOMAIN tree.owner
===============================================================================
