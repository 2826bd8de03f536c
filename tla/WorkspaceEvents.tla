---------------------------- MODULE WorkspaceEvents ---------------------------
(***************************************************************************)
(* How a change of one workspace file reaches the journals of the          *)
(* sessions.  Writes made through the daemon (FILE_MUTATION) and changes   *)
(* made from outside (FILE_CHANGED) share one version clock.  The native   *)
(* watcher hands notifications to a worker over a bounded queue; the       *)
(* worker hashes the file off the workspace gate, looks again with the     *)
(* gate held, and appends one event per session.                           *)
(*                                                                         *)
(* A state of the file is a number: 0 when it is absent, otherwise the     *)
(* serial of the write that made it (size and mtime stand for the serial,  *)
(* and so does the digest).                                                *)
(***************************************************************************)
EXTENDS Naturals, Sequences, FiniteSets, FiniteSetsExt

CONSTANTS Sessions,      \* session IDs
          Window,        \* events a session journal keeps in memory
          QueueMax,      \* WORKSPACE_FILE_EVENT_QUEUE_CAPACITY
          Large,         \* states above WORKSPACE_FILE_EVENT_HASH_MAX_BYTES
          MaxWrites,     \* bound: writes of the file
          MaxOther,      \* bound: unrelated events per session
          MaxFaults      \* bound: failed appends and restarts

ASSUME WorkspaceAssumption ==
    /\ Window \in Nat \ {0} /\ QueueMax \in Nat \ {0}
    /\ MaxWrites \in Nat /\ MaxOther \in Nat /\ MaxFaults \in Nat

VARIABLES
    disk,       \* the state of the file
    writes,     \* writes so far: the next state is writes + 1
    queue,      \* notifications waiting for the worker
    gate,       \* workspace_mutation_gate: "free", "put" or "worker"
    put,        \* the write that holds the gate
    worker,     \* the file-event worker
    clock,      \* workspace_file_versions of this path
    observed,   \* workspace_file_observations of this path, or Unobserved
    open,       \* sessions of the store
    journal,    \* session -> its events
    faults,
    told,       \* ghost: session -> state of the file its last event is about
    announced,  \* ghost: state the current version was announced for
    lost,       \* ghost: a notification was dropped, or not passed on to all
    late,       \* ghost: sessions opened while a change was under way, not told since
    merged,     \* ghost: a new state was announced under a version in use
    own,        \* ghost: states written by the daemon itself
    echoes      \* ghost: those a FILE_CHANGED event was about

vars == <<disk, writes, queue, gate, put, worker, clock, observed, open, journal, faults,
          told, announced, lost, late, merged, own, echoes>>
ghosts == <<told, announced, lost, late, merged, own, echoes>>

Absent == 0
Obs(m, d) == [meta |-> m, digest |-> d]
NoDigest == 0
Unobserved == Obs(MaxWrites + 1, 0)
NoPut == [session |-> CHOOSE s \in Sessions : TRUE, state |-> 0, previous |-> 0]
Resting == [pc |-> "idle", obs |-> Unobserved, version |-> 0, todo |-> {}]

Changed(v) == [kind |-> "FILE_CHANGED", version |-> v]
Mutation(v) == [kind |-> "FILE_MUTATION", version |-> v]
Other == [kind |-> "OTHER", version |-> 0]

\* The events of a session still in memory
Retained(s) == {journal[s][k] : k \in {j \in DOMAIN journal[s] : j + Window > Len(journal[s])}}
HasFileChangedEvent(s, v) == Changed(v) \in Retained(s)

Init ==
    /\ disk = Absent /\ writes = 0 /\ queue = 0
    /\ gate = "free" /\ put = NoPut /\ worker = Resting
    /\ clock = 0 /\ observed = Unobserved
    /\ open \in SUBSET Sessions
    /\ journal = [s \in Sessions |-> <<>>]
    /\ faults = 0
    /\ told = [s \in Sessions |-> Absent]
    /\ announced = Absent /\ lost = FALSE /\ late = {} /\ merged = FALSE /\ own = {} /\ echoes = {}

Quiet == gate = "free" /\ queue = 0 /\ worker.pc = "idle"
AllTold == \A s \in open \ late : told[s] = disk

-------------------------------------------------------------------------------
(* Notifications and writes.                                               *)

\* The watcher thread: a full queue drops the notification.
Notify ==
    /\ queue' = IF queue < QueueMax THEN queue + 1 ELSE queue
    /\ lost' = (lost \/ queue = QueueMax)

ExternalWrite ==
    /\ writes < MaxWrites
    /\ writes' = writes + 1
    /\ disk' \in {writes + 1, Absent} \ {disk}
    /\ Notify
    /\ UNCHANGED <<gate, put, worker, clock, observed, open, journal, faults, told, announced,
                   merged, own, echoes, late>>

\* A write of session s holds the gate; its rename is visible before its event.
PutInstall(s) ==
    /\ gate = "free" /\ s \in open /\ writes < MaxWrites
    /\ gate' = "put"
    /\ put' = [session |-> s, state |-> writes + 1, previous |-> disk]
    /\ writes' = writes + 1
    /\ disk' = writes + 1
    /\ own' = own \cup {writes + 1}
    /\ Notify
    /\ UNCHANGED <<worker, clock, observed, open, journal, faults, told, announced, merged, echoes, late>>

\* Mutant: the daemon does not note its own write for the watcher.
PutCommitUnnoted ==
    /\ gate = "put"
    /\ clock' = clock + 1
    /\ journal' = [journal EXCEPT ![put.session] = Append(@, Mutation(clock + 1))]
    /\ told' = [s \in Sessions |-> put.state] /\ late' = {}
    /\ gate' = "free" /\ put' = NoPut
    /\ UNCHANGED <<disk, writes, queue, worker, observed, open, faults, announced, lost, merged,
                   own, echoes>>

\* FILE_MUTATION is journaled for the writing session (nobody else is told, by
\* design: the ghost counts the daemon's own writes as known) and note_workspace_mutation records the metadata
\* the file has by then with the digest of what was written.  If the file is gone
\* by then its absence is recorded, and the worker will not report it.
PutCommit ==
    /\ gate = "put"
    /\ clock' = clock + 1
    /\ journal' = [journal EXCEPT ![put.session] = Append(@, Mutation(clock + 1))]
    /\ observed' = IF disk = Absent THEN Obs(Absent, NoDigest) ELSE Obs(disk, put.state)
    /\ told' = [s \in Sessions |-> put.state] /\ late' = {}
    /\ lost' = (lost \/ disk = Absent)
    /\ gate' = "free" /\ put' = NoPut
    /\ UNCHANGED <<disk, writes, queue, worker, open, faults, announced, merged, own, echoes>>

\* The event is refused: the transaction renames the old file back.
PutFails ==
    /\ gate = "put" /\ faults < MaxFaults
    /\ faults' = faults + 1
    /\ IF disk \in {put.state, Absent}
       THEN disk' = put.previous /\ Notify
       ELSE UNCHANGED <<disk, queue, lost>>
    /\ gate' = "free" /\ put' = NoPut
    /\ UNCHANGED <<writes, worker, clock, observed, open, journal, told, announced, merged, own, echoes, late>>

\* The session knows the file as it finds it.  Opened while a change is being dealt
\* with, it may have seen a state that is not announced, or miss the list.
OpenSession(s) ==
    /\ s \notin open
    /\ open' = open \cup {s}
    /\ told' = [told EXCEPT ![s] = disk]
    /\ late' = IF Quiet THEN late ELSE late \cup {s}
    /\ UNCHANGED <<disk, writes, queue, gate, put, worker, clock, observed, journal, faults,
                   announced, lost, merged, own, echoes>>

\* Process output and the like: it moves the window.
OtherEvent(s) ==
    /\ s \in open
    /\ Cardinality({k \in DOMAIN journal[s] : journal[s][k] = Other}) < MaxOther
    /\ journal' = [journal EXCEPT ![s] = Append(@, Other)]
    /\ UNCHANGED <<disk, writes, queue, gate, put, worker, clock, observed, open, faults, ghosts>>

-------------------------------------------------------------------------------
(* run_workspace_file_event_worker, record_workspace_file_events.          *)

WorkerAt(pcs) == worker.pc \in pcs

WorkerTake ==
    /\ WorkerAt({"idle"}) /\ queue > 0
    /\ queue' \in 0 .. queue - 1
    /\ worker' = [Resting EXCEPT !.pc = "meta"]
    /\ UNCHANGED <<disk, writes, gate, put, clock, observed, open, journal, faults, ghosts>>

\* observe_workspace_file_sync: metadata, then digest
ObserveMetadata ==
    /\ WorkerAt({"meta", "remeta"})
    /\ worker' = [worker EXCEPT
                    !.obs = Obs(disk, NoDigest),
                    !.pc = CASE disk # Absent -> IF @ = "meta" THEN "digest" ELSE "redigest"
                             [] disk = Absent -> IF @ = "meta" THEN "gate" ELSE "decide"]
    /\ UNCHANGED <<disk, writes, queue, gate, put, clock, observed, open, journal, faults, ghosts>>

\* The file may have changed since its metadata was read.  If it is gone it cannot
\* be hashed, and the path is skipped; a large file is not hashed.
DigestFails == disk = Absent /\ worker.obs.meta \notin Large

\* Mutant: the error path of the second look keeps the gate.
ObserveDigestKeepsGate ==
    /\ WorkerAt({"digest", "redigest"})
    /\ worker' = IF DigestFails
                 THEN IF worker.pc = "digest" THEN [worker EXCEPT !.pc = "skip"] ELSE Resting
                 ELSE [worker EXCEPT !.obs.digest = IF worker.obs.meta \in Large THEN NoDigest ELSE disk,
                                     !.pc = IF @ = "digest" THEN "gate" ELSE "decide"]
    /\ UNCHANGED <<disk, writes, queue, gate, put, clock, observed, open, journal, faults, ghosts>>

ObserveDigest ==
    /\ WorkerAt({"digest", "redigest"})
    /\ worker' = IF DigestFails
                 THEN IF worker.pc = "digest" THEN [worker EXCEPT !.pc = "skip"] ELSE Resting
                 ELSE [worker EXCEPT !.obs.digest = IF worker.obs.meta \in Large THEN NoDigest ELSE disk,
                                     !.pc = IF @ = "digest" THEN "gate" ELSE "decide"]
    /\ gate' = IF DigestFails /\ worker.pc = "redigest" THEN "free" ELSE gate
    /\ UNCHANGED <<disk, writes, queue, put, clock, observed, open, journal, faults, ghosts>>

WorkerSkip ==
    /\ WorkerAt({"skip"}) /\ gate = "free"
    /\ worker' = Resting
    /\ UNCHANGED <<disk, writes, queue, gate, put, clock, observed, open, journal, faults, ghosts>>

\* With the gate: the sessions are listed and the metadata compared again.
WorkerGate ==
    /\ WorkerAt({"gate"}) /\ gate = "free"
    /\ gate' = "worker"
    /\ worker' = [worker EXCEPT !.todo = open,
                                !.pc = IF worker.obs.meta = disk THEN "decide" ELSE "remeta"]
    /\ UNCHANGED <<disk, writes, queue, put, clock, observed, open, journal, faults, ghosts>>

\* Mutant: only digests are compared, and a large or absent file has none.
IsChangedDigestOnly == observed = Unobserved \/ observed.digest # worker.obs.digest

IsChanged ==
    \/ observed = Unobserved
    \/ observed.meta # worker.obs.meta
    \/ observed.digest # NoDigest /\ observed.digest # worker.obs.digest

WorkerUnchanged ==
    /\ WorkerAt({"decide"}) /\ ~IsChanged
    /\ gate' = "free" /\ worker' = Resting
    /\ UNCHANGED <<disk, writes, queue, put, clock, observed, open, journal, faults, ghosts>>

Delivered == {s \in worker.todo : clock > 0 /\ HasFileChangedEvent(s, clock)}
PartiallyDelivered == Delivered # {} /\ Delivered # worker.todo

\* A version only some sessions hold is completed, otherwise the clock advances.
WorkerDecide ==
    /\ WorkerAt({"decide"}) /\ IsChanged
    /\ clock' = IF PartiallyDelivered THEN clock ELSE clock + 1
    /\ announced' = IF PartiallyDelivered THEN announced ELSE worker.obs.meta
    /\ merged' = (merged \/ (PartiallyDelivered /\ announced # worker.obs.meta))
    /\ worker' = [worker EXCEPT !.version = clock', !.pc = "fanout"]
    /\ UNCHANGED <<disk, writes, queue, gate, put, observed, open, journal, faults, told, lost,
                   own, echoes, late>>

\* Mutant: a session that already holds the version gets it again.
FanOutAgain(s) ==
    /\ WorkerAt({"fanout"}) /\ s \in worker.todo
    /\ worker' = [worker EXCEPT !.todo = @ \ {s}]
    /\ journal' = [journal EXCEPT ![s] = Append(@, Changed(worker.version))]
    /\ told' = [told EXCEPT ![s] = worker.obs.meta]
    /\ UNCHANGED <<disk, writes, queue, gate, put, clock, observed, open, faults, announced, lost,
                   merged, own, echoes, late>>

FanOut(s) ==
    /\ WorkerAt({"fanout"}) /\ s \in worker.todo
    /\ worker' = [worker EXCEPT !.todo = @ \ {s}]
    /\ IF HasFileChangedEvent(s, worker.version)
       THEN UNCHANGED <<journal, told, late, echoes>>
       ELSE /\ journal' = [journal EXCEPT ![s] = Append(@, Changed(worker.version))]
            /\ told' = [told EXCEPT ![s] = worker.obs.meta]
            /\ late' = late \ {s}
            /\ echoes' = echoes \cup (own \cap {worker.obs.meta})
    /\ UNCHANGED <<disk, writes, queue, gate, put, clock, observed, open, faults, announced, lost,
                   merged, own>>

\* One session refuses the event: the others of the list go without.
FanOutFails ==
    /\ WorkerAt({"fanout"}) /\ worker.todo # {} /\ faults < MaxFaults
    /\ faults' = faults + 1
    /\ lost' = TRUE
    /\ gate' = "free" /\ worker' = Resting
    /\ UNCHANGED <<disk, writes, queue, put, clock, observed, open, journal, told, announced,
                   merged, own, echoes, late>>

\* The observation is kept only once every session has the event.
FanOutDone ==
    /\ WorkerAt({"fanout"}) /\ worker.todo = {}
    /\ observed' = worker.obs
    /\ lost' = (lost /\ worker.obs.meta # disk)
    /\ merged' = (merged /\ announced # worker.obs.meta)
    /\ gate' = "free" /\ worker' = Resting
    /\ UNCHANGED <<disk, writes, queue, put, clock, open, journal, faults, told, announced, own,
                   echoes, late>>

-------------------------------------------------------------------------------
\* The daemon stops and starts: the queue and the observations are gone, and the
\* clock is the greatest version of any journal.  (Module FileTransaction has
\* what a crash inside a write does.)
Restart ==
    /\ faults < MaxFaults /\ gate # "put"
    /\ faults' = faults + 1
    /\ clock' = Max({0} \cup {Max({0} \cup {journal[s][k].version : k \in DOMAIN journal[s]}) : s \in open})
    /\ lost' = (lost \/ queue > 0 \/ worker.pc # "idle")
    /\ queue' = 0 /\ gate' = "free" /\ worker' = Resting /\ observed' = Unobserved
    /\ UNCHANGED <<disk, writes, put, open, journal, told, announced, merged, own, echoes, late>>

WorkerStep ==
    \/ WorkerTake \/ ObserveMetadata \/ ObserveDigest \/ WorkerSkip \/ WorkerGate
    \/ WorkerUnchanged \/ WorkerDecide \/ (\E s \in Sessions : FanOut(s)) \/ FanOutDone

Next ==
    \/ ExternalWrite
    \/ \E s \in Sessions : PutInstall(s) \/ OpenSession(s) \/ OtherEvent(s)
    \/ PutCommit \/ PutFails
    \/ WorkerStep \/ FanOutFails
    \/ Restart

\* The worker and a running write are tasks of the runtime: they go on.
Spec == Init /\ [][Next]_vars /\ WF_vars(WorkerStep) /\ WF_vars(PutCommit)

-------------------------------------------------------------------------------
(* Properties.                                                             *)

FileEvents(s) == {k \in DOMAIN journal[s] : journal[s][k] # Other}

\* Nobody works with a stale view: once the watcher has caught up, the last event
\* of every session is about the file as it is, unless a notification was lost, a
\* new state was announced under a version some sessions already held, or the
\* session was opened while a change was being dealt with and nothing came since
\* (record_workspace_file_events).
Informed == Quiet /\ ~lost /\ ~merged => AllTold

\* The same without exempting versions in use: a genuinely new observation advances
\* the clock, so every session is told of it (record_workspace_file_events).
NewStateNewVersion == Quiet /\ ~lost => AllTold

\* A write made through the daemon is not reported as a change from outside, as
\* long as the file is small enough to be hashed, no write was rolled back and the
\* daemon was not restarted (note_workspace_mutation).
NoEcho == faults = 0 => echoes \subseteq Large

\* Along one journal the versions of the file go up; only a FILE_CHANGED that has
\* left the window can be repeated (has_file_changed_event_locked).  The version of
\* a FILE_MUTATION belongs to it alone, in all journals, before and after restarts
\* (the shared workspace_file_versions clock).
VersionsOrdered ==
    \A s, t \in Sessions : \A j \in FileEvents(s), k \in FileEvents(t) :
        /\ s = t /\ j < k => \/ journal[s][j].version < journal[s][k].version
                             \/ journal[s][j] = journal[s][k] /\ j + Window < k
        /\ journal[s][j].kind = "FILE_MUTATION" /\ journal[s][j].version = journal[t][k].version
             => s = t /\ j = k

\* Every notification is dealt with: the worker always gets back to an empty queue
\* with the gate released.
Drains == queue > 0 ~> Quiet
===============================================================================
