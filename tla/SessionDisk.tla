------------------------------ MODULE SessionDisk -----------------------------
(***************************************************************************)
(* The durable half of one session: the write-ahead log in segments, the   *)
(* compaction snapshot and the event-consumer sidecar, together with the   *)
(* in-memory handles the daemon keeps on them.  Files are inodes; a name   *)
(* in the session directory and an open descriptor are different things,   *)
(* because the code renames, truncates and unlinks files it holds open.    *)
(*                                                                         *)
(* Every handler runs under the session's commit lock, so it is one        *)
(* action.  A crash inside a handler, or an I/O error half way, is that    *)
(* action stopped after a prefix of its file operations.                   *)
(*                                                                         *)
(* Abstractions: one event frame is one unit of size; an event is its ID   *)
(* and a stamp that tells apart any two events ever committed; a torn      *)
(* frame at the end of the active log is a frame that is not there, as     *)
(* load_event_log truncates it; the legacy v1 frame format is left out.    *)
(***************************************************************************)
EXTENDS Integers, Sequences, SequencesExt, FiniteSets

CONSTANTS Consumers,    \* named event consumers
          SegmentMax,   \* EVENT_SEGMENT_MAX_BYTES, in frames
          LogMax,       \* EVENT_LOG_MAX_BYTES, in frames
          CompactMin,   \* EVENT_LOG_COMPACT_THRESHOLD, in frames
          Window,       \* JOURNAL_MAX_EVENTS
          ReplayMax,    \* the durable replay cap, in events
          MaxStamp,     \* bound: events ever written
          MaxFiles,     \* bound: log files ever created
          Faults,       \* the faults this instance admits, a subset of AllFaults
          None          \* the ack of a consumer that holds no lease

AllFaults == {"power", "rot", "rotate", "compact"}

ASSUME DiskAssumption ==
    /\ {SegmentMax, LogMax, CompactMin, Window, ReplayMax, MaxStamp, MaxFiles} \subseteq Nat \ {0}
    /\ Faults \subseteq AllFaults
    /\ None \notin Nat

VARIABLES
    status,            \* "up", "down", or "refused": the last start failed
    files,             \* inode -> [name, hdr, frames, synced]
    snap,              \* stamps in the snapshot file; through_event_id is its length
    consumersFile,     \* event-consumers.bin
    fd,                \* EventFile.file: the inode appends go to
    segments,          \* SessionDisk.segments: paths, as the inodes they named
    snapshotBoundary,  \* SessionDisk.snapshot_boundary
    evicted,           \* highest event ID that is not in the in-memory journal
    consumers,         \* Session.event_consumers: acknowledged event IDs
    hist,              \* materialised history: hist[id] is the stamp; next_id = Len(hist)
    stamp,             \* stamps used so far
    stable,            \* ghost: the longest history ever made durable
    published,         \* ghost: (id, stamp) pairs sent to subscribers
    damage             \* ghost: "none", "power" once frames were lost, "rot" once one was damaged

diskVars == <<files, snap, consumersFile>>
memVars == <<fd, segments, snapshotBoundary, evicted, consumers>>
vars == <<status, diskVars, memVars, hist, stamp, stable, published, damage>>

NextId == Len(hist)

NewFile == [name |-> "events.log", hdr |-> TRUE, frames |-> <<>>, synced |-> 0]

Named(fs, n) == {i \in DOMAIN fs : fs[i].name = n}

\* Mutant: sync_data is never called.
FsyncNothing(fs, i) == fs

Fsynced(fs, i) == [fs EXCEPT ![i].synced = Len(fs[i].frames)]
Renamed(fs, i, n) == [fs EXCEPT ![i].name = n]

-------------------------------------------------------------------------------
(* load_event_log: scan the frames of one file.  next is loaded.next_id,   *)
(* which equals last_event_id throughout.                                  *)

\* Mutant: the checksum is not verified.
BadFrameNoChecksum(st, e) ==
    \/ e.id <= st.raw
    \/ e.id <= st.bound /\ st.next > st.bound
    \/ e.id > st.bound /\ e.id # st.next + 1

BadFrame(st, e) ==
    \/ ~e.good
    \/ e.id <= st.raw
    \/ e.id <= st.bound /\ st.next > st.bound
    \/ e.id > st.bound /\ e.id # st.next + 1

ScanFrame(st, e) ==
    CASE st.why # "ok" -> st
      [] st.why = "ok" /\ BadFrame(st, e) -> [st EXCEPT !.why = "corrupt"]
      [] OTHER ->
           IF e.id <= st.next THEN [st EXCEPT !.raw = e.id]
           ELSE IF e.id > st.limit THEN [st EXCEPT !.why = "limited"]
           ELSE [st EXCEPT !.raw = e.id, !.next = e.id, !.hist = Append(@, e.stamp)]

\* A file of nonzero length that does not start with the magic is refused and
\* left alone; an empty one gets its header back.
LoadEventLog(st, i) ==
    IF st.why # "ok" THEN st
    ELSE IF ~files[i].hdr /\ files[i].frames # <<>>
         THEN [st EXCEPT !.why = "format", !.at = i]
         ELSE [FoldLeft(ScanFrame, [st EXCEPT !.raw = 0], files[i].frames) EXCEPT !.at = i]

ScanFrom(bound, h, limit) ==
    [why |-> "ok", at |-> 0, raw |-> 0, bound |-> bound, next |-> bound,
     hist |-> h, limit |-> limit]

\* quarantine_event_log.  The new name of a segment still matches the
\* events-<id>-*.log pattern of list_event_segments; that of events.log does not.
Quarantined(i) ==
    Renamed(files, i, IF files[i].name = "events.log" THEN "corrupt" ELSE "moved")

\* list_event_segments, in the order of the first event ID in the name
ListEventSegments ==
    LET firstId(i) == IF files[i].frames = <<>> THEN 0 ELSE files[i].frames[1].id
    IN  SetToSortSeq(Named(files, "segment") \cup Named(files, "moved"),
                     LAMBDA i, j : firstId(i) < firstId(j) \/ (firstId(i) = firstId(j) /\ i < j))

\* read_events_since for a cursor at or after the snapshot boundary: the
\* segments by the paths in memory, then whatever is called events.log.
ReadEventsSince(c) ==
    LET open(st, i) == IF st.why = "ok" /\ files[i].name # "segment"
                       THEN [st EXCEPT !.why = "missing"] ELSE LoadEventLog(st, i)
        scan == FoldLeft(open, ScanFrom(snapshotBoundary, <<>>, c + ReplayMax), segments)
        active == Named(files, "events.log")
    IN  IF scan.why = "ok" /\ active = {}
        THEN [scan EXCEPT !.why = "missing"]
        ELSE FoldLeft(LoadEventLog, scan, SetToSeq(active))

\* Session.events_since_locked: the answer to a cursor c <= next_id, and
\* whether it carries the compacted flag.
EventsSince(c) ==
    LET read == ReadEventsSince(c)
        tail == IF c < snapshotBoundary THEN <<>>
                ELSE SubSeq(read.hist, c - snapshotBoundary + 1, Len(read.hist))
    IN  CASE c >= evicted -> [why |-> "ok", events |-> SubSeq(hist, c + 1, NextId)]
          [] OTHER -> [why |-> IF c < snapshotBoundary \/ read.why = "limited" THEN "compacted"
                               ELSE IF read.why # "ok" THEN "error"
                               ELSE IF tail = <<>> THEN "compacted" ELSE "ok",
                       events |-> tail]
-------------------------------------------------------------------------------
(* SessionDisk::append and rotate_locked.                                  *)

\* The log as append leaves it to the frame write: rotated first when the
\* frame would not fit.  rename() acts on the name events.log, not on fd.
RotateDue == Len(files[fd].frames) >= SegmentMax
ActiveNamed == Named(files, "events.log")

RenamedActive ==
    LET i == CHOOSE i \in ActiveNamed : TRUE IN Renamed(Fsynced(files, fd), i, "segment")

RotateLocked ==
    IF ~RotateDue THEN [files |-> files, segments |-> segments, fd |-> fd]
    ELSE [files |-> Append(RenamedActive, NewFile),
          segments |-> segments \o SetToSeq(ActiveNamed),
          fd |-> Len(files) + 1]

\* total_len_locked: a segment whose path is gone counts nothing
TotalLen(log) ==
    FoldLeft(LAMBDA n, i : n + (IF log.files[i].name = "segment" THEN Len(log.files[i].frames) ELSE 0),
             Len(log.files[log.fd].frames), log.segments)

FrameWritten(log) ==
    [log.files EXCEPT ![log.fd].frames =
        Append(@, [id |-> NextId + 1, stamp |-> stamp + 1, good |-> TRUE])]

CanAppend ==
    /\ status = "up" /\ stamp < MaxStamp
    /\ RotateDue => ActiveNamed # {} /\ Len(files) < MaxFiles

UseLog(log) == segments' = log.segments /\ fd' = log.fd

\* Session.append_locked with SessionDisk::append.  sync is the outcome of the
\* group-commit test: always true for an event that is neither PROCESS_OUTPUT
\* nor PTY_STATE_ADVANCED, and for those as the byte and time limits have it.
AppendEvent(sync) ==
    LET log == RotateLocked IN
    /\ CanAppend
    /\ TotalLen(log) < LogMax
    /\ files' = IF sync THEN Fsynced(FrameWritten(log), log.fd) ELSE FrameWritten(log)
    /\ UseLog(log)
    /\ stamp' = stamp + 1
    /\ hist' = Append(hist, stamp + 1)
    /\ stable' = IF sync THEN hist' ELSE stable
    /\ published' = published \cup {<<NextId + 1, stamp + 1>>}
    /\ evicted' = IF NextId + 1 - evicted > Window THEN NextId + 1 - Window ELSE evicted
    /\ UNCHANGED <<status, snap, consumersFile, snapshotBoundary, consumers, damage>>

\* The quota refuses the event, or the write or its sync fails and the frame is
\* truncated away.  The journal rolls the ID back; a rotation that came first stays.
AppendFails ==
    LET log == RotateLocked IN
    /\ CanAppend
    /\ files' = log.files
    /\ UseLog(log)
    /\ UNCHANGED <<status, snap, consumersFile, snapshotBoundary, evicted, consumers,
                   hist, stamp, stable, published, damage>>

\* rotate_locked returns an error after k of: sync, rename, directory sync and
\* push, creation of the new active file.
RotateFails(k) ==
    /\ status = "up" /\ RotateDue
    /\ k > 1 => "rotate" \in Faults /\ ActiveNamed # {}
    /\ files' = IF k = 1 THEN Fsynced(files, fd) ELSE RenamedActive
    /\ segments' = IF k = 3 THEN segments \o SetToSeq(ActiveNamed) ELSE segments
    /\ UNCHANGED <<status, snap, consumersFile, fd, snapshotBoundary, evicted, consumers,
                   hist, stamp, stable, published, damage>>

\* The daemon dies inside append: with the old log renamed and no new one, with
\* the new one created, or with the frame written and nobody told.
AppendCrashes(at) ==
    LET log == RotateLocked IN
    /\ CanAppend
    /\ at # "written" => RotateDue
    /\ files' = CASE at = "renamed" -> RenamedActive
                  [] at = "rotated" -> log.files
                  [] at = "written" -> FrameWritten(log)
    /\ status' = "down"
    /\ hist' = IF at = "written" THEN Append(hist, stamp + 1) ELSE hist
    /\ stamp' = IF at = "written" THEN stamp + 1 ELSE stamp
    /\ UNCHANGED <<snap, consumersFile, memVars, stable, published, damage>>

\* SessionDisk::sync, on a clean shutdown
Shutdown ==
    /\ status = "up"
    /\ files' = Fsynced(files, fd)
    /\ stable' = hist
    /\ status' = "down"
    /\ UNCHANGED <<snap, consumersFile, memVars, hist, stamp, published, damage>>
-------------------------------------------------------------------------------
(* Session.compact_if_needed and SessionDisk::compact.                     *)

\* The leases a maintenance pass finds expired are removed, in memory and in
\* the sidecar, before anything else.
Pruned(expired) == [c \in Consumers |-> IF c \in expired THEN None ELSE consumers[c]]

\* Size or age.  The age of a retained event is any; an empty journal has none.
CompactDue ==
    \/ TotalLen([files |-> files, segments |-> segments, fd |-> fd]) >= CompactMin
    \/ evicted < NextId

\* Mutant: a consumer holds compaction back only while it is in the journal window.
CompactAllowedWindow(held) == \A c \in Consumers : held[c] # None => held[c] >= evicted

\* No unexpired consumer is behind the head.
CompactAllowed(held) == \A c \in Consumers : held[c] # None => held[c] >= NextId

\* The log files after k of: snapshot written, active log truncated, its header
\* written and synced, old segments unlinked.
CompactedFiles(k) ==
    LET reset == [files EXCEPT ![fd] = [@ EXCEPT !.hdr = k > 2, !.frames = <<>>, !.synced = 0]]
        unlink(fs, i) == IF fs[i].name = "segment" THEN Renamed(fs, i, "gone") ELSE fs
    IN  IF k < 2 THEN files
        ELSE IF k < 4 THEN reset ELSE FoldLeft(unlink, reset, segments)

\* Mutant: the log is reset before the snapshot is written.
CompactStepResetFirst(k) ==
    /\ files' = CompactedFiles(k)
    /\ snap' = IF k > 3 THEN hist ELSE snap
    /\ stable' = IF k > 3 THEN hist ELSE stable

CompactStep(k) ==
    /\ files' = CompactedFiles(k)
    /\ snap' = IF k > 0 THEN hist ELSE snap
    /\ stable' = IF k > 0 THEN hist ELSE stable

\* Only the lease cleanup happens: nothing is due, or a consumer is behind.
PruneConsumers(expired) ==
    /\ status = "up"
    /\ Pruned(expired) # consumers
    /\ ~CompactDue \/ ~CompactAllowed(Pruned(expired))
    /\ consumers' = Pruned(expired)
    /\ consumersFile' = consumers'
    /\ UNCHANGED <<status, files, snap, fd, segments, snapshotBoundary, evicted,
                   hist, stamp, stable, published, damage>>

MayCompact(expired) ==
    /\ status = "up"
    /\ CompactDue
    /\ CompactAllowed(Pruned(expired))
    /\ consumersFile' = Pruned(expired)

Compact(expired) ==
    /\ MayCompact(expired)
    /\ CompactStep(4)
    /\ consumers' = consumersFile'
    /\ segments' = <<>>
    /\ snapshotBoundary' = NextId
    /\ evicted' = NextId
    /\ UNCHANGED <<status, fd, hist, stamp, published, damage>>

\* compact returns an error after k steps; after the fourth it is the directory
\* sync that fails, the segment list already drained.
CompactFails(expired, k) ==
    /\ MayCompact(expired)
    /\ k > 0 => "compact" \in Faults
    /\ CompactStep(k)
    /\ consumers' = consumersFile'
    /\ segments' = IF k = 4 THEN <<>> ELSE segments
    /\ UNCHANGED <<status, fd, snapshotBoundary, evicted, hist, stamp, published, damage>>

CompactCrashes(expired, k) ==
    /\ MayCompact(expired)
    /\ CompactStep(k)
    /\ status' = "down"
    /\ UNCHANGED <<memVars, hist, stamp, published, damage>>

-------------------------------------------------------------------------------
(* Acknowledgements, replay from disk, crashes and starts.                 *)

\* ack_event_consumer: cumulative, and durable before it is answered
AckEventConsumer(c, n) ==
    /\ status = "up" /\ n <= NextId
    /\ consumers' = [consumers EXCEPT ![c] = IF @ # None /\ @ > n THEN @ ELSE n]
    /\ consumersFile' = consumers'
    /\ UNCHANGED <<status, files, snap, fd, segments, snapshotBoundary, evicted,
                   hist, stamp, stable, published, damage>>

\* A RESUME or SUBSCRIBE that has to read the log finds it corrupt, moves the
\* file aside and answers with an error; the daemon runs on.
ReplayQuarantines(c) ==
    /\ status = "up" /\ snapshotBoundary <= c /\ c < evicted
    /\ ReadEventsSince(c).why = "corrupt"
    /\ files' = Quarantined(ReadEventsSince(c).at)
    /\ UNCHANGED <<status, snap, consumersFile, memVars, hist, stamp, stable, published, damage>>

\* The process is killed between two handlers: the page cache survives.
Kill ==
    /\ status = "up"
    /\ status' = "down"
    /\ UNCHANGED <<diskVars, memVars, hist, stamp, stable, published, damage>>

\* The machine loses power: of the frames not yet synced a prefix survives.
PowerLoss ==
    /\ "power" \in Faults /\ damage # "rot"
    /\ status # "refused"
    /\ \E i \in DOMAIN files : \E n \in files[i].synced .. Len(files[i].frames) - 1 :
          files' = [files EXCEPT ![i].frames = SubSeq(@, 1, n)]
    /\ status' = "down"
    /\ damage' = "power"
    /\ UNCHANGED <<snap, consumersFile, memVars, hist, stamp, stable, published>>

\* The medium damages one frame that was written correctly (once, and in
\* behaviours without a power loss).
BitRot ==
    /\ "rot" \in Faults /\ damage = "none"
    /\ \E i \in DOMAIN files : \E k \in DOMAIN files[i].frames :
          files' = [files EXCEPT ![i].frames[k] = [@ EXCEPT !.good = FALSE, !.stamp = 0]]
    /\ damage' = "rot"
    /\ UNCHANGED <<status, snap, consumersFile, memVars, hist, stamp, stable, published>>

\* SessionDisk::open.  The active log is created when its name is missing and
\* gets its header back when it is empty.
OpenedFiles ==
    IF ActiveNamed = {} THEN Append(files, NewFile)
    ELSE [i \in DOMAIN files |-> IF files[i].frames = <<>> THEN [files[i] EXCEPT !.hdr = TRUE]
                                                           ELSE files[i]]

\* Mutant: startup reads the rotated segments and not the active log.
OpenScanSegments ==
    FoldLeft(LoadEventLog, ScanFrom(Len(snap), snap, MaxStamp), ListEventSegments)

OpenScan ==
    FoldLeft(LoadEventLog, ScanFrom(Len(snap), snap, MaxStamp),
             ListEventSegments \o SetToSeq(ActiveNamed))

AcksWithin(n) == \A c \in Consumers : consumersFile[c] # None => consumersFile[c] <= n

Open ==
    /\ status # "up"
    /\ ActiveNamed = {} => Len(files) < MaxFiles
    /\ OpenScan.why = "ok" /\ AcksWithin(OpenScan.next)
    /\ status' = "up"
    /\ files' = OpenedFiles
    /\ fd' = CHOOSE i \in Named(OpenedFiles, "events.log") : TRUE
    /\ segments' = ListEventSegments
    /\ snapshotBoundary' = Len(snap)
    /\ hist' = OpenScan.hist
    /\ evicted' = IF Len(hist') - Len(snap) > Window THEN Len(hist') - Window ELSE Len(snap)
    /\ consumers' = consumersFile
    /\ UNCHANGED <<snap, consumersFile, stamp, stable, published, damage>>

\* A start that fails: the damaged file is quarantined, or a file that is not a
\* log, or an acknowledgement beyond the head, is left as it is.  The supervisor
\* starts the daemon again (deploy/systemd: Restart=on-failure).
OpenRefused ==
    /\ status # "up"
    /\ OpenScan.why # "ok" \/ ~AcksWithin(OpenScan.next)
    /\ ActiveNamed = {} => Len(files) < MaxFiles
    /\ status' = "refused"
    /\ files' = CASE OpenScan.why = "corrupt" -> Quarantined(OpenScan.at)
                  [] OpenScan.why = "format" -> files
                  [] OTHER -> OpenedFiles
    /\ UNCHANGED <<snap, consumersFile, memVars, hist, stamp, stable, published, damage>>
-------------------------------------------------------------------------------
Init ==
    /\ status = "down"
    /\ files = <<>> /\ snap = <<>>
    /\ consumersFile = [c \in Consumers |-> None]
    /\ fd = 0 /\ segments = <<>> /\ snapshotBoundary = 0 /\ evicted = 0
    /\ consumers = consumersFile
    /\ hist = <<>> /\ stamp = 0 /\ stable = <<>> /\ published = {}
    /\ damage = "none"

Next ==
    \/ \E sync \in BOOLEAN : AppendEvent(sync)
    \/ AppendFails
    \/ \E k \in 1 .. 3 : RotateFails(k)
    \/ \E at \in {"renamed", "rotated", "written"} : AppendCrashes(at)
    \/ \E expired \in SUBSET Consumers :
          \/ PruneConsumers(expired)
          \/ Compact(expired)
          \/ \E k \in 0 .. 4 : CompactFails(expired, k) \/ CompactCrashes(expired, k)
    \/ \E c \in Consumers, n \in 0 .. MaxStamp : AckEventConsumer(c, n)
    \/ \E c \in 0 .. MaxStamp : ReplayQuarantines(c)
    \/ Shutdown \/ Kill \/ PowerLoss \/ BitRot
    \/ Open \/ OpenRefused

Spec == Init /\ [][Next]_vars

-------------------------------------------------------------------------------
(* Properties.                                                             *)

\* Committed history survives: a running daemon serves every event whose append,
\* sync or snapshot reported success, at the ID it was given, whatever crashes,
\* power losses, rotations, compactions and starts came between
\* (SessionDisk::append, compact, open).
CommittedSurvives == status = "up" /\ damage # "rot" => IsPrefix(stable, hist)

\* The same with a damaged log: a start fails rather than serve a history that
\* lacks committed events (quarantine_event_log).
FailsClosed == status = "up" => IsPrefix(stable, hist)

\* A cursor answered without an error gets exactly the events after it, even from
\* a damaged log.  Without damage it is always answered, and the compacted flag
\* is raised only for a cursor before the snapshot boundary or a replay over the
\* cap (Session.events_since_locked).
ReplayExact ==
    status = "up" => \A c \in 0 .. NextId :
        LET r == EventsSince(c) IN
        /\ r.why = "ok" => r.events = SubSeq(hist, c + 1, NextId)
        /\ damage # "rot" =>
              /\ r.why = "compacted" => c < snapshotBoundary \/ NextId - c > ReplayMax
              /\ r.why # "error"

\* A consumer's lease keeps its history replayable: while its acknowledgement
\* stands, no compaction, crash or start moves the boundary past it
\* (the comment in compact_if_needed, "Never cross an unexpired named consumer's
\* durable acknowledgement").
LeaseKeepsReplay ==
    [][\A c \in Consumers :
          consumers[c] # None /\ consumers'[c] = consumers[c] /\ consumers[c] >= snapshotBoundary
             => consumers[c] >= snapshotBoundary']_vars

\* As long as no power is lost, crashes go unnoticed: an event ID sent to a
\* subscriber is never given to another event, and a start is never refused, for
\* neither the scan of the log nor the check of acknowledgements against the head
\* finds anything wrong (Journal::append, rollback, SessionDisk::open).  Killing
\* the daemon at any instant would give back exactly the history it is serving,
\* unsynced output included: snapshot, segments and active log never disagree
\* with the journal in memory.
CrashUnseen ==
    /\ damage = "none" => /\ status # "refused"
                          /\ \A p \in published, q \in published : p[1] = q[1] => p = q
    /\ status = "up" /\ damage # "rot" => OpenScan.why = "ok" /\ OpenScan.hist = hist

\* The files implement the abstract durable log.
Abstract == INSTANCE DurableLog WITH
    Value <- 1 .. MaxStamp, log <- hist, durable <- Len(stable),
    serving <- (status = "up"), broken <- (damage = "rot")

ImplementsDurableLog == Abstract!LogSpec
===============================================================================
