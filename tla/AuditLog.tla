------------------------------- MODULE AuditLog --------------------------------
(***************************************************************************)
(* The audit log of aspd: request handlers put entries in a bounded queue  *)
(* without waiting, a thread of its own writes them and rotates the file,  *)
(* and readiness reports what was lost.  An entry is its number in the     *)
(* order of the calls; the size of a file counts entries.  The thread      *)
(* holds the active segment open; after a rotation that failed half way    *)
(* that file has the name of the retained segment.                         *)
(***************************************************************************)
EXTENDS Naturals, Sequences, Functions

CONSTANTS
    AuditQueue,     \* AUDIT_QUEUE_CAPACITY
    AuditMax,       \* AUDIT_MAX_BYTES, in entries
    MaxEntries,     \* bound: calls of audit_event
    MaxAuditFaults  \* bound: I/O errors and restarts

VARIABLES
    queue,      \* the channel: entries, and Shutdown
    writer,     \* the thread: "run" or "gone"
    segment,    \* the files audit.log and audit.log.1, or Missing
    fd,         \* the name that the thread's file has now
    dropped, auditFailures,  \* AuditInner
    stopping,   \* the daemon drains
    recorded,   \* calls so far; those after `before` were made in this process
    before,
    aged,       \* entries whose segment was replaced by a later one
    auditFaults

auditVars == <<queue, writer, segment, fd, dropped, auditFailures, stopping, recorded, before, aged,
               auditFaults>>

Missing == <<0>>
Shutdown == 0
AuditFault == auditFaults < MaxAuditFaults /\ auditFaults' = auditFaults + 1

AuditInit ==
    /\ queue = <<>> /\ writer = "run"
    /\ segment = [log |-> <<>>, old |-> Missing] /\ fd = "log"
    /\ dropped = 0 /\ auditFailures = 0 /\ stopping = FALSE
    /\ recorded = 0 /\ before = 0 /\ aged = {} /\ auditFaults = 0

(* The daemon is ready as far as the audit log and draining are concerned. *)
AuditReady == dropped = 0 /\ auditFailures = 0 /\ ~stopping

DroppedUncounted == dropped

(* A full queue and a thread that is gone are both counted. *)
DroppedCounted == dropped + 1

Record ==
    /\ recorded < MaxEntries /\ recorded' = recorded + 1
    /\ IF writer = "run" /\ Len(queue) < AuditQueue
       THEN queue' = Append(queue, recorded + 1) /\ UNCHANGED <<dropped, auditFailures>>
       ELSE /\ dropped' = DroppedCounted
            /\ auditFailures' = IF writer = "gone" THEN auditFailures + 1 ELSE auditFailures
            /\ UNCHANGED queue
    /\ UNCHANGED <<writer, segment, fd, stopping, before, aged, auditFaults>>

------------------------------------------------------------------------------
(* audit_writer *)

ActiveSegment == IF fd = "log" THEN segment.log ELSE segment.old
Full == Len(ActiveSegment) + 1 > AuditMax
Take(e) == writer = "run" /\ queue # <<>> /\ Head(queue) = e /\ queue' = Tail(queue)
Entries(s) == IF s = Missing THEN {} ELSE Range(s)

(* replace_audit_segment: the retained segment is lost; then there is no active one. *)
Replaced == [old |-> segment.log, log |-> Missing]

(* open_audit_file makes the file if there is none. *)
Opened(files) == IF files.log = Missing THEN [files EXCEPT !.log = <<>>] ELSE files

(* The entry is written.  A sync that is due may fail; that is counted, and
   the entry stays. *)
WriteEntry(e) ==
    /\ e # Shutdown /\ Take(e) /\ ~Full
    /\ segment' = IF fd = "log" THEN [segment EXCEPT !.log = Append(@, e)]
                  ELSE [segment EXCEPT !.old = Append(@, e)]
    /\ \/ UNCHANGED <<auditFailures, auditFaults>>
       \/ auditFailures' = auditFailures + 1 /\ AuditFault
    /\ UNCHANGED <<writer, fd, dropped, stopping, recorded, before, aged>>

(* The retained segment is replaced by the active one, and a new one opened, which
   then gets the entry or does not. *)
RotateAndWrite(e) ==
    /\ e # Shutdown /\ Take(e) /\ Full /\ segment.log # Missing
    /\ LET new == Opened(Replaced)
           both == [new EXCEPT !.log = <<e>>]
       IN  \/ segment' = both /\ UNCHANGED <<auditFailures, auditFaults>>
           \/ segment' \in {new, both} /\ auditFailures' = auditFailures + 1 /\ AuditFault
    /\ fd' = "log" /\ aged' = aged \cup Entries(segment.old)
    /\ UNCHANGED <<writer, dropped, stopping, recorded, before>>

(* rotate_audit_file fails after the rename.  If it was the new file that could
   not be opened, the old name is given back, which may fail as well; after
   a directory sync that failed it is not. *)
RotateFails(e) ==
    /\ e # Shutdown /\ Take(e) /\ Full /\ segment.log # Missing /\ AuditFault
    /\ aged' = aged \cup Entries(segment.old)
    /\ \/ segment' = [old |-> Missing, log |-> segment.log] /\ UNCHANGED fd
       \/ segment' = Replaced /\ fd' = "old"
    /\ auditFailures' = auditFailures + 1
    /\ UNCHANGED <<writer, dropped, stopping, recorded, before>>

(* The entry is not written: an error before the rename or of the write, or
   there is no file of that name to rename. *)
EntryFails(e) ==
    /\ e # Shutdown /\ Take(e)
    /\ IF Full /\ segment.log = Missing THEN UNCHANGED auditFaults ELSE AuditFault
    /\ auditFailures' = auditFailures + 1
    /\ UNCHANGED <<writer, segment, fd, dropped, stopping, recorded, before, aged>>

(* SIGTERM: the daemon drains, and handlers go on for a while. *)
Drain ==
    /\ ~stopping /\ stopping' = TRUE
    /\ UNCHANGED <<queue, writer, segment, fd, dropped, auditFailures, recorded, before, aged,
                   auditFaults>>

(* shutdown_audit: the message goes behind what is queued, when there is room. *)
ShutdownAudit ==
    /\ stopping /\ writer = "run" /\ Shutdown \notin Range(queue)
    /\ Len(queue) < AuditQueue /\ queue' = Append(queue, Shutdown)
    /\ UNCHANGED <<writer, segment, fd, dropped, auditFailures, stopping, recorded, before, aged,
                   auditFaults>>

(* What was queued behind the message goes with the channel. *)
StopWriter ==
    /\ writer = "run" /\ queue # <<>> /\ Head(queue) = Shutdown
    /\ queue' = <<>> /\ writer' = "gone"
    /\ \/ UNCHANGED <<auditFailures, auditFaults>>
       \/ auditFailures' = auditFailures + 1 /\ AuditFault
    /\ UNCHANGED <<segment, fd, dropped, stopping, recorded, before, aged>>

(* The daemon dies, in the middle of a rotation too, and is started again: AuditSink::open.
   The thread may then fail to open what was opened a moment ago. *)
AuditRestart ==
    /\ AuditFault
    /\ \E s \in {segment} \cup (IF Full /\ segment.log # Missing /\ queue # <<>>
                                THEN {Replaced} ELSE {}) :
          /\ segment' = Opened(s)
          /\ aged' = aged \cup (Entries(segment.old) \ Entries(s.old))
    /\ fd' = "log" /\ queue' = <<>> /\ dropped' = 0 /\ stopping' = FALSE
    /\ before' = recorded
    /\ \/ writer' = "run" /\ auditFailures' = 0
       \/ writer' = "gone" /\ auditFailures' = 1
    /\ UNCHANGED recorded

AuditNext ==
    \/ Record \/ Drain \/ ShutdownAudit \/ StopWriter \/ AuditRestart
    \/ \E e \in 1 .. MaxEntries :
          WriteEntry(e) \/ RotateAndWrite(e) \/ RotateFails(e) \/ EntryFails(e)

AuditSpec == AuditInit /\ [][AuditNext]_auditVars

------------------------------------------------------------------------------
(* A daemon that "can no longer guarantee its operational record" is not ready:
   while it is, every entry of this process is queued, is in one of the two
   files, or was in a segment that two rotations have pushed out.  And the files
   hold their entries in the order of the calls. *)
ReadyMeansAudited ==
    LET kept == IF segment.old = Missing THEN <<>> ELSE segment.old
        now == IF segment.log = Missing THEN <<>> ELSE segment.log
    IN  /\ AuditReady =>
             before + 1 .. recorded \subseteq Range(queue) \cup Range(kept \o now) \cup aged
        /\ \A i, j \in DOMAIN (kept \o now) : i < j => (kept \o now)[i] < (kept \o now)[j]
===============================================================================
