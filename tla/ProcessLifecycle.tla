--------------------------- MODULE ProcessLifecycle ---------------------------
(***************************************************************************)
(* Persisted processes of one session: the start transaction, the monitor  *)
(* that follows a process through its log files, and what startup does     *)
(* with the processes and start intents it finds.                          *)
(*                                                                         *)
(* A process is the number of the start that made it; the number stands    *)
(* for the process ID, the PID and the artifact directory.  A start holds  *)
(* the commit lock from its first to its last step, so nothing is appended *)
(* in between; but the daemon may die between two steps, and the child     *)
(* runs from the moment it is spawned.  Output is counted in batches       *)
(* (PROCESS_LOG_READ_BATCH_BYTES), stdout and stderr together; exit codes  *)
(* are left out.  An append that fails leaves no frame behind (module      *)
(* SessionDisk).  A probe of a PID and the signal that depends on it are   *)
(* one step.                                                               *)
(***************************************************************************)
EXTENDS Naturals, Sequences, FiniteSets, Functions

CONSTANTS Requests,     \* request IDs of EXEC and SPAWN, each with one command
          MaxRunning,   \* MAX_RUNNING_PROCESSES
          IdleRounds,   \* quiet rounds that end the final drain (3)
          DrainRounds,  \* rounds after which it ends in any case (500)
          MaxStarts,    \* bound: processes started
          MaxWrites,    \* bound: batches the processes write
          MaxFails,     \* bound: I/O errors
          MaxCrashes,   \* bound: deaths of the daemon or of the host
          MaxHistory    \* bound: starts, I/O errors and deaths together

ASSUME ProcessAssumption ==
    /\ {MaxRunning, DrainRounds} \subseteq Nat \ {0}
    /\ IdleRounds \in Nat /\ IdleRounds > 1
    /\ {MaxStarts, MaxWrites, MaxFails, MaxCrashes,
        MaxHistory} \subseteq Nat

Procs == 1 .. MaxStarts

VARIABLES
    status,    \* "up", "starting" or "down"
    os,        \* process -> what the kernel has under its PID and group
    exitFile,  \* processes that have an exit.status
    clock,     \* process -> "never", "running" or "passed": its deadline
    log,       \* process -> batches in its log files
    synced,    \* process -> batches that are on stable storage
    intent,    \* process -> its PendingProcessStart on disk
    journal,   \* events of the session
    durable,   \* how many of them are on stable storage
    rec,       \* process -> ProcessRecord
    slots,     \* running_processes
    start,     \* the start that holds the commit lock
    mon,       \* process -> its monitor task
    answer,    \* request -> process the client was told of, 0 if none
    quiet,     \* ghost: processes whose monitor saw the log quiet and the group gone
    fails,     \* I/O errors so far
    crashes    \* deaths so far

kernel == <<os, exitFile, clock, log>>
disk == <<synced, intent, journal, durable>>
memory == <<rec, slots, start, mon>>
rest == <<answer, quiet, fails, crashes>>
vars == <<status, kernel, disk, memory, rest>>

(* What the kernel has:                                                    *)
(*   "none"     nothing was spawned                                        *)
(*   "run"      the wrapper runs the command                               *)
(*   "marked"   the wrapper has written exit.status and is about to exit   *)
(*   "orphans"  the wrapper is gone, others of its group still run         *)
(*   "dying"    the group was killed and has not disappeared yet           *)
(*   "gone"     neither the PID nor the group exists                       *)
(*   "reused"   the PID belongs to a process ASP knows nothing of          *)
Wrapped == {"run", "marked"}

(* Intents: "nopid" and "pid" as written before and after the spawn,       *)
(* "removed" once unlinked without a directory sync.                       *)
DirectorySynced(f) == [p \in Procs |-> IF f[p] = "removed" THEN "none" ELSE f[p]]

NoRec == [running |-> FALSE, bytes |-> 0]
NoStart == [step |-> "idle"]
NoMon == [step |-> "none", child |-> FALSE, valid |-> FALSE, timeout |-> "no",
          final |-> FALSE, idle |-> 0, round |-> 0]

ProcessStarted(r, p) == [kind |-> "started", proc |-> p, req |-> r]
ProcessOutput(p, n) == [kind |-> "output", proc |-> p, offset |-> n]
ProcessExited(p) == [kind |-> "exited", proc |-> p]

StartsIn(events, r) == {e.proc : e \in {e \in events : e.kind = "started" /\ e.req = r}}
Started(p) == \E k \in DOMAIN journal : journal[k].kind = "started" /\ journal[k].proc = p
Exited(p) == \E k \in DOMAIN journal : journal[k].kind = "exited" /\ journal[k].proc = p
OutputsAt(p) == {k \in DOMAIN journal : journal[k].kind = "output" /\ journal[k].proc = p}
Outputs(p) == Cardinality(OutputsAt(p))

\* process_requests, which holds what the journal holds
StartsOf(r) == StartsIn(Range(journal), r)

Init ==
    /\ status = "up"
    /\ os = [p \in Procs |-> "none"]
    /\ exitFile = {}
    /\ clock = [p \in Procs |-> "never"]
    /\ log = [p \in Procs |-> 0] /\ synced = log
    /\ intent = [p \in Procs |-> "none"]
    /\ journal = <<>> /\ durable = 0
    /\ rec = [p \in Procs |-> NoRec]
    /\ slots = 0
    /\ start = NoStart
    /\ mon = [p \in Procs |-> NoMon]
    /\ answer = [r \in Requests |-> 0]
    /\ quiet = {}
    /\ fails = 0 /\ crashes = 0

-------------------------------------------------------------------------------
(* What the daemon can find out about a PID, and what its signals do.      *)

\* process_is_alive: some process has the PID; a killed one may be a zombie.
Alive(p) == os[p] \in Wrapped \cup {"dying", "reused"}

\* process_group_is_alive: a reused PID may or may not lead a group.
GroupAlive(p) ==
    CASE os[p] \in Wrapped \cup {"orphans", "dying"} -> {TRUE}
      [] os[p] = "reused" -> BOOLEAN
      [] OTHER -> {FALSE}

\* process_identity_matches: the command line names the wrapper of p.  That
\* of a zombie is empty.
Identity(p) ==
    CASE os[p] \in Wrapped -> {TRUE}
      [] os[p] = "dying" -> BOOLEAN
      [] OTHER -> {FALSE}

\* SIGTERM to the group may be ignored, end the wrapper and not the others,
\* or end them all; SIGKILL ends them all.
Terminated(p) == IF os[p] = "dying" THEN {"dying"} ELSE {os[p], "orphans", "dying"}

Room == Cardinality({p \in Procs : os[p] # "none"}) + fails + crashes < MaxHistory
CanFail == fails < MaxFails /\ Room
Fail == fails' = fails + 1
CommitLockFree == start = NoStart
ReserveSlot == slots < MaxRunning /\ slots' = slots + 1
ReleaseSlot == slots' = IF slots > 0 THEN slots - 1 ELSE 0

\* Lifecycle events are synced before the append returns.
AppendSynced(e) == journal' = Append(journal, e) /\ durable' = Len(journal) + 1

-------------------------------------------------------------------------------
(* start_process_blocking and start_persisted_process.                     *)

At(step) == status = "up" /\ start.step = step
StartGoes(step) == start' = [start EXCEPT !.step = step]
StartFails == start' = NoStart /\ ReleaseSlot /\ Fail

\* A request ID that is known is answered with its process; nothing starts.
StartKnown(r) ==
    /\ At("idle") /\ StartsOf(r) # {}
    /\ \E p \in StartsOf(r) : answer' = [answer EXCEPT ![r] = p]
    /\ UNCHANGED <<status, kernel, disk, memory, quiet, fails, crashes>>

\* A fresh UUID: the first number that no start has used.
Unused(p) == os[p] = "none" /\ intent[p] = "none"
Fresh(p) == Unused(p) /\ \A q \in 1 .. p - 1 : ~Unused(q)

\* Mutant: a known request is started again.
StartIntentAgain(r) ==
    /\ At("idle") /\ ReserveSlot /\ Room
    /\ \E p \in Procs : /\ Fresh(p)
                        /\ start' = [step |-> "intent", req |-> r, proc |-> p]
                        /\ intent' = DirectorySynced([intent EXCEPT ![p] = "nopid"])
    /\ UNCHANGED <<status, kernel, synced, journal, durable, rec, mon, rest>>

\* The slot is reserved and the intent, still without a PID, made durable.
StartIntent(r) ==
    /\ At("idle") /\ StartsOf(r) = {} /\ ReserveSlot /\ Room
    /\ \E p \in Procs : /\ Fresh(p)
                        /\ start' = [step |-> "intent", req |-> r, proc |-> p]
                        /\ intent' = DirectorySynced([intent EXCEPT ![p] = "nopid"])
    /\ UNCHANGED <<status, kernel, synced, journal, durable, rec, mon, rest>>

\* The intent was not fully written, the files could not be prepared, the
\* launcher changed or the spawn failed.  The intent is removed, unless that
\* fails too or the error was the directory sync of the intent itself.
StartEndsEarly ==
    /\ At("intent") /\ CanFail
    /\ \E left \in {"none", "nopid"} : intent' = [intent EXCEPT ![start.proc] = left]
    /\ StartFails
    /\ UNCHANGED <<status, kernel, synced, journal, durable, rec, mon, answer,
                   quiet, crashes>>

\* Only a request with a response channel has a deadline.
StartSpawn ==
    /\ At("intent")
    /\ os' = [os EXCEPT ![start.proc] = "run"]
    /\ \E d \in {"never", "running"} : clock' = [clock EXCEPT ![start.proc] = d]
    /\ StartGoes("spawned")
    /\ UNCHANGED <<status, exitFile, log, disk, rec, slots, mon, rest>>

\* write_atomic_file over the intent: the PID is on disk before the event is.
StartPid ==
    /\ At("spawned")
    /\ intent' = [intent EXCEPT ![start.proc] = "pid"]
    /\ StartGoes("pid")
    /\ UNCHANGED <<status, kernel, synced, journal, durable, rec, slots, mon, rest>>

\* abort_spawned_process: SIGKILL to the group of the child, which was not
\* waited for and so still owns its PID.
Aborted(p) == IF os[p] \in Wrapped \cup {"orphans"} THEN "dying" ELSE os[p]

\* The intent stays, in whichever of its two versions the error left it.
StartPidFails ==
    /\ At("spawned") /\ CanFail
    /\ os' = [os EXCEPT ![start.proc] = Aborted(start.proc)]
    /\ \E left \in {"nopid", "pid"} : intent' = [intent EXCEPT ![start.proc] = left]
    /\ StartFails
    /\ UNCHANGED <<status, exitFile, clock, log, synced, journal, durable, rec, mon,
                   answer, quiet, crashes>>

StartJournal ==
    /\ At("pid")
    /\ rec' = [rec EXCEPT ![start.proc] = [running |-> TRUE, bytes |-> 0]]
    /\ AppendSynced(ProcessStarted(start.req, start.proc))
    /\ StartGoes("journaled")
    /\ UNCHANGED <<status, kernel, synced, intent, slots, mon, rest>>

\* The child is aborted and the record taken out again; the intent is removed
\* if that succeeds, the artifacts are left.
StartJournalFails ==
    /\ At("pid") /\ CanFail
    /\ os' = [os EXCEPT ![start.proc] = Aborted(start.proc)]
    /\ \E left \in {"none", "pid"} : intent' = [intent EXCEPT ![start.proc] = left]
    /\ StartFails
    /\ UNCHANGED <<status, exitFile, clock, log, synced, journal, durable, rec, mon,
                   answer, quiet, crashes>>

\* The removal of the intent is not synced, and its failure only logged.
\* Then the client is answered and the monitor spawned with the child.
StartFinish ==
    /\ At("journaled")
    /\ \/ /\ intent' = [intent EXCEPT ![start.proc] = "removed"]
          /\ UNCHANGED fails
       \/ CanFail /\ Fail /\ UNCHANGED intent
    /\ answer' = [answer EXCEPT ![start.req] = start.proc]
    /\ mon' = [mon EXCEPT ![start.proc] = [NoMon EXCEPT !.step = "open", !.child = TRUE]]
    /\ start' = NoStart
    /\ UNCHANGED <<status, kernel, synced, journal, durable, rec, slots, quiet, crashes>>

-------------------------------------------------------------------------------
(* monitor_persistent_process.  One round of its loop is deadline, drain,  *)
(* identity probe, exit probe; the final drain repeats the drain.          *)

Mon(p, step) == status = "up" /\ mon[p].step = step
Go(p, step) == mon' = [mon EXCEPT ![p].step = step]
Ends(p) == mon' = [mon EXCEPT ![p] = NoMon]

\* The deadline is read and the logs are opened; a log shorter than the
\* durable cursor is not read again from its start.
MonitorOpen(p) ==
    /\ Mon(p, "open")
    /\ \E ok \in BOOLEAN :
          /\ ok \/ CanFail
          /\ fails' = IF ok THEN fails ELSE fails + 1
          /\ IF ok /\ log[p] >= rec[p].bytes
             THEN mon' = [mon EXCEPT ![p].step = "deadline", ![p].valid = mon[p].child]
             ELSE Go(p, "fail")
    /\ UNCHANGED <<status, kernel, disk, rec, slots, start, answer, quiet, crashes>>

DeadlineDue(p) == clock[p] = "passed" /\ mon[p].timeout = "no" /\ mon[p].valid

\* No deadline, not yet, or the PID is not that of the wrapper.
MonitorGoesOn(p) ==
    /\ Mon(p, "deadline")
    /\ DeadlineDue(p) => FALSE \in Identity(p)
    /\ Go(p, "drain")
    /\ UNCHANGED <<status, kernel, disk, rec, slots, start, rest>>

\* SIGTERM to the group, and SIGKILL to the wrapper of this daemon's child.
MonitorTimeout(p) ==
    /\ Mon(p, "deadline") /\ DeadlineDue(p) /\ TRUE \in Identity(p)
    /\ \E after \in IF mon[p].child THEN Terminated(p) \ Wrapped ELSE Terminated(p) :
          os' = [os EXCEPT ![p] = after]
    /\ mon' = [mon EXCEPT ![p].step = "drain", ![p].timeout = "sent"]
    /\ UNCHANGED <<status, exitFile, clock, log, disk, rec, slots, start, rest>>

\* PROCESS_TIMEOUT_KILL_GRACE later: SIGKILL to the group, once.
MonitorKill(p) ==
    /\ Mon(p, "deadline") /\ mon[p].timeout = "sent"
    /\ \E same \in Identity(p) : os' = [os EXCEPT ![p] = IF same THEN "dying" ELSE os[p]]
    /\ mon' = [mon EXCEPT ![p].step = "drain", ![p].timeout = "over"]
    /\ UNCHANGED <<status, exitFile, clock, log, disk, rec, slots, start, rest>>

\* drain_persistent_stream: a batch is read, and what the file holds is synced
\* before the batch is journaled.
MonitorRead(p) ==
    /\ Mon(p, "drain") /\ log[p] > rec[p].bytes
    /\ synced' = [synced EXCEPT ![p] = log[p]]
    /\ Go(p, "append")
    /\ UNCHANGED <<status, kernel, intent, journal, durable, rec, slots, start, rest>>

\* An I/O error, or PROCESS_OUTPUT_MAX_BYTES is exceeded.
MonitorReadFails(p) ==
    /\ Mon(p, "drain") /\ CanFail /\ Fail
    /\ Go(p, "fail")
    /\ UNCHANGED <<status, kernel, disk, rec, slots, start, answer, quiet, crashes>>

NextRound(p) == [mon EXCEPT ![p].step = IF mon[p].round + 1 < DrainRounds THEN "drain" ELSE "exit",
                            ![p].round = @ + 1]

\* PROCESS_OUTPUT is synced when the group-commit window is full or over.
MonitorAppend(p) ==
    /\ Mon(p, "append") /\ CommitLockFree
    /\ journal' = Append(journal, ProcessOutput(p, rec[p].bytes))
    /\ durable' \in {durable, Len(journal) + 1}
    /\ rec' = [rec EXCEPT ![p].bytes = @ + 1]
    /\ mon' = IF mon[p].final THEN [NextRound(p) EXCEPT ![p].idle = 0]
                              ELSE [mon EXCEPT ![p].step = "probe"]
    /\ UNCHANGED <<status, kernel, synced, intent, slots, start, rest>>

MonitorAppendFails(p) ==
    /\ Mon(p, "append") /\ CommitLockFree /\ CanFail /\ Fail
    /\ Go(p, "fail")
    /\ UNCHANGED <<status, kernel, disk, rec, slots, start, answer, quiet, crashes>>

\* Nothing new in the log.
MonitorQuiet(p) ==
    /\ Mon(p, "drain") /\ log[p] = rec[p].bytes
    /\ Go(p, IF mon[p].final THEN "group" ELSE "probe")
    /\ UNCHANGED <<status, kernel, disk, rec, slots, start, rest>>

\* Mutant: one quiet round is enough.
MonitorGroupOnce(p) ==
    /\ Mon(p, "group")
    /\ \E alive \in GroupAlive(p) :
          mon' = IF alive THEN [NextRound(p) EXCEPT ![p].idle = 0]
                          ELSE [mon EXCEPT ![p].step = "exit", ![p].idle = IdleRounds]
    /\ UNCHANGED <<status, kernel, disk, rec, slots, start, rest>>

\* The end of a quiet round of drain_persistent_output_until_quiet.
MonitorGroup(p) ==
    /\ Mon(p, "group")
    /\ \E alive \in GroupAlive(p) :
          mon' = CASE alive -> [NextRound(p) EXCEPT ![p].idle = 0]
                   [] ~alive /\ mon[p].idle + 1 = IdleRounds ->
                         [mon EXCEPT ![p].step = "exit", ![p].idle = IdleRounds]
                   [] OTHER -> [NextRound(p) EXCEPT ![p].idle = @ + 1]
    /\ UNCHANGED <<status, kernel, disk, rec, slots, start, rest>>

FinalDrain(p) == mon' = [mon EXCEPT ![p].step = "drain", ![p].final = TRUE]

\* try_wait on this daemon's child, which the first answer reaps.
MonitorTryWait(p) ==
    /\ Mon(p, "probe") /\ mon[p].child
    /\ IF os[p] \in Wrapped \cup {"dying"} THEN Go(p, "deadline") ELSE FinalDrain(p)
    /\ UNCHANGED <<status, kernel, disk, rec, slots, start, rest>>

\* An error of try_wait is an exit with an unknown code.
MonitorTryWaitFails(p) ==
    /\ Mon(p, "probe") /\ mon[p].child /\ CanFail /\ Fail
    /\ FinalDrain(p)
    /\ UNCHANGED <<status, kernel, disk, rec, slots, start, answer, quiet, crashes>>

\* Mutant: the identity probe is forgotten.
MonitorIdentityTrusts(p) ==
    /\ Mon(p, "probe") /\ ~mon[p].child
    /\ mon' = [mon EXCEPT ![p].step = "file", ![p].valid = TRUE]
    /\ UNCHANGED <<status, kernel, disk, rec, slots, start, rest>>

\* A recovered process: no identity is an exit with an unknown code.  The
\* probe is repeated every second.
MonitorIdentity(p) ==
    /\ Mon(p, "probe") /\ ~mon[p].child
    /\ \E same \in Identity(p) :
          mon' = IF same THEN [mon EXCEPT ![p].step = "file", ![p].valid = TRUE]
                 ELSE [mon EXCEPT ![p].step = "drain", ![p].final = TRUE, ![p].valid = FALSE]
    /\ UNCHANGED <<status, kernel, disk, rec, slots, start, rest>>

\* Less than a second after the last probe.
MonitorIdentityKept(p) ==
    /\ Mon(p, "probe") /\ ~mon[p].child /\ mon[p].valid
    /\ Go(p, "file")
    /\ UNCHANGED <<status, kernel, disk, rec, slots, start, rest>>

MonitorExitFile(p) ==
    /\ Mon(p, "file")
    /\ IF p \notin exitFile THEN Go(p, "alive") ELSE FinalDrain(p)
    /\ UNCHANGED <<status, kernel, disk, rec, slots, start, rest>>

MonitorAlive(p) ==
    /\ Mon(p, "alive")
    /\ IF Alive(p) THEN Go(p, "deadline") ELSE FinalDrain(p)
    /\ UNCHANGED <<status, kernel, disk, rec, slots, start, rest>>

Stopped(p) == rec' = [rec EXCEPT ![p].running = FALSE]

\* append_locked gives the slot back.
MonitorExit(p) ==
    /\ Mon(p, "exit") /\ CommitLockFree
    /\ AppendSynced(ProcessExited(p))
    /\ Stopped(p) /\ ReleaseSlot /\ Ends(p)
    /\ quiet' = IF mon[p].idle = IdleRounds THEN quiet \cup {p} ELSE quiet
    /\ UNCHANGED <<status, kernel, synced, intent, start, answer, fails, crashes>>

\* Mutant: the slot is kept when the exit cannot be journaled.
MonitorExitFailsLeak(p) ==
    /\ Mon(p, "exit") /\ CommitLockFree /\ CanFail /\ Fail
    /\ Stopped(p) /\ Ends(p)
    /\ UNCHANGED <<status, kernel, disk, slots, start, answer, quiet, crashes>>

MonitorExitFails(p) ==
    /\ Mon(p, "exit") /\ CommitLockFree /\ CanFail /\ Fail
    /\ Stopped(p) /\ ReleaseSlot /\ Ends(p)
    /\ UNCHANGED <<status, kernel, disk, start, answer, quiet, crashes>>

\* terminate_and_record_process_failure: the group is killed, if the child or
\* the wrapper's command line vouches for the PID.
MonitorFail(p) ==
    /\ Mon(p, "fail")
    /\ IF mon[p].child
       THEN os' = [os EXCEPT ![p] = IF @ \in Wrapped THEN "dying" ELSE @]
       ELSE \E same \in Identity(p) :
               \E after \in IF same THEN Terminated(p) \ Wrapped ELSE {os[p]} :
                  os' = [os EXCEPT ![p] = after]
    /\ Go(p, "failed")
    /\ UNCHANGED <<status, exitFile, clock, log, disk, rec, slots, start, rest>>

\* child.wait, then the record.
MonitorFailed(p) ==
    /\ Mon(p, "failed")
    /\ mon[p].child => os[p] # "dying"
    /\ Stopped(p) /\ Go(p, "lost")
    /\ UNCHANGED <<status, kernel, disk, slots, start, rest>>

MonitorLost(p) ==
    /\ Mon(p, "lost") /\ CommitLockFree
    /\ \/ AppendSynced(ProcessExited(p)) /\ UNCHANGED fails
       \/ CanFail /\ Fail /\ UNCHANGED <<journal, durable>>
    /\ ReleaseSlot /\ Ends(p)
    /\ UNCHANGED <<status, kernel, synced, intent, rec, start, answer, quiet, crashes>>

-------------------------------------------------------------------------------
(* Processes, the kernel and time.                                         *)

Write(p) ==
    /\ os[p] \in Wrapped \cup {"orphans"} /\ FoldFunction(+, 0, log) < MaxWrites
    /\ log' = [log EXCEPT ![p] = @ + 1]
    /\ UNCHANGED <<status, os, exitFile, clock, disk, memory, rest>>

\* PROCESS_WRAPPER: the command ends and its status is moved into place.
Mark(p) ==
    /\ os[p] = "run"
    /\ os' = [os EXCEPT ![p] = "marked"]
    /\ exitFile' = exitFile \cup {p}
    /\ UNCHANGED <<status, clock, log, disk, memory, rest>>

WrapperExits(p) ==
    /\ os[p] = "marked"
    /\ \E after \in {"orphans", "gone"} : os' = [os EXCEPT ![p] = after]
    /\ UNCHANGED <<status, exitFile, clock, log, disk, memory, rest>>

\* SIGNAL_PROCESS, a resource limit or an operator.
Killed(p) ==
    /\ os[p] \in Wrapped
    /\ \E after \in {"orphans", "dying"} : os' = [os EXCEPT ![p] = after]
    /\ UNCHANGED <<status, exitFile, clock, log, disk, memory, rest>>

Disappears(p) ==
    /\ os[p] \in {"orphans", "dying"}
    /\ os' = [os EXCEPT ![p] = "gone"]
    /\ UNCHANGED <<status, exitFile, clock, log, disk, memory, rest>>

\* A child that was not waited for keeps its PID.
Held(p) ==
    \/ start # NoStart /\ start.proc = p
    \/ mon[p].child /\ ~mon[p].final /\ mon[p].step \notin {"lost"}

\* Once the exit is journaled nobody looks at the PID again.
PidReused(p) ==
    /\ os[p] = "gone" /\ ~Held(p) /\ ~Exited(p)
    /\ os' = [os EXCEPT ![p] = "reused"]
    /\ UNCHANGED <<status, exitFile, clock, log, disk, memory, rest>>

DeadlinePasses(p) ==
    /\ clock[p] = "running" /\ os[p] \in Wrapped
    /\ clock' = [clock EXCEPT ![p] = "passed"]
    /\ UNCHANGED <<status, os, exitFile, log, disk, memory, rest>>

-------------------------------------------------------------------------------
(* Deaths and startup.                                                     *)

MemoryLost ==
    /\ status' = "down"
    /\ rec' = [p \in Procs |-> NoRec] /\ slots' = 0
    /\ start' = NoStart /\ mon' = [p \in Procs |-> NoMon]

\* The supervisor kills the daemon alone (KillMode=process).
Crash ==
    /\ status # "down" /\ crashes < MaxCrashes /\ Room
    /\ MemoryLost
    /\ intent' = DirectorySynced(intent)
    /\ crashes' = crashes + 1
    /\ UNCHANGED <<kernel, synced, journal, durable, answer, quiet, fails>>

\* What was not synced may be lost, and no process survives.
PowerLoss ==
    /\ status # "down" /\ crashes < MaxCrashes /\ Room
    /\ MemoryLost
    /\ \E reused \in SUBSET {p \in Procs : os[p] # "none"},
          lost \in SUBSET exitFile,
          unwritten \in SUBSET {p \in Procs : log[p] # synced[p]},
          back \in SUBSET {p \in Procs : intent[p] = "removed"} :
          /\ os' = [p \in Procs |-> IF os[p] = "none" THEN "none"
                                    ELSE IF p \in reused THEN "reused" ELSE "gone"]
          /\ exitFile' = exitFile \ lost
          /\ log' = [p \in Procs |-> IF p \in unwritten THEN synced[p] ELSE log[p]]
          /\ intent' = [p \in Procs |-> IF intent[p] # "removed" THEN intent[p]
                                        ELSE IF p \in back THEN "pid" ELSE "none"]
    /\ \E k \in durable .. Len(journal) :
          journal' = SubSeq(journal, 1, k) /\ durable' = k
    /\ crashes' = crashes + 1
    /\ UNCHANGED <<clock, synced, answer, quiet, fails>>

Boot ==
    /\ status = "down" /\ status' = "starting"
    /\ UNCHANGED <<kernel, disk, memory, rest>>

Pending(p) == status = "starting" /\ intent[p] # "none"
Cleared(p) == intent' = [intent EXCEPT ![p] = "none"]

\* recover_pending_process_starts: a start that reached the journal stays.
RecoverCommitted(p) ==
    /\ Pending(p) /\ Started(p)
    /\ Cleared(p)
    /\ UNCHANGED <<status, kernel, synced, journal, durable, memory, rest>>

\* No durable PID, or a live PID that is not the wrapper's: startup fails.
RecoverRefused(p) ==
    /\ Pending(p) /\ ~Started(p)
    /\ intent[p] = "nopid" \/ (Alive(p) /\ FALSE \in Identity(p))
    /\ status' = "down"
    /\ UNCHANGED <<kernel, disk, memory, rest>>

\* The wrapper is terminated.  Startup fails if the PID is still there right
\* after SIGKILL.
RecoverTerminates(p) ==
    /\ Pending(p) /\ ~Started(p) /\ intent[p] = "pid"
    /\ Alive(p) /\ TRUE \in Identity(p)
    /\ \/ os' = [os EXCEPT ![p] = "dying"] /\ status' = "down" /\ UNCHANGED intent
       \/ /\ \E after \in {"orphans", "gone"} : os' = [os EXCEPT ![p] = after]
          /\ Cleared(p) /\ UNCHANGED status
    /\ UNCHANGED <<exitFile, clock, log, synced, journal, durable, memory, rest>>

\* Mutant: an intent without a PID is dropped.
RecoverGoneAny(p) ==
    /\ Pending(p) /\ ~Started(p) /\ (intent[p] = "nopid" \/ ~Alive(p))
    /\ Cleared(p)
    /\ UNCHANGED <<status, kernel, synced, journal, durable, memory, rest>>

RecoverGone(p) ==
    /\ Pending(p) /\ ~Started(p) /\ intent[p] = "pid" /\ ~Alive(p)
    /\ Cleared(p)
    /\ UNCHANGED <<status, kernel, synced, journal, durable, memory, rest>>

\* Any other error of startup.
RecoverFails ==
    /\ status = "starting" /\ CanFail /\ Fail
    /\ status' = "down"
    /\ UNCHANGED <<kernel, disk, memory, answer, quiet, crashes>>

\* Journal::apply of every event, then spawn_recovered_processes.
Recovered(p) == [running |-> Started(p) /\ ~Exited(p), bytes |-> Outputs(p)]

RecoverDone ==
    /\ status = "starting" /\ \A p \in Procs : intent[p] = "none"
    /\ status' = "up"
    /\ rec' = [p \in Procs |-> Recovered(p)]
    /\ slots' = Cardinality({p \in Procs : Recovered(p).running})
    /\ mon' = [p \in Procs |-> IF Recovered(p).running THEN [NoMon EXCEPT !.step = "open"]
                               ELSE NoMon]
    /\ UNCHANGED <<kernel, disk, start, rest>>

-------------------------------------------------------------------------------
StartStep == StartEndsEarly \/ StartSpawn \/ StartPid \/ StartPidFails \/ StartJournal
             \/ StartJournalFails \/ StartFinish
MonitorStep(p) ==
    \/ MonitorOpen(p) \/ MonitorGoesOn(p) \/ MonitorTimeout(p) \/ MonitorRead(p)
    \/ MonitorReadFails(p) \/ MonitorAppend(p) \/ MonitorAppendFails(p) \/ MonitorQuiet(p)
    \/ MonitorGroup(p) \/ MonitorTryWait(p) \/ MonitorTryWaitFails(p) \/ MonitorIdentity(p)
    \/ MonitorIdentityKept(p) \/ MonitorExitFile(p) \/ MonitorAlive(p) \/ MonitorExit(p) \/ MonitorExitFails(p)
    \/ MonitorFail(p) \/ MonitorFailed(p) \/ MonitorLost(p)
KernelStep(p) ==
    \/ Write(p) \/ Mark(p) \/ WrapperExits(p) \/ Killed(p)
    \/ PidReused(p) \/ DeadlinePasses(p)
RecoverStep ==
    \/ \E p \in Procs : RecoverCommitted(p) \/ RecoverRefused(p) \/ RecoverTerminates(p)
                           \/ RecoverGone(p)
    \/ RecoverFails \/ RecoverDone

Next ==
    \/ \E r \in Requests : StartKnown(r) \/ StartIntent(r)
    \/ StartStep
    \/ \E p \in Procs : MonitorStep(p) \/ MonitorKill(p) \/ KernelStep(p) \/ Disappears(p)
    \/ Crash \/ PowerLoss \/ Boot \/ RecoverStep

\* Blocking and monitor tasks run on; the supervisor restarts the daemon; a
\* killed group disappears; the second between two identity probes ends.
Spec == Init /\ [][Next]_vars
Fairness ==
    /\ WF_vars(StartStep) /\ WF_vars(Boot) /\ WF_vars(RecoverStep)
    /\ \A p \in Procs : /\ WF_vars(MonitorStep(p)) /\ SF_vars(MonitorIdentity(p))
                        /\ WF_vars(os[p] = "dying" /\ Disappears(p))
FairSpec == Spec /\ Fairness

-------------------------------------------------------------------------------
(* Properties.                                                             *)

\* A wrapper that runs while the daemon serves was journaled: whatever failed
\* and whenever the daemon died between spawn and PROCESS_STARTED, startup
\* either ends the child or refuses (recover_pending_process_starts).
NoUnjournaledRun ==
    status = "up" /\ start = NoStart => \A p \in Procs : os[p] \in Wrapped => Started(p)

\* The client's answers are kept: the process of an accepted request is the
\* only one started for it, and that is on stable storage.
AnswersHold ==
    /\ \A r \in Requests : Cardinality(StartsOf(r)) <= 1
    /\ \A r \in Requests : answer[r] # 0 =>
          answer[r] \in StartsIn(Range(SubSeq(journal, 1, durable)), r)

\* The journal tells the output of a process as it was: its start, its output
\* without gap or repeat and at most one exit, in that order, however many
\* monitors followed it; and after any power loss the log files still hold
\* what durable PROCESS_OUTPUT events report (drain_persistent_stream).  A monitor
\* that saw the log quiet and the group gone has journaled all the process wrote
\* before the exit (drain_persistent_output_until_quiet).
OutputExact ==
    \A p \in Procs :
       /\ \A k \in DOMAIN journal : journal[k].proc = p =>
             /\ journal[k].kind = "started" <=> \A j \in 1 .. k - 1 : journal[j].proc # p
             /\ journal[k].kind = "output" =>
                   journal[k].offset = Cardinality({j \in OutputsAt(p) : j < k})
             /\ journal[k].kind = "exited" => \A j \in DOMAIN journal : j > k => journal[j].proc # p
       /\ \A k \in OutputsAt(p) : k <= durable => journal[k].offset < synced[p]
       /\ Exited(p) /\ p \in quiet => Outputs(p) = log[p]

\* A slot is held by every record that runs, by a start under way and by a
\* monitor that still has to record its failure, and by nothing else.
SlotsMatch ==
    status = "up" =>
       slots = Cardinality({p \in Procs : rec[p].running \/ mon[p].step = "lost"})
               + (IF start.step \in {"intent", "spawned", "pid"} THEN 1 ELSE 0)

\* An intent that no restart can settle.
Blocked ==
    status # "up" /\ \E q \in Procs : ~Started(q) /\ (intent[q] = "nopid" \/ os[q] = "reused")

\* The exit is on record: in the journal or, when the append failed, in the
\* record the daemon serves.
Recorded(p) == Exited(p) \/ (status = "up" /\ ~rec[p].running)

\* A process that is gone gets its exit on record, whichever monitor and
\* however many restarts that takes.
ExitRecorded ==
    \A p \in Procs : (Started(p) /\ os[p] \in {"gone", "reused"}) ~> (Recorded(p) \/ Blocked)
===============================================================================
