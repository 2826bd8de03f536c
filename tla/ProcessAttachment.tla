--------------------------- MODULE ProcessAttachment ---------------------------
(***************************************************************************)
(* What a client of EXEC and EXEC_SUMMARY sees: the monitor's bounded      *)
(* response channel, the request handler that forwards it, the replay of a *)
(* repeated request from the in-memory journal, the client's retry with    *)
(* one request ID and its output cursor; and offset-addressed reads of the *)
(* durable log with their retry.  A byte is its position in its stream, so *)
(* a transcript shows whether bytes were lost, repeated or reordered.      *)
(* How processes start, are monitored and recover is ProcessLifecycle.     *)
(***************************************************************************)
EXTENDS Integers, Sequences, SequencesExt, FiniteSetsExt

CONSTANTS Streams,       \* OutputStream: stdout, stderr
          MaxBytes,      \* bound on the bytes of one stream
          TailMax,       \* tail_bytes of EXEC_SUMMARY
          ChannelMax,    \* PROCESS_OUTPUT_CHANNEL_CAPACITY
          KeepEvents,    \* events of the process the in-memory journal retains
          MaxAttempts,   \* retries of the client
          MaxCuts        \* bound on connection losses and daemon restarts

VARIABLES
    events,    \* the process's events, in the order of their IDs
    dropped,   \* how many of them have left the in-memory journal
    mode,      \* "full" (EXEC), "summary" (EXEC_SUMMARY) or "spawn"
    monitor,   \* the process monitor: its phase and the responses it has yet to queue
    senders,   \* who holds a Sender of the current attachment's channel
    channel,   \* QueuedProcessResponse items not yet taken by the handler
    replay,    \* replay_process_id: events passed on, batch taken, summary so far
    handler,   \* stream_process_responses of the current request stream
    wire,      \* response frames on their way
    exec,      \* the client's EXEC: phase, attempt, result
    printed,   \* bytes the client printed, per stream
    summary,   \* the summary the client printed
    logs,      \* one read of a range of the durable log
    cuts

procVars == <<events, dropped, monitor>>
attachVars == <<procVars, mode, senders, channel, replay, handler, wire, exec, printed,
                summary, logs, cuts>>

None == [kind |-> "none"]
IsOutput(e, s) == e.kind = "output" /\ e.stream = s
Bytes(e) == [k \in 1 .. e.len |-> e.offset + k]

\* record.stdout_bytes and record.stderr_bytes
Written(s) ==
    FoldLeft(LAMBDA n, e : IF IsOutput(e, s) THEN e.offset + e.len ELSE n, 0, events)

Started == events # <<>>
Exited == Started /\ Last(events).kind = "exited"

Keep(all) == Max({dropped, Len(all) - KeepEvents})
-------------------------------------------------------------------------------
(* Summaries.                                                              *)

LastBytes(n, tail) == IF n <= tail THEN [k \in 1 .. n |-> k]
                      ELSE [k \in 1 .. tail |-> n - tail + k]

EmptySummary == [s \in Streams |-> [bytes |-> 0, tail |-> <<>>]]

\* ProcessSummaryAccumulator::push: a chunk at least as long as the tail replaces
\* it, a shorter one pushes the oldest bytes out.
PushChunk(acc, e) ==
    LET old == acc[e.stream].tail
        overflow == Max({0, Len(old) + e.len - TailMax})
        slid == SubSeq(old, overflow + 1, Len(old)) \o Bytes(e)
        tail == IF e.len >= TailMax THEN SubSeq(Bytes(e), e.len - TailMax + 1, e.len) ELSE slid
    IN  [acc EXCEPT ![e.stream] = [bytes |-> Max({@.bytes, e.offset + e.len}),
                                   tail |-> IF TailMax = 0 THEN <<>> ELSE tail]]

\* persisted_process_summary: the recorded byte counts, and the tails read back
\* from the log files
PersistedSummary ==
    [s \in Streams |-> [bytes |-> Written(s), tail |-> LastBytes(Written(s), TailMax)]]

SummaryResponse(value) == [kind |-> "summary", value |-> value]
-------------------------------------------------------------------------------
(* The monitor.                                                            *)

MonitorAttached == "monitor" \in senders

\* One output event is journaled; in full mode it is then queued.
MonitorOutput(s, len) ==
    /\ monitor.st = "run" /\ Written(s) + len <= MaxBytes
    /\ LET e == [kind |-> "output", stream |-> s, offset |-> Written(s), len |-> len] IN
       /\ events' = Append(events, e)
       /\ monitor' = IF MonitorAttached /\ mode = "full"
                     THEN [st |-> "queue", todo |-> <<e>>, exited |-> FALSE] ELSE monitor
    /\ dropped' = Keep(events')
    /\ UNCHANGED <<mode, senders, channel, replay, handler, wire, exec, printed, summary, logs, cuts>>

NoReplay == [at |-> 0, upto |-> 0, acc |-> EmptySummary]
ExitResponses == <<[kind |-> "exited"]>>

\* PROCESS_EXITED is journaled, then the summary and the exit are queued.
MonitorExit ==
    /\ monitor.st = "run"
    /\ events' = Append(events, [kind |-> "exited"])
    /\ dropped' = Keep(events')
    /\ monitor' =
          IF ~MonitorAttached THEN [st |-> "done", todo |-> <<>>, exited |-> TRUE]
          ELSE [st |-> "queue", exited |-> TRUE,
                todo |-> IF mode = "full" THEN ExitResponses
                         ELSE <<SummaryResponse(PersistedSummary)>> \o ExitResponses]
    /\ UNCHANGED <<mode, senders, channel, replay, handler, wire, exec, printed, summary, logs, cuts>>

\* PROCESS_EXITED cannot be journaled: the monitor returns and drops its sender.
MonitorExitFails ==
    /\ monitor.st = "run" /\ cuts < MaxCuts
    /\ monitor' = [st |-> "done", todo |-> <<>>, exited |-> FALSE]
    /\ senders' = senders \ {"monitor"}
    /\ cuts' = cuts + 1
    /\ UNCHANGED <<events, dropped, mode, channel, replay, handler, wire, exec, printed,
                   summary, logs>>

AfterQueue(todo) ==
    IF todo # <<>> THEN [monitor EXCEPT !.todo = todo]
    ELSE [st |-> IF monitor.exited THEN "done" ELSE "run", todo |-> <<>>, exited |-> monitor.exited]

\* queue_process_response finds room, or finds the handler gone and detaches.
MonitorQueues ==
    /\ monitor.st = "queue"
    /\ IF handler = "streaming" /\ MonitorAttached
       THEN /\ Len(channel) < ChannelMax
            /\ channel' = Append(channel, Head(monitor.todo))
            /\ monitor' = AfterQueue(Tail(monitor.todo))
            /\ senders' = IF monitor'.st = "done" THEN senders \ {"monitor"} ELSE senders
       ELSE /\ monitor' = AfterQueue(<<>>)
            /\ senders' = senders \ {"monitor"}
            /\ UNCHANGED channel
    /\ UNCHANGED <<events, dropped, mode, replay, handler, wire, exec, printed, summary, logs, cuts>>

\* The shared output budget stays exhausted for PROCESS_OUTPUT_QUEUE_WAIT: the
\* response is dropped and the monitor detaches.
MonitorDetaches ==
    /\ monitor.st = "queue" /\ Head(monitor.todo).kind = "output"
    /\ monitor' = AfterQueue(<<>>)
    /\ senders' = senders \ {"monitor"}
    /\ UNCHANGED <<events, dropped, mode, channel, replay, handler, wire, exec, printed,
                   summary, logs, cuts>>
-------------------------------------------------------------------------------
(* The server's side of one request stream.                                *)

\* EXEC or EXEC_SUMMARY with a new request ID: the process starts.  The handler
\* keeps the sender it cloned for the monitor.
HandleExec ==
    /\ exec.st = "asked" /\ mode # "spawn" /\ ~Started
    /\ events' = <<[kind |-> "started"]>> /\ dropped' = 0
    /\ monitor' = [st |-> "run", todo |-> <<>>, exited |-> FALSE]
    /\ channel' = <<[kind |-> "accepted"]>>
    /\ senders' = {"handler", "monitor"}
    /\ handler' = "streaming" /\ replay' = NoReplay
    /\ exec' = [exec EXCEPT !.st = "reading"]
    /\ UNCHANGED <<mode, wire, printed, summary, logs, cuts>>

\* SPAWN starts the process, or finds it started, and attaches nothing to it.
HandleSpawn ==
    /\ exec.st = "asked" /\ mode = "spawn"
    /\ events' = IF Started THEN events ELSE <<[kind |-> "started"]>>
    /\ dropped' = IF Started THEN dropped ELSE 0
    /\ monitor' = IF Started THEN monitor ELSE [st |-> "run", todo |-> <<>>, exited |-> FALSE]
    /\ wire' = <<[kind |-> "accepted"]>> /\ handler' = "ended"
    /\ exec' = [exec EXCEPT !.st = "reading"]
    /\ UNCHANGED <<mode, senders, channel, replay, printed, summary, logs, cuts>>

\* The same request ID again: the sender moves into replay_process_id.
HandleDuplicate ==
    /\ exec.st = "asked" /\ mode # "spawn" /\ Started
    /\ channel' = <<>> /\ senders' = {"replay"}
    /\ handler' = "streaming" /\ replay' = NoReplay
    /\ exec' = [exec EXCEPT !.st = "reading"]
    /\ UNCHANGED <<procVars, mode, wire, printed, summary, logs, cuts>>

\* The summary memory is exhausted, or the start of a new process is refused.
HandleRefused(kind) ==
    /\ exec.st = "asked"
    /\ kind = "busy" => mode = "summary"
    /\ kind = "error" => ~Started
    /\ wire' = <<[kind |-> kind]>>
    /\ handler' = "ended" /\ senders' = {} /\ channel' = <<>>
    /\ exec' = [exec EXCEPT !.st = "reading"]
    /\ UNCHANGED <<procVars, mode, replay, printed, summary, logs, cuts>>

Replaying == "replay" \in senders

\* Mutant: the events that are left are taken, as if none were missing.
ReplayPollsIgnoringGap ==
    /\ Replaying /\ handler = "streaming" /\ replay.at = replay.upto /\ replay.at < Len(events)
    /\ replay' = [replay EXCEPT !.at = Max({@, dropped}), !.upto = Len(events)]
    /\ UNCHANGED <<procVars, mode, senders, channel, handler, wire, exec, printed, summary, logs, cuts>>

\* replay_process_id polls the in-memory journal every 10 ms.  When the next event
\* is no longer retained, it answers result_compacted and returns.
ReplayPolls ==
    /\ Replaying /\ handler = "streaming" /\ replay.at = replay.upto /\ replay.at < Len(events)
    /\ IF replay.at < dropped
       THEN /\ Len(channel) < ChannelMax
            /\ channel' = Append(channel, [kind |-> "error"])
            /\ senders' = senders \ {"replay"} /\ UNCHANGED replay
       ELSE /\ replay' = [replay EXCEPT !.upto = Len(events)]
            /\ UNCHANGED <<channel, senders>>
    /\ UNCHANGED <<procVars, mode, handler, wire, exec, printed, summary, logs, cuts>>

ReplayResponses(e) ==
    CASE e.kind = "started" -> <<[kind |-> "accepted"]>>
      [] e.kind = "output" -> IF mode = "full" THEN <<e>> ELSE <<>>
      [] OTHER -> IF mode = "full" THEN ExitResponses
                  ELSE <<SummaryResponse(replay.acc)>> \o ExitResponses

\* It passes on one event of the batch; PROCESS_EXITED is the last.
ReplayPasses ==
    /\ Replaying /\ handler = "streaming" /\ replay.at < replay.upto
    /\ LET e == events[replay.at + 1] IN
       /\ Len(channel) + Len(ReplayResponses(e)) <= ChannelMax
       /\ channel' = channel \o ReplayResponses(e)
       /\ senders' = IF e.kind = "exited" THEN senders \ {"replay"} ELSE senders
       /\ replay' = [replay EXCEPT !.at = @ + 1,
                                   !.acc = IF e.kind = "output" THEN PushChunk(@, e) ELSE @]
    /\ UNCHANGED <<procVars, mode, handler, wire, exec, printed, summary, logs, cuts>>

\* queue_process_response gives up on the output budget: the replay returns.
ReplayDetaches ==
    /\ Replaying /\ replay.at < replay.upto
    /\ mode = "full" /\ events[replay.at + 1].kind = "output"
    /\ senders' = senders \ {"replay"}
    /\ UNCHANGED <<procVars, mode, channel, replay, handler, wire, exec, printed, summary, logs, cuts>>

\* stream_process_responses writes the next item and stops after PROCESS_EXITED.
HandlerForwards ==
    /\ handler = "streaming" /\ channel # <<>> /\ wire = <<>>
    /\ wire' = IF Head(channel).kind = "exited" THEN <<Head(channel), [kind |-> "fin"]>>
               ELSE <<Head(channel)>>
    /\ channel' = Tail(channel)
    /\ handler' = IF Head(channel).kind = "exited" THEN "ended" ELSE handler
    /\ senders' = IF Head(channel).kind = "exited" THEN {} ELSE senders
    /\ UNCHANGED <<procVars, mode, replay, exec, printed, summary, logs, cuts>>

\* responses.recv() returns None only when the last sender is gone.
ChannelClosed == channel = <<>> /\ senders = {}

HandlerEnds ==
    /\ handler = "streaming" /\ ChannelClosed /\ wire = <<>>
    /\ wire' = <<[kind |-> "fin"]>>
    /\ handler' = "ended"
    /\ UNCHANGED <<procVars, mode, senders, channel, replay, exec, printed, summary, logs, cuts>>
-------------------------------------------------------------------------------
(* The client: agent_exec_with_retry and exec_once.                        *)

\* The command is issued with a fresh request ID, kept through its retries.
Issue(m) ==
    /\ exec.st = "idle"
    /\ mode' = m
    /\ exec' = [exec EXCEPT !.st = "asked"]
    /\ UNCHANGED <<procVars, senders, channel, replay, handler, wire, printed, summary, logs, cuts>>

ArrivedFrame(kind) == exec.st = "reading" /\ wire # <<>> /\ Head(wire).kind = kind

ClientUnchanged == UNCHANGED <<procVars, mode, senders, channel, replay, handler, logs, cuts>>

ReadAccepted ==
    /\ ArrivedFrame("accepted")
    /\ wire' = Tail(wire)
    /\ exec' = IF mode = "spawn" THEN [exec EXCEPT !.st = "spawned"] ELSE exec
    /\ ClientUnchanged /\ UNCHANGED <<printed, summary>>

\* unseen_suffix: the bytes past the cursor
UnseenSuffix(e, seen) == SubSeq(Bytes(e), seen - e.offset + 1, e.len)

\* An output chunk: a gap is an error, what was seen is dropped.
ReadOutput ==
    LET e == Head(wire) IN
    /\ ArrivedFrame("output")
    /\ LET seen == exec.seen[e.stream] IN
       IF e.offset > seen
       THEN exec' = [exec EXCEPT !.st = "failed"] /\ UNCHANGED printed
       ELSE /\ printed' = [printed EXCEPT ![e.stream] = @ \o UnseenSuffix(e, seen)]
            /\ exec' = [exec EXCEPT !.seen[e.stream] = Max({@, e.offset + e.len})]
    /\ wire' = Tail(wire)
    /\ ClientUnchanged /\ UNCHANGED summary

\* The first PROCESS_SUMMARY is printed, a repeated one is not.
ReadSummary ==
    /\ ArrivedFrame("summary")
    /\ summary' = IF summary = None THEN Head(wire) ELSE summary
    /\ wire' = Tail(wire)
    /\ ClientUnchanged /\ UNCHANGED <<exec, printed>>

ReadExited ==
    /\ ArrivedFrame("exited")
    /\ exec' = [exec EXCEPT !.st = "exited"]
    /\ wire' = <<>>
    /\ ClientUnchanged /\ UNCHANGED <<printed, summary>>

\* An application error, and a stream that ends early ("EXEC response stream
\* closed before PROCESS_EXITED" is not in retryable_connection_error's list),
\* end the command.
ReadFailure ==
    /\ ArrivedFrame("error") \/ ArrivedFrame("fin")
    /\ exec' = [exec EXCEPT !.st = "failed"]
    /\ wire' = <<>>
    /\ ClientUnchanged /\ UNCHANGED <<printed, summary>>

Retried == [exec EXCEPT !.st = IF @ \in {"asked", "reading"} /\ exec.attempt < MaxAttempts
                               THEN "asked" ELSE "failed",
                        !.attempt = @ + 1]

\* server_busy: the same request again on the same connection
ReadBusy ==
    /\ ArrivedFrame("busy")
    /\ exec' = Retried
    /\ wire' = <<>>
    /\ ClientUnchanged /\ UNCHANGED <<printed, summary>>

-------------------------------------------------------------------------------
(* PROCESS_OUTPUT_STREAM: one range of one stream's log, with retry.       *)

NoLogs == [st |-> "idle", stream |-> CHOOSE s \in Streams : TRUE, offset |-> 0, length |-> -1,
           seen |-> 0, received |-> 0, out |-> <<>>, attempt |-> 0]

LogsRetried ==
    IF logs.st \notin {"ask", "reading"} THEN logs
    ELSE [logs EXCEPT !.st = IF logs.attempt < MaxAttempts THEN "ask" ELSE "failed",
                      !.attempt = @ + 1, !.received = 0]

\* agent_logs_with_retry is given an offset and a length, or none (-1).
LogsIssue(s, offset, length) ==
    /\ logs.st = "idle" /\ exec.st = "spawned"
    /\ logs' = [NoLogs EXCEPT !.st = "ask", !.stream = s, !.offset = offset, !.length = length,
                              !.seen = offset]
    /\ UNCHANGED <<procVars, mode, senders, channel, replay, handler, wire, exec, printed,
                   summary, cuts>>

\* resolve_process_log_tail: PROCESS_STATE fixes the range before it is read.
LogsIssueTail(s, tail) == LogsIssue(s, Max({0, Written(s) - tail}), Min({tail, Written(s)}))

\* process_log_range checks the range against the length of the file; the length
\* of the first BEGIN is the one every retry asks for.
LogsBegins ==
    LET available == Written(logs.stream) - logs.offset
        length == IF logs.length = -1 THEN available ELSE logs.length
    IN  IF available < 0 \/ length > available
        THEN logs' = [logs EXCEPT !.st = "failed"]
        ELSE logs' = [logs EXCEPT !.st = "reading", !.length = length]

LogsBegin ==
    /\ logs.st = "ask"
    /\ LogsBegins
    /\ UNCHANGED <<procVars, mode, senders, channel, replay, handler, wire, exec, printed,
                   summary, cuts>>

\* One chunk arrives at the offset that follows the last one; its unseen part is
\* emitted.
LogsChunk(len) ==
    LET e == [offset |-> logs.offset + logs.received, len |-> len] IN
    /\ logs.st = "reading" /\ logs.received + len <= logs.length
    /\ logs' = [logs EXCEPT
          !.received = @ + len,
          !.out = IF e.offset + len <= logs.seen THEN @ ELSE @ \o UnseenSuffix(e, logs.seen),
          !.seen = Max({@, e.offset + len})]
    /\ UNCHANGED <<procVars, mode, senders, channel, replay, handler, wire, exec, printed,
                   summary, cuts>>

LogsEnd ==
    /\ logs.st = "reading" /\ logs.received = logs.length
    /\ logs' = [logs EXCEPT !.st = "done"]
    /\ UNCHANGED <<procVars, mode, senders, channel, replay, handler, wire, exec, printed,
                   summary, cuts>>

LogsBreak ==
    /\ logs.st \in {"ask", "reading"} /\ cuts < MaxCuts
    /\ logs' = LogsRetried
    /\ cuts' = cuts + 1
    /\ UNCHANGED <<procVars, mode, senders, channel, replay, handler, wire, exec, printed, summary>>
-------------------------------------------------------------------------------
(* Losses.                                                                 *)

\* The path breaks: the handler's write fails and it returns.  The client asks
\* again with the same request ID, up to its limit.
ConnectionBreaks ==
    /\ exec.st \in {"asked", "reading"} /\ cuts < MaxCuts
    /\ exec' = Retried
    /\ handler' = "gone" /\ wire' = <<>> /\ channel' = <<>>
    /\ senders' = senders \cap {"monitor"}
    /\ cuts' = cuts + 1
    /\ UNCHANGED <<procVars, mode, replay, printed, summary, logs>>

\* The daemon restarts: attachments end, and the recovered monitor, if the process
\* has not exited, has none.  Recovery loads the log's tail into the journal.
DaemonRestart ==
    /\ Started /\ cuts < MaxCuts
    /\ cuts' = cuts + 1
    /\ monitor' = [st |-> IF Exited THEN "done" ELSE "run", todo |-> <<>>, exited |-> Exited]
    /\ exec' = IF exec.st \in {"asked", "reading"} THEN Retried ELSE exec
    /\ handler' = "gone" /\ wire' = <<>> /\ channel' = <<>> /\ senders' = {}
    /\ logs' = LogsRetried
    /\ UNCHANGED <<events, dropped, mode, replay, printed, summary>>
-------------------------------------------------------------------------------
AttachInit ==
    /\ events = <<>> /\ dropped = 0
    /\ mode = "full"
    /\ monitor = [st |-> "none", todo |-> <<>>, exited |-> FALSE]
    /\ senders = {} /\ channel = <<>> /\ replay = NoReplay
    /\ handler = "none" /\ wire = <<>>
    /\ exec = [st |-> "idle", attempt |-> 0, seen |-> [s \in Streams |-> 0]]
    /\ printed = [s \in Streams |-> <<>>]
    /\ summary = None /\ logs = NoLogs /\ cuts = 0

ServerSteps ==
    \/ MonitorQueues \/ MonitorExit
    \/ HandleExec \/ HandleSpawn \/ HandleDuplicate
    \/ ReplayPolls \/ ReplayPasses
    \/ HandlerForwards \/ HandlerEnds

ClientSteps ==
    \/ ReadAccepted \/ ReadOutput \/ ReadSummary \/ ReadExited \/ ReadFailure \/ ReadBusy

AttachNext ==
    \/ \E m \in {"full", "summary", "spawn"} : Issue(m)
    \/ ServerSteps \/ ClientSteps
    \/ \E s \in Streams, len \in 1 .. 2 : MonitorOutput(s, len)
    \/ MonitorExitFails \/ MonitorDetaches \/ ReplayDetaches
    \/ \E kind \in {"busy", "error"} : HandleRefused(kind)
    \/ \E s \in Streams, offset \in 0 .. MaxBytes, length \in -1 .. MaxBytes :
          LogsIssue(s, offset, length)
    \/ \E s \in Streams, tail \in 0 .. MaxBytes : LogsIssueTail(s, tail)
    \/ LogsBegin \/ LogsEnd \/ LogsBreak
    \/ \E len \in 1 .. 2 : LogsChunk(len)
    \/ ConnectionBreaks \/ DaemonRestart

\* Tasks run, and the process exits.
AttachFairSpec ==
    AttachInit /\ [][AttachNext]_attachVars /\ WF_attachVars(ServerSteps) /\ WF_attachVars(ClientSteps)
-------------------------------------------------------------------------------
(* Properties.                                                             *)

Upto(n) == [k \in 1 .. n |-> k]

\* What the user of EXEC, EXEC_SUMMARY and `asp logs` sees is the process's output:
\* the bytes printed are the first ones of each stream, each once and in order; at
\* the exit all of them are there, or a summary whose counts and tails are exact;
\* a log range that ended is exactly the range its first BEGIN announced.  It holds
\* through duplicates, replays, evictions, detaches, retries and restarts
\* (agent_exec_once, unseen_suffix, replay_process_id, ProcessSummaryAccumulator,
\* agent_logs_once).
TranscriptExact ==
    /\ \A s \in Streams : printed[s] = Upto(Len(printed[s])) /\ Len(printed[s]) <= Written(s)
    /\ exec.st = "exited" =>
          /\ Exited
          /\ mode = "full" => \A s \in Streams : Len(printed[s]) = Written(s)
          /\ mode = "summary" => summary.kind = "summary" /\ summary.value = PersistedSummary
    /\ logs.out = [k \in 1 .. Len(logs.out) |-> logs.offset + k]
    /\ logs.st = "done" => Len(logs.out) = logs.length

\* A client whose attachment the monitor has left does not wait on it for ever: it
\* gets the exit, or leaves the stream and resumes (docs/ARCHITECTURE.md: "the live
\* attachment detaches; durable logs/events remain authoritative and a reconnect
\* resumes from its cursor").
DetachedResumes ==
    (exec.st = "reading" /\ handler = "streaming" /\ senders = {"handler"})
        ~> exec.st # "reading"
===============================================================================
