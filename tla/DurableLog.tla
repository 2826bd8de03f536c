------------------------------ MODULE DurableLog ------------------------------
(***************************************************************************)
(* What a session journal promises its clients, with every file, segment,  *)
(* snapshot and cache left out: one growing sequence of events.            *)
(*                                                                         *)
(* log is the history the daemon serves (or served when it last ran) and   *)
(* durable the length of the prefix it has promised to keep.  A restart    *)
(* may shorten log, never below durable: the group-commit window for       *)
(* PROCESS_OUTPUT and PTY_STATE_ADVANCED is the only history at risk.      *)
(* Nothing is promised once the medium has damaged what was written.       *)
(***************************************************************************)
EXTENDS Naturals, Sequences

CONSTANT Value      \* what an event carries

VARIABLES log, durable, serving, broken

logVars == <<log, durable, serving, broken>>

LogInit == log = <<>> /\ durable = 0 /\ serving = FALSE /\ broken = FALSE

\* One event is committed.  It may become durable at once, with everything
\* before it, or wait for a later synchronisation.
LogAppend ==
    \E v \in Value :
        /\ serving
        /\ log' = Append(log, v)
        /\ durable' \in {durable, Len(log')}
        /\ UNCHANGED <<serving, broken>>

\* A synchronisation or a snapshot makes the whole history durable.
LogSync ==
    /\ serving
    /\ durable' = Len(log)
    /\ UNCHANGED <<log, serving, broken>>

\* The daemon stops.  An append that was under way may already be on disk
\* though its caller never heard of it, and a snapshot may have completed.
LogStop ==
    /\ serving
    /\ serving' = FALSE
    /\ \/ log' = log
       \/ \E v \in Value : log' = Append(log, v)
    /\ durable' \in {durable, Len(log)}
    /\ UNCHANGED broken

\* A start serves a prefix of the history that keeps everything durable.
LogStart ==
    /\ ~serving
    /\ serving' = TRUE
    /\ \E n \in durable .. Len(log) : log' = SubSeq(log, 1, n)
    /\ UNCHANGED <<durable, broken>>

\* The medium fails, or has failed.
LogDamage == broken' = TRUE

LogNext == LogAppend \/ LogSync \/ LogStop \/ LogStart \/ LogDamage

LogSpec == LogInit /\ [][LogNext]_logVars
===============================================================================
