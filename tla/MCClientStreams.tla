---------------------------- MODULE MCClientStreams ----------------------------
(***************************************************************************)
(* The two kinds of response stream a client follows across disconnects:   *)
(* an event subscription (SessionEvents) and a process attachment          *)
(* (ProcessAttachment).  They share no state, so a behaviour exercises one *)
(* of them and leaves the other where it started.                          *)
(***************************************************************************)
EXTENDS SessionEvents, ProcessAttachment

VARIABLE subject  \* "events" or "attachment"

streamVars == <<eventVars, attachVars, subject>>

StreamsInit == subject \in {"events", "attachment"} /\ EventsInit /\ AttachInit

StreamsNext ==
    \/ subject = "events" /\ EventsNext /\ UNCHANGED <<attachVars, subject>>
    \/ subject = "attachment" /\ AttachNext /\ UNCHANGED <<eventVars, subject>>

StreamsSpec == StreamsInit /\ [][StreamsNext]_streamVars /\ EventsFairness
===============================================================================
