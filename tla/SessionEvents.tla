----------------------------- MODULE SessionEvents -----------------------------
(***************************************************************************)
(* Event delivery to one named consumer: SUBSCRIBE_EVENTS (captured        *)
(* backlog, caught-up marker, bounded broadcast), the `asp events` client  *)
(* with its acknowledgement worker and its saved cursor, and `asp resume`  *)
(* for the same consumer.  The files behind the journal are SessionDisk's  *)
(* subject; here the log keeps what its head, its window and its snapshot  *)
(* boundary say it keeps.                                                  *)
(***************************************************************************)
EXTENDS Integers, Sequences, SequencesExt

CONSTANTS MaxEvents,    \* bound on the events of the session
          Output,       \* IDs of the PROCESS_OUTPUT events
          Hidden,       \* IDs the subscription's filter drops
          Requested,    \* values of --after-event-id
          JournalWindow, \* events the in-memory journal retains
          ReplayEvents, \* events a durable replay may return
          Capacity,     \* EVENT_SUBSCRIBER_CAPACITY
          StreamFrames, \* frames QUIC takes before a writer waits
          MaxBreaks,    \* bound on connection losses and daemon restarts
          MaxRuns       \* bound on client process starts

VARIABLES
    head,      \* Journal.next_id: the ID of the latest event
    retained,  \* events at or below it have left the in-memory journal
    boundary,  \* SessionDisk.snapshot_boundary
    lease,     \* the consumer's acknowledged_event_id, -1 without a lease
    sub,       \* stream_event_subscription: its phase, backlog and receiver position
    stream,    \* response frames on their way to the subscriber
    client,    \* subscribe_events: phase and SavedSession.last_event_id
    ack,       \* the acknowledgement worker: coalesced cursor, request in flight
    resume,    \* one `asp resume` of the consumer
    saved,     \* last_event_id in the session file
    shown,     \* IDs printed for the consumer
    excused,   \* IDs a snapshot replaced, or the user asked to skip
    breaks, runs

logVars == <<head, retained, boundary>>
eventVars == <<logVars, lease, sub, stream, client, ack, resume, saved, shown, excused,
               breaks, runs>>

NoLease == -1
Larger(a, b) == IF a >= b THEN a ELSE b
IdRange(a, b) == {i \in 1 .. MaxEvents : a < i /\ i <= b}

NoSub == [st |-> "off", todo |-> <<>>, through |-> 0, pos |-> 0]
NoAck == [pending |-> 0, flight |-> 0]
NoResume == [st |-> "off", cursor |-> 0, through |-> 0, compacted |-> FALSE]

Frame(kind, n) == [kind |-> kind, id |-> n]
-------------------------------------------------------------------------------
(* The session: append, compaction, leases.                                *)

\* Session.append_locked: durable, then in the journal, then sent to receivers,
\* under one lock.
AppendLocked ==
    /\ head < MaxEvents
    /\ head' = head + 1
    /\ retained' = Larger(retained, head' - JournalWindow)
    /\ UNCHANGED <<boundary, lease, sub, stream, client, ack, resume, saved, shown,
                   excused, breaks, runs>>

\* compact_if_needed: an unexpired lease behind the head holds it back
CompactSession ==
    /\ boundary < head
    /\ lease # NoLease => lease >= head
    /\ boundary' = head /\ retained' = head
    /\ UNCHANGED <<head, lease, sub, stream, client, ack, resume, saved,
                   shown, excused, breaks, runs>>

\* prune_expired_event_consumers_locked
ExpireLease ==
    /\ lease # NoLease
    /\ lease' = NoLease
    /\ UNCHANGED <<logVars, sub, stream, client, ack, resume, saved, shown, excused,
                   breaks, runs>>

\* events_since_locked: a cursor behind the snapshot boundary, or too far behind
\* the head, is answered by the snapshot instead of events.
Compacted(after) ==
    /\ after < retained
    /\ after < boundary \/ head - after > ReplayEvents

EventsSinceLocked(after) ==
    IF Compacted(after) THEN <<>> ELSE [k \in 1 .. head - after |-> after + k]

-------------------------------------------------------------------------------
(* The server side of a subscription.                                      *)

\* Session.subscribe_events and the SUBSCRIPTION_READY answer: backlog boundary
\* and receiver are taken under the commit lock.
SubscribeEvents(after) ==
    /\ sub' = [st |-> "backlog", todo |-> EventsSinceLocked(after), through |-> head,
               pos |-> head + 1]
    /\ stream' = <<[kind |-> "ready", id |-> head, compacted |-> Compacted(after)]>>

\* The SUBSCRIBE_EVENTS handler.  Another subscriber may hold the last slot
\* (subscription_guard), and a cursor ahead of the head is refused; the client
\* bails out of either.
HandleSubscribe ==
    /\ client.st = "asked"
    /\ IF client.after > head
       THEN /\ stream' = <<Frame("error", 0), Frame("fin", 0)>>
            /\ UNCHANGED sub
       ELSE SubscribeEvents(client.after)
    /\ client' = [client EXCEPT !.st = "reading"]
    /\ UNCHANGED <<logVars, lease, ack, resume, saved, shown, excused, breaks, runs>>

SubscriptionLimit ==
    /\ client.st = "asked"
    /\ stream' = <<Frame("error", 0), Frame("fin", 0)>>
    /\ client' = [client EXCEPT !.st = "reading"]
    /\ UNCHANGED <<logVars, lease, sub, ack, resume, saved, shown, excused, breaks, runs>>

CanWrite == Len(stream) < StreamFrames
WriteMatching(id) ==
    stream' = IF id \in Hidden THEN stream ELSE Append(stream, Frame("event", id))

\* One captured backlog event is written, or dropped by the filter.
StreamBacklog ==
    /\ sub.st = "backlog" /\ sub.todo # <<>> /\ CanWrite
    /\ WriteMatching(Head(sub.todo))
    /\ sub' = [sub EXCEPT !.todo = Tail(@)]
    /\ UNCHANGED <<logVars, lease, client, ack, resume, saved, shown, excused, breaks, runs>>

\* Mutant: the marker is written ahead of the backlog.
StreamCaughtUpEarly ==
    /\ sub.st = "backlog" /\ CanWrite
    /\ stream' = Append(stream, Frame("caughtup", sub.through))
    /\ sub' = [sub EXCEPT !.st = "live", !.pos = IF @ = 0 THEN head + 1 ELSE @]
    /\ UNCHANGED <<logVars, lease, client, ack, resume, saved, shown, excused, breaks, runs>>

\* SUBSCRIPTION_CAUGHT_UP, after every captured backlog event
StreamCaughtUp ==
    /\ sub.st = "backlog" /\ sub.todo = <<>> /\ CanWrite
    /\ stream' = Append(stream, Frame("caughtup", sub.through))
    /\ sub' = [sub EXCEPT !.st = "live", !.pos = IF @ = 0 THEN head + 1 ELSE @]
    /\ UNCHANGED <<logVars, lease, client, ack, resume, saved, shown, excused, breaks, runs>>

Lagged == head - sub.pos + 1 > Capacity

\* Mutant: an event outside the filter ends the loop and leaves the stream open.
StreamLiveStops ==
    /\ sub.st = "live" /\ sub.pos <= head /\ ~Lagged /\ CanWrite
    /\ WriteMatching(sub.pos)
    /\ sub' = IF sub.pos \in Hidden THEN NoSub ELSE [sub EXCEPT !.pos = @ + 1]
    /\ UNCHANGED <<logVars, lease, client, ack, resume, saved, shown, excused, breaks, runs>>

\* receiver.recv() returns an event.
StreamLive ==
    /\ sub.st = "live" /\ sub.pos <= head /\ ~Lagged /\ CanWrite
    /\ WriteMatching(sub.pos)
    /\ sub' = [sub EXCEPT !.pos = @ + 1]
    /\ UNCHANGED <<logVars, lease, client, ack, resume, saved, shown, excused, breaks, runs>>

\* RecvError::Lagged: the broadcast overwrote events this receiver had not taken.
StreamLagged ==
    /\ sub.st = "live" /\ Lagged /\ CanWrite
    /\ stream' = stream \o <<Frame("lagged", 0), Frame("fin", 0)>>
    /\ sub' = NoSub
    /\ UNCHANGED <<logVars, lease, client, ack, resume, saved, shown, excused, breaks, runs>>

\* The credential was revoked: seen at the first check or the five-second tick.
StreamRevoked ==
    /\ sub.st # "off" /\ CanWrite
    /\ stream' = stream \o <<Frame("error", 0), Frame("fin", 0)>>
    /\ sub' = NoSub
    /\ UNCHANGED <<logVars, lease, client, ack, resume, saved, shown, excused, breaks, runs>>

\* ack_event_consumer: cumulative; a cursor ahead of the head is refused.
AckEventConsumer(n) == lease' = IF n > head THEN lease ELSE Larger(lease, n)
-------------------------------------------------------------------------------
(* subscribe_events, the `asp events` client.                              *)

\* insert_saved_session and save_locked: under the file lock, never backwards
Save(cursor) == saved' = Larger(saved, cursor)

\* try_send to the acknowledgement worker, which keeps the largest cursor.  While
\* it waits for an answer its channel may be full, and the value is dropped.
TrySendAck(n) ==
    ack' \in {[ack EXCEPT !.pending = Larger(@, n)]} \cup IF ack.flight = 0 THEN {} ELSE {ack}

\* `asp events`, with or without --after-event-id
StartSubscriber(after) ==
    /\ client.st = "stopped" /\ runs < MaxRuns
    /\ client' = [st |-> "ask", cursor |-> saved, after |-> after]
    /\ excused' = excused \cup IdRange(saved, after)
    /\ runs' = runs + 1
    /\ UNCHANGED <<logVars, lease, sub, stream, ack, resume, saved, shown, breaks>>

\* The request is written, and a fresh acknowledgement worker started.
SendSubscribe ==
    /\ client.st = "ask"
    /\ client' = [client EXCEPT !.st = "asked"]
    /\ ack' = [NoAck EXCEPT !.flight = ack.flight]
    /\ UNCHANGED <<logVars, lease, sub, stream, resume, saved, shown, excused, breaks, runs>>

Arrived(kind) == client.st = "reading" /\ stream # <<>> /\ Head(stream).kind = kind

\* SUBSCRIPTION_READY: a compacted history moves the cursor to the snapshot.
ReadReady ==
    /\ Arrived("ready")
    /\ LET frame == Head(stream) IN
       IF frame.compacted
       THEN /\ client' = [client EXCEPT !.cursor = Larger(@, frame.id)]
            /\ excused' = excused \cup IdRange(client.cursor, frame.id)
            /\ Save(client'.cursor)
            /\ TrySendAck(frame.id)
       ELSE /\ IF client.cursor >= frame.id THEN TrySendAck(frame.id) ELSE UNCHANGED ack
            /\ UNCHANGED <<client, excused, saved>>
    /\ stream' = Tail(stream)
    /\ UNCHANGED <<logVars, lease, sub, resume, shown, breaks, runs>>

ReadCaughtUp ==
    /\ Arrived("caughtup")
    /\ client' = [client EXCEPT !.cursor = Larger(@, Head(stream).id)]
    /\ Save(client'.cursor)
    /\ TrySendAck(Head(stream).id)
    /\ stream' = Tail(stream)
    /\ UNCHANGED <<logVars, lease, sub, resume, shown, excused, breaks, runs>>

\* EVENT_NOTIFICATION at or below the cursor is skipped.
ReadOldEvent ==
    /\ Arrived("event") /\ Head(stream).id <= client.cursor
    /\ stream' = Tail(stream)
    /\ UNCHANGED <<logVars, lease, sub, client, ack, resume, saved, shown, excused, breaks, runs>>

\* A new one is printed; the cursor of process output is persisted every 250 ms.
ReadEvent(persist) ==
    LET id == Head(stream).id IN
    /\ Arrived("event") /\ id > client.cursor
    /\ id \notin Output => persist
    /\ shown' = shown \cup {id}
    /\ client' = [client EXCEPT !.cursor = id]
    /\ TrySendAck(id)
    /\ IF persist THEN Save(id) ELSE UNCHANGED saved
    /\ stream' = Tail(stream)
    /\ UNCHANGED <<logVars, lease, sub, resume, excused, breaks, runs>>

\* The stream ended, or reported lag: reconnect from the cursor in memory.
ReadEnd ==
    /\ Arrived("lagged") \/ Arrived("fin")
    /\ stream' = <<>> /\ sub' = NoSub
    /\ client' = [client EXCEPT !.st = "retry"]
    /\ UNCHANGED <<logVars, lease, ack, resume, saved, shown, excused, breaks, runs>>

\* Any other error ends the command, without a save.
ReadError ==
    /\ Arrived("error")
    /\ stream' = <<>> /\ sub' = NoSub
    /\ client' = [client EXCEPT !.st = "stopped"]
    /\ UNCHANGED <<logVars, lease, ack, resume, saved, shown, excused, breaks, runs>>

\* After the back-off a new connection is made; the next subscription starts at
\* the cursor, whatever the first one was asked to start at.
Reconnect ==
    /\ client.st = "retry"
    /\ client' = [client EXCEPT !.st = "ask", !.after = client.cursor]
    /\ UNCHANGED <<logVars, lease, sub, stream, ack, resume, saved, shown, excused, breaks, runs>>

\* Ctrl-C: the cursor is saved, and acknowledged if the worker gets to it.
Detach ==
    /\ client.st \in {"reading", "retry"}
    /\ Save(client.cursor)
    /\ ack' = IF client.st = "reading"
              THEN [NoAck EXCEPT !.flight = Larger(ack.flight, client.cursor)] ELSE ack
    /\ client' = [client EXCEPT !.st = "stopped"]
    /\ stream' = <<>> /\ sub' = NoSub
    /\ UNCHANGED <<logVars, lease, resume, shown, excused, breaks, runs>>

\* The client process dies; what it had not saved is forgotten.
ClientDies ==
    /\ client.st # "stopped"
    /\ client' = [client EXCEPT !.st = "stopped"]
    /\ stream' = <<>> /\ sub' = NoSub
    /\ ack' = [NoAck EXCEPT !.flight = ack.flight]
    /\ UNCHANGED <<logVars, lease, resume, saved, shown, excused, breaks, runs>>

\* spawn_event_ack_worker: one request at a time
AckSend ==
    /\ ack.pending # 0 /\ ack.flight = 0
    /\ ack' = [ack EXCEPT !.flight = ack.pending, !.pending = 0]
    /\ UNCHANGED <<logVars, lease, sub, stream, client, resume, saved, shown, excused, breaks, runs>>

\* ACK_EVENTS_CONSUMER reaches the session, possibly after its connection is gone,
\* or is lost with it.
AckArrives ==
    /\ ack.flight # 0
    /\ AckEventConsumer(ack.flight)
    /\ ack' = [ack EXCEPT !.flight = 0]
    /\ UNCHANGED <<logVars, sub, stream, client, resume, saved, shown, excused, breaks, runs>>

AckLost ==
    /\ ack.flight # 0 /\ client.st # "reading"
    /\ ack' = [ack EXCEPT !.flight = 0]
    /\ UNCHANGED <<logVars, lease, sub, stream, client, resume, saved, shown, excused, breaks, runs>>

\* The path is lost, or the server's write times out.
ConnectionLost ==
    /\ client.st \in {"asked", "reading"} /\ breaks < MaxBreaks
    /\ client' = [client EXCEPT !.st = "retry"]
    /\ stream' = <<>> /\ sub' = NoSub
    /\ ack' = [NoAck EXCEPT !.flight = ack.flight]
    /\ breaks' = breaks + 1
    /\ UNCHANGED <<logVars, lease, resume, saved, shown, excused, runs>>

\* The daemon restarts: the journal is loaded from the log again.
DaemonRestarts ==
    /\ breaks < MaxBreaks
    /\ breaks' = breaks + 1
    /\ retained' = Larger(boundary, head - JournalWindow)
    /\ client' = IF client.st \in {"asked", "reading"} THEN [client EXCEPT !.st = "retry"] ELSE client
    /\ stream' = <<>> /\ sub' = NoSub
    /\ ack' = NoAck
    /\ resume' = IF resume.st = "served" THEN [resume EXCEPT !.st = "ask"] ELSE resume
    /\ UNCHANGED <<head, boundary, lease, saved, shown, excused, runs>>
-------------------------------------------------------------------------------
(* `asp resume`: the whole replay is read before anything is shown.        *)

ResumeStart ==
    /\ resume.st = "off" /\ runs < MaxRuns
    /\ resume' = [NoResume EXCEPT !.st = "ask", !.cursor = saved]
    /\ runs' = runs + 1
    /\ UNCHANGED <<logVars, lease, sub, stream, client, ack, saved, shown, excused, breaks>>

\* RESUME_SESSION_STREAM: snapshot and events are taken under the commit lock;
\* a cursor ahead of the head is refused.
ResumeServed ==
    /\ resume.st = "ask"
    /\ resume' = IF resume.cursor > head THEN NoResume
                 ELSE [resume EXCEPT !.st = "served", !.through = head,
                                     !.compacted = Compacted(resume.cursor)]
    /\ UNCHANGED <<logVars, lease, sub, stream, client, ack, saved, shown, excused, breaks, runs>>

\* The stream breaks before RESUME_END: ask again from the same cursor, or give up.
ResumeBroken ==
    /\ resume.st = "served" /\ breaks < MaxBreaks
    /\ \E st \in {"ask", "off"} : resume' = [resume EXCEPT !.st = st]
    /\ breaks' = breaks + 1
    /\ UNCHANGED <<logVars, lease, sub, stream, client, ack, saved, shown, excused, runs>>

\* RESUME_END: everything is displayed, the cursor saved.
ResumeEnds ==
    /\ resume.st = "served"
    /\ LET ids == IdRange(resume.cursor, resume.through) IN
       /\ shown' = IF resume.compacted THEN shown ELSE shown \cup ids
       /\ excused' = IF resume.compacted THEN excused \cup ids ELSE excused
    /\ Save(resume.through)
    /\ resume' = [resume EXCEPT !.st = "acking", !.cursor = resume.through]
    /\ UNCHANGED <<logVars, lease, sub, stream, client, ack, breaks, runs>>

\* The acknowledgement that follows may be lost; the command ends either way.
ResumeAcks(arrives) ==
    /\ resume.st = "acking"
    /\ IF arrives THEN AckEventConsumer(resume.cursor) ELSE UNCHANGED lease
    /\ resume' = NoResume
    /\ UNCHANGED <<logVars, sub, stream, client, ack, saved, shown, excused, breaks, runs>>
-------------------------------------------------------------------------------
EventsInit ==
    /\ head = 0 /\ retained = 0 /\ boundary = 0
    /\ lease = NoLease
    /\ sub = NoSub /\ stream = <<>>
    /\ client = [st |-> "stopped", cursor |-> 0, after |-> 0]
    /\ ack = NoAck /\ resume = NoResume
    /\ saved = 0 /\ shown = {} /\ excused = {}
    /\ breaks = 0 /\ runs = 0

ServerStreams ==
    \/ HandleSubscribe \/ StreamBacklog \/ StreamCaughtUp \/ StreamLive \/ StreamLagged

ClientReads ==
    \/ ReadReady \/ ReadCaughtUp \/ ReadOldEvent \/ ReadEnd \/ ReadError
    \/ \E persist \in BOOLEAN : ReadEvent(persist)

EventsNext ==
    \/ AppendLocked
    \/ CompactSession \/ ExpireLease
    \/ ServerStreams \/ SubscriptionLimit \/ StreamRevoked
    \/ \E after \in {saved} \cup Requested : StartSubscriber(after)
    \/ SendSubscribe \/ ClientReads \/ Reconnect \/ Detach \/ ClientDies
    \/ AckSend \/ AckArrives \/ AckLost
    \/ ConnectionLost \/ DaemonRestarts
    \/ ResumeStart \/ ResumeServed \/ ResumeBroken \/ ResumeEnds
    \/ \E arrives \in BOOLEAN : ResumeAcks(arrives)

\* Handlers and client tasks run: a writer that may write writes, a reader reads
\* what arrived, and the client reconnects after its back-off.
EventsFairness ==
    /\ WF_eventVars(ServerStreams)
    /\ WF_eventVars(ClientReads)
    /\ WF_eventVars(SendSubscribe) /\ WF_eventVars(Reconnect)

EventsSpec == EventsInit /\ [][EventsNext]_eventVars /\ EventsFairness
-------------------------------------------------------------------------------
(* Properties.                                                             *)

Consumed(n) == IdRange(0, n) \subseteq shown \cup excused \cup Hidden

\* No event is skipped in silence: everything the filter lets through at or below
\* the saved cursor, the subscriber's cursor and the acknowledged lease was printed
\* for this consumer, or replaced by a snapshot it was told of, or skipped on
\* request, whatever lags, disconnects, client deaths, restarts, lost and late
\* acknowledgements and concurrent resumes came between (subscribe_events,
\* stream_event_subscription, ack_event_consumer, insert_saved_session).
NothingSkipped ==
    /\ Consumed(saved)
    /\ client.st # "stopped" => Consumed(client.cursor)
    /\ lease # NoLease => Consumed(lease)

\* A subscriber that keeps running gets every event its filter lets through, or
\* the snapshot that replaces it: lag, disconnects and restarts delay delivery
\* and do not stop it.
CatchesUp == []<>(client.st = "stopped" \/ Consumed(head))
===============================================================================
