------------------------------ MODULE AgentPool -------------------------------
(***************************************************************************)
(* `asp agent-listen`: the supervisor that serves JSONL adapters over a    *)
(* Unix socket, each adapter one task with an authenticated connection to  *)
(* aspd that it borrows from a pool of warm ones, replaces when it breaks  *)
(* and gives back when it ends.                                            *)
(*                                                                         *)
(* A connection stays up until someone closes it or the network takes it   *)
(* away: the monitor task that connect starts holds a handle of its own,   *)
(* and both sides send keep-alives, so that dropping a handle closes       *)
(* nothing.  The remote workspace is one file and the Git status beside    *)
(* it; a state digest is the pair of them, a tree version counts the       *)
(* file's changes.  The daemon, other adapters and the network are         *)
(* modelled as far as they meet the adapter.                               *)
(***************************************************************************)
EXTENDS Naturals, Sequences, FiniteSets, SequencesExt

CONSTANTS
    Adapters,     \* local clients of the socket
    MaxDials,     \* bound: connections the supervisor ever makes
    PoolLimit,    \* AGENT_CONNECTION_POOL_LIMIT
    ClientLimit,  \* AGENT_LISTENER_CLIENT_LIMIT
    CacheEntries, \* AGENT_WORKSPACE_CACHE_MAX_ENTRIES
    Queries,      \* semantic queries a caller repeats
    Files,        \* contents of the file
    MaxRetries,   \* attempts after an interruption
    AgentBudgets  \* bounds: records of the workspace changes, requests and
                  \* mishaps (broken connections, failed calls) allowed

VARIABLES
    conns,      \* what became of each connection
    registry,   \* CLIENT_ENDPOINTS
    idle,       \* the pool's stack of warm connection states
    adapter,    \* the task of each local client
    saved,      \* the session file: [session, cursor]
    remote,     \* the workspace: [file, status, version, events]
    supervisor, \* the listener: phase and socket
    left        \* what is left of the bounds

agentVars == <<conns, registry, idle, adapter, saved, remote, supervisor, left>>

ConnIds == 1..MaxDials
NoDial == 0
NoCache == [entries |-> <<>>, version |-> 0]

(* The content a query sees, and its digest. *)
ContentOf(r) == [file |-> r.file, status |-> r.status]
NoAnswer == [kind |-> "none", content |-> <<>>]

(* An adapter's task; `window` collects the contents the workspace had since
   the request under way began. *)
NoTask == [st |-> "out", conn |-> NoDial, guard |-> NoDial, session |-> 0,
           cursor |-> 0, cache |-> NoCache, op |-> <<>>, tries |-> 0,
           applied |-> FALSE, answer |-> NoAnswer, window |-> {}]

ConnLive(k) == conns[k] = "live"

AgentInit ==
    /\ conns = [k \in ConnIds |-> "unused"] /\ registry = {}
    /\ idle = <<>> /\ adapter = [a \in Adapters |-> NoTask]
    /\ saved = [session |-> 1, cursor |-> 0]
    /\ remote = [file |-> CHOOSE f \in Files : TRUE, status |-> 0, version |-> 0,
                 events |-> 0]
    /\ supervisor = [phase |-> "down", socket |-> "none"]
    /\ left \in AgentBudgets

Spend(field) == left[field] > 0 /\ left' = [left EXCEPT ![field] = @ - 1]

------------------------------------------------------------------------------
(* Connections *)

(* The next connection made. *)
Unmade(k) == conns[k] = "unused" /\ \A j \in 1..(k - 1) : conns[j] # "unused"

(* remember_client_endpoint, take_client_endpoint; the limit is not reached. *)
Remembered(k) == registry \cup {k}
Taken(k) == registry \ {k}

(* connect: negotiate, register the endpoint, start the monitor. *)
Connected(k) ==
    /\ Unmade(k)
    /\ conns' = [conns EXCEPT ![k] = "live"]
    /\ registry' = Remembered(k)

(* discard_agent_connection closes it and takes its endpoint out. *)
Discard(k) ==
    /\ conns' = [conns EXCEPT ![k] = "closed"]
    /\ registry' = Taken(k)

(* The network, or a restart of aspd, ends a connection. *)
ConnectionLost(k) ==
    /\ ConnLive(k) /\ Spend("mishaps")
    /\ conns' = [conns EXCEPT ![k] = "closed"]
    /\ UNCHANGED <<registry, idle, adapter, saved, remote, supervisor>>

(* The monitor task: once closed and drained, the endpoint is forgotten. *)
Monitor(k) ==
    /\ conns[k] = "closed" /\ k \in registry
    /\ registry' = registry \ {k}
    /\ UNCHANGED <<conns, idle, adapter, saved, remote, supervisor, left>>

------------------------------------------------------------------------------
(* The supervisor *)

(* bind_agent_socket: a socket file nobody answers on is replaced. *)
Bind ==
    /\ supervisor.phase = "down"
    /\ supervisor' = [phase |-> "serving", socket |-> "live"]
    /\ UNCHANGED <<conns, registry, idle, adapter, saved, remote, left>>

Active == {a \in Adapters : adapter[a].st # "out"}

(* One caller connects: a client slot, or an error line. *)
AcceptClient(a) ==
    /\ supervisor.phase = "serving" /\ adapter[a].st = "out"
    /\ Cardinality(Active) < ClientLimit
    /\ left.requests > 0
    /\ adapter' = [adapter EXCEPT ![a] = [NoTask EXCEPT !.st = "waiting"]]
    /\ UNCHANGED <<conns, registry, idle, saved, remote, supervisor, left>>

(* A signal: the listener is dropped and its socket removed. *)
Stop ==
    /\ supervisor.phase = "serving"
    /\ supervisor' = [phase |-> "draining", socket |-> "none"]
    /\ UNCHANGED <<conns, registry, idle, adapter, saved, remote, left>>

(* Every task has ended, or the grace is over and the rest are aborted, each
   closing the connection its guard holds; the process ends, and with it
   every connection. *)
Exit ==
    /\ supervisor.phase = "draining"
    /\ supervisor' = [supervisor EXCEPT !.phase = "down"]
    /\ adapter' = [a \in Adapters |-> NoTask]
    /\ conns' = [k \in ConnIds |-> IF ConnLive(k) THEN "closed" ELSE conns[k]]
    /\ registry' = {} /\ idle' = <<>>
    /\ UNCHANGED <<saved, remote, left>>

(* The supervisor is killed: the socket file stays behind. *)
Killed ==
    /\ supervisor.phase \in {"serving", "draining"} /\ Spend("mishaps")
    /\ supervisor' = [phase |-> "down",
                      socket |-> IF supervisor.socket = "live" THEN "stale" ELSE "none"]
    /\ adapter' = [a \in Adapters |-> NoTask]
    /\ conns' = [k \in ConnIds |-> IF ConnLive(k) THEN "closed" ELSE conns[k]]
    /\ registry' = {} /\ idle' = <<>>
    /\ UNCHANGED <<saved, remote>>

------------------------------------------------------------------------------
(* AgentConnectionPool *)

(* Tasks that hold one of the pool's permits. *)
Holding == {a \in Adapters : adapter[a].st \notin {"out", "waiting"}}

PoppedNot(s) == s

(* idle.pop() *)
Popped(s) == Front(s)

(* checkout waits AGENT_CONNECTION_POOL_WAIT for a permit. *)
PoolBusy(a) ==
    /\ adapter[a].st = "waiting" /\ Cardinality(Holding) >= PoolLimit
    /\ adapter' = [adapter EXCEPT ![a] = NoTask]
    /\ UNCHANGED <<conns, registry, idle, saved, remote, supervisor, left>>

Adopt(a, state, st) ==
    adapter' = [adapter EXCEPT ![a] =
        [NoTask EXCEPT !.st = st, !.conn = state.conn, !.session = state.session,
                       !.cursor = state.cursor, !.cache = state.cache]]

(* With a permit: the newest idle state if its connection is up and the
   session file still names its session; it is refreshed first when the
   file's cursor is ahead of it.  Otherwise it is closed, and the adapter
   connects anew. *)
Checkout(a) ==
    /\ adapter[a].st = "waiting" /\ Cardinality(Holding) < PoolLimit
    /\ IF idle = <<>>
       THEN /\ adapter' = [adapter EXCEPT ![a] = [NoTask EXCEPT !.st = "cold"]]
            /\ UNCHANGED <<conns, registry, idle>>
       ELSE LET state == Last(idle) IN
            /\ idle' = Popped(idle)
            /\ IF ConnLive(state.conn) /\ saved.session = state.session
               THEN /\ Adopt(a, state, IF saved.cursor > state.cursor
                                       THEN "refreshing" ELSE "starting")
                    /\ UNCHANGED <<conns, registry>>
               ELSE /\ Discard(state.conn)
                    /\ adapter' = [adapter EXCEPT ![a] = [NoTask EXCEPT !.st = "cold"]]
    /\ UNCHANGED <<saved, remote, supervisor, left>>

(* resume replays the journal, moves the cursor and the session file, and
   the local results no longer count. *)
Refresh(a) ==
    /\ adapter[a].st = "refreshing" /\ ConnLive(adapter[a].conn)
    /\ adapter' = [adapter EXCEPT ![a].st = "starting", ![a].cursor = remote.events,
                                  ![a].cache = NoCache]
    /\ saved' = IF saved.session = adapter[a].session /\ remote.events > saved.cursor
                THEN [saved EXCEPT !.cursor = remote.events] ELSE saved
    /\ UNCHANGED <<conns, registry, idle, remote, supervisor, left>>

(* A call fails on a connection that is gone, or by a mishap of its own. *)
Broken(a) ==
    IF ConnLive(adapter[a].conn) THEN Spend("mishaps") ELSE UNCHANGED left

RefreshFails(a) ==
    /\ adapter[a].st = "refreshing" /\ Broken(a)
    /\ Discard(adapter[a].conn)
    /\ adapter' = [adapter EXCEPT ![a] = [NoTask EXCEPT !.st = "cold"]]
    /\ UNCHANGED <<idle, saved, remote, supervisor>>

(* The session file cannot be read: the candidate is closed, and the caller
   gets the error. *)
CursorUnreadable(a) ==
    /\ adapter[a].st = "waiting" /\ Cardinality(Holding) < PoolLimit
    /\ idle # <<>> /\ ConnLive(Last(idle).conn) /\ Spend("mishaps")
    /\ idle' = Popped(idle) /\ Discard(Last(idle).conn)
    /\ adapter' = [adapter EXCEPT ![a] = NoTask]
    /\ UNCHANGED <<saved, remote, supervisor>>

(* connect_with_retry and ensure_session. *)
ColdConnect(a, k) ==
    /\ adapter[a].st = "cold" /\ Connected(k)
    /\ Adopt(a, [conn |-> k, session |-> saved.session, cursor |-> saved.cursor,
                 cache |-> NoCache], "starting")
    /\ UNCHANGED <<idle, saved, remote, supervisor, left>>

ConnectFails(a) ==
    /\ adapter[a].st = "cold" /\ Spend("mishaps")
    /\ adapter' = [adapter EXCEPT ![a] = NoTask]
    /\ UNCHANGED <<conns, registry, idle, saved, remote, supervisor>>

(* The body sets its abort guard and says it is ready. *)
Start(a) ==
    /\ adapter[a].st = "starting"
    /\ adapter' = [adapter EXCEPT ![a].st = "ready", ![a].guard = adapter[a].conn]
    /\ UNCHANGED <<conns, registry, idle, saved, remote, supervisor, left>>

------------------------------------------------------------------------------
(* Requests: what an operation does to the local results before it is sent,
   whether its retry leaves the replaced connection open, and its effect. *)

Op(clears, leaves, effect) == [clears |-> clears, leaves |-> leaves, effect |-> effect]

ExecOp == Op(TRUE, TRUE, "command")
SpawnOp == Op(TRUE, FALSE, "command")
SignalOp == Op(TRUE, TRUE, "command")
LogsOp == Op(FALSE, FALSE, "none")
StatusOp == Op(FALSE, FALSE, "none")
ArtifactPutOp == Op(FALSE, FALSE, "none")
ArtifactGetOp == Op(FALSE, FALSE, "none")
FileGetOp == Op(FALSE, FALSE, "none")
InspectOp == Op(FALSE, FALSE, "inspect")
FilePatchOp == Op(TRUE, FALSE, "write")
FilePatchRangesOp == Op(TRUE, FALSE, "write")
FilePutOp == Op(TRUE, FALSE, "write")

(* file_put of the bytes a cached inspection already has: only the remote
   digest is compared. *)
UnchangedOp == Op(FALSE, FALSE, "check")

CacheEntry(a, q) == {e \in Range(adapter[a].cache.entries) : e.query = q}

(* cached_file_patch: some cached result holds the base the caller names. *)
CachedBase(a, expected) == \E e \in Range(adapter[a].cache.entries) : e.file = expected

Plain == {[op |-> o, query |-> "none", expected |-> "none", data |-> "none"] :
            o \in {ExecOp, SpawnOp, SignalOp, LogsOp, StatusOp, ArtifactPutOp,
                   ArtifactGetOp, FileGetOp}}

Inspections == {[op |-> InspectOp, query |-> q, expected |-> "none", data |-> "none"] :
                  q \in Queries}

Patches == {[op |-> o, query |-> "none", expected |-> e, data |-> d] :
              o \in {FilePatchOp, FilePatchRangesOp}, e \in Files, d \in Files}

Puts(a) == {[op |-> IF e = d /\ CachedBase(a, e) THEN UnchangedOp ELSE FilePutOp,
             query |-> "none", expected |-> e, data |-> d] : e \in Files, d \in Files}

(* One line is read and dispatched. *)
Request(a, r) ==
    /\ adapter[a].st = "ready" /\ Spend("requests")
    /\ adapter' = [adapter EXCEPT ![a] =
         [@ EXCEPT !.st = "busy", !.op = r, !.tries = 0, !.applied = FALSE,
                   !.answer = NoAnswer, !.window = {ContentOf(remote)},
                   !.cache = IF r.op.clears THEN NoCache ELSE @]]
    /\ UNCHANGED <<conns, registry, idle, saved, remote, supervisor>>

(* A line that is too long, not JSON, incomplete or unknown gets an error
   line, and a ping a pong: nothing else happens.  (No action.) *)

(* The workspace changes; every request under way sees it. *)
Changed(new) ==
    /\ new # ContentOf(remote) /\ Spend("changes")
    /\ remote' = [file |-> new.file, status |-> new.status,
                  version |-> IF new.file # remote.file THEN remote.version + 1
                              ELSE remote.version,
                  events |-> remote.events + 1]

Witness(new) ==
    [a \in Adapters |-> IF adapter[a].st = "busy"
                        THEN [adapter[a] EXCEPT !.window = @ \cup {new}] ELSE adapter[a]]

Contents == [file : Files, status : {0, 1}]

(* The daemon carries out the adapter's command or guarded write, once. *)
Apply(a) ==
    LET t == adapter[a] IN
    /\ t.st = "busy" /\ ConnLive(t.conn) /\ ~t.applied
    /\ \E new \in Contents :
         /\ \/ t.op.op.effect = "command"
            \/ /\ t.op.op.effect = "write" /\ remote.file = t.op.expected
               /\ new = [ContentOf(remote) EXCEPT !.file = t.op.data]
         /\ Changed(new)
         /\ adapter' = [Witness(new) EXCEPT ![a].applied = TRUE]
    /\ UNCHANGED <<conns, registry, idle, saved, supervisor>>

(* Someone else works in the session, or reads its events. *)
OtherChange ==
    /\ \E new \in Contents : Changed(new) /\ adapter' = Witness(new)
    /\ UNCHANGED <<conns, registry, idle, saved, supervisor>>

OtherResumes ==
    /\ saved.cursor < remote.events
    /\ saved' = [saved EXCEPT !.cursor = remote.events]
    /\ UNCHANGED <<conns, registry, idle, adapter, remote, supervisor, left>>

(* asp connect: the session file names another session. *)
OtherSession ==
    /\ saved.session = 1 /\ Spend("mishaps")
    /\ saved' = [session |-> 2, cursor |-> 0]
    /\ UNCHANGED <<conns, registry, idle, adapter, remote, supervisor>>

(* AgentWorkspaceCache::insert: the entry replaces the one of its key; one
   too large is not kept, and any other entry may be evicted. *)
Inserted(entries, e) ==
    LET others == SelectSeq(entries, LAMBDA o : o.query # e.query)
    IN  {others} \cup
        {Append(s, e) : s \in {SelectSeq(others, LAMBDA o : o # x) : x \in Range(others)}
                              \cup (IF Len(others) < CacheEntries THEN {others} ELSE {})
                              \cup {<<>>}}

CompleteTreeAsSent(sent, cached) == sent

(* The tree the daemon left out is the one of the cached result. *)
CompleteTree(sent, cached) == IF sent = "omitted" THEN cached.file ELSE sent

(* WORKSPACE_STATE: an unchanged digest is answered from the cached result;
   a tree whose version is known is left out of the answer. *)
ServeInspect(a) ==
    LET t == adapter[a]
        cached == CacheEntry(a, t.op.query)
        entry == CHOOSE e \in cached : TRUE
        knownVersion == cached # {} /\ entry.version = t.cache.version
        sent == IF knownVersion /\ t.cache.version = remote.version
                THEN "omitted" ELSE remote.file
    IN  /\ t.st = "busy" /\ ConnLive(t.conn) /\ t.op.op.effect = "inspect"
        /\ IF cached # {} /\ entry.digest = ContentOf(remote)
           THEN adapter' = [adapter EXCEPT ![a] =
                  [@ EXCEPT !.st = "ready", !.cache.version = remote.version,
                            !.answer = [kind |-> "state",
                              content |-> [file |-> entry.file, status |-> entry.status]]]]
           ELSE LET file == CompleteTree(sent, entry)
                    new == [query |-> t.op.query, digest |-> ContentOf(remote),
                            file |-> file, status |-> remote.status,
                            version |-> remote.version]
                IN  \E s \in Inserted(t.cache.entries, new) :
                      adapter' = [adapter EXCEPT ![a] =
                        [@ EXCEPT !.st = "ready",
                                  !.cache = [entries |-> s, version |-> remote.version],
                                  !.answer = [kind |-> "state", content |->
                                    [file |-> file, status |-> remote.status]]]]
        /\ UNCHANGED <<conns, registry, idle, saved, remote, supervisor, left>>

(* file_hash_with_retry: the remote digest is still the cached one. *)
SameHash(a) == remote.file = adapter[a].op.data

(* A put of unchanged bytes: confirmed by the remote digest, or sent after
   all. *)
ServeCheck(a) ==
    /\ adapter[a].st = "busy" /\ ConnLive(adapter[a].conn)
    /\ adapter[a].op.op.effect = "check"
    /\ adapter' = [adapter EXCEPT ![a] =
         IF SameHash(a)
         THEN [@ EXCEPT !.st = "ready", !.answer = [kind |-> "stored",
                 content |-> [file |-> adapter[a].op.data, status |-> 0]]]
         ELSE [@ EXCEPT !.op.op = FilePutOp, !.cache = NoCache, !.tries = 0]]
    /\ UNCHANGED <<conns, registry, idle, saved, remote, supervisor, left>>

(* Any other answer: of a read, a command, or a write that was applied or
   whose base had changed. *)
Serve(a) ==
    LET t == adapter[a] IN
    /\ t.st = "busy" /\ ConnLive(t.conn)
    /\ t.op.op.effect \in {"none", "command", "write"}
    /\ t.op.op.effect = "write" /\ ~t.applied
         => remote.file # t.op.expected \/ remote.file = t.op.data
    /\ adapter' = [adapter EXCEPT ![a].st = "ready"]
    /\ UNCHANGED <<conns, registry, idle, saved, remote, supervisor, left>>

(* The stream or the connection breaks while an answer is awaited: the
   request goes out again, unchanged, on a new connection.  retry_request
   closes the old one; the loops of exec and signal do not. *)
Interrupt(a, k) ==
    LET t == adapter[a] IN
    /\ t.st = "busy" /\ t.tries < MaxRetries /\ Broken(a)
    /\ Unmade(k)
    /\ conns' = [conns EXCEPT ![k] = "live",
                              ![t.conn] = IF t.op.op.leaves THEN @ ELSE "closed"]
    /\ registry' = Remembered(k)
    /\ adapter' = [adapter EXCEPT ![a].conn = k, ![a].tries = @ + 1]
    /\ UNCHANGED <<idle, saved, remote, supervisor>>

(* No connection can be made, or the attempts are spent: an error line. *)
InterruptFails(a) ==
    LET t == adapter[a] IN
    /\ t.st = "busy" /\ Broken(a)
    /\ conns' = [conns EXCEPT ![t.conn] =
                    IF t.op.op.leaves \/ t.tries = MaxRetries THEN @ ELSE "closed"]
    /\ adapter' = [adapter EXCEPT ![a].st = "ready"]
    /\ UNCHANGED <<registry, idle, saved, remote, supervisor>>

(* The caller's lines cannot be read, or the output queue is full: the body
   returns an error, and the guard closes the connection it was given. *)
Abort(a) ==
    /\ adapter[a].st \in {"ready", "busy"} /\ Spend("mishaps")
    /\ Discard(adapter[a].guard)
    /\ adapter' = [adapter EXCEPT ![a] = NoTask]
    /\ UNCHANGED <<idle, saved, remote, supervisor>>

(* The caller is done: the guard is disarmed. *)
Close(a) ==
    /\ adapter[a].st = "ready"
    /\ adapter' = [adapter EXCEPT ![a].st = "leaving", ![a].guard = NoDial]
    /\ UNCHANGED <<conns, registry, idle, saved, remote, supervisor, left>>

(* The last lines could not be written to the caller. *)
WriterFails(a) ==
    /\ adapter[a].st = "leaving" /\ Spend("mishaps")
    /\ Discard(adapter[a].conn)
    /\ adapter' = [adapter EXCEPT ![a] = NoTask]
    /\ UNCHANGED <<idle, saved, remote, supervisor>>

(* checkin: back on the stack, and the permit is free again. *)
Checkin(a) ==
    LET t == adapter[a] IN
    /\ t.st = "leaving"
    /\ IF ConnLive(t.conn) /\ Len(idle) < PoolLimit
       THEN /\ idle' = Append(idle, [conn |-> t.conn, session |-> t.session,
                                     cursor |-> t.cursor, cache |-> t.cache])
            /\ UNCHANGED <<conns, registry>>
       ELSE Discard(t.conn) /\ UNCHANGED idle
    /\ adapter' = [adapter EXCEPT ![a] = NoTask]
    /\ UNCHANGED <<saved, remote, supervisor, left>>

AgentNext ==
    \/ Bind \/ Stop \/ Exit \/ Killed \/ OtherChange \/ OtherResumes \/ OtherSession
    \/ \E k \in ConnIds : ConnectionLost(k) \/ Monitor(k)
    \/ \E a \in Adapters :
         \/ AcceptClient(a) \/ PoolBusy(a) \/ Checkout(a) \/ Refresh(a)
         \/ RefreshFails(a) \/ CursorUnreadable(a) \/ ConnectFails(a) \/ Start(a) \/ Apply(a)
         \/ ServeInspect(a) \/ ServeCheck(a) \/ Serve(a) \/ InterruptFails(a)
         \/ Abort(a) \/ Close(a) \/ WriterFails(a) \/ Checkin(a)
         \/ \E k \in ConnIds : ColdConnect(a, k) \/ Interrupt(a, k)
         \/ \E r \in Plain \cup Inspections \cup Patches \cup Puts(a) : Request(a, r)

AgentSpec == AgentInit /\ [][AgentNext]_agentVars

------------------------------------------------------------------------------
(* What the adapter tells its caller was true while the request was under
   way: an inspection answered from cached results describes a state the
   workspace really had, and a file_put reported as stored without being
   sent found the file with those bytes. *)
AnswersTrue ==
    \A a \in Adapters :
        LET answer == adapter[a].answer IN
        /\ answer.kind = "state" => answer.content \in adapter[a].window
        /\ answer.kind = "stored" =>
             answer.content.file \in {c.file : c \in adapter[a].window}

Held == {adapter[a].conn : a \in Holding} \ {NoDial}
IdleConns == {idle[i].conn : i \in DOMAIN idle}

(* Tasks and pool together own at most PoolLimit connections: no idle
   connection is also in use, or idle twice, however tasks abort, connections
   break and are replaced, and the supervisor is stopped and started. *)
PoolExact ==
    /\ Len(idle) + Cardinality(Holding) <= PoolLimit
    /\ Cardinality(IdleConns) = Len(idle)
    /\ IdleConns \cap Held = {}
    /\ \A a, b \in Holding : adapter[a].conn = adapter[b].conn
         => a = b \/ adapter[a].conn = NoDial
==============================================================================
