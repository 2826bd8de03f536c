------------------------------ MODULE Admission ------------------------------
(***************************************************************************)
(* How aspd admits work (crates/asp-server/src/main.rs): connections and   *)
(* their global and per-principal slots, the first HELLO that binds a      *)
(* connection to one principal, the live re-check of its credential before *)
(* every later request, the cache in front of the credential file, the     *)
(* slots a request holds, and the drain that precedes a shutdown.          *)
(*                                                                         *)
(* Every stream of a connection is its own task, so each step below that   *)
(* the code separates by an await or by releasing a lock is an action.     *)
(* Credentials are model values; a credential names its principal, and an  *)
(* edit of the file (a rename over it) replaces the set of valid ones.     *)
(* Scopes, features and TLS are data no decision below depends on.         *)
(***************************************************************************)
EXTENDS Naturals, FiniteSets, Sequences

CONSTANTS
    Conns,          \* connections
    Streams,        \* the streams: pairs <<connection, index>>
    Credentials,    \* credentials a client may present
    Holder,         \* the principal a credential identifies
    Configs,        \* the contents the credential file may be given
    FirstConfig,    \* the contents it has when the daemon starts
    MaxConns,       \* state.max_connections
    MaxOwnConns,    \* connections one principal may hold
    MaxRequests,    \* permits of request_permits
    MaxOwnRequests, \* request streams one principal may hold
    FailureLimit,   \* AUTH_FAILURE_LIMIT, for the one source address modelled
    MaxEdits,       \* bound: edits of the credential file
    MaxArrivals     \* bound: streams accepted in a behaviour

Principals == {Holder[k] : k \in Credentials}
Unbound == "unbound"
Uncached == [stamp |-> 0, valid |-> {}]

ASSUME AdmissionAssumption ==
    /\ IsFiniteSet(Conns) /\ IsFiniteSet(Streams)
    /\ \A s \in Streams : s[1] \in Conns
    /\ Unbound \notin Credentials /\ Unbound \notin Principals
    /\ FirstConfig \subseteq Credentials
    /\ \A valid \in Configs : valid \subseteq Credentials

VARIABLES
    file,       \* contents of the credential file so far; the last is current
    cache,      \* the cached contents and the stamp taken before reading them
    conn,       \* [Conns -> connection]
    stream,     \* [Streams -> request task]
    connections,   \* active_connections
    ownConns,      \* principal_connections
    active,        \* active_request_streams
    ownRequests,   \* principal_request_streams
    failures,      \* failed attempts in the source's window
    phase,         \* where the main loop is
    arrivals       \* streams accepted so far

admissionVars == <<file, cache, conn, stream, connections, ownConns, active,
                   ownRequests, failures, phase, arrivals>>

slots == <<connections, ownConns, active, ownRequests>>

Nobody == [id |-> Unbound, cred |-> Unbound]
NoConn == [st |-> "off", timed |-> TRUE, lease |-> Unbound,
           current |-> Nobody, auth |-> FALSE]
NoStream == [st |-> "off", hello |-> FALSE, cred |-> Unbound, from |-> 0,
             stamp |-> 0, read |-> {}, holds |-> Unbound, as |-> Nobody]

Accepting == {"serving", "draining", "closing"}
Stamp == Len(file)
Valid == file[Stamp]
Of(s) == s[1]
Live(s) == stream[s].st # "off"

AdmissionInit ==
    /\ file = <<FirstConfig>>
    /\ cache = Uncached
    /\ conn = [c \in Conns |-> NoConn]
    /\ stream = [s \in Streams |-> NoStream]
    /\ connections = 0 /\ active = 0 /\ failures = 0 /\ arrivals = 0
    /\ ownConns = [p \in Principals |-> 0]
    /\ ownRequests = [p \in Principals |-> 0]
    /\ phase = "serving"

------------------------------------------------------------------------------
(* Connections *)

ConnectionSlotFree == connections < MaxConns
PrincipalConnectionSlotFree(id) == ownConns[id] < MaxOwnConns
RequestPermitFree == active < MaxRequests
PrincipalRequestSlotFree(id) == ownRequests[id] < MaxOwnRequests

(* A QUIC handshake completes and handle_connection takes its global slot.
   A handshake accepted before the drain may still complete during it. *)
Connect(c) ==
    /\ conn[c].st = "off" /\ phase \in Accepting /\ ConnectionSlotFree
    /\ conn' = [conn EXCEPT ![c] = [NoConn EXCEPT !.st = "open"]]
    /\ connections' = connections + 1
    /\ UNCHANGED <<file, cache, stream, ownConns, active, ownRequests,
                   failures, phase, arrivals>>

ReleaseGlobalOnly(c) ==
    /\ conn' = [conn EXCEPT ![c] = NoConn]
    /\ connections' = connections - 1
    /\ UNCHANGED ownConns

(* The slots of connection c once its last task is gone: the drops of
   ConnectionGuard and PrincipalConnectionGuard. *)
ReleaseConnection(c) ==
    /\ conn' = [conn EXCEPT ![c] = NoConn]
    /\ connections' = connections - 1
    /\ ownConns' = IF conn[c].lease = Unbound THEN ownConns
                   ELSE [ownConns EXCEPT ![conn[c].lease] = @ - 1]

(* The accept loop ends; tasks already spawned run on and keep the guard. *)
LeaveAcceptLoop(c) ==
    /\ IF \A s \in Streams : Of(s) = c => ~Live(s)
       THEN ReleaseConnection(c)
       ELSE /\ conn' = [conn EXCEPT ![c].st = "closed"]
            /\ UNCHANGED <<connections, ownConns>>
    /\ UNCHANGED <<file, cache, stream, active, ownRequests, failures, phase,
                   arrivals>>

PeerCloses(c) ==
    conn[c].st = "open" /\ LeaveAcceptLoop(c)

(* The fixed authentication deadline passes while the loop waits in the
   accept it armed with that deadline. *)
AuthenticationTimeout(c) ==
    /\ conn[c].st = "open" /\ conn[c].timed
    /\ LeaveAcceptLoop(c)

(* accept_bi: a permit and the stream guard, or a server_busy answer; the
   loop's next accept has the deadline as long as the flag is down. *)
AcceptStream(s) ==
    LET c == Of(s) IN
    /\ conn[c].st = "open" /\ phase \in Accepting /\ ~Live(s)
    /\ arrivals < MaxArrivals /\ arrivals' = arrivals + 1
    /\ conn' = [conn EXCEPT ![c].timed = ~conn[c].auth]
    /\ IF RequestPermitFree
       THEN /\ stream' = [stream EXCEPT ![s].st = "read"]
            /\ active' = active + 1
       ELSE UNCHANGED <<stream, active>>
    /\ UNCHANGED <<file, cache, connections, ownConns, ownRequests, failures,
                   phase>>

------------------------------------------------------------------------------
(* The credential file and the cache in front of it *)

(* Task s moves to st; nothing but its own record changes. *)
Goto(s, st) ==
    /\ stream' = [stream EXCEPT ![s].st = st]
    /\ UNCHANGED <<file, cache, conn, slots, failures, phase, arrivals>>

(* Where a task goes once its credential was looked up among `valid`, and
   what the source's window becomes. *)
Decision(hello, cred, valid) ==
    IF hello THEN IF cred \in valid THEN "install" ELSE "answer"
    ELSE IF cred \in valid THEN "gate" ELSE "clear"

Recorded(hello, cred, valid) ==
    IF ~hello THEN failures
    ELSE IF cred \in valid THEN 0
    ELSE IF failures < FailureLimit THEN failures + 1 ELSE failures

(* Task s looks up cred: the stamp is taken first, and the cached contents
   are used only if they carry the same stamp. *)
LookUp(s, hello, cred) ==
    LET hit == cache.stamp = Stamp IN
    /\ stream' = [stream EXCEPT ![s] =
          [@ EXCEPT !.hello = hello, !.cred = cred, !.from = Stamp, !.stamp = Stamp,
                    !.st = IF hit THEN Decision(hello, cred, cache.valid)
                           ELSE "load"]]
    /\ failures' = IF hit THEN Recorded(hello, cred, cache.valid) ELSE failures
    /\ UNCHANGED <<file, cache, conn, slots, phase, arrivals>>

(* The file is read after its stamp was taken. *)
LoadFile(s) ==
    /\ stream[s].st = "load"
    /\ stream' = [stream EXCEPT ![s].st = "publish", ![s].read = Valid]
    /\ UNCHANGED <<file, cache, conn, slots, failures, phase, arrivals>>

StampNow(s) == Stamp
StampOf(s) == stream[s].stamp

(* What was read is cached under the earlier stamp, and decides. *)
PublishCache(s) ==
    LET r == stream[s] IN
    /\ r.st = "publish"
    /\ cache' = [stamp |-> StampOf(s), valid |-> r.read]
    /\ failures' = Recorded(r.hello, r.cred, r.read)
    /\ stream' = [stream EXCEPT ![s].st = Decision(r.hello, r.cred, r.read),
                                ![s].read = {}]
    /\ UNCHANGED <<file, conn, slots, phase, arrivals>>

EditFile ==
    /\ Stamp <= MaxEdits
    /\ \E valid \in Configs \ {Valid} : file' = Append(file, valid)
    /\ UNCHANGED <<cache, conn, stream, slots, failures, phase, arrivals>>

WindowExpires ==
    /\ failures > 0 /\ failures' = 0
    /\ UNCHANGED <<file, cache, conn, stream, slots, phase, arrivals>>

------------------------------------------------------------------------------
(* HELLO *)

AuthAttemptAllowed == failures < FailureLimit

(* A HELLO is read; a source whose window is full is refused unheard. *)
ReadHello(s, cred) ==
    /\ stream[s].st = "read"
    /\ IF AuthAttemptAllowed THEN LookUp(s, TRUE, cred) ELSE Goto(s, "answer")

(* The feature list is refused after the credential was accepted. *)
InvalidFeatures(s) == stream[s].st = "install" /\ Goto(s, "answer")

(* A connection keeps the principal whose lease it holds, and while a
   credential is current only that credential may repeat the HELLO. *)
PrincipalIdentityConflicts(c, cred) ==
    \/ conn[c].lease # Unbound /\ conn[c].lease # Holder[cred]
    \/ conn[c].current # Nobody /\ conn[c].current.cred # cred

(* The requests this HELLO overlaps may run on what it checked: `from`, the stamp
   at which a check began, records that. *)
InstallConnectionPrincipal(s) ==
    LET c == Of(s)
        cred == stream[s].cred
        id == Holder[cred]
        first == conn[c].lease = Unbound IN
    /\ stream[s].st = "install"
    /\ IF PrincipalIdentityConflicts(c, cred) \/ (first /\ ~PrincipalConnectionSlotFree(id))
       THEN Goto(s, "answer")
       ELSE /\ conn' = [conn EXCEPT ![c].lease = IF first THEN id ELSE @,
                                    ![c].current = [id |-> id, cred |-> cred]]
            /\ ownConns' = IF first THEN [ownConns EXCEPT ![id] = @ + 1] ELSE ownConns
            /\ stream' = [t \in Streams |->
                  IF t = s THEN [stream[s] EXCEPT !.st = "flag"]
                  ELSE IF Of(t) = c /\ stream[t].from > stream[s].from
                  THEN [stream[t] EXCEPT !.from = stream[s].from]
                  ELSE stream[t]]
            /\ UNCHANGED <<file, cache, connections, active, ownRequests,
                           failures, phase, arrivals>>

(* The flag goes up after the principal is installed. *)
RaiseFlag(s) ==
    /\ stream[s].st = "flag"
    /\ conn' = [conn EXCEPT ![Of(s)].auth = TRUE]
    /\ stream' = [stream EXCEPT ![s].st = "answer"]
    /\ UNCHANGED <<file, cache, slots, failures, phase, arrivals>>

------------------------------------------------------------------------------
(* Any other request *)

(* The frame is late, malformed, over the memory budget or absent, or a HELLO
   of another protocol version. *)
FrameFails(s) == stream[s].st = "read" /\ Goto(s, "answer")

ReadRequest(s) ==
    LET c == Of(s) IN
    /\ stream[s].st = "read"
    /\ IF ~conn[c].auth THEN Goto(s, "answer")
       ELSE IF conn[c].current = Nobody
       THEN /\ stream' = [stream EXCEPT ![s].st = "clear", ![s].from = Stamp]
            /\ UNCHANGED <<file, cache, conn, slots, failures, phase, arrivals>>
       ELSE LookUp(s, FALSE, conn[c].current.cred)

(* A stale credential lowers the flag, then forgets the principal; the
   lease stays with the connection. *)
LowerFlag(s) ==
    /\ stream[s].st = "clear"
    /\ conn' = [conn EXCEPT ![Of(s)].auth = FALSE]
    /\ stream' = [stream EXCEPT ![s].st = "forget"]
    /\ UNCHANGED <<file, cache, slots, failures, phase, arrivals>>

ForgetPrincipal(s) ==
    /\ stream[s].st = "forget"
    /\ conn' = [conn EXCEPT ![Of(s)].current = Nobody]
    /\ stream' = [stream EXCEPT ![s].st = "gate"]
    /\ UNCHANGED <<file, cache, slots, failures, phase, arrivals>>

GateUnwatched(s) ==
    /\ stream[s].st = "gate"
    /\ Goto(s, IF conn[Of(s)].auth THEN "lease" ELSE "answer")

(* The flag is read again, then the drain flag. *)
Gate(s) ==
    /\ stream[s].st = "gate"
    /\ Goto(s, IF conn[Of(s)].auth /\ phase = "serving" THEN "lease" ELSE "answer")

(* The principal's request slot. *)
LeaseRequest(s) ==
    LET id == conn[Of(s)].current.id IN
    /\ stream[s].st = "lease"
    /\ IF id = Unbound THEN Goto(s, "answer")
       ELSE IF ~PrincipalRequestSlotFree(id) THEN Goto(s, "answer")
       ELSE /\ stream' = [stream EXCEPT ![s].st = "budget", ![s].holds = id]
            /\ ownRequests' = [ownRequests EXCEPT ![id] = @ + 1]
            /\ UNCHANGED <<file, cache, conn, connections, ownConns, active,
                           failures, phase, arrivals>>

(* The principal's byte window or the free-space floor refuses. *)
RefuseForBudget(s) == stream[s].st = "budget" /\ Goto(s, "answer")

(* The handler starts under the principal the connection has now. *)
Dispatch(s) ==
    LET now == conn[Of(s)].current IN
    /\ stream[s].st = "budget"
    /\ IF now = Nobody THEN Goto(s, "answer")
       ELSE /\ stream' = [stream EXCEPT ![s].st = "running", ![s].as = now]
            /\ UNCHANGED <<file, cache, conn, slots, failures, phase, arrivals>>

(* The task ends and its guards drop; the last task of a closed connection
   takes the connection's slots with it. *)
EndTask(s) ==
    LET c == Of(s)
        id == stream[s].holds IN
    /\ stream[s].st \in {"answer", "running"}
    /\ stream' = [stream EXCEPT ![s] = NoStream]
    /\ active' = active - 1
    /\ ownRequests' = IF id = Unbound THEN ownRequests
                      ELSE [ownRequests EXCEPT ![id] = @ - 1]
    /\ IF conn[c].st = "closed" /\ \A t \in Streams \ {s} : Of(t) = c => ~Live(t)
       THEN ReleaseConnection(c)
       ELSE UNCHANGED <<conn, connections, ownConns>>
    /\ UNCHANGED <<file, cache, failures, phase, arrivals>>

------------------------------------------------------------------------------
(* Shutdown *)

SetDraining ==
    /\ phase = "serving" /\ phase' = "draining"
    /\ UNCHANGED <<file, cache, conn, stream, slots, failures, arrivals>>

(* The main loop sees no request stream left.  Connections still accept
   streams until the endpoint is closed, a moment later. *)
Drained ==
    /\ phase = "draining" /\ active = 0 /\ phase' = "closing"
    /\ UNCHANGED <<file, cache, conn, stream, slots, failures, arrivals>>

(* The grace period ends first: the daemon exits with requests running, and
   nothing more is said of them. *)
GraceExpires ==
    /\ phase = "draining" /\ active > 0 /\ phase' = "cut"
    /\ UNCHANGED <<file, cache, conn, stream, slots, failures, arrivals>>

(* endpoint.close, then sync_all while the remaining tasks run on; the
   process may exit at any later moment. *)
CloseEndpoint ==
    /\ phase = "closing" /\ phase' = "syncing"
    /\ UNCHANGED <<file, cache, conn, stream, slots, failures, arrivals>>

ConnectionStep ==
    \E c \in Conns : \/ Connect(c) \/ PeerCloses(c) \/ AuthenticationTimeout(c)

StreamStep ==
    \E s \in Streams :
        \/ AcceptStream(s) \/ FrameFails(s) \/ ReadRequest(s)
        \/ \E cred \in Credentials : ReadHello(s, cred)
        \/ LoadFile(s) \/ PublishCache(s)
        \/ InvalidFeatures(s) \/ InstallConnectionPrincipal(s) \/ RaiseFlag(s)
        \/ LowerFlag(s) \/ ForgetPrincipal(s) \/ Gate(s)
        \/ LeaseRequest(s) \/ RefuseForBudget(s) \/ Dispatch(s) \/ EndTask(s)

AdmissionNext ==
    /\ phase # "cut"
    /\ \/ ConnectionStep \/ StreamStep \/ EditFile \/ WindowExpires
       \/ SetDraining \/ Drained \/ GraceExpires \/ CloseEndpoint

AdmissionSpec == AdmissionInit /\ [][AdmissionNext]_admissionVars

------------------------------------------------------------------------------
Running(s) == stream[s].st = "running"

(* Every request that runs does so under the one principal its connection
   leased, holds a slot counted for that principal, and uses a credential
   that was in the file at some moment since the request, or a HELLO it
   overlapped, began its check: neither the cache nor the races between a
   HELLO and a failing re-check keep a replaced credential alive. *)
RunsAsLeased ==
    \A s \in Streams : Running(s) =>
        /\ stream[s].as.id = conn[Of(s)].lease
        /\ stream[s].holds = conn[Of(s)].lease
        /\ \E v \in stream[s].from..Stamp : stream[s].as.cred \in file[v]

(* A drain that its grace period did not cut short leaves no admitted request
   behind: once the main loop has seen the last stream end, no request runs
   while the endpoint closes and the journals are synced, although streams
   are accepted up to the close. *)
DrainWaits ==
    phase \in {"closing", "syncing"} =>
        \A s \in Streams : ~Running(s)

(* The four counters that refuse work are exactly the live holders, on every
   path out of a request or a connection: no slot leaks and none is returned
   twice. *)
SlotsExact ==
    /\ connections = Cardinality({c \in Conns : conn[c].st # "off"})
    /\ active = Cardinality({s \in Streams : Live(s)})
    /\ \A p \in Principals :
        /\ ownConns[p] = Cardinality({c \in Conns : conn[c].lease = p})
        /\ ownRequests[p] = Cardinality({s \in Streams : stream[s].holds = p})
==============================================================================
