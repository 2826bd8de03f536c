----------------------------- MODULE Negotiation ------------------------------
(***************************************************************************)
(* How a client comes by a connection: connect_with_retry, the version     *)
(* hint of the server, the race of its addresses, HELLO in one version or  *)
(* the other, and the table that remembers each connection's framing.      *)
(*                                                                         *)
(* The server's name stands for several daemons; one that has not been     *)
(* upgraded speaks version 16 only.  A credential is rotated at the        *)
(* daemons and in the client's file at different times.  Time is the age   *)
(* of the hint.                                                            *)
(***************************************************************************)
EXTENDS Naturals, FiniteSets, Functions

CONSTANTS
    Callers,      \* tasks of one client process that connect
    Daemons,      \* daemons behind the server's name
    Tokens,       \* bound: credentials there ever are, numbered in order
    LinkIds,      \* stable connection IDs; one may be used again after a close
    TableLimit,   \* CLIENT_FRAME_VERSION_CACHE_LIMIT
    HintTTL,      \* CLIENT_SERVER_VERSION_CACHE_TTL, in ticks
    ConnectTries  \* attempts of connect_with_retry after the first

ASSUME NegotiationAssumption == HintTTL \in Nat

VARIABLES
    speaks,        \* versions each daemon speaks
    accepted,      \* the token the daemons accept
    tokenFile,     \* the token in the client's file
    hint,          \* CLIENT_SERVER_VERSIONS: version, age, and ticks since a
                   \* probe with version 17 failed
    caller,        \* what each task is doing
    links,         \* connections: the version the daemon has pinned
    frameVersions  \* CLIENT_FRAME_VERSIONS

negotiationVars == <<speaks, accepted, tokenFile, hint, caller, links, frameVersions>>

LEGACY == 16
CURRENT == 17
NoHint == [version |-> 0, age |-> 0, since |-> 0]
NoLink == "no link"

(* `trust` is the age of the probe that the hint in use rests on. *)
NoCall == [st |-> "idle", phase |-> "none", token |-> 0, racing |-> {}, tries |-> 0,
           link |-> NoLink, trust |-> 0]

NegotiationInit ==
    /\ speaks \in [Daemons -> {{LEGACY}, {LEGACY, CURRENT}}]
    /\ accepted = 1 /\ tokenFile = 1
    /\ hint = NoHint /\ caller = [c \in Callers |-> NoCall]
    /\ links = [l \in LinkIds |-> 0] /\ frameVersions = [l \in {} |-> CURRENT]

------------------------------------------------------------------------------
(* Errors: what the failed call said, and the context put around it.  A
   caller that looks at the text sees the outermost context only. *)
Failure(cause, context) == [cause |-> cause, context |-> context]
ErrorText(e) == IF e.context = "none" THEN e.cause ELSE e.context

RetryableConnectionError(e) == ErrorText(e) \in {"connect to", "connection lost", "server_busy"}

ShouldTryLegacyVersion(e) ==
    ErrorText(e) \in {"protocol v17 handshake", "version_mismatch", "connection lost"}

ShouldTryCurrentVersion(e) ==
    ErrorText(e) \in {"protocol v16 handshake", "version_mismatch", "connection lost"}

------------------------------------------------------------------------------
(* The caches *)

LegacyHinted == hint.version = LEGACY /\ hint.age <= HintTTL
Hint(v) == [version |-> v, age |-> 0, since |-> 0]

(* A hint that has worked is left as it is, so that it runs out. *)
UsedHint == hint

Tick ==
    /\ hint.version # 0 /\ hint.since <= HintTTL
    /\ hint' = [hint EXCEPT !.age = @ + 1, !.since = @ + 1]
    /\ UNCHANGED <<speaks, accepted, tokenFile, caller, links, frameVersions>>

RememberedOnce(l, v) ==
    {IF l \in DOMAIN frameVersions THEN frameVersions
     ELSE [k \in DOMAIN frameVersions \cup {l} |-> IF k = l THEN v ELSE frameVersions[k]]}

(* remember_frame_version: a full table loses some entry to a new ID. *)
RememberFrameVersion(l, v) ==
    LET With(t) == [k \in DOMAIN t \cup {l} |-> IF k = l THEN v ELSE t[k]]
        known == DOMAIN frameVersions
    IN  IF l \notin known /\ Cardinality(known) >= TableLimit
        THEN {With(Restrict(frameVersions, known \ {k})) : k \in known}
        ELSE {With(frameVersions)}

------------------------------------------------------------------------------
(* connect *)

Version(phase) == IF phase = "current" THEN CURRENT ELSE LEGACY

Race(call, phase) == [call EXCEPT !.st = "racing", !.phase = phase, !.racing = Daemons]

(* The token file is read, the hint consulted, and the addresses raced. *)
ClientConnect(c) ==
    /\ caller[c].st = "idle"
    /\ hint' = IF hint.age > HintTTL THEN NoHint ELSE hint
    /\ caller' = [caller EXCEPT ![c] =
         [Race([NoCall EXCEPT !.tries = caller[c].tries],
               IF LegacyHinted THEN "hinted" ELSE "current")
          EXCEPT !.token = tokenFile, !.trust = IF LegacyHinted THEN hint.since ELSE 0]]
    /\ UNCHANGED <<speaks, accepted, tokenFile, links, frameVersions>>

(* HELLO succeeds: the others are aborted, the framing is remembered, and so
   is what a probe has found out. *)
HelloAccepted(c, d) ==
    LET v == Version(caller[c].phase) IN
    /\ caller[c].st = "racing" /\ d \in caller[c].racing
    /\ v \in speaks[d] /\ caller[c].token = accepted
    /\ \E l \in {k \in LinkIds : links[k] = 0} :
         /\ links' = [links EXCEPT ![l] = v]
         /\ frameVersions' \in RememberFrameVersion(l, v)
         /\ caller' = [caller EXCEPT ![c] = [NoCall EXCEPT !.st = "up", !.link = l]]
    /\ hint' = IF caller[c].phase = "hinted" THEN UsedHint ELSE Hint(v)
    /\ UNCHANGED <<speaks, accepted, tokenFile>>

(* The race is over without a connection: the other version, another attempt,
   or an error for the caller. *)
AttemptFailed(c, call, e) ==
    LET given == IF RetryableConnectionError(e) /\ call.tries < ConnectTries
                 THEN [NoCall EXCEPT !.tries = call.tries + 1] ELSE NoCall
    IN  CASE call.phase = "hinted" /\ ShouldTryCurrentVersion(e) ->
               /\ hint' = NoHint
               /\ caller' = [caller EXCEPT ![c] = Race(call, "current")]
          [] call.phase = "current" /\ ShouldTryLegacyVersion(e) ->
               /\ UNCHANGED hint
               /\ caller' = [caller EXCEPT ![c] = Race(call, "fallback")]
          [] OTHER -> UNCHANGED hint /\ caller' = [caller EXCEPT ![c] = given]

(* One address fails: a transport error leaves the race to the others. *)
AddressFailed(c, d, call, e) ==
    /\ IF RetryableConnectionError(e) /\ call.racing # {d}
       THEN /\ caller' = [caller EXCEPT ![c] = [call EXCEPT !.racing = call.racing \ {d}]]
            /\ UNCHANGED hint
       ELSE AttemptFailed(c, call, IF call.phase = "fallback"
                                   THEN Failure(e.cause, "fallback failed") ELSE e)
    /\ UNCHANGED <<speaks, accepted, tokenFile, links, frameVersions>>

Handshake(phase) ==
    IF Version(phase) = CURRENT THEN "protocol v17 handshake" ELSE "protocol v16 handshake"

(* No connection can be made, or not in time. *)
Unreachable(c, d) ==
    /\ caller[c].st = "racing" /\ d \in caller[c].racing
    /\ AddressFailed(c, d, caller[c], Failure("transport", "connect to"))

(* check_version_for_version: the daemon does not know the framing, refuses
   the token, or is gone before it answers. *)
HelloMismatched(c, d) ==
    /\ caller[c].st = "racing" /\ d \in caller[c].racing
    /\ Version(caller[c].phase) \notin speaks[d]
    /\ AddressFailed(c, d, caller[c], Failure("version_mismatch", Handshake(caller[c].phase)))

HelloRefused(c, d) ==
    /\ caller[c].st = "racing" /\ d \in caller[c].racing
    /\ Version(caller[c].phase) \in speaks[d] /\ caller[c].token # accepted
    /\ AddressFailed(c, d, caller[c], Failure("authentication", Handshake(caller[c].phase)))

HelloLost(c, d) ==
    /\ caller[c].st = "racing" /\ d \in caller[c].racing
    /\ AddressFailed(c, d, caller[c], Failure("connection lost", Handshake(caller[c].phase)))

(* The caller is done with its connection; the table keeps the entry. *)
CloseLink(c) ==
    /\ caller[c].st = "up"
    /\ links' = [links EXCEPT ![caller[c].link] = 0]
    /\ caller' = [caller EXCEPT ![c] = NoCall]
    /\ UNCHANGED <<speaks, accepted, tokenFile, hint, frameVersions>>

(* Operators upgrade daemons, and rotate the token: at the daemons, then in
   the client's file. *)
Upgrade(d) ==
    /\ CURRENT \notin speaks[d]
    /\ speaks' = [speaks EXCEPT ![d] = {LEGACY, CURRENT}]
    /\ UNCHANGED <<accepted, tokenFile, hint, caller, links, frameVersions>>

Rotate ==
    /\ tokenFile = accepted /\ accepted < Tokens /\ accepted' = accepted + 1
    /\ UNCHANGED <<speaks, tokenFile, hint, caller, links, frameVersions>>

NewTokenFile ==
    /\ tokenFile # accepted /\ tokenFile' = accepted
    /\ UNCHANGED <<speaks, accepted, hint, caller, links, frameVersions>>

NegotiationNext ==
    \/ Tick \/ Rotate \/ NewTokenFile \/ \E d \in Daemons : Upgrade(d)
    \/ \E c \in Callers :
         \/ ClientConnect(c) \/ CloseLink(c)
         \/ \E d \in Daemons : \/ HelloAccepted(c, d) \/ Unreachable(c, d) \/ HelloLost(c, d)
                               \/ HelloMismatched(c, d) \/ HelloRefused(c, d)

NegotiationSpec == NegotiationInit /\ [][NegotiationNext]_negotiationVars

------------------------------------------------------------------------------
(* frame_version_for_connection: a connection in use whose entry is in the
   table is framed the way its daemon has pinned it, although IDs are used
   again, entries outlive their connections and versions change under a
   rolling upgrade.  And "the short TTL lets a rolling upgrade converge back to
   v17": a caller goes straight to version 16 at most HintTTL after a probe
   with version 17 failed, however often and by however many tasks the hint is
   used. *)
FramesAgree ==
    \A c \in Callers :
        /\ caller[c].st = "up" /\ caller[c].link \in DOMAIN frameVersions
             => frameVersions[caller[c].link] = links[caller[c].link]
        /\ caller[c].trust <= HintTTL
==============================================================================
