---------------------------- MODULE ArtifactStore ----------------------------
(***************************************************************************)
(* Immutable artifacts of several sessions of one principal: an upload is  *)
(* answered from its request record, from the object the session already   *)
(* has, from a hard link to the object of another session, or by staging   *)
(* and committing its bytes; readers hold leases; retention writes a       *)
(* tombstone, unlinks, and sweeps orphans; the daemon may die between any  *)
(* two steps.  Files are names of inodes, because a hard link shares one.  *)
(* An artifact ID is its content, and a byte is a pair of artifact and     *)
(* position.                                                               *)
(***************************************************************************)
EXTENDS Integers, Sequences, FiniteSetsExt

CONSTANTS Sessions, Artifacts,
          PutIds,       \* request IDs of uploads
          SessionOf,    \* the session of a request ID
          Plans,        \* the artifacts the request IDs may be for
          Readers,      \* sessions with a GET client
          AgentPuts,    \* requests of upload_artifact_bytes: they never resume
          Chunks,       \* chunks of an artifact
          Quota,        \* ARTIFACT_MAX_BYTES_PER_SESSION, in artifacts
          SlotMax,      \* MAX_IDEMPOTENCY_RECORDS_PER_SESSION
          MaxMishaps    \* bound on cuts, failures and crashes

VARIABLES
    object,    \* inode of <session>/artifacts/<id>, 0 if there is none
    part,      \* inode of the staged payload of a request
    pending,   \* requests with staging metadata
    data,      \* bytes of an inode
    record,    \* durable artifact records: pairs of session and artifact
    requests,  \* durable artifact request records
    wanted,    \* the artifact of a request ID
    others,    \* request records of other kinds in a session, which share its slots
    slots,     \* idempotency_records of a session
    index,     \* artifact_index: the cached session of an artifact
    busy,      \* artifact_mutations of a session: free, held by a commit, or by the retention
               \* pass that is removing the artifact named
    putter,    \* handle_artifact_put_stream_inner of a request
    put,       \* the client of a request
    get,       \* one reader per session
    mishaps

artifactVars == <<object, part, pending, data, record, requests, wanted, others, slots, index, busy, putter,
                  put, get, mishaps>>

Inodes == 1 .. Cardinality(PutIds) + Cardinality(Sessions) * Cardinality(Artifacts)
Whole(a) == [k \in 1 .. Chunks |-> <<a, k>>]
NoOwner == "no owner"
Off == [st |-> "off", resume |-> FALSE, hashed |-> <<>>, src |-> NoOwner, installed |-> FALSE,
        reserved |-> FALSE]

Mishap == mishaps < MaxMishaps /\ mishaps' = mishaps + 1

\* The files after a step; a free inode has no bytes.
Files(o, p, d) ==
    /\ object' = o /\ part' = p
    /\ data' = [i \in Inodes |->
                  IF (\E s \in Sessions, a \in Artifacts : o[s][a] = i) \/ (\E r \in PutIds : p[r] = i)
                  THEN d[i] ELSE <<>>]

NewInode ==
    CHOOSE i \in Inodes : /\ \A s \in Sessions, a \in Artifacts : object[s][a] # i
                          /\ \A r \in PutIds : part[r] # i

Intact(s, a) == object[s][a] # 0 /\ data[object[s][a]] = Whole(a)

Collecting(s) == busy[s] \in Artifacts

\* artifact_readers: GET streams, and uploads that link an object of this session
Leased(s, a) ==
    \/ get[s].st = "reading" /\ get[s].artifact = a
    \/ \E r \in PutIds : putter[r].src = s /\ wanted[r] = a /\ putter[r].st # "found"

\* Only a handler that linked drops its staging directory whatever the commit returns.
Linked(r) == putter[r].src # NoOwner

\* The client's checkpoint goes with the answer, unless it is a refusal that comes before
\* the upload is declared ready.
BeforeReady(r) == putter[r].st \in {"begin", "leased", "open"} \/ Linked(r)
Answer(r, ok) ==
    put' = [put EXCEPT ![r].st = IF put[r].st # "asked" THEN @
                                 ELSE IF ok THEN "stored" ELSE "refused",
                       ![r].checkpoint = @ /\ (put[r].st = "asked" => ~ok /\ BeforeReady(r))]

\* The handler returns: an uncommitted IdempotencyReservation is dropped.
Return(r) ==
    /\ putter' = [putter EXCEPT ![r] = Off]
    /\ slots' = [slots EXCEPT ![SessionOf[r]] = IF putter[r].reserved THEN @ - 1 ELSE @]

Refuse(r) == Answer(r, FALSE) /\ Return(r)
-------------------------------------------------------------------------------
(* Uploads.                                                                *)

\* upload_artifact_with_retry: a checkpoint that is already there, or an earlier attempt,
\* makes it a RESUME_BEGIN; the agent's upload from memory always sends BEGIN.
Resumes(r) == put[r].checkpoint /\ r \notin AgentPuts
ClientPut(r) ==
    /\ put[r].st = "idle" \/ (put[r].st = "refused" /\ Resumes(r))
    /\ putter[r].st = "off"
    /\ put' = [put EXCEPT ![r] = [st |-> "asked", checkpoint |-> TRUE]]
    /\ putter' = [putter EXCEPT ![r] = [Off EXCEPT !.st = "begin", !.resume = Resumes(r)]]
    /\ UNCHANGED <<object, part, pending, data, record, requests, slots, index, busy, get, mishaps>>

\* The client loses its connection or dies; it may ask again with the same request ID.
ClientCut(r) ==
    /\ put[r].st = "asked"
    /\ Mishap
    /\ put' = [put EXCEPT ![r].st = "idle"]
    /\ UNCHANGED <<object, part, pending, data, record, requests, slots, index, busy, putter, get>>

\* find_same_owner_artifact: the cached session, or else any other, whose object verifies.
Candidates(r) ==
    LET a == wanted[r]
        ok(c) == c # SessionOf[r] /\ <<c, a>> \in record /\ Intact(c, a)
    IN IF index[a] # NoOwner /\ ok(index[a]) THEN {index[a]} ELSE {c \in Sessions : ok(c)}

\* The head of handle_artifact_put_stream_inner: cached answer, existing object, candidate
\* for a link.
PutBegin(r) ==
    LET s == SessionOf[r]
        a == wanted[r]
    IN /\ putter[r].st = "begin"
       /\ \/ /\ r \in requests
             /\ Answer(r, TRUE) /\ Return(r)
             /\ pending' = pending \ {r}
             /\ Files(object, [part EXCEPT ![r] = 0], data)
             /\ UNCHANGED index
          \/ /\ r \notin requests /\ <<s, a>> \in record
             /\ Answer(r, Intact(s, a)) /\ Return(r)
             /\ UNCHANGED <<object, part, pending, data, index>>
          \/ /\ r \notin requests /\ <<s, a>> \notin record /\ Candidates(r) # {}
             /\ \E c \in Candidates(r) :
                   /\ putter' = [putter EXCEPT ![r].st = "found", ![r].src = c]
                   /\ index' = [index EXCEPT ![a] = c]
             /\ UNCHANGED <<object, part, pending, data, slots, put>>
          \/ /\ r \notin requests /\ <<s, a>> \notin record /\ Candidates(r) = {}
             /\ putter' = [putter EXCEPT ![r].st = "open"]
             /\ UNCHANGED <<object, part, pending, data, slots, index, put>>
       /\ UNCHANGED <<record, requests, busy, get, mishaps>>

\* artifact_read_lease on the candidate, which retention may have removed meanwhile.
DedupLease(r) ==
    /\ putter[r].st = "found" /\ ~Collecting(putter[r].src)
    /\ putter' = IF <<putter[r].src, wanted[r]>> \in record
                 THEN [putter EXCEPT ![r].st = "leased"]
                 ELSE [putter EXCEPT ![r].st = "open", ![r].src = NoOwner]
    /\ UNCHANGED <<object, part, pending, data, record, requests, slots, index, busy, put, get,
                   mishaps>>

\* The digest is checked again, the object linked as the staged payload and a slot
\* reserved; a payload that is already staged sends the upload down the ordinary path.
DedupLink(r) ==
    LET src == putter[r].src
        a == wanted[r]
        s == SessionOf[r]
    IN /\ putter[r].st = "leased"
       /\ \/ /\ ~Intact(src, a) \/ part[r] # 0
             /\ putter' = [putter EXCEPT ![r].st = "open", ![r].src = NoOwner]
             /\ UNCHANGED <<object, part, data, slots, put>>
          \/ /\ Intact(src, a) /\ part[r] = 0 /\ slots[s] < SlotMax
             /\ Files(object, [part EXCEPT ![r] = object[src][a]], data)
             /\ slots' = [slots EXCEPT ![s] = @ + 1]
             /\ putter' = [putter EXCEPT ![r].st = "commit", ![r].reserved = TRUE]
             /\ UNCHANGED put
          \/ /\ Intact(src, a) /\ part[r] = 0 /\ slots[s] >= SlotMax
             /\ Refuse(r)
             /\ UNCHANGED <<object, part, data>>
       /\ UNCHANGED <<pending, record, requests, index, busy, get, mishaps>>

\* What is staged for a request that BEGIN must clear away.
StagingPending(r) == r \in pending
StagingExists(r) == r \in pending \/ part[r] # 0

\* Headroom, staging metadata, slot, payload: opened for appending at its length, created
\* or truncated when that is 0; the staged prefix is hashed.
PutOpen(r) ==
    LET s == SessionOf[r]
        resume == putter[r].resume
        kept == IF ~resume /\ StagingExists(r) THEN [part EXCEPT ![r] = 0] ELSE part
        prefix == IF resume /\ kept[r] # 0 THEN data[kept[r]] ELSE <<>>
        inode == IF kept[r] = 0 THEN NewInode ELSE kept[r]
    IN /\ putter[r].st = "open"
       /\ \/ /\ Mishap /\ Refuse(r)
             /\ UNCHANGED <<object, part, pending, data>>
          \/ /\ slots[s] >= SlotMax
             /\ Refuse(r)
             /\ pending' = pending \cup {r}
             /\ Files(object, kept, data)
             /\ UNCHANGED mishaps
          \/ /\ slots[s] < SlotMax
             /\ pending' = pending \cup {r}
             /\ Files(object, [kept EXCEPT ![r] = inode], [data EXCEPT ![inode] = prefix])
             /\ slots' = [slots EXCEPT ![s] = @ + 1]
             /\ putter' = [putter EXCEPT ![r] = [Off EXCEPT !.st = "recv", !.hashed = prefix,
                                                           !.reserved = TRUE]]
             /\ UNCHANGED <<put, mishaps>>
       /\ UNCHANGED <<record, requests, index, busy, get>>

\* A chunk; the client's source may no longer be what it digested.
PutChunk(r, changed) ==
    LET got == Len(putter[r].hashed)
        byte == <<IF changed THEN "changed" ELSE wanted[r], got + 1>>
    IN /\ putter[r].st = "recv" /\ put[r].st = "asked" /\ got < Chunks
       /\ IF changed THEN Mishap ELSE UNCHANGED mishaps
       /\ putter' = [putter EXCEPT ![r].hashed = Append(@, byte)]
       /\ Files(object, part, [data EXCEPT ![part[r]] = Append(@, byte)])
       /\ UNCHANGED <<pending, record, requests, slots, index, busy, put, get>>

\* The stream breaks off, or a budget, headroom or write error ends the loop: the payload
\* stays for a resume.
PutCut(r) ==
    /\ putter[r].st = "recv"
    /\ IF put[r].st = "asked" THEN Mishap ELSE UNCHANGED mishaps
    /\ Refuse(r)
    /\ UNCHANGED <<object, part, pending, data, record, requests, index, busy, get>>

\* END: a body that does not hash to the artifact ID is discarded.
PutEnd(r) ==
    /\ putter[r].st = "recv" /\ put[r].st = "asked" /\ Len(putter[r].hashed) = Chunks
    /\ IF putter[r].hashed = Whole(wanted[r])
       THEN /\ putter' = [putter EXCEPT ![r].st = "commit"]
            /\ UNCHANGED <<object, part, pending, data, slots, put>>
       ELSE /\ Refuse(r)
            /\ pending' = pending \ {r}
            /\ Files(object, [part EXCEPT ![r] = 0], data)
    /\ UNCHANGED <<record, requests, index, busy, get, mishaps>>

QuotaLeft(s) == Cardinality({e \in record : e[1] = s}) < Quota

\* commit_artifact, under artifact_mutations, up to the append: an object that is there is
\* verified and adopted, or the payload is renamed to be it.
CommitArtifact(r) ==
    LET s == SessionOf[r]
        a == wanted[r]
        noPart == [part EXCEPT ![r] = 0]
    IN /\ putter[r].st = "commit" /\ busy[s] = "free"
       /\ \/ /\ object[s][a] # 0 /\ (~Intact(s, a) \/ <<s, a>> \in record)
             /\ Answer(r, Intact(s, a)) /\ Return(r)
             /\ LET clean == Linked(r) \/ Intact(s, a)
                IN /\ Files(object, IF clean THEN noPart ELSE part, data)
                   /\ pending' = IF clean THEN pending \ {r} ELSE pending
             /\ UNCHANGED busy
          \/ /\ object[s][a] # 0 /\ Intact(s, a) /\ <<s, a>> \notin record
             /\ Files(object, noPart, data)
             /\ busy' = [busy EXCEPT ![s] = "put"]
             /\ putter' = [putter EXCEPT ![r].st = "append"]
             /\ UNCHANGED <<pending, slots, put>>
          \/ /\ object[s][a] = 0 /\ (QuotaLeft(s) \/ <<s, a>> \in record)
             /\ Files([object EXCEPT ![s][a] = part[r]], noPart, data)
             /\ busy' = [busy EXCEPT ![s] = "put"]
             /\ putter' = [putter EXCEPT ![r].st = "append", ![r].installed = TRUE]
             /\ UNCHANGED <<pending, slots, put>>
          \/ /\ object[s][a] = 0 /\ ~QuotaLeft(s) /\ <<s, a>> \notin record
             /\ Refuse(r)
             /\ Files(object, IF Linked(r) THEN noPart ELSE part, data)
             /\ pending' = IF Linked(r) THEN pending \ {r} ELSE pending
             /\ UNCHANGED busy
       /\ UNCHANGED <<record, requests, index, get, mishaps>>

\* ARTIFACT_CREATED: durable record, request record and slot; or the append fails and an
\* object that this commit installed is unlinked.  Then the answer and the staging clean-up.
AppendCreated(r) ==
    LET s == SessionOf[r]
        a == wanted[r]
    IN /\ putter[r].st = "append"
       /\ busy' = [busy EXCEPT ![s] = "free"]
       /\ \/ /\ record' = record \cup {<<s, a>>}
             /\ requests' = requests \cup {r}
             /\ index' = [index EXCEPT ![a] = IF @ = NoOwner THEN s ELSE @]
             /\ putter' = [putter EXCEPT ![r] = Off]
             /\ pending' = IF put[r].st = "asked" \/ Linked(r) THEN pending \ {r} ELSE pending
             /\ Answer(r, TRUE)
             /\ UNCHANGED <<object, part, data, slots, mishaps>>
          \/ /\ Mishap /\ Refuse(r)
             /\ Files(IF putter[r].installed THEN [object EXCEPT ![s][a] = 0] ELSE object, part, data)
             /\ pending' = IF Linked(r) THEN pending \ {r} ELSE pending
             /\ UNCHANGED <<record, requests, index>>
       /\ UNCHANGED get

-------------------------------------------------------------------------------
(* Retention.                                                              *)

GcLocked(s) == busy[s] # "free"

\* prune_artifacts: artifact_mutations and the reader map are held from the choice of a
\* record without readers to the unlink; the tombstone comes first.
GcTombstone(s, a) ==
    /\ ~GcLocked(s) /\ <<s, a>> \in record /\ ~Leased(s, a)
    /\ object[s][a] # 0 => Len(data[object[s][a]]) = Chunks
    /\ LET gone == {r \in requests : SessionOf[r] = s /\ wanted[r] = a}
       IN /\ requests' = requests \ gone
          /\ slots' = [slots EXCEPT ![s] = @ - Cardinality(gone)]
    /\ record' = record \ {<<s, a>>}
    /\ busy' = [busy EXCEPT ![s] = a]
    /\ UNCHANGED <<object, part, pending, data, index, putter, put, get, mishaps>>

\* The unlink, which may fail and leave an orphan, and the cached candidate.
GcUnlink(s) ==
    LET a == busy[s]
    IN /\ Collecting(s)
       /\ \/ Files([object EXCEPT ![s][a] = 0], part, data) /\ UNCHANGED mishaps
          \/ Mishap /\ UNCHANGED <<object, part, data>>
       /\ index' = [index EXCEPT ![a] = IF @ = s THEN NoOwner ELSE @]
       /\ busy' = [busy EXCEPT ![s] = "free"]
       /\ UNCHANGED <<pending, record, requests, slots, putter, put, get>>

\* prune_orphan_artifacts: an old object without record or readers.
PruneOrphan(s, a) ==
    /\ ~GcLocked(s) /\ object[s][a] # 0 /\ <<s, a>> \notin record /\ ~Leased(s, a)
    /\ Files([object EXCEPT ![s][a] = 0], part, data)
    /\ UNCHANGED <<pending, record, requests, slots, index, busy, putter, put, get, mishaps>>

\* prune_staging_root on the upload staging: only without a handler for the request.
PruneArtifactStaging(r) ==
    /\ putter[r].st = "off" /\ StagingExists(r)
    /\ Mishap
    /\ pending' = pending \ {r}
    /\ Files(object, [part EXCEPT ![r] = 0], data)
    /\ UNCHANGED <<record, requests, slots, index, busy, putter, put, get>>
-------------------------------------------------------------------------------
(* Readers, and the daemon.                                                *)

\* stream_artifact: lease, record, object; the client asks for what its partial file lacks.
GetBegin(s, a) ==
    /\ get[s].st = "idle" /\ get[s].artifact \in {a, NoOwner}
    /\ s \in Readers /\ ~Collecting(s) /\ <<s, a>> \in record /\ object[s][a] # 0
    /\ get' = [get EXCEPT ![s].st = "reading", ![s].artifact = a]
    /\ UNCHANGED <<object, part, pending, data, record, requests, slots, index, busy, putter, put,
                   mishaps>>

\* download_artifact_with_retry drops its partial file when the artifact is unknown.
GetUnknown(s) ==
    /\ get[s].st = "idle" /\ get[s].artifact # NoOwner
    /\ <<s, get[s].artifact>> \notin record
    /\ get' = [get EXCEPT ![s].artifact = NoOwner, ![s].got = <<>>]
    /\ UNCHANGED <<object, part, pending, data, record, requests, slots, index, busy, putter, put,
                   mishaps>>

\* The client appends a chunk that starts where its partial file ends.
ReceiveArtifactStream(s, chunk) == get' = [get EXCEPT ![s].got = Append(@, chunk)]

GetChunk(s) ==
    LET a == get[s].artifact
        n == Len(get[s].got)
    IN /\ get[s].st = "reading" /\ n < Chunks /\ Len(data[object[s][a]]) > n
       /\ ReceiveArtifactStream(s, data[object[s][a]][n + 1])
       /\ UNCHANGED <<object, part, pending, data, record, requests, slots, index, busy, putter,
                      put, mishaps>>

\* END and the digest of the whole download, or a lost connection: then asp get resumes
\* from the partial file and the agent starts anew.
GetEnd(s) ==
    /\ get[s].st = "reading" /\ Len(get[s].got) = Chunks
    /\ get' = [get EXCEPT ![s].st = "idle", ![s].artifact = NoOwner, ![s].got = <<>>]
    /\ UNCHANGED <<object, part, pending, data, record, requests, slots, index, busy, putter, put,
                   mishaps>>

GetCut(s) ==
    /\ get[s].st = "reading"
    /\ Mishap
    /\ \/ get' = [get EXCEPT ![s].st = "idle"]
       \/ get' = [get EXCEPT ![s] = [st |-> "idle", artifact |-> NoOwner, got |-> <<>>]]
    /\ UNCHANGED <<object, part, pending, data, record, requests, slots, index, busy, putter, put>>

\* The daemon dies and starts again: files and journal stay, the index and the slots are
\* built anew from the records, leases and locks are gone.
ArtifactCrash ==
    /\ Mishap
    /\ putter' = [r \in PutIds |-> Off]
    /\ put' = [r \in PutIds |-> IF put[r].st = "asked" THEN [put[r] EXCEPT !.st = "idle"] ELSE put[r]]
    /\ get' = [s \in Sessions |-> [get[s] EXCEPT !.st = "idle"]]
    /\ busy' = [s \in Sessions |-> "free"]
    /\ slots' = [s \in Sessions |-> others[s] + Cardinality({r \in requests : SessionOf[r] = s})]
    /\ \E owner \in [Artifacts -> Sessions \cup {NoOwner}] :
          /\ \A a \in Artifacts : IF owner[a] = NoOwner
                                  THEN \A s \in Sessions : <<s, a>> \notin record
                                  ELSE <<owner[a], a>> \in record
          /\ index' = owner
    /\ UNCHANGED <<object, part, pending, data, record, requests>>
-------------------------------------------------------------------------------
ArtifactInit ==
    /\ object = [s \in Sessions |-> [a \in Artifacts |-> 0]]
    /\ part = [r \in PutIds |-> 0] /\ pending = {} /\ data = [i \in Inodes |-> <<>>]
    /\ record = {} /\ requests = {}
    /\ wanted \in Plans
    /\ others \in [Sessions -> {0, SlotMax}] /\ slots = others
    /\ index = [a \in Artifacts |-> NoOwner]
    /\ busy = [s \in Sessions |-> "free"]
    /\ putter = [r \in PutIds |-> Off]
    /\ put = [r \in PutIds |-> [st |-> "idle", checkpoint |-> FALSE]]
    /\ get = [s \in Sessions |-> [st |-> "idle", artifact |-> NoOwner, got |-> <<>>]]
    /\ mishaps = 0

ArtifactStep ==
    \/ \E r \in PutIds : \/ ClientPut(r) \/ ClientCut(r) \/ PutBegin(r) \/ DedupLease(r)
                         \/ DedupLink(r) \/ PutOpen(r) \/ PutCut(r) \/ PutEnd(r)
                         \/ CommitArtifact(r) \/ AppendCreated(r) \/ PruneArtifactStaging(r)
                         \/ \E changed \in BOOLEAN : PutChunk(r, changed)
    \/ \E s \in Sessions : \/ GcUnlink(s) \/ GetUnknown(s) \/ GetChunk(s) \/ GetEnd(s) \/ GetCut(s)
                           \/ \E a \in Artifacts : \/ GcTombstone(s, a) \/ PruneOrphan(s, a)
                                                   \/ GetBegin(s, a)
    \/ ArtifactCrash

ArtifactNext == ArtifactStep /\ UNCHANGED <<wanted, others>>
-------------------------------------------------------------------------------
(* Whatever was linked, cut, retried, expired or left behind by a crash: a durable      *)
(* record never points at a missing or altered object, not even one whose inode a       *)
(* staged payload of another session shares; an object under a lease stays; what a      *)
(* reader has received is a prefix of the artifact; and a session's idempotency slots   *)
(* are its request records and the reservations of running uploads, within their limit. *)
ArtifactsIntact ==
    /\ \A s \in Sessions, a \in Artifacts : <<s, a>> \in record \/ Leased(s, a) => Intact(s, a)
    /\ \A s \in Sessions : \A k \in 1 .. Len(get[s].got) : get[s].got[k] = <<get[s].artifact, k>>
    /\ \A s \in Sessions :
          /\ slots[s] = others[s] + Cardinality({r \in requests : SessionOf[r] = s})
                        + Cardinality({r \in PutIds : SessionOf[r] = s /\ putter[r].reserved})
          /\ slots[s] <= SlotMax
===============================================================================
