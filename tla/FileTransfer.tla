----------------------------- MODULE FileTransfer -----------------------------
(***************************************************************************)
(* Streamed uploads and downloads of one workspace file.  An upload        *)
(* carries a request ID that the client keeps in a checkpoint beside its   *)
(* source; the server stages the bytes under that ID, resumes at the       *)
(* length of what it has staged, hashes what passes through it and commits *)
(* once the digest is the declared one.  A download keeps a partial file   *)
(* and the digest it expects beside the destination.  A byte is the pair   *)
(* of the version of the file it was read from and its position, so a      *)
(* file put together from several versions can be told from a whole one.   *)
(* The commit itself is FileTransaction.                                   *)
(***************************************************************************)
EXTENDS Integers, Sequences, TLC

CONSTANTS Size,             \* bytes (chunks) in every version of the file
          Versions,         \* contents the file may have: positive numbers
          SyncBytes,        \* UPLOAD_SYNC_BYTES
          InFlight,         \* chunks the transport holds for a handler
          UploadAttempts,   \* reconnections of upload_file_with_retry
          DownloadAttempts, \* reconnections of download_file_with_retry
          MaxReqs,          \* bound on request IDs
          MaxFaults,        \* bound on lost connections, crashes and failures
          MaxEdits          \* bound on changes of a file under the transfer

VARIABLES
    source,      \* version of the local file being uploaded
    checkpoint,  \* <local>.asp-upload: request ID and digest
    up,          \* the uploading client
    handlers,    \* handle_file_put_stream_inner, one per request stream
    stage,       \* staging directory of each request ID
    stored,      \* durable file response of each request ID: digest
    installs,    \* ghost: contents each request ID put in place
    target,      \* bytes of the remote file
    sidecar,     \* <local>.asp-download.meta: the digest expected
    partial,     \* <local>.asp-download
    local,       \* the downloaded file
    dl,          \* the downloading client
    sending,     \* send_file_stream on the server
    nextReq, faults, edits

uploadVars == <<source, checkpoint, up, handlers, stage, stored, installs, nextReq>>
downloadVars == <<sidecar, partial, local, dl, sending>>
transferVars == <<uploadVars, downloadVars, target, faults, edits>>

Content(v) == [k \in 1 .. Size |-> <<v, k>>]
Torn(bytes, from) == [k \in 1 .. Len(bytes) |-> IF k <= from THEN bytes[k] ELSE <<0, k>>]
Absent == << <<0, 0>> >>
Reqs == 1 .. MaxReqs
Slots == {1, 2}

NoCheckpoint == [req |-> 0, digest |-> 0]
NoStage == [digest |-> 0, part |-> Absent, synced |-> 0]
NoUpload == [st |-> "idle", req |-> 0, digest |-> 0, resume |-> FALSE, attempts |-> 0,
         slot |-> 0, offset |-> 0, reply |-> <<"none">>]
NoHandler == [st |-> "off", req |-> 0, digest |-> 0, resume |-> FALSE, hashed |-> <<>>,
              unsynced |-> 0, inbox |-> <<>>, live |-> FALSE]
NoSending == [st |-> "off", digest |-> <<>>, file |-> <<>>]

Fault == faults < MaxFaults /\ faults' = faults + 1
-------------------------------------------------------------------------------
(* Upload: the client.                                                     *)

\* Both are written to a file of their own, synced and renamed, so they are there or not.
WriteUploadCheckpoint(q, d) == checkpoint' = [req |-> q, digest |-> d]
ClearUploadCheckpoint == checkpoint' = NoCheckpoint

\* upload_file_with_retry up to its loop: digest the source, take the request ID of a
\* checkpoint for the same transfer or write a checkpoint with a new one.
StartUpload ==
    /\ up.st \in {"idle", "done", "failed"}
    /\ LET known == checkpoint.digest = source
       IN /\ known \/ nextReq <= MaxReqs
          /\ IF known THEN UNCHANGED checkpoint ELSE WriteUploadCheckpoint(nextReq, source)
          /\ nextReq' = IF known THEN nextReq ELSE nextReq + 1
          /\ up' = [NoUpload EXCEPT !.st = "open", !.req = checkpoint'.req, !.digest = source,
                                !.resume = known]
    /\ UNCHANGED <<source, handlers, stage, stored, installs, downloadVars, target, faults,
                   edits>>

\* send_file_stream (client) up to the first wait: BEGIN or RESUME_BEGIN on a new stream.
BeginUpload(h) ==
    /\ up.st = "open" /\ handlers[h].st = "off"
    /\ up' = [up EXCEPT !.st = IF up.resume THEN "ready" ELSE "send", !.slot = h,
                        !.offset = 0, !.reply = <<"none">>]
    /\ handlers' = [handlers EXCEPT ![h] =
           [NoHandler EXCEPT !.st = "lock", !.req = up.req, !.digest = up.digest,
                             !.resume = up.resume, !.live = TRUE]]
    /\ UNCHANGED <<source, checkpoint, stage, stored, installs, nextReq, downloadVars, target,
                   faults, edits>>

\* The answer to RESUME_BEGIN: an offset to go on from, the stored answer, or an error.
Ready ==
    /\ up.st = "ready" /\ up.reply[1] = "offset"
    /\ up' = [up EXCEPT !.st = "send", !.offset = up.reply[2], !.reply = <<"none">>]
    /\ UNCHANGED <<source, checkpoint, handlers, stage, stored, installs, nextReq, downloadVars,
                   target, faults, edits>>

\* One turn of the client's send loop.  The chunk is what the source holds now; END
\* follows the last chunk.
SendChunk ==
    /\ up.st = "send" /\ handlers[up.slot].st # "off"
    /\ Len(handlers[up.slot].inbox) < InFlight
    /\ LET last == up.offset = Size
           frame == IF last THEN <<"end">> ELSE <<"chunk", up.offset, <<source, up.offset + 1>>>>
       IN /\ handlers' = [handlers EXCEPT ![up.slot].inbox = Append(@, frame)]
          /\ up' = IF last THEN [up EXCEPT !.st = "await"]
                   ELSE [up EXCEPT !.offset = @ + 1]
    /\ UNCHANGED <<source, checkpoint, stage, stored, installs, nextReq, downloadVars, target,
                   faults, edits>>

\* A response ends the upload and clears the checkpoint, whether it stores the file or
\* refuses it; a refusal of RESUME_BEGIN is an error that is not retried and keeps it.
UploadAnswered ==
    /\ up.st \in {"ready", "send", "await"} /\ up.reply[1] \in {"stored", "error"}
    /\ up' = [up EXCEPT !.st = IF up.reply[1] = "stored" THEN "done" ELSE "failed"]
    /\ IF up.st = "ready" /\ up.reply[1] = "error" THEN UNCHANGED checkpoint
       ELSE ClearUploadCheckpoint
    /\ UNCHANGED <<source, handlers, stage, stored, installs, nextReq, downloadVars, target,
                   faults, edits>>

HangUp == IF up.slot = 0 THEN handlers ELSE [handlers EXCEPT ![up.slot].live = FALSE]

\* The connection is lost, the server is busy, or it closes the stream without an answer:
\* reconnect and resume, at most UploadAttempts times; after that the checkpoint stays for the next
\* invocation.
UploadDisconnected ==
    /\ up.st \in {"open", "ready", "send", "await"}
    /\ IF up.slot # 0 /\ handlers[up.slot].st = "off" /\ up.reply = <<"none">>
       THEN UNCHANGED faults ELSE Fault
    /\ up' = IF up.attempts < UploadAttempts
             THEN [up EXCEPT !.st = "open", !.attempts = @ + 1, !.resume = TRUE, !.slot = 0,
                             !.reply = <<"none">>]
             ELSE [NoUpload EXCEPT !.st = "failed"]
    /\ handlers' = HangUp
    /\ UNCHANGED <<source, checkpoint, stage, stored, installs, nextReq, downloadVars, target,
                   edits>>

\* The client process dies; its checkpoint was written and synced before the first byte.
UploaderDies ==
    /\ up.st \in {"open", "ready", "send", "await"}
    /\ Fault
    /\ up' = NoUpload /\ handlers' = HangUp
    /\ UNCHANGED <<source, checkpoint, stage, stored, installs, nextReq, downloadVars, target,
                   edits>>

\* Someone edits the source, also between the digest and the last chunk.
EditSource(v) ==
    /\ edits < MaxEdits /\ v # source
    /\ source' = v /\ edits' = edits + 1
    /\ UNCHANGED <<checkpoint, up, handlers, stage, stored, installs, nextReq, downloadVars,
                   target, faults>>
-------------------------------------------------------------------------------
(* Upload: the server.                                                     *)

Reply(h, r) == IF handlers[h].live THEN [up EXCEPT !.reply = r] ELSE up

Ends(h) == handlers' = [handlers EXCEPT ![h] = NoHandler]

\* Session::upload_lock: one handler at a time per request ID.
UploadUnlocked(h) == FALSE
UploadLocked(h) ==
    \E g \in Slots \ {h} : handlers[g].st \notin {"off", "lock"}
                           /\ handlers[g].req = handlers[h].req

\* The metadata beside a part belongs to the same body, or there is none.
UploadMetadataMatches(q, d) == stage[q].digest \in {0, d}
RemoveFileUploadStaging(q) == stage' = [stage EXCEPT ![q] = NoStage]

\* The part file a handler starts from: RESUME_BEGIN keeps the staged prefix, BEGIN drops it.
StartPart(h) ==
    LET s == stage[handlers[h].req]
    IN IF handlers[h].resume /\ s.part # Absent THEN s.part ELSE <<>>

\* Under the lock, before the body: a stored request is answered at once; a staging
\* directory of another body, a lack of headroom or of an idempotency slot is refused;
\* otherwise the metadata is written, the part opened, and its prefix hashed.
HandlePutBegin(h) ==
    LET q == handlers[h].req
        d == handlers[h].digest
    IN /\ handlers[h].st = "lock" /\ ~UploadLocked(h)
       /\ \/ /\ q \in DOMAIN stored
             /\ up' = Reply(h, IF stored[q] = d THEN <<"stored">> ELSE <<"error">>)
             /\ Ends(h) /\ UNCHANGED <<stage, faults>>
          \/ /\ q \notin DOMAIN stored
             /\ up' = Reply(h, <<"error">>)
             /\ Ends(h) /\ UNCHANGED stage
             /\ IF UploadMetadataMatches(q, d) THEN Fault ELSE UNCHANGED faults
          \/ /\ q \notin DOMAIN stored /\ UploadMetadataMatches(q, d)
             /\ LET part == StartPart(h)
                IN /\ stage' = [stage EXCEPT ![q] =
                          [digest |-> d, part |-> part,
                           synced |-> IF part = <<>> THEN 0 ELSE stage[q].synced]]
                   /\ handlers' = [handlers EXCEPT ![h].st = "recv", ![h].hashed = part]
                   /\ up' = IF handlers[h].resume THEN Reply(h, <<"offset", Len(part)>>) ELSE up
             /\ UNCHANGED faults
       /\ UNCHANGED <<source, checkpoint, stored, installs, nextReq, downloadVars, target, edits>>

\* The error exit of the upload loop: what was received is synced for a later resume.
UploadFails(h) ==
    /\ stage' = [stage EXCEPT ![handlers[h].req].synced = Len(stage[handlers[h].req].part)]
    /\ up' = Reply(h, <<"error">>)
    /\ Ends(h)

\* FILE_PUT_STREAM_CHUNK: it must start where the last one ended.
HandlePutChunk(h) ==
    LET q == handlers[h].req
        frame == Head(handlers[h].inbox)
        got == Len(handlers[h].hashed)
    IN /\ handlers[h].st = "recv" /\ handlers[h].inbox # <<>> /\ frame[1] = "chunk"
       /\ IF frame[2] # got \/ got = Size THEN UploadFails(h)
          ELSE /\ LET full == handlers[h].unsynced + 1 >= SyncBytes
                  IN /\ handlers' = [handlers EXCEPT
                             ![h].inbox = Tail(@), ![h].hashed = Append(@, frame[3]),
                             ![h].unsynced = IF full THEN 0 ELSE @ + 1]
                     /\ stage' = [stage EXCEPT
                             ![q].part = Append(@, frame[3]),
                             ![q].synced = IF full THEN Len(stage[q].part) + 1 ELSE @]
               /\ UNCHANGED up
       /\ UNCHANGED <<source, checkpoint, stored, installs, nextReq, downloadVars, target, faults,
                      edits>>

\* FILE_PUT_STREAM_END: a short body is kept for a resume, a body with another digest is
\* discarded with its staging directory, the right one is synced and goes to its commit.
DigestMatches(h) == handlers[h].hashed = Content(handlers[h].digest)
HandlePutEnd(h) ==
    LET q == handlers[h].req
    IN /\ handlers[h].st = "recv" /\ handlers[h].inbox # <<>>
       /\ Head(handlers[h].inbox) = <<"end">>
       /\ IF Len(handlers[h].hashed) # Size THEN UploadFails(h)
          ELSE IF ~DigestMatches(h)
          THEN RemoveFileUploadStaging(q) /\ up' = Reply(h, <<"error">>) /\ Ends(h)
          ELSE /\ handlers' = [handlers EXCEPT ![h].st = "commit"]
               /\ stage' = [stage EXCEPT ![q].synced = Len(stage[q].part)]
               /\ UNCHANGED up
       /\ UNCHANGED <<source, checkpoint, stored, installs, nextReq, downloadVars, target, faults,
                      edits>>

\* The stream ends before END: the client is gone, a frame timed out, or a budget,
\* headroom or write error stops the loop.
HandlePutCut(h) ==
    /\ handlers[h].st = "recv"
    /\ UploadFails(h)
    /\ IF handlers[h].live THEN Fault ELSE UNCHANGED faults
    /\ UNCHANGED <<source, checkpoint, stored, installs, nextReq, downloadVars, target, edits>>

\* commit_stream_file: the part replaces the file and the response is recorded, or the
\* transaction is refused (a changed base, a journal error) and the part removed.
CommitStreamFile(h) ==
    LET q == handlers[h].req
    IN /\ handlers[h].st = "commit"
       /\ \/ /\ target' = stage[q].part
             /\ installs' = [installs EXCEPT ![q] = Append(@, stage[q].part)]
             /\ stored' = (q :> handlers[h].digest) @@ stored
             /\ handlers' = [handlers EXCEPT ![h].st = "committed"]
             /\ stage' = [stage EXCEPT ![q].part = Absent, ![q].synced = 0]
             /\ UNCHANGED <<up, faults>>
          \/ /\ Fault
             /\ stage' = [stage EXCEPT ![q].part = Absent, ![q].synced = 0]
             /\ up' = Reply(h, <<"error">>) /\ Ends(h)
             /\ UNCHANGED <<target, installs, stored>>
       /\ UNCHANGED <<source, checkpoint, nextReq, downloadVars, edits>>

\* The answer, then remove_file_upload_staging.  A write to a stream that is gone ends
\* the handler before the staging directory is removed.
FinishPut(h) ==
    /\ handlers[h].st = "committed"
    /\ up' = Reply(h, <<"stored">>)
    /\ IF handlers[h].live THEN RemoveFileUploadStaging(handlers[h].req) ELSE UNCHANGED stage
    /\ Ends(h)
    /\ UNCHANGED <<source, checkpoint, stored, installs, nextReq, downloadVars, target, faults,
                   edits>>

\* prune_staging_root: an old directory goes unless a handler holds or awaits its lock.
StagingInUse(q) == \E h \in Slots : handlers[h].st # "off" /\ handlers[h].req = q
PruneUploadStaging(q) ==
    /\ stage[q] # NoStage /\ ~StagingInUse(q)
    /\ Fault
    /\ RemoveFileUploadStaging(q)
    /\ UNCHANGED <<source, checkpoint, up, handlers, stored, installs, nextReq, downloadVars,
                   target, edits>>

\* The daemon dies and is started again, or its host loses power: then what was not
\* synced is missing or torn.
DaemonDies(power) ==
    /\ Fault
    /\ handlers' = [h \in Slots |-> NoHandler]
    /\ up' = IF up.reply = <<"none">> THEN up ELSE [up EXCEPT !.reply = <<"none">>]
    /\ \/ UNCHANGED stage
       \/ /\ power
          /\ \/ stage' = [q \in Reqs |-> IF stage[q].part = Absent THEN stage[q]
                              ELSE [stage[q] EXCEPT !.part = SubSeq(@, 1, stage[q].synced)]]
             \/ stage' = [q \in Reqs |-> IF stage[q].part = Absent THEN stage[q]
                              ELSE [stage[q] EXCEPT !.part = Torn(@, stage[q].synced)]]
    /\ sending' = NoSending
    /\ UNCHANGED <<source, checkpoint, stored, installs, nextReq, sidecar, partial, local, dl,
                   target, edits>>
-------------------------------------------------------------------------------
(* Download.                                                               *)

\* Where a download starts: the partial file counts only with its metadata beside it.
Resumable == sidecar # <<>> /\ partial # Absent /\ Len(partial) <= Size

DropSidecars == sidecar' = <<>> /\ partial' = Absent
WriteDownloadCheckpoint(digest) == sidecar' = digest

\* The head of download_file_with_retry's loop, up to the request.
StartDownload ==
    /\ dl.st \in {"idle", "done", "failed", "retry"}
    /\ dl' = [dl EXCEPT !.st = "open", !.attempts = IF dl.st = "retry" THEN @ ELSE 0]
    /\ IF Resumable THEN UNCHANGED <<sidecar, partial>> ELSE DropSidecars
    /\ sending' = NoSending
    /\ UNCHANGED <<uploadVars, local, target, faults, edits>>

\* send_file_stream (server): the whole file is hashed, the header sent, and only then is
\* the file opened to be streamed.
HashForStream ==
    /\ dl.st = "open" /\ sending.st = "off"
    /\ sending' = [NoSending EXCEPT !.st = "hashed", !.digest = target]
    /\ UNCHANGED <<uploadVars, sidecar, partial, local, dl, target, faults, edits>>

OpenForStream ==
    /\ sending.st = "hashed"
    /\ sending' = [sending EXCEPT !.st = "open", !.file = target]
    /\ UNCHANGED <<uploadVars, sidecar, partial, local, dl, target, faults, edits>>

\* FILE_STREAM_BEGIN: a resumed download must be of the digest it began with; the
\* metadata is written before the first byte.
ReceiveBegin ==
    /\ dl.st = "open" /\ sending.st # "off"
    /\ IF sidecar # <<>> /\ sidecar # sending.digest
       THEN dl' = [dl EXCEPT !.st = "failed"] /\ DropSidecars
       ELSE /\ dl' = [dl EXCEPT !.st = "recv",
                                !.offset = IF partial = Absent THEN 0 ELSE Len(partial)]
            /\ WriteDownloadCheckpoint(sending.digest)
            /\ partial' = IF partial = Absent THEN <<>> ELSE partial
    /\ UNCHANGED <<uploadVars, local, sending, target, faults, edits>>

\* A chunk read from the open file and appended to the partial file.
ReceiveChunk ==
    /\ dl.st = "recv" /\ sending.st = "open" /\ Len(partial) < Size
    /\ partial' = Append(partial, sending.file[Len(partial) + 1])
    /\ UNCHANGED <<uploadVars, sidecar, local, dl, sending, target, faults, edits>>

\* Only a range that is the whole file is hashed again while it is streamed; the client
\* hashes the whole partial file before it takes the place of the destination.
StreamVerified == dl.offset = 0 => partial = sending.digest
DownloadVerified == partial = sending.digest
ReceiveEnd ==
    /\ dl.st = "recv" /\ sending.st = "open" /\ Len(partial) = Size
    /\ IF ~StreamVerified
       THEN dl' = [dl EXCEPT !.st = "failed"] /\ DropSidecars /\ UNCHANGED local
       ELSE IF DownloadVerified
       THEN dl' = [dl EXCEPT !.st = "done"] /\ local' = partial /\ DropSidecars
       ELSE dl' = [dl EXCEPT !.st = "failed"] /\ UNCHANGED <<local, sidecar, partial>>
    /\ sending' = NoSending
    /\ UNCHANGED <<uploadVars, target, faults, edits>>

\* The connection is lost: at most DownloadAttempts reconnections; the partial file stays.
DownloadDisconnected ==
    /\ dl.st \in {"open", "recv"}
    /\ Fault
    /\ dl' = IF dl.attempts < DownloadAttempts
             THEN [dl EXCEPT !.st = "retry", !.attempts = @ + 1]
             ELSE [dl EXCEPT !.st = "failed"]
    /\ sending' = NoSending
    /\ UNCHANGED <<uploadVars, sidecar, partial, local, target, edits>>

\* The client dies; or its host loses power, and what was not synced of the partial file
\* is missing or torn, and the metadata, which was synced, is not.
DownloaderDies(power) ==
    /\ dl.st \in {"open", "recv", "retry"}
    /\ Fault
    /\ dl' = [dl EXCEPT !.st = "idle"]
    /\ \/ UNCHANGED partial
       \/ power /\ partial # Absent /\ partial' \in {Absent, Torn(partial, 0)}
    /\ sending' = NoSending
    /\ UNCHANGED <<uploadVars, sidecar, local, target, edits>>

\* The remote file is replaced by a rename, or rewritten where it is, under the stream
\* that has it open.
ChangeTarget(v, inPlace) ==
    /\ edits < MaxEdits /\ target # Content(v)
    /\ target' = Content(v) /\ edits' = edits + 1
    /\ sending' = IF inPlace /\ sending.st = "open" THEN [sending EXCEPT !.file = Content(v)]
                  ELSE sending
    /\ UNCHANGED <<uploadVars, sidecar, partial, local, dl, faults>>
-------------------------------------------------------------------------------
TransferInit ==
    /\ source \in Versions
    /\ checkpoint = NoCheckpoint
    /\ up = NoUpload
    /\ handlers = [h \in Slots |-> NoHandler]
    /\ stage = [q \in Reqs |-> NoStage]
    /\ stored = << >>
    /\ installs = [q \in Reqs |-> <<>>]
    /\ target \in {Content(v) : v \in Versions}
    /\ sidecar = <<>> /\ partial = Absent /\ local = Absent
    /\ dl = [st |-> "idle", attempts |-> 0, offset |-> 0]
    /\ sending = NoSending
    /\ nextReq = 1 /\ faults = 0 /\ edits = 0

UploadNext ==
    \/ StartUpload \/ Ready \/ SendChunk \/ UploadAnswered \/ UploadDisconnected \/ UploaderDies
    \/ \E v \in Versions : EditSource(v)
    \/ \E h \in Slots : \/ BeginUpload(h) \/ HandlePutBegin(h) \/ HandlePutChunk(h)
                        \/ HandlePutEnd(h) \/ HandlePutCut(h) \/ CommitStreamFile(h)
                        \/ FinishPut(h)
    \/ \E q \in Reqs : PruneUploadStaging(q)
    \/ \E power \in BOOLEAN : DaemonDies(power)

DownloadNext ==
    \/ StartDownload \/ HashForStream \/ OpenForStream \/ ReceiveBegin \/ ReceiveChunk
    \/ ReceiveEnd \/ DownloadDisconnected
    \/ \E power \in BOOLEAN : DownloaderDies(power)
    \/ \E v \in Versions, inPlace \in BOOLEAN : ChangeTarget(v, inPlace)
-------------------------------------------------------------------------------
(* A request ID puts at most one content in place, and exactly the one the client        *)
(* declared, whatever stream of it was cut and resumed, whichever handler outlived its   *)
(* client and whatever the source or the staged bytes became; a client that was told     *)
(* the file is stored was told so of a request that installed it.  And a downloaded file *)
(* is the whole of one version the remote file had: never a prefix of one and the rest   *)
(* of another, nor bytes a crash of the client left in the partial file.                 *)
TransferExact ==
    /\ \A q \in Reqs :
          /\ Len(installs[q]) <= 1
          /\ q \in DOMAIN stored <=> installs[q] # <<>>
          /\ q \in DOMAIN stored => installs[q] = <<Content(stored[q])>>
    /\ up.st = "done" => up.req \in DOMAIN stored /\ stored[up.req] = up.digest
    /\ local # Absent => local \in {Content(v) : v \in Versions}
===============================================================================
