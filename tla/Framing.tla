------------------------------- MODULE Framing --------------------------------
(***************************************************************************)
(* The frames of aspd's request streams: how a connection's framing is     *)
(* found out from its first frame, what a frame in memory is charged to,   *)
(* and how a response is encoded, charged and written.                     *)
(*                                                                         *)
(* A frame is in one of two modes, "legacy" (v16: the bare message) and    *)
(* "current" (v17: an envelope that names the decoded size).  A client     *)
(* keeps to the mode it negotiated, unless its bounded table of versions   *)
(* has lost the connection.  Sizes count the units of the two semaphores;  *)
(* an awaited read, permit, lock, encoding or write is a step of its own.  *)
(***************************************************************************)
EXTENDS Naturals, FiniteSets, FiniteSetsExt

CONSTANTS
    FrameStreams,   \* request streams
    StreamConn,     \* the connection of each
    FrameKinds,     \* frames: [mode, wire, decoded]; decoded is 0 unless compressed
    ReplyKinds,     \* responses: [large, estimate, units]; estimate is 0 unless
                    \* the handler reserved memory before it built the value
    FrameMemory,    \* FRAME_MEMORY_UNITS
    ResponseMemory, \* RESPONSE_MEMORY_UNITS
    ByteBudget,     \* principal_response_bytes_limit, in units
    MaxFrames       \* bound: frames read from one stream

(* A frame is in one of the two modes, of which the legacy one does not compress, and
   sizes are natural numbers. *)
ASSUME FramingAssumption ==
    /\ \A f \in FrameKinds : f.mode = "legacy" => f.decoded = 0
    /\ FrameKinds \subseteq [mode : {"legacy", "current"}, wire : Nat, decoded : Nat]
    /\ ReplyKinds \subseteq [large : BOOLEAN, estimate : Nat, units : Nat]

VARIABLES
    mode,      \* frame_mode of each connection
    fs,        \* the task of each stream
    gate,      \* response_encode_gate: who holds it
    exhausted, \* budget_exhausted of each connection
    spent      \* response bytes of the principal in this window

framingVars == <<mode, fs, gate, exhausted, spent>>

FrameConns == {StreamConn[s] : s \in FrameStreams}
Unlocked == "unlocked"
NoFrame == [mode |-> "unknown", wire |-> 0, decoded |-> 0]
NoReply == [large |-> FALSE, estimate |-> 0, units |-> 0]

(* `held` are the permits of the frame in hand, `kept` those of the frame that
   began the request, `reserved` those of the response. *)
NewStream == [st |-> "open", frame |-> NoFrame, expected |-> "unknown", need |-> 0,
              held |-> 0, kept |-> 0, frames |-> 0, reply |-> NoReply, reserved |-> 0,
              sent |-> "unknown"]

FramingInit ==
    /\ mode = [c \in FrameConns |-> "unknown"]
    /\ fs = [s \in FrameStreams |-> NewStream]
    /\ gate = Unlocked /\ exhausted = [c \in FrameConns |-> FALSE] /\ spent = 0

Total(F(_)) == MapThenSumSet(F, FrameStreams)
FreeFrameMemory == FrameMemory - Total(LAMBDA s : fs[s].held + fs[s].kept)
FreeResponseMemory == ResponseMemory - Total(LAMBDA s : fs[s].reserved)

(* The task ends, and its permits are free again. *)
Ended(s) == [fs EXCEPT ![s] = [NewStream EXCEPT !.st = "closed"]]

(* negotiated_frame_version: what a response is framed in. *)
NegotiatedFrameVersion(s) ==
    IF mode[StreamConn[s]] = "unknown" THEN "current" ELSE mode[StreamConn[s]]

------------------------------------------------------------------------------
(* read_frame_with_budget *)

(* The length arrives, and the mode is looked up. *)
ReadLength(s, f) ==
    /\ fs[s].st = "open"
    /\ fs' = [fs EXCEPT ![s] = [@ EXCEPT !.st = "length", !.frame = f,
                                         !.expected = mode[StreamConn[s]]]]
    /\ UNCHANGED <<mode, gate, exhausted, spent>>

ChargedOnWire(f, m) == f.wire

(* first_frame_memory_units, and the same sum for later frames: a compressed
   frame is charged for both of its sizes. *)
ChargedUnits(f, m) == IF m = "legacy" THEN f.wire ELSE f.wire + f.decoded

Detected(s) == IF fs[s].expected = "unknown" THEN fs[s].frame.mode ELSE fs[s].expected

(* The prefix, or the envelope, says what to charge; an envelope without its
   marker is an error. *)
ReadPrefix(s) ==
    /\ fs[s].st = "length"
    /\ fs' = IF fs[s].expected = "current" /\ fs[s].frame.mode # "current"
             THEN Ended(s)
             ELSE [fs EXCEPT ![s] = [@ EXCEPT !.st = "waiting",
                                       !.need = ChargedUnits(fs[s].frame, Detected(s))]]
    /\ UNCHANGED <<mode, gate, exhausted, spent>>

AcquireFrameMemory(s) ==
    /\ fs[s].st = "waiting" /\ fs[s].need <= FreeFrameMemory
    /\ fs' = [fs EXCEPT ![s] = [@ EXCEPT !.st = "body", !.need = 0,
                                         !.held = fs[s].need]]
    /\ UNCHANGED <<mode, gate, exhausted, spent>>

(* FRAME_MEMORY_WAIT is over: server_busy.  The semaphore serves its waiters in
   turn, so this may happen although the units are there. *)
FrameMemoryTimeout(s) ==
    /\ fs[s].st = "waiting"
    /\ fs' = Ended(s)
    /\ UNCHANGED <<mode, gate, exhausted, spent>>

StoredMode(c, s) == fs[s].frame.mode

(* compare_exchange: the first body read pins the mode. *)
PinnedMode(c, s) == IF mode[c] = "unknown" THEN fs[s].frame.mode ELSE mode[c]

(* The body is complete.  Another stream may have pinned the other mode while
   this one was being read. *)
ReadBody(s) ==
    LET c == StreamConn[s] IN
    /\ fs[s].st = "body"
    /\ IF fs[s].expected = "unknown"
       THEN /\ mode' = [mode EXCEPT ![c] = PinnedMode(c, s)]
            /\ fs' = IF mode'[c] = fs[s].frame.mode
                     THEN [fs EXCEPT ![s].st = "decoding"] ELSE Ended(s)
       ELSE UNCHANGED mode /\ fs' = [fs EXCEPT ![s].st = "decoding"]
    /\ UNCHANGED <<gate, exhausted, spent>>

(* decode_request_frame_off_reactor, in the mode expected or detected. *)
DecodeRequest(s) ==
    /\ fs[s].st = "decoding"
    /\ fs' = IF fs[s].frame.mode = Detected(s)
             THEN [fs EXCEPT ![s] = [@ EXCEPT !.st = "handling", !.frames = fs[s].frames + 1]]
             ELSE Ended(s)
    /\ UNCHANGED <<mode, gate, exhausted, spent>>

(* An upload reads its next frame: the permit of the frame that began the
   request stays until the handler returns, that of a chunk does not. *)
ReadMore(s) ==
    /\ fs[s].st = "handling" /\ fs[s].frames < MaxFrames
    /\ fs' = [fs EXCEPT ![s] = [@ EXCEPT !.st = "open", !.held = 0,
                                  !.kept = IF fs[s].frames = 1 THEN fs[s].held
                                          ELSE fs[s].kept]]
    /\ UNCHANGED <<mode, gate, exhausted, spent>>

(* The peer resets the stream, or is slower than the read and write deadlines
   allow. *)
PeerStalls(s) ==
    /\ fs[s].st \in {"length", "body", "writing"}
    /\ fs' = Ended(s)
    /\ UNCHANGED <<mode, gate, exhausted, spent>>

------------------------------------------------------------------------------
(* write_frame and write_frame_with_permit *)

(* The handler has its response; a workspace query has reserved memory for it,
   or given up. *)
Answer(s, r) ==
    /\ fs[s].st = "handling"
    /\ fs' = IF r.estimate <= FreeResponseMemory
             THEN [fs EXCEPT ![s] = [@ EXCEPT !.st = "answering", !.reply = r,
                                              !.reserved = r.estimate]]
             ELSE Ended(s)
    /\ UNCHANGED <<mode, gate, exhausted, spent>>

BudgetExhausted(s) ==
    /\ fs[s].st = "answering" /\ exhausted[StreamConn[s]]
    /\ fs' = Ended(s)
    /\ UNCHANGED <<mode, gate, exhausted, spent>>

(* A large response is encoded under the gate. *)
Encode(s) ==
    /\ fs[s].st = "answering" /\ ~exhausted[StreamConn[s]]
    /\ IF fs[s].reply.large THEN gate = Unlocked /\ gate' = s ELSE UNCHANGED gate
    /\ fs' = [fs EXCEPT ![s] = [@ EXCEPT !.st = "encoding",
                                         !.sent = NegotiatedFrameVersion(s)]]
    /\ UNCHANGED <<mode, exhausted, spent>>

(* The guard is dropped with the block that encodes. *)
Encoded(s) ==
    /\ fs[s].st = "encoding"
    /\ gate' = (IF gate = s THEN Unlocked ELSE gate) /\ fs' = [fs EXCEPT ![s].st = "charging"]
    /\ UNCHANGED <<mode, exhausted, spent>>

(* What the payload needs beyond the permits reserved for it. *)
TopUp(s) == IF fs[s].reply.units > fs[s].reserved THEN fs[s].reply.units - fs[s].reserved ELSE 0

ResponseMemoryTimeout(s) ==
    /\ fs[s].st = "charging" /\ TopUp(s) > 0
    /\ fs' = Ended(s)
    /\ UNCHANGED <<mode, gate, exhausted, spent>>

(* Memory first, then admit_response_bytes: a principal over its budget gets
   one error, and nothing more on this connection. *)
Charge(s) ==
    /\ fs[s].st = "charging" /\ TopUp(s) <= FreeResponseMemory
    /\ IF spent + fs[s].reply.units <= ByteBudget
       THEN /\ spent' = spent + fs[s].reply.units
            /\ fs' = [fs EXCEPT ![s] = [@ EXCEPT !.st = "writing",
                                          !.reserved = fs[s].reserved + TopUp(s)]]
            /\ UNCHANGED exhausted
       ELSE /\ exhausted' = [exhausted EXCEPT ![StreamConn[s]] = TRUE]
            /\ fs' = Ended(s) /\ UNCHANGED spent
    /\ UNCHANGED <<mode, gate>>

(* write_encoded_frame *)
Written(s) ==
    /\ fs[s].st = "writing"
    /\ fs' = Ended(s)
    /\ UNCHANGED <<mode, gate, exhausted, spent>>

WindowOver ==
    /\ spent > 0 /\ spent' = 0
    /\ UNCHANGED <<mode, fs, gate, exhausted>>

FramingNext ==
    \/ WindowOver
    \/ \E s \in FrameStreams :
         \/ ReadPrefix(s) \/ AcquireFrameMemory(s) \/ FrameMemoryTimeout(s) \/ ReadBody(s)
         \/ DecodeRequest(s) \/ ReadMore(s) \/ PeerStalls(s) \/ BudgetExhausted(s)
         \/ Encode(s) \/ Encoded(s) \/ ResponseMemoryTimeout(s) \/ Charge(s) \/ Written(s)
         \/ \E f \in FrameKinds : ReadLength(s, f)
         \/ \E r \in ReplyKinds : Answer(s, r)

FramingSpec == FramingInit /\ [][FramingNext]_framingVars

------------------------------------------------------------------------------
Accepted == {"handling", "answering", "encoding", "charging", "writing"}

(* "Every later stream follows the same mode": requests that are handled on one
   connection were all framed the same way, also when several first frames
   were being read at once, and their responses are framed that way too. *)
OneMode ==
    \A s \in FrameStreams : fs[s].st \in Accepted =>
        /\ fs[s].frame.mode = mode[StreamConn[s]]
        /\ fs[s].st \in {"encoding", "charging", "writing"} => fs[s].sent = mode[StreamConn[s]]

(* The units a stream's frame takes: its bytes once they are being read, and
   its decoded form while and after it is decoded. *)
Retained(s) ==
    LET f == fs[s].frame
        decoded == fs[s].st \in Accepted \/ (fs[s].st = "decoding" /\ f.mode = Detected(s))
    IN  IF decoded THEN f.wire + f.decoded
        ELSE IF fs[s].st \in {"body", "decoding"} THEN f.wire ELSE 0

(* A request in memory is covered by permits of its own, a payload by response permits. *)
Covered(s) ==
    /\ Retained(s) <= fs[s].held
    /\ fs[s].st = "writing" => fs[s].reply.units <= fs[s].reserved

(* "A set of peers cannot multiply the per-frame ceiling into an unbounded
   allocation": every request in memory is covered by permits of its own, every
   payload being written by response permits, and all permits come out of the
   two semaphores, on every path through timeouts, uploads and top-ups. *)
MemoryCharged ==
    /\ \A s \in FrameStreams : Covered(s)
    /\ Total(LAMBDA s : fs[s].held + fs[s].kept) <= FrameMemory
    /\ Total(LAMBDA s : fs[s].reserved) <= ResponseMemory
==============================================================================
