---------------------------- MODULE FramingProofs -----------------------------
(***************************************************************************)
(* Both ends of a connection's framing.  At the daemon: OneMode, and the   *)
(* part of MemoryCharged that is about one stream, for any number of       *)
(* connections, streams and frames.  At the client: FramesAgree for any    *)
(* number of tasks, daemons, connection IDs and any size of the table.     *)
(***************************************************************************)
EXTENDS Framing, Negotiation, TLAPS

Modes == {"unknown", "legacy", "current"}
States == {"open", "length", "waiting", "body", "decoding", "closed"} \cup Accepted
Replying == {"encoding", "charging", "writing"}

FrameType == [mode : Modes, wire : Nat, decoded : Nat]
ReplyType == [large : BOOLEAN, estimate : Nat, units : Nat]
StreamType ==
    [st : States, frame : FrameType, expected : Modes, need : Nat, held : Nat, kept : Nat,
     frames : Nat, reply : ReplyType, reserved : Nat, sent : Modes]

Types ==
    /\ mode \in [FrameConns -> Modes]
    /\ fs \in [FrameStreams -> StreamType]
    /\ spent \in Nat

(* Where a stream stands, given the mode m its connection is pinned to: a mode that
   was found pinned is the pinned one, a first frame that is being decoded has
   pinned it or agrees with it, and so does a frame that was accepted. *)
Follows(r, m) ==
    /\ r.expected # "unknown" => r.expected = m
    /\ r.st \notin {"open", "closed"} => r.frame.mode # "unknown"
    /\ r.st = "decoding" /\ r.expected = "unknown" => r.frame.mode = m
    /\ r.st \in Accepted => r.frame.mode = m
    /\ r.st \in Replying => r.sent = m

FInv == Types /\ \A s \in FrameStreams : Follows(fs[s], mode[StreamConn[s]])

(* A step of one stream that leaves the modes alone keeps the invariant if it keeps it
   for that stream. *)
LEMMA OneStream ==
    ASSUME FInv, NEW s \in FrameStreams, NEW r \in StreamType,
           fs' = [fs EXCEPT ![s] = r], UNCHANGED mode, spent' \in Nat,
           Follows(r, mode[StreamConn[s]])
    PROVE  FInv'
  BY DEF FInv, Types, Follows

(* A task that has ended says nothing about the mode. *)
LEMMA EndedStream ==
    ASSUME FInv, NEW s \in FrameStreams, fs' = Ended(s), UNCHANGED mode, spent' \in Nat
    PROVE  FInv'
<1> DEFINE r == [NewStream EXCEPT !.st = "closed"]
<1>1. r \in StreamType /\ Follows(r, mode[StreamConn[s]])
  BY Zenon DEF StreamType, FrameType, ReplyType, Follows, NewStream, NoFrame, NoReply, Modes, States, Accepted, Replying
<1> QED
  BY <1>1, OneStream, Zenon DEF Ended

(* The facts of the invariant about one stream. *)
LEMMA StreamFacts ==
    ASSUME FInv, NEW s \in FrameStreams
    PROVE  /\ fs[s] \in StreamType
           /\ StreamConn[s] \in FrameConns
           /\ mode[StreamConn[s]] \in Modes
           /\ Follows(fs[s], mode[StreamConn[s]])
           /\ DOMAIN fs = FrameStreams
  BY DEF FInv, Types, FrameConns

(* Reading a frame up to its body. *)
LEMMA ReadingKeeps ==
    ASSUME FInv, NEW s \in FrameStreams,
           \/ \E f \in FrameKinds : ReadLength(s, f)
           \/ ReadPrefix(s) \/ AcquireFrameMemory(s) \/ FrameMemoryTimeout(s)
    PROVE  FInv'
<1> DEFINE m == mode[StreamConn[s]]
<1>0. fs[s] \in StreamType /\ m \in Modes /\ Follows(fs[s], m) /\ spent \in Nat
  BY StreamFacts DEF FInv, Types
<1>1. ASSUME NEW f \in FrameKinds, ReadLength(s, f) PROVE FInv'
  <2> DEFINE r == [fs[s] EXCEPT !.st = "length", !.frame = f, !.expected = m]
  <2>1. f \in FrameType /\ f.mode # "unknown"
    BY FramingAssumption DEF FrameType, Modes
  <2>2. r \in StreamType
    BY <1>0, <2>1, Zenon DEF StreamType, States
  <2>3. r.st = "length" /\ r.frame = f /\ r.expected = m
    BY <1>0 DEF StreamType
  <2>4. Follows(r, m)
    BY <2>1, <2>3 DEF Follows, Accepted, Replying
  <2> QED
    BY <1>0, <1>1, <2>2, <2>4, OneStream, Zenon DEF ReadLength
<1>2. CASE ReadPrefix(s)
  <2> DEFINE need == ChargedUnits(fs[s].frame, Detected(s))
             r == [fs[s] EXCEPT !.st = "waiting", !.need = need]
  <2>1. need \in Nat
    BY <1>0 DEF ChargedUnits, StreamType, FrameType
  <2>2. r \in StreamType
    BY <1>0, <2>1, Zenon DEF StreamType, States
  <2>3. r.st = "waiting" /\ r.frame = fs[s].frame /\ r.expected = fs[s].expected
    BY <1>0 DEF StreamType
  <2>4. Follows(r, m)
    BY <1>0, <1>2, <2>3 DEF ReadPrefix, Follows, Accepted, Replying
  <2>5. CASE fs' = Ended(s)
    BY <1>0, <1>2, <2>5, EndedStream DEF ReadPrefix
  <2>6. CASE fs' = [fs EXCEPT ![s] = r]
    BY <1>0, <1>2, <2>2, <2>4, <2>6, OneStream, Zenon DEF ReadPrefix
  <2> QED
    BY <1>2, <2>5, <2>6 DEF ReadPrefix
<1>3. CASE AcquireFrameMemory(s)
  <2> DEFINE r == [fs[s] EXCEPT !.st = "body", !.need = 0, !.held = fs[s].need]
  <2>1. r \in StreamType
    BY <1>0, Zenon DEF StreamType, States
  <2>2. r.st = "body" /\ r.frame = fs[s].frame /\ r.expected = fs[s].expected
    BY <1>0 DEF StreamType
  <2>3. Follows(r, m)
    BY <1>0, <1>3, <2>2 DEF AcquireFrameMemory, Follows, Accepted, Replying
  <2> QED
    BY <1>0, <1>3, <2>1, <2>3, OneStream, Zenon DEF AcquireFrameMemory
<1>4. CASE FrameMemoryTimeout(s)
  BY <1>0, <1>4, EndedStream DEF FrameMemoryTimeout
<1> QED
  BY <1>1, <1>2, <1>3, <1>4

(* The body: the only step that pins a mode.  Streams that found another one pinned
   are not affected, for then it was not unknown. *)
LEMMA BodyKeeps ==
    ASSUME FInv, NEW s \in FrameStreams, ReadBody(s)
    PROVE  FInv'
<1> DEFINE c == StreamConn[s]
           r == [fs[s] EXCEPT !.st = "decoding"]
<1>0. /\ spent' \in Nat /\ fs[s].st = "body"
      /\ fs[s] \in StreamType /\ c \in FrameConns /\ mode[c] \in Modes
      /\ Follows(fs[s], mode[c])
  BY StreamFacts DEF FInv, Types, ReadBody
<1>1. CASE fs[s].expected # "unknown"
  <2>1. r \in StreamType /\ Follows(r, mode[c])
    BY <1>0, <1>1 DEF StreamType, Follows, States, Accepted, Replying
  <2> QED
    BY <1>0, <1>1, <2>1, OneStream DEF ReadBody
<1>2. CASE fs[s].expected = "unknown" /\ mode[c] # "unknown"
  <2>1. UNCHANGED mode
    BY <1>0, <1>2 DEF ReadBody, PinnedMode, FInv, Types
  <2>2. CASE mode[c] = fs[s].frame.mode
    <3>1. r \in StreamType /\ Follows(r, mode[c])
      BY <1>0, <1>2, <2>2 DEF StreamType, Follows, States, Accepted, Replying
    <3> QED
      BY <1>0, <1>2, <2>1, <2>2, <3>1, OneStream DEF ReadBody
  <2>3. CASE mode[c] # fs[s].frame.mode
    BY <1>0, <1>2, <2>1, <2>3, EndedStream DEF ReadBody
  <2> QED
    BY <2>2, <2>3
<1>3. CASE fs[s].expected = "unknown" /\ mode[c] = "unknown"
  <2> DEFINE m == fs[s].frame.mode
  <2>1. mode' = [mode EXCEPT ![c] = m]
    BY <1>3 DEF ReadBody, PinnedMode
  <2>2. m \in Modes /\ m # "unknown"
    <3>1. fs[s].frame \in FrameType
      BY <1>0 DEF StreamType
    <3>2. m \in Modes
      BY <3>1 DEF FrameType
    <3> QED
      BY <1>0, <3>2 DEF Follows
  <2>3. mode'[c] = m
    BY <1>0, <2>1 DEF FInv, Types
  <2>4. fs' = [fs EXCEPT ![s] = r]
    BY <1>3, <2>3 DEF ReadBody
  <2>5. r \in StreamType /\ Follows(r, m)
    BY <1>0, <1>3 DEF StreamType, Follows, States, Accepted, Replying
  <2>6. ASSUME NEW t \in FrameStreams, t # s PROVE Follows(fs[t], mode'[StreamConn[t]])
    <3>1. CASE StreamConn[t] # c
      BY <2>1, <3>1, StreamFacts DEF FInv, Types
    <3>2. CASE StreamConn[t] = c
      <4>1. Follows(fs[t], "unknown") /\ mode'[c] = m /\ fs[t] \in StreamType
        BY <1>3, <2>1, <3>2, StreamFacts DEF FInv, Types
      <4> QED
        BY <3>2, <4>1 DEF Follows, StreamType, Accepted, Replying, States
    <3> QED
      BY <3>1, <3>2
  <2> QED
    BY <1>0, <2>1, <2>2, <2>3, <2>4, <2>5, <2>6 DEF FInv, Types
<1> QED
  BY <1>1, <1>2, <1>3

(* Decoding, and reading another frame of the same request. *)
LEMMA RequestKeeps ==
    ASSUME FInv, NEW s \in FrameStreams, DecodeRequest(s) \/ ReadMore(s) \/ PeerStalls(s)
    PROVE  FInv'
<1> DEFINE m == mode[StreamConn[s]]
<1>0. fs[s] \in StreamType /\ m \in Modes /\ Follows(fs[s], m) /\ spent \in Nat
  BY StreamFacts DEF FInv, Types
<1>1. CASE DecodeRequest(s)
  <2> DEFINE r == [fs[s] EXCEPT !.st = "handling", !.frames = fs[s].frames + 1]
  <2>1. CASE fs[s].frame.mode = Detected(s)
    <3>0. fs[s].frames + 1 \in Nat
      BY <1>0 DEF StreamType
    <3>1. r \in StreamType
      BY <1>0, <3>0, Zenon DEF StreamType, States, Accepted
    <3>2. r.st = "handling" /\ r.frame = fs[s].frame /\ r.expected = fs[s].expected
      BY <1>0 DEF StreamType
    <3>3. Follows(r, m)
      BY <1>0, <1>1, <2>1, <3>2 DEF DecodeRequest, Detected, Follows, Replying
    <3>4. fs' = [fs EXCEPT ![s] = r]
      BY <1>1, <2>1 DEF DecodeRequest
    <3> QED
      BY <1>0, <1>1, <3>1, <3>3, <3>4, OneStream, Zenon DEF DecodeRequest
  <2>2. CASE fs[s].frame.mode # Detected(s)
    BY <1>0, <1>1, <2>2, EndedStream DEF DecodeRequest
  <2> QED
    BY <2>1, <2>2
<1>2. CASE ReadMore(s)
  <2> DEFINE kept == IF fs[s].frames = 1 THEN fs[s].held ELSE fs[s].kept
             r == [fs[s] EXCEPT !.st = "open", !.held = 0, !.kept = kept]
  <2>1. kept \in Nat
    BY <1>0 DEF StreamType
  <2>2. r \in StreamType
    BY <1>0, <2>1, Zenon DEF StreamType, States
  <2>3. r.st = "open" /\ r.expected = fs[s].expected
    BY <1>0 DEF StreamType
  <2>4. Follows(r, m)
    BY <1>0, <2>3 DEF Follows, Accepted, Replying
  <2>5. fs' = [fs EXCEPT ![s] = r]
    BY <1>2 DEF ReadMore
  <2> QED
    BY <1>0, <1>2, <2>2, <2>4, <2>5, OneStream, Zenon DEF ReadMore
<1>3. CASE PeerStalls(s)
  BY <1>0, <1>3, EndedStream DEF PeerStalls
<1> QED
  BY <1>1, <1>2, <1>3

(* The response. *)
LEMMA ReplyKeeps ==
    ASSUME FInv, NEW s \in FrameStreams,
           \/ \E r \in ReplyKinds : Answer(s, r)
           \/ BudgetExhausted(s) \/ Encode(s) \/ Encoded(s)
           \/ ResponseMemoryTimeout(s) \/ Charge(s) \/ Written(s)
    PROVE  FInv'
<1> DEFINE m == mode[StreamConn[s]]
<1>0. fs[s] \in StreamType /\ m \in Modes /\ Follows(fs[s], m) /\ spent \in Nat
  BY StreamFacts DEF FInv, Types
<1>1. ASSUME NEW a \in ReplyKinds, Answer(s, a) PROVE FInv'
  <2> DEFINE r == [fs[s] EXCEPT !.st = "answering", !.reply = a, !.reserved = a.estimate]
  <2>1. a \in ReplyType /\ a.estimate \in Nat
    BY FramingAssumption DEF ReplyType
  <2>2. r \in StreamType
    BY <1>0, <2>1, Zenon DEF StreamType, States, Accepted
  <2>3. r.st = "answering" /\ r.frame = fs[s].frame /\ r.expected = fs[s].expected
    BY <1>0 DEF StreamType
  <2>4. Follows(r, m)
    BY <1>0, <1>1, <2>3, Zenon DEF Answer, Follows, Accepted, Replying
  <2>5. CASE fs' = Ended(s)
    BY <1>0, <1>1, <2>5, EndedStream, Zenon DEF Answer
  <2>6. CASE fs' = [fs EXCEPT ![s] = r]
    BY <1>0, <1>1, <2>2, <2>4, <2>6, OneStream, Zenon DEF Answer
  <2> QED
    BY <1>1, <2>5, <2>6, Zenon DEF Answer
<1>2. CASE BudgetExhausted(s) \/ ResponseMemoryTimeout(s) \/ Written(s)
  BY <1>0, <1>2, EndedStream DEF BudgetExhausted, ResponseMemoryTimeout, Written
<1>3. CASE Encode(s)
  <2> DEFINE v == NegotiatedFrameVersion(s)
             r == [fs[s] EXCEPT !.st = "encoding", !.sent = v]
  <2>1. m # "unknown" /\ v = m
    BY <1>0, <1>3 DEF Encode, NegotiatedFrameVersion, Follows, Accepted
  <2>2. r \in StreamType
    BY <1>0, <2>1, Zenon DEF StreamType, States, Accepted
  <2>3. r.st = "encoding" /\ r.frame = fs[s].frame /\ r.expected = fs[s].expected /\ r.sent = v
    BY <1>0 DEF StreamType
  <2>4. Follows(r, m)
    BY <1>0, <1>3, <2>1, <2>3 DEF Encode, Follows, Accepted
  <2> QED
    BY <1>0, <1>3, <2>2, <2>4, OneStream, Zenon DEF Encode
<1>4. CASE Encoded(s)
  <2> DEFINE r == [fs[s] EXCEPT !.st = "charging"]
  <2>1. r \in StreamType
    BY <1>0 DEF StreamType, States, Accepted
  <2>2. /\ r.st = "charging" /\ r.frame = fs[s].frame /\ r.expected = fs[s].expected
        /\ r.sent = fs[s].sent
    BY <1>0 DEF StreamType
  <2>3. Follows(r, m)
    BY <1>0, <1>4, <2>2 DEF Encoded, Follows, Accepted, Replying
  <2> QED
    BY <1>0, <1>4, <2>1, <2>3, OneStream, Zenon DEF Encoded
<1>5. CASE Charge(s)
  <2> DEFINE n == fs[s].reserved + TopUp(s)
             r == [fs[s] EXCEPT !.st = "writing", !.reserved = n]
  <2>1. n \in Nat /\ fs[s].reply.units \in Nat
    BY <1>0 DEF TopUp, StreamType, ReplyType
  <2>2. r \in StreamType
    BY <1>0, <2>1, Zenon DEF StreamType, States, Accepted
  <2>3. /\ r.st = "writing" /\ r.frame = fs[s].frame /\ r.expected = fs[s].expected
        /\ r.sent = fs[s].sent
    BY <1>0 DEF StreamType
  <2>4. Follows(r, m)
    BY <1>0, <1>5, <2>3 DEF Charge, Follows, Accepted, Replying
  <2>5. spent' \in Nat /\ UNCHANGED mode /\ (fs' = Ended(s) \/ fs' = [fs EXCEPT ![s] = r])
    BY <1>0, <1>5, <2>1 DEF Charge
  <2> QED
    BY <2>2, <2>4, <2>5, OneStream, EndedStream
<1> QED
  BY <1>1, <1>2, <1>3, <1>4, <1>5

LEMMA FInvInit == FramingInit => FInv
  BY DEF FramingInit, FInv, Types, StreamType, FrameType, ReplyType, Follows, NewStream, NoFrame, NoReply, Modes,
         States, Accepted, Replying

LEMMA FInvNext == FInv /\ [FramingNext]_framingVars => FInv'
<1> SUFFICES ASSUME FInv, [FramingNext]_framingVars PROVE FInv'
  OBVIOUS
<1>1. CASE WindowOver
  BY <1>1 DEF WindowOver, FInv, Types
<1>2. CASE UNCHANGED framingVars
  BY <1>2 DEF framingVars, FInv, Types
<1>3. ASSUME NEW s \in FrameStreams,
             \/ \E f \in FrameKinds : ReadLength(s, f)
             \/ ReadPrefix(s) \/ AcquireFrameMemory(s) \/ FrameMemoryTimeout(s)
      PROVE FInv'
  BY <1>3, ReadingKeeps
<1>4. ASSUME NEW s \in FrameStreams, ReadBody(s) PROVE FInv'
  BY <1>4, BodyKeeps
<1>5. ASSUME NEW s \in FrameStreams, DecodeRequest(s) \/ ReadMore(s) \/ PeerStalls(s)
      PROVE FInv'
  BY <1>5, RequestKeeps
<1>6. ASSUME NEW s \in FrameStreams,
             \/ \E r \in ReplyKinds : Answer(s, r)
             \/ BudgetExhausted(s) \/ Encode(s) \/ Encoded(s)
             \/ ResponseMemoryTimeout(s) \/ Charge(s) \/ Written(s)
      PROVE FInv'
  BY <1>6, ReplyKeeps
<1> QED
  BY <1>1, <1>2, <1>3, <1>4, <1>5, <1>6 DEF FramingNext

(* read_frame_with_budget and write_frame: however many streams of a connection read
   their first frames at once, the requests handled on it were framed in one
   mode, and so are their responses. *)
THEOREM OneModeHolds == FramingSpec => []OneMode
<1>1. FInv => OneMode
  BY DEF FInv, OneMode, Follows, Replying
<1> QED
  BY <1>1, FInvInit, FInvNext, PTL DEF FramingSpec

------------------------------------------------------------------------------
(* Permits *)

(* What the frame of stream r will take once it is decoded, if it is decoded. *)
DetectedIn(r) == IF r.expected = "unknown" THEN r.frame.mode ELSE r.expected
Size(r) == IF r.frame.mode = DetectedIn(r) THEN r.frame.wire + r.frame.decoded ELSE r.frame.wire

(* The charge is for that before the permits are there, and they stay until
   the frame is gone; a payload that is written has its permits. *)
Paid(r) ==
    /\ r.st \notin {"open", "closed"} /\ r.frame.mode = "legacy" => r.frame.decoded = 0
    /\ r.st = "waiting" => Size(r) <= r.need
    /\ r.st \in {"body", "decoding"} \cup Accepted => Size(r) <= r.held
    /\ r.st = "writing" => r.reply.units <= r.reserved

PInv == \A s \in FrameStreams : Paid(fs[s])

LEMMA OnePaid ==
    ASSUME FInv, PInv, NEW s \in FrameStreams, NEW r, fs' = [fs EXCEPT ![s] = r], Paid(r)
    PROVE  PInv'
  BY StreamFacts DEF PInv

LEMMA EndedPaid ==
    ASSUME FInv, PInv, NEW s \in FrameStreams, fs' = Ended(s)
    PROVE  PInv'
<1> DEFINE r == [NewStream EXCEPT !.st = "closed"]
<1>1. r.st = "closed"
  BY DEF NewStream
<1>2. Paid(r)
  BY <1>1 DEF Paid, Accepted
<1> QED
  BY <1>2, OnePaid, Zenon DEF Ended

LEMMA ReadingPaid ==
    ASSUME FInv, PInv, NEW s \in FrameStreams,
           \/ \E f \in FrameKinds : ReadLength(s, f)
           \/ ReadPrefix(s) \/ AcquireFrameMemory(s) \/ ReadBody(s)
    PROVE  PInv'
<1>0. fs[s] \in StreamType /\ Paid(fs[s]) /\ fs[s].frame \in FrameType
  BY StreamFacts DEF PInv, StreamType
<1>1. ASSUME NEW f \in FrameKinds, ReadLength(s, f) PROVE PInv'
  <2> DEFINE r == [fs[s] EXCEPT !.st = "length", !.frame = f, !.expected = mode[StreamConn[s]]]
  <2>1. r.st = "length" /\ r.frame = f
    BY <1>0 DEF StreamType
  <2>2. Paid(r)
    BY <2>1, FramingAssumption DEF Paid, Accepted
  <2> QED
    BY <1>1, <2>2, OnePaid, Zenon DEF ReadLength
<1>2. CASE ReadPrefix(s)
  <2> DEFINE need == ChargedUnits(fs[s].frame, Detected(s))
             r == [fs[s] EXCEPT !.st = "waiting", !.need = need]
  <2>1. /\ r.st = "waiting" /\ r.need = need /\ r.frame = fs[s].frame
        /\ r.expected = fs[s].expected
    BY <1>0 DEF StreamType
  <2>2. DetectedIn(r) = Detected(s)
    BY <2>1 DEF DetectedIn, Detected
  <2>3. r.frame.mode = "legacy" => r.frame.decoded = 0
    BY <1>0, <1>2, <2>1 DEF Paid, ReadPrefix
  <2>4. r.frame.wire \in Nat /\ r.frame.decoded \in Nat
    BY <1>0, <2>1 DEF FrameType
  <2>5. Size(r) <= need
    BY <2>1, <2>2, <2>3, <2>4 DEF Size, ChargedUnits
  <2>6. Paid(r)
    BY <2>1, <2>3, <2>5 DEF Paid, Accepted
  <2>7. fs' = Ended(s) \/ fs' = [fs EXCEPT ![s] = r]
    BY <1>2 DEF ReadPrefix
  <2> QED
    BY <2>6, <2>7, OnePaid, EndedPaid
<1>3. CASE AcquireFrameMemory(s)
  <2> DEFINE r == [fs[s] EXCEPT !.st = "body", !.need = 0, !.held = fs[s].need]
  <2>1. /\ r.st = "body" /\ r.held = fs[s].need /\ r.frame = fs[s].frame
        /\ r.expected = fs[s].expected
    BY <1>0 DEF StreamType
  <2>2. fs[s].st = "waiting" /\ Size(r) = Size(fs[s])
    BY <1>3, <2>1 DEF AcquireFrameMemory, Size, DetectedIn
  <2>3. Paid(r)
    BY <1>0, <2>1, <2>2 DEF Paid
  <2> QED
    BY <1>3, <2>3, OnePaid, Zenon DEF AcquireFrameMemory
<1>4. CASE ReadBody(s)
  <2> DEFINE r == [fs[s] EXCEPT !.st = "decoding"]
  <2>1. /\ r.st = "decoding" /\ r.held = fs[s].held /\ r.frame = fs[s].frame
        /\ r.expected = fs[s].expected
    BY <1>0 DEF StreamType
  <2>2. fs[s].st = "body" /\ Size(r) = Size(fs[s])
    BY <1>4, <2>1 DEF ReadBody, Size, DetectedIn
  <2>3. Paid(r)
    BY <1>0, <2>1, <2>2 DEF Paid, Accepted
  <2>4. fs' = Ended(s) \/ fs' = [fs EXCEPT ![s] = r]
    BY <1>4 DEF ReadBody
  <2> QED
    BY <2>3, <2>4, OnePaid, EndedPaid
<1> QED
  BY <1>1, <1>2, <1>3, <1>4

LEMMA HandlingPaid ==
    ASSUME FInv, PInv, NEW s \in FrameStreams,
           \/ DecodeRequest(s) \/ ReadMore(s)
           \/ \E r \in ReplyKinds : Answer(s, r)
    PROVE  PInv'
<1>0. fs[s] \in StreamType /\ Paid(fs[s])
  BY StreamFacts DEF PInv
<1>1. CASE DecodeRequest(s)
  <2> DEFINE r == [fs[s] EXCEPT !.st = "handling", !.frames = fs[s].frames + 1]
  <2>1. /\ r.st = "handling" /\ r.held = fs[s].held /\ r.frame = fs[s].frame
        /\ r.expected = fs[s].expected
    BY <1>0 DEF StreamType
  <2>2. fs[s].st = "decoding" /\ Size(r) = Size(fs[s])
    BY <1>1, <2>1 DEF DecodeRequest, Size, DetectedIn
  <2>3. Paid(r)
    BY <1>0, <2>1, <2>2 DEF Paid, Accepted
  <2>4. fs' = Ended(s) \/ fs' = [fs EXCEPT ![s] = r]
    BY <1>1 DEF DecodeRequest
  <2> QED
    BY <2>3, <2>4, OnePaid, EndedPaid
<1>2. CASE ReadMore(s)
  <2> DEFINE r == [fs[s] EXCEPT !.st = "open", !.held = 0,
                                !.kept = IF fs[s].frames = 1 THEN fs[s].held ELSE fs[s].kept]
  <2>1. r.st = "open"
    BY <1>0 DEF StreamType
  <2>2. Paid(r)
    BY <2>1 DEF Paid, Accepted
  <2>3. fs' = [fs EXCEPT ![s] = r]
    BY <1>2 DEF ReadMore
  <2> QED
    BY <2>2, <2>3, OnePaid, Zenon
<1>3. ASSUME NEW a \in ReplyKinds, Answer(s, a) PROVE PInv'
  <2> DEFINE r == [fs[s] EXCEPT !.st = "answering", !.reply = a, !.reserved = a.estimate]
  <2>1. /\ r.st = "answering" /\ r.held = fs[s].held /\ r.frame = fs[s].frame
        /\ r.expected = fs[s].expected
    BY <1>0 DEF StreamType
  <2>2. Size(r) = Size(fs[s])
    BY <2>1 DEF Size, DetectedIn
  <2>3. Paid(r)
    <3>1. fs[s].st = "handling"
      BY <1>3, Zenon DEF Answer
    <3> QED
      BY <1>0, <2>1, <2>2, <3>1 DEF Paid, Accepted
  <2>4. fs' = Ended(s) \/ fs' = [fs EXCEPT ![s] = r]
    BY <1>3, Zenon DEF Answer
  <2> QED
    BY <2>3, <2>4, OnePaid, EndedPaid
<1> QED
  BY <1>1, <1>2, <1>3

LEMMA WritingPaid ==
    ASSUME FInv, PInv, NEW s \in FrameStreams, Encode(s) \/ Encoded(s) \/ Charge(s)
    PROVE  PInv'
<1>0. fs[s] \in StreamType /\ Paid(fs[s]) /\ fs[s].reserved \in Nat /\ fs[s].reply.units \in Nat
  BY StreamFacts DEF PInv, StreamType, ReplyType
<1>1. CASE Encode(s)
  <2> DEFINE r == [fs[s] EXCEPT !.st = "encoding", !.sent = NegotiatedFrameVersion(s)]
  <2>1. /\ r.st = "encoding" /\ r.held = fs[s].held /\ r.frame = fs[s].frame
        /\ r.expected = fs[s].expected
    BY <1>0 DEF StreamType
  <2>2. fs[s].st = "answering" /\ Size(r) = Size(fs[s])
    BY <1>1, <2>1 DEF Encode, Size, DetectedIn
  <2>3. Paid(r)
    BY <1>0, <2>1, <2>2 DEF Paid, Accepted
  <2> QED
    BY <1>1, <2>3, OnePaid, Zenon DEF Encode
<1>2. CASE Encoded(s)
  <2> DEFINE r == [fs[s] EXCEPT !.st = "charging"]
  <2>1. /\ r.st = "charging" /\ r.held = fs[s].held /\ r.frame = fs[s].frame
        /\ r.expected = fs[s].expected
    BY <1>0 DEF StreamType
  <2>2. fs[s].st = "encoding" /\ Size(r) = Size(fs[s])
    BY <1>2, <2>1 DEF Encoded, Size, DetectedIn
  <2>3. Paid(r)
    BY <1>0, <2>1, <2>2 DEF Paid, Accepted
  <2> QED
    BY <1>2, <2>3, OnePaid, Zenon DEF Encoded
<1>3. CASE Charge(s)
  <2> DEFINE n == fs[s].reserved + TopUp(s)
             r == [fs[s] EXCEPT !.st = "writing", !.reserved = n]
  <2>1. /\ r.st = "writing" /\ r.held = fs[s].held /\ r.frame = fs[s].frame
        /\ r.expected = fs[s].expected /\ r.reply = fs[s].reply /\ r.reserved = n
    BY <1>0 DEF StreamType
  <2>2. fs[s].st = "charging" /\ Size(r) = Size(fs[s])
    BY <1>3, <2>1 DEF Charge, Size, DetectedIn
  <2>3. fs[s].reply.units <= n
    BY <1>0 DEF TopUp
  <2>4. Paid(r)
    BY <1>0, <2>1, <2>2, <2>3 DEF Paid, Accepted
  <2>5. fs' = Ended(s) \/ fs' = [fs EXCEPT ![s] = r]
    BY <1>3 DEF Charge
  <2> QED
    BY <2>4, <2>5, OnePaid, EndedPaid
<1> QED
  BY <1>1, <1>2, <1>3

(* What the permits have to cover is at most the size that was paid for. *)
LEMMA PaidCovers ==
    ASSUME FInv, PInv, NEW s \in FrameStreams
    PROVE  Covered(s)
<1>0. /\ fs[s] \in StreamType /\ Paid(fs[s]) /\ Follows(fs[s], mode[StreamConn[s]])
      /\ fs[s].frame \in FrameType /\ fs[s].held \in Nat
  BY StreamFacts DEF PInv, StreamType
<1>1. fs[s].frame.wire \in Nat /\ fs[s].frame.decoded \in Nat
  BY <1>0 DEF FrameType
<1>2. DetectedIn(fs[s]) = Detected(s)
  BY DEF DetectedIn, Detected
<1>3. fs[s].st \in Accepted => fs[s].frame.mode = DetectedIn(fs[s])
  BY <1>0 DEF Follows, DetectedIn
<1>4. fs[s].frame.wire <= Size(fs[s])
  BY <1>1 DEF Size
<1>5. Retained(s) <= fs[s].held
  <2>1. CASE fs[s].st \in Accepted
    <3>1. Retained(s) = Size(fs[s])
      BY <1>3, <2>1 DEF Retained, Size, Accepted
    <3> QED
      BY <1>0, <2>1, <3>1 DEF Paid
  <2>2. CASE fs[s].st = "decoding"
    <3>1. Retained(s) = Size(fs[s])
      BY <1>2, <2>2 DEF Retained, Size, Accepted
    <3> QED
      BY <1>0, <2>2, <3>1 DEF Paid
  <2>3. CASE fs[s].st = "body"
    <3>1. Retained(s) = fs[s].frame.wire
      BY <2>3 DEF Retained, Accepted
    <3>2. Size(fs[s]) <= fs[s].held /\ Size(fs[s]) \in Nat
      BY <1>0, <1>1, <2>3 DEF Paid, Size
    <3> QED
      BY <1>0, <1>1, <1>4, <3>1, <3>2
  <2>4. CASE fs[s].st \notin {"body", "decoding"} \cup Accepted
    BY <1>0, <2>4 DEF Retained, Accepted
  <2> QED
    BY <2>1, <2>2, <2>3, <2>4
<1> QED
  BY <1>0, <1>5 DEF Covered, Paid

(* read_frame_with_budget and write_frame_with_permit: on every path, a request in memory
   is covered by the permits its task holds, also while it is expanded,
   and a payload that is written by response permits, however it was estimated. *)
THEOREM PermitsAlwaysCover == FramingSpec => [](\A s \in FrameStreams : Covered(s))
<1> DEFINE Inv == FInv /\ PInv
<1>1. FramingInit => Inv
  <2> SUFFICES ASSUME FramingInit PROVE PInv
    BY FInvInit
  <2>1. \A s \in FrameStreams : fs[s].st = "open"
    BY DEF FramingInit, NewStream
  <2> QED
    BY <2>1 DEF PInv, Paid, Accepted
<1>2. Inv /\ [FramingNext]_framingVars => Inv'
  <2> SUFFICES ASSUME FInv, PInv, [FramingNext]_framingVars PROVE PInv'
    BY FInvNext
  <2>1. CASE WindowOver \/ UNCHANGED framingVars
    BY <2>1 DEF WindowOver, framingVars, PInv
  <2>2. ASSUME NEW s \in FrameStreams,
               \/ FrameMemoryTimeout(s) \/ PeerStalls(s) \/ BudgetExhausted(s)
               \/ ResponseMemoryTimeout(s) \/ Written(s)
        PROVE  PInv'
    BY <2>2, EndedPaid DEF FrameMemoryTimeout, PeerStalls, BudgetExhausted,
                           ResponseMemoryTimeout, Written
  <2>3. ASSUME NEW s \in FrameStreams,
               \/ \E f \in FrameKinds : ReadLength(s, f)
               \/ ReadPrefix(s) \/ AcquireFrameMemory(s) \/ ReadBody(s)
        PROVE  PInv'
    BY <2>3, ReadingPaid
  <2>4. ASSUME NEW s \in FrameStreams,
               \/ DecodeRequest(s) \/ ReadMore(s)
               \/ \E r \in ReplyKinds : Answer(s, r)
        PROVE  PInv'
    BY <2>4, HandlingPaid
  <2>5. ASSUME NEW s \in FrameStreams, Encode(s) \/ Encoded(s) \/ Charge(s) PROVE PInv'
    BY <2>5, WritingPaid
  <2> QED
    BY <2>1, <2>2, <2>3, <2>4, <2>5 DEF FramingNext
<1>3. Inv => \A s \in FrameStreams : Covered(s)
  BY PaidCovers
<1> QED
  BY <1>1, <1>2, <1>3, PTL DEF FramingSpec
-------------------------------------------------------------------------------
(* The client (Negotiation). *)

Versions == {LEGACY, CURRENT}

CallType ==
    [st : {"idle", "racing", "up"}, phase : {"none", "hinted", "current", "fallback"},
     token : Nat, racing : SUBSET Daemons, tries : Nat, link : LinkIds \cup {NoLink},
     trust : Nat]
HintType == [version : Versions \cup {0}, age : Nat, since : Nat]

CallerTypes ==
    /\ accepted \in Nat /\ tokenFile \in Nat
    /\ hint \in HintType
    /\ links \in [LinkIds -> Versions \cup {0}]
    /\ caller \in [Callers -> CallType] /\ DOMAIN frameVersions \subseteq LinkIds

(* What a task has: a connection of its own that its daemon has pinned, whose entry
   in the table, if there is one, says so; and a hint that rests on a recent probe. *)
LinkInv(c) ==
    caller[c].st = "up" =>
        /\ caller[c].link \in LinkIds /\ links[caller[c].link] # 0
        /\ caller[c].link \in DOMAIN frameVersions
             => frameVersions[caller[c].link] = links[caller[c].link]

NInv ==
    /\ CallerTypes
    /\ hint.since <= hint.age
    /\ \A c \in Callers :
         /\ LinkInv(c)
         /\ caller[c].trust <= HintTTL
    /\ \A c, d \in Callers : c # d /\ caller[c].st = "up" /\ caller[d].st = "up"
                              => caller[c].link # caller[d].link

(* A step that gives one task another record, not "up", and leaves the connections alone. *)
LEMMA NotUp ==
    ASSUME NInv, NEW c \in Callers, NEW call \in CallType,
           call.st # "up", call.trust <= HintTTL,
           caller' = [caller EXCEPT ![c] = call],
           hint' \in HintType, hint'.since <= hint'.age,
           UNCHANGED <<accepted, tokenFile, links, frameVersions>>
    PROVE  NInv'
<1>1. caller'[c] = call /\ \A d \in Callers : d # c => caller'[d] = caller[d]
  BY DEF NInv, CallerTypes
<1>2. CallerTypes'
  BY DEF NInv, CallerTypes
<1>3. \A d \in Callers : LinkInv(d)' /\ caller'[d].trust <= HintTTL
  BY <1>1 DEF NInv, LinkInv
<1> QED
  BY <1>1, <1>2, <1>3 DEF NInv

(* The records of calls that are made along the way. *)
LEMMA Records ==
    ASSUME NEW call \in CallType, NEW phase \in {"hinted", "current", "fallback"}
    PROVE  /\ Race(call, phase) \in CallType
           /\ Race(call, phase).st = "racing"
           /\ Race(call, phase).trust = call.trust
  BY Zenon DEF Race, CallType

LEMMA NoCallRecord == NoCall \in CallType /\ NoCall.st = "idle" /\ NoCall.trust = 0
  BY DEF NoCall, CallType

(* An address fails: the race goes on, another begins, or the call is over. *)
LEMMA FailureKeeps ==
    ASSUME NInv, NEW c \in Callers, NEW d \in Daemons, NEW e,
           caller[c].st = "racing", AddressFailed(c, d, caller[c], e)
    PROVE  NInv'
<1> DEFINE call == caller[c]
           smaller == [call EXCEPT !.racing = call.racing \ {d}]
           again == [NoCall EXCEPT !.tries = call.tries + 1]
<1>0. call \in CallType /\ call.trust \in Nat /\ call.trust <= HintTTL /\ HintTTL \in Nat
  BY NegotiationAssumption DEF NInv, CallerTypes, CallType
<1>1. smaller \in CallType /\ smaller.st = "racing" /\ smaller.trust = call.trust
  BY <1>0 DEF CallType
<1>2. again \in CallType /\ again.st = "idle" /\ again.trust = 0
  BY <1>0, NoCallRecord DEF CallType
<1>3. NoHint \in HintType /\ NoHint.since <= NoHint.age
  BY DEF NoHint, HintType
<1>4. hint' \in {hint, NoHint}
  BY Zenon DEF AddressFailed, AttemptFailed
<1>5. hint' \in HintType /\ hint'.since <= hint'.age
  BY <1>3, <1>4 DEF NInv, CallerTypes
<1>6. \E new \in {smaller, again, NoCall, Race(call, "current"), Race(call, "fallback")} :
          caller' = [caller EXCEPT ![c] = new]
  BY Zenon DEF AddressFailed, AttemptFailed
<1>7. PICK new \in {smaller, again, NoCall, Race(call, "current"), Race(call, "fallback")} :
          caller' = [caller EXCEPT ![c] = new]
  BY <1>6, Zenon
<1>8. \A r \in {Race(call, "current"), Race(call, "fallback")} :
          r \in CallType /\ r.st = "racing" /\ r.trust = call.trust
  BY <1>0, Records
<1>9. new \in CallType /\ new.st # "up" /\ new.trust <= HintTTL
  <2> HIDE DEF smaller, again
  <2> QED
    BY <1>0, <1>1, <1>2, <1>7, <1>8, NoCallRecord
<1> QED
  BY <1>5, <1>7, <1>9, NotUp, Zenon DEF AddressFailed

(* HELLO is answered: the new connection's ID was free, so no other task has it, and
   the table says of it what its daemon has pinned; what the table loses to make
   room says nothing wrong. *)
LEMMA AcceptedKeeps ==
    ASSUME NInv, NEW c \in Callers, NEW d \in Daemons, HelloAccepted(c, d)
    PROVE  NInv'
<1> DEFINE v == Version(caller[c].phase)
           call(l) == [NoCall EXCEPT !.st = "up", !.link = l]
<1>1. v \in Versions /\ v # 0
  BY DEF Version, Versions, LEGACY, CURRENT
<1>2. PICK l \in LinkIds : /\ links[l] = 0 /\ links' = [links EXCEPT ![l] = v]
                           /\ frameVersions' \in RememberFrameVersion(l, v)
                           /\ caller' = [caller EXCEPT ![c] = call(l)]
  BY Zenon DEF HelloAccepted
<1>3. call(l) \in CallType /\ call(l).st = "up" /\ call(l).link = l /\ call(l).trust = 0
  BY <1>2, NoCallRecord, Zenon DEF CallType
<1>4. /\ caller'[c] = call(l) /\ \A x \in Callers : x # c => caller'[x] = caller[x]
      /\ links'[l] = v /\ \A k \in LinkIds : k # l => links'[k] = links[k]
  BY <1>2 DEF NInv, CallerTypes
<1>5. /\ DOMAIN frameVersions' \subseteq DOMAIN frameVersions \cup {l}
      /\ frameVersions'[l] = v
      /\ \A k \in DOMAIN frameVersions' : k # l => frameVersions'[k] = frameVersions[k]
  BY <1>2, Zenon DEF RememberFrameVersion, Restrict
<1>6. hint' \in HintType /\ hint'.since <= hint'.age
  BY <1>1 DEF HelloAccepted, UsedHint, Hint, HintType, NInv, CallerTypes
<1>7. CallerTypes'
  BY <1>1, <1>2, <1>3, <1>5, <1>6 DEF HelloAccepted, NInv, CallerTypes
<1>8. \A x \in Callers : x # c /\ caller[x].st = "up" => caller[x].link # l
  BY <1>2 DEF NInv, LinkInv
<1> HIDE DEF v, call
<1>9. LinkInv(c)' /\ caller'[c].trust <= HintTTL
  BY <1>1, <1>3, <1>4, <1>5, NegotiationAssumption DEF LinkInv
<1>10. \A x \in Callers : x # c => LinkInv(x)' /\ caller'[x].trust <= HintTTL
  BY <1>4, <1>5, <1>8 DEF NInv, LinkInv
<1>11. \A x, y \in Callers : x # y /\ caller'[x].st = "up" /\ caller'[y].st = "up"
                              => caller'[x].link # caller'[y].link
  BY <1>3, <1>4, <1>8 DEF NInv
<1> QED
  BY <1>6, <1>7, <1>9, <1>10, <1>11 DEF NInv

LEMMA CloseKeeps ==
    ASSUME NInv, NEW c \in Callers, CloseLink(c)
    PROVE  NInv'
<1> DEFINE l == caller[c].link
<1>1. l \in LinkIds
  BY DEF CloseLink, NInv, LinkInv
<1>2. /\ caller'[c] = NoCall /\ \A x \in Callers : x # c => caller'[x] = caller[x]
      /\ \A k \in LinkIds : k # l => links'[k] = links[k]
  BY <1>1 DEF CloseLink, NInv, CallerTypes
<1>3. CallerTypes'
  BY <1>1, NoCallRecord DEF CloseLink, NInv, CallerTypes
<1>4. \A x \in Callers : x # c /\ caller[x].st = "up" => caller[x].link # l
  BY DEF CloseLink, NInv
<1>5. \A x \in Callers : LinkInv(x)' /\ caller'[x].trust <= HintTTL
  BY <1>2, <1>4, NoCallRecord, NegotiationAssumption DEF CloseLink, NInv, LinkInv
<1> QED
  BY <1>2, <1>3, <1>5, NoCallRecord DEF CloseLink, NInv

(* A call begins; the hint it uses has not run out, and is no older than its probe. *)
LEMMA ConnectKeeps ==
    ASSUME NInv, NEW c \in Callers, ClientConnect(c)
    PROVE  NInv'
<1> DEFINE base == [NoCall EXCEPT !.tries = caller[c].tries]
           race == Race(base, IF LegacyHinted THEN "hinted" ELSE "current")
           trust == IF LegacyHinted THEN hint.since ELSE 0
           call == [race EXCEPT !.token = tokenFile, !.trust = trust]
<1>1. trust \in Nat /\ trust <= HintTTL
  BY NegotiationAssumption DEF LegacyHinted, NInv, CallerTypes, HintType
<1>2. caller[c].tries \in Nat /\ tokenFile \in Nat
  BY DEF NInv, CallerTypes, CallType
<1>3. base \in CallType
  BY <1>2, NoCallRecord DEF CallType
<1>4. race \in CallType /\ race.st = "racing"
  BY <1>3, Records
<1>5. call \in CallType /\ call.st = "racing" /\ call.trust = trust
  BY <1>1, <1>2, <1>4, Zenon DEF CallType
<1>6. hint' \in HintType /\ hint'.since <= hint'.age
  BY DEF ClientConnect, NoHint, HintType, NInv, CallerTypes
<1>7. caller' = [caller EXCEPT ![c] = call]
  BY DEF ClientConnect
<1>8. call.st # "up" /\ call.trust <= HintTTL
  BY <1>1, <1>5
<1>9. UNCHANGED <<accepted, tokenFile, links, frameVersions>>
  BY DEF ClientConnect
<1> HIDE DEF call
<1> QED
  BY <1>5, <1>6, <1>7, <1>8, <1>9, NotUp, Zenon

(* remember_frame_version, cached_server_version: in use, a connection is framed as its
   daemon pinned it, and nobody goes straight to the old version on a probe older
   than the limit. *)
THEOREM FramesAlwaysAgree == NegotiationSpec => []FramesAgree
<1>1. NegotiationInit => NInv
  BY NoCallRecord, NegotiationAssumption
  DEF NegotiationInit, NInv, CallerTypes, LinkInv, NoHint, HintType, Versions
<1>2. NInv /\ [NegotiationNext]_negotiationVars => NInv'
  <2> SUFFICES ASSUME NInv, [NegotiationNext]_negotiationVars PROVE NInv'
    OBVIOUS
  <2>1. CASE Tick
    <3>0. /\ hint \in HintType /\ hint.since \in Nat /\ hint.age \in Nat /\ hint.since <= hint.age
          /\ hint' = [hint EXCEPT !.age = hint.age + 1, !.since = hint.since + 1]
      BY <2>1 DEF Tick, NInv, CallerTypes, HintType
    <3>1. hint' \in HintType
      <4>1. hint.age + 1 \in Nat /\ hint.since + 1 \in Nat
        BY <3>0
      <4> QED
        BY <3>0, <4>1, Zenon DEF HintType
    <3>2. hint'.age = hint.age + 1 /\ hint'.since = hint.since + 1
      BY <3>0 DEF HintType
    <3> QED
      BY <2>1, <3>0, <3>1, <3>2 DEF Tick, NInv, CallerTypes, LinkInv
  <2>2. CASE Rotate \/ NewTokenFile
    BY <2>2 DEF Rotate, NewTokenFile, NInv, CallerTypes, LinkInv
  <2>3. CASE \E d \in Daemons : Upgrade(d)
    BY <2>3 DEF Upgrade, NInv, CallerTypes, LinkInv
  <2>4. ASSUME NEW c \in Callers, NEW d \in Daemons,
               \/ Unreachable(c, d) \/ HelloLost(c, d)
               \/ HelloMismatched(c, d) \/ HelloRefused(c, d)
        PROVE NInv'
    BY <2>4, FailureKeeps, Zenon DEF Unreachable, HelloLost, HelloMismatched, HelloRefused
  <2>5. CASE UNCHANGED negotiationVars
    BY <2>5 DEF negotiationVars, NInv, CallerTypes, LinkInv
  <2> QED
    BY <2>1, <2>2, <2>3, <2>4, <2>5, AcceptedKeeps, CloseKeeps, ConnectKeeps DEF NegotiationNext
<1>3. NInv => FramesAgree
  BY DEF NInv, LinkInv, FramesAgree
<1> QED
  BY <1>1, <1>2, <1>3, PTL DEF NegotiationSpec
===============================================================================
