------------------------------- MODULE Terminal -------------------------------
(***************************************************************************)
(* A durable terminal: the tmux-owned shell, the PTY wrapper of            *)
(* crates/asp-pty, the PTY handler and generation tracker of aspd, and the *)
(* `asp shell` client that attaches, is cut off and attaches again.        *)
(*                                                                         *)
(* A screen is a sequence of rows; a row holds the number of the output    *)
(* chunk that wrote it last, so two different screens are different        *)
(* values.  Every chunk raises the parser's generation by one.  The        *)
(* reliable stream is a pair of queues; datagrams are a set from which any *)
(* may be delivered, in any order, or never.  The plain representation    *)
(* with row deltas (pty_state_delta) is modelled: the rich one differs in       *)
(* having no deltas.  tmux itself is external.                             *)
(***************************************************************************)
EXTENDS Naturals, Sequences, SequencesExt

CONSTANTS
    Heights,          \* window heights a client may have
    RingCapacity,     \* chunks the broadcast channel retains (256)
    DeltaFullInterval,\* PTY_DELTA_FULL_INTERVAL
    Budgets           \* bounds a behaviour may have: records of the output
                      \* chunks, inputs, window changes and breaks allowed

VARIABLES
    shell,    \* [typed, chunks]: inputs that reached the shell, chunks it wrote
    pty,      \* the daemon's PersistentPty
    writers,  \* blocking writes in progress: the one holding the write gate
    journal,  \* [started, generation]: PtyStarted and the last PtyStateAdvanced
    tracker,  \* pending_generation of the tracker task (0: none)
    handler,  \* handle_pty of the current attachment
    requests, \* reliable stream, client to daemon
    frames,   \* reliable stream, daemon to client
    datagrams,\* screen states in flight
    viewer,   \* the asp shell client
    budget    \* what is left of the bounds

terminalVars == <<shell, pty, writers, journal, tracker, handler, requests,
                  frames, datagrams, viewer, budget>>

NoScreen == [generation |-> 0, screen |-> <<>>]
NoPtyHandler == [st |-> "none", rx |-> 0, last |-> NoScreen, since |-> 0,
              pending |-> FALSE, accepted |-> 0]
NoPty == [up |-> FALSE, generation |-> 0, screen |-> <<>>, cache |-> NoScreen,
          unsent |-> FALSE, seen |-> {}]
Gone(epoch) == [st |-> "off", epoch |-> epoch, height |-> 0, newest |-> 0,
                base |-> NoScreen, sequence |-> 0, upTo |-> 0, resized |-> FALSE]

(* A screen of height h: rows are dropped from, or blank rows added to, the
   end. *)
SetSize(screen, h) ==
    [r \in 1..h |-> IF r <= Len(screen) THEN screen[r] ELSE 0]

TerminalInit ==
    /\ shell = [typed |-> <<>>, chunks |-> 0]
    /\ pty = NoPty /\ writers = {}
    /\ journal = [started |-> FALSE, generation |-> 0]
    /\ tracker = 0 /\ handler = NoPtyHandler
    /\ requests = <<>> /\ frames = <<>> /\ datagrams = {}
    /\ viewer = Gone(0)
    /\ budget \in Budgets

------------------------------------------------------------------------------
(* asp-pty *)

(* What the parser holds now; `seen` collects every such state. *)
RichSnapshot(p) == [generation |-> p.generation, screen |-> p.screen]

(* snapshot(): the cached rendering if there is one. *)
Snapshot == IF pty.cache # NoScreen THEN pty.cache ELSE RichSnapshot(pty)

(* A PTY attached to the named tmux session, which is created detached if it
   does not exist; the generation goes on from the one in the journal. *)
SpawnTmux(h) ==
    LET p == [NoPty EXCEPT !.up = TRUE, !.generation = journal.generation,
                           !.screen = SetSize(<<>>, h)]
    IN  [p EXCEPT !.seen = {RichSnapshot(p)}]

Resized(p, h) ==
    LET q == [p EXCEPT !.screen = SetSize(p.screen, h), !.cache = NoScreen]
    IN  [q EXCEPT !.seen = @ \cup {RichSnapshot(q)}]

(* The reader thread takes one chunk: under the state lock it raises the
   generation, feeds the parser and drops the caches. *)
ReadChunk ==
    /\ pty.up /\ ~pty.unsent /\ budget.chunks > 0
    /\ budget' = [budget EXCEPT !.chunks = @ - 1]
    /\ shell' = [shell EXCEPT !.chunks = @ + 1]
    /\ \E r \in DOMAIN pty.screen :
         LET q == [pty EXCEPT !.generation = @ + 1, !.screen[r] = shell.chunks + 1,
                              !.cache = NoScreen, !.unsent = TRUE]
         IN  pty' = [q EXCEPT !.seen = @ \cup {RichSnapshot(q)}]
    /\ UNCHANGED <<writers, journal, tracker, handler, requests, frames,
                   datagrams, viewer>>

(* Then it broadcasts the chunk; the tracker task, a subscriber from the
   start, remembers the generation it finds. *)
BroadcastChunk ==
    /\ pty.unsent
    /\ pty' = [pty EXCEPT !.unsent = FALSE]
    /\ tracker' = pty.generation
    /\ UNCHANGED <<shell, writers, journal, handler, requests, frames, datagrams,
                   viewer, budget>>

(* Chunks broadcast so far. *)
Broadcast == IF pty.unsent THEN shell.chunks - 1 ELSE shell.chunks

(* The tracker's interval: one journal event for the newest generation. *)
PersistGeneration ==
    /\ pty.up /\ tracker > 0
    /\ journal' = [journal EXCEPT !.generation =
                      IF tracker > journal.generation THEN tracker ELSE @]
    /\ tracker' = 0
    /\ UNCHANGED <<shell, pty, writers, handler, requests, frames, datagrams,
                   viewer, budget>>

GateOpen == TRUE

(* write_async: the gate's permit travels with the blocking write, not with
   the handler that waits for it. *)
GateFree == writers = {}

(* A blocking write finishes, whether or not its handler still waits. *)
FinishWrite(input) ==
    /\ pty.up /\ input \in writers
    /\ shell' = [shell EXCEPT !.typed = Append(@, input)]
    /\ writers' = writers \ {input}
    /\ handler' = IF handler.st = "writing" /\ input[1] = viewer.epoch
                  THEN [handler EXCEPT !.st = "live"] ELSE handler
    /\ UNCHANGED <<pty, journal, tracker, requests, frames, datagrams, viewer, budget>>

------------------------------------------------------------------------------
(* The PTY handler of aspd *)

EnsureSessionPty(h) == IF pty.up THEN Resized(pty, h) ELSE SpawnTmux(h)

(* PTY_OPEN: ensure_session_pty under the commit lock, then the snapshot and
   the PTY_READY frame.  The first attachment records PtyStarted. *)
OpenPty ==
    LET p == EnsureSessionPty(viewer.height)
        s == IF p.cache # NoScreen THEN p.cache ELSE RichSnapshot(p)
    IN  /\ handler.st = "none" /\ viewer.st = "opening"
        /\ pty' = [p EXCEPT !.cache = s]
        /\ journal' = [journal EXCEPT !.started = TRUE]
        /\ tracker' = IF pty.up THEN tracker ELSE p.generation
        /\ handler' = [NoPtyHandler EXCEPT !.st = "ready", !.last = s]
        /\ frames' = <<[t |-> "ready", state |-> s, upTo |-> shell.chunks]>>
        /\ UNCHANGED <<shell, writers, requests, datagrams, viewer, budget>>

(* tmux is missing, or neither finds nor creates the session in time. *)
OpenFails ==
    /\ handler.st = "none" /\ viewer.st = "opening" /\ frames = <<>> /\ ~pty.up
    /\ budget.breaks > 0 /\ budget' = [budget EXCEPT !.breaks = @ - 1]
    /\ viewer' = Gone(viewer.epoch)
    /\ UNCHANGED <<shell, pty, writers, journal, tracker, handler, requests,
                   frames, datagrams>>

(* Only now does the handler subscribe to the chunks. *)
Subscribe ==
    /\ handler.st = "ready"
    /\ handler' = [handler EXCEPT !.st = "live", !.rx = Broadcast]
    /\ UNCHANGED <<shell, pty, writers, journal, tracker, requests, frames,
                   datagrams, viewer, budget>>

(* PtyInputSequencer::accept *)
Accept(sequence) ==
    IF sequence = handler.accepted THEN "write"
    ELSE IF sequence < handler.accepted THEN "acknowledge" ELSE "gap"

(* A sequenced input: with the gate free its write starts, and the handler
   waits for it. *)
HandleInput ==
    LET m == Head(requests)
        verdict == Accept(m.input[2])
    IN
    /\ handler.st = "live" /\ requests # <<>> /\ m.t = "input"
    /\ verdict = "write" => GateFree
    /\ requests' = Tail(requests)
    /\ writers' = IF verdict = "write" THEN writers \cup {m.input} ELSE writers
    /\ handler' = CASE verdict = "write" ->
                        [handler EXCEPT !.st = "writing", !.accepted = @ + 1]
                    [] verdict = "acknowledge" -> handler
                    [] verdict = "gap" -> NoPtyHandler
    /\ UNCHANGED <<shell, pty, journal, tracker, frames, datagrams, viewer, budget>>

(* The write, or the wait for the gate, exceeds PTY_INPUT_WRITE_TIMEOUT: the
   handler fails; a write that has started goes on. *)
InputTimesOut ==
    /\ \/ handler.st = "writing"
       \/ /\ handler.st = "live" /\ requests # <<>> /\ Head(requests).t = "input"
          /\ ~GateFree
    /\ handler' = NoPtyHandler
    /\ UNCHANGED <<shell, pty, writers, journal, tracker, requests, frames,
                   datagrams, viewer, budget>>

HandleResize ==
    /\ handler.st = "live" /\ requests # <<>> /\ Head(requests).t = "resize"
    /\ requests' = Tail(requests)
    /\ pty' = Resized(pty, Head(requests).height)
    /\ handler' = [handler EXCEPT !.pending = TRUE]
    /\ UNCHANGED <<shell, writers, journal, tracker, frames, datagrams, viewer, budget>>

(* A revoked credential, an exhausted byte budget or an unexpected message
   ends the handler. *)
HandlerRefuses ==
    /\ handler.st = "live" /\ handler' = NoPtyHandler
    /\ budget.breaks > 0 /\ budget' = [budget EXCEPT !.breaks = @ - 1]
    /\ UNCHANGED <<shell, pty, writers, journal, tracker, requests, frames,
                   datagrams, viewer>>

(* output.recv(): the next chunk, or, when the ring has overwritten it, a
   reliable snapshot and the oldest chunk still retained. *)
ForwardOutput ==
    LET lagged == Broadcast > handler.rx + RingCapacity IN
    /\ handler.st = "live" /\ handler.rx < Broadcast
    /\ IF lagged
       THEN /\ frames' = Append(frames, [t |-> "ready", state |-> Snapshot,
                                         upTo |-> shell.chunks])
            /\ pty' = [pty EXCEPT !.cache = Snapshot]
            /\ handler' = [handler EXCEPT !.rx = Broadcast - RingCapacity,
                              !.last = Snapshot, !.since = 0, !.pending = TRUE]
       ELSE /\ frames' = Append(frames, [t |-> "output", chunk |-> handler.rx + 1,
                                         generation |-> pty.generation])
            /\ handler' = [handler EXCEPT !.rx = @ + 1, !.pending = TRUE]
            /\ UNCHANGED pty
    /\ UNCHANGED <<shell, writers, journal, tracker, requests, datagrams, viewer, budget>>

(* derive_pty_row_deltas *)
RowDeltas(old, new) == {r \in DOMAIN new : old[r] # new[r]}

CanDelta(s) ==
    /\ handler.last # NoScreen
    /\ handler.last.generation < s.generation
    /\ Len(handler.last.screen) = Len(s.screen)
    /\ handler.since < DeltaFullInterval

(* A delta against the last state sent where one is possible and smaller,
   else the full state. *)
StateDatagram(s) ==
    LET rows == RowDeltas(handler.last.screen, s.screen)
    IN  IF CanDelta(s) /\ rows # DOMAIN s.screen
        THEN [t |-> "delta", state |-> s, base |-> handler.last.generation, rows |-> rows]
        ELSE [t |-> "full", state |-> s, base |-> 0, rows |-> {}]

(* The datagram tick. *)
SendState ==
    LET s == Snapshot
        d == StateDatagram(s)
    IN  /\ handler.st = "live" /\ handler.pending
        /\ datagrams' = datagrams \cup {d}
        /\ handler' = [handler EXCEPT !.pending = FALSE, !.last = s,
                          !.since = IF d.t = "delta" THEN @ + 1 ELSE 0]
        /\ pty' = [pty EXCEPT !.cache = s]
        /\ UNCHANGED <<shell, writers, journal, tracker, requests, frames, viewer, budget>>

(* The full state does not fit a datagram, or quinn refuses it. *)
StateSkipped ==
    /\ handler.st = "live" /\ handler.pending
    /\ handler' = [handler EXCEPT !.pending = FALSE, !.last = NoScreen, !.since = 0]
    /\ pty' = [pty EXCEPT !.cache = Snapshot]
    /\ UNCHANGED <<shell, writers, journal, tracker, requests, frames,
                   datagrams, viewer, budget>>

------------------------------------------------------------------------------
(* asp shell *)

(* A connection is up: the client opens a PTY stream, an input epoch of its
   own. *)
RequestPty(h) ==
    /\ viewer.st = "off" /\ handler.st = "none"
    /\ viewer' = [Gone(viewer.epoch + 1) EXCEPT !.st = "opening", !.height = h]
    /\ UNCHANGED <<shell, pty, writers, journal, tracker, handler, requests,
                   frames, datagrams, budget>>

RecordPtyGeneration(generation) == generation > viewer.newest

(* A reliable frame: PTY_READY paints if it is the first or strictly newer,
   PTY_OUTPUT is written as it comes. *)
ReadFrame ==
    LET f == Head(frames)
        paints == viewer.st = "opening" \/ RecordPtyGeneration(f.state.generation)
    IN  /\ frames # <<>> /\ viewer.st \in {"opening", "attached"}
        /\ frames' = Tail(frames)
        /\ viewer' =
             IF f.t = "output"
             THEN [viewer EXCEPT !.upTo = f.chunk,
                     !.newest = IF RecordPtyGeneration(f.generation)
                                THEN f.generation ELSE @]
             ELSE IF paints
             THEN [viewer EXCEPT !.st = "attached", !.newest = f.state.generation,
                                 !.base = f.state, !.upTo = f.upTo]
             ELSE viewer
        /\ UNCHANGED <<shell, pty, writers, journal, tracker, handler, requests,
                       datagrams, budget>>

ApplicableByShape(d) ==
    Len(d.state.screen) = Len(viewer.base.screen)

(* PlainPtyScreenState::apply_delta's conditions. *)
Applicable(d) ==
    /\ d.base = viewer.base.generation
    /\ Len(d.state.screen) = Len(viewer.base.screen)

Patched(d) ==
    [generation |-> d.state.generation,
     screen |-> [r \in DOMAIN d.state.screen |->
                   IF r \in d.rows THEN d.state.screen[r] ELSE viewer.base.screen[r]]]

(* A screen state arrives: a full one if strictly newer, a delta if it fits
   the screen held and is no older than the output. *)
ReadDatagram(d) ==
    LET applies == IF d.t = "full" THEN RecordPtyGeneration(d.state.generation)
                   ELSE d.state.generation >= viewer.newest /\ Applicable(d)
    IN  /\ viewer.st = "attached" /\ d \in datagrams
        /\ datagrams' = datagrams \ {d}
        /\ viewer' = IF ~applies THEN viewer
                     ELSE [viewer EXCEPT !.newest = d.state.generation,
                             !.base = IF d.t = "full" THEN d.state ELSE Patched(d)]
        /\ UNCHANGED <<shell, pty, writers, journal, tracker, handler, requests,
                       frames, budget>>

TypeInput ==
    /\ viewer.st = "attached" /\ budget.inputs > 0
    /\ requests' = Append(requests, [t |-> "input",
                                     input |-> <<viewer.epoch, viewer.sequence>>])
    /\ viewer' = [viewer EXCEPT !.sequence = @ + 1]
    /\ budget' = [budget EXCEPT !.inputs = @ - 1]
    /\ UNCHANGED <<shell, pty, writers, journal, tracker, handler, frames, datagrams>>

WindowChange(h) ==
    /\ viewer.st = "attached" /\ h # viewer.height /\ budget.resizes > 0
    /\ requests' = Append(requests, [t |-> "resize", height |-> h])
    /\ viewer' = [viewer EXCEPT !.height = h, !.resized = TRUE]
    /\ budget' = [budget EXCEPT !.resizes = @ - 1]
    /\ UNCHANGED <<shell, pty, writers, journal, tracker, handler, frames, datagrams>>

(* The client notices that its stream ended, or the connection breaks; what
   was in flight, typed input included, is gone. *)
Disconnect ==
    /\ viewer.st \in {"opening", "attached"}
    /\ \/ handler.st = "none" /\ viewer.st = "attached" /\ UNCHANGED budget
       \/ budget.breaks > 0 /\ budget' = [budget EXCEPT !.breaks = @ - 1]
    /\ viewer' = Gone(viewer.epoch)
    /\ requests' = <<>> /\ frames' = <<>> /\ datagrams' = {}
    /\ handler' = NoPtyHandler
    /\ UNCHANGED <<shell, pty, writers, journal, tracker>>

(* tmux keeps the window's size while no one is attached. *)
TmuxSessionSize == Len(pty.screen)

(* The daemon dies and its replacement reattaches a PTY the journal knows of
   at tmux's own window size; a write in progress is lost. *)
CrashAndRecover ==
    /\ pty.up /\ budget.breaks > 0
    /\ budget' = [budget EXCEPT !.breaks = @ - 1]
    /\ pty' = IF journal.started THEN SpawnTmux(TmuxSessionSize) ELSE NoPty
    /\ tracker' = IF journal.started THEN journal.generation ELSE 0
    /\ writers' = {} /\ handler' = NoPtyHandler
    /\ requests' = <<>> /\ frames' = <<>> /\ datagrams' = {}
    /\ viewer' = Gone(viewer.epoch)
    /\ UNCHANGED <<shell, journal>>

TerminalNext ==
    \/ ReadChunk \/ BroadcastChunk \/ PersistGeneration
    \/ \E input \in writers : FinishWrite(input)
    \/ OpenPty \/ OpenFails \/ Subscribe \/ HandleInput \/ InputTimesOut \/ HandleResize
    \/ HandlerRefuses
    \/ ForwardOutput \/ SendState \/ StateSkipped
    \/ \E h \in Heights : RequestPty(h) \/ WindowChange(h)
    \/ ReadFrame \/ TypeInput \/ Disconnect \/ CrashAndRecover
    \/ \E d \in datagrams : ReadDatagram(d)

TerminalSpec == TerminalInit /\ [][TerminalNext]_terminalVars

------------------------------------------------------------------------------
(* Earlier, in the order the user typed: by attachment, then by sequence. *)
Before(a, b) == a[1] < b[1] \/ (a[1] = b[1] /\ a[2] < b[2])

(* No input reaches the shell twice or out of the order it was typed in, even
   when a write times out, its handler fails, and the write finishes only
   after the client has attached again and typed on. *)
InputOrdered ==
    \A i, j \in DOMAIN shell.typed : i < j => Before(shell.typed[i], shell.typed[j])

(* The screen the client patches row by row is one the parser really had at
   that generation, whatever datagrams were lost, repeated in a full state,
   or overtaken, as long as the window kept its size since the attachment
   opened. *)
ScreenSound ==
    viewer.st = "attached" /\ ~viewer.resized => viewer.base \in pty.seen
==============================================================================
