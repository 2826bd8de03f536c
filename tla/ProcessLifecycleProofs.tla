------------------------ MODULE ProcessLifecycleProofs ------------------------
(***************************************************************************)
(* NoUnjournaledRun, AnswersHold, SlotsMatch and OutputExact for any       *)
(* number of requests, processes, writes, I/O errors and deaths.           *)
(***************************************************************************)
EXTENDS ProcessLifecycle, FiniteSetTheorems, TLAPS

OSStates == {"none", "run", "marked", "orphans", "dying", "gone", "reused"}
Silent == {"gone", "reused"}
Intents == {"none", "nopid", "pid", "removed"}
MonSteps == {"none", "open", "deadline", "drain", "append", "group", "probe", "file", "alive",
             "exit", "fail", "failed", "lost"}
MonType == [step : MonSteps, child : BOOLEAN, valid : BOOLEAN, timeout : {"no", "sent", "over"},
            final : BOOLEAN, idle : Nat, round : Nat]
RecType == [running : BOOLEAN, bytes : Nat]
StartType == [step : {"intent", "spawned", "pid", "journaled"}, req : Requests, proc : Procs]
Events == [kind : {"started"}, proc : Procs, req : Requests]
          \cup [kind : {"output"}, proc : Procs, offset : Nat] \cup [kind : {"exited"}, proc : Procs]

DiskTypes ==
    /\ status \in {"up", "starting", "down"}
    /\ intent \in [Procs -> Intents]
    /\ journal \in Seq(Events) /\ durable \in 0 .. Len(journal)
    /\ log \in [Procs -> Nat] /\ synced \in [Procs -> Nat]
MemoryTypes ==
    /\ os \in [Procs -> OSStates]
    /\ rec \in [Procs -> RecType] /\ mon \in [Procs -> MonType]
    /\ start \in StartType \cup {NoStart}
    /\ slots \in Nat
    /\ answer \in [Requests -> Procs \cup {0}]
Types == DiskTypes /\ MemoryTypes

(* What is in the journal for good: starts and exits, at most one start of a request,
   and those a client was told of. *)
JournalInv ==
    /\ \A k \in DOMAIN journal : journal[k].kind # "output" => k <= durable
    /\ \A j, k \in DOMAIN journal :
          /\ journal[j].kind = "started" /\ journal[k].kind = "started"
          /\ journal[j].req = journal[k].req
          => journal[j].proc = journal[k].proc
    /\ \A r \in Requests : answer[r] # 0 =>
          \E k \in DOMAIN journal : journal[k] = ProcessStarted(r, answer[r])

(* The start under way. *)
Starting == start.step \in {"intent", "spawned", "pid"}
StartInv ==
    start # NoStart =>
        /\ status = "up"
        /\ os[start.proc] = "none" <=> start.step = "intent"
        /\ mon[start.proc].step = "none"
        /\ Starting =>
              /\ intent[start.proc] = IF start.step = "pid" THEN "pid" ELSE "nopid"
              /\ ~Started(start.proc) /\ ~rec[start.proc].running
              /\ \A k \in DOMAIN journal : journal[k].kind = "started" => journal[k].req # start.req
        /\ start.step = "journaled" =>
              /\ \E k \in DOMAIN journal : journal[k] = ProcessStarted(start.req, start.proc)
              /\ rec[start.proc].running /\ rec[start.proc].bytes = 0
              /\ ~Exited(start.proc) /\ Outputs(start.proc) = 0

(* What runs and is not in the journal has an intent, whose start has not ended or
   that the next startup meets. *)
RunInv ==
    \A p \in Procs :
        /\ os[p] \in Wrapped /\ ~Started(p) =>
              /\ intent[p] \in {"nopid", "pid"}
              /\ status = "up" => start # NoStart /\ start.proc = p
        /\ intent[p] = "removed" => Started(p)
        /\ os[p] = "none" => ~Started(p) /\ ~rec[p].running /\ mon[p].step = "none"

(* Records and monitors. *)
Holders == {p \in Procs : rec[p].running \/ mon[p].step = "lost"}
SlotInv ==
    /\ \A p \in Procs : mon[p].step # "none" =>
          /\ status = "up" /\ Started(p) /\ ~Exited(p)
          /\ rec[p].running <=> mon[p].step # "lost"
          /\ rec[p].bytes = Outputs(p)
    /\ SlotsMatch

(* Output. *)
InOrder(p, k) ==
    /\ journal[k].kind = "started" => \A j \in DOMAIN journal : j < k => journal[j].proc # p
    /\ journal[k].kind # "started" =>
          \E j \in DOMAIN journal : j < k /\ journal[j].kind = "started" /\ journal[j].proc = p
    /\ journal[k].kind = "output" =>
          /\ journal[k].offset = Cardinality({j \in OutputsAt(p) : j < k})
          /\ journal[k].offset < synced[p]
    /\ journal[k].kind = "exited" => \A j \in DOMAIN journal : j > k => journal[j].proc # p
OrderInv == \A p \in Procs : \A k \in DOMAIN journal : journal[k].proc = p => InOrder(p, k)
Watched(p) ==
    /\ mon[p].step = "append" => rec[p].bytes < synced[p]
    /\ mon[p].idle > 0 => os[p] \in Silent
    /\ mon[p].step = "group" /\ mon[p].idle > 0 => rec[p].bytes = log[p]
    /\ mon[p].step = "exit" /\ mon[p].idle = IdleRounds => rec[p].bytes = log[p]
Logged(p) ==
    /\ Outputs(p) <= synced[p] /\ synced[p] <= log[p]
    /\ p \in quiet => Exited(p) /\ os[p] \in Silent /\ Outputs(p) = log[p]
QuietInv == \A p \in Procs : Watched(p) /\ Logged(p)

PInv == Types /\ JournalInv /\ StartInv /\ RunInv /\ SlotInv /\ OrderInv /\ QuietInv

-------------------------------------------------------------------------------
(* The journal *)

LEMMA ProcsFacts ==
    Procs \subseteq Nat /\ IsFiniteSet(Procs) /\ 0 \notin Procs /\ MaxStarts \in Nat
<1>1. MaxStarts \in Nat
  BY ProcessAssumption
<1> QED
  BY <1>1, FS_Interval DEF Procs

LEMMA EventFacts ==
    ASSUME NEW r \in Requests, NEW p \in Procs, NEW n \in Nat
    PROVE  /\ ProcessStarted(r, p) \in Events /\ ProcessStarted(r, p).kind = "started"
           /\ ProcessStarted(r, p).proc = p /\ ProcessStarted(r, p).req = r
           /\ ProcessOutput(p, n) \in Events /\ ProcessOutput(p, n).kind = "output"
           /\ ProcessOutput(p, n).proc = p /\ ProcessOutput(p, n).offset = n
           /\ ProcessExited(p) \in Events /\ ProcessExited(p).kind = "exited"
           /\ ProcessExited(p).proc = p
  BY DEF ProcessStarted, ProcessOutput, ProcessExited, Events

LEMMA StartedFacts ==
    ASSUME NEW r, NEW p
    PROVE  /\ ProcessStarted(r, p).kind = "started" /\ ProcessStarted(r, p).kind # "output"
           /\ ProcessStarted(r, p).proc = p /\ ProcessStarted(r, p).req = r
  BY DEF ProcessStarted

LEMMA StartedEvent ==
    ASSUME NEW e, NEW r, NEW p, e = ProcessStarted(r, p)
    PROVE  e.kind = "started" /\ e.kind # "output" /\ e.proc = p /\ e.req = r
  BY DEF ProcessStarted

LEMMA KindFacts ==
    ASSUME NEW e \in Events
    PROVE  /\ e.kind \in {"started", "output", "exited"} /\ e.proc \in Procs
           /\ e.kind = "started" => e.req \in Requests
           /\ e.kind = "output" => e.offset \in Nat
  BY DEF Events

LEMMA JournalFacts ==
    ASSUME journal \in Seq(Events)
    PROVE  /\ Len(journal) \in Nat /\ DOMAIN journal = 1 .. Len(journal)
           /\ \A k \in DOMAIN journal : journal[k] \in Events
  OBVIOUS

LEMMA CountFacts ==
    ASSUME journal \in Seq(Events), NEW p, NEW k \in Nat
    PROVE  /\ IsFiniteSet(OutputsAt(p)) /\ Outputs(p) \in Nat
           /\ IsFiniteSet({j \in OutputsAt(p) : j < k})
           /\ Cardinality({j \in OutputsAt(p) : j < k}) \in Nat
<1>1. IsFiniteSet(1 .. Len(journal)) /\ DOMAIN journal = 1 .. Len(journal)
  BY FS_Interval, JournalFacts
<1>2. OutputsAt(p) \subseteq 1 .. Len(journal)
  BY <1>1 DEF OutputsAt
<1>3. IsFiniteSet(OutputsAt(p)) /\ IsFiniteSet({j \in OutputsAt(p) : j < k})
  BY <1>1, <1>2, FS_Subset
<1> QED
  BY <1>3, FS_CardinalityType DEF Outputs

(* What an append adds. *)
LEMMA AppendFacts ==
    ASSUME journal \in Seq(Events), NEW e \in Events, journal' = Append(journal, e)
    PROVE  /\ journal' \in Seq(Events) /\ Len(journal') = Len(journal) + 1
           /\ DOMAIN journal' = DOMAIN journal \cup {Len(journal) + 1}
           /\ DOMAIN journal = 1 .. Len(journal) /\ Len(journal) \in Nat
           /\ \A k \in DOMAIN journal : journal'[k] = journal[k]
           /\ journal'[Len(journal) + 1] = e
  OBVIOUS

LEMMA AppendCounts ==
    ASSUME journal \in Seq(Events), NEW e \in Events, journal' = Append(journal, e), NEW p
    PROVE  /\ Started(p)' <=> Started(p) \/ (e.kind = "started" /\ e.proc = p)
           /\ Exited(p)' <=> Exited(p) \/ (e.kind = "exited" /\ e.proc = p)
           /\ OutputsAt(p)' = IF e.kind = "output" /\ e.proc = p
                              THEN OutputsAt(p) \cup {Len(journal) + 1} ELSE OutputsAt(p)
           /\ Outputs(p)' = IF e.kind = "output" /\ e.proc = p THEN Outputs(p) + 1 ELSE Outputs(p)
<1>1. /\ DOMAIN journal' = DOMAIN journal \cup {Len(journal) + 1}
      /\ DOMAIN journal = 1 .. Len(journal) /\ Len(journal) \in Nat
      /\ \A k \in DOMAIN journal : journal'[k] = journal[k]
      /\ journal'[Len(journal) + 1] = e
  BY AppendFacts
<1>2. Started(p)' <=> Started(p) \/ (e.kind = "started" /\ e.proc = p)
  BY <1>1, Zenon DEF Started
<1>3. Exited(p)' <=> Exited(p) \/ (e.kind = "exited" /\ e.proc = p)
  BY <1>1, Zenon DEF Exited
<1>4. OutputsAt(p)' = IF e.kind = "output" /\ e.proc = p
                     THEN OutputsAt(p) \cup {Len(journal) + 1} ELSE OutputsAt(p)
  BY <1>1 DEF OutputsAt
<1>5. Len(journal) + 1 \notin OutputsAt(p)
  BY <1>1 DEF OutputsAt
<1>6. IsFiniteSet(OutputsAt(p))
  BY <1>1, CountFacts, Zenon
<1>7. Cardinality(OutputsAt(p) \cup {Len(journal) + 1}) = Cardinality(OutputsAt(p)) + 1
  BY <1>5, <1>6, FS_AddElement, Zenon
<1> QED
  BY <1>2, <1>3, <1>4, <1>7 DEF Outputs

LEMMA SameFacts ==
    ASSUME UNCHANGED journal, NEW p
    PROVE  /\ Started(p)' <=> Started(p)
           /\ Exited(p)' <=> Exited(p)
           /\ OutputsAt(p)' = OutputsAt(p) /\ Outputs(p)' = Outputs(p)
  BY Zenon DEF Started, Exited, OutputsAt, Outputs

(* Without a start there is no event. *)
LEMMA NoEvents ==
    ASSUME OrderInv, NEW p \in Procs, ~Started(p)
    PROVE  \A k \in DOMAIN journal : journal[k].proc # p
  BY Zenon DEF OrderInv, InOrder, Started

LEMMA NoOutputs ==
    ASSUME OrderInv, NEW p \in Procs, ~Started(p)
    PROVE  Outputs(p) = 0 /\ ~Exited(p)
<1>1. OutputsAt(p) = {} /\ ~Exited(p)
  BY NoEvents, Zenon DEF OutputsAt, Exited
<1> QED
  BY <1>1, FS_EmptySet, Zenon DEF Outputs

(* An event that is in its place keeps the journal in order. *)
LEMMA JournalGrows ==
    ASSUME DiskTypes, JournalInv, OrderInv, NEW e \in Events, journal' = Append(journal, e),
           durable' \in {durable, Len(journal) + 1},
           e.kind # "output" => durable' = Len(journal) + 1,
           UNCHANGED <<synced, answer>>,
           e.kind = "started" =>
              /\ ~Started(e.proc)
              /\ \A k \in DOMAIN journal : journal[k].kind = "started" => journal[k].req # e.req,
           e.kind # "started" => Started(e.proc) /\ ~Exited(e.proc),
           e.kind = "output" => e.offset = Outputs(e.proc) /\ e.offset < synced[e.proc]
    PROVE  /\ JournalInv' /\ OrderInv'
           /\ journal' \in Seq(Events) /\ durable' \in 0 .. Len(journal')
<1> DEFINE n == Len(journal) + 1
<1>0. journal \in Seq(Events) /\ durable \in 0 .. Len(journal)
  BY DEF DiskTypes
<1>1. /\ journal' \in Seq(Events) /\ Len(journal') = n
      /\ DOMAIN journal' = DOMAIN journal \cup {n}
      /\ DOMAIN journal = 1 .. Len(journal) /\ Len(journal) \in Nat
      /\ \A k \in DOMAIN journal : journal'[k] = journal[k]
      /\ journal'[n] = e
  BY <1>0, AppendFacts
<1>2. /\ n \in Nat /\ n \notin DOMAIN journal /\ \A k \in DOMAIN journal : k < n /\ ~(n < k) /\ k \in Nat
      /\ ~(n < n)
  BY <1>1
<1>3. durable' \in 0 .. Len(journal') /\ durable <= durable' /\ durable' \in Nat
  BY <1>0, <1>1
<1>e. e.kind \in {"started", "output", "exited"} /\ e.proc \in Procs
  BY KindFacts, Zenon
<1>p. ASSUME NEW p
      PROVE  OutputsAt(p)' = IF e.kind = "output" /\ e.proc = p THEN OutputsAt(p) \cup {n} ELSE OutputsAt(p)
  BY <1>0, AppendCounts, Zenon
<1> HIDE DEF n
<1>4. \A k \in DOMAIN journal' : journal'[k].kind # "output" => k <= durable'
  <2>1. ASSUME NEW k \in DOMAIN journal, journal[k].kind # "output" PROVE k <= durable'
    <3>1. k <= durable
      BY <2>1, Zenon DEF JournalInv
    <3> QED
      BY <1>0, <1>2, <1>3, <3>1
  <2>2. e.kind # "output" => n <= durable'
    BY <1>2 DEF n
  <2> QED
    BY <1>1, <2>1, <2>2, Zenon
<1>5. ASSUME NEW j \in DOMAIN journal', NEW k \in DOMAIN journal',
             journal'[j].kind = "started", journal'[k].kind = "started",
             journal'[j].req = journal'[k].req
      PROVE  journal'[j].proc = journal'[k].proc
  BY <1>1, <1>5, Zenon DEF JournalInv
<1>6. ASSUME NEW r \in Requests, answer'[r] # 0
      PROVE  \E k \in DOMAIN journal' : journal'[k] = ProcessStarted(r, answer'[r])
  BY <1>1, <1>6, Zenon DEF JournalInv
<1>7. JournalInv'
  BY <1>4, <1>5, <1>6, Zenon DEF JournalInv
<1>8. ASSUME NEW p \in Procs, NEW k \in DOMAIN journal, journal[k].proc = p
      PROVE  InOrder(p, k)'
  <2>1. InOrder(p, k)
    BY <1>8, Zenon DEF OrderInv
  <2>2. journal[k].kind = "exited" => e.proc # p
    <3>1. SUFFICES ASSUME journal[k].kind = "exited", e.proc = p PROVE FALSE
      BY Zenon
    <3>2. Started(p) /\ Exited(p)
      BY <1>8, <2>1, <3>1, Zenon DEF Started, Exited, InOrder
    <3> QED
      BY <1>e, <3>1, <3>2, Zenon
  <2>3. {j \in OutputsAt(p)' : j < k} = {j \in OutputsAt(p) : j < k}
    BY <1>2, <1>p, Zenon
  <2>4. journal'[k] = journal[k]
    BY <1>1
  <2>5. journal'[k].kind = "started" => \A j \in DOMAIN journal' : j < k => journal'[j].proc # p
    BY <1>1, <1>2, <2>1, <2>4, Zenon DEF InOrder
  <2>6. journal'[k].kind # "started" =>
           \E j \in DOMAIN journal' : j < k /\ journal'[j].kind = "started" /\ journal'[j].proc = p
    BY <1>1, <2>1, <2>4, Zenon DEF InOrder
  <2>7. journal'[k].kind = "exited" => \A j \in DOMAIN journal' : j > k => journal'[j].proc # p
    BY <1>1, <2>1, <2>2, <2>4, Zenon DEF InOrder
  <2>8. journal'[k].kind = "output" =>
           /\ journal'[k].offset = Cardinality({j \in OutputsAt(p)' : j < k})
           /\ journal'[k].offset < synced'[p]
    BY <2>1, <2>3, <2>4, Zenon DEF InOrder
  <2> QED
    BY <2>5, <2>6, <2>7, <2>8, Zenon DEF InOrder
<1>9. ASSUME NEW p \in Procs, e.proc = p, NEW k, k = n
      PROVE  InOrder(p, k)'
  <2>1. \A j \in DOMAIN journal' : ~(j > n)
    BY <1>1, <1>2
  <2>2. e.kind = "started" => \A j \in DOMAIN journal : journal[j].proc # p
    BY <1>9, NoEvents, Zenon
  <2>3. e.kind # "started" => \E j \in DOMAIN journal : journal[j].kind = "started" /\ journal[j].proc = p
    BY <1>9, Zenon DEF Started
  <2>4. {j \in OutputsAt(p)' : j < n} = OutputsAt(p)
    <3>1. OutputsAt(p) \subseteq DOMAIN journal
      BY Zenon DEF OutputsAt
    <3> QED
      BY <1>2, <1>p, <3>1, Zenon
  <2>5. e.kind = "output" => e.offset = Cardinality({j \in OutputsAt(p)' : j < n}) /\ e.offset < synced'[p]
    BY <1>9, <2>4, Zenon DEF Outputs
  <2>6. e.kind = "started" => \A j \in DOMAIN journal' : j < n => journal'[j].proc # p
    BY <1>1, <1>2, <2>2, Zenon
  <2>7. e.kind # "started" =>
           \E j \in DOMAIN journal' : j < n /\ journal'[j].kind = "started" /\ journal'[j].proc = p
    BY <1>1, <1>2, <2>3, Zenon
  <2> QED
    BY <1>1, <1>9, <2>1, <2>5, <2>6, <2>7, Zenon DEF InOrder
<1>10. OrderInv'
  <2>1. SUFFICES ASSUME NEW p \in Procs, NEW k \in DOMAIN journal', journal'[k].proc = p
                 PROVE  InOrder(p, k)'
    BY Zenon DEF OrderInv, Procs
  <2> QED
    <3>1. CASE k \in DOMAIN journal
      BY <1>1, <1>8, <2>1, <3>1, Zenon
    <3>2. CASE k = n
      BY <1>1, <1>9, <2>1, <3>2, Zenon
    <3> QED
      BY <1>1, <3>1, <3>2, Zenon
<1> QED
  BY <1>1, <1>3, <1>7, <1>10

(* What is synced to the log files, and told to clients, leaves the journal in order. *)
LEMMA JournalSame ==
    ASSUME JournalInv, OrderInv, journal \in Seq(Events), UNCHANGED <<journal, durable>>,
           synced \in [Procs -> Nat], synced' \in [Procs -> Nat],
           \A p \in Procs : synced[p] <= synced'[p],
           \A r \in Requests : answer'[r] # 0 =>
              \E k \in DOMAIN journal : journal[k] = ProcessStarted(r, answer'[r])
    PROVE  JournalInv' /\ OrderInv'
<1>1. JournalInv'
  BY Zenon DEF JournalInv
<1>2. SUFFICES ASSUME NEW p \in Procs, NEW k \in DOMAIN journal, journal[k].proc = p
               PROVE  InOrder(p, k)'
  BY <1>1, Zenon DEF OrderInv, Procs
<1>3. InOrder(p, k)
  BY <1>2, Zenon DEF OrderInv
<1>4. journal[k].kind = "output" => journal[k].offset < synced'[p]
  <2>1. SUFFICES ASSUME journal[k].kind = "output" PROVE journal[k].offset < synced'[p]
    BY Zenon
  <2>2. journal[k].offset < synced[p]
    BY <1>3, <2>1, Zenon DEF InOrder
  <2>3. journal[k].offset \in Nat
    BY <2>1, KindFacts, JournalFacts, Zenon
  <2> QED
    BY <2>2, <2>3
<1> QED
  BY <1>3, <1>4, SameFacts, Zenon DEF InOrder

(* A power loss takes output events from the end of the journal, and none of a process
   whose exit is in it. *)
LEMMA CutFacts ==
    ASSUME DiskTypes, JournalInv, OrderInv, NEW n \in durable .. Len(journal),
           journal' = SubSeq(journal, 1, n)
    PROVE  /\ journal' \in Seq(Events) /\ Len(journal') = n /\ n \in Nat /\ durable <= n
           /\ DOMAIN journal' = 1 .. n /\ DOMAIN journal' \subseteq DOMAIN journal
           /\ \A k \in DOMAIN journal' : journal'[k] = journal[k]
           /\ \A k \in DOMAIN journal : journal[k].kind # "output" => k \in DOMAIN journal'
           /\ \A j, k \in DOMAIN journal : j < k /\ k \in DOMAIN journal' => j \in DOMAIN journal'
<1>1. journal \in Seq(Events) /\ durable \in 0 .. Len(journal)
  BY DEF DiskTypes
<1>2. Len(journal) \in Nat /\ DOMAIN journal = 1 .. Len(journal) /\ n \in 0 .. Len(journal)
  BY <1>1
<1>3. /\ journal' \in Seq(Events) /\ Len(journal') = n /\ DOMAIN journal' = 1 .. n
      /\ \A k \in 1 .. n : journal'[k] = journal[k]
  BY <1>1, <1>2
<1>4. \A k \in DOMAIN journal : journal[k].kind # "output" => k <= durable
  BY Zenon DEF JournalInv
<1>5. n \in Nat /\ durable \in Nat /\ durable <= n /\ n <= Len(journal)
  BY <1>1, <1>2
<1>6. \A k \in DOMAIN journal : k <= durable => k \in DOMAIN journal'
  BY <1>2, <1>3, <1>5
<1>7. \A j, k \in DOMAIN journal : j < k /\ k \in DOMAIN journal' => j \in DOMAIN journal'
  BY <1>2, <1>3, <1>5
<1>8. DOMAIN journal' \subseteq DOMAIN journal
  BY <1>2, <1>3, <1>5
<1> QED
  BY <1>3, <1>4, <1>5, <1>6, <1>7, <1>8, Zenon

LEMMA CutCounts ==
    ASSUME DiskTypes, JournalInv, OrderInv, NEW n \in durable .. Len(journal),
           journal' = SubSeq(journal, 1, n), NEW p \in Procs
    PROVE  /\ Started(p)' <=> Started(p)
           /\ Exited(p)' <=> Exited(p)
           /\ OutputsAt(p)' = {k \in OutputsAt(p) : k \in DOMAIN journal'}
           /\ Outputs(p)' \in Nat /\ Outputs(p) \in Nat /\ Outputs(p)' <= Outputs(p)
           /\ Exited(p) => Outputs(p)' = Outputs(p)
<1>1. /\ DOMAIN journal' \subseteq DOMAIN journal
      /\ \A k \in DOMAIN journal' : journal'[k] = journal[k]
      /\ \A k \in DOMAIN journal : journal[k].kind # "output" => k \in DOMAIN journal'
      /\ \A j, k \in DOMAIN journal : j < k /\ k \in DOMAIN journal' => j \in DOMAIN journal'
  BY CutFacts, Zenon
<1>2. Started(p)' <=> Started(p)
  BY <1>1, Zenon DEF Started
<1>3. Exited(p)' <=> Exited(p)
  BY <1>1, Zenon DEF Exited
<1>4. OutputsAt(p)' = {k \in OutputsAt(p) : k \in DOMAIN journal'}
  BY <1>1, Zenon DEF OutputsAt
<1>5. OutputsAt(p)' \subseteq OutputsAt(p)
  BY <1>4, Zenon
<1>6. IsFiniteSet(OutputsAt(p)) /\ Outputs(p) \in Nat
  <2>1. journal \in Seq(Events) /\ 0 \in Nat
    BY DEF DiskTypes
  <2> QED
    BY <2>1, CountFacts, Zenon
<1>7. Outputs(p)' <= Outputs(p) /\ Outputs(p)' \in Nat
  BY <1>5, <1>6, FS_Subset, FS_CardinalityType DEF Outputs
<1>8. ASSUME Exited(p) PROVE OutputsAt(p)' = OutputsAt(p)
  <2>1. PICK x \in DOMAIN journal : journal[x].kind = "exited" /\ journal[x].proc = p
    BY <1>8, Zenon DEF Exited
  <2>2. InOrder(p, x) /\ x \in DOMAIN journal'
    BY <1>1, <2>1, Zenon DEF OrderInv
  <2>3. \A j \in OutputsAt(p) : j \in DOMAIN journal /\ ~(j > x) /\ j # x
    BY <2>1, <2>2, Zenon DEF InOrder, OutputsAt
  <2>4. \A j \in DOMAIN journal : ~(j > x) /\ j # x => j < x
    <3>1. DOMAIN journal \subseteq Nat
      BY DEF DiskTypes
    <3> QED
      BY <2>1, <3>1
  <2> QED
    BY <1>1, <1>4, <2>2, <2>3, <2>4, Zenon
<1> QED
  BY <1>2, <1>3, <1>4, <1>6, <1>7, <1>8, Zenon DEF Outputs

LEMMA JournalCut ==
    ASSUME DiskTypes, JournalInv, OrderInv, NEW n \in durable .. Len(journal),
           journal' = SubSeq(journal, 1, n), durable' = n, UNCHANGED <<synced, answer>>
    PROVE  /\ JournalInv' /\ OrderInv'
           /\ journal' \in Seq(Events) /\ durable' \in 0 .. Len(journal')
<1>1. /\ journal' \in Seq(Events) /\ Len(journal') = n /\ n \in Nat
      /\ DOMAIN journal' = 1 .. n /\ DOMAIN journal' \subseteq DOMAIN journal
      /\ \A k \in DOMAIN journal' : journal'[k] = journal[k]
      /\ \A k \in DOMAIN journal : journal[k].kind # "output" => k \in DOMAIN journal'
      /\ \A j, k \in DOMAIN journal : j < k /\ k \in DOMAIN journal' => j \in DOMAIN journal'
  BY CutFacts, Zenon
<1>2. durable' \in 0 .. Len(journal') /\ \A k \in DOMAIN journal' : k <= durable'
  BY <1>1
<1>3. ASSUME NEW r \in Requests, answer'[r] # 0
      PROVE  \E k \in DOMAIN journal' : journal'[k] = ProcessStarted(r, answer'[r])
  <2>1. PICK k \in DOMAIN journal : journal[k] = ProcessStarted(r, answer[r])
    BY <1>3, Zenon DEF JournalInv
  <2>2. journal[k].kind # "output"
    BY <2>1, StartedEvent, Zenon
  <2>3. k \in DOMAIN journal'
    BY <1>1, <2>1, <2>2, Zenon
  <2> QED
    BY <1>1, <2>1, <2>3, Zenon
<1>4. JournalInv'
  <2>1. ASSUME NEW j \in DOMAIN journal', NEW k \in DOMAIN journal',
               journal'[j].kind = "started", journal'[k].kind = "started",
               journal'[j].req = journal'[k].req
        PROVE  journal'[j].proc = journal'[k].proc
    BY <1>1, <2>1, Zenon DEF JournalInv
  <2> QED
    BY <1>2, <1>3, <2>1, Zenon DEF JournalInv
<1>5. ASSUME NEW p \in Procs, NEW k \in DOMAIN journal', journal'[k].proc = p
      PROVE  InOrder(p, k)'
  <2>1. k \in DOMAIN journal /\ journal'[k] = journal[k] /\ InOrder(p, k)
    BY <1>1, <1>5, Zenon DEF OrderInv
  <2>2. OutputsAt(p)' = {j \in OutputsAt(p) : j \in DOMAIN journal'}
    BY CutCounts, Zenon
  <2>3. {j \in OutputsAt(p)' : j < k} = {j \in OutputsAt(p) : j < k}
    <3>1. OutputsAt(p) \subseteq DOMAIN journal
      BY Zenon DEF OutputsAt
    <3> QED
      BY <1>1, <2>1, <2>2, <3>1, Zenon
  <2>4. journal'[k].kind = "started" => \A j \in DOMAIN journal' : j < k => journal'[j].proc # p
    BY <1>1, <2>1, Zenon DEF InOrder
  <2>5. journal'[k].kind # "started" =>
           \E j \in DOMAIN journal' : j < k /\ journal'[j].kind = "started" /\ journal'[j].proc = p
    BY <1>1, <2>1, Zenon DEF InOrder
  <2>6. journal'[k].kind = "exited" => \A j \in DOMAIN journal' : j > k => journal'[j].proc # p
    BY <1>1, <2>1, Zenon DEF InOrder
  <2>7. journal'[k].kind = "output" =>
           /\ journal'[k].offset = Cardinality({j \in OutputsAt(p)' : j < k})
           /\ journal'[k].offset < synced'[p]
    BY <2>1, <2>3, Zenon DEF InOrder
  <2> QED
    BY <2>4, <2>5, <2>6, <2>7, Zenon DEF InOrder
<1>6. OrderInv'
  BY <1>5, Zenon DEF OrderInv, Procs
<1> QED
  BY <1>1, <1>2, <1>4, <1>6, Zenon

-------------------------------------------------------------------------------
(* Steps that touch neither the journal nor the records *)

(* A process does not come back: what the kernel, a signal or a restart does to it. *)
Tame ==
    /\ os' \in [Procs -> OSStates]
    /\ \A q \in Procs : /\ os'[q] \in Wrapped => os[q] \in Wrapped
                        /\ os'[q] = "none" <=> os[q] = "none"
                        /\ os[q] \in Silent => os'[q] \in Silent

(* Logs grow while the group lives, and are synced as far as they go. *)
LogsGrow ==
    /\ log' \in [Procs -> Nat] /\ synced' \in [Procs -> Nat]
    /\ \A q \in Procs : /\ log[q] <= log'[q] /\ (os[q] \in Silent => log'[q] = log[q])
                        /\ synced[q] <= synced'[q] /\ synced'[q] <= log'[q]

(* Startup drops the intents it has settled. *)
IntentsKept ==
    /\ intent' \in [Procs -> Intents]
    /\ \A q \in Procs : \/ intent'[q] = intent[q]
                        \/ intent'[q] = "none" /\ status # "up" /\ (os'[q] \in Wrapped => Started(q))

(* No monitor begins, ends or is lost. *)
MonitorsKept ==
    /\ mon' \in [Procs -> MonType]
    /\ \A q \in Procs : /\ mon'[q].step = "none" <=> mon[q].step = "none"
                        /\ mon'[q].step = "lost" <=> mon[q].step = "lost"
                        /\ Watched(q)'

LEMMA Frame ==
    ASSUME PInv, status' \in {"up", "starting", "down"}, status' = "up" <=> status = "up",
           Tame, LogsGrow, IntentsKept, MonitorsKept,
           UNCHANGED <<journal, durable, rec, slots, start, answer, quiet>>
    PROVE  PInv'
<1>1. Types'
  BY Zenon DEF PInv, Types, DiskTypes, MemoryTypes, Tame, LogsGrow, IntentsKept, MonitorsKept
<1>s. \A p : (Started(p)' <=> Started(p)) /\ (Exited(p)' <=> Exited(p)) /\ Outputs(p)' = Outputs(p)
  BY SameFacts, Zenon
<1>2. JournalInv' /\ OrderInv'
  <2>1. /\ JournalInv /\ OrderInv /\ journal \in Seq(Events) /\ synced \in [Procs -> Nat]
        /\ \A r \in Requests : answer[r] # 0 =>
              \E k \in DOMAIN journal : journal[k] = ProcessStarted(r, answer[r])
    BY Zenon DEF PInv, Types, DiskTypes, JournalInv
  <2> QED
    BY <2>1, JournalSame, Zenon DEF LogsGrow
<1>t. start # NoStart => start \in StartType /\ start.proc \in Procs
  BY DEF PInv, Types, MemoryTypes, StartType
<1>3. StartInv'
  <2>1. SUFFICES ASSUME start # NoStart
                 PROVE  StartInv'
    BY Zenon DEF StartInv
  <2>2. start.proc \in Procs /\ status = "up" /\ status' = "up"
    BY <1>t, <2>1, Zenon DEF PInv, StartInv
  <2>3. intent'[start.proc] = intent[start.proc]
    BY <2>2, Zenon DEF IntentsKept
  <2>4. mon'[start.proc].step = "none" /\ (os'[start.proc] = "none" <=> start.step = "intent")
    BY <2>1, <2>2, Zenon DEF MonitorsKept, Tame, PInv, StartInv
  <2>5. /\ Starting =>
              /\ intent[start.proc] = IF start.step = "pid" THEN "pid" ELSE "nopid"
              /\ ~Started(start.proc) /\ ~rec[start.proc].running
              /\ \A k \in DOMAIN journal : journal[k].kind = "started" => journal[k].req # start.req
        /\ start.step = "journaled" =>
              /\ \E k \in DOMAIN journal : journal[k] = ProcessStarted(start.req, start.proc)
              /\ rec[start.proc].running /\ rec[start.proc].bytes = 0
              /\ ~Exited(start.proc) /\ Outputs(start.proc) = 0
    BY <2>1, Zenon DEF PInv, StartInv
  <2> QED
    BY <1>s, <2>2, <2>3, <2>4, <2>5, Zenon DEF StartInv, Starting
<1>4. RunInv'
  <2>1. SUFFICES ASSUME NEW p \in Procs
                 PROVE  /\ os'[p] \in Wrapped /\ ~Started(p) =>
                              /\ intent'[p] \in {"nopid", "pid"}
                              /\ status = "up" => start # NoStart /\ start.proc = p
                        /\ intent'[p] = "removed" => Started(p)
                        /\ os'[p] = "none" => ~Started(p) /\ ~rec[p].running /\ mon'[p].step = "none"
    BY <1>s, Zenon DEF RunInv, Procs
  <2>2. /\ os[p] \in Wrapped /\ ~Started(p) =>
              /\ intent[p] \in {"nopid", "pid"}
              /\ status = "up" => start # NoStart /\ start.proc = p
        /\ intent[p] = "removed" => Started(p)
        /\ os[p] = "none" => ~Started(p) /\ ~rec[p].running /\ mon[p].step = "none"
    BY <2>1, Zenon DEF PInv, RunInv
  <2>3. /\ os'[p] \in Wrapped => os[p] \in Wrapped
        /\ os'[p] = "none" <=> os[p] = "none"
    BY Zenon DEF Tame
  <2>4. \/ intent'[p] = intent[p]
        \/ intent'[p] = "none" /\ (os'[p] \in Wrapped => Started(p))
    BY Zenon DEF IntentsKept
  <2>5. mon'[p].step = "none" <=> mon[p].step = "none"
    BY Zenon DEF MonitorsKept
  <2> QED
    BY <2>2, <2>3, <2>4, <2>5, Zenon
<1>5. SlotInv'
  <2>1. \A p \in Procs : (mon'[p].step = "lost" <=> mon[p].step = "lost") /\ (mon'[p].step = "none" <=> mon[p].step = "none")
    BY Zenon DEF MonitorsKept
  <2>2. {p \in Procs : rec'[p].running \/ mon'[p].step = "lost"} = {p \in Procs : rec[p].running \/ mon[p].step = "lost"}
    BY <2>1, Zenon
  <2>3. SlotsMatch'
    BY <2>2, Zenon DEF PInv, SlotInv, SlotsMatch, Procs
  <2>4. ASSUME NEW p \in Procs, mon'[p].step # "none"
        PROVE  /\ status' = "up" /\ Started(p)' /\ ~Exited(p)'
               /\ rec'[p].running <=> mon'[p].step # "lost"
               /\ rec'[p].bytes = Outputs(p)'
    <3>1. /\ status = "up" /\ Started(p) /\ ~Exited(p)
          /\ rec[p].running <=> mon[p].step # "lost"
          /\ rec[p].bytes = Outputs(p)
      BY <2>1, <2>4, Zenon DEF PInv, SlotInv
    <3> QED
      BY <1>s, <2>1, <3>1, Zenon
  <2> QED
    BY <2>3, <2>4, Zenon DEF SlotInv, Procs
<1>6. QuietInv'
  <2>1. SUFFICES ASSUME NEW p \in Procs
                 PROVE  Logged(p)'
    BY Zenon DEF QuietInv, MonitorsKept, Procs
  <2>2. Logged(p)
    BY Zenon DEF PInv, QuietInv
  <2>3. Outputs(p) \in Nat /\ synced[p] \in Nat /\ synced'[p] \in Nat /\ log'[p] \in Nat
    <3>1. 0 \in Nat /\ journal \in Seq(Events) /\ synced \in [Procs -> Nat]
      BY DEF PInv, Types, DiskTypes
    <3> QED
      BY <3>1, CountFacts, Zenon DEF LogsGrow
  <2>4. Outputs(p) <= synced'[p] /\ synced'[p] <= log'[p]
    BY <2>2, <2>3 DEF Logged, LogsGrow
  <2>5. p \in quiet => Exited(p) /\ os'[p] \in Silent /\ Outputs(p) = log'[p]
    BY <2>2, Zenon DEF Logged, LogsGrow, Tame
  <2> QED
    BY <1>s, <2>4, <2>5, Zenon DEF Logged
<1> QED
  BY <1>1, <1>2, <1>3, <1>4, <1>5, <1>6, Zenon DEF PInv

LEMMA StillWatched ==
    ASSUME PInv, Tame, LogsGrow, UNCHANGED rec, NEW q \in Procs, mon'[q] = mon[q]
    PROVE  Watched(q)'
<1>1. Watched(q)
  BY Zenon DEF PInv, QuietInv
<1>2. rec[q].bytes \in Nat /\ synced[q] \in Nat /\ synced'[q] \in Nat /\ mon[q].idle \in Nat
  BY DEF PInv, Types, DiskTypes, MemoryTypes, RecType, MonType, LogsGrow
<1>3. mon[q].step = "append" => rec[q].bytes < synced'[q]
  BY <1>1, <1>2 DEF Watched, LogsGrow
<1>4. mon[q].idle = IdleRounds => mon[q].idle > 0
  BY ProcessAssumption
<1>5. mon[q].idle > 0 => os[q] \in Silent /\ os'[q] \in Silent /\ log'[q] = log[q]
  BY <1>1, Zenon DEF Watched, Tame, LogsGrow
<1> QED
  BY <1>1, <1>3, <1>4, <1>5, Zenon DEF Watched

LEMMA NoneMoves ==
    ASSUME PInv, Tame, LogsGrow, UNCHANGED <<rec, mon>>
    PROVE  MonitorsKept
<1>1. mon' \in [Procs -> MonType]
  BY Zenon DEF PInv, Types, MemoryTypes
<1>2. \A q \in Procs : Watched(q)'
  BY StillWatched, Zenon
<1> QED
  BY <1>1, <1>2, Zenon DEF MonitorsKept

LEMMA OneMoves ==
    ASSUME PInv, Tame, LogsGrow, UNCHANGED rec, NEW p \in Procs,
           mon' \in [Procs -> MonType], \A q \in Procs \ {p} : mon'[q] = mon[q],
           mon[p].step \notin {"none", "lost"}, mon'[p].step \notin {"none", "lost"}, Watched(p)'
    PROVE  MonitorsKept
<1>1. \A q \in Procs : Watched(q)'
  BY StillWatched, Zenon
<1> QED
  BY <1>1, Zenon DEF MonitorsKept

LEMMA SameLogs ==
    ASSUME PInv, UNCHANGED <<log, synced>>
    PROVE  LogsGrow
<1>1. log \in [Procs -> Nat] /\ synced \in [Procs -> Nat]
  BY Zenon DEF PInv, Types, DiskTypes
<1>2. \A q \in Procs : synced[q] <= log[q]
  BY Zenon DEF PInv, QuietInv, Logged
<1> QED
  BY <1>1, <1>2 DEF LogsGrow

LEMMA SameOS ==
    ASSUME PInv, UNCHANGED os
    PROVE  Tame
  BY Zenon DEF PInv, Types, MemoryTypes, Tame

LEMMA SameIntents ==
    ASSUME PInv, UNCHANGED intent
    PROVE  IntentsKept
  BY Zenon DEF PInv, Types, DiskTypes, IntentsKept

LEMMA StatusFacts ==
    ASSUME PInv, UNCHANGED status
    PROVE  status' \in {"up", "starting", "down"} /\ (status' = "up" <=> status = "up")
  BY Zenon DEF PInv, Types, DiskTypes

LEMMA OSMoves ==
    ASSUME PInv, status' \in {"up", "starting", "down"}, status' = "up" <=> status = "up",
           Tame, IntentsKept,
           UNCHANGED <<journal, durable, rec, slots, start, answer, quiet, mon, log, synced>>
    PROVE  PInv'
<1>1. LogsGrow
  BY SameLogs, Zenon
<1>2. MonitorsKept
  BY <1>1, NoneMoves, Zenon
<1> QED
  BY <1>1, <1>2, Frame, Zenon

(* One process moves on in the kernel. *)
LEMMA OneTame ==
    ASSUME PInv, NEW p \in Procs, NEW s \in OSStates \ {"none"}, os' = [os EXCEPT ![p] = s],
           os[p] # "none", s \in Wrapped => os[p] \in Wrapped, os[p] \in Silent => s \in Silent
    PROVE  Tame
<1>1. os \in [Procs -> OSStates]
  BY Zenon DEF PInv, Types, MemoryTypes
<1>2. os' \in [Procs -> OSStates] /\ os'[p] = s /\ \A q \in Procs \ {p} : os'[q] = os[q]
  BY <1>1
<1> QED
  BY <1>2, Zenon DEF Tame

-------------------------------------------------------------------------------
(* The kernel *)

LEMMA KernelSteps ==
    ASSUME PInv, NEW p \in Procs, KernelStep(p) \/ Disappears(p)
    PROVE  PInv'
<1> USE DEF disk, memory, rest
<1>1. CASE Write(p)
  <2>1. Tame
    BY <1>1, SameOS, Zenon DEF Write
  <2>2. LogsGrow
    <3>1. log \in [Procs -> Nat] /\ synced \in [Procs -> Nat]
      BY Zenon DEF PInv, Types, DiskTypes
    <3>2. \A q \in Procs : synced[q] <= log[q]
      BY Zenon DEF PInv, QuietInv, Logged
    <3>3. log' = [log EXCEPT ![p] = log[p] + 1] /\ UNCHANGED synced /\ os[p] \notin Silent
      BY <1>1 DEF Write, Wrapped, Silent
    <3> QED
      BY <3>1, <3>2, <3>3 DEF LogsGrow
  <2>3. UNCHANGED <<journal, durable, rec, slots, start, answer, quiet, mon, intent, status>>
    BY <1>1, Zenon DEF Write
  <2>4. MonitorsKept /\ IntentsKept /\ status \in {"up", "starting", "down"}
    BY <2>1, <2>2, <2>3, NoneMoves, SameIntents, Zenon DEF PInv, Types, DiskTypes
  <2> QED
    BY <2>1, <2>2, <2>3, <2>4, Frame, Zenon
<1>2. ASSUME Mark(p) \/ WrapperExits(p) \/ Killed(p) \/ Disappears(p) \/ PidReused(p)
             \/ DeadlinePasses(p)
      PROVE  PInv'
  <2>1. UNCHANGED <<journal, durable, rec, slots, start, answer, quiet, mon, intent, status, log, synced>>
    BY <1>2, Zenon DEF Mark, WrapperExits, Killed, Disappears, PidReused, DeadlinePasses
  <2>2. Tame
    <3>1. CASE UNCHANGED os
      BY <3>1, SameOS, Zenon
    <3>2. CASE \E s \in OSStates \ {"none"} :
                  /\ os' = [os EXCEPT ![p] = s] /\ os[p] # "none"
                  /\ s \in Wrapped => os[p] \in Wrapped
                  /\ os[p] \in Silent => s \in Silent
      BY <3>2, OneTame, Zenon
    <3> QED
      BY <1>2, <3>1, <3>2
         DEF Mark, WrapperExits, Killed, Disappears, PidReused, DeadlinePasses, OSStates, Wrapped, Silent
  <2> QED
    BY <2>1, <2>2, StatusFacts, SameIntents, OSMoves, Zenon
<1> QED
  BY <1>1, <1>2, Zenon DEF KernelStep

-------------------------------------------------------------------------------
(* A monitor that neither ends nor appends *)

MonitorOnly ==
    UNCHANGED <<status, journal, durable, intent, rec, slots, start, answer, quiet, log>>

LEMMA MonitorMoves ==
    ASSUME PInv, NEW p \in Procs, MonitorOnly, Tame, LogsGrow,
           mon' \in [Procs -> MonType], \A q \in Procs \ {p} : mon'[q] = mon[q],
           mon[p].step \notin {"none", "lost"}, mon'[p].step \notin {"none", "lost"}, Watched(p)'
    PROVE  PInv'
<1>1. UNCHANGED <<status, journal, durable, intent, rec, slots, start, answer, quiet>>
  BY Zenon DEF MonitorOnly
<1>2. MonitorsKept
  BY <1>1, OneMoves, Zenon
<1> QED
  BY <1>1, <1>2, StatusFacts, SameIntents, Frame, Zenon

(* Steps outside the drain. *)
Plain == {"deadline", "drain", "probe", "file", "alive", "fail", "failed"}
LEMMA PlainMoves ==
    ASSUME PInv, NEW p \in Procs, MonitorOnly, UNCHANGED synced, Tame,
           mon' \in [Procs -> MonType], \A q \in Procs \ {p} : mon'[q] = mon[q],
           mon[p].step \notin {"none", "lost"}, mon'[p].step \in Plain, mon'[p].idle = mon[p].idle
    PROVE  PInv'
<1>1. UNCHANGED log
  BY Zenon DEF MonitorOnly
<1>2. mon'[p].step \notin {"none", "lost", "append", "group", "exit"}
  BY DEF Plain
<1>3. Watched(p)'
  BY <1>2, Zenon DEF PInv, QuietInv, Watched, Tame
<1> QED
  BY <1>1, <1>2, <1>3, SameLogs, MonitorMoves, Zenon

(* What the updates of a monitor do. *)
LEMMA MonSet ==
    ASSUME mon \in [Procs -> MonType], NEW p \in Procs, NEW m \in MonType, mon' = [mon EXCEPT ![p] = m]
    PROVE  mon' \in [Procs -> MonType] /\ mon'[p] = m /\ \A q \in Procs \ {p} : mon'[q] = mon[q]
  BY Zenon

LEMMA MonEffects ==
    ASSUME mon \in [Procs -> MonType], NEW p \in Procs, NEW s \in MonSteps,
           NEW b \in BOOLEAN, NEW t \in {"no", "sent", "over"},
           \/ mon' = [mon EXCEPT ![p].step = s]
           \/ mon' = [mon EXCEPT ![p].step = s, ![p].valid = b]
           \/ mon' = [mon EXCEPT ![p].step = s, ![p].timeout = t]
           \/ mon' = [mon EXCEPT ![p].step = s, ![p].final = TRUE]
           \/ mon' = [mon EXCEPT ![p].step = s, ![p].final = TRUE, ![p].valid = FALSE]
    PROVE  /\ mon' \in [Procs -> MonType] /\ \A q \in Procs \ {p} : mon'[q] = mon[q]
           /\ mon'[p].step = s /\ mon'[p].idle = mon[p].idle
<1> DEFINE Effect == /\ mon' \in [Procs -> MonType] /\ \A q \in Procs \ {p} : mon'[q] = mon[q]
                     /\ mon'[p].step = s /\ mon'[p].idle = mon[p].idle
           Sets(m) == m \in MonType /\ m.step = s /\ m.idle = mon[p].idle /\ mon' = [mon EXCEPT ![p] = m]
<1>0. mon[p] \in MonType
  OBVIOUS
<1>1. \A m : Sets(m) => Effect
  BY MonSet, Zenon
<1> HIDE DEF Effect
<1>2. CASE mon' = [mon EXCEPT ![p].step = s]
  <2>1. Sets([mon[p] EXCEPT !.step = s])
    BY <1>0, <1>2, Zenon DEF MonType
  <2> QED
    BY <1>1, <2>1, Zenon
<1>3. CASE mon' = [mon EXCEPT ![p].step = s, ![p].valid = b]
  <2>1. Sets([mon[p] EXCEPT !.step = s, !.valid = b])
    BY <1>0, <1>3, Zenon DEF MonType
  <2> QED
    BY <1>1, <2>1, Zenon
<1>4. CASE mon' = [mon EXCEPT ![p].step = s, ![p].timeout = t]
  <2>1. Sets([mon[p] EXCEPT !.step = s, !.timeout = t])
    BY <1>0, <1>4, Zenon DEF MonType
  <2> QED
    BY <1>1, <2>1, Zenon
<1>5. CASE mon' = [mon EXCEPT ![p].step = s, ![p].final = TRUE]
  <2>1. Sets([mon[p] EXCEPT !.step = s, !.final = TRUE])
    BY <1>0, <1>5, Zenon DEF MonType
  <2> QED
    BY <1>1, <2>1, Zenon
<1>6. CASE mon' = [mon EXCEPT ![p].step = s, ![p].final = TRUE, ![p].valid = FALSE]
  <2>1. Sets([mon[p] EXCEPT !.step = s, !.final = TRUE, !.valid = FALSE])
    BY <1>0, <1>6, Zenon DEF MonType
  <2> QED
    BY <1>1, <2>1, Zenon
<1> QED
  BY <1>2, <1>3, <1>4, <1>5, <1>6, Zenon DEF Effect

LEMMA PFacts ==
    ASSUME PInv
    PROVE  /\ mon \in [Procs -> MonType] /\ rec \in [Procs -> RecType] /\ os \in [Procs -> OSStates]
           /\ log \in [Procs -> Nat] /\ synced \in [Procs -> Nat] /\ intent \in [Procs -> Intents]
           /\ journal \in Seq(Events) /\ durable \in 0 .. Len(journal)
           /\ start \in StartType \cup {NoStart} /\ slots \in Nat
           /\ answer \in [Requests -> Procs \cup {0}] /\ status \in {"up", "starting", "down"}
           /\ DiskTypes /\ JournalInv /\ OrderInv
           /\ \A p \in Procs : Watched(p) /\ Logged(p)
  BY Zenon DEF PInv, Types, DiskTypes, MemoryTypes, QuietInv

LEMMA ProcFacts ==
    ASSUME PInv, NEW p \in Procs
    PROVE  /\ mon[p] \in MonType /\ mon[p].child \in BOOLEAN /\ mon[p].valid \in BOOLEAN
           /\ mon[p].idle \in Nat /\ mon[p].round \in Nat /\ mon[p].final \in BOOLEAN
           /\ rec[p] \in RecType /\ rec[p].running \in BOOLEAN /\ rec[p].bytes \in Nat
           /\ os[p] \in OSStates /\ log[p] \in Nat /\ synced[p] \in Nat /\ intent[p] \in Intents
           /\ Outputs(p) \in Nat
<1>1. /\ mon[p] \in MonType /\ rec[p] \in RecType /\ os[p] \in OSStates
      /\ log[p] \in Nat /\ synced[p] \in Nat /\ intent[p] \in Intents
  BY PFacts, Zenon
<1>2. /\ mon[p].child \in BOOLEAN /\ mon[p].valid \in BOOLEAN
      /\ mon[p].idle \in Nat /\ mon[p].round \in Nat /\ mon[p].final \in BOOLEAN
  BY <1>1, Zenon DEF MonType
<1>3. rec[p].running \in BOOLEAN /\ rec[p].bytes \in Nat
  BY <1>1, Zenon DEF RecType
<1>4. Outputs(p) \in Nat
  <2>1. 0 \in Nat /\ journal \in Seq(Events)
    BY PFacts
  <2> QED
    BY <2>1, CountFacts, Zenon
<1> QED
  BY <1>1, <1>2, <1>3, <1>4

(* Those that only go on to another step. *)
LEMMA MonitorPlainSteps ==
    ASSUME PInv, NEW p \in Procs,
           \/ MonitorOpen(p) \/ MonitorGoesOn(p) \/ MonitorReadFails(p) \/ MonitorAppendFails(p)
           \/ MonitorTryWait(p) \/ MonitorTryWaitFails(p) \/ MonitorIdentity(p)
           \/ MonitorIdentityKept(p) \/ MonitorExitFile(p) \/ MonitorAlive(p)
    PROVE  PInv'
<1> DEFINE ToStep(s, b) ==
               \/ mon' = [mon EXCEPT ![p].step = s]
               \/ mon' = [mon EXCEPT ![p].step = s, ![p].valid = b]
               \/ mon' = [mon EXCEPT ![p].step = s, ![p].final = TRUE]
               \/ mon' = [mon EXCEPT ![p].step = s, ![p].final = TRUE, ![p].valid = FALSE]
<1>1. /\ MonitorOnly /\ UNCHANGED <<synced, os>> /\ mon[p].step \notin {"none", "lost"}
      /\ \E s \in Plain, b \in BOOLEAN : ToStep(s, b)
  <2>0. mon[p].child \in BOOLEAN
    BY ProcFacts, Zenon
  <2> USE DEF Mon, Go, FinalDrain, kernel, disk, rest, MonitorOnly, Plain
  <2>1. CASE MonitorOpen(p)
    BY <2>0, <2>1, Zenon DEF MonitorOpen
  <2>2. CASE MonitorGoesOn(p)
    BY <2>2, Zenon DEF MonitorGoesOn
  <2>3. CASE MonitorReadFails(p)
    BY <2>3, Zenon DEF MonitorReadFails
  <2>4. CASE MonitorAppendFails(p)
    BY <2>4, Zenon DEF MonitorAppendFails
  <2>5. CASE MonitorTryWait(p)
    BY <2>5, Zenon DEF MonitorTryWait
  <2>6. CASE MonitorTryWaitFails(p)
    BY <2>6, Zenon DEF MonitorTryWaitFails
  <2>7. CASE MonitorIdentity(p)
    BY <2>7, Zenon DEF MonitorIdentity
  <2>8. CASE MonitorIdentityKept(p)
    BY <2>8, Zenon DEF MonitorIdentityKept
  <2>9. CASE MonitorExitFile(p)
    BY <2>9, Zenon DEF MonitorExitFile
  <2>10. CASE MonitorAlive(p)
    BY <2>10, Zenon DEF MonitorAlive
  <2> HIDE DEF ToStep
  <2> QED
    BY <2>1, <2>2, <2>3, <2>4, <2>5, <2>6, <2>7, <2>8, <2>9, <2>10, Zenon
<1>2. PICK s \in Plain, b \in BOOLEAN : ToStep(s, b)
  BY <1>1, Zenon
<1>3. s \in MonSteps /\ mon \in [Procs -> MonType] /\ "no" \in {"no", "sent", "over"}
  BY <1>2, PFacts, Zenon DEF Plain, MonSteps
<1>4. /\ mon' \in [Procs -> MonType] /\ \A q \in Procs \ {p} : mon'[q] = mon[q]
      /\ mon'[p].step = s /\ mon'[p].idle = mon[p].idle
  BY <1>2, <1>3, MonEffects, Zenon
<1>5. Tame
  BY <1>1, SameOS, Zenon
<1> QED
  BY <1>1, <1>2, <1>4, <1>5, PlainMoves, Zenon

(* Those that send a signal. *)
LEMMA MonitorSignals ==
    ASSUME PInv, NEW p \in Procs, MonitorTimeout(p) \/ MonitorKill(p) \/ MonitorFail(p)
    PROVE  PInv'
<1> DEFINE Ok(s) == /\ s \in OSStates \ {"none"} /\ os' = [os EXCEPT ![p] = s]
                    /\ s \in Wrapped => os[p] \in Wrapped
                    /\ os[p] \in Silent => s \in Silent
<1>0. mon[p].step # "none" => os[p] # "none"
  BY Zenon DEF PInv, RunInv
<1>f. os[p] \in OSStates /\ os \in [Procs -> OSStates] /\ mon \in [Procs -> MonType]
  BY ProcFacts, PFacts, Zenon
<1>i. TRUE \in Identity(p) => os[p] \in {"run", "marked", "dying"}
  BY <1>f, Zenon DEF Identity, Wrapped, OSStates
<1>t. TRUE \in Identity(p) => \A s \in Terminated(p) : s \in OSStates \ {"none"} /\ (s \in Wrapped => os[p] \in Wrapped)
  BY <1>i DEF Terminated, Wrapped, OSStates
<1>1. /\ MonitorOnly /\ UNCHANGED synced /\ mon[p].step \notin {"none", "lost"}
      /\ \E s \in Plain, t \in {"no", "sent", "over"} :
            \/ mon' = [mon EXCEPT ![p].step = s]
            \/ mon' = [mon EXCEPT ![p].step = s, ![p].timeout = t]
  BY Zenon DEF MonitorTimeout, MonitorKill, MonitorFail, Mon, Go, disk, rest, MonitorOnly, Plain
<1>2. \E s : Ok(s)
  <2>0. os[p] # "none"
    BY <1>0, <1>1, Zenon
  <2>1. CASE MonitorTimeout(p)
    <3>1. PICK s \in Terminated(p) : os' = [os EXCEPT ![p] = s] /\ TRUE \in Identity(p)
      BY <2>1, Zenon DEF MonitorTimeout
    <3> QED
      BY <1>i, <1>t, <3>1, Zenon DEF Silent
  <2>2. CASE MonitorKill(p)
    <3>1. PICK same \in Identity(p) : os' = [os EXCEPT ![p] = IF same THEN "dying" ELSE os[p]]
      BY <2>2, Zenon DEF MonitorKill
    <3>2. CASE same
      <4>1. same = TRUE
        BY <3>1, <3>2 DEF Identity
      <4>2. os' = [os EXCEPT ![p] = "dying"] /\ os[p] \in {"run", "marked", "dying"}
        BY <1>i, <3>1, <3>2, <4>1, Zenon
      <4> QED
        BY <4>2, Zenon DEF OSStates, Wrapped, Silent
    <3>3. CASE ~same
      BY <1>f, <2>0, <3>1, <3>3, Zenon
    <3> QED
      BY <3>2, <3>3, Zenon
  <2>3. CASE MonitorFail(p)
    <3>1. \/ os' = [os EXCEPT ![p] = os[p]]
          \/ os' = [os EXCEPT ![p] = "dying"] /\ os[p] \in Wrapped
          \/ TRUE \in Identity(p) /\ \E s \in Terminated(p) : os' = [os EXCEPT ![p] = s]
      <4>1. CASE mon[p].child
        BY <2>3, <4>1, Zenon DEF MonitorFail
      <4>2. CASE ~mon[p].child
        <5>1. PICK same \in Identity(p) :
                 \E s \in IF same THEN Terminated(p) \ Wrapped ELSE {os[p]} : os' = [os EXCEPT ![p] = s]
          BY <2>3, <4>2, Zenon DEF MonitorFail
        <5>2. same \in BOOLEAN
          BY <5>1, Zenon DEF Identity
        <5> QED
          BY <5>1, <5>2, Zenon
      <4> QED
        BY <4>1, <4>2, Zenon
    <3>2. CASE os' = [os EXCEPT ![p] = os[p]]
      BY <1>f, <2>0, <3>2, Zenon
    <3>3. CASE os' = [os EXCEPT ![p] = "dying"] /\ os[p] \in Wrapped
      BY <3>3, Zenon DEF OSStates, Wrapped, Silent
    <3>4. CASE TRUE \in Identity(p) /\ \E s \in Terminated(p) : os' = [os EXCEPT ![p] = s]
      BY <1>i, <1>t, <3>4, Zenon DEF Silent
    <3> QED
      BY <3>1, <3>2, <3>3, <3>4, Zenon
  <2> QED
    BY <2>1, <2>2, <2>3, Zenon
<1>3. Tame
  BY <1>0, <1>1, <1>2, OneTame, Zenon
<1>4. PICK s \in Plain, t \in {"no", "sent", "over"} :
            \/ mon' = [mon EXCEPT ![p].step = s]
            \/ mon' = [mon EXCEPT ![p].step = s, ![p].timeout = t]
  BY <1>1, Zenon
<1>5. s \in MonSteps /\ TRUE \in BOOLEAN
  BY <1>4, Zenon DEF Plain, MonSteps
<1>6. /\ mon' \in [Procs -> MonType] /\ \A q \in Procs \ {p} : mon'[q] = mon[q]
      /\ mon'[p].step = s /\ mon'[p].idle = mon[p].idle
  BY <1>f, <1>4, <1>5, MonEffects, Zenon
<1> QED
  BY <1>1, <1>3, <1>4, <1>6, PlainMoves, Zenon

(* Those of the drain. *)
LEMMA MonitorReads ==
    ASSUME PInv, NEW p \in Procs, MonitorRead(p)
    PROVE  PInv'
<1>1. /\ MonitorOnly /\ UNCHANGED os /\ mon[p].step \notin {"none", "lost"}
      /\ mon' = [mon EXCEPT ![p].step = "append"] /\ synced' = [synced EXCEPT ![p] = log[p]]
      /\ log[p] > rec[p].bytes /\ UNCHANGED <<log, rec>>
  BY Zenon DEF MonitorRead, Mon, Go, kernel, rest, MonitorOnly
<1>2. "append" \in MonSteps /\ TRUE \in BOOLEAN /\ "no" \in {"no", "sent", "over"} /\ mon \in [Procs -> MonType]
  BY PFacts, Zenon DEF MonSteps
<1>3. /\ mon' \in [Procs -> MonType] /\ \A q \in Procs \ {p} : mon'[q] = mon[q]
      /\ mon'[p].step = "append" /\ mon'[p].idle = mon[p].idle
  BY <1>1, <1>2, MonEffects, Zenon
<1>4. LogsGrow
  <2>1. log \in [Procs -> Nat] /\ synced \in [Procs -> Nat]
    BY PFacts, Zenon
  <2>2. \A q \in Procs : synced[q] <= log[q]
    BY PFacts, Zenon DEF Logged
  <2> QED
    BY <1>1, <2>1, <2>2 DEF LogsGrow
<1>5. Tame
  BY <1>1, SameOS, Zenon
<1>6. Watched(p)'
  <2>1. rec[p].bytes < synced'[p]
    <3>1. synced'[p] = log[p]
      BY <1>1, PFacts, Zenon
    <3> QED
      BY <1>1, <3>1, ProcFacts
  <2>2. Watched(p)
    BY PFacts, Zenon
  <2> QED
    BY <1>1, <1>3, <2>1, <2>2, Zenon DEF Watched
<1>7. mon'[p].step \notin {"none", "lost"}
  BY <1>3, Zenon
<1> QED
  BY <1>1, <1>3, <1>4, <1>5, <1>6, <1>7, MonitorMoves, Zenon

LEMMA MonitorQuiets ==
    ASSUME PInv, NEW p \in Procs, MonitorQuiet(p)
    PROVE  PInv'
<1> DEFINE s == IF mon[p].final THEN "group" ELSE "probe"
<1>1. /\ MonitorOnly /\ UNCHANGED <<os, synced, log, rec>> /\ mon[p].step \notin {"none", "lost"}
      /\ mon' = [mon EXCEPT ![p].step = s] /\ log[p] = rec[p].bytes
  BY Zenon DEF MonitorQuiet, Mon, Go, kernel, disk, rest, MonitorOnly
<1>2. s \in MonSteps /\ TRUE \in BOOLEAN /\ "no" \in {"no", "sent", "over"} /\ mon \in [Procs -> MonType]
  BY PFacts, Zenon DEF MonSteps
<1>3. /\ mon' \in [Procs -> MonType] /\ \A q \in Procs \ {p} : mon'[q] = mon[q]
      /\ mon'[p].step = s /\ mon'[p].idle = mon[p].idle
  BY <1>1, <1>2, MonEffects, Zenon
<1>4. Tame /\ LogsGrow
  BY <1>1, SameOS, SameLogs, Zenon
<1>5. mon'[p].step \notin {"none", "lost", "append", "exit"}
  BY <1>3, Zenon
<1>6. Watched(p)'
  BY <1>1, <1>3, <1>5, PFacts, Zenon DEF Watched
<1> QED
  BY <1>1, <1>3, <1>4, <1>5, <1>6, MonitorMoves, Zenon

(* The rounds of the final drain. *)
LEMMA RoundFacts ==
    ASSUME PInv, NEW p \in Procs
    PROVE  /\ NextRound(p) \in [Procs -> MonType]
           /\ \A q \in Procs \ {p} : NextRound(p)[q] = mon[q]
           /\ NextRound(p)[p].step \in {"drain", "exit"} /\ NextRound(p)[p].idle = mon[p].idle
<1> DEFINE s == IF mon[p].round + 1 < DrainRounds THEN "drain" ELSE "exit"
           m == [mon[p] EXCEPT !.step = s, !.round = mon[p].round + 1]
<1>1. mon \in [Procs -> MonType] /\ mon[p] \in MonType
  BY PFacts, ProcFacts, Zenon
<1>2. s \in MonSteps /\ s \in {"drain", "exit"}
  BY Zenon DEF MonSteps
<1>3. mon[p].round + 1 \in Nat
  BY ProcFacts
<1> HIDE DEF s
<1>4. m \in MonType /\ m.step = s /\ m.idle = mon[p].idle
  BY <1>1, <1>2, <1>3, Zenon DEF MonType
<1>5. NextRound(p) = [mon EXCEPT ![p] = m]
  BY <1>1, Zenon DEF NextRound, s
<1> HIDE DEF m
<1>6. /\ [mon EXCEPT ![p] = m] \in [Procs -> MonType] /\ [mon EXCEPT ![p] = m][p] = m
      /\ \A q \in Procs \ {p} : [mon EXCEPT ![p] = m][q] = mon[q]
  BY <1>1, <1>4, Zenon
<1> QED
  BY <1>2, <1>4, <1>5, <1>6, Zenon

LEMMA RoundEnds ==
    ASSUME PInv, NEW p \in Procs, NEW n \in Nat, mon' = [NextRound(p) EXCEPT ![p].idle = n]
    PROVE  /\ mon' \in [Procs -> MonType] /\ \A q \in Procs \ {p} : mon'[q] = mon[q]
           /\ mon'[p].step \in {"drain", "exit"} /\ mon'[p].idle = n
<1> DEFINE f == NextRound(p)
           m == [f[p] EXCEPT !.idle = n]
<1>1. /\ f \in [Procs -> MonType] /\ \A q \in Procs \ {p} : f[q] = mon[q]
      /\ f[p].step \in {"drain", "exit"}
  BY RoundFacts, Zenon
<1> HIDE DEF f
<1>2. f[p] \in MonType
  BY <1>1, Zenon
<1>3. m \in MonType /\ m.step = f[p].step /\ m.idle = n
  BY <1>2, Zenon DEF MonType
<1>4. mon' = [f EXCEPT ![p] = m]
  BY <1>1, Zenon DEF f
<1> HIDE DEF m
<1>5. mon' \in [Procs -> MonType] /\ mon'[p] = m /\ \A q \in Procs \ {p} : mon'[q] = f[q]
  BY <1>1, <1>3, <1>4, Zenon
<1> QED
  BY <1>1, <1>3, <1>5, Zenon

LEMMA MonitorGroups ==
    ASSUME PInv, NEW p \in Procs, MonitorGroup(p)
    PROVE  PInv'
<1>1. /\ MonitorOnly /\ UNCHANGED <<os, synced, log, rec>> /\ mon[p].step = "group"
  BY Zenon DEF MonitorGroup, Mon, kernel, disk, rest, MonitorOnly
<1>2. Tame /\ LogsGrow /\ Watched(p) /\ mon \in [Procs -> MonType] /\ mon[p] \in MonType /\ mon[p].idle \in Nat
  BY <1>1, SameOS, SameLogs, PFacts, ProcFacts, Zenon
<1>3. PICK alive \in GroupAlive(p) :
          mon' = CASE alive -> [NextRound(p) EXCEPT ![p].idle = 0]
                   [] ~alive /\ mon[p].idle + 1 = IdleRounds ->
                         [mon EXCEPT ![p].step = "exit", ![p].idle = IdleRounds]
                   [] OTHER -> [NextRound(p) EXCEPT ![p].idle = @ + 1]
  BY Zenon DEF MonitorGroup
<1>4. alive \in BOOLEAN /\ (~alive => os[p] \in Silent)
  <2>1. os[p] \in OSStates
    BY ProcFacts, Zenon
  <2>2. os[p] # "none"
    BY <1>1, Zenon DEF PInv, RunInv
  <2> QED
    BY <1>3, <2>1, <2>2, Zenon DEF GroupAlive, Wrapped, OSStates, Silent
<1> DEFINE Done == /\ mon' \in [Procs -> MonType] /\ \A q \in Procs \ {p} : mon'[q] = mon[q]
                   /\ mon'[p].step \in {"drain", "exit"} /\ Watched(p)'
<1>5. ASSUME alive PROVE Done
  <2>1. mon' = [NextRound(p) EXCEPT ![p].idle = 0] /\ 0 \in Nat
    BY <1>3, <1>5
  <2>2. /\ mon' \in [Procs -> MonType] /\ \A q \in Procs \ {p} : mon'[q] = mon[q]
        /\ mon'[p].step \in {"drain", "exit"} /\ mon'[p].idle = 0
    BY <2>1, RoundEnds, Zenon
  <2>3. ~(mon'[p].idle > 0) /\ mon'[p].idle # IdleRounds
    BY <2>2, ProcessAssumption
  <2> QED
    BY <2>2, <2>3, Zenon DEF Watched
<1>6. ASSUME ~alive, mon[p].idle + 1 = IdleRounds PROVE Done
  <2> DEFINE m == [mon[p] EXCEPT !.step = "exit", !.idle = IdleRounds]
  <2>1. mon' = [mon EXCEPT ![p].step = "exit", ![p].idle = IdleRounds]
    BY <1>3, <1>6, Zenon
  <2>2. mon' = [mon EXCEPT ![p] = m]
    BY <1>2, <2>1, Zenon
  <2>3. IdleRounds \in Nat /\ mon[p].idle > 0
    BY <1>2, <1>6, ProcessAssumption
  <2>4. m \in MonType /\ m.step = "exit" /\ m.idle = IdleRounds
    BY <1>2, <2>3, Zenon DEF MonType, MonSteps
  <2>5. mon' \in [Procs -> MonType] /\ mon'[p] = m /\ \A q \in Procs \ {p} : mon'[q] = mon[q]
    BY <1>2, <2>2, <2>4, MonSet, Zenon
  <2>6. rec[p].bytes = log[p] /\ os[p] \in Silent
    BY <1>1, <1>2, <2>3, Zenon DEF Watched
  <2> HIDE DEF m
  <2> QED
    BY <1>1, <2>4, <2>5, <2>6, Zenon DEF Watched
<1>7. ASSUME ~alive, mon[p].idle + 1 # IdleRounds PROVE Done
  <2> DEFINE f == NextRound(p)
  <2>1. mon' = [f EXCEPT ![p].idle = f[p].idle + 1]
    BY <1>3, <1>7
  <2>2. f[p].idle = mon[p].idle
    BY RoundFacts, Zenon
  <2>3. mon' = [NextRound(p) EXCEPT ![p].idle = mon[p].idle + 1] /\ mon[p].idle + 1 \in Nat
    BY <1>2, <2>1, <2>2
  <2>4. /\ mon' \in [Procs -> MonType] /\ \A q \in Procs \ {p} : mon'[q] = mon[q]
        /\ mon'[p].step \in {"drain", "exit"} /\ mon'[p].idle = mon[p].idle + 1
    BY <2>3, RoundEnds, Zenon
  <2>5. mon'[p].idle # IdleRounds /\ os'[p] \in Silent
    BY <1>1, <1>4, <1>7, <2>4, Zenon
  <2> HIDE DEF f
  <2> QED
    BY <2>4, <2>5, Zenon DEF Watched
<1> HIDE DEF Done
<1>8. Done
  BY <1>4, <1>5, <1>6, <1>7, Zenon
<1>9. mon[p].step \notin {"none", "lost"} /\ mon'[p].step \notin {"none", "lost"}
  BY <1>1, <1>8, Zenon DEF Done
<1> QED
  BY <1>1, <1>2, <1>8, <1>9, MonitorMoves, Zenon DEF Done

-------------------------------------------------------------------------------
(* The steps that end a monitor, and its appends *)

LEMMA HoldersFinite ==
    IsFiniteSet(Holders) /\ Cardinality(Holders) \in Nat
<1>1. Holders \subseteq Procs
  BY Zenon DEF Holders
<1> QED
  BY <1>1, ProcsFacts, FS_Subset, FS_CardinalityType, Zenon

LEMMA SlotFacts ==
    ASSUME PInv, status = "up"
    PROVE  slots = Cardinality(Holders) + (IF Starting THEN 1 ELSE 0)
  BY Zenon DEF PInv, SlotInv, SlotsMatch, Holders, Starting

(* No start is under way: the commit lock is free. *)
LEMMA IdleFacts ==
    ASSUME start = NoStart
    PROVE  ~Starting /\ start.step = "idle"
  BY DEF Starting, NoStart

LEMMA SlotReleased ==
    ASSUME PInv, status = "up", start = NoStart, NEW p \in Holders, ReleaseSlot,
           UNCHANGED start, Holders' = Holders \ {p}
    PROVE  SlotsMatch' /\ slots' \in Nat
<1>1. slots = Cardinality(Holders) /\ ~Starting
  <2>1. ~Starting /\ slots = Cardinality(Holders) + (IF Starting THEN 1 ELSE 0) /\ Cardinality(Holders) \in Nat
    BY SlotFacts, IdleFacts, HoldersFinite, Zenon
  <2> QED
    BY <2>1
<1>2. Cardinality(Holders \ {p}) = Cardinality(Holders) - 1 /\ Cardinality(Holders \ {p}) \in Nat
  BY HoldersFinite, FS_RemoveElement, FS_CardinalityType
<1>3. slots' = Cardinality(Holders') + 0 /\ slots' \in Nat
  BY <1>1, <1>2, HoldersFinite DEF ReleaseSlot
<1>4. Holders' = {q \in Procs : rec'[q].running \/ mon'[q].step = "lost"}
  BY Zenon DEF Holders, Procs
<1>5. ~(start'.step \in {"intent", "spawned", "pid"})
  BY <1>1, Zenon DEF Starting
<1> QED
  BY <1>3, <1>4, <1>5, Zenon DEF SlotsMatch, Procs

LEMMA NoMonFacts ==
    NoMon \in MonType /\ NoMon.step = "none" /\ NoMon.idle = 0 /\ ~(NoMon.idle > 0)
  BY DEF NoMon, MonType, MonSteps

LEMMA MonitorEnds ==
    ASSUME PInv, NEW p \in Procs, status = "up", start = NoStart, mon[p].step # "none",
           UNCHANGED <<status, os, log, synced, intent, start, answer>>,
           rec' \in [Procs -> RecType], \A q \in Procs \ {p} : rec'[q] = rec[q], ~rec'[p].running,
           Ends(p), ReleaseSlot,
           \/ UNCHANGED <<journal, durable, quiet>>
           \/ /\ AppendSynced(ProcessExited(p))
              /\ \/ UNCHANGED quiet
                 \/ quiet' = quiet \cup {p} /\ mon[p].step = "exit" /\ mon[p].idle = IdleRounds
    PROVE  PInv'
<1>1. /\ status = "up" /\ Started(p) /\ ~Exited(p) /\ rec[p].bytes = Outputs(p)
      /\ rec[p].running <=> mon[p].step # "lost"
  BY Zenon DEF PInv, SlotInv
<1>2. /\ mon' \in [Procs -> MonType] /\ \A q \in Procs \ {p} : mon'[q] = mon[q]
      /\ mon'[p].step = "none" /\ mon'[p].idle = 0 /\ ~(mon'[p].idle > 0)
  BY NoMonFacts, PFacts, MonSet, Zenon DEF Ends
<1>3. ProcessExited(p) \in Events /\ ProcessExited(p).kind = "exited" /\ ProcessExited(p).proc = p
  BY DEF ProcessExited, Events
<1>4. /\ JournalInv' /\ OrderInv' /\ journal' \in Seq(Events) /\ durable' \in 0 .. Len(journal')
      /\ \A q \in Procs : /\ Started(q)' <=> Started(q) 
                          /\ Exited(q)' <=> Exited(q) \/ (q = p /\ ~UNCHANGED journal)
                          /\ Outputs(q)' = Outputs(q)
  <2>1. CASE UNCHANGED <<journal, durable, quiet>>
    <3>1. JournalInv' /\ OrderInv'
      <4>1. \A q \in Procs : synced[q] <= synced[q]
        BY ProcFacts
      <4>2. \A r \in Requests : answer[r] # 0 => \E k \in DOMAIN journal : journal[k] = ProcessStarted(r, answer[r])
        BY PFacts, Zenon DEF JournalInv
      <4> QED
        BY <2>1, <4>1, <4>2, PFacts, JournalSame, Zenon
    <3>2. UNCHANGED journal
      BY <2>1, Zenon
    <3>3. \A q : (Started(q)' <=> Started(q)) /\ (Exited(q)' <=> Exited(q)) /\ Outputs(q)' = Outputs(q)
      BY <3>2, SameFacts, Zenon
    <3> QED
      BY <2>1, <3>1, <3>2, <3>3, PFacts, Zenon
  <2>2. CASE AppendSynced(ProcessExited(p))
    <3>0. journal' = Append(journal, ProcessExited(p)) /\ durable' = Len(journal) + 1
      BY <2>2, Zenon DEF AppendSynced
    <3>1. JournalInv' /\ OrderInv' /\ journal' \in Seq(Events) /\ durable' \in 0 .. Len(journal')
      BY <1>1, <1>3, <3>0, PFacts, JournalGrows, Zenon
    <3>2. ~UNCHANGED journal
      <4>1. Len(journal') = Len(journal) + 1 /\ Len(journal) \in Nat
        BY <1>3, <3>0, PFacts, AppendFacts, Zenon
      <4> QED
        BY <4>1
    <3>3. ASSUME NEW q \in Procs
          PROVE  /\ Started(q)' <=> Started(q)
                 /\ Outputs(q)' = Outputs(q)
                 /\ Exited(q)' <=> Exited(q) \/ q = p
      BY <1>3, <3>0, PFacts, AppendCounts, Zenon
    <3> QED
      BY <3>1, <3>2, <3>3, Zenon
  <2> QED
    BY <2>1, <2>2, Zenon
<1>5. Holders' = Holders \ {p} /\ p \in Holders
  <2>1. p \in Holders
    BY <1>1, Zenon DEF Holders
  <2>2. Holders' = {q \in Procs : rec'[q].running \/ mon'[q].step = "lost"}
    BY Zenon DEF Holders, Procs
  <2>3. ~(mon'[p].step = "lost")
    BY <1>2, Zenon
  <2> QED
    BY <1>2, <2>1, <2>2, <2>3, Zenon DEF Holders
<1>6. SlotsMatch' /\ slots' \in Nat
  BY <1>5, SlotReleased, Zenon
<1>7. Types'
  BY <1>2, <1>4, <1>6, PFacts, Zenon DEF Types, DiskTypes, MemoryTypes
<1>8. StartInv'
  BY Zenon DEF StartInv, NoStart
<1>9. RunInv'
  <2>1. SUFFICES ASSUME NEW q \in Procs
                 PROVE  /\ os[q] \in Wrapped /\ ~Started(q) =>
                              /\ intent[q] \in {"nopid", "pid"}
                              /\ status = "up" => start # NoStart /\ start.proc = q
                        /\ intent[q] = "removed" => Started(q)
                        /\ os[q] = "none" => ~Started(q) /\ ~rec'[q].running /\ mon'[q].step = "none"
    BY <1>4, Zenon DEF RunInv, Procs
  <2>2. /\ os[q] \in Wrapped /\ ~Started(q) =>
              /\ intent[q] \in {"nopid", "pid"}
              /\ status = "up" => start # NoStart /\ start.proc = q
        /\ intent[q] = "removed" => Started(q)
        /\ os[q] = "none" => ~Started(q) /\ ~rec[q].running /\ mon[q].step = "none"
    BY <2>1, Zenon DEF PInv, RunInv
  <2>3. CASE q = p
    BY <1>2, <2>2, <2>3, Zenon
  <2>4. CASE q # p
    BY <1>2, <2>2, <2>4, Zenon
  <2> QED
    BY <2>3, <2>4, Zenon
<1>10. SlotInv'
  <2>1. ASSUME NEW q \in Procs, mon'[q].step # "none"
        PROVE  /\ status' = "up" /\ Started(q)' /\ ~Exited(q)'
               /\ rec'[q].running <=> mon'[q].step # "lost"
               /\ rec'[q].bytes = Outputs(q)'
    <3>1. q # p /\ mon'[q] = mon[q] /\ rec'[q] = rec[q]
      BY <1>2, <2>1, Zenon
    <3>2. /\ Started(q) /\ ~Exited(q)
          /\ rec[q].running <=> mon[q].step # "lost"
          /\ rec[q].bytes = Outputs(q)
      BY <2>1, <3>1, Zenon DEF PInv, SlotInv
    <3> QED
      BY <1>4, <3>1, <3>2, Zenon
  <2> QED
    BY <1>6, <2>1, Zenon DEF SlotInv, Procs
<1>11. QuietInv'
  <2>1. ASSUME NEW q \in Procs PROVE Watched(q)'
    <3>1. CASE q = p
      BY <1>2, <3>1, ProcessAssumption DEF Watched
    <3>2. CASE q # p
      BY <1>2, <3>2, PFacts, Zenon DEF Watched
    <3> QED
      BY <3>1, <3>2, Zenon
  <2>2. ASSUME NEW q \in Procs PROVE Logged(q)'
    <3>1. Logged(q) /\ Watched(p)
      BY PFacts, Zenon
    <3>2. CASE q \in quiet
      BY <1>4, <3>1, <3>2, Zenon DEF Logged
    <3>3. CASE q \notin quiet'
      BY <1>4, <3>1, <3>3, Zenon DEF Logged
    <3>4. CASE q \notin quiet /\ q \in quiet'
      <4>1. q = p /\ mon[p].step = "exit" /\ mon[p].idle = IdleRounds /\ AppendSynced(ProcessExited(p))
        BY <3>4, Zenon
      <4>2. rec[p].bytes = log[p] /\ os[p] \in Silent
        BY <3>1, <4>1, ProcessAssumption DEF Watched
      <4>3. ~UNCHANGED journal
        <5>1. Len(journal') = Len(journal) + 1 /\ Len(journal) \in Nat
          BY <1>3, <4>1, PFacts, AppendFacts, Zenon DEF AppendSynced
        <5> QED
          BY <5>1
      <4> QED
        BY <1>1, <1>4, <3>1, <4>1, <4>2, <4>3, Zenon DEF Logged
    <3> QED
      BY <3>2, <3>3, <3>4, Zenon
  <2> QED
    BY <2>1, <2>2, Zenon DEF QuietInv, Procs
<1> QED
  BY <1>4, <1>7, <1>8, <1>9, <1>10, <1>11, Zenon DEF PInv

(* A record whose process no longer runs. *)
LEMMA StoppedFacts ==
    ASSUME PInv, NEW p \in Procs, Stopped(p)
    PROVE  /\ rec' \in [Procs -> RecType] /\ \A q \in Procs \ {p} : rec'[q] = rec[q]
           /\ ~rec'[p].running /\ rec'[p].bytes = rec[p].bytes
<1> DEFINE m == [rec[p] EXCEPT !.running = FALSE]
<1>1. rec \in [Procs -> RecType] /\ rec[p] \in RecType
  BY PFacts, ProcFacts, Zenon
<1>2. m \in RecType /\ ~m.running /\ m.bytes = rec[p].bytes
  BY <1>1, Zenon DEF RecType
<1>3. rec' = [rec EXCEPT ![p] = m]
  BY <1>1, Zenon DEF Stopped
<1> HIDE DEF m
<1> QED
  BY <1>1, <1>2, <1>3, Zenon

LEMMA MonitorExits ==
    ASSUME PInv, NEW p \in Procs, MonitorExit(p) \/ MonitorExitFails(p) \/ MonitorLost(p)
    PROVE  PInv'
<1>1. /\ status = "up" /\ start = NoStart /\ mon[p].step # "none"
      /\ UNCHANGED <<status, os, log, synced, intent, start, answer>>
      /\ Ends(p) /\ ReleaseSlot
      /\ \/ UNCHANGED <<journal, durable, quiet>>
         \/ /\ AppendSynced(ProcessExited(p))
            /\ \/ UNCHANGED quiet
               \/ quiet' = quiet \cup {p} /\ mon[p].step = "exit" /\ mon[p].idle = IdleRounds
  BY Zenon DEF MonitorExit, MonitorExitFails, MonitorLost, Mon, CommitLockFree, kernel, disk
<1>2. rec' \in [Procs -> RecType] /\ (\A q \in Procs \ {p} : rec'[q] = rec[q]) /\ ~rec'[p].running
  <2>1. CASE Stopped(p)
    BY <2>1, StoppedFacts, Zenon
  <2>2. CASE mon[p].step = "lost" /\ UNCHANGED rec
    <3>1. ~rec[p].running
      BY <1>1, <2>2, Zenon DEF PInv, SlotInv
    <3> QED
      BY <2>2, <3>1, PFacts, Zenon
  <2> QED
    BY <2>1, <2>2, Zenon DEF MonitorExit, MonitorExitFails, MonitorLost, Mon
<1> QED
  BY <1>1, <1>2, MonitorEnds, Zenon

(* Records and monitors change, and the process of the record is still known as it was. *)
LEMMA MonitorFails ==
    ASSUME PInv, NEW p \in Procs, MonitorFailed(p)
    PROVE  PInv'
<1>1. /\ status = "up" /\ mon[p].step = "failed" /\ Stopped(p) /\ mon' = [mon EXCEPT ![p].step = "lost"]
      /\ UNCHANGED <<status, os, log, synced, intent, journal, durable, slots, start, answer, quiet>>
  BY Zenon DEF MonitorFailed, Mon, Go, kernel, disk, rest
<1>2. "lost" \in MonSteps /\ TRUE \in BOOLEAN /\ "no" \in {"no", "sent", "over"}
  BY Zenon DEF MonSteps
<1>3. /\ mon' \in [Procs -> MonType] /\ \A q \in Procs \ {p} : mon'[q] = mon[q]
      /\ mon'[p].step = "lost" /\ mon'[p].idle = mon[p].idle
  BY <1>1, <1>2, MonEffects, PFacts, Zenon
<1>4. /\ rec' \in [Procs -> RecType] /\ \A q \in Procs \ {p} : rec'[q] = rec[q]
      /\ ~rec'[p].running /\ rec'[p].bytes = rec[p].bytes
  BY <1>1, StoppedFacts, Zenon
<1>5. \A q : (Started(q)' <=> Started(q)) /\ (Exited(q)' <=> Exited(q)) /\ Outputs(q)' = Outputs(q)
  BY <1>1, SameFacts, Zenon
<1>6. /\ Started(p) /\ ~Exited(p) /\ rec[p].running /\ rec[p].bytes = Outputs(p)
      /\ \A q \in Procs : mon[q].step # "none" =>
            /\ Started(q) /\ ~Exited(q) /\ rec[q].bytes = Outputs(q)
            /\ rec[q].running <=> mon[q].step # "lost"
  BY <1>1, Zenon DEF PInv, SlotInv
<1>7. Types'
  BY <1>1, <1>3, <1>4, PFacts, Zenon DEF Types, DiskTypes, MemoryTypes
<1>8. JournalInv' /\ OrderInv'
  <2>1. \A q \in Procs : synced[q] <= synced[q]
    BY ProcFacts
  <2>2. \A r \in Requests : answer[r] # 0 => \E k \in DOMAIN journal : journal[k] = ProcessStarted(r, answer[r])
    BY PFacts, Zenon DEF JournalInv
  <2> QED
    BY <1>1, <2>1, <2>2, PFacts, JournalSame, Zenon
<1>9. StartInv'
  <2>1. start # NoStart => start.proc \in Procs
    BY PFacts DEF StartType
  <2>2. start # NoStart => start.proc # p
    BY <1>1, Zenon DEF PInv, StartInv
  <2>3. start # NoStart => rec'[start.proc] = rec[start.proc] /\ mon'[start.proc] = mon[start.proc]
    BY <1>3, <1>4, <2>1, <2>2, Zenon
  <2>4. StartInv
    BY Zenon DEF PInv
  <2> QED
    BY <1>1, <1>5, <2>3, <2>4, Zenon DEF StartInv, Starting
<1>10. RunInv'
  <2>1. SUFFICES ASSUME NEW q \in Procs
                 PROVE  os[q] = "none" => ~rec'[q].running /\ mon'[q].step = "none"
    BY <1>1, <1>5, Zenon DEF PInv, RunInv, Procs
  <2>2. os[q] = "none" => ~rec[q].running /\ mon[q].step = "none"
    BY Zenon DEF PInv, RunInv
  <2> QED
    BY <1>1, <1>3, <1>4, <2>2, Zenon
<1>11. SlotInv'
  <2>1. {q \in Procs : rec'[q].running \/ mon'[q].step = "lost"} = {q \in Procs : rec[q].running \/ mon[q].step = "lost"}
    BY <1>3, <1>4, <1>6, Zenon
  <2>2. SlotsMatch'
    BY <1>1, <2>1, Zenon DEF PInv, SlotInv, SlotsMatch, Procs
  <2>3. ASSUME NEW q \in Procs, mon'[q].step # "none"
        PROVE  /\ status' = "up" /\ Started(q)' /\ ~Exited(q)'
               /\ rec'[q].running <=> mon'[q].step # "lost"
               /\ rec'[q].bytes = Outputs(q)'
    <3>1. CASE q = p
      BY <1>1, <1>3, <1>4, <1>5, <1>6, <3>1, Zenon
    <3>2. CASE q # p
      BY <1>1, <1>3, <1>4, <1>5, <1>6, <2>3, <3>2, Zenon
    <3> QED
      BY <3>1, <3>2, Zenon
  <2> QED
    BY <2>2, <2>3, Zenon DEF SlotInv, Procs
<1>12. QuietInv'
  <2>1. ASSUME NEW q \in Procs PROVE Watched(q)'
    <3>1. CASE q = p
      BY <1>1, <1>3, <3>1, PFacts, Zenon DEF Watched
    <3>2. CASE q # p
      BY <1>1, <1>3, <1>4, <3>2, PFacts, Zenon DEF Watched
    <3> QED
      BY <3>1, <3>2, Zenon
  <2>2. \A q \in Procs : Logged(q)'
    BY <1>1, <1>5, PFacts, Zenon DEF Logged
  <2> QED
    BY <2>1, <2>2, Zenon DEF QuietInv, Procs
<1> QED
  BY <1>7, <1>8, <1>9, <1>10, <1>11, <1>12, Zenon DEF PInv

LEMMA MonitorAppends ==
    ASSUME PInv, NEW p \in Procs, MonitorAppend(p)
    PROVE  PInv'
<1> DEFINE e == ProcessOutput(p, rec[p].bytes)
<1>1. /\ status = "up" /\ mon[p].step = "append" /\ start = NoStart
      /\ journal' = Append(journal, e) /\ durable' \in {durable, Len(journal) + 1}
      /\ rec' = [rec EXCEPT ![p].bytes = rec[p].bytes + 1]
      /\ UNCHANGED <<status, os, log, synced, intent, slots, start, answer, quiet>>
  <2>1. rec' = [rec EXCEPT ![p].bytes = @ + 1]
    BY Zenon DEF MonitorAppend
  <2>2. rec' = [rec EXCEPT ![p].bytes = rec[p].bytes + 1]
    BY <2>1, PFacts, Zenon
  <2> QED
    BY <2>2, Zenon DEF MonitorAppend, Mon, CommitLockFree, kernel, rest
<1>2. /\ Started(p) /\ ~Exited(p) /\ rec[p].running /\ rec[p].bytes = Outputs(p)
      /\ \A q \in Procs : mon[q].step # "none" =>
            /\ Started(q) /\ ~Exited(q) /\ rec[q].bytes = Outputs(q)
            /\ rec[q].running <=> mon[q].step # "lost"
  BY <1>1, Zenon DEF PInv, SlotInv
<1>3. rec[p].bytes < synced[p] /\ (mon[p].idle > 0 => os[p] \in Silent)
  BY <1>1, PFacts, Zenon DEF Watched
<1>4. e \in Events /\ e.kind = "output" /\ e.proc = p /\ e.offset = rec[p].bytes
  <2>1. rec[p].bytes \in Nat
    BY ProcFacts, Zenon
  <2> QED
    BY <2>1, Zenon DEF ProcessOutput, Events
<1> HIDE DEF e
<1>5. JournalInv' /\ OrderInv' /\ journal' \in Seq(Events) /\ durable' \in 0 .. Len(journal')
  BY <1>1, <1>2, <1>3, <1>4, PFacts, JournalGrows, Zenon
<1>6. ASSUME NEW q
      PROVE  /\ Started(q)' <=> Started(q)
             /\ Exited(q)' <=> Exited(q)
             /\ Outputs(q)' = IF q = p THEN Outputs(q) + 1 ELSE Outputs(q)
  BY <1>1, <1>4, PFacts, AppendCounts, Zenon
<1>7. /\ rec' \in [Procs -> RecType] /\ \A q \in Procs \ {p} : rec'[q] = rec[q]
      /\ rec'[p].running = rec[p].running /\ rec'[p].bytes = rec[p].bytes + 1
  <2> DEFINE m == [rec[p] EXCEPT !.bytes = rec[p].bytes + 1]
  <2>1. rec[p] \in RecType /\ rec \in [Procs -> RecType]
    BY PFacts, ProcFacts, Zenon
  <2>2. rec[p].bytes + 1 \in Nat
    BY ProcFacts
  <2>3. m \in RecType /\ m.running = rec[p].running /\ m.bytes = rec[p].bytes + 1
    BY <2>1, <2>2, Zenon DEF RecType
  <2>4. rec' = [rec EXCEPT ![p] = m]
    BY <1>1, <2>1, Zenon
  <2> HIDE DEF m
  <2> QED
    BY <2>1, <2>3, <2>4, Zenon
<1>8. /\ mon' \in [Procs -> MonType] /\ \A q \in Procs \ {p} : mon'[q] = mon[q]
      /\ mon'[p].step \in {"drain", "exit", "probe"}
      /\ mon'[p].idle = 0 \/ (mon'[p].idle = mon[p].idle /\ mon'[p].step = "probe")
  <2>1. CASE mon[p].final
    <3>1. mon' = [NextRound(p) EXCEPT ![p].idle = 0] /\ 0 \in Nat
      BY <2>1 DEF MonitorAppend
    <3> QED
      BY <3>1, RoundEnds, Zenon
  <2>2. CASE ~mon[p].final
    <3>1. mon' = [mon EXCEPT ![p].step = "probe"]
      BY <2>2, Zenon DEF MonitorAppend
    <3>2. "probe" \in MonSteps /\ TRUE \in BOOLEAN /\ "no" \in {"no", "sent", "over"}
      BY Zenon DEF MonSteps
    <3>3. /\ mon' \in [Procs -> MonType] /\ \A q \in Procs \ {p} : mon'[q] = mon[q]
          /\ mon'[p].step = "probe" /\ mon'[p].idle = mon[p].idle
      BY <3>1, <3>2, MonEffects, PFacts, Zenon
    <3> QED
      BY <3>3, Zenon
  <2> QED
    BY <2>1, <2>2, Zenon
<1>9. mon'[p].step \notin {"none", "lost", "append", "group"}
  BY <1>8, Zenon
<1>10. Types'
  BY <1>1, <1>5, <1>7, <1>8, PFacts, Zenon DEF Types, DiskTypes, MemoryTypes
<1>11. StartInv'
  BY <1>1, Zenon DEF StartInv, NoStart
<1>12. RunInv'
  <2>1. SUFFICES ASSUME NEW q \in Procs
                 PROVE  os[q] = "none" => ~rec'[q].running /\ mon'[q].step = "none"
    BY <1>1, <1>6, Zenon DEF PInv, RunInv, Procs
  <2>2. os[q] = "none" => ~rec[q].running /\ mon[q].step = "none"
    BY Zenon DEF PInv, RunInv
  <2> QED
    BY <1>1, <1>7, <1>8, <2>2, Zenon
<1>13. SlotInv'
  <2>1. {q \in Procs : rec'[q].running \/ mon'[q].step = "lost"} = {q \in Procs : rec[q].running \/ mon[q].step = "lost"}
    BY <1>2, <1>7, <1>8, Zenon
  <2>2. SlotsMatch'
    BY <1>1, <2>1, Zenon DEF PInv, SlotInv, SlotsMatch, Procs
  <2>3. ASSUME NEW q \in Procs, mon'[q].step # "none"
        PROVE  /\ status' = "up" /\ Started(q)' /\ ~Exited(q)'
               /\ rec'[q].running <=> mon'[q].step # "lost"
               /\ rec'[q].bytes = Outputs(q)'
    <3>1. CASE q = p
      BY <1>1, <1>2, <1>6, <1>7, <1>9, <3>1, Zenon
    <3>2. CASE q # p
      <4>1. mon'[q] = mon[q] /\ rec'[q] = rec[q] /\ Outputs(q)' = Outputs(q)
        BY <1>6, <1>7, <1>8, <3>2, Zenon
      <4>2. /\ Started(q) /\ ~Exited(q) /\ rec[q].bytes = Outputs(q)
            /\ rec[q].running <=> mon[q].step # "lost"
        BY <1>2, <2>3, <4>1, Zenon
      <4> QED
        BY <1>1, <1>6, <4>1, <4>2, Zenon
    <3> QED
      BY <3>1, <3>2, Zenon
  <2> QED
    BY <2>2, <2>3, Zenon DEF SlotInv, Procs
<1>14. QuietInv'
  <2>1. ASSUME NEW q \in Procs PROVE Watched(q)'
    <3>1. CASE q = p
      <4>1. mon'[p].idle = 0 => ~(mon'[p].idle > 0) /\ mon'[p].idle # IdleRounds
        BY ProcessAssumption
      <4>2. mon'[p].idle > 0 => os'[p] \in Silent
        BY <1>1, <1>3, <1>8, <4>1, Zenon
      <4>3. ~(mon'[p].step = "exit" /\ mon'[p].idle = IdleRounds)
        BY <1>8, <4>1, Zenon
      <4> QED
        BY <1>9, <3>1, <4>2, <4>3, Zenon DEF Watched
    <3>2. CASE q # p
      BY <1>1, <1>7, <1>8, <3>2, PFacts, Zenon DEF Watched
    <3> QED
      BY <3>1, <3>2, Zenon
  <2>2. ASSUME NEW q \in Procs PROVE Logged(q)'
    <3>1. Logged(q)
      BY PFacts, Zenon
    <3>2. Outputs(q)' <= synced[q] /\ synced[q] <= log[q]
      BY <1>2, <1>3, <1>6, <3>1, ProcFacts DEF Logged
    <3>3. q \in quiet => q # p
      BY <1>2, <3>1, Zenon DEF Logged
    <3> QED
      BY <1>1, <1>6, <3>1, <3>2, <3>3, Zenon DEF Logged
  <2> QED
    BY <2>1, <2>2, Zenon DEF QuietInv, Procs
<1> QED
  BY <1>5, <1>10, <1>11, <1>12, <1>13, <1>14, Zenon DEF PInv

-------------------------------------------------------------------------------
(* Starts *)

LEMMA StartsFacts ==
    ASSUME journal \in Seq(Events), NEW r, NEW p
    PROVE  p \in StartsOf(r) <=> \E k \in DOMAIN journal : journal[k] = ProcessStarted(r, p)
<1>1. p \in StartsOf(r) <=> \E k \in DOMAIN journal : journal[k].kind = "started" /\ journal[k].req = r /\ journal[k].proc = p
  BY Zenon DEF StartsOf, StartsIn, Range
<1>2. ASSUME NEW e \in Events, e.kind = "started", e.req = r, e.proc = p
      PROVE  e = ProcessStarted(r, p)
  <2>1. e \in [kind : {"started"}, proc : Procs, req : Requests]
    BY <1>2 DEF Events
  <2> QED
    BY <1>2, <2>1, Zenon DEF ProcessStarted
<1>3. /\ ProcessStarted(r, p).kind = "started" /\ ProcessStarted(r, p).proc = p
      /\ ProcessStarted(r, p).req = r
  BY Zenon DEF ProcessStarted
<1>4. \A k \in DOMAIN journal : journal[k] \in Events
  BY JournalFacts, Zenon
<1>5. p \in StartsOf(r) => \E k \in DOMAIN journal : journal[k] = ProcessStarted(r, p)
  BY <1>1, <1>2, <1>4, Zenon
<1>6. ASSUME NEW k \in DOMAIN journal, journal[k] = ProcessStarted(r, p) PROVE p \in StartsOf(r)
  <2>1. journal[k].kind = "started" /\ journal[k].proc = p /\ journal[k].req = r
    BY <1>6, StartedEvent
  <2> QED
    BY <1>1, <2>1, Zenon
<1> QED
  BY <1>5, <1>6, Zenon

LEMMA JournalKept ==
    ASSUME PInv, UNCHANGED <<journal, durable, synced, answer>>
    PROVE  /\ JournalInv' /\ OrderInv'
           /\ \A q : /\ Started(q)' <=> Started(q)
                     /\ Exited(q)' <=> Exited(q)
                     /\ Outputs(q)' = Outputs(q)
<1>1. \A q \in Procs : synced[q] <= synced[q]
  BY ProcFacts
<1>2. \A r \in Requests : answer[r] # 0 => \E k \in DOMAIN journal : journal[k] = ProcessStarted(r, answer[r])
  BY PFacts, Zenon DEF JournalInv
<1>3. JournalInv' /\ OrderInv'
  BY <1>1, <1>2, PFacts, JournalSame, Zenon
<1> QED
  BY <1>3, SameFacts, Zenon

LEMMA QuietKept ==
    ASSUME PInv, Tame, UNCHANGED <<log, synced, rec, mon, journal, quiet>>
    PROVE  QuietInv'
<1>1. LogsGrow
  BY SameLogs, Zenon
<1>2. ASSUME NEW q \in Procs PROVE Watched(q)'
  BY <1>1, StillWatched, Zenon
<1>3. ASSUME NEW q \in Procs PROVE Logged(q)'
  <2>1. Logged(q)
    BY PFacts, Zenon
  <2>2. (Exited(q)' <=> Exited(q)) /\ Outputs(q)' = Outputs(q)
    BY SameFacts, Zenon
  <2>3. os[q] \in Silent => os'[q] \in Silent
    BY Zenon DEF Tame
  <2> QED
    BY <2>1, <2>2, <2>3, Zenon DEF Logged
<1> QED
  BY <1>2, <1>3, Zenon DEF QuietInv, Procs

LEMMA MonitorsStand ==
    ASSUME PInv, UNCHANGED <<status, mon, rec, journal>>, SlotsMatch'
    PROVE  SlotInv'
<1>1. \A q : (Started(q)' <=> Started(q)) /\ (Exited(q)' <=> Exited(q)) /\ Outputs(q)' = Outputs(q)
  BY SameFacts, Zenon
<1> QED
  BY <1>1, Zenon DEF PInv, SlotInv, Procs

(* The start that holds the commit lock. *)
LEMMA AtFacts ==
    ASSUME PInv, NEW s \in {"intent", "spawned", "pid", "journaled"}, At(s)
    PROVE  /\ status = "up" /\ start.step = s /\ start # NoStart /\ start \in StartType
           /\ start.proc \in Procs /\ start.req \in Requests
           /\ os[start.proc] = "none" <=> s = "intent"
           /\ mon[start.proc].step = "none"
           /\ s # "journaled" =>
                 /\ Starting /\ intent[start.proc] = IF s = "pid" THEN "pid" ELSE "nopid"
                 /\ ~Started(start.proc) /\ ~rec[start.proc].running
                 /\ \A k \in DOMAIN journal : journal[k].kind = "started" => journal[k].req # start.req
           /\ s = "journaled" =>
                 /\ \E k \in DOMAIN journal : journal[k] = ProcessStarted(start.req, start.proc)
                 /\ rec[start.proc].running /\ rec[start.proc].bytes = 0
                 /\ ~Exited(start.proc) /\ Outputs(start.proc) = 0
<1>1. status = "up" /\ start.step = s
  BY Zenon DEF At
<1>2. NoStart.step = "idle" /\ s # "idle"
  BY DEF NoStart
<1>3. start # NoStart
  BY <1>1, <1>2, Zenon
<1>4. start \in StartType
  BY <1>3, PFacts, Zenon
<1>5. start.proc \in Procs /\ start.req \in Requests
  BY <1>4, Zenon DEF StartType
<1>6. s # "journaled" => Starting
  BY <1>1, Zenon DEF Starting
<1> QED
  BY <1>1, <1>3, <1>4, <1>5, <1>6, Zenon DEF PInv, StartInv

LEMMA AtIdle ==
    ASSUME PInv, At("idle")
    PROVE  status = "up" /\ start = NoStart
<1>1. status = "up" /\ start.step = "idle"
  BY Zenon DEF At
<1>2. start \notin StartType
  BY <1>1, Zenon DEF StartType
<1> QED
  BY <1>1, <1>2, PFacts, Zenon

(* What runs without being in the journal is the child of the start. *)
LEMMA OnlyStart ==
    ASSUME PInv, status = "up", NEW q \in Procs, os[q] \in Wrapped, ~Started(q)
    PROVE  start # NoStart /\ start.proc = q
  BY Zenon DEF PInv, RunInv

LEMMA StartKnowns ==
    ASSUME PInv, NEW r \in Requests, StartKnown(r)
    PROVE  PInv'
<1>1. UNCHANGED <<status, os, log, synced, intent, journal, durable, rec, slots, start, mon, quiet>>
  BY Zenon DEF StartKnown, kernel, disk, memory
<1>2. PICK p \in StartsOf(r) : answer' = [answer EXCEPT ![r] = p]
  BY Zenon DEF StartKnown
<1>3. PICK k \in DOMAIN journal : journal[k] = ProcessStarted(r, p)
  BY <1>2, PFacts, StartsFacts, Zenon
<1>4. p \in Procs
  <2>1. journal[k] \in Events /\ journal[k].proc = p
    BY <1>3, PFacts, JournalFacts, StartedFacts
  <2> QED
    BY <2>1, KindFacts, Zenon
<1>5. answer \in [Requests -> Procs \cup {0}]
  BY PFacts, Zenon
<1>6. answer' \in [Requests -> Procs \cup {0}] /\ answer'[r] = p /\ \A s \in Requests \ {r} : answer'[s] = answer[s]
  BY <1>2, <1>4, <1>5, Zenon
<1>7. \A s \in Requests : answer'[s] # 0 =>
         \E j \in DOMAIN journal : journal[j] = ProcessStarted(s, answer'[s])
  BY <1>3, <1>6, PFacts, Zenon DEF JournalInv
<1>8. \A q \in Procs : synced[q] <= synced'[q]
  BY <1>1, ProcFacts
<1>9. JournalInv' /\ OrderInv'
  BY <1>1, <1>7, <1>8, PFacts, JournalSame, Zenon
<1>10. \A q : (Started(q)' <=> Started(q)) /\ (Exited(q)' <=> Exited(q)) /\ Outputs(q)' = Outputs(q)
  BY <1>1, SameFacts, Zenon
<1>11. Types'
  BY <1>1, <1>6, PFacts, Zenon DEF Types, DiskTypes, MemoryTypes
<1>12. StartInv'
  BY <1>1, <1>10, Zenon DEF PInv, StartInv, Starting
<1>13. RunInv'
  BY <1>1, <1>10, Zenon DEF PInv, RunInv, Procs
<1>14. SlotInv'
  <2>1. SlotsMatch'
    BY <1>1, Zenon DEF PInv, SlotInv, SlotsMatch, Procs
  <2> QED
    BY <1>1, <2>1, MonitorsStand, Zenon
<1>15. QuietInv'
  BY <1>1, SameOS, QuietKept, Zenon
<1> QED
  BY <1>9, <1>11, <1>12, <1>13, <1>14, <1>15, Zenon DEF PInv

LEMMA StartIntents ==
    ASSUME PInv, NEW r \in Requests, StartIntent(r)
    PROVE  PInv'
<1>1. /\ status = "up" /\ start = NoStart /\ slots' = slots + 1 /\ StartsOf(r) = {}
      /\ UNCHANGED <<status, os, log, synced, journal, durable, rec, mon, answer, quiet>>
  BY AtIdle, Zenon DEF StartIntent, ReserveSlot, kernel, rest
<1>2. PICK p \in Procs : /\ Fresh(p) /\ start' = [step |-> "intent", req |-> r, proc |-> p]
                         /\ intent' = DirectorySynced([intent EXCEPT ![p] = "nopid"])
  BY Zenon DEF StartIntent
<1>3. os[p] = "none" /\ ~Started(p) /\ ~rec[p].running /\ mon[p].step = "none"
  BY <1>2, Zenon DEF Fresh, Unused, PInv, RunInv
<1>4. start' \in StartType /\ start'.step = "intent" /\ start'.req = r /\ start'.proc = p
  BY <1>2, Zenon DEF StartType
<1>5. /\ intent' \in [Procs -> Intents] /\ intent'[p] = "nopid"
      /\ \A q \in Procs : intent'[q] # "removed"
  <2>1. intent \in [Procs -> Intents]
    BY PFacts, Zenon
  <2>2. /\ [intent EXCEPT ![p] = "nopid"] \in [Procs -> Intents]
        /\ [intent EXCEPT ![p] = "nopid"][p] = "nopid"
    BY <2>1, Zenon DEF Intents
  <2> DEFINE f == [intent EXCEPT ![p] = "nopid"]
  <2>3. intent' = [q \in Procs |-> IF f[q] = "removed" THEN "none" ELSE f[q]]
    BY <1>2, Zenon DEF DirectorySynced
  <2> HIDE DEF f
  <2>4. \A q \in Procs : intent'[q] = IF f[q] = "removed" THEN "none" ELSE f[q]
    BY <2>3, Zenon
  <2>5. f \in [Procs -> Intents] /\ f[p] = "nopid"
    BY <2>2, Zenon DEF f
  <2>6. \A q \in Procs : intent'[q] \in Intents /\ intent'[q] # "removed"
    BY <2>4, <2>5, Zenon DEF Intents
  <2> QED
    BY <2>3, <2>4, <2>5, <2>6, Zenon
<1>6. /\ JournalInv' /\ OrderInv'
      /\ \A q : /\ Started(q)' <=> Started(q)
                /\ Exited(q)' <=> Exited(q)
                /\ Outputs(q)' = Outputs(q)
  BY <1>1, JournalKept, Zenon
<1>7. slots' \in Nat
  BY <1>1, PFacts
<1>8. Types'
  BY <1>1, <1>4, <1>5, <1>7, PFacts, Zenon DEF Types, DiskTypes, MemoryTypes
<1>9. StartInv'
  <2>1. \A k \in DOMAIN journal : journal[k].kind = "started" => journal[k].req # r
    BY <1>1, Zenon DEF StartsOf, StartsIn, Range
  <2> QED
    BY <1>1, <1>3, <1>4, <1>5, <1>6, <2>1, Zenon DEF StartInv, Starting
<1>10. RunInv'
  <2>1. ASSUME NEW q \in Procs, os[q] \in Wrapped, ~Started(q) PROVE FALSE
    BY <1>1, <2>1, OnlyStart, Zenon
  <2>2. \A q \in Procs : os[q] = "none" => ~Started(q) /\ ~rec[q].running /\ mon[q].step = "none"
    BY Zenon DEF PInv, RunInv
  <2> QED
    BY <1>1, <1>5, <1>6, <2>1, <2>2, Zenon DEF RunInv, Procs
<1>11. SlotInv'
  <2>1. slots = Cardinality(Holders) /\ Cardinality(Holders) \in Nat
    <3>1. slots = Cardinality(Holders) + (IF Starting THEN 1 ELSE 0) /\ ~Starting /\ Cardinality(Holders) \in Nat
      BY <1>1, SlotFacts, IdleFacts, HoldersFinite, Zenon
    <3> QED
      BY <3>1
  <2>2. Holders = {q \in Procs : rec'[q].running \/ mon'[q].step = "lost"}
    BY <1>1, Zenon DEF Holders
  <2>3. SlotsMatch'
    BY <1>1, <1>4, <2>1, <2>2, Zenon DEF SlotsMatch, Procs
  <2> QED
    BY <1>1, <2>3, MonitorsStand, Zenon
<1>12. QuietInv'
  BY <1>1, SameOS, QuietKept, Zenon
<1> QED
  BY <1>6, <1>8, <1>9, <1>10, <1>11, <1>12, Zenon DEF PInv

(* A start that fails before it is journaled. *)
LEMMA StartAbandoned ==
    ASSUME PInv, NEW s \in {"intent", "spawned", "pid"}, At(s), start' = NoStart, ReleaseSlot,
           Tame, os'[start.proc] \notin Wrapped, NEW left \in Intents \ {"removed"},
           intent' = [intent EXCEPT ![start.proc] = left],
           UNCHANGED <<status, log, synced, journal, durable, rec, mon, answer, quiet>>
    PROVE  PInv'
<1> DEFINE p == start.proc
<1>1. /\ status = "up" /\ start # NoStart /\ p \in Procs /\ Starting
  BY AtFacts, Zenon
<1>2. /\ JournalInv' /\ OrderInv'
      /\ \A q : /\ Started(q)' <=> Started(q)
                /\ Exited(q)' <=> Exited(q)
                /\ Outputs(q)' = Outputs(q)
  BY JournalKept, Zenon
<1>3. /\ intent' \in [Procs -> Intents] /\ intent'[p] = left /\ left # "removed"
      /\ \A q \in Procs \ {p} : intent'[q] = intent[q]
  BY <1>1, PFacts, Zenon
<1> HIDE DEF p
<1>4. SlotsMatch' /\ slots' \in Nat
  <2>1. slots = Cardinality(Holders) + 1 /\ Cardinality(Holders) \in Nat
    BY <1>1, SlotFacts, HoldersFinite, Zenon
  <2>2. slots' = Cardinality(Holders) + 0 /\ slots' \in Nat
    BY <2>1 DEF ReleaseSlot
  <2>3. Holders = {q \in Procs : rec'[q].running \/ mon'[q].step = "lost"}
    BY Zenon DEF Holders
  <2>4. ~(start'.step \in {"intent", "spawned", "pid"})
    BY DEF NoStart
  <2> QED
    BY <2>2, <2>3, <2>4, Zenon DEF SlotsMatch, Procs
<1>5. Types'
  BY <1>3, <1>4, PFacts, Zenon DEF Types, DiskTypes, MemoryTypes, Tame
<1>6. StartInv'
  BY Zenon DEF StartInv, NoStart
<1>7. RunInv'
  <2>1. SUFFICES ASSUME NEW q \in Procs
                 PROVE  /\ ~(os'[q] \in Wrapped /\ ~Started(q))
                        /\ intent'[q] = "removed" => Started(q)
                        /\ os'[q] = "none" => ~Started(q) /\ ~rec[q].running /\ mon[q].step = "none"
    BY <1>2, Zenon DEF RunInv, Procs
  <2>2. ~(os'[q] \in Wrapped /\ ~Started(q))
    <3>1. SUFFICES ASSUME os'[q] \in Wrapped, ~Started(q) PROVE FALSE
      BY Zenon
    <3>2. os[q] \in Wrapped /\ q # p
      BY <3>1, Zenon DEF Tame, p
    <3> QED
      BY <1>1, <3>1, <3>2, OnlyStart, Zenon DEF p
  <2>3. intent'[q] = "removed" => Started(q)
    BY <1>3, Zenon DEF PInv, RunInv
  <2>4. os'[q] = "none" => ~Started(q) /\ ~rec[q].running /\ mon[q].step = "none"
    BY Zenon DEF PInv, RunInv, Tame
  <2> QED
    BY <2>2, <2>3, <2>4, Zenon
<1>8. SlotInv'
  BY <1>4, MonitorsStand, Zenon
<1>9. QuietInv'
  BY QuietKept, Zenon
<1> QED
  BY <1>2, <1>5, <1>6, <1>7, <1>8, <1>9, Zenon DEF PInv

LEMMA StartsAbandoned ==
    ASSUME PInv, StartEndsEarly \/ StartPidFails \/ StartJournalFails
    PROVE  PInv'
<1> DEFINE p == start.proc
<1>1. \E s \in {"intent", "spawned", "pid"}, left \in Intents \ {"removed"} :
         /\ At(s) /\ intent' = [intent EXCEPT ![p] = left]
         /\ \/ s = "intent" /\ UNCHANGED os
            \/ s # "intent" /\ os' = [os EXCEPT ![p] = Aborted(p)]
  <2>1. CASE StartEndsEarly
    BY <2>1, Zenon DEF StartEndsEarly, Intents, kernel
  <2>2. CASE StartPidFails
    BY <2>2, Zenon DEF StartPidFails, Intents
  <2>3. CASE StartJournalFails
    BY <2>3, Zenon DEF StartJournalFails, Intents
  <2> QED
    BY <2>1, <2>2, <2>3, Zenon
<1>2. /\ start' = NoStart /\ ReleaseSlot
      /\ UNCHANGED <<status, log, synced, journal, durable, rec, mon, answer, quiet>>
  BY Zenon DEF StartEndsEarly, StartPidFails, StartJournalFails, StartFails, kernel
<1>3. PICK s \in {"intent", "spawned", "pid"}, left \in Intents \ {"removed"} :
         /\ At(s) /\ intent' = [intent EXCEPT ![p] = left]
         /\ \/ s = "intent" /\ UNCHANGED os
            \/ s # "intent" /\ os' = [os EXCEPT ![p] = Aborted(p)]
  BY <1>1, Zenon
<1>4. p \in Procs /\ (os[p] = "none" <=> s = "intent")
  BY <1>3, AtFacts, Zenon
<1>5. os[p] \in OSStates
  BY <1>4, ProcFacts, Zenon
<1> HIDE DEF p
<1>6. Tame /\ os'[p] \notin Wrapped
  <2>1. CASE s = "intent" /\ UNCHANGED os
    <3>1. os'[p] = "none"
      BY <1>4, <2>1, Zenon
    <3> QED
      BY <2>1, <3>1, SameOS, Zenon DEF Wrapped
  <2>2. CASE s # "intent" /\ os' = [os EXCEPT ![p] = Aborted(p)]
    <3>1. /\ Aborted(p) \in OSStates \ {"none"} /\ Aborted(p) \notin Wrapped
          /\ os[p] \in Silent => Aborted(p) \in Silent
      BY <1>4, <1>5, <2>2, Zenon DEF Aborted, OSStates, Wrapped, Silent
    <3>2. os'[p] = Aborted(p)
      BY <1>4, <2>2, PFacts, Zenon
    <3> QED
      BY <1>4, <2>2, <3>1, <3>2, OneTame, Zenon
  <2> QED
    BY <1>3, <2>1, <2>2, Zenon
<1> QED
  BY <1>2, <1>3, <1>6, StartAbandoned, Zenon DEF p

(* A start that goes on. *)
LEMMA StepFacts ==
    ASSUME start \in StartType, NEW s \in {"spawned", "pid", "journaled"}, StartGoes(s)
    PROVE  start' \in StartType /\ start'.step = s /\ start'.req = start.req /\ start'.proc = start.proc
           /\ start' # NoStart
<1>1. start' \in StartType /\ start'.step = s /\ start'.req = start.req /\ start'.proc = start.proc
  BY Zenon DEF StartGoes, StartType
<1>2. NoStart.step = "idle" /\ s # "idle"
  BY DEF NoStart
<1> QED
  BY <1>1, <1>2, Zenon

LEMMA StartGoesOn ==
    ASSUME PInv, StartSpawn \/ StartPid
    PROVE  PInv'
<1> DEFINE p == start.proc
<1>1. \E s \in {"intent", "spawned"} :
         /\ At(s)
         /\ s = "intent" => os' = [os EXCEPT ![p] = "run"] /\ UNCHANGED intent /\ StartGoes("spawned")
         /\ s = "spawned" => intent' = [intent EXCEPT ![p] = "pid"] /\ UNCHANGED os /\ StartGoes("pid")
  BY Zenon DEF StartSpawn, StartPid, disk, kernel
<1>2. UNCHANGED <<status, log, synced, journal, durable, rec, slots, mon, answer, quiet>>
  BY Zenon DEF StartSpawn, StartPid, disk, kernel, rest
<1>3. PICK s \in {"intent", "spawned"} :
         /\ At(s)
         /\ s = "intent" => os' = [os EXCEPT ![p] = "run"] /\ UNCHANGED intent /\ StartGoes("spawned")
         /\ s = "spawned" => intent' = [intent EXCEPT ![p] = "pid"] /\ UNCHANGED os /\ StartGoes("pid")
  BY <1>1, Zenon
<1>4. /\ status = "up" /\ start # NoStart /\ start \in StartType /\ p \in Procs /\ Starting
      /\ os[p] = "none" <=> s = "intent"
  BY <1>3, AtFacts, Zenon
<1>5. /\ intent[p] = "nopid" /\ mon[p].step = "none"
      /\ ~Started(p) /\ ~rec[p].running
      /\ \A k \in DOMAIN journal : journal[k].kind = "started" => journal[k].req # start.req
  BY <1>3, AtFacts, Zenon
<1>6. /\ start' \in StartType /\ start'.req = start.req /\ start'.proc = start.proc /\ start' # NoStart
      /\ start'.step = IF s = "intent" THEN "spawned" ELSE "pid"
  BY <1>3, <1>4, StepFacts, Zenon
<1>7. /\ JournalInv' /\ OrderInv'
      /\ \A q : /\ Started(q)' <=> Started(q)
                /\ Exited(q)' <=> Exited(q)
                /\ Outputs(q)' = Outputs(q)
  BY <1>2, JournalKept, Zenon
<1>8. start'.proc = p
  BY <1>6, Zenon
<1> HIDE DEF p
<1>9. /\ intent' \in [Procs -> Intents] /\ intent'[p] = IF s = "intent" THEN "nopid" ELSE "pid"
      /\ \A q \in Procs \ {p} : intent'[q] = intent[q]
  <2>1. intent \in [Procs -> Intents]
    BY PFacts, Zenon
  <2>2. CASE s = "intent"
    BY <1>3, <1>5, <2>1, <2>2, Zenon
  <2>3. CASE s = "spawned"
    BY <1>3, <1>4, <2>1, <2>3, Zenon DEF Intents
  <2> QED
    BY <1>3, <2>2, <2>3, Zenon
<1>10. /\ os' \in [Procs -> OSStates] /\ os'[p] # "none" /\ \A q \in Procs \ {p} : os'[q] = os[q]
       /\ os[p] \in Silent => os'[p] \in Silent
  <2>1. os \in [Procs -> OSStates]
    BY PFacts, Zenon
  <2>2. CASE s = "intent"
    <3>1. os' = [os EXCEPT ![p] = "run"] /\ os[p] = "none"
      BY <1>3, <1>4, <2>2, Zenon
    <3>2. /\ os' \in [Procs -> OSStates] /\ os'[p] = "run" /\ \A q \in Procs \ {p} : os'[q] = os[q]
      BY <1>4, <2>1, <3>1, Zenon DEF OSStates
    <3> QED
      BY <3>1, <3>2, Zenon DEF Silent
  <2>3. CASE s = "spawned"
    BY <1>3, <1>4, <2>1, <2>3, Zenon
  <2> QED
    BY <1>3, <2>2, <2>3, Zenon
<1>11. Types'
  BY <1>2, <1>6, <1>9, <1>10, PFacts, Zenon DEF Types, DiskTypes, MemoryTypes
<1>12. StartInv'
  <2>1. start'.step # "intent" /\ start'.step # "journaled" /\ intent'[p] = IF start'.step = "pid" THEN "pid" ELSE "nopid"
    BY <1>3, <1>6, <1>9, Zenon
  <2> QED
    BY <1>2, <1>4, <1>5, <1>6, <1>7, <1>8, <1>10, <2>1, Zenon DEF StartInv, Starting
<1>13. RunInv'
  <2>1. SUFFICES ASSUME NEW q \in Procs
                 PROVE  /\ os'[q] \in Wrapped /\ ~Started(q) => intent'[q] \in {"nopid", "pid"} /\ p = q
                        /\ intent'[q] = "removed" => Started(q)
                        /\ os'[q] = "none" => ~Started(q) /\ ~rec[q].running /\ mon[q].step = "none"
    BY <1>2, <1>4, <1>6, <1>7, <1>8, Zenon DEF RunInv, Procs
  <2>2. CASE q = p
    BY <1>9, <1>10, <2>2, Zenon
  <2>3. CASE q # p
    <3>1. os[q] \in Wrapped => Started(q)
      BY <1>4, <2>3, OnlyStart, Zenon DEF p
    <3>2. /\ intent[q] = "removed" => Started(q)
          /\ os[q] = "none" => ~Started(q) /\ ~rec[q].running /\ mon[q].step = "none"
      BY Zenon DEF PInv, RunInv
    <3> QED
      BY <1>9, <1>10, <2>3, <3>1, <3>2, Zenon
  <2> QED
    BY <2>2, <2>3, Zenon
<1>14. SlotInv'
  <2>1. start'.step \in {"intent", "spawned", "pid"} /\ start.step \in {"intent", "spawned", "pid"}
    BY <1>4, <1>6, Zenon DEF Starting
  <2>2. SlotsMatch'
    BY <1>2, <2>1, Zenon DEF PInv, SlotInv, SlotsMatch, Procs
  <2> QED
    BY <1>2, <2>2, MonitorsStand, Zenon
<1>15. QuietInv'
  <2>1. ASSUME NEW q \in Procs PROVE Watched(q)' /\ Logged(q)'
    <3>1. Watched(q) /\ Logged(q) /\ (os[q] \in Silent => os'[q] \in Silent)
      BY <1>10, PFacts, Zenon
    <3> QED
      BY <1>2, <1>7, <3>1, Zenon DEF Watched, Logged
  <2> QED
    BY <2>1, Zenon DEF QuietInv, Procs
<1> QED
  BY <1>7, <1>11, <1>12, <1>13, <1>14, <1>15, Zenon DEF PInv

LEMMA StartJournals ==
    ASSUME PInv, StartJournal
    PROVE  PInv'
<1> DEFINE p == start.proc
           e == ProcessStarted(start.req, p)
<1>1. /\ At("pid") /\ rec' = [rec EXCEPT ![p] = [running |-> TRUE, bytes |-> 0]]
      /\ journal' = Append(journal, e) /\ durable' = Len(journal) + 1 /\ StartGoes("journaled")
      /\ UNCHANGED <<status, os, log, synced, intent, slots, mon, answer, quiet>>
  BY Zenon DEF StartJournal, AppendSynced, kernel, rest
<1>2. /\ status = "up" /\ start # NoStart /\ start \in StartType /\ p \in Procs /\ Starting
      /\ start.req \in Requests /\ os[p] # "none" /\ mon[p].step = "none" /\ ~Started(p) /\ ~rec[p].running
      /\ intent[p] = "pid"
      /\ \A k \in DOMAIN journal : journal[k].kind = "started" => journal[k].req # start.req
  BY <1>1, AtFacts, Zenon
<1>3. /\ start' \in StartType /\ start'.req = start.req /\ start'.proc = p /\ start' # NoStart
      /\ start'.step = "journaled"
  BY <1>1, <1>2, StepFacts, Zenon
<1>4. e \in Events /\ e.kind = "started" /\ e.proc = p /\ e.req = start.req
  BY <1>2, Zenon DEF ProcessStarted, Events
<1>5. Outputs(p) = 0 /\ ~Exited(p)
  BY <1>2, PFacts, NoOutputs, Zenon
<1> HIDE DEF p, e
<1>6. JournalInv' /\ OrderInv' /\ journal' \in Seq(Events) /\ durable' \in 0 .. Len(journal')
  BY <1>1, <1>2, <1>4, PFacts, JournalGrows, Zenon
<1>7. ASSUME NEW q
      PROVE  /\ Started(q)' <=> Started(q) \/ q = p
             /\ Exited(q)' <=> Exited(q)
             /\ Outputs(q)' = Outputs(q)
  BY <1>1, <1>4, PFacts, AppendCounts, Zenon
<1>8. \E k \in DOMAIN journal' : journal'[k] = ProcessStarted(start'.req, start'.proc)
  <2>1. Len(journal) + 1 \in DOMAIN journal' /\ journal'[Len(journal) + 1] = e
    BY <1>1, <1>4, PFacts, AppendFacts, Zenon
  <2>2. e = ProcessStarted(start'.req, start'.proc)
    BY <1>3, Zenon DEF e, p
  <2> QED
    BY <2>1, <2>2, Zenon
<1>9. /\ rec' \in [Procs -> RecType] /\ \A q \in Procs \ {p} : rec'[q] = rec[q]
      /\ rec'[p].running /\ rec'[p].bytes = 0
  <2>1. [running |-> TRUE, bytes |-> 0] \in RecType
    BY DEF RecType
  <2>2. rec' \in [Procs -> RecType] /\ rec'[p] = [running |-> TRUE, bytes |-> 0] /\ \A q \in Procs \ {p} : rec'[q] = rec[q]
    BY <1>1, <1>2, <2>1, PFacts, Zenon
  <2> QED
    BY <2>2
<1>10. Types'
  BY <1>1, <1>3, <1>6, <1>9, PFacts, Zenon DEF Types, DiskTypes, MemoryTypes
<1>11. StartInv'
  <2>1. start'.step # "intent" /\ ~(start'.step \in {"intent", "spawned", "pid"})
    BY <1>3, Zenon
  <2>2. /\ status' = "up" /\ os'[start'.proc] # "none" /\ mon'[start'.proc].step = "none"
        /\ rec'[start'.proc].running /\ rec'[start'.proc].bytes = 0
    BY <1>1, <1>2, <1>3, <1>9, Zenon
  <2>3. PICK q : q = p
    BY Zenon
  <2>4. ~Exited(start.proc)' /\ Outputs(start.proc)' = 0
    <3>1. ~Exited(q)' /\ Outputs(q)' = 0 /\ start'.proc = q
      BY <1>3, <1>5, <1>7, <2>3, Zenon
    <3> QED
      BY <3>1, Zenon DEF Exited, Outputs, OutputsAt
  <2> QED
    BY <1>8, <2>1, <2>2, <2>4, Zenon DEF StartInv, Starting
<1>12. RunInv'
  <2>1. ASSUME NEW q \in Procs, os[q] \in Wrapped, ~Started(q)' PROVE FALSE
    BY <1>2, <1>7, <2>1, OnlyStart, Zenon DEF p
  <2>2. ASSUME NEW q \in Procs
        PROVE  /\ intent[q] = "removed" => Started(q)'
               /\ os[q] = "none" => ~Started(q)' /\ ~rec'[q].running /\ mon[q].step = "none"
    <3>1. /\ intent[q] = "removed" => Started(q)
          /\ os[q] = "none" => ~Started(q) /\ ~rec[q].running /\ mon[q].step = "none"
      BY Zenon DEF PInv, RunInv
    <3> QED
      BY <1>2, <1>7, <1>9, <3>1, Zenon
  <2> QED
    BY <1>1, <2>1, <2>2, Zenon DEF RunInv, Procs
<1>13. SlotInv'
  <2>1. p \notin Holders
    BY <1>2, Zenon DEF Holders
  <2>2. Holders \cup {p} = {q \in Procs : rec'[q].running \/ mon'[q].step = "lost"}
    BY <1>1, <1>2, <1>9, Zenon DEF Holders
  <2>3. slots = Cardinality(Holders) + 1 /\ Cardinality(Holders) \in Nat /\ IsFiniteSet(Holders)
    BY <1>2, SlotFacts, HoldersFinite, Zenon
  <2>4. Cardinality(Holders \cup {p}) = Cardinality(Holders) + 1
    BY <2>1, <2>3, FS_AddElement, Zenon
  <2>5. slots' = Cardinality(Holders \cup {p}) + 0
    BY <1>1, <2>3, <2>4
  <2>6. ~(start'.step \in {"intent", "spawned", "pid"})
    BY <1>3, Zenon
  <2>7. SlotsMatch'
    BY <2>2, <2>5, <2>6, Zenon DEF SlotsMatch, Procs
  <2>8. ASSUME NEW q \in Procs, mon'[q].step # "none"
        PROVE  /\ status' = "up" /\ Started(q)' /\ ~Exited(q)'
               /\ rec'[q].running <=> mon'[q].step # "lost"
               /\ rec'[q].bytes = Outputs(q)'
    <3>1. q # p /\ rec'[q] = rec[q] /\ mon'[q] = mon[q]
      BY <1>1, <1>2, <1>9, <2>8, Zenon
    <3>2. /\ Started(q) /\ ~Exited(q)
          /\ rec[q].running <=> mon[q].step # "lost"
          /\ rec[q].bytes = Outputs(q)
      BY <2>8, <3>1, Zenon DEF PInv, SlotInv
    <3> QED
      BY <1>1, <1>2, <1>7, <3>1, <3>2, Zenon
  <2> QED
    BY <2>7, <2>8, Zenon DEF SlotInv, Procs
<1>14. QuietInv'
  <2>1. ASSUME NEW q \in Procs PROVE Watched(q)'
    <3>1. CASE q = p
      <4>1. mon[p].step \notin {"append", "group", "exit"}
        BY <1>2, Zenon
      <4> QED
        BY <1>1, <3>1, <4>1, PFacts, Zenon DEF Watched
    <3>2. CASE q # p
      BY <1>1, <1>9, <3>2, PFacts, Zenon DEF Watched
    <3> QED
      BY <3>1, <3>2, Zenon
  <2>2. \A q \in Procs : Logged(q)'
    BY <1>1, <1>7, PFacts, Zenon DEF Logged
  <2> QED
    BY <2>1, <2>2, Zenon DEF QuietInv, Procs
<1> QED
  BY <1>6, <1>10, <1>11, <1>12, <1>13, <1>14, Zenon DEF PInv

LEMMA StartFinishes ==
    ASSUME PInv, StartFinish
    PROVE  PInv'
<1> DEFINE p == start.proc
           m == [NoMon EXCEPT !.step = "open", !.child = TRUE]
<1>1. /\ At("journaled") /\ (intent' = [intent EXCEPT ![p] = "removed"] \/ UNCHANGED intent)
      /\ answer' = [answer EXCEPT ![start.req] = p] /\ mon' = [mon EXCEPT ![p] = m] /\ start' = NoStart
      /\ UNCHANGED <<status, os, log, synced, journal, durable, rec, slots, quiet>>
  BY Zenon DEF StartFinish, kernel
<1>2. /\ status = "up" /\ start # NoStart /\ p \in Procs /\ start.req \in Requests
      /\ os[p] # "none" /\ mon[p].step = "none"
      /\ rec[p].running /\ rec[p].bytes = 0 /\ ~Exited(p) /\ Outputs(p) = 0 /\ start.step = "journaled"
      /\ \E k \in DOMAIN journal : journal[k] = ProcessStarted(start.req, p)
  BY <1>1, AtFacts, Zenon
<1>3. Started(p)
  <2>1. PICK k \in DOMAIN journal : journal[k] = ProcessStarted(start.req, p)
    BY <1>2, Zenon
  <2>2. journal[k].kind = "started" /\ journal[k].proc = p
    BY <2>1, StartedEvent
  <2> QED
    BY <2>2, Zenon DEF Started
<1>4. m \in MonType /\ m.step = "open" /\ m.idle = 0 /\ ~(m.idle > 0)
  <2>1. m \in MonType /\ m.step = "open" /\ m.idle = NoMon.idle
    BY NoMonFacts, Zenon DEF MonType, MonSteps
  <2> QED
    BY <2>1, NoMonFacts, Zenon
<1> HIDE DEF m, p
<1>5. /\ mon' \in [Procs -> MonType] /\ mon'[p] = m /\ \A q \in Procs \ {p} : mon'[q] = mon[q]
  BY <1>1, <1>2, <1>4, PFacts, MonSet, Zenon
<1>6. /\ answer' \in [Requests -> Procs \cup {0}] /\ answer'[start.req] = p
      /\ \A r \in Requests \ {start.req} : answer'[r] = answer[r]
  BY <1>1, <1>2, PFacts, Zenon
<1>7. /\ intent' \in [Procs -> Intents] /\ \A q \in Procs \ {p} : intent'[q] = intent[q]
  BY <1>1, <1>2, PFacts, Zenon DEF Intents
<1>8. JournalInv' /\ OrderInv'
  <2>1. \A r \in Requests : answer'[r] # 0 =>
           \E k \in DOMAIN journal : journal[k] = ProcessStarted(r, answer'[r])
    <3>1. \A r \in Requests : answer[r] # 0 =>
             \E k \in DOMAIN journal : journal[k] = ProcessStarted(r, answer[r])
      BY PFacts, Zenon DEF JournalInv
    <3>2. \E k \in DOMAIN journal : journal[k] = ProcessStarted(start.req, answer'[start.req])
      BY <1>2, <1>6, Zenon
    <3> QED
      BY <1>6, <3>1, <3>2, Zenon
  <2>2. \A q \in Procs : synced[q] <= synced'[q]
    BY <1>1, ProcFacts
  <2> QED
    BY <1>1, <2>1, <2>2, PFacts, JournalSame, Zenon
<1>9. \A q : (Started(q)' <=> Started(q)) /\ (Exited(q)' <=> Exited(q)) /\ Outputs(q)' = Outputs(q)
  BY <1>1, SameFacts, Zenon
<1>10. Types'
  BY <1>1, <1>5, <1>6, <1>7, PFacts, Zenon DEF Types, DiskTypes, MemoryTypes
<1>11. StartInv'
  BY <1>1, Zenon DEF StartInv, NoStart
<1>12. RunInv'
  <2>1. ASSUME NEW q \in Procs, os[q] \in Wrapped, ~Started(q) PROVE FALSE
    BY <1>2, <1>3, <2>1, OnlyStart, Zenon DEF p
  <2>2. ASSUME NEW q \in Procs
        PROVE  /\ intent'[q] = "removed" => Started(q)
               /\ os[q] = "none" => ~Started(q) /\ ~rec[q].running /\ mon'[q].step = "none"
    <3>1. /\ intent[q] = "removed" => Started(q)
          /\ os[q] = "none" => ~Started(q) /\ ~rec[q].running /\ mon[q].step = "none"
      BY Zenon DEF PInv, RunInv
    <3> QED
      BY <1>2, <1>3, <1>5, <1>7, <3>1, Zenon
  <2> QED
    BY <1>1, <1>9, <2>1, <2>2, Zenon DEF RunInv, Procs
<1>13. SlotInv'
  <2>1. {q \in Procs : rec[q].running \/ mon[q].step = "lost"} = {q \in Procs : rec'[q].running \/ mon'[q].step = "lost"}
    BY <1>1, <1>2, <1>5, Zenon
  <2>2. ~(start'.step \in {"intent", "spawned", "pid"}) /\ ~(start.step \in {"intent", "spawned", "pid"})
    BY <1>1, <1>2 DEF NoStart
  <2>3. SlotsMatch'
    BY <1>1, <2>1, <2>2, Zenon DEF PInv, SlotInv, SlotsMatch, Procs
  <2>4. ASSUME NEW q \in Procs, mon'[q].step # "none"
        PROVE  /\ status' = "up" /\ Started(q)' /\ ~Exited(q)'
               /\ rec'[q].running <=> mon'[q].step # "lost"
               /\ rec'[q].bytes = Outputs(q)'
    <3>1. CASE q = p
      <4>1. mon'[p].step # "lost"
        BY <1>4, <1>5, Zenon
      <4> QED
        BY <1>1, <1>2, <1>3, <1>9, <3>1, <4>1, Zenon
    <3>2. CASE q # p
      <4>1. mon'[q] = mon[q]
        BY <1>5, <3>2, Zenon
      <4>2. /\ Started(q) /\ ~Exited(q)
            /\ rec[q].running <=> mon[q].step # "lost"
            /\ rec[q].bytes = Outputs(q)
        BY <2>4, <4>1, Zenon DEF PInv, SlotInv
      <4> QED
        BY <1>1, <1>2, <1>9, <4>1, <4>2, Zenon
    <3> QED
      BY <3>1, <3>2, Zenon
  <2> QED
    BY <2>3, <2>4, Zenon DEF SlotInv, Procs
<1>14. QuietInv'
  <2>1. ASSUME NEW q \in Procs PROVE Watched(q)'
    <3>1. CASE q = p
      <4>1. mon'[p].step \notin {"append", "group", "exit"} /\ ~(mon'[p].idle > 0)
        BY <1>4, <1>5, Zenon
      <4> QED
        BY <3>1, <4>1, Zenon DEF Watched
    <3>2. CASE q # p
      BY <1>1, <1>5, <3>2, PFacts, Zenon DEF Watched
    <3> QED
      BY <3>1, <3>2, Zenon
  <2>2. \A q \in Procs : Logged(q)'
    BY <1>1, <1>9, PFacts, Zenon DEF Logged
  <2> QED
    BY <2>1, <2>2, Zenon DEF QuietInv, Procs
<1> QED
  BY <1>8, <1>10, <1>11, <1>12, <1>13, <1>14, Zenon DEF PInv

-------------------------------------------------------------------------------
(* Deaths and startup *)

LEMMA NothingLeft ==
    ASSUME PInv, MemoryLost
    PROVE  /\ status' = "down" /\ rec' \in [Procs -> RecType] /\ mon' \in [Procs -> MonType]
           /\ slots' \in Nat /\ start' = NoStart
           /\ StartInv' /\ SlotInv' 
           /\ \A q \in Procs : Watched(q)' /\ ~rec'[q].running /\ mon'[q].step = "none"
<1>1. status' = "down" /\ start' = NoStart /\ slots' \in Nat
  BY DEF MemoryLost
<1>2. NoRec \in RecType /\ ~NoRec.running
  BY DEF NoRec, RecType
<1>3. rec' \in [Procs -> RecType] /\ \A q \in Procs : rec'[q] = NoRec
  BY <1>2, Zenon DEF MemoryLost
<1>4. mon' \in [Procs -> MonType] /\ \A q \in Procs : mon'[q] = NoMon
  BY NoMonFacts, Zenon DEF MemoryLost
<1>5. \A q \in Procs : ~rec'[q].running /\ mon'[q].step = "none" /\ ~(mon'[q].idle > 0)
  BY <1>2, <1>3, <1>4, NoMonFacts, Zenon
<1>6. ASSUME NEW q \in Procs PROVE Watched(q)'
  <2>1. mon'[q].step \notin {"append", "group", "exit"}
    BY <1>5, Zenon
  <2> QED
    BY <1>5, <2>1, Zenon DEF Watched
<1>7. StartInv'
  BY <1>1, Zenon DEF StartInv, NoStart
<1>8. SlotInv'
  <2>1. SlotsMatch'
    BY <1>1, Zenon DEF SlotsMatch
  <2> QED
    BY <1>5, <2>1, Zenon DEF SlotInv, Procs
<1> QED
  BY <1>1, <1>3, <1>4, <1>5, <1>6, <1>7, <1>8, Zenon

LEMMA Crashes ==
    ASSUME PInv, Crash
    PROVE  PInv'
<1>1. /\ MemoryLost /\ intent' = DirectorySynced(intent)
      /\ UNCHANGED <<os, log, synced, journal, durable, answer, quiet>>
  BY Zenon DEF Crash, kernel
<1>2. /\ status' = "down" /\ rec' \in [Procs -> RecType] /\ mon' \in [Procs -> MonType]
      /\ slots' \in Nat /\ start' = NoStart
      /\ StartInv' /\ SlotInv' 
      /\ \A q \in Procs : Watched(q)' /\ ~rec'[q].running /\ mon'[q].step = "none"
  BY <1>1, NothingLeft, Zenon
<1>3. /\ JournalInv' /\ OrderInv'
      /\ \A q : /\ Started(q)' <=> Started(q)
                /\ Exited(q)' <=> Exited(q)
                /\ Outputs(q)' = Outputs(q)
  BY <1>1, JournalKept, Zenon
<1>4. /\ intent' \in [Procs -> Intents]
      /\ \A q \in Procs : intent'[q] # "removed" /\ (intent[q] \in {"nopid", "pid"} => intent'[q] = intent[q])
  <2>1. intent' = [q \in Procs |-> IF intent[q] = "removed" THEN "none" ELSE intent[q]]
    BY <1>1, Zenon DEF DirectorySynced
  <2>2. \A q \in Procs : intent[q] \in Intents
    BY PFacts, Zenon
  <2>3. \A q \in Procs : intent'[q] = IF intent[q] = "removed" THEN "none" ELSE intent[q]
    BY <2>1, Zenon
  <2>4. \A q \in Procs : intent'[q] \in Intents
    BY <2>2, <2>3, Zenon DEF Intents
  <2> QED
    BY <2>1, <2>3, <2>4, Zenon
<1>5. Types'
  BY <1>1, <1>2, <1>4, PFacts, Zenon DEF Types, DiskTypes, MemoryTypes
<1>6. RunInv'
  <2>1. SUFFICES ASSUME NEW q \in Procs
                 PROVE  /\ os[q] \in Wrapped /\ ~Started(q) => intent'[q] \in {"nopid", "pid"}
                        /\ os[q] = "none" => ~Started(q)
    BY <1>1, <1>2, <1>3, <1>4, Zenon DEF RunInv, Procs
  <2> QED
    BY <1>4, Zenon DEF PInv, RunInv
<1>7. \A q \in Procs : Logged(q)'
  BY <1>1, <1>3, PFacts, Zenon DEF Logged
<1>8. QuietInv'
  BY <1>2, <1>7, Zenon DEF QuietInv, Procs
<1> QED
  BY <1>2, <1>3, <1>5, <1>6, <1>8, Zenon DEF PInv

LEMMA PowerLosses ==
    ASSUME PInv, PowerLoss
    PROVE  PInv'
<1>1. /\ MemoryLost /\ UNCHANGED <<synced, answer, quiet>>
      /\ \E n \in durable .. Len(journal) : journal' = SubSeq(journal, 1, n) /\ durable' = n
  BY Zenon DEF PowerLoss
<1>2. PICK reused \in SUBSET {p \in Procs : os[p] # "none"},
           lost \in SUBSET exitFile,
           unwritten \in SUBSET {p \in Procs : log[p] # synced[p]},
           back \in SUBSET {p \in Procs : intent[p] = "removed"} :
          /\ os' = [p \in Procs |-> IF os[p] = "none" THEN "none"
                                    ELSE IF p \in reused THEN "reused" ELSE "gone"]
          /\ log' = [p \in Procs |-> IF p \in unwritten THEN synced[p] ELSE log[p]]
          /\ intent' = [p \in Procs |-> IF intent[p] # "removed" THEN intent[p]
                                        ELSE IF p \in back THEN "pid" ELSE "none"]
  BY Zenon DEF PowerLoss
<1>3. PICK n \in durable .. Len(journal) : journal' = SubSeq(journal, 1, n) /\ durable' = n
  BY <1>1, Zenon
<1>4. /\ status' = "down" /\ rec' \in [Procs -> RecType] /\ mon' \in [Procs -> MonType]
      /\ slots' \in Nat /\ start' = NoStart
      /\ StartInv' /\ SlotInv' 
      /\ \A q \in Procs : Watched(q)' /\ ~rec'[q].running /\ mon'[q].step = "none"
  BY <1>1, NothingLeft, Zenon
<1>5. JournalInv' /\ OrderInv' /\ journal' \in Seq(Events) /\ durable' \in 0 .. Len(journal')
  BY <1>1, <1>3, PFacts, JournalCut, Zenon
<1>6. ASSUME NEW q \in Procs
      PROVE  /\ Started(q)' <=> Started(q)
             /\ Exited(q)' <=> Exited(q)
             /\ Outputs(q)' \in Nat /\ Outputs(q) \in Nat /\ Outputs(q)' <= Outputs(q)
             /\ Exited(q) => Outputs(q)' = Outputs(q)
  BY <1>3, PFacts, CutCounts, Zenon
<1>7. /\ os' \in [Procs -> OSStates]
      /\ \A q \in Procs : /\ os'[q] \notin Wrapped
                          /\ os'[q] = "none" <=> os[q] = "none"
                          /\ os[q] \in Silent => os'[q] \in Silent
  <2>1. \A q \in Procs : os'[q] = IF os[q] = "none" THEN "none"
                                  ELSE IF q \in reused THEN "reused" ELSE "gone"
    BY <1>2, Zenon
  <2>2. \A q \in Procs : os'[q] \in {"none", "reused", "gone"}
    BY <2>1, Zenon
  <2>3. \A q \in Procs : os'[q] \in OSStates /\ os'[q] \notin Wrapped
    BY <2>2, Zenon DEF OSStates, Wrapped
  <2>4. os' \in [Procs -> OSStates]
    BY <1>2, <2>3, Zenon
  <2>5. \A q \in Procs : (os'[q] = "none" <=> os[q] = "none") /\ (os[q] \in Silent => os'[q] \in Silent)
    BY <2>1, Zenon DEF Silent
  <2> QED
    BY <2>3, <2>4, <2>5, Zenon
<1>8. /\ log' \in [Procs -> Nat]
      /\ \A q \in Procs : log'[q] \in {synced[q], log[q]}
  BY <1>2, PFacts, Zenon
<1>9. /\ intent' \in [Procs -> Intents]
      /\ \A q \in Procs : intent'[q] # "removed"
  <2>1. \A q \in Procs : intent'[q] = IF intent[q] # "removed" THEN intent[q]
                                      ELSE IF q \in back THEN "pid" ELSE "none"
    BY <1>2, Zenon
  <2>2. \A q \in Procs : intent'[q] \in Intents /\ intent'[q] # "removed"
    BY <2>1, PFacts, Zenon DEF Intents
  <2> QED
    BY <1>2, <2>2, Zenon
<1>10. Types'
  BY <1>1, <1>4, <1>5, <1>7, <1>8, <1>9, PFacts, Zenon DEF Types, DiskTypes, MemoryTypes
<1>11. RunInv'
  <2>1. \A q \in Procs : os[q] = "none" => ~Started(q)
    BY Zenon DEF PInv, RunInv
  <2> QED
    BY <1>4, <1>6, <1>7, <1>9, <2>1, Zenon DEF RunInv, Procs
<1>12. ASSUME NEW q \in Procs PROVE Logged(q)'
  <2>1. Logged(q) /\ synced[q] \in Nat /\ log[q] \in Nat /\ log'[q] \in {synced[q], log[q]}
    BY <1>8, PFacts, ProcFacts, Zenon
  <2>2. Outputs(q)' <= synced[q] /\ synced[q] <= log'[q]
    BY <1>6, <2>1 DEF Logged
  <2>3. Outputs(q) = log[q] => Outputs(q) = log'[q]
    BY <1>6, <2>1 DEF Logged
  <2> QED
    BY <1>1, <1>6, <1>7, <2>1, <2>2, <2>3, Zenon DEF Logged
<1>13. QuietInv'
  BY <1>4, <1>12, Zenon DEF QuietInv, Procs
<1> QED
  BY <1>4, <1>5, <1>10, <1>11, <1>13, Zenon DEF PInv

LEMMA Recoveries ==
    ASSUME PInv,
           \/ Boot \/ RecoverFails
           \/ \E p \in Procs : RecoverCommitted(p) \/ RecoverRefused(p) \/ RecoverTerminates(p)
                               \/ RecoverGone(p)
    PROVE  PInv'
<1>1. /\ UNCHANGED <<journal, durable, rec, slots, start, answer, quiet, mon, log, synced>>
      /\ status \in {"starting", "down"} /\ status' \in {"starting", "down"}
  BY Zenon DEF Boot, RecoverFails, RecoverCommitted, RecoverRefused, RecoverTerminates, RecoverGone,
               Pending, kernel, disk, memory, rest
<1>2. /\ status' \in {"up", "starting", "down"} /\ status' = "up" <=> status = "up" 
      /\ status # "up"
  BY <1>1, Zenon
<1>3. CASE UNCHANGED <<os, intent>>
  BY <1>1, <1>2, <1>3, SameOS, SameIntents, OSMoves, Zenon
<1>4. ASSUME NEW p \in Procs, ~Started(p), Alive(p), TRUE \in Identity(p),
             \/ os' = [os EXCEPT ![p] = "dying"] /\ UNCHANGED intent
             \/ (\E after \in {"orphans", "gone"} : os' = [os EXCEPT ![p] = after]) /\ Cleared(p)
      PROVE  PInv'
  <2>1. os[p] \in OSStates /\ os \in [Procs -> OSStates]
    BY ProcFacts, PFacts, Zenon
  <2>2. os[p] \in {"run", "marked", "dying"}
    BY <1>4, <2>1, Zenon DEF Identity, Wrapped, OSStates
  <2>3. PICK s \in {"dying", "orphans", "gone"} : os' = [os EXCEPT ![p] = s]
    BY <1>4, Zenon
  <2>4. /\ s \in OSStates \ {"none"} /\ os[p] # "none" /\ s \notin Wrapped /\ os[p] \notin Silent
    BY <2>2, <2>3, Zenon DEF OSStates, Wrapped, Silent
  <2>5. Tame
    BY <2>3, <2>4, OneTame, Zenon
  <2>6. IntentsKept
    <3>1. CASE UNCHANGED intent
      BY <3>1, SameIntents, Zenon
    <3>2. CASE Cleared(p)
      <4>1. /\ intent' \in [Procs -> Intents] /\ intent'[p] = "none"
            /\ \A q \in Procs \ {p} : intent'[q] = intent[q]
        BY <3>2, PFacts, Zenon DEF Cleared, Intents
      <4>2. os'[p] = s
        BY <2>1, <2>3, Zenon
      <4> QED
        BY <1>2, <2>4, <4>1, <4>2, Zenon DEF IntentsKept
    <3> QED
      BY <1>4, <3>1, <3>2, Zenon
  <2> QED
    BY <1>1, <1>2, <2>5, <2>6, OSMoves, Zenon
<1>5. ASSUME NEW p \in Procs, UNCHANGED os, Cleared(p), Started(p) \/ ~Alive(p)
      PROVE  PInv'
  <2>1. /\ intent' \in [Procs -> Intents] /\ intent'[p] = "none"
        /\ \A q \in Procs \ {p} : intent'[q] = intent[q]
    BY <1>5, PFacts, Zenon DEF Cleared, Intents
  <2>2. os'[p] \in Wrapped => Started(p)
    BY <1>5, Zenon DEF Alive
  <2>3. IntentsKept
    BY <1>2, <2>1, <2>2, Zenon DEF IntentsKept
  <2> QED
    BY <1>1, <1>2, <1>5, <2>3, SameOS, OSMoves, Zenon
<1>6. CASE Boot \/ RecoverFails \/ \E p \in Procs : RecoverRefused(p)
  BY <1>3, <1>6, Zenon DEF Boot, RecoverFails, RecoverRefused, kernel, disk
<1>7. CASE \E p \in Procs : RecoverTerminates(p)
  BY <1>4, <1>7, Zenon DEF RecoverTerminates
<1>8. CASE \E p \in Procs : RecoverCommitted(p) \/ RecoverGone(p)
  BY <1>5, <1>8, Zenon DEF RecoverCommitted, RecoverGone, kernel
<1> QED
  BY <1>6, <1>7, <1>8, Zenon

LEMMA RecoversAll ==
    ASSUME PInv, RecoverDone
    PROVE  PInv'
<1> DEFINE open == [NoMon EXCEPT !.step = "open"]
<1>1. /\ status = "starting" /\ status' = "up" /\ \A q \in Procs : intent[q] = "none"
      /\ rec' = [q \in Procs |-> Recovered(q)]
      /\ slots' = Cardinality({q \in Procs : Recovered(q).running})
      /\ mon' = [q \in Procs |-> IF Recovered(q).running THEN open ELSE NoMon]
      /\ UNCHANGED <<os, log, synced, intent, journal, durable, start, answer, quiet>>
  BY Zenon DEF RecoverDone, kernel, disk, rest
<1>2. open \in MonType /\ open.step = "open" /\ ~(open.idle > 0)
  <2>1. open \in MonType /\ open.step = "open" /\ open.idle = NoMon.idle
    BY NoMonFacts, Zenon DEF MonType, MonSteps
  <2> QED
    BY <2>1, NoMonFacts, Zenon
<1> HIDE DEF open
<1>3. ASSUME NEW q \in Procs
      PROVE  /\ Recovered(q) \in RecType /\ Recovered(q).bytes = Outputs(q)
             /\ Recovered(q).running <=> Started(q) /\ ~Exited(q)
  <2>1. Outputs(q) \in Nat /\ (Started(q) /\ ~Exited(q)) \in BOOLEAN
    BY ProcFacts, Zenon DEF Started, Exited
  <2> QED
    BY <2>1, Zenon DEF Recovered, RecType
<1>4. /\ rec' \in [Procs -> RecType]
      /\ \A q \in Procs : rec'[q] = Recovered(q)
  BY <1>1, <1>3, Zenon
<1>5. /\ mon' \in [Procs -> MonType]
      /\ \A q \in Procs : mon'[q] = IF Recovered(q).running THEN open ELSE NoMon
  BY <1>1, <1>2, NoMonFacts, Zenon
<1>6. /\ \A q \in Procs : /\ mon'[q].step \in {"none", "open"} /\ ~(mon'[q].idle > 0)
                          /\ mon'[q].step = "open" <=> rec'[q].running
  BY <1>2, <1>4, <1>5, NoMonFacts, Zenon
<1>7. start = NoStart
  BY <1>1, Zenon DEF PInv, StartInv
<1>8. /\ JournalInv' /\ OrderInv'
      /\ \A q : /\ Started(q)' <=> Started(q)
                /\ Exited(q)' <=> Exited(q)
                /\ Outputs(q)' = Outputs(q)
  BY <1>1, JournalKept, Zenon
<1>9. SlotsMatch' /\ slots' \in Nat
  <2> DEFINE R == {q \in Procs : Recovered(q).running}
  <2>1. R = {q \in Procs : rec'[q].running \/ mon'[q].step = "lost"}
    <3>1. \A q \in Procs : mon'[q].step # "lost" /\ (rec'[q].running <=> Recovered(q).running)
      BY <1>4, <1>6, Zenon
    <3> QED
      BY <3>1, Zenon
  <2>2. Cardinality(R) \in Nat
    <3>1. R \subseteq Procs
      BY Zenon
    <3> QED
      BY <3>1, ProcsFacts, FS_Subset, FS_CardinalityType, Zenon
  <2>3. ~(start'.step \in {"intent", "spawned", "pid"})
    BY <1>1, <1>7 DEF NoStart
  <2>4. slots' = Cardinality(R) + 0 /\ slots' \in Nat
    BY <1>1, <2>2
  <2> HIDE DEF R
  <2> QED
    BY <2>1, <2>3, <2>4, Zenon DEF SlotsMatch, Procs
<1>10. Types'
  BY <1>1, <1>4, <1>5, <1>9, PFacts, Zenon DEF Types, DiskTypes, MemoryTypes
<1>11. StartInv'
  BY <1>1, <1>7, Zenon DEF StartInv, NoStart
<1>12. RunInv'
  <2>1. SUFFICES ASSUME NEW q \in Procs
                 PROVE  /\ os[q] \in Wrapped => Started(q)
                        /\ os[q] = "none" => ~Started(q) /\ ~rec'[q].running /\ mon'[q].step = "none"
    <3>1. \A q \in Procs : intent'[q] # "removed"
      BY <1>1, Zenon
    <3> QED
      BY <1>1, <1>8, <3>1, Zenon DEF RunInv, Procs
  <2>2. os[q] \in Wrapped => Started(q)
    BY <1>1, Zenon DEF PInv, RunInv
  <2>3. os[q] = "none" => ~Started(q)
    BY Zenon DEF PInv, RunInv
  <2>4. rec'[q].running <=> Started(q) /\ ~Exited(q)
    BY <1>3, <1>4, Zenon
  <2> QED
    BY <1>6, <2>2, <2>3, <2>4, Zenon
<1>13. SlotInv'
  <2>1. ASSUME NEW q \in Procs, mon'[q].step # "none"
        PROVE  /\ Started(q) /\ ~Exited(q) /\ rec'[q].running /\ mon'[q].step # "lost"
               /\ rec'[q].bytes = Outputs(q)
    BY <1>3, <1>4, <1>6, <2>1, Zenon
  <2> QED
    BY <1>1, <1>8, <1>9, <2>1, Zenon DEF SlotInv, Procs
<1>14. QuietInv'
  <2>1. ASSUME NEW q \in Procs PROVE Watched(q)'
    <3>1. mon'[q].step \notin {"append", "group", "exit"} /\ ~(mon'[q].idle > 0)
      BY <1>6, Zenon
    <3> QED
      BY <3>1, Zenon DEF Watched
  <2>2. \A q \in Procs : Logged(q)'
    BY <1>1, <1>8, PFacts, Zenon DEF Logged
  <2> QED
    BY <2>1, <2>2, Zenon DEF QuietInv, Procs
<1> QED
  BY <1>8, <1>10, <1>11, <1>12, <1>13, <1>14, Zenon DEF PInv

-------------------------------------------------------------------------------
(* The theorems *)

LEMMA Begins ==
    ASSUME Init
    PROVE  PInv
<1>1. /\ status = "up" /\ start = NoStart /\ journal = << >> /\ durable = 0 /\ slots = 0 /\ quiet = {}
      /\ os = [p \in Procs |-> "none"] /\ log = [p \in Procs |-> 0] /\ synced = log
      /\ intent = [p \in Procs |-> "none"] /\ rec = [p \in Procs |-> NoRec]
      /\ mon = [p \in Procs |-> NoMon] /\ answer = [r \in Requests |-> 0]
  BY Zenon DEF Init
<1>2. NoRec \in RecType /\ ~NoRec.running
  BY DEF NoRec, RecType
<1>3. \A p \in Procs : /\ os[p] = "none" /\ log[p] = 0 /\ synced[p] = 0 /\ intent[p] = "none"
                       /\ ~rec[p].running /\ mon[p].step = "none" /\ ~(mon[p].idle > 0)
  BY <1>1, <1>2, NoMonFacts, Zenon
<1>4. journal \in Seq(Events) /\ Len(journal) = 0 /\ DOMAIN journal = {} /\ 0 \in Nat
  BY <1>1
<1>5. \A p : ~Started(p) /\ ~Exited(p) /\ OutputsAt(p) = {}
  BY <1>4, Zenon DEF Started, Exited, OutputsAt
<1>6. Cardinality({}) = 0
  BY FS_EmptySet, Zenon
<1>7. \A p : Outputs(p) = 0
  BY <1>5, <1>6, Zenon DEF Outputs
<1>8. Types
  <2>1. durable \in 0 .. Len(journal)
    BY <1>1, <1>4
  <2>2. DiskTypes
    BY <1>1, <1>4, <2>1, Zenon DEF DiskTypes, Intents
  <2>3. MemoryTypes
    BY <1>1, <1>2, <1>4, NoMonFacts, Zenon DEF MemoryTypes, OSStates
  <2> QED
    BY <2>2, <2>3 DEF Types
<1>9. JournalInv /\ OrderInv
  <2>1. \A r \in Requests : answer[r] = 0
    BY <1>1, Zenon
  <2> QED
    BY <1>4, <2>1, Zenon DEF JournalInv, OrderInv
<1>10. StartInv
  BY <1>1, Zenon DEF StartInv
<1>11. RunInv
  BY <1>3, <1>5, Zenon DEF RunInv, Wrapped
<1>12. SlotInv
  <2>1. {p \in Procs : rec[p].running \/ mon[p].step = "lost"} = {}
    BY <1>3, Zenon
  <2>2. ~(start.step \in {"intent", "spawned", "pid"})
    BY <1>1 DEF NoStart
  <2>3. slots = 0 + 0
    BY <1>1
  <2>4. SlotsMatch
    BY <1>6, <2>1, <2>2, <2>3, Zenon DEF SlotsMatch
  <2> QED
    BY <1>3, <2>4, Zenon DEF SlotInv
<1>13. QuietInv
  <2>1. ASSUME NEW p \in Procs PROVE Watched(p)
    BY <1>3, Zenon DEF Watched
  <2>2. ASSUME NEW p \in Procs PROVE Logged(p)
    <3>1. Outputs(p) <= synced[p] /\ synced[p] <= log[p]
      BY <1>3, <1>7
    <3> QED
      BY <1>1, <3>1, Zenon DEF Logged
  <2> QED
    BY <2>1, <2>2, Zenon DEF QuietInv
<1> QED
  BY <1>8, <1>9, <1>10, <1>11, <1>12, <1>13, Zenon DEF PInv

LEMMA Preserved ==
    ASSUME PInv, [Next]_vars
    PROVE  PInv'
<1>1. CASE UNCHANGED vars
  BY <1>1, SameOS, SameIntents, StatusFacts, OSMoves, Zenon DEF vars, kernel, disk, memory, rest
<1>2. CASE \E r \in Requests : StartKnown(r) \/ StartIntent(r)
  BY <1>2, StartKnowns, StartIntents, Zenon
<1>3. CASE StartStep
  BY <1>3, StartsAbandoned, StartGoesOn, StartJournals, StartFinishes, Zenon DEF StartStep
<1>4. CASE \E p \in Procs : MonitorStep(p) \/ MonitorKill(p)
  BY <1>4, MonitorPlainSteps, MonitorSignals, MonitorReads, MonitorQuiets, MonitorGroups, MonitorExits,
     MonitorFails, MonitorAppends, Zenon DEF MonitorStep
<1>5. CASE \E p \in Procs : KernelStep(p) \/ Disappears(p)
  BY <1>5, KernelSteps, Zenon
<1>6. CASE Crash \/ PowerLoss
  BY <1>6, Crashes, PowerLosses, Zenon
<1>7. CASE Boot \/ RecoverStep
  BY <1>7, Recoveries, RecoversAll, Zenon DEF RecoverStep
<1> QED
  BY <1>1, <1>2, <1>3, <1>4, <1>5, <1>6, <1>7, Zenon DEF Next

LEMMA ProcessInvariant == Spec => []PInv
<1>1. Init => PInv
  BY Begins
<1>2. PInv /\ [Next]_vars => PInv'
  BY Preserved
<1> QED
  BY <1>1, <1>2, PTL DEF Spec

(* start_persisted_process, recover_pending_process_starts: whenever the daemon serves and
   no start is under way, every wrapper that runs is in the journal, whatever failed and
   wherever the daemon or the host died between the spawn and PROCESS_STARTED. *)
THEOREM NeverUnjournaled == Spec => []NoUnjournaledRun
<1>1. PInv => NoUnjournaledRun
  BY Zenon DEF PInv, RunInv, NoUnjournaledRun
<1> QED
  BY <1>1, ProcessInvariant, PTL

(* start_process_blocking: the process a client was told of is the only one ever started
   for its request ID, and its start is on stable storage. *)
THEOREM AnswersAlwaysHold == Spec => []AnswersHold
<1>1. ASSUME PInv, NEW r \in Requests
      PROVE  Cardinality(StartsOf(r)) <= 1
  <2>1. \A p, q \in StartsOf(r) : p = q
    <3>1. SUFFICES ASSUME NEW p \in StartsOf(r), NEW q \in StartsOf(r) PROVE p = q
      BY Zenon
    <3>2. PICK j \in DOMAIN journal : journal[j].kind = "started" /\ journal[j].req = r /\ journal[j].proc = p
      BY Zenon DEF StartsOf, StartsIn, Range
    <3>3. PICK k \in DOMAIN journal : journal[k].kind = "started" /\ journal[k].req = r /\ journal[k].proc = q
      BY Zenon DEF StartsOf, StartsIn, Range
    <3>4. journal[j].proc = journal[k].proc
      BY <1>1, <3>2, <3>3, Zenon DEF PInv, JournalInv
    <3> QED
      BY <3>2, <3>3, <3>4, Zenon
  <2>2. CASE StartsOf(r) = {}
    <3>1. Cardinality(StartsOf(r)) = 0
      BY <2>2, FS_EmptySet, Zenon
    <3> QED
      BY <3>1
  <2>3. CASE StartsOf(r) # {}
    <3>1. PICK p : StartsOf(r) = {p}
      BY <2>1, <2>3, Zenon
    <3>2. Cardinality({p}) = 1
      BY FS_Singleton, Zenon
    <3>3. Cardinality(StartsOf(r)) = 1
      BY <3>1, <3>2, Zenon
    <3> QED
      BY <3>3
  <2> QED
    BY <2>2, <2>3, Zenon
<1>2. ASSUME PInv, NEW r \in Requests, answer[r] # 0
      PROVE  answer[r] \in StartsIn(Range(SubSeq(journal, 1, durable)), r)
  <2>1. PICK k \in DOMAIN journal : journal[k] = ProcessStarted(r, answer[r])
    BY <1>2, Zenon DEF PInv, JournalInv
  <2>2. journal[k].kind = "started" /\ journal[k].kind # "output" /\ journal[k].proc = answer[r] /\ journal[k].req = r
    BY <2>1, StartedEvent
  <2>3. k <= durable
    BY <1>2, <2>2, Zenon DEF PInv, JournalInv
  <2>4. journal \in Seq(Events) /\ durable \in 0 .. Len(journal)
    BY <1>2, PFacts, Zenon
  <2> DEFINE kept == SubSeq(journal, 1, durable)
  <2>5. k \in DOMAIN kept /\ kept[k] = journal[k]
    BY <2>3, <2>4
  <2> HIDE DEF kept
  <2>6. kept[k] \in Range(kept)
    BY <2>5, Zenon DEF Range
  <2>7. answer[r] \in StartsIn(Range(kept), r)
    BY <2>2, <2>5, <2>6, Zenon DEF StartsIn
  <2> QED
    BY <2>7, Zenon DEF kept
<1>3. PInv => AnswersHold
  BY <1>1, <1>2, Zenon DEF AnswersHold
<1> QED
  BY <1>3, ProcessInvariant, PTL

(* running_processes: while the daemon serves, the count is that of the records that run,
   of the monitors that still have to record a failure and of the start under way. *)
THEOREM SlotsAlwaysMatch == Spec => []SlotsMatch
<1>1. PInv => SlotsMatch
  BY Zenon DEF PInv, SlotInv
<1> QED
  BY <1>1, ProcessInvariant, PTL

(* drain_persistent_stream, drain_persistent_output_until_quiet: for each process the
   journal holds its start, its output without gap or repeat and at most one exit, in that
   order and over any number of daemons; the log files hold what the durable events report;
   and an exit after a quiet drain comes after all the process wrote. *)
THEOREM OutputAlwaysExact == Spec => []OutputExact
<1>1. ASSUME PInv PROVE OutputExact
  <2>0. DOMAIN journal = 1 .. Len(journal) /\ Len(journal) \in Nat
    BY <1>1, PFacts, JournalFacts, Zenon
  <2>1. ASSUME NEW p \in Procs, NEW k \in DOMAIN journal, journal[k].proc = p
        PROVE  /\ journal[k].kind = "started" <=> \A j \in 1 .. k - 1 : journal[j].proc # p
               /\ journal[k].kind = "output" =>
                     journal[k].offset = Cardinality({j \in OutputsAt(p) : j < k})
               /\ journal[k].kind = "exited" => \A j \in DOMAIN journal : j > k => journal[j].proc # p
    <3>1. InOrder(p, k)
      BY <1>1, <2>1, Zenon DEF PInv, OrderInv
    <3>2. 1 .. k - 1 = {j \in DOMAIN journal : j < k}
      BY <2>0, <2>1
    <3>3. journal[k].kind = "started" <=> \A j \in 1 .. k - 1 : journal[j].proc # p
      BY <3>1, <3>2, Zenon DEF InOrder
    <3> QED
      BY <3>1, <3>3, Zenon DEF InOrder
  <2>2. ASSUME NEW p \in Procs, NEW k \in OutputsAt(p) PROVE journal[k].offset < synced[p]
    BY <1>1, Zenon DEF PInv, OrderInv, InOrder, OutputsAt
  <2>3. ASSUME NEW p \in Procs, p \in quiet PROVE Outputs(p) = log[p]
    BY <1>1, <2>3, Zenon DEF PInv, QuietInv, Logged
  <2> QED
    BY <2>1, <2>2, <2>3, Zenon DEF OutputExact
<1> QED
  BY <1>1, ProcessInvariant, PTL
===============================================================================
