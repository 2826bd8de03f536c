---------------------------- MODULE AuditLogProofs -----------------------------
(***************************************************************************)
(* ReadyMeansAudited for any capacity of the queue, any size of a segment  *)
(* and any number of entries, faults and restarts.                         *)
(***************************************************************************)
EXTENDS AuditLog, TLAPS

(* Entries rise in the order of the calls; Shutdown may be among them. *)
Ordered(q) ==
    \A i, j \in DOMAIN q : i < j /\ q[i] # Shutdown /\ q[j] # Shutdown => q[i] < q[j]

(* A file that was never opened, or has entries in their order. *)
File(s) == s = Missing \/ (Shutdown \notin Range(s) /\ Ordered(s))

AuditTypes ==
    /\ queue \in Seq(Nat) /\ segment \in [log : Seq(Nat), old : Seq(Nat)]
    /\ fd \in {"log", "old"} /\ recorded \in Nat /\ before \in Nat
    /\ dropped \in Nat /\ auditFailures \in Nat

(* The retained file is older than the active one, which the thread has open unless
   a rotation failed half way. *)
FilesInv ==
    /\ File(segment.old) /\ File(segment.log)
    /\ \A x \in Entries(segment.old), y \in Entries(segment.log) : x < y
    /\ fd = "log" => segment.log # Missing
    /\ fd = "old" => segment.log = Missing /\ segment.old # Missing

(* What is queued is later than what is in the files, and Shutdown comes with draining. *)
QueueInv ==
    /\ Ordered(queue)
    /\ \A y \in Range(queue) : y <= recorded /\ (y = Shutdown => stopping)
    /\ \A x \in Entries(segment.old) \cup Entries(segment.log) :
          x <= recorded /\ \A y \in Range(queue) : y # Shutdown => x < y

KeptInv ==
    AuditReady => \A e \in before + 1 .. recorded :
        e \in Range(queue) \cup Entries(segment.old) \cup Entries(segment.log) \cup aged

LInv == AuditTypes /\ FilesInv /\ QueueInv /\ KeptInv

------------------------------------------------------------------------------
(* Sequences of entries *)

LEMMA AppendFacts ==
    ASSUME NEW q \in Seq(Nat), NEW e \in Nat
    PROVE  /\ Append(q, e) \in Seq(Nat)
           /\ Range(Append(q, e)) = Range(q) \cup {e}
           /\ Ordered(q) /\ (\A x \in Range(q) : e # Shutdown => x < e) => Ordered(Append(q, e))
<1>1. /\ Append(q, e) \in Seq(Nat) /\ DOMAIN Append(q, e) = 1 .. Len(q) + 1 /\ DOMAIN q = 1 .. Len(q)
      /\ Len(q) \in Nat /\ Append(q, e)[Len(q) + 1] = e
      /\ \A i \in 1 .. Len(q) : Append(q, e)[i] = q[i]
  OBVIOUS
<1>2. Range(Append(q, e)) = Range(q) \cup {e}
  BY <1>1 DEF Range
<1>3. ASSUME Ordered(q), \A x \in Range(q) : e # Shutdown => x < e
      PROVE  Ordered(Append(q, e))
  <2> SUFFICES ASSUME NEW i \in 1 .. Len(q) + 1, NEW j \in 1 .. Len(q) + 1, i < j,
                      Append(q, e)[i] # Shutdown, Append(q, e)[j] # Shutdown
               PROVE  Append(q, e)[i] < Append(q, e)[j]
    BY <1>1 DEF Ordered
  <2>1. i \in 1 .. Len(q) /\ Append(q, e)[i] = q[i]
    BY <1>1
  <2>2. CASE j = Len(q) + 1
    BY <1>1, <1>3, <2>1, <2>2 DEF Range
  <2>3. CASE j \in 1 .. Len(q)
    BY <1>1, <1>3, <2>1, <2>3 DEF Ordered
  <2> QED
    BY <1>1, <2>2, <2>3
<1> QED
  BY <1>1, <1>2, <1>3

LEMMA TailFacts ==
    ASSUME NEW q \in Seq(Nat), q # <<>>
    PROVE  /\ Tail(q) \in Seq(Nat) /\ Head(q) \in Nat
           /\ Range(q) = Range(Tail(q)) \cup {Head(q)}
           /\ Ordered(q) => /\ Ordered(Tail(q))
                            /\ \A y \in Range(Tail(q)) :
                                  Head(q) # Shutdown /\ y # Shutdown => Head(q) < y
<1> DEFINE t == Tail(q)
<1>1. /\ t \in Seq(Nat) /\ Len(q) \in Nat /\ Len(q) >= 1 /\ DOMAIN q = 1 .. Len(q)
      /\ DOMAIN t = 1 .. Len(q) - 1 /\ \A i \in 1 .. Len(q) - 1 : t[i] = q[i + 1]
      /\ Head(q) = q[1] /\ q[1] \in Nat
  OBVIOUS
<1> HIDE DEF t
<1>2. Range(q) \subseteq Range(t) \cup {Head(q)}
  <2> SUFFICES ASSUME NEW i \in 1 .. Len(q), i # 1 PROVE q[i] \in Range(t)
    BY <1>1, Zenon DEF Range
  <2>1. i - 1 \in 1 .. Len(q) - 1 /\ t[i - 1] = q[i]
    BY <1>1
  <2> QED
    BY <1>1, <2>1, Zenon DEF Range
<1>3. Range(t) \cup {Head(q)} \subseteq Range(q)
  <2>1. ASSUME NEW i \in DOMAIN t PROVE t[i] \in Range(q)
    <3>1. i + 1 \in DOMAIN q /\ t[i] = q[i + 1]
      BY <1>1
    <3> QED
      BY <3>1 DEF Range
  <2>2. Head(q) \in Range(q)
    <3>1. 1 \in DOMAIN q
      BY <1>1
    <3> QED
      BY <1>1, <3>1 DEF Range
  <2>3. \A y \in Range(t) : \E i \in DOMAIN t : y = t[i]
    BY DEF Range
  <2> QED
    BY <2>1, <2>2, <2>3
<1>4. ASSUME Ordered(q) PROVE Ordered(t)
  <2> SUFFICES ASSUME NEW i \in 1 .. Len(q) - 1, NEW j \in 1 .. Len(q) - 1, i < j,
                      t[i] # Shutdown, t[j] # Shutdown
               PROVE  t[i] < t[j]
    BY <1>1, Zenon DEF Ordered
  <2>1. i + 1 \in DOMAIN q /\ j + 1 \in DOMAIN q /\ i + 1 < j + 1
    BY <1>1
  <2> QED
    BY <1>1, <1>4, <2>1, Zenon DEF Ordered
<1>5. ASSUME Ordered(q), NEW y \in Range(t), Head(q) # Shutdown, y # Shutdown
      PROVE  Head(q) < y
  <2>1. PICK i \in 1 .. Len(q) - 1 : y = t[i]
    BY <1>1, Zenon DEF Range
  <2>2. 1 \in DOMAIN q /\ i + 1 \in DOMAIN q /\ 1 < i + 1 /\ q[i + 1] = y
    BY <1>1, <2>1
  <2> QED
    BY <1>1, <1>5, <2>2, Zenon DEF Ordered
<1> QED
  BY <1>1, <1>2, <1>3, <1>4, <1>5 DEF t

LEMMA NewFiles ==
    /\ Missing \in Seq(Nat) /\ File(Missing) /\ Entries(Missing) = {}
    /\ <<>> \in Seq(Nat) /\ File(<<>>) /\ <<>> # Missing /\ Entries(<<>>) = {} /\ Range(<<>>) = {}
  BY DEF Missing, File, Entries, Range, Ordered

LEMMA OneEntry ==
    ASSUME NEW e \in Nat, e # Shutdown
    PROVE  /\ <<e>> \in Seq(Nat) /\ File(<<e>>) /\ <<e>> # Missing /\ Entries(<<e>>) = {e}
<1>1. <<e>> \in Seq(Nat) /\ <<e>> # Missing /\ Range(<<e>>) = {e} /\ Ordered(<<e>>)
  BY DEF Missing, Shutdown, Range, Ordered
<1> QED
  BY <1>1 DEF File, Entries

LEMMA MoreEntries ==
    ASSUME NEW s \in Seq(Nat), s # Missing, File(s), NEW e \in Nat, e # Shutdown,
           \A x \in Entries(s) : x < e
    PROVE  /\ Append(s, e) \in Seq(Nat) /\ File(Append(s, e)) /\ Append(s, e) # Missing
           /\ Entries(Append(s, e)) = Entries(s) \cup {e}
<1>1. Shutdown \notin Range(s) /\ Ordered(s) /\ Entries(s) = Range(s)
  BY DEF File, Entries
<1>2. /\ Append(s, e) \in Seq(Nat) /\ Range(Append(s, e)) = Range(s) \cup {e}
      /\ Ordered(Append(s, e))
  BY <1>1, AppendFacts
<1>3. Append(s, e) # Missing
  <2>1. Range(Missing) = {0}
    BY DEF Missing, Range
  <2> QED
    BY <1>2, <2>1, Zenon DEF Shutdown
<1> QED
  BY <1>1, <1>2, <1>3 DEF File, Entries

------------------------------------------------------------------------------
(* Steps *)

(* A step that leaves the files and what was recorded alone, and at most
   takes entries out of the queue. *)
LEMMA SameFiles ==
    ASSUME LInv, UNCHANGED <<segment, fd, recorded, before, aged>>,
           queue' \in Seq(Nat), Ordered(queue'), dropped' \in Nat, auditFailures' \in Nat,
           \A y \in Range(queue') : (y \in Range(queue) \/ y = Shutdown) /\ (y = Shutdown => stopping'),
           AuditReady' => AuditReady /\ Range(queue) \subseteq Range(queue')
    PROVE  LInv'
<1>1. AuditTypes' /\ FilesInv'
  BY DEF LInv, AuditTypes, FilesInv
<1>2. QueueInv'
  BY DEF LInv, AuditTypes, QueueInv, Shutdown
<1>3. KeptInv'
  BY DEF LInv, KeptInv
<1> QED
  BY <1>1, <1>2, <1>3 DEF LInv

(* audit_event *)
LEMMA RecordKeeps ==
    ASSUME LInv, Record
    PROVE  LInv'
<1>0. /\ recorded \in Nat /\ recorded' = recorded + 1 /\ queue \in Seq(Nat)
      /\ dropped \in Nat /\ auditFailures \in Nat
      /\ UNCHANGED <<segment, fd, stopping, before, aged>>
  BY DEF LInv, AuditTypes, Record
<1>1. CASE queue' = Append(queue, recorded + 1) /\ UNCHANGED <<dropped, auditFailures>>
  <2>1. \A x \in Range(queue) : x < recorded + 1 /\ x \in Nat
    <3>1. \A x \in Range(queue) : x \in Nat
      BY <1>0 DEF Range
    <3>2. \A x \in Range(queue) : x <= recorded
      BY DEF LInv, QueueInv
    <3> QED
      BY <1>0, <3>1, <3>2
  <2>2. recorded + 1 \in Nat /\ recorded + 1 # Shutdown
    BY <1>0 DEF Shutdown
  <2>3. /\ queue' \in Seq(Nat) /\ Range(queue') = Range(queue) \cup {recorded + 1}
        /\ Ordered(queue')
    BY <1>0, <1>1, <2>1, <2>2, AppendFacts DEF LInv, QueueInv
  <2>4. AuditTypes' /\ FilesInv'
    BY <1>0, <1>1, <2>2, <2>3 DEF LInv, AuditTypes, FilesInv
  <2>5. QueueInv'
    <3>1. \A y \in Range(queue') : y <= recorded' /\ (y = Shutdown => stopping')
      BY <1>0, <2>1, <2>2, <2>3 DEF LInv, QueueInv
    <3>2. \A x \in Entries(segment.old) \cup Entries(segment.log) : x \in Nat
      BY DEF Entries, Range, LInv, AuditTypes
    <3>3. \A x \in Entries(segment'.old) \cup Entries(segment'.log) :
             x <= recorded' /\ \A y \in Range(queue') : y # Shutdown => x < y
      BY <1>0, <2>3, <3>2 DEF LInv, QueueInv
    <3> QED
      BY <2>3, <3>1, <3>3 DEF QueueInv
  <2>6. KeptInv'
    <3>1. AuditReady' => AuditReady
      BY <1>0, <1>1 DEF AuditReady
    <3>2. before \in Nat
      BY DEF LInv, AuditTypes
    <3>3. \A e \in before' + 1 .. recorded' : e \in before + 1 .. recorded \/ e = recorded + 1
      BY <1>0, <3>2
    <3> QED
      BY <1>0, <2>3, <3>1, <3>3 DEF LInv, KeptInv
  <2> QED
    BY <2>4, <2>5, <2>6 DEF LInv
<1>2. CASE /\ dropped' = dropped + 1 /\ UNCHANGED queue
           /\ auditFailures' \in {auditFailures, auditFailures + 1}
  <2>1. ~AuditReady'
    BY <1>0, <1>2 DEF AuditReady
  <2>2. AuditTypes' /\ FilesInv'
    BY <1>0, <1>2 DEF LInv, AuditTypes, FilesInv
  <2>3. QueueInv'
    <3>1. /\ \A x \in Entries(segment.old) \cup Entries(segment.log) : x \in Nat
          /\ \A y \in Range(queue) : y \in Nat
      BY DEF Entries, Range, LInv, AuditTypes
    <3> QED
      BY <1>0, <1>2, <3>1 DEF LInv, QueueInv
  <2> QED
    BY <2>1, <2>2, <2>3 DEF LInv, KeptInv
<1> QED
  BY <1>1, <1>2 DEF Record, DroppedCounted

(* shutdown_audit, the thread's end, draining, and an entry that fails. *)
LEMMA LosingKeeps ==
    ASSUME LInv,
           \/ Drain \/ ShutdownAudit \/ StopWriter
           \/ \E e \in 1 .. MaxEntries : EntryFails(e)
    PROVE  LInv'
<1>0. /\ queue \in Seq(Nat) /\ Ordered(queue) /\ dropped \in Nat /\ auditFailures \in Nat
      /\ \A y \in Range(queue) : y = Shutdown => stopping
  BY DEF LInv, AuditTypes, QueueInv
<1>1. CASE Drain
  BY <1>0, <1>1, SameFiles DEF Drain, AuditReady
<1>2. CASE ShutdownAudit
  <2>1. Shutdown \in Nat
    BY DEF Shutdown
  <2>2. /\ queue' \in Seq(Nat) /\ Range(queue') = Range(queue) \cup {Shutdown} /\ Ordered(queue')
    BY <1>0, <1>2, <2>1, AppendFacts DEF ShutdownAudit
  <2> QED
    BY <1>0, <1>2, <2>2, SameFiles DEF ShutdownAudit, AuditReady
<1>3. CASE StopWriter
  <2>1. Head(queue) \in Range(queue) /\ Head(queue) = Shutdown
    BY <1>0, <1>3, TailFacts DEF StopWriter
  <2>2. stopping /\ UNCHANGED stopping /\ queue' = <<>> /\ UNCHANGED <<segment, fd, recorded, before, aged>>
    BY <1>0, <1>3, <2>1 DEF StopWriter
  <2>3. dropped' \in Nat /\ auditFailures' \in Nat
    BY <1>0, <1>3 DEF StopWriter
  <2>4. ~AuditReady'
    BY <2>2 DEF AuditReady
  <2> QED
    BY <2>2, <2>3, <2>4, NewFiles, SameFiles DEF File, Missing
<1>4. ASSUME NEW e \in 1 .. MaxEntries, EntryFails(e) PROVE LInv'
  <2>1. /\ queue # <<>> /\ queue' = Tail(queue) /\ auditFailures' = auditFailures + 1
        /\ UNCHANGED <<segment, fd, recorded, before, aged, dropped, stopping>>
    BY <1>4 DEF EntryFails, Take
  <2>2. queue' \in Seq(Nat) /\ Ordered(queue') /\ Range(queue') \subseteq Range(queue)
    BY <1>0, <2>1, TailFacts
  <2>3. ~AuditReady'
    BY <1>0, <2>1 DEF AuditReady
  <2> QED
    BY <1>0, <2>1, <2>2, <2>3, SameFiles
<1> QED
  BY <1>1, <1>2, <1>3, <1>4

(* The entry that the thread takes is later than those in the files, and earlier than those
   that stay in the queue. *)
LEMMA Taken ==
    ASSUME LInv, NEW e, e # Shutdown, Take(e)
    PROVE  /\ e \in Nat /\ e <= recorded /\ queue' \in Seq(Nat) /\ Ordered(queue')
           /\ Range(queue) = Range(queue') \cup {e}
           /\ \A y \in Range(queue') : y # Shutdown => e < y
           /\ \A x \in Entries(segment.old) \cup Entries(segment.log) : x < e
<1>1. queue \in Seq(Nat) /\ queue # <<>> /\ Head(queue) = e /\ queue' = Tail(queue) /\ Ordered(queue)
  BY DEF LInv, AuditTypes, QueueInv, Take
<1>2. /\ e \in Nat /\ queue' \in Seq(Nat) /\ Ordered(queue') /\ Range(queue) = Range(queue') \cup {e}
      /\ \A y \in Range(queue') : y # Shutdown => e < y
  BY <1>1, TailFacts
<1>3. e \in Range(queue)
  BY <1>2
<1>4. e <= recorded /\ \A x \in Entries(segment.old) \cup Entries(segment.log) : x < e
  BY <1>3 DEF LInv, QueueInv
<1> QED
  BY <1>2, <1>4

(* A step that takes an entry, which the files then hold besides what they held: the
   thread has given up nothing but what is aged. *)
LEMMA EntryMoves ==
    ASSUME LInv, NEW e, e # Shutdown, Take(e), UNCHANGED <<stopping, recorded, before, dropped>>,
           FilesInv', AuditTypes', aged \subseteq aged', auditFailures' >= auditFailures,
           \A x \in Entries(segment'.old) \cup Entries(segment'.log) :
               x \in Entries(segment.old) \cup Entries(segment.log) \cup {e},
           auditFailures' = auditFailures =>
               \A x \in Entries(segment.old) \cup Entries(segment.log) \cup {e} :
                   x \in Entries(segment'.old) \cup Entries(segment'.log) \cup aged'
    PROVE  LInv'
<1>0. /\ e \in Nat /\ e <= recorded /\ queue' \in Seq(Nat) /\ Ordered(queue')
      /\ Range(queue) = Range(queue') \cup {e}
      /\ \A y \in Range(queue') : y # Shutdown => e < y
  BY Taken
<1>1. QueueInv'
  <2>1. \A y \in Range(queue') : y <= recorded' /\ (y = Shutdown => stopping')
    BY <1>0 DEF LInv, QueueInv
  <2>2. \A x \in Entries(segment.old) \cup Entries(segment.log) \cup {e} :
           x <= recorded' /\ \A y \in Range(queue') : y # Shutdown => x < y
    BY <1>0 DEF LInv, QueueInv
  <2> QED
    BY <1>0, <2>1, <2>2 DEF QueueInv
<1>2. KeptInv'
  <2> SUFFICES ASSUME AuditReady', NEW x \in before + 1 .. recorded
               PROVE  x \in Range(queue') \cup Entries(segment'.old) \cup Entries(segment'.log) \cup aged'
    BY DEF KeptInv
  <2>1. AuditReady /\ auditFailures' = auditFailures
    BY DEF AuditReady, LInv, AuditTypes
  <2>2. x \in Range(queue) \cup Entries(segment.old) \cup Entries(segment.log) \cup aged
    BY <2>1 DEF LInv, KeptInv
  <2> QED
    BY <1>0, <2>1, <2>2
<1> QED
  BY <1>1, <1>2 DEF LInv

(* audit_writer without a rotation. *)
LEMMA WriteKeeps ==
    ASSUME LInv, NEW e \in 1 .. MaxEntries, WriteEntry(e)
    PROVE  LInv'
<1>0. /\ e # Shutdown /\ Take(e) /\ UNCHANGED <<fd, dropped, stopping, recorded, before, aged>>
      /\ auditFailures' \in Nat /\ auditFailures' >= auditFailures
  BY DEF WriteEntry, LInv, AuditTypes
<1>1. /\ e \in Nat /\ queue' \in Seq(Nat)
      /\ \A x \in Entries(segment.old) \cup Entries(segment.log) : x < e
  BY <1>0, Taken
<1>2. /\ segment \in [log : Seq(Nat), old : Seq(Nat)] /\ fd \in {"log", "old"}
      /\ segment.log \in Seq(Nat) /\ segment.old \in Seq(Nat)
  BY DEF LInv, AuditTypes
<1>3. CASE fd = "log"
  <2>1. /\ segment' = [segment EXCEPT !.log = Append(segment.log, e)]
    BY <1>3 DEF WriteEntry
  <2>2. segment'.log = Append(segment.log, e) /\ segment'.old = segment.old
    BY <1>2, <2>1
  <2>3. /\ segment'.log \in Seq(Nat) /\ File(segment'.log) /\ segment'.log # Missing
        /\ Entries(segment'.log) = Entries(segment.log) \cup {e}
    BY <1>0, <1>1, <1>2, <1>3, <2>2, MoreEntries DEF LInv, FilesInv
  <2>4. AuditTypes'
    BY <1>0, <1>1, <1>2, <2>1, <2>2, <2>3, Zenon DEF LInv, AuditTypes
  <2>5. FilesInv'
    BY <1>0, <1>1, <1>3, <2>2, <2>3 DEF LInv, FilesInv
  <2> QED
    BY <1>0, <2>2, <2>3, <2>4, <2>5, EntryMoves
<1>4. CASE fd = "old"
  <2>1. segment' = [segment EXCEPT !.old = Append(segment.old, e)]
    BY <1>4 DEF WriteEntry
  <2>2. segment'.old = Append(segment.old, e) /\ segment'.log = segment.log
    BY <1>2, <2>1
  <2>3. /\ segment'.old \in Seq(Nat) /\ File(segment'.old) /\ segment'.old # Missing
        /\ Entries(segment'.old) = Entries(segment.old) \cup {e}
    <3>1. File(segment.old) /\ segment.old # Missing
      BY <1>4 DEF LInv, FilesInv
    <3>2. \A x \in Entries(segment.old) : x < e
      BY <1>1
    <3> QED
      BY <1>0, <1>1, <1>2, <2>2, <3>1, <3>2, MoreEntries
  <2>4. AuditTypes'
    BY <1>0, <1>1, <1>2, <2>1, <2>2, <2>3, Zenon DEF LInv, AuditTypes
  <2>5. Entries(segment'.log) = {}
    BY <1>4, <2>2, NewFiles DEF LInv, FilesInv
  <2>6. FilesInv'
    BY <1>0, <1>1, <1>4, <2>2, <2>3, <2>5 DEF LInv, FilesInv
  <2> QED
    BY <1>0, <2>2, <2>3, <2>4, <2>6, EntryMoves
<1> QED
  BY <1>2, <1>3, <1>4

(* rotate_audit_file, which only runs when the active segment has its name. *)
LEMMA RotateKeeps ==
    ASSUME LInv, NEW e \in 1 .. MaxEntries, RotateAndWrite(e) \/ RotateFails(e)
    PROVE  LInv'
<1>0. /\ e # Shutdown /\ Take(e) /\ UNCHANGED <<dropped, stopping, recorded, before>>
      /\ auditFailures' \in Nat /\ auditFailures' >= auditFailures /\ segment.log # Missing
      /\ aged' = aged \cup Entries(segment.old)
  BY DEF RotateAndWrite, RotateFails, LInv, AuditTypes
<1>1. /\ e \in Nat /\ queue' \in Seq(Nat)
      /\ \A x \in Entries(segment.old) \cup Entries(segment.log) : x < e
  BY <1>0, Taken
<1>2. /\ segment.log \in Seq(Nat) /\ segment.old \in Seq(Nat) /\ fd = "log"
      /\ File(segment.log) /\ recorded \in Nat /\ before \in Nat /\ dropped \in Nat
  BY <1>0 DEF LInv, AuditTypes, FilesInv
<1>3. Replaced = [old |-> segment.log, log |-> Missing] /\ Opened(Replaced) = [old |-> segment.log, log |-> <<>>]
  BY DEF Replaced, Opened
<1>4. <<e>> \in Seq(Nat) /\ File(<<e>>) /\ <<e>> # Missing /\ Entries(<<e>>) = {e}
  BY <1>0, <1>1, OneEntry
<1>5. CASE segment' = [old |-> segment.log, log |-> <<e>>] /\ fd' = "log"
  <2>1. segment'.old = segment.log /\ segment'.log = <<e>>
    BY <1>5
  <2>2. AuditTypes'
    BY <1>0, <1>1, <1>2, <1>4, <1>5 DEF AuditTypes
  <2>3. FilesInv'
    BY <1>1, <1>2, <1>4, <1>5, <2>1, Zenon DEF FilesInv
  <2> QED
    BY <1>0, <1>4, <2>1, <2>2, <2>3, EntryMoves
<1>6. CASE /\ segment' = [old |-> segment.log, log |-> <<>>] /\ fd' = "log"
           /\ auditFailures' # auditFailures
  <2>1. segment'.old = segment.log /\ segment'.log = <<>>
    BY <1>6
  <2>2. AuditTypes'
    BY <1>0, <1>1, <1>2, <1>6, NewFiles DEF AuditTypes
  <2>3. FilesInv'
    BY <1>2, <1>6, <2>1, NewFiles DEF FilesInv
  <2> QED
    BY <1>0, <1>6, <2>1, <2>2, <2>3, NewFiles, EntryMoves
<1>7. CASE /\ segment' = [old |-> Missing, log |-> segment.log] /\ fd' = "log"
           /\ auditFailures' # auditFailures
  <2>1. segment'.old = Missing /\ segment'.log = segment.log
    BY <1>7
  <2>2. AuditTypes'
    BY <1>0, <1>1, <1>2, <1>7, NewFiles DEF AuditTypes
  <2>3. FilesInv'
    BY <1>0, <1>2, <1>7, <2>1, NewFiles DEF FilesInv
  <2> QED
    BY <1>0, <1>7, <2>1, <2>2, <2>3, NewFiles, EntryMoves
<1>8. CASE /\ segment' = [old |-> segment.log, log |-> Missing] /\ fd' = "old"
           /\ auditFailures' # auditFailures
  <2>1. segment'.old = segment.log /\ segment'.log = Missing
    BY <1>8
  <2>2. AuditTypes'
    BY <1>0, <1>1, <1>2, <1>8, NewFiles DEF AuditTypes
  <2>3. FilesInv'
    BY <1>0, <1>2, <1>8, <2>1, NewFiles DEF FilesInv
  <2> QED
    BY <1>0, <1>8, <2>1, <2>2, <2>3, NewFiles, EntryMoves
<1>9. auditFailures \in Nat
  BY DEF LInv, AuditTypes
<1>10. CASE RotateAndWrite(e)
  <2> DEFINE new == Opened(Replaced)
             both == [new EXCEPT !.log = <<e>>]
  <2>1. new = [old |-> segment.log, log |-> <<>>] /\ both = [old |-> segment.log, log |-> <<e>>]
    BY <1>3
  <2>2. /\ fd' = "log"
        /\ \/ segment' = both
           \/ segment' = new /\ auditFailures' = auditFailures + 1
    BY <1>10 DEF RotateAndWrite
  <2> QED
    BY <1>5, <1>6, <1>9, <2>1, <2>2
<1>11. CASE RotateFails(e)
  BY <1>2, <1>3, <1>7, <1>8, <1>9, <1>11 DEF RotateFails
<1> QED
  BY <1>10, <1>11

(* AuditSink::open *)
LEMMA RestartKeeps ==
    ASSUME LInv, AuditRestart
    PROVE  LInv'
<1>0. /\ fd' = "log" /\ queue' = <<>> /\ dropped' = 0 /\ before' = recorded /\ recorded' = recorded
      /\ auditFailures' \in {0, 1}
  BY DEF AuditRestart
<1>1. /\ segment \in [log : Seq(Nat), old : Seq(Nat)]
      /\ segment.log \in Seq(Nat) /\ segment.old \in Seq(Nat) /\ recorded \in Nat
      /\ File(segment.log) /\ File(segment.old)
      /\ \A x \in Entries(segment.old), y \in Entries(segment.log) : x < y
      /\ \A x \in Entries(segment.old) \cup Entries(segment.log) : x <= recorded
  BY DEF LInv, AuditTypes, FilesInv, QueueInv
<1>2. PICK s \in {segment, Replaced} : segment' = Opened(s) /\ (s = Replaced => segment.log # Missing \/ s = segment)
  BY DEF AuditRestart
<1>3. /\ segment' \in [log : Seq(Nat), old : Seq(Nat)]
      /\ File(segment'.log) /\ File(segment'.old) /\ segment'.log # Missing
      /\ \A x \in Entries(segment'.old), y \in Entries(segment'.log) : x < y
      /\ \A x \in Entries(segment'.old) \cup Entries(segment'.log) : x <= recorded
  <2>1. CASE s = segment /\ segment.log # Missing
    <3>1. segment' = segment
      BY <1>2, <2>1 DEF Opened
    <3> QED
      BY <1>1, <2>1, <3>1
  <2>2. CASE s = segment /\ segment.log = Missing
    <3>1. segment' = [segment EXCEPT !.log = <<>>]
      BY <1>2, <2>2 DEF Opened
    <3>2. segment'.log = <<>> /\ segment'.old = segment.old
      BY <1>1, <3>1
    <3> QED
      BY <1>1, <3>1, <3>2, NewFiles, Zenon
  <2>3. CASE s = Replaced
    <3>1. segment' = [old |-> segment.log, log |-> <<>>]
      BY <1>2, <2>3 DEF Replaced, Opened
    <3>2. segment'.log = <<>> /\ segment'.old = segment.log
      BY <3>1
    <3> QED
      BY <1>1, <3>1, <3>2, NewFiles
  <2> QED
    BY <2>1, <2>2, <2>3
<1>4. AuditTypes'
  BY <1>0, <1>1, <1>3, NewFiles DEF AuditTypes
<1>5. FilesInv'
  BY <1>0, <1>3 DEF FilesInv
<1>6. QueueInv'
  BY <1>0, <1>3, NewFiles DEF QueueInv, Ordered
<1>7. KeptInv'
  BY <1>0, <1>1 DEF KeptInv
<1> QED
  BY <1>4, <1>5, <1>6, <1>7 DEF LInv

LEMMA LInvNext == LInv /\ [AuditNext]_auditVars => LInv'
<1> SUFFICES ASSUME LInv, [AuditNext]_auditVars PROVE LInv'
  OBVIOUS
<1>1. CASE UNCHANGED auditVars
  BY <1>1 DEF auditVars, LInv, AuditTypes, FilesInv, QueueInv, KeptInv, AuditReady, Ordered
<1> QED
  BY <1>1, RecordKeeps, LosingKeeps, WriteKeeps, RotateKeeps, RestartKeeps DEF AuditNext

(* What two files that follow each other hold, one after the other. *)
LEMMA BothFiles ==
    ASSUME NEW s \in Seq(Nat), NEW t \in Seq(Nat),
           Shutdown \notin Range(s), Shutdown \notin Range(t), Ordered(s), Ordered(t),
           \A x \in Range(s), y \in Range(t) : x < y
    PROVE  /\ Range(s) \cup Range(t) \subseteq Range(s \o t)
           /\ \A i, j \in DOMAIN (s \o t) : i < j => (s \o t)[i] < (s \o t)[j]
<1> DEFINE c == s \o t
<1>1. /\ DOMAIN c = 1 .. Len(s) + Len(t) /\ Len(s) \in Nat /\ Len(t) \in Nat
      /\ DOMAIN s = 1 .. Len(s) /\ DOMAIN t = 1 .. Len(t)
      /\ \A i \in 1 .. Len(s) : c[i] = s[i]
      /\ \A i \in 1 .. Len(t) : c[Len(s) + i] = t[i]
  OBVIOUS
<1> HIDE DEF c
<1>2. ASSUME NEW i \in DOMAIN s PROVE s[i] \in Range(c)
  <2>1. i \in DOMAIN c /\ c[i] = s[i]
    BY <1>1
  <2> QED
    BY <2>1 DEF Range
<1>3. ASSUME NEW i \in DOMAIN t PROVE t[i] \in Range(c)
  <2>1. Len(s) + i \in DOMAIN c /\ c[Len(s) + i] = t[i]
    BY <1>1
  <2> QED
    BY <2>1 DEF Range
<1>4. Range(s) \cup Range(t) \subseteq Range(c)
  <2>1. /\ \A x \in Range(s) : \E i \in DOMAIN s : x = s[i]
        /\ \A x \in Range(t) : \E i \in DOMAIN t : x = t[i]
    BY DEF Range
  <2> QED
    BY <1>2, <1>3, <2>1
<1>5. ASSUME NEW i \in DOMAIN c, NEW j \in DOMAIN c, i < j PROVE c[i] < c[j]
  <2>1. CASE j <= Len(s)
    <3>1. i \in DOMAIN s /\ j \in DOMAIN s /\ c[i] = s[i] /\ c[j] = s[j]
      BY <1>1, <1>5, <2>1
    <3>2. s[i] \in Range(s) /\ s[j] \in Range(s)
      BY <3>1 DEF Range
    <3> QED
      BY <1>5, <3>1, <3>2 DEF Ordered
  <2>2. CASE i <= Len(s) /\ j > Len(s)
    <3>1. i \in DOMAIN s /\ c[i] = s[i]
      BY <1>1, <1>5, <2>2
    <3>2. j - Len(s) \in DOMAIN t /\ c[Len(s) + (j - Len(s))] = t[j - Len(s)] /\ Len(s) + (j - Len(s)) = j
      BY <1>1, <1>5, <2>2
    <3>3. s[i] \in Range(s) /\ t[j - Len(s)] \in Range(t)
      BY <3>1, <3>2 DEF Range
    <3> QED
      BY <3>1, <3>2, <3>3
  <2>3. CASE i > Len(s)
    <3>0. ASSUME NEW n \in DOMAIN c, n > Len(s) PROVE \E k \in DOMAIN t : n = Len(s) + k
      <4>1. n - Len(s) \in DOMAIN t /\ n = Len(s) + (n - Len(s))
        BY <1>1, <3>0
      <4> QED
        BY <4>1
    <3>1. PICK k \in DOMAIN t : i = Len(s) + k
      BY <2>3, <3>0
    <3>2. PICK l \in DOMAIN t : j = Len(s) + l
      <4>1. j > Len(s)
        BY <1>1, <1>5, <2>3
      <4> QED
        BY <3>0, <4>1
    <3>3. k < l /\ c[i] = t[k] /\ c[j] = t[l]
      BY <1>1, <1>5, <3>1, <3>2
    <3>4. t[k] \in Range(t) /\ t[l] \in Range(t)
      BY DEF Range
    <3> QED
      BY <3>3, <3>4 DEF Ordered
  <2> QED
    BY <1>1, <2>1, <2>2, <2>3
<1> QED
  BY <1>4, <1>5 DEF c

(* AuditInner::is_ready, audit_event and audit_writer: as long as the daemon says it is
   ready no entry of this process was lost, however the thread, its rotations
   and restarts interleave with the calls, and the files are in order. *)
THEOREM ReadyAlwaysAudited == AuditSpec => []ReadyMeansAudited
<1>1. AuditInit => LInv
  <2> SUFFICES ASSUME AuditInit PROVE LInv
    OBVIOUS
  <2>1. /\ queue = <<>> /\ segment = [log |-> <<>>, old |-> Missing] /\ fd = "log"
        /\ segment.log = <<>> /\ segment.old = Missing
        /\ dropped = 0 /\ auditFailures = 0 /\ recorded = 0 /\ before = 0
    BY DEF AuditInit
  <2>2. AuditTypes /\ FilesInv
    BY <2>1, NewFiles DEF AuditTypes, FilesInv
  <2>3. QueueInv
    BY <2>1, NewFiles DEF QueueInv, Ordered
  <2>4. KeptInv
    BY <2>1 DEF KeptInv
  <2> QED
    BY <2>2, <2>3, <2>4 DEF LInv
<1>2. LInv => ReadyMeansAudited
  <2> SUFFICES ASSUME LInv PROVE ReadyMeansAudited
    OBVIOUS
  <2> DEFINE kept == IF segment.old = Missing THEN <<>> ELSE segment.old
             now == IF segment.log = Missing THEN <<>> ELSE segment.log
  <2>1. segment.log \in Seq(Nat) /\ segment.old \in Seq(Nat)
    BY DEF LInv, AuditTypes
  <2>2. /\ kept \in Seq(Nat) /\ now \in Seq(Nat)
        /\ Range(kept) = Entries(segment.old) /\ Range(now) = Entries(segment.log)
    BY <2>1, NewFiles, Zenon DEF Entries
  <2>3. /\ Shutdown \notin Range(kept) /\ Ordered(kept) /\ Shutdown \notin Range(now) /\ Ordered(now)
    BY <2>1, NewFiles DEF LInv, FilesInv, File
  <2>4. \A x \in Range(kept), y \in Range(now) : x < y
    BY <2>2 DEF LInv, FilesInv
  <2> HIDE DEF kept, now
  <2>5. /\ Range(kept) \cup Range(now) \subseteq Range(kept \o now)
        /\ \A i, j \in DOMAIN (kept \o now) : i < j => (kept \o now)[i] < (kept \o now)[j]
    BY <2>2, <2>3, <2>4, BothFiles
  <2>6. AuditReady => before + 1 .. recorded \subseteq Range(queue) \cup Range(kept \o now) \cup aged
    BY <2>2, <2>5 DEF LInv, KeptInv
  <2> QED
    BY <2>5, <2>6, Zenon DEF ReadyMeansAudited, kept, now
<1> QED
  BY <1>1, <1>2, LInvNext, PTL DEF AuditSpec
===============================================================================
