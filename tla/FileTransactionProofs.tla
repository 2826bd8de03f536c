------------------------ MODULE FileTransactionProofs -------------------------
(* Theorems about FileTransaction, for every set of requests and contents,  *)
(* every choice of policies and faults and any number of edits and crashes. *)
EXTENDS FileTransaction, TLAPS

Steps == {"idle", "checked", "prepared", "backedup", "installed", "committed",
          "rollback", "removed", "restored"}
File == Contents \cup {Absent}
Event == [req : Requests, version : Nat, sha256 : File]

\* The shape of the state.
Types ==
    /\ status \in {"up", "starting", "down", "refused"}
    /\ target \in File
    /\ temporary \in [Requests -> File]
    /\ backup \in [Requests -> File]
    /\ intent \in [Requests -> [version : Nat, sha256 : File, previous : File]]
    /\ journal \in Seq(Event)
    /\ tx \in [step : Steps, req : Requests \cup {Absent}, present : BOOLEAN]
    /\ request \in [Requests -> [policy : {"none", "create", "guarded", "blind"},
                                 data : File, expected : File]]
    /\ answer \in [Requests -> Nat]
    /\ edits \in Nat /\ crashes \in Nat
    /\ original \in File

\* The transaction at the gate has not been journaled until it commits.
GateInv ==
    /\ tx.step = "idle" <=> tx = NoTx
    /\ tx.step # "idle" => /\ status = "up" /\ tx.req \in Requests
                           /\ request[tx.req] # Unasked
    /\ tx.step \notin {"idle", "committed"} => ~Committed(tx.req)
    /\ tx.step = "committed" => Committed(tx.req)

AnswerInv ==
    \A r \in Requests : answer[r] # 0 =>
        \E k \in DOMAIN journal : journal[k].req = r /\ journal[k].version = answer[r]

IntentInv ==
    /\ tx.step \notin {"idle", "checked"} => intent[tx.req] # NoIntent
    /\ \A r \in Requests : intent[r] # NoIntent =>
          request[r] # Unasked /\ intent[r].sha256 = request[r].data

IInv == Types /\ GateInv /\ IntentInv /\ VersionsNameMutations /\ AnswerInv

\* With the versions of the journal strictly increasing, the version clock is
\* an upper bound of every version given out (file_versions).
LEMMA ClockLemma ==
    ASSUME journal \in Seq(Event), VersionsNameMutations
    PROVE  /\ CurrentVersion \in Nat
           /\ \A k \in DOMAIN journal : journal[k].version <= CurrentVersion
<1> DEFINE V(k) == journal[k].version
           S == {0} \cup {V(k) : k \in DOMAIN journal}
<1>1. DOMAIN journal = 1 .. Len(journal) /\ Len(journal) \in Nat
  OBVIOUS
<1>2. \A k \in DOMAIN journal : V(k) \in Nat
  <2>1. \A k \in DOMAIN journal : journal[k] \in Event
    BY <1>1
  <2> QED BY <2>1 DEF Event
<1>3. \A j, k \in DOMAIN journal : j < k => V(j) < V(k)
  BY DEF VersionsNameMutations
<1>4. CurrentVersion = Max(S)
  BY DEF CurrentVersion
<1> HIDE DEF V
<1>5. \E m \in S : \A v \in S : m >= v
  <2>1. CASE Len(journal) = 0
    BY <2>1, <1>1
  <2>2. CASE Len(journal) # 0
    <3>1. Len(journal) \in DOMAIN journal
      BY <2>2, <1>1
    <3>2. \A k \in DOMAIN journal : V(Len(journal)) >= V(k)
      BY <3>1, <1>1, <1>2, <1>3
    <3>3. V(Len(journal)) \in S
      BY <3>1
    <3>4. \A v \in S : V(Len(journal)) >= v
      BY <3>1, <3>2, <1>2
    <3> QED BY <3>3, <3>4, ZenonT(60)
  <2> QED BY <2>1, <2>2
<1>6. Max(S) \in S /\ \A v \in S : Max(S) >= v
  BY <1>5, ZenonT(60) DEF Max
<1>7. Max(S) \in Nat
  BY <1>6, <1>2
<1>8. \A k \in DOMAIN journal : V(k) <= Max(S)
  BY <1>6, <1>2, <1>7
<1> QED BY <1>4, <1>7, <1>8 DEF V

\* The event of a committed request is one of the journal.
LEMMA EventOfLemma ==
    ASSUME journal \in Seq(Event), NEW r \in Requests, Committed(r)
    PROVE  /\ \E k \in DOMAIN journal : EventOf(r) = journal[k] /\ journal[k].req = r
           /\ EventOf(r).version \in Nat
<1> DEFINE E == {journal[k] : k \in DOMAIN journal}
<1>1. \E e \in E : e.req = r
  BY DEF Committed
<1>2. EventOf(r) \in E /\ EventOf(r).req = r
  BY <1>1 DEF EventOf
<1>3. \E k \in DOMAIN journal : EventOf(r) = journal[k] /\ journal[k].req = r
  BY <1>2
<1>4. \A k \in DOMAIN journal : journal[k] \in Event
  OBVIOUS
<1> QED BY <1>3, <1>4 DEF Event

\* Journaling the mutation of an uncommitted request under a version the clock
\* has not reached keeps versions and requests unique (AppendMutation, Recover).
LEMMA AppendLemma ==
    ASSUME journal \in Seq(Event), VersionsNameMutations,
           NEW e \in Event, ~Committed(e.req), e.version > CurrentVersion,
           journal' = Append(journal, e)
    PROVE  /\ journal' \in Seq(Event)
           /\ VersionsNameMutations'
           /\ \A k \in DOMAIN journal : k \in DOMAIN journal' /\ journal'[k] = journal[k]
           /\ \A r : Committed(r)' <=> Committed(r) \/ r = e.req
<1> DEFINE n == Len(journal) + 1
<1>1. journal' \in Seq(Event)
  OBVIOUS
<1>2. /\ DOMAIN journal = 1 .. Len(journal) /\ Len(journal) \in Nat
      /\ DOMAIN journal' = 1 .. n
  OBVIOUS
<1>3. journal'[n] = e /\ \A k \in DOMAIN journal : journal'[k] = journal[k]
  OBVIOUS
<1>4. \A k \in DOMAIN journal' : k = n \/ k \in DOMAIN journal
  BY <1>2
<1>5. \A k \in DOMAIN journal : k \in DOMAIN journal' /\ k < n
  BY <1>2
<1>6. \A k \in DOMAIN journal :
         journal[k].version \in Nat /\ journal[k].version < e.version /\ journal[k].req # e.req
  <2>1. \A k \in DOMAIN journal : journal[k] \in Event
    OBVIOUS
  <2>2. \A k \in DOMAIN journal : journal[k].version \in Nat
    BY <2>1 DEF Event
  <2> QED BY <2>2, ClockLemma DEF Committed, Event
<1>7. VersionsNameMutations'
  <2> SUFFICES ASSUME NEW j \in DOMAIN journal', NEW k \in DOMAIN journal'
               PROVE  /\ j < k => journal'[j].version < journal'[k].version
                      /\ journal'[j].req = journal'[k].req => j = k
    BY DEF VersionsNameMutations
  <2>1. CASE j \in DOMAIN journal /\ k \in DOMAIN journal
    BY <2>1, <1>3 DEF VersionsNameMutations
  <2>2. CASE j \in DOMAIN journal /\ k = n
    BY <2>2, <1>3, <1>6
  <2>3. CASE j = n /\ k \in DOMAIN journal
    <3>1. ~(j < k)
      BY <2>3, <1>2
    <3> QED BY <2>3, <3>1, <1>3, <1>6
  <2>4. CASE j = n /\ k = n
    BY <2>4, <1>2
  <2> QED BY <1>4, <2>1, <2>2, <2>3, <2>4
<1>8. ASSUME NEW r
      PROVE  Committed(r)' <=> Committed(r) \/ r = e.req
  <2>1. n \in DOMAIN journal'
    BY <1>2
  <2> QED BY <2>1, <1>3, <1>4, <1>5 DEF Committed
<1> QED BY <1>1, <1>3, <1>5, <1>7, <1>8

\* A step that does not write the journal disturbs none of its properties.
LEMMA JournalKept ==
    ASSUME journal' = journal
    PROVE  /\ VersionsNameMutations => VersionsNameMutations'
           /\ \A r : Committed(r)' <=> Committed(r)
           /\ AnswerInv /\ answer' = answer => AnswerInv'
BY DEF VersionsNameMutations, Committed, AnswerInv

\* The steps of IInv that journal an event: what they append is an event, and
\* its request is the only one they commit.
LEMMA JournalGrows ==
    ASSUME IInv, NEW r \in Requests, ~Committed(r), intent[r] # NoIntent,
           intent[r].version > CurrentVersion,
           journal' = Append(journal, Mutation(r, intent[r].version)),
           answer' = answer
    PROVE  /\ journal' \in Seq(Event)
           /\ VersionsNameMutations' /\ AnswerInv'
           /\ \A q : Committed(q)' <=> Committed(q) \/ q = r
<1> DEFINE e == Mutation(r, intent[r].version)
<1>1. e \in Event /\ e.req = r /\ e.version = intent[r].version
  BY DEF IInv, Types, Mutation, Event
<1> HIDE DEF e
<1>2. /\ journal' \in Seq(Event)
      /\ VersionsNameMutations'
      /\ \A k \in DOMAIN journal : k \in DOMAIN journal' /\ journal'[k] = journal[k]
      /\ \A q : Committed(q)' <=> Committed(q) \/ q = e.req
  <2>1. journal \in Seq(Event) /\ VersionsNameMutations
    BY DEF IInv, Types
  <2>2. ~Committed(e.req) /\ e.version > CurrentVersion /\ journal' = Append(journal, e)
    BY <1>1 DEF e
  <2> QED BY <2>1, <2>2, <1>1, AppendLemma
<1>3. AnswerInv'
  BY <1>2 DEF AnswerInv, IInv
<1> QED BY <1>1, <1>2, <1>3

LEMMA IInvInit == Init => IInv
BY FileAssumption DEF Init, IInv, Types, GateInv, IntentInv, AnswerInv, VersionsNameMutations,
     Steps, File, NoTx, NoIntent, Unasked

\* Every step of the daemon, of a crash or of the outside world keeps IInv.
LEMMA IInvStep == IInv /\ [Next]_vars => IInv'
<1> SUFFICES ASSUME IInv, [Next]_vars PROVE IInv'
  OBVIOUS
<1>t. /\ Types /\ GateInv /\ IntentInv /\ VersionsNameMutations /\ AnswerInv
      /\ journal \in Seq(Event) /\ CurrentVersion \in Nat
  <2>1. Types /\ GateInv /\ IntentInv /\ VersionsNameMutations /\ AnswerInv
    BY DEF IInv
  <2>2. journal \in Seq(Event)
    BY <2>1 DEF Types
  <2> QED BY <2>1, <2>2, ClockLemma
<1>a. Absent \in File /\ Contents \subseteq File
  BY DEF File
<1>4. CASE PrepareFails
  <2>1. journal' = journal /\ answer' = answer
    BY <1>4 DEF PrepareFails, files
  <2>2. VersionsNameMutations' /\ AnswerInv' /\ \A q : Committed(q)' <=> Committed(q)
    BY <2>1, <1>t, JournalKept
  <2>3. Types'
    BY <1>4, <1>t, <1>a, ZenonT(60) DEF PrepareFails, Types, files, At, End, Req, NoTx, NoIntent, Steps
  <2>4. GateInv'
    BY <1>4, <1>t, <2>2 DEF PrepareFails, Types, GateInv, files, At, End, Req, NoTx, Steps
  <2>5. IntentInv'
    BY <1>4, <1>t DEF PrepareFails, Types, GateInv, IntentInv, files, At, End, Req, NoTx, NoIntent
  <2> QED BY <2>2, <2>3, <2>4, <2>5 DEF IInv
<1>5. CASE Backup
  <2>1. journal' = journal /\ answer' = answer
    BY <1>5 DEF Backup, files
  <2>2. VersionsNameMutations' /\ AnswerInv' /\ \A q : Committed(q)' <=> Committed(q)
    BY <2>1, <1>t, JournalKept
  <2>3. Types'
    BY <1>5, <1>t, <1>a, ZenonT(60) DEF Backup, Types, files, At, End, Req, NoTx, NoIntent, Steps
  <2>4. GateInv'
    BY <1>5, <1>t, <2>2 DEF Backup, Types, GateInv, files, At, End, Req, NoTx, Steps
  <2>5. IntentInv'
    BY <1>5, <1>t DEF Backup, Types, GateInv, IntentInv, files, At, End, Req, NoTx, NoIntent
  <2> QED BY <2>2, <2>3, <2>4, <2>5 DEF IInv
<1>6. CASE BackupFails
  <2>1. journal' = journal /\ answer' = answer
    BY <1>6 DEF BackupFails, files
  <2>2. VersionsNameMutations' /\ AnswerInv' /\ \A q : Committed(q)' <=> Committed(q)
    BY <2>1, <1>t, JournalKept
  <2>3. Types'
    BY <1>6, <1>t, <1>a, ZenonT(60) DEF BackupFails, Types, files, At, End, Req, NoTx, NoIntent, Steps
  <2>4. GateInv'
    BY <1>6, <1>t, <2>2 DEF BackupFails, Types, GateInv, files, At, End, Req, NoTx, Steps
  <2>5. IntentInv'
    BY <1>6, <1>t DEF BackupFails, Types, GateInv, IntentInv, files, At, End, Req, NoTx, NoIntent
  <2> QED BY <2>2, <2>3, <2>4, <2>5 DEF IInv
<1>7. CASE Install
  <2>0. tx.req \in Requests
    BY <1>7, <1>t DEF Install, At, GateInv
  <2>1. journal' = journal /\ answer' = answer
    BY <1>7 DEF Install, files
  <2>2. VersionsNameMutations' /\ AnswerInv' /\ \A q : Committed(q)' <=> Committed(q)
    BY <2>1, <1>t, JournalKept
  <2>3. Types'
    BY <1>7, <1>t, <1>a, <2>0, ZenonT(60) DEF Install, Types, files, At, End, Req, NoTx, NoIntent, Steps
  <2>4. GateInv'
    BY <1>7, <1>t, <2>2 DEF Install, Types, GateInv, files, At, End, Req, NoTx, Steps
  <2>5. IntentInv'
    BY <1>7, <1>t DEF Install, Types, GateInv, IntentInv, files, At, End, Req, NoTx, NoIntent
  <2> QED BY <2>2, <2>3, <2>4, <2>5 DEF IInv
<1>9. CASE StepFails
  <2>1. journal' = journal /\ answer' = answer
    BY <1>9 DEF StepFails, files
  <2>2. VersionsNameMutations' /\ AnswerInv' /\ \A q : Committed(q)' <=> Committed(q)
    BY <2>1, <1>t, JournalKept
  <2>3. Types'
    BY <1>9, <1>t, <1>a, ZenonT(60) DEF StepFails, Types, files, At, End, Req, NoTx, NoIntent, Steps
  <2>4. GateInv'
    BY <1>9, <1>t, <2>2 DEF StepFails, Types, GateInv, files, At, End, Req, NoTx, Steps
  <2>5. IntentInv'
    BY <1>9, <1>t DEF StepFails, Types, GateInv, IntentInv, files, At, End, Req, NoTx, NoIntent
  <2> QED BY <2>2, <2>3, <2>4, <2>5 DEF IInv
<1>11. CASE RollbackRefuses
  <2>1. journal' = journal /\ answer' = answer
    BY <1>11 DEF RollbackRefuses, files
  <2>2. VersionsNameMutations' /\ AnswerInv' /\ \A q : Committed(q)' <=> Committed(q)
    BY <2>1, <1>t, JournalKept
  <2>3. Types'
    BY <1>11, <1>t, <1>a DEF RollbackRefuses, Types, files, At, End, Req, NoTx, NoIntent, Steps
  <2>4. GateInv'
    BY <1>11, <1>t, <2>2 DEF RollbackRefuses, Types, GateInv, files, At, End, Req, NoTx, Steps
  <2>5. IntentInv'
    BY <1>11, <1>t DEF RollbackRefuses, Types, GateInv, IntentInv, files, At, End, Req, NoTx,
       NoIntent
  <2> QED BY <2>2, <2>3, <2>4, <2>5 DEF IInv
<1>12. CASE RollbackRemove
  <2>1. journal' = journal /\ answer' = answer
    BY <1>12 DEF RollbackRemove, files
  <2>2. VersionsNameMutations' /\ AnswerInv' /\ \A q : Committed(q)' <=> Committed(q)
    BY <2>1, <1>t, JournalKept
  <2>3. Types'
    BY <1>12, <1>t, <1>a, ZenonT(60) DEF RollbackRemove, Types, files, At, End, Req, NoTx, NoIntent, Steps
  <2>4. GateInv'
    BY <1>12, <1>t, <2>2 DEF RollbackRemove, Types, GateInv, files, At, End, Req, NoTx, Steps
  <2>5. IntentInv'
    BY <1>12, <1>t DEF RollbackRemove, Types, GateInv, IntentInv, files, At, End, Req, NoTx,
       NoIntent
  <2> QED BY <2>2, <2>3, <2>4, <2>5 DEF IInv
<1>13. CASE RollbackRestore
  <2>0. tx.req \in Requests
    BY <1>13, <1>t DEF RollbackRestore, At, GateInv
  <2>1. journal' = journal /\ answer' = answer
    BY <1>13 DEF RollbackRestore, files
  <2>2. VersionsNameMutations' /\ AnswerInv' /\ \A q : Committed(q)' <=> Committed(q)
    BY <2>1, <1>t, JournalKept
  <2>3. Types'
    BY <1>13, <1>t, <1>a, <2>0, ZenonT(60) DEF RollbackRestore, Types, files, At, End, Req, NoTx, NoIntent,
       Steps
  <2>4. GateInv'
    BY <1>13, <1>t, <2>2 DEF RollbackRestore, Types, GateInv, files, At, End, Req, NoTx, Steps
  <2>5. IntentInv'
    BY <1>13, <1>t DEF RollbackRestore, Types, GateInv, IntentInv, files, At, End, Req, NoTx,
       NoIntent
  <2> QED BY <2>2, <2>3, <2>4, <2>5 DEF IInv
<1>14. CASE RollbackClear
  <2>1. journal' = journal /\ answer' = answer
    BY <1>14 DEF RollbackClear, files
  <2>2. VersionsNameMutations' /\ AnswerInv' /\ \A q : Committed(q)' <=> Committed(q)
    BY <2>1, <1>t, JournalKept
  <2>3. Types'
    BY <1>14, <1>t, <1>a, ZenonT(60) DEF RollbackClear, Types, files, At, End, Req, NoTx, NoIntent, Steps
  <2>4. GateInv'
    BY <1>14, <1>t, <2>2 DEF RollbackClear, Types, GateInv, files, At, End, Req, NoTx, Steps
  <2>5. IntentInv'
    BY <1>14, <1>t DEF RollbackClear, Types, GateInv, IntentInv, files, At, End, Req, NoTx,
       NoIntent
  <2> QED BY <2>2, <2>3, <2>4, <2>5 DEF IInv
<1>15. CASE Crash
  <2>1. journal' = journal /\ answer' = answer
    BY <1>15 DEF Crash, files
  <2>2. VersionsNameMutations' /\ AnswerInv' /\ \A q : Committed(q)' <=> Committed(q)
    BY <2>1, <1>t, JournalKept
  <2>3. Types'
    BY <1>15, <1>t, <1>a DEF Crash, Types, files, At, End, Req, NoTx, NoIntent, Steps
  <2>4. GateInv'
    BY <1>15, <1>t, <2>2, Zenon DEF Crash, Types, GateInv, files, At, End, Req, NoTx, Steps
  <2>5. IntentInv'
    BY <1>15, <1>t DEF Crash, Types, GateInv, IntentInv, files, At, End, Req, NoTx, NoIntent
  <2> QED BY <2>2, <2>3, <2>4, <2>5 DEF IInv
<1>16. CASE Start
  <2>1. journal' = journal /\ answer' = answer
    BY <1>16 DEF Start, files
  <2>2. VersionsNameMutations' /\ AnswerInv' /\ \A q : Committed(q)' <=> Committed(q)
    BY <2>1, <1>t, JournalKept
  <2>3. Types'
    BY <1>16, <1>t, <1>a DEF Start, Types, files, At, End, Req, NoTx, NoIntent, Steps
  <2>4. GateInv'
    BY <1>16, <1>t, <2>2 DEF Start, Types, GateInv, files, At, End, Req, NoTx, Steps
  <2>5. IntentInv'
    BY <1>16, <1>t DEF Start, Types, GateInv, IntentInv, files, At, End, Req, NoTx, NoIntent
  <2> QED BY <2>2, <2>3, <2>4, <2>5 DEF IInv
<1>17. CASE Serve
  <2>1. journal' = journal /\ answer' = answer
    BY <1>17 DEF Serve, files
  <2>2. VersionsNameMutations' /\ AnswerInv' /\ \A q : Committed(q)' <=> Committed(q)
    BY <2>1, <1>t, JournalKept
  <2>3. Types'
    BY <1>17, <1>t, <1>a DEF Serve, Types, files, At, End, Req, NoTx, NoIntent, Steps
  <2>4. GateInv'
    BY <1>17, <1>t, <2>2 DEF Serve, Types, GateInv, files, At, End, Req, NoTx, Steps
  <2>5. IntentInv'
    BY <1>17, <1>t DEF Serve, Types, GateInv, IntentInv, files, At, End, Req, NoTx, NoIntent
  <2> QED BY <2>2, <2>3, <2>4, <2>5 DEF IInv
<1>21. CASE EditFromOutside
  <2>1. journal' = journal /\ answer' = answer
    BY <1>21 DEF EditFromOutside, files
  <2>2. VersionsNameMutations' /\ AnswerInv' /\ \A q : Committed(q)' <=> Committed(q)
    BY <2>1, <1>t, JournalKept
  <2>3. Types'
    BY <1>21, <1>t, <1>a DEF EditFromOutside, Types, files, At, End, Req, NoTx, NoIntent, Steps
  <2>4. GateInv'
    BY <1>21, <1>t, <2>2 DEF EditFromOutside, Types, GateInv, files, At, End, Req, NoTx, Steps
  <2>5. IntentInv'
    BY <1>21, <1>t DEF EditFromOutside, Types, GateInv, IntentInv, files, At, End, Req, NoTx,
       NoIntent
  <2> QED BY <2>2, <2>3, <2>4, <2>5 DEF IInv
<1>22. ASSUME NEW r \in Requests, RecoverRefuses(r) PROVE IInv'
  <2>1. journal' = journal /\ answer' = answer
    BY <1>22 DEF RecoverRefuses, files
  <2>2. VersionsNameMutations' /\ AnswerInv' /\ \A q : Committed(q)' <=> Committed(q)
    BY <2>1, <1>t, JournalKept
  <2>3. Types'
    BY <1>22, <1>t, <1>a, Zenon DEF RecoverRefuses, Types, files, At, End, Req, NoTx, NoIntent, Steps,
       Pending
  <2>4. GateInv'
    BY <1>22, <1>t, <2>2, Zenon DEF RecoverRefuses, Types, GateInv, files, At, End, Req, NoTx, Steps,
       Pending
  <2>5. IntentInv'
    BY <1>22, <1>t DEF RecoverRefuses, Types, GateInv, IntentInv, files, At, End, Req, NoTx,
       NoIntent, Pending
  <2> QED BY <2>2, <2>3, <2>4, <2>5 DEF IInv
<1>1. ASSUME NEW r \in Requests, AnswerFromJournal(r) PROVE IInv'
  <2>1. /\ journal' = journal /\ Committed(r)
        /\ answer' = [answer EXCEPT ![r] = EventOf(r).version]
    BY <1>1 DEF AnswerFromJournal
  <2>2. VersionsNameMutations' /\ \A q : Committed(q)' <=> Committed(q)
    BY <2>1, <1>t, JournalKept
  <2>3. /\ EventOf(r).version \in Nat
        /\ \E k \in DOMAIN journal : EventOf(r) = journal[k] /\ journal[k].req = r
    BY <2>1, <1>t, EventOfLemma, Zenon
  <2>4. Types'
    BY <1>1, <2>1, <2>3, <1>t, Zenon DEF AnswerFromJournal, Types, files
  <2>5. GateInv'
    BY <1>1, <2>2, <1>t, Zenon DEF AnswerFromJournal, GateInv, files
  <2>6. IntentInv'
    BY <1>1, <1>t DEF AnswerFromJournal, IntentInv, files
  <2>7. AnswerInv'
    BY <2>1, <2>3, <1>t, ZenonT(60) DEF AnswerInv, Types
  <2> QED BY <2>2, <2>4, <2>5, <2>6, <2>7 DEF IInv
<1>2. ASSUME NEW r \in Requests, Begin(r) PROVE IInv'
  <2>1. journal' = journal /\ answer' = answer /\ ~Committed(r) /\ Idle
    BY <1>2 DEF Begin
  <2>2. VersionsNameMutations' /\ AnswerInv' /\ \A q : Committed(q)' <=> Committed(q)
    BY <2>1, <1>t, JournalKept
  <2>3. PICK ask \in IF request[r] = Unasked THEN Ask ELSE {request[r]} :
           /\ request' = [request EXCEPT ![r] = ask]
           /\ temporary' = [temporary EXCEPT ![r] = ask.data]
    BY <1>2, ZenonT(60) DEF Begin
  <2>4. /\ ask \in [policy : {"none", "create", "guarded", "blind"}, data : File, expected : File]
        /\ ask # Unasked
        /\ request[r] # Unasked => ask = request[r]
    <3>1. CASE request[r] = Unasked
      <4>1. ask \in [policy : Policies, data : Contents, expected : Contents]
        BY <2>3, <3>1 DEF Ask
      <4>2. /\ ask.policy \in {"create", "guarded", "blind"}
            /\ ask.data \in File /\ ask.expected \in File
        BY <4>1, <1>a, FileAssumption, ZenonT(60)
      <4> QED BY <3>1, <4>1, <4>2 DEF Unasked
    <3>2. CASE request[r] # Unasked
      BY <2>3, <3>2, <1>t DEF Types
    <3> QED BY <3>1, <3>2
  <2>5. Types'
    BY <1>2, <2>3, <2>4, <1>t, Zenon DEF Begin, Types, Steps
  <2>6. GateInv'
    BY <1>2, <2>1, <2>2, <2>3, <2>4, <1>t, Zenon DEF Begin, Idle, GateInv, Types, NoTx
  <2>7. IntentInv'
    BY <1>2, <2>3, <2>4, <1>t DEF Begin, IntentInv, Types
  <2> QED BY <2>2, <2>5, <2>6, <2>7 DEF IInv
<1>3. CASE Prepare
  <2>1. journal' = journal /\ answer' = answer
    BY <1>3 DEF Prepare
  <2>2. VersionsNameMutations' /\ AnswerInv' /\ \A q : Committed(q)' <=> Committed(q)
    BY <2>1, <1>t, JournalKept
  <2>3. /\ tx.req \in Requests /\ request[tx.req] # Unasked
        /\ request[tx.req].data \in File /\ request[tx.req].expected \in File
    BY <1>3, <1>t DEF Prepare, At, GateInv, Types
  <2>4. PICK p \in [version : Nat, sha256 : File, previous : File] :
           /\ p.version > 0 /\ p.sha256 = request[tx.req].data
           /\ intent' = [intent EXCEPT ![tx.req] = p]
    <3> DEFINE p == [version |-> CurrentVersion + 1, sha256 |-> request[tx.req].data,
                     previous |-> IF Guarded THEN request[tx.req].expected ELSE Absent]
    <3>1. p \in [version : Nat, sha256 : File, previous : File]
      BY <2>3, <1>t, <1>a
    <3>2. p.version > 0 /\ p.sha256 = request[tx.req].data
      BY <1>t
    <3>3. intent' = [intent EXCEPT ![tx.req] = p]
      BY <1>3 DEF Prepare, Req
    <3> QED BY <3>1, <3>2, <3>3, ZenonT(60)
  <2>5. p # NoIntent
    BY <2>4 DEF NoIntent
  <2>6. Types'
    <3>1. \/ tx' = [tx EXCEPT !.step = "prepared"]
          \/ tx' = [tx EXCEPT !.step = "backedup"]
      BY <1>3 DEF Prepare
    <3>2. tx' \in [step : Steps, req : Requests \cup {Absent}, present : BOOLEAN]
      BY <3>1, <1>t, ZenonT(60) DEF Types, Steps
    <3>3. intent' \in [Requests -> [version : Nat, sha256 : File, previous : File]]
      BY <2>4, <1>t, ZenonT(60) DEF Types
    <3> QED BY <1>3, <3>2, <3>3, <1>t, Zenon DEF Prepare, Types
  <2>7. GateInv'
    BY <1>3, <2>2, <1>t DEF Prepare, At, GateInv, Types, NoTx
  <2>8. IntentInv'
    BY <1>3, <2>3, <2>4, <2>5, <1>t, ZenonT(60) DEF Prepare, At, IntentInv, Types
  <2> QED BY <2>2, <2>6, <2>7, <2>8 DEF IInv
<1>8. CASE AppendMutation
  <2>1. /\ tx.req \in Requests /\ ~Committed(tx.req) /\ intent[tx.req] # NoIntent
        /\ CurrentVersion + 1 = intent[tx.req].version
        /\ journal' = Append(journal, Mutation(tx.req, intent[tx.req].version))
        /\ answer' = answer
    BY <1>8, <1>t DEF AppendMutation, At, Req, GateInv, IntentInv
  <2>2. /\ journal' \in Seq(Event) /\ VersionsNameMutations' /\ AnswerInv'
        /\ \A q : Committed(q)' <=> Committed(q) \/ q = tx.req
    BY <2>1, <1>t, JournalGrows
  <2>3. Types'
    BY <1>8, <2>2, <1>t, ZenonT(60) DEF AppendMutation, Types, Steps, files
  <2>4. GateInv'
    BY <1>8, <2>1, <2>2, <1>t DEF AppendMutation, At, GateInv, Types, NoTx, files
  <2>5. IntentInv'
    BY <1>8, <1>t DEF AppendMutation, At, IntentInv, Types, files
  <2> QED BY <2>2, <2>3, <2>4, <2>5 DEF IInv
<1>10. CASE Finish
  <2>1. /\ journal' = journal /\ tx.req \in Requests /\ Committed(tx.req)
        /\ answer' = [answer EXCEPT ![tx.req] = EventOf(tx.req).version]
    BY <1>10, <1>t DEF Finish, At, Req, GateInv
  <2>2. VersionsNameMutations' /\ \A q : Committed(q)' <=> Committed(q)
    BY <2>1, <1>t, JournalKept
  <2>3. /\ EventOf(tx.req).version \in Nat
        /\ \E k \in DOMAIN journal : EventOf(tx.req) = journal[k] /\ journal[k].req = tx.req
    BY <2>1, <1>t, EventOfLemma, Zenon
  <2>4. Types'
    BY <1>10, <2>1, <2>3, <1>t, <1>a, Zenon DEF Finish, End, Req, NoTx, NoIntent, Types, Steps
  <2>5. GateInv'
    BY <1>10, <2>2, <1>t, Zenon DEF Finish, End, GateInv, NoTx
  <2>6. IntentInv'
    BY <1>10, <2>1, <1>t, Zenon DEF Finish, End, Req, IntentInv, Types, NoTx, NoIntent
  <2>7. AnswerInv'
    BY <2>1, <2>3, <1>t, ZenonT(60) DEF AnswerInv, Types
  <2> QED BY <2>2, <2>4, <2>5, <2>6, <2>7 DEF IInv
<1>18. ASSUME NEW r \in Requests, Recover(r) PROVE IInv'
  <2>1. /\ intent[r] # NoIntent /\ answer' = answer /\ tx' = tx /\ tx = NoTx
    BY <1>18, <1>t DEF Recover, Pending, GateInv
  <2>2. /\ journal' \in Seq(Event) /\ VersionsNameMutations' /\ AnswerInv'
    <3>1. CASE Verdict(r) = "commit"
      <4>1. ~Committed(r) /\ ~(CurrentVersion >= intent[r].version)
        BY <3>1 DEF Verdict
      <4>2. intent[r].version > CurrentVersion
        BY <4>1, <1>t DEF Types
      <4> QED BY <1>18, <2>1, <3>1, <4>1, <4>2, JournalGrows, Zenon DEF Recover
    <3>2. CASE Verdict(r) # "commit"
      BY <1>18, <2>1, <3>2, <1>t, JournalKept DEF Recover
    <3> QED BY <3>1, <3>2
  <2>3. Types'
    BY <1>18, <2>2, <1>t, <1>a, Zenon DEF Recover, Types, NoIntent
  <2>4. GateInv'
    BY <2>1, <1>t, Zenon DEF GateInv, NoTx
  <2>5. IntentInv'
    BY <1>18, <2>1, <1>t, SMTT(60) DEF Recover, IntentInv, Types, NoTx, NoIntent
  <2> QED BY <2>2, <2>3, <2>4, <2>5 DEF IInv
<1>19. ASSUME NEW r \in Requests, RecoverCrashes(r) PROVE IInv'
  <2>1. /\ intent[r] # NoIntent /\ answer' = answer /\ tx' = tx /\ tx = NoTx
    BY <1>19, <1>t, Zenon DEF RecoverCrashes, Pending, GateInv
  <2>2. ~Committed(r) /\ ~(CurrentVersion >= intent[r].version)
    BY <1>19, Zenon DEF RecoverCrashes, Verdict
  <2>3. intent[r].version > CurrentVersion
    BY <2>2, <1>t DEF Types
  <2>4. /\ journal' \in Seq(Event) /\ VersionsNameMutations' /\ AnswerInv'
    BY <1>19, <2>1, <2>2, <2>3, JournalGrows, Zenon DEF RecoverCrashes
  <2>5. Types'
    BY <1>19, <2>4, <1>t, SMTT(60) DEF RecoverCrashes, Types, files
  <2>6. GateInv'
    BY <2>1, <1>t, Zenon DEF GateInv, NoTx
  <2>7. IntentInv'
    BY <1>19, <2>1, <1>t DEF RecoverCrashes, IntentInv, NoTx, files
  <2> QED BY <2>4, <2>5, <2>6, <2>7 DEF IInv
<1>23. CASE UNCHANGED vars
  <2>1. journal' = journal /\ answer' = answer
    BY <1>23, Zenon DEF vars
  <2>2. VersionsNameMutations' /\ AnswerInv' /\ \A q : Committed(q)' <=> Committed(q)
    BY <2>1, <1>t, JournalKept
  <2>3. Types' /\ GateInv' /\ IntentInv'
    BY <1>23, <2>2, <1>t DEF vars, Types, GateInv, IntentInv
  <2> QED BY <2>2, <2>3 DEF IInv
<1> QED
  BY <1>1, <1>2, <1>3, <1>4, <1>5, <1>6, <1>7, <1>8, <1>9, <1>10, <1>11, <1>12, <1>13, <1>14,
     <1>15, <1>16, <1>17, <1>18, <1>19, <1>21, <1>22, <1>23 DEF Next, TxStep

LEMMA IInvAlways == Spec => []IInv
BY IInvInit, IInvStep, PTL DEF Spec

\* Types: the daemon, its disk and its clients stay in well-formed states, and a
\* transaction past its preparation has its intent on disk
\* (write_pending_file_mutation before the first rename).
THEOREM TypeCorrect == Spec => []TypeOK
<1>1. IInv => TypeOK
  BY DEF IInv, Types, GateInv, IntentInv, TypeOK, File, NoTx, Req
<1> QED BY <1>1, IInvAlways, PTL

\* A request is journaled at most once and every version names one mutation,
\* through retries, crashes and recoveries (commit_file_transaction).
THEOREM VersionsUnique == Spec => []VersionsNameMutations
<1>1. IInv => VersionsNameMutations
  BY Zenon DEF IInv
<1> QED BY <1>1, IInvAlways, PTL

\* The version a client was told is, for ever, the one its mutation is journaled
\* under (cached_file_response).
THEOREM AnswersStay == Spec => []AnswersStand
<1>1. IInv => AnswersStand
  <2> SUFFICES ASSUME IInv, NEW r \in Requests, answer[r] # 0
               PROVE  Committed(r) /\ EventOf(r).version = answer[r]
    BY DEF AnswersStand
  <2>1. PICK k \in DOMAIN journal : journal[k].req = r /\ journal[k].version = answer[r]
    BY DEF IInv, AnswerInv
  <2>2. Committed(r)
    BY <2>1 DEF Committed
  <2>3. journal \in Seq(Event)
    BY Zenon DEF IInv, Types
  <2>4. PICK j \in DOMAIN journal : EventOf(r) = journal[j] /\ journal[j].req = r
    BY <2>2, <2>3, EventOfLemma
  <2>5. j = k
    BY <2>1, <2>4 DEF IInv, VersionsNameMutations
  <2> QED BY <2>1, <2>2, <2>4, <2>5
<1> QED BY <1>1, IInvAlways, PTL
===============================================================================
