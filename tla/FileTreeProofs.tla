----------------------------- MODULE FileTreeProofs ---------------------------
(* The workspace file agrees with the journal, for every instance of        *)
(* FileTransaction, as long as nothing outside the daemon changes the file  *)
(* and no overwrite is blind.                                               *)
EXTENDS FileTransactionProofs

Calm == edits = 0 /\ ~Asked("blind")
NoIntents == \A r \in Requests : intent[r] = NoIntent
Create(r) == request[r].policy = "create"
Guard(r) == request[r].policy = "guarded"

AskInv == \A r \in Requests : request[r] \in Ask \cup {Unasked}

\* What an uncommitted intent says of the file, its backup and the journal.
Undecided(r) ==
    /\ intent[r].version = CurrentVersion + 1
    /\ Guard(r) =>
          /\ intent[r].previous = request[r].expected
          /\ LastContent = request[r].expected
          /\ \/ target = request[r].expected /\ backup[r] = Absent
             \/ target = Absent /\ backup[r] = request[r].expected
             \/ target = request[r].data /\ backup[r] = request[r].expected
    /\ Create(r) =>
          /\ intent[r].previous = Absent /\ LastContent = Absent /\ backup[r] = Absent
          /\ target \in {Absent, request[r].data}
          /\ target = Absent /\ temporary[r] = Absent => IOFails

Decided(r) == target = request[r].data /\ LastContent = request[r].data

\* Where each step of the transaction has the file.
At0(r) ==
    /\ Create(r) => target = Absent
    /\ Guard(r) => target = request[r].expected
Kept(r) == Guard(r) => backup[r] = request[r].expected
StepInv ==
    /\ tx.step = "checked" => NoIntents /\ At0(tx.req) /\ temporary[tx.req] = request[tx.req].data
    /\ tx.step = "prepared" => /\ Guard(tx.req) /\ At0(tx.req) /\ backup[tx.req] = Absent
                               /\ temporary[tx.req] = request[tx.req].data
    /\ tx.step = "backedup" => /\ target = Absent /\ Kept(tx.req)
                               /\ temporary[tx.req] = request[tx.req].data
    /\ tx.step = "installed" => target = request[tx.req].data /\ Kept(tx.req)
    /\ tx.step = "rollback" => IOFails /\ Kept(tx.req) /\ target \in {Absent, request[tx.req].data}
    /\ tx.step = "removed" => IOFails /\ Kept(tx.req) /\ target = Absent
    /\ tx.step = "restored" => IOFails /\ At0(tx.req) /\ backup[tx.req] = Absent

TreeInv ==
    /\ NoIntents => target = LastContent
    /\ status = "up" /\ tx.step = "idle" => NoIntents
    /\ \A q, r \in Requests : intent[q] # NoIntent /\ intent[r] # NoIntent => q = r
    /\ \A r \in Requests : intent[r] # NoIntent /\ tx.step # "idle" => r = tx.req
    /\ \A r \in Requests : intent[r] = NoIntent => backup[r] = Absent
    /\ \A r \in Requests : intent[r] # NoIntent =>
          IF Committed(r) THEN Decided(r) ELSE Undecided(r)
    /\ StepInv

RefusedInv == status = "refused" /\ Calm =>
    \E r \in Requests : intent[r] # NoIntent /\ Verdict(r) = "refuse"

CalmInv == Calm => TreeInv

JInv == IInv /\ AskInv /\ CalmInv /\ RefusedInv

\* Requests are kept, and a run that is calm after a step was calm before it.
LEMMA CalmBefore ==
    ASSUME IInv, AskInv, [Next]_vars
    PROVE  AskInv' /\ (Calm' => Calm)
<1>0. Types
  BY DEF IInv
<1>1. ASSUME NEW r \in Requests, Begin(r) PROVE AskInv' /\ (Calm' => Calm)
  <2>1. PICK ask \in IF request[r] = Unasked THEN Ask ELSE {request[r]} :
           request' = [request EXCEPT ![r] = ask]
    BY <1>1, ZenonT(60) DEF Begin
  <2>2. ask \in Ask \cup {Unasked} /\ (request[r] # Unasked => ask = request[r])
    BY <2>1 DEF AskInv
  <2>3. request'[r] = ask /\ \A q \in Requests : q # r => request'[q] = request[q]
    BY <2>1, <1>0 DEF Types
  <2>4. AskInv'
    BY <2>2, <2>3 DEF AskInv
  <2>5. Asked("blind") => Asked("blind")'
    BY <2>2, <2>3 DEF Asked, Unasked
  <2>6. edits' = edits
    BY <1>1 DEF Begin
  <2> QED BY <2>4, <2>5, <2>6 DEF Calm
<1>2. CASE EditFromOutside
  BY <1>2, <1>0 DEF EditFromOutside, AskInv, Calm, Types
<1>3. ASSUME request' = request, edits' = edits PROVE AskInv' /\ (Calm' => Calm)
  BY <1>3 DEF AskInv, Calm, Asked
<1> QED
  BY <1>1, <1>2, <1>3 DEF Next, TxStep, AnswerFromJournal, Prepare, PrepareFails, Backup,
     BackupFails, Install, AppendMutation, StepFails, Finish, RollbackRefuses, RollbackRemove,
     RollbackRestore, RollbackClear, Crash, Start, Serve, Recover, RecoverCrashes,
     RecoverRefuses, vars

\* The journal ends with what was appended last.
LEMMA LastAppended ==
    ASSUME journal \in Seq(Event), NEW e \in Event, journal' = Append(journal, e)
    PROVE  LastContent' = e.sha256
BY DEF LastContent

LEMMA TailKept ==
    ASSUME journal' = journal, original' = original
    PROVE  CurrentVersion' = CurrentVersion /\ LastContent' = LastContent
BY DEF CurrentVersion, LastContent

\* In a calm run whoever has asked wants a create-only or a guarded write of
\* some content.
LEMMA CalmAsks ==
    ASSUME IInv, AskInv, Calm, NEW r \in Requests, request[r] # Unasked
    PROVE  /\ Create(r) \/ Guard(r)
           /\ ~(Create(r) /\ Guard(r))
           /\ request[r].data \in Contents /\ request[r].expected \in Contents
           /\ request[r].data # Absent /\ request[r].expected # Absent
<1>1. request[r] \in [policy : Policies, data : Contents, expected : Contents]
  BY DEF AskInv, Ask
<1>2. request[r].policy # "blind"
  BY DEF Calm, Asked
<1> QED BY <1>1, <1>2, FileAssumption, ZenonT(60) DEF Create, Guard

\* Every step of a calm run keeps the tree and the journal in step.
LEMMA TreeStep ==
    ASSUME IInv, IInv', AskInv, AskInv', Calm, Calm', TreeInv, [Next]_vars
    PROVE  TreeInv'
<1>t. /\ Types /\ GateInv /\ IntentInv /\ Types' /\ GateInv' /\ IntentInv'
      /\ journal \in Seq(Event) /\ CurrentVersion \in Nat
  <2>1. /\ Types /\ GateInv /\ IntentInv /\ Types' /\ GateInv' /\ IntentInv'
        /\ VersionsNameMutations
    BY DEF IInv
  <2>2. journal \in Seq(Event)
    BY <2>1 DEF Types
  <2> QED BY <2>1, <2>2, ClockLemma
<1>q. \A r \in Requests : request[r] # Unasked =>
         /\ Create(r) \/ Guard(r)
         /\ ~(Create(r) /\ Guard(r))
         /\ request[r].data # Absent /\ request[r].expected # Absent
  BY CalmAsks
<1>r. tx.step # "idle" => tx.req \in Requests /\ request[tx.req] # Unasked
  BY <1>t, ZenonT(60) DEF GateInv
<1>4. CASE PrepareFails
  <2>1. journal' = journal /\ original' = original
    BY <1>4 DEF PrepareFails, files
  <2>2. /\ CurrentVersion' = CurrentVersion /\ LastContent' = LastContent
        /\ \A q : Committed(q)' <=> Committed(q)
    BY <2>1, TailKept, JournalKept, Zenon
  <2>3. StepInv'
    BY <1>4, <2>2, <1>t, <1>q, <1>r, ZenonT(60) DEF PrepareFails, TreeInv, NoIntents, Undecided,
       Decided, Create, Guard, At0, Kept, Types, StepInv, files, At, End, Req, NoTx
  <2> QED BY <1>4, <2>2, <2>3, <1>t, <1>q, <1>r, SMTT(90) DEF PrepareFails, TreeInv, NoIntents,
     Undecided, Decided, Create, Guard, At0, Kept, Types, StepInv, files, At, End, Req, NoTx
<1>6. CASE BackupFails
  <2>1. journal' = journal /\ original' = original
    BY <1>6, Zenon DEF BackupFails, files
  <2>2. /\ CurrentVersion' = CurrentVersion /\ LastContent' = LastContent
        /\ \A q : Committed(q)' <=> Committed(q)
    BY <2>1, TailKept, JournalKept
  <2>3. StepInv'
    BY <1>6, <2>2, <1>t, <1>q, <1>r, ZenonT(60) DEF BackupFails, TreeInv, NoIntents, Undecided,
       Decided, Create, Guard, At0, Kept, Types, StepInv, files, At, End, Req, NoTx
  <2> QED BY <1>6, <2>2, <2>3, <1>t, <1>q, <1>r, SMTT(90) DEF BackupFails, TreeInv, NoIntents,
     Undecided, Decided, Create, Guard, At0, Kept, Types, StepInv, files, At, End, Req, NoTx
<1>9. CASE StepFails
  <2>1. journal' = journal /\ original' = original
    BY <1>9 DEF StepFails, files
  <2>2. /\ CurrentVersion' = CurrentVersion /\ LastContent' = LastContent
        /\ \A q : Committed(q)' <=> Committed(q)
    BY <2>1, TailKept, JournalKept
  <2>3. StepInv'
    BY <1>9, <2>2, <1>t, <1>q, <1>r, Zenon DEF StepFails, TreeInv, NoIntents, Undecided,
       Decided, Create, Guard, At0, Kept, Types, StepInv, files, At, End, Req, NoTx
  <2> QED BY <1>9, <2>2, <2>3, <1>t, <1>q, <1>r, SMTT(90) DEF StepFails, TreeInv, NoIntents,
     Undecided, Decided, Create, Guard, At0, Kept, Types, StepInv, files, At, End, Req, NoTx
<1>11. CASE RollbackRefuses
  <2>1. journal' = journal /\ original' = original
    BY <1>11, Zenon DEF RollbackRefuses, files
  <2>2. /\ CurrentVersion' = CurrentVersion /\ LastContent' = LastContent
        /\ \A q : Committed(q)' <=> Committed(q)
    BY <2>1, TailKept, JournalKept
  <2>3. StepInv'
    BY <1>11, <2>2, <1>t, <1>q, <1>r, ZenonT(60) DEF RollbackRefuses, TreeInv, NoIntents,
       Undecided, Decided, Create, Guard, At0, Kept, Types, StepInv, files, At, End, Req, NoTx
  <2> QED BY <1>11, <2>2, <2>3, <1>t, <1>q, <1>r, SMTT(90) DEF RollbackRefuses, TreeInv,
     NoIntents, Undecided, Decided, Create, Guard, At0, Kept, Types, StepInv, files, At, End,
     Req, NoTx
<1>13. CASE RollbackRestore
  <2>1. journal' = journal /\ original' = original
    BY <1>13, Zenon DEF RollbackRestore, files
  <2>2. /\ CurrentVersion' = CurrentVersion /\ LastContent' = LastContent
        /\ \A q : Committed(q)' <=> Committed(q)
    BY <2>1, TailKept, JournalKept
  <2>3. StepInv'
    BY <1>13, <2>2, <1>t, <1>q, <1>r, ZenonT(60) DEF RollbackRestore, TreeInv, NoIntents,
       Undecided, Decided, Create, Guard, At0, Kept, Types, StepInv, files, At, End, Req, NoTx
  <2> QED BY <1>13, <2>2, <2>3, <1>t, <1>q, <1>r, SMTT(90) DEF RollbackRestore, TreeInv,
     NoIntents, Undecided, Decided, Create, Guard, At0, Kept, Types, StepInv, files, At, End,
     Req, NoTx
<1>14. CASE RollbackClear
  <2>1. journal' = journal /\ original' = original
    BY <1>14, Zenon DEF RollbackClear, files
  <2>2. /\ CurrentVersion' = CurrentVersion /\ LastContent' = LastContent
        /\ \A q : Committed(q)' <=> Committed(q)
    BY <2>1, TailKept, JournalKept
  <2>3. StepInv'
    BY <1>14, <2>2, <1>t, <1>q, <1>r, Zenon DEF RollbackClear, TreeInv, NoIntents, Undecided,
       Decided, Create, Guard, At0, Kept, Types, StepInv, files, At, End, Req, NoTx
  <2> QED BY <1>14, <2>2, <2>3, <1>t, <1>q, <1>r, SMTT(90) DEF RollbackClear, TreeInv,
     NoIntents, Undecided, Decided, Create, Guard, At0, Kept, Types, StepInv, files, At, End,
     Req, NoTx
<1>15. CASE Crash
  <2>1. journal' = journal /\ original' = original
    BY <1>15, Zenon DEF Crash, files
  <2>2. /\ CurrentVersion' = CurrentVersion /\ LastContent' = LastContent
        /\ \A q : Committed(q)' <=> Committed(q)
    BY <2>1, TailKept, JournalKept
  <2>3. StepInv'
    BY <1>15, <2>2, <1>t, <1>q, <1>r, ZenonT(60) DEF Crash, TreeInv, NoIntents, Undecided,
       Decided, Create, Guard, At0, Kept, Types, StepInv, files, At, End, Req, NoTx
  <2> QED BY <1>15, <2>2, <2>3, <1>t, <1>q, <1>r, SMTT(90) DEF Crash, TreeInv, NoIntents,
     Undecided, Decided, Create, Guard, At0, Kept, Types, StepInv, files, At, End, Req, NoTx
<1>16. CASE Start
  <2>1. journal' = journal /\ original' = original
    BY <1>16, Zenon DEF Start, files
  <2>2. /\ CurrentVersion' = CurrentVersion /\ LastContent' = LastContent
        /\ \A q : Committed(q)' <=> Committed(q)
    BY <2>1, TailKept, JournalKept
  <2>3. StepInv'
    BY <1>16, <2>2, <1>t, <1>q, <1>r, ZenonT(60) DEF Start, TreeInv, NoIntents, Undecided,
       Decided, Create, Guard, At0, Kept, Types, StepInv, files, At, End, Req, NoTx
  <2> QED BY <1>16, <2>2, <2>3, <1>t, <1>q, <1>r, SMTT(90) DEF Start, TreeInv, NoIntents,
     Undecided, Decided, Create, Guard, At0, Kept, Types, StepInv, files, At, End, Req, NoTx
<1>17. CASE Serve
  <2>1. journal' = journal /\ original' = original
    BY <1>17, Zenon DEF Serve, files
  <2>2. /\ CurrentVersion' = CurrentVersion /\ LastContent' = LastContent
        /\ \A q : Committed(q)' <=> Committed(q)
    BY <2>1, TailKept, JournalKept
  <2>3. StepInv'
    BY <1>17, <2>2, <1>t, <1>q, <1>r, ZenonT(60) DEF Serve, TreeInv, NoIntents, Undecided,
       Decided, Create, Guard, At0, Kept, Types, StepInv, files, At, End, Req, NoTx
  <2> QED BY <1>17, <2>2, <2>3, <1>t, <1>q, <1>r, SMTT(90) DEF Serve, TreeInv, NoIntents,
     Undecided, Decided, Create, Guard, At0, Kept, Types, StepInv, files, At, End, Req, NoTx
<1>22. ASSUME NEW r \in Requests, RecoverRefuses(r) PROVE TreeInv'
  <2>1. journal' = journal /\ original' = original
    BY <1>22 DEF RecoverRefuses, files
  <2>2. /\ CurrentVersion' = CurrentVersion /\ LastContent' = LastContent
        /\ \A q : Committed(q)' <=> Committed(q)
    BY <2>1, TailKept, JournalKept
  <2>3. UNCHANGED <<files, tx, request>>
    BY <1>22 DEF RecoverRefuses
  <2>4. \A q \in Requests : /\ Decided(q)' <=> Decided(q)
                            /\ Undecided(q)' <=> Undecided(q)
    BY <2>2, <2>3, ZenonT(60) DEF Decided, Undecided, Guard, Create, files
  <2>5. StepInv' /\ (NoIntents' <=> NoIntents)
    BY <2>3 DEF TreeInv, StepInv, NoIntents, At0, Kept, Guard, Create, files
  <2>6. status' = "up" => status = "up"
    BY <1>22 DEF RecoverRefuses, Idle
  <2> QED BY <2>2, <2>3, <2>4, <2>5, <2>6 DEF TreeInv, files
<1>1. ASSUME NEW r \in Requests, AnswerFromJournal(r) PROVE TreeInv'
  <2>1. journal' = journal /\ original' = original
    BY <1>1 DEF AnswerFromJournal, files
  <2>2. /\ CurrentVersion' = CurrentVersion /\ LastContent' = LastContent
        /\ \A q : Committed(q)' <=> Committed(q)
    BY <2>1, TailKept, JournalKept
  <2>3. UNCHANGED <<files, tx, request>>
    BY <1>1, Zenon DEF AnswerFromJournal
  <2>4. \A q \in Requests : /\ Decided(q)' <=> Decided(q)
                            /\ Undecided(q)' <=> Undecided(q)
    BY <2>2, <2>3 DEF Decided, Undecided, Guard, Create, files
  <2>5. StepInv' /\ (NoIntents' <=> NoIntents)
    BY <2>3 DEF TreeInv, StepInv, NoIntents, At0, Kept, Guard, Create, files
  <2>6. status' = "up" => status = "up"
    BY <1>1, Zenon DEF AnswerFromJournal, Idle
  <2> QED BY <2>2, <2>3, <2>4, <2>5, <2>6 DEF TreeInv, files
<1>5. CASE Backup
  <2>1. /\ journal' = journal /\ original' = original /\ intent' = intent
        /\ request' = request /\ tx'.req = tx.req /\ tx'.step # "idle"
    BY <1>5, <1>t, Zenon DEF Backup, files, Types
  <2>2. /\ CurrentVersion' = CurrentVersion /\ LastContent' = LastContent
        /\ \A q : Committed(q)' <=> Committed(q)
    BY <2>1, TailKept, JournalKept, Zenon
  <2>3. StepInv'
    BY <1>5, <2>2, <1>t, <1>q, <1>r, Zenon DEF Backup, TreeInv, NoIntents, Undecided,
       Decided, Create, Guard, At0, Kept, Types, StepInv, files, At, Req
  <2>4. /\ tx.req \in Requests /\ request[tx.req] # Unasked /\ ~Committed(tx.req)
        /\ intent[tx.req] # NoIntent /\ Undecided(tx.req)
    BY <1>5, <1>t, <1>r, Zenon DEF Backup, At, GateInv, IntentInv, TreeInv
  <2>5. Undecided(tx.req)'
    BY <1>5, <2>1, <2>2, <2>4, <1>t, <1>q, ZenonT(60) DEF Backup, Undecided, Create, Guard,
       TreeInv, StepInv, At0, Kept, Types, files, At, Req
  <2>6. \A q \in Requests : intent[q] # NoIntent => q = tx.req
    BY <2>4 DEF TreeInv
  <2>7. \A q \in Requests : intent'[q] = NoIntent => backup'[q] = Absent
    BY <1>5, <2>1, <2>4, <1>t, SMTT(60) DEF Backup, TreeInv, Types, files, At, Req
  <2> QED BY <2>1, <2>2, <2>3, <2>4, <2>5, <2>6, <2>7 DEF TreeInv, NoIntents
<1>7. CASE Install
  <2>1. /\ journal' = journal /\ original' = original /\ intent' = intent
        /\ request' = request /\ tx'.req = tx.req /\ tx'.step # "idle"
    BY <1>7, <1>t, Zenon DEF Install, files, Types
  <2>2. /\ CurrentVersion' = CurrentVersion /\ LastContent' = LastContent
        /\ \A q : Committed(q)' <=> Committed(q)
    BY <2>1, TailKept, JournalKept, Zenon
  <2>3. StepInv'
    BY <1>7, <2>2, <1>t, <1>q, <1>r, SMTT(90) DEF Install, TreeInv, NoIntents, Undecided,
       Decided, Create, Guard, At0, Kept, Types, StepInv, files, At, Req
  <2>4. /\ tx.req \in Requests /\ request[tx.req] # Unasked /\ ~Committed(tx.req)
        /\ intent[tx.req] # NoIntent /\ Undecided(tx.req)
    BY <1>7, <1>t, <1>r, Zenon DEF Install, At, GateInv, IntentInv, TreeInv
  <2>5. Undecided(tx.req)'
    BY <1>7, <2>1, <2>2, <2>4, <1>t, <1>q, ZenonT(60) DEF Install, Undecided, Create, Guard,
       TreeInv, StepInv, At0, Kept, Types, files, At, Req
  <2>6. \A q \in Requests : intent[q] # NoIntent => q = tx.req
    BY <2>4 DEF TreeInv
  <2>7. \A q \in Requests : intent'[q] = NoIntent => backup'[q] = Absent
    BY <1>7, <2>1, <2>4, <1>t DEF Install, TreeInv, Types, files, At, Req
  <2> QED BY <2>1, <2>2, <2>3, <2>4, <2>5, <2>6, <2>7 DEF TreeInv, NoIntents
<1>12. CASE RollbackRemove
  <2>1. /\ journal' = journal /\ original' = original /\ intent' = intent
        /\ request' = request /\ tx'.req = tx.req /\ tx'.step # "idle"
    BY <1>12, <1>t, Zenon DEF RollbackRemove, files, Types
  <2>2. /\ CurrentVersion' = CurrentVersion /\ LastContent' = LastContent
        /\ \A q : Committed(q)' <=> Committed(q)
    BY <2>1, TailKept, JournalKept
  <2>3. StepInv'
    BY <1>12, <2>2, <1>t, <1>q, <1>r, SMTT(90) DEF RollbackRemove, TreeInv, NoIntents,
       Undecided, Decided, Create, Guard, At0, Kept, Types, StepInv, files, At, Req
  <2>4. /\ tx.req \in Requests /\ request[tx.req] # Unasked /\ ~Committed(tx.req)
        /\ intent[tx.req] # NoIntent /\ Undecided(tx.req)
    BY <1>12, <1>t, <1>r, Zenon DEF RollbackRemove, At, GateInv, IntentInv, TreeInv
  <2>5. Undecided(tx.req)'
    BY <1>12, <2>1, <2>2, <2>4, <1>t, <1>q, ZenonT(60) DEF RollbackRemove, Undecided, Create,
       Guard, TreeInv, StepInv, At0, Kept, Types, files, At, Req
  <2>6. \A q \in Requests : intent[q] # NoIntent => q = tx.req
    BY <2>4 DEF TreeInv
  <2>7. \A q \in Requests : intent'[q] = NoIntent => backup'[q] = Absent
    BY <1>12, <2>1, <2>4, <1>t, Zenon DEF RollbackRemove, TreeInv, Types, files, At, Req
  <2> QED BY <2>1, <2>2, <2>3, <2>4, <2>5, <2>6, <2>7 DEF TreeInv, NoIntents
<1>10. CASE Finish
  <2>1. journal' = journal /\ original' = original
    BY <1>10 DEF Finish
  <2>2. /\ LastContent' = LastContent
        /\ \A q : Committed(q)' <=> Committed(q)
    BY <2>1, TailKept, JournalKept, Zenon
  <2>3. /\ tx.req \in Requests /\ intent[tx.req] # NoIntent /\ Decided(tx.req)
        /\ \A q \in Requests : intent[q] # NoIntent => q = tx.req
    BY <1>10, <1>t, <1>r, Zenon DEF Finish, At, GateInv, IntentInv, TreeInv
  <2>4. /\ NoIntents'
        /\ \A q \in Requests : backup'[q] = Absent
    BY <1>10, <2>3, <1>t, Zenon DEF Finish, Req, NoIntents, TreeInv, Types
  <2>5. target' = LastContent' /\ tx'.step = "idle"
    BY <1>10, <2>2, <2>3, Zenon DEF Finish, Decided, End, NoTx
  <2> QED BY <2>4, <2>5 DEF TreeInv, StepInv, NoIntents
<1>2. ASSUME NEW r \in Requests, Begin(r) PROVE TreeInv'
  <2>1. /\ journal' = journal /\ original' = original /\ target' = target
        /\ intent' = intent /\ backup' = backup /\ Idle
        /\ tx'.step = "checked" /\ tx'.req = r
    BY <1>2 DEF Begin
  <2>2. LastContent' = LastContent
    BY <2>1, TailKept, ZenonT(60)
  <2>3. NoIntents /\ NoIntents' /\ target' = LastContent'
    BY <2>1, <2>2 DEF TreeInv, Idle, NoTx, NoIntents
  <2>4. PICK ask \in IF request[r] = Unasked THEN Ask ELSE {request[r]} :
           /\ Precondition(ask)
           /\ request' = [request EXCEPT ![r] = ask]
           /\ temporary' = [temporary EXCEPT ![r] = ask.data]
    BY <1>2, ZenonT(60) DEF Begin
  <2>5. request'[r] = ask /\ temporary'[r] = ask.data
    BY <2>4, <1>t, Zenon DEF Types
  <2>6. At0(r)'
    <3>1. /\ ask.policy = "create" => target = Absent
          /\ ask.policy = "guarded" => target = ask.expected
      BY <2>4, ZenonT(60) DEF Precondition
    <3> QED BY <3>1, <2>1, <2>5 DEF At0, Create, Guard
  <2>7. StepInv'
    BY <2>1, <2>3, <2>5, <2>6, Zenon DEF StepInv, At0, Create, Guard
  <2> QED BY <2>1, <2>3, <2>7 DEF TreeInv, NoIntents
<1>3. CASE Prepare
  <2>1. /\ journal' = journal /\ original' = original /\ target' = target
        /\ temporary' = temporary /\ backup' = backup /\ request' = request
        /\ tx'.req = tx.req
        /\ tx'.step = IF Guarded THEN "prepared" ELSE "backedup"
    BY <1>3, <1>t, Zenon DEF Prepare, Types
  <2>2. /\ CurrentVersion' = CurrentVersion /\ LastContent' = LastContent
        /\ \A q : Committed(q)' <=> Committed(q)
    BY <2>1, TailKept, JournalKept
  <2>3. /\ tx.req \in Requests /\ request[tx.req] # Unasked /\ ~Committed(tx.req)
        /\ NoIntents /\ At0(tx.req) /\ temporary[tx.req] = request[tx.req].data
    BY <1>3, <1>t, <1>r, ZenonT(60) DEF Prepare, At, GateInv, TreeInv, StepInv
  <2>4. target = LastContent /\ \A q \in Requests : backup[q] = Absent
    BY <2>3 DEF TreeInv, NoIntents
  <2>5. /\ intent'[tx.req].version = CurrentVersion + 1
        /\ intent'[tx.req].previous = IF Guarded THEN request[tx.req].expected ELSE Absent
        /\ \A q \in Requests : q # tx.req => intent'[q] = NoIntent
    BY <1>3, <2>3, <1>t, Zenon DEF Prepare, Req, Types, NoIntents
  <2>6. intent'[tx.req] # NoIntent
    BY <2>5, <1>t, SMTT(60) DEF NoIntent
  <2>7. Undecided(tx.req)'
    BY <2>1, <2>2, <2>3, <2>4, <2>5, <1>q, ZenonT(60) DEF Undecided, Guarded, Req, Create, Guard, At0
  <2>8. StepInv'
    BY <2>1, <2>3, <2>4, <1>q, Zenon DEF StepInv, Guarded, Req, Create, Guard, At0, Kept
  <2> QED BY <2>1, <2>2, <2>3, <2>4, <2>5, <2>6, <2>7, <2>8 DEF TreeInv, NoIntents
<1>8. CASE AppendMutation
  <2>1. /\ target' = target /\ intent' = intent /\ backup' = backup /\ request' = request
        /\ tx'.req = tx.req /\ tx'.step = "committed"
    BY <1>8, <1>t DEF AppendMutation, Types, files
  <2>2. /\ tx.req \in Requests /\ intent[tx.req] # NoIntent
        /\ target = request[tx.req].data
        /\ \A q \in Requests : intent[q] # NoIntent => q = tx.req
    BY <1>8, <1>t, <1>r, Zenon DEF AppendMutation, At, IntentInv, TreeInv, StepInv
  <2>3. Mutation(tx.req, intent[tx.req].version) \in Event
    BY <2>2, <1>t, Zenon DEF Mutation, Event, Types
  <2>4. LastContent' = request[tx.req].data
    <3>1. LastContent' = Mutation(tx.req, intent[tx.req].version).sha256
      BY <1>8, <2>3, <1>t, LastAppended, Zenon DEF AppendMutation, Req
    <3> QED BY <3>1 DEF Mutation
  <2>5. Committed(tx.req)' /\ Decided(tx.req)'
    BY <1>t, <2>1, <2>2, <2>4, Zenon DEF GateInv, Decided
  <2>6. StepInv'
    BY <2>1, Zenon DEF StepInv
  <2> QED BY <2>1, <2>2, <2>5, <2>6 DEF TreeInv, NoIntents
<1>18. ASSUME NEW r \in Requests, Recover(r) PROVE TreeInv'
  <2>1. /\ intent[r] # NoIntent /\ tx' = tx /\ tx.step = "idle" /\ original' = original
        /\ request[r] # Unasked /\ intent[r].sha256 = request[r].data
    BY <1>18, <1>t, Zenon DEF Recover, Pending, GateInv, IntentInv
  <2>2. NoIntents' /\ \A q \in Requests : backup'[q] = Absent
    BY <1>18, <2>1, <1>t, Zenon DEF Recover, NoIntents, TreeInv, Types
  <2>3. IF Committed(r) THEN Decided(r) ELSE Undecided(r)
    BY <2>1 DEF TreeInv
  <2>4. target' = LastContent'
    <3>1. CASE Verdict(r) = "commit"
      <4>1. target = request[r].data /\ target' = target
        BY <1>18, <3>1, <2>1, Zenon DEF Recover, Verdict
      <4>2. Mutation(r, intent[r].version) \in Event
        BY <1>t, Zenon DEF Mutation, Event, Types
      <4>3. LastContent' = Mutation(r, intent[r].version).sha256
        BY <1>18, <3>1, <4>2, <1>t, LastAppended, Zenon DEF Recover
      <4> QED BY <4>1, <4>3, Zenon DEF Mutation
    <3>2. CASE Verdict(r) # "commit"
      <4>0. /\ journal' = journal
            /\ Verdict(r) \notin {"commit", "refuse"}
            /\ target' = IF Verdict(r) = "restore" THEN backup[r] ELSE target
        BY <1>18, <3>2, Zenon DEF Recover
      <4>1. LastContent' = LastContent
        BY <4>0, <2>1, TailKept, Zenon
      <4>2. CASE Committed(r)
        <5>1. Verdict(r) \in {"cleanup", "refuse"}
          BY <4>2, Zenon DEF Verdict
        <5> QED BY <4>0, <4>1, <4>2, <5>1, <2>3, Zenon DEF Decided
      <4>3. CASE ~Committed(r) /\ Guard(r)
        BY <4>0, <4>1, <4>3, <2>1, <2>3, <1>q, Zenon DEF Undecided, Verdict
      <4>4. CASE ~Committed(r) /\ Create(r)
        BY <4>0, <4>1, <4>4, <2>1, <2>3, <1>q, Zenon DEF Undecided, Verdict
      <4> QED BY <4>2, <4>3, <4>4, <2>1, <1>q
    <3> QED BY <3>1, <3>2
  <2>5. StepInv'
    BY <2>1, Zenon DEF StepInv
  <2> QED BY <2>1, <2>2, <2>4, <2>5, Zenon DEF TreeInv, NoIntents
<1>19. ASSUME NEW r \in Requests, RecoverCrashes(r) PROVE TreeInv'
  <2>1. /\ intent[r] # NoIntent /\ tx' = tx /\ tx.step = "idle" /\ status' = "down"
        /\ target' = target /\ intent' = intent /\ backup' = backup /\ request' = request
        /\ intent[r].sha256 = request[r].data
    BY <1>19, <1>t, Zenon DEF RecoverCrashes, Pending, GateInv, IntentInv, files
  <2>2. target = request[r].data
    BY <1>19, <2>1, Zenon DEF RecoverCrashes, Verdict
  <2>3. Mutation(r, intent[r].version) \in Event
    BY <1>t, Zenon DEF Mutation, Event, Types
  <2>4. LastContent' = request[r].data
    <3>1. LastContent' = Mutation(r, intent[r].version).sha256
      BY <1>19, <2>3, <1>t, LastAppended, Zenon DEF RecoverCrashes
    <3> QED BY <3>1 DEF Mutation
  <2>5. Committed(r)'
    <3> DEFINE n == Len(journal) + 1
    <3>1. n \in DOMAIN journal' /\ journal'[n] = Mutation(r, intent[r].version)
      BY <1>19, <2>3, <1>t DEF RecoverCrashes
    <3>2. journal'[n].req = r
      BY <3>1, SMTT(60) DEF Mutation
    <3> QED BY <3>1, <3>2 DEF Committed
  <2>6. \A q \in Requests : intent[q] # NoIntent => q = r
    BY <2>1 DEF TreeInv
  <2>7. Decided(r)'
    BY <2>1, <2>2, <2>4, Zenon DEF Decided
  <2>8. StepInv'
    BY <2>1 DEF StepInv
  <2> QED BY <2>1, <2>5, <2>6, <2>7, <2>8, Zenon DEF TreeInv, NoIntents
<1>21. CASE EditFromOutside
  <2>1. edits \in Nat
    BY <1>t, ZenonT(60) DEF Types
  <2> QED BY <1>21, <2>1, SMTT(60) DEF EditFromOutside, Calm
<1>23. CASE UNCHANGED vars
  <2>1. journal' = journal /\ original' = original
    BY <1>23 DEF vars
  <2>2. /\ CurrentVersion' = CurrentVersion /\ LastContent' = LastContent
        /\ \A q : Committed(q)' <=> Committed(q)
    BY <2>1, TailKept, JournalKept
  <2>3. UNCHANGED <<files, tx, request, status>>
    BY <1>23, Zenon DEF vars, files
  <2>4. \A q \in Requests : /\ Decided(q)' <=> Decided(q)
                            /\ Undecided(q)' <=> Undecided(q)
    BY <2>2, <2>3, SMTT(60) DEF Decided, Undecided, Guard, Create, files
  <2>5. StepInv' /\ (NoIntents' <=> NoIntents)
    BY <2>3, Zenon DEF TreeInv, StepInv, NoIntents, At0, Kept, Guard, Create, files
  <2> QED BY <2>2, <2>3, <2>4, <2>5, Zenon DEF TreeInv, files
<1> QED BY <1>1, <1>2, <1>3, <1>4, <1>5, <1>6, <1>7, <1>8, <1>9, <1>10, <1>11, <1>12, <1>13,
     <1>14, <1>15, <1>16, <1>17, <1>18, <1>19, <1>21, <1>22, <1>23, SMTT(60) DEF Next, TxStep

\* A start is refused only over an intent it cannot judge.
LEMMA RefusedStep ==
    ASSUME IInv, Calm, Calm', RefusedInv, [Next]_vars
    PROVE  RefusedInv'
<1>0. Types /\ GateInv
  BY DEF IInv
<1>1. ASSUME NEW r \in Requests, RecoverRefuses(r) PROVE RefusedInv'
  <2>1. intent' = intent /\ Verdict(r)' = Verdict(r)
    BY <1>1, Zenon DEF RecoverRefuses, files, Verdict, Committed, CurrentVersion
  <2> QED BY <1>1, <2>1, SMTT(60) DEF RecoverRefuses, Pending, RefusedInv
<1>2. CASE EditFromOutside
  <2>1. edits \in Nat
    BY <1>0 DEF Types
  <2> QED BY <1>2, <2>1 DEF EditFromOutside, Calm
<1>3. CASE UNCHANGED vars
  <2>1. intent' = intent /\ status' = status /\ \A r \in Requests : Verdict(r)' = Verdict(r)
    BY <1>3, ZenonT(60) DEF vars, Verdict, Committed, CurrentVersion
  <2> QED BY <2>1, SMTT(60) DEF RefusedInv
<1>4. ASSUME status' # "refused" PROVE RefusedInv'
  BY <1>4, SMTT(60) DEF RefusedInv
<1>5. ASSUME NEW r \in Requests,
             AnswerFromJournal(r) \/ Begin(r) \/ Recover(r) \/ RecoverCrashes(r)
      PROVE  status' # "refused"
  BY <1>5 DEF AnswerFromJournal, Begin, Idle, Recover, RecoverCrashes, Pending
<1>6. CASE TxStep \/ Crash \/ Start \/ Serve
  <2>1. status' # "refused"
    BY <1>6 DEF TxStep, Prepare, PrepareFails, Backup, BackupFails, Install, AppendMutation,
       StepFails, Finish, RollbackRefuses, RollbackRemove, RollbackRestore, RollbackClear, At,
       Crash, Start, Serve
  <2> QED BY <2>1, <1>4, Zenon
<1> QED BY <1>1, <1>2, <1>3, <1>4, <1>5, <1>6 DEF Next

LEMMA JInvAlways == Spec => []JInv
<1>1. Init => JInv
  <2> SUFFICES ASSUME Init PROVE AskInv /\ CalmInv /\ RefusedInv
    BY IInvInit DEF JInv
  <2>1. AskInv /\ RefusedInv
    BY DEF Init, AskInv, RefusedInv
  <2>2. target = LastContent
    BY DEF Init, LastContent
  <2> QED BY <2>1, <2>2 DEF Init, CalmInv, TreeInv, NoIntents, StepInv, NoTx
<1>2. JInv /\ [Next]_vars => JInv'
  <2> SUFFICES ASSUME JInv, [Next]_vars PROVE JInv'
    OBVIOUS
  <2>1. IInv /\ IInv' /\ AskInv
    BY IInvStep DEF JInv
  <2>2. AskInv' /\ (Calm' => Calm)
    BY <2>1, CalmBefore
  <2>3. CalmInv'
    BY <2>1, <2>2, TreeStep DEF JInv, CalmInv
  <2>4. RefusedInv'
    <3>1. CASE Calm'
      BY <3>1, <2>1, <2>2, RefusedStep DEF JInv
    <3>2. CASE ~Calm'
      BY <3>2 DEF RefusedInv
    <3> QED BY <3>1, <3>2
  <2> QED BY <2>1, <2>2, <2>3, <2>4 DEF JInv
<1> QED BY <1>1, <1>2, PTL DEF Spec

\* All or nothing: with create-only and guarded writes, whatever I/O errors and
\* crashes happen, a file with no open transaction holds the content of its last
\* journaled mutation (commit_file_transaction, rollback_file_transaction,
\* recover_pending_file_mutations).
THEOREM TreeAgrees == Spec => []TreeMatchesJournal
<1>1. JInv => TreeMatchesJournal
  BY Zenon DEF JInv, CalmInv, TreeInv, NoIntents, Calm, TreeMatchesJournal, Quiet
<1> QED BY <1>1, JInvAlways, PTL

\* Startup can finish or undo every create-only and guarded write it finds open,
\* except a create whose rollback had already removed the file
\* (recover_pending_file_mutations).
THEOREM StartupAlwaysRecovers == Spec => []StartupRecovers
<1>1. JInv => StartupRecovers
  <2> SUFFICES ASSUME JInv, status = "refused", Calm
               PROVE  \E r \in Requests :
                          /\ intent[r] # NoIntent /\ request[r].policy = "create"
                          /\ IOFails /\ target = Absent /\ temporary[r] = Absent
    BY DEF StartupRecovers, Calm
  <2>1. PICK r \in Requests : intent[r] # NoIntent /\ Verdict(r) = "refuse"
    BY Zenon DEF JInv, RefusedInv
  <2>2. /\ request[r] # Unasked /\ intent[r].sha256 = request[r].data
        /\ CurrentVersion \in Nat
    BY <2>1, ClockLemma, Zenon DEF JInv, IInv, IntentInv, Types
  <2>3. /\ Create(r) \/ Guard(r)
        /\ ~(Create(r) /\ Guard(r))
        /\ request[r].data # Absent /\ request[r].expected # Absent
    BY <2>2, CalmAsks, Zenon DEF JInv
  <2>4. IF Committed(r) THEN Decided(r) ELSE Undecided(r)
    BY <2>1, Zenon DEF JInv, CalmInv, TreeInv
  <2>5. ~Committed(r)
    BY <2>1, <2>2, <2>4, Zenon DEF Decided, Verdict
  <2>6. ~(CurrentVersion >= intent[r].version)
    BY <2>2, <2>4, <2>5, SMTT(60) DEF Undecided
  <2>7. ~Guard(r)
    BY <2>1, <2>2, <2>3, <2>4, <2>5, <2>6, ZenonT(60) DEF Undecided, Verdict
  <2>8. target = Absent /\ temporary[r] = Absent /\ IOFails
    BY <2>1, <2>2, <2>3, <2>4, <2>5, <2>6, <2>7 DEF Undecided, Verdict
  <2> QED BY <2>1, <2>3, <2>7, <2>8, SMTT(60) DEF Create
<1> QED BY <1>1, JInvAlways, PTL
===============================================================================
