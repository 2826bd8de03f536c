---------------------------- MODULE FileTransaction ---------------------------
(***************************************************************************)
(* Writes to one workspace file: the intent record, the renames, the       *)
(* FILE_MUTATION event, the rollback, and what startup does with an intent *)
(* it finds.  The daemon-wide workspace gate lets one transaction run at a *)
(* time, but its file operations are separate steps: the daemon may die    *)
(* between any two of them, and a process that is not the daemon (an       *)
(* editor, a build, a child of a session) may change the file.             *)
(*                                                                         *)
(* A content stands for itself and for its SHA-256.  FILE_MUTATION is an   *)
(* event the journal syncs before it reports success, so it is durable     *)
(* when the append returns (module SessionDisk).  Requests of different    *)
(* sessions differ only in their IDs here.                                 *)
(***************************************************************************)
EXTENDS Naturals, Sequences, FiniteSets, FiniteSetsExt

CONSTANTS Requests,     \* request IDs
          Contents,     \* file contents
          Absent,       \* there is no such file
          Policies,     \* subset of {"create", "guarded", "blind"}
          IOFails,      \* do renames, directory syncs and appends ever fail?
          MaxEdits,     \* bound: changes made from outside the daemon
          MaxCrashes    \* bound: crashes of the daemon

ASSUME FileAssumption ==
    /\ Absent \notin Contents
    /\ Policies \subseteq {"create", "guarded", "blind"}
    /\ IOFails \in BOOLEAN
    /\ MaxEdits \in Nat /\ MaxCrashes \in Nat

VARIABLES
    status,      \* "up", "starting", "down" or "refused"
    target,      \* the workspace file
    temporary,   \* request -> its staged upload, <name>.asp-tmp-*
    backup,      \* request -> the file moved aside, <name>.asp-backup-*
    intent,      \* request -> PendingFileMutation on disk, or NoIntent
    journal,     \* FILE_MUTATION events, in commit order
    tx,          \* the transaction that holds the gate, or NoTx
    request,     \* request -> what the client asks, once it has asked
    answer,      \* request -> version the client was told, 0 if none
    edits,       \* changes made from outside so far
    crashes,     \* crashes so far
    original     \* ghost: the content the file had before the first write

vars == <<status, target, temporary, backup, intent, journal, tx, request, answer,
          edits, crashes, original>>
files == <<target, temporary, backup, intent>>

NoIntent == [version |-> 0, sha256 |-> Absent, previous |-> Absent]
NoTx == [step |-> "idle", req |-> Absent, present |-> FALSE]
Unasked == [policy |-> "none", data |-> Absent, expected |-> Absent]

Ask == [policy : Policies, data : Contents, expected : Contents]

\* file_requests, rebuilt from the journal; and the shared version clock
Committed(r) == \E k \in DOMAIN journal : journal[k].req = r
EventOf(r) == CHOOSE e \in {journal[k] : k \in DOMAIN journal} : e.req = r
CurrentVersion == Max({0} \cup {journal[k].version : k \in DOMAIN journal})

Mutation(r, v) == [req |-> r, version |-> v, sha256 |-> request[r].data]

Init ==
    /\ status = "up"
    /\ target \in Contents \cup {Absent}
    /\ original = target
    /\ temporary = [r \in Requests |-> Absent]
    /\ backup = temporary
    /\ intent = [r \in Requests |-> NoIntent]
    /\ journal = <<>>
    /\ tx = NoTx
    /\ request = [r \in Requests |-> Unasked]
    /\ answer = [r \in Requests |-> 0]
    /\ edits = 0 /\ crashes = 0

-------------------------------------------------------------------------------
(* store_file_global, commit_file_transaction.                             *)

Idle == status = "up" /\ tx = NoTx
At(step) == status = "up" /\ tx.step = step
Req == tx.req
Guarded == request[Req].policy = "guarded"
End == tx' = NoTx


\* cached_file_response: a retry of a committed request is answered from the
\* journal, before and after it has the gate; nothing is staged.
AnswerFromJournal(r) ==
    /\ Idle /\ Committed(r)
    /\ answer' = [answer EXCEPT ![r] = EventOf(r).version]
    /\ UNCHANGED <<status, files, journal, tx, request, edits, crashes, original>>

\* The body is staged and the gate taken; the target is looked at and, for a
\* guarded write, hashed.  A precondition that does not hold ends the request.
Precondition(ask) ==
    CASE ask.policy = "create" -> target = Absent
      [] ask.policy = "guarded" -> target = ask.expected
      [] ask.policy = "blind" -> TRUE

\* Mutant: a retry is not looked up in the journal.
BeginAgain(r) ==
    /\ Idle
    /\ \E ask \in IF request[r] = Unasked THEN Ask ELSE {request[r]} :
          /\ Precondition(ask)
          /\ request' = [request EXCEPT ![r] = ask]
          /\ temporary' = [temporary EXCEPT ![r] = ask.data]
    /\ tx' = [step |-> "checked", req |-> r, present |-> target # Absent]
    /\ UNCHANGED <<status, target, backup, intent, journal, answer, edits, crashes, original>>

Begin(r) ==
    /\ Idle /\ ~Committed(r)
    /\ \E ask \in IF request[r] = Unasked THEN Ask ELSE {request[r]} :
          /\ Precondition(ask)
          /\ request' = [request EXCEPT ![r] = ask]
          /\ temporary' = [temporary EXCEPT ![r] = ask.data]
    /\ tx' = [step |-> "checked", req |-> r, present |-> target # Absent]
    /\ UNCHANGED <<status, target, backup, intent, journal, answer, edits, crashes, original>>

\* Mutant: the intent does not carry the digest of the file it replaces.
PrepareNoDigest ==
    /\ At("checked") /\ (target # Absent) = tx.present
    /\ intent' = [intent EXCEPT ![Req] =
                    [version |-> CurrentVersion + 1, sha256 |-> request[Req].data,
                     previous |-> Absent]]
    /\ tx' = [tx EXCEPT !.step = IF Guarded THEN "prepared" ELSE "backedup"]
    /\ UNCHANGED <<status, target, temporary, backup, journal, request, answer,
                   edits, crashes, original>>

\* Under the commit lock: only the presence of the target is looked at again.
Prepare ==
    /\ At("checked") /\ (target # Absent) = tx.present
    /\ intent' = [intent EXCEPT ![Req] =
                    [version |-> CurrentVersion + 1, sha256 |-> request[Req].data,
                     previous |-> IF Guarded THEN request[Req].expected ELSE Absent]]
    /\ tx' = [tx EXCEPT !.step = IF Guarded THEN "prepared" ELSE "backedup"]
    /\ UNCHANGED <<status, target, temporary, backup, journal, request, answer,
                   edits, crashes, original>>

\* The intent cannot be written, or the target appeared or vanished meanwhile.
PrepareFails ==
    /\ At("checked") /\ (IOFails \/ (target # Absent) # tx.present)
    /\ intent' = [intent EXCEPT ![Req] = NoIntent]
    /\ temporary' = [temporary EXCEPT ![Req] = Absent]
    /\ End
    /\ UNCHANGED <<status, target, backup, journal, request, answer, edits, crashes, original>>

\* rename(target, backup), for a guarded write only
Backup ==
    /\ At("prepared") /\ target # Absent
    /\ backup' = [backup EXCEPT ![Req] = target]
    /\ target' = Absent
    /\ tx' = [tx EXCEPT !.step = "backedup"]
    /\ UNCHANGED <<status, temporary, intent, journal, request, answer, edits, crashes, original>>

BackupFails ==
    /\ At("prepared") /\ (IOFails \/ target = Absent)
    /\ intent' = [intent EXCEPT ![Req] = NoIntent]
    /\ temporary' = [temporary EXCEPT ![Req] = Absent]
    /\ End
    /\ UNCHANGED <<status, target, backup, journal, request, answer, edits, crashes, original>>

\* Mutant: the client is answered before the mutation is journaled.
InstallAnswers ==
    /\ At("backedup")
    /\ target' = temporary[Req]
    /\ temporary' = [temporary EXCEPT ![Req] = Absent]
    /\ answer' = [answer EXCEPT ![Req] = intent[Req].version]
    /\ tx' = [tx EXCEPT !.step = "installed"]
    /\ UNCHANGED <<status, backup, intent, journal, request, edits, crashes, original>>

\* rename(temporary, target): whatever has that name is replaced
Install ==
    /\ At("backedup")
    /\ target' = temporary[Req]
    /\ temporary' = [temporary EXCEPT ![Req] = Absent]
    /\ tx' = [tx EXCEPT !.step = "installed"]
    /\ UNCHANGED <<status, backup, intent, journal, request, answer, edits, crashes, original>>

AppendMutation ==
    /\ At("installed") /\ CurrentVersion + 1 = intent[Req].version
    /\ journal' = Append(journal, Mutation(Req, intent[Req].version))
    /\ tx' = [tx EXCEPT !.step = "committed"]
    /\ UNCHANGED <<status, files, request, answer, edits, crashes, original>>

\* A failed rename, directory sync or append starts the rollback.
StepFails ==
    /\ At("backedup") \/ At("installed")
    /\ IOFails
    /\ tx' = [tx EXCEPT !.step = "rollback"]
    /\ UNCHANGED <<status, files, journal, request, answer, edits, crashes, original>>

\* Cleanup after the commit; the answer follows it.
Finish ==
    /\ At("committed")
    /\ backup' = [backup EXCEPT ![Req] = Absent]
    /\ intent' = [intent EXCEPT ![Req] = NoIntent]
    /\ answer' = [answer EXCEPT ![Req] = EventOf(Req).version]
    /\ End
    /\ UNCHANGED <<status, target, temporary, journal, request, edits, crashes, original>>
-------------------------------------------------------------------------------
(* rollback_file_transaction.                                              *)

\* The target is not what the transaction installed: the rollback gives up and
\* leaves the intent for startup.
RollbackRefuses ==
    /\ At("rollback") /\ target \notin {Absent, request[Req].data}
    /\ End
    /\ UNCHANGED <<status, files, journal, request, answer, edits, crashes, original>>

RollbackRemove ==
    /\ At("rollback") /\ target \in {Absent, request[Req].data}
    /\ target' = Absent
    /\ tx' = [tx EXCEPT !.step = "removed"]
    /\ UNCHANGED <<status, temporary, backup, intent, journal, request, answer,
                   edits, crashes, original>>

\* Mutant: the rollback removes the backup instead of renaming it back.
RollbackDrops ==
    /\ At("removed")
    /\ backup' = [backup EXCEPT ![Req] = Absent]
    /\ temporary' = [temporary EXCEPT ![Req] = Absent]
    /\ tx' = [tx EXCEPT !.step = "restored"]
    /\ UNCHANGED <<status, target, intent, journal, request, answer, edits, crashes, original>>

RollbackRestore ==
    /\ At("removed")
    /\ target' = IF backup[Req] # Absent THEN backup[Req] ELSE target
    /\ backup' = [backup EXCEPT ![Req] = Absent]
    /\ temporary' = [temporary EXCEPT ![Req] = Absent]
    /\ tx' = [tx EXCEPT !.step = "restored"]
    /\ UNCHANGED <<status, intent, journal, request, answer, edits, crashes, original>>

\* Mutant: the rollback forgets its intent record.
RollbackLeavesIntent ==
    /\ At("restored")
    /\ End
    /\ UNCHANGED <<status, files, journal, request, answer, edits, crashes, original>>

RollbackClear ==
    /\ At("restored")
    /\ intent' = [intent EXCEPT ![Req] = NoIntent]
    /\ End
    /\ UNCHANGED <<status, target, temporary, backup, journal, request, answer,
                   edits, crashes, original>>

-------------------------------------------------------------------------------
(* Crashes, startup and the world outside the daemon.                      *)

Crash ==
    /\ status \in {"up", "starting"} /\ crashes < MaxCrashes
    /\ status' = "down"
    /\ tx' = NoTx
    /\ crashes' = crashes + 1
    /\ UNCHANGED <<files, journal, request, answer, edits, original>>

Start ==
    /\ status \in {"down", "refused"}
    /\ status' = "starting"
    /\ UNCHANGED <<files, journal, tx, request, answer, edits, crashes, original>>

\* What recover_pending_file_mutations makes of the intent of request r
Verdict(r) ==
    LET p == intent[r] IN
    IF Committed(r) THEN IF target = p.sha256 THEN "cleanup" ELSE "refuse"
    ELSE IF target = p.sha256 THEN IF CurrentVersion >= p.version THEN "refuse" ELSE "commit"
    ELSE IF target # Absent
         THEN IF backup[r] = Absent /\ p.previous # Absent /\ target = p.previous
              THEN "discard" ELSE "refuse"
    ELSE IF p.previous # Absent /\ backup[r] # Absent
         THEN IF backup[r] = p.previous THEN "restore" ELSE "refuse"
    ELSE IF temporary[r] = Absent THEN "refuse" ELSE "discard"

Pending(r) == status = "starting" /\ intent[r] # NoIntent

Recover(r) ==
    /\ Pending(r) /\ Verdict(r) # "refuse"
    /\ journal' = IF Verdict(r) = "commit"
                  THEN Append(journal, Mutation(r, intent[r].version)) ELSE journal
    /\ target' = IF Verdict(r) = "restore" THEN backup[r] ELSE target
    /\ backup' = [backup EXCEPT ![r] = Absent]
    /\ temporary' = [temporary EXCEPT ![r] = Absent]
    /\ intent' = [intent EXCEPT ![r] = NoIntent]
    /\ UNCHANGED <<status, tx, request, answer, edits, crashes, original>>

\* The daemon dies with the recovered event appended and the intent in place.
RecoverCrashes(r) ==
    /\ Pending(r) /\ Verdict(r) = "commit" /\ crashes < MaxCrashes
    /\ journal' = Append(journal, Mutation(r, intent[r].version))
    /\ status' = "down"
    /\ crashes' = crashes + 1
    /\ UNCHANGED <<files, tx, request, answer, edits, original>>

RecoverRefuses(r) ==
    /\ Pending(r) /\ Verdict(r) = "refuse"
    /\ status' = "refused"
    /\ UNCHANGED <<files, journal, tx, request, answer, edits, crashes, original>>

Serve ==
    /\ status = "starting" /\ \A r \in Requests : intent[r] = NoIntent
    /\ status' = "up"
    /\ UNCHANGED <<files, journal, tx, request, answer, edits, crashes, original>>

EditFromOutside ==
    /\ edits < MaxEdits
    /\ \E c \in (Contents \cup {Absent}) \ {target} : target' = c
    /\ edits' = edits + 1
    /\ UNCHANGED <<status, temporary, backup, intent, journal, tx, request, answer,
                   crashes, original>>

TxStep ==
    \/ Prepare \/ PrepareFails \/ Backup \/ BackupFails \/ Install \/ AppendMutation
    \/ StepFails \/ Finish
    \/ RollbackRefuses \/ RollbackRemove \/ RollbackRestore \/ RollbackClear

Next ==
    \/ \E r \in Requests : AnswerFromJournal(r) \/ Begin(r)
    \/ TxStep
    \/ Crash \/ Start \/ Serve
    \/ \E r \in Requests : Recover(r) \/ RecoverCrashes(r) \/ RecoverRefuses(r)
    \/ EditFromOutside

\* A running transaction goes on to its next step (its task is polled), and a
\* daemon that died is started again and recovers (deploy/: Restart=on-failure).
Fairness ==
    /\ WF_vars(TxStep)
    /\ WF_vars(Start) /\ WF_vars(Serve)
    /\ \A r \in Requests : WF_vars(Recover(r) \/ RecoverRefuses(r))

Spec == Init /\ [][Next]_vars

FairSpec == Spec /\ Fairness

-------------------------------------------------------------------------------
(* Properties.                                                             *)

Quiet == Idle /\ \A r \in Requests : intent[r] = NoIntent
LastContent == IF journal = <<>> THEN original ELSE journal[Len(journal)].sha256

\* The state is well formed; a transaction past its preparation has an intent.
TypeOK ==
    /\ status \in {"up", "starting", "down", "refused"}
    /\ target \in Contents \cup {Absent}
    /\ temporary \in [Requests -> Contents \cup {Absent}]
    /\ backup \in [Requests -> Contents \cup {Absent}]
    /\ answer \in [Requests -> Nat]
    /\ tx # NoTx /\ tx.step # "checked" => intent[Req] # NoIntent
    /\ \A r \in Requests : intent[r] # NoIntent =>
          /\ request[r] # Unasked
          /\ intent[r].sha256 = request[r].data

Asked(policy) == \E r \in Requests : request[r].policy = policy

\* All or nothing: when no transaction is open the file holds the content of the
\* last journaled mutation, or its original content if there is none.  Failed
\* steps, crashes and recoveries neither lose a committed write nor leave an
\* unjournaled one (commit_file_transaction, rollback_file_transaction,
\* recover_pending_file_mutations).  Blind overwrites are not covered, as they
\* keep no copy of what they replace.
TreeMatchesJournal == Quiet /\ edits = 0 /\ ~Asked("blind") => target = LastContent

\* The same for blind overwrites: a journal failure undoes the replacement.
BlindMatchesJournal == Quiet /\ edits = 0 => target = LastContent

\* A request is journaled at most once, and every version names one mutation:
\* retries, crashes and recoveries never give a version out twice.
VersionsNameMutations ==
    \A j, k \in DOMAIN journal :
        /\ j < k => journal[j].version < journal[k].version
        /\ journal[j].req = journal[k].req => j = k

\* What a client was told stays true: its mutation is in the journal with the
\* version it was given.
AnswersStand ==
    \A r \in Requests : answer[r] # 0 => Committed(r) /\ EventOf(r).version = answer[r]

\* With guarded and create-only writes startup can tell what to do with every
\* intent a crash leaves behind, as long as nothing else changes the tree.  The
\* one exception is a crash inside the rollback of a create, after the created
\* file was removed (recover_pending_file_mutations).
StartupRecovers ==
    status = "refused" /\ edits = 0 /\ ~Asked("blind") =>
        \E r \in Requests :
            /\ intent[r] # NoIntent /\ request[r].policy = "create"
            /\ IOFails /\ target = Absent /\ temporary[r] = Absent

\* The intent of a guarded write never stays: it is committed or undone, by the
\* transaction or by a later start, unless the tree is changed from outside or
\* the intent of another write stops the start.
IntentsResolve ==
    \A r \in Requests :
        intent[r] # NoIntent /\ request[r].policy = "guarded"
            ~> intent[r] = NoIntent \/ edits > 0 \/ status = "refused"
===============================================================================
