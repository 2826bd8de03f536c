-------------------------- MODULE SessionStoreProofs --------------------------
(***************************************************************************)
(* RestoreKeeps and OpenExact for any number of requests, principals and   *)
(* sessions, and any number of errors, deaths and offline commands.        *)
(***************************************************************************)
EXTENDS SessionStore, FiniteSetTheorems, TLAPS

(* No session has the number that marks a missing tree. *)
IsTree(t) == t = [alias |-> t.alias, owner |-> t.owner]
TreeOK(t) == IsTree(t) /\ (t = NoTree \/ 0 \notin DOMAIN t.owner)

Holds(t, i) == t # NoTree /\ i \in DOMAIN t.owner

(* The daemon's sessions are in the tree, which no command touches under its lock. *)
DaemonInv ==
    /\ daemon = [up |-> daemon.up, sessions |-> daemon.sessions, alias |-> daemon.alias]
    /\ daemon.up \in BOOLEAN
    /\ daemon.up => /\ lock = "daemon" /\ asp # NoTree
                    /\ daemon.sessions \subseteq DOMAIN asp.owner

RInv ==
    /\ TreeOK(asp) /\ TreeOK(copy) /\ TreeOK(restore) /\ \A t \in aside : TreeOK(t)
    /\ DaemonInv
    /\ DOMAIN answers = Opens
    /\ RestoreKeeps

LEMMA Trees ==
    /\ IsTree(EmptyTree) /\ IsTree(NoTree) /\ EmptyTree # NoTree
    /\ DOMAIN EmptyTree.owner = {} /\ DOMAIN NoTree.owner = {0}
<1>1. /\ EmptyTree = [alias |-> [r \in {} |-> 0], owner |-> [i \in {} |-> Bare]]
      /\ NoTree = [alias |-> [r \in {} |-> 0], owner |-> [i \in {0} |-> Bare]]
  BY DEF NoTree, EmptyTree
<1>2. DOMAIN EmptyTree.owner = {} /\ DOMAIN NoTree.owner = {0}
  BY <1>1
<1> QED
  BY <1>1, <1>2, Zenon DEF IsTree

LEMMA PresentFacts ==
    ASSUME TreeOK(asp)
    PROVE  /\ TreeOK(Present) /\ Present # NoTree
           /\ \A i : Holds(asp, i) => Holds(Present, i)
  BY Trees DEF Present, TreeOK, Holds

(* A step that keeps the trees well formed and the daemon consistent, adds no answer, and
   after which every session held is held, or a command was run to remove it. *)
LEMMA HeldKeeps ==
    ASSUME RestoreKeeps, UNCHANGED answers, removed \subseteq removed',
           \A i : \A t \in aside \cup {asp} :
               Holds(t, i) /\ i \notin removed' => \E u \in aside' \cup {asp'} : Holds(u, i)
    PROVE  RestoreKeeps'
  BY DEF RestoreKeeps, Holds

(* What an open leaves in the tree after any number of its steps. *)
LEMMA MadeFacts ==
    ASSUME TreeOK(asp), asp # NoTree, NEW r \in Opens, NEW i \in Ids, NEW k \in 0 .. 3
    PROVE  LET made == Made(asp, r, i, k)
           IN  /\ TreeOK(made) /\ made # NoTree
               /\ DOMAIN asp.owner \subseteq DOMAIN made.owner
               /\ k = 3 => i \in DOMAIN made.owner
<1> DEFINE made == Made(asp, r, i, k)
<1>1. i # 0
  BY DEF Ids
<1>2. IsTree(made)
  BY DEF Made, IsTree
<1>3. DOMAIN asp.owner \subseteq DOMAIN made.owner /\ DOMAIN made.owner \subseteq DOMAIN asp.owner \cup {i}
  BY DEF Made, Assign
<1>4. k = 3 => i \in DOMAIN made.owner
  BY DEF Made, Assign
<1>5. 0 \notin DOMAIN made.owner
  BY <1>1, <1>3 DEF TreeOK
<1>6. made # NoTree
  BY <1>5, Trees
<1> QED
  BY <1>2, <1>3, <1>4, <1>5, <1>6 DEF TreeOK

(* OPEN_SESSION, answered, cut short or failed. *)
LEMMA OpenKeeps ==
    ASSUME RInv, NEW r \in Opens,
           \/ OpenKnown(r)
           \/ \E i \in Ids : OpenNew(r, i)
           \/ \E i \in Ids, k \in 0 .. 3 : OpenCut(r, i, k) \/ OpenSessionFails(r, i, k)
    PROVE  RInv'
<1>1. CASE OpenKnown(r)
  <2>1. Holds(asp, daemon.alias[r])
    BY <1>1 DEF OpenKnown, Known, RInv, DaemonInv, Holds
  <2>2. RestoreKeeps'
    BY <1>1, <2>1, Zenon DEF OpenKnown, RInv, RestoreKeeps, Holds
  <2> QED
    BY <1>1, <2>2 DEF OpenKnown, RInv, DaemonInv, TreeOK, IsTree
<1>2. ASSUME NEW i \in Ids, OpenNew(r, i) PROVE RInv'
  <2>1. daemon.up /\ asp # NoTree
    BY <1>2, Zenon DEF OpenNew, Draw, RInv, DaemonInv
  <2>2. /\ TreeOK(asp') /\ asp' # NoTree /\ DOMAIN asp.owner \subseteq DOMAIN asp'.owner
        /\ i \in DOMAIN asp'.owner
    <3>1. asp' = Made(asp, r, i, 3) /\ TreeOK(asp)
      BY <1>2, Zenon DEF OpenNew, RInv
    <3>2. 3 \in 0 .. 3
      OBVIOUS
    <3>3. LET made == Made(asp, r, i, 3)
          IN  /\ TreeOK(made) /\ made # NoTree
              /\ DOMAIN asp.owner \subseteq DOMAIN made.owner
              /\ i \in DOMAIN made.owner
      BY <2>1, <3>1, <3>2, MadeFacts, Zenon
    <3> QED
      BY <3>1, <3>3
  <2>3. /\ daemon' = [up |-> daemon'.up, sessions |-> daemon'.sessions, alias |-> daemon'.alias]
        /\ daemon'.up = daemon.up /\ daemon'.sessions = daemon.sessions \cup {i}
    BY <1>2, Zenon DEF OpenNew, RInv, DaemonInv
  <2>4. DaemonInv'
    BY <1>2, <2>1, <2>2, <2>3, Zenon DEF OpenNew, RInv, DaemonInv
  <2>5. RestoreKeeps'
    <3>1. /\ \A q \in Opens : answers'[q] \subseteq answers[q] \cup {i}
          /\ UNCHANGED <<aside, removed>>
      BY <1>2, Zenon DEF OpenNew, RInv
    <3>2. ASSUME NEW q \in Opens, NEW j \in answers'[q] \ removed, j # i
          PROVE  \E tree \in aside \cup {asp'} : tree # NoTree /\ j \in DOMAIN tree.owner
      <4>1. PICK tree \in aside \cup {asp} : tree # NoTree /\ j \in DOMAIN tree.owner
        BY <3>1, <3>2, Zenon DEF RInv, RestoreKeeps
      <4> QED
        BY <2>2, <4>1, Zenon
    <3> QED
      BY <2>2, <3>1, <3>2, Zenon DEF RestoreKeeps
  <2> QED
    BY <1>2, <2>2, <2>4, <2>5, Zenon DEF OpenNew, RInv, TreeOK, IsTree
<1>3. ASSUME NEW i \in Ids, NEW k \in 0 .. 3, OpenCut(r, i, k) PROVE RInv'
  <2>1. asp # NoTree
    BY <1>3 DEF OpenCut, Draw, RInv, DaemonInv
  <2>2. TreeOK(asp') /\ asp' # NoTree /\ DOMAIN asp.owner \subseteq DOMAIN asp'.owner
    BY <1>3, <2>1, MadeFacts DEF OpenCut, RInv
  <2>3. DaemonInv'
    BY <1>3 DEF OpenCut, DaemonInv, Down
  <2>4. RestoreKeeps'
    BY <1>3, <2>2, HeldKeeps DEF OpenCut, RInv, Holds
  <2> QED
    BY <1>3, <2>2, <2>3, <2>4 DEF OpenCut, RInv, TreeOK, IsTree
<1>4. ASSUME NEW i \in Ids, NEW k \in 0 .. 3, OpenSessionFails(r, i, k) PROVE RInv'
  <2>1. asp # NoTree
    BY <1>4 DEF OpenSessionFails, Draw, RInv, DaemonInv
  <2>2. PICK file : asp' = [Made(asp, r, i, k) EXCEPT !.alias = file]
    BY <1>4, Zenon DEF OpenSessionFails
  <2>3. asp' = [alias |-> file, owner |-> Made(asp, r, i, k).owner]
    BY <2>2 DEF Made
  <2>4. /\ DOMAIN asp.owner \subseteq DOMAIN asp'.owner /\ 0 \notin DOMAIN asp'.owner
        /\ IsTree(asp')
    <3>1. LET made == Made(asp, r, i, k)
          IN  DOMAIN asp.owner \subseteq DOMAIN made.owner /\ 0 \notin DOMAIN made.owner
      BY <2>1, MadeFacts DEF RInv, TreeOK
    <3> QED
      BY <2>3, <3>1 DEF IsTree
  <2>5. TreeOK(asp') /\ asp' # NoTree
    BY <2>4, Trees DEF TreeOK
  <2>6. /\ daemon' = [up |-> daemon'.up, sessions |-> daemon'.sessions, alias |-> daemon'.alias]
        /\ daemon'.up = daemon.up /\ daemon'.sessions = daemon.sessions
    BY <1>4, Zenon DEF OpenSessionFails, RInv, DaemonInv
  <2>7. DaemonInv'
    BY <1>4, <2>4, <2>5, <2>6 DEF OpenSessionFails, RInv, DaemonInv
  <2>8. RestoreKeeps'
    BY <1>4, <2>4, <2>5, HeldKeeps, Zenon DEF OpenSessionFails, RInv, Holds
  <2> QED
    BY <1>4, <2>5, <2>7, <2>8, Zenon DEF OpenSessionFails, RInv, TreeOK, IsTree
<1> QED
  BY <1>1, <1>2, <1>3, <1>4

(* Start and stop of the daemon, and backup_state. *)
LEMMA DaemonKeeps ==
    ASSUME RInv, StartDaemon \/ StopDaemon \/ BackupState
    PROVE  RInv'
<1>0. TreeOK(Present) /\ Present # NoTree /\ \A i : Holds(asp, i) => Holds(Present, i)
  BY PresentFacts DEF RInv
<1>1. CASE StartDaemon
  <2>1. /\ asp' = Present /\ lock' = "daemon"
        /\ \E a : daemon' = [up |-> TRUE, sessions |-> DOMAIN Present.owner, alias |-> a]
    BY <1>1, Zenon DEF StartDaemon
  <2>2. DaemonInv'
    BY <1>0, <2>1 DEF DaemonInv
  <2>3. RestoreKeeps'
    BY <1>0, <1>1, <2>1, HeldKeeps DEF StartDaemon, RInv
  <2> QED
    BY <1>0, <1>1, <2>1, <2>2, <2>3 DEF StartDaemon, RInv, TreeOK, IsTree
<1>2. CASE StopDaemon
  <2>1. DaemonInv'
    BY <1>2 DEF StopDaemon, DaemonInv, Down
  <2>2. RestoreKeeps'
    BY <1>2, HeldKeeps DEF StopDaemon, RInv
  <2> QED
    BY <1>2, <2>1, <2>2 DEF StopDaemon, RInv, TreeOK, IsTree
<1>3. CASE BackupState
  <2>1. DaemonInv'
    BY <1>3 DEF BackupState, Offline, RInv, DaemonInv
  <2>2. RestoreKeeps'
    BY <1>0, <1>3, HeldKeeps DEF BackupState, RInv
  <2> QED
    BY <1>0, <1>3, <2>1, <2>2 DEF BackupState, RInv, TreeOK, IsTree
<1> QED
  BY <1>1, <1>2, <1>3

(* The commands that change a tree in place. *)
LEMMA CommandKeeps ==
    ASSUME RInv,
           \/ \E i \in Ids : DeleteSession(i)
           \/ \E p \in Owners : MigrateLegacyOwners(p)
    PROVE  RInv'
<1>1. ASSUME NEW i \in Ids, DeleteSession(i) PROVE RInv'
  <2>1. /\ asp # NoTree /\ IsTree(asp) /\ 0 \notin DOMAIN asp.owner /\ ~daemon.up
        /\ i \in DOMAIN asp.owner /\ i # 0
    BY <1>1, Zenon DEF DeleteSession, Offline, RInv, DaemonInv, TreeOK, Ids
  <2>2. /\ IsTree(asp') /\ DOMAIN asp'.owner \subseteq DOMAIN asp.owner
        /\ DOMAIN asp.owner \subseteq DOMAIN asp'.owner \cup {i}
    BY <1>1, <2>1 DEF DeleteSession, IsTree, Assign, Without
  <2>3. TreeOK(asp') /\ asp' # NoTree
    BY <2>1, <2>2, Trees, Zenon DEF TreeOK
  <2>4. DaemonInv'
    BY <1>1, <2>1, Zenon DEF DeleteSession, RInv, DaemonInv
  <2>5. RestoreKeeps'
    BY <1>1, <2>2, <2>3, HeldKeeps DEF DeleteSession, RInv, Holds
  <2> QED
    BY <1>1, <2>3, <2>4, <2>5, Zenon DEF DeleteSession, RInv, TreeOK, IsTree
<1>2. ASSUME NEW p \in Owners, MigrateLegacyOwners(p) PROVE RInv'
  <2>1. asp # NoTree /\ IsTree(asp) /\ 0 \notin DOMAIN asp.owner /\ ~daemon.up
    BY <1>2 DEF MigrateLegacyOwners, Offline, RInv, DaemonInv, TreeOK
  <2>2. IsTree(asp') /\ DOMAIN asp'.owner = DOMAIN asp.owner
    BY <1>2, <2>1 DEF MigrateLegacyOwners, IsTree
  <2>3. TreeOK(asp') /\ asp' # NoTree
    BY <2>1, <2>2, Trees DEF TreeOK
  <2>4. DaemonInv'
    BY <1>2, <2>1 DEF MigrateLegacyOwners, RInv, DaemonInv
  <2>5. RestoreKeeps'
    BY <1>2, <2>2, <2>3, HeldKeeps, Zenon DEF MigrateLegacyOwners, RInv, Holds
  <2> QED
    BY <1>2, <2>3, <2>4, <2>5 DEF MigrateLegacyOwners, RInv, TreeOK, IsTree
<1> QED
  BY <1>1, <1>2

(* restore_state, with its two renames and what comes between and after them. *)
LEMMA RestoringKeeps ==
    ASSUME RInv, RestoreMovesAside \/ RestoreInstalls \/ RestoreFails
    PROVE  RInv'
<1>1. CASE RestoreMovesAside
  <2>1. TreeOK(Present) /\ \A i : Holds(asp, i) => Holds(Present, i)
    BY PresentFacts DEF RInv
  <2>2. DaemonInv'
    BY <1>1 DEF RestoreMovesAside, Offline, RInv, DaemonInv
  <2>3. RestoreKeeps'
    BY <1>1, <2>1, HeldKeeps DEF RestoreMovesAside, MovedAside, RInv
  <2>4. TreeOK(asp') /\ TreeOK(restore') /\ \A t \in aside' : TreeOK(t)
    BY <1>1, <2>1, Trees DEF RestoreMovesAside, MovedAside, RInv, TreeOK
  <2> QED
    BY <1>1, <2>2, <2>3, <2>4 DEF RestoreMovesAside, RInv
<1>2. CASE RestoreInstalls
  <2>1. DaemonInv'
    BY <1>2 DEF RestoreInstalls, RInv, DaemonInv
  <2>2. RestoreKeeps'
    BY <1>2, HeldKeeps DEF RestoreInstalls, RInv, Holds
  <2>3. TreeOK(asp') /\ TreeOK(restore')
    BY <1>2, Trees DEF RestoreInstalls, RInv, TreeOK
  <2> QED
    BY <1>2, <2>1, <2>2, <2>3 DEF RestoreInstalls, RInv
<1>3. CASE RestoreFails
  <2>1. DaemonInv'
    BY <1>3 DEF RestoreFails, RInv, DaemonInv
  <2>2. RestoreKeeps'
    BY <1>3, HeldKeeps DEF RestoreFails, RInv, Holds
  <2>3. TreeOK(asp') /\ TreeOK(restore') /\ \A t \in aside' : TreeOK(t)
    BY <1>3, Trees, Zenon DEF RestoreFails, RInv, TreeOK
  <2> QED
    BY <1>3, <2>1, <2>2, <2>3 DEF RestoreFails, RInv
<1> QED
  BY <1>1, <1>2, <1>3

LEMMA RInvInit == StoreInit => RInv
  BY Trees DEF StoreInit, RInv, TreeOK, DaemonInv, Down, RestoreKeeps

LEMMA RInvNext == RInv /\ [StoreNext]_storeVars => RInv'
<1> SUFFICES ASSUME RInv, [StoreNext]_storeVars PROVE RInv'
  OBVIOUS
<1>1. CASE UNCHANGED storeVars
  BY <1>1 DEF storeVars, RInv, TreeOK, IsTree, DaemonInv, RestoreKeeps
<1> QED
  BY <1>1, OpenKeeps, DaemonKeeps, CommandKeeps, RestoringKeeps DEF StoreNext

(* restore_state, open_session: whatever is cut short, and also when a daemon starts
   between the two renames of a restore, every session a client was told of
   is in a tree that exists, until a command deletes it. *)
THEOREM RestoreAlwaysKeeps == StoreSpec => []RestoreKeeps
<1>1. RInv => RestoreKeeps
  BY Zenon DEF RInv
<1> QED
  BY <1>1, RInvInit, RInvNext, PTL DEF StoreSpec

------------------------------------------------------------------------------
(* OpenExact *)

(* Every session directory has an ID that was drawn. *)
DirectoriesInv ==
    /\ DOMAIN asp.owner \ {0} \subseteq DOMAIN drawn
    /\ DOMAIN copy.owner \ {0} \subseteq DOMAIN drawn
    /\ DOMAIN restore.owner \ {0} \subseteq DOMAIN drawn

LEMMA DirectoriesNext == DirectoriesInv /\ [StoreNext]_storeVars => DirectoriesInv'
<1> SUFFICES ASSUME DirectoriesInv, [StoreNext]_storeVars PROVE DirectoriesInv'
  OBVIOUS
<1> USE DEF DirectoriesInv
<1>1. DOMAIN Present.owner \ {0} \subseteq DOMAIN drawn
  BY Trees DEF Present
<1>2. CASE StartDaemon \/ StopDaemon \/ BackupState
  BY <1>1, <1>2 DEF StartDaemon, StopDaemon, BackupState
<1>3. CASE RestoreMovesAside \/ RestoreInstalls \/ RestoreFails
  BY <1>1, <1>3, Trees, Zenon DEF RestoreMovesAside, RestoreInstalls, RestoreFails
<1>4. ASSUME NEW r \in Opens, OpenKnown(r) PROVE DirectoriesInv'
  BY <1>4 DEF OpenKnown
<1>5. ASSUME NEW r \in Opens, NEW i \in Ids, NEW k \in 0 .. 3, Draw(r, i),
             asp'.owner = Made(asp, r, i, k).owner, UNCHANGED <<copy, restore>>
      PROVE  DirectoriesInv'
  <2>1. DOMAIN drawn' = DOMAIN drawn \cup {i}
    BY <1>5 DEF Draw, Assign
  <2>2. DOMAIN asp'.owner \subseteq DOMAIN asp.owner \cup {i}
    BY <1>5 DEF Made, Assign
  <2> QED
    BY <1>5, <2>1, <2>2, Zenon
<1>6. ASSUME NEW r \in Opens, NEW i \in Ids, OpenNew(r, i) PROVE DirectoriesInv'
  <2>1. 3 \in 0 .. 3
    OBVIOUS
  <2>2. Draw(r, i) /\ asp'.owner = Made(asp, r, i, 3).owner /\ UNCHANGED <<copy, restore>>
    BY <1>6, Zenon DEF OpenNew
  <2> QED
    BY <1>5, <2>1, <2>2
<1>7. ASSUME NEW r \in Opens, NEW i \in Ids, NEW k \in 0 .. 3,
             OpenCut(r, i, k) \/ OpenSessionFails(r, i, k)
      PROVE  DirectoriesInv'
  <2>1. Draw(r, i) /\ UNCHANGED <<copy, restore>>
    BY <1>7 DEF OpenCut, OpenSessionFails
  <2>2. asp'.owner = Made(asp, r, i, k).owner
    BY <1>7, Zenon DEF OpenCut, OpenSessionFails, Made
  <2> QED
    BY <1>5, <2>1, <2>2
<1>8. ASSUME NEW i \in Ids, DeleteSession(i) PROVE DirectoriesInv'
  BY <1>8 DEF DeleteSession, Assign, Without
<1>9. ASSUME NEW p \in Owners, MigrateLegacyOwners(p) PROVE DirectoriesInv'
  <2>1. UNCHANGED <<copy, restore, drawn>>
    BY <1>9 DEF MigrateLegacyOwners
  <2>2. DOMAIN asp'.owner \subseteq DOMAIN asp.owner
    BY <1>9 DEF MigrateLegacyOwners
  <2> QED
    BY <2>1, <2>2
<1>10. CASE UNCHANGED storeVars
  BY <1>10 DEF storeVars
<1> QED
  BY <1>2, <1>3, <1>4, <1>6, <1>7, <1>8, <1>9, <1>10, Zenon DEF StoreNext

(* The alias of the request that session i was made for leads to i. *)
Points(al, i) == drawn[i] \in DOMAIN al /\ al[drawn[i]] = i

(* The sessions of a tree that no delete command was run for. *)
Live(t) == DOMAIN t.owner \ (removed \cup {0})

(* Session i was answered, or no open of its request had an error. *)
Counts(i) == drawn[i] \notin errored \/ i \in answers[drawn[i]]

Named(t, al) == \A i \in Live(t) : Counts(i) => Points(al, i)
Agree(t, u) == \A i \in Live(t) \cap Live(u) : Points(t.alias, i) <=> Points(u.alias, i)
Owned(t) ==
    \A i \in Live(t) :
        i \in answers[drawn[i]] /\ Asker[drawn[i]] # "legacy" => t.owner[i] = Asker[drawn[i]]
Drawn(t) ==
    /\ Live(t) \subseteq DOMAIN drawn
    /\ \A r \in DOMAIN t.alias : t.alias[r] \in DOMAIN drawn /\ drawn[t.alias[r]] = r

IdsInv ==
    /\ 0 \notin DOMAIN drawn /\ DOMAIN answers = Opens
    /\ \A i \in DOMAIN drawn : drawn[i] \in Opens
    /\ \A r \in Opens : \A i \in answers[r] : i \in DOMAIN drawn /\ drawn[i] = r

(* Each tree leads from a request to its session.  Two trees with a session in common, one of
   which may replace the other, agree on whether it is the one of its request. *)
TreesInv ==
    /\ Drawn(asp) /\ Drawn(copy) /\ Drawn(restore)
    /\ Named(asp, asp.alias) /\ Named(copy, copy.alias) /\ Named(restore, restore.alias)
    /\ Agree(asp, copy) /\ Agree(asp, restore) /\ Agree(copy, restore)

(* What the daemon remembers is in its file, and leads to every session that counts. *)
MemoryInv ==
    daemon.up =>
        /\ \A r \in DOMAIN daemon.alias : r \in DOMAIN asp.alias /\ asp.alias[r] = daemon.alias[r]
        /\ Named(asp, daemon.alias)
        /\ \A i \in Live(asp) : Points(daemon.alias, i) => i \in daemon.sessions
        /\ \A i \in Live(asp) \cap (Live(copy) \cup Live(restore)) :
              Points(asp.alias, i) => Points(daemon.alias, i)

OwnersInv ==
    /\ reverted \in BOOLEAN
    /\ ~reverted => Owned(asp) /\ (asp = NoTree => Owned(restore))

OInv == IdsInv /\ TreesInv /\ MemoryInv /\ OwnersInv

LEMMA EmptyFacts ==
    /\ Live(NoTree) = {} /\ Live(EmptyTree) = {}
    /\ DOMAIN NoTree.alias = {} /\ DOMAIN EmptyTree.alias = {}
<1>1. /\ EmptyTree = [alias |-> [r \in {} |-> 0], owner |-> [i \in {} |-> Bare]]
      /\ NoTree = [alias |-> [r \in {} |-> 0], owner |-> [i \in {0} |-> Bare]]
  BY DEF NoTree, EmptyTree
<1> QED
  BY <1>1, Trees DEF Live

(* The present tree is the one at .asp, or has no sessions either. *)
LEMMA PresentLive ==
    /\ Live(Present) = Live(asp) /\ DOMAIN Present.alias = DOMAIN asp.alias
    /\ asp # NoTree => Present = asp
    /\ asp = NoTree => Live(Present) = {} /\ DOMAIN Present.alias = {}
  BY EmptyFacts DEF Present

LEMMA DaemonOpens ==
    ASSUME RInv, OInv, StartDaemon \/ StopDaemon \/ BackupState
    PROVE  OInv'
<1>1. CASE StartDaemon
  <2>1. /\ asp' = Present /\ UNCHANGED <<copy, restore, drawn, answers, errored, removed, reverted>>
        /\ DOMAIN daemon'.alias = {r \in DOMAIN Present.alias : Present.alias[r] \in DOMAIN Present.owner}
        /\ \A r \in DOMAIN daemon'.alias : daemon'.alias[r] = Present.alias[r]
        /\ daemon'.sessions = DOMAIN Present.owner
    BY <1>1, Zenon DEF StartDaemon, Without
  <2>2. TreesInv'
    BY <2>1, PresentLive DEF OInv, TreesInv, Drawn, Named, Agree, Points, Counts, Live
  <2>3. MemoryInv'
    BY <2>1, PresentLive DEF OInv, TreesInv, MemoryInv, Drawn, Named, Points, Counts, Live
  <2>4. OwnersInv'
    BY <2>1, PresentLive, PresentFacts DEF RInv, OInv, OwnersInv, Owned, Live
  <2>5. IdsInv'
    BY <2>1, Zenon DEF OInv, IdsInv
  <2> QED
    BY <2>2, <2>3, <2>4, <2>5, Zenon DEF OInv
<1>2. CASE StopDaemon
  BY <1>2 DEF StopDaemon, Down, OInv, IdsInv, TreesInv, MemoryInv, OwnersInv,
              Drawn, Named, Agree, Owned, Points, Counts, Live
<1>3. CASE BackupState
  <2>1. /\ asp' = Present /\ copy' = Present /\ ~daemon.up
        /\ UNCHANGED <<daemon, restore, drawn, answers, errored, removed, reverted>>
    BY <1>3, Zenon DEF BackupState, Offline, RInv, DaemonInv
  <2>2. TreesInv'
    BY <2>1, PresentLive DEF OInv, TreesInv, Drawn, Named, Agree, Points, Counts, Live
  <2>3. MemoryInv'
    BY <2>1, Zenon DEF MemoryInv
  <2>4. OwnersInv'
    BY <2>1, PresentLive, PresentFacts DEF RInv, OInv, OwnersInv, Owned, Live
  <2>5. IdsInv'
    BY <2>1 DEF OInv, IdsInv
  <2> QED
    BY <2>2, <2>3, <2>4, <2>5 DEF OInv
<1> QED
  BY <1>1, <1>2, <1>3

LEMMA CommandOpens ==
    ASSUME RInv, OInv, RInv',
           \/ \E i \in Ids : DeleteSession(i)
           \/ \E p \in Owners : MigrateLegacyOwners(p)
    PROVE  OInv'
<1>1. ASSUME NEW i \in Ids, DeleteSession(i) PROVE OInv'
  <2>1. /\ asp # NoTree /\ IsTree(asp) /\ ~daemon.up /\ i \in DOMAIN asp.owner
        /\ removed' = removed \cup {i}
        /\ UNCHANGED <<copy, daemon, restore, drawn, answers, errored, reverted>>
    BY <1>1, Zenon DEF DeleteSession, Offline, RInv, DaemonInv, TreeOK
  <2>2. /\ Live(asp)' \subseteq Live(asp) \ {i}
        /\ \A j \in Live(asp)' : asp'.owner[j] = asp.owner[j]
    BY <1>1, <2>1 DEF DeleteSession, Live, Assign, Without
  <2>3. /\ DOMAIN asp'.alias \subseteq DOMAIN asp.alias
        /\ \A r \in DOMAIN asp'.alias : asp'.alias[r] = asp.alias[r]
        /\ \A r \in DOMAIN asp.alias :
              asp.alias[r] \in DOMAIN asp.owner \ {i} => r \in DOMAIN asp'.alias
    BY <1>1, <2>1 DEF DeleteSession, Without
  <2>4. /\ Live(copy)' = Live(copy) \ {i} /\ Live(restore)' = Live(restore) \ {i}
    BY <2>1, Zenon DEF Live
  <2>5. \A j \in Live(asp)' : Points(asp.alias, j)' <=> Points(asp.alias, j)
    BY <2>1, <2>2, <2>3 DEF Points, Live
  <2>6. TreesInv'
    <3>1. Drawn(asp)' /\ Drawn(copy)' /\ Drawn(restore)'
      BY <2>1, <2>2, <2>3, <2>4, Zenon DEF OInv, TreesInv, Drawn
    <3>2. Named(asp, asp.alias)' /\ Named(copy, copy.alias)' /\ Named(restore, restore.alias)'
      BY <2>1, <2>2, <2>4, <2>5, Zenon DEF OInv, TreesInv, Named, Counts, Points
    <3>3. Agree(asp, copy)' /\ Agree(asp, restore)' /\ Agree(copy, restore)'
      BY <2>1, <2>2, <2>4, <2>5, Zenon DEF OInv, TreesInv, Agree, Points
    <3> QED
      BY <3>1, <3>2, <3>3, Zenon DEF TreesInv
  <2>7. OwnersInv'
    <3>1. DOMAIN asp'.owner \subseteq DOMAIN asp.owner
      BY <1>1, <2>1 DEF DeleteSession, Assign, Without
    <3>2. asp' # NoTree
      BY <2>1, <3>1, Trees, Zenon DEF RInv, TreeOK
    <3> QED
      BY <2>1, <2>2, <3>2, Zenon DEF OInv, OwnersInv, Owned
  <2>8. MemoryInv' /\ IdsInv'
    BY <2>1 DEF OInv, IdsInv, MemoryInv
  <2> QED
    BY <2>6, <2>7, <2>8, Zenon DEF OInv
<1>2. ASSUME NEW p \in Owners, MigrateLegacyOwners(p) PROVE OInv'
  <2>1. /\ asp # NoTree /\ IsTree(asp) /\ ~daemon.up
        /\ UNCHANGED <<copy, daemon, restore, drawn, answers, errored, removed, reverted>>
    BY <1>2 DEF MigrateLegacyOwners, Offline, RInv, DaemonInv, TreeOK
  <2>2. /\ asp'.alias = asp.alias /\ DOMAIN asp'.owner = DOMAIN asp.owner
        /\ \A j \in DOMAIN asp.owner :
              OwnerOf(asp.owner[j]) # "legacy" => asp'.owner[j] = asp.owner[j]
    BY <1>2, <2>1 DEF MigrateLegacyOwners, IsTree
  <2>3. Live(asp)' = Live(asp) /\ Live(copy)' = Live(copy) /\ Live(restore)' = Live(restore)
    BY <2>1, <2>2, Zenon DEF Live
  <2>4. TreesInv'
    BY <2>1, <2>2, <2>3 DEF OInv, TreesInv, Drawn, Named, Agree, Points, Counts
  <2>5. Owned(asp) => Owned(asp)'
    <3> SUFFICES ASSUME Owned(asp), NEW j \in Live(asp), j \in answers[drawn[j]],
                        Asker[drawn[j]] # "legacy"
                 PROVE  asp'.owner[j] = Asker[drawn[j]]
      BY <2>1, <2>3, Zenon DEF Owned
    <3>1. drawn[j] \in Opens
      BY Zenon DEF OInv, IdsInv, TreesInv, Drawn
    <3>2. Asker[drawn[j]] # Bare
      BY <3>1, StoreAssumption
    <3>3. asp.owner[j] = Asker[drawn[j]] /\ j \in DOMAIN asp.owner
      BY Zenon DEF Owned, Live
    <3> QED
      BY <2>2, <3>2, <3>3, Zenon DEF OwnerOf
  <2>6. asp' # NoTree
    BY <2>1, <2>2, Trees DEF RInv, TreeOK
  <2>7. OwnersInv'
    BY <2>1, <2>5, <2>6, Zenon DEF OInv, OwnersInv
  <2>8. MemoryInv' /\ IdsInv'
    BY <2>1 DEF OInv, IdsInv, MemoryInv
  <2> QED
    BY <2>4, <2>7, <2>8, Zenon DEF OInv
<1> QED
  BY <1>1, <1>2

LEMMA RestoringOpens ==
    ASSUME RInv, OInv, RInv', RestoreMovesAside \/ RestoreInstalls \/ RestoreFails
    PROVE  OInv'
<1>0. IdsInv'
  BY DEF RestoreMovesAside, RestoreInstalls, RestoreFails, OInv, IdsInv
<1>1. CASE RestoreMovesAside
  <2>1. /\ asp' = NoTree /\ restore' = Present /\ restore = NoTree /\ ~daemon.up
        /\ UNCHANGED <<copy, daemon, drawn, answers, errored, removed, reverted>>
    BY <1>1, Zenon DEF RestoreMovesAside, Offline, RInv, DaemonInv
  <2>2. Live(asp)' = {} /\ DOMAIN asp'.alias = {} /\ Live(copy)' = Live(copy)
        /\ Live(restore)' = Live(Present) /\ Live(Present) = Live(asp)
    BY <2>1, Trees, EmptyFacts, PresentLive, Zenon DEF Live
  <2>3. TreesInv'
    BY <2>1, <2>2, PresentLive DEF OInv, TreesInv, Drawn, Named, Agree, Points, Counts
  <2>4. OwnersInv'
    BY <2>1, <2>2, PresentLive, Zenon DEF OInv, OwnersInv, Owned
  <2>5. MemoryInv'
    BY <2>1, Zenon DEF MemoryInv
  <2> QED
    BY <1>0, <2>3, <2>4, <2>5, Zenon DEF OInv
<1>2. CASE RestoreInstalls
  <2>1. /\ restore' = NoTree /\ asp' = (IF asp = NoTree THEN copy ELSE asp)
        /\ asp = NoTree => reverted' /\ ~daemon.up
        /\ asp # NoTree => UNCHANGED reverted
        /\ reverted' \in BOOLEAN
        /\ UNCHANGED <<copy, daemon, drawn, answers, errored, removed>>
    BY <1>2, Zenon DEF RestoreInstalls, RInv, DaemonInv, OInv, OwnersInv
  <2>2. Live(restore)' = {} /\ DOMAIN restore'.alias = {} /\ Live(copy)' = Live(copy)
        /\ Live(asp)' = IF asp = NoTree THEN Live(copy) ELSE Live(asp)
    BY <2>1, Trees, EmptyFacts, Zenon DEF Live
  <2>3. TreesInv'
    BY <2>1, <2>2 DEF OInv, TreesInv, Drawn, Named, Agree, Points, Counts
  <2>4. OwnersInv'
    BY <2>1, <2>2 DEF OInv, OwnersInv, Owned
  <2>5. MemoryInv'
    BY <2>1, <2>2 DEF OInv, MemoryInv, Named, Points, Counts
  <2> QED
    BY <1>0, <2>3, <2>4, <2>5 DEF OInv
<1>3. CASE RestoreFails
  <2>1. /\ restore' = NoTree
        /\ asp = NoTree => ~daemon.up
        /\ UNCHANGED <<copy, daemon, drawn, answers, errored, removed, reverted>>
    BY <1>3, Zenon DEF RestoreFails, RInv, DaemonInv
  <2>2. Live(restore)' = {} /\ DOMAIN restore'.alias = {} /\ Live(copy)' = Live(copy)
    BY <2>1, Trees, EmptyFacts, Zenon DEF Live
  <2>3. CASE asp' = asp
    <3>1. Live(asp)' = Live(asp)
      BY <2>1, <2>3, Zenon DEF Live
    <3>2. TreesInv'
      BY <2>1, <2>2, <2>3, <3>1 DEF OInv, TreesInv, Drawn, Named, Agree, Points, Counts
    <3>3. OwnersInv'
      BY <2>1, <2>2, <2>3, <3>1, Zenon DEF OInv, OwnersInv, Owned
    <3>4. MemoryInv'
      <4>1. \A i : /\ Points(asp.alias, i)' <=> Points(asp.alias, i)
                   /\ Points(daemon.alias, i)' <=> Points(daemon.alias, i)
        BY <2>1, <2>3, Zenon DEF Points
      <4>2. Named(asp, daemon.alias)' <=> Named(asp, daemon.alias)
        BY <2>1, <3>1, <4>1, Zenon DEF Named, Counts
      <4> QED
        BY <2>1, <2>2, <2>3, <3>1, <4>1, <4>2, Zenon DEF OInv, MemoryInv
    <3> QED
      BY <1>0, <3>2, <3>3, <3>4 DEF OInv
  <2>4. CASE asp = NoTree /\ asp' = restore
    <3>1. Live(asp)' = Live(restore)
      BY <2>1, <2>4, Zenon DEF Live
    <3>2. TreesInv'
      BY <2>1, <2>2, <2>4, <3>1 DEF OInv, TreesInv, Drawn, Named, Agree, Points, Counts
    <3>3. OwnersInv'
      BY <2>1, <2>2, <2>4, <3>1, Zenon DEF OInv, OwnersInv, Owned
    <3>4. MemoryInv'
      BY <2>1, <2>4 DEF MemoryInv
    <3> QED
      BY <1>0, <3>2, <3>3, <3>4 DEF OInv
  <2> QED
    BY <1>3, <2>3, <2>4, Zenon DEF RestoreFails
<1> QED
  BY <1>1, <1>2, <1>3, Zenon

(* An answer with the session that is known for the request. *)
LEMMA KnownOpens ==
    ASSUME RInv, OInv, NEW r \in Opens, OpenKnown(r)
    PROVE  OInv'
<1> DEFINE i == daemon.alias[r]
<1>1. /\ daemon.up /\ r \in DOMAIN daemon.alias /\ i \in daemon.sessions
      /\ OwnerOf(asp.owner[i]) = Asker[r]
      /\ UNCHANGED <<asp, copy, restore, daemon, drawn, errored, removed, reverted>>
  BY Zenon DEF OpenKnown, Known, OwnerChecked
<1>2. DOMAIN answers' = Opens /\ \A q \in Opens : answers'[q] = IF q = r THEN answers[r] \cup {i} ELSE answers[q]
  BY Zenon DEF OpenKnown, OInv, IdsInv
<1>3. /\ r \in DOMAIN asp.alias /\ asp.alias[r] = i /\ i \in DOMAIN drawn /\ drawn[i] = r
      /\ i \in DOMAIN asp.owner
  BY <1>1, Zenon DEF OInv, MemoryInv, TreesInv, Drawn, RInv, DaemonInv
<1>4. /\ Points(asp.alias, i) /\ Points(daemon.alias, i)
      /\ i \in Live(copy) => Points(copy.alias, i)
      /\ i \in Live(restore) => Points(restore.alias, i)
  <2>1. Points(asp.alias, i) /\ Points(daemon.alias, i)
    BY <1>1, <1>3, Zenon DEF Points
  <2>2. Agree(asp, copy) /\ Agree(asp, restore)
    BY Zenon DEF OInv, TreesInv
  <2>3. i \in Live(copy) \cup Live(restore) => i \in Live(asp)
    BY <1>3, Zenon DEF Live
  <2> QED
    BY <2>1, <2>2, <2>3, Zenon DEF Agree
<1> HIDE DEF i
<1>5. IdsInv'
  BY <1>1, <1>2, <1>3 DEF OInv, IdsInv
<1>6. Live(asp)' = Live(asp) /\ Live(copy)' = Live(copy) /\ Live(restore)' = Live(restore)
  BY <1>1, Zenon DEF Live
<1>7. \A j \in DOMAIN drawn : j # i => (Counts(j)' <=> Counts(j))
  BY <1>1, <1>2, <1>3 DEF Counts, OInv, IdsInv
<1>11. \A j : /\ Points(asp.alias, j)' <=> Points(asp.alias, j)
              /\ Points(copy.alias, j)' <=> Points(copy.alias, j)
              /\ Points(restore.alias, j)' <=> Points(restore.alias, j)
              /\ Points(daemon.alias, j)' <=> Points(daemon.alias, j)
  BY <1>1, Zenon DEF Points
<1>8. TreesInv'
  <2>1. Drawn(asp)' /\ Drawn(copy)' /\ Drawn(restore)'
    BY <1>1, <1>6, Zenon DEF OInv, TreesInv, Drawn
  <2>2. Named(asp, asp.alias)' /\ Named(copy, copy.alias)' /\ Named(restore, restore.alias)'
    <3>1. /\ Live(asp) \subseteq DOMAIN drawn /\ Live(copy) \subseteq DOMAIN drawn
          /\ Live(restore) \subseteq DOMAIN drawn
      BY Zenon DEF OInv, TreesInv, Drawn
    <3>2. Named(asp, asp.alias) /\ Named(copy, copy.alias) /\ Named(restore, restore.alias)
      BY Zenon DEF OInv, TreesInv
    <3>3. Named(asp, asp.alias)'
      BY <1>4, <1>6, <1>7, <1>11, <3>1, <3>2, Zenon DEF Named
    <3>4. Named(copy, copy.alias)'
      BY <1>4, <1>6, <1>7, <1>11, <3>1, <3>2, Zenon DEF Named
    <3>5. Named(restore, restore.alias)'
      BY <1>4, <1>6, <1>7, <1>11, <3>1, <3>2, Zenon DEF Named
    <3> QED
      BY <3>3, <3>4, <3>5
  <2>3. Agree(asp, copy)' /\ Agree(asp, restore)' /\ Agree(copy, restore)'
    BY <1>1, <1>6, Zenon DEF OInv, TreesInv, Agree, Points
  <2> QED
    BY <2>1, <2>2, <2>3, Zenon DEF TreesInv
<1>9. MemoryInv'
  <2>1. /\ \A q \in DOMAIN daemon.alias : q \in DOMAIN asp.alias /\ asp.alias[q] = daemon.alias[q]
        /\ Named(asp, daemon.alias)
        /\ \A j \in Live(asp) : Points(daemon.alias, j) => j \in daemon.sessions
        /\ \A j \in Live(asp) \cap (Live(copy) \cup Live(restore)) :
              Points(asp.alias, j) => Points(daemon.alias, j)
    BY <1>1, Zenon DEF OInv, MemoryInv
  <2>2. Live(asp) \subseteq DOMAIN drawn
    BY Zenon DEF OInv, TreesInv, Drawn
  <2>3. Named(asp, daemon.alias)'
    BY <1>4, <1>6, <1>7, <1>11, <2>1, <2>2, Zenon DEF Named
  <2> QED
    BY <1>1, <1>6, <1>11, <2>1, <2>3, Zenon DEF MemoryInv
<1>10. OwnersInv'
  <2>1. asp # NoTree
    BY <1>1 DEF RInv, DaemonInv
  <2>2. Asker[r] # "legacy" => asp.owner[i] = Asker[r]
    BY <1>1, Zenon DEF OwnerOf
  <2>3. Owned(asp) => Owned(asp)'
    BY <1>1, <1>2, <1>3, <1>6, <2>2 DEF Owned, OInv, IdsInv, TreesInv, Drawn
  <2> QED
    BY <1>1, <2>1, <2>3 DEF OInv, OwnersInv
<1> QED
  BY <1>5, <1>8, <1>9, <1>10, Zenon DEF OInv

(* A session is drawn only when no session that counts was made for the request. *)
LEMMA DrawFacts ==
    ASSUME RInv, OInv, NEW r \in Opens, NEW i \in Ids, Draw(r, i)
    PROVE  /\ i \notin DOMAIN drawn /\ i # 0 /\ DOMAIN drawn' = DOMAIN drawn \cup {i}
           /\ drawn'[i] = r /\ \A j \in DOMAIN drawn : drawn'[j] = drawn[j]
           /\ \A j \in Live(asp) : drawn[j] = r => ~Points(daemon.alias, j) /\ ~Counts(j)
           /\ \A j \in Live(asp) \cap (Live(copy) \cup Live(restore)) :
                 drawn[j] = r => ~Points(asp.alias, j)
           /\ \A j \in Live(asp) \cap Live(copy) : drawn[j] = r => ~Points(copy.alias, j)
           /\ \A j \in Live(asp) \cap Live(restore) : drawn[j] = r => ~Points(restore.alias, j)
<1>1. i \notin DOMAIN drawn /\ i # 0
  BY DEF Draw, Ids
<1>2. /\ DOMAIN drawn' = DOMAIN drawn \cup {i} /\ drawn'[i] = r
      /\ \A j \in DOMAIN drawn : drawn'[j] = drawn[j]
  BY <1>1, Zenon DEF Draw, Assign
<1>3. daemon.up /\ ~Known(r)
  BY Zenon DEF Draw
<1>4. \A j \in Live(asp) : drawn[j] = r => ~Points(daemon.alias, j)
  BY <1>3, Zenon DEF Known, Points, OInv, MemoryInv
<1>5. \A j \in Live(asp) : drawn[j] = r => ~Counts(j)
  BY <1>3, <1>4, Zenon DEF OInv, MemoryInv, Named
<1>6. \A j \in Live(asp) \cap (Live(copy) \cup Live(restore)) : drawn[j] = r => ~Points(asp.alias, j)
  BY <1>3, <1>4, Zenon DEF OInv, MemoryInv
<1>7. /\ \A j \in Live(asp) \cap Live(copy) : drawn[j] = r => ~Points(copy.alias, j)
      /\ \A j \in Live(asp) \cap Live(restore) : drawn[j] = r => ~Points(restore.alias, j)
  BY <1>6, Zenon DEF OInv, TreesInv, Agree
<1> QED
  BY <1>1, <1>2, <1>4, <1>5, <1>6, <1>7, Zenon

(* What the steps that draw a session i for r leave, whether they answer, fail or are cut. *)
Drew(r, i) ==
    /\ UNCHANGED <<copy, restore, removed, reverted>>
    /\ asp # NoTree /\ asp' # NoTree
    /\ DOMAIN asp'.owner \subseteq DOMAIN asp.owner \cup {i}
    /\ \A j \in DOMAIN asp.owner : j # i => asp'.owner[j] = asp.owner[j]
    /\ \/ asp'.alias = asp.alias
       \/ asp'.alias = Without(daemon.alias, {r})
       \/ asp'.alias = Assign(daemon.alias, r, i)
    /\ DOMAIN answers' = Opens
    /\ \A q \in Opens : answers[q] \subseteq answers'[q] /\ answers'[q] \subseteq answers[q] \cup {i}
    /\ \A q \in Opens : i \in answers'[q] => q = r
    /\ errored \subseteq errored'
    /\ i \in DOMAIN asp'.owner =>
          asp'.alias = Assign(daemon.alias, r, i) \/ (r \in errored' /\ i \notin answers'[r])
    /\ i \in answers'[r] => asp'.owner[i] = Asker[r]

LEMMA DrewFacts ==
    ASSUME RInv, OInv, NEW r \in Opens, NEW i \in Ids, Draw(r, i), Drew(r, i)
    PROVE  IdsInv' /\ TreesInv' /\ OwnersInv'
<1>1. /\ i \notin DOMAIN drawn /\ i # 0 /\ DOMAIN drawn' = DOMAIN drawn \cup {i}
      /\ drawn'[i] = r /\ \A j \in DOMAIN drawn : drawn'[j] = drawn[j]
  BY DrawFacts, Zenon
<1>2. daemon.up
  BY Zenon DEF Draw
<1>3. IdsInv'
  BY <1>1 DEF Drew, OInv, IdsInv
<1>4. /\ Live(copy)' = Live(copy) /\ Live(restore)' = Live(restore)
      /\ Live(asp)' \subseteq Live(asp) \cup {i}
  BY Zenon DEF Drew, Live
<1>5. /\ Live(asp) \subseteq DOMAIN drawn /\ Live(copy) \subseteq DOMAIN drawn
      /\ Live(restore) \subseteq DOMAIN drawn
  BY Zenon DEF OInv, TreesInv, Drawn
<1>6. \A j \in DOMAIN drawn : Counts(j)' => Counts(j)
  BY <1>1 DEF Drew, Counts, OInv, IdsInv
<1>7. \A q \in DOMAIN asp'.alias : asp'.alias[q] \in DOMAIN drawn' /\ drawn'[asp'.alias[q]] = q
  <2>1. \A q \in DOMAIN daemon.alias : daemon.alias[q] \in DOMAIN drawn /\ drawn[daemon.alias[q]] = q
    BY <1>2, Zenon DEF OInv, MemoryInv, TreesInv, Drawn
  <2>2. CASE asp'.alias = asp.alias
    BY <1>1, <2>2 DEF OInv, TreesInv, Drawn
  <2>3. CASE asp'.alias = Without(daemon.alias, {r})
    BY <1>1, <2>1, <2>3, Zenon DEF Without
  <2>4. CASE asp'.alias = Assign(daemon.alias, r, i)
    BY <1>1, <2>1, <2>4 DEF Assign
  <2> QED
    BY <2>2, <2>3, <2>4, Zenon DEF Drew
<1>8. \A j \in Live(asp) : drawn[j] # r =>
          \/ Points(asp.alias, j)' <=> Points(asp.alias, j)
          \/ Points(asp.alias, j)' <=> Points(daemon.alias, j)
  <2>1. CASE asp'.alias = asp.alias
    BY <1>1, <1>5, <2>1, Zenon DEF Points
  <2>2. CASE asp'.alias = Without(daemon.alias, {r})
    <3>1. /\ DOMAIN asp'.alias = DOMAIN daemon.alias \ {r}
          /\ \A q \in DOMAIN asp'.alias : asp'.alias[q] = daemon.alias[q]
      BY <2>2, Zenon DEF Without
    <3> QED
      BY <1>1, <1>5, <3>1, Zenon DEF Points
  <2>3. CASE asp'.alias = Assign(daemon.alias, r, i)
    BY <1>1, <1>5, <2>3 DEF Assign, Points
  <2> QED
    BY <2>1, <2>2, <2>3, Zenon DEF Drew
<1>9. \A j \in Live(asp) : drawn[j] = r => (Points(asp.alias, j)' => Points(asp.alias, j))
  <2>1. CASE asp'.alias = asp.alias
    BY <1>1, <1>5, <2>1, Zenon DEF Points
  <2>2. CASE asp'.alias = Without(daemon.alias, {r})
    BY <1>1, <1>5, <2>2, Zenon DEF Without, Points
  <2>3. CASE asp'.alias = Assign(daemon.alias, r, i)
    BY <1>1, <1>5, <2>3 DEF Assign, Points
  <2> QED
    BY <2>1, <2>2, <2>3, Zenon DEF Drew
<1>10. Named(asp, asp.alias)'
  <2> SUFFICES ASSUME NEW j \in Live(asp)', Counts(j)' PROVE Points(asp.alias, j)'
    BY Zenon DEF Named
  <2>1. CASE j = i
    <3>1. i \in DOMAIN asp'.owner
      BY <2>1, Zenon DEF Live
    <3>2. ~(r \in errored' /\ i \notin answers'[r])
      BY <1>1, <2>1, Zenon DEF Counts
    <3>3. asp'.alias = Assign(daemon.alias, r, i)
      BY <3>1, <3>2, Zenon DEF Drew
    <3> QED
      BY <1>1, <2>1, <3>3, Zenon DEF Assign, Points
  <2>2. CASE j # i
    <3>1. j \in Live(asp) /\ Counts(j)
      BY <1>4, <1>5, <1>6, <2>2, Zenon
    <3>2. drawn[j] # r
      BY <3>1, DrawFacts, Zenon
    <3>3. Points(asp.alias, j) /\ Points(daemon.alias, j)
      BY <1>2, <3>1 DEF OInv, TreesInv, MemoryInv, Named
    <3> QED
      BY <1>8, <3>1, <3>2, <3>3, Zenon
  <2> QED
    BY <2>1, <2>2
<1>17. /\ \A j \in Live(copy) : Points(copy.alias, j)' <=> Points(copy.alias, j)
       /\ \A j \in Live(restore) : Points(restore.alias, j)' <=> Points(restore.alias, j)
  <2>1. UNCHANGED <<copy, restore>>
    BY Zenon DEF Drew
  <2> QED
    BY <1>1, <1>5, <2>1, Zenon DEF Points
<1>11. Named(copy, copy.alias)' /\ Named(restore, restore.alias)'
  <2>1. Named(copy, copy.alias) /\ Named(restore, restore.alias)
    BY Zenon DEF OInv, TreesInv
  <2> QED
    BY <1>4, <1>5, <1>6, <1>17, <2>1, Zenon DEF Named
<1>12. Agree(copy, restore)'
  <2>1. Agree(copy, restore)
    BY Zenon DEF OInv, TreesInv
  <2> QED
    BY <1>4, <1>17, <2>1, Zenon DEF Agree
<1>13. \A j \in Live(asp)' \cap (Live(copy) \cup Live(restore)) :
          j \in Live(asp) /\ (Points(asp.alias, j)' <=> Points(asp.alias, j))
  <2> SUFFICES ASSUME NEW j \in Live(asp)' \cap (Live(copy) \cup Live(restore))
               PROVE  j \in Live(asp) /\ (Points(asp.alias, j)' <=> Points(asp.alias, j))
    BY Zenon
  <2>1. j \in Live(asp)
    BY <1>1, <1>4, <1>5
  <2>2. CASE drawn[j] = r
    <3>1. ~Points(asp.alias, j)
      BY <2>1, <2>2, DrawFacts, Zenon
    <3> QED
      BY <1>9, <2>1, <2>2, <3>1, Zenon
  <2>3. CASE drawn[j] # r
    <3>1. Points(daemon.alias, j) <=> Points(asp.alias, j)
      BY <1>2, <2>1, Zenon DEF OInv, MemoryInv, Points
    <3> QED
      BY <1>8, <2>1, <2>3, <3>1
  <2> QED
    BY <2>1, <2>2, <2>3
<1>14. Agree(asp, copy)' /\ Agree(asp, restore)'
  <2>1. Agree(asp, copy) /\ Agree(asp, restore)
    BY Zenon DEF OInv, TreesInv
  <2> QED
    BY <1>4, <1>13, <1>17, <2>1, Zenon DEF Agree
<1>15. Drawn(asp)' /\ Drawn(copy)' /\ Drawn(restore)'
  <2>1. Drawn(asp)'
    BY <1>1, <1>4, <1>5, <1>7, Zenon DEF Drawn
  <2>2. UNCHANGED <<copy, restore>>
    BY Zenon DEF Drew
  <2>3. Drawn(copy) /\ Drawn(restore)
    BY Zenon DEF OInv, TreesInv
  <2>4. Drawn(copy)'
    BY <1>1, <1>4, <2>2, <2>3, Zenon DEF Drawn
  <2>5. Drawn(restore)'
    BY <1>1, <1>4, <2>2, <2>3, Zenon DEF Drawn
  <2> QED
    BY <2>1, <2>4, <2>5
<1>16. OwnersInv'
  <2>1. Owned(asp) => Owned(asp)'
    <3> SUFFICES ASSUME Owned(asp), NEW j \in Live(asp)', j \in answers'[drawn'[j]],
                        Asker[drawn'[j]] # "legacy"
                 PROVE  asp'.owner[j] = Asker[drawn'[j]]
      BY DEF Owned
    <3>1. CASE j = i
      BY <1>1, <3>1, Zenon DEF Drew
    <3>2. CASE j # i
      <4>1. j \in Live(asp) /\ drawn'[j] = drawn[j] /\ drawn[j] \in Opens
        BY <1>1, <1>4, <1>5, <3>2, Zenon DEF OInv, IdsInv
      <4>2. j \in answers[drawn[j]]
        BY <3>2, <4>1 DEF Drew
      <4> QED
        BY <3>2, <4>1, <4>2, Zenon DEF Owned, Drew, Live
    <3> QED
      BY <3>1, <3>2, Zenon
  <2> QED
    BY <2>1, Zenon DEF OInv, OwnersInv, Drew
<1> QED
  BY <1>3, <1>10, <1>11, <1>12, <1>14, <1>15, <1>16, Zenon DEF TreesInv

LEMMA MadeTree ==
    ASSUME NEW r, NEW i, NEW k \in 0 .. 3
    PROVE  LET made == Made(asp, r, i, k)
           IN  /\ made.alias = IF k = 0 THEN asp.alias ELSE Assign(daemon.alias, r, i)
               /\ DOMAIN made.owner \subseteq DOMAIN asp.owner \cup {i}
               /\ \A j \in DOMAIN asp.owner : j # i => made.owner[j] = asp.owner[j]
               /\ k = 0 => made.owner = asp.owner
               /\ k = 3 => made.owner[i] = Asker[r]
  BY DEF Made, Assign

LEMMA NewOpens ==
    ASSUME RInv, OInv, RInv', NEW r \in Opens, NEW i \in Ids, OpenNew(r, i)
    PROVE  OInv'
<1>1. /\ Draw(r, i) /\ asp' = Made(asp, r, i, 3)
      /\ UNCHANGED <<copy, restore, errored, removed, reverted>>
  BY Zenon DEF OpenNew
<1>2. daemon.up /\ daemon'.up /\ asp # NoTree /\ asp' # NoTree
  <2>1. daemon.up /\ daemon'.up
    BY <1>1, Zenon DEF Draw, OpenNew, RInv, DaemonInv
  <2> QED
    BY <2>1 DEF RInv, DaemonInv
<1>3. /\ asp'.alias = Assign(daemon.alias, r, i)
      /\ DOMAIN asp'.owner \subseteq DOMAIN asp.owner \cup {i}
      /\ \A j \in DOMAIN asp.owner : j # i => asp'.owner[j] = asp.owner[j]
      /\ asp'.owner[i] = Asker[r]
  <2>1. 3 \in 0 .. 3
    OBVIOUS
  <2> QED
    BY <1>1, <2>1, MadeTree
<1>4. /\ DOMAIN answers' = Opens
      /\ \A q \in Opens : answers'[q] = IF q = r THEN answers[r] \cup {i} ELSE answers[q]
  BY Zenon DEF OpenNew, OInv, IdsInv
<1>5. Drew(r, i)
  <2>1. i \notin DOMAIN drawn
    BY <1>1, DrawFacts, Zenon
  <2>2. \A q \in Opens : i \notin answers[q]
    BY <2>1, Zenon DEF OInv, IdsInv
  <2> QED
    BY <1>1, <1>2, <1>3, <1>4, <2>2, Zenon DEF Drew
<1>6. IdsInv' /\ TreesInv' /\ OwnersInv'
  BY <1>1, <1>5, DrewFacts
<1>7. /\ daemon'.alias = asp'.alias /\ daemon'.sessions = daemon.sessions \cup {i}
  BY <1>3, Zenon DEF OpenNew, RInv, DaemonInv
<1>8. \A j \in Live(asp)' : Points(daemon.alias, j)' => j \in daemon'.sessions
  <2> SUFFICES ASSUME NEW j \in Live(asp)', Points(daemon.alias, j)', j # i
               PROVE  j \in daemon.sessions
    BY <1>7, Zenon
  <2>1. j \in Live(asp) /\ j \in DOMAIN drawn /\ drawn'[j] = drawn[j]
    BY <1>1, <1>3, DrawFacts, Zenon DEF Live, OInv, TreesInv, Drawn
  <2>2. drawn[j] \in DOMAIN asp'.alias /\ asp'.alias[drawn[j]] = j
    BY <1>7, <2>1, Zenon DEF Points
  <2>3. /\ DOMAIN asp'.alias = DOMAIN daemon.alias \cup {r}
        /\ \A q \in DOMAIN asp'.alias : asp'.alias[q] = IF q = r THEN i ELSE daemon.alias[q]
    BY <1>3, Zenon DEF Assign
  <2>4. drawn[j] # r
    BY <2>2, <2>3, Zenon
  <2>5. Points(daemon.alias, j)
    BY <2>2, <2>3, <2>4, Zenon DEF Points
  <2> QED
    BY <1>2, <2>1, <2>5, Zenon DEF OInv, MemoryInv
<1>9. MemoryInv'
  BY <1>6, <1>7, <1>8, Zenon DEF MemoryInv, TreesInv, Named, Points
<1> QED
  BY <1>6, <1>9 DEF OInv

LEMMA CutOpens ==
    ASSUME RInv, DirectoriesInv, OInv, RInv', NEW r \in Opens, NEW i \in Ids, NEW k \in 0 .. 3, OpenCut(r, i, k)
    PROVE  OInv'
<1>1. /\ Draw(r, i) /\ asp' = Made(asp, r, i, k) /\ ~daemon'.up
      /\ UNCHANGED <<copy, restore, answers, errored, removed, reverted>>
  BY Zenon DEF OpenCut, Down
<1>2. asp # NoTree /\ TreeOK(asp)
  BY <1>1, Zenon DEF Draw, RInv, DaemonInv
<1>3. asp' # NoTree
  BY <1>1, <1>2, MadeFacts, Zenon
<1>4. i \notin DOMAIN drawn /\ i # 0
  BY <1>1, DrawFacts, Zenon
<1>5. i \notin DOMAIN asp.owner
  BY <1>4 DEF DirectoriesInv
<1>6. answers' = answers /\ \A q \in Opens : i \notin answers[q]
  BY <1>1, <1>4, Zenon DEF OInv, IdsInv
<1>7. Drew(r, i)
  <2>1. /\ asp'.alias = IF k = 0 THEN asp.alias ELSE Assign(daemon.alias, r, i)
        /\ DOMAIN asp'.owner \subseteq DOMAIN asp.owner \cup {i}
        /\ \A j \in DOMAIN asp.owner : j # i => asp'.owner[j] = asp.owner[j]
        /\ k = 0 => asp'.owner = asp.owner
    BY <1>1, MadeTree
  <2>2. i \in DOMAIN asp'.owner => asp'.alias = Assign(daemon.alias, r, i)
    BY <1>5, <2>1, Zenon
  <2>3. asp'.alias = asp.alias \/ asp'.alias = Assign(daemon.alias, r, i)
    BY <2>1, Zenon
  <2>4. DOMAIN answers' = Opens /\ errored' = errored /\ \A q \in Opens : i \notin answers'[q]
    BY <1>1, <1>6, Zenon DEF OInv, IdsInv
  <2> QED
    BY <1>1, <1>2, <1>3, <1>6, <2>1, <2>2, <2>3, <2>4, Zenon DEF Drew
<1>8. IdsInv' /\ TreesInv' /\ OwnersInv'
  BY <1>1, <1>7, DrewFacts, Zenon
<1> QED
  BY <1>1, <1>8 DEF OInv, MemoryInv

LEMMA FailOpens ==
    ASSUME RInv, DirectoriesInv, OInv, RInv',
           NEW r \in Opens, NEW i \in Ids, NEW k \in 0 .. 3, OpenSessionFails(r, i, k)
    PROVE  OInv'
<1>1. /\ Draw(r, i) /\ errored' = errored \cup {r}
      /\ UNCHANGED <<copy, restore, answers, removed, reverted>>
  BY DEF OpenSessionFails
<1>2. /\ asp'.owner = Made(asp, r, i, k).owner
      /\ \/ asp'.alias = asp.alias
         \/ asp'.alias = Without(daemon.alias, {r})
         \/ asp'.alias = Assign(daemon.alias, r, i)
  <2>1. PICK file : /\ \/ file = asp.alias
                       \/ file = Without(daemon.alias, {r})
                       \/ file = Made(asp, r, i, 1).alias
                    /\ asp' = [Made(asp, r, i, k) EXCEPT !.alias = file]
    BY Zenon DEF OpenSessionFails
  <2>2. asp'.owner = Made(asp, r, i, k).owner /\ asp'.alias = file
    BY <2>1 DEF Made
  <2>3. Made(asp, r, i, 1).alias = Assign(daemon.alias, r, i)
    BY DEF Made
  <2> QED
    BY <2>1, <2>2, <2>3
<1>3. /\ daemon.up /\ daemon'.up /\ daemon'.sessions = daemon.sessions
      /\ daemon'.alias = Without(daemon.alias, {r})
  BY <1>1, Zenon DEF Draw, OpenSessionFails, RInv, DaemonInv
<1>4. asp # NoTree /\ asp' # NoTree
  BY <1>3, Zenon DEF RInv, DaemonInv
<1>5. /\ i \notin DOMAIN drawn /\ i # 0 /\ DOMAIN drawn' = DOMAIN drawn \cup {i}
      /\ drawn'[i] = r /\ \A j \in DOMAIN drawn : drawn'[j] = drawn[j]
  BY <1>1, DrawFacts, Zenon
<1>6. DOMAIN answers' = Opens /\ \A q \in Opens : answers'[q] = answers[q] /\ i \notin answers[q]
  BY <1>1, <1>5, Zenon DEF OInv, IdsInv
<1>7. /\ DOMAIN asp'.owner \subseteq DOMAIN asp.owner \cup {i}
      /\ \A j \in DOMAIN asp.owner : j # i => asp'.owner[j] = asp.owner[j]
  BY <1>2, MadeTree
<1>8. Drew(r, i)
  BY <1>1, <1>2, <1>4, <1>6, <1>7, Zenon DEF Drew
<1>9. IdsInv' /\ TreesInv' /\ OwnersInv'
  BY <1>1, <1>8, DrewFacts, Zenon
<1>10. \A j \in Live(asp)' : j # i => j \in Live(asp) /\ j \in DOMAIN drawn
  BY <1>1, <1>7, Zenon DEF Live, OInv, TreesInv, Drawn
<1>11. \A j \in DOMAIN drawn : drawn[j] # r => (Points(daemon.alias, j)' <=> Points(daemon.alias, j))
  BY <1>3, <1>5 DEF Points, Without
<1>12. \A j : drawn'[j] = r => ~Points(daemon.alias, j)'
  BY <1>3, Zenon DEF Points, Without
<1>13. \A q \in DOMAIN daemon'.alias : q \in DOMAIN asp'.alias /\ asp'.alias[q] = daemon'.alias[q]
  <2>1. /\ DOMAIN daemon'.alias = DOMAIN daemon.alias \ {r}
        /\ \A q \in DOMAIN daemon'.alias : daemon'.alias[q] = daemon.alias[q]
    BY <1>3, Zenon DEF Without
  <2>2. \A q \in DOMAIN daemon.alias : q \in DOMAIN asp.alias /\ asp.alias[q] = daemon.alias[q]
    BY <1>3, Zenon DEF OInv, MemoryInv
  <2> QED
    BY <1>2, <2>1, <2>2, Zenon DEF Without, Assign
<1>14. Named(asp, daemon.alias)'
  <2> SUFFICES ASSUME NEW j \in Live(asp)', Counts(j)' PROVE Points(daemon.alias, j)'
    BY Zenon DEF Named
  <2>1. j # i
    BY <1>1, <1>5, <1>6, Zenon DEF Counts
  <2>2. j \in Live(asp) /\ j \in DOMAIN drawn /\ Counts(j)
    BY <1>1, <1>5, <1>10, <2>1, Zenon DEF Counts
  <2>3. drawn[j] # r
    BY <1>1, <2>2, DrawFacts, Zenon
  <2> QED
    BY <1>3, <1>11, <2>2, <2>3 DEF OInv, MemoryInv, Named
<1>15. \A j \in Live(asp)' : Points(daemon.alias, j)' => j \in daemon'.sessions
  <2> SUFFICES ASSUME NEW j \in Live(asp)', Points(daemon.alias, j)' PROVE j \in daemon.sessions
    BY <1>3
  <2>1. drawn'[j] # r
    BY <1>12, Zenon
  <2>2. j \in Live(asp) /\ j \in DOMAIN drawn /\ drawn[j] # r
    BY <1>5, <1>10, <2>1, Zenon
  <2> QED
    BY <1>3, <1>11, <2>2 DEF OInv, MemoryInv
<1>16. \A j \in Live(asp)' \cap (Live(copy)' \cup Live(restore)') :
          Points(asp.alias, j)' => Points(daemon.alias, j)'
  <2> SUFFICES ASSUME NEW j \in Live(asp)' \cap (Live(copy)' \cup Live(restore)'),
                      Points(asp.alias, j)'
               PROVE  Points(daemon.alias, j)'
    BY Zenon
  <2>1. Live(copy)' = Live(copy) /\ Live(restore)' = Live(restore)
    BY <1>1, Zenon DEF Live
  <2>5. Live(copy) \subseteq DOMAIN drawn /\ Live(restore) \subseteq DOMAIN drawn
    BY Zenon DEF OInv, TreesInv, Drawn
  <2>2. j \in Live(asp) /\ j \in DOMAIN drawn /\ j # i
    BY <1>5, <1>10, <2>1, <2>5, Zenon
  <2>3. CASE asp'.alias = asp.alias
    <3>1. Points(asp.alias, j)
      BY <1>5, <2>2, <2>3, Zenon DEF Points
    <3>2. drawn[j] # r /\ Points(daemon.alias, j)
      BY <1>1, <1>3, <2>1, <2>2, <3>1, DrawFacts, Zenon DEF OInv, MemoryInv
    <3> QED
      BY <1>11, <2>2, <3>2
  <2>4. CASE asp'.alias # asp.alias
    BY <1>2, <1>3, <1>5, <2>2, <2>4 DEF Points, Without, Assign
  <2> QED
    BY <2>3, <2>4, Zenon
<1> QED
  BY <1>9, <1>13, <1>14, <1>15, <1>16, Zenon DEF OInv, MemoryInv

LEMMA OInvExact == RInv /\ OInv => OpenExact
<1> SUFFICES ASSUME RInv, OInv, asp # NoTree, NEW r \in Opens
             PROVE  /\ r \notin errored => Cardinality(Here(r)) <= 1
                    /\ Cardinality(Here(r) \cap answers[r]) <= 1
                    /\ \A i \in Here(r) \cap answers[r] :
                          Asker[r] # "legacy" /\ ~reverted => asp.owner[i] = Asker[r]
  BY Zenon DEF OpenExact
<1>1. \A i \in Here(r) : i \in Live(asp) /\ drawn[i] = r
  BY Zenon DEF Here, Live, RInv, TreeOK
<1>2. \A i, j \in Here(r) : Counts(i) /\ Counts(j) => i = j
  BY <1>1 DEF OInv, TreesInv, Named, Points
<1>3. ASSUME NEW S, \A i, j \in S : i = j PROVE Cardinality(S) <= 1
  <2>1. CASE S = {}
    BY <2>1, FS_EmptySet
  <2>2. CASE S # {}
    <3>1. PICK i \in S : S = {i}
      BY <1>3, <2>2
    <3> QED
      BY <3>1, FS_Singleton
  <2> QED
    BY <2>1, <2>2, Zenon
<1>4. r \notin errored => Cardinality(Here(r)) <= 1
  <2> SUFFICES ASSUME r \notin errored PROVE \A i, j \in Here(r) : i = j
    BY <1>3, Zenon
  <2> QED
    BY <1>1, <1>2, Zenon DEF Counts
<1>5. Cardinality(Here(r) \cap answers[r]) <= 1
  <2>1. \A i, j \in Here(r) \cap answers[r] : i = j
    BY <1>1, <1>2, Zenon DEF Counts
  <2> QED
    BY <1>3, <2>1, Zenon
<1>6. \A i \in Here(r) \cap answers[r] : Asker[r] # "legacy" /\ ~reverted => asp.owner[i] = Asker[r]
  BY <1>1 DEF OInv, OwnersInv, Owned
<1> QED
  BY <1>4, <1>5, <1>6, Zenon

(* open_session, SessionManager::open_with_budgets and the offline commands: whatever
   fails or is cut short, and whichever tree comes back, a request whose opens had no error
   has at most one session, those answered are one, and it is the asker's. *)
THEOREM OpenAlwaysExact == StoreSpec => []OpenExact
<1> DEFINE Inv == RInv /\ DirectoriesInv /\ OInv
<1>1. StoreInit => Inv
  <2> SUFFICES ASSUME StoreInit PROVE DirectoriesInv /\ OInv
    BY RInvInit, Zenon
  <2>1. /\ asp = EmptyTree /\ copy = NoTree /\ restore = NoTree /\ ~daemon.up
        /\ DOMAIN drawn = {} /\ DOMAIN answers = Opens /\ \A r \in Opens : answers[r] = {}
        /\ reverted = FALSE
    BY Zenon DEF StoreInit, Down
  <2>2. DirectoriesInv
    BY <2>1, Trees, Zenon DEF DirectoriesInv
  <2>3. Live(asp) = {} /\ Live(copy) = {} /\ Live(restore) = {}
        /\ DOMAIN asp.alias = {} /\ DOMAIN copy.alias = {} /\ DOMAIN restore.alias = {}
    BY <2>1, EmptyFacts, Zenon
  <2>4. TreesInv
    BY <2>3, Zenon DEF TreesInv, Drawn, Named, Agree
  <2>5. IdsInv /\ MemoryInv /\ OwnersInv
    BY <2>1, <2>3, Zenon DEF IdsInv, MemoryInv, OwnersInv, Owned
  <2> QED
    BY <2>2, <2>4, <2>5 DEF OInv
<1>2. Inv /\ [StoreNext]_storeVars => Inv'
  <2> SUFFICES ASSUME RInv, DirectoriesInv, OInv, [StoreNext]_storeVars PROVE OInv'
    BY RInvNext, DirectoriesNext
  <2>1. RInv'
    BY RInvNext
  <2>2. CASE UNCHANGED storeVars
    <3>1. UNCHANGED <<asp, copy, restore, daemon, drawn, answers, errored, removed, reverted>>
      BY <2>2, Zenon DEF storeVars
    <3>2. TreesInv'
      BY <3>1, Zenon DEF OInv, TreesInv, Drawn, Named, Agree, Points, Counts, Live
    <3>3. MemoryInv'
      BY <3>1, Zenon DEF OInv, MemoryInv, Named, Points, Counts, Live
    <3>4. IdsInv' /\ OwnersInv'
      BY <3>1, Zenon DEF OInv, IdsInv, OwnersInv, Owned, Live
    <3> QED
      BY <3>2, <3>3, <3>4, Zenon DEF OInv
  <2> QED
    BY <2>1, <2>2, KnownOpens, NewOpens, CutOpens, FailOpens, DaemonOpens, CommandOpens,
       RestoringOpens DEF StoreNext
<1>3. Inv => OpenExact
  BY OInvExact
<1> QED
  BY <1>1, <1>2, <1>3, PTL DEF StoreSpec
===============================================================================
