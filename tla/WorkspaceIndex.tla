---------------------------- MODULE WorkspaceIndex ----------------------------
(***************************************************************************)
(* The caches behind WORKSPACE_STATE.  A query may be answered from a tree *)
(* snapshot, from cached search hits, from cached Git output or, without   *)
(* any work, from the digest of the answer the client already has.  All of *)
(* them are guarded by one counter, invalidation_generation, which the     *)
(* file watcher and the daemon's own writes advance, and by one flag,      *)
(* watcher_healthy, which is cleared for good when a notification is lost. *)
(*                                                                         *)
(* The workspace is the number of changes made to it so far; reading it    *)
(* yields that number, and a value v reflects the changes 1 .. v.  A       *)
(* search has two parts: the file list it went through and the contents it *)
(* found.                                                                  *)
(***************************************************************************)
EXTENDS Naturals, FiniteSets

CONSTANTS Clients,      \* requests under way, one per client
          KindsOf,      \* client -> the kinds of query it makes
          MaxChanges,   \* bound: changes of the workspace
          MaxQueries    \* bound: queries in all

ASSUME IndexAssumption ==
    /\ KindsOf \in [Clients -> (SUBSET {"scan", "git"}) \ {{}}]
    /\ MaxChanges \in Nat /\ MaxQueries \in Nat

VARIABLES
    disk,        \* changes made
    queue,       \* notifications waiting for the watcher thread
    puts,        \* own writes installed and not answered yet
    healthy,     \* watcher_healthy
    owed,        \* invalidate() calls that follow a cleared watcher_healthy
    gen,         \* invalidation_generation
    snapshot,    \* WorkspaceTreeCache.snapshot
    generation,  \* next_generation
    search,      \* WorkspaceTreeCache.search, for one list of queries
    git,         \* WorkspaceTreeCache.git, for one argument vector
    digest,      \* WorkspaceTreeCache.digest: kind of query -> entry
    locks,       \* holders of rebuild_lock and search_rebuild_lock
    query,       \* client -> its query
    mem,         \* client -> the last answer it got
    queries,     \* queries so far
    known        \* ghost: the last change the daemon knew of while healthy

cacheVars == <<snapshot, generation, search, git, digest>>
changeVars == <<disk, queue, puts, healthy, owed, gen, known>>
vars == <<changeVars, cacheVars, locks, query, mem, queries>>

Kinds == {"scan", "git"}
Nobody == "nobody"
NoVersion == 0

\* What a query found: the tree, the list and contents a search went through, and
\* Git's output.  Unused parts equal the others.
Values == [tree : 0 .. MaxChanges, list : 0 .. MaxChanges, content : 0 .. MaxChanges]
All(v) == [tree |-> v, list |-> v, content |-> v]

NoEntry == [valid |-> FALSE, value |-> All(0), version |-> NoVersion, observed |-> 0]
Entry(v, n, g) == [valid |-> TRUE, value |-> v, version |-> n, observed |-> g]
Idle == [pc |-> "idle", kind |-> "scan", validate |-> FALSE, observed |-> 0, start |-> 0,
         try |-> 0, value |-> All(0), version |-> NoVersion, seen |-> 0]

At(c, pc) == query[c].pc = pc
Go(c, pc) == query' = [query EXCEPT ![c].pc = pc]

Init ==
    /\ disk = 0 /\ queue = 0 /\ puts = {}
    /\ healthy = TRUE /\ owed = 0 /\ gen = 0 /\ known = 0
    /\ snapshot = NoEntry /\ generation = 0 /\ search = NoEntry /\ git = NoEntry
    /\ digest = [k \in Kinds |-> NoEntry]
    /\ locks = [tree |-> Nobody, search |-> Nobody]
    /\ query = [c \in Clients |-> Idle] /\ queries = 0
    \* a client may hold an answer of an earlier daemon, whose tokens are void
    /\ mem \in [Clients -> {[kind |-> k, value |-> All(0), version |-> NoVersion] : k \in Kinds}]
    /\ \A c \in Clients : mem[c].kind \in KindsOf[c]

-------------------------------------------------------------------------------
(* Changes and what the daemon learns of them.                             *)

Greater(a, b) == IF a < b THEN b ELSE a
\* While the watcher is healthy the daemon has to account for change c from now on.
Learn(c) == known' = IF healthy THEN Greater(known, c) ELSE known

\* The workspace changes and the native watcher calls back.  The queue may be full,
\* of these notifications or of others: that clears watcher_healthy, and then
\* invalidates.
Change ==
    /\ disk < MaxChanges
    /\ disk' = disk + 1
    /\ \/ queue' = queue + 1 /\ UNCHANGED <<healthy, owed>>
       \/ healthy' = FALSE /\ owed' = owed + (IF healthy THEN 1 ELSE 0) /\ UNCHANGED queue

ExternalChange ==
    /\ Change
    /\ UNCHANGED <<puts, gen, known, cacheVars, locks, query, mem, queries>>

PutInstall ==
    /\ Change
    /\ puts' = puts \cup {disk + 1}
    /\ UNCHANGED <<gen, known, cacheVars, locks, query, mem, queries>>

\* invalidate(), then the response
PutAnswer(p) ==
    /\ p \in puts
    /\ puts' = puts \ {p}
    /\ gen' = gen + 1
    /\ Learn(p)
    /\ UNCHANGED <<disk, queue, healthy, owed, cacheVars, locks, query, mem, queries>>

\* The watcher thread invalidates.
WatcherHandle ==
    /\ queue > 0
    /\ queue' = queue - 1
    /\ gen' = gen + 1
    /\ Learn(disk - queue + 1)
    /\ UNCHANGED <<disk, puts, healthy, owed, cacheVars, locks, query, mem, queries>>

\* The backend reports an error, or the watcher thread finds the queue of the
\* file-event worker full.
WatcherError ==
    /\ healthy
    /\ healthy' = FALSE
    /\ owed' = owed + 1
    /\ UNCHANGED <<disk, queue, puts, gen, known, cacheVars, locks, query, mem, queries>>

InvalidateOwed ==
    /\ owed > 0
    /\ owed' = owed - 1
    /\ gen' = gen + 1
    /\ UNCHANGED <<disk, queue, puts, healthy, known, cacheVars, locks, query, mem, queries>>

-------------------------------------------------------------------------------
(* A query.  Every cache is consulted in two steps, watcher_healthy first (in  *)
(* the step that arrives there) and then the generation; an entry may always   *)
(* be too old.                                                                 *)

q(c) == query[c]
Set(c, rec) == query' = [query EXCEPT ![c] = rec]
Current(entry) == entry.valid /\ entry.observed = gen
Quiet == UNCHANGED <<changeVars, mem, queries>>

\* What a query that begins now must reflect: without a healthy watcher, everything.
MustSee == IF healthy THEN known ELSE disk

\* The query r is at entries() or at git(): the caches are skipped if the watcher
\* is not healthy.
Gated(r) ==
    CASE r.kind = "scan" /\ healthy  -> [r EXCEPT !.pc = "tree"]
      [] r.kind = "git" /\ healthy   -> [r EXCEPT !.pc = "git"]
      [] ~healthy                    -> [r EXCEPT !.pc = "finish", !.value = All(disk)]

\* search_workspace goes through the files of the tree the query has.
Searched(r, pc) == [r EXCEPT !.pc = pc, !.value = [All(r.value.tree) EXCEPT !.content = disk]]
\* The query r has its tree and is at search().
SearchGated(r) ==
    IF r.version # NoVersion /\ healthy THEN [r EXCEPT !.pc = "search"] ELSE Searched(r, "finish")

Begin(c, kind, validate) ==
    LET r == [pc |-> "idle", kind |-> kind, validate |-> validate, observed |-> gen, start |-> 0,
              try |-> 0, value |-> All(0), version |-> NoVersion, seen |-> MustSee]
    IN
    /\ At(c, "idle") /\ queries < MaxQueries
    /\ validate => mem[c].kind = kind
    /\ queries' = queries + 1
    /\ Set(c, IF validate /\ healthy THEN [r EXCEPT !.pc = "digest"] ELSE Gated(r))
    /\ UNCHANGED <<changeVars, cacheVars, locks, mem>>

\* lookup_digest: the client keeps the answer it has.
DigestHit(c) ==
    LET entry == digest[q(c).kind] IN
    /\ At(c, "digest") /\ Current(entry) /\ entry.value = mem[c].value
    /\ mem' = [mem EXCEPT ![c].version = entry.version]
    /\ Set(c, Idle)
    /\ UNCHANGED <<changeVars, cacheVars, locks, queries>>

DigestMiss(c) ==
    /\ At(c, "digest")
    /\ Set(c, Gated(q(c)))
    /\ Quiet /\ UNCHANGED <<cacheVars, locks>>

\* entries()
\* Looked up without the lock, and again once the lock is there.
TreeHit(c) ==
    /\ At(c, "tree") /\ Current(snapshot)
    /\ Set(c, SearchGated([q(c) EXCEPT !.value = snapshot.value, !.version = snapshot.version]))
    /\ Quiet /\ UNCHANGED <<cacheVars, locks>>

TreeRebuild(c) ==
    /\ At(c, "tree") /\ locks.tree = Nobody
    /\ locks' = [locks EXCEPT !.tree = c]
    /\ Set(c, [q(c) EXCEPT !.pc = "scan", !.start = gen, !.try = 1])
    /\ Quiet /\ UNCHANGED cacheVars

ScanRead(c) ==
    /\ At(c, "scan")
    /\ Set(c, [q(c) EXCEPT !.pc = "scan_end", !.value = All(disk)])
    /\ Quiet /\ UNCHANGED <<cacheVars, locks>>

\* The scan is kept if no invalidation raced it, up to the last look before it is
\* published.  One that raced it is retried once; otherwise it is unversioned.
ScanEnd(c) ==
    /\ At(c, "scan_end")
    /\ \/ /\ q(c).start = gen /\ healthy
          /\ Go(c, "publish") /\ UNCHANGED locks
       \/ /\ q(c).start # gen /\ q(c).try = 1
          /\ Set(c, [q(c) EXCEPT !.pc = "scan", !.start = gen, !.try = 2]) /\ UNCHANGED locks
       \/ /\ q(c).start # gen \/ ~healthy
          /\ Set(c, SearchGated([q(c) EXCEPT !.start = 0, !.try = 0, !.version = NoVersion]))
          /\ locks' = [locks EXCEPT !.tree = Nobody]
    /\ Quiet /\ UNCHANGED cacheVars

\* Mutant: the snapshot is replaced under the token of the one before.
PublishSameToken(c) ==
    /\ At(c, "publish")
    /\ generation' = 1
    /\ snapshot' = Entry(q(c).value, 1, q(c).start)
    /\ Set(c, SearchGated([q(c) EXCEPT !.start = 0, !.try = 0, !.version = 1]))
    /\ locks' = [locks EXCEPT !.tree = Nobody]
    /\ Quiet /\ UNCHANGED <<search, git, digest>>

Publish(c) ==
    /\ At(c, "publish")
    /\ generation' = generation + 1
    /\ snapshot' = Entry(q(c).value, generation + 1, q(c).start)
    /\ Set(c, SearchGated([q(c) EXCEPT !.start = 0, !.try = 0, !.version = generation + 1]))
    /\ locks' = [locks EXCEPT !.tree = Nobody]
    /\ Quiet /\ UNCHANGED <<search, git, digest>>

\* search()
\* Mutant: the tree the hits were found in is not compared.
SearchMatchesAny(c) == Current(search)
SearchMatches(c) == Current(search) /\ search.version = q(c).version

SearchHit(c) ==
    /\ At(c, "search") /\ SearchMatches(c)
    /\ Set(c, [q(c) EXCEPT !.pc = "finish",
                           !.value = [search.value EXCEPT !.tree = q(c).value.tree]])
    /\ Quiet /\ UNCHANGED <<cacheVars, locks>>

SearchRebuild(c) ==
    /\ At(c, "search") /\ locks.search = Nobody
    /\ locks' = [locks EXCEPT !.search = c]
    /\ Set(c, [q(c) EXCEPT !.pc = "search_read", !.start = gen])
    /\ Quiet /\ UNCHANGED cacheVars

SearchRead(c) ==
    /\ At(c, "search_read")
    /\ Set(c, Searched(q(c), "search_end"))
    /\ Quiet /\ UNCHANGED <<cacheVars, locks>>

\* Hits that are too large are not kept; if they find no room, the old ones are gone.
SearchEnd(c) ==
    /\ At(c, "search_end")
    /\ \/ UNCHANGED search
       \/ q(c).start = gen /\ healthy /\ search' \in {NoEntry, Entry(q(c).value, q(c).version, gen)}
    /\ locks' = [locks EXCEPT !.search = Nobody]
    /\ Set(c, [q(c) EXCEPT !.pc = "finish", !.start = 0])
    /\ Quiet /\ UNCHANGED <<snapshot, generation, git, digest>>

\* git()
GitHit(c) ==
    /\ At(c, "git") /\ Current(git)
    /\ Set(c, [q(c) EXCEPT !.pc = "finish", !.value = git.value])
    /\ Quiet /\ UNCHANGED <<cacheVars, locks>>

GitMiss(c) ==
    /\ At(c, "git")
    /\ Set(c, [q(c) EXCEPT !.pc = "git_read", !.start = gen])
    /\ Quiet /\ UNCHANGED <<cacheVars, locks>>

GitRead(c) ==
    /\ At(c, "git_read")
    /\ Set(c, [q(c) EXCEPT !.pc = "git_end", !.value = All(disk)])
    /\ Quiet /\ UNCHANGED <<cacheVars, locks>>

GitEnd(c) ==
    /\ At(c, "git_end")
    /\ \/ UNCHANGED git
       \/ q(c).start = gen /\ healthy /\ git' \in {NoEntry, Entry(q(c).value, NoVersion, gen)}
    /\ Set(c, [q(c) EXCEPT !.pc = "finish", !.start = 0])
    /\ Quiet /\ UNCHANGED <<snapshot, generation, search, digest, locks>>

\* insert_digest and the response: a client that presented its validators keeps the
\* whole answer when the digest is the same, and its tree when the token is.
Finish(c) ==
    LET same == q(c).validate /\ mem[c].value = q(c).value
        sameTree == q(c).validate /\ mem[c].version # NoVersion /\ mem[c].version = q(c).version
    IN
    /\ At(c, "finish")
    /\ digest' = IF healthy /\ q(c).observed = gen
                 THEN [digest EXCEPT ![q(c).kind] = Entry(q(c).value, q(c).version, q(c).observed)]
                 ELSE digest
    /\ mem' = [mem EXCEPT ![c] =
                  [kind |-> q(c).kind, version |-> q(c).version,
                   value |-> IF same THEN @.value
                             ELSE [q(c).value EXCEPT !.tree = IF sameTree THEN mem[c].value.tree ELSE @]]]
    /\ Set(c, Idle)
    /\ UNCHANGED <<changeVars, snapshot, generation, search, git, locks, queries>>

\* Reading the workspace fails, and so does the query; its guard releases the lock.
QueryFails(c) ==
    /\ q(c).pc \in {"scan", "search_read", "git_read"}
    /\ locks' = [l \in {"tree", "search"} |-> IF locks[l] = c THEN Nobody ELSE locks[l]]
    /\ Set(c, Idle)
    /\ Quiet /\ UNCHANGED cacheVars

Step(c) ==
    \/ DigestHit(c) \/ DigestMiss(c)
    \/ TreeHit(c) \/ TreeRebuild(c)
    \/ ScanRead(c) \/ ScanEnd(c) \/ Publish(c)
    \/ SearchHit(c) \/ SearchRebuild(c) \/ SearchRead(c) \/ SearchEnd(c)
    \/ GitHit(c) \/ GitMiss(c) \/ GitRead(c) \/ GitEnd(c)
    \/ Finish(c) \/ QueryFails(c)

Next ==
    \/ ExternalChange \/ PutInstall \/ (\E p \in puts : PutAnswer(p))
    \/ WatcherHandle \/ WatcherError \/ InvalidateOwed
    \/ \E c \in Clients : \/ \E kind \in KindsOf[c], validate \in BOOLEAN : Begin(c, kind, validate)
                          \/ Step(c)

Spec == Init /\ [][Next]_vars

-------------------------------------------------------------------------------
(* Properties.                                                             *)

EntryType == [valid : BOOLEAN, value : Values, version : Nat, observed : Nat]
PCs == {"idle", "digest", "tree", "scan", "scan_end", "publish", "search", "search_read", "search_end",
        "git", "git_read", "git_end", "finish"}

Since(n) == n .. MaxChanges

\* No stale answer: what a client holds after a query reflects every change the
\* daemon had been notified of, and every write it had answered, when the query
\* began; once the watcher is unreliable, every change made before the query
\* (invalidation_generation and watcher_healthy).
Fresh == [][\A c \in Clients : query[c].pc \in {"digest", "finish"} /\ query'[c].pc = "idle" =>
                mem'[c].value \in [tree : Since(query[c].seen), list : Since(query[c].seen),
                                  content : Since(query[c].seen)]]_vars

\* A tree token names one tree: a client that holds the token of the published
\* snapshot has exactly that tree, so leaving the tree out is sound
\* (WorkspaceVersion.generation, tree_unchanged).
TokenNamesTree ==
    \A c \in Clients : snapshot.valid /\ mem[c].version = snapshot.version
                          => mem[c].value.tree = snapshot.value.tree
===============================================================================
