------------------------- MODULE WorkspaceIndexProofs -------------------------
(* Theorems about WorkspaceIndex, for any number of clients, changes and    *)
(* queries: no answer is stale, and a tree token names one tree.            *)
EXTENDS WorkspaceIndex, TLAPS

Query == [pc : PCs, kind : Kinds, validate : BOOLEAN, observed : Nat, start : Nat,
          try : 0 .. 2, value : Values, version : Nat, seen : 0 .. MaxChanges]
Answer == [kind : Kinds, value : Values, version : Nat]

Types ==
    /\ disk \in 0 .. MaxChanges /\ queue \in 0 .. disk
    /\ puts \subseteq 1 .. disk /\ healthy \in BOOLEAN /\ owed \in Nat /\ gen \in Nat
    /\ known \in 0 .. disk /\ generation \in Nat /\ queries \in Nat
    /\ snapshot \in EntryType /\ search \in EntryType /\ git \in EntryType
    /\ digest \in [Kinds -> EntryType]
    /\ query \in [Clients -> Query]
    /\ mem \in [Clients -> Answer]

Covers(v, n) == n <= v.tree /\ n <= v.list /\ n <= v.content

\* A cache entry of the current generation reflects every change the daemon has
\* been told of.  The list of a search entry does not: its token stands for it.
CacheInv ==
    /\ snapshot.observed <= gen /\ search.observed <= gen /\ git.observed <= gen
    /\ \A k \in Kinds : digest[k].observed <= gen
    /\ Current(snapshot) => known <= snapshot.value.tree
    /\ Current(search) => known <= search.value.content
    /\ Current(git) => Covers(git.value, known)
    /\ \A k \in Kinds : Current(digest[k]) => Covers(digest[k].value, known)

Cached == {"digest", "tree", "scan", "scan_end", "publish", "search", "search_read", "search_end",
           "git", "git_read", "git_end"}
Unversioned == {"digest", "tree", "scan", "scan_end", "publish", "git", "git_read", "git_end"}
HasTree == {"scan_end", "publish", "search", "search_read", "search_end", "git_end", "finish"}

\* A query r, with what it has read so far: it covers what the query must see, and
\* all the daemon knows as long as the generation it started from is current.
QueryInv(r) ==
    /\ r.seen <= disk /\ r.observed <= gen /\ r.start <= gen
    /\ r.pc \in Cached => r.seen <= known
    /\ r.pc \in Unversioned => r.version = 0
    /\ r.pc = "search" => r.version # 0
    /\ r.pc # "idle" /\ r.observed = gen => known <= r.seen
    /\ r.pc \in HasTree => r.seen <= r.value.tree
    /\ r.pc \in {"scan_end", "publish"} /\ r.start = gen => known <= r.value.tree
    /\ r.pc = "search_end" => /\ r.value.list = r.value.tree
                              /\ r.seen <= r.value.content
                              /\ r.start = gen => known <= r.value.content
    /\ r.pc = "git_end" => /\ Covers(r.value, r.seen)
                           /\ r.start = gen => Covers(r.value, known)
    /\ r.pc = "finish" => Covers(r.value, r.seen)

\* Token n stands for tree t somewhere in the daemon or at a client.
Token(n, t) ==
    \/ snapshot.version = n /\ snapshot.value.tree = t
    \/ search.version = n /\ search.value.list = t
    \/ \E k \in Kinds : digest[k].version = n /\ digest[k].value.tree = t
    \/ \E c \in Clients : query[c].version = n /\ query[c].value.tree = t
    \/ \E c \in Clients : mem[c].version = n /\ mem[c].value.tree = t

TokenInv ==
    \A n \in Nat \ {0}, t, u \in 0 .. MaxChanges :
        /\ Token(n, t) => n <= generation
        /\ Token(n, t) /\ Token(n, u) => t = u

IInv ==
    /\ Types /\ CacheInv
    /\ \A c \in Clients : QueryInv(query[c])
    /\ TokenInv
    /\ snapshot.valid => snapshot.version # 0

-------------------------------------------------------------------------------
(* Changes of the workspace: known only grows together with gen, and what was  *)
(* observed before is then out of date.                                        *)

Others == <<cacheVars, locks, query, mem, queries>>

LEMMA ChangeKeeps ==
    ASSUME Types, CacheInv, NEW c \in Clients, QueryInv(query[c]),
           UNCHANGED Others, disk' \in Nat, disk <= disk', known' \in Nat, known <= known',
           \/ known' = known /\ gen' = gen
           \/ gen' = gen + 1
    PROVE  CacheInv' /\ QueryInv(query[c])'
<1>1. /\ snapshot \in EntryType /\ search \in EntryType /\ git \in EntryType
      /\ \A k \in Kinds : digest[k] \in EntryType
      /\ gen \in Nat /\ known \in Nat /\ disk \in Nat
      /\ query[c] \in Query
  BY DEF Types
<1>2. /\ snapshot' = snapshot /\ search' = search /\ git' = git /\ digest' = digest
      /\ query' = query
  BY DEF Others, cacheVars
<1>3. CASE known' = known /\ gen' = gen
  <2>1. CacheInv'
    BY <1>2, <1>3 DEF CacheInv, Current
  <2>2. QueryInv(query[c])'
    <3> DEFINE r == query[c]
    <3>1. r' = r BY <1>2
    <3>2. r.seen \in Nat BY <1>1 DEF Query
    <3>3. r.seen <= disk' BY <1>1, <3>2 DEF QueryInv
    <3> QED BY <1>3, <3>1, <3>3 DEF QueryInv
  <2> QED BY <2>1, <2>2
<1>4. CASE gen' = gen + 1
  <2>1. CacheInv'
    BY <1>1, <1>2, <1>4 DEF CacheInv, Current, EntryType
  <2>2. QueryInv(query[c])'
    <3> DEFINE r == query[c]
    <3>1. r' = r BY <1>2
    <3>2. r.seen \in Nat /\ r.observed \in Nat /\ r.start \in Nat BY <1>1 DEF Query
    <3>3. /\ r.seen <= disk' /\ r.observed <= gen' /\ r.start <= gen'
          /\ r.observed # gen' /\ r.start # gen'
      BY <1>1, <1>4, <3>2 DEF QueryInv
    <3>4. r.pc \in Cached => r.seen <= known'
      BY <1>1, <3>2 DEF QueryInv
    <3> QED BY <3>1, <3>3, <3>4 DEF QueryInv
  <2> QED BY <2>1, <2>2
<1> QED BY <1>3, <1>4

\* The daemon knows only of changes that were made.
LEMMA ChangeTypes ==
    ASSUME Types,
           ExternalChange \/ PutInstall \/ (\E p \in puts : PutAnswer(p))
             \/ WatcherHandle \/ WatcherError \/ InvalidateOwed
    PROVE  /\ Types' /\ UNCHANGED Others
           /\ disk <= disk' /\ known <= known'
           /\ \/ known' = known /\ gen' = gen
              \/ gen' = gen + 1
<1>0. /\ disk \in Nat /\ known \in Nat /\ gen \in Nat /\ owed \in Nat /\ queue \in Nat
      /\ queue <= disk /\ known <= disk /\ disk <= MaxChanges /\ MaxChanges \in Nat
      /\ puts \subseteq 1 .. disk
  BY IndexAssumption DEF Types
<1>1. UNCHANGED Others
  BY DEF ExternalChange, PutInstall, PutAnswer, WatcherHandle, WatcherError, InvalidateOwed, Others
<1>2. healthy' \in BOOLEAN
  <2>1. healthy \in BOOLEAN
    BY DEF Types
  <2>2. healthy' = healthy \/ healthy' = FALSE
    BY DEF ExternalChange, PutInstall, Change, PutAnswer, WatcherHandle, WatcherError, InvalidateOwed
  <2> QED BY <2>1, <2>2, ZenonT(60)
<1>3. owed' \in Nat
  <2>1. (IF healthy THEN 1 ELSE 0) \in Nat
    OBVIOUS
  <2> QED BY <1>0, <2>1 DEF ExternalChange, PutInstall, Change, PutAnswer, WatcherHandle,
                            WatcherError, InvalidateOwed
<1>4. /\ disk' \in Nat /\ disk <= disk' /\ disk' <= MaxChanges
      /\ queue' \in Nat /\ queue' <= disk'
      /\ puts' \subseteq 1 .. disk'
  <2>1. \/ disk < MaxChanges /\ disk' = disk + 1 /\ queue' \in {queue, queue + 1}
        \/ disk' = disk /\ queue' = queue
        \/ disk' = disk /\ queue > 0 /\ queue' = queue - 1
    BY <1>0 DEF ExternalChange, PutInstall, Change, PutAnswer, WatcherHandle, WatcherError, InvalidateOwed
  <2>2. disk' \in Nat /\ disk <= disk' /\ disk' <= MaxChanges /\ queue' \in Nat /\ queue' <= disk'
    BY <1>0, <2>1
  <2>3. puts' \subseteq puts \/ (disk' = disk + 1 /\ puts' = puts \cup {disk + 1})
    BY DEF ExternalChange, PutInstall, Change, PutAnswer, WatcherHandle, WatcherError, InvalidateOwed
  <2>4. puts' \subseteq 1 .. disk'
    <3>1. \A n \in puts : n \in 1 .. disk'
      BY <1>0, <2>2
    <3>2. disk' = disk + 1 => disk + 1 \in 1 .. disk'
      BY <1>0
    <3> QED BY <2>3, <3>1, <3>2
  <2> QED BY <2>2, <2>4
<1>5. /\ known' \in Nat /\ known <= known' /\ known' <= disk'
      /\ \/ known' = known /\ gen' = gen
         \/ gen' = gen + 1
  <2>1. ASSUME NEW n \in Nat, n <= disk, Learn(n)
        PROVE  known' \in Nat /\ known <= known' /\ known' <= disk
    BY <1>0, <2>1 DEF Learn, Greater
  <2>2. CASE \E p \in puts : PutAnswer(p)
    <3>1. PICK p \in puts : PutAnswer(p)
      BY <2>2
    <3>2. p \in Nat /\ p <= disk
      BY <1>0
    <3> QED BY <2>1, <3>1, <3>2 DEF PutAnswer
  <2>3. CASE WatcherHandle
    <3>1. disk - queue + 1 \in Nat /\ disk - queue + 1 <= disk
      BY <1>0, <2>3 DEF WatcherHandle
    <3> QED BY <2>1, <2>3, <3>1 DEF WatcherHandle
  <2>4. CASE ExternalChange \/ PutInstall \/ WatcherError \/ InvalidateOwed
    BY <1>0, <1>4, <2>4 DEF ExternalChange, PutInstall, WatcherError, InvalidateOwed
  <2> QED BY <2>2, <2>3, <2>4
<1>6. Types'
  <2>1. /\ generation' = generation /\ queries' = queries /\ snapshot' = snapshot /\ search' = search
        /\ git' = git /\ digest' = digest /\ query' = query /\ mem' = mem
    BY <1>1 DEF Others, cacheVars
  <2>2. gen' \in Nat
    BY <1>0, <1>5
  <2> QED BY <1>2, <1>3, <1>4, <1>5, <2>1, <2>2, <1>0 DEF Types
<1> QED BY <1>1, <1>4, <1>5, <1>6

-------------------------------------------------------------------------------
(* Steps of a query.                                                       *)

LEMMA LocalStep ==
    ASSUME Types, \A d \in Clients : QueryInv(query[d]), UNCHANGED changeVars,
           NEW c \in Clients, NEW r \in Query, query' = [query EXCEPT ![c] = r], QueryInv(r)
    PROVE  /\ query' \in [Clients -> Query]
           /\ (\A d \in Clients : QueryInv(query[d]))'
           /\ query'[c] = r
           /\ \A d \in Clients : d # c => query'[d] = query[d]
<1>1. /\ query \in [Clients -> Query]
      /\ disk' = disk /\ gen' = gen /\ known' = known
  BY DEF Types, changeVars
<1>2. query'[c] = r /\ \A d \in Clients : d # c => query'[d] = query[d]
  BY <1>1
<1>3. ASSUME NEW d \in Clients PROVE QueryInv(query[d])'
  <2> DEFINE x == query'[d]
  <2>1. QueryInv(x)
    BY <1>2, ZenonT(60)
  <2> HIDE DEF x
  <2>2. (disk' = disk /\ gen' = gen /\ known' = known /\ QueryInv(x)) => QueryInv(query[d])'
    BY DEF QueryInv, x
  <2> QED BY <1>1, <2>1, <2>2
<1> QED BY <1>1, <1>2, <1>3

LEMMA TokenKeeps ==
    ASSUME TokenInv, generation' = generation,
           \A n \in Nat \ {0}, t \in 0 .. MaxChanges : Token(n, t)' => Token(n, t)
    PROVE  TokenInv'
BY DEF TokenInv

\* A step that leaves the caches and the answers alone keeps the invariant if the
\* query itself does, and if the token it now has was there before.
LEMMA PlainStep ==
    ASSUME IInv, UNCHANGED <<changeVars, cacheVars, mem>>, queries' \in Nat,
           NEW c \in Clients, NEW r \in Query, query' = [query EXCEPT ![c] = r], QueryInv(r),
           r.version = 0 \/ Token(r.version, r.value.tree)
    PROVE  IInv'
<1>1. Types /\ CacheInv /\ TokenInv /\ \A d \in Clients : QueryInv(query[d])
  BY DEF IInv
<1>2. /\ UNCHANGED <<disk, queue, puts, healthy, owed, gen, known, mem>>
      /\ UNCHANGED <<snapshot, generation, search, git, digest>>
  BY DEF changeVars, cacheVars
<1>3. /\ query' \in [Clients -> Query]
      /\ (\A d \in Clients : QueryInv(query[d]))'
      /\ query'[c] = r
      /\ \A d \in Clients : d # c => query'[d] = query[d]
  BY <1>1, LocalStep, ZenonT(60)
<1>4. Types'
  BY <1>1, <1>2, <1>3, Zenon DEF Types
<1>5. CacheInv'
  BY <1>1, <1>2 DEF CacheInv, Current
<1>6. TokenInv'
  <2>1. ASSUME NEW n \in Nat \ {0}, NEW t \in 0 .. MaxChanges, Token(n, t)'
        PROVE  Token(n, t)
    <3>1. CASE \E d \in Clients : query'[d].version = n /\ query'[d].value.tree = t
      BY <1>3, <3>1, ZenonT(60) DEF Token
    <3>2. CASE ~ \E d \in Clients : query'[d].version = n /\ query'[d].value.tree = t
      BY <1>2, <2>1, <3>2, Zenon DEF Token
    <3> QED BY <3>1, <3>2
  <2> QED BY <1>1, <1>2, <2>1, TokenKeeps
<1>7. (snapshot.valid => snapshot.version # 0)'
  BY <1>2 DEF IInv
<1> QED BY <1>3, <1>4, <1>5, <1>6, <1>7 DEF IInv

LEMMA Basics ==
    ASSUME IInv, NEW c \in Clients
    PROVE  /\ disk \in Nat /\ gen \in Nat /\ known \in Nat /\ known <= disk /\ disk <= MaxChanges
           /\ MaxChanges \in Nat /\ queries \in Nat /\ generation \in Nat
           /\ query \in [Clients -> Query] /\ query[c] \in Query /\ QueryInv(query[c])
           /\ snapshot \in EntryType /\ search \in EntryType /\ git \in EntryType
           /\ mem \in [Clients -> Answer] /\ mem[c] \in Answer
           /\ digest \in [Kinds -> EntryType]
           /\ All(disk) \in Values
           /\ CacheInv
BY IndexAssumption DEF IInv, Types, All, Values

\* The record r, with the caches skipped if the watcher is not healthy, is a query
\* that has its answer or is about to look in a cache.
LEMMA GatedInv ==
    ASSUME IInv, NEW r \in Query, r.version = 0,
           r.seen <= disk, r.observed <= gen, r.start <= gen, healthy => r.seen <= known,
           r.observed = gen => known <= r.seen
    PROVE  /\ Gated(r) \in Query /\ QueryInv(Gated(r)) /\ Gated(r).version = 0
<1>1. /\ disk \in Nat /\ gen \in Nat /\ known \in Nat /\ disk <= MaxChanges /\ MaxChanges \in Nat
      /\ healthy \in BOOLEAN
  BY IndexAssumption DEF IInv, Types
<1>2. CASE healthy /\ r.kind = "scan"
  <2>1. Gated(r) = [r EXCEPT !.pc = "tree"]
    BY <1>2 DEF Gated
  <2> QED BY <1>1, <1>2, <2>1 DEF Query, PCs, QueryInv, Cached, Unversioned, HasTree
<1>3. CASE healthy /\ r.kind = "git"
  <2>1. Gated(r) = [r EXCEPT !.pc = "git"]
    BY <1>3 DEF Gated
  <2> QED BY <1>1, <1>3, <2>1 DEF Query, PCs, QueryInv, Cached, Unversioned, HasTree
<1>4. CASE ~healthy
  <2>1. Gated(r) = [r EXCEPT !.pc = "finish", !.value = All(disk)]
    BY <1>4 DEF Gated
  <2>2. All(disk) \in Values /\ Covers(All(disk), r.seen) /\ All(disk).tree = disk
    BY <1>1 DEF All, Values, Covers
  <2>3. Gated(r) \in Query
    BY <1>1, <2>1, <2>2, ZenonT(60) DEF Query, PCs
  <2>4. /\ Gated(r).pc = "finish" /\ Gated(r).value = All(disk) /\ Gated(r).seen = r.seen
        /\ Gated(r).observed = r.observed /\ Gated(r).start = r.start /\ Gated(r).version = 0
    BY <2>1 DEF Query
  <2>5. QueryInv(Gated(r))
    BY <2>2, <2>4 DEF QueryInv, Cached, Unversioned, HasTree
  <2> QED BY <2>3, <2>4, <2>5
<1>5. r.kind \in {"scan", "git"}
  BY DEF Query, Kinds
<1> QED BY <1>1, <1>2, <1>3, <1>4, <1>5

LEMMA BeginStep ==
    ASSUME IInv, NEW c \in Clients, NEW kind \in KindsOf[c], NEW validate \in BOOLEAN,
           Begin(c, kind, validate)
    PROVE  IInv'
<1> DEFINE r == [pc |-> "idle", kind |-> kind, validate |-> validate, observed |-> gen, start |-> 0,
                 try |-> 0, value |-> All(0), version |-> NoVersion, seen |-> MustSee]
           x == IF validate /\ healthy THEN [r EXCEPT !.pc = "digest"] ELSE Gated(r)
<1>1. /\ disk \in Nat /\ gen \in Nat /\ known \in Nat /\ known <= disk /\ disk <= MaxChanges
      /\ MaxChanges \in Nat /\ healthy \in BOOLEAN
  BY Basics DEF IInv, Types
<1>2. kind \in Kinds
  BY IndexAssumption DEF Kinds
<1>3. /\ MustSee \in Nat /\ MustSee <= disk /\ known <= MustSee /\ (healthy => MustSee = known)
  BY <1>1 DEF MustSee
<1>4. r \in Query
  <2>2. All(0) \in Values
    BY <1>1 DEF All, Values
  <2>3. MustSee \in 0 .. MaxChanges
    BY <1>1, <1>3, SMTT(60)
  <2> QED BY <1>1, <1>2, <2>2, <2>3 DEF Query, PCs, NoVersion
<1>5. /\ r.version = 0 /\ r.seen = MustSee /\ r.observed = gen /\ r.start = 0 /\ r.pc = "idle"
  BY DEF Idle, NoVersion
<1> HIDE DEF r
<1>6. x \in Query /\ QueryInv(x) /\ x.version = 0
  <2>1. CASE validate /\ healthy
    <3>1. x = [r EXCEPT !.pc = "digest"]
      BY <2>1
    <3> QED BY <1>1, <1>3, <1>4, <1>5, <2>1, <3>1
            DEF Query, PCs, QueryInv, Cached, Unversioned, HasTree
  <2>2. CASE ~(validate /\ healthy)
    BY <1>1, <1>3, <1>4, <1>5, <2>2, GatedInv
  <2> QED BY <2>1, <2>2
<1>7. query' = [query EXCEPT ![c] = x] /\ UNCHANGED <<changeVars, cacheVars, mem>> /\ queries' \in Nat
  BY Basics DEF Begin, Set, r
<1> HIDE DEF x
<1> QED BY <1>6, <1>7, PlainStep, ZenonT(60)

LEMMA DigestMissStep ==
    ASSUME IInv, NEW c \in Clients, DigestMiss(c)
    PROVE  IInv'
<1> DEFINE r == query[c]
<1>1. /\ disk \in Nat /\ gen \in Nat /\ known \in Nat /\ queries \in Nat
      /\ r \in Query /\ QueryInv(r) /\ r.pc = "digest"
  BY Basics DEF DigestMiss, At
<1>2. /\ r.version = 0 /\ r.seen <= disk /\ r.observed <= gen /\ r.start <= gen /\ r.seen <= known
      /\ (r.observed = gen => known <= r.seen)
  BY <1>1 DEF QueryInv, Cached, Unversioned
<1>3. Gated(r) \in Query /\ QueryInv(Gated(r)) /\ Gated(r).version = 0
  BY <1>1, <1>2, GatedInv
<1>4. query' = [query EXCEPT ![c] = Gated(r)] /\ UNCHANGED <<changeVars, cacheVars, mem, queries>>
  BY DEF DigestMiss, Set, q, Quiet
<1> QED BY <1>1, <1>3, <1>4, PlainStep, ZenonT(60)


LEMMA SearchedInv ==
    ASSUME IInv, NEW r \in Query, NEW pc \in {"search_end", "finish"},
           r.seen <= disk, r.observed <= gen, r.start <= gen, r.seen <= r.value.tree,
           r.observed = gen => known <= r.seen, pc = "search_end" => r.seen <= known
    PROVE  /\ Searched(r, pc) \in Query /\ QueryInv(Searched(r, pc))
           /\ Searched(r, pc).version = r.version /\ Searched(r, pc).value.tree = r.value.tree
<1> DEFINE v == [All(r.value.tree) EXCEPT !.content = disk]
           x == Searched(r, pc)
<1>1. /\ disk \in Nat /\ gen \in Nat /\ known \in Nat /\ known <= disk /\ disk <= MaxChanges
      /\ MaxChanges \in Nat
  BY IndexAssumption DEF IInv, Types
<1>2. r.value \in Values /\ r.value.tree \in 0 .. MaxChanges
  BY DEF Query, Values
<1>3. v = [tree |-> r.value.tree, list |-> r.value.tree, content |-> disk]
  BY DEF All
<1>4. v \in Values /\ v.tree = r.value.tree /\ v.list = r.value.tree /\ v.content = disk
  BY <1>1, <1>2, <1>3 DEF Values
<1> HIDE DEF v
<1>5. x = [r EXCEPT !.pc = pc, !.value = v]
  BY DEF Searched, v
<1>6. x \in Query
  BY <1>4, <1>5, ZenonT(60) DEF Query, PCs
<1>7. /\ x.pc = pc /\ x.value = v /\ x.seen = r.seen /\ x.observed = r.observed /\ x.start = r.start
      /\ x.version = r.version
  BY <1>5 DEF Query
<1> HIDE DEF x
<1>8. QueryInv(x)
  BY <1>1, <1>4, <1>7 DEF QueryInv, Cached, Unversioned, HasTree, Covers
<1> QED BY <1>4, <1>6, <1>7, <1>8 DEF x

LEMMA SearchGatedInv ==
    ASSUME IInv, NEW r \in Query,
           r.seen <= disk, r.observed <= gen, r.start <= gen, r.seen <= r.value.tree,
           r.observed = gen => known <= r.seen, r.seen <= known
    PROVE  /\ SearchGated(r) \in Query /\ QueryInv(SearchGated(r))
           /\ SearchGated(r).version = r.version /\ SearchGated(r).value.tree = r.value.tree
<1>1. CASE r.version # NoVersion /\ healthy
  <2>1. SearchGated(r) = [r EXCEPT !.pc = "search"]
    BY <1>1 DEF SearchGated
  <2> QED BY <1>1, <2>1 DEF Query, PCs, QueryInv, Cached, Unversioned, HasTree, NoVersion
<1>2. CASE ~(r.version # NoVersion /\ healthy)
  <2>1. SearchGated(r) = Searched(r, "finish")
    BY <1>2 DEF SearchGated
  <2> QED BY <2>1, SearchedInv
<1> QED BY <1>1, <1>2

\* What is known of a query that is under way.
LEMMA Underway ==
    ASSUME IInv, NEW c \in Clients, query[c].pc \in Cached
    PROVE  /\ query[c] \in Query
           /\ query[c].seen <= disk /\ query[c].observed <= gen /\ query[c].start <= gen
           /\ query[c].seen <= known /\ (query[c].observed = gen => known <= query[c].seen)
           /\ query[c].seen \in Nat
BY Basics DEF QueryInv, Cached, Query

LEMMA TreeHitStep ==
    ASSUME IInv, NEW c \in Clients, TreeHit(c)
    PROVE  IInv'
<1> DEFINE r == query[c]
           x == [r EXCEPT !.value = snapshot.value, !.version = snapshot.version]
<1>1. /\ disk \in Nat /\ gen \in Nat /\ known \in Nat /\ queries \in Nat
      /\ snapshot \in EntryType /\ CacheInv /\ Current(snapshot)
  BY Basics DEF TreeHit
<1>2. r.pc = "tree" /\ r.pc \in Cached
  BY Zenon DEF TreeHit, At, Cached
<1>3. /\ r \in Query /\ r.seen <= disk /\ r.observed <= gen /\ r.start <= gen
      /\ r.seen <= known /\ (r.observed = gen => known <= r.seen) /\ r.seen \in Nat
  BY <1>2, Underway
<1>4. /\ snapshot.value \in Values /\ snapshot.version \in Nat /\ snapshot.value.tree \in Nat
      /\ known <= snapshot.value.tree
  BY <1>1 DEF EntryType, Values, CacheInv
<1> HIDE DEF r
<1>5. /\ x \in Query /\ x.seen = r.seen /\ x.observed = r.observed /\ x.start = r.start
      /\ x.value = snapshot.value /\ x.version = snapshot.version
  BY <1>3, <1>4, ZenonT(60) DEF Query
<1>6. query' = [query EXCEPT ![c] = SearchGated(x)] /\ UNCHANGED <<changeVars, cacheVars, mem, queries>>
  BY DEF TreeHit, Set, q, Quiet, r
<1> HIDE DEF x
<1>7. /\ SearchGated(x) \in Query /\ QueryInv(SearchGated(x))
      /\ SearchGated(x).version = snapshot.version /\ SearchGated(x).value.tree = snapshot.value.tree
  BY <1>1, <1>3, <1>4, <1>5, SearchGatedInv
<1>8. Token(snapshot.version, snapshot.value.tree)
  BY DEF Token
<1> QED BY <1>1, <1>6, <1>7, <1>8, PlainStep, ZenonT(60)

LEMMA Rescanned ==
    ASSUME NEW r \in Query, NEW g \in Nat, NEW n \in {0, 1, 2}
    PROVE  LET x == [r EXCEPT !.pc = "scan", !.start = g, !.try = n]
           IN  /\ x \in Query /\ x.pc = "scan" /\ x.start = g /\ x.seen = r.seen
               /\ x.observed = r.observed /\ x.value = r.value /\ x.version = r.version
<1>1. n \in 0 .. 2
  OBVIOUS
<1>2. "scan" \in PCs
  BY DEF PCs
<1> QED BY <1>1, <1>2, ZenonT(60) DEF Query

LEMMA TreeRebuildStep ==
    ASSUME IInv, NEW c \in Clients, TreeRebuild(c)
    PROVE  IInv'
<1> DEFINE r == query[c]
           x == [r EXCEPT !.pc = "scan", !.start = gen, !.try = 1]
<1>1. /\ disk \in Nat /\ gen \in Nat /\ known \in Nat /\ queries \in Nat /\ QueryInv(r)
  BY Basics
<1>2. r.pc = "tree" /\ r.pc \in Cached
  BY DEF TreeRebuild, At, Cached
<1>3. /\ r \in Query /\ r.seen <= disk /\ r.observed <= gen
      /\ r.seen <= known /\ (r.observed = gen => known <= r.seen)
  BY <1>2, Underway, Zenon
<1>4. r.version = 0
  BY <1>1, <1>2 DEF QueryInv, Unversioned
<1>5. query' = [query EXCEPT ![c] = x] /\ UNCHANGED <<changeVars, cacheVars, mem, queries>>
  BY DEF TreeRebuild, Set, q, Quiet
<1> HIDE DEF r
<1>6. /\ x \in Query /\ x.version = 0 /\ x.pc = "scan" /\ x.start = gen /\ x.seen = r.seen
      /\ x.observed = r.observed
  BY <1>1, <1>3, <1>4, Rescanned, ZenonT(60)
<1> HIDE DEF x
<1>7. QueryInv(x)
  BY <1>1, <1>3, <1>6 DEF QueryInv, Cached, Unversioned, HasTree
<1> QED BY <1>1, <1>5, <1>6, <1>7, PlainStep, ZenonT(60)


\* The query reads the workspace as it is now.
LEMMA ReadNow ==
    ASSUME IInv, NEW r \in Query, NEW pc \in {"scan_end", "git_end"},
           r.seen <= disk, r.observed <= gen, r.start <= gen, r.seen <= known,
           r.observed = gen => known <= r.seen, r.version = 0
    PROVE  LET x == [r EXCEPT !.pc = pc, !.value = All(disk)]
           IN  x \in Query /\ QueryInv(x) /\ x.version = 0
<1> DEFINE x == [r EXCEPT !.pc = pc, !.value = All(disk)]
<1>1. /\ disk \in Nat /\ gen \in Nat /\ known \in Nat /\ known <= disk /\ disk <= MaxChanges
      /\ MaxChanges \in Nat
  BY IndexAssumption DEF IInv, Types
<1>2. All(disk) \in Values /\ Covers(All(disk), r.seen) /\ Covers(All(disk), known) /\ All(disk).tree = disk
  BY <1>1 DEF All, Values, Covers
<1>3. /\ x \in Query /\ x.pc = pc /\ x.value = All(disk) /\ x.seen = r.seen /\ x.observed = r.observed
      /\ x.start = r.start /\ x.version = 0
  BY <1>2, ZenonT(60) DEF Query, PCs
<1> HIDE DEF x
<1>4. QueryInv(x)
  BY <1>1, <1>2, <1>3 DEF QueryInv, Cached, Unversioned, HasTree
<1> QED BY <1>3, <1>4 DEF x

LEMMA ReadStep ==
    ASSUME IInv, NEW c \in Clients, ScanRead(c) \/ GitRead(c)
    PROVE  IInv'
<1>1. PICK pc \in {"scan_end", "git_end"} :
        /\ query' = [query EXCEPT ![c] = [query[c] EXCEPT !.pc = pc, !.value = All(disk)]]
        /\ UNCHANGED <<changeVars, cacheVars, mem, queries>>
  BY DEF ScanRead, GitRead, Set, q, Quiet
<1>2. query[c].pc \in {"scan", "git_read"}
  BY DEF ScanRead, GitRead, At
<1>3. query[c].pc \in Cached /\ query[c].pc \in Unversioned
  BY <1>2 DEF Cached, Unversioned
<1>4. query[c].version = 0 /\ queries \in Nat
  BY <1>3, Basics DEF QueryInv
<1>5. LET x == [query[c] EXCEPT !.pc = pc, !.value = All(disk)]
      IN  x \in Query /\ QueryInv(x) /\ x.version = 0
  BY <1>3, <1>4, Underway, ReadNow, ZenonT(60)
<1> QED BY <1>1, <1>4, <1>5, PlainStep, ZenonT(60)

\* The query stops building, with the tree it has.
LEMMA Released ==
    ASSUME IInv, NEW c \in Clients, NEW n \in Nat,
           query[c].pc \in {"scan_end", "publish"}
    PROVE  LET x == SearchGated([query[c] EXCEPT !.start = 0, !.try = 0, !.version = n])
           IN  x \in Query /\ QueryInv(x) /\ x.version = n /\ x.value.tree = query[c].value.tree
<1> DEFINE r == query[c]
           y == [r EXCEPT !.start = 0, !.try = 0, !.version = n]
<1>1. r.pc \in Cached /\ r.pc \in HasTree /\ QueryInv(r)
  BY Basics DEF Cached, HasTree
<1>2. /\ r \in Query /\ r.seen <= disk /\ r.observed <= gen
      /\ r.seen <= known /\ (r.observed = gen => known <= r.seen)
  BY <1>1, Underway, Zenon
<1>3. r.seen <= r.value.tree /\ gen \in Nat
  BY <1>1, Basics DEF QueryInv
<1>4. 0 \in 0 .. 2
  OBVIOUS
<1> HIDE DEF r
<1>5. y \in Query /\ y.seen = r.seen /\ y.observed = r.observed /\ y.start = 0 /\ y.value = r.value /\ y.version = n
  BY <1>2, <1>4, ZenonT(60) DEF Query
<1> HIDE DEF y
<1>6. SearchGated(y) \in Query /\ QueryInv(SearchGated(y)) /\ SearchGated(y).version = n
      /\ SearchGated(y).value.tree = r.value.tree
  BY <1>2, <1>3, <1>5, SearchGatedInv
<1> QED BY <1>6 DEF y, r

LEMMA ScanEndStep ==
    ASSUME IInv, NEW c \in Clients, ScanEnd(c)
    PROVE  IInv'
<1> DEFINE r == query[c]
<1>1. /\ gen \in Nat /\ queries \in Nat /\ QueryInv(r) /\ r \in Query
      /\ query \in [Clients -> Query] /\ disk \in Nat /\ known \in Nat
  BY Basics
<1>2. r.pc = "scan_end" /\ r.pc \in Cached
  BY DEF ScanEnd, At, Cached
<1>3. r.version = 0
  BY <1>1, <1>2 DEF QueryInv, Unversioned
<1>4. UNCHANGED <<changeVars, cacheVars, mem, queries>>
  BY DEF ScanEnd, Quiet
<1>5. CASE Go(c, "publish")
  <2> DEFINE x == [r EXCEPT !.pc = "publish"]
  <2>1. query' = [query EXCEPT ![c] = x]
    BY <1>1, <1>5 DEF Go
  <2>2. x \in Query /\ QueryInv(x) /\ x.version = 0
    BY <1>1, <1>2, <1>3 DEF Query, PCs, QueryInv, Cached, Unversioned, HasTree
  <2> HIDE DEF x
  <2> QED BY <1>1, <1>4, <2>1, <2>2, PlainStep, ZenonT(60)
<1>6. CASE Set(c, [r EXCEPT !.pc = "scan", !.start = gen, !.try = 2])
  <2> DEFINE x == [r EXCEPT !.pc = "scan", !.start = gen, !.try = 2]
  <2>1. query' = [query EXCEPT ![c] = x]
    BY <1>6 DEF Set
  <2>3. /\ r.seen <= disk /\ r.observed <= gen /\ r.seen <= known
        /\ (r.observed = gen => known <= r.seen)
    BY <1>2, Underway
  <2> HIDE DEF r
  <2>2. /\ x \in Query /\ x.pc = "scan" /\ x.start = gen /\ x.seen = r.seen
        /\ x.observed = r.observed /\ x.version = 0
    <3>1. r \in Query /\ gen \in Nat /\ 2 \in 0 .. 2 /\ "scan" \in PCs
      BY <1>1 DEF PCs
    <3> QED BY <1>3, <3>1, ZenonT(60) DEF Query
  <2> HIDE DEF x
  <2>4. QueryInv(x)
    BY <1>1, <2>2, <2>3 DEF QueryInv, Cached, Unversioned, HasTree
  <2> QED BY <1>1, <1>4, <2>1, <2>2, <2>4, PlainStep, ZenonT(60)
<1>7. CASE Set(c, SearchGated([r EXCEPT !.start = 0, !.try = 0, !.version = NoVersion]))
  <2> DEFINE x == SearchGated([r EXCEPT !.start = 0, !.try = 0, !.version = 0])
  <2>2. query' = [query EXCEPT ![c] = x]
    BY <1>7 DEF Set, NoVersion
  <2>3. x \in Query /\ QueryInv(x) /\ x.version = 0
    BY <1>2, Released, ZenonT(60)
  <2> HIDE DEF x
  <2> QED BY <1>1, <1>4, <2>2, <2>3, PlainStep, ZenonT(60)
<1> QED BY <1>5, <1>6, <1>7 DEF ScanEnd, q


LEMMA SearchHitStep ==
    ASSUME IInv, NEW c \in Clients, SearchHit(c)
    PROVE  IInv'
<1> DEFINE r == query[c]
           v == [search.value EXCEPT !.tree = r.value.tree]
           x == [r EXCEPT !.pc = "finish", !.value = v]
<1>1. /\ gen \in Nat /\ queries \in Nat /\ QueryInv(r) /\ disk \in Nat /\ known \in Nat
      /\ search \in EntryType /\ CacheInv /\ TokenInv
  BY Basics DEF IInv
<1>2. /\ r.pc = "search" /\ r.pc \in Cached /\ r.pc \in HasTree
      /\ Current(search) /\ search.version = r.version
  BY Zenon DEF SearchHit, At, Cached, HasTree, SearchMatches, q
<1>3. /\ r \in Query /\ r.seen <= disk /\ r.observed <= gen /\ r.start <= gen
      /\ r.seen <= known /\ (r.observed = gen => known <= r.seen) /\ r.seen \in Nat
  BY <1>2, Underway, Zenon
<1>4. /\ r.version \in Nat \ {0} /\ r.value \in Values /\ r.value.tree \in 0 .. MaxChanges
      /\ r.seen <= r.value.tree
  BY <1>1, <1>2, <1>3, ZenonT(60) DEF QueryInv, Query, Values
<1>5. /\ search.value \in Values /\ search.value.list \in 0 .. MaxChanges
      /\ search.value.content \in Nat /\ known <= search.value.content
  BY <1>1, <1>2, SMTT(60) DEF EntryType, Values, CacheInv
<1>6. search.value.list = r.value.tree
  <2>1. Token(r.version, r.value.tree) /\ Token(r.version, search.value.list)
    BY <1>2 DEF Token
  <2> QED BY <1>1, <1>4, <1>5, <2>1, Zenon DEF TokenInv
<1>7. query' = [query EXCEPT ![c] = x] /\ UNCHANGED <<changeVars, cacheVars, mem, queries>>
  BY Zenon DEF SearchHit, Set, q, Quiet
<1>8. Token(r.version, r.value.tree)
  BY DEF Token
<1> HIDE DEF r
<1>9. /\ v \in Values /\ v.tree = r.value.tree /\ v.list = search.value.list
      /\ v.content = search.value.content
  BY <1>4, <1>5 DEF Values
<1> HIDE DEF v
<1>10. /\ x \in Query /\ x.pc = "finish" /\ x.value = v /\ x.seen = r.seen /\ x.observed = r.observed
       /\ x.start = r.start /\ x.version = r.version
  BY <1>3, <1>9, ZenonT(60) DEF Query, PCs
<1> HIDE DEF x
<1>11. Covers(v, r.seen)
  BY <1>1, <1>3, <1>4, <1>5, <1>6, <1>9, SMTT(60) DEF Covers
<1>12. QueryInv(x)
  BY <1>3, <1>4, <1>9, <1>10, <1>11 DEF QueryInv, Cached, Unversioned, HasTree
<1> QED BY <1>1, <1>7, <1>8, <1>9, <1>10, <1>12, PlainStep, ZenonT(60)

LEMMA SearchRebuildStep ==
    ASSUME IInv, NEW c \in Clients, SearchRebuild(c)
    PROVE  IInv'
<1> DEFINE r == query[c]
           x == [r EXCEPT !.pc = "search_read", !.start = gen]
<1>1. /\ gen \in Nat /\ queries \in Nat /\ QueryInv(r)
  BY Basics
<1>2. /\ r.pc = "search" /\ r.pc \in Cached /\ r.pc \in HasTree
  BY Zenon DEF SearchRebuild, At, Cached, HasTree
<1>3. /\ r \in Query /\ r.seen <= disk /\ r.observed <= gen
      /\ r.seen <= known /\ (r.observed = gen => known <= r.seen) /\ r.seen <= r.value.tree
  BY <1>1, <1>2, Underway DEF QueryInv
<1>4. query' = [query EXCEPT ![c] = x] /\ UNCHANGED <<changeVars, cacheVars, mem, queries>>
  BY DEF SearchRebuild, Set, q, Quiet
<1>5. Token(r.version, r.value.tree)
  BY DEF Token
<1> HIDE DEF r
<1>6. /\ x \in Query /\ x.pc = "search_read" /\ x.value = r.value /\ x.seen = r.seen
      /\ x.observed = r.observed /\ x.start = gen /\ x.version = r.version
  BY <1>1, <1>3, ZenonT(60) DEF Query, PCs
<1> HIDE DEF x
<1>7. QueryInv(x)
  BY <1>1, <1>3, <1>6 DEF QueryInv, Cached, Unversioned, HasTree
<1> QED BY <1>1, <1>4, <1>5, <1>6, <1>7, PlainStep, ZenonT(60)

LEMMA SearchReadStep ==
    ASSUME IInv, NEW c \in Clients, SearchRead(c)
    PROVE  IInv'
<1> DEFINE r == query[c]
           x == Searched(r, "search_end")
<1>1. /\ queries \in Nat /\ QueryInv(r)
  BY Basics
<1>2. /\ r.pc = "search_read" /\ r.pc \in Cached /\ r.pc \in HasTree
  BY Zenon DEF SearchRead, At, Cached, HasTree
<1>3. /\ r \in Query /\ r.seen <= disk /\ r.observed <= gen /\ r.start <= gen
      /\ r.seen <= known /\ (r.observed = gen => known <= r.seen) /\ r.seen <= r.value.tree
  BY <1>1, <1>2, Underway DEF QueryInv
<1>4. query' = [query EXCEPT ![c] = x] /\ UNCHANGED <<changeVars, cacheVars, mem, queries>>
  BY Zenon DEF SearchRead, Set, q, Quiet
<1>5. Token(r.version, r.value.tree)
  BY DEF Token
<1> HIDE DEF r
<1>6. x \in Query /\ QueryInv(x) /\ x.version = r.version /\ x.value.tree = r.value.tree
  BY <1>3, SearchedInv
<1> HIDE DEF x
<1> QED BY <1>1, <1>4, <1>5, <1>6, PlainStep, ZenonT(60)

LEMMA GitHitStep ==
    ASSUME IInv, NEW c \in Clients, GitHit(c)
    PROVE  IInv'
<1> DEFINE r == query[c]
           x == [r EXCEPT !.pc = "finish", !.value = git.value]
<1>1. /\ gen \in Nat /\ queries \in Nat /\ QueryInv(r) /\ disk \in Nat /\ known \in Nat
      /\ git \in EntryType /\ CacheInv
  BY Basics
<1>2. /\ r.pc = "git" /\ r.pc \in Cached /\ r.pc \in Unversioned /\ Current(git)
  BY DEF GitHit, At, Cached, Unversioned
<1>3. /\ r \in Query /\ r.seen <= disk /\ r.observed <= gen /\ r.start <= gen
      /\ r.seen <= known /\ (r.observed = gen => known <= r.seen) /\ r.seen \in Nat
  BY <1>2, Underway, Zenon
<1>4. r.version = 0
  BY <1>1, <1>2 DEF QueryInv
<1>5. query' = [query EXCEPT ![c] = x] /\ UNCHANGED <<changeVars, cacheVars, mem, queries>>
  BY DEF GitHit, Set, q, Quiet
<1>6. git.value \in Values /\ Covers(git.value, r.seen)
  <2>1. git.value \in Values /\ Covers(git.value, known)
    BY <1>1, <1>2, Zenon DEF EntryType, CacheInv
  <2>2. git.value.tree \in Nat /\ git.value.list \in Nat /\ git.value.content \in Nat
    BY <2>1 DEF Values
  <2> QED BY <1>1, <1>3, <2>1, <2>2 DEF Covers
<1> HIDE DEF r
<1>7. /\ x \in Query /\ x.pc = "finish" /\ x.value = git.value /\ x.seen = r.seen
      /\ x.observed = r.observed /\ x.start = r.start /\ x.version = 0
  BY <1>3, <1>4, <1>6, ZenonT(60) DEF Query, PCs
<1> HIDE DEF x
<1>8. QueryInv(x)
  BY <1>3, <1>6, <1>7 DEF QueryInv, Cached, Unversioned, HasTree, Covers
<1> QED BY <1>1, <1>5, <1>7, <1>8, PlainStep, ZenonT(60)

LEMMA GitMissStep ==
    ASSUME IInv, NEW c \in Clients, GitMiss(c)
    PROVE  IInv'
<1> DEFINE r == query[c]
           x == [r EXCEPT !.pc = "git_read", !.start = gen]
<1>1. /\ gen \in Nat /\ queries \in Nat /\ QueryInv(r)
  BY Basics
<1>2. /\ r.pc = "git" /\ r.pc \in Cached /\ r.pc \in Unversioned
  BY Zenon DEF GitMiss, At, Cached, Unversioned
<1>3. /\ r \in Query /\ r.seen <= disk /\ r.observed <= gen
      /\ r.seen <= known /\ (r.observed = gen => known <= r.seen) /\ r.version = 0
  BY <1>1, <1>2, Underway DEF QueryInv
<1>4. query' = [query EXCEPT ![c] = x] /\ UNCHANGED <<changeVars, cacheVars, mem, queries>>
  BY DEF GitMiss, Set, q, Quiet
<1> HIDE DEF r
<1>5. /\ x \in Query /\ x.pc = "git_read" /\ x.seen = r.seen
      /\ x.observed = r.observed /\ x.start = gen /\ x.version = 0
  BY <1>1, <1>3, ZenonT(60) DEF Query, PCs
<1> HIDE DEF x
<1>6. QueryInv(x)
  BY <1>1, <1>3, <1>5 DEF QueryInv, Cached, Unversioned, HasTree
<1> QED BY <1>1, <1>4, <1>5, <1>6, PlainStep, ZenonT(60)


LEMMA ChangeStep ==
    ASSUME IInv,
           ExternalChange \/ PutInstall \/ (\E p \in puts : PutAnswer(p))
             \/ WatcherHandle \/ WatcherError \/ InvalidateOwed
    PROVE  IInv'
<1>1. /\ Types /\ CacheInv /\ TokenInv /\ \A c \in Clients : QueryInv(query[c])
      /\ snapshot.valid => snapshot.version # 0
  BY DEF IInv
<1>2. /\ Types' /\ UNCHANGED Others /\ disk <= disk' /\ known <= known'
      /\ \/ known' = known /\ gen' = gen
         \/ gen' = gen + 1
  BY <1>1, ChangeTypes
<1>3. disk' \in Nat /\ known' \in Nat
  BY <1>2 DEF Types
<1>4. \A c \in Clients : CacheInv' /\ QueryInv(query[c])'
  BY <1>1, <1>2, <1>3, ChangeKeeps
<1>5. UNCHANGED <<snapshot, generation, search, git, digest, query, mem>>
  BY <1>2 DEF Others, cacheVars
<1>6. CacheInv'
  <2>1. CASE known' = known /\ gen' = gen
    BY <1>1, <1>5, <2>1, Zenon DEF CacheInv, Current
  <2>2. CASE gen' = gen + 1
    BY <1>1, <1>5, <2>2 DEF CacheInv, Current, EntryType, Types
  <2> QED BY <1>2, <2>1, <2>2, Zenon
<1>7. TokenInv'
  <2>1. \A n, t : Token(n, t)' <=> Token(n, t)
    BY <1>5 DEF Token
  <2> QED BY <1>1, <1>5, <2>1, TokenKeeps, Zenon
<1> QED BY <1>1, <1>2, <1>4, <1>5, <1>6, <1>7 DEF IInv

\* What a step of a query has to establish when it changes a cache or an answer.
LEMMA CacheStep ==
    ASSUME IInv, UNCHANGED changeVars,
           NEW c \in Clients, NEW r \in Query, query' = [query EXCEPT ![c] = r], QueryInv(r),
           generation' \in Nat, queries' \in Nat,
           snapshot' \in EntryType, search' \in EntryType, git' \in EntryType,
           digest' \in [Kinds -> EntryType], mem' \in [Clients -> Answer],
           CacheInv', TokenInv', (snapshot.valid => snapshot.version # 0)'
    PROVE  IInv'
<1>1. Types /\ \A d \in Clients : QueryInv(query[d])
  BY DEF IInv
<1>2. UNCHANGED <<disk, queue, puts, healthy, owed, gen, known>>
  BY DEF changeVars
<1>3. query' \in [Clients -> Query] /\ (\A d \in Clients : QueryInv(query[d]))'
  BY <1>1, LocalStep, ZenonT(60)
<1>4. Types'
  BY <1>1, <1>2, <1>3 DEF Types
<1> QED BY <1>3, <1>4, Zenon DEF IInv

LEMMA TokenNew ==
    ASSUME TokenInv, generation \in Nat, generation' = generation + 1, NEW u,
           \A n \in Nat \ {0}, t \in 0 .. MaxChanges :
               Token(n, t)' => Token(n, t) \/ (n = generation + 1 /\ t = u)
    PROVE  TokenInv'
<1> SUFFICES ASSUME NEW n \in Nat \ {0}, NEW t \in 0 .. MaxChanges, NEW s \in 0 .. MaxChanges
             PROVE  /\ Token(n, t)' => n <= generation'
                    /\ Token(n, t)' /\ Token(n, s)' => t = s
  BY DEF TokenInv
<1>1. /\ Token(n, t) => n <= generation
      /\ Token(n, s) => n <= generation
      /\ Token(n, t) /\ Token(n, s) => t = s
  BY DEF TokenInv
<1>2. /\ Token(n, t)' => Token(n, t) \/ (n = generation + 1 /\ t = u)
      /\ Token(n, s)' => Token(n, s) \/ (n = generation + 1 /\ s = u)
  OBVIOUS
<1> QED BY <1>1, <1>2

LEMMA EntryTyped ==
    ASSUME NEW v \in Values, NEW n \in Nat, NEW g \in Nat
    PROVE  /\ Entry(v, n, g) \in EntryType /\ Entry(v, n, g).valid /\ Entry(v, n, g).value = v
           /\ Entry(v, n, g).version = n /\ Entry(v, n, g).observed = g
BY DEF Entry, EntryType

LEMMA NoEntryTyped ==
    /\ NoEntry \in EntryType /\ ~NoEntry.valid /\ NoEntry.version = 0 /\ NoEntry.observed = 0
    /\ All(0) \in Values
<1>1. All(0) \in Values
  BY IndexAssumption DEF All, Values
<1> QED BY <1>1 DEF NoEntry, EntryType, NoVersion

LEMMA PublishStep ==
    ASSUME IInv, NEW c \in Clients, Publish(c)
    PROVE  IInv'
<1> DEFINE r == query[c]
           x == SearchGated([r EXCEPT !.start = 0, !.try = 0, !.version = generation + 1])
<1>1. /\ gen \in Nat /\ known \in Nat /\ generation \in Nat /\ queries \in Nat
      /\ QueryInv(r) /\ r \in Query /\ CacheInv /\ TokenInv
      /\ query \in [Clients -> Query] /\ mem \in [Clients -> Answer]
      /\ search \in EntryType /\ git \in EntryType /\ digest \in [Kinds -> EntryType]
  BY Basics DEF IInv
<1>2. r.pc = "publish"
  BY DEF Publish, At
<1>3. /\ UNCHANGED changeVars /\ UNCHANGED <<search, git, digest, mem, queries, gen, known>>
      /\ query' = [query EXCEPT ![c] = x] /\ generation' = generation + 1
      /\ snapshot' = Entry(r.value, generation + 1, r.start)
  BY Zenon DEF Publish, Set, q, Quiet, changeVars
<1>4. r.value \in Values /\ r.start \in Nat /\ generation + 1 \in Nat /\ r.start <= gen
  BY <1>1 DEF Query, QueryInv
<1>5. /\ snapshot' \in EntryType /\ snapshot'.value = r.value /\ snapshot'.version = generation + 1
      /\ snapshot'.observed = r.start
  BY <1>3, <1>4, EntryTyped
<1>6. x \in Query /\ QueryInv(x) /\ x.version = generation + 1 /\ x.value.tree = r.value.tree
  BY <1>2, <1>4, Released, ZenonT(60)
<1>7. CacheInv'
  <2>1. r.start = gen => known <= r.value.tree
    BY <1>1, <1>2 DEF QueryInv
  <2> QED BY <1>1, <1>3, <1>4, <1>5, <2>1, ZenonT(60) DEF CacheInv, Current
<1> HIDE DEF x
<1>8. query'[c] = x /\ \A d \in Clients : d # c => query'[d] = query[d]
  BY <1>1, <1>3, ZenonT(60)
<1>9. TokenInv'
  <2>1. ASSUME NEW n \in Nat \ {0}, NEW t \in 0 .. MaxChanges, Token(n, t)'
        PROVE  Token(n, t) \/ (n = generation + 1 /\ t = r.value.tree)
    <3>1. CASE \E d \in Clients : query'[d].version = n /\ query'[d].value.tree = t
      BY <1>6, <1>8, <3>1 DEF Token
    <3>2. CASE snapshot'.version = n /\ snapshot'.value.tree = t
      BY <1>5, <3>2, Zenon
    <3>3. CASE /\ ~ \E d \in Clients : query'[d].version = n /\ query'[d].value.tree = t
               /\ ~ (snapshot'.version = n /\ snapshot'.value.tree = t)
      BY <1>3, <2>1, <3>3, Zenon DEF Token
    <3> QED BY <3>1, <3>2, <3>3, SMTT(60)
  <2> QED BY <1>1, <1>3, <2>1, TokenNew, SMTT(60)
<1>10. (snapshot.valid => snapshot.version # 0)'
  BY <1>1, <1>5
<1> QED BY <1>1, <1>3, <1>4, <1>5, <1>6, <1>7, <1>9, <1>10, CacheStep, ZenonT(60)


\* The query has its answer.
LEMMA Ended ==
    ASSUME IInv, NEW r \in Query, QueryInv(r), r.pc \in {"search_end", "git_end"}
    PROVE  LET x == [r EXCEPT !.pc = "finish", !.start = 0]
           IN  x \in Query /\ QueryInv(x) /\ x.version = r.version /\ x.value = r.value
<1> DEFINE x == [r EXCEPT !.pc = "finish", !.start = 0]
<1>1. gen \in Nat
  BY Zenon DEF IInv, Types
<1>2. r.seen <= disk /\ r.observed <= gen /\ (r.observed = gen => known <= r.seen)
  BY Zenon DEF QueryInv
<1>3. Covers(r.value, r.seen) /\ r.seen <= r.value.tree
  BY DEF QueryInv, HasTree, Covers
<1>4. /\ x \in Query /\ x.pc = "finish" /\ x.value = r.value /\ x.seen = r.seen
      /\ x.observed = r.observed /\ x.start = 0 /\ x.version = r.version
  BY ZenonT(60) DEF Query, PCs
<1> HIDE DEF x
<1>5. QueryInv(x)
  BY <1>1, <1>2, <1>3, <1>4 DEF QueryInv, Cached, Unversioned, HasTree
<1> QED BY <1>4, <1>5 DEF x

LEMMA SearchEndStep ==
    ASSUME IInv, NEW c \in Clients, SearchEnd(c)
    PROVE  IInv'
<1> DEFINE r == query[c]
           x == [r EXCEPT !.pc = "finish", !.start = 0]
<1>1. /\ gen \in Nat /\ known \in Nat /\ generation \in Nat /\ queries \in Nat
      /\ QueryInv(r) /\ r \in Query /\ CacheInv /\ TokenInv
      /\ query \in [Clients -> Query] /\ mem \in [Clients -> Answer]
      /\ snapshot \in EntryType /\ search \in EntryType /\ git \in EntryType
      /\ digest \in [Kinds -> EntryType] /\ (snapshot.valid => snapshot.version # 0)
  BY Basics DEF IInv
<1>2. r.pc = "search_end"
  BY DEF SearchEnd, At
<1>3. /\ UNCHANGED changeVars /\ UNCHANGED <<snapshot, generation, git, digest, mem, queries, gen, known>>
      /\ query' = [query EXCEPT ![c] = x]
      /\ search' \in {search, NoEntry} \/ (r.start = gen /\ search' = Entry(r.value, r.version, gen))
  BY Zenon DEF SearchEnd, Set, q, Quiet, changeVars
<1>4. /\ r.value \in Values /\ r.version \in Nat /\ r.value.list = r.value.tree
      /\ r.start = gen => known <= r.value.content
  BY <1>1, <1>2 DEF Query, QueryInv
<1>5. \/ search' \in {search, NoEntry}
      \/ /\ search' \in EntryType /\ search'.value = r.value /\ search'.version = r.version
         /\ search'.observed = gen /\ known <= r.value.content
  BY <1>1, <1>3, <1>4, EntryTyped
<1>6. x \in Query /\ QueryInv(x) /\ x.version = r.version /\ x.value = r.value
  BY <1>1, <1>2, Ended, ZenonT(60)
<1>7. CacheInv'
  BY <1>1, <1>3, <1>5, NoEntryTyped DEF CacheInv, Current
<1> HIDE DEF x
<1>8. query'[c] = x /\ \A d \in Clients : d # c => query'[d] = query[d]
  BY <1>1, <1>3
<1>9. TokenInv'
  <2>1. ASSUME NEW n \in Nat \ {0}, NEW t \in 0 .. MaxChanges, Token(n, t)'
        PROVE  Token(n, t)
    <3>1. CASE \E d \in Clients : query'[d].version = n /\ query'[d].value.tree = t
      BY <1>6, <1>8, <3>1, ZenonT(60) DEF Token
    <3>2. CASE search'.version = n /\ search'.value.list = t
      BY <1>4, <1>5, <3>2, NoEntryTyped, Zenon DEF Token
    <3>3. CASE /\ ~ \E d \in Clients : query'[d].version = n /\ query'[d].value.tree = t
               /\ ~ (search'.version = n /\ search'.value.list = t)
      BY <1>3, <2>1, <3>3 DEF Token
    <3> QED BY <3>1, <3>2, <3>3, SMTT(60)
  <2> QED BY <1>1, <1>3, <2>1, TokenKeeps
<1> QED BY <1>1, <1>3, <1>5, <1>6, <1>7, <1>9, NoEntryTyped, CacheStep, ZenonT(60)

LEMMA GitEndStep ==
    ASSUME IInv, NEW c \in Clients, GitEnd(c)
    PROVE  IInv'
<1> DEFINE r == query[c]
           x == [r EXCEPT !.pc = "finish", !.start = 0]
<1>1. /\ gen \in Nat /\ known \in Nat /\ generation \in Nat /\ queries \in Nat
      /\ QueryInv(r) /\ r \in Query /\ CacheInv /\ TokenInv
      /\ query \in [Clients -> Query] /\ mem \in [Clients -> Answer]
      /\ snapshot \in EntryType /\ search \in EntryType /\ git \in EntryType
      /\ digest \in [Kinds -> EntryType] /\ (snapshot.valid => snapshot.version # 0)
  BY Basics DEF IInv
<1>2. r.pc = "git_end"
  BY DEF GitEnd, At
<1>3. /\ UNCHANGED changeVars /\ UNCHANGED <<snapshot, generation, search, digest, mem, queries, gen, known>>
      /\ query' = [query EXCEPT ![c] = x]
      /\ git' \in {git, NoEntry} \/ (r.start = gen /\ git' = Entry(r.value, 0, gen))
  BY Zenon DEF GitEnd, Set, q, Quiet, changeVars, NoVersion
<1>4. r.value \in Values /\ (r.start = gen => Covers(r.value, known))
  BY <1>1, <1>2 DEF Query, QueryInv
<1>5. \/ git' \in {git, NoEntry}
      \/ /\ git' \in EntryType /\ git'.value = r.value /\ git'.observed = gen /\ Covers(r.value, known)
  <2>1. 0 \in Nat
    BY ZenonT(60)
  <2>2. /\ Entry(r.value, 0, gen) \in EntryType /\ Entry(r.value, 0, gen).value = r.value
        /\ Entry(r.value, 0, gen).observed = gen
    <3>1. r.value \in Values /\ gen \in Nat
      BY <1>1, <1>4
    <3>2. ASSUME NEW v \in Values PROVE
             /\ Entry(v, 0, gen) \in EntryType /\ Entry(v, 0, gen).value = v
             /\ Entry(v, 0, gen).observed = gen
      BY <3>1, <2>1 DEF Entry, EntryType
    <3> QED BY <3>1, <3>2
  <2> QED BY <1>3, <1>4, <2>2
<1>6. x \in Query /\ QueryInv(x) /\ x.version = r.version /\ x.value = r.value
  BY <1>1, <1>2, Ended, ZenonT(60)
<1>7. CacheInv'
  <2>1. Covers(git.value, known)' <=> Covers(git'.value, known)
    BY <1>3 DEF Covers
  <2> QED BY <1>1, <1>3, <1>5, <2>1, NoEntryTyped DEF CacheInv, Current, Covers
<1> HIDE DEF x
<1>8. query'[c] = x /\ \A d \in Clients : d # c => query'[d] = query[d]
  BY <1>1, <1>3, SMTT(60)
<1>9. TokenInv'
  <2>1. ASSUME NEW n \in Nat \ {0}, NEW t \in 0 .. MaxChanges, Token(n, t)'
        PROVE  Token(n, t)
    <3>1. CASE \E d \in Clients : query'[d].version = n /\ query'[d].value.tree = t
      BY <1>6, <1>8, <3>1, Zenon DEF Token
    <3>2. CASE ~ \E d \in Clients : query'[d].version = n /\ query'[d].value.tree = t
      BY <1>3, <2>1, <3>2 DEF Token
    <3> QED BY <3>1, <3>2, ZenonT(60)
  <2> QED BY <1>1, <1>3, <2>1, TokenKeeps
<1> QED BY <1>1, <1>3, <1>5, <1>6, <1>7, <1>9, NoEntryTyped, CacheStep, ZenonT(60)


\* A query that is over is idle again, and idle queries hold nothing.
LEMMA IdleInv ==
    ASSUME IInv
    PROVE  Idle \in Query /\ QueryInv(Idle) /\ Idle.version = 0 /\ Idle.pc = "idle"
<1>1. disk \in Nat /\ gen \in Nat /\ MaxChanges \in Nat /\ All(0) \in Values
  BY IndexAssumption DEF IInv, Types, All, Values
<1>2. 0 \in 0 .. 2 /\ 0 \in 0 .. MaxChanges
  BY <1>1
<1>3. Idle \in Query
  BY <1>1, <1>2, Zenon DEF Idle, Query, PCs, Kinds, NoVersion
<1>4. /\ Idle.pc = "idle" /\ Idle.version = 0 /\ Idle.seen = 0 /\ Idle.observed = 0 /\ Idle.start = 0
  BY Zenon DEF Idle, NoVersion
<1>5. QueryInv(Idle)
  BY <1>1, <1>4 DEF QueryInv, Cached, Unversioned, HasTree
<1> QED BY <1>3, <1>4, <1>5

LEMMA QueryFailsStep ==
    ASSUME IInv, NEW c \in Clients, QueryFails(c)
    PROVE  IInv'
<1>1. query' = [query EXCEPT ![c] = Idle] /\ UNCHANGED <<changeVars, cacheVars, mem, queries>>
  BY DEF QueryFails, Set, Quiet
<1>2. queries \in Nat
  BY DEF IInv, Types
<1> QED BY <1>1, <1>2, IdleInv, PlainStep, ZenonT(60)

LEMMA DigestHitStep ==
    ASSUME IInv, NEW c \in Clients, DigestHit(c)
    PROVE  /\ IInv'
           /\ mem'[c].value \in Values /\ Covers(mem'[c].value, query[c].seen)
           /\ UNCHANGED gen /\ \A d \in Clients : d # c => query'[d] = query[d]
<1> DEFINE r == query[c]
           e == digest[r.kind]
<1>1. /\ gen \in Nat /\ known \in Nat /\ generation \in Nat /\ queries \in Nat
      /\ r \in Query /\ CacheInv /\ TokenInv
      /\ query \in [Clients -> Query] /\ mem \in [Clients -> Answer] /\ mem[c] \in Answer
      /\ snapshot \in EntryType /\ search \in EntryType /\ git \in EntryType
      /\ digest \in [Kinds -> EntryType] /\ (snapshot.valid => snapshot.version # 0)
  BY Basics DEF IInv
<1>2. r.pc \in Cached /\ Current(e) /\ e.value = mem[c].value
  BY Zenon DEF DigestHit, At, Cached, q
<1>3. r.seen <= known /\ r.seen \in Nat
  BY <1>2, Underway
<1>4. /\ UNCHANGED changeVars /\ UNCHANGED <<cacheVars, queries, gen, known>>
      /\ UNCHANGED <<snapshot, generation, search, git, digest>>
      /\ query' = [query EXCEPT ![c] = Idle]
      /\ mem' = [mem EXCEPT ![c].version = e.version]
  BY DEF DigestHit, Set, q, changeVars, cacheVars
<1>5. r.kind \in Kinds
  BY <1>1, ZenonT(60) DEF Query
<1>6. e \in EntryType /\ e.version \in Nat /\ e.value \in Values /\ Covers(e.value, known)
  BY <1>1, <1>2, <1>5 DEF EntryType, CacheInv
<1>7. /\ mem' \in [Clients -> Answer] /\ mem'[c].version = e.version /\ mem'[c].value = e.value
      /\ \A d \in Clients : d # c => mem'[d] = mem[d]
  BY <1>1, <1>2, <1>4, <1>6 DEF Answer
<1>8. CacheInv'
  BY <1>1, <1>4 DEF CacheInv, Current
<1>9. Idle \in Query /\ QueryInv(Idle) /\ Idle.version = 0
  BY IdleInv
<1>10. query'[c] = Idle /\ \A d \in Clients : d # c => query'[d] = query[d]
  BY <1>1, <1>4
<1>11. TokenInv'
  <2>1. ASSUME NEW n \in Nat \ {0}, NEW t \in 0 .. MaxChanges, Token(n, t)'
        PROVE  Token(n, t)
    <3>1. CASE \E d \in Clients : query'[d].version = n /\ query'[d].value.tree = t
      BY <1>9, <1>10, <3>1, Zenon DEF Token
    <3>2. CASE \E d \in Clients : mem'[d].version = n /\ mem'[d].value.tree = t
      BY <1>5, <1>7, <3>2, ZenonT(60) DEF Token
    <3>3. CASE /\ ~ \E d \in Clients : query'[d].version = n /\ query'[d].value.tree = t
               /\ ~ \E d \in Clients : mem'[d].version = n /\ mem'[d].value.tree = t
      BY <1>4, <2>1, <3>3 DEF Token
    <3> QED BY <3>1, <3>2, <3>3, Zenon
  <2> QED BY <1>1, <1>4, <2>1, TokenKeeps, Zenon
<1>12. IInv'
  BY <1>1, <1>4, <1>7, <1>8, <1>9, <1>11, CacheStep, ZenonT(60)
<1>13. Covers(mem'[c].value, r.seen)
  <2>1. e.value.tree \in Nat /\ e.value.list \in Nat /\ e.value.content \in Nat
    BY <1>6, SMTT(60) DEF Values
  <2> QED BY <1>1, <1>3, <1>6, <1>7, <2>1, SMTT(60) DEF Covers
<1> QED BY <1>4, <1>6, <1>7, <1>10, <1>12, <1>13, Zenon


LEMMA FinishStep ==
    ASSUME IInv, NEW c \in Clients, Finish(c)
    PROVE  /\ IInv'
           /\ mem'[c].value \in Values /\ Covers(mem'[c].value, query[c].seen)
           /\ \A d \in Clients : d # c => query'[d] = query[d]
<1> DEFINE r == query[c]
           m == mem[c]
           w == IF r.validate /\ m.value = r.value THEN m.value
                ELSE [r.value EXCEPT !.tree = IF r.validate /\ m.version # NoVersion /\ m.version = r.version
                                              THEN m.value.tree ELSE r.value.tree]
<1>1. /\ gen \in Nat /\ known \in Nat /\ generation \in Nat /\ queries \in Nat
      /\ QueryInv(r) /\ r \in Query /\ CacheInv /\ TokenInv
      /\ query \in [Clients -> Query] /\ mem \in [Clients -> Answer] /\ m \in Answer
      /\ snapshot \in EntryType /\ search \in EntryType /\ git \in EntryType
      /\ digest \in [Kinds -> EntryType] /\ (snapshot.valid => snapshot.version # 0)
  BY Basics DEF IInv
<1>2. r.pc = "finish"
  BY DEF Finish, At
<1>3. /\ UNCHANGED changeVars /\ UNCHANGED <<snapshot, generation, search, git, queries, gen, known>>
      /\ query' = [query EXCEPT ![c] = Idle]
      /\ mem' = [mem EXCEPT ![c] = [kind |-> r.kind, version |-> r.version, value |-> w]]
      /\ \/ digest' = digest
         \/ /\ r.observed = gen
            /\ digest' = [digest EXCEPT ![r.kind] = Entry(r.value, r.version, r.observed)]
  BY <1>1, Zenon DEF Finish, Set, q, changeVars
<1>4. /\ r.value \in Values /\ r.version \in Nat /\ r.kind \in Kinds /\ r.seen \in Nat
      /\ r.value.tree \in 0 .. MaxChanges /\ r.value.list \in 0 .. MaxChanges
      /\ r.value.content \in 0 .. MaxChanges
      /\ m.value \in Values /\ m.value.tree \in 0 .. MaxChanges /\ m.version \in Nat
  BY <1>1, SMTT(60) DEF Query, Values, Answer
<1>5. Covers(r.value, r.seen) /\ (r.observed = gen => known <= r.seen)
  BY <1>1, <1>2, SMTT(60) DEF QueryInv
<1>6. m.version # NoVersion /\ m.version = r.version => m.value.tree = r.value.tree
  <2>1. Token(r.version, r.value.tree) /\ Token(m.version, m.value.tree)
    BY DEF Token
  <2>2. \A n \in Nat \ {0}, t, u \in 0 .. MaxChanges : Token(n, t) /\ Token(n, u) => t = u
    BY <1>1, Zenon DEF TokenInv
  <2>3. m.version # NoVersion => m.version \in Nat \ {0}
    BY <1>4, Zenon DEF NoVersion
  <2> HIDE DEF r, m
  <2> QED BY <1>4, <2>1, <2>2, <2>3, ZenonT(60)
<1>7. /\ w \in Values /\ w.tree = r.value.tree /\ w.list = r.value.list
      /\ w.content = r.value.content
  <2>1. CASE r.validate /\ m.value = r.value
    BY <1>4, <2>1, Zenon
  <2>2. CASE ~(r.validate /\ m.value = r.value)
    <3>1. w = [r.value EXCEPT !.tree = r.value.tree]
      BY <1>6, <2>2, Zenon
    <3> QED BY <1>4, <3>1 DEF Values
  <2> QED BY <2>1, <2>2
<1> HIDE DEF w, r, m
<1>8. /\ mem' \in [Clients -> Answer] /\ mem'[c].version = r.version /\ mem'[c].value = w
      /\ \A d \in Clients : d # c => mem'[d] = mem[d]
  BY <1>1, <1>3, <1>4, <1>7, ZenonT(60) DEF Answer
<1>9. /\ digest' \in [Kinds -> EntryType]
      /\ \A k \in Kinds : \/ digest'[k] = digest[k]
                          \/ /\ digest'[k].value = r.value /\ digest'[k].version = r.version
                             /\ digest'[k].observed = gen /\ r.observed = gen
  <2> DEFINE e == Entry(r.value, r.version, r.observed)
  <2>1. r.observed = gen => /\ e \in EntryType /\ e.value = r.value /\ e.version = r.version
                            /\ e.observed = gen
    BY <1>1, <1>4 DEF e, Entry, EntryType
  <2> HIDE DEF e
  <2>2. digest' = digest \/ (r.observed = gen /\ digest' = [digest EXCEPT ![r.kind] = e])
    BY <1>3, SMTT(60) DEF e
  <2> QED BY <1>1, <1>4, <2>1, <2>2, Zenon
<1>10. CacheInv'
  <2>1. r.observed = gen => Covers(r.value, known)
    BY <1>1, <1>4, <1>5, SMTT(60) DEF Covers
  <2>2. \A k \in Kinds : digest'[k].observed <= gen
    BY <1>1, <1>9, SMTT(60) DEF CacheInv
  <2>3. \A k \in Kinds : digest'[k].valid /\ digest'[k].observed = gen => Covers(digest'[k].value, known)
    BY <1>1, <1>9, <2>1, Zenon DEF CacheInv, Current
  <2>4. Covers(git.value, known)' <=> Covers(git.value, known)
    BY <1>3, Zenon DEF Covers
  <2>5. \A k \in Kinds : Covers(digest[k].value, known)' <=> Covers(digest'[k].value, known)
    BY <1>3, Zenon DEF Covers
  <2> QED BY <1>1, <1>3, <2>2, <2>3, <2>4, <2>5, ZenonT(60) DEF CacheInv, Current
<1>11. Idle \in Query /\ QueryInv(Idle) /\ Idle.version = 0
  BY IdleInv
<1>12. query'[c] = Idle /\ \A d \in Clients : d # c => query'[d] = query[d]
  BY <1>1, <1>3, Zenon
<1>13. TokenInv'
  <2>1. ASSUME NEW n \in Nat \ {0}, NEW t \in 0 .. MaxChanges, Token(n, t)'
        PROVE  Token(n, t)
    <3>0. Token(r.version, r.value.tree)
      BY ZenonT(60) DEF Token, r
    <3>1. CASE \E d \in Clients : query'[d].version = n /\ query'[d].value.tree = t
      BY <1>11, <1>12, <3>1 DEF Token
    <3>2. CASE \E d \in Clients : mem'[d].version = n /\ mem'[d].value.tree = t
      <4>1. PICK d \in Clients : mem'[d].version = n /\ mem'[d].value.tree = t
        BY <3>2, Zenon
      <4>2. CASE d = c
        BY <1>7, <1>8, <3>0, <4>1, <4>2, Zenon
      <4>3. CASE d # c
        BY <1>8, <4>1, <4>3, Zenon DEF Token
      <4> QED BY <4>2, <4>3, Zenon
    <3>3. CASE \E k \in Kinds : digest'[k].version = n /\ digest'[k].value.tree = t
      <4>1. PICK k \in Kinds : digest'[k].version = n /\ digest'[k].value.tree = t
        BY <3>3, Zenon
      <4>2. CASE digest'[k] = digest[k]
        BY <4>1, <4>2, Zenon DEF Token
      <4>3. CASE digest'[k].value = r.value /\ digest'[k].version = r.version
        BY <3>0, <4>1, <4>3, ZenonT(60)
      <4> QED BY <1>9, <4>2, <4>3, Zenon
    <3>4. CASE \/ snapshot'.version = n /\ snapshot'.value.tree = t
               \/ search'.version = n /\ search'.value.list = t
      BY <1>3, <3>4 DEF Token
    <3> QED BY <2>1, <3>1, <3>2, <3>3, <3>4, Zenon DEF Token
  <2> QED BY <1>1, <1>3, <2>1, TokenKeeps, Zenon
<1>14. IInv'
  BY <1>1, <1>3, <1>8, <1>9, <1>10, <1>11, <1>13, CacheStep, ZenonT(60)
<1>15. Covers(mem'[c].value, query[c].seen)
  BY <1>5, <1>7, <1>8 DEF Covers, r
<1> QED BY <1>7, <1>8, <1>12, <1>14, <1>15, Zenon


-------------------------------------------------------------------------------
(* The invariant, and what follows from it.                                *)

LEMMA InitInv == Init => IInv
<1> SUFFICES ASSUME Init PROVE IInv
  OBVIOUS
<1>1. MaxChanges \in Nat /\ All(0) \in Values
  BY IndexAssumption DEF All, Values
<1>2. NoEntry \in EntryType /\ ~NoEntry.valid /\ NoEntry.version = 0 /\ NoEntry.observed = 0
  BY NoEntryTyped, Zenon
<1>3. /\ disk = 0 /\ queue = 0 /\ puts = {} /\ healthy = TRUE /\ owed = 0 /\ gen = 0 /\ known = 0
      /\ snapshot = NoEntry /\ generation = 0 /\ search = NoEntry /\ git = NoEntry
      /\ digest = [k \in Kinds |-> NoEntry] /\ query = [c \in Clients |-> Idle] /\ queries = 0
  BY Zenon DEF Init
<1>4. Idle \in Query
  <2>1. 0 \in 0 .. 2 /\ 0 \in 0 .. MaxChanges
    BY <1>1, SMTT(60)
  <2> QED BY <1>1, <2>1 DEF Idle, Query, PCs, Kinds, NoVersion
<1>5. /\ Idle.pc = "idle" /\ Idle.version = 0 /\ Idle.seen = 0 /\ Idle.observed = 0 /\ Idle.start = 0
  BY Zenon DEF Idle, NoVersion
<1>6. mem \in [Clients -> Answer] /\ \A c \in Clients : mem[c].version = 0
  BY <1>1 DEF Init, Answer, NoVersion
<1>7. Types
  BY <1>1, <1>2, <1>3, <1>4, <1>6, SMTT(60) DEF Types
<1>8. CacheInv
  BY <1>2, <1>3 DEF CacheInv, Current
<1>9. \A c \in Clients : QueryInv(query[c])
  <2>1. QueryInv(Idle)
    BY <1>3, <1>5, SMTT(60) DEF QueryInv, Cached, Unversioned, HasTree
  <2> QED BY <1>3, <2>1, Zenon
<1>10. TokenInv
  BY <1>2, <1>3, <1>5, <1>6, ZenonT(60) DEF TokenInv, Token
<1> QED BY <1>2, <1>3, <1>7, <1>8, <1>9, <1>10 DEF IInv

\* Every step keeps the invariant.
LEMMA NextInv == IInv /\ [Next]_vars => IInv'
<1> SUFFICES ASSUME IInv, [Next]_vars PROVE IInv'
  OBVIOUS
<1>1. CASE ExternalChange \/ PutInstall \/ (\E p \in puts : PutAnswer(p))
             \/ WatcherHandle \/ WatcherError \/ InvalidateOwed
  BY <1>1, ChangeStep, SMTT(60)
<1>2. ASSUME NEW c \in Clients, NEW kind \in KindsOf[c], NEW validate \in BOOLEAN,
             Begin(c, kind, validate)
      PROVE  IInv'
  BY <1>2, BeginStep, ZenonT(60)
<1>3. ASSUME NEW c \in Clients, Step(c) PROVE IInv'
  BY <1>3, DigestHitStep, DigestMissStep, TreeHitStep, TreeRebuildStep, ReadStep, ScanEndStep, PublishStep,
     SearchHitStep, SearchRebuildStep, SearchReadStep, SearchEndStep, GitHitStep, GitMissStep,
     GitEndStep, FinishStep, QueryFailsStep, ZenonT(60) DEF Step
<1>4. CASE UNCHANGED vars
  <2>1. UNCHANGED <<disk, queue, puts, healthy, owed, gen, known, snapshot, generation, search, git,
                    digest, query, mem, queries>>
    BY <1>4, SMTT(60) DEF vars, changeVars, cacheVars
  <2>2. Types'
    BY <2>1, Zenon DEF IInv, Types
  <2>3. CacheInv'
    BY <2>1, ZenonT(60) DEF IInv, CacheInv, Current, Covers
  <2>6. \A c \in Clients : QueryInv(query[c])'
    <3> SUFFICES ASSUME NEW c \in Clients PROVE QueryInv(query[c])'
      OBVIOUS
    <3>1. QueryInv(query[c])
      BY DEF IInv
    <3> QED BY <2>1, <3>1 DEF QueryInv, Covers
  <2>4. \A n, t : Token(n, t)' <=> Token(n, t)
    BY <2>1, ZenonT(60) DEF Token
  <2>5. TokenInv'
    BY <2>1, <2>4, TokenKeeps DEF IInv
  <2> QED BY <2>1, <2>2, <2>3, <2>5, <2>6 DEF IInv
<1> QED BY <1>1, <1>2, <1>3, <1>4 DEF Next

LEMMA Always == Spec => []IInv
BY InitInv, NextInv, PTL DEF Spec

\* A tree token names one tree, for every number of clients, changes and queries:
\* a client that presents the token of the published snapshot may keep its tree
\* (WorkspaceVersion.generation, tree_unchanged).
THEOREM TokensNameTrees == Spec => []TokenNamesTree
<1>1. IInv => TokenNamesTree
  <2> SUFFICES ASSUME IInv, NEW c \in Clients, snapshot.valid, mem[c].version = snapshot.version
               PROVE  mem[c].value.tree = snapshot.value.tree
    BY Zenon DEF TokenNamesTree
  <2>1. /\ snapshot.version \in Nat \ {0} /\ snapshot.value.tree \in 0 .. MaxChanges
        /\ mem[c].value.tree \in 0 .. MaxChanges
    BY SMTT(60) DEF IInv, Types, EntryType, Answer, Values
  <2>2. Token(snapshot.version, snapshot.value.tree) /\ Token(snapshot.version, mem[c].value.tree)
    BY ZenonT(60) DEF Token
  <2> QED BY <2>1, <2>2, ZenonT(60) DEF IInv, TokenInv
<1> QED BY <1>1, Always, PTL

\* Only lookup_digest and the response end a query.
LEMMA QueryEnds ==
    ASSUME IInv, Next, NEW c \in Clients, query[c].pc \in {"digest", "finish"}, query'[c].pc = "idle"
    PROVE  DigestHit(c) \/ Finish(c)
<1>1. query \in [Clients -> Query]
  BY SMTT(60) DEF IInv, Types
<1>2. ~(ExternalChange \/ PutInstall \/ (\E p \in puts : PutAnswer(p))
          \/ WatcherHandle \/ WatcherError \/ InvalidateOwed)
  BY Zenon DEF ExternalChange, PutInstall, PutAnswer, WatcherHandle, WatcherError, InvalidateOwed
<1>3. ASSUME NEW d \in Clients, NEW kind \in KindsOf[d], NEW validate \in BOOLEAN,
             Begin(d, kind, validate)
      PROVE  FALSE
  BY <1>1, <1>3, SMTT(60) DEF Begin, At, Set
<1>4. PICK d \in Clients : Step(d)
  BY <1>2, <1>3, ZenonT(60) DEF Next
<1>5. PICK x : query' = [query EXCEPT ![d] = x]
  BY <1>4 DEF Step, DigestHit, DigestMiss, TreeHit, TreeRebuild, ScanRead, ScanEnd, Publish, SearchHit,
     SearchRebuild, SearchRead, SearchEnd, GitHit, GitMiss, GitRead, GitEnd, Finish, QueryFails, Set, Go
<1>6. d = c
  BY <1>1, <1>5, SMTT(60)
<1> DEFINE r == query[c]
<1>7. r \in Query /\ r.kind \in {"scan", "git"} /\ healthy \in BOOLEAN
  BY <1>1, Zenon DEF Query, Kinds, IInv, Types
<1>9. ~DigestMiss(c)
  <2>1. Gated(r).pc # "idle"
    BY <1>7 DEF Gated, Query
  <2> QED BY <1>1, <2>1 DEF DigestMiss, Set, q
<1>10. ASSUME NEW y \in Query PROVE SearchGated(y).pc # "idle"
  BY DEF SearchGated, Searched, Query
<1>11. ~TreeHit(c)
  <2>1. snapshot.value \in Values /\ snapshot.version \in Nat
    BY DEF IInv, Types, EntryType
  <2>2. [r EXCEPT !.value = snapshot.value, !.version = snapshot.version] \in Query
    BY <1>7, <2>1, ZenonT(60) DEF Query
  <2> QED BY <1>1, <1>10, <2>2, Zenon DEF TreeHit, Set, q
<1>12. ~ScanEnd(c) /\ ~Publish(c)
  <2>1. generation \in Nat
    BY DEF IInv, Types
  <2>2. ASSUME NEW n \in Nat PROVE [r EXCEPT !.start = 0, !.try = 0, !.version = n] \in Query
    <3>1. 0 \in 0 .. 2
      OBVIOUS
    <3> QED BY <1>7, <3>1, ZenonT(60) DEF Query
  <2>3. ASSUME Publish(c) PROVE FALSE
    <3> DEFINE y == [r EXCEPT !.start = 0, !.try = 0, !.version = generation + 1]
    <3>0. generation + 1 \in Nat /\ 0 \in 0 .. 2
      BY <2>1
    <3>1. y \in Query
      BY <1>7, <3>0, ZenonT(60) DEF Query
    <3>2. query' = [query EXCEPT ![c] = SearchGated(y)]
      BY <2>3 DEF Publish, Set, q
    <3> HIDE DEF y
    <3> QED BY <1>1, <1>10, <3>1, <3>2
  <2>4. ASSUME ScanEnd(c) PROVE FALSE
    <3>1. CASE Go(c, "publish")
      BY <1>1, <3>1 DEF Go, Query
    <3>2. CASE Set(c, [r EXCEPT !.pc = "scan", !.start = gen, !.try = 2])
      BY <1>1, <1>7, <3>2 DEF Set, Query
    <3>3. CASE Set(c, SearchGated([r EXCEPT !.start = 0, !.try = 0, !.version = NoVersion]))
      BY <1>1, <1>10, <2>2, <3>3, ZenonT(60) DEF Set, NoVersion
    <3> QED BY <2>4, <3>1, <3>2, <3>3 DEF ScanEnd, q
  <2> QED BY <2>3, <2>4, Zenon
<1>13. ~(TreeRebuild(c) \/ ScanRead(c) \/ SearchRebuild(c) \/ GitMiss(c) \/ GitRead(c) \/ GitHit(c))
  BY <1>1, <1>7, ZenonT(60) DEF TreeRebuild, ScanRead, SearchRebuild, GitMiss, GitRead, GitHit, Set, q, Query
<1>14. ~(SearchHit(c) \/ SearchRead(c) \/ SearchEnd(c) \/ GitEnd(c))
  BY <1>1, <1>7, ZenonT(60) DEF SearchHit, SearchRead, SearchEnd, GitEnd, Searched, Set, q, Query
<1>15. ~QueryFails(c)
  BY DEF QueryFails, q
<1> QED BY <1>4, <1>6, <1>9, <1>11, <1>12, <1>13, <1>14, <1>15, ZenonT(60) DEF Step

\* No stale answer, for every number of clients, changes and queries: an answer
\* reflects each change the daemon knew of when the query began
\* (invalidation_generation, watcher_healthy, WORKSPACE_STATE).
THEOREM NoStaleAnswer == Spec => Fresh
<1>1. ASSUME IInv, [Next]_vars, NEW c \in Clients, query[c].pc \in {"digest", "finish"}, query'[c].pc = "idle"
      PROVE  mem'[c].value \in [tree : Since(query[c].seen), list : Since(query[c].seen),
                                content : Since(query[c].seen)]
  <2>1. Next
    BY <1>1, Zenon DEF vars
  <2>2. DigestHit(c) \/ Finish(c)
    BY <1>1, <2>1, QueryEnds, Zenon
  <2>3. mem'[c].value \in Values /\ Covers(mem'[c].value, query[c].seen)
    BY <1>1, <2>2, DigestHitStep, FinishStep, Zenon
  <2>4. query[c].seen \in Nat /\ MaxChanges \in Nat
    BY <1>1, IndexAssumption, SMTT(60) DEF IInv, Types, Query
  <2> QED BY <2>3, <2>4, SMTT(60) DEF Since, Values, Covers
<1>2. IInv /\ [Next]_vars
        => [\A c \in Clients : query[c].pc \in {"digest", "finish"} /\ query'[c].pc = "idle" =>
                mem'[c].value \in [tree : Since(query[c].seen), list : Since(query[c].seen),
                                  content : Since(query[c].seen)]]_vars
  BY <1>1
<1> QED BY <1>2, Always, PTL DEF Spec, Fresh
===============================================================================
