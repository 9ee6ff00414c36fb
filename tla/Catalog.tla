------------------------------- MODULE Catalog -------------------------------
(***************************************************************************)
(* How a retrieval reads the semantic catalog of a tenant                  *)
(* (services/retrieval.py) through the graph cache                         *)
(* (services/graph_cache.py), while the program that refreshes the catalog *)
(* writes it.  That program is not in this repository: what is assumed of  *)
(* it is that it adds a row to ask_catalog_refreshes, rewrites the rows of *)
(* each kind, in any order and in as many transactions as it likes, and    *)
(* then marks its row.                                                     *)
(*                                                                         *)
(* Rows are abstracted to the number of the refresh that wrote them.  What *)
(* a retrieval has read is the range of those numbers, lo .. hi: they only *)
(* grow, so the first and the last of several queries for one kind bound   *)
(* the others.  A step of a retrieval is one query, one Redis command or   *)
(* one look at the local cache, which a lock protects.                     *)
(***************************************************************************)
EXTENDS Naturals

CONSTANTS
    Requests,       \* retrievals, one per run
    Procs,          \* processes of the service
    ProcOf,         \* the process of each retrieval
    WithRedis,      \* whether Redis is configured
    MaxRefreshes    \* bound on the refreshes of the catalog

ASSUME CatalogAssumption ==
    /\ ProcOf \in [Requests -> Procs]
    /\ WithRedis \in BOOLEAN
    /\ MaxRefreshes \in Nat

VARIABLES
    begun,      \* the latest row of ask_catalog_refreshes; 0: there is none
    status,     \* the status of that row
    rows,       \* by kind, the refresh whose rows the catalog holds
    local,      \* by process and refresh, GraphCacheService._local_cache
    redis,      \* by refresh, the snapshot in Redis
    req,        \* the retrievals
    told        \* the newest refresh a finished retrieval has read rows of

vars == <<begun, status, rows, local, redis, req, told>>
writerVars == <<begun, status, rows>>
cacheVars == <<local, redis>>

Kinds == {"tables", "columns", "relationships", "aliases", "semantics"}
Versions == 0 .. MaxRefreshes

\* Refresh numbers stand for the refresh id of cache keys and snapshots.  A
\* snapshot of refresh 0 stands for no snapshot.
Snapshots == [refresh : Versions, lo : Versions, hi : Versions]
NoSnapshot == [refresh |-> 0, lo |-> 0, hi |-> 0]

Labels == {"idle", "count", "pack", "local", "redis", "tables", "columns",
           "relationships", "aliases", "setex", "store", "ground", "grounded",
           "searchTables", "searchColumns", "searchAliases",
           "searchRelationships", "expandTables", "expandColumns",
           "expandRelationships", "neighborTables", "neighborColumns",
           "neighborRelationships", "finish", "answered", "refused"}

\* A retrieval: the refresh it asks for and the status it read with it, the
\* snapshot it builds, what it has read, and two numbers for the properties:
\* the newest refresh told of before it began, and the latest one then.
Retrievals ==
    [pc : Labels, latest : Versions,
     known : {"none", "running", "completed", "failed"},
     snapshot : Snapshots, lo : Versions, hi : Versions, floor : Versions]

Idle == [pc |-> "idle", latest |-> 0, known |-> "none",
         snapshot |-> NoSnapshot, lo |-> 0, hi |-> 0, floor |-> 0]

Init ==
    /\ begun = 0
    /\ status = "none"
    /\ rows = [kind \in Kinds |-> 0]
    /\ local = [p \in Procs |-> [r \in 1 .. MaxRefreshes |-> NoSnapshot]]
    /\ redis = [r \in 1 .. MaxRefreshes |-> NoSnapshot]
    /\ req = [q \in Requests |-> Idle]
    /\ told = 0

-----------------------------------------------------------------------------
(* The program that refreshes the catalog. *)

BeginRefresh ==
    /\ status # "running" /\ begun < MaxRefreshes
    /\ begun' = begun + 1
    /\ status' = "running"
    /\ UNCHANGED <<rows, cacheVars, req, told>>

WriteRows(kind) ==
    /\ status = "running" /\ rows[kind] # begun
    /\ rows' = [rows EXCEPT ![kind] = begun]
    /\ UNCHANGED <<begun, status, cacheVars, req, told>>

EndRefresh ==
    /\ status = "running"
    /\ \/ status' = "completed" /\ \A kind \in Kinds : rows[kind] = begun
       \/ status' = "failed"
    /\ UNCHANGED <<begun, rows, cacheVars, req, told>>

Refresh == BeginRefresh \/ (\E kind \in Kinds : WriteRows(kind)) \/ EndRefresh

-----------------------------------------------------------------------------
(* _catalog_status: three queries, and the decision after the last. *)

Go(q, from, to) ==
    /\ req[q].pc = from
    /\ req' = [req EXCEPT ![q].pc = to]

LatestRefresh(q) ==
    /\ req[q].pc = "idle"
    /\ req' = [req EXCEPT ![q] = [@ EXCEPT
                   !.pc = "count", !.latest = begun, !.known = status,
                   !.floor = told]]
    /\ UNCHANGED <<writerVars, cacheVars, told>>

Refused(q) == req' = [req EXCEPT ![q] = [Idle EXCEPT !.pc = "refused"]]

\* Every refresh finds tables, so a catalog that was ever written has some.
CountTables(q) ==
    /\ req[q].pc = "count"
    /\ IF rows["tables"] > 0 THEN Go(q, "count", "pack") ELSE Refused(q)
    /\ UNCHANGED <<writerVars, cacheVars, told>>

\* Variants of Available that the properties rule out: a refresh that is not
\* looked at, or whose status is not, and a failed refresh taken for good.
AvailableWritten(q) == rows["semantics"] > 0
AvailableUnseen(q) == req[q].known # "none" /\ rows["semantics"] > 0
AvailableFailed(q) ==
    req[q].known \in {"completed", "failed"} /\ rows["semantics"] > 0

\* latest, its status, and the semantic pack, which is written with its rows
Available(q) == req[q].known = "completed" /\ rows["semantics"] > 0

PackVersion(q) ==
    /\ req[q].pc = "pack"
    /\ IF Available(q) THEN Go(q, "pack", "local") ELSE Refused(q)
    /\ UNCHANGED <<writerVars, cacheVars, told>>

-----------------------------------------------------------------------------
(* GraphCacheService.load_snapshot. *)

\* A variant of Key that the properties rule out: a key without the refresh.
KeyOfTenant(r) == IF r > 0 THEN 1 ELSE 0

\* _cache_key
Key(r) == r

\* From here on the retrieval works with this snapshot: its range is the first
\* of what the retrieval has read.
Serve(q, snapshot) ==
    req' = [req EXCEPT ![q] = [@ EXCEPT
               !.pc = "ground", !.snapshot = NoSnapshot,
               !.lo = snapshot.lo, !.hi = snapshot.hi]]

StoreLocal(q, snapshot) ==
    local' = [local EXCEPT ![ProcOf[q]][Key(req[q].latest)] = snapshot]

GetLocal(q) ==
    LET cached == local[ProcOf[q]][Key(req[q].latest)]
    IN  /\ req[q].pc = "local"
        /\ IF cached # NoSnapshot
           THEN Serve(q, cached)
           ELSE Go(q, "local", IF WithRedis THEN "redis" ELSE "tables")
        /\ UNCHANGED <<writerVars, cacheVars, told>>

\* A command that raises counts as a miss.
GetRedis(q) ==
    LET cached == redis[Key(req[q].latest)]
    IN  /\ req[q].pc = "redis"
        /\ \/ cached # NoSnapshot /\ Serve(q, cached) /\ StoreLocal(q, cached)
           \/ Go(q, "redis", "tables") /\ UNCHANGED local
        /\ UNCHANGED <<writerVars, redis, told>>

Lower(a, b) == IF a < b THEN a ELSE b
Higher(a, b) == IF a < b THEN b ELSE a

\* What a snapshot is after one more query.
Widened(snapshot, version) ==
    [snapshot EXCEPT !.lo = Lower(snapshot.lo, version),
                     !.hi = Higher(snapshot.hi, version)]

\* The first query of a snapshot, and one more.
BuildTables(q) ==
    /\ req[q].pc = "tables"
    /\ req' = [req EXCEPT ![q] = [@ EXCEPT
                   !.pc = "columns",
                   !.snapshot = [refresh |-> req[q].latest,
                                 lo |-> rows["tables"], hi |-> rows["tables"]]]]

BuildMore(q, kind, next) ==
    /\ req[q].pc = kind
    /\ req' = [req EXCEPT ![q] = [@ EXCEPT
                   !.pc = next,
                   !.snapshot = Widened(req[q].snapshot, rows[kind])]]

BuildSnapshot(q) ==
    /\ \/ BuildTables(q)
       \/ BuildMore(q, "columns", "relationships")
       \/ BuildMore(q, "relationships", "aliases")
       \/ BuildMore(q, "aliases", IF WithRedis THEN "setex" ELSE "store")
    /\ UNCHANGED <<writerVars, cacheVars, told>>

\* What setex raises is ignored.
SetRedis(q) ==
    /\ Go(q, "setex", "store")
    /\ \/ redis' = [redis EXCEPT ![Key(req[q].latest)] = req[q].snapshot]
       \/ UNCHANGED redis
    /\ UNCHANGED <<writerVars, local, told>>

Store(q) ==
    /\ req[q].pc = "store"
    /\ Serve(q, req[q].snapshot)
    /\ StoreLocal(q, req[q].snapshot)
    /\ UNCHANGED <<writerVars, redis, told>>

-----------------------------------------------------------------------------
(* The queries that follow the snapshot. *)

Query(q, from, kind, to) ==
    /\ req[q].pc = from
    /\ req' = [req EXCEPT ![q] = [@ EXCEPT
                   !.pc = to,
                   !.lo = Lower(req[q].lo, rows[kind]),
                   !.hi = Higher(req[q].hi, rows[kind])]]

QuerySemantics(q, from, to) == Query(q, from, "semantics", to)

\* _semantic_candidates: the first and the last of its queries
Ground(q) ==
    \/ QuerySemantics(q, "ground", "grounded")
    \/ QuerySemantics(q, "grounded", "searchTables")

SearchCatalog(q) ==
    \/ Query(q, "searchTables", "tables", "searchColumns")
    \/ Query(q, "searchColumns", "columns", "searchAliases")
    \/ Query(q, "searchAliases", "aliases", "searchRelationships")
    \/ Query(q, "searchRelationships", "relationships", "expandTables")

\* Nothing is read if no table was found.  Columns come from the snapshot, or
\* from the catalog for a table that the snapshot does not have.
ExpandTables(q) ==
    \/ Go(q, "expandTables", "neighborTables")
    \/ Query(q, "expandTables", "tables", "expandColumns")
    \/ Query(q, "expandColumns", "columns", "expandRelationships")
    \/ Go(q, "expandColumns", "expandRelationships")
    \/ Query(q, "expandRelationships", "relationships", "neighborTables")

\* The same for the neighbours in the graph, if there are any.
ExpandNeighbors(q) ==
    \/ Go(q, "neighborTables", "finish")
    \/ Query(q, "neighborTables", "tables", "neighborColumns")
    \/ Query(q, "neighborColumns", "columns", "neighborRelationships")
    \/ Go(q, "neighborColumns", "neighborRelationships")
    \/ Query(q, "neighborRelationships", "relationships", "finish")

Resolve(q) ==
    /\ Ground(q) \/ SearchCatalog(q) \/ ExpandTables(q) \/ ExpandNeighbors(q)
    /\ UNCHANGED <<writerVars, cacheVars, told>>

\* _build_final_context, and the end of the retrieval
Answer(q) ==
    /\ Go(q, "finish", "answered")
    /\ told' = Higher(told, req[q].hi)
    /\ UNCHANGED <<writerVars, cacheVars>>

\* A query that raises ends the retrieval.
Raise(q) ==
    /\ req[q].pc \notin {"local", "redis", "setex", "store", "finish",
                         "answered", "refused"}
    /\ Refused(q)
    /\ UNCHANGED <<writerVars, cacheVars, told>>

Retrieve(q) ==
    \/ LatestRefresh(q) \/ CountTables(q) \/ PackVersion(q)
    \/ GetLocal(q) \/ GetRedis(q) \/ BuildSnapshot(q) \/ SetRedis(q) \/ Store(q)
    \/ Resolve(q) \/ Answer(q) \/ Raise(q)

\* Entries of both caches expire, and a restarted process begins with none.
Expire ==
    /\ \/ /\ \E p \in Procs, r \in 1 .. MaxRefreshes :
                local' = [local EXCEPT ![p][r] = NoSnapshot]
          /\ UNCHANGED redis
       \/ /\ \E r \in 1 .. MaxRefreshes :
                redis' = [redis EXCEPT ![r] = NoSnapshot]
          /\ UNCHANGED local
    /\ UNCHANGED <<writerVars, req, told>>

Next == Refresh \/ (\E q \in Requests : Retrieve(q)) \/ Expire

Spec == Init /\ [][Next]_vars

-----------------------------------------------------------------------------
(* What is claimed. *)

\* The types of the variables.
Types ==
    /\ begun \in Versions /\ told \in Versions
    /\ status \in {"none", "running", "completed", "failed"}
    /\ rows \in [Kinds -> Versions]
    /\ local \in [Procs -> [1 .. MaxRefreshes -> Snapshots]]
    /\ redis \in [1 .. MaxRefreshes -> Snapshots]
    /\ req \in [Requests -> Retrievals]

\* The variables hold what they should, and a retrieval that gets past the checks
\* of the status has a refresh to ask the caches for, although its three queries
\* may see the first refresh of the tenant begin, write and end between them.
TypeOK ==
    /\ Types
    /\ \A q \in Requests :
          req[q].pc \notin {"idle", "count", "pack", "refused"} => req[q].latest > 0

\* A retrieval that ends before another refresh has begun has read rows of the
\* refresh it asked for only: none older, from a cache, and none of an
\* unfinished refresh.  Nothing in the code but the cache key and the check of
\* the status keeps a dozen queries in step with a snapshot.
AnswersCoherent ==
    \A q \in Requests :
        req[q].pc = "answered" /\ req[q].latest = begun
            => req[q].lo = begun /\ req[q].hi = begun

\* What a cache holds for a refresh was not read before that refresh ended,
\* and while it is the latest, it is of that refresh alone.  A snapshot that is
\* built across the beginning of the next refresh may mix the two, and stays in
\* the caches, but nobody asks for it any more.
Whole(snapshot, r) ==
    snapshot # NoSnapshot =>
        /\ snapshot.refresh = r /\ r <= snapshot.lo
        /\ begun = r => snapshot.hi = r
CachesCoherent ==
    \A r \in 1 .. MaxRefreshes :
        Whole(redis[r], r) /\ \A p \in Procs : Whole(local[p][r], r)

\* What one retrieval has read, a retrieval that begins after its end, in
\* whichever process, does not take back: it reads no older rows.
MonotoneReads ==
    \A q \in Requests : req[q].pc = "answered" => req[q].floor <= req[q].lo
==============================================================================
