---------------------------- MODULE CatalogProofs ----------------------------
(***************************************************************************)
(* Theorems about Catalog, for any retrievals and processes, with Redis or *)
(* without, and for any number of refreshes.                               *)
(***************************************************************************)
EXTENDS Catalog, TLAPS

\* What is known of a retrieval: while it builds its snapshot, the snapshot's
\* range begins with the refresh it asked for; later, its own range does; and
\* both end with that refresh as long as it is the latest.
Looking == {"count", "pack"}
Building == {"columns", "relationships", "aliases", "setex", "store"}
Reading == {"ground", "grounded",
            "searchTables", "searchColumns", "searchAliases",
            "searchRelationships", "expandTables", "expandColumns",
            "expandRelationships", "neighborTables", "neighborColumns",
            "neighborRelationships", "finish", "answered"}
Asked == Building \cup Reading \cup {"local", "redis", "tables"}

\* A range that begins at refresh r, and ends there while r is the latest.
Since(r, lo, hi) == r <= lo /\ lo <= hi /\ hi <= begun /\ (begun = r => hi = r)

\* No range is upside down.
Ordered ==
    \A q \in Requests :
        req[q].lo <= req[q].hi /\ req[q].snapshot.lo <= req[q].snapshot.hi

RowsInv ==
    /\ \A kind \in Kinds : rows[kind] <= begun
    /\ status \in {"running", "completed"} => begun > 0
    /\ status = "completed" => \A kind \in Kinds : rows[kind] = begun
    /\ told <= begun

\* A refresh is "completed" to a retrieval only if it ended so.
Completed(r) ==
    /\ 0 < r /\ r <= begun
    /\ begun = r => status = "completed"
    /\ \A kind \in Kinds : r <= rows[kind]

EntryInv(snapshot, r) ==
    snapshot # NoSnapshot =>
        /\ snapshot.refresh = r /\ Completed(r)
        /\ Since(r, snapshot.lo, snapshot.hi)
CacheInv ==
    \A r \in 1 .. MaxRefreshes :
        EntryInv(redis[r], r) /\ \A p \in Procs : EntryInv(local[p][r], r)

RetrievalInv(q) ==
    /\ req[q].floor <= begun
    /\ req[q].pc \in Looking =>
          /\ req[q].floor <= req[q].latest /\ req[q].latest <= begun
          /\ req[q].known = "completed" => Completed(req[q].latest)
    /\ req[q].pc \in Asked =>
          req[q].floor <= req[q].latest /\ Completed(req[q].latest)
    /\ req[q].pc \in Building =>
          /\ req[q].snapshot.refresh = req[q].latest
          /\ Since(req[q].latest, req[q].snapshot.lo, req[q].snapshot.hi)
    /\ req[q].pc \in Reading => Since(req[q].latest, req[q].lo, req[q].hi)

Inv ==
    /\ Types /\ Ordered
    /\ RowsInv
    /\ CacheInv
    /\ \A q \in Requests : RetrievalInv(q)

-----------------------------------------------------------------------------

\* Nothing has been written, cached or asked for.
LEMMA InitInv == Init => Inv
<1> SUFFICES ASSUME Init PROVE Inv
  OBVIOUS
<1> USE CatalogAssumption DEF Init, Versions, Kinds, Idle, NoSnapshot, Snapshots,
        Labels
<1>1. Types /\ Ordered
  <2>1. Idle \in Retrievals
    BY DEF Retrievals
  <2> QED
    BY <2>1 DEF Types, Ordered
<1>2. RowsInv
  BY DEF RowsInv
<1>3. CacheInv
  BY DEF CacheInv, EntryInv
<1>4. ASSUME NEW q \in Requests PROVE RetrievalInv(q)
  BY DEF RetrievalInv, Looking, Building, Reading, Asked
<1> QED
  BY <1>1, <1>2, <1>3, <1>4 DEF Inv

\* The refreshing program changes no cache and no retrieval: the latest refresh
\* is never one that caches or retrievals claim to be of alone, since it is
\* running when rows change, and no entry is of a refresh yet to begin.
LEMMA RefreshInv == Inv /\ Refresh => Inv'
<1> SUFFICES ASSUME Inv, Refresh PROVE Inv'
  OBVIOUS
<1> USE CatalogAssumption DEF Versions
<1>1. /\ begun \in Versions /\ begun' \in Versions /\ begun <= begun'
      /\ rows \in [Kinds -> Versions] /\ rows' \in [Kinds -> Versions]
      /\ \A kind \in Kinds : rows[kind] <= rows'[kind] /\ rows'[kind] <= begun'
      /\ UNCHANGED <<cacheVars, req, told>>
  <2> USE DEF Inv, Types, Ordered, RowsInv, cacheVars
  <2>1. CASE BeginRefresh
    BY <2>1 DEF BeginRefresh
  <2>2. CASE \E kind \in Kinds : WriteRows(kind)
    BY <2>2 DEF WriteRows
  <2>3. CASE EndRefresh
    BY <2>3 DEF EndRefresh
  <2> QED
    BY <2>1, <2>2, <2>3 DEF Refresh
<1>2. Types' /\ Ordered'
  BY <1>1 DEF Inv, Types, Ordered, Refresh, BeginRefresh, WriteRows, EndRefresh,
              cacheVars
<1>3. RowsInv'
  <2>1. /\ status' \in {"running", "completed"} => begun' > 0
        /\ status' = "completed" => \A kind \in Kinds : rows'[kind] = begun'
    <3>1. CASE BeginRefresh
      BY <3>1 DEF BeginRefresh, Inv, Types, Ordered
    <3>2. CASE \E kind \in Kinds : WriteRows(kind)
      BY <3>2 DEF WriteRows, Inv, RowsInv
    <3>3. CASE EndRefresh
      BY <3>3 DEF EndRefresh, Inv, RowsInv, Types, Ordered
    <3> QED
      BY <3>1, <3>2, <3>3 DEF Refresh
  <2> QED
    BY <1>1, <2>1 DEF Inv, Types, Ordered, RowsInv
<1>4. ASSUME NEW r \in Versions, Completed(r) PROVE Completed(r)'
  BY <1>1, <1>4 DEF Completed, Refresh, BeginRefresh, WriteRows, EndRefresh, Inv,
                    Types, Ordered
<1>5. ASSUME NEW r \in Versions, NEW lo \in Versions, NEW hi \in Versions,
             Since(r, lo, hi), Completed(r)
      PROVE  Since(r, lo, hi)'
  BY <1>1, <1>5 DEF Since, Completed
<1>6. CacheInv'
  <2>1. ASSUME NEW r \in 1 .. MaxRefreshes, NEW snapshot \in Snapshots,
               EntryInv(snapshot, r)
        PROVE  EntryInv(snapshot, r)'
    BY <2>1, <1>4, <1>5 DEF EntryInv, Snapshots
  <2>2. redis \in [1 .. MaxRefreshes -> Snapshots]
        /\ local \in [Procs -> [1 .. MaxRefreshes -> Snapshots]]
        /\ redis' = redis /\ local' = local
    BY <1>1 DEF Inv, Types, Ordered, cacheVars
  <2> QED
    BY <2>1, <2>2 DEF Inv, CacheInv
<1>7. ASSUME NEW q \in Requests PROVE RetrievalInv(q)'
  <2>1. RetrievalInv(q) /\ req[q] \in Retrievals
    BY DEF Inv, Types, Ordered
  <2> QED
    BY <2>1, <1>1, <1>4, <1>5
       DEF RetrievalInv, Retrievals, Snapshots, Asked
<1> QED
  BY <1>2, <1>3, <1>6, <1>7 DEF Inv

\* What expires leaves nothing to be wrong about.
LEMMA ExpireInv == Inv /\ Expire => Inv'
<1> SUFFICES ASSUME Inv, Expire PROVE Inv'
  OBVIOUS
<1> USE CatalogAssumption DEF Versions, writerVars
<1>1. /\ UNCHANGED <<begun, status, rows, req, told>>
      /\ redis \in [1 .. MaxRefreshes -> Snapshots]
      /\ local \in [Procs -> [1 .. MaxRefreshes -> Snapshots]]
      /\ NoSnapshot \in Snapshots
  BY DEF Inv, Types, Ordered, Expire, NoSnapshot, Snapshots
<1>2. /\ \A r \in 1 .. MaxRefreshes :
            /\ redis'[r] \in {redis[r], NoSnapshot}
            /\ \A p \in Procs : local'[p][r] \in {local[p][r], NoSnapshot}
      /\ redis' \in [1 .. MaxRefreshes -> Snapshots]
      /\ local' \in [Procs -> [1 .. MaxRefreshes -> Snapshots]]
  <2>1. CASE UNCHANGED redis /\ \E p \in Procs, r \in 1 .. MaxRefreshes :
                 local' = [local EXCEPT ![p][r] = NoSnapshot]
    <3>1. PICK p \in Procs, r \in 1 .. MaxRefreshes :
              local' = [local EXCEPT ![p][r] = NoSnapshot]
      BY <2>1
    <3>2. local' = [local EXCEPT ![p] = [local[p] EXCEPT ![r] = NoSnapshot]]
      BY <3>1, <1>1
    <3>3. [local[p] EXCEPT ![r] = NoSnapshot] \in [1 .. MaxRefreshes -> Snapshots]
      BY <1>1
    <3> QED
      BY <2>1, <3>2, <3>3, <1>1
  <2>2. CASE UNCHANGED local /\ \E r \in 1 .. MaxRefreshes :
                 redis' = [redis EXCEPT ![r] = NoSnapshot]
    BY <2>2, <1>1
  <2> QED
    BY <2>1, <2>2 DEF Expire
<1>4. CacheInv'
  <2>1. ASSUME NEW r \in 1 .. MaxRefreshes, NEW snapshot,
               EntryInv(snapshot, r)
        PROVE  EntryInv(snapshot, r)'
    BY <2>1, <1>1 DEF EntryInv, Completed, Since
  <2>2. \A r \in 1 .. MaxRefreshes : EntryInv(NoSnapshot, r)
    BY DEF EntryInv
  <2>3. \A r \in 1 .. MaxRefreshes :
            EntryInv(redis'[r], r) /\ \A p \in Procs : EntryInv(local'[p][r], r)
    BY <1>2, <2>2 DEF Inv, CacheInv
  <2> QED
    BY <2>1, <2>3 DEF CacheInv
<1> QED
  BY <1>1, <1>2, <1>4
     DEF Inv, Types, Ordered, RowsInv, RetrievalInv, Completed, Since

-----------------------------------------------------------------------------
(* The steps of a retrieval. *)

\* Most steps touch the caches in no way and move one retrieval: it is enough
\* that the retrieval, as it will be, satisfies its part of the invariant.
Fine(q, r) ==
    /\ r \in Retrievals /\ r.lo <= r.hi /\ r.snapshot.lo <= r.snapshot.hi
    /\ r.floor <= begun
    /\ r.pc \in Looking =>
          /\ r.floor <= r.latest /\ r.latest <= begun
          /\ r.known = "completed" => Completed(r.latest)
    /\ r.pc \in Asked => r.floor <= r.latest /\ Completed(r.latest)
    /\ r.pc \in Building =>
          /\ r.snapshot.refresh = r.latest
          /\ Since(r.latest, r.snapshot.lo, r.snapshot.hi)
    /\ r.pc \in Reading => Since(r.latest, r.lo, r.hi)

LEMMA FineNow ==
    ASSUME Inv, NEW q \in Requests PROVE Fine(q, req[q])
BY DEF Inv, Types, Ordered, RetrievalInv, Fine

LEMMA MoveInv ==
    ASSUME Inv, NEW q \in Requests, NEW r, Fine(q, r),
           req' = [req EXCEPT ![q] = r],
           UNCHANGED writerVars, CacheInv', told' \in Versions, told' <= begun,
           redis' \in [1 .. MaxRefreshes -> Snapshots],
           local' \in [Procs -> [1 .. MaxRefreshes -> Snapshots]]
    PROVE  Inv'
<1> USE DEF writerVars
<1>1. \A p \in Requests : Fine(p, req'[p])
  BY FineNow DEF Inv, Types, Ordered
<1>2. req' \in [Requests -> Retrievals]
  BY DEF Inv, Types, Ordered, Fine
<1>3. ASSUME NEW p \in Requests PROVE RetrievalInv(p)'
  BY <1>1 DEF Fine, RetrievalInv, Completed, Since
<1>4. RowsInv'
  BY DEF Inv, RowsInv
<1>5. Types' /\ Ordered'
  BY <1>1, <1>2 DEF Inv, Types, Ordered, Fine
<1> QED
  BY <1>3, <1>4, <1>5 DEF Inv

\* A query keeps what was read since refresh r within its bounds.
LEMMA Widen ==
    ASSUME Inv, NEW r \in Versions, Completed(r), NEW kind \in Kinds,
           NEW lo \in Versions, NEW hi \in Versions, Since(r, lo, hi)
    PROVE  /\ Lower(lo, rows[kind]) \in Versions
           /\ Higher(hi, rows[kind]) \in Versions
           /\ Since(r, Lower(lo, rows[kind]), Higher(hi, rows[kind]))
<1>1. rows[kind] \in Versions /\ rows[kind] <= begun /\ begun \in Versions
      /\ (begun = r => rows[kind] = r) /\ r <= rows[kind]
  BY DEF Inv, Types, Ordered, RowsInv, Completed
<1> QED
  BY <1>1, CatalogAssumption DEF Lower, Higher, Since, Versions

\* The stages of a retrieval do not overlap.
LEMMA Stages ==
    ASSUME NEW pc
    PROVE  /\ pc \in Looking => pc \notin Asked
           /\ pc \in Building => pc \in Asked /\ pc \notin Reading
           /\ pc \in Reading => pc \in Asked
           /\ pc \in Looking \cup Asked => pc \in Labels
           /\ pc \in {"local", "redis", "tables"} =>
                  pc \in Asked /\ pc \notin Building \cup Reading
BY DEF Looking, Building, Reading, Asked, Labels

\* A change of label only: within a stage, or to where less is known.
LEMMA GoInv ==
    ASSUME Inv, NEW q \in Requests, NEW from, NEW to, Go(q, from, to),
           \/ from \in Building /\ to \in Building
           \/ from \in Reading /\ to \in Reading
           \/ from \in Asked /\ to \in {"redis", "tables"},
           UNCHANGED writerVars, CacheInv', told' \in Versions, told' <= begun,
           redis' \in [1 .. MaxRefreshes -> Snapshots],
           local' \in [Procs -> [1 .. MaxRefreshes -> Snapshots]]
    PROVE  Inv'
<1> DEFINE r == [req[q] EXCEPT !.pc = to]
<1>1. req' = [req EXCEPT ![q] = r] /\ req[q].pc = from
  BY DEF Go
<1>2. Fine(q, req[q]) /\ req[q] \in Retrievals
  BY FineNow DEF Fine
<1>3. /\ from \in Asked /\ to \in Asked /\ to \notin Looking /\ to \in Labels
      /\ to \in Building => from \in Building
      /\ to \in Reading => from \in Reading
  BY Stages
<1>4. r \in Retrievals /\ r.pc = to
  BY <1>2, <1>3 DEF Retrievals
<1>5. /\ r.latest = req[q].latest /\ r.known = req[q].known
      /\ r.snapshot = req[q].snapshot /\ r.lo = req[q].lo /\ r.hi = req[q].hi
      /\ r.floor = req[q].floor
  BY <1>2 DEF Retrievals
<1> HIDE DEF r
<1>6. Fine(q, r)
  BY <1>1, <1>2, <1>3, <1>4, <1>5 DEF Fine
<1> QED
  BY <1>1, <1>6, MoveInv

\* A step that leaves both caches alone.
LEMMA CachesKept ==
    ASSUME Inv, UNCHANGED <<writerVars, cacheVars>>
    PROVE  /\ CacheInv'
           /\ redis' \in [1 .. MaxRefreshes -> Snapshots]
           /\ local' \in [Procs -> [1 .. MaxRefreshes -> Snapshots]]
BY DEF Inv, Types, Ordered, CacheInv, EntryInv, Completed, Since, writerVars, cacheVars

\* The retrieval gives up.
LEMMA RefusedInv ==
    ASSUME Inv, NEW q \in Requests, Refused(q),
           UNCHANGED <<writerVars, cacheVars, told>>
    PROVE  Inv'
<1> DEFINE r == [Idle EXCEPT !.pc = "refused"]
<1>1. NoSnapshot \in Snapshots
  BY CatalogAssumption DEF NoSnapshot, Snapshots, Versions
<1>2. r \in Retrievals
  BY <1>1, CatalogAssumption DEF Idle, Retrievals, Labels, Versions
<1>3. r.pc \notin Looking \cup Building \cup Reading \cup Asked
  BY DEF Idle, Looking, Building, Reading, Asked
<1>4. /\ r.lo <= r.hi /\ r.snapshot.lo <= r.snapshot.hi
      /\ r.floor <= begun
  BY CatalogAssumption DEF Idle, NoSnapshot, Inv, Types, Ordered, Versions
<1>5. Fine(q, r)
  BY <1>2, <1>3, <1>4 DEF Fine
<1>6. told \in Versions /\ told <= begun
  BY DEF Inv, Types, Ordered, RowsInv
<1> QED
  BY <1>5, <1>6, MoveInv, CachesKept DEF Refused

\* The look at the refreshes and at the catalog.  A retrieval goes on only if its
\* refresh was completed when it looked, and a refresh stays so.
LEMMA StatusInv ==
    ASSUME Inv, NEW q \in Requests,
           LatestRefresh(q) \/ CountTables(q) \/ PackVersion(q)
    PROVE  Inv'
<1> USE CatalogAssumption
<1>1. told \in Versions /\ told <= begun /\ begun \in Versions
  BY DEF Inv, Types, Ordered, RowsInv
<1>2. Fine(q, req[q]) /\ req[q] \in Retrievals
  BY FineNow DEF Inv, Types, Ordered
<1>3. CASE LatestRefresh(q)
  <2> DEFINE r == [req[q] EXCEPT !.pc = "count", !.latest = begun,
                                 !.known = status, !.floor = told]
  <2>1. status = "completed" => Completed(begun)
    BY DEF Inv, Types, Ordered, RowsInv, Completed, Versions
  <2>2. /\ r \in Retrievals /\ r.pc = "count" /\ r.latest = begun
        /\ r.known = status /\ r.floor = told /\ r.snapshot = req[q].snapshot
        /\ r.lo = req[q].lo /\ r.hi = req[q].hi
    BY <1>1, <1>2 DEF Retrievals, Labels, Inv, Types, Ordered
  <2> HIDE DEF r
  <2>3. "count" \in Looking /\ "count" \notin Asked \cup Building \cup Reading
    BY DEF Looking, Building, Reading, Asked
  <2>4. Fine(q, r)
    BY <1>1, <1>2, <2>1, <2>2, <2>3 DEF Fine, Versions
  <2> QED
    BY <1>3, <1>1, <2>4, MoveInv, CachesKept DEF LatestRefresh, r
<1>4. CASE CountTables(q)
  <2>1. CASE Refused(q)
    BY <1>4, <2>1, RefusedInv DEF CountTables
  <2>2. CASE Go(q, "count", "pack")
    <3> DEFINE r == [req[q] EXCEPT !.pc = "pack"]
    <3>1. Fine(q, r)
      BY <1>2, <2>2
         DEF Go, Fine, Retrievals, Looking, Building, Reading, Asked, Labels
    <3> QED
      BY <1>1, <1>4, <2>2, <3>1, MoveInv, CachesKept DEF CountTables, Go
  <2> QED
    BY <1>4, <2>1, <2>2 DEF CountTables
<1>5. CASE PackVersion(q)
  <2>1. CASE Refused(q)
    BY <1>5, <2>1, RefusedInv DEF PackVersion
  <2>2. CASE Go(q, "pack", "local") /\ Available(q)
    <3> DEFINE r == [req[q] EXCEPT !.pc = "local"]
    <3>1. Fine(q, r)
      BY <1>2, <2>2
         DEF Go, Available, Fine, Retrievals, Looking, Building, Reading, Asked,
             Labels
    <3> QED
      BY <1>1, <1>5, <2>2, <3>1, MoveInv, CachesKept DEF PackVersion, Go
  <2> QED
    BY <1>5, <2>1, <2>2 DEF PackVersion
<1> QED
  BY <1>3, <1>4, <1>5

\* A retrieval that has asked for a refresh names an entry of the caches by it.
LEMMA AskedKey ==
    ASSUME Inv, NEW q \in Requests, req[q].pc \in Asked
    PROVE  /\ req[q] \in Retrievals /\ Completed(req[q].latest)
           /\ req[q].latest \in 1 .. MaxRefreshes
           /\ Key(req[q].latest) = req[q].latest
<1>1. Fine(q, req[q]) /\ begun \in Versions
  BY FineNow DEF Inv, Types, Ordered
<1>2. req[q].latest \in Versions
  BY <1>1 DEF Fine, Retrievals
<1> QED
  BY <1>1, <1>2, CatalogAssumption DEF Fine, Completed, Versions, Key

\* A snapshot that holds what the caches claim is a good start for the queries
\* that follow it.
LEMMA ServeInv ==
    ASSUME Inv, NEW q \in Requests, NEW snapshot \in Snapshots,
           req[q].pc \in Asked, Serve(q, snapshot),
           Since(req[q].latest, snapshot.lo, snapshot.hi),
           UNCHANGED <<writerVars, told>>, CacheInv',
           redis' \in [1 .. MaxRefreshes -> Snapshots],
           local' \in [Procs -> [1 .. MaxRefreshes -> Snapshots]]
    PROVE  Inv'
<1> DEFINE r == [req[q] EXCEPT !.pc = "ground", !.snapshot = NoSnapshot,
                               !.lo = snapshot.lo, !.hi = snapshot.hi]
<1>1. Fine(q, req[q]) /\ req[q] \in Retrievals
  BY FineNow DEF Fine
<1>2. NoSnapshot \in Snapshots /\ NoSnapshot.lo <= NoSnapshot.hi
  BY CatalogAssumption DEF NoSnapshot, Snapshots, Versions
<1>3. /\ r \in Retrievals /\ r.pc = "ground" /\ r.snapshot = NoSnapshot
      /\ r.lo = snapshot.lo /\ r.hi = snapshot.hi /\ r.latest = req[q].latest
      /\ r.floor = req[q].floor
  BY <1>1, <1>2 DEF Retrievals, Labels, Snapshots
<1>4. "ground" \in Reading \cap Asked /\ "ground" \notin Looking \cup Building
  BY DEF Looking, Building, Reading, Asked
<1>5. told \in Versions /\ told <= begun
  BY DEF Inv, Types, Ordered, RowsInv
<1> HIDE DEF r
<1>6. Fine(q, r)
  BY <1>1, <1>2, <1>3, <1>4 DEF Fine, Since
<1> QED
  BY <1>5, <1>6, MoveInv DEF Serve, r

\* What a retrieval puts in a cache is what the caches claim.
LEMMA PutInv ==
    ASSUME Inv, NEW q \in Requests, NEW snapshot \in Snapshots,
           req[q].pc \in Asked, EntryInv(snapshot, req[q].latest),
           UNCHANGED writerVars,
           \/ StoreLocal(q, snapshot) /\ UNCHANGED redis
           \/ /\ redis' = [redis EXCEPT ![Key(req[q].latest)] = snapshot]
              /\ UNCHANGED local
    PROVE  /\ CacheInv'
           /\ redis' \in [1 .. MaxRefreshes -> Snapshots]
           /\ local' \in [Procs -> [1 .. MaxRefreshes -> Snapshots]]
<1> DEFINE latest == req[q].latest
<1>1. latest \in 1 .. MaxRefreshes /\ Key(latest) = latest
  BY AskedKey
<1>2. /\ ProcOf[q] \in Procs /\ redis \in [1 .. MaxRefreshes -> Snapshots]
      /\ local \in [Procs -> [1 .. MaxRefreshes -> Snapshots]]
  BY CatalogAssumption DEF Inv, Types, Ordered
<1>3. ASSUME NEW r \in 1 .. MaxRefreshes, NEW entry, EntryInv(entry, r)
      PROVE  EntryInv(entry, r)'
  BY <1>3 DEF EntryInv, Completed, Since, writerVars
<1> HIDE DEF latest
<1>4. CASE StoreLocal(q, snapshot) /\ UNCHANGED redis
  <2> DEFINE new == [local[ProcOf[q]] EXCEPT ![latest] = snapshot]
  <2>1. local' = [local EXCEPT ![ProcOf[q]] = new]
    BY <1>1, <1>4 DEF StoreLocal, latest
  <2>2. new \in [1 .. MaxRefreshes -> Snapshots]
    BY <1>1, <1>2
  <2>3. \A r \in 1 .. MaxRefreshes : EntryInv(new[r], r)
    BY <1>1, <1>2 DEF Inv, CacheInv, latest
  <2> HIDE DEF new
  <2>4. \A r \in 1 .. MaxRefreshes :
            EntryInv(redis'[r], r) /\ \A p \in Procs : EntryInv(local'[p][r], r)
    BY <1>2, <1>4, <2>1, <2>3 DEF Inv, CacheInv
  <2> QED
    BY <1>2, <1>3, <1>4, <2>1, <2>2, <2>4 DEF CacheInv
<1>5. CASE /\ redis' = [redis EXCEPT ![Key(req[q].latest)] = snapshot]
           /\ UNCHANGED local
  <2>1. redis' = [redis EXCEPT ![latest] = snapshot]
    BY <1>1, <1>5 DEF latest
  <2>2. \A r \in 1 .. MaxRefreshes :
            EntryInv(redis'[r], r) /\ \A p \in Procs : EntryInv(local'[p][r], r)
    BY <1>1, <1>2, <1>5, <2>1 DEF Inv, CacheInv, latest
  <2> QED
    BY <1>2, <1>3, <1>5, <2>1, <2>2, ZenonT(60) DEF CacheInv
<1> QED
  BY <1>4, <1>5

\* A snapshot found in a cache has been complete since the refresh of its key.
LEMMA CachedInv ==
    ASSUME Inv, NEW q \in Requests, GetLocal(q) \/ GetRedis(q)
    PROVE  Inv'
<1>1. /\ told \in Versions /\ told <= begun /\ ProcOf[q] \in Procs
      /\ redis \in [1 .. MaxRefreshes -> Snapshots]
      /\ local \in [Procs -> [1 .. MaxRefreshes -> Snapshots]]
  BY CatalogAssumption DEF Inv, Types, Ordered, RowsInv
<1>2. req[q].pc \in Asked
  BY DEF GetLocal, GetRedis, Asked
<1>3. req[q].latest \in 1 .. MaxRefreshes /\ Key(req[q].latest) = req[q].latest
  BY <1>2, AskedKey
<1>4. CASE GetLocal(q)
  <2> DEFINE cached == local[ProcOf[q]][Key(req[q].latest)]
  <2>1. cached \in Snapshots /\ EntryInv(cached, req[q].latest)
    BY <1>1, <1>3 DEF Inv, CacheInv
  <2>2. UNCHANGED <<writerVars, cacheVars, told>>
    BY <1>4 DEF GetLocal
  <2>3. CASE cached # NoSnapshot /\ Serve(q, cached)
    BY <1>2, <2>1, <2>2, <2>3, ServeInv, CachesKept DEF EntryInv
  <2>4. CASE \E to \in {"redis", "tables"} : Go(q, "local", to)
    BY <1>1, <1>2, <2>2, <2>4, GoInv, CachesKept DEF Go, Asked
  <2> QED
    BY <1>4, <2>3, <2>4 DEF GetLocal
<1>5. CASE GetRedis(q)
  <2> DEFINE cached == redis[Key(req[q].latest)]
  <2>1. cached \in Snapshots /\ EntryInv(cached, req[q].latest)
    BY <1>1, <1>3 DEF Inv, CacheInv
  <2>2. UNCHANGED <<writerVars, redis, told>>
    BY <1>5 DEF GetRedis
  <2>3. CASE cached # NoSnapshot /\ Serve(q, cached) /\ StoreLocal(q, cached)
    BY <1>2, <2>1, <2>2, <2>3, ServeInv, PutInv DEF EntryInv
  <2>4. CASE Go(q, "redis", "tables") /\ UNCHANGED local
    BY <1>1, <1>2, <2>2, <2>4, GoInv, CachesKept DEF Go, cacheVars, Asked
  <2> QED
    BY <1>5, <2>3, <2>4 DEF GetRedis
<1> QED
  BY <1>4, <1>5

\* Every query of a snapshot in the making finds rows of its refresh or later.
LEMMA BuildInv ==
    ASSUME Inv, NEW q \in Requests, BuildSnapshot(q) PROVE Inv'
<1>1. /\ told \in Versions /\ told <= begun /\ begun \in Versions
      /\ rows \in [Kinds -> Versions]
  BY DEF Inv, Types, Ordered, RowsInv
<1>2. req[q].pc \in Asked
  BY DEF BuildSnapshot, BuildTables, BuildMore, Asked, Building
<1>3. Fine(q, req[q]) /\ req[q] \in Retrievals /\ Completed(req[q].latest)
  BY <1>2, FineNow DEF Fine
<1>4. UNCHANGED <<writerVars, cacheVars, told>>
  BY DEF BuildSnapshot
<1>5. req[q].latest \in Versions /\ req[q].snapshot \in Snapshots
      /\ req[q].snapshot.lo \in Versions /\ req[q].snapshot.hi \in Versions
  BY <1>3 DEF Retrievals, Snapshots
\* The snapshot as it will be decides.
<1>6. ASSUME NEW snapshot \in Snapshots, NEW to \in Building,
             snapshot.refresh = req[q].latest,
             Since(req[q].latest, snapshot.lo, snapshot.hi),
             req' = [req EXCEPT ![q] =
                        [req[q] EXCEPT !.pc = to, !.snapshot = snapshot]]
      PROVE  Inv'
  <2> DEFINE r == [req[q] EXCEPT !.pc = to, !.snapshot = snapshot]
  <2>1. to \in Asked /\ to \notin Looking \cup Reading /\ to \in Labels
    BY Stages
  <2>2. /\ r \in Retrievals /\ r.pc = to /\ r.snapshot = snapshot
        /\ r.lo = req[q].lo /\ r.hi = req[q].hi /\ r.latest = req[q].latest
        /\ r.floor = req[q].floor
    BY <1>3, <2>1 DEF Retrievals
  <2> HIDE DEF r
  <2>3. Fine(q, r)
    BY <1>2, <1>3, <1>6, <2>1, <2>2 DEF Fine, Since
  <2> QED
    BY <1>1, <1>4, <1>6, <2>3, MoveInv, CachesKept DEF r
<1>7. CASE BuildTables(q)
  <2> DEFINE v == rows["tables"]
             snapshot == [refresh |-> req[q].latest, lo |-> v, hi |-> v]
  <2>1. v \in Versions /\ Since(req[q].latest, v, v)
    BY <1>1, <1>3, CatalogAssumption
       DEF Completed, Since, Kinds, Inv, RowsInv, Versions
  <2>2. snapshot \in Snapshots /\ "columns" \in Building
    BY <1>5, <2>1 DEF Snapshots, Building
  <2>3. req' = [req EXCEPT ![q] =
                    [req[q] EXCEPT !.pc = "columns", !.snapshot = snapshot]]
    BY <1>7 DEF BuildTables
  <2> QED
    BY <1>6, <2>1, <2>2, <2>3
<1>8. ASSUME NEW kind \in Kinds \cap Building, NEW to \in Building,
             BuildMore(q, kind, to)
      PROVE  Inv'
  <2> DEFINE lo == Lower(req[q].snapshot.lo, rows[kind])
             hi == Higher(req[q].snapshot.hi, rows[kind])
             snapshot == Widened(req[q].snapshot, rows[kind])
  <2>1. /\ req[q].snapshot.refresh = req[q].latest
        /\ Since(req[q].latest, req[q].snapshot.lo, req[q].snapshot.hi)
    BY <1>3, <1>8 DEF Fine, BuildMore
  <2>2. lo \in Versions /\ hi \in Versions /\ Since(req[q].latest, lo, hi)
    BY <1>3, <1>5, <2>1, Widen
  <2>3. req' = [req EXCEPT ![q] =
                    [req[q] EXCEPT !.pc = to, !.snapshot = snapshot]]
    BY <1>8 DEF BuildMore
  <2> HIDE DEF lo, hi
  <2>4. /\ snapshot \in Snapshots /\ snapshot.lo = lo /\ snapshot.hi = hi
        /\ snapshot.refresh = req[q].latest
    BY <1>5, <2>1, <2>2 DEF Snapshots, Widened, lo, hi
  <2> QED
    BY <1>6, <2>2, <2>3, <2>4
<1> QED
  BY <1>7, <1>8 DEF BuildSnapshot, Kinds, Building

\* The finished snapshot goes to both caches.
LEMMA StoreInv ==
    ASSUME Inv, NEW q \in Requests, SetRedis(q) \/ Store(q) PROVE Inv'
<1>1. /\ told \in Versions /\ told <= begun
      /\ redis \in [1 .. MaxRefreshes -> Snapshots]
      /\ local \in [Procs -> [1 .. MaxRefreshes -> Snapshots]]
  BY DEF Inv, Types, Ordered, RowsInv
<1>2. req[q].pc \in Building /\ req[q].pc \in Asked
  BY DEF SetRedis, Store, Go, Asked, Building
<1>3. Fine(q, req[q]) /\ req[q] \in Retrievals /\ Completed(req[q].latest)
  BY <1>2, FineNow DEF Fine
<1>4. /\ req[q].snapshot \in Snapshots
      /\ Since(req[q].latest, req[q].snapshot.lo, req[q].snapshot.hi)
      /\ EntryInv(req[q].snapshot, req[q].latest)
  BY <1>2, <1>3 DEF Fine, EntryInv, Retrievals
<1>5. CASE SetRedis(q)
  <2>1. UNCHANGED <<writerVars, local, told>> /\ Go(q, "setex", "store")
    BY <1>5 DEF SetRedis
  <2>2. CacheInv' /\ redis' \in [1 .. MaxRefreshes -> Snapshots]
    BY <1>1, <1>2, <1>4, <1>5, <2>1, PutInv, CachesKept DEF SetRedis, cacheVars
  <2>3. local' \in [Procs -> [1 .. MaxRefreshes -> Snapshots]]
    BY <1>1, <2>1
  <2>4. told' \in Versions /\ told' <= begun
    BY <1>1, <2>1
  <2> QED
    BY <2>1, <2>2, <2>3, <2>4, GoInv DEF Building
<1>6. CASE Store(q)
  <2>1. /\ UNCHANGED <<writerVars, redis, told>>
        /\ Serve(q, req[q].snapshot) /\ StoreLocal(q, req[q].snapshot)
    BY <1>6 DEF Store
  <2>2. /\ CacheInv' /\ redis' \in [1 .. MaxRefreshes -> Snapshots]
        /\ local' \in [Procs -> [1 .. MaxRefreshes -> Snapshots]]
    BY <1>2, <1>4, <2>1, PutInv
  <2> QED
    BY <1>2, <1>4, <2>1, <2>2, ServeInv
<1> QED
  BY <1>5, <1>6

\* So do the queries that follow the snapshot, whatever the order.
LEMMA ResolveInv ==
    ASSUME Inv, NEW q \in Requests, Resolve(q) PROVE Inv'
<1>1. told \in Versions /\ told <= begun
  BY DEF Inv, Types, Ordered, RowsInv
<1>2. UNCHANGED <<writerVars, cacheVars, told>>
  BY DEF Resolve
<1>3. ASSUME NEW from \in Reading, NEW to \in Reading, NEW kind \in Kinds,
             Query(q, from, kind, to)
      PROVE  Inv'
  <2> DEFINE lo == Lower(req[q].lo, rows[kind])
             hi == Higher(req[q].hi, rows[kind])
             r == [req[q] EXCEPT !.pc = to, !.lo = lo, !.hi = hi]
  <2>1. Fine(q, req[q]) /\ req[q] \in Retrievals /\ req[q].pc = from
    BY <1>3, FineNow DEF Fine, Query
  <2>2. /\ req[q].lo \in Versions /\ req[q].hi \in Versions
        /\ req[q].latest \in Versions /\ Completed(req[q].latest)
        /\ Since(req[q].latest, req[q].lo, req[q].hi)
        /\ to \in Asked /\ to \notin Looking \cup Building /\ to \in Labels
    BY <2>1, Stages DEF Fine, Retrievals
  <2>3. lo \in Versions /\ hi \in Versions /\ Since(req[q].latest, lo, hi)
    BY <2>2, Widen
  <2>4. req' = [req EXCEPT ![q] = r]
    BY <1>3 DEF Query
  <2> HIDE DEF lo, hi
  <2>5. /\ r \in Retrievals /\ r.pc = to /\ r.lo = lo /\ r.hi = hi
        /\ r.latest = req[q].latest /\ r.floor = req[q].floor
        /\ r.snapshot = req[q].snapshot
    BY <2>1, <2>2, <2>3 DEF Retrievals
  <2> HIDE DEF r
  <2>6. Fine(q, r)
    BY <2>1, <2>2, <2>3, <2>5, Stages DEF Fine, Since
  <2> QED
    BY <1>1, <1>2, <2>4, <2>6, MoveInv, CachesKept
<1>4. ASSUME NEW from \in Reading, NEW to \in Reading, Go(q, from, to)
      PROVE  Inv'
  BY <1>1, <1>2, <1>4, GoInv, CachesKept
<1>5. CASE Ground(q)
  BY <1>3, <1>5 DEF Ground, QuerySemantics, Reading, Kinds
<1>6. CASE SearchCatalog(q)
  BY <1>3, <1>6 DEF SearchCatalog, Reading, Kinds
<1>7. CASE ExpandTables(q)
  BY <1>3, <1>4, <1>7 DEF ExpandTables, Reading, Kinds
<1>8. CASE ExpandNeighbors(q)
  BY <1>3, <1>4, <1>8 DEF ExpandNeighbors, Reading, Kinds
<1> QED
  BY <1>5, <1>6, <1>7, <1>8 DEF Resolve

\* The end of a retrieval, one way or another.
LEMMA EndInv ==
    ASSUME Inv, NEW q \in Requests, Answer(q) \/ Raise(q) PROVE Inv'
<1>1. told \in Versions /\ told <= begun /\ begun \in Versions
  BY DEF Inv, Types, Ordered, RowsInv
<1>2. CASE Answer(q)
  <2>1. Go(q, "finish", "answered") /\ UNCHANGED <<writerVars, cacheVars>>
        /\ told' = Higher(told, req[q].hi)
    BY <1>2 DEF Answer
  <2>2. Fine(q, req[q]) /\ req[q].pc \in Reading
    BY <2>1, FineNow DEF Go, Reading
  <2>3. req[q].hi \in Versions /\ req[q].hi <= begun
    BY <2>2 DEF Fine, Since, Retrievals
  <2>4. told' \in Versions /\ told' <= begun
    BY <1>1, <2>1, <2>3 DEF Higher
  <2> QED
    BY <2>1, <2>4, GoInv, CachesKept DEF Reading
<1>3. CASE Raise(q)
  BY <1>3, RefusedInv DEF Raise
<1> QED
  BY <1>2, <1>3

LEMMA NextInv == Inv /\ [Next]_vars => Inv'
<1> SUFFICES ASSUME Inv, [Next]_vars PROVE Inv'
  OBVIOUS
<1>1. CASE Refresh
  BY <1>1, RefreshInv
<1>2. CASE Expire
  BY <1>2, ExpireInv
<1>3. ASSUME NEW q \in Requests, Retrieve(q) PROVE Inv'
  BY <1>3, StatusInv, CachedInv, BuildInv, StoreInv, ResolveInv, EndInv
     DEF Retrieve
<1>4. CASE UNCHANGED vars
  BY <1>4 DEF vars, Inv, Types, Ordered, RowsInv, CacheInv, EntryInv, RetrievalInv,
              Completed, Since
<1> QED
  BY <1>1, <1>2, <1>3, <1>4 DEF Next

LEMMA Invariance == Spec => []Inv
BY InitInv, NextInv, PTL DEF Spec

-----------------------------------------------------------------------------
(* The theorems. *)

\* The variables hold what they should, and past the checks of the status
\* (_catalog_status) there is a refresh to ask the caches for.
THEOREM CatalogTypeCorrect == Spec => []TypeOK
<1>1. Inv => TypeOK
  <2> SUFFICES ASSUME Inv, NEW q \in Requests,
                      req[q].pc \notin {"idle", "count", "pack", "refused"}
               PROVE  req[q].latest > 0
    BY DEF Inv, TypeOK
  <2>1. req[q] \in Retrievals /\ RetrievalInv(q)
    BY DEF Inv, Types
  <2>2. req[q].pc \in Asked
    BY <2>1 DEF Retrievals, Labels, Asked, Building, Reading
  <2> QED
    BY <2>1, <2>2, CatalogAssumption DEF RetrievalInv, Completed, Retrievals, Versions
<1> QED
  BY <1>1, Invariance, PTL

\* A retrieval that ends before the next refresh begins has read rows of the
\* refresh it asked for alone, by way of either cache or by its own queries.
THEOREM AnswersCoherentCorrect == Spec => []AnswersCoherent
<1>1. Inv => AnswersCoherent
  <2> SUFFICES ASSUME Inv, NEW q \in Requests,
                      req[q].pc = "answered", req[q].latest = begun
               PROVE  req[q].lo = begun /\ req[q].hi = begun
    BY DEF AnswersCoherent
  <2>1. Fine(q, req[q]) /\ req[q].pc \in Reading
    BY FineNow DEF Reading
  <2>2. /\ Since(req[q].latest, req[q].lo, req[q].hi)
        /\ req[q].lo \in Versions /\ req[q].hi \in Versions /\ begun \in Versions
    BY <2>1 DEF Fine, Retrievals, Inv, Types, Ordered
  <2> QED
    BY <2>2, CatalogAssumption DEF Since, Versions
<1> QED
  BY <1>1, Invariance, PTL

\* What either cache holds for a refresh was read after that refresh ended, and
\* is of that refresh alone while it is the latest.
THEOREM CachesCoherentCorrect == Spec => []CachesCoherent
<1>1. Inv => CachesCoherent
  BY DEF Inv, CacheInv, EntryInv, Since, CachesCoherent, Whole
<1> QED
  BY <1>1, Invariance, PTL

\* No retrieval reads rows older than one that ended before it began has read.
THEOREM MonotoneReadsCorrect == Spec => []MonotoneReads
<1>1. Inv => MonotoneReads
  <2> SUFFICES ASSUME Inv, NEW q \in Requests, req[q].pc = "answered"
               PROVE  req[q].floor <= req[q].lo
    BY DEF MonotoneReads
  <2>1. Fine(q, req[q]) /\ req[q].pc \in Reading /\ req[q].pc \in Asked
    BY FineNow DEF Reading, Asked
  <2>2. /\ req[q].floor <= req[q].latest /\ req[q].latest <= req[q].lo
        /\ req[q].lo \in Versions /\ req[q].floor \in Versions
        /\ req[q].latest \in Versions
    BY <2>1 DEF Fine, Since, Retrievals
  <2> QED
    BY <2>2, CatalogAssumption DEF Versions
<1> QED
  BY <1>1, Invariance, PTL

==============================================================================
