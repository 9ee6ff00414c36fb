--------------------------- MODULE JoinPathsProofs ---------------------------
(***************************************************************************)
(* Theorems about JoinPaths, for any catalog, any selections, any number   *)
(* of retrievals that share a snapshot and any bound on the edges: first   *)
(* that every path found joins the tables it is for (Inv), then that it is *)
(* the best one, and so the same for all threads (NearestInv).             *)
(***************************************************************************)
EXTENDS JoinPaths, WellFoundedInduction, TLAPS

\* An edge of the graph is a relationship of the catalog, in either direction.
GraphInv ==
    \A a \in Tables : \A i \in 1 .. Len(adjacency[a]) :
        Related(a, adjacency[a][i])

MemoInv ==
    \A key \in Keys : memo[key] # None => Walk(memo[key], key[1], key[2])

Distinct(names) == \A i, j \in 1 .. Len(names) : names[i] = names[j] => i = j

\* A retrieval that has begun searches from the first table to another one, or back.
EndsInv(r) ==
    /\ r.pc = "idle" => r.at = 1 /\ r.found = {}
    /\ r.pc # "idle" => r.names # <<>> /\ Distinct(r.names)
    /\ r.pc \in {"ask", "pop", "scan"} =>
          /\ r.at \in 2 .. Len(r.names)
          /\ \/ r.from = r.names[1] /\ r.to = r.names[r.at]
             \/ r.from = r.names[r.at] /\ r.to = r.names[1]

\* A path in the making: from its first end, along relationships, through
\* tables visited, none of them twice.
Trail(path, r) ==
    /\ Len(path) \in 1 .. MaxEdges + 1 /\ path[1] = r.from
    /\ \A i \in 1 .. Len(path) - 1 : Related(path[i], path[i + 1])
    /\ Distinct(path)
    /\ \A i \in 1 .. Len(path) : path[i] \in r.visited

Last(path) == path[Len(path)]

\* The queue holds such paths, to tables visited, each to another one; the table
\* searched for has not been visited.
QueueInv(r) ==
    /\ r.pc \notin {"pop", "scan"} => r.queue = <<>>
    /\ r.pc \in {"pop", "scan"} =>
          /\ r.from \in r.visited /\ r.to \notin r.visited
          /\ \A i \in 1 .. Len(r.queue) : Trail(r.queue[i], r)
          /\ \A i, j \in 1 .. Len(r.queue) :
                Last(r.queue[i]) = Last(r.queue[j]) => i = j
    /\ r.pc = "scan" => Trail(r.path, r) /\ Len(r.path) <= MaxEdges
    /\ r.edge > 0

Joins(path, names) ==
    \E i \in 2 .. Len(names) :
        Walk(path, names[1], names[i]) \/ Walk(path, names[i], names[1])

FoundInv(r) == \A path \in r.found : Joins(path, r.names)

SearchInv(r) == r \in Searches /\ EndsInv(r) /\ QueueInv(r) /\ FoundInv(r)

Inv ==
    /\ relationships \in Seq(Keys) /\ linked \in 0 .. Len(relationships)
    /\ adjacency \in [Tables -> Seq(Tables)]
    /\ memo \in [Keys -> Paths]
    /\ GraphInv /\ MemoInv
    /\ search \in [Searchers -> Searches]
    /\ \A s \in Searchers : SearchInv(search[s])

-----------------------------------------------------------------------------

LEMMA InitInv == Init => Inv
<1> SUFFICES ASSUME Init PROVE Inv
  OBVIOUS
<1> USE JoinPathsAssumption DEF Init
<1>1. relationships \in Seq(Keys) /\ linked \in 0 .. Len(relationships)
  BY DEF Keys
<1>2. adjacency \in [Tables -> Seq(Tables)] /\ GraphInv
  BY DEF GraphInv
<1>3. memo \in [Keys -> Paths] /\ MemoInv
  BY DEF MemoInv, Paths, None
<1>4. Idle \in Searches
  <2>1. SomeTable \in Tables
    BY DEF SomeTable
  <2> QED
    BY <2>1 DEF Idle, Searches, Paths, None
<1>5. EndsInv(Idle) /\ QueueInv(Idle) /\ FoundInv(Idle)
  BY DEF Idle, EndsInv, QueueInv, FoundInv
<1> QED
  BY <1>1, <1>2, <1>3, <1>4, <1>5 DEF Inv, SearchInv

\* What is said of a retrieval depends on the rows of the catalog only.
LEMMA RowsSame ==
    ASSUME UNCHANGED relationships, NEW q, SearchInv(q) PROVE SearchInv(q)'
<1>1. \A a, b : Related(a, b)' <=> Related(a, b)
  BY DEF Related
<1>2. \A path, a, b : Walk(path, a, b)' <=> Walk(path, a, b)
  BY <1>1 DEF Walk
<1>3. \A path, r : Trail(path, r)' <=> Trail(path, r)
  BY <1>1 DEF Trail
<1>4. QueueInv(q)'
  BY <1>3 DEF SearchInv, QueueInv
<1>5. FoundInv(q)'
  BY <1>2 DEF SearchInv, FoundInv, Joins
<1> QED
  BY <1>4, <1>5 DEF SearchInv, EndsInv

\* Most steps move one retrieval only.
LEMMA MoveInv ==
    ASSUME Inv, NEW s \in Searchers, NEW r, SearchInv(r),
           search' = [search EXCEPT ![s] = r],
           UNCHANGED graphVars, memo' \in [Keys -> Paths], MemoInv'
    PROVE  Inv'
<1> USE DEF graphVars
<1>1. GraphInv'
  BY DEF Inv, GraphInv, Related
<1>2. ASSUME NEW q, SearchInv(q) PROVE SearchInv(q)'
  BY <1>2, RowsSame
<1>3. \A q \in Searchers : SearchInv(search'[q])
  BY DEF Inv
<1>4. search' \in [Searchers -> Searches]
  BY DEF Inv, SearchInv
<1> QED
  BY <1>1, <1>2, <1>3, <1>4 DEF Inv

\* What does not concern the memo.
LEMMA MemoKept ==
    ASSUME Inv, UNCHANGED <<graphVars, memo>>
    PROVE  memo' \in [Keys -> Paths] /\ MemoInv'
BY DEF Inv, MemoInv, Walk, Related, graphVars

\* A row becomes two edges that it is the reason for.
LEMMA LinkInv == Inv /\ Link => Inv'
<1> SUFFICES ASSUME Inv, Link PROVE Inv'
  OBVIOUS
<1> DEFINE row == relationships[linked + 1]
           one == WithEdge(adjacency, row[1], row[2])
<1>1. /\ row \in Keys /\ linked + 1 \in 1 .. Len(relationships)
      /\ row[1] \in Tables /\ row[2] \in Tables /\ row = <<row[1], row[2]>>
  BY DEF Inv, Link, Keys
<1>2. ASSUME NEW graph \in [Tables -> Seq(Tables)],
             NEW a \in Tables, NEW b \in Tables, Related(a, b),
             \A t \in Tables : \A i \in 1 .. Len(graph[t]) :
                 Related(t, graph[t][i])
      PROVE  /\ WithEdge(graph, a, b) \in [Tables -> Seq(Tables)]
             /\ \A t \in Tables : \A i \in 1 .. Len(WithEdge(graph, a, b)[t]) :
                    Related(t, WithEdge(graph, a, b)[t][i])
  BY <1>2 DEF WithEdge
<1>3. Related(row[1], row[2]) /\ Related(row[2], row[1])
  BY <1>1 DEF Related
<1>4. /\ one \in [Tables -> Seq(Tables)]
      /\ \A t \in Tables : \A i \in 1 .. Len(one[t]) : Related(t, one[t][i])
  BY <1>1, <1>2, <1>3 DEF Inv, GraphInv
<1> HIDE DEF one
<1>5. /\ adjacency' \in [Tables -> Seq(Tables)]
      /\ \A t \in Tables : \A i \in 1 .. Len(adjacency'[t]) :
             Related(t, adjacency'[t][i])
  BY <1>1, <1>2, <1>3, <1>4 DEF Link, one
<1>6. GraphInv' /\ UNCHANGED <<relationships, memo, search>>
  BY <1>5 DEF Link, GraphInv, Related
<1>7. MemoInv'
  BY <1>6 DEF Inv, MemoInv, Walk, Related
<1>8. ASSUME NEW q, SearchInv(q) PROVE SearchInv(q)'
  BY <1>6, <1>8, RowsSame
<1>9. linked' \in 0 .. Len(relationships)
  BY DEF Inv, Link
<1> QED
  BY <1>5, <1>6, <1>7, <1>8, <1>9 DEF Inv

-----------------------------------------------------------------------------
(* The steps of a retrieval. *)

\* Going on with the next table leaves nothing of the last search behind.
LEMMA NextTableInv ==
    ASSUME NEW r \in Searches, r.names # <<>>, Distinct(r.names),
           r.at \in 1 .. Len(r.names), r.edge > 0, FoundInv(r)
    PROVE  SearchInv(NextTable(r))
<1> DEFINE n == NextTable(r)
<1>1. /\ r.names \in Seq(Tables) /\ r.names[1] \in Tables
      /\ \A i \in 1 .. Len(r.names) : r.names[i] \in Tables
      /\ Len(r.names) \in Nat /\ Len(r.names) > 0 /\ r.at \in Nat
  BY DEF Searches, Paths
<1>2. /\ n.pc = (IF r.at < Len(r.names) THEN "ask" ELSE "done")
      /\ n.names = r.names /\ n.at = r.at + 1 /\ n.from = r.names[1]
      /\ n.to = (IF r.at < Len(r.names) THEN r.names[r.at + 1] ELSE r.names[1])
      /\ n.queue = <<>> /\ n.visited = {} /\ n.path = None /\ n.edge = r.edge
      /\ n.found = r.found
  BY DEF NextTable, Searches
<1>3. n \in Searches
  <2>1. ASSUME NEW pc \in {"ask", "done"}, NEW to \in Tables
        PROVE  [r EXCEPT !.at = r.at + 1, !.queue = <<>>, !.visited = {},
                         !.path = None, !.pc = pc, !.from = r.names[1],
                         !.to = to] \in Searches
    <3>1. /\ <<>> \in Seq(Paths) /\ None \in Paths /\ r.names[1] \in Tables
          /\ r.at + 1 \in Nat
      BY <1>1 DEF Paths, None
    <3> QED
      BY <3>1 DEF Searches
  <2>2. (IF r.at < Len(r.names) THEN r.names[r.at + 1] ELSE r.names[1]) \in Tables
    BY <1>1
  <2> QED
    BY <2>1, <2>2 DEF NextTable
<1> HIDE DEF n
<1>4. EndsInv(n)
  BY <1>1, <1>2 DEF EndsInv
<1>5. QueueInv(n) /\ FoundInv(n)
  BY <1>2 DEF QueueInv, FoundInv
<1> QED
  BY <1>3, <1>4, <1>5 DEF SearchInv, n

LEMMA SelectInv ==
    ASSUME Inv, NEW s \in Searchers, Select(s) PROVE Inv'
<1>1. PICK names \in Selections :
          search' = [search EXCEPT ![s] =
                        NextTable([search[s] EXCEPT !.names = names])]
  BY DEF Select
<1> DEFINE r == [search[s] EXCEPT !.names = names]
<1>2. search[s] \in Searches /\ SearchInv(search[s]) /\ search[s].pc = "idle"
  BY DEF Inv, Select
<1>3. names \in Seq(Tables) /\ names # <<>> /\ Distinct(names)
  BY JoinPathsAssumption DEF Distinct
<1>4. /\ r \in Searches /\ r.pc = "idle" /\ r.names = names
      /\ r.at = search[s].at /\ r.edge = search[s].edge
      /\ r.found = search[s].found
  BY <1>2, <1>3 DEF Searches, Paths
<1>5. search[s].at = 1 /\ search[s].edge > 0 /\ search[s].found = {}
  BY <1>2 DEF SearchInv, EndsInv, QueueInv, FoundInv
<1> HIDE DEF r
<1>6. SearchInv(NextTable(r))
  BY <1>3, <1>4, <1>5, NextTableInv DEF FoundInv
<1> QED
  BY <1>1, <1>6, MoveInv, MemoKept DEF Select, r

\* A path between the two ends of the search is one for the tables selected.
LEMMA FoundStepInv ==
    ASSUME Inv, NEW s \in Searchers, search[s].pc \in {"ask", "scan"},
           NEW path \in Paths, Walk(path, search[s].from, search[s].to),
           Found(s, path), UNCHANGED graphVars,
           memo' \in [Keys -> Paths], MemoInv'
    PROVE  Inv'
<1> DEFINE r == [search[s] EXCEPT !.found = search[s].found \cup {path}]
<1>1. SearchInv(search[s]) /\ search[s] \in Searches
  BY DEF Inv
<1>2. /\ r \in Searches /\ r.pc = search[s].pc /\ r.names = search[s].names
      /\ r.at = search[s].at /\ r.edge = search[s].edge
      /\ r.found = search[s].found \cup {path}
  BY <1>1 DEF Searches
<1>3. /\ search[s].at \in 2 .. Len(search[s].names)
      /\ search[s].names # <<>> /\ Distinct(search[s].names)
      /\ Joins(path, search[s].names) /\ search[s].edge > 0
  BY <1>1 DEF SearchInv, EndsInv, QueueInv, Joins
<1> HIDE DEF r
<1>4. FoundInv(r) /\ r.at \in 1 .. Len(r.names)
  BY <1>1, <1>2, <1>3 DEF SearchInv, FoundInv
<1>5. SearchInv(NextTable(r))
  BY <1>2, <1>3, <1>4, NextTableInv
<1> QED
  BY <1>5, MoveInv DEF Found, r

LEMMA RecallInv ==
    ASSUME Inv, NEW s \in Searchers, Recall(s) PROVE Inv'
<1>1. search[s] \in Searches /\ Key(s) \in Keys
  BY DEF Inv, Searches, Key, Keys
<1>2. memo[Key(s)] \in Paths /\ Walk(memo[Key(s)], search[s].from, search[s].to)
  BY <1>1 DEF Inv, MemoInv, Recall, Key
<1> QED
  BY <1>2, FoundStepInv, MemoKept DEF Recall

\* After the first search comes the second, after that the next table.
LEMMA NotFoundInv ==
    ASSUME Inv, NEW s \in Searchers, NotFound(s) PROVE Inv'
<1>1. /\ SearchInv(search[s]) /\ search[s] \in Searches
      /\ search[s].pc = "pop" /\ search[s].queue = <<>>
  BY DEF Inv, NotFound
<1>2. /\ search[s].at \in 2 .. Len(search[s].names) /\ search[s].names # <<>>
      /\ Distinct(search[s].names) /\ FoundInv(search[s]) /\ search[s].edge > 0
  BY <1>1 DEF SearchInv, EndsInv, QueueInv
<1>3. CASE search[s].from # search[s].names[1]
  <2>1. SearchInv(NextTable(search[s]))
    BY <1>1, <1>2, NextTableInv
  <2> QED
    BY <1>3, <2>1, MoveInv, MemoKept DEF NotFound
<1>4. CASE search[s].from = search[s].names[1]
  <2> DEFINE r == [search[s] EXCEPT !.pc = "ask", !.visited = {}, !.path = None,
                        !.from = search[s].to, !.to = search[s].from]
  <2>1. None \in Paths
    BY DEF None, Paths
  <2>2. /\ r \in Searches /\ r.pc = "ask" /\ r.names = search[s].names
        /\ r.at = search[s].at /\ r.from = search[s].to /\ r.to = search[s].from
        /\ r.queue = <<>> /\ r.edge = search[s].edge /\ r.found = search[s].found
    BY <1>1, <2>1 DEF Searches
  <2> HIDE DEF r
  <2>3. SearchInv(r)
    BY <1>1, <1>2, <2>2 DEF SearchInv, EndsInv, QueueInv, FoundInv
  <2> QED
    BY <1>4, <2>3, MoveInv, MemoKept DEF NotFound, r
<1> QED
  BY <1>3, <1>4

\* What a step within a search leaves alone: it is enough to look at the queue.
LEMMA SearchStepInv ==
    ASSUME Inv, NEW s \in Searchers, NEW r \in Searches,
           search[s].pc \in {"ask", "pop", "scan"}, r.pc \in {"pop", "scan"},
           r.names = search[s].names, r.at = search[s].at,
           r.from = search[s].from, r.to = search[s].to,
           r.found = search[s].found, QueueInv(r),
           search' = [search EXCEPT ![s] = r], UNCHANGED <<graphVars, memo>>
    PROVE  Inv'
<1>1. SearchInv(search[s])
  BY DEF Inv
<1>2. SearchInv(r)
  BY <1>1 DEF SearchInv, EndsInv, FoundInv
<1> QED
  BY <1>2, MoveInv, MemoKept

\* The ends of a search differ, since no table is selected twice.
LEMMA EndsDiffer ==
    ASSUME NEW r \in Searches, EndsInv(r), r.pc \in {"ask", "pop", "scan"}
    PROVE  r.from # r.to /\ r.from \in Tables /\ r.to \in Tables
<1>1. /\ Distinct(r.names) /\ r.at \in 2 .. Len(r.names)
      /\ Len(r.names) \in Nat
  BY DEF EndsInv, Searches, Paths
<1>2. r.names[1] # r.names[r.at]
  BY <1>1 DEF Distinct
<1> QED
  BY <1>2 DEF EndsInv, Searches

LEMMA StartInv ==
    ASSUME Inv, NEW s \in Searchers, Start(s) PROVE Inv'
<1> DEFINE first == <<search[s].from>>
           r == [search[s] EXCEPT !.pc = "pop", !.queue = <<first>>,
                                  !.visited = {search[s].from}]
<1>1. /\ SearchInv(search[s]) /\ search[s] \in Searches /\ search[s].pc = "ask"
      /\ search' = [search EXCEPT ![s] = r]
  BY DEF Inv, Start
<1>2. search[s].from # search[s].to /\ search[s].from \in Tables
  BY <1>1, EndsDiffer DEF SearchInv
<1>3. first \in Paths /\ <<first>> \in Seq(Paths)
  BY <1>2 DEF Paths
<1>4. /\ r \in Searches /\ r.pc = "pop" /\ r.queue = <<first>>
      /\ r.visited = {search[s].from} /\ r.names = search[s].names
      /\ r.at = search[s].at /\ r.from = search[s].from /\ r.to = search[s].to
      /\ r.found = search[s].found /\ r.edge = search[s].edge
  BY <1>1, <1>2, <1>3 DEF Searches
<1> HIDE DEF r
<1>5. Trail(first, r)
  BY <1>2, <1>4, JoinPathsAssumption DEF Trail, Distinct
<1>6. QueueInv(r)
  BY <1>1, <1>2, <1>4, <1>5 DEF SearchInv, QueueInv
<1> QED
  BY <1>1, <1>4, <1>6, SearchStepInv DEF Start

LEMMA PopInv ==
    ASSUME Inv, NEW s \in Searchers, Pop(s) PROVE Inv'
<1> DEFINE queue == search[s].queue
           path == Head(queue)
           pc == IF Len(path) > MaxEdges THEN "pop" ELSE "scan"
           r == [search[s] EXCEPT !.queue = Tail(queue), !.path = path,
                                  !.edge = 1, !.pc = pc]
<1>1. /\ SearchInv(search[s]) /\ search[s] \in Searches /\ search[s].pc = "pop"
      /\ queue # <<>> /\ search' = [search EXCEPT ![s] = r]
  BY DEF Inv, Pop
<1>2. /\ queue \in Seq(Paths) /\ path = queue[1] /\ path \in Paths
      /\ Tail(queue) \in Seq(Paths) /\ Len(queue) \in Nat \ {0}
      /\ Len(Tail(queue)) = Len(queue) - 1
      /\ \A i \in 1 .. Len(Tail(queue)) : Tail(queue)[i] = queue[i + 1]
  BY <1>1 DEF Searches
<1>3. pc \in {"pop", "scan"}
  OBVIOUS
<1> HIDE DEF pc
<1>4. /\ r \in Searches /\ r.pc = pc /\ r.queue = Tail(queue)
      /\ r.path = path /\ r.edge = 1
      /\ r.visited = search[s].visited /\ r.names = search[s].names
      /\ r.at = search[s].at /\ r.from = search[s].from /\ r.to = search[s].to
      /\ r.found = search[s].found
  BY <1>1, <1>2, <1>3 DEF Searches
<1> HIDE DEF r
<1>5. ASSUME NEW i \in 1 .. Len(queue) PROVE Trail(queue[i], r)
  BY <1>1, <1>4 DEF SearchInv, QueueInv, Trail
<1>6. \A i, j \in 1 .. Len(r.queue) :
          Last(r.queue[i]) = Last(r.queue[j]) => i = j
  <2> SUFFICES ASSUME NEW i \in 1 .. Len(r.queue), NEW j \in 1 .. Len(r.queue),
                      Last(r.queue[i]) = Last(r.queue[j])
               PROVE  i = j
    OBVIOUS
  <2>1. /\ i + 1 \in 1 .. Len(queue) /\ j + 1 \in 1 .. Len(queue)
        /\ r.queue[i] = queue[i + 1] /\ r.queue[j] = queue[j + 1]
    BY <1>2, <1>4
  <2>2. i + 1 = j + 1
    BY <1>1, <2>1 DEF SearchInv, QueueInv
  <2> QED
    BY <2>2
<1>7. pc = "scan" => Len(path) <= MaxEdges
  BY <1>2, JoinPathsAssumption DEF pc, Paths
<1>8. QueueInv(r)
  BY <1>1, <1>2, <1>3, <1>4, <1>5, <1>6, <1>7 DEF SearchInv, QueueInv
<1> QED
  BY <1>1, <1>3, <1>4, <1>8, SearchStepInv DEF Pop

\* A path with one more table, related to its last one and not yet in it.
LEMMA Extend ==
    ASSUME NEW path \in Paths, NEW next \in Tables,
           Len(path) \in 1 .. MaxEdges + 1, Distinct(path),
           \A i \in 1 .. Len(path) - 1 : Related(path[i], path[i + 1]),
           Related(Last(path), next), \A i \in 1 .. Len(path) : path[i] # next
    PROVE  /\ Append(path, next) \in Paths
           /\ Len(Append(path, next)) = Len(path) + 1
           /\ Append(path, next)[1] = path[1] /\ Last(Append(path, next)) = next
           /\ Distinct(Append(path, next))
           /\ \A i \in 1 .. Len(Append(path, next)) - 1 :
                  Related(Append(path, next)[i], Append(path, next)[i + 1])
           /\ \A i \in 1 .. Len(Append(path, next)) :
                  \/ Append(path, next)[i] = next
                  \/ i \in 1 .. Len(path) /\ Append(path, next)[i] = path[i]
<1> DEFINE longer == Append(path, next)
<1>1. /\ longer \in Seq(Tables) /\ Len(longer) = Len(path) + 1
      /\ Len(path) \in Nat \ {0} /\ longer[Len(path) + 1] = next
      /\ \A i \in 1 .. Len(path) : longer[i] = path[i]
  BY JoinPathsAssumption DEF Paths
<1> HIDE DEF longer
<1>2. longer[1] = path[1] /\ Last(longer) = next
  BY <1>1 DEF Last
<1>3. Distinct(longer)
  BY <1>1 DEF Distinct
<1>4. ASSUME NEW i \in 1 .. Len(longer) - 1 PROVE Related(longer[i], longer[i + 1])
  <2>1. CASE i = Len(path)
    BY <1>1, <2>1 DEF Last
  <2>2. CASE i \in 1 .. Len(path) - 1
    BY <1>1, <2>2
  <2> QED
    BY <1>1, <2>1, <2>2
<1>5. \A i \in 1 .. Len(longer) :
          \/ longer[i] = next
          \/ i \in 1 .. Len(path) /\ longer[i] = path[i]
  <2> SUFFICES ASSUME NEW i \in 1 .. Len(longer)
               PROVE  \/ longer[i] = next
                      \/ i \in 1 .. Len(path) /\ longer[i] = path[i]
    OBVIOUS
  <2>1. i = Len(path) + 1 \/ i \in 1 .. Len(path)
    BY <1>1
  <2> QED
    BY <1>1, <2>1
<1>6. longer \in Paths /\ Len(longer) = Len(path) + 1
  BY <1>1 DEF Paths
<1> QED
  BY <1>2, <1>3, <1>4, <1>5, <1>6 DEF longer

\* The path and the edge that a scan looks at.
LEMMA AtEdgeFacts ==
    ASSUME Inv, NEW s \in Searchers, AtEdge(s)
    PROVE  /\ SearchInv(search[s]) /\ search[s] \in Searches
           /\ Trail(search[s].path, search[s]) /\ search[s].path \in Paths
           /\ Len(search[s].path) \in 1 .. MaxEdges
           /\ NextTo(s) \in Tables /\ Related(Last(search[s].path), NextTo(s))
<1>1. /\ SearchInv(search[s]) /\ search[s] \in Searches
      /\ search[s].pc = "scan" /\ search[s].edge <= Len(Edges(s))
  BY DEF Inv, AtEdge
<1>2. /\ Trail(search[s].path, search[s]) /\ Len(search[s].path) <= MaxEdges
      /\ search[s].edge > 0
  BY <1>1 DEF SearchInv, QueueInv
<1>3. search[s].path \in Paths /\ search[s].edge \in Nat
  BY <1>1 DEF Searches
<1>4. Len(search[s].path) \in 1 .. MaxEdges
  BY <1>2, <1>3, JoinPathsAssumption DEF Trail, Paths
<1>5. Table(s) \in Tables /\ Table(s) = Last(search[s].path)
  BY <1>3, <1>4, JoinPathsAssumption DEF Table, Last, Paths
<1>6. Edges(s) \in Seq(Tables) /\ search[s].edge \in 1 .. Len(Edges(s))
  BY <1>1, <1>2, <1>3, <1>5 DEF Inv, Edges
<1>7. NextTo(s) \in Tables /\ Related(Table(s), NextTo(s))
  BY <1>5, <1>6 DEF Inv, GraphInv, NextTo, Edges
<1> QED
  BY <1>1, <1>2, <1>3, <1>4, <1>5, <1>7

\* The table searched for is next: the path to it is a walk, and is remembered.
LEMMA ArriveInv ==
    ASSUME Inv, NEW s \in Searchers, Arrive(s) PROVE Inv'
<1> DEFINE path == NextPath(s)
<1>1. AtEdge(s) /\ NextTo(s) = search[s].to /\ search[s].pc = "scan"
  BY DEF Arrive, AtEdge
<1>2. \A i \in 1 .. Len(search[s].path) : search[s].path[i] # NextTo(s)
  BY <1>1, AtEdgeFacts DEF SearchInv, QueueInv, Trail
<1>3. /\ path \in Paths /\ Len(path) = Len(search[s].path) + 1
      /\ path[1] = search[s].from /\ Last(path) = search[s].to
      /\ Distinct(path)
      /\ \A i \in 1 .. Len(path) - 1 : Related(path[i], path[i + 1])
  BY <1>1, <1>2, AtEdgeFacts, Extend DEF NextPath, Trail
<1>4. Len(path) \in 2 .. MaxEdges + 1
  BY <1>1, <1>3, AtEdgeFacts, JoinPathsAssumption
<1> HIDE DEF path
<1>5. Walk(path, search[s].from, search[s].to)
  BY <1>3, <1>4 DEF Walk, Last, Distinct
<1>6. memo' = [memo EXCEPT ![Key(s)] = path] /\ UNCHANGED graphVars
      /\ Found(s, path)
  BY DEF Arrive, Remember, path
<1>7. Key(s) \in Keys /\ Key(s)[1] = search[s].from /\ Key(s)[2] = search[s].to
  BY <1>1, AtEdgeFacts DEF Searches, Key, Keys
<1>8. memo' \in [Keys -> Paths]
  BY <1>3, <1>6, <1>7 DEF Inv
<1>9. \A key \in Keys : memo'[key] # None => Walk(memo'[key], key[1], key[2])
  BY <1>5, <1>6, <1>7 DEF Inv, MemoInv
<1>10. MemoInv'
  BY <1>6, <1>9 DEF MemoInv, Walk, Related, graphVars
<1> QED
  BY <1>1, <1>3, <1>5, <1>6, <1>8, <1>10, FoundStepInv

\* A table not yet visited is queued, with a path of its own.
LEMMA VisitInv ==
    ASSUME Inv, NEW s \in Searchers, Visit(s) PROVE Inv'
<1> DEFINE path == NextPath(s)
           queue == search[s].queue
           r == [search[s] EXCEPT !.visited = search[s].visited \cup {NextTo(s)},
                                  !.queue = Append(queue, path),
                                  !.edge = search[s].edge + 1]
<1>1. /\ AtEdge(s) /\ NextTo(s) # search[s].to
      /\ NextTo(s) \notin search[s].visited /\ search[s].pc = "scan"
      /\ search' = [search EXCEPT ![s] = r] /\ UNCHANGED <<graphVars, memo>>
  BY DEF Visit, AtEdge, Visited
<1>2. \A i \in 1 .. Len(search[s].path) : search[s].path[i] # NextTo(s)
  BY <1>1, AtEdgeFacts DEF Trail
<1>3. /\ path \in Paths /\ Len(path) = Len(search[s].path) + 1
      /\ path[1] = search[s].from /\ Last(path) = NextTo(s)
      /\ Distinct(path)
      /\ \A i \in 1 .. Len(path) - 1 : Related(path[i], path[i + 1])
      /\ \A i \in 1 .. Len(path) : path[i] \in search[s].visited \cup {NextTo(s)}
  <2> DEFINE old == search[s].path
  <2>1. /\ old \in Paths /\ Len(old) \in 1 .. MaxEdges + 1
        /\ NextTo(s) \in Tables /\ Related(Last(old), NextTo(s))
        /\ old[1] = search[s].from /\ Distinct(old)
        /\ \A i \in 1 .. Len(old) - 1 : Related(old[i], old[i + 1])
        /\ \A i \in 1 .. Len(old) : old[i] \in search[s].visited
    BY <1>1, AtEdgeFacts, JoinPathsAssumption DEF Trail
  <2>2. path = Append(old, NextTo(s))
    BY DEF NextPath
  <2> HIDE DEF path, old
  <2>3. /\ path \in Paths /\ Len(path) = Len(old) + 1
        /\ path[1] = old[1] /\ Last(path) = NextTo(s) /\ Distinct(path)
        /\ \A i \in 1 .. Len(path) - 1 : Related(path[i], path[i + 1])
        /\ \A i \in 1 .. Len(path) :
               \/ path[i] = NextTo(s)
               \/ i \in 1 .. Len(old) /\ path[i] = old[i]
    BY <1>2, <2>1, <2>2, Extend DEF old
  <2>4. \A i \in 1 .. Len(path) : path[i] \in search[s].visited \cup {NextTo(s)}
    BY <2>1, <2>3
  <2> QED
    BY <2>1, <2>3, <2>4 DEF old
<1>4. Len(path) \in 1 .. MaxEdges + 1
  BY <1>1, <1>3, AtEdgeFacts, JoinPathsAssumption
<1> HIDE DEF path
<1>5. /\ SearchInv(search[s]) /\ search[s] \in Searches /\ queue \in Seq(Paths)
      /\ search[s].edge \in Nat /\ search[s].edge > 0
      /\ search[s].visited \cup {NextTo(s)} \in SUBSET Tables
  BY <1>1, AtEdgeFacts DEF Searches, SearchInv, QueueInv
<1>6. /\ Append(queue, path) \in Seq(Paths)
      /\ Len(Append(queue, path)) = Len(queue) + 1 /\ Len(queue) \in Nat
      /\ \A i \in 1 .. Len(queue) : Append(queue, path)[i] = queue[i]
      /\ Append(queue, path)[Len(queue) + 1] = path
  BY <1>3, <1>5
<1>7. /\ r \in Searches /\ r.pc = "scan" /\ r.queue = Append(queue, path)
      /\ r.visited = search[s].visited \cup {NextTo(s)}
      /\ r.path = search[s].path /\ r.edge = search[s].edge + 1
      /\ r.names = search[s].names /\ r.at = search[s].at
      /\ r.from = search[s].from /\ r.to = search[s].to
      /\ r.found = search[s].found
  <2>1. search[s].edge + 1 \in Nat
    BY <1>5
  <2>2. search[s] \in Searches
    BY <1>5
  <2> HIDE DEF queue
  <2> QED
    BY <1>1, <1>5, <1>6, <2>1, <2>2 DEF Searches
<1> HIDE DEF r
<1>8. Trail(path, r)
  BY <1>3, <1>4, <1>7 DEF Trail
<1>9. /\ \A i \in 1 .. Len(queue) : Trail(queue[i], r)
      /\ Trail(search[s].path, r) /\ Len(search[s].path) <= MaxEdges
  BY <1>1, <1>5, <1>7 DEF SearchInv, QueueInv, Trail
<1>10. ASSUME NEW i \in 1 .. Len(queue) PROVE Last(queue[i]) # Last(path)
  <2>1. Trail(queue[i], search[s]) /\ queue[i] \in Paths
    BY <1>1, <1>5 DEF SearchInv, QueueInv
  <2>2. Len(queue[i]) \in 1 .. Len(queue[i])
    <3>1. Len(queue[i]) \in 1 .. MaxEdges + 1 /\ MaxEdges \in Nat
      BY <2>1, JoinPathsAssumption DEF Trail
    <3> QED
      BY ONLY <3>1
  <2>3. Last(queue[i]) \in search[s].visited
    BY <2>1, <2>2 DEF Trail, Last
  <2> QED
    BY <1>1, <1>3, <2>3
<1>11. \A i, j \in 1 .. Len(queue) : Last(queue[i]) = Last(queue[j]) => i = j
  BY <1>1, <1>5 DEF SearchInv, QueueInv
<1>12. \A i, j \in 1 .. Len(r.queue) :
           Last(r.queue[i]) = Last(r.queue[j]) => i = j
  <2> SUFFICES ASSUME NEW i \in 1 .. Len(r.queue), NEW j \in 1 .. Len(r.queue),
                      Last(r.queue[i]) = Last(r.queue[j])
               PROVE  i = j
    OBVIOUS
  <2>1. \A k \in 1 .. Len(r.queue) :
            \/ k \in 1 .. Len(queue) /\ r.queue[k] = queue[k]
            \/ k = Len(queue) + 1 /\ r.queue[k] = path
    BY <1>6, <1>7
  <2> QED
    BY <1>10, <1>11, <2>1
<1>13. \A i \in 1 .. Len(r.queue) : Trail(r.queue[i], r)
  BY <1>6, <1>7, <1>8, <1>9
<1>14. r.from \in r.visited /\ r.to \notin r.visited /\ r.edge > 0
  BY <1>1, <1>5, <1>7 DEF SearchInv, QueueInv
<1>15. QueueInv(r)
  BY <1>7, <1>9, <1>12, <1>13, <1>14 DEF QueueInv
<1> QED
  BY <1>1, <1>7, <1>15, SearchStepInv

\* The next edge, or the next path.
LEMMA ScanOnInv ==
    ASSUME Inv, NEW s \in Searchers, Skip(s) \/ EndScan(s) PROVE Inv'
<1>1. PICK pc \in {"pop", "scan"}, edge \in {search[s].edge, search[s].edge + 1} :
          /\ search' = [search EXCEPT ![s] =
                           [search[s] EXCEPT !.pc = pc, !.edge = edge]]
          /\ search[s].pc = "scan" /\ UNCHANGED <<graphVars, memo>>
  <2>1. search[s] \in Searches
    BY DEF Inv
  <2>2. CASE Skip(s)
    <3>1. /\ search' = [search EXCEPT ![s] =
                          [search[s] EXCEPT !.edge = search[s].edge + 1]]
          /\ search[s].pc = "scan" /\ UNCHANGED <<graphVars, memo>>
      BY <2>2 DEF Skip, AtEdge
    <3>2. [search[s] EXCEPT !.edge = search[s].edge + 1] =
          [search[s] EXCEPT !.pc = "scan", !.edge = search[s].edge + 1]
      BY <2>1, <3>1 DEF Searches
    <3> QED
      BY <3>1, <3>2
  <2>3. CASE EndScan(s)
    <3>1. /\ search' = [search EXCEPT ![s] = [search[s] EXCEPT !.pc = "pop"]]
          /\ search[s].pc = "scan" /\ UNCHANGED <<graphVars, memo>>
      BY <2>3 DEF EndScan
    <3>2. [search[s] EXCEPT !.pc = "pop"] =
          [search[s] EXCEPT !.pc = "pop", !.edge = search[s].edge]
      BY <2>1, <3>1 DEF Searches
    <3> QED
      BY <3>1, <3>2
  <2> QED
    BY <2>2, <2>3
<1> DEFINE r == [search[s] EXCEPT !.pc = pc, !.edge = edge]
<1>2. SearchInv(search[s]) /\ search[s] \in Searches /\ edge \in Nat /\ edge > 0
  <2>1. SearchInv(search[s]) /\ search[s] \in Searches
    BY DEF Inv
  <2>2. search[s].edge \in Nat /\ search[s].edge > 0
    BY <2>1 DEF Searches, SearchInv, QueueInv
  <2> QED
    BY <2>1, <2>2
<1>3. /\ r \in Searches /\ r.pc = pc /\ r.edge = edge
      /\ r.queue = search[s].queue /\ r.visited = search[s].visited
      /\ r.path = search[s].path /\ r.names = search[s].names
      /\ r.at = search[s].at /\ r.from = search[s].from
      /\ r.to = search[s].to /\ r.found = search[s].found
  BY <1>2 DEF Searches
<1> HIDE DEF r
<1>4. QueueInv(r)
  BY <1>1, <1>2, <1>3 DEF SearchInv, QueueInv, Trail
<1> QED
  BY <1>1, <1>3, <1>4, SearchStepInv DEF r

LEMMA NextInv == Inv /\ [Next]_vars => Inv'
<1> SUFFICES ASSUME Inv, [Next]_vars PROVE Inv'
  OBVIOUS
<1>1. CASE Link
  BY <1>1, LinkInv
<1>2. ASSUME NEW s \in Searchers, Retrieve(s) PROVE Inv'
  BY <1>2, SelectInv, NotFoundInv, RecallInv, StartInv, PopInv, ArriveInv,
     VisitInv, ScanOnInv DEF Retrieve
<1>3. CASE UNCHANGED vars
  <2>1. UNCHANGED <<relationships, linked, adjacency, memo, search>>
    BY <1>3 DEF vars
  <2>2. ASSUME NEW q, SearchInv(q) PROVE SearchInv(q)'
    BY <2>1, <2>2, RowsSame
  <2>3. GraphInv' /\ MemoInv'
    BY <2>1 DEF Inv, GraphInv, MemoInv, Walk, Related
  <2> QED
    BY <2>1, <2>2, <2>3 DEF Inv
<1> QED
  BY <1>1, <1>2, <1>3 DEF Next

LEMMA Invariance == Spec => []Inv
BY InitInv, NextInv, PTL DEF Spec

-----------------------------------------------------------------------------
(* The theorems. *)

\* The variables hold what they should, and no search queues a table twice.
THEOREM JoinTypeCorrect == Spec => []TypeOK
<1>1. Inv => TypeOK
  <2> SUFFICES ASSUME Inv PROVE TypeOK
    OBVIOUS
  <2>1. ASSUME NEW s \in Searchers,
               NEW i \in 1 .. Len(search[s].queue),
               NEW j \in 1 .. Len(search[s].queue),
               Last(search[s].queue[i]) = Last(search[s].queue[j])
        PROVE  i = j
    BY <2>1 DEF Inv, SearchInv, QueueInv
  <2> QED
    BY <2>1 DEF Inv, TypeOK, Last
<1> QED
  BY <1>1, Invariance, PTL

\* Whatever a retrieval finds or remembers joins the first table selected and
\* another one along relationships of the catalog, at most MaxEdges of them and
\* through no table twice, however many threads fill the memo.
THEOREM PathsJoinCorrect == Spec => []PathsJoin
<1>1. Inv => PathsJoin
  BY DEF Inv, MemoInv, SearchInv, FoundInv, Joins, PathsJoin
<1> QED
  BY <1>1, Invariance, PTL

-----------------------------------------------------------------------------
(* Distances.  There is no induction over data here: a property of all     *)
(* numbers is shown by looking at the least one that does not have it.      *)

LEMMA LeastNat ==
    ASSUME NEW T, T \subseteq Nat, T # {}
    PROVE  \E x \in T : \A y \in T : x <= y
<1> DEFINE R == {ss \in Nat \X Nat : ss[1] < ss[2]}
<1>1. IsWellFoundedOn(R, Nat)
  BY NatLessThanWellFounded DEF OpToRel
<1>2. \A x, y \in Nat : y < x => <<y, x>> \in R
  OBVIOUS
<1> HIDE DEF R
<1>3. PICK x \in T : \A y \in T : ~ (<<y, x>> \in R)
  BY <1>1, WFMin
<1>4. ASSUME NEW y \in T PROVE x <= y
  <2>1. x \in Nat /\ y \in Nat /\ ~ (y < x)
    BY <1>2, <1>3
  <2> QED
    BY <2>1
<1> QED
  BY <1>4

\* A set of numbers that has 0, and with each number up to N the next, has all
\* of them.
LEMMA UpTo ==
    ASSUME NEW N \in Nat, NEW S, 0 \in S,
           \A n \in 0 .. N - 1 : n \in S => n + 1 \in S
    PROVE  \A n \in 0 .. N : n \in S
<1> DEFINE T == {n \in 0 .. N : n \notin S}
<1>1. SUFFICES ASSUME T # {} PROVE FALSE
  OBVIOUS
<1>2. T \subseteq Nat
  OBVIOUS
<1> HIDE DEF T
<1>3. PICK x \in T : \A y \in T : x <= y
  BY <1>1, <1>2, LeastNat
<1>4. x \in 0 .. N /\ x \notin S
  BY <1>3 DEF T
<1>5. x - 1 \in 0 .. N - 1 /\ x - 1 \in 0 .. N /\ (x - 1) + 1 = x /\ ~ (x <= x - 1)
  BY <1>4
<1>6. x - 1 \in S
  BY <1>3, <1>5 DEF T
<1> QED
  BY <1>4, <1>5, <1>6

\* The tables related to one of some.
Around(some) == {t \in Tables : \E u \in some : Related(u, t)}

BallUpTo(a, N, f) ==
    f = [n \in 0 .. N |-> IF n = 0 THEN {a} ELSE f[n - 1] \cup Around(f[n - 1])]

LEMMA BallsExist ==
    ASSUME NEW a, NEW N \in Nat PROVE \E f : BallUpTo(a, N, f)
<1> DEFINE S == {n \in Nat : \E f : BallUpTo(a, n, f)}
<1>1. 0 \in S
  <2> DEFINE f == [n \in 0 .. 0 |-> {a}]
  <2>1. f = [n \in 0 .. 0 |-> IF n = 0 THEN {a} ELSE f[n - 1] \cup Around(f[n - 1])]
    OBVIOUS
  <2>2. BallUpTo(a, 0, f)
    BY <2>1 DEF BallUpTo
  <2> QED
    BY <2>2
<1>2. ASSUME NEW n \in 0 .. N - 1, n \in S PROVE n + 1 \in S
  <2>1. PICK f : BallUpTo(a, n, f)
    BY <1>2
  <2> DEFINE G(m, h) == IF m = 0 THEN {a} ELSE h[m - 1] \cup Around(h[m - 1])
  <2> DEFINE g == [m \in 0 .. n + 1 |-> G(m, f)]
  <2>2. \A m \in 0 .. n : f[m] = G(m, f)
    BY <2>1 DEF BallUpTo
  <2> HIDE DEF G
  <2>3. \A m \in 0 .. n : g[m] = f[m]
    <3>1. \A m \in 0 .. n : m \in 0 .. n + 1
      OBVIOUS
    <3> QED
      BY <2>2, <3>1
  <2>4. \A m \in 0 .. n + 1 : g[m] = G(m, f)
    OBVIOUS
  <2>5. g = [m \in 0 .. n + 1 |-> g[m]]
    OBVIOUS
  <2> HIDE DEF g
  <2>6. \A m \in 0 .. n + 1 : G(m, f) = G(m, g)
    <3>1. \A m \in 0 .. n + 1 : m = 0 \/ m - 1 \in 0 .. n
      OBVIOUS
    <3> QED
      BY <2>3, <3>1 DEF G
  <2>7. \A m \in 0 .. n + 1 : g[m] = G(m, g)
    BY <2>4, <2>6
  <2>8. g = [m \in 0 .. n + 1 |-> G(m, g)]
    BY <2>5, <2>7
  <2>9. BallUpTo(a, n + 1, g)
    BY <2>8 DEF BallUpTo, G
  <2> QED
    BY <2>9
<1> HIDE DEF S
<1>3. N \in S
  BY <1>1, <1>2, UpTo
<1> QED
  BY <1>3 DEF S

LEMMA BallFacts ==
    ASSUME NEW a
    PROVE  /\ Ball(a)[0] = {a}
           /\ \A n \in 1 .. MaxEdges : Ball(a)[n] = Ball(a)[n - 1] \cup Around(Ball(a)[n - 1])
<1> DEFINE F(f) == [n \in 0 .. MaxEdges |->
                       IF n = 0 THEN {a}
                       ELSE f[n - 1] \cup
                                {t \in Tables : \E u \in f[n - 1] : Related(u, t)}]
<1>1. Ball(a) = CHOOSE f : f = F(f)
  BY Zenon DEF Ball
<1>2. \E f : f = F(f)
  <2>1. MaxEdges \in Nat
    BY JoinPathsAssumption
  <2>2. PICK f : BallUpTo(a, MaxEdges, f)
    BY <2>1, BallsExist
  <2>3. f = F(f)
    BY <2>2 DEF BallUpTo, Around
  <2> QED
    BY <2>3
<1>3. Ball(a) = F(Ball(a))
  <2> HIDE DEF F
  <2> QED
    BY <1>1, <1>2
<1> DEFINE B == Ball(a)
<1>4. B = F(B)
  BY <1>3
<1> HIDE DEF B
<1>5. \A n \in 0 .. MaxEdges :
          B[n] = IF n = 0 THEN {a} ELSE B[n - 1] \cup Around(B[n - 1])
  BY <1>4 DEF Around
<1>6. MaxEdges \in Nat
  BY JoinPathsAssumption
<1>7. \A n \in 1 .. MaxEdges : n \in 0 .. MaxEdges /\ n # 0
  BY <1>6
<1>8. B[0] = {a}
  <2>1. 0 \in 0 .. MaxEdges
    BY <1>6
  <2>2. \A n \in 0 .. MaxEdges : n = 0 => B[n] = {a}
    BY <1>5
  <2> QED
    BY <2>1, <2>2
<1>9. \A n \in 1 .. MaxEdges : B[n] = B[n - 1] \cup Around(B[n - 1])
  BY <1>5, <1>7
<1> QED
  BY <1>8, <1>9 DEF B

LEMMA BallGrows ==
    ASSUME NEW a, NEW n \in 0 .. MaxEdges, NEW m \in n .. MaxEdges
    PROVE  Ball(a)[n] \subseteq Ball(a)[m]
<1> DEFINE S == {k \in Nat : n + k <= MaxEdges => Ball(a)[n] \subseteq Ball(a)[n + k]}
<1>1. 0 \in S
  OBVIOUS
<1>2. MaxEdges \in Nat /\ n \in Nat
  BY JoinPathsAssumption
<1>3. ASSUME NEW k \in 0 .. MaxEdges - 1, k \in S PROVE k + 1 \in S
  <2>1. SUFFICES ASSUME n + (k + 1) <= MaxEdges
                 PROVE  Ball(a)[n] \subseteq Ball(a)[n + (k + 1)]
    OBVIOUS
  <2>2. n + k <= MaxEdges /\ n + (k + 1) \in 1 .. MaxEdges /\ (n + (k + 1)) - 1 = n + k
    BY <1>2, <2>1
  <2>3. Ball(a)[n + k] \subseteq Ball(a)[n + (k + 1)]
    BY <2>2, BallFacts
  <2> QED
    BY <1>3, <2>2, <2>3
<1> HIDE DEF S
<1>4. \A k \in 0 .. MaxEdges : k \in S
  BY <1>1, <1>2, <1>3, UpTo
<1>5. m - n \in 0 .. MaxEdges /\ n + (m - n) = m /\ m <= MaxEdges
  BY <1>2
<1> QED
  BY <1>4, <1>5 DEF S

\* A way leads along relationships, from table to table.
Way(w) == /\ w \in Paths /\ Len(w) \in Nat \ {0}
          /\ \A i \in 1 .. Len(w) - 1 : Related(w[i], w[i + 1])

LEMMA WayInBall ==
    ASSUME NEW w, Way(w), NEW n \in 0 .. Len(w) - 1, n <= MaxEdges
    PROVE  w[n + 1] \in Ball(w[1])[n]
<1> DEFINE S == {k \in Nat : k <= MaxEdges => w[k + 1] \in Ball(w[1])[k]}
<1>1. 0 \in S
  BY BallFacts
<1>2. Len(w) \in Nat \ {0} /\ Len(w) - 1 \in Nat /\ w \in Seq(Tables) /\ MaxEdges \in Nat
  BY JoinPathsAssumption DEF Way, Paths
<1>3. ASSUME NEW k \in 0 .. (Len(w) - 1) - 1, k \in S PROVE k + 1 \in S
  <2>1. SUFFICES ASSUME k + 1 <= MaxEdges
                 PROVE  w[(k + 1) + 1] \in Ball(w[1])[k + 1]
    OBVIOUS
  <2>2. /\ k + 1 \in 1 .. MaxEdges /\ (k + 1) - 1 = k /\ k <= MaxEdges
        /\ k + 1 \in 1 .. Len(w) - 1 /\ (k + 1) + 1 \in 1 .. Len(w)
    BY <1>2, <2>1
  <2>3. Related(w[k + 1], w[(k + 1) + 1]) /\ w[(k + 1) + 1] \in Tables
    BY <1>2, <2>2 DEF Way
  <2>4. w[k + 1] \in Ball(w[1])[k]
    BY <1>3, <2>2
  <2> QED
    BY <2>2, <2>3, <2>4, BallFacts DEF Around
<1> HIDE DEF S
<1>4. \A k \in 0 .. Len(w) - 1 : k \in S
  BY <1>1, <1>2, <1>3, UpTo
<1> QED
  BY <1>4 DEF S

\* Relationships lead both ways.
LEMMA WayBack ==
    ASSUME NEW w, Way(w), NEW n \in 0 .. Len(w) - 1, n <= MaxEdges
    PROVE  w[Len(w) - n] \in Ball(Last(w))[n]
<1> DEFINE S == {k \in Nat : k <= MaxEdges => w[Len(w) - k] \in Ball(Last(w))[k]}
<1>2. Len(w) \in Nat \ {0} /\ Len(w) - 1 \in Nat /\ w \in Seq(Tables) /\ MaxEdges \in Nat
  BY JoinPathsAssumption DEF Way, Paths
<1>1. 0 \in S
  <2>1. Len(w) - 0 = Len(w)
    BY <1>2
  <2> QED
    BY <2>1, BallFacts DEF Last
<1>3. ASSUME NEW k \in 0 .. (Len(w) - 1) - 1, k \in S PROVE k + 1 \in S
  <2>1. SUFFICES ASSUME k + 1 <= MaxEdges
                 PROVE  w[Len(w) - (k + 1)] \in Ball(Last(w))[k + 1]
    OBVIOUS
  <2>2. /\ k + 1 \in 1 .. MaxEdges /\ (k + 1) - 1 = k /\ k <= MaxEdges
        /\ Len(w) - (k + 1) \in 1 .. Len(w) - 1
        /\ (Len(w) - (k + 1)) + 1 = Len(w) - k /\ Len(w) - (k + 1) \in 1 .. Len(w)
    BY <1>2, <2>1
  <2>3. Related(w[Len(w) - (k + 1)], w[Len(w) - k]) /\ w[Len(w) - (k + 1)] \in Tables
    BY <1>2, <2>2 DEF Way
  <2>4. w[Len(w) - k] \in Ball(Last(w))[k]
    BY <1>3, <2>2
  <2>5. Related(w[Len(w) - k], w[Len(w) - (k + 1)])
    BY <2>3 DEF Related
  <2> QED
    BY <2>2, <2>3, <2>4, <2>5, BallFacts DEF Around
<1> HIDE DEF S
<1>4. \A k \in 0 .. Len(w) - 1 : k \in S
  BY <1>1, <1>2, <1>3, UpTo
<1> QED
  BY <1>4 DEF S

-----------------------------------------------------------------------------
(* The order of paths: by the edge they take where they part.              *)

\* Among the edges of t, the first to v is before each to w.
Sooner(t, v, w) ==
    \E i \in 1 .. Len(adjacency[t]) :
        adjacency[t][i] = v /\ \A j \in 1 .. i : adjacency[t][j] # w

PartAt(i, p, q) ==
    /\ i \in 2 .. Len(p) /\ i \in 2 .. Len(q)
    /\ \A j \in 1 .. i - 1 : p[j] = q[j]
    /\ Sooner(p[i - 1], p[i], q[i])

Ahead(p, q) == \E i \in Nat : PartAt(i, p, q)

LEMMA SoonerOrders ==
    ASSUME NEW t \in Tables, adjacency[t] \in Seq(Tables), NEW v, NEW w, NEW z
    PROVE  /\ ~ Sooner(t, v, v)
           /\ ~ (Sooner(t, v, w) /\ Sooner(t, w, v))
           /\ Sooner(t, v, w) /\ Sooner(t, w, z) => Sooner(t, v, z)
<1> DEFINE a == adjacency[t]
<1>1. Len(a) \in Nat
  OBVIOUS
<1> HIDE DEF a
<1>2. ~ Sooner(t, v, v)
  BY <1>1 DEF Sooner, a
<1>3. ASSUME Sooner(t, v, w), NEW x, Sooner(t, w, x)
      PROVE  x # v /\ Sooner(t, v, x)
  <2>1. PICK i \in 1 .. Len(a) : a[i] = v /\ \A j \in 1 .. i : a[j] # w
    BY <1>3 DEF Sooner, a
  <2>2. PICK k \in 1 .. Len(a) : a[k] = w /\ \A j \in 1 .. k : a[j] # x
    BY <1>3 DEF Sooner, a
  <2>3. i \in Nat /\ k \in Nat /\ 1 <= i /\ 1 <= k
    BY <1>1
  <2>4. ~ (k \in 1 .. i)
    BY <2>1, <2>2
  <2>5. \A j \in 1 .. i : j \in 1 .. k
    BY <2>3, <2>4
  <2>6. i \in 1 .. i
    BY <2>3
  <2> QED
    BY <2>1, <2>2, <2>5, <2>6 DEF Sooner, a
<1> QED
  BY <1>2, <1>3

LEMMA AheadApart ==
    ASSUME adjacency \in [Tables -> Seq(Tables)], NEW p \in Paths, NEW q \in Paths
    PROVE  ~ (Ahead(p, q) /\ Ahead(q, p))
<1>1. SUFFICES ASSUME NEW i \in Nat, NEW k \in Nat, PartAt(i, p, q), PartAt(k, q, p)
               PROVE  FALSE
  BY DEF Ahead
<1>2. /\ i \in 2 .. Len(p) /\ i \in 2 .. Len(q) /\ k \in 2 .. Len(p) /\ k \in 2 .. Len(q)
      /\ Len(p) \in Nat /\ Len(q) \in Nat
      /\ \A j \in 1 .. Len(p) : p[j] \in Tables
      /\ \A j \in 1 .. Len(q) : q[j] \in Tables
  <2>1. /\ i \in 2 .. Len(p) /\ i \in 2 .. Len(q)
        /\ k \in 2 .. Len(p) /\ k \in 2 .. Len(q)
    BY <1>1 DEF PartAt
  <2>2. /\ Len(p) \in Nat /\ Len(q) \in Nat
        /\ \A j \in 1 .. Len(p) : p[j] \in Tables
        /\ \A j \in 1 .. Len(q) : q[j] \in Tables
    BY DEF Paths
  <2> QED
    BY <2>1, <2>2
<1>3. /\ p[i - 1] \in Tables /\ q[k - 1] \in Tables
      /\ adjacency[p[i - 1]] \in Seq(Tables) /\ adjacency[q[k - 1]] \in Seq(Tables)
  <2>1. i - 1 \in 1 .. Len(p) /\ k - 1 \in 1 .. Len(q)
    BY <1>2
  <2> QED
    BY <1>2, <2>1
<1>4. CASE i < k
  <2>1. i \in 1 .. k - 1
    BY <1>2, <1>4
  <2> QED
    BY <1>1, <1>3, <2>1, SoonerOrders DEF PartAt
<1>5. CASE k < i
  <2>1. k \in 1 .. i - 1
    BY <1>2, <1>5
  <2> QED
    BY <1>1, <1>3, <2>1, SoonerOrders DEF PartAt
<1>6. CASE i = k
  <2>1. p[i - 1] = q[i - 1]
    <3>1. i - 1 \in 1 .. i - 1
      BY <1>2
    <3> QED
      BY <1>1, <3>1 DEF PartAt
  <2>2. Sooner(p[i - 1], p[i], q[i]) /\ Sooner(p[i - 1], q[i], p[i])
    BY <1>1, <1>6, <2>1 DEF PartAt
  <2> QED
    BY <1>3, <2>2, SoonerOrders
<1> QED
  BY <1>2, <1>4, <1>5, <1>6

LEMMA AheadFollows ==
    ASSUME adjacency \in [Tables -> Seq(Tables)],
           NEW p \in Paths, NEW q \in Paths, NEW w \in Paths, Ahead(p, q), Ahead(q, w)
    PROVE  Ahead(p, w)
<1>1. PICK i \in Nat : PartAt(i, p, q)
  BY DEF Ahead
<1>2. PICK k \in Nat : PartAt(k, q, w)
  BY DEF Ahead
<1>3. /\ i \in 2 .. Len(p) /\ i \in 2 .. Len(q) /\ k \in 2 .. Len(q) /\ k \in 2 .. Len(w)
      /\ Len(p) \in Nat /\ Len(q) \in Nat /\ Len(w) \in Nat
      /\ \A j \in 1 .. Len(p) : p[j] \in Tables
  <2>1. /\ i \in 2 .. Len(p) /\ i \in 2 .. Len(q)
        /\ k \in 2 .. Len(q) /\ k \in 2 .. Len(w)
    BY <1>1, <1>2 DEF PartAt
  <2>2. /\ Len(p) \in Nat /\ Len(q) \in Nat /\ Len(w) \in Nat
        /\ \A j \in 1 .. Len(p) : p[j] \in Tables
    BY DEF Paths
  <2> QED
    BY <2>1, <2>2
<1>4. i - 1 \in 1 .. Len(p) /\ i - 1 \in 1 .. i - 1 /\ k - 1 \in 1 .. k - 1
  BY <1>3
<1>5. CASE i < k
  <2>1. i \in 2 .. Len(w) /\ i \in 1 .. k - 1 /\ \A j \in 1 .. i - 1 : j \in 1 .. k - 1
    BY <1>3, <1>5
  <2>2. PartAt(i, p, w)
    BY <1>1, <1>2, <1>3, <2>1 DEF PartAt
  <2> QED
    BY <2>2 DEF Ahead
<1>6. CASE k < i
  <2>1. k \in 2 .. Len(p) /\ k \in 1 .. i - 1 /\ \A j \in 1 .. k - 1 : j \in 1 .. i - 1
        /\ k - 1 \in 1 .. i - 1
    BY <1>3, <1>6
  <2>2. PartAt(k, p, w)
    BY <1>1, <1>2, <1>3, <2>1 DEF PartAt
  <2> QED
    BY <2>2 DEF Ahead
<1>7. CASE i = k
  <2>1. p[i - 1] = q[i - 1] /\ p[i - 1] \in Tables /\ adjacency[p[i - 1]] \in Seq(Tables)
    BY <1>1, <1>3, <1>4 DEF PartAt
  <2>2. Sooner(p[i - 1], p[i], q[i]) /\ Sooner(p[i - 1], q[i], w[i])
    BY <1>1, <1>2, <1>7, <2>1 DEF PartAt
  <2>3. Sooner(p[i - 1], p[i], w[i])
    BY <2>1, <2>2, SoonerOrders
  <2>4. \A j \in 1 .. i - 1 : p[j] = w[j]
    BY <1>1, <1>2, <1>7 DEF PartAt
  <2>5. PartAt(i, p, w)
    BY <1>3, <1>7, <2>3, <2>4 DEF PartAt
  <2> QED
    BY <2>5 DEF Ahead
<1> QED
  BY <1>3, <1>5, <1>6, <1>7

Begins(q, p) == Len(p) <= Len(q) /\ \A j \in 1 .. Len(p) : q[j] = p[j]

\* Paths that have parted go apart.
LEMMA AheadStays ==
    ASSUME NEW p \in Paths, NEW q \in Paths, NEW longP \in Paths, NEW longQ \in Paths,
           Ahead(p, q), Begins(longP, p), Begins(longQ, q)
    PROVE  Ahead(longP, longQ)
<1>1. PICK i \in Nat : PartAt(i, p, q)
  BY DEF Ahead
<1>2. /\ i \in 2 .. Len(p) /\ i \in 2 .. Len(q)
      /\ Len(p) \in Nat /\ Len(q) \in Nat /\ Len(longP) \in Nat /\ Len(longQ) \in Nat
      /\ Len(p) <= Len(longP) /\ Len(q) <= Len(longQ)
  BY <1>1 DEF PartAt, Paths, Begins
<1>3. /\ i \in 2 .. Len(longP) /\ i \in 2 .. Len(longQ)
      /\ \A j \in 1 .. i : j \in 1 .. Len(p) /\ j \in 1 .. Len(q)
      /\ i \in 1 .. i /\ i - 1 \in 1 .. i /\ \A j \in 1 .. i - 1 : j \in 1 .. i
  BY <1>2
<1>4. \A j \in 1 .. i : longP[j] = p[j] /\ longQ[j] = q[j]
  BY <1>3 DEF Begins
<1>5. \A j \in 1 .. i - 1 : longP[j] = longQ[j]
  BY <1>1, <1>3, <1>4 DEF PartAt
<1>6. Sooner(longP[i - 1], longP[i], longQ[i])
  BY <1>1, <1>3, <1>4 DEF PartAt
<1>7. PartAt(i, longP, longQ)
  BY <1>3, <1>5, <1>6 DEF PartAt
<1> QED
  BY <1>7 DEF Ahead

-----------------------------------------------------------------------------
(* The best path between two tables is the one that is found: there is     *)
(* none with less edges, and it is ahead of every other with as many.      *)

Nearest(q) == Len(q) >= 2 => Last(q) \notin Ball(q[1])[Len(q) - 2]

Least(q) ==
    \A w \in Paths : Way(w) /\ Len(w) = Len(q) /\ w[1] = q[1] /\ Last(w) = Last(q)
                         => w = q \/ Ahead(q, w)

Best(q) == Nearest(q) /\ Least(q)

LEMMA WalkIsWay ==
    ASSUME NEW w \in Paths, NEW a, NEW b, Walk(w, a, b)
    PROVE  /\ Way(w) /\ Len(w) \in 2 .. MaxEdges + 1 /\ w[1] = a /\ Last(w) = b
           /\ b \in Ball(a)[MaxEdges] /\ a \in Ball(b)[MaxEdges]
           /\ b \in Ball(a)[Len(w) - 1]
<1>1. /\ Len(w) \in 2 .. MaxEdges + 1 /\ w[1] = a /\ Last(w) = b
      /\ \A i \in 1 .. Len(w) - 1 : Related(w[i], w[i + 1])
  BY DEF Walk, Last
<1>2. Len(w) \in Nat \ {0} /\ Way(w) /\ MaxEdges \in Nat
  BY <1>1, JoinPathsAssumption DEF Way
<1> DEFINE n == Len(w) - 1
<1>3. n \in 0 .. Len(w) - 1 /\ n <= MaxEdges /\ n + 1 = Len(w) /\ Len(w) - n = 1
      /\ n \in 0 .. MaxEdges /\ MaxEdges \in n .. MaxEdges
  BY <1>1, <1>2
<1> HIDE DEF n
<1>4. b \in Ball(a)[n]
  BY <1>1, <1>2, <1>3, WayInBall DEF Last
<1>5. a \in Ball(b)[n]
  BY <1>1, <1>2, <1>3, WayBack
<1>6. Ball(a)[n] \subseteq Ball(a)[MaxEdges] /\ Ball(b)[n] \subseteq Ball(b)[MaxEdges]
  BY <1>3, BallGrows
<1> QED
  BY <1>1, <1>2, <1>4, <1>5, <1>6 DEF n

LEMMA BestIsOne ==
    ASSUME adjacency \in [Tables -> Seq(Tables)], NEW a, NEW b,
           NEW p \in Paths, NEW q \in Paths, Walk(p, a, b), Walk(q, a, b), Best(p), Best(q)
    PROVE  p = q
<1>1. /\ Way(p) /\ Len(p) \in 2 .. MaxEdges + 1 /\ p[1] = a /\ Last(p) = b
      /\ Way(q) /\ Len(q) \in 2 .. MaxEdges + 1 /\ q[1] = a /\ Last(q) = b
      /\ b \in Ball(a)[Len(p) - 1] /\ b \in Ball(a)[Len(q) - 1]
  BY WalkIsWay
<1>2. /\ b \notin Ball(a)[Len(p) - 2] /\ b \notin Ball(a)[Len(q) - 2]
      /\ MaxEdges \in Nat
  BY <1>1, JoinPathsAssumption DEF Best, Nearest
<1>3. ASSUME Len(p) < Len(q) PROVE FALSE
  <2>1. Len(p) - 1 \in 0 .. MaxEdges /\ Len(q) - 2 \in (Len(p) - 1) .. MaxEdges
    BY <1>1, <1>2, <1>3
  <2> QED
    BY <1>1, <1>2, <2>1, BallGrows
<1>4. ASSUME Len(q) < Len(p) PROVE FALSE
  <2>1. Len(q) - 1 \in 0 .. MaxEdges /\ Len(p) - 2 \in (Len(q) - 1) .. MaxEdges
    BY <1>1, <1>2, <1>4
  <2> QED
    BY <1>1, <1>2, <2>1, BallGrows
<1>5. Len(p) = Len(q)
  BY <1>1, <1>2, <1>3, <1>4
<1>6. p = q \/ (Ahead(p, q) /\ Ahead(q, p))
  BY <1>1, <1>5 DEF Best, Least
<1> QED
  BY <1>6, AheadApart

-----------------------------------------------------------------------------
(* The search.  What it has queued are the best paths to tables at the     *)
(* distance of the path it looks at, behind that path, and some to those   *)
(* one further on.  Every table visited has such a path, or its neighbours *)
(* have been visited as well.                                              *)

Waits(q, r) ==
    \/ \E i \in 1 .. Len(r.queue) : q = r.queue[i]
    \/ r.pc = "scan" /\ q = r.path

LevelInv(r) ==
    /\ \A q \in Paths : Waits(q, r) => Len(q) \in {Len(r.path), Len(r.path) + 1}
    /\ \A i, j \in 1 .. Len(r.queue) : i < j => Len(r.queue[i]) <= Len(r.queue[j])

EdgesOf(r) == adjacency[Last(r.path)]

\* A path longer than the one in hand continues that one, along an edge that
\* has been looked at, or one before.
After(q, r) ==
    \/ Ahead(q, r.path)
    \/ /\ Begins(q, r.path)
       /\ r.pc = "scan" => \E e \in 1 .. Len(EdgesOf(r)) :
                               e < r.edge /\ EdgesOf(r)[e] = Last(q)

OrderInv(r) ==
    /\ \A i, j \in 1 .. Len(r.queue) :
           i < j /\ Len(r.queue[i]) = Len(r.queue[j]) => Ahead(r.queue[i], r.queue[j])
    /\ \A i \in 1 .. Len(r.queue) :
           /\ Len(r.queue[i]) = Len(r.path) => Ahead(r.path, r.queue[i])
           /\ Len(r.queue[i]) = Len(r.path) + 1 => After(r.queue[i], r)

Expanded(t, r) == \A v \in Tables : Related(t, v) => v \in r.visited

Covered(t, r) ==
    \/ \E q \in Paths : Waits(q, r) /\ Last(q) = t
    \/ Expanded(t, r)
    \/ MaxEdges = 0 \/ t \notin Ball(r.from)[MaxEdges - 1]

CoverInv(r) ==
    /\ r.pc = "scan" => \A e \in 1 .. Len(EdgesOf(r)) :
                            e < r.edge => EdgesOf(r)[e] \in r.visited
    /\ \A t \in r.visited : Covered(t, r)

SearchingInv(r) ==
    /\ LevelInv(r) /\ OrderInv(r) /\ CoverInv(r)
    /\ \A q \in Paths : Waits(q, r) => Best(q)

FrontInv(r) ==
    /\ r.pc # "idle" => linked = Len(relationships)
    /\ r.pc = "ask" => r.path = None
    /\ r.pc \in {"pop", "scan"} => SearchingInv(r)

LEMMA WaitsTrail ==
    ASSUME NEW r \in Searches, QueueInv(r), r.pc \in {"pop", "scan"},
           NEW q \in Paths, Waits(q, r)
    PROVE  /\ Trail(q, r) /\ Way(q) /\ q[1] = r.from
           /\ Len(q) \in 1 .. MaxEdges + 1 /\ Len(q) \in Nat
           /\ Last(q) \in r.visited /\ Last(q) \in Tables
<1>1. Trail(q, r)
  BY DEF Waits, QueueInv
<1>2. Len(q) \in 1 .. MaxEdges + 1 /\ MaxEdges \in Nat /\ Len(q) \in Nat \ {0}
  BY <1>1, JoinPathsAssumption DEF Trail
<1>3. Len(q) \in 1 .. Len(q) /\ q \in Seq(Tables)
  BY <1>2 DEF Paths
<1>4. Last(q) \in r.visited /\ Last(q) \in Tables
  BY <1>1, <1>3 DEF Trail, Last
<1> QED
  BY <1>1, <1>2, <1>4 DEF Trail, Way

\* All tables nearer than the paths that wait have been visited.
LEMMA BallVisited ==
    ASSUME NEW r \in Searches, QueueInv(r), SearchingInv(r), r.pc \in {"pop", "scan"},
           NEW N \in 0 .. MaxEdges, \A q \in Paths : Waits(q, r) => Len(q) > N
    PROVE  Ball(r.from)[N] \subseteq r.visited
<1> DEFINE S == {n \in Nat : n <= N => Ball(r.from)[n] \subseteq r.visited}
<1>1. MaxEdges \in Nat /\ N \in Nat /\ N <= MaxEdges
  BY JoinPathsAssumption
<1>2. 0 \in S
  BY <1>1, BallFacts DEF QueueInv
<1>3. ASSUME NEW n \in 0 .. N - 1, n \in S PROVE n + 1 \in S
  <2>1. /\ n \in Nat /\ n <= N /\ n + 1 \in 1 .. MaxEdges /\ (n + 1) - 1 = n
        /\ n \in 0 .. MaxEdges /\ MaxEdges # 0 /\ MaxEdges - 1 \in n .. MaxEdges
    BY <1>1
  <2>2. Ball(r.from)[n] \subseteq r.visited
    BY <1>3, <2>1
  <2>3. SUFFICES ASSUME NEW t, t \in Ball(r.from)[n + 1], t \notin Ball(r.from)[n]
                 PROVE  t \in r.visited
    BY <2>1, <2>2
  <2>4. t \in Tables /\ \E u \in Ball(r.from)[n] : Related(u, t)
    BY <2>1, <2>3, BallFacts DEF Around
  <2>5. PICK u \in Ball(r.from)[n] : Related(u, t)
    BY <2>4
  <2>6. Covered(u, r)
    BY <2>2, <2>5 DEF SearchingInv, CoverInv
  <2>7. ASSUME NEW q \in Paths, Waits(q, r), Last(q) = u PROVE FALSE
    <3>1. Len(q) \in 1 .. MaxEdges + 1 /\ Len(q) > N /\ q[1] = r.from /\ Best(q)
      BY <2>7, WaitsTrail DEF SearchingInv
    <3>2. Len(q) >= 2 /\ Len(q) - 2 \in n .. MaxEdges
      BY <1>1, <2>1, <3>1
    <3>3. u \notin Ball(r.from)[Len(q) - 2]
      BY <2>7, <3>1, <3>2 DEF Best, Nearest
    <3> QED
      BY <2>1, <2>5, <3>2, <3>3, BallGrows
  <2>8. u \in Ball(r.from)[MaxEdges - 1]
    BY <2>1, <2>5, BallGrows
  <2>9. Expanded(u, r)
    BY <2>1, <2>6, <2>7, <2>8 DEF Covered
  <2> QED
    BY <2>4, <2>5, <2>9 DEF Expanded
<1> HIDE DEF S
<1>4. N \in S
  <2>1. \A n \in 0 .. N : n \in S
    BY ONLY <1>1, <1>2, <1>3, UpTo
  <2> QED
    BY <1>1, <2>1
<1> QED
  BY <1>1, <1>4 DEF S

\* A way without its last table.
LEMMA Shorter ==
    ASSUME NEW w \in Paths, Way(w), NEW k \in Nat, k > 0, Len(w) = k + 1
    PROVE  \E c \in Paths : /\ Way(c) /\ Len(c) = k /\ c[1] = w[1] /\ Last(c) = w[k]
                            /\ \A i \in 1 .. k : c[i] = w[i]
<1> DEFINE c == [i \in 1 .. k |-> w[i]]
<1>1. \A i \in 1 .. k : w[i] \in Tables
  <2>1. \A i \in 1 .. k : i \in 1 .. Len(w)
    OBVIOUS
  <2> QED
    BY <2>1 DEF Paths
<1>2. c \in Seq(Tables) /\ Len(c) = k /\ \A i \in 1 .. k : c[i] = w[i]
  BY <1>1
<1> HIDE DEF c
<1>3. 1 \in 1 .. k /\ k \in 1 .. k /\ k - 1 \in Nat
      /\ \A i \in 1 .. k - 1 : i \in 1 .. Len(w) - 1 /\ i \in 1 .. k /\ i + 1 \in 1 .. k
  OBVIOUS
<1>4. \A i \in 1 .. k - 1 : Related(c[i], c[i + 1])
  BY <1>2, <1>3 DEF Way
<1>5. Way(c)
  BY <1>2, <1>4 DEF Way, Paths
<1> QED
  BY <1>2, <1>3, <1>5 DEF Last, Paths

LEMMA Appended ==
    ASSUME NEW p \in Paths, NEW v \in Tables
    PROVE  /\ Append(p, v) \in Paths /\ Len(Append(p, v)) = Len(p) + 1 /\ Len(p) \in Nat
           /\ Last(Append(p, v)) = v
           /\ \A i \in 1 .. Len(p) : Append(p, v)[i] = p[i]
           /\ Begins(Append(p, v), p)
<1>1. /\ Append(p, v) \in Seq(Tables) /\ Len(Append(p, v)) = Len(p) + 1 /\ Len(p) \in Nat
      /\ Append(p, v)[Len(p) + 1] = v
      /\ \A i \in 1 .. Len(p) : Append(p, v)[i] = p[i]
  BY DEF Paths
<1> QED
  BY <1>1 DEF Paths, Last, Begins

\* A path continued to a table not visited yet is the best one to that table.
LEMMA NextBest ==
    ASSUME adjacency \in [Tables -> Seq(Tables)],
           NEW r \in Searches, QueueInv(r), SearchingInv(r), r.pc = "scan",
           NEW v \in Tables, v \notin r.visited
    PROVE  Best(Append(r.path, v))
<1> DEFINE p == r.path
           n == Append(p, v)
           k == Len(p)
<1>1. p \in Paths /\ Waits(p, r) /\ Len(p) <= MaxEdges /\ MaxEdges \in Nat
  BY JoinPathsAssumption DEF Searches, Waits, QueueInv
<1>2. /\ k \in 1 .. MaxEdges /\ k \in Nat /\ p[1] = r.from /\ Last(p) \in r.visited
      /\ Way(p) /\ Best(p)
  <2>1. /\ Len(p) \in 1 .. MaxEdges + 1 /\ Len(p) \in Nat /\ p[1] = r.from
        /\ Last(p) \in r.visited /\ Way(p)
    BY <1>1, WaitsTrail
  <2> QED
    BY <1>1, <2>1 DEF SearchingInv
<1>3. /\ n \in Paths /\ Len(n) = k + 1 /\ Last(n) = v
      /\ \A i \in 1 .. k : n[i] = p[i]
      /\ Begins(n, p)
  BY <1>1, Appended
<1>4. n[1] = r.from
  <2>1. 1 \in 1 .. k
    BY <1>2
  <2> QED
    BY <1>2, <1>3, <2>1
<1>5. \A q \in Paths : Waits(q, r) => Len(q) \in {k, k + 1}
  BY DEF SearchingInv, LevelInv
<1> HIDE DEF n, k, p
<1>6. /\ k - 1 \in 0 .. MaxEdges /\ k - 1 <= MaxEdges /\ k - 1 \in 0 .. k
      /\ MaxEdges # 0 /\ k - 1 \in 0 .. MaxEdges /\ MaxEdges - 1 \in k - 1 .. MaxEdges
      /\ (k - 1) + 1 = k /\ k > 0 /\ (k + 1) - 2 = k - 1 /\ k + 1 >= 2
  BY <1>1, <1>2
<1>7. \A q \in Paths : Waits(q, r) => Len(q) > k - 1
  BY <1>2, <1>5
<1>8. Ball(r.from)[k - 1] \subseteq r.visited
  BY <1>6, <1>7, BallVisited
<1>9. Nearest(n)
  BY <1>3, <1>4, <1>6, <1>8 DEF Nearest
<1>10. ASSUME NEW w \in Paths, Way(w), Len(w) = Len(n), w[1] = n[1], Last(w) = Last(n)
       PROVE  w = n \/ Ahead(n, w)
  <2>1. PICK c \in Paths : /\ Way(c) /\ Len(c) = k /\ c[1] = w[1] /\ Last(c) = w[k]
                           /\ \A i \in 1 .. k : c[i] = w[i]
    <3>1. w \in Paths /\ Way(w) /\ k \in Nat /\ k > 0 /\ Len(w) = k + 1
      BY <1>2, <1>3, <1>6, <1>10
    <3> QED
      BY ONLY <3>1, Shorter
  <2>2. w[k] \in Ball(r.from)[k - 1] /\ w[k] \in r.visited
    <3>1. k - 1 \in 0 .. Len(w) - 1
      BY <1>2, <1>3, <1>10
    <3>2. w[(k - 1) + 1] \in Ball(w[1])[k - 1]
      BY <1>6, <1>10, <3>1, WayInBall
    <3> QED
      BY <1>4, <1>6, <1>8, <1>10, <3>2
  <2>3. Related(w[k], v)
    <3>1. k \in 1 .. Len(w) - 1
      BY <1>2, <1>3, <1>10
    <3>2. w[k + 1] = v
      BY <1>3, <1>10 DEF Last
    <3> QED
      BY <1>10, <3>1, <3>2 DEF Way
  <2>4. ~ Expanded(w[k], r)
    BY <2>3 DEF Expanded
  <2>5. w[k] \in Ball(r.from)[MaxEdges - 1]
    BY <1>6, <2>2, BallGrows
  <2>6. Covered(w[k], r)
    BY <2>2 DEF SearchingInv, CoverInv
  <2>7. PICK q \in Paths : Waits(q, r) /\ Last(q) = w[k]
    BY <1>6, <2>4, <2>5, <2>6 DEF Covered
  <2>8. q[1] = r.from /\ Best(q) /\ Len(q) \in {k, k + 1}
    BY <1>5, <2>7, WaitsTrail DEF SearchingInv
  <2>9. Len(q) = k
    BY <1>6, <2>2, <2>7, <2>8 DEF Best, Nearest
  <2>10. c = q \/ Ahead(q, c)
    BY <1>4, <1>10, <2>1, <2>7, <2>8, <2>9 DEF Best, Least
  <2>11. q = p \/ Ahead(p, q)
    BY <2>7, <2>9 DEF Waits, SearchingInv, OrderInv, k, p
  <2>12. c = p \/ Ahead(p, c)
    BY <1>1, <2>10, <2>11, AheadFollows
  <2>13. CASE c = p
    <3>1. \A i \in 1 .. k : w[i] = n[i]
      BY <1>3, <2>1, <2>13
    <3>2. w[k + 1] = n[k + 1]
      BY <1>3, <1>10 DEF Last
    <3>3. \A i \in 1 .. k + 1 : w[i] = n[i]
      <4>1. \A i \in 1 .. k + 1 : i \in 1 .. k \/ i = k + 1
        BY <1>2
      <4> QED
        BY <3>1, <3>2, <4>1
    <3> QED
      BY <1>3, <1>10, <3>3 DEF Paths
  <2>14. CASE Ahead(p, c)
    <3>1. Begins(w, c)
      BY <1>2, <1>3, <1>10, <2>1 DEF Begins
    <3> QED
      BY <1>1, <1>3, <2>14, <3>1, AheadStays
  <2> QED
    BY <2>12, <2>13, <2>14
<1>11. Least(n)
  BY <1>10 DEF Least
<1> QED
  BY <1>9, <1>11 DEF Best, n, p

-----------------------------------------------------------------------------
(* The steps of a search, from the record r to n.                          *)

LEMMA StartFront ==
    ASSUME NEW n \in Searches, n.pc = "pop", n.from \in Tables, n.path = None,
           n.queue = << <<n.from>> >>, n.visited = {n.from}
    PROVE  SearchingInv(n)
<1> DEFINE one == <<n.from>>
<1>1. one \in Paths /\ Len(one) = 1 /\ one[1] = n.from /\ Last(one) = n.from
  BY DEF Paths, Last
<1>2. /\ Len(n.queue) = 1 /\ n.queue[1] = one /\ \A i \in 1 .. Len(n.queue) : i = 1
      /\ Len(n.path) = 0
  BY DEF None
<1> HIDE DEF one
<1>3. \A q \in Paths : Waits(q, n) <=> q = one
  BY <1>2 DEF Waits
<1>4. LevelInv(n)
  BY <1>1, <1>2, <1>3 DEF LevelInv
<1>5. After(one, n)
  BY <1>1, <1>2 DEF After, Begins
<1>6. OrderInv(n)
  <2>1. \A i \in 1 .. Len(n.queue) : n.queue[i] = one
    BY <1>2
  <2>2. \A i, j \in 1 .. Len(n.queue) : ~ (i < j)
    BY <1>2
  <2>3. \A i \in 1 .. Len(n.queue) :
            Len(n.queue[i]) # Len(n.path) /\ After(n.queue[i], n)
    <3>1. ASSUME NEW i \in 1 .. Len(n.queue)
          PROVE  Len(n.queue[i]) # Len(n.path) /\ After(n.queue[i], n)
      <4>1. n.queue[i] = one
        BY <2>1
      <4>2. Len(one) # Len(n.path)
        BY <1>1, <1>2
      <4> QED
        BY ONLY <1>5, <4>1, <4>2
    <3> QED
      BY <3>1
  <2> QED
    BY <2>2, <2>3 DEF OrderInv
<1>7. CoverInv(n)
  BY <1>1, <1>3 DEF CoverInv, Covered
<1>8. Least(one)
  <2>1. ASSUME NEW w \in Paths, Len(w) = 1, w[1] = n.from PROVE w = one
    BY <1>1, <2>1 DEF Paths
  <2> QED
    BY <1>1, <2>1 DEF Least
<1>9. Best(one)
  BY <1>1, <1>8 DEF Best, Nearest
<1> QED
  BY <1>3, <1>4, <1>6, <1>7, <1>9 DEF SearchingInv

LEMMA PopFront ==
    ASSUME adjacency \in [Tables -> Seq(Tables)],
           NEW r \in Searches, QueueInv(r), SearchingInv(r), r.pc = "pop", r.queue # <<>>,
           NEW n \in Searches, n.queue = Tail(r.queue), n.path = Head(r.queue), n.edge = 1,
           n.pc = IF Len(n.path) > MaxEdges THEN "pop" ELSE "scan",
           n.visited = r.visited, n.from = r.from
    PROVE  SearchingInv(n)
<1> DEFINE queue == r.queue
           head == n.path
<1>1. /\ head = queue[1] /\ head \in Paths /\ queue \in Seq(Paths) /\ 1 \in 1 .. Len(queue)
      /\ Len(n.queue) = Len(queue) - 1 /\ Len(queue) \in Nat
      /\ \A i \in 1 .. Len(n.queue) : n.queue[i] = queue[i + 1]
  BY DEF Searches
<1>2. /\ \A i \in 1 .. Len(n.queue) : /\ i + 1 \in 1 .. Len(queue) /\ 1 < i + 1
                                      /\ n.queue[i] \in Paths
      /\ \A i, j \in 1 .. Len(n.queue) : i < j => i + 1 < j + 1
  <2>1. /\ \A i \in 1 .. Len(n.queue) : i + 1 \in 1 .. Len(queue) /\ 1 < i + 1
        /\ \A i, j \in 1 .. Len(n.queue) : i < j => i + 1 < j + 1
    BY ONLY <1>1
  <2> QED
    BY <1>1, <2>1
<1>3. \A i \in 1 .. Len(queue) : i = 1 \/ i - 1 \in 1 .. Len(n.queue)
  BY ONLY <1>1
<1>4. \A i \in 1 .. Len(queue) : i # 1 => queue[i] = n.queue[i - 1]
  <2>1. \A i \in 1 .. Len(queue) : (i - 1) + 1 = i
    BY <1>1
  <2> QED
    BY <1>1, <1>3, <2>1
<1>5. \A q \in Paths : Waits(q, n) => Waits(q, r)
  BY <1>1, <1>2 DEF Waits
<1>6. \A q \in Paths : Waits(q, r) => Waits(q, n) \/ q = head
  BY <1>1, <1>3, <1>4 DEF Waits
<1>7. /\ Waits(head, r) /\ Len(head) \in Nat /\ r.path \in Paths /\ Len(r.path) \in Nat
      /\ \A q \in Paths : Len(q) \in Nat
  <2>1. Waits(head, r)
    BY <1>1 DEF Waits
  <2>2. r.path \in Paths
    BY DEF Searches
  <2>3. \A q \in Paths : Len(q) \in Nat
    BY DEF Paths
  <2> QED
    BY <1>1, <2>1, <2>2, <2>3
<1> HIDE DEF queue, head
<1>8. \A i \in 1 .. Len(queue) : queue[i] \in Paths /\ Waits(queue[i], r)
  BY <1>1 DEF Waits, queue
<1>9. /\ Len(head) \in {Len(r.path), Len(r.path) + 1}
      /\ \A i \in 1 .. Len(queue) : /\ Len(queue[i]) \in {Len(r.path), Len(r.path) + 1}
                                    /\ Len(head) <= Len(queue[i])
  <2>1. \A q \in Paths : Waits(q, r) => Len(q) \in {Len(r.path), Len(r.path) + 1}
    BY DEF SearchingInv, LevelInv
  <2>2. \A i \in 1 .. Len(queue) : 1 < i => Len(queue[1]) <= Len(queue[i])
    BY <1>1 DEF SearchingInv, LevelInv, queue
  <2>3. \A i \in 1 .. Len(queue) : i = 1 \/ 1 < i
    BY <1>1
  <2> QED
    BY <1>1, <1>7, <1>8, <2>1, <2>2, <2>3
<1>10. \A i \in 1 .. Len(queue) : Len(queue[i]) \in {Len(head), Len(head) + 1}
  BY <1>7, <1>8, <1>9
<1>11. LevelInv(n)
  <2>1. \A i, j \in 1 .. Len(n.queue) : i < j => Len(n.queue[i]) <= Len(n.queue[j])
    BY <1>1, <1>2 DEF SearchingInv, LevelInv, queue
  <2>2. \A q \in Paths : Waits(q, n) => Len(q) \in {Len(head), Len(head) + 1}
    BY <1>1, <1>2, <1>10 DEF Waits, head
  <2> QED
    BY <2>1, <2>2 DEF LevelInv, head
<1>12. ASSUME NEW i \in 1 .. Len(n.queue), Len(n.queue[i]) = Len(head)
       PROVE  Ahead(head, n.queue[i])
  <2>1. i + 1 \in 1 .. Len(queue) /\ 1 < i + 1 /\ n.queue[i] = queue[i + 1]
        /\ 1 \in 1 .. Len(queue) /\ head = queue[1]
    BY <1>1, <1>2
  <2> QED
    BY <1>12, <2>1 DEF SearchingInv, OrderInv, queue
<1>13. ASSUME NEW i \in 1 .. Len(n.queue), Len(n.queue[i]) = Len(head) + 1
       PROVE  After(n.queue[i], n)
  <2>1. i + 1 \in 1 .. Len(queue) /\ n.queue[i] = queue[i + 1] /\ n.queue[i] \in Paths
        /\ 1 \in 1 .. Len(queue) /\ head = queue[1]
    BY <1>1, <1>2
  <2>2. Len(head) = Len(r.path) /\ Len(n.queue[i]) = Len(r.path) + 1
    <3>1. /\ Len(head) \in {Len(r.path), Len(r.path) + 1}
          /\ Len(n.queue[i]) \in {Len(r.path), Len(r.path) + 1}
          /\ Len(head) \in Nat /\ Len(r.path) \in Nat
          /\ Len(n.queue[i]) = Len(head) + 1
      BY <1>7, <1>9, <1>13, <2>1
    <3> QED
      BY ONLY <3>1
  <2>3. Ahead(r.path, head) /\ After(n.queue[i], r)
    BY <2>1, <2>2 DEF SearchingInv, OrderInv, queue
  <2>4. CASE Ahead(n.queue[i], r.path)
    <3>1. Ahead(n.queue[i], head)
      BY <1>1, <1>7, <2>1, <2>3, <2>4, AheadFollows
    <3> QED
      BY <3>1 DEF After, head
  <2>5. CASE Begins(n.queue[i], r.path)
    <3>1. Begins(head, head)
      BY <1>7 DEF Begins
    <3>2. Ahead(n.queue[i], head)
      BY <1>1, <1>7, <2>1, <2>3, <2>5, <3>1, AheadStays
    <3> QED
      BY <3>2 DEF After, head
  <2> QED
    BY <2>3, <2>4, <2>5 DEF After
<1>14. OrderInv(n)
  <2>1. \A i, j \in 1 .. Len(n.queue) :
            i < j /\ Len(n.queue[i]) = Len(n.queue[j]) => Ahead(n.queue[i], n.queue[j])
    BY <1>1, <1>2 DEF SearchingInv, OrderInv, queue
  <2> QED
    BY <1>12, <1>13, <2>1 DEF OrderInv, head
<1>15. ASSUME NEW t \in r.visited PROVE Covered(t, n)
  <2>1. Covered(t, r)
    BY DEF SearchingInv, CoverInv
  <2>2. Expanded(t, r) => Expanded(t, n)
    BY DEF Expanded
  <2>3. ASSUME NEW q \in Paths, Waits(q, r), Last(q) = t, ~ Waits(q, n)
        PROVE  MaxEdges = 0 \/ t \notin Ball(r.from)[MaxEdges - 1]
    <3>1. q = head /\ n.pc = "pop"
      BY <1>6, <2>3 DEF Waits, head
    <3>2. Len(q) > MaxEdges /\ Len(q) \in 1 .. MaxEdges + 1 /\ q[1] = r.from /\ Best(q)
      BY <2>3, <3>1, WaitsTrail DEF SearchingInv, head
    <3>3. MaxEdges \in Nat
      BY JoinPathsAssumption
    <3>4. Len(q) - 2 = MaxEdges - 1 /\ (MaxEdges # 0 => Len(q) >= 2)
      BY <3>2, <3>3
    <3> QED
      BY <2>3, <3>2, <3>4 DEF Best, Nearest
  <2> QED
    BY <2>1, <2>2, <2>3 DEF Covered
<1>16. CoverInv(n)
  <2>1. \A e \in 1 .. Len(EdgesOf(n)) : ~ (e < n.edge)
    OBVIOUS
  <2> QED
    BY <1>15, <2>1 DEF CoverInv
<1>17. \A q \in Paths : Waits(q, n) => Best(q)
  BY <1>5 DEF SearchingInv
<1> QED
  BY <1>11, <1>14, <1>16, <1>17 DEF SearchingInv

\* What the next edge of a scan leaves alone.
LEMMA ScanEdges ==
    ASSUME adjacency \in [Tables -> Seq(Tables)], NEW r \in Searches, QueueInv(r),
           r.pc = "scan"
    PROVE  /\ r.path \in Paths /\ Len(r.path) \in Nat /\ Last(r.path) \in Tables
           /\ EdgesOf(r) \in Seq(Tables) /\ Len(EdgesOf(r)) \in Nat /\ r.edge \in Nat
           /\ r.edge > 0 /\ Waits(r.path, r)
<1>1. r.path \in Paths /\ Waits(r.path, r) /\ r.edge \in Nat /\ r.edge > 0
  BY DEF Searches, Waits, QueueInv
<1>2. Last(r.path) \in Tables /\ Len(r.path) \in Nat
  BY <1>1, WaitsTrail
<1>3. EdgesOf(r) \in Seq(Tables)
  BY <1>2 DEF EdgesOf
<1> QED
  BY <1>1, <1>2, <1>3

LEMMA SkipFront ==
    ASSUME adjacency \in [Tables -> Seq(Tables)],
           NEW r \in Searches, QueueInv(r), SearchingInv(r), r.pc = "scan",
           r.edge <= Len(EdgesOf(r)), EdgesOf(r)[r.edge] \in r.visited,
           NEW n \in Searches, n.queue = r.queue, n.path = r.path, n.edge = r.edge + 1,
           n.pc = "scan", n.visited = r.visited, n.from = r.from
    PROVE  SearchingInv(n)
<1>1. \A q \in Paths : Waits(q, n) <=> Waits(q, r)
  BY DEF Waits
<1>2. EdgesOf(n) = EdgesOf(r) /\ r.edge \in Nat /\ Len(EdgesOf(r)) \in Nat
  BY ScanEdges DEF EdgesOf
<1>3. LevelInv(n)
  BY <1>1 DEF SearchingInv, LevelInv
<1>4. \A e \in 1 .. Len(EdgesOf(r)) : /\ e < r.edge => e < r.edge + 1
                                      /\ e < r.edge + 1 => e < r.edge \/ e = r.edge
  BY <1>2
<1>5. \A q : After(q, r) => After(q, n)
  BY <1>2, <1>4 DEF After
<1>6. OrderInv(n)
  BY <1>5 DEF SearchingInv, OrderInv
<1>7. \A t : Covered(t, r) => Covered(t, n)
  BY <1>1 DEF Covered, Expanded
<1>8. CoverInv(n)
  BY <1>2, <1>4, <1>7 DEF SearchingInv, CoverInv
<1> QED
  BY <1>1, <1>3, <1>6, <1>8 DEF SearchingInv

LEMMA VisitFront ==
    ASSUME adjacency \in [Tables -> Seq(Tables)],
           NEW r \in Searches, QueueInv(r), SearchingInv(r), r.pc = "scan",
           r.edge <= Len(EdgesOf(r)), EdgesOf(r)[r.edge] \notin r.visited,
           NEW n \in Searches,
           n.queue = Append(r.queue, Append(r.path, EdgesOf(r)[r.edge])),
           n.path = r.path, n.edge = r.edge + 1, n.pc = "scan",
           n.visited = r.visited \cup {EdgesOf(r)[r.edge]}, n.from = r.from
    PROVE  SearchingInv(n)
<1> DEFINE v == EdgesOf(r)[r.edge]
           next == Append(r.path, v)
           queue == r.queue
           k == Len(r.path)
<1>1. /\ r.path \in Paths /\ k \in Nat /\ Last(r.path) \in Tables
      /\ EdgesOf(r) \in Seq(Tables) /\ Len(EdgesOf(r)) \in Nat /\ r.edge \in Nat
      /\ r.edge \in 1 .. Len(EdgesOf(r)) /\ v \in Tables /\ EdgesOf(n) = EdgesOf(r)
      /\ Waits(r.path, r)
  BY ScanEdges DEF EdgesOf
<1>2. Best(next)
  BY <1>1, NextBest
<1>3. /\ next \in Paths /\ Len(next) = k + 1 /\ Last(next) = v
      /\ \A i \in 1 .. k : next[i] = r.path[i]
      /\ Begins(next, r.path)
  BY <1>1, Appended
<1>4. queue \in Seq(Paths) /\ Len(queue) \in Nat
  BY DEF Searches
<1> HIDE DEF v, next, queue, k
<1>5. /\ Len(n.queue) = Len(queue) + 1 /\ n.queue[Len(queue) + 1] = next
      /\ \A i \in 1 .. Len(queue) : n.queue[i] = queue[i] /\ queue[i] \in Paths
  <2>1. n.queue = Append(queue, next)
    BY DEF v, next, queue
  <2> QED
    BY ONLY <1>3, <1>4, <2>1
<1>6. \A i \in 1 .. Len(n.queue) : i \in 1 .. Len(queue) \/ i = Len(queue) + 1
  BY <1>4, <1>5
<1>7. \A i \in 1 .. Len(queue) : i \in 1 .. Len(n.queue) /\ i < Len(queue) + 1
  BY <1>4, <1>5
<1>8. Len(queue) + 1 \in 1 .. Len(n.queue)
  BY <1>4, <1>5
<1>9. \A q \in Paths : Waits(q, n) <=> Waits(q, r) \/ q = next
  BY <1>5, <1>6, <1>7, <1>8 DEF Waits, queue
<1>10. \A i \in 1 .. Len(queue) : Waits(queue[i], r) /\ Len(queue[i]) \in {k, k + 1}
  BY <1>5 DEF Waits, SearchingInv, LevelInv, queue, k
<1>11. LevelInv(n)
  <2>1. \A q \in Paths : Waits(q, n) => Len(q) \in {k, k + 1}
    BY <1>3, <1>9 DEF SearchingInv, LevelInv, k
  <2>2. \A i \in 1 .. Len(queue) : Len(queue[i]) <= k + 1
    <3>1. k \in Nat
      BY <1>1
    <3> QED
      BY ONLY <1>10, <3>1
  <2>3. \A i, j \in 1 .. Len(queue) : i < j => Len(queue[i]) <= Len(queue[j])
    BY DEF SearchingInv, LevelInv, queue
  <2>4. \A i, j \in 1 .. Len(n.queue) : i < j => i \in 1 .. Len(queue)
    BY <1>4, <1>5
  <2>5. \A i, j \in 1 .. Len(n.queue) : i < j => Len(n.queue[i]) <= Len(n.queue[j])
    BY <1>3, <1>5, <1>6, <2>2, <2>3, <2>4
  <2> QED
    BY <2>1, <2>5 DEF LevelInv, k
<1>12. \A e \in 1 .. Len(EdgesOf(r)) : /\ e < r.edge => e < r.edge + 1
                                       /\ e < r.edge + 1 => e < r.edge \/ e = r.edge
  <2>1. r.edge \in Nat /\ Len(EdgesOf(r)) \in Nat
    BY <1>1
  <2> QED
    BY ONLY <2>1
<1>13. \A e \in 1 .. Len(EdgesOf(r)) : e < r.edge => EdgesOf(r)[e] # v
  BY DEF SearchingInv, CoverInv, v
<1>14. \A q : After(q, r) => After(q, n)
  BY <1>1, <1>12 DEF After
<1>15. After(next, n)
  <2>1. r.edge < r.edge + 1 /\ EdgesOf(r)[r.edge] = Last(next)
    BY <1>1, <1>3 DEF v
  <2> QED
    BY <1>1, <1>3, <2>1 DEF After
\* The path that is queued is behind those with as many edges.
<1>16. ASSUME NEW i \in 1 .. Len(queue), Len(queue[i]) = k + 1
       PROVE  Ahead(queue[i], next)
  <2>1. queue[i] \in Paths /\ After(queue[i], r)
    BY <1>5, <1>16 DEF SearchingInv, OrderInv, queue, k
  <2>2. CASE Ahead(queue[i], r.path)
    <3>1. Begins(queue[i], queue[i])
      BY <1>1, <1>16 DEF Begins
    <3> QED
      BY <1>1, <1>3, <2>1, <2>2, <3>1, AheadStays
  <2>3. CASE /\ Begins(queue[i], r.path)
             /\ \E e \in 1 .. Len(EdgesOf(r)) :
                    e < r.edge /\ EdgesOf(r)[e] = Last(queue[i])
    <3>1. PICK e \in 1 .. Len(EdgesOf(r)) :
                   e < r.edge /\ EdgesOf(r)[e] = Last(queue[i])
      BY <2>3
    <3>2. \A j \in 1 .. e : EdgesOf(r)[j] # v
      <4>1. \A j \in 1 .. e : j \in 1 .. Len(EdgesOf(r)) /\ j < r.edge
        <5>1. e < r.edge /\ r.edge \in Nat /\ Len(EdgesOf(r)) \in Nat
          BY <1>1, <3>1
        <5> QED
          BY ONLY <5>1, e \in 1 .. Len(EdgesOf(r))
      <4> QED
        BY <1>13, <4>1
    <3>3. Sooner(Last(r.path), Last(queue[i]), v)
      BY <3>1, <3>2 DEF Sooner, EdgesOf
    <3>4. k \in 1 .. MaxEdges + 1
      BY <1>1, WaitsTrail DEF k
    <3>5. /\ k + 1 \in 2 .. Len(queue[i]) /\ k + 1 \in 2 .. Len(next) /\ (k + 1) - 1 = k
          /\ k \in 1 .. k /\ k + 1 \in Nat
      BY <1>1, <1>3, <1>16, <3>4
    <3>6. \A j \in 1 .. k : queue[i][j] = next[j]
      BY <1>3, <2>3 DEF Begins, k
    <3>7. queue[i][k] = Last(r.path)
      BY <1>3, <3>5, <3>6 DEF Last, k
    <3>8. queue[i][k + 1] = Last(queue[i]) /\ next[k + 1] = v
      BY <1>3, <1>16 DEF Last
    <3>9. PartAt(k + 1, queue[i], next)
      BY <3>3, <3>5, <3>6, <3>7, <3>8 DEF PartAt
    <3> QED
      BY <3>5, <3>9 DEF Ahead
  <2> QED
    BY <2>1, <2>2, <2>3 DEF After
<1>17. OrderInv(n)
  <2>1. ASSUME NEW i \in 1 .. Len(n.queue), NEW j \in 1 .. Len(n.queue), i < j,
               Len(n.queue[i]) = Len(n.queue[j])
        PROVE  Ahead(n.queue[i], n.queue[j])
    <3>1. i \in 1 .. Len(queue)
      BY <1>4, <1>5, <2>1
    <3>2. CASE j \in 1 .. Len(queue)
      BY <1>5, <2>1, <3>1, <3>2 DEF SearchingInv, OrderInv, queue
    <3>3. CASE j = Len(queue) + 1
      BY <1>3, <1>5, <1>16, <2>1, <3>1, <3>3
    <3> QED
      BY <1>6, <3>2, <3>3
  <2>2. ASSUME NEW i \in 1 .. Len(n.queue)
        PROVE  /\ Len(n.queue[i]) = Len(n.path) => Ahead(n.path, n.queue[i])
               /\ Len(n.queue[i]) = Len(n.path) + 1 => After(n.queue[i], n)
    <3>1. CASE i \in 1 .. Len(queue)
      BY <1>5, <1>14, <3>1 DEF SearchingInv, OrderInv, queue
    <3>2. CASE i = Len(queue) + 1
      <4>1. n.queue[i] = next /\ Len(next) # Len(n.path)
        BY <1>1, <1>3, <1>5, <3>2 DEF k
      <4> QED
        BY <1>15, <4>1
    <3> QED
      BY <1>6, <3>1, <3>2
  <2> QED
    BY <2>1, <2>2 DEF OrderInv
<1>18. n.visited = r.visited \cup {v}
  BY DEF v
<1>19. \A t : Covered(t, r) => Covered(t, n)
  BY <1>9, <1>18 DEF Covered, Expanded
<1>20. Covered(v, n)
  BY <1>3, <1>9 DEF Covered
<1>21. CoverInv(n)
  <2>1. \A t \in n.visited : Covered(t, n)
    BY <1>18, <1>19, <1>20 DEF SearchingInv, CoverInv
  <2>2. \A e \in 1 .. Len(EdgesOf(n)) : e < n.edge => EdgesOf(n)[e] \in n.visited
    BY <1>1, <1>12, <1>18 DEF SearchingInv, CoverInv, v
  <2> QED
    BY <2>1, <2>2 DEF CoverInv
<1>22. \A q \in Paths : Waits(q, n) => Best(q)
  BY <1>2, <1>9 DEF SearchingInv, next
<1> QED
  BY <1>11, <1>17, <1>21, <1>22 DEF SearchingInv

\* Every relationship of the catalog that is linked is an edge both ways.
Shown(t, u) == \E e \in 1 .. Len(adjacency[t]) : adjacency[t][e] = u

GraphWhole ==
    \A i \in 1 .. linked : /\ Shown(relationships[i][1], relationships[i][2])
                           /\ Shown(relationships[i][2], relationships[i][1])

LEMMA EndScanFront ==
    ASSUME adjacency \in [Tables -> Seq(Tables)], GraphWhole,
           linked = Len(relationships),
           NEW r \in Searches, QueueInv(r), SearchingInv(r), r.pc = "scan",
           r.edge > Len(EdgesOf(r)),
           NEW n \in Searches, n.queue = r.queue, n.path = r.path,
           n.pc = "pop", n.visited = r.visited, n.from = r.from
    PROVE  SearchingInv(n)
<1>1. /\ r.path \in Paths /\ Len(r.path) \in Nat /\ Last(r.path) \in Tables
      /\ EdgesOf(r) \in Seq(Tables) /\ Len(EdgesOf(r)) \in Nat /\ r.edge \in Nat
  BY ScanEdges
<1>2. \A q \in Paths : /\ Waits(q, n) => Waits(q, r)
                       /\ Waits(q, r) => Waits(q, n) \/ q = r.path
  BY DEF Waits
<1>3. LevelInv(n)
  BY <1>2 DEF SearchingInv, LevelInv
<1>4. \A q : After(q, r) => After(q, n)
  BY DEF After
<1>5. OrderInv(n)
  BY <1>4 DEF SearchingInv, OrderInv
<1>6. Expanded(Last(r.path), n)
  <2>1. \A e \in 1 .. Len(EdgesOf(r)) : e < r.edge
    BY <1>1
  <2>2. \A e \in 1 .. Len(EdgesOf(r)) : EdgesOf(r)[e] \in r.visited
    BY <2>1 DEF SearchingInv, CoverInv
  <2>3. ASSUME NEW v \in Tables, Related(Last(r.path), v) PROVE v \in r.visited
    <3>1. Shown(Last(r.path), v)
      BY <1>1, <2>3 DEF Related, GraphWhole
    <3> QED
      BY <2>2, <3>1 DEF Shown, EdgesOf
  <2> QED
    BY <2>3 DEF Expanded
<1>7. \A t : Covered(t, r) => Covered(t, n)
  BY <1>2, <1>6 DEF Covered, Expanded
<1>8. CoverInv(n)
  BY <1>7 DEF SearchingInv, CoverInv
<1> QED
  BY <1>2, <1>3, <1>5, <1>8 DEF SearchingInv

\* A search that ends with an empty queue has visited all tables near enough.
LEMMA NotFoundFar ==
    ASSUME NEW r \in Searches, QueueInv(r), SearchingInv(r), r.pc = "pop",
           r.queue = <<>>
    PROVE  r.to \notin Ball(r.from)[MaxEdges]
<1>1. \A q \in Paths : ~ Waits(q, r)
  BY DEF Waits
<1>2. MaxEdges \in 0 .. MaxEdges
  BY JoinPathsAssumption
<1>3. Ball(r.from)[MaxEdges] \subseteq r.visited
  BY <1>1, <1>2, BallVisited
<1> QED
  BY <1>3 DEF QueueInv

-----------------------------------------------------------------------------
(* What has been found, and remembered.                                    *)

MemoBest ==
    \A key \in Keys : memo[key] # None => linked = Len(relationships) /\ Best(memo[key])

Near(r, i) == r.names[i] \in Ball(r.names[1])[MaxEdges]

\* The tables that a retrieval is done with have one path each, if one is short
\* enough; the second search for a table is for one that has none.
SettledInv(r) ==
    /\ \A path \in r.found :
           Nearest(path) /\ \E i \in 2 .. r.at - 1 : Walk(path, r.names[1], r.names[i])
    /\ \A i \in 2 .. r.at - 1 :
           /\ Near(r, i) => \E path \in r.found : Last(path) = r.names[i]
           /\ ~ Near(r, i) => \A path \in r.found : Last(path) # r.names[i]
    /\ \A p, q \in r.found : Last(p) = Last(q) => p = q
    /\ r.pc \in {"ask", "pop", "scan"} /\ r.from # r.names[1] => ~ Near(r, r.at)
    /\ r.pc = "done" => r.at = Len(r.names) + 1

NearestInv ==
    /\ Inv /\ GraphWhole /\ MemoBest
    /\ \A s \in Searchers : FrontInv(search[s]) /\ SettledInv(search[s])

\* The graph does not change when the retrievals begin.
LEMMA GraphSame ==
    ASSUME UNCHANGED graphVars
    PROVE  /\ GraphWhole' <=> GraphWhole
           /\ \A r : /\ FrontInv(r)' <=> FrontInv(r)
                     /\ SettledInv(r)' <=> SettledInv(r)
           /\ \A q : Best(q)' <=> Best(q)
<1>1. UNCHANGED <<relationships, linked, adjacency>>
  BY DEF graphVars
<1>2. \A a, b : Related(a, b)' <=> Related(a, b)
  BY <1>1 DEF Related
<1>3. \A a : Ball(a)' = Ball(a)
  <2>1. ASSUME NEW a PROVE Ball(a)' = Ball(a)
    BY <1>1, ZenonT(60) DEF Ball, Related
  <2> QED
    BY <2>1
<1>4. \A w : Way(w)' <=> Way(w)
  BY <1>2 DEF Way
<1>5. \A p, q : Ahead(p, q)' <=> Ahead(p, q)
  BY <1>1 DEF Ahead, PartAt, Sooner
<1>6. \A q : Nearest(q)' <=> Nearest(q)
  BY <1>3 DEF Nearest
<1>7. \A q : Least(q)' <=> Least(q)
  BY <1>4, <1>5 DEF Least
<1>8. \A q : Best(q)' <=> Best(q)
  BY <1>6, <1>7 DEF Best
<1>9. \A r : /\ LevelInv(r)' <=> LevelInv(r)
             /\ OrderInv(r)' <=> OrderInv(r)
  BY <1>1, <1>5 DEF LevelInv, OrderInv, After, EdgesOf, Waits
<1>10. \A t, r : Covered(t, r)' <=> Covered(t, r)
  BY <1>2, <1>3 DEF Covered, Expanded, Waits
<1>11. \A r : CoverInv(r)' <=> CoverInv(r)
  BY <1>1, <1>10 DEF CoverInv, EdgesOf
<1>12. \A r : SearchingInv(r)' <=> SearchingInv(r)
  BY <1>8, <1>9, <1>11 DEF SearchingInv, Waits
<1>13. \A r : FrontInv(r)' <=> FrontInv(r)
  BY <1>1, <1>12 DEF FrontInv
<1>14. \A w, a, b : Walk(w, a, b)' <=> Walk(w, a, b)
  BY <1>2 DEF Walk
<1>15. \A r, i : Near(r, i)' <=> Near(r, i)
  BY <1>3 DEF Near
<1>16. \A r : SettledInv(r)' <=> SettledInv(r)
  BY <1>6, <1>14, <1>15 DEF SettledInv
<1>17. GraphWhole' <=> GraphWhole
  BY <1>1 DEF GraphWhole, Shown
<1> QED
  BY <1>8, <1>13, <1>16, <1>17

\* Most steps move one retrieval only.
LEMMA MoveNearest ==
    ASSUME NearestInv, Inv', NEW s \in Searchers, NEW r, FrontInv(r), SettledInv(r),
           search' = [search EXCEPT ![s] = r], UNCHANGED graphVars, MemoBest'
    PROVE  NearestInv'
<1>1. \A q \in Searchers : FrontInv(search'[q]) /\ SettledInv(search'[q])
  <2>1. search \in [Searchers -> Searches]
    BY DEF NearestInv, Inv
  <2> QED
    BY <2>1 DEF NearestInv
<1>2. \A q \in Searchers : FrontInv(search[q])' /\ SettledInv(search[q])'
  BY <1>1, GraphSame
<1>3. GraphWhole'
  BY GraphSame DEF NearestInv
<1> QED
  BY <1>2, <1>3 DEF NearestInv

LEMMA MemoBestKept ==
    ASSUME NearestInv, UNCHANGED <<graphVars, memo>> PROVE MemoBest'
<1>1. \A q : Best(q)' <=> Best(q)
  BY GraphSame
<1>2. UNCHANGED <<relationships, linked, memo>>
  BY DEF graphVars
<1> QED
  BY <1>1, <1>2 DEF NearestInv, MemoBest

LEMMA NextTableIs ==
    ASSUME NEW r \in Searches
    PROVE  LET n == NextTable(r)
           IN  /\ n.pc = (IF r.at < Len(r.names) THEN "ask" ELSE "done")
               /\ n.names = r.names /\ n.at = r.at + 1 /\ n.from = r.names[1]
               /\ n.path = None /\ n.found = r.found
BY DEF NextTable, Searches

\* The next table, when the one at hand is settled.
LEMMA NextTableSettled ==
    ASSUME NEW r \in Searches, r.names # <<>>, r.at \in 1 .. Len(r.names),
           linked = Len(relationships),
           \A path \in r.found :
               Nearest(path) /\ \E i \in 2 .. r.at : Walk(path, r.names[1], r.names[i]),
           \A i \in 2 .. r.at :
               /\ Near(r, i) => \E path \in r.found : Last(path) = r.names[i]
               /\ ~ Near(r, i) => \A path \in r.found : Last(path) # r.names[i],
           \A p, q \in r.found : Last(p) = Last(q) => p = q
    PROVE  FrontInv(NextTable(r)) /\ SettledInv(NextTable(r))
<1> DEFINE n == NextTable(r)
<1>1. /\ n.pc = (IF r.at < Len(r.names) THEN "ask" ELSE "done")
      /\ n.names = r.names /\ n.at = r.at + 1 /\ n.from = r.names[1]
      /\ n.path = None /\ n.found = r.found
  BY NextTableIs
<1> HIDE DEF n
<1>2. r.at \in Nat /\ Len(r.names) \in Nat /\ n.at - 1 = r.at
  BY <1>1 DEF Searches, Paths
<1>3. FrontInv(n)
  BY <1>1 DEF FrontInv
<1>4. \A i : Near(n, i) <=> Near(r, i)
  BY <1>1 DEF Near
<1>5. n.pc = "done" => n.at = Len(n.names) + 1
  BY <1>1, <1>2
<1>6. SettledInv(n)
  BY <1>1, <1>2, <1>4, <1>5 DEF SettledInv
<1> QED
  BY <1>3, <1>6 DEF n

\* What is known of a retrieval at work.
LEMMA AtWork ==
    ASSUME NearestInv, NEW s \in Searchers, search[s].pc \in {"ask", "pop", "scan"}
    PROVE  LET r == search[s]
           IN  /\ r \in Searches /\ QueueInv(r) /\ FrontInv(r) /\ SettledInv(r)
               /\ linked = Len(relationships) /\ r.at \in 2 .. Len(r.names)
               /\ Len(r.names) \in Nat /\ r.names # <<>> /\ Distinct(r.names)
               /\ \A i \in 2 .. r.at - 1 : i \in 1 .. Len(r.names) /\ i # r.at
               /\ \A i \in 2 .. r.at : i \in 2 .. r.at - 1 \/ i = r.at
               /\ r.at \in 1 .. Len(r.names) /\ r.names[1] # r.names[r.at]
               /\ \/ r.from = r.names[1] /\ r.to = r.names[r.at]
                  \/ r.from = r.names[r.at] /\ r.to = r.names[1]
               /\ r.pc \in {"pop", "scan"} => SearchingInv(r)
<1> DEFINE r == search[s]
<1>1. /\ r \in Searches /\ SearchInv(r) /\ FrontInv(r) /\ SettledInv(r)
      /\ r.pc \in {"ask", "pop", "scan"}
  BY DEF NearestInv, Inv
<1> HIDE DEF r
<1>2. /\ QueueInv(r) /\ r.at \in 2 .. Len(r.names) /\ r.names # <<>> /\ Distinct(r.names)
      /\ \/ r.from = r.names[1] /\ r.to = r.names[r.at]
         \/ r.from = r.names[r.at] /\ r.to = r.names[1]
  BY <1>1 DEF SearchInv, EndsInv
<1>3. Len(r.names) \in Nat
  BY <1>1 DEF Searches, Paths
<1>4. /\ r.at \in 1 .. Len(r.names) /\ 1 \in 1 .. Len(r.names) /\ r.at # 1
      /\ \A i \in 2 .. r.at - 1 : i \in 1 .. Len(r.names) /\ i # r.at
      /\ \A i \in 2 .. r.at : i \in 2 .. r.at - 1 \/ i = r.at
  <2>1. r.at \in 2 .. Len(r.names)
    BY <1>2
  <2> QED
    BY ONLY <1>3, <2>1
<1>5. r.names[1] # r.names[r.at]
  BY <1>2, <1>4 DEF Distinct
<1>6. linked = Len(relationships) /\ (r.pc \in {"pop", "scan"} => SearchingInv(r))
  BY <1>1 DEF FrontInv
<1> QED
  BY <1>1, <1>2, <1>3, <1>4, <1>5, <1>6 DEF r

\* A path is found by the first search for a table: the second finds nothing.
LEMMA FoundNearest ==
    ASSUME NearestInv, Inv', NEW s \in Searchers, search[s].pc \in {"ask", "scan"},
           NEW path \in Paths, Walk(path, search[s].from, search[s].to), Best(path),
           Found(s, path), UNCHANGED graphVars, MemoBest'
    PROVE  NearestInv'
<1> DEFINE old == search[s]
           r == [old EXCEPT !.found = old.found \cup {path}]
<1>1. /\ old \in Searches /\ SettledInv(old) /\ linked = Len(relationships)
      /\ old.at \in 2 .. Len(old.names) /\ Len(old.names) \in Nat
      /\ old.names # <<>> /\ Distinct(old.names)
      /\ \A i \in 2 .. old.at - 1 : i \in 1 .. Len(old.names) /\ i # old.at
      /\ \A i \in 2 .. old.at : i \in 2 .. old.at - 1 \/ i = old.at
      /\ old.at \in 1 .. Len(old.names) /\ old.names[1] # old.names[old.at]
      /\ \/ old.from = old.names[1] /\ old.to = old.names[old.at]
         \/ old.from = old.names[old.at] /\ old.to = old.names[1]
      /\ old.pc \in {"ask", "scan"} /\ Walk(path, old.from, old.to)
  BY AtWork
<1> HIDE DEF old
<1>2. /\ r \in Searches /\ r.names = old.names /\ r.at = old.at
      /\ r.found = old.found \cup {path}
  BY <1>1 DEF Searches
<1> HIDE DEF r
<1>3. /\ old.to \in Ball(old.from)[MaxEdges] /\ old.from \in Ball(old.to)[MaxEdges]
      /\ Last(path) = old.to
  BY <1>1, WalkIsWay
<1>4. /\ old.from = old.names[1] /\ old.to = old.names[old.at] /\ Near(old, old.at)
  BY <1>1, <1>3 DEF SettledInv, Near
<1>5. \A i : Near(r, i) <=> Near(old, i)
  BY <1>2 DEF Near
<1>6. \A p \in old.found : Last(p) # Last(path)
  <2>1. ASSUME NEW p \in old.found PROVE Last(p) # Last(path)
    <3>1. PICK i \in 2 .. old.at - 1 : Walk(p, old.names[1], old.names[i])
      BY <1>1 DEF SettledInv
    <3>2. p \in Paths
      BY <1>1 DEF Searches
    <3>3. Last(p) = old.names[i]
      BY <3>1, <3>2, WalkIsWay
    <3>4. old.names[i] # old.names[old.at]
      BY <1>1 DEF Distinct
    <3> QED
      BY <1>3, <1>4, <3>3, <3>4
  <2> QED
    BY <2>1
<1>7. \A p \in r.found :
          Nearest(p) /\ \E i \in 2 .. r.at : Walk(p, r.names[1], r.names[i])
  <2>1. \A i \in 2 .. old.at - 1 : i \in 2 .. old.at
    BY <1>1
  <2>2. old.at \in 2 .. old.at
    BY <1>1
  <2> QED
    BY <1>1, <1>2, <1>4, <2>1, <2>2 DEF SettledInv, Best
<1>8. \A i \in 2 .. r.at :
          /\ Near(r, i) => \E p \in r.found : Last(p) = r.names[i]
          /\ ~ Near(r, i) => \A p \in r.found : Last(p) # r.names[i]
  <2>1. ASSUME NEW i \in 2 .. old.at - 1
        PROVE  /\ Near(r, i) => \E p \in r.found : Last(p) = r.names[i]
               /\ ~ Near(r, i) => \A p \in r.found : Last(p) # r.names[i]
    <3>1. old.names[i] # old.names[old.at]
      BY <1>1 DEF Distinct
    <3> QED
      BY <1>1, <1>2, <1>3, <1>4, <1>5, <3>1 DEF SettledInv
  <2> QED
    BY <1>1, <1>2, <1>3, <1>4, <1>5, <2>1
<1>9. \A p, q \in r.found : Last(p) = Last(q) => p = q
  BY <1>1, <1>2, <1>6 DEF SettledInv
<1>10. FrontInv(NextTable(r)) /\ SettledInv(NextTable(r))
  BY <1>1, <1>2, <1>7, <1>8, <1>9, NextTableSettled
<1>11. search' = [search EXCEPT ![s] = NextTable(r)]
  BY DEF Found, r, old
<1> QED
  BY <1>10, <1>11, MoveNearest

LEMMA RecallNearest ==
    ASSUME NearestInv, Inv', NEW s \in Searchers, Recall(s) PROVE NearestInv'
<1>1. search[s] \in Searches /\ Key(s) \in Keys
  BY DEF NearestInv, Inv, Searches, Key, Keys
<1>2. /\ memo[Key(s)] \in Paths /\ Best(memo[Key(s)])
      /\ Walk(memo[Key(s)], search[s].from, search[s].to)
  BY <1>1 DEF NearestInv, MemoBest, Inv, MemoInv, Recall, Key
<1> QED
  BY <1>2, FoundNearest, MemoBestKept DEF Recall

\* The path that a search ends with is the best there is, and so what is
\* remembered already, if another thread has been faster.
LEMMA ArriveBest ==
    ASSUME NearestInv, NEW s \in Searchers, Arrive(s)
    PROVE  /\ Best(NextPath(s)) /\ NextPath(s) \in Paths
           /\ Walk(NextPath(s), search[s].from, search[s].to)
           /\ linked = Len(relationships) /\ Key(s) \in Keys
           /\ Key(s)[1] = search[s].from /\ Key(s)[2] = search[s].to
<1>1. /\ AtEdge(s) /\ NextTo(s) = search[s].to /\ search[s].pc = "scan"
      /\ Inv /\ adjacency \in [Tables -> Seq(Tables)]
  BY DEF Arrive, AtEdge, NearestInv, Inv
<1>2. /\ SearchInv(search[s]) /\ search[s] \in Searches
      /\ Trail(search[s].path, search[s]) /\ search[s].path \in Paths
      /\ Len(search[s].path) \in 1 .. MaxEdges
      /\ NextTo(s) \in Tables /\ Related(Last(search[s].path), NextTo(s))
  BY <1>1, AtEdgeFacts
<1>3. NextTo(s) \notin search[s].visited
  BY <1>1, <1>2 DEF SearchInv, QueueInv
<1>4. /\ QueueInv(search[s]) /\ SearchingInv(search[s]) /\ linked = Len(relationships)
  BY <1>1, AtWork
<1>5. Best(NextPath(s))
  BY <1>1, <1>2, <1>3, <1>4, NextBest DEF NextPath
<1>6. \A i \in 1 .. Len(search[s].path) : search[s].path[i] # NextTo(s)
  BY <1>2, <1>3 DEF Trail
<1>7. /\ NextPath(s) \in Paths /\ Len(NextPath(s)) = Len(search[s].path) + 1
      /\ NextPath(s)[1] = search[s].from /\ Last(NextPath(s)) = search[s].to
      /\ Distinct(NextPath(s))
      /\ \A i \in 1 .. Len(NextPath(s)) - 1 : Related(NextPath(s)[i], NextPath(s)[i + 1])
  BY <1>1, <1>2, <1>6, AtEdgeFacts, Extend DEF NextPath, Trail
<1>8. Len(NextPath(s)) \in 2 .. MaxEdges + 1
  BY <1>2, <1>7, JoinPathsAssumption
<1>9. Walk(NextPath(s), search[s].from, search[s].to)
  BY <1>7, <1>8 DEF Walk, Last, Distinct
<1>10. Key(s) \in Keys /\ Key(s)[1] = search[s].from /\ Key(s)[2] = search[s].to
  BY <1>2 DEF Searches, Key, Keys
<1> QED
  BY <1>4, <1>5, <1>7, <1>9, <1>10

LEMMA ArriveNearest ==
    ASSUME NearestInv, Inv', NEW s \in Searchers, Arrive(s) PROVE NearestInv'
<1> DEFINE path == NextPath(s)
<1>1. /\ Best(path) /\ path \in Paths /\ Walk(path, search[s].from, search[s].to)
      /\ linked = Len(relationships) /\ Key(s) \in Keys
  BY ArriveBest
<1>2. /\ memo' = [memo EXCEPT ![Key(s)] = path] /\ Found(s, path) /\ UNCHANGED graphVars
      /\ search[s].pc = "scan"
  BY DEF Arrive, Remember, AtEdge
<1> HIDE DEF path
<1>3. MemoBest'
  <2>1. \A q : Best(q)' <=> Best(q)
    BY <1>2, GraphSame
  <2>2. memo \in [Keys -> Paths] /\ UNCHANGED <<relationships, linked>>
    BY <1>2 DEF NearestInv, Inv, graphVars
  <2>3. \A key \in Keys : memo'[key] = path \/ memo'[key] = memo[key]
    BY <1>1, <1>2, <2>2
  <2> QED
    BY <1>1, <2>1, <2>2, <2>3 DEF NearestInv, MemoBest
<1> QED
  BY <1>1, <1>2, <1>3, FoundNearest

\* What a step within a search leaves alone: it is enough to look at the search.
LEMMA SearchStepNearest ==
    ASSUME NearestInv, Inv', NEW s \in Searchers, NEW r \in Searches,
           search[s].pc \in {"ask", "pop", "scan"}, r.pc \in {"pop", "scan"},
           r.names = search[s].names, r.at = search[s].at,
           r.from = search[s].from, r.found = search[s].found, SearchingInv(r),
           search' = [search EXCEPT ![s] = r], UNCHANGED <<graphVars, memo>>
    PROVE  NearestInv'
<1>1. SettledInv(search[s]) /\ linked = Len(relationships)
  BY AtWork
<1>2. \A i : Near(r, i) <=> Near(search[s], i)
  BY DEF Near
<1>3. SettledInv(r)
  BY <1>1, <1>2 DEF SettledInv
<1>4. FrontInv(r)
  BY <1>1 DEF FrontInv
<1> QED
  BY <1>3, <1>4, MoveNearest, MemoBestKept

LEMMA StartNearest ==
    ASSUME NearestInv, Inv', NEW s \in Searchers, Start(s) PROVE NearestInv'
<1> DEFINE r == [search[s] EXCEPT !.pc = "pop", !.queue = << <<search[s].from>> >>,
                                  !.visited = {search[s].from}]
<1>1. /\ search[s].pc = "ask" /\ search' = [search EXCEPT ![s] = r]
      /\ UNCHANGED <<graphVars, memo>>
  BY DEF Start
<1>2. /\ search[s] \in Searches /\ FrontInv(search[s])
  BY <1>1, AtWork
<1>3. /\ search[s].from \in Tables /\ search[s].path = None
      /\ r.pc = "pop" /\ r.queue = << <<search[s].from>> >>
      /\ r.visited = {search[s].from} /\ r.path = search[s].path
      /\ r.names = search[s].names /\ r.at = search[s].at
      /\ r.from = search[s].from /\ r.found = search[s].found
  BY <1>1, <1>2 DEF Searches, FrontInv
<1> HIDE DEF r
<1>4. r \in Searches
  <2>1. search' \in [Searchers -> Searches] /\ search'[s] = r
    BY <1>1 DEF Inv, NearestInv
  <2> QED
    BY <2>1
<1>5. SearchingInv(r)
  BY <1>3, <1>4, StartFront
<1> QED
  BY <1>1, <1>3, <1>4, <1>5, SearchStepNearest

LEMMA PopNearest ==
    ASSUME NearestInv, Inv', NEW s \in Searchers, Pop(s) PROVE NearestInv'
<1> DEFINE path == Head(search[s].queue)
           pc == IF Len(path) > MaxEdges THEN "pop" ELSE "scan"
           r == [search[s] EXCEPT !.queue = Tail(search[s].queue), !.path = path,
                                  !.edge = 1, !.pc = pc]
<1>1. /\ search[s].pc = "pop" /\ search' = [search EXCEPT ![s] = r]
      /\ UNCHANGED <<graphVars, memo>> /\ search[s].queue # <<>>
  BY DEF Pop
<1>2. /\ search[s] \in Searches /\ QueueInv(search[s]) /\ SearchingInv(search[s])
  BY <1>1, AtWork
<1> HIDE DEF pc
<1>3. /\ r.pc = pc /\ r.queue = Tail(search[s].queue)
      /\ r.path = Head(search[s].queue) /\ r.edge = 1
      /\ r.visited = search[s].visited
      /\ r.names = search[s].names /\ r.at = search[s].at
      /\ r.from = search[s].from /\ r.found = search[s].found
  BY <1>2 DEF Searches
<1> HIDE DEF r
<1>4. r \in Searches
  <2>1. search' \in [Searchers -> Searches] /\ search'[s] = r
    BY <1>1 DEF Inv, NearestInv
  <2> QED
    BY <2>1
<1>5. adjacency \in [Tables -> Seq(Tables)]
  BY DEF NearestInv, Inv
<1>6. r.pc = (IF Len(r.path) > MaxEdges THEN "pop" ELSE "scan")
  BY <1>3 DEF pc
<1>7. SearchingInv(r)
  BY <1>1, <1>2, <1>3, <1>4, <1>5, <1>6, PopFront
<1>8. r.pc \in {"pop", "scan"}
  BY <1>6
<1> QED
  BY <1>1, <1>3, <1>4, <1>7, <1>8, SearchStepNearest

LEMMA EdgeIs ==
    ASSUME NEW s
    PROVE  Edges(s) = EdgesOf(search[s]) /\ NextTo(s) = EdgesOf(search[s])[search[s].edge]
BY DEF Edges, EdgesOf, Table, Last, NextTo

LEMMA VisitNearest ==
    ASSUME NearestInv, Inv', NEW s \in Searchers, Visit(s) PROVE NearestInv'
<1> DEFINE r == [search[s] EXCEPT
                     !.visited = search[s].visited \cup {NextTo(s)},
                     !.queue = Append(search[s].queue, NextPath(s)),
                     !.edge = search[s].edge + 1]
<1>1. /\ search[s].pc = "scan" /\ search' = [search EXCEPT ![s] = r]
      /\ UNCHANGED <<graphVars, memo>> /\ NextTo(s) \notin search[s].visited
      /\ search[s].edge <= Len(Edges(s))
  BY DEF Visit, AtEdge, Visited
<1>2. /\ search[s] \in Searches /\ QueueInv(search[s]) /\ SearchingInv(search[s])
  BY <1>1, AtWork
<1>3. /\ r.pc = "scan" /\ r.queue = Append(search[s].queue, NextPath(s))
      /\ r.path = search[s].path /\ r.edge = search[s].edge + 1
      /\ r.visited = search[s].visited \cup {NextTo(s)}
      /\ r.names = search[s].names /\ r.at = search[s].at
      /\ r.from = search[s].from /\ r.found = search[s].found
  BY <1>1, <1>2 DEF Searches
<1> HIDE DEF r
<1>4. r \in Searches
  <2>1. search' \in [Searchers -> Searches] /\ search'[s] = r
    BY <1>1 DEF Inv, NearestInv
  <2> QED
    BY <2>1
<1>5. adjacency \in [Tables -> Seq(Tables)]
  BY DEF NearestInv, Inv
<1>6. NextPath(s) = Append(search[s].path, EdgesOf(search[s])[search[s].edge])
  BY EdgeIs DEF NextPath
<1>7. SearchingInv(r)
  BY <1>1, <1>2, <1>3, <1>4, <1>5, <1>6, EdgeIs, VisitFront
<1> QED
  BY <1>1, <1>3, <1>4, <1>7, SearchStepNearest

LEMMA SkipNearest ==
    ASSUME NearestInv, Inv', NEW s \in Searchers, Skip(s) PROVE NearestInv'
<1> DEFINE r == [search[s] EXCEPT !.edge = search[s].edge + 1]
<1>1. /\ search[s].pc = "scan" /\ search' = [search EXCEPT ![s] = r]
      /\ UNCHANGED <<graphVars, memo>> /\ NextTo(s) \in search[s].visited
      /\ search[s].edge <= Len(Edges(s))
  BY DEF Skip, AtEdge, Visited
<1>2. /\ search[s] \in Searches /\ QueueInv(search[s]) /\ SearchingInv(search[s])
  BY <1>1, AtWork
<1>3. /\ r.pc = "scan" /\ r.queue = search[s].queue /\ r.path = search[s].path
      /\ r.edge = search[s].edge + 1 /\ r.visited = search[s].visited
      /\ r.names = search[s].names /\ r.at = search[s].at
      /\ r.from = search[s].from /\ r.found = search[s].found
  BY <1>1, <1>2 DEF Searches
<1> HIDE DEF r
<1>4. r \in Searches
  <2>1. search' \in [Searchers -> Searches] /\ search'[s] = r
    BY <1>1 DEF Inv, NearestInv
  <2> QED
    BY <2>1
<1>5. adjacency \in [Tables -> Seq(Tables)]
  BY DEF NearestInv, Inv
<1>6. SearchingInv(r)
  BY <1>1, <1>2, <1>3, <1>4, <1>5, EdgeIs, SkipFront
<1> QED
  BY <1>1, <1>3, <1>4, <1>6, SearchStepNearest

LEMMA EndScanNearest ==
    ASSUME NearestInv, Inv', NEW s \in Searchers, EndScan(s) PROVE NearestInv'
<1> DEFINE r == [search[s] EXCEPT !.pc = "pop"]
<1>1. /\ search[s].pc = "scan" /\ search' = [search EXCEPT ![s] = r]
      /\ UNCHANGED <<graphVars, memo>> /\ search[s].edge > Len(Edges(s))
  BY DEF EndScan
<1>2. /\ search[s] \in Searches /\ QueueInv(search[s]) /\ SearchingInv(search[s])
      /\ linked = Len(relationships)
  BY <1>1, AtWork
<1>3. /\ r.pc = "pop" /\ r.queue = search[s].queue /\ r.path = search[s].path
      /\ r.visited = search[s].visited
      /\ r.names = search[s].names /\ r.at = search[s].at
      /\ r.from = search[s].from /\ r.found = search[s].found
  BY <1>1, <1>2 DEF Searches
<1> HIDE DEF r
<1>4. r \in Searches
  <2>1. search' \in [Searchers -> Searches] /\ search'[s] = r
    BY <1>1 DEF Inv, NearestInv
  <2> QED
    BY <2>1
<1>5. adjacency \in [Tables -> Seq(Tables)] /\ GraphWhole
  BY DEF NearestInv, Inv
<1>6. SearchingInv(r)
  BY <1>1, <1>2, <1>3, <1>4, <1>5, EdgeIs, EndScanFront
<1> QED
  BY <1>1, <1>3, <1>4, <1>6, SearchStepNearest

\* No path has been found yet to the table at hand.
LEMMA FoundElsewhere ==
    ASSUME NearestInv, NEW s \in Searchers, search[s].pc \in {"ask", "pop", "scan"},
           NEW path \in search[s].found
    PROVE  Last(path) # search[s].names[search[s].at]
<1> DEFINE r == search[s]
<1>1. /\ SettledInv(r) /\ r \in Searches /\ Distinct(r.names)
      /\ \A i \in 2 .. r.at - 1 : i \in 1 .. Len(r.names) /\ i # r.at
      /\ r.at \in 1 .. Len(r.names)
  BY AtWork
<1> HIDE DEF r
<1>2. path \in r.found
  BY DEF r
<1>3. PICK i \in 2 .. r.at - 1 : Walk(path, r.names[1], r.names[i])
  BY <1>1, <1>2 DEF SettledInv
<1>4. path \in Paths
  BY <1>1, <1>2 DEF Searches
<1>5. Last(path) = r.names[i]
  BY <1>3, <1>4, WalkIsWay
<1>6. r.names[i] # r.names[r.at]
  BY <1>1 DEF Distinct
<1> QED
  BY <1>5, <1>6 DEF r

\* The first search finds nothing when the table is too far, and then neither
\* does the second.
LEMMA NotFoundNearest ==
    ASSUME NearestInv, Inv', NEW s \in Searchers, NotFound(s) PROVE NearestInv'
<1> DEFINE old == search[s]
<1>1. old.pc = "pop" /\ old.queue = <<>> /\ UNCHANGED <<graphVars, memo>>
  BY DEF NotFound
<1>2. /\ old \in Searches /\ QueueInv(old) /\ SettledInv(old) /\ SearchingInv(old)
      /\ linked = Len(relationships) /\ old.at \in 2 .. Len(old.names)
      /\ Len(old.names) \in Nat /\ old.names # <<>>
      /\ \A i \in 2 .. old.at : i \in 2 .. old.at - 1 \/ i = old.at
      /\ old.at \in 1 .. Len(old.names) /\ old.names[1] # old.names[old.at]
      /\ \/ old.from = old.names[1] /\ old.to = old.names[old.at]
         \/ old.from = old.names[old.at] /\ old.to = old.names[1]
  BY <1>1, AtWork
<1>3. \A path \in old.found : Last(path) # old.names[old.at]
  BY <1>1, FoundElsewhere
<1>4. CASE old.from = old.names[1]
  <2> DEFINE r == [old EXCEPT !.pc = "ask", !.visited = {}, !.path = None,
                              !.from = old.to, !.to = old.from]
  <2>1. search' = [search EXCEPT ![s] = r]
    BY <1>4 DEF NotFound
  <2> HIDE DEF old
  <2>2. /\ r.pc = "ask" /\ r.path = None /\ r.names = old.names /\ r.at = old.at
        /\ r.found = old.found
    BY <1>2 DEF Searches
  <2> HIDE DEF r
  <2>3. ~ Near(old, old.at)
    BY <1>1, <1>2, <1>4, NotFoundFar DEF Near
  <2>4. \A i : Near(r, i) <=> Near(old, i)
    BY <2>2 DEF Near
  <2>5. SettledInv(r)
    BY <1>2, <2>2, <2>3, <2>4 DEF SettledInv
  <2>6. FrontInv(r)
    BY <1>2, <2>2 DEF FrontInv
  <2> QED
    BY <1>1, <2>1, <2>5, <2>6, MoveNearest, MemoBestKept
<1>5. CASE old.from # old.names[1]
  <2>1. search' = [search EXCEPT ![s] = NextTable(old)]
    BY <1>5 DEF NotFound
  <2> HIDE DEF old
  <2>2. ~ Near(old, old.at)
    BY <1>1, <1>2, <1>5 DEF SettledInv
  <2>3. \A path \in old.found :
            Nearest(path) /\ \E i \in 2 .. old.at : Walk(path, old.names[1], old.names[i])
    <3>1. \A i \in 2 .. old.at - 1 : i \in 2 .. old.at
      BY <1>2
    <3> QED
      BY <1>2, <3>1 DEF SettledInv
  <2>4. \A i \in 2 .. old.at :
            /\ Near(old, i) => \E path \in old.found : Last(path) = old.names[i]
            /\ ~ Near(old, i) => \A path \in old.found : Last(path) # old.names[i]
    <3>1. ASSUME NEW i \in 2 .. old.at - 1
          PROVE  /\ Near(old, i) => \E path \in old.found : Last(path) = old.names[i]
                 /\ ~ Near(old, i) => \A path \in old.found : Last(path) # old.names[i]
      BY <1>2 DEF SettledInv
    <3> QED
      BY <1>2, <1>3, <2>2, <3>1
  <2>5. \A p, q \in old.found : Last(p) = Last(q) => p = q
    BY <1>2 DEF SettledInv
  <2>6. FrontInv(NextTable(old)) /\ SettledInv(NextTable(old))
    BY <1>2, <2>3, <2>4, <2>5, NextTableSettled
  <2> QED
    BY <1>1, <2>1, <2>6, MoveNearest, MemoBestKept
<1> QED
  BY <1>4, <1>5

LEMMA SelectNearest ==
    ASSUME NearestInv, Inv', NEW s \in Searchers, Select(s) PROVE NearestInv'
<1>1. PICK names \in Selections :
          search' = [search EXCEPT ![s] =
                        NextTable([search[s] EXCEPT !.names = names])]
  BY DEF Select
<1> DEFINE r == [search[s] EXCEPT !.names = names]
<1>2. /\ search[s] \in Searches /\ SearchInv(search[s]) /\ search[s].pc = "idle"
      /\ linked = Len(relationships) /\ UNCHANGED <<graphVars, memo>>
  BY DEF NearestInv, Inv, Select
<1>3. names \in Seq(Tables) /\ names # <<>>
  BY JoinPathsAssumption
<1>4. /\ r \in Searches /\ r.names = names
      /\ r.at = search[s].at /\ r.found = search[s].found
  BY <1>2, <1>3 DEF Searches, Paths
<1> HIDE DEF r
<1>5. r.at = 1 /\ r.found = {}
  BY <1>2, <1>4 DEF SearchInv, EndsInv
<1>6. r.at \in 1 .. Len(r.names) /\ \A i \in 2 .. r.at : FALSE
  BY <1>3, <1>4, <1>5
<1>7. FrontInv(NextTable(r)) /\ SettledInv(NextTable(r))
  BY <1>2, <1>3, <1>4, <1>5, <1>6, NextTableSettled
<1>8. search' = [search EXCEPT ![s] = NextTable(r)]
  BY <1>1 DEF r
<1> QED
  BY <1>2, <1>7, <1>8, MoveNearest, MemoBestKept

\* As long as rows are linked no retrieval has begun.
LEMMA LinkNearest ==
    ASSUME NearestInv, Inv', Link PROVE NearestInv'
<1> DEFINE row == relationships[linked + 1]
           one == WithEdge(adjacency, row[1], row[2])
           Has(graph, t, u) == \E e \in 1 .. Len(graph[t]) : graph[t][e] = u
<1>1. /\ linked < Len(relationships) /\ linked' = linked + 1
      /\ adjacency' = WithEdge(one, row[2], row[1])
      /\ UNCHANGED <<relationships, memo, search>>
  BY DEF Link
<1>2. /\ relationships \in Seq(Keys) /\ linked \in Nat
      /\ adjacency \in [Tables -> Seq(Tables)]
  BY DEF NearestInv, Inv
<1>3. linked # Len(relationships)
  BY <1>1, <1>2
<1>4. \A s \in Searchers : search[s].pc = "idle"
  BY <1>3 DEF NearestInv, FrontInv
<1>5. MemoBest'
  BY <1>1, <1>3 DEF NearestInv, MemoBest
<1>6. ASSUME NEW s \in Searchers PROVE FrontInv(search[s])' /\ SettledInv(search[s])'
  <2>1. search[s].at = 1 /\ search[s].found = {} /\ search[s].pc = "idle"
    BY <1>4 DEF NearestInv, Inv, SearchInv, EndsInv
  <2>2. search'[s] = search[s]
    BY <1>1
  <2>3. FrontInv(search[s])'
    BY <2>1, <2>2 DEF FrontInv
  <2>4. \A i \in 2 .. search'[s].at - 1 : FALSE
    BY <2>1, <2>2
  <2>5. SettledInv(search[s])'
    BY <2>1, <2>2, <2>4 DEF SettledInv
  <2> QED
    BY <2>3, <2>5
<1>7. GraphWhole'
  <2>1. row \in Keys /\ row[1] \in Tables /\ row[2] \in Tables
    <3>1. linked + 1 \in 1 .. Len(relationships)
      BY <1>1, <1>2
    <3> QED
      BY <1>2, <3>1 DEF Keys
  <2> HIDE DEF row
  <2>2. ASSUME NEW graph \in [Tables -> Seq(Tables)], NEW a \in Tables, NEW b \in Tables
        PROVE  /\ WithEdge(graph, a, b) \in [Tables -> Seq(Tables)]
               /\ Has(WithEdge(graph, a, b), a, b)
               /\ \A t \in Tables : \A u :
                      Has(graph, t, u) => Has(WithEdge(graph, a, b), t, u)
    <3> DEFINE graph2 == WithEdge(graph, a, b)
    <3>1. /\ graph2 \in [Tables -> Seq(Tables)]
          /\ graph2[a] = Append(graph[a], b)
          /\ \A t \in Tables : t # a => graph2[t] = graph[t]
      BY DEF WithEdge
    <3> HIDE DEF graph2
    <3>2. /\ Len(graph[a]) \in Nat /\ Len(graph2[a]) = Len(graph[a]) + 1
          /\ graph2[a][Len(graph[a]) + 1] = b
          /\ \A e \in 1 .. Len(graph[a]) :
                 e \in 1 .. Len(graph2[a]) /\ graph2[a][e] = graph[a][e]
      BY <3>1
    <3>3. Len(graph[a]) + 1 \in 1 .. Len(graph2[a])
      BY <3>2
    <3>4. Has(graph2, a, b)
      BY <3>2, <3>3
    <3>5. \A t \in Tables : \A u : Has(graph, t, u) => Has(graph2, t, u)
      BY <3>1, <3>2
    <3> QED
      BY <3>1, <3>4, <3>5 DEF graph2
  <2> HIDE DEF Has
  <2>3. /\ one \in [Tables -> Seq(Tables)] /\ Has(one, row[1], row[2])
        /\ \A t \in Tables : \A u : Has(adjacency, t, u) => Has(one, t, u)
    BY <1>2, <2>1, <2>2
  <2> HIDE DEF one
  <2>4. /\ Has(adjacency', row[2], row[1])
        /\ \A t \in Tables : \A u : Has(one, t, u) => Has(adjacency', t, u)
    BY <1>1, <2>1, <2>2, <2>3
  <2>5. Has(adjacency', row[1], row[2]) /\ Has(adjacency', row[2], row[1])
    BY <2>1, <2>3, <2>4
  <2>6. \A t, u : /\ Shown(t, u)' <=> Has(adjacency', t, u)
                  /\ Shown(t, u) <=> Has(adjacency, t, u)
    BY DEF Shown, Has
  <2>7. ASSUME NEW i \in 1 .. linked + 1
        PROVE  /\ Has(adjacency', relationships[i][1], relationships[i][2])
               /\ Has(adjacency', relationships[i][2], relationships[i][1])
    <3>1. CASE i = linked + 1
      BY <2>5, <3>1 DEF row
    <3>2. CASE i \in 1 .. linked
      <4>1. i \in 1 .. Len(relationships)
        BY <1>1, <1>2, <3>2
      <4>2. relationships[i][1] \in Tables /\ relationships[i][2] \in Tables
        BY <1>2, <4>1 DEF Keys
      <4>3. /\ Has(adjacency, relationships[i][1], relationships[i][2])
            /\ Has(adjacency, relationships[i][2], relationships[i][1])
        BY <2>6, <3>2 DEF NearestInv, GraphWhole
      <4> QED
        BY <2>3, <2>4, <4>2, <4>3
    <3> QED
      BY <1>2, <3>1, <3>2
  <2> QED
    BY <1>1, <2>6, <2>7 DEF GraphWhole
<1> QED
  BY <1>5, <1>6, <1>7 DEF NearestInv

LEMMA NearestInit == Init => NearestInv
<1> SUFFICES ASSUME Init PROVE NearestInv
  OBVIOUS
<1>1. Inv
  BY InitInv
<1>2. GraphWhole /\ MemoBest
  BY DEF Init, GraphWhole, MemoBest
<1>3. FrontInv(Idle)
  BY DEF FrontInv, Idle
<1>4. SettledInv(Idle)
  <2>1. \A i \in 2 .. Idle.at - 1 : FALSE
    BY DEF Idle
  <2>2. Idle.found = {} /\ Idle.pc = "idle"
    BY DEF Idle
  <2> QED
    BY <2>1, <2>2 DEF SettledInv
<1> QED
  BY <1>1, <1>2, <1>3, <1>4 DEF NearestInv, Init

LEMMA NearestNext == NearestInv /\ [Next]_vars => NearestInv'
<1> SUFFICES ASSUME NearestInv, [Next]_vars PROVE NearestInv'
  OBVIOUS
<1>1. Inv'
  BY NextInv DEF NearestInv
<1>2. CASE Link
  BY <1>1, <1>2, LinkNearest
<1>3. ASSUME NEW s \in Searchers, Retrieve(s) PROVE NearestInv'
  BY <1>1, <1>3, SelectNearest, NotFoundNearest, RecallNearest, StartNearest,
     PopNearest, ArriveNearest, VisitNearest, SkipNearest, EndScanNearest DEF Retrieve
<1>4. CASE UNCHANGED vars
  <2>1. UNCHANGED graphVars /\ UNCHANGED <<graphVars, memo>> /\ search' = search
    BY <1>4 DEF vars, graphVars
  <2>2. \A s \in Searchers : FrontInv(search[s])' /\ SettledInv(search[s])'
    BY <2>1, GraphSame DEF NearestInv
  <2>3. GraphWhole' /\ MemoBest'
    BY <2>1, GraphSame, MemoBestKept DEF NearestInv
  <2> QED
    BY <1>1, <2>2, <2>3 DEF NearestInv
<1> QED
  BY <1>2, <1>3, <1>4 DEF Next

LEMMA NearestInvariance == Spec => []NearestInv
BY NearestInit, NearestNext, PTL DEF Spec

\* When a retrieval is done, each table selected that is at most MaxEdges
\* relationships away from the first has exactly one path, a shortest one that
\* begins at the first table, and every other table has none, however the
\* threads that share the memo overtake each other: _build_join_paths needs no
\* second search.
THEOREM JoinsNearestCorrect == Spec => []JoinsNearest
<1>1. NearestInv => JoinsNearest
  <2> SUFFICES ASSUME NearestInv, NEW s \in Searchers, search[s].pc = "done",
                      NEW i \in 2 .. Len(search[s].names)
               PROVE  LET a == search[s].names[1]
                          t == search[s].names[i]
                          joins == {path \in search[s].found :
                                        {path[1], path[Len(path)]} = {a, t}}
                      IN  IF t \in Ball(a)[MaxEdges]
                          THEN \E path \in joins :
                                  /\ joins = {path} /\ path[1] = a
                                  /\ t \notin Ball(a)[Len(path) - 2]
                          ELSE joins = {}
    BY DEF JoinsNearest
  <2> DEFINE r == search[s]
             a == r.names[1]
             t == r.names[i]
             joins == {path \in r.found : {path[1], path[Len(path)]} = {a, t}}
  <2>1. /\ r \in Searches /\ SearchInv(r) /\ SettledInv(r) /\ r.pc = "done"
    BY DEF NearestInv, Inv
  <2>2. i \in 2 .. Len(r.names)
    OBVIOUS
  <2> HIDE DEF r
  <2>3. /\ Len(r.names) \in Nat /\ Distinct(r.names)
    BY <2>1 DEF Searches, Paths, SearchInv, EndsInv
  <2>4. r.at = Len(r.names) + 1
    BY <2>1 DEF SettledInv
  <2>5. /\ i \in 2 .. r.at - 1 /\ 1 \in 1 .. Len(r.names) /\ i \in 1 .. Len(r.names)
        /\ i # 1 /\ \A j \in 2 .. r.at - 1 : j \in 1 .. Len(r.names) /\ j # 1
    BY ONLY <2>2, <2>3, <2>4
  <2>6. a # t
    BY <2>3, <2>5 DEF Distinct
  <2>7. ASSUME NEW path \in r.found
        PROVE  /\ path[1] = a /\ path[Len(path)] = Last(path) /\ Last(path) # a
               /\ Nearest(path) /\ Len(path) >= 2
    <3>1. PICK j \in 2 .. r.at - 1 : Walk(path, a, r.names[j])
      BY <2>1 DEF SettledInv
    <3>2. path \in Paths
      BY <2>1 DEF Searches
    <3>3. path[1] = a /\ Last(path) = r.names[j] /\ Len(path) \in 2 .. MaxEdges + 1
      BY <3>1, <3>2, WalkIsWay
    <3>4. r.names[j] # a
      BY <2>3, <2>5 DEF Distinct
    <3>5. Len(path) >= 2
      BY <3>3, JoinPathsAssumption
    <3> QED
      BY <2>1, <3>3, <3>4, <3>5 DEF SettledInv, Last
  <2>8. \A path \in r.found : path \in joins <=> Last(path) = t
    BY <2>6, <2>7
  <2>9. CASE t \in Ball(a)[MaxEdges]
    <3>1. PICK path \in r.found : Last(path) = t
      BY <2>1, <2>5, <2>9 DEF SettledInv, Near
    <3>2. joins = {path}
      <4>1. \A p, q \in r.found : Last(p) = Last(q) => p = q
        BY <2>1 DEF SettledInv
      <4>2. joins \subseteq r.found
        OBVIOUS
      <4>3. path \in joins
        BY <2>8, <3>1
      <4> HIDE DEF joins
      <4>4. \A p \in joins : p = path
        BY <2>8, <3>1, <4>1, <4>2
      <4> QED
        BY <4>3, <4>4
    <3>3. path[1] = a /\ t \notin Ball(a)[Len(path) - 2]
      BY <2>7, <3>1 DEF Nearest
    <3> QED
      BY <2>9, <3>2, <3>3 DEF r
  <2>10. CASE t \notin Ball(a)[MaxEdges]
    <3>1. \A path \in r.found : Last(path) # t
      BY <2>1, <2>5, <2>10 DEF SettledInv, Near
    <3>2. joins = {}
      BY <2>8, <3>1
    <3> QED
      BY <2>10, <3>2 DEF r
  <2> QED
    BY <2>9, <2>10
<1> QED
  BY <1>1, NearestInvariance, PTL

\* A path remembered stays: two threads that search for the same ends both find
\* the best path, so that the later one puts in the memo what is there already.
THEOREM MemoStableCorrect == Spec => MemoStable
<1>1. ASSUME NearestInv, [Next]_vars, NEW key \in Keys, memo[key] # None
      PROVE  memo'[key] = memo[key]
  <2>1. CASE memo' = memo
    BY <2>1
  <2>2. CASE \E s \in Searchers : Arrive(s)
    <3>1. PICK s \in Searchers : Arrive(s)
      BY <2>2
    <3>2. /\ Best(NextPath(s)) /\ NextPath(s) \in Paths
          /\ Walk(NextPath(s), search[s].from, search[s].to)
          /\ Key(s)[1] = search[s].from /\ Key(s)[2] = search[s].to
      BY <1>1, <3>1, ArriveBest
    <3>3. memo' = [memo EXCEPT ![Key(s)] = NextPath(s)]
      BY <3>1 DEF Arrive, Remember
    <3>4. memo \in [Keys -> Paths] /\ adjacency \in [Tables -> Seq(Tables)]
      BY <1>1 DEF NearestInv, Inv
    <3>5. memo[key] \in Paths /\ Best(memo[key]) /\ Walk(memo[key], key[1], key[2])
      BY <1>1, <3>4 DEF NearestInv, Inv, MemoInv, MemoBest
    <3>6. CASE key = Key(s)
      <4>1. NextPath(s) = memo[key]
        BY <3>2, <3>4, <3>5, <3>6, BestIsOne
      <4> QED
        BY <3>3, <3>4, <3>6, <4>1
    <3>7. CASE key # Key(s)
      BY <3>3, <3>7
    <3> QED
      BY <3>6, <3>7
  <2> QED
    BY <1>1, <2>1, <2>2
       DEF Next, vars, Link, Retrieve, Select, NotFound, Recall, Start, Pop, Visit, Skip,
           EndScan
<1>2. NearestInv /\ [Next]_vars
          => [\A key \in Keys : memo[key] # None => memo'[key] = memo[key]]_vars
  BY <1>1
<1> QED
  BY <1>2, NearestInvariance, PTL DEF Spec, MemoStable
==============================================================================
