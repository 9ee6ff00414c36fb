------------------------------ MODULE JoinPaths ------------------------------
(***************************************************************************)
(* The graph of a catalog snapshot (GraphCacheService._build_snapshot) and *)
(* the search for join paths in it (RetrievalService._resolve_join_path):  *)
(* breadth first, up to MaxEdges edges, for each selected table from the   *)
(* first one.  The paths found are kept in the snapshot, which the local   *)
(* cache hands to every retrieval of the process: threads search and fill  *)
(* the memo at the same time, without a lock.                              *)
(*                                                                         *)
(* An edge is the table it leads to.  A path is the sequence of its tables *)
(* and so has one element more than the path of the code has edges.        *)
(***************************************************************************)
EXTENDS Naturals, Sequences

CONSTANTS
    Tables,         \* tables of the catalog
    Graphs,         \* the relationships that the catalog may hold, in order
    Searchers,      \* retrievals that share the snapshot
    Selections,     \* the tables that a retrieval may have selected
    MaxEdges        \* len(path) >= 3

\* The selected tables are the keys of a dict: there is one at least, and none
\* occurs twice.
ASSUME JoinPathsAssumption ==
    /\ Tables # {}
    /\ Graphs \subseteq Seq(Tables \X Tables)
    /\ \A names \in Selections :
          /\ names \in Seq(Tables) /\ names # <<>>
          /\ \A i, j \in 1 .. Len(names) : names[i] = names[j] => i = j
    /\ MaxEdges \in Nat

VARIABLES
    relationships,  \* the rows of ask_catalog_relationships
    linked,         \* how many of them are in the graph
    adjacency,      \* graph_snapshot["adjacency"]
    memo,           \* graph_snapshot["joinPathMemo"]
    search          \* the retrievals

vars == <<relationships, linked, adjacency, memo, search>>
graphVars == <<relationships, linked, adjacency>>

Paths == Seq(Tables)
Keys == Tables \X Tables
None == <<>>

\* A retrieval: the tables selected and which one of them it is to join to the
\* first; the ends of the search; its queue, what it has visited, the path and
\* the edge it looks at; and what it has found.
Searches ==
    [pc : {"idle", "ask", "pop", "scan", "done"},
     names : Paths, at : Nat, from : Tables, to : Tables,
     queue : Seq(Paths), visited : SUBSET Tables, path : Paths, edge : Nat,
     found : SUBSET Paths]

\* Before the tables are selected, the ends mean nothing.
SomeTable == CHOOSE t \in Tables : TRUE
Idle == [pc |-> "idle", names |-> <<>>, at |-> 1,
         from |-> SomeTable, to |-> SomeTable,
         queue |-> <<>>, visited |-> {}, path |-> None, edge |-> 1,
         found |-> {}]

Init ==
    /\ relationships \in Graphs
    /\ linked = 0
    /\ adjacency = [t \in Tables |-> <<>>]
    /\ memo = [key \in Keys |-> None]
    /\ search = [s \in Searchers |-> Idle]

-----------------------------------------------------------------------------
(* _build_snapshot. *)

\* graph.setdefault(from, []).append(to)
WithEdge(graph, from, to) == [graph EXCEPT ![from] = Append(graph[from], to)]

\* Variant: the reverse edge is forgotten.
LinkForward ==
    LET row == relationships[linked + 1]
    IN  /\ linked < Len(relationships)
        /\ adjacency' = WithEdge(adjacency, row[1], row[2])
        /\ linked' = linked + 1
        /\ UNCHANGED <<relationships, memo, search>>

\* One row: an edge, and its reverse.
Link ==
    LET row == relationships[linked + 1]
    IN  /\ linked < Len(relationships)
        /\ adjacency' = WithEdge(WithEdge(adjacency, row[1], row[2]),
                                 row[2], row[1])
        /\ linked' = linked + 1
        /\ UNCHANGED <<relationships, memo, search>>

-----------------------------------------------------------------------------
(* _build_join_paths: the anchor, then for each table a search from the       *)
(* anchor and, if that finds nothing, a search from the table.                *)

\* A retrieval that goes on with the next table, or is done with them.
NextTable(r) ==
    [r EXCEPT
        !.at = r.at + 1, !.queue = <<>>, !.visited = {}, !.path = None,
        !.pc = IF r.at < Len(r.names) THEN "ask" ELSE "done",
        !.from = r.names[1],
        !.to = IF r.at < Len(r.names) THEN r.names[r.at + 1] ELSE r.names[1]]

Select(s) ==
    /\ search[s].pc = "idle" /\ linked = Len(relationships)
    /\ \E names \in Selections :
          search' = [search EXCEPT ![s] =
                        NextTable([search[s] EXCEPT !.names = names])]
    /\ UNCHANGED <<graphVars, memo>>

Found(s, path) ==
    search' = [search EXCEPT ![s] =
        NextTable([search[s] EXCEPT !.found = search[s].found \cup {path}])]

\* Both searches end here: the anchor's is followed by the table's.
NotFound(s) ==
    /\ search[s].pc = "pop" /\ search[s].queue = <<>>
    /\ search' = [search EXCEPT ![s] =
           IF search[s].from = search[s].names[1]
           THEN [search[s] EXCEPT !.pc = "ask", !.visited = {}, !.path = None,
                    !.from = search[s].to, !.to = search[s].from]
           ELSE NextTable(search[s])]
    /\ UNCHANGED <<graphVars, memo>>

-----------------------------------------------------------------------------
(* _resolve_join_path. *)

Key(s) == <<search[s].from, search[s].to>>

\* The path is known already,
Recall(s) ==
    /\ search[s].pc = "ask" /\ memo[Key(s)] # None
    /\ Found(s, memo[Key(s)])
    /\ UNCHANGED <<graphVars, memo>>

\* or it is searched for.
Start(s) ==
    /\ search[s].pc = "ask" /\ memo[Key(s)] = None
    /\ search' = [search EXCEPT ![s] =
           [search[s] EXCEPT !.pc = "pop", !.queue = << <<search[s].from>> >>,
                             !.visited = {search[s].from}]]
    /\ UNCHANGED <<graphVars, memo>>

\* Variant: the path queued last is taken first.
PopLast(s) ==
    LET queue == search[s].queue
        path == queue[Len(queue)]
    IN  /\ search[s].pc = "pop" /\ queue # <<>>
        /\ search' = [search EXCEPT ![s] =
               [search[s] EXCEPT
                   !.queue = SubSeq(queue, 1, Len(queue) - 1),
                   !.path = path, !.edge = 1,
                   !.pc = IF Len(path) > MaxEdges THEN "pop" ELSE "scan"]]
        /\ UNCHANGED <<graphVars, memo>>

\* Variant: a path that is long enough is followed once more.
PopLate(s) ==
    LET path == Head(search[s].queue)
    IN  /\ search[s].pc = "pop" /\ search[s].queue # <<>>
        /\ search' = [search EXCEPT ![s] =
               [search[s] EXCEPT
                   !.queue = Tail(search[s].queue), !.path = path, !.edge = 1,
                   !.pc = IF Len(path) > MaxEdges + 1 THEN "pop" ELSE "scan"]]
        /\ UNCHANGED <<graphVars, memo>>

\* popleft; a path that is long enough is not followed.
Pop(s) ==
    LET path == Head(search[s].queue)
    IN  /\ search[s].pc = "pop" /\ search[s].queue # <<>>
        /\ search' = [search EXCEPT ![s] =
               [search[s] EXCEPT
                   !.queue = Tail(search[s].queue), !.path = path, !.edge = 1,
                   !.pc = IF Len(path) > MaxEdges THEN "pop" ELSE "scan"]]
        /\ UNCHANGED <<graphVars, memo>>

Table(s) == search[s].path[Len(search[s].path)]
Edges(s) == adjacency[Table(s)]
NextTo(s) == Edges(s)[search[s].edge]
NextPath(s) == Append(search[s].path, NextTo(s))

AtEdge(s) == search[s].pc = "scan" /\ search[s].edge <= Len(Edges(s))

\* Variant: the way back is remembered with the way there.
RememberBoth(s, path) ==
    memo' = [memo EXCEPT ![Key(s)] = path,
                ![<<search[s].to, search[s].from>>] =
                    [i \in 1 .. Len(path) |-> path[Len(path) + 1 - i]]]

Remember(s, path) == memo' = [memo EXCEPT ![Key(s)] = path]

Arrive(s) ==
    /\ AtEdge(s) /\ NextTo(s) = search[s].to
    /\ Remember(s, NextPath(s))
    /\ Found(s, NextPath(s))
    /\ UNCHANGED graphVars

\* Variant: only the ends of the path in hand count as visited.
VisitedNow(s, t) == t \in {search[s].path[1], Table(s)}

Visited(s, t) == t \in search[s].visited

Visit(s) ==
    /\ AtEdge(s) /\ NextTo(s) # search[s].to /\ ~ Visited(s, NextTo(s))
    /\ search' = [search EXCEPT ![s] =
           [search[s] EXCEPT
               !.visited = search[s].visited \cup {NextTo(s)},
               !.queue = Append(search[s].queue, NextPath(s)),
               !.edge = search[s].edge + 1]]
    /\ UNCHANGED <<graphVars, memo>>

Skip(s) ==
    /\ AtEdge(s) /\ NextTo(s) # search[s].to /\ Visited(s, NextTo(s))
    /\ search' = [search EXCEPT ![s] =
           [search[s] EXCEPT !.edge = search[s].edge + 1]]
    /\ UNCHANGED <<graphVars, memo>>

EndScan(s) ==
    /\ search[s].pc = "scan" /\ search[s].edge > Len(Edges(s))
    /\ search' = [search EXCEPT ![s] = [search[s] EXCEPT !.pc = "pop"]]
    /\ UNCHANGED <<graphVars, memo>>

Retrieve(s) ==
    \/ Select(s) \/ NotFound(s)
    \/ Recall(s) \/ Start(s) \/ Pop(s)
    \/ Arrive(s) \/ Visit(s) \/ Skip(s) \/ EndScan(s)

Next == Link \/ \E s \in Searchers : Retrieve(s)

Spec == Init /\ [][Next]_vars

-----------------------------------------------------------------------------
(* What is claimed, of the rows of the catalog and not of the graph.          *)

Related(a, b) ==
    \E i \in 1 .. Len(relationships) : relationships[i] \in {<<a, b>>, <<b, a>>}

\* The variables hold what they should, and no table is queued twice.
TypeOK ==
    /\ relationships \in Seq(Keys) /\ linked \in 0 .. Len(relationships)
    /\ adjacency \in [Tables -> Seq(Tables)]
    /\ memo \in [Keys -> Paths]
    /\ search \in [Searchers -> Searches]
    /\ \A s \in Searchers : \A i, j \in 1 .. Len(search[s].queue) :
          LET End(k) == search[s].queue[k][Len(search[s].queue[k])]
          IN  End(i) = End(j) => i = j

\* A path leads from one table to another along relationships of the catalog,
\* has few enough of them, and joins no table twice.
Walk(path, a, b) ==
    /\ Len(path) \in 2 .. MaxEdges + 1 /\ path[1] = a /\ path[Len(path)] = b
    /\ \A i \in 1 .. Len(path) - 1 : Related(path[i], path[i + 1])
    /\ \A i, j \in 1 .. Len(path) : path[i] = path[j] => i = j

\* Whatever a retrieval has found, or remembered for another, joins the tables
\* it stands for: the first table selected and another one.
PathsJoin ==
    /\ \A key \in Keys : memo[key] # None => Walk(memo[key], key[1], key[2])
    /\ \A s \in Searchers : \A path \in search[s].found :
          \E i \in 2 .. Len(search[s].names) :
             \/ Walk(path, search[s].names[1], search[s].names[i])
             \/ Walk(path, search[s].names[i], search[s].names[1])

\* The tables at most n relationships away from a.
Ball(a) ==
    LET ball[n \in 0 .. MaxEdges] ==
            IF n = 0 THEN {a}
            ELSE ball[n - 1] \cup
                     {t \in Tables : \E u \in ball[n - 1] : Related(u, t)}
    IN  ball

\* In the end each table selected has one path if there is any that is short
\* enough, a shortest one, which begins at the first table; and none otherwise:
\* the second search of _build_join_paths never finds what the first did not.
JoinsNearest ==
    \A s \in Searchers : search[s].pc = "done" =>
        \A i \in 2 .. Len(search[s].names) :
            LET a == search[s].names[1]
                t == search[s].names[i]
                joins == {path \in search[s].found :
                              {path[1], path[Len(path)]} = {a, t}}
            IN  IF t \in Ball(a)[MaxEdges]
                THEN \E path \in joins :
                        /\ joins = {path} /\ path[1] = a
                        /\ t \notin Ball(a)[Len(path) - 2]
                ELSE joins = {}

\* What one thread has remembered no other thread replaces, also when both have
\* missed it and search: the path a retrieval was given stays the one that the
\* next one is given.
MemoStable ==
    [][\A key \in Keys : memo[key] # None => memo'[key] = memo[key]]_vars
==============================================================================
