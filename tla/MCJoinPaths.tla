----------------------------- MODULE MCJoinPaths -----------------------------
(***************************************************************************)
(* JoinPaths on small graphs: all graphs of four tables without loops or   *)
(* double edges whose relationships lead from the lower table, one where   *)
(* the shortest paths there and back differ, and some of five tables that  *)
(* have a path too long, a loop, two relationships between the same        *)
(* tables, or two ways round.                                              *)
(* Tables are numbers, in the order of their names, and a graph is listed  *)
(* as the query for relationships orders it.                               *)
(***************************************************************************)
EXTENDS JoinPaths, SequencesExt

CONSTANTS s1, s2

MCTables == 1 .. 5

Before(p, q) == p[1] < q[1] \/ (p[1] = q[1] /\ p[2] < q[2])

Small == {<<a, b>> \in (1 .. 4) \X (1 .. 4) : a < b}

MCGraphs ==
    {SetToSortSeq(rows, Before) : rows \in SUBSET Small} \cup
    { << <<1, 3>>, <<1, 4>>, <<2, 4>>, <<3, 2>> >>,
      << <<1, 2>>, <<2, 3>>, <<3, 4>>, <<4, 5>> >>,
      << <<1, 1>>, <<2, 1>>, <<3, 2>>, <<5, 3>> >>,
      << <<1, 4>>, <<2, 1>>, <<2, 1>>, <<2, 3>>, <<3, 5>>, <<5, 4>> >> }

\* Every pair of the four tables, some of them in both orders, and the ends of
\* the larger graphs.
MCSelections ==
    Small \cup {<<2, 1>>, <<4, 3>>, <<1, 5>>, <<5, 1>>, <<1, 2, 3>>, <<4, 1, 5>>}

MCSymmetry == Permutations(Searchers)
==============================================================================
