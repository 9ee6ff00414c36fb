------------------------------ MODULE MCCatalog ------------------------------
(***************************************************************************)
(* Catalog on a small instance: two retrievals in one process with Redis.  *)
(* Each cache may lose an entry at any time, so what one retrieval leaves  *)
(* to the other it may leave in either, as if they were in two processes.  *)
(***************************************************************************)
EXTENDS Catalog, TLC

CONSTANTS q1, q2, p1

OneProcess == [q \in Requests |-> p1]

MCSymmetry == Permutations(Requests)

==============================================================================
