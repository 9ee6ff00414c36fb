-------------------------- MODULE MCRunLifecycle --------------------------
(***************************************************************************)
(* RunLifecycle on small instances.  The bounds of each run are in its     *)
(* .cfg; p1 and p2 are two API processes that serve cancel requests.       *)
(***************************************************************************)
EXTENDS RunLifecycle

CONSTANTS p1, p2

=============================================================================
