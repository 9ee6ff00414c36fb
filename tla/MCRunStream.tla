---------------------------- MODULE MCRunStream ----------------------------
(***************************************************************************)
(* RunStream on small instances: the pipeline thread emits three events,   *)
(* a cancel request the one it emits, and subscribers come and go at one   *)
(* process or at two.                                                      *)
(***************************************************************************)
EXTENDS RunStream

CONSTANTS pipeline, cancel, near, far, c1, c2

\* One process serves everything.
OneHome == [e \in Emitters |-> near]
OneAt == [c \in Clients |-> near]

\* The run is at one process, its subscriber at the other.
FarAt == [c \in Clients |-> far]

MCEvents == [e \in Emitters |-> IF e = pipeline THEN 3 ELSE 1]

=============================================================================
