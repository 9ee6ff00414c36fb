---------------------------- MODULE RunContract ----------------------------
(***************************************************************************)
(* What one Ask run promises to whoever follows its live events:           *)
(*                                                                         *)
(*   - nothing is shown while programs are drafted and tried, however many *)
(*     of them fail and whatever they leave in the database;               *)
(*   - what is then shown is stored, and stays stored;                     *)
(*   - run.completed is published once, last, and only when everything     *)
(*     stored has been shown;                                              *)
(*   - run.failed is published once, and never besides run.completed.      *)
(*                                                                         *)
(* A cancel request adds its own verdict at any time and changes nothing   *)
(* else here; a run may also be abandoned without a verdict.  RunLifecycle *)
(* implements this specification.                                          *)
(***************************************************************************)
EXTENDS Sequences

CONSTANT Artifacts

VARIABLES
    stage,     \* "drafting", "presenting", "failing" or "closed"
    stored,    \* the artifacts in the database
    shown,     \* the artifacts a subscriber of the live events shows
    verdicts   \* the terminal events, in the order they were published

contractVars == <<stage, stored, shown, verdicts>>

Init ==
    /\ stage = "drafting"
    /\ stored = {}
    /\ shown = {}
    /\ verdicts = <<>>

\* Executions come and go; a subscriber sees none of what they store.
Try ==
    /\ stage = "drafting"
    /\ stored' \in SUBSET Artifacts
    /\ UNCHANGED <<stage, shown, verdicts>>

Accept ==
    /\ stage = "drafting"
    /\ stage' = "presenting"
    /\ UNCHANGED <<stored, shown, verdicts>>

Present ==
    /\ stage = "presenting"
    /\ \E a \in stored \ shown : shown' = shown \union {a}
    /\ UNCHANGED <<stage, stored, verdicts>>

Conclude ==
    /\ stage = "presenting"
    /\ shown = stored
    /\ stage' = "closed"
    /\ verdicts' = Append(verdicts, "completed")
    /\ UNCHANGED <<stored, shown>>

GiveUp ==
    /\ stage \in {"drafting", "presenting"}
    /\ stage' = "failing"
    /\ UNCHANGED <<stored, shown, verdicts>>

ReportFailure ==
    /\ stage = "failing"
    /\ stage' = "closed"
    /\ verdicts' = Append(verdicts, "failed")
    /\ UNCHANGED <<stored, shown>>

Abandon ==
    /\ stage # "closed"
    /\ stage' = "closed"
    /\ UNCHANGED <<stored, shown, verdicts>>

ReportCancel ==
    /\ verdicts' = Append(verdicts, "cancelled")
    /\ UNCHANGED <<stage, stored, shown>>

Next ==
    \/ Try \/ Accept \/ Present \/ Conclude
    \/ GiveUp \/ ReportFailure \/ Abandon \/ ReportCancel

Spec == Init /\ [][Next]_contractVars

=============================================================================
