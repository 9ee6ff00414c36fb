------------------------ MODULE RunLifecycleProofs ------------------------
(***************************************************************************)
(* Theorems about RunLifecycle, for every number of retries, regenerations *)
(* and artifacts, every set of cancelling processes and any bound on the   *)
(* faults.                                                                 *)
(*                                                                         *)
(* The argument is one inductive invariant, Inv.  Its parts say, for the   *)
(* labels between two calls of the thread, which of the facts that the     *)
(* rest of the pipeline relies on are already established: the program in  *)
(* hand is saved, and shown; the artifacts in the database are those of    *)
(* the execution that just ended, or none; nothing is shown yet.  Cancel   *)
(* requests disturb the status and the execution row only, faults the      *)
(* label only.                                                             *)
(***************************************************************************)
EXTENDS RunLifecycle, FiniteSetTheorems, TLAPS

\* Labels from a launch to the end of the successful path.
Executing == {"job", "log", "checkExecuted"}
Presenting == {"replay", "closeCompleted", "complete", "announceCompleted"}

\* Labels where the program in hand is already run at least once in its round.
Tried == Executing \union Presenting \union
         {"launch", "correct", "discardAttempt", "resetAttempt",
          "saveCorrection", "announceCorrection", "exhausted",
          "discardRound", "resetRound"}

\* Labels of a thread that no longer drafts or runs anything.
Ending == {"inspect", "closeFailed", "fail", "announceFailed", "done", "dead"}

\* Labels where the artifacts of a failed attempt are still to be deleted.
Stale == {"correct", "exhausted", "discardAttempt", "discardRound"}

\* A correction is attempted only while retries remain.
RetriesLeft == pc = "correct" => retries > 0

\* What was generated is counted before it is answered.
Drafted ==
    pc \in {"saveCode", "checkGenerated", "announceCode", "validate", "reply"} =>
        draft > 0

\* The program in hand is saved, shown and run in this order.
InHand ==
    /\ pc \in Executing \union Presenting \union
          {"checkGenerated", "announceCode", "validate", "reply", "launch",
           "announceCorrection"} => rowCode = draft
    /\ pc \in Executing \union Presenting \union {"validate", "reply", "launch"} =>
          shownCode = draft
    /\ pc \in Executing \union Presenting => ran = draft /\ launches > 0

\* The assistant has answered once a program was launched or a round is over.
Answered == outer > 0 \/ pc \in Tried => reply # 0

\* The artifacts in the database: none before a launch, those of the execution
\* after it.
Stored ==
    /\ IsFiniteSet(buffer)
    /\ pc \in Executing \union Presenting =>
          /\ buffer = artifacts
          /\ \A a \in artifacts : a[1] = launches
    /\ pc \notin Executing \union Presenting \union Stale \union Ending =>
          artifacts = {}

\* What a subscriber shows: nothing until an execution is accepted, then a part
\* of its artifacts, then all of them.
Showing ==
    /\ pc \notin Presenting \union Ending => shown = {}
    /\ pc \in Presenting => shown \subseteq artifacts
    /\ pc \in Presenting \ {"replay"} => shown = artifacts

\* A completed row is of one piece, and the thread only ends from there.
Completed ==
    status = "completed" =>
        /\ pc \in {"announceCompleted", "inspect", "closeFailed", "fail",
                   "done", "dead"}
        /\ \A a \in artifacts : a[1] = launches
        /\ rowCode = ran /\ shownCode = ran
        /\ reply # 0

\* The thread announces, and returns, on terminal rows only.
Concluded ==
    pc \in {"announceCompleted", "announceFailed", "done"} => status \in Terminal

\* Executions start after the row was set running.
Unbegun == pc \in {"start", "begin"} => launches = 0 /\ wasted = 0

\* A cancel that was not overwritten by `running` is still in the row, unless
\* the thread has written its outcome over it; an execution started since then
\* is the last.  One that was overwritten preceded every execution.
Wasted ==
    /\ request = "overwritten" => wasted = launches
    /\ request = "standing" =>
          /\ wasted \in {0, 1}
          /\ pc \notin Ending \union {"announceCompleted"} => status = "cancelled"
          /\ wasted = 1 => pc \in Executing \union Ending

Inv == /\ TypeOK /\ RetriesLeft /\ Drafted /\ InHand /\ Answered /\ Stored
       /\ Showing /\ Completed /\ Concluded /\ Unbegun /\ Wasted

-----------------------------------------------------------------------------
(* The invariant is inductive.                                             *)

\* A freshly inserted run satisfies the invariant.
LEMMA InitInv == Init => Inv
  <1> SUFFICES ASSUME Init PROVE Inv
    OBVIOUS
  <1>1. TypeOK
    <2>1. verdicts \in Seq(Terminal)
      BY DEF Init
    <2>2. retries \in 0..MaxErrorRetry /\ outer \in 0..MaxCodegenRetry
      BY RunLifecycleAssumption DEF Init
    <2>3. QED
      BY <2>1, <2>2 DEF Init, TypeOK, Labels
  <1>2. IsFiniteSet(buffer)
    BY FS_EmptySet DEF Init
  <1>3. QED
    BY <1>1, <1>2
    DEF Init, Inv, RetriesLeft, Drafted, InHand, Answered, Stored, Showing,
        Completed, Concluded, Unbegun, Wasted, Executing, Presenting, Tried, Ending,
        Stale

\* Persisting an artifact during an execution keeps the buffer equal to what is
\* stored, finite, and made of this execution's artifacts.
LEMMA PersistStored ==
  ASSUME TypeOK, Stored, pc \in Executing, launches > 0,
         NEW i \in Nat, Persist(i)
  PROVE  /\ artifacts' \in SUBSET AllArtifacts
         /\ buffer' = artifacts' /\ IsFiniteSet(buffer')
         /\ \A a \in artifacts' : a[1] = launches
  <1>1. Artifact(i) \in AllArtifacts /\ Artifact(i)[1] = launches
    BY DEF Artifact, AllArtifacts, TypeOK
  <1>2. buffer = artifacts /\ \A a \in artifacts : a[1] = launches
    BY DEF Stored
  <1>3. IsFiniteSet(buffer \union {Artifact(i)})
    BY FS_AddElement DEF Stored
  <1>4. QED
    BY <1>1, <1>2, <1>3 DEF Persist, TypeOK

\* Every call of the pipeline thread keeps the invariant.
LEMMA PipelineInv == ASSUME Inv, Pipeline PROVE Inv'
  <1> USE RunLifecycleAssumption
      DEF Inv, TypeOK, RetriesLeft, Drafted, InHand, Answered, Stored,
          Showing, Completed, Concluded, Unbegun, Wasted, Labels, Terminal,
          AllArtifacts, Executing, Presenting, Tried, Ending, Stale,
          rows, client, history, thread
  <1>1. CASE CheckQueued
    BY <1>1 DEF CheckQueued, Check, Go
  <1>2. CASE Begin
    BY <1>2 DEF Begin, SetStatus, Go
  <1>3. CASE Retrieve
    BY <1>3 DEF Retrieve
  <1>4. CASE CheckRetrieved
    BY <1>4 DEF CheckRetrieved, Check, Go
  <1>5. CASE Generate
    BY <1>5 DEF Generate
  <1>6. CASE SaveCode
    BY <1>6 DEF SaveCode, Save, Go
  <1>7. CASE CheckGenerated
    BY <1>7 DEF CheckGenerated, Check, Go
  <1>8. CASE AnnounceCode
    BY <1>8 DEF AnnounceCode, ShowCode, Go
  <1>9. CASE Validate
    <2>1. CASE pc' = "closeFailed"
      BY <1>9, <2>1 DEF Validate
    <2>2. CASE pc' = "reply"
      BY <1>9, <2>2 DEF Validate
    <2>3. CASE pc' = "launch" /\ outer > 0
      BY <1>9, <2>3 DEF Validate
    <2>4. QED
      BY <1>9, <2>1, <2>2, <2>3 DEF Validate
  <1>10. CASE Reply
    BY <1>10 DEF Reply, Go
  <1>11. CASE Launch
    BY <1>11, FS_EmptySet DEF Launch, Go
  <1>12. CASE EmitArtifact
    BY <1>12, FS_CardinalityType, PersistStored DEF EmitArtifact
  <1>13. CASE JobEnds
    BY <1>13 DEF JobEnds
  <1>14. CASE PersistLog
    <2>1. CASE Persist(0)
      BY <1>14, <2>1, PersistStored DEF PersistLog, Go
    <2>2. CASE UNCHANGED <<artifacts, buffer>>
      BY <1>14, <2>2 DEF PersistLog, Go
    <2>3. QED
      BY <1>14, <2>1, <2>2 DEF PersistLog
  <1>15. CASE CheckExecuted
    <2>1. CASE status = "cancelled"
      BY <1>15, <2>1 DEF CheckExecuted, Go
    <2>2. CASE status # "cancelled" /\ outcome = "ok"
      BY <1>15, <2>2 DEF CheckExecuted, Go
    <2>3. CASE status # "cancelled" /\ outcome # "ok"
      <3>1. pc = "checkExecuted" /\ pc' = IF retries = 0 THEN "exhausted" ELSE "correct"
        BY <1>15, <2>3, SMTT(30) DEF CheckExecuted, Go
      <3>2. QED
        BY <1>15, <2>3, <3>1, SMTT(30) DEF CheckExecuted
    <2>4. QED
      BY <2>1, <2>2, <2>3
  <1>16. CASE ReplayEvent
    BY <1>16 DEF ReplayEvent
  <1>17. CASE ReplayEnds
    <2>1. pc = "replay" /\ pc' = "closeCompleted" /\ shown = artifacts
      BY <1>17 DEF ReplayEnds, Go
    <2>2. QED
      BY <1>17, <2>1 DEF ReplayEnds
  <1>18. CASE CloseCompleted
    BY <1>18 DEF CloseCompleted, Close, Go, ExecutionAfter
  <1>19. CASE Complete
    BY <1>19 DEF Complete, SetStatus, Go
  <1>20. CASE AnnounceCompleted
    BY <1>20 DEF AnnounceCompleted, Announce, Go
  <1>21. CASE Correct
    BY <1>21 DEF Correct
  <1>22. CASE Exhausted
    BY <1>22 DEF Exhausted, Exhaust, ExecutionAfter
  <1>23. CASE DiscardAttempt
    BY <1>23 DEF DiscardAttempt, Discard, Go
  <1>24. CASE ResetAttempt
    BY <1>24 DEF ResetAttempt, Reset, Go
  <1>25. CASE SaveCorrection
    BY <1>25 DEF SaveCorrection, Save, Go
  <1>26. CASE AnnounceCorrection
    BY <1>26 DEF AnnounceCorrection, ShowCode, Go
  <1>27. CASE DiscardRound
    BY <1>27 DEF DiscardRound, Discard, Go
  <1>28. CASE ResetRound
    BY <1>28 DEF ResetRound, Reset, Go
  <1>29. CASE Inspect
    BY <1>29 DEF Inspect, Check, Go
  <1>30. CASE CloseFailed
    BY <1>30 DEF CloseFailed, Close, Go, ExecutionAfter
  <1>31. CASE Fail
    BY <1>31 DEF Fail, SetStatus, Go
  <1>32. CASE AnnounceFailed
    BY <1>32 DEF AnnounceFailed, Announce, Go
  <1>33. QED
    BY <1>1, <1>2, <1>3, <1>4, <1>5, <1>6, <1>7, <1>8, <1>9, <1>10, <1>11, <1>12, <1>13, <1>14, <1>15, <1>16, <1>17, <1>18, <1>19, <1>20, <1>21, <1>22, <1>23, <1>24, <1>25, <1>26, <1>27, <1>28, <1>29, <1>30, <1>31, <1>32 DEF Pipeline

\* A cancel request changes the status to cancelled and nothing else that the
\* invariant speaks of but the execution row and the verdicts.
LEMMA CancelInv == ASSUME Inv, NEW c \in Cancellers, Cancel(c) PROVE Inv'
  <1> USE DEF CancelStep, rows, client, history, thread
  <1>1. TypeOK'
    <2>1. cancelPc' \in [Cancellers -> {"idle", "closing", "marking", "announcing"}]
      BY DEF Inv, TypeOK, Cancel, CancelContinues, CancelRead, CancelExecution,
             CancelRun, AnnounceCancelled
    <2>2. /\ verdicts' \in Seq(Terminal)
          /\ status' \in {"queued", "running"} \union Terminal
          /\ execution' \in {"none", "running"} \union Terminal
          /\ asked' \in BOOLEAN
      <3>1. "cancelled" \in Terminal
        BY DEF Terminal
      <3>2. Append(verdicts, "cancelled") \in Seq(Terminal)
        BY <3>1 DEF Inv, TypeOK
      <3>3. QED
        BY <3>1, <3>2
        DEF Inv, TypeOK, Cancel, CancelContinues, CancelRead, CancelExecution,
            CancelRun, AnnounceCancelled, ExecutionAfter
    <2>3. UNCHANGED <<thread, rowCode, artifacts, reply, shown, shownCode,
                      launches, ran, faults>>
      BY DEF Cancel, CancelContinues, CancelRead, CancelExecution, CancelRun,
             AnnounceCancelled
    <2>4. request' \in {"none", "standing", "overwritten"} /\ wasted' \in Nat
      BY DEF Inv, TypeOK, Cancel, CancelContinues, CancelRead, CancelExecution,
             CancelRun, AnnounceCancelled
    <2>5. QED
      BY <2>1, <2>2, <2>3, <2>4 DEF Inv, TypeOK
  <1>2. /\ UNCHANGED <<thread, rowCode, artifacts, reply, shown, shownCode,
                       launches, ran, faults>>
        /\ \/ UNCHANGED <<status, request, wasted>>
           \/ /\ status' = "cancelled" /\ request' = "standing"
              /\ wasted' = IF request = "standing" THEN wasted ELSE 0
    BY DEF Cancel, CancelContinues, CancelRead, CancelExecution, CancelRun,
           AnnounceCancelled
  <1>3. RetriesLeft' /\ Drafted' /\ InHand' /\ Answered' /\ Stored' /\ Showing'
    BY <1>2 DEF Inv, RetriesLeft, Drafted, InHand, Answered, Stored, Showing
  <1>4. Completed' /\ Concluded' /\ Unbegun'
    BY <1>2 DEF Inv, Completed, Concluded, Unbegun, Terminal
  <1>5. Wasted'
    BY <1>2 DEF Inv, Wasted
  <1>6. QED
    BY <1>1, <1>3, <1>4, <1>5 DEF Inv

\* A fault moves the thread to its error handler or kills it, and drops cancel
\* requests.
LEMMA FaultInv == ASSUME Inv, Fault PROVE Inv'
  <1> USE DEF rows, client, history, thread
  <1>1. CASE CallRaises
    <2>1. pc' \in {"inspect", "dead"} /\ handling' = TRUE
      BY <1>1 DEF CallRaises
    <2>2. QED
      BY <1>1, <2>1
      DEF Fault, CallRaises, Inv, TypeOK, RetriesLeft, Drafted, InHand,
          Answered, Stored, Showing, Completed, Concluded, Unbegun, Wasted, Labels,
          Executing, Presenting, Tried, Ending, Stale
  <1>2. CASE Crash
    <2>1. cancelPc' \in [Cancellers -> {"idle", "closing", "marking", "announcing"}]
      BY <1>2 DEF Crash, Inv, TypeOK
    <2>2. QED
      BY <1>2, <2>1
      DEF Fault, Crash, Inv, TypeOK, RetriesLeft, Drafted, InHand, Answered,
          Stored, Showing, Completed, Concluded, Unbegun, Wasted, Labels, Executing,
          Presenting, Tried, Ending, Stale
  <1>3. CASE \E c \in Cancellers : CancelRaises(c)
    <2>1. cancelPc' \in [Cancellers -> {"idle", "closing", "marking", "announcing"}]
      BY <1>3 DEF CancelRaises, Inv, TypeOK
    <2>2. QED
      BY <1>3, <2>1
      DEF Fault, CancelRaises, Inv, TypeOK, RetriesLeft, Drafted, InHand,
          Answered, Stored, Showing, Completed, Concluded, Unbegun, Wasted
  <1>4. QED
    BY <1>1, <1>2, <1>3 DEF Fault

\* So does every step of the system, and a stuttering step.
LEMMA StepInv == Inv /\ [Next]_vars => Inv'
  <1> SUFFICES ASSUME Inv, [Next]_vars PROVE Inv'
    OBVIOUS
  <1>1. CASE Pipeline
    BY <1>1, PipelineInv
  <1>2. CASE \E c \in Cancellers : Cancel(c)
    BY <1>2, CancelInv
  <1>3. CASE Fault
    BY <1>3, FaultInv
  <1>4. CASE UNCHANGED vars
    BY <1>4
    DEF vars, thread, rows, client, history, Inv, TypeOK, RetriesLeft, Drafted,
        InHand, Answered, Stored, Showing, Completed, Concluded, Unbegun, Wasted
  <1>5. QED
    BY <1>1, <1>2, <1>3, <1>4 DEF Next

\* The invariant holds in every behaviour: at each call of the thread, the rows,
\* the events and the program in hand relate as the calls before it left them.
THEOREM Invariance == Spec => []Inv
  <1>1. QED
    BY InitInv, StepInv, PTL DEF Spec

-----------------------------------------------------------------------------
(* What follows from it.                                                   *)

\* Every variable keeps its type in every behaviour.
THEOREM TypeCorrect == Spec => []TypeOK
  <1>1. Inv => TypeOK
    BY DEF Inv
  <1>2. QED
    BY <1>1, Invariance, PTL

\* A completed run is of one piece: the artifacts, the saved and the shown
\* program are those of the last execution, and the thread has its answer.
THEOREM CompletedCorrect == Spec => []CompletedIsOnePiece
  <1>1. Inv => CompletedIsOnePiece
    BY DEF Inv, Completed, CompletedIsOnePiece
  <1>2. QED
    BY <1>1, Invariance, PTL

\* The thread never returns while the row is queued or running.
THEOREM ReturnCorrect == Spec => []ReturnsTerminal
  <1>1. Inv => ReturnsTerminal
    BY DEF Inv, Concluded, ReturnsTerminal
  <1>2. QED
    BY <1>1, Invariance, PTL

\* A cancel costs at most one more execution, unless `running` is written over
\* it; then it came before the first one.
THEOREM CancelBound == Spec => []CancelCostsOneExecution
  <1>1. Inv => CancelCostsOneExecution
    BY DEF Inv, Wasted, CancelCostsOneExecution
  <1>2. QED
    BY <1>1, Invariance, PTL

\* No execution starts over the rows, or on the screen, of an earlier attempt.
THEOREM LaunchCorrect == Spec => LaunchesClean
  <1>1. Inv /\ [Next]_vars => [launches' # launches => artifacts = {} /\ shown = {}]_vars
    <2> SUFFICES ASSUME Inv, Next, launches' # launches
                 PROVE  artifacts = {} /\ shown = {}
      BY DEF vars
    <2>1. CASE Launch
      BY <2>1 DEF Launch, Go, Inv, Stored, Showing, Executing, Presenting,
                  Stale, Ending
    <2>2. CASE Pipeline /\ ~Launch
      BY <2>2
      DEF Pipeline, history, CheckQueued, Begin, Retrieve, CheckRetrieved,
          Generate, SaveCode, CheckGenerated, AnnounceCode, Validate, Reply,
          EmitArtifact, JobEnds, PersistLog, CheckExecuted, ReplayEvent,
          ReplayEnds, CloseCompleted, Complete, AnnounceCompleted, Correct,
          Exhausted, Exhaust, DiscardAttempt, ResetAttempt, SaveCorrection,
          AnnounceCorrection, DiscardRound, ResetRound, Inspect, CloseFailed,
          Fail, AnnounceFailed, Check, SetStatus, Announce, Save, ShowCode,
          Close, Discard, Reset
    <2>3. CASE \E c \in Cancellers : Cancel(c)
      BY <2>3 DEF Cancel, CancelContinues, CancelRead, CancelExecution,
                  CancelRun, AnnounceCancelled, history
    <2>4. CASE Fault
      BY <2>4 DEF Fault, CallRaises, Crash, CancelRaises
    <2>5. QED
      BY <2>1, <2>2, <2>3, <2>4 DEF Next
  <1>2. QED
    BY <1>1, Invariance, PTL DEF Spec, LaunchesClean

-----------------------------------------------------------------------------
(* The thread implements RunContract.                                      *)

\* A freshly inserted run is one nothing has been promised about yet.
LEMMA ContractInit == Init => Contract!Init
  BY DEF Init, Contract!Init, stage

\* A step of the thread is a step of the contract, or hidden from it: what an
\* execution stores is a Try, the end of a good one an Accept, each replayed
\* event a Present, the terminal events Conclude and ReportFailure, and every
\* return without an event an Abandon.
LEMMA ContractPipeline ==
  ASSUME Inv, Inv', Pipeline PROVE [Contract!Next]_Contract!contractVars
  <1> USE DEF Contract!Next, Contract!contractVars, stage, rows, client, thread,
              Executing, Presenting, Ending, Stale
  <1>1. artifacts' \in SUBSET AllArtifacts
    BY DEF Inv, TypeOK
  <1>2. CASE CheckQueued
    BY <1>1, <1>2 DEF CheckQueued, Check, Go, Contract!Abandon
  <1>3. CASE Begin
    BY <1>1, <1>3 DEF Begin, SetStatus, Go
  <1>4. CASE Retrieve
    BY <1>1, <1>4 DEF Retrieve, Contract!GiveUp
  <1>5. CASE CheckRetrieved
    BY <1>1, <1>5 DEF CheckRetrieved, Check, Go, Contract!Abandon
  <1>6. CASE Generate
    BY <1>1, <1>6 DEF Generate, Contract!GiveUp
  <1>7. CASE SaveCode
    BY <1>1, <1>7 DEF SaveCode, Save, Go
  <1>8. CASE CheckGenerated
    BY <1>1, <1>8 DEF CheckGenerated, Check, Go, Contract!Abandon
  <1>9. CASE AnnounceCode
    BY <1>1, <1>9 DEF AnnounceCode, ShowCode, Go
  <1>10. CASE Validate
    BY <1>1, <1>10 DEF Validate, Contract!GiveUp
  <1>11. CASE Reply
    BY <1>1, <1>11 DEF Reply, Go
  <1>12. CASE Launch
    BY <1>1, <1>12 DEF Launch, Go
  <1>13. CASE EmitArtifact
    BY <1>1, <1>13 DEF EmitArtifact, Persist, Contract!Try
  <1>14. CASE JobEnds
    BY <1>1, <1>14 DEF JobEnds
  <1>15. CASE PersistLog
    BY <1>1, <1>15 DEF PersistLog, Go, Persist, Contract!Try
  <1>16. CASE CheckExecuted
    BY <1>1, <1>16 DEF CheckExecuted, Go, Contract!Abandon, Contract!Accept
  <1>17. CASE ReplayEvent
    BY <1>1, <1>17 DEF ReplayEvent, Inv, Stored, Showing, Contract!Present
  <1>18. CASE ReplayEnds
    BY <1>1, <1>18 DEF ReplayEnds, Go
  <1>19. CASE CloseCompleted
    BY <1>1, <1>19 DEF CloseCompleted, Close, Go
  <1>20. CASE Complete
    BY <1>1, <1>20 DEF Complete, SetStatus, Go
  <1>21. CASE AnnounceCompleted
    BY <1>1, <1>21 DEF AnnounceCompleted, Announce, Go, Inv, Showing, Contract!Conclude
  <1>22. CASE Correct
    BY <1>1, <1>22 DEF Correct
  <1>23. CASE Exhausted
    BY <1>1, <1>23 DEF Exhausted, Exhaust, Contract!GiveUp
  <1>24. CASE DiscardAttempt
    BY <1>1, <1>24 DEF DiscardAttempt, Discard, Go, Contract!Try
  <1>25. CASE ResetAttempt
    BY <1>1, <1>25 DEF ResetAttempt, Reset, Go, Inv, Showing
  <1>26. CASE SaveCorrection
    BY <1>1, <1>26 DEF SaveCorrection, Save, Go
  <1>27. CASE AnnounceCorrection
    BY <1>1, <1>27 DEF AnnounceCorrection, ShowCode, Go
  <1>28. CASE DiscardRound
    BY <1>1, <1>28 DEF DiscardRound, Discard, Go, Contract!Try
  <1>29. CASE ResetRound
    BY <1>1, <1>29 DEF ResetRound, Reset, Go, Inv, Showing
  <1>30. CASE Inspect
    BY <1>1, <1>30 DEF Inspect, Check, Go, Contract!Abandon
  <1>31. CASE CloseFailed
    BY <1>1, <1>31 DEF CloseFailed, Close, Go
  <1>32. CASE Fail
    BY <1>1, <1>32 DEF Fail, SetStatus, Go
  <1>33. CASE AnnounceFailed
    BY <1>1, <1>33 DEF AnnounceFailed, Announce, Go, Contract!ReportFailure
  <1>34. QED
    BY <1>2, <1>3, <1>4, <1>5, <1>6, <1>7, <1>8, <1>9, <1>10, <1>11, <1>12,
       <1>13, <1>14, <1>15, <1>16, <1>17, <1>18, <1>19, <1>20, <1>21, <1>22,
       <1>23, <1>24, <1>25, <1>26, <1>27, <1>28, <1>29, <1>30, <1>31, <1>32,
       <1>33 DEF Pipeline

\* Every step of the system is a step of the contract, or a stutter.
LEMMA ContractStep ==
  ASSUME Inv, Inv', [Next]_vars PROVE [Contract!Next]_Contract!contractVars
  <1> USE DEF rows, client, thread
  <1>1. CASE Pipeline
    BY <1>1, ContractPipeline
  <1>2. CASE \E c \in Cancellers : Cancel(c)
    <2>1. UNCHANGED <<pc, artifacts, shown>>
          /\ verdicts' \in {verdicts, Append(verdicts, "cancelled")}
      BY <1>2 DEF Cancel, CancelContinues, CancelRead, CancelExecution,
                  CancelRun, AnnounceCancelled
    <2>2. QED
      BY <2>1 DEF Contract!Next, Contract!contractVars, Contract!ReportCancel,
                  stage
  <1>3. CASE Fault
    <2>1. UNCHANGED <<artifacts, shown, verdicts>>
      BY <1>3 DEF Fault, CallRaises, Crash, CancelRaises
    <2>2. pc' = pc \/ (pc # "done" /\ pc # "dead" /\ pc' \in {"inspect", "dead"})
      BY <1>3 DEF Fault, CallRaises, Crash, CancelRaises
    <2>3. QED
      BY <2>1, <2>2 DEF Contract!Next, Contract!contractVars, Contract!GiveUp,
                        Contract!Abandon, stage
  <1>4. CASE UNCHANGED vars
    BY <1>4 DEF vars, Contract!contractVars, stage
  <1>5. QED
    BY <1>1, <1>2, <1>3, <1>4 DEF Next

\* The thread keeps its contract with the subscribers, whatever fails and
\* whoever cancels.
THEOREM ContractKept == Spec => KeepsContract
  <1>1. QED
    BY ContractInit, ContractStep, Invariance, PTL
    DEF Spec, KeepsContract, Contract!Spec

-----------------------------------------------------------------------------
(* How many programs a question may run, and that the records of its       *)
(* outcome agree.                                                          *)

\* Labels where the program in hand, if any, has not been launched.
Unlaunched == {"start", "begin", "retrieve", "checkRetrieved", "generate",
               "saveCode", "checkGenerated", "announceCode", "validate", "reply",
               "launch", "discardAttempt", "resetAttempt", "saveCorrection",
               "announceCorrection", "discardRound", "resetRound"}

\* What the rounds before this one may have run at most.
Spent == outer * (MaxErrorRetry + 1)

\* The counters account for every launch: all of the rounds before, a launch for
\* each correction of this round, and the one of the program in hand.
Budget ==
    launches <= Spent + (MaxErrorRetry - retries)
                      + (IF pc \in Unlaunched THEN 0 ELSE 1)

\* Labels from which a run may fail without closing its execution row.
Closed == {"start", "begin", "retrieve", "checkRetrieved", "generate",
           "discardRound", "resetRound", "fail", "announceFailed"}

\* What the records say of a run that nobody asked to cancel: no verdict until
\* the thread returns, an execution row that is closed as the run is about to be.
Told ==
    ~asked =>
        /\ \A c \in Cancellers : cancelPc[c] = "idle"
        /\ status # "cancelled"
        /\ pc \notin {"done", "dead"} => verdicts = <<>>
        /\ pc = "announceCompleted" => status = "completed"
        /\ pc = "announceFailed" => status = "failed"
        /\ pc \in {"complete", "announceCompleted"} =>
               execution \in {"none", "completed"}
        /\ pc \in Closed => execution \in {"none", "failed"}
        /\ pc = "done" =>
               verdicts = <<status>> /\ execution \in {"none", status}

-----------------------------------------------------------------------------
(* The budget.                                                             *)

\* One more round spends at most MaxErrorRetry + 1 launches.
LEMMA OneMoreRound ==
    ASSUME NEW n \in Nat, NEW e \in Nat
    PROVE  /\ n * (e + 1) \in Nat
           /\ (n + 1) * (e + 1) = n * (e + 1) + e + 1
  OBVIOUS

\* Fewer rounds spend no more.
LEMMA FewerRounds ==
    ASSUME NEW n \in Nat, NEW k \in Nat, NEW e \in Nat, n <= k
    PROVE  n * (e + 1) <= k * (e + 1)
  <1>1. PICK d \in Nat : k = n + d
    <2>1. k - n \in Nat /\ k = n + (k - n)
      OBVIOUS
    <2> QED
      BY <2>1
  <1>2. k * (e + 1) = n * (e + 1) + d * (e + 1)
    BY <1>1
  <1>3. n * (e + 1) \in Nat /\ d * (e + 1) \in Nat
    OBVIOUS
  <1> QED
    BY <1>2, <1>3

\* A step that starts no execution and leaves the counters alone keeps the budget,
\* unless it forgets that a program was launched.
LEMMA BudgetStays ==
    ASSUME TypeOK, Budget, UNCHANGED <<outer, retries, launches>>,
           pc' \in Unlaunched => pc \in Unlaunched
    PROVE  Budget'
  <1>1. Spent \in Nat /\ Spent' = Spent
    BY RunLifecycleAssumption, OneMoreRound DEF Spent, TypeOK
  <1> QED
    BY <1>1, RunLifecycleAssumption DEF Budget, TypeOK

\* Every step keeps the budget: a launch uses what the program in hand is allowed,
\* a correction what it takes from the retries, a round what was left of the last.
LEMMA BudgetInductive == TypeOK /\ Budget /\ [Next]_vars => Budget'
<1> SUFFICES ASSUME TypeOK, Budget, [Next]_vars PROVE Budget'
  OBVIOUS
<1> USE RunLifecycleAssumption DEF rows, client, history, thread
<1>0. Spent \in Nat
  BY OneMoreRound DEF Spent, TypeOK
<1>1. CASE Launch
  BY <1>0, <1>1 DEF Launch, Go, Budget, Spent, Unlaunched, TypeOK
<1>2. CASE Correct
  <2>1. CASE pc' = "discardAttempt"
    <3>1. retries' = retries - 1 /\ Spent' = Spent /\ launches' = launches
      BY <1>2, <2>1 DEF Correct, Spent
    <3> QED
      BY <1>0, <1>2, <2>1, <3>1 DEF Correct, Budget, Unlaunched, TypeOK
  <2>2. CASE pc' = "exhausted"
    BY <1>2, <2>2, BudgetStays DEF Correct, Unlaunched
  <2> QED
    BY <1>2, <2>1, <2>2 DEF Correct
<1>3. CASE Exhausted
  <2>1. CASE outer >= MaxCodegenRetry
    BY <1>3, <2>1, BudgetStays DEF Exhausted, Exhaust, Unlaunched
  <2>2. CASE ~(outer >= MaxCodegenRetry)
    <3>1. /\ outer' = outer + 1 /\ retries' = MaxErrorRetry
          /\ launches' = launches /\ pc = "exhausted" /\ pc' = "discardRound"
      BY <1>3, <2>2 DEF Exhausted, Exhaust
    <3>2. Spent' = Spent + MaxErrorRetry + 1
      BY <3>1, OneMoreRound DEF Spent, TypeOK
    <3> QED
      BY <1>0, <3>1, <3>2 DEF Budget, Unlaunched, TypeOK
  <2> QED
    BY <2>1, <2>2
<1>4. CASE Pipeline /\ ~Launch /\ ~Correct /\ ~Exhausted
  <2>1. UNCHANGED <<outer, retries, launches>>
    BY <1>4
    DEF Pipeline, CheckQueued, Begin, Retrieve, CheckRetrieved, Generate,
        SaveCode, CheckGenerated, AnnounceCode, Validate, Reply, EmitArtifact,
        JobEnds, PersistLog, CheckExecuted, ReplayEvent, ReplayEnds,
        CloseCompleted, Complete, AnnounceCompleted, DiscardAttempt,
        ResetAttempt, SaveCorrection, AnnounceCorrection, DiscardRound,
        ResetRound, Inspect, CloseFailed, Fail, AnnounceFailed, Check, SetStatus,
        Announce, Save, ShowCode, Close, Discard, Reset
  <2>2. pc' \in Unlaunched => pc \in Unlaunched
    BY <1>4
    DEF Pipeline, CheckQueued, Begin, Retrieve, CheckRetrieved, Generate,
        SaveCode, CheckGenerated, AnnounceCode, Validate, Reply, EmitArtifact,
        JobEnds, PersistLog, CheckExecuted, ReplayEvent, ReplayEnds,
        CloseCompleted, Complete, AnnounceCompleted, DiscardAttempt,
        ResetAttempt, SaveCorrection, AnnounceCorrection, DiscardRound,
        ResetRound, Inspect, CloseFailed, Fail, AnnounceFailed, Check, SetStatus,
        Announce, Save, ShowCode, Close, Discard, Reset, Go, Unlaunched
  <2> QED
    BY <2>1, <2>2, BudgetStays
<1>5. CASE \E c \in Cancellers : Cancel(c)
  BY <1>5, BudgetStays
  DEF Cancel, CancelContinues, CancelRead, CancelExecution, CancelRun,
      AnnounceCancelled
<1>6. CASE Fault
  <2>1. UNCHANGED <<outer, retries, launches>>
    BY <1>6 DEF Fault, CallRaises, Crash, CancelRaises
  <2>2. pc' \in Unlaunched => pc \in Unlaunched
    BY <1>6 DEF Fault, CallRaises, Crash, CancelRaises, Unlaunched
  <2> QED
    BY <2>1, <2>2, BudgetStays
<1>7. CASE UNCHANGED vars
  BY <1>7, BudgetStays DEF vars
<1> QED
  BY <1>1, <1>2, <1>3, <1>4, <1>5, <1>6, <1>7 DEF Next

\* Corrections and regenerations together run at most as many programs as the two
\* limits allow, whatever is cancelled or fails (orchestrator.py 245, 518).
THEOREM RetryBudgetCorrect == Spec => []RetryBudget
<1>1. Init => Budget
  BY RunLifecycleAssumption, OneMoreRound
     DEF Init, Budget, Spent, Unlaunched
<1>2. TypeOK /\ Budget => RetryBudget
  <2> SUFFICES ASSUME TypeOK, Budget PROVE RetryBudget
    OBVIOUS
  <2>1. Spent \in Nat /\ Spent <= MaxCodegenRetry * (MaxErrorRetry + 1)
    BY RunLifecycleAssumption, OneMoreRound, FewerRounds DEF Spent, TypeOK
  <2>2. (MaxCodegenRetry + 1) * (MaxErrorRetry + 1) =
            MaxCodegenRetry * (MaxErrorRetry + 1) + MaxErrorRetry + 1
    BY RunLifecycleAssumption, OneMoreRound
  <2>3. launches <= (MaxCodegenRetry + 1) * (MaxErrorRetry + 1)
    BY RunLifecycleAssumption, <2>1, <2>2, OneMoreRound DEF Budget, TypeOK
  <2> QED
    BY RunLifecycleAssumption, <2>3 DEF RetryBudget
<1> QED
  BY <1>1, <1>2, BudgetInductive, TypeCorrect, PTL DEF Spec

-----------------------------------------------------------------------------
(* The records.                                                            *)

\* While nobody asked, no cancel request is past its look at the row: a step of
\* one that is leaves Told as it was, and a look that finds the run in flight
\* ends what Told speaks of.
LEMMA ToldCancel ==
    ASSUME Told, NEW c \in Cancellers, Cancel(c)
    PROVE  Told'
  <1>1. CASE CancelRead(c)
    BY <1>1 DEF CancelRead, Told
  <1>2. CASE CancelContinues(c)
    <2>1. asked /\ asked' = asked
      BY <1>2
      DEF CancelContinues, CancelExecution, CancelRun, AnnounceCancelled,
          CancelStep, Told, history
    <2> QED
      BY <2>1 DEF Told
  <1> QED
    BY <1>1, <1>2 DEF Cancel

\* A fault touches the label and the cancel requests: the thread that goes on does
\* so from a label of which Told claims nothing yet.
LEMMA ToldFault == ASSUME Told, Fault PROVE Told'
  <1> USE DEF Told, Closed, rows, client, thread
  <1>1. CASE CallRaises
    BY <1>1 DEF CallRaises
  <1>2. CASE Crash
    BY <1>2 DEF Crash
  <1>3. CASE \E c \in Cancellers : CancelRaises(c)
    <2>1. PICK c \in Cancellers : CancelRaises(c)
      BY <1>3
    <2>2. ~asked' => cancelPc[c] = "idle"
      BY <2>1 DEF CancelRaises
    <2> QED
      BY <2>1, <2>2 DEF CancelRaises
  <1> QED
    BY <1>1, <1>2, <1>3 DEF Fault

\* The first verdict is the only one the thread publishes.
LEMMA OneVerdict ==
    ASSUME NEW from \in Labels \ {"done", "dead"}, NEW s \in Terminal,
           Announce(from, s), pc \notin {"done", "dead"} => verdicts = <<>>
    PROVE  /\ pc = from /\ pc' = "done" /\ verdicts' = <<s>>
           /\ UNCHANGED <<status, execution>>
  <1>1. verdicts = <<>>
    BY DEF Announce, Go
  <1>2. Append(<<>>, s) = <<s>>
    OBVIOUS
  <1> QED
    BY <1>1, <1>2 DEF Announce, Go, rows

\* The thread closes the execution row with what the run's row is about to say,
\* says it, and publishes it once, last.
LEMMA ToldPipeline == ASSUME TypeOK, Told, Pipeline PROVE Told'
  <1> USE DEF Told, Closed, rows, client, history
  <1>0. SUFFICES ASSUME ~asked' PROVE Told'
    OBVIOUS
  <1>1. asked' = asked /\ cancelPc' = cancelPc
    BY
    DEF Pipeline, CheckQueued, Begin, Retrieve, CheckRetrieved, Generate,
        SaveCode, CheckGenerated, AnnounceCode, Validate, Reply, Launch,
        EmitArtifact, JobEnds, PersistLog, CheckExecuted, ReplayEvent,
        ReplayEnds, CloseCompleted, Complete, AnnounceCompleted, Correct,
        Exhausted, Exhaust, DiscardAttempt, ResetAttempt, SaveCorrection,
        AnnounceCorrection, DiscardRound, ResetRound, Inspect, CloseFailed,
        Fail, AnnounceFailed, Check, SetStatus, Announce, Save, ShowCode,
        Close, Discard, Reset
  <1>2. ~asked /\ status # "cancelled"
    BY <1>0, <1>1
  <1>3. CASE CloseCompleted \/ Complete
    BY <1>1, <1>2, <1>3
    DEF CloseCompleted, Complete, Close, SetStatus, Go, ExecutionAfter
  <1>4. CASE CloseFailed \/ Fail \/ Exhausted
    BY <1>1, <1>2, <1>4
    DEF CloseFailed, Fail, Exhausted, Exhaust, Close, SetStatus, Go,
        ExecutionAfter
  <1>10. CASE AnnounceCompleted
    BY <1>1, <1>2, <1>10, OneVerdict DEF AnnounceCompleted, Labels, Terminal
  <1>11. CASE AnnounceFailed
    BY <1>1, <1>2, <1>11, OneVerdict DEF AnnounceFailed, Labels, Terminal
  <1>5. CASE CheckQueued \/ Begin \/ Retrieve \/ CheckRetrieved \/ Generate \/
             DiscardRound \/ ResetRound
    BY <1>1, <1>2, <1>5
    DEF CheckQueued, Begin, Retrieve, CheckRetrieved, Generate, DiscardRound,
        ResetRound, Check, SetStatus, Discard, Reset, Go
  <1>6. CASE SaveCode \/ CheckGenerated \/ AnnounceCode \/ Validate \/ Reply \/
             Launch
    BY <1>1, <1>2, <1>6
    DEF SaveCode, CheckGenerated, AnnounceCode, Validate, Reply, Launch, Check,
        Save, ShowCode, Go
  <1>7. CASE EmitArtifact \/ JobEnds \/ PersistLog \/ CheckExecuted
    BY <1>1, <1>2, <1>7
    DEF EmitArtifact, JobEnds, PersistLog, CheckExecuted, Go
  <1>8. CASE ReplayEvent \/ ReplayEnds
    BY <1>1, <1>2, <1>8 DEF ReplayEvent, ReplayEnds, Go, thread
  <1>9. CASE Correct \/ DiscardAttempt \/ ResetAttempt \/ SaveCorrection \/
             AnnounceCorrection \/ Inspect
    BY <1>1, <1>2, <1>9
    DEF Correct, DiscardAttempt, ResetAttempt, SaveCorrection,
        AnnounceCorrection, Inspect, Check, Discard, Reset, Save, ShowCode, Go
  <1> QED
    BY <1>3, <1>4, <1>5, <1>6, <1>7, <1>8, <1>9, <1>10, <1>11 DEF Pipeline

\* In a run nobody asked to cancel, the verdict, the run's row and the execution
\* row agree when the thread returns, whatever failed on the way
\* (_fail_run and the except clauses, orchestrator.py 320-329, 529-548).
THEOREM RecordsAgreeCorrect == Spec => []RecordsAgree
<1>1. Init => Told
  BY DEF Init, Told, Closed
<1>2. TypeOK /\ Told /\ [Next]_vars => Told'
  <2> SUFFICES ASSUME TypeOK, Told, [Next]_vars PROVE Told'
    OBVIOUS
  <2>1. CASE UNCHANGED vars
    BY <2>1 DEF vars, thread, rows, client, history, Told
  <2> QED
    BY <2>1, ToldPipeline, ToldCancel, ToldFault DEF Next
<1>3. Told => RecordsAgree
  BY DEF Told, RecordsAgree
<1> QED
  BY <1>1, <1>2, <1>3, TypeCorrect, PTL DEF Spec
=============================================================================
