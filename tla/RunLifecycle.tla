--------------------------- MODULE RunLifecycle ---------------------------
(***************************************************************************)
(* One Ask run, from the queued row the message route inserts to its       *)
(* terminal row: the pipeline thread of services/orchestrator.py, the      *)
(* execution attempts of services/runner.py, and the cancel requests of    *)
(* routes/api.py, which interleave with the thread at every database call. *)
(*                                                                         *)
(* Every repository call opens its own connection and commits by itself,   *)
(* so a step below is one such call, with the computation and the stream   *)
(* events between it and the next.  Events matter here only when they      *)
(* change what a subscriber ends up showing: code, artifacts, the verdict. *)
(* What a generated program does, what the language model answers and what *)
(* retrieval finds are free choices.                                       *)
(***************************************************************************)
EXTENDS Naturals, Sequences, FiniteSets

CONSTANTS
    MaxErrorRetry,    \* corrections of one generated program
    MaxCodegenRetry,  \* regenerations from scratch
    MaxParts,         \* artifacts one execution emits, its log aside (bound)
    MaxFaults,        \* calls that raise, and crashes, in a behaviour (bound)
    Cancellers        \* API processes: each serves one cancel request at a time

ASSUME RunLifecycleAssumption ==
    /\ MaxErrorRetry \in Nat
    /\ MaxCodegenRetry \in Nat
    /\ MaxParts \in Nat
    /\ MaxFaults \in Nat

VARIABLES
    pc,         \* the next call of the pipeline thread
    handling,   \* it is inside an except clause of _run_pipeline
    outer,      \* outer_attempt
    retries,    \* retries_remaining
    draft,      \* number of the program in hand, python_code
    outcome,    \* did the last execution fail? (runtime_errors, return_code)
    buffer,     \* artifacts among the buffered events of the last execution
    status,     \* ask_runs.status
    rowCode,    \* ask_runs.python_code
    execution,  \* ask_run_executions.status, "none" while there is no row
    artifacts,  \* ask_run_artifacts: pairs of an execution and a number in it
    reply,      \* the program the assistant message describes, 0: no message
    shown,      \* artifacts a subscriber of the live events shows
    shownCode,  \* program a subscriber of the live events shows
    verdicts,   \* terminal events published so far
    cancelPc,   \* the next call of each cancel request
    launches,   \* executions started (history)
    ran,        \* the program the last of them ran (history)
    asked,      \* a cancel request has found the run in flight (history)
    request,    \* what became of the last cancel written to the row (history)
    wasted,     \* executions started since it was written (history)
    faults      \* faults so far

thread == <<pc, handling, outer, retries, draft, outcome, buffer>>
rows == <<status, rowCode, execution, artifacts, reply>>
client == <<shown, shownCode, verdicts>>
history == <<launches, ran, asked, request, wasted, faults>>
vars == <<thread, rows, client, cancelPc, history>>

Terminal == {"completed", "failed", "cancelled"}

Labels == {"start", "begin", "retrieve", "checkRetrieved", "generate",
           "saveCode", "checkGenerated", "announceCode", "validate", "reply",
           "launch", "job", "log", "checkExecuted", "replay",
           "closeCompleted", "complete", "announceCompleted", "correct",
           "discardAttempt", "resetAttempt", "saveCorrection",
           "announceCorrection", "exhausted", "discardRound", "resetRound",
           "inspect", "closeFailed", "fail", "announceFailed", "done", "dead"}

\* The artifact an execution numbers i; the execution log has number 0.
Artifact(i) == <<launches, i>>

\* update_run_execution: an UPDATE, so nothing happens while there is no row.
ExecutionAfter(s) == IF execution = "none" THEN "none" ELSE s

Init ==
    /\ pc = "start" /\ handling = FALSE /\ outer = 0
    /\ retries = MaxErrorRetry /\ draft = 0 /\ outcome = "ok" /\ buffer = {}
    /\ status = "queued" /\ rowCode = 0 /\ execution = "none"
    /\ artifacts = {} /\ reply = 0
    /\ shown = {} /\ shownCode = 0 /\ verdicts = <<>>
    /\ cancelPc = [c \in Cancellers |-> "idle"]
    /\ launches = 0 /\ ran = 0 /\ asked = FALSE /\ request = "none"
    /\ wasted = 0 /\ faults = 0

-----------------------------------------------------------------------------
(* The pipeline thread.                                                    *)

Go(from, to) == pc = from /\ pc' = to

\* _raise_if_cancelled: RunCancelled unwinds to `except RunCancelled: return`.
Check(from, to) ==
    /\ Go(from, IF status = "cancelled" THEN "done" ELSE to)
    /\ UNCHANGED <<handling, outer, retries, draft, outcome, buffer, rows,
                   client, cancelPc, history>>

CheckQueued == Check("start", "begin")
CheckRetrieved == Check("checkRetrieved", "generate")
CheckGenerated == Check("checkGenerated", "announceCode")

\* update_run(status) and, for Complete and Fail, the completion time.
SetStatus(from, s, to) ==
    /\ Go(from, to)
    /\ status' = s
    /\ UNCHANGED <<handling, outer, retries, draft, outcome, buffer, rowCode,
                   execution, artifacts, reply, client, cancelPc, launches, ran,
                   asked, wasted, faults>>

\* A cancel written since the look at the queued row is overwritten.
Begin ==
    /\ SetStatus("begin", "running", "retrieve")
    /\ request' = IF status = "cancelled" THEN "overwritten" ELSE request

Complete ==
    SetStatus("complete", "completed", "announceCompleted") /\ UNCHANGED request

Fail == SetStatus("fail", "failed", "announceFailed") /\ UNCHANGED request

\* A terminal event; _run_pipeline returns after it.
Announce(from, verdict) ==
    /\ Go(from, "done")
    /\ verdicts' = Append(verdicts, verdict)
    /\ UNCHANGED <<handling, outer, retries, draft, outcome, buffer, rows,
                   shown, shownCode, cancelPc, history>>

AnnounceCompleted == Announce("announceCompleted", "completed")
AnnounceFailed == Announce("announceFailed", "failed")

\* Retrieval ends, or raises and the run fails at stage "retrieval".
Retrieve ==
    /\ pc = "retrieve"
    /\ pc' \in {"checkRetrieved", "fail"}
    /\ UNCHANGED <<handling, outer, retries, draft, outcome, buffer, rows,
                   client, cancelPc, history>>

\* generate_analysis returns a program, or raises and the run fails at
\* stage "codegen".
Generate ==
    /\ pc = "generate"
    /\ \/ pc' = "saveCode" /\ draft' = draft + 1
       \/ pc' = "fail" /\ UNCHANGED draft
    /\ UNCHANGED <<handling, outer, retries, outcome, buffer, rows, client,
                   cancelPc, history>>

\* update_run(python_code): a generated program, or a correction.
Save(from, to) ==
    /\ Go(from, to)
    /\ rowCode' = draft
    /\ UNCHANGED <<handling, outer, retries, draft, outcome, buffer, status,
                   execution, artifacts, reply, client, cancelPc, history>>

SaveCode == Save("saveCode", "checkGenerated")

\* Variant: a correction is run but not saved.
SaveCorrectionForgotten ==
    /\ Go("saveCorrection", "announceCorrection")
    /\ UNCHANGED <<handling, outer, retries, draft, outcome, buffer, rows,
                   client, cancelPc, history>>

SaveCorrection == Save("saveCorrection", "announceCorrection")

\* run.codegen.completed.
ShowCode(from, to) ==
    /\ Go(from, to)
    /\ shownCode' = draft
    /\ UNCHANGED <<handling, outer, retries, draft, outcome, buffer, rows,
                   shown, verdicts, cancelPc, history>>

AnnounceCode == ShowCode("announceCode", "validate")
AnnounceCorrection == ShowCode("announceCorrection", "launch")

\* validate_python_code: CodeValidationError is handled outside the loop.
Validate ==
    /\ pc = "validate"
    /\ \/ pc' = (IF outer = 0 THEN "reply" ELSE "launch") /\ UNCHANGED handling
       \/ pc' = "closeFailed" /\ handling' = TRUE
    /\ UNCHANGED <<outer, retries, draft, outcome, buffer, rows, client,
                   cancelPc, history>>

\* The assistant message, for the first generated program only.
Reply ==
    /\ Go("reply", "launch")
    /\ reply' = draft
    /\ UNCHANGED <<handling, outer, retries, draft, outcome, buffer, status,
                   rowCode, execution, artifacts, client, cancelPc, history>>

\* execute_sync upserts the execution row and hands the program to the pool.
Launch ==
    /\ Go("launch", "job")
    /\ execution' = "running"
    /\ buffer' = {}
    /\ launches' = launches + 1
    /\ ran' = draft
    /\ wasted' = wasted + (IF request = "none" THEN 0 ELSE 1)
    /\ UNCHANGED <<handling, outer, retries, draft, outcome, status, rowCode,
                   artifacts, reply, client, cancelPc, asked, request, faults>>

\* An artifact is persisted, at once, and its event buffered.
Persist(i) ==
    /\ artifacts' = artifacts \union {Artifact(i)}
    /\ buffer' = buffer \union {Artifact(i)}

\* Variant: run.artifact is published at once instead of being buffered.
EmitArtifactLive ==
    /\ pc = "job"
    /\ Cardinality(buffer) < MaxParts
    /\ Persist(Cardinality(buffer) + 1)
    /\ shown' = shown \union {Artifact(Cardinality(buffer) + 1)}
    /\ UNCHANGED <<pc, handling, outer, retries, draft, outcome, status,
                   rowCode, execution, reply, shownCode, verdicts, cancelPc,
                   history>>

EmitArtifact ==
    /\ pc = "job"
    /\ Cardinality(buffer) < MaxParts
    /\ Persist(Cardinality(buffer) + 1)
    /\ UNCHANGED <<pc, handling, outer, retries, draft, outcome, status,
                   rowCode, execution, reply, client, cancelPc, history>>

\* The program ends, with or without errors; or the pool, or the handling of
\* one of its events, raises, and then no log is written.
JobEnds ==
    /\ pc = "job"
    /\ \/ pc' = "log" /\ outcome' \in {"ok", "error"}
       \/ pc' = "checkExecuted" /\ outcome' = "error"
    /\ UNCHANGED <<handling, outer, retries, draft, buffer, rows, client,
                   cancelPc, history>>

\* The execution log is one more artifact; only a silent success has none.
PersistLog ==
    /\ Go("log", "checkExecuted")
    /\ \/ Persist(0)
       \/ outcome = "ok" /\ UNCHANGED <<artifacts, buffer>>
    /\ UNCHANGED <<handling, outer, retries, draft, outcome, status, rowCode,
                   execution, reply, client, cancelPc, history>>

\* Variant: the row is not looked at after an execution.
CheckExecutedBlind ==
    /\ Go("checkExecuted", IF outcome = "ok" THEN "replay"
                           ELSE IF retries = 0 THEN "exhausted" ELSE "correct")
    /\ UNCHANGED <<handling, outer, retries, draft, outcome, buffer, rows,
                   client, cancelPc, history>>

\* Variant: the retries that remain are not looked at.
CheckExecutedUnbounded ==
    /\ Go("checkExecuted", IF status = "cancelled" THEN "done"
                           ELSE IF outcome = "ok" THEN "replay" ELSE "correct")
    /\ UNCHANGED <<handling, outer, retries, draft, outcome, buffer, rows,
                   client, cancelPc, history>>

CheckExecuted ==
    /\ Go("checkExecuted",
          CASE status = "cancelled" -> "done"
            [] status # "cancelled" /\ outcome = "ok" -> "replay"
            [] OTHER -> IF retries = 0 THEN "exhausted" ELSE "correct")
    /\ UNCHANGED <<handling, outer, retries, draft, outcome, buffer, rows,
                   client, cancelPc, history>>

\* replay_events publishes the buffered events one by one.
ReplayEvent ==
    /\ pc = "replay"
    /\ \E a \in buffer \ shown : shown' = shown \union {a}
    /\ UNCHANGED <<thread, rows, shownCode, verdicts, cancelPc, history>>

\* Variant: the replay waits for the execution log, which a silent success lacks.
ReplayEndsLogged ==
    /\ Go("replay", "closeCompleted")
    /\ buffer \subseteq shown /\ Artifact(0) \in buffer
    /\ UNCHANGED <<handling, outer, retries, draft, outcome, buffer, rows,
                   client, cancelPc, history>>

ReplayEnds ==
    /\ Go("replay", "closeCompleted")
    /\ buffer \subseteq shown
    /\ UNCHANGED <<handling, outer, retries, draft, outcome, buffer, rows,
                   client, cancelPc, history>>

\* update_run_execution(status).
Close(from, s, to) ==
    /\ Go(from, to)
    /\ execution' = ExecutionAfter(s)
    /\ UNCHANGED <<handling, outer, retries, draft, outcome, buffer, status,
                   rowCode, artifacts, reply, client, cancelPc, history>>

CloseCompleted == Close("closeCompleted", "completed", "complete")
CloseFailed == Close("closeFailed", "failed", "fail")

\* generate_correction: a valid program costs one retry; a refused one ends
\* the round.
Correct ==
    /\ pc = "correct"
    /\ \/ pc' = "discardAttempt" /\ draft' = draft + 1 /\ retries' = retries - 1
       \/ pc' = "exhausted" /\ UNCHANGED <<draft, retries>>
    /\ UNCHANGED <<handling, outer, outcome, buffer, rows, client, cancelPc,
                   history>>

\* ExecutionRetryExhausted: the row is closed, then the outer loop starts
\* another round or fails the run.
Exhaust(rounds) ==
    /\ pc = "exhausted"
    /\ execution' = ExecutionAfter("failed")
    /\ IF outer >= rounds
       THEN pc' = "fail" /\ UNCHANGED <<outer, retries>>
       ELSE /\ pc' = "discardRound"
            /\ outer' = outer + 1
            /\ retries' = MaxErrorRetry
    /\ UNCHANGED <<handling, draft, outcome, buffer, status, rowCode,
                   artifacts, reply, client, cancelPc, history>>

\* Variant: one round too many.
ExhaustedLate == Exhaust(MaxCodegenRetry + 1)

\* Variant: the execution row is left open.
ExhaustedOpen ==
    /\ pc = "exhausted"
    /\ IF outer >= MaxCodegenRetry
       THEN pc' = "fail" /\ UNCHANGED <<outer, retries>>
       ELSE pc' = "discardRound" /\ outer' = outer + 1 /\ retries' = MaxErrorRetry
    /\ UNCHANGED <<handling, draft, outcome, buffer, rows, client, cancelPc,
                   history>>

Exhausted == Exhaust(MaxCodegenRetry)

\* delete_run_artifacts, then run.artifacts.reset.
Discard(from, to) ==
    /\ Go(from, to)
    /\ artifacts' = {}
    /\ UNCHANGED <<handling, outer, retries, draft, outcome, buffer, status,
                   rowCode, execution, reply, client, cancelPc, history>>

Reset(from, to) ==
    /\ Go(from, to)
    /\ shown' = {}
    /\ UNCHANGED <<handling, outer, retries, draft, outcome, buffer, rows,
                   shownCode, verdicts, cancelPc, history>>

DiscardAttempt == Discard("discardAttempt", "resetAttempt")
ResetAttempt == Reset("resetAttempt", "saveCorrection")

\* Variant: a new round keeps the artifacts of the old one.
DiscardRoundForgotten ==
    /\ Go("discardRound", "resetRound")
    /\ UNCHANGED <<handling, outer, retries, draft, outcome, buffer, rows,
                   client, cancelPc, history>>

DiscardRound == Discard("discardRound", "resetRound")
ResetRound == Reset("resetRound", "generate")

\* `except Exception`: reads the row, and leaves a cancelled run alone.
\* Variant: it leaves every run alone that is not running.
InspectRunningOnly ==
    /\ Go("inspect", IF status # "running" THEN "done" ELSE "closeFailed")
    /\ UNCHANGED <<handling, outer, retries, draft, outcome, buffer, rows,
                   client, cancelPc, history>>

Inspect == Check("inspect", "closeFailed")

Pipeline ==
    \/ CheckQueued \/ Begin \/ Retrieve \/ CheckRetrieved \/ Generate
    \/ SaveCode \/ CheckGenerated \/ AnnounceCode \/ Validate \/ Reply
    \/ Launch \/ EmitArtifact \/ JobEnds \/ PersistLog \/ CheckExecuted
    \/ ReplayEvent \/ ReplayEnds \/ CloseCompleted \/ Complete
    \/ AnnounceCompleted \/ Correct \/ Exhausted \/ DiscardAttempt
    \/ ResetAttempt \/ SaveCorrection \/ AnnounceCorrection \/ DiscardRound
    \/ ResetRound \/ Inspect \/ CloseFailed \/ Fail \/ AnnounceFailed

-----------------------------------------------------------------------------
(* Cancel requests.  The route has no await: one request of a process runs *)
(* to its end before the next, but the thread runs in between its calls.   *)

CancelStep(c, from, to) ==
    /\ cancelPc[c] = from
    /\ cancelPc' = [cancelPc EXCEPT ![c] = to]

\* get_run: a terminal run is returned as it is, and nothing happens.
CancelRead(c) ==
    /\ status \notin Terminal
    /\ CancelStep(c, "idle", "closing")
    /\ asked' = TRUE
    /\ UNCHANGED <<thread, rows, client, launches, ran, request, wasted, faults>>

CancelExecution(c) ==
    /\ CancelStep(c, "closing", "marking")
    /\ execution' = ExecutionAfter("cancelled")
    /\ UNCHANGED <<thread, status, rowCode, artifacts, reply, client, history>>

CancelRun(c) ==
    /\ CancelStep(c, "marking", "announcing")
    /\ status' = "cancelled"
    /\ request' = "standing"
    /\ wasted' = IF request = "standing" THEN wasted ELSE 0
    /\ UNCHANGED <<thread, rowCode, execution, artifacts, reply, client,
                   launches, ran, asked, faults>>

\* Variant: the row is marked, and the subscribers are not told.
AnnounceCancelledNot(c) ==
    /\ CancelStep(c, "announcing", "idle")
    /\ UNCHANGED <<thread, rows, client, history>>

AnnounceCancelled(c) ==
    /\ CancelStep(c, "announcing", "idle")
    /\ verdicts' = Append(verdicts, "cancelled")
    /\ UNCHANGED <<thread, rows, shown, shownCode, history>>

CancelContinues(c) ==
    CancelExecution(c) \/ CancelRun(c) \/ AnnounceCancelled(c)

Cancel(c) == CancelRead(c) \/ CancelContinues(c)

-----------------------------------------------------------------------------
(* Faults.                                                                 *)

\* A database call raises.  Retrieval, generation and the job turn an
\* exception into an outcome of their own; elsewhere it reaches
\* `except Exception`, and inside an except clause it kills the thread.
CallRaises ==
    /\ pc \notin {"retrieve", "generate", "job", "done", "dead"}
    /\ pc' = IF handling THEN "dead" ELSE "inspect"
    /\ handling' = TRUE
    /\ UNCHANGED <<outer, retries, draft, outcome, buffer, rows, client,
                   cancelPc, launches, ran, asked, request, wasted>>

\* The process of the thread dies, with the cancel requests it was serving.
Crash ==
    /\ pc \notin {"done", "dead"}
    /\ pc' = "dead"
    /\ \E lost \in SUBSET Cancellers :
           cancelPc' = [c \in Cancellers |->
                            IF c \in lost THEN "idle" ELSE cancelPc[c]]
    /\ UNCHANGED <<handling, outer, retries, draft, outcome, buffer, rows,
                   client, launches, ran, asked, request, wasted>>

\* A cancel request fails between two of its calls.
CancelRaises(c) ==
    /\ cancelPc[c] # "idle"
    /\ cancelPc' = [cancelPc EXCEPT ![c] = "idle"]
    /\ UNCHANGED <<thread, rows, client, launches, ran, asked, request, wasted>>

Fault ==
    /\ faults < MaxFaults
    /\ faults' = faults + 1
    /\ CallRaises \/ Crash \/ \E c \in Cancellers : CancelRaises(c)

-----------------------------------------------------------------------------
Next == Pipeline \/ (\E c \in Cancellers : Cancel(c)) \/ Fault

Spec == Init /\ [][Next]_vars

\* The operating system runs the thread, a cancel request that found the run in
\* flight is served to its end, and - an assumption about generated programs,
\* since the pool does not stop one that hangs (see WarmPool) - a program that
\* was launched ends.
FairSpec ==
    /\ Spec
    /\ WF_vars(Pipeline)
    /\ \A c \in Cancellers : WF_vars(CancelContinues(c))

-----------------------------------------------------------------------------
(* Properties.                                                             *)

AllArtifacts == (Nat \ {0}) \X Nat

\* Every variable has its type: the labels of the thread, the statuses the
\* code writes, artifacts numbered by execution.
TypeOK ==
    /\ pc \in Labels /\ handling \in BOOLEAN
    /\ outer \in 0..MaxCodegenRetry /\ retries \in 0..MaxErrorRetry
    /\ draft \in Nat /\ outcome \in {"ok", "error"}
    /\ buffer \in SUBSET AllArtifacts
    /\ status \in {"queued", "running"} \union Terminal
    /\ rowCode \in Nat
    /\ execution \in {"none", "running"} \union Terminal
    /\ artifacts \in SUBSET AllArtifacts /\ reply \in Nat
    /\ shown \in SUBSET AllArtifacts /\ shownCode \in Nat
    /\ verdicts \in Seq(Terminal)
    /\ cancelPc \in [Cancellers -> {"idle", "closing", "marking", "announcing"}]
    /\ launches \in Nat /\ ran \in Nat /\ asked \in BOOLEAN
    /\ request \in {"none", "standing", "overwritten"}
    /\ wasted \in Nat /\ faults \in Nat

\* A run whose row says completed is of one piece: its artifacts are those of
\* the last execution alone, its program is the one that execution ran and the
\* one subscribers show, and the assistant's message is in the thread.  Each
\* part is written by another call of the thread, before other calls that may
\* fail and attempts that start over.
CompletedIsOnePiece ==
    status = "completed" =>
        /\ \A a \in artifacts : a[1] = launches
        /\ rowCode = ran /\ shownCode = ran
        /\ reply # 0

\* No execution starts over what an earlier attempt left: the rows of a failed
\* attempt are deleted, and its reset announced, before the next upsert.
LaunchesClean == [][launches' # launches => artifacts = {} /\ shown = {}]_vars

\* The thread returns only when the row is terminal, whatever failed on the
\* way and whoever cancelled: a run still queued or running either has a live
\* thread or lost it to a crash or to a failing error handler.
ReturnsTerminal == pc = "done" => status \in Terminal

\* Once a cancel is in the row, at most one more execution starts, namely when
\* it falls between the thread's last look at the row and the launch, and
\* whatever else the thread writes to the row later.  The exception is `running`,
\* written over a cancel that came after the look at the queued row: then every
\* execution of the run follows it, its corrections and regenerations too.  No
\* cancel is overwritten so once an execution has started.
CancelCostsOneExecution ==
    /\ request = "standing" => wasted <= 1
    /\ request = "overwritten" => wasted = launches

\* In a run no one asked to cancel, the three records of the outcome agree when
\* the thread returns: one verdict was published, the one the row holds, and the
\* execution row, if there is one, says the same.
RecordsAgree ==
    pc = "done" /\ ~asked =>
        verdicts = <<status>> /\ execution \in {"none", status}

\* Corrections and regenerations together run at most this many programs.
RetryBudget == launches <= (MaxErrorRetry + 1) * (MaxCodegenRetry + 1)

\* Every run comes to rest in a terminal row, whatever is cancelled or fails on
\* the way, unless its thread is lost to a crash or to a failing error handler.
SettlesForGood == <>[](status \in Terminal \/ pc = "dead")

\* A terminal row is followed by the terminal event that ends the subscribers'
\* wait, as long as no call of the run fails.
VerdictFollows == status \in Terminal ~> verdicts # <<>> \/ faults > 0

\* Where the run stands, in the terms of RunContract.
stage ==
    CASE pc \in {"done", "dead"} -> "closed"
      [] pc \in {"inspect", "closeFailed", "fail", "announceFailed"} -> "failing"
      [] pc \in {"replay", "closeCompleted", "complete", "announceCompleted"} ->
             "presenting"
      [] OTHER -> "drafting"

Contract == INSTANCE RunContract
    WITH Artifacts <- AllArtifacts, stored <- artifacts

\* The thread, with its faults and its cancel requests, keeps the promise of
\* RunContract to the subscribers of the live events.
KeepsContract == Contract!Spec

\* The docstring of cancel_run: the run is marked terminal.
CancelIsTerminal == [][status = "cancelled" => status' = "cancelled"]_vars

=============================================================================
