--------------------------- MODULE ProgramOutput ---------------------------
(***************************************************************************)
(* What a generated program writes and what its run makes of it: the       *)
(* helpers of supe_lib that write events, the worker that forwards them,   *)
(* the loop that reads a worker line by line (codebox_pool.py) and the     *)
(* callback that sorts what it reads (runner.py).                          *)
(*                                                                         *)
(* Events, errors and the mark JOB_DONE share one text stream with what    *)
(* the program prints, and are told apart by how a line begins.  A text is *)
(* a sequence of pieces; NL is the newline.  A program that prints without *)
(* a newline leaves a line open, and what is written next continues it.    *)
(***************************************************************************)
EXTENDS Naturals, SequencesExt

CONSTANTS
    Modes,          \* how programs are executed, see below
    MaxWrites       \* calls of a program that print, emit or log (bound)

\* fork: by a child of the worker, on Linux.  inline: by the worker, elsewhere.
\* cold: by a subprocess of its own.
ASSUME ProgramOutputAssumption ==
    /\ Modes \subseteq {"fork", "inline", "cold"}
    /\ MaxWrites \in Nat

VARIABLES
    mode,       \* how this program is executed; "none" before it is launched
    prog,       \* the program, see Progress
    raised,     \* it ends with an exception
    writes,     \* calls of the program so far
    deferred,   \* ExecutionContext.log_lines, how many
    held,       \* written by the program and not flushed
    pipe,       \* written by the child and not forwarded by the worker
    worker,     \* "executing", "idle" after JOB_DONE, "gone"
    output,     \* written by the worker, or cold subprocess, and not read
    errors,     \* runtime_errors of the run, how many
    buffered,   \* events the run has collected
    stdoutLogs, \* lines the run has collected as output
    verdict,    \* "none", "ok" or "failed"
    emitted,    \* events the program has written, in the order of their
                \* numbers (history)
    lost        \* those and other marks that continue an open line (history)

outputVars == <<mode, prog, raised, writes, deferred, held, pipe, worker,
                output, errors, buffered, stdoutLogs, verdict, emitted, lost>>
programVars == <<mode, raised, writes, deferred, emitted>>
runVars == <<errors, buffered, stdoutLogs, verdict>>

Progress == {"running", "flushing", "exiting", "exited", "killed"}

Text == <<"text", 0>>
NL == <<"newline", 0>>
ErrorMark == <<"error", 0>>
Done == <<"done", 0>>
Event(n) == <<"event", n>>
LogEvent == Event(MaxWrites + 1)

OutputInit ==
    /\ mode = "none" /\ prog = "exited" /\ raised = FALSE /\ writes = 0
    /\ deferred = 0 /\ held = <<>> /\ pipe = <<>> /\ worker = "idle"
    /\ output = <<>> /\ errors = 0 /\ buffered = <<>> /\ stdoutLogs = 0
    /\ verdict = "none" /\ emitted = {} /\ lost = {}

\* The worker takes the job, or the cold subprocess starts.
TakeProgram ==
    /\ mode = "none"
    /\ mode' \in Modes
    /\ prog' = "running" /\ worker' = "executing"
    /\ UNCHANGED <<raised, writes, deferred, held, pipe, output, runVars,
                   emitted, lost>>

-----------------------------------------------------------------------------
(* The program.                                                            *)

\* A line is open if the last piece written is not a newline.
Open(text) == text # <<>> /\ Last(text) # NL

\* What the program has written and its run has not read yet.
Unread == output \o pipe \o held

\* The line that is open has begun with what the run has not read yet, since
\* the run reads whole lines.
Lost(piece) == IF Open(Unread) THEN lost \union {piece} ELSE lost

\* The child of a worker writes to a pipe of its own, line by line; others write
\* to what the run reads, when they flush or their buffer is full.
WriteText(text, flush) ==
    IF flush \/ (mode = "fork" /\ NL \in Range(text))
    THEN /\ held' = <<>>
         /\ IF mode = "fork"
            THEN pipe' = pipe \o held \o text /\ UNCHANGED output
            ELSE output' = output \o held \o text /\ UNCHANGED pipe
    ELSE held' = held \o text /\ UNCHANGED <<pipe, output>>

Calls ==
    /\ prog = "running" /\ worker # "gone"
    /\ writes < MaxWrites
    /\ writes' = writes + 1
    /\ UNCHANGED <<mode, prog, raised, worker, runVars>>

\* print(...): a line, or with end="" a part of one.  A line that consists of
\* several is written in two parts as well, between which another thread of
\* the program may write.
PrintText ==
    /\ Calls
    /\ \E flush \in BOOLEAN, text \in {<<Text, NL>>, <<Text>>} :
           WriteText(text, flush)
    /\ UNCHANGED <<deferred, emitted, lost>>

\* print("Info: ..."), Result, Debug, Warning, Error: kept for the end.
PrintLog ==
    /\ Calls
    /\ deferred' = deferred + 1
    /\ UNCHANGED <<held, pipe, output, emitted, lost>>

WriteEvent(event) ==
    /\ WriteText(<<event, NL>>, TRUE)
    /\ emitted' = emitted \union {event}
    /\ lost' = Lost(event)

\* emit_*, display, progress, print("Progress: ..."), fig.show(): _emit writes
\* the event and the newline at once.
EmitEvent ==
    /\ Calls
    /\ WriteEvent(Event(writes + 1))
    /\ UNCHANGED deferred

\* The program returns or raises; execute_user_code flushes the log lines in
\* either case.
EndProgram ==
    /\ prog = "running" /\ worker # "gone"
    /\ raised' \in BOOLEAN
    /\ prog' = "flushing"
    /\ UNCHANGED <<mode, writes, deferred, held, pipe, worker, output, runVars,
                   emitted, lost>>

FlushLogs ==
    /\ prog = "flushing" /\ worker # "gone"
    /\ prog' = "exiting"
    /\ IF deferred = 0
       THEN UNCHANGED <<held, pipe, output, emitted, lost>>
       ELSE WriteEvent(LogEvent)
    /\ UNCHANGED <<mode, raised, writes, deferred, worker, runVars>>

\* An exception is written after the ERROR_PREFIX, then the program exits.
ReportError ==
    /\ prog = "exiting" /\ worker # "gone"
    /\ prog' = "exited"
    /\ IF raised
       THEN WriteText(<<ErrorMark, NL>>, TRUE) /\ lost' = Lost(ErrorMark)
       ELSE WriteText(<<>>, TRUE) /\ UNCHANGED lost
    /\ UNCHANGED <<mode, raised, writes, deferred, worker, runVars, emitted>>

\* The child is killed from outside, for its memory say; what it had not
\* flushed is gone.
Kill ==
    /\ mode = "fork" /\ prog \in {"running", "flushing", "exiting"}
    /\ worker # "gone"
    /\ prog' = "killed"
    /\ held' = <<>>
    /\ UNCHANGED <<programVars, pipe, worker, output, runVars, lost>>

ProgramStep ==
    PrintText \/ PrintLog \/ EmitEvent \/ EndProgram \/ FlushLogs \/ ReportError

-----------------------------------------------------------------------------
(* The worker.                                                             *)

Ended == prog \in {"exited", "killed"}

\* The length of the first line of a text, with its newline; at the end of the
\* stream, of what is left.
LineEnd(text) ==
    IF NL \in Range(text)
    THEN CHOOSE i \in DOMAIN text :
             text[i] = NL /\ \A j \in 1 .. (i - 1) : text[j] # NL
    ELSE Len(text)

\* The parent of the child copies lines: readline returns a whole line, or at
\* the end of the pipe what is left.
Forward ==
    /\ mode = "fork" /\ worker = "executing" /\ pipe # <<>>
    /\ NL \in Range(pipe) \/ Ended
    /\ output' = output \o SubSeq(pipe, 1, LineEnd(pipe))
    /\ pipe' = SubSeq(pipe, LineEnd(pipe) + 1, Len(pipe))
    /\ UNCHANGED <<programVars, prog, held, worker, runVars, lost>>

\* JOB_DONE as soon as the child has ended.
WriteDoneEarly ==
    /\ mode \in {"fork", "inline"} /\ worker = "executing" /\ Ended
    /\ worker' = "idle"
    /\ output' = output \o <<Done, NL>>
    /\ lost' = IF Open(output) THEN lost \union {Done} ELSE lost
    /\ UNCHANGED <<programVars, prog, held, pipe, runVars>>

\* At the end of the pipe, or of the program that it executed itself, the worker
\* writes JOB_DONE; the status that waitpid returns is not looked at.
WriteDone ==
    /\ mode \in {"fork", "inline"} /\ worker = "executing"
    /\ Ended /\ pipe = <<>>
    /\ worker' = "idle"
    /\ output' = output \o <<Done, NL>>
    /\ lost' = IF Open(output) THEN lost \union {Done} ELSE lost
    /\ UNCHANGED <<programVars, prog, held, pipe, runVars>>

\* The cold subprocess ends with the program.
ExitCold ==
    /\ mode = "cold" /\ worker = "executing" /\ prog = "exited"
    /\ worker' = "gone"
    /\ UNCHANGED <<programVars, prog, held, pipe, output, runVars, lost>>

\* The worker, or the cold subprocess, dies.
WorkerDies ==
    /\ mode # "none" /\ worker # "gone" /\ verdict = "none"
    /\ worker' = "gone"
    /\ prog' = IF Ended THEN prog ELSE "killed"
    /\ held' = <<>>
    /\ UNCHANGED <<programVars, pipe, output, runVars, lost>>

WorkerStep == Forward \/ WriteDone \/ ExitCold

-----------------------------------------------------------------------------
(* The run.                                                                *)

\* By the return code alone, which is 0 for every worker.
ConcludeByCode(code) == verdict' = IF code = 0 THEN "ok" ELSE "failed"

\* What execute_sync and the pipeline make of the return code and the errors.
Conclude(code) ==
    verdict' = IF errors = 0 /\ code = 0 THEN "ok" ELSE "failed"

\* A line is JOB_DONE, or begins with a prefix, or is output.
Sort(line) ==
    CASE line = <<Done>> ->
             Conclude(0) /\ UNCHANGED <<errors, buffered, stdoutLogs>>
      [] line # <<>> /\ line[1][1] = "event" ->
             /\ buffered' = Append(buffered, line[1])
             /\ UNCHANGED <<errors, stdoutLogs, verdict>>
      [] line # <<>> /\ line[1] = ErrorMark ->
             /\ errors' = errors + 1
             /\ UNCHANGED <<buffered, stdoutLogs, verdict>>
      [] OTHER ->
             /\ stdoutLogs' = stdoutLogs + 1
             /\ UNCHANGED <<errors, buffered, verdict>>

ReadLine ==
    /\ mode # "none" /\ verdict = "none" /\ output # <<>>
    /\ NL \in Range(output) \/ worker = "gone"
    /\ LET end == LineEnd(output)
           size == IF output[end] = NL THEN end - 1 ELSE end
       IN  /\ Sort(SubSeq(output, 1, size))
           /\ output' = SubSeq(output, end + 1, Len(output))
    /\ UNCHANGED <<programVars, prog, held, pipe, worker, lost>>

\* The output ends; or the run has waited half a second for more and then finds
\* that the process has exited: what it wrote in between, or readline has buffered
\* with the line it returned last, is never read.  A cold subprocess says by its
\* return code how the program ended; a worker should not have ended, and its run
\* raises (WarmPool has the cold subprocess that may follow).
ReadEnd ==
    /\ mode # "none" /\ verdict = "none" /\ worker = "gone"
    /\ Conclude(IF mode = "cold" /\ prog = "exited" /\ ~raised THEN 0 ELSE 1)
    /\ UNCHANGED <<programVars, prog, held, pipe, worker, output, errors,
                   buffered, stdoutLogs, lost>>

\* Nothing will come: a program of the worker itself or of a cold subprocess may
\* compute for long; while its child computes, a worker that forks sends
\* heartbeats, which restart the idle clock, unless it waits for the rest of a
\* line; and an idle worker has written all it will.
Silent ==
    \/ worker = "idle"
    \/ /\ prog = "running" /\ worker = "executing"
       /\ mode = "fork" => Open(pipe)

\* A clock that stops with the program.
TimeOutExecuting ==
    /\ mode # "none" /\ verdict = "none"
    /\ NL \notin Range(output) /\ Silent /\ worker = "executing"
    /\ worker' = "gone" /\ verdict' = "failed" /\ prog' = "killed"
    /\ UNCHANGED <<programVars, held, pipe, output, errors, buffered,
                   stdoutLogs, lost>>

\* No line came for run_timeout_seconds: the process is terminated.  The output of
\* a cold subprocess is read when select says there is more of it, so the lines
\* that readline has buffered with the one it returned may wait meanwhile; and
\* the rest of a line is waited for without a clock, hence the fairness below.
TimeOutIdle ==
    /\ mode # "none" /\ verdict = "none" /\ Silent
    /\ mode # "cold" => NL \notin Range(output)
    /\ worker' = "gone" /\ verdict' = "failed"
    /\ prog' = IF Ended THEN prog ELSE "killed"
    /\ UNCHANGED <<programVars, held, pipe, output, errors, buffered,
                   stdoutLogs, lost>>

RunStep == ReadLine \/ ReadEnd

-----------------------------------------------------------------------------
OutputNext ==
    \/ TakeProgram \/ ProgramStep \/ Kill \/ WorkerStep \/ WorkerDies
    \/ RunStep \/ TimeOutIdle

OutputSpec == OutputInit /\ [][OutputNext]_outputVars

\* Programs, workers and runs are processes and threads that the operating
\* system runs, programs are assumed to end, and the idle clock runs out for a
\* run that waits for a worker.
OutputFairness ==
    /\ WF_outputVars(ProgramStep)
    /\ WF_outputVars(WorkerStep)
    /\ WF_outputVars(RunStep)
    /\ WF_outputVars(TimeOutIdle /\ mode # "cold")

-----------------------------------------------------------------------------
(* Properties.                                                             *)

Pieces == {Text, NL, ErrorMark, Done} \union {Event(n) : n \in 1 .. MaxWrites + 1}
Events == {Event(n) : n \in 1 .. MaxWrites + 1}

\* Every variable has its type.
OutputTypeOK ==
    /\ mode \in Modes \union {"none"} /\ prog \in Progress /\ raised \in BOOLEAN
    /\ writes \in 0 .. MaxWrites /\ deferred \in 0 .. MaxWrites
    /\ held \in Seq(Pieces) /\ pipe \in Seq(Pieces) /\ output \in Seq(Pieces)
    /\ worker \in {"executing", "idle", "gone"}
    /\ errors \in Nat /\ buffered \in Seq(Events) /\ stdoutLogs \in Nat
    /\ verdict \in {"none", "ok", "failed"}
    /\ emitted \subseteq Events /\ lost \subseteq Pieces

\* A run that counts as successful ran a program that returned: the exceptions
\* are a child that was killed, whose status the worker drops, and an exception
\* whose line continues one the program left open.  A cold subprocess has no
\* exceptions, since its return code tells.
OutcomeTold ==
    verdict = "ok" =>
        \/ prog = "exited" /\ ~raised
        \/ mode = "fork" /\ prog = "killed"
        \/ mode # "cold" /\ ErrorMark \in lost

\* Such a run has the events of its program, the log it kept for the end included,
\* in the order they were written, except those that continue an open line.  A
\* worker's run has them all, since it ends by reading JOB_DONE; that of a cold
\* subprocess may lack the last ones, but none before an event it has.
EventsDelivered ==
    verdict = "ok" =>
        /\ Range(buffered) \subseteq emitted \ lost
        /\ \A i, j \in DOMAIN buffered : i < j => buffered[i][2] < buffered[j][2]
        /\ \A e \in (emitted \ lost) \ Range(buffered) :
               mode = "cold" /\ \A i \in DOMAIN buffered : buffered[i][2] < e[2]

\* Every run ends, also one whose JOB_DONE continues an open line.
RunsConclude == mode # "none" ~> verdict # "none"
=============================================================================
