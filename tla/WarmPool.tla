----------------------------- MODULE WarmPool -----------------------------
(***************************************************************************)
(* WarmProcessPool of services/codebox_pool.py: worker processes kept warm *)
(* for generated programs, the threads that run a program on one of them   *)
(* or in a cold subprocess, and the threads that replace retired workers.  *)
(*                                                                         *)
(* A step is one critical section of the pool's lock, or one exchange with *)
(* a process over its pipes.  A run is one call of WarmProcessPool.run; a  *)
(* worker is one process, spawned once.  An output line is represented by  *)
(* the run whose program wrote it.                                         *)
(*                                                                         *)
(* On Linux a worker forks a child per job, which inherits its pipes and   *)
(* outlives it: a signal reaches the worker alone, and its output ends     *)
(* with the child.  A program may leave a line open, which keeps whoever   *)
(* reads it, the worker that forked it or the run of a cold subprocess,    *)
(* waiting for the rest of the line.                                       *)
(***************************************************************************)
EXTENDS Naturals, Sequences, FiniteSets

CONSTANTS
    Runs,      \* calls of WarmProcessPool.run
    Workers,   \* worker processes that can be spawned (bound)
    PoolSize,  \* _pool_size
    MaxUses,   \* _max_uses
    MaxLines,  \* lines a program prints (bound)
    Platforms, \* where the service may run: "Linux", or "Darwin" without fork
    HangsOn    \* the platforms on which a program may never end

ASSUME WarmPoolAssumption ==
    /\ PoolSize \in Nat \ {0} /\ MaxUses \in Nat \ {0} /\ MaxLines \in Nat
    /\ Platforms \subseteq {"Linux", "Darwin"} /\ HangsOn \subseteq Platforms
    /\ Runs \intersect {"none", "cold", "JOB_DONE", "EOF"} = {}

VARIABLES
    platform,  \* platform.system(): CAN_FORK is TRUE on Linux
    workers,   \* _workers
    busy,      \* WarmWorker.busy
    uses,      \* WarmWorker.uses
    proc,      \* its process; poll() is None until it is "dead"
    inbox,     \* jobs in its stdin
    job,       \* the job it executes, on Linux in a child that may outlive it
    out,       \* its output_queue
    checking,  \* _spawn_all threads about to compare the number of workers
    starting,  \* processes a _spawn_all thread waits for, or is about to append
    stuck,     \* processes a _spawn_all thread reads the stderr of
    pc,        \* the next step of each run
    mine,      \* the worker it acquired
    result,    \* how its use of the worker ended: on JOB_DONE, at the end of the
               \* worker's output, by a time-out or by another error
    saw,       \* saw_output
    got,       \* whose output it was handed; "cold" is its own cold subprocess
    mixed      \* a worker went back to the pool while it was in use (history)

poolVars == <<workers, busy, uses, checking, starting, stuck>>
procVars == <<proc, inbox, job, out>>
runVars == <<pc, mine, result, saw, got>>
stepVars == <<poolVars, procVars, runVars, mixed>>
vars == <<platform, stepVars>>

None == "none"
Done == "JOB_DONE"
Eof == "EOF"
NoJob == [run |-> None, lines |-> 0, way |-> "ends"]

Init ==
    /\ platform \in Platforms
    /\ workers = {} /\ starting = {} /\ stuck = {}
    /\ checking = 1                     \* warm_up started one _spawn_all
    /\ busy = [w \in Workers |-> FALSE]
    /\ uses = [w \in Workers |-> 0]
    /\ proc = [w \in Workers |-> "unborn"]
    /\ inbox = [w \in Workers |-> <<>>]
    /\ job = [w \in Workers |-> NoJob]
    /\ out = [w \in Workers |-> <<>>]
    /\ pc = [r \in Runs |-> "new"]
    /\ mine = [r \in Runs |-> None]
    /\ result = [r \in Runs |-> None]
    /\ saw = [r \in Runs |-> FALSE]
    /\ got = [r \in Runs |-> {}]
    /\ mixed = FALSE

-----------------------------------------------------------------------------
(* Worker processes.                                                       *)

\* How a program goes on after its lines: it ends, or runs on for ever, without a
\* word or after a line that it has left open.
Ways == {"ends", "hangs", "open"}

\* The child that executes a job lives on when its worker is gone, with both pipes.
Lingers(w) == platform = "Linux" /\ job[w] # NoJob

\* SIGTERM, or a crash: the pipes close unless a child has them, and the reader
\* thread queues the end of the output.  o is the output after what this step reads.
Terminate(w, o) ==
    /\ proc' = [proc EXCEPT ![w] = IF @ = "up" THEN "dying" ELSE @]
    /\ out' = [o EXCEPT ![w] = IF proc[w] = "up" /\ ~Lingers(w)
                               THEN Append(@, Eof) ELSE @]

TakeJob(w) ==
    /\ proc[w] = "up" /\ job[w] = NoJob /\ inbox[w] # <<>>
    /\ \E lines \in 0..MaxLines, way \in Ways :
           /\ way # "ends" => platform \in HangsOn
           /\ job' = [job EXCEPT ![w] =
                        [run |-> Head(inbox[w]), lines |-> lines, way |-> way]]
    /\ inbox' = [inbox EXCEPT ![w] = Tail(@)]
    /\ UNCHANGED <<proc, out, poolVars, runVars, mixed>>

PrintLine(w) ==
    /\ proc[w] = "up" /\ job[w] # NoJob
    /\ job[w].lines > 0
    /\ job' = [job EXCEPT ![w].lines = @ - 1]
    /\ out' = [out EXCEPT ![w] = Append(@, job[w].run)]
    /\ UNCHANGED <<proc, inbox, poolVars, runVars, mixed>>

\* If the program has left a line open, JOB_DONE is read as part of it.
FinishJob(w) ==
    /\ proc[w] = "up" /\ job[w] # NoJob
    /\ job[w].lines = 0 /\ job[w].way = "ends"
    /\ job' = [job EXCEPT ![w] = NoJob]
    /\ \E last \in {Done, job[w].run} : out' = [out EXCEPT ![w] = Append(@, last)]
    /\ UNCHANGED <<proc, inbox, poolVars, runVars, mixed>>

Die(w) ==
    /\ proc[w] = "up"
    /\ Terminate(w, out)
    /\ UNCHANGED <<inbox, job, poolVars, runVars, mixed>>

\* From now on poll() returns an exit code.
Exit(w) ==
    /\ proc[w] = "dying"
    /\ proc' = [proc EXCEPT ![w] = "dead"]
    /\ UNCHANGED <<inbox, job, out, poolVars, runVars, mixed>>

\* A child without its worker ends with its program, or by the next line it prints,
\* into a pipe that nobody reads; then the worker's output ends.
ChildEnds(w) ==
    /\ proc[w] # "up" /\ Lingers(w)
    /\ job[w].lines > 0 \/ job[w].way = "ends"
    /\ job' = [job EXCEPT ![w] = NoJob]
    /\ out' = [out EXCEPT ![w] = Append(@, Eof)]
    /\ UNCHANGED <<proc, inbox, poolVars, runVars, mixed>>

Work(w) == TakeJob(w) \/ PrintLine(w) \/ FinishJob(w) \/ Exit(w) \/ ChildEnds(w)

-----------------------------------------------------------------------------
(* _spawn_all: the size is compared under the lock, the process is spawned  *)
(* outside it, and appended under it.                                       *)

SpawnCheck ==
    /\ checking > 0
    /\ \/ /\ Cardinality(workers) >= PoolSize      \* the thread ends
          /\ UNCHANGED <<proc, starting>>
       \/ /\ Cardinality(workers) < PoolSize
          /\ \E w \in Workers :
                /\ proc[w] = "unborn"
                /\ proc' = [proc EXCEPT ![w] = "up"]
                /\ starting' = starting \union {w}
    /\ checking' = checking - 1
    /\ UNCHANGED <<workers, busy, uses, stuck, inbox, job, out, runVars, mixed>>

SpawnReady(w) ==
    /\ w \in starting
    /\ workers' = workers \union {w}
    /\ starting' = starting \ {w}
    /\ checking' = checking + 1
    /\ UNCHANGED <<busy, uses, stuck, procVars, runVars, mixed>>

\* Not ready in time: the thread reads the process's stderr before it would
\* terminate it, and stderr stays open for as long as the process lives.
SpawnLate(w) ==
    /\ w \in starting /\ proc[w] = "up"
    /\ starting' = starting \ {w}
    /\ stuck' = stuck \union {w}
    /\ UNCHANGED <<workers, busy, uses, checking, procVars, runVars, mixed>>

\* The process went away: the thread dies with an error.
SpawnFails(w) ==
    /\ w \in starting \union stuck /\ proc[w] # "up"
    /\ starting' = starting \ {w}
    /\ stuck' = stuck \ {w}
    /\ UNCHANGED <<workers, busy, uses, checking, procVars, runVars, mixed>>

Spawn ==
    SpawnCheck \/ \E w \in Workers : SpawnReady(w) \/ SpawnLate(w) \/ SpawnFails(w)

\* Every worker of the list is terminated; the service stops afterwards, but
\* its run and spawn threads do not know.
Shutdown ==
    /\ workers # {}
    /\ workers' = {}
    /\ proc' = [w \in Workers |-> IF w \in workers /\ proc[w] = "up"
                                  THEN "dying" ELSE proc[w]]
    /\ out' = [w \in Workers |-> IF w \in workers /\ proc[w] = "up" /\ ~Lingers(w)
                                 THEN Append(out[w], Eof) ELSE out[w]]
    /\ UNCHANGED <<busy, uses, checking, starting, stuck, inbox, job, runVars, mixed>>

-----------------------------------------------------------------------------
(* Runs.                                                                   *)

\* Whether run r relies on worker w: from the acquisition to the release, which
\* on JOB_DONE comes before the finally block.
InUse(r, w) ==
    /\ mine[r] = w
    /\ pc[r] \in {"write", "read"} \/ (pc[r] = "finally" /\ result[r] # "done")

\* What is left of a job in the worker and in its pipes.
Unfinished(w) == job[w] # NoJob \/ inbox[w] # <<>> \/ out[w] # <<>>

\* Variant: a worker in use is taken too.
IdleOrBusy(w) == w \in workers /\ proc[w] # "dead"

\* _acquire_worker: a worker that is not in use and not known to be dead.
Idle(w) == w \in workers /\ ~busy[w] /\ proc[w] # "dead"

Acquire(r) ==
    /\ pc[r] = "new"
    /\ \/ \E w \in Workers :
             /\ Idle(w)
             /\ busy' = [busy EXCEPT ![w] = TRUE]
             /\ uses' = [uses EXCEPT ![w] = @ + 1]
             /\ mine' = [mine EXCEPT ![r] = w]
             /\ pc' = [pc EXCEPT ![r] = "write"]
       \/ /\ \A w \in Workers : ~Idle(w)
          /\ pc' = [pc EXCEPT ![r] = "cold"]
          /\ UNCHANGED <<busy, uses, mine>>
    /\ UNCHANGED <<workers, checking, starting, stuck, procVars, result, saw, got, mixed>>

\* Variant: only a dead worker is replaced.
WornOutDead(w) == proc[w] = "dead"

WornOut(w) == uses[w] >= MaxUses \/ proc[w] = "dead"

\* Variant: the worker stays in the list.
RetireListed(w, o) ==
    /\ Terminate(w, o)
    /\ checking' = checking + 1
    /\ UNCHANGED <<workers, busy>>

\* Variant: its process is not terminated.
RetireAlive(w, o) ==
    /\ out' = o
    /\ workers' = workers \ {w}
    /\ checking' = checking + 1
    /\ UNCHANGED <<proc, busy>>

\* A retired worker leaves the list, still marked busy, and another _spawn_all
\* starts.
Retire(w, o) ==
    /\ Terminate(w, o)
    /\ workers' = workers \ {w}
    /\ checking' = checking + 1
    /\ UNCHANGED busy

\* _release_worker, under the lock.
Release(w, o) ==
    \/ busy[w] /\ WornOut(w) /\ Retire(w, o)
    \/ /\ ~busy[w] \/ ~WornOut(w)
       /\ busy' = [busy EXCEPT ![w] = FALSE]
       /\ out' = o
       /\ UNCHANGED <<workers, checking, proc>>

\* The job goes to the worker's stdin; a pipe that no process holds raises.
Write(r) ==
    /\ pc[r] = "write"
    /\ \/ /\ proc[mine[r]] = "up" \/ Lingers(mine[r])
          /\ inbox' = [inbox EXCEPT ![mine[r]] = Append(@, r)]
          /\ pc' = [pc EXCEPT ![r] = "read"]
          /\ UNCHANGED result
       \/ /\ proc[mine[r]] # "up" /\ ~Lingers(mine[r])
          /\ pc' = [pc EXCEPT ![r] = "finally"]
          /\ result' = [result EXCEPT ![r] = "raised"]
          /\ UNCHANGED inbox
    /\ UNCHANGED <<poolVars, proc, job, out, mine, saw, got, mixed>>

\* The next entry of the worker's output queue, whoever wrote it.
Upcoming(r) == IF out[mine[r]] = <<>> THEN None ELSE Head(out[mine[r]])
Taken(r) == [out EXCEPT ![mine[r]] = Tail(@)]

Leave(r, how) ==
    /\ pc' = [pc EXCEPT ![r] = "finally"]
    /\ result' = [result EXCEPT ![r] = how]

\* A line is handed to on_event, which may raise.
ReadLine(r) ==
    /\ pc[r] = "read" /\ Upcoming(r) \in Runs
    /\ out' = Taken(r)
    /\ saw' = [saw EXCEPT ![r] = TRUE]
    /\ got' = [got EXCEPT ![r] = @ \union {Upcoming(r)}]
    /\ Leave(r, "raised") \/ UNCHANGED <<pc, result>>
    /\ UNCHANGED <<poolVars, proc, inbox, job, mine, mixed>>

\* JOB_DONE releases the worker at once.
ReadDone(r) ==
    /\ pc[r] = "read" /\ Upcoming(r) = Done
    /\ Release(mine[r], Taken(r))
    /\ Leave(r, "done")
    /\ UNCHANGED <<uses, starting, stuck, inbox, job, mine, saw, got, mixed>>

\* Variant: the end of the output is taken and forgotten.
ReadEndLost(r) ==
    /\ pc[r] = "read"
    /\ Upcoming(r) = Eof /\ out' = Taken(r)
    /\ UNCHANGED <<pc, result, poolVars, proc, inbox, job, mine, saw, got, mixed>>

\* The output ended; or no line came for half a second and then the process has
\* exited, which does not look again at what it wrote in between.
ReadEnd(r) ==
    /\ pc[r] = "read"
    /\ \/ Upcoming(r) = Eof /\ out' = Taken(r)
       \/ proc[mine[r]] = "dead" /\ UNCHANGED out
    /\ Leave(r, "eof")
    /\ UNCHANGED <<poolVars, proc, inbox, job, mine, saw, got, mixed>>

\* A worker on Linux prints heartbeats while its child lives, which restart the
\* clock of the run, except while it waits for the rest of a line.
Silent(w) ==
    \/ platform # "Linux"
    \/ job[w] = NoJob /\ inbox[w] = <<>>
    \/ job[w] # NoJob /\ job[w].lines = 0 /\ job[w].way # "hangs"

\* No line for run_timeout_seconds.  The process is waited for, and killed without
\* waiting if it does not stop.
TimeOut(r) ==
    LET w == mine[r] IN
    /\ pc[r] = "read" /\ Upcoming(r) = None /\ proc[w] = "up"
    /\ Silent(w)
    /\ \E state \in {"dying", "dead"} : proc' = [proc EXCEPT ![w] = state]
    /\ out' = [out EXCEPT ![w] = IF Lingers(w) THEN @ ELSE Append(@, Eof)]
    /\ Leave(r, "timeout")
    /\ UNCHANGED <<poolVars, inbox, job, mine, saw, got, mixed>>

\* Variant: output that was seen does not matter.
FinalTimeOut(r) == result[r] = "timeout"

\* A failure is final once output was seen or time was up; any other falls
\* back to a cold subprocess.
Final(r) == result[r] = "timeout" \/ saw[r]

\* Whether the finally block of r takes w from another run that uses it, or
\* returns it to the pool before it is done with r's job.
Mixes(r, w) ==
    /\ busy[w]
    /\ \/ \E q \in Runs \ {r} : InUse(q, w)
       \/ ~WornOut(w) /\ Unfinished(w)

\* The finally block of run: the worker is released, after JOB_DONE for the
\* second time.
Finally(r) ==
    LET w == mine[r] IN
    /\ pc[r] = "finally"
    /\ Release(w, out)
    /\ mixed' = (mixed \/ Mixes(r, w))
    /\ pc' = [pc EXCEPT ![r] =
                 IF result[r] = "done" \/ Final(r) THEN "ended" ELSE "cold"]
    /\ UNCHANGED <<uses, starting, stuck, inbox, job, mine, result, saw, got>>

\* _run_cold: a process of its own, which executes the program itself.  A line is
\* handed to on_event; if that raises, the process is left running.
ColdLine(r) ==
    /\ pc[r] = "cold"
    /\ got' = [got EXCEPT ![r] = @ \union {"cold"}]
    /\ UNCHANGED pc \/ pc' = [pc EXCEPT ![r] = "ended"]
    /\ UNCHANGED <<poolVars, procVars, mine, result, saw, mixed>>

\* It exits, or is stopped when it has printed nothing for run_timeout_seconds.
EndCold(r) ==
    /\ pc[r] = "cold"
    /\ pc' = [pc EXCEPT ![r] = "ended"]
    /\ UNCHANGED <<poolVars, procVars, mine, result, saw, got, mixed>>

\* It leaves a line open and never ends: readline waits, and no clock is read.
BlockCold(r) ==
    /\ pc[r] = "cold" /\ platform \in HangsOn
    /\ pc' = [pc EXCEPT ![r] = "blocked"]
    /\ UNCHANGED <<poolVars, procVars, mine, result, saw, got, mixed>>

Cold(r) == ColdLine(r) \/ EndCold(r) \/ BlockCold(r)

Run(r) == \/ Acquire(r) \/ Write(r) \/ ReadLine(r) \/ ReadDone(r) \/ ReadEnd(r)
          \/ TimeOut(r) \/ Finally(r) \/ Cold(r)

Next ==
    /\ \/ \E r \in Runs : Run(r)
       \/ \E w \in Workers : Work(w) \/ Die(w)
       \/ Spawn
       \/ Shutdown
    /\ UNCHANGED platform

Spec == Init /\ [][Next]_vars

\* Threads and processes run on; a program may print for ever only up to
\* MaxLines.  Nothing crashes or shuts down by necessity.
Fairness ==
    /\ \A r \in Runs : WF_stepVars(Run(r))
    /\ \A w \in Workers : WF_stepVars(Work(w))
    /\ WF_stepVars(Spawn)

FairSpec == Spec /\ Fairness

-----------------------------------------------------------------------------
(* Properties.                                                             *)

Jobs == [run : Runs, lines : 0..MaxLines, way : Ways]

\* The types of the variables; no worker serves more than _max_uses runs.
TypeOK ==
    /\ platform \in Platforms
    /\ workers \in SUBSET Workers /\ starting \in SUBSET Workers
    /\ stuck \in SUBSET Workers
    /\ checking \in Nat /\ mixed \in BOOLEAN
    /\ busy \in [Workers -> BOOLEAN]
    /\ uses \in [Workers -> 0..MaxUses]
    /\ proc \in [Workers -> {"unborn", "up", "dying", "dead"}]
    /\ inbox \in [Workers -> Seq(Runs)]
    /\ job \in [Workers -> Jobs \union {NoJob}]
    /\ out \in [Workers -> Seq(Runs \union {Done, Eof})]
    /\ pc \in [Runs -> {"new", "write", "read", "finally", "cold", "blocked", "ended"}]
    /\ mine \in [Runs -> Workers \union {None}]
    /\ result \in [Runs -> {None, "done", "eof", "raised", "timeout"}]
    /\ saw \in [Runs -> BOOLEAN]
    /\ got \in [Runs -> SUBSET (Runs \union {"cold"})]

\* Two runs never rely on one worker and a run is handed its own output only,
\* as long as no finally block took a worker from another run or returned one
\* that was still executing: the two releases of run and _run_on_worker have no
\* other way to go wrong, whatever crashes, retires, is stopped or replaced.
Exclusive ==
    ~mixed =>
        /\ \A r \in Runs : got[r] \subseteq {r, "cold"}
        /\ \A w \in Workers, q, r \in Runs : InUse(q, w) /\ InUse(r, w) => q = r

\* The output of a program is never followed by that of its second execution
\* in a cold subprocess, although a failed worker run falls back to one.
SingleSource == \A r \in Runs : ~({r, "cold"} \subseteq got[r])

\* A worker of the list is never left marked busy by a run that is over: every
\* way out of run gives it back or retires it.
NoLeak ==
    \A w \in workers : busy[w] =>
        \E r \in Runs : mine[r] = w /\ pc[r] \in {"write", "read", "finally"}

\* The program of run r is executed, on a worker or by the child that a worker left.
Executing(r) == \E w \in Workers : job[w].run = r /\ (proc[w] = "up" \/ Lingers(w))

\* A worker that is left running is in the list, where shutdown finds it, or about
\* to get there, or keeps the thread that started it waiting.  A program that is
\* left running, by a worker or by the child of one that is gone, is that of a run
\* that did not see JOB_DONE: one that timed out, failed, lost its worker or was
\* mixed up with another.
NoOrphan ==
    /\ \A w \in Workers : proc[w] = "up" => w \in workers \union starting \union stuck
    /\ ~mixed => \A r \in Runs : result[r] = "done" => ~Executing(r)

\* Every run returns or raises, whichever process dies and whoever else reads
\* its worker's output, unless it waits for the rest of a line of a cold
\* subprocess.  cancel of runner.py (line 100) promises more: "the pool's timeout
\* mechanism will kill any overrunning subprocess".
RunsEnd == \A r \in Runs : <>(pc[r] \in {"ended", "blocked"})

\* The comment of _run_on_worker (lines 326-328): after JOB_DONE "the finally
\* block in run() will call _release_worker again but that is a no-op".
SecondReleaseIsNoOp ==
    [][\A r \in Runs :
         pc[r] = "finally" /\ result[r] = "done" /\ pc'[r] # "finally"
           => UNCHANGED <<workers, busy, checking, proc>>]_vars
=============================================================================
