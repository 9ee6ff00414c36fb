--------------------------- MODULE WarmPoolProofs ---------------------------
(***************************************************************************)
(* Theorems about WarmPool, for every set of runs, every number of worker  *)
(* processes, any size of the pool, use limit and length of output.        *)
(*                                                                         *)
(* None of the properties is inductive.  Placed says where a worker is: a  *)
(* process of the list is free and has uses left, or has a run that will   *)
(* still release it, and any other is new or not running; the types and    *)
(* NoLeak follow.  Handed says what a run has seen, and SingleSource       *)
(* follows.  Clean and Owned say, as long as nothing was mixed up, that a  *)
(* worker in use has one user, whose job alone it and its pipes hold, and  *)
(* that one that can be acquired holds nothing; Exclusive follows.  With   *)
(* Located and Settled, which say where the job of a run is and that it is *)
(* over once the run has read JOB_DONE, NoOrphan follows too.              *)
(***************************************************************************)
EXTENDS WarmPool, FiniteSetTheorems, SequenceTheorems, TLAPS

\* Runs with a worker that they have not released for the last time.
Holds(r, w) == mine[r] = w /\ pc[r] \in {"write", "read", "finally"}

\* A process that is not in the list yet was never used.
Newborn(w) == ~busy[w] /\ uses[w] = 0 /\ w \notin workers

\* Where a worker is: a worker of the list has uses left, or a run that will
\* release it; no other process is running unwatched.
Placed(w) ==
    /\ proc[w] = "unborn" => Newborn(w) /\ w \notin starting \union stuck
    /\ w \in starting \union stuck => Newborn(w)
    /\ w \notin starting \intersect stuck
    /\ w \in workers /\ ~busy[w] => uses[w] < MaxUses
    /\ w \in workers /\ busy[w] => \E r \in Runs : Holds(r, w)
    /\ proc[w] = "up" => w \in workers \union starting \union stuck

\* A run that has not left its worker has one.
Held == \A r \in Runs : pc[r] \in {"write", "read", "finally"} => mine[r] \in Workers

\* What a run has been handed, and whether it may still fall back to a cold process.
Handed(r) ==
    /\ r \in got[r] => saw[r]
    /\ pc[r] \in {"new", "cold"} => ~saw[r]
    /\ "cold" \in got[r] => pc[r] \in {"cold", "blocked", "ended"} /\ r \notin got[r]

AllPlaced == \A w \in Workers : Placed(w)
AllHanded == \A r \in Runs : Handed(r)

PoolInv == TypeOK /\ AllPlaced /\ Held /\ AllHanded

-----------------------------------------------------------------------------
(* Runs: Held and Handed.                                                  *)

\* What a run has seen is its own affair: a step is a step of one run, or
\* leaves the runs alone.
LEMMA StepOfRun ==
    ASSUME Next
    PROVE  UNCHANGED runVars \/ \E r \in Runs : Run(r)
  <1>1. ASSUME NEW w \in Workers, Work(w) \/ Die(w) PROVE UNCHANGED runVars
    BY <1>1 DEF Work, TakeJob, PrintLine, FinishJob, ChildEnds, Exit, Die
  <1>2. ASSUME Spawn PROVE UNCHANGED runVars
    BY <1>2 DEF Spawn, SpawnCheck, SpawnReady, SpawnLate, SpawnFails
  <1>3. ASSUME Shutdown PROVE UNCHANGED runVars
    BY <1>3 DEF Shutdown
  <1> QED
    BY <1>1, <1>2, <1>3 DEF Next

\* A run gets its worker when it acquires it, and keeps it.
LEMMA HeldInductive ==
    ASSUME TypeOK, Held, [Next]_vars
    PROVE  Held'
  <1>1. CASE UNCHANGED runVars
    BY <1>1 DEF Held, runVars
  <1>2. ASSUME NEW r \in Runs, Run(r) PROVE Held'
    <2>0. /\ pc \in [Runs -> {"new", "write", "read", "finally", "cold", "blocked", "ended"}]
          /\ mine \in [Runs -> Workers \union {None}]
      BY DEF TypeOK
    <2>1. CASE Acquire(r)
      BY <2>0, <2>1 DEF Acquire, Held
    <2>2. CASE Write(r)
      BY <2>0, <2>2 DEF Write, Held
    <2>3. CASE ReadLine(r) \/ ReadDone(r) \/ ReadEnd(r) \/ TimeOut(r)
      BY <2>0, <2>3 DEF ReadLine, ReadDone, ReadEnd, TimeOut, Leave, Held
    <2>4. CASE Finally(r)
      BY <2>0, <2>4 DEF Finally, Held
    <2>5. CASE Cold(r)
      BY <2>0, <2>5 DEF Cold, ColdLine, EndCold, BlockCold, Held
    <2> QED
      BY <1>2, <2>1, <2>2, <2>3, <2>4, <2>5 DEF Run
  <1> QED
    BY <1>1, <1>2, StepOfRun DEF vars, stepVars

\* Output is seen when it is handed over; the way to the cold process is closed then.
LEMMA HandedInductive ==
    ASSUME TypeOK, AllHanded, [Next]_vars
    PROVE  AllHanded'
  <1>1. CASE UNCHANGED runVars
    BY <1>1 DEF AllHanded, Handed, runVars
  <1>2. ASSUME NEW r \in Runs, Run(r) PROVE AllHanded'
    <2> SUFFICES ASSUME NEW q \in Runs PROVE Handed(q)'
      BY DEF AllHanded
    <2>0. /\ pc \in [Runs -> {"new", "write", "read", "finally", "cold", "blocked", "ended"}]
          /\ saw \in [Runs -> BOOLEAN]
          /\ got \in [Runs -> SUBSET (Runs \union {"cold"})]
          /\ "cold" \notin Runs /\ Handed(q)
      BY WarmPoolAssumption DEF TypeOK, AllHanded
    <2>1. CASE Acquire(r)
      BY <2>0, <2>1 DEF Acquire, Handed
    <2>2. CASE Write(r)
      BY <2>0, <2>2 DEF Write, Handed
    <2>3. CASE ReadLine(r)
      <3>1. /\ pc[r] = "read"
            /\ pc' = pc \/ pc' = [pc EXCEPT ![r] = "finally"]
            /\ saw' = [saw EXCEPT ![r] = TRUE]
            /\ \E u \in Runs : got' = [got EXCEPT ![r] = @ \union {u}]
        BY <2>3 DEF ReadLine, Leave
      <3> QED
        BY <2>0, <3>1 DEF Handed
    <2>4. CASE ReadDone(r) \/ ReadEnd(r) \/ TimeOut(r)
      BY <2>0, <2>4 DEF ReadDone, ReadEnd, TimeOut, Leave, Handed
    <2>5. CASE Finally(r)
      <3>1. /\ pc[r] = "finally" /\ UNCHANGED <<saw, got>>
            /\ \/ pc' = [pc EXCEPT ![r] = "ended"]
               \/ pc' = [pc EXCEPT ![r] = "cold"] /\ ~saw[r]
        BY <2>5 DEF Finally, Final
      <3> QED
        BY <2>0, <3>1 DEF Handed
    <2>6. CASE Cold(r)
      BY <2>0, <2>6 DEF Cold, ColdLine, EndCold, BlockCold, Handed
    <2> QED
      BY <1>2, <2>1, <2>2, <2>3, <2>4, <2>5, <2>6 DEF Run
  <1> QED
    BY <1>1, <1>2, StepOfRun DEF vars, stepVars

-----------------------------------------------------------------------------
(* Types.                                                                  *)

Entries == Runs \union {Done, Eof}

\* What Terminate does to the types: any worker, any output queues.
LEMMA TerminateType ==
    ASSUME NEW w \in Workers, NEW o \in [Workers -> Seq(Entries)], Terminate(w, o),
           proc \in [Workers -> {"unborn", "up", "dying", "dead"}]
    PROVE  /\ proc' \in [Workers -> {"unborn", "up", "dying", "dead"}]
           /\ out' \in [Workers -> Seq(Entries)]
  <1>1. Append(o[w], Eof) \in Seq(Entries)
    BY DEF Entries
  <1> QED
    BY <1>1 DEF Terminate

\* A release changes nothing but the list, the marks, the process and its output.
LEMMA ReleaseType ==
    ASSUME TypeOK, NEW w \in Workers, NEW o \in [Workers -> Seq(Entries)], Release(w, o)
    PROVE  /\ workers' \in SUBSET Workers /\ checking' \in Nat
           /\ busy' \in [Workers -> BOOLEAN]
           /\ proc' \in [Workers -> {"unborn", "up", "dying", "dead"}]
           /\ out' \in [Workers -> Seq(Entries)]
  <1>1. CASE Retire(w, o)
    <2>1. proc' \in [Workers -> {"unborn", "up", "dying", "dead"}] /\ out' \in [Workers -> Seq(Entries)]
      <3>1. Terminate(w, o) /\ proc \in [Workers -> {"unborn", "up", "dying", "dead"}]
        BY <1>1 DEF Retire, TypeOK
      <3> QED
        BY <3>1, TerminateType
    <2>2. /\ workers \in SUBSET Workers /\ checking \in Nat /\ busy \in [Workers -> BOOLEAN]
          /\ workers' = workers \ {w} /\ checking' = checking + 1 /\ busy' = busy
      BY <1>1 DEF Retire, TypeOK
    <2> QED
      BY <2>1, <2>2
  <1>2. CASE busy' = [busy EXCEPT ![w] = FALSE] /\ out' = o /\ UNCHANGED <<workers, checking, proc>>
    BY <1>2 DEF TypeOK
  <1> QED
    BY <1>1, <1>2 DEF Release

\* What a run takes from the output of its worker.
LEMMA TakenType ==
    ASSUME TypeOK, NEW r \in Runs, mine[r] \in Workers, Upcoming(r) # None
    PROVE  /\ Upcoming(r) \in Entries
           /\ Taken(r) \in [Workers -> Seq(Entries)]
  <1>1. out[mine[r]] \in Seq(Entries) /\ out[mine[r]] # <<>>
    BY DEF TypeOK, Entries, Upcoming
  <1>2. Head(out[mine[r]]) \in Entries /\ Tail(out[mine[r]]) \in Seq(Entries)
    BY <1>1
  <1> QED
    BY <1>1, <1>2 DEF Upcoming, Taken, TypeOK, Entries

\* Steps of a worker process keep the types.
LEMMA WorkTypes ==
    ASSUME TypeOK, NEW w \in Workers, Work(w) \/ Die(w), UNCHANGED platform
    PROVE  TypeOK'
  <1>0. /\ job[w] \in Jobs \union {NoJob} /\ out[w] \in Seq(Entries)
        /\ inbox[w] \in Seq(Runs)
    BY DEF TypeOK, Entries
  <1>1. CASE TakeJob(w)
    <2>1. PICK lines \in 0 .. MaxLines, way \in Ways :
              job' = [job EXCEPT ![w] = [run |-> Head(inbox[w]), lines |-> lines, way |-> way]]
      BY <1>1 DEF TakeJob
    <2>2. Head(inbox[w]) \in Runs /\ Tail(inbox[w]) \in Seq(Runs)
      BY <1>0, <1>1 DEF TakeJob
    <2>3. [run |-> Head(inbox[w]), lines |-> lines, way |-> way] \in Jobs
      BY <2>2 DEF Jobs
    <2> QED
      BY <1>1, <2>1, <2>2, <2>3 DEF TakeJob, TypeOK, poolVars, runVars
  <1>2. CASE PrintLine(w)
    <2>1. job[w] \in Jobs /\ job[w].run \in Runs /\ Append(out[w], job[w].run) \in Seq(Entries)
      BY <1>0, <1>2 DEF PrintLine, Jobs, Entries
    <2>2. [job[w] EXCEPT !.lines = @ - 1] \in Jobs
      BY <1>2, <2>1, WarmPoolAssumption DEF PrintLine, Jobs
    <2> QED
      BY <1>2, <2>1, <2>2 DEF PrintLine, TypeOK, poolVars, runVars, Entries
  <1>3. CASE FinishJob(w)
    <2>1. PICK last \in {Done, job[w].run} : out' = [out EXCEPT ![w] = Append(@, last)]
      BY <1>3 DEF FinishJob
    <2>2. last \in Entries /\ Append(out[w], last) \in Seq(Entries)
      BY <1>0, <1>3 DEF FinishJob, Jobs, Entries
    <2> QED
      BY <1>3, <2>1, <2>2 DEF FinishJob, TypeOK, poolVars, runVars, Entries
  <1>4. CASE Exit(w)
    BY <1>4 DEF Exit, TypeOK, poolVars, runVars
  <1>5. CASE Die(w)
    BY <1>5, TerminateType DEF Die, TypeOK, poolVars, runVars, Entries
  <1>6. CASE ChildEnds(w)
    <2>1. Append(out[w], Eof) \in Seq(Entries)
      BY <1>0 DEF Entries
    <2> QED
      BY <1>6, <2>1 DEF ChildEnds, TypeOK, poolVars, runVars, Entries
  <1> QED
    BY <1>1, <1>2, <1>3, <1>4, <1>5, <1>6 DEF Work

\* So do those of the threads that start processes,
LEMMA SpawnTypes ==
    ASSUME TypeOK, Spawn, UNCHANGED platform
    PROVE  TypeOK'
  <1>1. CASE SpawnCheck
    <2>1. checking' \in Nat
      BY <1>1 DEF SpawnCheck, TypeOK
    <2>2. starting' \in SUBSET Workers /\ proc' \in [Workers -> {"unborn", "up", "dying", "dead"}]
      BY <1>1 DEF SpawnCheck, TypeOK
    <2> QED
      BY <1>1, <2>1, <2>2 DEF SpawnCheck, TypeOK, runVars
  <1>2. ASSUME NEW w \in Workers, SpawnReady(w) PROVE TypeOK'
    BY <1>2 DEF SpawnReady, TypeOK, procVars, runVars
  <1>3. ASSUME NEW w \in Workers, SpawnLate(w) PROVE TypeOK'
    BY <1>3 DEF SpawnLate, TypeOK, procVars, runVars
  <1>4. ASSUME NEW w \in Workers, SpawnFails(w) PROVE TypeOK'
    BY <1>4 DEF SpawnFails, TypeOK, procVars, runVars
  <1> QED
    BY <1>1, <1>2, <1>3, <1>4 DEF Spawn

\* the shutdown,
LEMMA ShutdownTypes ==
    ASSUME TypeOK, Shutdown, UNCHANGED platform
    PROVE  TypeOK'
  <1>1. ASSUME NEW w \in Workers PROVE out[w] \in Seq(Entries) /\ Append(out[w], Eof) \in Seq(Entries)
    <2>1. out[w] \in Seq(Entries)
      BY DEF TypeOK, Entries
    <2> QED
      BY <2>1 DEF Entries
  <1>2. out' \in [Workers -> Seq(Entries)]
    BY <1>1 DEF Shutdown
  <1>3. proc' \in [Workers -> {"unborn", "up", "dying", "dead"}]
    BY DEF Shutdown, TypeOK
  <1> QED
    BY <1>2, <1>3 DEF Shutdown, TypeOK, runVars, Entries

\* and those of a run: a worker it acquires is free, so it has a use left.
LEMMA RunTypes ==
    ASSUME TypeOK, AllPlaced, Held, NEW r \in Runs, Run(r), UNCHANGED platform
    PROVE  TypeOK'
  <1>0. /\ pc[r] \in {"write", "read", "finally"} => mine[r] \in Workers
        /\ out \in [Workers -> Seq(Entries)]
    BY DEF Held, TypeOK, Entries
  <1>t. /\ pc \in [Runs -> {"new", "write", "read", "finally", "cold", "blocked", "ended"}]
        /\ mine \in [Runs -> Workers \union {None}]
        /\ result \in [Runs -> {None, "done", "eof", "raised", "timeout"}]
        /\ saw \in [Runs -> BOOLEAN]
        /\ got \in [Runs -> SUBSET (Runs \union {"cold"})]
        /\ busy \in [Workers -> BOOLEAN]
    BY DEF TypeOK
  <1>1. CASE Acquire(r)
    <2>1. ASSUME NEW w \in Workers, Idle(w), uses' = [uses EXCEPT ![w] = @ + 1]
          PROVE  uses' \in [Workers -> 0 .. MaxUses]
      <3>1. uses[w] \in 0 .. MaxUses /\ uses[w] < MaxUses
        BY <2>1 DEF Idle, AllPlaced, Placed, TypeOK
      <3>2. uses[w] + 1 \in 0 .. MaxUses
        BY <3>1, WarmPoolAssumption
      <3> QED
        BY <2>1, <3>2 DEF TypeOK
    <2>2. pc[r] = "new" /\ pc' \in [Runs -> {"new", "write", "read", "finally", "cold", "blocked", "ended"}]
      BY <1>1, <1>t DEF Acquire
    <2>3. mine' \in [Runs -> Workers \union {None}] /\ busy' \in [Workers -> BOOLEAN]
      <3>1. CASE UNCHANGED <<busy, uses, mine>>
        BY <1>t, <3>1
      <3>2. CASE \E w \in Workers : busy' = [busy EXCEPT ![w] = TRUE] /\ mine' = [mine EXCEPT ![r] = w]
        BY <1>t, <3>2
      <3> QED
        BY <1>1, <3>1, <3>2 DEF Acquire
    <2>4. uses' \in [Workers -> 0 .. MaxUses]
      BY <1>1, <2>1 DEF Acquire, TypeOK
    <2> QED
      BY <1>1, <2>2, <2>3, <2>4 DEF Acquire, TypeOK, procVars
  <1>2. CASE Write(r)
    <2>1. Append(inbox[mine[r]], r) \in Seq(Runs)
      BY <1>0, <1>2 DEF Write, TypeOK
    <2>2. inbox' \in [Workers -> Seq(Runs)]
      <3>1. inbox \in [Workers -> Seq(Runs)] /\ mine[r] \in Workers
        BY <1>0, <1>2 DEF Write, TypeOK
      <3>2. CASE inbox' = inbox
        BY <3>1, <3>2
      <3>3. CASE inbox' = [inbox EXCEPT ![mine[r]] = Append(@, r)]
        <4> DEFINE a == Append(inbox[mine[r]], r)
        <4>1. a \in Seq(Runs) /\ inbox' = [inbox EXCEPT ![mine[r]] = a]
          BY <2>1, <3>3
        <4> HIDE DEF a
        <4> QED
          BY <3>1, <4>1
      <3> QED
        BY <1>2, <3>2, <3>3 DEF Write
    <2>3. /\ pc' \in [Runs -> {"new", "write", "read", "finally", "cold", "blocked", "ended"}]
          /\ result' \in [Runs -> {None, "done", "eof", "raised", "timeout"}]
      BY <1>2, <1>t DEF Write
    <2> QED
      BY <1>2, <2>2, <2>3 DEF Write, TypeOK, poolVars
  <1>3. CASE ReadLine(r)
    <2>1. Upcoming(r) # None
      BY <1>3, WarmPoolAssumption DEF ReadLine, None
    <2>2. Taken(r) \in [Workers -> Seq(Entries)]
      BY <1>0, <1>3, <2>1, TakenType DEF ReadLine
    <2>3. /\ pc' \in [Runs -> {"new", "write", "read", "finally", "cold", "blocked", "ended"}]
          /\ result' \in [Runs -> {None, "done", "eof", "raised", "timeout"}]
      BY <1>3, <1>t DEF ReadLine, Leave
    <2>4. saw' \in [Runs -> BOOLEAN] /\ got' \in [Runs -> SUBSET (Runs \union {"cold"})]
      <3>1. Upcoming(r) \in Runs /\ got' = [got EXCEPT ![r] = @ \union {Upcoming(r)}]
        BY <1>3 DEF ReadLine
      <3>2. saw' = [saw EXCEPT ![r] = TRUE]
        BY <1>3 DEF ReadLine
      <3> QED
        BY <1>t, <3>1, <3>2
    <2>5. out' \in [Workers -> Seq(Entries)] /\ UNCHANGED <<poolVars, proc, inbox, job, mine, mixed>>
      BY <1>3, <2>2 DEF ReadLine
    <2> QED
      BY <2>3, <2>4, <2>5 DEF TypeOK, poolVars, Entries
  <1>4. CASE ReadDone(r)
    <2>1. Upcoming(r) # None /\ mine[r] \in Workers
      BY <1>0, <1>4 DEF ReadDone, None, Done
    <2>2. Taken(r) \in [Workers -> Seq(Entries)] /\ Release(mine[r], Taken(r))
      BY <1>4, <2>1, TakenType DEF ReadDone
    <2> QED
      BY <1>4, <2>1, <2>2, ReleaseType DEF ReadDone, Leave, TypeOK, Entries
  <1>5. CASE ReadEnd(r)
    <2>1. out' \in [Workers -> Seq(Entries)]
      BY <1>0, <1>5, TakenType DEF ReadEnd, None, Eof
    <2> QED
      BY <1>5, <2>1 DEF ReadEnd, Leave, TypeOK, poolVars, Entries
  <1>6. CASE TimeOut(r)
    <2>1. Append(out[mine[r]], Eof) \in Seq(Entries)
      BY <1>0, <1>6 DEF TimeOut, Entries
    <2> QED
      BY <1>0, <1>6, <2>1 DEF TimeOut, Leave, TypeOK, poolVars, Entries
  <1>7. CASE Finally(r)
    <2>1. mine[r] \in Workers /\ Release(mine[r], out)
      BY <1>0, <1>7 DEF Finally
    <2>2. mixed' \in BOOLEAN
      BY <1>7 DEF Finally, Mixes
    <2> QED
      BY <1>0, <1>7, <2>1, <2>2, ReleaseType DEF Finally, TypeOK, Entries
  <1>8. CASE Cold(r)
    <2>1. /\ pc' \in [Runs -> {"new", "write", "read", "finally", "cold", "blocked", "ended"}]
          /\ got' \in [Runs -> SUBSET (Runs \union {"cold"})]
      BY <1>8, <1>t DEF Cold, ColdLine, EndCold, BlockCold
    <2>2. UNCHANGED <<poolVars, procVars, mine, result, saw, mixed>>
      BY <1>8 DEF Cold, ColdLine, EndCold, BlockCold
    <2> QED
      BY <2>1, <2>2 DEF TypeOK, poolVars, procVars
  <1> QED
    BY <1>1, <1>2, <1>3, <1>4, <1>5, <1>6, <1>7, <1>8 DEF Run

\* All steps keep the types.
LEMMA TypeInductive ==
    ASSUME TypeOK, AllPlaced, Held, [Next]_vars
    PROVE  TypeOK'
  <1>1. CASE UNCHANGED vars
    BY <1>1 DEF vars, stepVars, poolVars, procVars, runVars, TypeOK
  <1>2. CASE Next
    BY <1>2, WorkTypes, SpawnTypes, ShutdownTypes, RunTypes DEF Next
  <1> QED
    BY <1>1, <1>2

-----------------------------------------------------------------------------
(* Where the workers are: Placed.                                          *)

\* A step that leaves the pool alone, starts no process and lets no run go.
LEMMA PlacedStable ==
    ASSUME AllPlaced, UNCHANGED <<workers, busy, uses, starting, stuck>>,
           \A w \in Workers : /\ proc'[w] = "unborn" => proc[w] = "unborn"
                              /\ proc'[w] = "up" => proc[w] = "up",
           \A r \in Runs, w \in Workers : Holds(r, w) => Holds(r, w)'
    PROVE  AllPlaced'
  BY DEF AllPlaced, Placed, Newborn

\* _release_worker: a worker that stays is free and has uses left; one that
\* does not is no longer running.
LEMMA PlacedRelease ==
    ASSUME TypeOK, AllPlaced, NEW w \in Workers, NEW o, Release(w, o),
           UNCHANGED <<uses, starting, stuck>>,
           \A r \in Runs, v \in Workers : v # w /\ Holds(r, v) => Holds(r, v)'
    PROVE  AllPlaced'
  <1>0. /\ proc \in [Workers -> {"unborn", "up", "dying", "dead"}]
        /\ busy \in [Workers -> BOOLEAN]
        /\ uses \in [Workers -> 0 .. MaxUses] /\ MaxUses \in Nat
    BY WarmPoolAssumption DEF TypeOK
  <1> SUFFICES ASSUME NEW v \in Workers PROVE Placed(v)'
    BY DEF AllPlaced
  <1>1. Placed(v) /\ Placed(w)
    BY DEF AllPlaced
  <1>2. CASE busy[w] /\ Retire(w, o)
    <2>1. /\ proc' = [proc EXCEPT ![w] = IF @ = "up" THEN "dying" ELSE @]
          /\ workers' = workers \ {w} /\ busy' = busy
      BY <1>2 DEF Retire, Terminate
    <2> QED
      BY <1>0, <1>1, <1>2, <2>1 DEF Placed, Newborn
  <1>3. CASE (~busy[w] \/ ~WornOut(w)) /\ busy' = [busy EXCEPT ![w] = FALSE]
             /\ UNCHANGED <<workers, proc>>
    <2>1. CASE v = w
      <3>1. ~busy[w] \/ uses[w] < MaxUses
        BY <1>0, <1>3 DEF WornOut
      <3> QED
        BY <1>0, <1>1, <1>3, <2>1, <3>1 DEF Placed, Newborn
    <2>2. CASE v # w
      BY <1>0, <1>1, <1>3, <2>2 DEF Placed, Newborn
    <2> QED
      BY <2>1, <2>2
  <1> QED
    BY <1>2, <1>3 DEF Release

\* A process that is started is new; one that joins the list was never used.
LEMMA PlacedSpawn ==
    ASSUME TypeOK, AllPlaced, Spawn
    PROVE  AllPlaced'
  <1>0. /\ proc \in [Workers -> {"unborn", "up", "dying", "dead"}]
        /\ 0 < MaxUses
    BY WarmPoolAssumption DEF TypeOK
  <1>1. UNCHANGED <<busy, uses>> /\ \A r \in Runs, v \in Workers : Holds(r, v)' = Holds(r, v)
    BY DEF Spawn, SpawnCheck, SpawnReady, SpawnLate, SpawnFails, runVars, Holds
  <1> SUFFICES ASSUME NEW v \in Workers PROVE Placed(v)'
    BY DEF AllPlaced
  <1>2. Placed(v)
    BY DEF AllPlaced
  <1>3. CASE SpawnCheck
    <2>1. CASE UNCHANGED <<proc, starting>>
      BY <1>1, <1>2, <1>3, <2>1 DEF SpawnCheck, Placed, Newborn
    <2>2. ASSUME NEW w \in Workers, proc[w] = "unborn", proc' = [proc EXCEPT ![w] = "up"],
                 starting' = starting \union {w}
          PROVE  Placed(v)'
      <3>1. UNCHANGED <<workers, stuck>>
        BY <1>3 DEF SpawnCheck
      <3> QED
        BY <1>0, <1>1, <1>2, <2>2, <3>1 DEF Placed, Newborn
    <2> QED
      BY <1>3, <2>1, <2>2 DEF SpawnCheck
  <1>4. ASSUME NEW w \in Workers, SpawnReady(w) PROVE Placed(v)'
    <2>1. /\ w \in starting /\ workers' = workers \union {w} /\ starting' = starting \ {w}
          /\ UNCHANGED <<stuck, proc>>
      BY <1>4 DEF SpawnReady, procVars
    <2> QED
      BY <1>0, <1>1, <1>2, <2>1 DEF Placed, Newborn
  <1>5. ASSUME NEW w \in Workers, SpawnLate(w) PROVE Placed(v)'
    <2>1. /\ w \in starting /\ stuck' = stuck \union {w} /\ starting' = starting \ {w}
          /\ UNCHANGED <<workers, proc>>
      BY <1>5 DEF SpawnLate, procVars
    <2> QED
      BY <1>0, <1>1, <1>2, <2>1 DEF Placed, Newborn
  <1>6. ASSUME NEW w \in Workers, SpawnFails(w) PROVE Placed(v)'
    <2>1. /\ proc[w] # "up" /\ stuck' = stuck \ {w} /\ starting' = starting \ {w}
          /\ UNCHANGED <<workers, proc>>
      BY <1>6 DEF SpawnFails, procVars
    <2> QED
      BY <1>0, <1>1, <1>2, <2>1 DEF Placed, Newborn
  <1> QED
    BY <1>3, <1>4, <1>5, <1>6 DEF Spawn

\* A shutdown empties the list of processes it stops.
LEMMA PlacedShutdown ==
    ASSUME TypeOK, AllPlaced, Shutdown
    PROVE  AllPlaced'
  <1>1. /\ workers' = {} /\ UNCHANGED <<busy, uses, starting, stuck>>
        /\ \A w \in Workers : proc'[w] = IF w \in workers /\ proc[w] = "up" THEN "dying" ELSE proc[w]
    BY DEF Shutdown
  <1> QED
    BY <1>1 DEF AllPlaced, Placed, Newborn

\* A worker process stays where it is.
LEMMA PlacedWork ==
    ASSUME TypeOK, AllPlaced, NEW w \in Workers, Work(w) \/ Die(w)
    PROVE  AllPlaced'
  <1>1. /\ UNCHANGED <<workers, busy, uses, starting, stuck, pc, mine>>
        /\ \/ UNCHANGED proc
           \/ proc[w] = "up" /\ proc' = [proc EXCEPT ![w] = "dying"]
           \/ proc[w] = "dying" /\ proc' = [proc EXCEPT ![w] = "dead"]
    BY DEF Work, Die, TakeJob, PrintLine, FinishJob, ChildEnds, Exit, Terminate, poolVars, runVars
  <1>2. \A v \in Workers : /\ proc'[v] = "unborn" => proc[v] = "unborn"
                           /\ proc'[v] = "up" => proc[v] = "up"
    BY <1>1 DEF TypeOK
  <1> QED
    BY <1>1, <1>2, PlacedStable DEF Holds

\* A run acquires a worker or releases the one it has.
LEMMA PlacedRun ==
    ASSUME TypeOK, AllPlaced, Held, NEW r \in Runs, Run(r)
    PROVE  AllPlaced'
  <1>0. /\ pc \in [Runs -> {"new", "write", "read", "finally", "cold", "blocked", "ended"}]
        /\ mine \in [Runs -> Workers \union {None}]
        /\ proc \in [Workers -> {"unborn", "up", "dying", "dead"}]
        /\ pc[r] \in {"write", "read", "finally"} => mine[r] \in Workers
    BY DEF TypeOK, Held
  <1>1. CASE Acquire(r)
    <2>1. CASE UNCHANGED <<busy, uses, mine>> /\ pc' = [pc EXCEPT ![r] = "cold"]
      <3>1. UNCHANGED <<workers, busy, uses, starting, stuck, proc>>
        BY <1>1, <2>1 DEF Acquire, procVars
      <3>2. \A q \in Runs, w \in Workers : Holds(q, w) => Holds(q, w)'
        BY <1>0, <1>1, <2>1 DEF Acquire, Holds
      <3> QED
        BY <3>1, <3>2, PlacedStable
    <2>2. ASSUME NEW w \in Workers, Idle(w), busy' = [busy EXCEPT ![w] = TRUE],
                 uses' = [uses EXCEPT ![w] = @ + 1], mine' = [mine EXCEPT ![r] = w],
                 pc' = [pc EXCEPT ![r] = "write"]
          PROVE  AllPlaced'
      <3>1. pc[r] = "new" /\ UNCHANGED <<workers, starting, stuck, proc>>
        BY <1>1 DEF Acquire, procVars
      <3>2. /\ Holds(r, w)'
            /\ \A q \in Runs, v \in Workers : Holds(q, v) => Holds(q, v)'
        BY <1>0, <2>2, <3>1 DEF Holds
      <3>3. busy \in [Workers -> BOOLEAN] /\ uses \in [Workers -> 0 .. MaxUses]
        BY DEF TypeOK
      <3>4. ASSUME NEW v \in Workers PROVE Placed(v)'
        <4>1. Placed(v) /\ w \in workers
          BY <2>2 DEF AllPlaced, Idle
        <4>2. CASE v = w
          BY <2>2, <3>1, <3>2, <3>3, <4>1, <4>2 DEF Placed, Newborn
        <4>3. CASE v # w
          BY <2>2, <3>1, <3>2, <3>3, <4>1, <4>3 DEF Placed, Newborn
        <4> QED
          BY <4>2, <4>3
      <3> QED
        BY <3>4 DEF AllPlaced
    <2> QED
      BY <1>1, <2>1, <2>2 DEF Acquire
  <1>2. CASE Write(r) \/ ReadLine(r) \/ ReadEnd(r) \/ TimeOut(r) \/ Cold(r)
    <2>1. UNCHANGED <<workers, busy, uses, starting, stuck>>
      BY <1>2 DEF Write, ReadLine, ReadEnd, TimeOut, Cold, ColdLine, EndCold, BlockCold, poolVars
    <2>2. \A q \in Runs, w \in Workers : Holds(q, w) => Holds(q, w)'
      BY <1>0, <1>2 DEF Write, ReadLine, ReadEnd, TimeOut, Cold, ColdLine, EndCold, BlockCold, Leave, Holds
    <2>3. \A w \in Workers : /\ proc'[w] = "unborn" => proc[w] = "unborn"
                             /\ proc'[w] = "up" => proc[w] = "up"
      BY <1>0, <1>2 DEF Write, ReadLine, ReadEnd, TimeOut, Cold, ColdLine, EndCold, BlockCold, procVars
    <2> QED
      BY <2>1, <2>2, <2>3, PlacedStable
  <1>3. CASE ReadDone(r)
    <2>1. /\ mine[r] \in Workers /\ Release(mine[r], Taken(r))
          /\ UNCHANGED <<uses, starting, stuck>>
      BY <1>0, <1>3 DEF ReadDone
    <2>2. \A q \in Runs, w \in Workers : Holds(q, w) => Holds(q, w)'
      BY <1>0, <1>3 DEF ReadDone, Leave, Holds
    <2> QED
      BY <2>1, <2>2, PlacedRelease
  <1>4. CASE Finally(r)
    <2>1. /\ mine[r] \in Workers /\ Release(mine[r], out)
          /\ UNCHANGED <<uses, starting, stuck>>
      BY <1>0, <1>4 DEF Finally
    <2>2. \A q \in Runs, v \in Workers : v # mine[r] /\ Holds(q, v) => Holds(q, v)'
      BY <1>0, <1>4 DEF Finally, Holds
    <2> QED
      BY <2>1, <2>2, PlacedRelease
  <1> QED
    BY <1>1, <1>2, <1>3, <1>4 DEF Run

-----------------------------------------------------------------------------
(* The invariant, and what follows from it.                                *)

\* The invariant holds before anything was spawned.
LEMMA PoolInitial == Init => PoolInv
  <1> SUFFICES ASSUME Init PROVE PoolInv
    OBVIOUS
  <1>0. WarmPoolAssumption
    BY WarmPoolAssumption
  <1>1. TypeOK
    <2>1. /\ inbox \in [Workers -> Seq(Runs)] /\ out \in [Workers -> Seq(Runs \union {Done, Eof})]
          /\ job \in [Workers -> Jobs \union {NoJob}]
      BY DEF Init
    <2>2. /\ pc \in [Runs -> {"new", "write", "read", "finally", "cold", "blocked", "ended"}]
          /\ mine \in [Runs -> Workers \union {None}]
          /\ result \in [Runs -> {None, "done", "eof", "raised", "timeout"}]
          /\ saw \in [Runs -> BOOLEAN]
          /\ got \in [Runs -> SUBSET (Runs \union {"cold"})]
      BY DEF Init
    <2>3. /\ busy \in [Workers -> BOOLEAN] /\ uses \in [Workers -> 0 .. MaxUses]
          /\ proc \in [Workers -> {"unborn", "up", "dying", "dead"}]
      BY <1>0 DEF Init
    <2>4. /\ platform \in Platforms /\ workers \in SUBSET Workers /\ starting \in SUBSET Workers
          /\ stuck \in SUBSET Workers /\ checking \in Nat /\ mixed \in BOOLEAN
      BY DEF Init
    <2> QED
      BY <2>1, <2>2, <2>3, <2>4 DEF TypeOK
  <1>2. AllPlaced
    BY DEF Init, AllPlaced, Placed, Newborn
  <1>3. Held /\ AllHanded
    BY DEF Init, Held, AllHanded, Handed
  <1> QED
    BY <1>1, <1>2, <1>3 DEF PoolInv

\* Every step keeps it.
LEMMA PoolInductive == PoolInv /\ [Next]_vars => PoolInv'
  <1> SUFFICES ASSUME TypeOK, AllPlaced, Held, AllHanded, [Next]_vars PROVE PoolInv'
    BY DEF PoolInv
  <1>1. TypeOK' /\ Held' /\ AllHanded'
    BY TypeInductive, HeldInductive, HandedInductive
  <1>2. CASE UNCHANGED vars
    <2>1. UNCHANGED <<workers, busy, uses, starting, stuck, proc, pc, mine>>
      BY <1>2 DEF vars, stepVars, poolVars, procVars, runVars
    <2>2. AllPlaced'
      BY <2>1, PlacedStable DEF Holds
    <2> QED
      BY <1>1, <2>2 DEF PoolInv
  <1>3. CASE Next
    <2>1. AllPlaced'
      BY <1>3, PlacedWork, PlacedSpawn, PlacedShutdown, PlacedRun DEF Next
    <2> QED
      BY <1>1, <2>1 DEF PoolInv
  <1> QED
    BY <1>1, <1>2, <1>3 DEF PoolInv

\* The types of the variables; no worker serves more than _max_uses runs.
THEOREM PoolTypeCorrect == Spec => []TypeOK
  <1>1. PoolInv => TypeOK
    BY DEF PoolInv
  <1> QED
    BY <1>1, PoolInitial, PoolInductive, PTL DEF Spec

\* Every way out of run gives its worker back or retires it.
THEOREM NoLeakCorrect == Spec => []NoLeak
  <1>1. PoolInv => NoLeak
    BY DEF PoolInv, TypeOK, AllPlaced, Placed, Holds, NoLeak
  <1> QED
    BY <1>1, PoolInitial, PoolInductive, PTL DEF Spec

\* The output of a program is never followed by that of a second execution of it
\* in a cold process (run falls back only when nothing was seen).
THEOREM SingleSourceCorrect == Spec => []SingleSource
  <1>1. PoolInv => SingleSource
    BY DEF PoolInv, AllHanded, Handed, SingleSource
  <1> QED
    BY <1>1, PoolInitial, PoolInductive, PTL DEF Spec

-----------------------------------------------------------------------------
(* Exclusive: what the pipes of a worker hold.                             *)

\* What an output queue holds: the end of the output last, and, if it is that of
\* r's program, nothing but its end after the end of the job.
Ended(s) == \E i \in DOMAIN s : s[i] = Eof
Over(s) == \E i \in DOMAIN s : s[i] = Done
EndsLast(s) == \A i \in DOMAIN s : s[i] = Eof => i = Len(s)
Tells(s, r) ==
    /\ \A i \in DOMAIN s : s[i] \in {r, Done, Eof}
    /\ \A i, j \in DOMAIN s : s[i] = Done /\ j > i => s[j] = Eof

\* Nothing is left in the worker and its pipes, but perhaps the end of its output.
Fresh(w) ==
    /\ job[w] = NoJob /\ inbox[w] = <<>>
    /\ out[w] \in {<<>>, <<Eof>>}

\* Processes that are not in the list yet are clean and nobody's; output ends once.
Clean(w) ==
    /\ proc[w] = "unborn" \/ w \in starting \union stuck =>
           Fresh(w) /\ \A r \in Runs : ~Holds(r, w)
    /\ proc[w] = "unborn" => out[w] = <<>>
    /\ EndsLast(out[w])
    /\ proc[w] = "up" \/ Lingers(w) => ~Ended(out[w])

\* Worker w holds the job of r, or what r's program has printed, and nothing else.
Serves(w, r) ==
    /\ inbox[w] \in {<<>>, <<r>>}
    /\ job[w] # NoJob => job[w].run = r /\ inbox[w] = <<>>
    /\ Tells(out[w], r)
    /\ Over(out[w]) => job[w] = NoJob /\ inbox[w] = <<>>

\* A worker in use is busy and has one user, whose job alone it and its pipes hold.
Owned(w) ==
    /\ \A q, r \in Runs : InUse(q, w) /\ InUse(r, w) => q = r
    /\ \A r \in Runs : InUse(r, w) =>
           /\ busy[w]
           /\ pc[r] = "write" => Fresh(w)
           /\ pc[r] = "read" => Serves(w, r)
    /\ w \in workers /\ ~busy[w] => Fresh(w)

AllClean == \A w \in Workers : Clean(w)
AllOwned == \A w \in Workers : Owned(w)
OwnOutput == \A r \in Runs : got[r] \subseteq {r, "cold"}

\* As long as no finally block mixed up two runs.
Unmixed == ~mixed => AllOwned /\ OwnOutput

\* One more entry at the end of a queue.
LEMMA AppendQueue ==
    ASSUME NEW s \in Seq(Entries), NEW x \in Entries
    PROVE  /\ ~Ended(s) => EndsLast(Append(s, x))
           /\ ~Ended(s) /\ x # Eof => ~Ended(Append(s, x))
           /\ x # Done /\ Over(Append(s, x)) => Over(s)
           /\ \A r : Tells(s, r) /\ x = Eof => Tells(Append(s, x), r)
           /\ \A r : Tells(s, r) /\ ~Over(s) /\ x \in {r, Done} => Tells(Append(s, x), r)
  <1> DEFINE t == Append(s, x)
  <1>1. /\ DOMAIN s = 1 .. Len(s) /\ DOMAIN t = 1 .. Len(s) + 1 /\ Len(t) = Len(s) + 1
        /\ Len(s) \in Nat /\ t[Len(s) + 1] = x
        /\ \A i \in 1 .. Len(s) : t[i] = s[i]
    OBVIOUS
  <1> HIDE DEF t
  <1>2. \A i \in DOMAIN t : i \in DOMAIN s \/ i = Len(s) + 1
    BY <1>1
  <1>3. /\ ~Ended(s) => EndsLast(t)
        /\ ~Ended(s) /\ x # Eof => ~Ended(t)
        /\ x # Done /\ Over(t) => Over(s)
    BY <1>1, <1>2 DEF Ended, Over, EndsLast
  <1>4. ASSUME NEW r, Tells(s, r), x = Eof PROVE Tells(t, r)
    BY <1>1, <1>4 DEF Tells, Eof, Done
  <1>5. ASSUME NEW r, Tells(s, r), ~Over(s), x \in {r, Done} PROVE Tells(t, r)
    BY <1>1, <1>5 DEF Tells, Over
  <1> QED
    BY <1>3, <1>4, <1>5 DEF t

\* The first entry of a queue is taken.
LEMMA TailQueue ==
    ASSUME NEW s \in Seq(Entries), s # <<>>, EndsLast(s)
    PROVE  /\ EndsLast(Tail(s))
           /\ Ended(Tail(s)) => Ended(s)
           /\ Over(Tail(s)) => Over(s)
           /\ \A r : Tells(s, r) => Tells(Tail(s), r) /\ Head(s) \in {r, Done, Eof}
           /\ Head(s) = Done => Over(s)
           /\ \A r : Tells(s, r) /\ Head(s) = Done => Tail(s) \in {<<>>, <<Eof>>}
  <1> DEFINE t == Tail(s)
  <1>1. /\ DOMAIN s = 1 .. Len(s) /\ DOMAIN t = 1 .. Len(s) - 1 /\ Len(t) = Len(s) - 1
        /\ Len(s) \in Nat \ {0} /\ Head(s) = s[1] /\ t \in Seq(Entries)
        /\ \A i \in 1 .. Len(s) - 1 : t[i] = s[i + 1]
    OBVIOUS
  <1> HIDE DEF t
  <1>2. \A i \in DOMAIN t : i + 1 \in DOMAIN s /\ t[i] = s[i + 1]
    BY <1>1
  <1>3. EndsLast(t) /\ (Ended(t) => Ended(s)) /\ (Over(t) => Over(s))
    BY <1>1, <1>2 DEF EndsLast, Ended, Over
  <1>4. ASSUME NEW r, Tells(s, r) PROVE Tells(t, r) /\ Head(s) \in {r, Done, Eof}
    BY <1>1, <1>2, <1>4 DEF Tells
  <1>5. Head(s) = Done => Over(s)
    BY <1>1 DEF Over
  <1>6. ASSUME NEW r, Tells(s, r), Head(s) = Done PROVE t \in {<<>>, <<Eof>>}
    <2>1. \A i \in DOMAIN t : t[i] = Eof
      BY <1>1, <1>2, <1>6 DEF Tells
    <2>2. \A i \in DOMAIN t : i = Len(t)
      BY <1>3, <2>1 DEF EndsLast
    <2>3. Len(t) \in {0, 1}
      BY <1>1, <2>2
    <2>4. CASE Len(t) = 0
      BY <1>1, <2>4
    <2>5. CASE Len(t) = 1
      <3>1. t \in Seq(Entries) /\ <<Eof>> \in Seq(Entries) /\ Len(<<Eof>>) = 1
        BY <1>1 DEF Entries
      <3>2. \A i \in 1 .. 1 : t[i] = <<Eof>>[i]
        BY <1>1, <2>1, <2>5
      <3>3. t = <<Eof>>
        BY <2>5, <3>1, <3>2, SeqEqual, Zenon
      <3> QED
        BY <3>3
    <2> QED
      BY <2>3, <2>4, <2>5
  <1> QED
    BY <1>3, <1>4, <1>5, <1>6 DEF t

\* A queue stays as it is or gets its end, which it did not have.
Closes(s, t) == t = s \/ (~Ended(s) /\ t = Append(s, Eof))

\* The end of the output changes nothing but that it is there.
LEMMA CloseQueue ==
    ASSUME NEW s \in Seq(Entries), NEW t, EndsLast(s), Closes(s, t)
    PROVE  /\ t \in Seq(Entries) /\ EndsLast(t)
           /\ s \in {<<>>, <<Eof>>} => t \in {<<>>, <<Eof>>}
           /\ \A r : Tells(s, r) => Tells(t, r)
           /\ Over(t) => Over(s)
  <1>1. CASE t = s
    BY <1>1
  <1>2. CASE ~Ended(s) /\ t = Append(s, Eof)
    <2>1. Eof \in Entries /\ Eof # Done
      BY DEF Entries, Eof, Done
    <2>2. t \in Seq(Entries)
      BY <1>2, <2>1
    <2>3. s = <<Eof>> => Ended(s)
      BY DEF Ended
    <2>4. s = <<>> => t = <<Eof>>
      BY <1>2
    <2> QED
      BY <1>2, <2>1, <2>2, <2>3, <2>4, AppendQueue
  <1> QED
    BY <1>1, <1>2 DEF Closes

\* Terminating a process, after its queue may have been read, closes its output.
LEMMA TerminateCloses ==
    ASSUME TypeOK, AllClean, NEW w \in Workers, NEW o \in [Workers -> Seq(Entries)],
           Ended(o[w]) => Ended(out[w]), Terminate(w, o)
    PROVE  /\ Closes(o[w], out'[w])
           /\ \A v \in Workers : v # w => out'[v] = o[v] /\ proc'[v] = proc[v]
           /\ proc'[w] # "up"
           /\ proc'[w] = "unborn" => proc[w] = "unborn" /\ out'[w] = o[w]
           /\ Lingers(w) => out'[w] = o[w]
  <1>1. /\ proc \in [Workers -> {"unborn", "up", "dying", "dead"}]
        /\ proc[w] = "up" => ~Ended(o[w])
    BY DEF TypeOK, AllClean, Clean
  <1> QED
    BY <1>1 DEF Terminate, Closes

\* A step that at most closes the output of v, wherever v is.
LEMMA CleanQuiet ==
    ASSUME TypeOK, NEW v \in Workers, Clean(v),
           job'[v] = job[v], inbox'[v] = inbox[v], Closes(out[v], out'[v]),
           v \in starting' \union stuck' => v \in starting \union stuck,
           UNCHANGED platform, Lingers(v) => out'[v] = out[v],
           proc'[v] = "up" => proc[v] = "up" /\ out'[v] = out[v],
           proc'[v] = "unborn" => proc[v] = "unborn" /\ out'[v] = out[v],
           \A r \in Runs : Holds(r, v)' => Holds(r, v)
    PROVE  Clean(v)'
  <1>1. out[v] \in Seq(Entries) /\ EndsLast(out[v])
    BY DEF TypeOK, Entries, Clean
  <1>2. EndsLast(out'[v]) /\ (out[v] \in {<<>>, <<Eof>>} => out'[v] \in {<<>>, <<Eof>>})
    BY <1>1, CloseQueue
  <1> QED
    BY <1>2 DEF Clean, Fresh, Lingers

\* Any step at a worker that is in the list or was.
LEMMA CleanListed ==
    ASSUME TypeOK, NEW v \in Workers, proc'[v] # "unborn", v \notin starting' \union stuck',
           EndsLast(out'[v]), proc'[v] = "up" \/ Lingers(v)' => ~Ended(out'[v])
    PROVE  Clean(v)'
  BY DEF Clean, Lingers

\* A worker process that has no job writes nothing but the end of its output.
LEMMA CleanWork ==
    ASSUME TypeOK, AllClean, NEW w \in Workers, Work(w) \/ Die(w), UNCHANGED platform
    PROVE  AllClean'
  <1>0. /\ out \in [Workers -> Seq(Entries)] /\ inbox \in [Workers -> Seq(Runs)]
        /\ job \in [Workers -> Jobs \union {NoJob}]
        /\ proc \in [Workers -> {"unborn", "up", "dying", "dead"}]
        /\ Clean(w)
    BY DEF TypeOK, Entries, AllClean
  <1>1. UNCHANGED <<starting, stuck, pc, mine>>
    BY DEF Work, Die, TakeJob, PrintLine, FinishJob, ChildEnds, Exit, Terminate, poolVars, runVars
  <1>2. \A v \in Workers : v # w => /\ job'[v] = job[v] /\ inbox'[v] = inbox[v]
                                    /\ out'[v] = out[v] /\ proc'[v] = proc[v]
    BY <1>0 DEF Work, Die, TakeJob, PrintLine, FinishJob, ChildEnds, Exit, Terminate
  <1>3. ASSUME NEW v \in Workers, v # w PROVE Clean(v)'
    <2>1. Clean(v) /\ Closes(out[v], out'[v])
      BY <1>2, <1>3 DEF AllClean, Closes
    <2>2. \A r \in Runs : Holds(r, v)' => Holds(r, v)
      BY <1>1 DEF Holds
    <2> QED
      BY <1>1, <1>2, <1>3, <2>1, <2>2, CleanQuiet
  <1>4. CASE Exit(w) \/ Die(w)
    <2>1. /\ job'[w] = job[w] /\ inbox'[w] = inbox[w] /\ proc'[w] # "up"
          /\ proc'[w] # "unborn"
      BY <1>0, <1>4 DEF Exit, Die, Terminate
    <2>2. Closes(out[w], out'[w]) /\ (Lingers(w) => out'[w] = out[w])
      BY <1>0, <1>4, TerminateCloses DEF Exit, Die, Closes
    <2>3. \A r \in Runs : Holds(r, w)' => Holds(r, w)
      BY <1>1 DEF Holds
    <2>4. Clean(w)'
      BY <1>0, <1>1, <2>1, <2>2, <2>3, CleanQuiet
    <2> QED
      BY <1>3, <2>4 DEF AllClean
  <1>5. CASE TakeJob(w) \/ PrintLine(w) \/ FinishJob(w)
    <2>1. ~Fresh(w) /\ proc[w] = "up" /\ proc' = proc
      BY <1>5 DEF TakeJob, PrintLine, FinishJob, Fresh
    <2>2. /\ proc'[w] # "unborn" /\ w \notin starting' \union stuck'
          /\ EndsLast(out[w]) /\ ~Ended(out[w])
      BY <1>0, <1>1, <2>1 DEF Clean
    <2>3. EndsLast(out'[w]) /\ ~Ended(out'[w])
      <3>1. CASE TakeJob(w)
        BY <2>2, <3>1 DEF TakeJob
      <3>2. CASE PrintLine(w)
        <4>1. job[w].run \in Runs /\ job[w].run \in Entries /\ job[w].run # Eof
          BY <1>0, <3>2, WarmPoolAssumption DEF PrintLine, Jobs, Entries, Eof
        <4>2. out'[w] = Append(out[w], job[w].run)
          BY <1>0, <3>2 DEF PrintLine
        <4> QED
          BY <1>0, <2>2, <4>1, <4>2, AppendQueue
      <3>3. CASE FinishJob(w)
        <4>1. PICK last \in {Done, job[w].run} : out'[w] = Append(out[w], last)
          BY <1>0, <3>3 DEF FinishJob
        <4>2. last \in Entries /\ last # Eof
          BY <1>0, <3>3, WarmPoolAssumption DEF FinishJob, Jobs, Entries, Done, Eof
        <4> QED
          BY <1>0, <2>2, <4>1, <4>2, AppendQueue
      <3> QED
        BY <1>5, <3>1, <3>2, <3>3
    <2>4. Clean(w)'
      BY <2>2, <2>3, CleanListed
    <2> QED
      BY <1>3, <2>4 DEF AllClean
  <1>6. CASE ChildEnds(w)
    <2>1. /\ ~Fresh(w) /\ proc[w] # "up" /\ proc' = proc /\ ~Ended(out[w])
          /\ job'[w] = NoJob /\ out'[w] = Append(out[w], Eof)
      BY <1>0, <1>6 DEF ChildEnds, Fresh, Lingers, Clean
    <2>2. proc'[w] # "unborn" /\ w \notin starting' \union stuck'
      BY <1>0, <1>1, <2>1 DEF Clean
    <2>3. Eof \in Entries
      BY DEF Entries
    <2>4. EndsLast(out'[w]) /\ ~Lingers(w)'
      BY <1>0, <2>1, <2>3, AppendQueue DEF Lingers
    <2>5. Clean(w)'
      BY <2>1, <2>2, <2>4, CleanListed
    <2> QED
      BY <1>3, <2>5 DEF AllClean
  <1> QED
    BY <1>4, <1>5, <1>6 DEF Work

\* A process that joins the list is as it was started.
LEMMA CleanSpawn ==
    ASSUME TypeOK, AllClean, Spawn, UNCHANGED platform
    PROVE  AllClean'
  <1>0. proc \in [Workers -> {"unborn", "up", "dying", "dead"}]
    BY DEF TypeOK
  <1>1. /\ UNCHANGED <<inbox, job, out, pc, mine>>
        /\ \A w \in Workers : (Fresh(w)' = Fresh(w)) /\ \A r \in Runs : Holds(r, w)' = Holds(r, w)
    BY DEF Spawn, SpawnCheck, SpawnReady, SpawnLate, SpawnFails, procVars, runVars, Fresh, Holds
  <1>2. /\ \A w \in Workers : proc'[w] = "unborn" => proc[w] = "unborn"
        /\ \A w \in Workers : proc'[w] = "up" => proc[w] \in {"up", "unborn"}
        /\ \A w \in Workers : w \in starting' \union stuck' =>
               w \in starting \union stuck \/ proc[w] = "unborn"
    BY <1>0 DEF Spawn, SpawnCheck, SpawnReady, SpawnLate, SpawnFails, procVars
  <1>3. \A w \in Workers : out[w] = <<>> => ~Ended(out[w])
    BY DEF Ended
  <1> QED
    BY <1>1, <1>2, <1>3 DEF AllClean, Clean, Lingers

\* A shutdown ends outputs.
LEMMA CleanShutdown ==
    ASSUME TypeOK, AllClean, Shutdown, UNCHANGED platform
    PROVE  AllClean'
  <1> SUFFICES ASSUME NEW v \in Workers PROVE Clean(v)'
    BY DEF AllClean
  <1>1. Clean(v) /\ proc[v] \in {"unborn", "up", "dying", "dead"}
    BY DEF AllClean, TypeOK
  <1>2. /\ UNCHANGED <<starting, stuck, inbox, job, pc, mine>>
        /\ proc'[v] = IF v \in workers /\ proc[v] = "up" THEN "dying" ELSE proc[v]
        /\ out'[v] = IF v \in workers /\ proc[v] = "up" /\ ~Lingers(v)
                     THEN Append(out[v], Eof) ELSE out[v]
    BY DEF Shutdown, runVars
  <1>3. Closes(out[v], out'[v])
    BY <1>1, <1>2 DEF Clean, Closes
  <1>4. \A r \in Runs : Holds(r, v)' => Holds(r, v)
    BY <1>2 DEF Holds
  <1> QED
    BY <1>1, <1>2, <1>3, <1>4, CleanQuiet

\* What a run takes leaves a queue that ends once, and has its end if it had it.
LEMMA TakenEnds ==
    ASSUME TypeOK, AllClean, NEW r \in Runs, mine[r] \in Workers, Upcoming(r) # None
    PROVE  /\ Taken(r) \in [Workers -> Seq(Entries)]
           /\ \A v \in Workers : v # mine[r] => Taken(r)[v] = out[v]
           /\ Taken(r)[mine[r]] = Tail(out[mine[r]])
           /\ out[mine[r]] # <<>> /\ out[mine[r]] \in Seq(Entries)
           /\ Upcoming(r) = Head(out[mine[r]])
           /\ EndsLast(out[mine[r]]) /\ EndsLast(Tail(out[mine[r]]))
           /\ Ended(Tail(out[mine[r]])) => Ended(out[mine[r]])
  <1>1. /\ out \in [Workers -> Seq(Entries)] /\ out[mine[r]] # <<>>
        /\ out[mine[r]] \in Seq(Entries)
        /\ EndsLast(out[mine[r]]) /\ Upcoming(r) = Head(out[mine[r]])
    BY DEF TypeOK, Entries, AllClean, Clean, Upcoming
  <1>2. Taken(r) \in [Workers -> Seq(Entries)]
    BY TakenType
  <1> QED
    BY <1>1, <1>2, TailQueue DEF Taken

\* A release closes the output of its worker or leaves it as it was given.
LEMMA ReleaseCloses ==
    ASSUME TypeOK, AllClean, NEW w \in Workers, NEW o \in [Workers -> Seq(Entries)],
           Ended(o[w]) => Ended(out[w]), Release(w, o)
    PROVE  /\ Closes(o[w], out'[w])
           /\ \A v \in Workers : v # w => out'[v] = o[v] /\ proc'[v] = proc[v]
           /\ proc'[w] = "up" => proc[w] = "up" /\ out'[w] = o[w]
           /\ proc'[w] = "unborn" => proc[w] = "unborn"
           /\ Lingers(w) => out'[w] = o[w]
  <1>1. CASE Retire(w, o)
    BY <1>1, TerminateCloses DEF Retire
  <1>2. CASE out' = o /\ UNCHANGED proc
    BY <1>2 DEF Closes
  <1> QED
    BY <1>1, <1>2 DEF Release

\* A step of a run at its worker.
LEMMA CleanHolder ==
    ASSUME TypeOK, AllClean, NEW r \in Runs, NEW w \in Workers, Holds(r, w),
           UNCHANGED <<platform, starting, stuck, job, mine>>,
           \A v \in Workers : v # w =>
               inbox'[v] = inbox[v] /\ out'[v] = out[v] /\ proc'[v] = proc[v],
           \A q \in Runs : q # r => pc'[q] = pc[q],
           EndsLast(out'[w]), proc'[w] = "up" \/ Lingers(w) => ~Ended(out'[w]),
           proc'[w] = "unborn" => proc[w] = "unborn"
    PROVE  AllClean'
  <1> SUFFICES ASSUME NEW v \in Workers PROVE Clean(v)'
    BY DEF AllClean
  <1>1. Clean(v) /\ Clean(w)
    BY DEF AllClean
  <1>2. CASE v = w
    <2>1. proc'[w] # "unborn" /\ w \notin starting' \union stuck'
      BY <1>1 DEF Clean
    <2>2. Lingers(w)' = Lingers(w)
      BY DEF Lingers
    <2> QED
      BY <1>2, <2>1, <2>2, CleanListed
  <1>3. CASE v # w
    <2>1. Closes(out[v], out'[v])
      BY <1>3 DEF Closes
    <2>2. \A q \in Runs : Holds(q, v)' => Holds(q, v)
      BY <1>3 DEF Holds
    <2> QED
      BY <1>1, <1>3, <2>1, <2>2, CleanQuiet
  <1> QED
    BY <1>2, <1>3

\* A run touches the pipes of its own worker only, which is in the list or was.
LEMMA CleanRun ==
    ASSUME TypeOK, AllPlaced, AllClean, Held, NEW r \in Runs, Run(r), UNCHANGED platform
    PROVE  AllClean'
  <1> DEFINE w == mine[r]
  <1>0. /\ out \in [Workers -> Seq(Entries)] /\ inbox \in [Workers -> Seq(Runs)]
        /\ pc \in [Runs -> {"new", "write", "read", "finally", "cold", "blocked", "ended"}]
        /\ mine \in [Runs -> Workers \union {None}]
        /\ proc \in [Workers -> {"unborn", "up", "dying", "dead"}]
    BY DEF TypeOK, Entries
  <1>1. CASE Acquire(r)
    <2>1. UNCHANGED <<platform, starting, stuck, proc, inbox, job, out>>
      BY <1>1 DEF Acquire, procVars
    <2>2. CASE UNCHANGED mine /\ pc' = [pc EXCEPT ![r] = "cold"]
      <3>1. \A q \in Runs, v \in Workers : Holds(q, v)' => Holds(q, v)
        BY <1>0, <2>2 DEF Holds
      <3> QED
        BY <2>1, <3>1, CleanQuiet DEF AllClean, Closes
    <2>3. ASSUME NEW u \in Workers, Idle(u), mine' = [mine EXCEPT ![r] = u],
                 pc' = [pc EXCEPT ![r] = "write"]
          PROVE  AllClean'
      <3>1. u \in workers /\ Placed(u) /\ Clean(u)
        BY <2>3 DEF Idle, AllPlaced, AllClean
      <3>2. proc'[u] # "unborn" /\ u \notin starting' \union stuck'
        BY <2>1, <3>1 DEF Placed, Newborn
      <3>3. Clean(u)'
        BY <2>1, <3>1, <3>2, CleanListed DEF Clean, Lingers
      <3>4. ASSUME NEW v \in Workers, v # u PROVE Clean(v)'
        <4>1. \A q \in Runs : Holds(q, v)' => Holds(q, v)
          BY <1>0, <2>3, <3>4 DEF Holds
        <4> QED
          BY <2>1, <4>1, CleanQuiet DEF AllClean, Closes
      <3> QED
        BY <3>3, <3>4 DEF AllClean
    <2> QED
      BY <1>1, <2>2, <2>3 DEF Acquire
  <1>2. CASE pc[r] \in {"write", "read", "finally"}
    <2>0. w \in Workers /\ Holds(r, w)
      BY <1>2 DEF Held, Holds
    <2>1. EndsLast(out[w]) /\ (proc[w] = "up" \/ Lingers(w) => ~Ended(out[w]))
      BY <2>0 DEF AllClean, Clean
    <2>2. \A q \in Runs : q # r => pc'[q] = pc[q]
      BY <1>0, <1>2 DEF Run, Acquire, Write, ReadLine, ReadDone, ReadEnd, TimeOut, Finally, Cold, ColdLine, EndCold, BlockCold, Leave
    <2>3. CASE Write(r)
      <3>1. UNCHANGED <<starting, stuck, job, mine, proc, out>>
        BY <2>3 DEF Write, poolVars
      <3>2. \A v \in Workers : v # w => inbox'[v] = inbox[v]
        BY <1>0, <2>0, <2>3 DEF Write
      <3> QED
        BY <2>0, <2>1, <2>2, <3>1, <3>2, CleanHolder
    <2>4. CASE ReadLine(r) \/ ReadEnd(r)
      <3>1. UNCHANGED <<starting, stuck, job, mine, proc, inbox>>
        BY <2>4 DEF ReadLine, ReadEnd, poolVars
      <3>2. UNCHANGED out \/ (Upcoming(r) # None /\ out' = Taken(r))
        BY <2>4, WarmPoolAssumption DEF ReadLine, ReadEnd, None, Eof
      <3>3. /\ \A v \in Workers : v # w => out'[v] = out[v]
            /\ EndsLast(out'[w]) /\ (proc[w] = "up" \/ Lingers(w) => ~Ended(out'[w]))
        <4>1. CASE UNCHANGED out
          BY <2>1, <4>1
        <4>2. CASE Upcoming(r) # None /\ out' = Taken(r)
          BY <2>0, <2>1, <4>2, TakenEnds
        <4> QED
          BY <3>2, <4>1, <4>2
      <3> QED
        BY <2>0, <2>2, <3>1, <3>3, CleanHolder
    <2>5. CASE ReadDone(r)
      <3>1. /\ UNCHANGED <<starting, stuck, job, mine, inbox>>
            /\ Upcoming(r) # None /\ Release(w, Taken(r))
        BY <2>5 DEF ReadDone, Done, None
      <3>2. /\ Taken(r) \in [Workers -> Seq(Entries)]
            /\ \A v \in Workers : v # w => Taken(r)[v] = out[v]
            /\ EndsLast(Taken(r)[w]) /\ (Ended(Taken(r)[w]) => Ended(out[w]))
        BY <2>0, <3>1, TakenEnds
      <3>3. /\ Closes(Taken(r)[w], out'[w])
            /\ \A v \in Workers : v # w => out'[v] = Taken(r)[v] /\ proc'[v] = proc[v]
            /\ proc'[w] = "up" => proc[w] = "up" /\ out'[w] = Taken(r)[w]
            /\ Lingers(w) => out'[w] = Taken(r)[w]
            /\ proc'[w] = "unborn" => proc[w] = "unborn"
        BY <2>0, <3>1, <3>2, ReleaseCloses
      <3>4. EndsLast(out'[w])
        BY <2>0, <3>2, <3>3, CloseQueue
      <3> HIDE DEF w
      <3> QED
        BY <2>0, <2>1, <2>2, <3>1, <3>2, <3>3, <3>4, CleanHolder
    <2>6. CASE TimeOut(r)
      <3>1. /\ UNCHANGED <<starting, stuck, job, mine, inbox>>
            /\ proc[w] = "up" /\ proc'[w] \in {"dying", "dead"}
            /\ \A v \in Workers : v # w => out'[v] = out[v] /\ proc'[v] = proc[v]
        BY <1>0, <2>0, <2>6 DEF TimeOut, poolVars
      <3>2. Closes(out[w], out'[w]) /\ (Lingers(w) => out'[w] = out[w])
        BY <1>0, <2>0, <2>1, <2>6 DEF TimeOut, Closes
      <3>3. EndsLast(out'[w])
        BY <1>0, <2>0, <2>1, <3>2, CloseQueue
      <3> QED
        BY <2>0, <2>1, <2>2, <3>1, <3>2, <3>3, CleanHolder
    <2>7. CASE Finally(r)
      <3>1. UNCHANGED <<starting, stuck, job, mine, inbox>> /\ Release(w, out)
        BY <2>7 DEF Finally
      <3>2. /\ Closes(out[w], out'[w])
            /\ \A v \in Workers : v # w => out'[v] = out[v] /\ proc'[v] = proc[v]
            /\ proc'[w] = "up" => proc[w] = "up" /\ out'[w] = out[w]
            /\ Lingers(w) => out'[w] = out[w]
            /\ proc'[w] = "unborn" => proc[w] = "unborn"
        BY <1>0, <2>0, <3>1, ReleaseCloses
      <3>3. EndsLast(out'[w])
        BY <1>0, <2>0, <2>1, <3>2, CloseQueue
      <3> QED
        BY <2>0, <2>1, <2>2, <3>1, <3>2, <3>3, CleanHolder
    <2> QED
      BY <1>2, <2>3, <2>4, <2>5, <2>6, <2>7 DEF Run, Acquire, Cold, ColdLine, EndCold, BlockCold
  <1>3. CASE Cold(r)
    <2>1. UNCHANGED <<starting, stuck, proc, inbox, job, out, mine>>
      BY <1>3 DEF Cold, ColdLine, EndCold, BlockCold, poolVars, procVars
    <2>2. \A q \in Runs, v \in Workers : Holds(q, v)' => Holds(q, v)
      BY <1>0, <1>3, <2>1 DEF Cold, ColdLine, EndCold, BlockCold, Holds
    <2> QED
      BY <2>1, <2>2, CleanQuiet DEF AllClean, Closes
  <1> QED
    BY <1>1, <1>2, <1>3 DEF Run, Write, ReadLine, ReadDone, ReadEnd, TimeOut, Finally

\* Every step keeps the pipes in order.
LEMMA CleanInductive ==
    ASSUME TypeOK, AllPlaced, AllClean, Held, [Next]_vars
    PROVE  AllClean'
  <1>1. CASE UNCHANGED vars
    <2>1. UNCHANGED <<platform, starting, stuck, proc, inbox, job, out, pc, mine>>
      BY <1>1 DEF vars, stepVars, poolVars, procVars, runVars
    <2> QED
      BY <2>1, CleanQuiet DEF AllClean, Closes, Holds
  <1>2. CASE Next
    BY <1>2, CleanWork, CleanSpawn, CleanShutdown, CleanRun DEF Next
  <1> QED
    BY <1>1, <1>2

-----------------------------------------------------------------------------
(* Exclusive: who uses a worker.                                           *)

\* A step that at most closes the output of v, and after which its user is where
\* it was or done with reading.
LEMMA OwnedQuiet ==
    ASSUME TypeOK, NEW v \in Workers, Clean(v), Owned(v),
           job'[v] = job[v], inbox'[v] = inbox[v], busy'[v] = busy[v],
           Closes(out[v], out'[v]), v \in workers' => v \in workers,
           \A q \in Runs : InUse(q, v)' =>
               InUse(q, v) /\ (pc'[q] = pc[q] \/ pc'[q] = "finally")
    PROVE  Owned(v)'
  <1>1. /\ out[v] \in {<<>>, <<Eof>>} => out'[v] \in {<<>>, <<Eof>>}
        /\ \A r : Tells(out[v], r) => Tells(out'[v], r)
        /\ Over(out'[v]) => Over(out[v])
    <2>1. out[v] \in Seq(Entries) /\ EndsLast(out[v])
      BY DEF TypeOK, Entries, Clean
    <2> QED
      BY <2>1, CloseQueue
  <1>2. Fresh(v) => Fresh(v)'
    BY <1>1 DEF Fresh
  <1>3. \A r \in Runs : Serves(v, r) => Serves(v, r)'
    BY <1>1 DEF Serves
  <1> QED
    BY <1>2, <1>3 DEF Owned

\* A step of the one user of w, which stays its user.
LEMMA OwnedUser ==
    ASSUME NEW w \in Workers, NEW r \in Runs, Owned(w), InUse(r, w), busy'[w],
           \A q \in Runs : q # r /\ InUse(q, w)' => InUse(q, w),
           pc'[r] # "write", pc'[r] = "read" => Serves(w, r)'
    PROVE  Owned(w)'
  BY DEF Owned

\* A worker that nobody uses, and that is clean if it can be acquired.
LEMMA OwnedFree ==
    ASSUME NEW w \in Workers, \A q \in Runs : ~InUse(q, w)',
           w \in workers' /\ ~busy'[w] => Fresh(w)'
    PROVE  Owned(w)'
  BY DEF Owned

\* A worker process prints for the run whose job it has, then ends the job.
LEMMA OwnedWork ==
    ASSUME TypeOK, AllClean, AllOwned, NEW w \in Workers, Work(w) \/ Die(w)
    PROVE  AllOwned'
  <1>0. /\ out \in [Workers -> Seq(Entries)] /\ inbox \in [Workers -> Seq(Runs)]
        /\ job \in [Workers -> Jobs \union {NoJob}]
        /\ proc \in [Workers -> {"unborn", "up", "dying", "dead"}]
        /\ Clean(w) /\ Owned(w)
    BY DEF TypeOK, Entries, AllClean, AllOwned
  <1>1. UNCHANGED <<workers, busy, pc, mine, result>>
    BY DEF Work, Die, TakeJob, PrintLine, FinishJob, ChildEnds, Exit, Terminate, poolVars, runVars
  <1>2. \A v \in Workers : v # w => /\ job'[v] = job[v] /\ inbox'[v] = inbox[v]
                                    /\ out'[v] = out[v]
    BY <1>0 DEF Work, Die, TakeJob, PrintLine, FinishJob, ChildEnds, Exit, Terminate
  <1>3. \A q \in Runs, v \in Workers : InUse(q, v)' = InUse(q, v)
    BY <1>1 DEF InUse
  <1>4. ASSUME NEW v \in Workers, v # w PROVE Owned(v)'
    <2>1. Clean(v) /\ Owned(v) /\ Closes(out[v], out'[v])
      BY <1>2, <1>4 DEF AllClean, AllOwned, Closes
    <2> QED
      BY <1>1, <1>2, <1>3, <1>4, <2>1, OwnedQuiet
  <1>5. Owned(w)'
    <2>1. CASE Exit(w) \/ Die(w)
      <3>1. job'[w] = job[w] /\ inbox'[w] = inbox[w]
        BY <2>1 DEF Exit, Die
      <3>2. Closes(out[w], out'[w])
        BY <1>0, <2>1, TerminateCloses DEF Exit, Die, Closes
      <3> QED
        BY <1>0, <1>1, <1>3, <3>1, <3>2, OwnedQuiet
    <2>2. CASE TakeJob(w) \/ PrintLine(w) \/ FinishJob(w)
      <3>1. ~Fresh(w)
        BY <2>2 DEF TakeJob, PrintLine, FinishJob, Fresh
      <3>2. ASSUME NEW r \in Runs, Serves(w, r) PROVE Serves(w, r)'
        <4>1. CASE TakeJob(w)
          <5>1. /\ inbox[w] = <<r>> /\ inbox'[w] = Tail(inbox[w]) /\ out' = out
                /\ job'[w].run = Head(inbox[w])
            BY <1>0, <3>2, <4>1 DEF TakeJob, Serves
          <5>2. inbox'[w] = <<>> /\ job'[w].run = r
            BY <5>1
          <5>3. ~Over(out'[w]) /\ Tells(out'[w], r)
            BY <3>2, <4>1, <5>1 DEF TakeJob, Serves
          <5> QED
            BY <5>2, <5>3 DEF Serves
        <4>2. CASE PrintLine(w)
          <5>1. /\ job[w] # NoJob /\ job[w] \in Jobs /\ job[w].run = r /\ inbox'[w] = <<>>
                /\ ~Over(out[w]) /\ Tells(out[w], r) /\ out'[w] = Append(out[w], r)
            BY <1>0, <3>2, <4>2 DEF PrintLine, Serves
          <5>2. job'[w].run = r
            BY <1>0, <4>2, <5>1 DEF PrintLine, Jobs
          <5>3. r \in Entries /\ r # Done
            BY WarmPoolAssumption DEF Entries, Done
          <5>4. ~Over(out'[w]) /\ Tells(out'[w], r)
            BY <1>0, <5>1, <5>3, AppendQueue
          <5> QED
            BY <5>1, <5>2, <5>4 DEF Serves
        <4>3. CASE FinishJob(w)
          <5>1. /\ job[w] # NoJob /\ job'[w] = NoJob /\ inbox'[w] = <<>>
                /\ ~Over(out[w]) /\ Tells(out[w], r)
                /\ \E last \in {Done, r} : out'[w] = Append(out[w], last)
            BY <1>0, <3>2, <4>3 DEF FinishJob, Serves
          <5>2. Done \in Entries /\ r \in Entries
            BY DEF Entries
          <5>3. Tells(out'[w], r)
            BY <1>0, <5>1, <5>2, AppendQueue
          <5> QED
            BY <5>1, <5>3 DEF Serves
        <4> QED
          BY <2>2, <4>1, <4>2, <4>3
      <3> QED
        BY <1>0, <1>1, <1>3, <3>1, <3>2 DEF Owned
    <2>3. CASE ChildEnds(w)
      <3>1. /\ ~Fresh(w) /\ job[w] # NoJob /\ ~Ended(out[w]) /\ job'[w] = NoJob
            /\ out'[w] = Append(out[w], Eof) /\ inbox' = inbox
        BY <1>0, <2>3 DEF ChildEnds, Fresh, Lingers, Clean
      <3>2. Eof \in Entries /\ Eof # Done
        BY DEF Entries, Eof, Done
      <3>3. ASSUME NEW r \in Runs, Serves(w, r) PROVE Serves(w, r)'
        <4>1. inbox[w] = <<>> /\ ~Over(out[w]) /\ Tells(out[w], r)
          BY <3>1, <3>3 DEF Serves
        <4>2. Tells(out'[w], r) /\ ~Over(out'[w])
          BY <1>0, <3>1, <3>2, <4>1, AppendQueue
        <4> QED
          BY <3>1, <4>1, <4>2 DEF Serves
      <3> QED
        BY <1>0, <1>1, <1>3, <3>1, <3>3 DEF Owned
    <2> QED
      BY <2>1, <2>2, <2>3 DEF Work
  <1> QED
    BY <1>4, <1>5 DEF AllOwned

\* A process that joins the list has no user and is clean.
LEMMA OwnedSpawn ==
    ASSUME TypeOK, AllClean, AllOwned, Spawn
    PROVE  AllOwned'
  <1>1. /\ UNCHANGED <<busy, inbox, job, out, pc, mine, result>>
        /\ \A v \in Workers : v \in workers' => v \in workers \/ v \in starting
    BY DEF Spawn, SpawnCheck, SpawnReady, SpawnLate, SpawnFails, procVars, runVars
  <1>2. \A q \in Runs, v \in Workers : InUse(q, v)' = InUse(q, v)
    BY <1>1 DEF InUse
  <1> SUFFICES ASSUME NEW v \in Workers PROVE Owned(v)'
    BY DEF AllOwned
  <1>3. Clean(v) /\ Owned(v)
    BY DEF AllClean, AllOwned
  <1>4. CASE v \in starting
    <2>1. Fresh(v)' /\ \A r \in Runs : ~Holds(r, v)
      BY <1>1, <1>3, <1>4 DEF Clean, Fresh
    <2>2. \A q \in Runs : ~InUse(q, v)'
      BY <1>2, <2>1 DEF InUse, Holds
    <2> QED
      BY <2>1, <2>2, OwnedFree
  <1>5. CASE v \notin starting
    <2>1. Closes(out[v], out'[v])
      BY <1>1 DEF Closes
    <2>2. \A q \in Runs : InUse(q, v)' => InUse(q, v) /\ pc'[q] = pc[q]
      BY <1>1, <1>2
    <2>3. v \in workers' => v \in workers
      BY <1>1, <1>5
    <2> QED
      BY <1>1, <1>3, <2>1, <2>2, <2>3, OwnedQuiet
  <1> QED
    BY <1>4, <1>5

\* A shutdown leaves the users of the workers it stops.
LEMMA OwnedShutdown ==
    ASSUME TypeOK, AllClean, AllOwned, Shutdown
    PROVE  AllOwned'
  <1> SUFFICES ASSUME NEW v \in Workers PROVE Owned(v)'
    BY DEF AllOwned
  <1>1. Clean(v) /\ Owned(v)
    BY DEF AllClean, AllOwned
  <1>2. /\ UNCHANGED <<busy, inbox, job, pc, mine, result>> /\ workers' = {}
        /\ out'[v] = IF v \in workers /\ proc[v] = "up" /\ ~Lingers(v)
                     THEN Append(out[v], Eof) ELSE out[v]
    BY DEF Shutdown, runVars
  <1>3. Closes(out[v], out'[v])
    BY <1>1, <1>2 DEF Clean, Closes
  <1>4. \A q \in Runs : InUse(q, v)' => InUse(q, v) /\ pc'[q] = pc[q]
    BY <1>2 DEF InUse
  <1> QED
    BY <1>1, <1>2, <1>3, <1>4, OwnedQuiet

\* A worker that a run neither uses nor acquires does not notice its step.
LEMMA OwnedElsewhere ==
    ASSUME TypeOK, AllClean, AllOwned, NEW r \in Runs,
           NEW v \in Workers, mine[r] # v, mine' = mine,
           \A q \in Runs : q # r => pc'[q] = pc[q] /\ result'[q] = result[q],
           job' = job, inbox'[v] = inbox[v], out'[v] = out[v], busy'[v] = busy[v],
           v \in workers' => v \in workers
    PROVE  Owned(v)'
  <1>1. Clean(v) /\ Owned(v) /\ Closes(out[v], out'[v])
    BY DEF AllClean, AllOwned, Closes
  <1>2. \A q \in Runs : InUse(q, v)' => InUse(q, v) /\ pc'[q] = pc[q]
    BY DEF InUse
  <1> QED
    BY <1>1, <1>2, OwnedQuiet

\* _acquire_worker hands out a worker that is clean and has no user.
LEMMA OwnedAcquire ==
    ASSUME TypeOK, AllClean, AllOwned, NEW r \in Runs, Acquire(r)
    PROVE  AllOwned'
  <1>0. /\ pc \in [Runs -> {"new", "write", "read", "finally", "cold", "blocked", "ended"}]
        /\ mine \in [Runs -> Workers \union {None}] /\ busy \in [Workers -> BOOLEAN]
        /\ pc[r] = "new"
    BY DEF TypeOK, Acquire
  <1>1. UNCHANGED <<workers, inbox, job, out, result>>
    BY DEF Acquire, procVars
  <1> SUFFICES ASSUME NEW v \in Workers PROVE Owned(v)'
    BY DEF AllOwned
  <1>2. Clean(v) /\ Owned(v) /\ Closes(out[v], out'[v])
    BY <1>1 DEF AllClean, AllOwned, Closes
  <1>3. CASE UNCHANGED <<busy, mine>> /\ pc' = [pc EXCEPT ![r] = "cold"]
    <2>1. \A q \in Runs : InUse(q, v)' => InUse(q, v) /\ pc'[q] = pc[q]
      BY <1>0, <1>1, <1>3 DEF InUse
    <2> QED
      BY <1>1, <1>2, <1>3, <2>1, OwnedQuiet
  <1>4. ASSUME NEW u \in Workers, Idle(u), busy' = [busy EXCEPT ![u] = TRUE],
               mine' = [mine EXCEPT ![r] = u], pc' = [pc EXCEPT ![r] = "write"]
        PROVE  Owned(v)'
    <2>1. CASE v = u
      <3>1. Fresh(u) /\ \A q \in Runs : ~InUse(q, u)
        BY <1>2, <1>4, <2>1 DEF Idle, Owned
      <3>2. Fresh(u)' /\ busy'[u] /\ pc'[r] = "write" /\ \A q \in Runs : InUse(q, u)' => q = r
        BY <1>0, <1>1, <1>4, <3>1 DEF InUse, Fresh
      <3> QED
        BY <2>1, <3>2 DEF Owned
    <2>2. CASE v # u
      <3>1. \A q \in Runs : InUse(q, v)' => InUse(q, v) /\ pc'[q] = pc[q]
        BY <1>0, <1>1, <1>4, <2>2 DEF InUse
      <3> QED
        BY <1>0, <1>1, <1>2, <1>4, <2>2, <3>1, OwnedQuiet
    <2> QED
      BY <2>1, <2>2
  <1> QED
    BY <1>3, <1>4 DEF Acquire

\* JOB_DONE: the worker is given back with nothing left of the job in it.
LEMMA OwnedReadDone ==
    ASSUME TypeOK, AllClean, AllOwned, NEW r \in Runs, NEW w \in Workers, mine[r] = w,
           ReadDone(r)
    PROVE  AllOwned'
  <1>0. /\ pc \in [Runs -> {"new", "write", "read", "finally", "cold", "blocked", "ended"}]
        /\ result \in [Runs -> {None, "done", "eof", "raised", "timeout"}]
        /\ busy \in [Workers -> BOOLEAN]
        /\ Clean(w) /\ Owned(w) /\ InUse(r, w) /\ pc[r] = "read"
    BY DEF TypeOK, AllClean, AllOwned, ReadDone, InUse
  <1>1. /\ UNCHANGED <<job, inbox, mine>> /\ Release(w, Taken(r))
        /\ pc' = [pc EXCEPT ![r] = "finally"] /\ result' = [result EXCEPT ![r] = "done"]
        /\ Upcoming(r) = Done /\ Upcoming(r) # None
    BY DEF ReadDone, Leave, Done, None
  <1>2. /\ Taken(r) \in [Workers -> Seq(Entries)]
        /\ \A v \in Workers : v # w => Taken(r)[v] = out[v]
        /\ Taken(r)[w] = Tail(out[w]) /\ out[w] # <<>> /\ out[w] \in Seq(Entries)
        /\ Head(out[w]) = Done /\ EndsLast(out[w])
        /\ (Ended(Taken(r)[w]) => Ended(out[w]))
    BY <1>1, TakenEnds
  <1>3. \A v \in Workers : v # w => /\ out'[v] = out[v] /\ busy'[v] = busy[v]
                                    /\ (v \in workers' => v \in workers)
    <2>1. \A v \in Workers : v # w => out'[v] = Taken(r)[v]
      BY <1>1, <1>2, ReleaseCloses, ZenonT(40)
    <2>2. busy' \in {busy, [busy EXCEPT ![w] = FALSE]} /\ workers' \subseteq workers
      BY <1>1 DEF Release, Retire
    <2> QED
      BY <1>0, <1>2, <2>1, <2>2
  <1>4. ASSUME NEW v \in Workers, v # w PROVE Owned(v)'
    <2>1. \A q \in Runs : q # r => pc'[q] = pc[q] /\ result'[q] = result[q]
      BY <1>0, <1>1
    <2> QED
      BY <1>1, <1>3, <1>4, <2>1, OwnedElsewhere
  <1>5. Owned(w)'
    <2>1. \A q \in Runs : ~InUse(q, w)'
      BY <1>0, <1>1 DEF InUse, Owned
    <2>2. job[w] = NoJob /\ inbox[w] = <<>> /\ Tail(out[w]) \in {<<>>, <<Eof>>}
      <3>1. Serves(w, r)
        BY <1>0 DEF Owned
      <3> QED
        BY <1>2, <3>1, TailQueue DEF Serves
    <2>3. w \in workers' => out'[w] = Taken(r)[w]
      BY <1>1 DEF Release, Retire
    <2>4. w \in workers' /\ ~busy'[w] => Fresh(w)'
      BY <1>1, <1>2, <2>2, <2>3 DEF Fresh
    <2> QED
      BY <2>1, <2>4, OwnedFree
  <1> QED
    BY <1>4, <1>5 DEF AllOwned

\* The finally block, when it mixes nothing up.
LEMMA OwnedFinally ==
    ASSUME TypeOK, AllClean, AllOwned, NEW r \in Runs, NEW w \in Workers, mine[r] = w,
           Finally(r), ~mixed'
    PROVE  AllOwned'
  <1>0. /\ pc \in [Runs -> {"new", "write", "read", "finally", "cold", "blocked", "ended"}]
        /\ out \in [Workers -> Seq(Entries)] /\ busy \in [Workers -> BOOLEAN]
        /\ Clean(w) /\ Owned(w)
    BY DEF TypeOK, Entries, AllClean, AllOwned
  <1>1. /\ UNCHANGED <<job, inbox, mine, result>> /\ Release(w, out) /\ ~Mixes(r, w)
        /\ \E next \in {"ended", "cold"} : pc' = [pc EXCEPT ![r] = next]
    BY DEF Finally
  <1>2. \A v \in Workers : v # w => /\ out'[v] = out[v] /\ busy'[v] = busy[v]
                                    /\ (v \in workers' => v \in workers)
    <2>1. \A v \in Workers : v # w => out'[v] = out[v]
      BY <1>0, <1>1, ReleaseCloses
    <2>2. busy' \in {busy, [busy EXCEPT ![w] = FALSE]} /\ workers' \subseteq workers
      BY <1>1 DEF Release, Retire
    <2> QED
      BY <1>0, <2>1, <2>2
  <1>3. ASSUME NEW v \in Workers, v # w PROVE Owned(v)'
    <2>1. \A q \in Runs : q # r => pc'[q] = pc[q] /\ result'[q] = result[q]
      BY <1>0, <1>1
    <2> QED
      BY <1>1, <1>2, <1>3, <2>1, OwnedElsewhere
  <1>4. Owned(w)'
    <2>1. \A q \in Runs : InUse(q, w)' => InUse(q, w) /\ q # r
      BY <1>0, <1>1 DEF InUse
    <2>2. \A q \in Runs : ~InUse(q, w)'
      BY <1>0, <1>1, <2>1 DEF Mixes, Owned
    <2>3. CASE busy[w] /\ WornOut(w) /\ Retire(w, out)
      <3>1. w \notin workers'
        BY <2>3 DEF Retire
      <3> QED
        BY <2>2, <3>1, OwnedFree
    <2>4. CASE (~busy[w] \/ ~WornOut(w)) /\ out' = out /\ UNCHANGED workers
      <3>1. w \in workers => Fresh(w)
        BY <1>0, <1>1, <2>4 DEF Mixes, Unfinished, Owned, Fresh
      <3>2. w \in workers' => Fresh(w)'
        BY <1>1, <2>4, <3>1 DEF Fresh
      <3> QED
        BY <2>2, <3>2, OwnedFree
    <2> QED
      BY <1>1, <2>3, <2>4 DEF Release
  <1> QED
    BY <1>3, <1>4 DEF AllOwned

\* The other steps of a run leave it the one user of its worker.
LEMMA OwnedRun ==
    ASSUME TypeOK, AllClean, AllOwned, Held, NEW r \in Runs, Run(r), ~mixed'
    PROVE  AllOwned'
  <1>0. /\ pc \in [Runs -> {"new", "write", "read", "finally", "cold", "blocked", "ended"}]
        /\ result \in [Runs -> {None, "done", "eof", "raised", "timeout"}]
        /\ out \in [Workers -> Seq(Entries)] /\ inbox \in [Workers -> Seq(Runs)]
    BY DEF TypeOK, Entries
  <1>1. CASE Cold(r)
    <2>1. /\ UNCHANGED <<workers, busy, inbox, job, out, mine, result>>
          /\ pc[r] = "cold"
          /\ \E next \in {"cold", "blocked", "ended"} : pc' = [pc EXCEPT ![r] = next]
      BY <1>0, <1>1 DEF Cold, ColdLine, EndCold, BlockCold, poolVars, procVars
    <2>2. \A q \in Runs, v \in Workers : InUse(q, v)' => InUse(q, v) /\ pc'[q] = pc[q]
      BY <1>0, <2>1 DEF InUse
    <2> QED
      BY <2>1, <2>2, OwnedQuiet DEF AllOwned, AllClean, Closes
  <1>2. ASSUME NEW w \in Workers, mine[r] = w,
               Write(r) \/ ReadLine(r) \/ ReadEnd(r) \/ TimeOut(r)
        PROVE  AllOwned'
    <2>0. /\ InUse(r, w) /\ Owned(w) /\ Clean(w)
          /\ UNCHANGED <<workers, busy, job, mine>>
      BY <1>2 DEF AllOwned, AllClean, InUse, Write, ReadLine, ReadEnd, TimeOut, poolVars
    <2>1. /\ \A q \in Runs : q # r => pc'[q] = pc[q] /\ result'[q] = result[q]
          /\ \A v \in Workers : v # w => inbox'[v] = inbox[v] /\ out'[v] = out[v]
      BY <1>0, <1>2, <2>0 DEF Write, ReadLine, ReadEnd, TimeOut, Leave, Taken
    <2>2. \A v \in Workers : v # w => Owned(v)'
      BY <1>2, <2>0, <2>1, OwnedElsewhere
    <2>3. /\ busy'[w]
          /\ \A q \in Runs : q # r /\ InUse(q, w)' => InUse(q, w)
          /\ pc'[r] # "write"
      BY <1>0, <1>2, <2>0, <2>1 DEF Owned, InUse, Write, ReadLine, ReadEnd, TimeOut, Leave
    <2>4. pc'[r] = "read" => Serves(w, r)'
      <3>1. CASE Write(r)
        <4>1. CASE pc'[r] = "read"
          <5>1. /\ Fresh(w) /\ out' = out
                /\ inbox' = [inbox EXCEPT ![w] = Append(@, r)]
            BY <1>0, <1>2, <2>0, <3>1, <4>1 DEF Write, Owned
          <5>2. inbox'[w] = <<r>> /\ job'[w] = NoJob /\ out'[w] \in {<<>>, <<Eof>>}
            BY <1>0, <2>0, <5>1 DEF Fresh
          <5>3. \A s \in {<<>>, <<Eof>>} : Tells(s, r) /\ ~Over(s)
            <6>1. Eof # Done
              BY DEF Eof, Done
            <6>2. Tells(<<>>, r) /\ ~Over(<<>>)
              BY DEF Tells, Over
            <6>3. DOMAIN <<Eof>> = {1} /\ <<Eof>>[1] = Eof
              OBVIOUS
            <6>4. Tells(<<Eof>>, r) /\ ~Over(<<Eof>>)
              BY <6>1, <6>3 DEF Tells, Over
            <6> QED
              BY <6>2, <6>4
          <5> QED
            BY <5>2, <5>3 DEF Serves
        <4> QED
          BY <4>1
      <3>2. CASE ReadLine(r)
        <4>1. /\ Upcoming(r) # None /\ out' = Taken(r) /\ UNCHANGED <<job, inbox>>
              /\ pc[r] = "read"
          BY <3>2, WarmPoolAssumption DEF ReadLine, None
        <4>2. Serves(w, r)
          BY <2>0, <4>1 DEF Owned
        <4>3. Tells(out'[w], r) /\ (Over(out'[w]) => Over(out[w]))
          BY <1>2, <2>0, <4>1, <4>2, TakenEnds, TailQueue DEF Serves
        <4> QED
          BY <4>1, <4>2, <4>3 DEF Serves
      <3>3. CASE ReadEnd(r) \/ TimeOut(r)
        BY <1>0, <3>3 DEF ReadEnd, TimeOut, Leave
      <3> QED
        BY <1>2, <3>1, <3>2, <3>3
    <2>5. Owned(w)'
      BY <2>0, <2>3, <2>4, OwnedUser
    <2> QED
      BY <2>2, <2>5 DEF AllOwned
  <1>3. CASE ReadDone(r)
    BY <1>3, OwnedReadDone DEF ReadDone, Held
  <1>4. CASE Finally(r)
    BY <1>4, OwnedFinally DEF Finally, Held
  <1> QED
    <2>1. CASE Write(r) \/ ReadLine(r) \/ ReadEnd(r) \/ TimeOut(r)
      <3>1. mine[r] \in Workers
        BY <2>1 DEF Held, Write, ReadLine, ReadEnd, TimeOut
      <3> QED
        BY <1>2, <2>1, <3>1
    <2> QED
      BY <1>1, <1>3, <1>4, <2>1, OwnedAcquire DEF Run

\* What a run is handed is its own.
LEMMA OwnOutputRun ==
    ASSUME TypeOK, AllClean, AllOwned, OwnOutput, Held, NEW r \in Runs, Run(r)
    PROVE  OwnOutput'
  <1>0. got \in [Runs -> SUBSET (Runs \union {"cold"})]
    BY DEF TypeOK
  <1>1. CASE ReadLine(r)
    <2>1. /\ pc[r] = "read" /\ mine[r] \in Workers /\ Upcoming(r) \in Runs
          /\ Upcoming(r) # None /\ Upcoming(r) \notin {Done, Eof}
          /\ got' = [got EXCEPT ![r] = @ \union {Upcoming(r)}]
      BY <1>1, WarmPoolAssumption DEF ReadLine, Held, None, Done, Eof
    <2>2. Serves(mine[r], r)
      BY <2>1 DEF AllOwned, Owned, InUse
    <2>3. Upcoming(r) = r
      BY <2>1, <2>2, TakenEnds, TailQueue DEF Serves
    <2> QED
      BY <1>0, <2>1, <2>3 DEF OwnOutput
  <1>2. CASE Cold(r)
    BY <1>0, <1>2 DEF Cold, ColdLine, EndCold, BlockCold, OwnOutput
  <1>3. CASE Acquire(r) \/ Write(r) \/ ReadDone(r) \/ ReadEnd(r) \/ TimeOut(r) \/ Finally(r)
    BY <1>3 DEF Acquire, Write, ReadDone, ReadEnd, TimeOut, Finally, OwnOutput
  <1> QED
    BY <1>1, <1>2, <1>3 DEF Run

ExclusiveInv == PoolInv /\ AllClean /\ Unmixed

\* Nothing is in use before the first run.
LEMMA ExclusiveInitial == Init => ExclusiveInv
  <1> SUFFICES ASSUME Init PROVE ExclusiveInv
    OBVIOUS
  <1>1. AllClean
    BY DEF Init, AllClean, Clean, Fresh, Holds, EndsLast, Ended
  <1>2. AllOwned /\ OwnOutput
    BY DEF Init, AllOwned, Owned, InUse, OwnOutput
  <1> QED
    BY <1>1, <1>2, PoolInitial DEF ExclusiveInv, Unmixed

\* Every step keeps workers exclusive as long as it mixes nothing up.
LEMMA ExclusiveInductive == ExclusiveInv /\ [Next]_vars => ExclusiveInv'
  <1> SUFFICES ASSUME PoolInv, AllClean, Unmixed, [Next]_vars PROVE ExclusiveInv'
    BY DEF ExclusiveInv
  <1>1. PoolInv' /\ AllClean' /\ TypeOK /\ Held
    BY PoolInductive, CleanInductive DEF PoolInv
  <1>2. ASSUME ~mixed' PROVE AllOwned' /\ OwnOutput'
    <2>1. CASE UNCHANGED vars
      BY <1>2, <2>1 DEF vars, stepVars, poolVars, procVars, runVars, Unmixed,
            AllOwned, Owned, InUse, Fresh, Serves, OwnOutput
    <2>2. CASE Next
      <3>1. mixed \in BOOLEAN /\ ~mixed
        BY <1>1, <1>2, <2>2 DEF TypeOK, Next, Run, Acquire, Write, ReadLine, ReadDone, ReadEnd,
            TimeOut, Finally, Cold, ColdLine, EndCold, BlockCold, Work, TakeJob, PrintLine, FinishJob, ChildEnds, Exit, Die, Spawn,
            SpawnCheck, SpawnReady, SpawnLate, SpawnFails, Shutdown
      <3>2. AllOwned /\ OwnOutput
        BY <3>1 DEF Unmixed
      <3>3. AllOwned'
        BY <1>1, <1>2, <2>2, <3>2, OwnedWork, OwnedSpawn, OwnedShutdown, OwnedRun DEF Next
      <3>4. OwnOutput'
        <4>1. CASE UNCHANGED runVars
          BY <3>2, <4>1 DEF runVars, OwnOutput
        <4> QED
          BY <1>1, <2>2, <3>2, <4>1, StepOfRun, OwnOutputRun
      <3> QED
        BY <3>3, <3>4
    <2> QED
      BY <2>1, <2>2
  <1> QED
    BY <1>1, <1>2 DEF ExclusiveInv, Unmixed

\* Two runs never rely on one worker and a run is handed its own output only, as
\* long as no finally block mixed up two runs (run and _run_on_worker release a
\* worker twice).
THEOREM ExclusiveCorrect == Spec => []Exclusive
  <1>1. ExclusiveInv => Exclusive
    BY DEF ExclusiveInv, Unmixed, AllOwned, Owned, OwnOutput, Exclusive
  <1> QED
    BY <1>1, ExclusiveInitial, ExclusiveInductive, PTL DEF Spec

-----------------------------------------------------------------------------
(* NoOrphan: where the job of a run is.                                    *)

\* Worker w, or the child it left, has the job of r before it or executes it.
Has(w, r) == job[w].run = r \/ \E i \in DOMAIN inbox[w] : inbox[w][i] = r

\* A job is with the worker that its run acquired.
Located == \A w \in Workers, r \in Runs : Has(w, r) => mine[r] = w /\ pc[r] # "new"

\* The job of a run that has read JOB_DONE is over, wherever it was.
Settled ==
    \A r \in Runs : result[r] = "done" =>
        pc[r] \in {"finally", "ended"} /\ \A w \in Workers : ~Has(w, r)

\* Only its run gives a worker a job.
LEMMA HasStep ==
    ASSUME TypeOK, Held, [Next]_vars, NEW w \in Workers, NEW r \in Runs, Has(w, r)'
    PROVE  Has(w, r) \/ (Write(r) /\ mine[r] = w)
  <1>0. /\ inbox \in [Workers -> Seq(Runs)] /\ job \in [Workers -> Jobs \union {NoJob}]
        /\ NoJob.run \notin Runs
    BY WarmPoolAssumption DEF TypeOK, NoJob, None
  <1>1. CASE job' = job /\ inbox' = inbox
    BY <1>1 DEF Has
  <1>2. ASSUME NEW v \in Workers, Work(v) \/ Die(v) PROVE Has(w, r)
    <2>1. CASE TakeJob(v)
      <3>1. /\ inbox[v] # <<>> /\ inbox[v] \in Seq(Runs)
            /\ inbox' = [inbox EXCEPT ![v] = Tail(inbox[v])]
            /\ job'[v].run = Head(inbox[v]) /\ \A u \in Workers : u # v => job'[u] = job[u]
        BY <1>0, <2>1 DEF TakeJob
      <3>2. CASE w # v
        BY <1>0, <3>1, <3>2 DEF Has
      <3>3. CASE w = v
        <4>1. /\ Len(inbox[v]) \in Nat \ {0} /\ DOMAIN inbox[v] = 1 .. Len(inbox[v])
              /\ Head(inbox[v]) = inbox[v][1]
              /\ DOMAIN Tail(inbox[v]) = 1 .. Len(inbox[v]) - 1
              /\ \A i \in 1 .. Len(inbox[v]) - 1 : Tail(inbox[v])[i] = inbox[v][i + 1]
          BY <3>1
        <4>2. inbox'[v] = Tail(inbox[v])
          BY <1>0, <3>1
        <4>3. CASE job'[v].run = r
          BY <3>1, <3>3, <4>1, <4>3 DEF Has
        <4>4. ASSUME NEW i \in DOMAIN inbox'[v], inbox'[v][i] = r PROVE Has(w, r)
          <5>1. i + 1 \in DOMAIN inbox[v] /\ inbox[v][i + 1] = r
            BY <4>1, <4>2, <4>4
          <5> QED
            BY <3>3, <5>1 DEF Has
        <4> QED
          BY <3>3, <4>3, <4>4 DEF Has
      <3> QED
        BY <3>2, <3>3
    <2>2. CASE PrintLine(v)
      <3>1. inbox' = inbox /\ \A u \in Workers : job'[u].run = job[u].run
        BY <1>0, <2>2 DEF PrintLine, Jobs, NoJob
      <3> QED
        BY <3>1 DEF Has
    <2>3. CASE FinishJob(v) \/ ChildEnds(v)
      <3>1. inbox' = inbox /\ \A u \in Workers : job'[u] \in {job[u], NoJob}
        BY <1>0, <2>3 DEF FinishJob, ChildEnds
      <3> QED
        BY <1>0, <3>1 DEF Has
    <2>4. CASE Exit(v) \/ Die(v)
      <3>1. job' = job /\ inbox' = inbox
        BY <2>4 DEF Exit, Die
      <3> QED
        BY <3>1 DEF Has
    <2> QED
      BY <1>2, <2>1, <2>2, <2>3, <2>4 DEF Work
  <1>3. ASSUME NEW q \in Runs, Run(q) PROVE Has(w, r) \/ (Write(r) /\ mine[r] = w)
    <2>1. CASE Write(q) /\ inbox' = [inbox EXCEPT ![mine[q]] = Append(@, q)]
      <3>1. job' = job /\ mine[q] \in Workers
        BY <2>1 DEF Write, Held
      <3>2. CASE w # mine[q]
        BY <1>0, <2>1, <3>1, <3>2 DEF Has
      <3>3. CASE w = mine[q]
        <4>1. /\ inbox[w] \in Seq(Runs) /\ inbox'[w] = Append(inbox[w], q)
              /\ DOMAIN inbox[w] = 1 .. Len(inbox[w]) /\ Len(inbox[w]) \in Nat
          BY <1>0, <2>1, <3>3
        <4>2. \A i \in DOMAIN inbox'[w] : inbox'[w][i] = q \/
                  (i \in DOMAIN inbox[w] /\ inbox'[w][i] = inbox[w][i])
          BY <4>1
        <4> QED
          BY <2>1, <3>1, <3>3, <4>2 DEF Has
      <3> QED
        BY <3>2, <3>3
    <2>2. CASE Write(q) /\ UNCHANGED inbox
      BY <1>1, <2>2 DEF Write
    <2>3. CASE Acquire(q) \/ ReadLine(q) \/ ReadDone(q) \/ ReadEnd(q) \/ TimeOut(q) \/ Finally(q)
      BY <1>1, <2>3 DEF Acquire, ReadLine, ReadDone, ReadEnd, TimeOut, Finally, procVars
    <2>4. CASE Cold(q)
      BY <1>1, <2>4 DEF Cold, ColdLine, EndCold, BlockCold, procVars
    <2> QED
      BY <1>3, <2>1, <2>2, <2>3, <2>4 DEF Run, Write
  <1>4. CASE Spawn \/ Shutdown
    BY <1>1, <1>4 DEF Spawn, SpawnCheck, SpawnReady, SpawnLate, SpawnFails, Shutdown, procVars
  <1> QED
    BY <1>1, <1>2, <1>3, <1>4 DEF Next, vars, stepVars, procVars

\* A run that has a job keeps its worker; what it read last is its own affair.
LEMMA RunSteps ==
    ASSUME TypeOK, [Next]_vars, NEW r \in Runs
    PROVE  /\ pc'[r] = "new" => pc[r] = "new"
           /\ pc[r] # "new" => mine'[r] = mine[r]
           /\ result[r] = "done" /\ pc[r] \in {"finally", "ended"} =>
                  pc'[r] \in {"finally", "ended"}
           /\ result'[r] = "done" => result[r] = "done" \/ ReadDone(r)
  <1>0. /\ pc \in [Runs -> {"new", "write", "read", "finally", "cold", "blocked", "ended"}]
        /\ mine \in [Runs -> Workers \union {None}]
        /\ result \in [Runs -> {None, "done", "eof", "raised", "timeout"}]
    BY DEF TypeOK
  <1>1. CASE UNCHANGED runVars
    BY <1>1 DEF runVars
  <1>2. ASSUME NEW q \in Runs, Run(q)
        PROVE  /\ pc'[r] = "new" => pc[r] = "new"
               /\ pc[r] # "new" => mine'[r] = mine[r]
               /\ result[r] = "done" /\ pc[r] \in {"finally", "ended"} =>
                      pc'[r] \in {"finally", "ended"}
               /\ result'[r] = "done" => result[r] = "done" \/ ReadDone(r)
    <2>1. CASE Acquire(q)
      BY <1>0, <2>1 DEF Acquire
    <2>2. CASE Write(q)
      BY <1>0, <2>2 DEF Write
    <2>3. CASE ReadLine(q)
      BY <1>0, <2>3 DEF ReadLine, Leave
    <2>4. CASE ReadDone(q)
      BY <1>0, <2>4 DEF ReadDone, Leave
    <2>5. CASE ReadEnd(q)
      BY <1>0, <2>5 DEF ReadEnd, Leave
    <2>6. CASE TimeOut(q)
      BY <1>0, <2>6 DEF TimeOut, Leave
    <2>7. CASE Finally(q)
      BY <1>0, <2>7 DEF Finally
    <2>8. CASE Cold(q)
      BY <1>0, <2>8 DEF Cold, ColdLine, EndCold, BlockCold
    <2> QED
      BY <1>2, <2>1, <2>2, <2>3, <2>4, <2>5, <2>6, <2>7, <2>8 DEF Run
  <1> QED
    BY <1>1, <1>2, StepOfRun DEF vars, stepVars

OrphanInv == ExclusiveInv /\ Located /\ (~mixed => Settled)

\* Nothing was mixed up if nothing is.
LEMMA MixedStays == ASSUME TypeOK, [Next]_vars, ~mixed' PROVE ~mixed
  <1>1. mixed' = mixed \/ \E r \in Runs : Finally(r)
    BY DEF Next, Run, Acquire, Write, ReadLine, ReadDone, ReadEnd, TimeOut, Cold, ColdLine,
        EndCold, BlockCold, Work, TakeJob, PrintLine, FinishJob, ChildEnds, Exit, Die, Spawn,
        SpawnCheck, SpawnReady, SpawnLate, SpawnFails, Shutdown, vars, stepVars
  <1> QED
    BY <1>1 DEF Finally, TypeOK

\* When a run reads JOB_DONE, its worker has nothing more of its job.
LEMMA SettledInductive ==
    ASSUME TypeOK, Held, AllClean, AllOwned, Located, Settled, [Next]_vars
    PROVE  Settled'
  <1> SUFFICES ASSUME NEW r \in Runs, result'[r] = "done"
               PROVE  pc'[r] \in {"finally", "ended"} /\ \A w \in Workers : ~Has(w, r)'
    BY DEF Settled, Has
  <1>1. CASE result[r] = "done"
    <2>1. pc[r] \in {"finally", "ended"} /\ \A w \in Workers : ~Has(w, r)
      BY <1>1 DEF Settled
    <2>2. ~Write(r)
      BY <2>1 DEF Write
    <2>3. \A w \in Workers : ~Has(w, r)'
      BY <2>1, <2>2, HasStep
    <2> QED
      BY <1>1, <2>1, <2>3, RunSteps
  <1>2. CASE ReadDone(r)
    <2>1. /\ mine[r] \in Workers /\ InUse(r, mine[r]) /\ pc[r] = "read"
          /\ Upcoming(r) = Done /\ Upcoming(r) # None /\ UNCHANGED <<inbox, job>>
          /\ pc'[r] = "finally"
      BY <1>2 DEF ReadDone, Held, InUse, Leave, TypeOK, Done, None
    <2>2. Serves(mine[r], r) /\ Over(out[mine[r]])
      BY <2>1, TakenEnds, TailQueue DEF AllOwned, Owned
    <2>3. job[mine[r]] = NoJob /\ inbox[mine[r]] = <<>>
      BY <2>2 DEF Serves
    <2>4. ~Has(mine[r], r)
      BY <2>3, WarmPoolAssumption DEF Has, NoJob, None
    <2>5. \A w \in Workers : ~Has(w, r)
      BY <2>4 DEF Located
    <2> QED
      BY <2>1, <2>5 DEF Has
  <1> QED
    BY <1>1, <1>2, RunSteps

\* The invariant holds at the start, and every step keeps it.
LEMMA OrphanInitial == Init => OrphanInv
  <1> SUFFICES ASSUME Init PROVE OrphanInv
    OBVIOUS
  <1>1. \A w \in Workers, r \in Runs : ~Has(w, r)
    BY WarmPoolAssumption DEF Init, Has, NoJob, None
  <1>2. Settled
    BY DEF Init, Settled, None
  <1> QED
    BY <1>1, <1>2, ExclusiveInitial DEF OrphanInv, Located

LEMMA OrphanInductive == OrphanInv /\ [Next]_vars => OrphanInv'
  <1> SUFFICES ASSUME OrphanInv, [Next]_vars PROVE OrphanInv'
    OBVIOUS
  <1>0. TypeOK /\ Held /\ AllClean /\ Located /\ (~mixed => Settled /\ AllOwned)
    BY DEF OrphanInv, ExclusiveInv, PoolInv, Unmixed
  <1>1. ExclusiveInv'
    BY ExclusiveInductive DEF OrphanInv
  <1>2. Located'
    <2> SUFFICES ASSUME NEW w \in Workers, NEW r \in Runs, Has(w, r)'
                 PROVE  mine'[r] = w /\ pc'[r] # "new"
      BY DEF Located, Has
    <2>1. mine[r] = w /\ pc[r] # "new"
      BY <1>0, HasStep DEF Located, Write
    <2> QED
      BY <1>0, <2>1, RunSteps
  <1>3. ASSUME ~mixed' PROVE Settled'
    BY <1>0, <1>3, MixedStays, SettledInductive
  <1> QED
    BY <1>1, <1>2, <1>3 DEF OrphanInv

\* A worker that is left running is where shutdown finds it, or about to be, or
\* keeps the thread that started it (_spawn_all, _release_worker, shutdown); a
\* program that is left running, by a worker or by the child of one that was
\* terminated, is not that of a run that read JOB_DONE, unless runs were mixed up.
THEOREM NoOrphanCorrect == Spec => []NoOrphan
  <1>1. OrphanInv => NoOrphan
    <2> SUFFICES ASSUME OrphanInv PROVE NoOrphan
      OBVIOUS
    <2>1. \A w \in Workers : proc[w] = "up" => w \in workers \union starting \union stuck
      BY DEF OrphanInv, ExclusiveInv, PoolInv, AllPlaced, Placed
    <2>2. ~mixed => \A r \in Runs : result[r] = "done" => ~Executing(r)
      BY DEF OrphanInv, Settled, Has, Executing
    <2> QED
      BY <2>1, <2>2 DEF NoOrphan
  <1> QED
    BY <1>1, OrphanInitial, OrphanInductive, PTL DEF Spec

=============================================================================
