# A verification model of supe-ask

TLA+ specifications of `supe-ask`, the service that answers a question about a
tenant's data by letting a language model write a Python program, running it,
and streaming what happens to the browser. The modules model the code under
`src/src/supe_ask`; TLC checks them on small instances and TLAPS proves the
main theorems for every instance. `PROJECT.json` relates each definition to the
lines it models, each property to a run that checks it and to a fault that it
catches.

## The system

| Component | State it keeps | Operations | Talks to |
|---|---|---|---|
| run pipeline (`services/orchestrator.py`) | one daemon thread per run: attempt counters, program in hand | `start_run`, `_run_pipeline`, `_execute_with_retry`, `_fail_run`, `cancel_run` | repository, runner, event stream, provider, retrieval |
| runner (`services/runner.py`) | the events buffered during an execution | `execute_sync`, `replay_events`, `cancel` (does nothing) | pool, artifact storage |
| warm pool (`services/codebox_pool.py`) | list of workers, `busy` and `uses` of each, a queue of its output | `run`, `_acquire_worker`, `_release_worker`, `_spawn_all`, `shutdown` | worker processes over pipes |
| event stream (`services/run_stream.py`, `event_bus.py`, `redis_client.py`) | stream state, dirty set, event ids per process; subscriber queues | `emit`, `publish`, `subscribe` | repository, Redis |
| HTTP routes (`routes/api.py`) | nothing; the SSE generator's seen ids | messages, cancel, events, threads | all of the above |
| repository (`repository.py`, `db.py`) | PostgreSQL rows of threads, runs, executions, artifacts | one statement per call, each committed by itself | PostgreSQL |
| artifact storage (`services/artifacts.py`, `aws_clients.py`) | artifact rows, S3 objects | `persist_artifact` | repository, S3 |
| retrieval (`services/retrieval.py`, `question_taxonomy.py`), graph cache (`services/graph_cache.py`) | local and Redis cache of the catalog graph | `plan_and_retrieve`, `load_snapshot` | repository, Redis |
| code generation (`services/llm.py`, `prompts.py`), validation (`validator.py`) | the turns of the conversation, held by the pipeline thread | `generate_analysis`, `generate_correction`, `apply_search_replace`, `validate_python_code` | provider |
| authentication (`auth.py`) | two cookies in the browser | `require_auth`, `set_auth_cookie`, sign in and out | auth service |
| migrations (`migration_runner.py`), application (`app.py`) | table of applied migrations; `app.state.ready` | `run_migrations`, start-up, shutdown | PostgreSQL, pool, provider |
| `supe_lib` | log lines kept for the end of a program | `print`, `display`, `emit_*`, `execute_user_code` | the worker's output |

What is hard in it:

- **Concurrency without transactions.** A cancel request and the pipeline thread
  of the run write the same rows in separate statements, each after looking at a
  status that may have changed. Emitters share one stream state whose database
  write happens outside the lock. Runs share workers that are released twice.
- **Failure in the middle.** Any database call may raise, and the error handler
  makes database calls of its own. A worker may die, wear out, hang or be shut
  down while a run reads its output. A process may die with its runs.
- **Ordering.** A subscriber must not lose what happens between its snapshot and
  its queue, must not see twice what reaches it twice, and must not close before
  the last events.
- **Starting over.** Two nested retry loops discard what failed attempts left, in
  rows, in S3, in the conversation and on the screen of the client.
- **One stream for everything.** What a program prints, its events, its errors and
  the mark that ends it share one text stream and are told apart by line prefixes.
- **Restarts.** Instances that start at once migrate the same database, and each
  statement commits by itself.

For each component, what makes it correct:

- pipeline: a completed run is of one piece; nothing of a failed attempt is
  shown; the thread only returns from terminal rows; a cancel that stays in the row
  stops it soon; the retries are bounded; it settles, and says so to its subscribers;
- event stream: no gap, no duplicate, no close before the end, a state unsaved only
  where a write failed or was overtaken;
- pool: no worker is lost, left running or used up beyond its limit, no two runs
  share one, no program's output is doubled, every run ends;
- runner and `supe_lib`: a run that counts as successful ran a program that
  returned, and has its events in order, without a gap; every run concludes;
- artifact storage: what is in object storage for a completed run is of its last
  execution, and a client that joins at any time ends up with the rows of that one;
- code generation: the program shown, stored, executed and remembered is the same,
  and the turns tell what was executed;
- retrieval and graph cache: what is read belongs to the refresh asked for and
  never goes back; join paths are shortest, and found whenever there are any;
- migrations: an instance that serves has the whole schema, and instances come up;
- authentication: an active session lives on.

## Modules

| Module | Models | Kind |
|---|---|---|
| `RunContract` | what a run promises to the subscribers of its live events | abstract specification |
| `RunLifecycle` | pipeline thread, execution attempts, cancel requests, faults | implements `RunContract` |
| `RunLifecycleProofs` | theorems about `RunLifecycle` | proofs |
| `RunStream` | emitters, event bus, Redis listeners, SSE generators | component |
| `RunStreamProofs` | theorems about `RunStream` | proofs |
| `WarmPool` | workers, runs that use them, threads that replace them | component |
| `WarmPoolProofs` | theorems about `WarmPool` | proofs |
| `ProgramOutput` | what a program writes, how a worker forwards it and a run sorts it | component |
| `ProgramOutputProofs` | theorems about `ProgramOutput` | proofs |
| `ArtifactStore` | artifact rows, S3 objects, a client that joins while they are made | component |
| `Dialogue` | the conversation with the model, and the program at each place it is kept | component |
| `AttemptProofs` | theorems about `Dialogue` and `ArtifactStore` | proofs |
| `Catalog` | the queries of a retrieval, the graph cache, the program that refreshes the catalog | component |
| `CatalogProofs` | theorems about `Catalog` | proofs |
| `JoinPaths` | the graph of a snapshot, the search for join paths, the memo threads share | component |
| `JoinPathsProofs` | theorems about `JoinPaths` | proofs |
| `Startup` | instances that migrate the database and come up | component |
| `Session` | the two cookies of a browser and its overlapping requests | component |
| `ServiceProofs` | theorems about `Session` and `Startup` | proofs |
| `MCRunLifecycle`, `MCRunStream`, `MCWarmPool`, `MCCatalog`, `MCJoinPaths`, `MCServices` | instances for TLC | model checking |

Definitions whose comment begins with "Variant" or that describe code that is not
there (`RetireListed`, `DiscardNothing`, `LookUpForgotten` and the like) are not
part of a next-state relation: they are the faults that `PROJECT.json` puts in the
place of a definition to show that a property notices.

### RunLifecycle

A step is one repository call with the computation and events between it and the
next; `pc` names the next call of the thread. `status`, `rowCode`, `execution`,
`artifacts` and `reply` are the rows of the run; `shown`, `shownCode` and `verdicts`
are what a subscriber of the live events shows, reduced to code, artifacts and
terminal events. Programs are numbered by generation; an artifact is the pair of its
execution and a number in it. `_raise_if_cancelled` is `Check`, used wherever the
code calls it; the two retry loops are `Correct`, `Exhausted` and the
`Discard`/`Reset` steps. A cancel request is three calls after its look at the row
(`CancelRead`, `CancelExecution`, `CancelRun`, `AnnounceCancelled`); the route has no
`await`, so a process serves one at a time, and `Cancellers` is the set of processes.
`request` says whether the last cancel still stands in the row or `running` was
written over it, and `wasted` counts the executions since: at most one for a cancel
that stands; for one that was overwritten (`orchestrator.py:360` after the look at
line 359) every execution of the run. `Fault` makes a call raise, kills the process
of the thread, or drops a cancel request between two calls.

Free choices: what retrieval finds, whether the provider answers, whether a
program is valid, what it emits and how it ends.

`RunContract` says what a subscriber of the live events may rely on: nothing is
shown while attempts are made, what is shown is stored and stays so, completion
is told once, last, and with everything shown, failure once and never besides
completion. The refinement maps labels to stages (`stage`) and the artifact rows
to `stored`.

### RunStream

Emitters go through `RunStreamService.emit` call by call: fold under the lock, write
outside it, number under the lock, publish on the queues of the process, relay by
Redis. A database call of an emit may raise (`Raise`): the emitter gives the event up
(`unsent`), and if it was the write, the dirty mark is gone already and the state is
`lost`; a write of an older copy loses states in the same sense. Whether an event
changes the state, and so marks it, differs for the terminal one, which only clears
the thinking message (`thinking`). Generators go through `stream_run_events`:
subscribe, read the row, send a snapshot, take events, and poll the row after a
second of silence. A stream state is the set of events folded into it. A client may
leave at any time; one that leaves before its generator was started leaves its queue
behind.

### WarmPool

A step is one critical section of the pool's lock or one exchange over a pipe.
A worker is `up`, `dying` (it has exited or been told to, `poll()` is still None) or
`dead`. `Finally` is the `finally` block of `run`; on `JOB_DONE` it is the second
release. `mixed` records that such a block took a worker from another run, or
returned one that was still executing. A worker that is not ready in time keeps
its `_spawn_all` thread waiting for the end of its stderr (`stuck`). On Linux a
worker forks a child per program and sends heartbeats while the child lives; on
Darwin it executes the program itself and sends none. A signal reaches the worker
only: its child goes on (`Lingers`), holds the worker's stdin and stdout open, and so
keeps its output from ending until `ChildEnds`. `platform` is the one the
service runs on and `HangsOn` are those on which a program may hang, silently or
after a line it has left open (`Ways`). `ReadEnd` is the end of the output, or the
`poll()` after half a second of silence, which does not look again at what was written
meanwhile. The cold subprocess prints lines (`ColdLine`), ends (`EndCold`), or leaves
its run waiting in `readline`, which has no clock (`BlockCold`, `blocked`).

### ProgramOutput

`WarmPool` takes an output line for granted; this module says what becomes of one.
A text is a sequence of pieces: text, newline, an event, the error mark, `JOB_DONE`.
`PrintText`, `PrintLog` and `EmitEvent` are the calls of a program (`display.py`,
`_emit`, the wrapped `print` of `runtime.py`); `EndProgram`, `FlushLogs` and
`ReportError` are the end of `execute_user_code` and of its caller. `held` is what
the program has not flushed, `pipe` what its child process wrote, `output` what the
run reads. `Forward` and `WriteDone` are the parent of the child, `Sort` the prefix
tests of `_run_on_worker` and `on_event`, `Conclude` what `execute_sync` makes of
the return code and the errors. A program may be killed (`Kill`), and the worker
may die. `lost` records marks that continue a line the program left open, which the
prefix tests do not see. `ReadEnd` may leave output behind: both loops look at
`poll()` after a wait without output and do not read again, so that what a cold
subprocess writes between the two, or `readline` has buffered, is dropped, and a
return code of 0 makes the run successful all the same.

### ArtifactStore

`TakeArtifact`, `PutObject`, `PersistRow` and `PersistExecutionLog` are `on_event`
and `execute_sync`; `ReplayArtifact` is `replay_events`, `DiscardRows` and
`AnnounceReset` are what precedes another attempt. The key of an object is what
`runner.py:152` makes of run and type, so a run has one object per offloaded type,
and one type stands for all. A row holds the preview of its artifact and nothing
else: `runner.py` passes no full payload to `persist_artifact`, so what
`build_preview_payload` cuts off an artifact that is not offloaded, for want of a
bucket or of size, is in no place (`RowOf`). The client reads the rows at any point
of the run and then applies the events queued for it.

### Dialogue

A program is a number, 0 the empty one. The module follows it through the places
that keep it: the turns of the conversation (`turns`), the variable of the pipeline
thread (`code`), the row (`row`), the stream state (`shown`), the error told to the
next round (`prior`). `StreamChunk` and `ReceiveProgram` differ by provider as
`llm.py` does; `Corrections` says what a correction can result in: a whole program,
or blocks of which those that do not occur are skipped.

### Startup

`Start`, `LookUp`, `BeginApply`, `CommitApply`, `CollideApply` and
`RecordMigration` are `run_migrations`, a transaction each, in any number of
instances; `ValidateProvider` and `WarmUp` are the start-up hook, `GoDown` a crash
anywhere or a shutdown. Two transactions that create the same object collide when
the second did not see the first; the instance exits and is started again.

### Session

Time is a number; a cookie is the time at which the browser drops it. A request
carries what the browser held when it was sent; `Succeed` and `Refuse` are
`require_auth`, which refreshes both cookies when the marker is missing, except on
a response that the handler returns itself (the event stream).

### Catalog

A retrieval is a sequence of queries, each in a transaction of its own:
`LatestRefresh`, `CountTables` and `PackVersion` decide whether it goes on;
`GetLocal`, `GetRedis`, `BuildSnapshot`, `SetRedis` and `Store` are
`load_snapshot`; `Ground`, `SearchCatalog`, `ExpandTables` and `ExpandNeighbors`
query the catalog again for what the snapshot does not hold. A row is the number
of the refresh that wrote it, and a snapshot or a retrieval is the range `lo .. hi`
of the numbers it has read: scores and texts do not matter to the question which
refresh they come from. The refreshing program is not in the repository
(`BeginRefresh`, `WriteRows`, `EndRefresh`): assumed is that it adds its row to
`ask_catalog_refreshes` before it writes, one kind of rows after the other in any
order, and marks the row `completed` only when all are written. `Expire` forgets an
entry of either cache, which stands for the TTL, for eviction and for restarts.

### JoinPaths

`Link` adds one relationship to the adjacency lists. Then each retrieval goes
through `_build_join_paths`: `Select` takes the selected tables, `Recall` a path
from the memo, `Start`, `Pop`, `Visit`, `Skip`, `EndScan` and `Arrive` search
breadth first, an edge per step, `NotFound` tries from the other end and then goes
on. The memo belongs to the snapshot and is filled by all of them. An edge is
reduced to the table it leads to, so several relationships between two tables are
equal edges. The claims speak of the rows of the catalog (`Related`), not of the
adjacency lists, so that `Link` is checked with the search.

## Runs

| Run | Shows |
|---|---|
| `Lifecycle` | the records of a run, that it implements `RunContract`, and that it settles and says so, with two cancelling processes and one fault anywhere |
| `StreamPair` | with two emitters and a call that raises, no subscriber misses an event, no stream closes before the end, and a state is unsaved only where a write raised or an older copy was written last |
| `StreamRedis` | with Redis in one process and a call that raises, events are sent once and streams close |
| `PoolSafe` | on Linux, workers are neither used up, lost nor left behind; two runs share one only through the finally block |
| `PoolLive` | on both platforms, with programs that hang on Darwin, every run returns, raises or waits for the rest of a line of a cold subprocess, whoever dies |
| `CatalogReads` | while the catalog is refreshed, answers and cached snapshots do not mix refreshes unless a new one has begun, and do not go back |
| `JoinSearch` | each selected table gets a shortest path of at most three relationships if there is one, and the memo is stable under races |
| `Services` | `ProgramOutput`, `ArtifactStore`, `Dialogue`, `Startup` and `Session`, one per behaviour: success means success and events arrive without a gap, objects and clients are of the last execution, programs and turns agree, instances come up migrated, active sessions live on |
| `CancelDocstring` | violated: a cancelled row is overwritten (`orchestrator.py:345`) |
| `StreamFar` | violated: event ids of two processes collide and an event is dropped (`api.py:141`) |
| `PoolNoOp` | violated: the second release is not a no-op (`codebox_pool.py:326`) |
| `PoolHang` | violated: a hanging program is not stopped on Linux (`runner.py:100`) |

Bounds. `Lifecycle` has one correction and one regeneration, which reach a
program corrected, refused and written anew in each round; one artifact and a log
per execution, which tell attempts apart; two cancelling processes, whose calls
interleave; one fault, since a second one in the handler is the thread's death that
`Crash` already covers (458,350 states). The theorems cover the limits of the code
(5 and 1) and any others. `StreamPair` and `StreamRedis` let the
thread emit three events, the last one terminal: one before, one at and one after
any point of a subscriber. One call raises (`MaxRaised`); in
`StreamFar` none, so that the order of steps is the only cause. `PoolSafe` has three
runs, because the overlap of two releases needs a third run to acquire the worker, and
two workers of two uses each for a pool of one, so that a worker is reused, worn out
while a run is still to come, and replaced; when none is left a run is cold
(2,641,405 states up to symmetry). It runs on Linux with programs that end: one that
hangs only stays where one that ends may wait for as long as it likes. Its invariants
are proved for both platforms, and for programs that hang; before that, TLC checked
them on Darwin with two runs. `PoolLive`
has three runs and one worker of three uses, so that all three share it, on Linux with
programs that end and on Darwin, where a time-out may fall in the middle of a program,
also with programs that hang; without symmetry, which liveness excludes, no lines but
open ones (`MaxLines` 0) is what fits (638,506 states). `PoolHang` and `PoolNoOp` are
about Linux. `MaxLines` is one elsewhere: a line before a failure makes the failure
final. `CatalogReads` has two retrievals
and two refreshes, either of which may fail, with both caches: one retrieval
leaves a snapshot, possibly a mixed one, and the other finds it or has lost it. A
second process would only add caches that are as good as expired. `JoinSearch` has
all graphs of four tables whose relationships lead from the lower to the higher
one, which covers every shape, and four larger ones with a path of four
relationships, a loop, double relationships, and shortest paths that differ there
and back; the retrievals select the same or different tables, in both orders.

`Services` checks five components that share no variable, in one run: `part` picks
the component of a behaviour and the others stay at rest, so that the state graph is
the union of theirs (90,617 states). Three writes of a program are an open line, what
continues it and something after; two attempts of two artifacts are a failed one and
one that overwrites its object, with the log and with two objects of one key; two
corrections, one regeneration and one chunk reach each place a program is kept
twice; two instances, three migrations and one crash let one instance be anywhere
while the other starts, collides or is started again; a lifetime of 5 makes the
marker's half of it differ from the rest, and in 11 ticks a cookie is refreshed
twice by two overlapping requests.

Symmetry is used in safety runs only. `CHECK_DEADLOCK FALSE` throughout, since a
run, a stream, a retrieval and a pool without runs do come to rest.

Fairness. The pipeline thread, emitters, generators, runs of the pool, workers and
spawning threads are operating-system threads or processes, so each is weakly fair. A
cancel request that found the run in flight is served (`CancelContinues`), but none
need arrive; no fault, crash, disconnection or shutdown is fair. In `RunLifecycle`
fairness includes that a launched program ends, which `PoolHang` shows to be an
assumption about programs and not a guarantee of the pool. In `WarmPool` a run is one
fair action, whose cold subprocess may also block, and that a lingering child ends is
fair only for programs that do end. The liveness of `RunLifecycle` is claimed under
faults too, unless the thread itself is lost, or, for the verdict, a fault hit. In
`ProgramOutput` programs, workers and runs go on and programs end; the idle clock
runs for runs on a worker only, because the loop of a cold subprocess waits for the
rest of a line without a clock. In `Startup` processes run, and whatever supervises
an instance starts it again when it has exited, which is an assumption about the
deployment.

## Proofs

`RunLifecycleProofs` proves, for any retry limits, number of artifacts, set of
cancelling processes and number of faults (`RunLifecycleAssumption`: the bounds
are natural numbers):

- `TypeCorrect`, `CompletedCorrect`, `ReturnCorrect`, `CancelBound`: the
  type invariant and the invariants `CompletedIsOnePiece`, `ReturnsTerminal`
  and `CancelCostsOneExecution`, which bounds the executions after a cancel that
  stands and says of one that was overwritten that no execution came before it;
- `LaunchCorrect`: the action property `LaunchesClean`;
- `ContractKept`: `RunLifecycle` implements `RunContract`.

`CompletedIsOnePiece` is not inductive: it says something only once the row is
completed, and what makes it true was established many calls before. `Inv`
carries it along, label by label: which program is saved and shown
(`InHand`), that the message was written (`Answered`), whose artifacts are stored
(`Stored`), what is shown (`Showing`). `InitInv`, `PipelineInv` (a step per
action), `CancelInv` and `FaultInv` give `StepInv`. The refinement uses the same
invariant: `ContractPipeline` maps each call to a step of the contract.

Its second part proves `RetryBudgetCorrect` and `RecordsAgreeCorrect`. A bound on
launches is not inductive because the counters are reset between rounds: `Budget`
charges each finished round with all it may have run and the current one with the
corrections it has used. `Told` says at which calls of an uncancelled run the
execution row is closed already and a verdict may have been told, so that a fault in
between finds an error path that completes the rest.

`RunStreamProofs` proves, for any emitters, subscribers, processes and numbers of
events, with Redis or without (`RunStreamAssumption`), `StreamTypeCorrect`,
`NothingUnsavedCorrect` and `ClosesCompleteCorrect`; and `NoGapCorrect` and
`SentOnceCorrect` under the assumption of a single process, without which they are
false (`StreamFar`). `Folded` says which events are in the memory of a process,
`Marked` that what a process holds and has not saved is marked, on its way or lost for
one of the two reasons that `NothingUnsaved` names, `Told` what a
subscriber knows that was told the end, and `NumberedOnce` that no two messages on
their way share a number unless they are the same event.

`WarmPoolProofs` proves, for any runs, workers, size, use limit, length of output and
platforms, with programs that hang (`WarmPoolAssumption`), all invariants of
`PoolSafe`. `Placed` says of each process that it is new and unused,
in the list and free with a use left, in the list with a run that will still release
it, or not running; the types, with the use limit, and `NoLeak` follow. `Handed` gives
`SingleSource`. For `Exclusive`, `Clean` and `Owned` describe the pipes: a process that
is not in the list holds nothing, the end of an output is its last entry and comes
after the child's last line, and while nothing was mixed up a worker in use has one
user, whose job alone is in it and its pipes, and one that can be acquired holds
nothing. The last point is what `JOB_DONE` has to establish: nothing but the end
follows it. `NoOrphan` needs, besides `Placed`, where the job of a run may be:
`Located` says with the worker it acquired, or the child of that, only, and `Settled`
that after its `JOB_DONE` it is nowhere.

`ServiceProofs` proves, for any instances, migrations and crashes, that an instance
which is ready or serves has every migration (`ServesMigratedCorrect`), from
`MigratedInOrder`: schema and names grow in order, a name only after its migration,
and what an instance has passed stays passed. It also proves
`ActiveStaysSignedInCorrect` for any lifetime, latency and overlap of requests. The
invariant `CookiesInStep` relates the two cookies: they were set together, and a
request that carried the marker was sent before the marker of the browser expires,
so that the last success set the cookie or came early enough in its life.

`CatalogProofs` proves, for any retrievals, processes and number of refreshes,
with Redis or without (`CatalogAssumption`), all invariants of `CatalogReads`:
`CatalogTypeCorrect` (a retrieval that has passed the checks of the status holds a
refresh to ask for), `AnswersCoherentCorrect`, `CachesCoherentCorrect` and
`MonotoneReadsCorrect`. The key is `Completed`: once a retrieval has seen a refresh
completed, no row is ever older than that refresh again, and none is newer until the
next one begins. `Inv` says so of every entry of the caches (`CacheInv`) and of
every retrieval by stage (`RetrievalInv`), and one more query keeps a range within
it (`Widen`), whichever query it is. Serving from a cache needs no case of its own:
an entry satisfies what a fresh snapshot satisfies.

`JoinPathsProofs` proves, for any catalog, selections, number of threads and bound
on the edges (`JoinPathsAssumption`: selected tables are distinct), everything that
`JoinSearch` checks. `JoinTypeCorrect` and `PathsJoinCorrect` follow from `Inv`:
queued paths are trails through visited tables (`Trail`) to different tables, the
table searched for has not been visited, and so a path that arrives is a walk
without repetition (`Extend`).

`JoinsNearestCorrect` and `MemoStableCorrect` need to know which walk it is, which
is what `NearestInv` adds. A path is `Best` if none with the same ends has fewer
edges and it is ahead of every other with as many: where the two part, it takes the
edge that comes first in the adjacency list (`Ahead`). There is at most one such
path (`BestIsOne`), so that two threads that search for the same ends put the same
one into the memo. That the search finds it is the invariant `SearchingInv`: the
paths that wait are the best ones to their tables, as long as the path in hand or
one longer (`LevelInv`), and in the order `Ahead` (`OrderInv`); and a table that has
been visited still has its path waiting, or all its neighbours have been visited,
or it is too far to matter (`CoverInv`). Hence all tables nearer than the paths that
wait have been visited (`BallVisited`), a path continued to a table not visited is
the best one to it (`NextBest`), and an empty queue means that the table searched
for is too far (`NotFoundFar`). Since relationships lead both ways (`GraphWhole`,
`WayBack`) it is then too far from the other end as well, and the second search of
`_build_join_paths` finds nothing (`SettledInv`). TLC checked an
equivalent of `NearestInv`, which quantifies over the paths of the graph instead of
all sequences of tables, on the graphs of `JoinSearch` with bounds of 3, 2 and 0
edges before it was proved.

Nothing here is induction over data. `Ball` is a recursive function on numbers;
that it exists (`BallsExist`, `BallFacts`), and what holds of all distances, is
shown by way of the least number that is an exception (`LeastNat`, `UpTo`).

`AttemptProofs` is about `Dialogue` and `ArtifactStore`. For any numbers of
corrections, regenerations and chunks (`DialogueAssumption`) it proves
`TurnsFaithfulCorrect` and `ShowsWhatRunsCorrect` from `DialogueInv`: what was
executed in each round (`RoundsInOrder`), where the program in hand is already kept,
stage by stage (`InPlace`), and that the turns are those of the programs executed,
with one more while a corrected program is on its way (`Remembered`). For any
numbers of attempts, at least one, and artifacts (`ArtifactStoreAssumption`) it
proves `ObjectsCurrentCorrect` and `ClientConvergesCorrect` from `StoreInv`. The
properties speak of completed runs only; `PayloadInv` says at every step that the last
row that names an object has its payload there, or, between `put_json` and the row,
that the artifact about to be stored has (`Offloading`); `MadeInv` that the rows are the
last artifacts made; and `ClientInv` what a client will show once it has taken what
is queued for it, which differs with whether the reset event is among that.

`ProgramOutputProofs` proves `OutcomeToldCorrect` and `EventsDeliveredCorrect`, in
each mode and for any number of writes (`ProgramOutputAssumption`). Output and pipe
are read one after the other, and the invariant is about their concatenation
(`Written`): every mark in it is followed by a newline and is lost exactly if it
continues an open line (`Tidy` in `LineInv`), the events that are neither lost nor
read are still in it, in order and after those that were read (`EventInv`), and an end
or an error that is not lost is in it until it is read (`EndInv`). A run that leaves
some of it unread thus lacks only what comes after everything it has, which can be the
case of a cold subprocess alone, since reading `JOB_DONE` leaves nothing.

Model-checked only: `SettlesForGood`, `VerdictFollows`, `StreamsClose`, `RunsEnd`,
`RunsConclude` and `ComesUp`, which are liveness properties under fairness and out of
the prover's reach. All invariants and action properties of the passing runs are
proved.

## Where code and text disagree

Four runs show a claim of the source violated; `PROJECT.json` quotes it
(`findings`). Others came up while modelling. They are part of the modules as the
code has them, and no run is about them:

- `artifacts.py:49-50` says of a large artifact that "the full payload moves to object
  storage"; the key that `runner.py:152` gives it names the run and the type only, so
  that the second large artifact of a type replaces the payload of the first, whose row
  still names the object (`ObjectsCurrent` claims it of the last such row alone);
- `runner.py:149` to `165` hand the preview to `persist_artifact` and not the payload,
  so that what the preview cuts off is lost for every artifact that is not offloaded;
- a cold subprocess that writes its last lines between `select` and `poll()`
  (`codebox_pool.py:409-412`) succeeds without them (`EventsDelivered` states it);
- the docstring of `_emit` (`orchestrator.py:91`) says that the persisted stream state
  is updated. It is written outside the lock after its mark was dropped
  (`run_stream.py:134-140`): a write that raises leaves the state unsaved, and so does
  an emitter with an older copy that writes last (`NothingUnsaved` names both);
- `runner.py:100` promises that an overrunning subprocess is killed. On Linux
  `terminate()` and `kill()` reach the worker only (`codebox_pool.py:306`), and the
  child that executes the program of a run that was timed out goes on (`Lingers`);
- `codebox_pool.py:343-344` says of a worker whose output ended before `JOB_DONE` that
  it "will be retired and replaced"; at line 270 `poll()` may still be None, and the
  worker goes back to the list, where it is never taken nor replaced once it is dead
  (`Finally`);
- `runner.py:117` says that artifacts of an attempt in progress are not sent to the
  client; the snapshot of one that joins meanwhile lists them (`SnapshotRows`), and
  the reset event takes them away again (`ClientConverges`);
- a line that a program leaves open swallows the event, error or `JOB_DONE` that
  continues it; the status that `waitpid` returns for a killed child is ignored, and
  its run counts as successful (`OutcomeTold` states both exceptions);
- the loop of a cold subprocess waits for the rest of a line without a clock;
- `config.py:67` says that a session ends after its lifetime of inactivity; a user
  who pauses for longer than half of it may be signed out. A handler that returns a
  `StreamingResponse` refreshes no cookie, and a request under way when the user
  signs out may set the cookies again;
- the provider class for unknown settings names its parameters `_on_chunk` and
  `_current_code`, so that the calls of the pipeline raise `TypeError`.

## Not modelled

- Pure functions of text, time and numbers: the cut of the stdout tail and the
  planning text of the stream state (`run_stream.py`), how a preview picks its rows,
  query binding, periods, charts, frames and reports of `supe_lib`, and the wording
  of prompts. They keep no state, and the source states nothing about their results
  that would differ from their definitions.
- Scores of tables and questions (`question_taxonomy.py`, the ranking in
  `retrieval.py`): heuristics. `Catalog` has their queries, with a free choice of
  what they find.
- The rules of `validator.py`: a fixed table over the syntax tree. `RunLifecycle` and
  `Dialogue` accept or refuse freely.
- `execution_subprocess.py`, `runtime_env.py` and the asynchronous
  `launch`/`_execute` pair of `runner.py`: no path of the service calls them.
- Routes and queries for threads and messages: one statement per request, no state
  between them.
- The provider, PostgreSQL, Redis and S3 themselves, of which the modules assume
  what their comments say; settings, which are CONSTANTS; logging and metrics.
- Four hazards have no property. For three nothing in the source says what should
  hold: subscriptions and stream states that are never removed, a pool that two threads
  fill beyond its size, and a thread that waits for the stderr of a worker that is
  not ready. For the fourth, a worker that stays in the list after its output has
  ended, the source says what the code does not keep (see above).
