--------------------------- MODULE ArtifactStore ---------------------------
(***************************************************************************)
(* The artifacts of one run: their rows in Postgres, their payloads in S3, *)
(* and what a client shows that joins while they are made (runner.py,      *)
(* services/artifacts.py, artifact_utils.py, routes/api.py).               *)
(*                                                                         *)
(* An execution stores each artifact as its program emits it, call by      *)
(* call.  A failed one is followed by the deletion of the rows, the reset  *)
(* event and another attempt; a successful one by the replay of what was   *)
(* buffered.  A client subscribes, reads the rows, and then applies the    *)
(* events that were queued for it.                                         *)
(***************************************************************************)
EXTENDS Integers, SequencesExt

CONSTANTS
    MaxAttempts,    \* executions of one run
    MaxEmits        \* artifacts one program emits, its log aside (bound)

\* A run executes its first program in any case.
ASSUME ArtifactStoreAssumption == MaxAttempts \in Nat \ {0} /\ MaxEmits \in Nat

VARIABLES
    bucket,     \* settings.runner_artifact_bucket is set
    step,       \* the next call of the pipeline thread
    attempt,    \* executions so far
    emits,      \* artifacts emitted by the current one
    current,    \* the artifact being stored
    table,      \* the rows of ask_run_artifacts, in the order of their ordinals
    objects,    \* by key, the payload that S3 holds
    buffer,     \* the rows the current execution has buffered
    joined,     \* the client: "away", "subscribed", "showing"
    queue,      \* the events queued for it
    client,     \* the rows it shows
    made        \* every artifact stored or about to be, in order (history)

storeVars == <<bucket, step, attempt, emits, current, table, objects, buffer,
               joined, queue, client, made>>
clientVars == <<joined, queue, client>>

Steps == {"start", "execute", "put", "persist", "log", "ended", "replay",
          "discard", "reset", "completed", "stopped"}

\* An artifact: its attempt, its number (0 is the log), and whether
\* should_offload_artifact holds, for its type and size.  A row holds the preview
\* of the artifact it names, an object the payload.
Artifacts == [attempt : 1 .. MaxAttempts, no : 0 .. MaxEmits, large : BOOLEAN]
Nothing == [no |-> -1]

\* object_key names the run and the type only.
KeyOf(a) == "plotly"
Rows == [artifact : Artifacts, key : {"plotly", "none"}]

StoreInit ==
    /\ bucket = FALSE /\ step = "start" /\ attempt = 0 /\ emits = 0
    /\ current = Nothing /\ table = <<>>
    /\ objects = [key \in {"plotly"} |-> Nothing] /\ buffer = <<>>
    /\ joined = "away" /\ queue = <<>> /\ client = {} /\ made = <<>>

-----------------------------------------------------------------------------
(* The pipeline thread.                                                    *)

\* execute_sync, for the first time or again.
StartAttempt ==
    /\ step = "start"
    /\ step' = "execute"
    /\ bucket' \in IF attempt = 0 THEN BOOLEAN ELSE {bucket}
    /\ attempt' = attempt + 1 /\ emits' = 0 /\ buffer' = <<>>
    /\ UNCHANGED <<current, table, objects, clientVars, made>>

\* on_event: a large payload goes to S3 first, if there is a bucket.
TakeArtifact ==
    /\ step = "execute" /\ emits < MaxEmits
    /\ emits' = emits + 1
    /\ \E large \in BOOLEAN :
           LET a == [attempt |-> attempt, no |-> emits + 1, large |-> large]
           IN  /\ current' = a
               /\ made' = Append(made, a)
               /\ step' = IF bucket /\ a.large THEN "put" ELSE "persist"
    /\ UNCHANGED <<bucket, attempt, table, objects, buffer, clientVars>>

\* An object that is there already stays.
PutObjectOnce ==
    /\ step = "put"
    /\ step' = "persist"
    /\ objects' = IF objects[KeyOf(current)] = Nothing
                  THEN [objects EXCEPT ![KeyOf(current)] = current]
                  ELSE objects
    /\ UNCHANGED <<bucket, attempt, emits, current, table, buffer, clientVars,
                   made>>

\* put_json replaces the object that an artifact before it has put under the key.
PutObject ==
    /\ step = "put"
    /\ step' = "persist"
    /\ objects' = [objects EXCEPT ![KeyOf(current)] = current]
    /\ UNCHANGED <<bucket, attempt, emits, current, table, buffer, clientVars,
                   made>>

\* persist_artifact, given the preview and where the payload is, never the payload:
\* the row holds the preview, also of an artifact that was not offloaded, so that
\* what build_preview_payload cuts off is then nowhere.  The ordinal is one more
\* than the greatest, in a query of its own; no one else adds rows to the run.
RowOf(a) == [artifact |-> a,
             key |-> IF bucket /\ a.large THEN KeyOf(a) ELSE "none"]

PersistRow ==
    /\ step = "persist"
    /\ step' = "execute"
    /\ table' = Append(table, RowOf(current))
    /\ buffer' = Append(buffer, RowOf(current))
    /\ UNCHANGED <<bucket, attempt, emits, current, objects, clientVars, made>>

\* The pool returns, and the log is stored if there is anything in it; or a call
\* of on_event raises, which ends the execution as an error of the program does.
EndExecution ==
    /\ \/ step = "execute" /\ step' \in {"log", "ended"}
       \/ step \in {"put", "persist"} /\ step' = "discard"
    /\ UNCHANGED <<bucket, attempt, emits, current, table, objects, buffer,
                   clientVars, made>>

\* The execution log: a preview without storage, however long it is.
LogOf == [artifact |-> [attempt |-> attempt, no |-> 0, large |-> FALSE],
          key |-> "none"]

PersistExecutionLog ==
    /\ step = "log"
    /\ step' = "ended"
    /\ table' = Append(table, LogOf)
    /\ buffer' = Append(buffer, LogOf)
    /\ made' = Append(made, LogOf.artifact)
    /\ UNCHANGED <<bucket, attempt, emits, current, objects, clientVars>>

CheckResult ==
    /\ step = "ended"
    /\ step' \in {"replay", "discard"}
    /\ UNCHANGED <<bucket, attempt, emits, current, table, objects, buffer,
                   clientVars, made>>

\* An event goes to the queue of each subscriber.
Queued(event) == IF joined = "away" THEN queue ELSE Append(queue, event)

ReplayArtifact ==
    /\ step = "replay" /\ buffer # <<>>
    /\ queue' = Queued(Head(buffer))
    /\ buffer' = Tail(buffer)
    /\ UNCHANGED <<bucket, step, attempt, emits, current, table, objects,
                   joined, client, made>>

CompleteRun ==
    /\ step = "replay" /\ buffer = <<>>
    /\ step' = "completed"
    /\ UNCHANGED <<bucket, attempt, emits, current, table, objects, buffer,
                   clientVars, made>>

\* There is another attempt, and the rows stay.
DiscardNothing ==
    /\ step = "discard" /\ attempt < MaxAttempts
    /\ step' = "reset"
    /\ UNCHANGED <<bucket, attempt, emits, current, table, objects, buffer,
                   clientVars, made>>

\* There is another attempt, by a correction or a new program: the rows of the
\* failed one are deleted; its objects stay.
DiscardRows ==
    /\ step = "discard" /\ attempt < MaxAttempts
    /\ step' = "reset"
    /\ table' = <<>>
    /\ UNCHANGED <<bucket, attempt, emits, current, objects, buffer, clientVars,
                   made>>

\* The run fails or is cancelled: after an execution, or before the next.
StopRun ==
    /\ step \in {"log", "ended", "discard", "start"} /\ attempt > 0
    /\ step' = "stopped"
    /\ UNCHANGED <<bucket, attempt, emits, current, table, objects, buffer,
                   clientVars, made>>

Reset == [reset |-> TRUE]

AnnounceReset ==
    /\ step = "reset"
    /\ step' = "start"
    /\ queue' = Queued(Reset)
    /\ UNCHANGED <<bucket, attempt, emits, current, table, objects, buffer,
                   joined, client, made>>

RunnerStep ==
    \/ StartAttempt \/ TakeArtifact \/ PutObject \/ PersistRow \/ EndExecution
    \/ PersistExecutionLog \/ CheckResult \/ ReplayArtifact \/ CompleteRun
    \/ DiscardRows \/ AnnounceReset \/ StopRun

-----------------------------------------------------------------------------
(* A client of the event stream.                                           *)

SubscribeClient ==
    /\ joined = "away"
    /\ joined' = "subscribed"
    /\ UNCHANGED <<bucket, step, attempt, emits, current, table, objects, buffer,
                   queue, client, made>>

\* The snapshot lists the rows there are, those of an attempt in progress too.
SnapshotRows ==
    /\ joined = "subscribed"
    /\ joined' = "showing"
    /\ client' = Range(table)
    /\ UNCHANGED <<bucket, step, attempt, emits, current, table, objects, buffer,
                   queue, made>>

ApplyArtifact ==
    /\ joined = "showing" /\ queue # <<>>
    /\ queue' = Tail(queue)
    /\ client' = IF Head(queue) = Reset THEN {} ELSE client \union {Head(queue)}
    /\ UNCHANGED <<bucket, step, attempt, emits, current, table, objects, buffer,
                   joined, made>>

ClientStep == SubscribeClient \/ SnapshotRows \/ ApplyArtifact

-----------------------------------------------------------------------------
StoreNext == RunnerStep \/ ClientStep

StoreSpec == StoreInit /\ [][StoreNext]_storeVars

-----------------------------------------------------------------------------
(* Properties.                                                             *)

\* Every variable has its type.
StoreTypeOK ==
    /\ bucket \in BOOLEAN /\ step \in Steps
    /\ attempt \in 0 .. MaxAttempts /\ emits \in 0 .. MaxEmits
    /\ current \in Artifacts \union {Nothing} /\ table \in Seq(Rows)
    /\ objects \in [{"plotly"} -> Artifacts \union {Nothing}]
    /\ buffer \in Seq(Rows)
    /\ joined \in {"away", "subscribed", "showing"}
    /\ queue \in Seq(Rows \union {Reset}) /\ client \subseteq Rows
    /\ made \in Seq(Artifacts)

\* What a completed run has in object storage is of its last execution, although
\* a retry deletes rows and no objects and the key leaves attempt and ordinal out:
\* the last row that names an object has its payload there, and no failed attempt,
\* call that raised or earlier artifact has left another.
ObjectsCurrent ==
    step = "completed" =>
        \A i \in DOMAIN table :
            /\ table[i].key # "none"
            /\ \A j \in DOMAIN table : j > i => table[j].key # table[i].key
            => objects[table[i].key] = table[i].artifact

\* When a run has completed, a client that has taken every event queued for it
\* shows the rows in the table, and these are the artifacts of the last execution,
\* each once and in order, wherever in the run the client joined.
ClientConverges ==
    step = "completed" =>
        /\ joined = "showing" /\ queue = <<>> => client = Range(table)
        /\ \E k \in 0 .. Len(made) :
               /\ SubSeq(made, k + 1, Len(made)) =
                      [i \in DOMAIN table |-> table[i].artifact]
               /\ \A i \in DOMAIN made : made[i].attempt = attempt <=> i > k
=============================================================================
