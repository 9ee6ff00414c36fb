----------------------------- MODULE RunStream -----------------------------
(***************************************************************************)
(* The live events of one run, from the threads that emit them to the      *)
(* subscribers of GET /runs/{id}/events: RunStreamService, which folds     *)
(* each event into the stream state and numbers it; EventBus, which puts   *)
(* it on the queues of the subscribers of its process and, with the Redis  *)
(* backend, relays it to every process; and the SSE generator, which       *)
(* starts from a snapshot, drops the events it has seen, and closes once   *)
(* the run is over.                                                        *)
(*                                                                         *)
(* An emitter is the pipeline thread of the run or a cancel request.  The  *)
(* last event of each is terminal, and written to the row before it is     *)
(* emitted.  A stream state is the set of events folded into it.  A        *)
(* terminal event only clears the thinking message, and changes nothing    *)
(* when there is none; other events that change nothing are left out.      *)
(* A database call of an emit may raise: then the event is not published,  *)
(* and the emitter goes to its terminal event, or ends if it was there.    *)
(***************************************************************************)
EXTENDS Naturals, Sequences, FiniteSets

CONSTANTS
    Procs,      \* API processes
    Emitters,   \* threads that emit events of the run
    Clients,    \* subscriptions
    Home,       \* the process of an emitter
    At,         \* the process that serves a subscription
    Events,     \* how many events an emitter emits (bound)
    MaxRaised,  \* database calls of an emit that raise (bound)
    Redis       \* event_bus_backend is "redis"

ASSUME RunStreamAssumption ==
    /\ Home \in [Emitters -> Procs]
    /\ At \in [Clients -> Procs]
    /\ Events \in [Emitters -> Nat \ {0}]
    /\ MaxRaised \in Nat
    /\ Redis \in BOOLEAN

VARIABLES
    step,       \* the next call of each emitter
    current,    \* the number of its current event
    snapshot,   \* the copy it is about to write
    number,     \* the id its current event got
    status,     \* ask_runs.status: "running", or the emitter that ended it
    persisted,  \* ask_runs.stream_state
    loaded,     \* processes with the run in RunStreamService._states
    memory,     \* RunStreamService._states
    thinking,   \* processes whose state of the run has a thinking message
    dirty,      \* processes with the run in RunStreamService._dirty_runs
    nextId,     \* RunStreamService._event_ids
    raised,     \* database calls of an emit that raised so far
    lost,       \* events whose state was to be saved, missing in the row (history)
    unsent,     \* events an emitter has given up, its terminal one aside (history)
    phase,      \* the next call of each SSE generator
    queue,      \* its subscription queue
    listening,  \* its Redis SUBSCRIBE is in effect
    relay,      \* messages on their way to its Redis listener
    row,        \* status and stream state in the row it read last
    base,       \* the stream state of the last snapshot it sent
    ended,      \* terminal_snapshot_sent
    seen,       \* seen_ids
    got,        \* the events it sent, in order
    dropped     \* the events it dropped as seen although it had sent none (history)

emitterVars == <<step, current, snapshot, number>>
failureVars == <<raised, lost, unsent>>
serviceVars == <<persisted, loaded, memory, thinking, dirty, nextId, failureVars>>
clientVars == <<phase, row, base, ended, seen, got, dropped>>
busVars == <<queue, listening, relay>>
vars == <<emitterVars, status, serviceVars, clientVars, busVars>>

Event == [by : Emitters, n : Nat \ {0}]
Message == [id : Nat, event : Event]

CurrentEvent(e) == [by |-> e, n |-> current[e]]
IsLast(e) == current[e] = Events[e]

\* The first call for event n: the last is preceded by the update of the row.
Start(e, n) == IF n = Events[e] THEN "write" ELSE "apply"

Subscribed(c) == phase[c] \notin {"new", "closed", "left"}
Elements(s) == {s[i] : i \in DOMAIN s}

Init ==
    /\ step = [e \in Emitters |-> Start(e, 1)]
    /\ current = [e \in Emitters |-> 1]
    /\ snapshot = [e \in Emitters |-> {}]
    /\ number = [e \in Emitters |-> 0]
    /\ status = "running" /\ persisted = {}
    /\ loaded = {} /\ thinking = {} /\ dirty = {}
    /\ memory = [p \in Procs |-> {}]
    /\ nextId = [p \in Procs |-> 1]
    /\ raised = 0 /\ lost = {} /\ unsent = {}
    /\ phase = [c \in Clients |-> "new"]
    /\ queue = [c \in Clients |-> <<>>]
    /\ listening = {}
    /\ relay = [c \in Clients |-> <<>>]
    /\ row = [c \in Clients |-> [status |-> "running", state |-> {}]]
    /\ base = [c \in Clients |-> {}]
    /\ ended = [c \in Clients |-> FALSE]
    /\ seen = [c \in Clients |-> {}]
    /\ got = [c \in Clients |-> <<>>]
    /\ dropped = [c \in Clients |-> {}]

-----------------------------------------------------------------------------
(* Emitters: RunStreamService.emit.                                        *)

Goto(e, from, to) ==
    /\ step[e] = from
    /\ step' = [step EXCEPT ![e] = to]

\* update_run(status) before the terminal event.
WriteStatus(e) ==
    /\ Goto(e, "write", "apply")
    /\ status' = e
    /\ UNCHANGED <<current, snapshot, number, serviceVars, clientVars, busVars>>

\* The state before an event: loaded from the row the first time.
StateIn(p) == IF p \in loaded THEN memory[p] ELSE persisted

\* Does it have a thinking message?  Not told of a row that was saved before.
ThinkingIn(p) ==
    IF p \in loaded THEN {p \in thinking}
    ELSE IF persisted = {} THEN {FALSE} ELSE BOOLEAN

\* update_stream_state, under the lock: fold the event in, and decide whether to
\* write the state: only if it changed since the last write, and then always
\* for a forced event (a terminal one is) and otherwise if a second has passed.
Fold(e, carried) ==
    LET p == Home[e]
        after == StateIn(p) \union {CurrentEvent(e)}
    IN  /\ step[e] = "apply"
        /\ loaded' = loaded \union {p}
        /\ \E thought \in ThinkingIn(p), thinks, flush \in BOOLEAN :
              LET changed == IsLast(e) => thought
                  state == IF changed THEN after ELSE StateIn(p)
                  unsaved == changed \/ (carried /\ p \in dirty)
              IN  /\ IF IsLast(e) THEN ~thinks ELSE thought => thinks
                  /\ thinking' = IF thinks THEN thinking \union {p}
                                 ELSE thinking \ {p}
                  /\ flush => unsaved
                  /\ IsLast(e) => flush = unsaved
                  /\ memory' = [memory EXCEPT ![p] = state]
                  /\ dirty' = IF flush THEN dirty \ {p}
                              ELSE IF changed THEN dirty \union {p} ELSE dirty
                  /\ snapshot' = IF flush THEN [snapshot EXCEPT ![e] = state]
                                 ELSE snapshot
                  /\ step' = [step EXCEPT ![e] = IF flush THEN "flush" ELSE "number"]
        /\ UNCHANGED <<current, number, status, persisted, nextId, failureVars,
                       clientVars, busVars>>

\* Variant: a state that an earlier event left unsaved is not written later.
ApplyChangedOnly(e) == Fold(e, FALSE)

Apply(e) == Fold(e, TRUE)

\* The write itself, after the lock is released: of two emitters the one with
\* the older copy may write last.
Flush(e) ==
    /\ Goto(e, "flush", "number")
    /\ persisted' = snapshot[e]
    /\ lost' = (lost \union persisted) \ snapshot[e]
    /\ snapshot' = [snapshot EXCEPT ![e] = {}]
    /\ UNCHANGED <<current, number, status, loaded, memory, thinking, dirty, nextId,
                   raised, unsent, clientVars, busVars>>

\* The write raises, when the state is no longer dirty, or the first load does.
\* The pipeline thread goes to its error handler, which writes the row and emits
\* a terminal event (again); a cancel request, and the handler itself, end.
Raise(e) ==
    /\ raised < MaxRaised
    /\ raised' = raised + 1
    /\ \/ step[e] = "flush"
       \/ step[e] = "apply" /\ Home[e] \notin loaded
    /\ lost' = (lost \union snapshot[e]) \ persisted
    /\ snapshot' = [snapshot EXCEPT ![e] = {}]
    /\ unsent' = unsent \union
           {[by |-> e, n |-> i] : i \in current[e]..(Events[e] - 1)}
    /\ current' = [current EXCEPT ![e] = Events[e]]
    /\ \/ step' = [step EXCEPT ![e] = "write"]
       \/ IsLast(e) /\ step' = [step EXCEPT ![e] = "done"]
    /\ UNCHANGED <<number, status, persisted, loaded, memory, thinking, dirty, nextId,
                   clientVars, busVars>>

\* next_event_id.
Number(e) ==
    /\ Goto(e, "number", "publish")
    /\ number' = [number EXCEPT ![e] = nextId[Home[e]]]
    /\ nextId' = [nextId EXCEPT ![Home[e]] = @ + 1]
    /\ UNCHANGED <<current, snapshot, status, persisted, loaded, memory, thinking, dirty,
                   failureVars, clientVars, busVars>>

\* The event is out; the emitter goes on to its next one.
NextEvent(e) ==
    /\ number' = [number EXCEPT ![e] = 0]
    /\ IF IsLast(e)
       THEN step' = [step EXCEPT ![e] = "done"] /\ UNCHANGED current
       ELSE /\ current' = [current EXCEPT ![e] = @ + 1]
            /\ step' = [step EXCEPT ![e] = Start(e, current[e] + 1)]

MessageOf(e) == [id |-> number[e], event |-> CurrentEvent(e)]

\* _publish_local: onto every queue subscribed in this process.
Publish(e) ==
    /\ step[e] = "publish"
    /\ queue' = [c \in Clients |->
                    IF Subscribed(c) /\ At[c] = Home[e]
                    THEN Append(queue[c], MessageOf(e)) ELSE queue[c]]
    /\ IF Redis
       THEN step' = [step EXCEPT ![e] = "relay"] /\ UNCHANGED <<current, number>>
       ELSE NextEvent(e)
    /\ UNCHANGED <<snapshot, status, serviceVars, clientVars, listening, relay>>

\* RedisClient.publish: to every listener that is connected, in every process;
\* an exception is swallowed.
Relay(e) ==
    /\ step[e] = "relay"
    /\ \/ relay' = [c \in Clients |->
                       IF c \in listening THEN Append(relay[c], MessageOf(e))
                       ELSE relay[c]]
       \/ UNCHANGED relay
    /\ NextEvent(e)
    /\ UNCHANGED <<snapshot, status, serviceVars, clientVars, queue, listening>>

Emit(e) ==
    \/ WriteStatus(e) \/ Apply(e) \/ Flush(e)
    \/ Number(e) \/ Publish(e) \/ Relay(e)

-----------------------------------------------------------------------------
(* Redis listeners: RedisClient.subscribe_forever, a thread per subscription. *)

Connect(c) ==
    /\ Redis /\ Subscribed(c) /\ c \notin listening
    /\ listening' = listening \union {c}
    /\ UNCHANGED <<emitterVars, status, serviceVars, clientVars, queue, relay>>

\* What is published until the thread has reconnected is lost to it.
Disconnect(c) ==
    /\ c \in listening
    /\ listening' = listening \ {c}
    /\ relay' = [relay EXCEPT ![c] = <<>>]
    /\ UNCHANGED <<emitterVars, status, serviceVars, clientVars, queue>>

Arrive(c) ==
    /\ relay[c] # <<>> /\ Subscribed(c)
    /\ relay' = [relay EXCEPT ![c] = Tail(@)]
    /\ queue' = [queue EXCEPT ![c] = Append(@, Head(relay[c]))]
    /\ UNCHANGED <<emitterVars, status, serviceVars, clientVars, listening>>

Listen(c) == Connect(c) \/ Disconnect(c) \/ Arrive(c)

-----------------------------------------------------------------------------
(* Subscribers: stream_run_events.                                         *)

\* The queue is registered before anything is read.
Subscribe(c) ==
    /\ phase[c] = "new"
    /\ phase' = [phase EXCEPT ![c] = "row"]
    /\ UNCHANGED <<emitterVars, status, serviceVars, row, base, ended, seen,
                   got, dropped, busVars>>

\* get_run.
ReadRow(c) ==
    /\ phase[c] = "row"
    /\ row' = [row EXCEPT ![c] = [status |-> status, state |-> persisted]]
    /\ phase' = [phase EXCEPT ![c] = "snapshot"]
    /\ UNCHANGED <<emitterVars, status, serviceVars, base, ended, seen, got,
                   dropped, busVars>>

\* Variant: the state is taken from the row, whatever the process holds.
SendSnapshotOfRow(c) ==
    /\ phase[c] = "snapshot"
    /\ base' = [base EXCEPT ![c] = row[c].state]
    /\ seen' = [seen EXCEPT ![c] = @ \union {nextId[At[c]]}]
    /\ nextId' = [nextId EXCEPT ![At[c]] = @ + 1]
    /\ ended' = [ended EXCEPT ![c] = row[c].status # "running"]
    /\ phase' = [phase EXCEPT ![c] = "live"]
    /\ UNCHANGED <<emitterVars, status, persisted, loaded, memory, thinking, dirty,
                   failureVars, row, got, dropped, busVars>>

\* build_snapshot_event: the state this process holds, else the one in the row,
\* under a fresh id.
SendSnapshot(c) ==
    /\ phase[c] = "snapshot"
    /\ base' = [base EXCEPT ![c] = IF At[c] \in loaded THEN memory[At[c]]
                                   ELSE row[c].state]
    /\ seen' = [seen EXCEPT ![c] = @ \union {nextId[At[c]]}]
    /\ nextId' = [nextId EXCEPT ![At[c]] = @ + 1]
    /\ ended' = [ended EXCEPT ![c] = row[c].status # "running"]
    /\ phase' = [phase EXCEPT ![c] = "live"]
    /\ UNCHANGED <<emitterVars, status, persisted, loaded, memory, thinking, dirty,
                   failureVars, row, got, dropped, busVars>>

\* Variant: nothing is skipped.
TakeAll(c) ==
    /\ phase[c] = "live" /\ queue[c] # <<>>
    /\ got' = [got EXCEPT ![c] = Append(@, Head(queue[c]).event)]
    /\ seen' = [seen EXCEPT ![c] = @ \union {Head(queue[c]).id}]
    /\ queue' = [queue EXCEPT ![c] = Tail(@)]
    /\ UNCHANGED <<emitterVars, status, serviceVars, phase, row, base, ended,
                   dropped, listening, relay>>

\* Variant: the relayed message is sent in place of its event.
TakeWhole(c) ==
    /\ phase[c] = "live" /\ queue[c] # <<>>
    /\ got' = [got EXCEPT ![c] = Append(@, Head(queue[c]))]
    /\ seen' = [seen EXCEPT ![c] = @ \union {Head(queue[c]).id}]
    /\ queue' = [queue EXCEPT ![c] = Tail(@)]
    /\ UNCHANGED <<emitterVars, status, serviceVars, phase, row, base, ended,
                   dropped, listening, relay>>

\* queue.get: an event whose id was seen is skipped.
Take(c) ==
    /\ phase[c] = "live" /\ queue[c] # <<>>
    /\ LET m == Head(queue[c]) IN
       IF m.id \in seen[c]
       THEN /\ dropped' = IF m.event \in Elements(got[c]) THEN dropped
                          ELSE [dropped EXCEPT ![c] = @ \union {m.event}]
            /\ UNCHANGED <<seen, got>>
       ELSE /\ seen' = [seen EXCEPT ![c] = @ \union {m.id}]
            /\ got' = [got EXCEPT ![c] = Append(@, m.event)]
            /\ UNCHANGED dropped
    /\ queue' = [queue EXCEPT ![c] = Tail(@)]
    /\ UNCHANGED <<emitterVars, status, serviceVars, phase, row, base, ended,
                   listening, relay>>

\* queue.get raises Empty after a second.
TimeOut(c) ==
    /\ phase[c] = "live" /\ queue[c] = <<>>
    /\ phase' = [phase EXCEPT ![c] = "poll"]
    /\ UNCHANGED <<emitterVars, status, serviceVars, row, base, ended, seen,
                   got, dropped, busVars>>

\* Variant: a terminal row closes the stream at once.
PollHasty(c) ==
    /\ phase[c] = "poll"
    /\ phase' = [phase EXCEPT ![c] = IF status = "running" THEN "live" ELSE "closed"]
    /\ row' = [row EXCEPT ![c].status = status]
    /\ UNCHANGED <<emitterVars, status, serviceVars, base, ended, seen, got,
                   dropped, busVars>>

\* Variant: the last snapshot is sent, and the pings go on.
PollEndless(c) ==
    /\ phase[c] = "poll"
    /\ phase' = [phase EXCEPT ![c] = IF status # "running" /\ ~ended[c]
                                    THEN "snapshot" ELSE "live"]
    /\ row' = [row EXCEPT ![c] = [status |-> status, state |-> persisted]]
    /\ UNCHANGED <<emitterVars, status, serviceVars, base, ended, seen, got,
                   dropped, busVars>>

\* get_run again: a ping while the run goes on, a last snapshot when it is over,
\* and the end when that was sent.
Poll(c) ==
    /\ phase[c] = "poll"
    /\ IF status = "running"
       THEN phase' = [phase EXCEPT ![c] = "live"] /\ UNCHANGED <<row, busVars>>
       ELSE IF ended[c]
       THEN /\ phase' = [phase EXCEPT ![c] = "closed"]
            /\ listening' = listening \ {c}
            /\ relay' = [relay EXCEPT ![c] = <<>>]
            /\ queue' = [queue EXCEPT ![c] = <<>>]
            /\ UNCHANGED row
       ELSE /\ phase' = [phase EXCEPT ![c] = "snapshot"]
            /\ row' = [row EXCEPT ![c] = [status |-> status, state |-> persisted]]
            /\ UNCHANGED busVars
    /\ UNCHANGED <<emitterVars, status, serviceVars, base, ended, seen, got,
                   dropped>>

\* The client goes away.  The generator's finally block closes the subscription,
\* unless the generator was never started: then nothing does.
Leave(c) ==
    /\ \/ phase[c] = "live" /\ phase' = [phase EXCEPT ![c] = "left"]
       \/ phase[c] = "row" /\ phase' = [phase EXCEPT ![c] = "leaked"]
    /\ listening' = IF phase[c] = "live" THEN listening \ {c} ELSE listening
    /\ relay' = [relay EXCEPT ![c] = IF phase[c] = "live" THEN <<>> ELSE @]
    /\ queue' = [queue EXCEPT ![c] = IF phase[c] = "live" THEN <<>> ELSE @]
    /\ UNCHANGED <<emitterVars, status, serviceVars, row, base, ended, seen,
                   got, dropped>>

Serve(c) ==
    ReadRow(c) \/ SendSnapshot(c) \/ Take(c) \/ TimeOut(c) \/ Poll(c)

-----------------------------------------------------------------------------
Next ==
    \/ \E e \in Emitters : Emit(e) \/ Raise(e)
    \/ \E c \in Clients : Listen(c) \/ Subscribe(c) \/ Serve(c) \/ Leave(c)

Spec == Init /\ [][Next]_vars

\* Emitters and generators are threads the operating system runs.
FairSpec ==
    /\ Spec
    /\ \A e \in Emitters : WF_vars(Emit(e))
    /\ \A c \in Clients : WF_vars(Serve(c))

-----------------------------------------------------------------------------
(* Properties.                                                             *)

Live(c) == phase[c] \in {"live", "poll"}

\* The events an emitter has put on the queues of its process, without its
\* terminal event: that one a snapshot may tell by the row alone.
Published(e) ==
    {[by |-> e, n |-> i] :
        i \in 1..(IF step[e] = "relay" /\ ~IsLast(e) THEN current[e]
                  ELSE current[e] - 1)} \ unsent

\* The events a subscriber knows of, or will when it has read its queue.
Reach(c) ==
    base[c] \union Elements(got[c])
            \union {m.event : m \in Elements(queue[c])}

\* Every variable has its type.
TypeOK ==
    /\ step \in [Emitters -> {"write", "apply", "flush", "number", "publish",
                              "relay", "done"}]
    /\ current \in [Emitters -> Nat \ {0}]
    /\ snapshot \in [Emitters -> SUBSET Event]
    /\ number \in [Emitters -> Nat]
    /\ status \in {"running"} \union Emitters
    /\ persisted \subseteq Event
    /\ loaded \subseteq Procs /\ thinking \subseteq Procs /\ dirty \subseteq Procs
    /\ memory \in [Procs -> SUBSET Event]
    /\ nextId \in [Procs -> Nat]
    /\ raised \in 0..MaxRaised /\ lost \subseteq Event /\ unsent \subseteq Event
    /\ phase \in [Clients -> {"new", "row", "snapshot", "live", "poll", "closed",
                           "left", "leaked"}]
    /\ queue \in [Clients -> Seq(Message)]
    /\ listening \subseteq Clients
    /\ relay \in [Clients -> Seq(Message)]
    /\ row \in [Clients -> [status : {"running"} \union Emitters, state : SUBSET Event]]
    /\ base \in [Clients -> SUBSET Event]
    /\ ended \in [Clients -> BOOLEAN]
    /\ seen \in [Clients -> SUBSET Nat]
    /\ got \in [Clients -> Seq(Event)]
    /\ dropped \in [Clients -> SUBSET Event]

\* A subscriber of the emitter's process misses nothing, whenever it subscribed:
\* what was published before its queue existed is in its snapshot, and the rest
\* is in what it was sent or is still queued.  It rests on two orders: the
\* queue is registered before the state is read, and the state is updated
\* before the event is published.
NoGap ==
    \A c \in Clients, e \in Emitters :
        Live(c) /\ At[c] = Home[e] => Published(e) \subseteq Reach(c)

\* An event that reaches a subscriber twice, by its queue and by Redis, is sent
\* once.  (Not always in order: one published just before the subscription
\* arrives by the listener alone, after later ones.)
SentOnce ==
    \A c \in Clients : \A i, j \in DOMAIN got[c] : i < j => got[c][i] # got[c][j]

\* A stream that closes has told its subscriber the outcome: its last snapshot
\* had a terminal row, and every event of the emitter that ended the run, its
\* terminal event and those it gave up aside, is in that snapshot or was sent.
ClosesComplete ==
    \A c \in Clients : phase[c] = "closed" =>
        /\ row[c].status # "running"
        /\ At[c] = Home[row[c].status] =>
             \A i \in 1..(Events[row[c].status] - 1) :
                 [by |-> row[c].status, n |-> i]
                     \in base[c] \union Elements(got[c]) \union unsent

\* What the process of a run has folded in is in the row, or is still marked
\* dirty or on its way there, unless it was lost in one of two ways: the write
\* raised, after the mark was dropped, or a copy older than the row was written
\* over it, which takes two emitters.  A run that is over is saved but for that.
NothingUnsaved ==
    \A p \in Procs : (\A e \in Emitters : Home[e] = p) =>
        /\ \/ p \in dirty
           \/ memory[p] \subseteq
                persisted \union lost \union UNION {snapshot[e] : e \in Emitters}
        /\ (\A e \in Emitters : step[e] = "done") =>
              memory[p] \subseteq persisted \union lost
        /\ raised = 0 /\ (\A d, e \in Emitters : d = e) => lost = {}

\* Every stream that was opened closes once the run is over, unless its client
\* goes away first.
StreamsClose ==
    \A c \in Clients :
        phase[c] = "row" ~> phase[c] \in {"closed", "left", "leaked"}

\* The docstring of stream_run_events: live run events are streamed.  None is
\* taken for one that was sent.
NothingDropped == \A c \in Clients : dropped[c] = {}

=============================================================================
