-------------------------- MODULE RunStreamProofs --------------------------
(***************************************************************************)
(* Theorems about RunStream, for every set of emitters, subscribers and    *)
(* processes, with Redis or without.                                       *)
(*                                                                         *)
(* None of the properties is inductive.  Folded says what of an emitter is *)
(* in the memory of its process; Marked that what a process holds and has  *)
(* not saved belongs to an emitter whose last event is still to be folded  *)
(* in; Told what a subscriber that was sent the end of a run was sent      *)
(* before.  NumberedOnce says that a number is that of one event, wherever *)
(* a message with it is on its way; it needs a single process, because two *)
(* number their events without asking each other (run_stream.py 86-88),    *)
(* and so do NoGap and SentOnce.                                           *)
(***************************************************************************)
EXTENDS RunStream, SequenceTheorems, TLAPS

\* How many events of an emitter are folded into the state of its process, its
\* last one aside.
FoldedTo(e) ==
    IF step[e] \in {"flush", "number", "publish", "relay"} /\ ~IsLast(e)
    THEN current[e] ELSE current[e] - 1

\* What is folded stays in the memory of the process, which then holds the run;
\* what an emitter has passed over it has given up.
Folded ==
    \A e \in Emitters : \A i \in 1 .. FoldedTo(e) :
        \/ [by |-> e, n |-> i] \in unsent
        \/ /\ Home[e] \in loaded
           /\ [by |-> e, n |-> i] \in memory[Home[e]]

\* An emitter writes the row when it is at its last event, and stops there.
InOrder ==
    \A e \in Emitters :
        /\ current[e] \in 1 .. Events[e]
        /\ step[e] \in {"write", "done"} => IsLast(e)

-----------------------------------------------------------------------------
(* Sequences.                                                              *)

\* What a queue holds after one more entry.
LEMMA AppendElements ==
    ASSUME NEW S, NEW s \in Seq(S), NEW x \in S
    PROVE  /\ Append(s, x) \in Seq(S)
           /\ Elements(Append(s, x)) = Elements(s) \union {x}
  <1> DEFINE t == Append(s, x)
  <1>1. /\ t \in Seq(S) /\ DOMAIN s = 1 .. Len(s) /\ DOMAIN t = 1 .. Len(s) + 1
        /\ Len(s) \in Nat /\ t[Len(s) + 1] = x
        /\ \A i \in 1 .. Len(s) : t[i] = s[i]
    OBVIOUS
  <1> HIDE DEF t
  <1>2. Elements(t) = Elements(s) \union {x}
    <2>1. \A i \in DOMAIN t : i \in DOMAIN s \/ i = Len(s) + 1
      BY <1>1
    <2>2. DOMAIN s \subseteq DOMAIN t /\ Len(s) + 1 \in DOMAIN t
      BY <1>1
    <2> QED
      BY <1>1, <2>1, <2>2 DEF Elements
  <1> QED
    BY <1>1, <1>2 DEF t

\* What a queue holds before its head is taken.
LEMMA TailElements ==
    ASSUME NEW S, NEW s \in Seq(S), s # <<>>
    PROVE  /\ Head(s) \in S /\ Tail(s) \in Seq(S)
           /\ Elements(s) = {Head(s)} \union Elements(Tail(s))
  <1>1. Head(s) \in S /\ Tail(s) \in Seq(S) /\ Len(s) > 0
    OBVIOUS
  <1>2. ASSUME NEW x \in Elements(s) PROVE x \in {Head(s)} \union Elements(Tail(s))
    <2>1. PICK i \in 1 .. Len(s) : x = s[i]
      BY <1>2 DEF Elements
    <2>2. CASE i = 1
      BY <2>1, <2>2
    <2>3. CASE i # 1
      <3>1. i - 1 \in DOMAIN Tail(s) /\ x = Tail(s)[i - 1]
        BY <2>1, <2>3
      <3> QED
        BY <3>1 DEF Elements
    <2> QED
      BY <2>2, <2>3
  <1>3. ASSUME NEW x \in Elements(Tail(s)) PROVE x \in Elements(s)
    <2>1. PICK i \in 1 .. Len(Tail(s)) : x = Tail(s)[i]
      BY <1>3 DEF Elements
    <2>2. i + 1 \in 1 .. Len(s) /\ x = s[i + 1]
      BY <2>1
    <2> QED
      BY <2>2 DEF Elements
  <1>4. Head(s) \in Elements(s)
    BY <1>1 DEF Elements
  <1> QED
    BY <1>1, <1>2, <1>3, <1>4

\* An empty queue holds nothing.
LEMMA NoElements == Elements(<<>>) = {}
  BY DEF Elements

-----------------------------------------------------------------------------
(* Types.                                                                  *)

\* The message of an emitter that is at an event is a message.
LEMMA MessageType ==
    ASSUME TypeOK, NEW e \in Emitters
    PROVE  CurrentEvent(e) \in Event /\ MessageOf(e) \in Message
  BY DEF TypeOK, CurrentEvent, MessageOf, Event, Message

\* What the folding of an event does: it may leave the state as it was, when the
\* event is the last; the last is written if the state then differs from the row.
LEMMA Folding ==
    ASSUME NEW e \in Emitters, Apply(e)
    PROVE  \E changed, thinks, flush \in BOOLEAN :
             LET p == Home[e]
                 state == IF changed THEN StateIn(p) \union {CurrentEvent(e)}
                          ELSE StateIn(p)
             IN  /\ ~changed => IsLast(e)
                 /\ IsLast(e) => flush = (changed \/ p \in dirty)
                 /\ thinking' = IF thinks THEN thinking \union {p} ELSE thinking \ {p}
                 /\ memory' = [memory EXCEPT ![p] = state]
                 /\ dirty' = IF flush THEN dirty \ {p}
                             ELSE IF changed THEN dirty \union {p} ELSE dirty
                 /\ snapshot' = IF flush THEN [snapshot EXCEPT ![e] = state]
                                ELSE snapshot
                 /\ step' = [step EXCEPT ![e] = IF flush THEN "flush" ELSE "number"]
  <1>1. PICK thought \in ThinkingIn(Home[e]), thinks \in BOOLEAN, flush \in BOOLEAN :
             LET p == Home[e]
                 changed == IsLast(e) => thought
                 state == IF changed THEN StateIn(p) \union {CurrentEvent(e)}
                          ELSE StateIn(p)
             IN  /\ IsLast(e) => flush = (changed \/ p \in dirty)
                 /\ thinking' = IF thinks THEN thinking \union {p} ELSE thinking \ {p}
                 /\ memory' = [memory EXCEPT ![p] = state]
                 /\ dirty' = IF flush THEN dirty \ {p}
                             ELSE IF changed THEN dirty \union {p} ELSE dirty
                 /\ snapshot' = IF flush THEN [snapshot EXCEPT ![e] = state]
                                ELSE snapshot
                 /\ step' = [step EXCEPT ![e] = IF flush THEN "flush" ELSE "number"]
    BY DEF Apply, Fold
  <1>2. CASE IsLast(e) => thought
    BY <1>1, <1>2
  <1>3. CASE ~(IsLast(e) => thought)
    BY <1>1, <1>3
  <1> QED
    BY <1>2, <1>3

\* The calls of an emitter keep the types,
LEMMA EmitType == ASSUME TypeOK, NEW e \in Emitters, Emit(e) PROVE TypeOK'
  <1> USE RunStreamAssumption DEF TypeOK, busVars, serviceVars, failureVars, clientVars
  <1>1. CASE WriteStatus(e)
    BY <1>1 DEF WriteStatus, Goto
  <1>2. CASE Apply(e)
    <2> DEFINE p == Home[e]
    <2>1. PICK changed, thinks, flush \in BOOLEAN :
             LET state == IF changed THEN StateIn(p) \union {CurrentEvent(e)}
                          ELSE StateIn(p)
             IN  /\ thinking' = IF thinks THEN thinking \union {p} ELSE thinking \ {p}
                 /\ memory' = [memory EXCEPT ![p] = state]
                 /\ dirty' = IF flush THEN dirty \ {p}
                             ELSE IF changed THEN dirty \union {p} ELSE dirty
                 /\ snapshot' = IF flush THEN [snapshot EXCEPT ![e] = state]
                                ELSE snapshot
                 /\ step' = [step EXCEPT ![e] = IF flush THEN "flush" ELSE "number"]
      BY <1>2, Folding
    <2>2. p \in Procs /\ StateIn(p) \subseteq Event /\ CurrentEvent(e) \in Event
      BY MessageType DEF StateIn
    <2> HIDE DEF p
    <2>3. step' \in [Emitters -> {"write", "apply", "flush", "number", "publish",
                                "relay", "done"}]
      BY <2>1
    <2>4. memory' \in [Procs -> SUBSET Event] /\ snapshot' \in [Emitters -> SUBSET Event]
      BY <2>1, <2>2
    <2>5. dirty' \subseteq Procs /\ loaded' \subseteq Procs /\ thinking' \subseteq Procs
      BY <1>2, <2>1, <2>2 DEF Apply, Fold, p
    <2> QED
      BY <1>2, <2>3, <2>4, <2>5 DEF Apply, Fold
  <1>3. CASE Flush(e)
    BY <1>3 DEF Flush, Goto
  <1>4. CASE Number(e)
    BY <1>4 DEF Number, Goto
  <1>5. NextEvent(e) => /\ current' \in [Emitters -> Nat \ {0}]
                        /\ number' \in [Emitters -> Nat]
                        /\ step' \in [Emitters -> {"write", "apply", "flush",
                                        "number", "publish", "relay", "done"}]
    <2> SUFFICES ASSUME NextEvent(e)
                 PROVE  /\ current' \in [Emitters -> Nat \ {0}]
                        /\ number' \in [Emitters -> Nat]
                        /\ step' \in [Emitters -> {"write", "apply", "flush",
                                        "number", "publish", "relay", "done"}]
      OBVIOUS
    <2>1. Start(e, current[e] + 1) \in {"write", "apply"}
      BY DEF Start
    <2>2. current[e] + 1 \in Nat \ {0}
      OBVIOUS
    <2> QED
      <3>1. CASE IsLast(e)
        BY <3>1 DEF NextEvent
      <3>2. CASE ~IsLast(e)
        <4>1. /\ number' = [number EXCEPT ![e] = 0]
              /\ current' = [current EXCEPT ![e] = current[e] + 1]
              /\ step' = [step EXCEPT ![e] = Start(e, current[e] + 1)]
          BY <3>2 DEF NextEvent
        <4>2. current' \in [Emitters -> Nat \ {0}]
          BY <2>2, <4>1
        <4> QED
          BY <2>1, <4>1, <4>2
      <3> QED
        BY <3>1, <3>2
  <1>6. CASE Publish(e)
    <2>1. queue' \in [Clients -> Seq(Message)]
      BY <1>6, MessageType, AppendElements DEF Publish
    <2>2. CASE Redis
      BY <1>6, <2>1, <2>2 DEF Publish
    <2>3. CASE ~Redis
      BY <1>6, <2>1, <2>3, <1>5 DEF Publish
    <2> QED
      BY <2>2, <2>3
  <1>7. CASE Relay(e)
    <2>1. relay' \in [Clients -> Seq(Message)]
      <3>1. \A c \in Clients : Append(relay[c], MessageOf(e)) \in Seq(Message)
        BY MessageType, AppendElements
      <3> QED
        <4>1. CASE relay' = relay
          BY <4>1
        <4>2. CASE relay' = [c \in Clients |->
                                IF c \in listening THEN Append(relay[c], MessageOf(e))
                                ELSE relay[c]]
          BY <3>1, <4>2
        <4> QED
          BY <1>7, <4>1, <4>2 DEF Relay
    <2> QED
      BY <1>7, <2>1, <1>5 DEF Relay
  <1> QED
    BY <1>1, <1>2, <1>3, <1>4, <1>6, <1>7 DEF Emit

\* also when one raises,
LEMMA RaiseType == ASSUME TypeOK, NEW e \in Emitters, Raise(e) PROVE TypeOK'
  <1> USE RunStreamAssumption DEF TypeOK, busVars, clientVars
  <1>1. raised' \in 0 .. MaxRaised
    BY DEF Raise
  <1>2. current' \in [Emitters -> Nat \ {0}]
    BY DEF Raise
  <1>3. step' \in [Emitters -> {"write", "apply", "flush", "number", "publish",
                              "relay", "done"}]
    BY DEF Raise
  <1>4. snapshot' \in [Emitters -> SUBSET Event] /\ lost' \subseteq Event
    BY DEF Raise
  <1>5. unsent' \subseteq Event
    <2>1. \A i \in current[e] .. (Events[e] - 1) : i \in Nat \ {0}
      <3>1. current[e] \in Nat \ {0} /\ Events[e] \in Nat
        OBVIOUS
      <3> QED
        BY ONLY <3>1
    <2> QED
      BY <2>1 DEF Raise, Event
  <1> QED
    BY <1>1, <1>2, <1>3, <1>4, <1>5 DEF Raise

\* and so do the steps of a subscriber.
LEMMA ClientType ==
    ASSUME TypeOK, NEW c \in Clients, Listen(c) \/ Subscribe(c) \/ Serve(c) \/ Leave(c)
    PROVE  TypeOK'
  <1> USE RunStreamAssumption DEF TypeOK, busVars, serviceVars, failureVars, clientVars,
                                  emitterVars
  <1>0. <<>> \in Seq(Message)
    OBVIOUS
  <1>1. CASE Connect(c)
    BY <1>1 DEF Connect
  <1>2. CASE Disconnect(c)
    BY <1>2, <1>0 DEF Disconnect
  <1>3. CASE Arrive(c)
    <2>1. /\ Head(relay[c]) \in Message /\ Tail(relay[c]) \in Seq(Message)
          /\ Append(queue[c], Head(relay[c])) \in Seq(Message)
      BY <1>3, TailElements, AppendElements DEF Arrive
    <2> QED
      BY <1>3, <2>1 DEF Arrive
  <1>4. CASE Subscribe(c)
    BY <1>4 DEF Subscribe
  <1>5. CASE ReadRow(c)
    BY <1>5 DEF ReadRow
  <1>6. CASE SendSnapshot(c)
    BY <1>6 DEF SendSnapshot
  <1>7. CASE Take(c)
    <2> DEFINE m == Head(queue[c])
    <2>1. m \in Message /\ Tail(queue[c]) \in Seq(Message)
      BY <1>7, TailElements DEF Take
    <2>2. m.id \in Nat /\ m.event \in Event
      BY <2>1 DEF Message
    <2>3. Append(got[c], m.event) \in Seq(Event)
      BY <2>2
    <2> HIDE DEF m
    <2>4. queue' \in [Clients -> Seq(Message)]
      BY <1>7, <2>1 DEF Take
    <2>5. CASE m.id \in seen[c]
      <3>1. dropped' \in [Clients -> SUBSET Event]
        <4>1. \/ dropped' = dropped
              \/ dropped' = [dropped EXCEPT ![c] = @ \union {m.event}]
          BY <1>7, <2>5 DEF Take, m
        <4> QED
          <5>1. [dropped EXCEPT ![c] = @ \union {m.event}] \in [Clients -> SUBSET Event]
            BY <2>2
          <5> QED
            BY <4>1, <5>1
      <3> QED
        BY <1>7, <2>4, <2>5, <3>1 DEF Take, m
    <2>6. CASE m.id \notin seen[c]
      <3>1. /\ seen' = [seen EXCEPT ![c] = @ \union {m.id}]
            /\ got' = [got EXCEPT ![c] = Append(@, m.event)]
            /\ dropped' = dropped
        BY <1>7, <2>6 DEF Take, m
      <3>2. seen' \in [Clients -> SUBSET Nat] /\ got' \in [Clients -> Seq(Event)]
        BY <2>2, <2>3, <3>1
      <3> QED
        BY <1>7, <2>4, <3>1, <3>2 DEF Take
    <2> QED
      BY <2>5, <2>6
  <1>8. CASE TimeOut(c)
    BY <1>8 DEF TimeOut
  <1>9. CASE Poll(c)
    <2>1. phase' \in [Clients -> {"new", "row", "snapshot", "live", "poll",
                                 "closed", "left", "leaked"}]
      BY <1>9 DEF Poll
    <2>2. /\ row' \in [Clients -> [status : {"running"} \union Emitters,
                                  state : SUBSET Event]]
          /\ listening' \subseteq Clients
      <3>1. \/ row' = row
            \/ row' = [row EXCEPT ![c] = [status |-> status, state |-> persisted]]
        BY <1>9 DEF Poll
      <3> QED
        <4>1. [status |-> status, state |-> persisted]
                  \in [status : {"running"} \union Emitters, state : SUBSET Event]
          OBVIOUS
        <4>2. row' \in [Clients -> [status : {"running"} \union Emitters,
                                  state : SUBSET Event]]
          BY <3>1, <4>1
        <4> QED
          BY <1>9, <4>2, ZenonT(40) DEF Poll
    <2>3. queue' \in [Clients -> Seq(Message)] /\ relay' \in [Clients -> Seq(Message)]
      <3>1. /\ queue' = queue \/ queue' = [queue EXCEPT ![c] = <<>>]
            /\ relay' = relay \/ relay' = [relay EXCEPT ![c] = <<>>]
        BY <1>9 DEF Poll
      <3>2. queue' \in [Clients -> Seq(Message)]
        BY <1>0, <3>1
      <3> QED
        <4>1. relay' \in [Clients -> Seq(Message)]
          BY <1>0, <3>1
        <4> QED
          BY <3>2, <4>1
    <2> QED
      BY <1>9, <2>1, <2>2, <2>3 DEF Poll
  <1>10. CASE Leave(c)
    BY <1>10, <1>0 DEF Leave
  <1> QED
    BY <1>1, <1>2, <1>3, <1>4, <1>5, <1>6, <1>7, <1>8, <1>9, <1>10
    DEF Listen, Serve

\* All steps keep the types.
LEMMA TypeInductive == TypeOK /\ [Next]_vars => TypeOK'
  <1> SUFFICES ASSUME TypeOK, [Next]_vars PROVE TypeOK'
    OBVIOUS
  <1>1. CASE UNCHANGED vars
    BY <1>1 DEF vars, emitterVars, serviceVars, failureVars, clientVars, busVars, TypeOK
  <1> QED
    BY <1>1, EmitType, RaiseType, ClientType DEF Next

\* No call has raised at first.
LEMMA NoRaise == 0 \in 0 .. MaxRaised
  BY RunStreamAssumption

\* The variables keep their types.
THEOREM StreamTypeCorrect == Spec => []TypeOK
<1>1. Init => TypeOK
  BY RunStreamAssumption, NoRaise DEF Init, TypeOK, Start
<1> QED
  BY <1>1, TypeInductive, PTL DEF Spec

-----------------------------------------------------------------------------
(* What is folded.                                                         *)

\* No subscriber touches what the emitters work on.
LEMMA ClientQuiet ==
    ASSUME NEW c \in Clients, Listen(c) \/ Subscribe(c) \/ Serve(c) \/ Leave(c)
    PROVE  /\ UNCHANGED <<step, current, snapshot, number, status>>
           /\ UNCHANGED <<persisted, loaded, memory, dirty, raised, lost, unsent>>
  BY DEF Listen, Connect, Disconnect, Arrive, Subscribe, Serve, ReadRow,
         SendSnapshot, Take, TimeOut, Poll, Leave, emitterVars, serviceVars,
         failureVars

\* A step of one emitter moves it from call to call, and from event to event, in
\* order; others stay where they are.
LEMMA Progress ==
    ASSUME TypeOK, InOrder, NEW e \in Emitters, Emit(e)
    PROVE  /\ \A f \in Emitters \ {e} : step'[f] = step[f] /\ current'[f] = current[f]
           /\ current'[e] \in 1 .. Events[e]
           /\ step'[e] \in {"write", "done"} => current'[e] = Events[e]
           /\ \/ current'[e] = current[e] /\ step'[e] # "write"
              \/ /\ ~IsLast(e) /\ current'[e] = current[e] + 1
                 /\ step[e] \in {"publish", "relay"} /\ step'[e] \in {"write", "apply"}
  <1>0. /\ step = [f \in Emitters |-> step[f]]
        /\ current = [f \in Emitters |-> current[f]]
        /\ current[e] \in 1 .. Events[e] /\ Events[e] \in Nat
    BY RunStreamAssumption DEF TypeOK, InOrder
  <1>1. CASE WriteStatus(e) \/ Flush(e) \/ Number(e)
    BY <1>0, <1>1 DEF WriteStatus, Flush, Number, Goto, InOrder, IsLast
  <1>2. CASE Apply(e)
    <2>1. PICK l \in {"flush", "number"} : step' = [step EXCEPT ![e] = l]
      BY <1>2 DEF Apply, Fold
    <2>2. current' = current
      BY <1>2 DEF Apply, Fold
    <2> QED
      BY <1>0, <2>1, <2>2
  <1>3. ASSUME NextEvent(e), step[e] \in {"publish", "relay"} PROVE
           /\ \A f \in Emitters \ {e} : step'[f] = step[f] /\ current'[f] = current[f]
           /\ current'[e] \in 1 .. Events[e]
           /\ step'[e] \in {"write", "done"} => current'[e] = Events[e]
           /\ \/ current'[e] = current[e] /\ step'[e] # "write"
              \/ /\ ~IsLast(e) /\ current'[e] = current[e] + 1
                 /\ step'[e] \in {"write", "apply"}
    BY <1>0, <1>3 DEF NextEvent, IsLast, Start
  <1>4. CASE Publish(e)
    <2>1. CASE Redis
      BY <1>0, <1>4, <2>1 DEF Publish
    <2> QED
      BY <1>3, <1>4, <2>1 DEF Publish
  <1>5. CASE Relay(e)
    BY <1>3, <1>5 DEF Relay
  <1> QED
    BY <1>1, <1>2, <1>4, <1>5 DEF Emit

\* One whose call raised is at its last event, if it was not before, and has given
\* up those it passed over.
LEMMA RaiseProgress ==
    ASSUME TypeOK, InOrder, NEW e \in Emitters, Raise(e)
    PROVE  /\ \A f \in Emitters \ {e} : step'[f] = step[f] /\ current'[f] = current[f]
           /\ current'[e] = Events[e] /\ current'[e] >= current[e]
           /\ step[e] \in {"flush", "apply"} /\ step'[e] \in {"write", "done"}
           /\ step'[e] = "done" => IsLast(e)
           /\ \A i \in current[e] .. (Events[e] - 1) : [by |-> e, n |-> i] \in unsent'
           /\ \A i : [by |-> e, n |-> i] \in unsent => [by |-> e, n |-> i] \in unsent'
           /\ unsent \subseteq unsent'
           /\ UNCHANGED <<status, persisted, loaded, memory, dirty, nextId, number>>
           /\ UNCHANGED <<clientVars, busVars>>
  <1>0. /\ step = [f \in Emitters |-> step[f]]
        /\ current = [f \in Emitters |-> current[f]]
        /\ current[e] \in 1 .. Events[e] /\ Events[e] \in Nat
    BY RunStreamAssumption DEF TypeOK, InOrder
  <1>1. current' = [current EXCEPT ![e] = Events[e]]
    BY DEF Raise
  <1>2. step' = [step EXCEPT ![e] = "write"] \/ step' = [step EXCEPT ![e] = "done"]
    BY DEF Raise
  <1>3. \A f \in Emitters \ {e} : step'[f] = step[f] /\ current'[f] = current[f]
    BY <1>0, <1>1, <1>2
  <1>4. current'[e] = Events[e] /\ current'[e] >= current[e]
    BY <1>0, <1>1
  <1>5. step'[e] = "done" => IsLast(e)
    BY <1>0 DEF Raise
  <1>6. step[e] \in {"flush", "apply"} /\ step'[e] \in {"write", "done"}
    BY <1>0, <1>2 DEF Raise
  <1> QED
    BY <1>3, <1>4, <1>5, <1>6 DEF Raise

\* An emitter emits its events in order and stops at the last one.
LEMMA InOrderInductive == TypeOK /\ InOrder /\ [Next]_vars => InOrder'
  <1> SUFFICES ASSUME TypeOK, InOrder, [Next]_vars PROVE InOrder'
    OBVIOUS
  <1>1. CASE UNCHANGED <<step, current>>
    BY <1>1 DEF InOrder, IsLast
  <1>2. ASSUME NEW e \in Emitters, Emit(e) PROVE InOrder'
    BY <1>2, Progress DEF InOrder, IsLast
  <1>3. CASE UNCHANGED vars
    BY <1>1, <1>3 DEF vars, emitterVars
  <1>4. ASSUME NEW e \in Emitters, Raise(e) PROVE InOrder'
    <2>1. /\ \A f \in Emitters \ {e} : step'[f] = step[f] /\ current'[f] = current[f]
          /\ current'[e] = Events[e] /\ Events[e] \in Nat \ {0}
      BY <1>4, RaiseProgress, RunStreamAssumption
    <2>2. \A f \in Emitters \ {e} : /\ current'[f] \in 1 .. Events[f]
                                    /\ step'[f] \in {"write", "done"} => IsLast(f)'
      BY <2>1 DEF InOrder, IsLast
    <2>3. current'[e] \in 1 .. Events[e] /\ IsLast(e)'
      BY <2>1 DEF IsLast
    <2> QED
      BY <2>2, <2>3 DEF InOrder
  <1> QED
    BY <1>1, <1>2, <1>3, <1>4, ClientQuiet DEF Next

\* Every step keeps what is folded: the state of a process only grows once it is
\* loaded, and an event that is not the last is always folded in.
LEMMA FoldedInductive == TypeOK /\ InOrder /\ Folded /\ [Next]_vars => Folded'
  <1> SUFFICES ASSUME TypeOK, InOrder, Folded, [Next]_vars PROVE Folded'
    OBVIOUS
  <1>1. CASE UNCHANGED <<step, current, loaded, memory, unsent>>
    BY <1>1 DEF Folded, FoldedTo, IsLast
  <1>2. ASSUME NEW e \in Emitters, Emit(e), ~Apply(e) PROVE Folded'
    <2>1. UNCHANGED <<loaded, memory, unsent>>
      BY <1>2 DEF Emit, WriteStatus, Flush, Number, Publish, Relay, serviceVars,
                  failureVars
    <2>2. FoldedTo(e)' = FoldedTo(e)
      <3>0. current[e] \in Nat
        BY DEF TypeOK
      <3>1. CASE WriteStatus(e) \/ Flush(e) \/ Number(e)
        BY <3>1, <3>0 DEF WriteStatus, Flush, Number, Goto, FoldedTo, IsLast, TypeOK
      <3>2. CASE Publish(e) \/ Relay(e)
        <4>1. step[e] \in {"publish", "relay"}
          BY <3>2 DEF Publish, Relay
        <4>2. step'[e] \in {"relay", "done", "write", "apply"}
          BY <3>2 DEF Publish, Relay, NextEvent, Start, TypeOK
        <4>3. CASE current'[e] = current[e]
          <5>1. CASE IsLast(e)
            BY <4>1, <4>3, <5>1 DEF FoldedTo, IsLast
          <5>2. CASE ~IsLast(e)
            <6>1. step'[e] = "relay"
              BY <3>2, <4>3, <5>2, <3>0 DEF Publish, Relay, NextEvent, TypeOK
            <6> QED
              BY <4>1, <4>3, <5>2, <6>1 DEF FoldedTo, IsLast
          <5> QED
            BY <5>1, <5>2
        <4>4. CASE current'[e] = current[e] + 1 /\ ~IsLast(e)
                   /\ step'[e] \in {"write", "apply"}
          BY <3>0, <4>1, <4>4 DEF FoldedTo
        <4> QED
          BY <1>2, <4>3, <4>4, Progress
      <3> QED
        BY <1>2, <3>1, <3>2 DEF Emit
    <2>3. \A f \in Emitters \ {e} : FoldedTo(f)' = FoldedTo(f)
      BY <1>2, Progress DEF FoldedTo, IsLast
    <2> QED
      BY <2>1, <2>2, <2>3 DEF Folded
  <1>3. ASSUME NEW e \in Emitters, Apply(e) PROVE Folded'
    <2> DEFINE p == Home[e]
    <2>1. PICK changed \in BOOLEAN :
             /\ ~changed => IsLast(e)
             /\ memory' = [memory EXCEPT ![p] =
                    IF changed THEN StateIn(p) \union {CurrentEvent(e)} ELSE StateIn(p)]
      BY <1>3, Folding
    <2>2. /\ p \in Procs /\ step[e] = "apply" /\ step'[e] \in {"flush", "number"}
          /\ current' = current /\ loaded' = loaded \union {p} /\ unsent' = unsent
      <3>1. p \in Procs
        BY RunStreamAssumption
      <3>2. /\ step[e] = "apply" /\ current' = current /\ unsent' = unsent
            /\ loaded' = loaded \union {p}
        BY <1>3 DEF Apply, Fold, failureVars
      <3>3. step'[e] \in {"flush", "number"}
        <4>1. \E l \in {"flush", "number"} : step' = [step EXCEPT ![e] = l]
          BY <1>3, Folding, ZenonT(40)
        <4> QED
          BY <4>1 DEF TypeOK
      <3> QED
        BY <3>1, <3>2, <3>3
    <2>3. \A f \in Emitters \ {e} : FoldedTo(f)' = FoldedTo(f)
      <3>1. \E l \in {"flush", "number"} : step' = [step EXCEPT ![e] = l]
        BY <1>3, Folding, ZenonT(40)
      <3>2. \A f \in Emitters \ {e} : step'[f] = step[f]
        BY <3>1 DEF TypeOK
      <3> QED
        BY <2>2, <3>2 DEF FoldedTo, IsLast
    <2>4. memory \in [Procs -> SUBSET Event]
      BY DEF TypeOK
    <2>5. \A q \in loaded : memory[q] \subseteq memory'[q]
      BY <2>1, <2>2, <2>4 DEF StateIn, TypeOK
    <2>6. ASSUME NEW i \in 1 .. FoldedTo(e)'
          PROVE  [by |-> e, n |-> i] \in memory'[p] \/ [by |-> e, n |-> i] \in unsent'
      <3>1. current[e] \in Nat
        BY DEF TypeOK
      <3>2. CASE i \in 1 .. FoldedTo(e)
        BY <2>2, <2>5, <3>2 DEF Folded
      <3>3. CASE i = current[e] /\ ~IsLast(e)
        BY <2>1, <2>2, <2>4, <3>3 DEF CurrentEvent
      <3>4. FoldedTo(e) = current[e] - 1
        BY <2>2 DEF FoldedTo
      <3>5. FoldedTo(e)' = IF IsLast(e) THEN current[e] - 1 ELSE current[e]
        BY <2>2 DEF FoldedTo, IsLast
      <3> QED
        BY <3>1, <3>2, <3>3, <3>4, <3>5
    <2>7. ASSUME NEW f \in Emitters \ {e}, NEW i \in 1 .. FoldedTo(f)'
          PROVE  \/ [by |-> f, n |-> i] \in unsent'
                 \/ Home[f] \in loaded' /\ [by |-> f, n |-> i] \in memory'[Home[f]]
      BY <2>2, <2>3, <2>5 DEF Folded
    <2> QED
      BY <2>2, <2>6, <2>7 DEF Folded
  <1>4. CASE UNCHANGED vars
    BY <1>1, <1>4 DEF vars, emitterVars, serviceVars, failureVars
  <1>5. ASSUME NEW e \in Emitters, Raise(e) PROVE Folded'
    <2>1. UNCHANGED <<loaded, memory>> /\ unsent \subseteq unsent'
      BY <1>5, RaiseProgress
    <2>2. \A f \in Emitters \ {e} : FoldedTo(f)' = FoldedTo(f)
      BY <1>5, RaiseProgress DEF FoldedTo, IsLast
    <2>3. FoldedTo(e)' = Events[e] - 1
      BY <1>5, RaiseProgress DEF FoldedTo, IsLast
    <2>4. ASSUME NEW i \in 1 .. (Events[e] - 1)
          PROVE  i \in current[e] .. (Events[e] - 1) \/ i \in 1 .. FoldedTo(e)
      <3>1. current[e] \in Nat /\ Events[e] \in Nat
        BY RunStreamAssumption DEF TypeOK
      <3>2. FoldedTo(e) \in {current[e], current[e] - 1}
        BY DEF FoldedTo
      <3> QED
        BY ONLY <3>1, <3>2, i \in 1 .. (Events[e] - 1)
    <2>5. ASSUME NEW i \in 1 .. FoldedTo(e)'
          PROVE  \/ [by |-> e, n |-> i] \in unsent'
                 \/ Home[e] \in loaded' /\ [by |-> e, n |-> i] \in memory'[Home[e]]
      <3>1. CASE i \in current[e] .. (Events[e] - 1)
        BY <1>5, <3>1, RaiseProgress
      <3>2. CASE i \in 1 .. FoldedTo(e)
        BY <2>1, <3>2 DEF Folded
      <3> QED
        BY <2>3, <2>4, <3>1, <3>2
    <2>6. ASSUME NEW f \in Emitters \ {e}, NEW i \in 1 .. FoldedTo(f)'
          PROVE  \/ [by |-> f, n |-> i] \in unsent'
                 \/ Home[f] \in loaded' /\ [by |-> f, n |-> i] \in memory'[Home[f]]
      BY <2>1, <2>2 DEF Folded
    <2> QED
      BY <2>5, <2>6 DEF Folded
  <1> QED
    BY <1>1, <1>2, <1>3, <1>4, <1>5, ClientQuiet DEF Next

\* Both hold of every behaviour.
LEMMA FoldedCorrect == Spec => [](TypeOK /\ InOrder /\ Folded)
<1>1. Init => InOrder /\ Folded
  <2> SUFFICES ASSUME Init PROVE InOrder /\ Folded
    OBVIOUS
  <2>1. \A e \in Emitters : current[e] = 1 /\ step[e] = Start(e, 1) /\ Events[e] \in Nat \ {0}
    BY RunStreamAssumption DEF Init
  <2>2. \A e \in Emitters : FoldedTo(e) = 0
    BY <2>1 DEF FoldedTo, Start
  <2> QED
    BY <2>1, <2>2 DEF InOrder, Folded, IsLast, Start
<1> QED
  BY <1>1, InOrderInductive, FoldedInductive, StreamTypeCorrect, PTL DEF Spec

-----------------------------------------------------------------------------
(* What is saved.                                                          *)

\* An emitter that has folded in its last event.
LastFolded(e) ==
    IsLast(e) /\ step[e] \in {"flush", "number", "publish", "relay", "done"}

\* What a process holds is on its way to the row unless it is marked, and the mark
\* is that of an emitter that has yet to fold in its last event.
Marked(p) ==
    /\ \A e \in Emitters : step[e] # "flush" => snapshot[e] = {}
    /\ p \in dirty => p \in loaded /\ \E e \in Emitters : ~LastFolded(e)
    /\ \/ p \in dirty
       \/ memory[p] \subseteq
             persisted \union lost \union UNION {snapshot[e] : e \in Emitters}

AllMarked == \A p \in Procs : (\A e \in Emitters : Home[e] = p) => Marked(p)

\* The copies of a lone emitter only grow.
Grows ==
    \A e \in Emitters :
        /\ Home[e] \in loaded => persisted \subseteq memory[Home[e]]
        /\ step[e] = "flush" => /\ Home[e] \in loaded
                                /\ persisted \subseteq snapshot[e]
                                /\ snapshot[e] \subseteq memory[Home[e]]

OnlyGrows == (\A d, e \in Emitters : d = e) => Grows /\ (raised = 0 => lost = {})

\* What an event changes is marked or written next; a write that raises, and one
\* over a newer copy, are told as losses.
LEMMA MarkedInductive ==
    ASSUME TypeOK, InOrder, NEW e \in Emitters, Emit(e) \/ Raise(e),
           NEW p \in Procs, \A f \in Emitters : Home[f] = p, Marked(p)
    PROVE  Marked(p)'
  <1> USE DEF Marked
  <1>0. /\ Home[e] = p /\ memory \in [Procs -> SUBSET Event]
        /\ step = [f \in Emitters |-> step[f]]
        /\ snapshot = [f \in Emitters |-> snapshot[f]]
        /\ current = [f \in Emitters |-> current[f]]
    BY DEF TypeOK
  <1>1. CASE Apply(e)
    <2>1. PICK changed, thinks, flush \in BOOLEAN :
             LET state == IF changed THEN StateIn(p) \union {CurrentEvent(e)}
                          ELSE StateIn(p)
             IN  /\ ~changed => IsLast(e)
                 /\ IsLast(e) => flush = (changed \/ p \in dirty)
                 /\ memory' = [memory EXCEPT ![p] = state]
                 /\ dirty' = IF flush THEN dirty \ {p}
                             ELSE IF changed THEN dirty \union {p} ELSE dirty
                 /\ snapshot' = IF flush THEN [snapshot EXCEPT ![e] = state]
                                ELSE snapshot
                 /\ step' = [step EXCEPT ![e] = IF flush THEN "flush" ELSE "number"]
      BY <1>0, <1>1, Folding, ZenonT(40)
    <2>2. /\ step[e] = "apply" /\ loaded' = loaded \union {p} /\ UNCHANGED current
          /\ UNCHANGED <<persisted, lost>>
      BY <1>0, <1>1 DEF Apply, Fold, failureVars
    <2>3. snapshot[e] = {}
      BY <2>2
    <2>4. CASE flush
      <3>1. /\ snapshot' = [snapshot EXCEPT ![e] = memory'[p]]
            /\ step' = [step EXCEPT ![e] = "flush"] /\ p \notin dirty'
        BY <1>0, <2>1, <2>4
      <3>2. memory'[p] \subseteq UNION {snapshot'[f] : f \in Emitters}
        BY <1>0, <3>1
      <3> QED
        BY <1>0, <3>1, <3>2
    <2>5. CASE ~flush /\ changed
      <3>1. p \in dirty' /\ step' = [step EXCEPT ![e] = "number"] /\ ~IsLast(e)
        BY <2>1, <2>5
      <3>2. ~LastFolded(e)' /\ snapshot' = snapshot
        BY <2>1, <2>2, <2>5, <3>1 DEF LastFolded, IsLast
      <3> QED
        BY <1>0, <2>2, <3>1, <3>2
    <2>6. CASE ~flush /\ ~changed
      <3>1. /\ p \notin dirty /\ dirty' = dirty /\ snapshot' = snapshot
            /\ step' = [step EXCEPT ![e] = "number"]
            /\ memory'[p] = StateIn(p)
        BY <1>0, <2>1, <2>6
      <3>2. memory'[p] \subseteq memory[p] \/ memory'[p] \subseteq persisted
        BY <3>1 DEF StateIn
      <3> QED
        BY <1>0, <2>2, <3>1, <3>2
    <2> QED
      BY <2>4, <2>5, <2>6
  <1>2. CASE Flush(e)
    <2>1. /\ step[e] = "flush" /\ step' = [step EXCEPT ![e] = "number"]
          /\ persisted' = snapshot[e] /\ lost' = (lost \union persisted) \ snapshot[e]
          /\ snapshot' = [snapshot EXCEPT ![e] = {}]
          /\ UNCHANGED <<current, loaded, memory, dirty>>
      BY <1>2 DEF Flush, Goto
    <2>2. \A f \in Emitters : LastFolded(f)' = LastFolded(f)
      BY <1>0, <2>1 DEF LastFolded, IsLast
    <2>3. persisted \union lost \union snapshot[e] \subseteq persisted' \union lost'
      BY <2>1
    <2>4. \A f \in Emitters \ {e} : snapshot'[f] = snapshot[f]
      BY <1>0, <2>1
    <2>5. \A x : x \in UNION {snapshot[f] : f \in Emitters} =>
             x \in snapshot[e] \/ x \in UNION {snapshot'[f] : f \in Emitters}
      BY <2>4
    <2>6. p \in dirty' \/ memory'[p] \subseteq
             persisted' \union lost' \union UNION {snapshot'[f] : f \in Emitters}
      BY <2>1, <2>3, <2>5
    <2> QED
      BY <1>0, <2>1, <2>2, <2>6
  <1>3. CASE Raise(e)
    <2>1. /\ lost' = (lost \union snapshot[e]) \ persisted
          /\ snapshot' = [snapshot EXCEPT ![e] = {}]
          /\ UNCHANGED <<persisted, loaded, memory, dirty>>
      BY <1>3 DEF Raise
    <2>2. p \in dirty' => \E f \in Emitters : ~LastFolded(f)'
      <3>1. CASE step'[e] # "done"
        <4>1. step'[e] = "write"
          BY <1>3, <3>1, RaiseProgress
        <4> QED
          BY <4>1 DEF LastFolded
      <3>2. CASE step'[e] = "done"
        <4>1. IsLast(e) /\ \A f \in Emitters \ {e} : LastFolded(f)' = LastFolded(f)
          BY <1>3, <3>2, RaiseProgress DEF LastFolded, IsLast
        <4>2. CASE step[e] = "flush"
          BY <2>1, <4>1, <4>2 DEF LastFolded
        <4>3. CASE step[e] # "flush"
          <5>1. p \notin loaded
            BY <1>0, <1>3, <4>3 DEF Raise
          <5> QED
            BY <2>1, <5>1
        <4> QED
          BY <4>2, <4>3
      <3> QED
        BY <3>1, <3>2
    <2>3. persisted \union lost \union snapshot[e] \subseteq persisted' \union lost'
      BY <2>1
    <2>4. \A f \in Emitters \ {e} : snapshot'[f] = snapshot[f]
      BY <1>0, <2>1
    <2>5. \A x : x \in UNION {snapshot[f] : f \in Emitters} =>
             x \in snapshot[e] \/ x \in UNION {snapshot'[f] : f \in Emitters}
      BY <2>4
    <2>6. p \in dirty' \/ memory'[p] \subseteq
             persisted' \union lost' \union UNION {snapshot'[f] : f \in Emitters}
      BY <2>1, <2>3, <2>5
    <2>7. \A f \in Emitters : step'[f] # "flush" => snapshot'[f] = {}
      BY <1>0, <1>3, <2>1, <2>4, RaiseProgress
    <2> QED
      BY <2>1, <2>2, <2>6, <2>7
  <1>4. CASE Emit(e) /\ ~Apply(e) /\ ~Flush(e)
    <2>1. /\ UNCHANGED <<snapshot, persisted, lost, loaded, memory, dirty>>
          /\ step[e] \notin {"apply", "flush"}
      BY <1>4 DEF Emit, WriteStatus, Number, Publish, Relay, Goto, serviceVars,
                  failureVars
    <2>2. step'[e] # "flush"
      BY <1>0, <1>4 DEF Emit, WriteStatus, Number, Publish, Relay, NextEvent, Start, Goto
    <2>3. LastFolded(e)' => LastFolded(e)
      <3>1. CASE WriteStatus(e)
        BY <1>0, <3>1 DEF WriteStatus, Goto, LastFolded
      <3>2. CASE Number(e)
        BY <1>0, <3>2 DEF Number, Goto, LastFolded, IsLast
      <3>3. CASE Publish(e) \/ Relay(e)
        <4>1. step[e] \in {"publish", "relay"}
          BY <3>3 DEF Publish, Relay
        <4> QED
          BY <1>4, <4>1, Progress DEF LastFolded, IsLast
      <3> QED
        BY <1>4, <3>1, <3>2, <3>3 DEF Emit
    <2>4. \A f \in Emitters \ {e} : LastFolded(f)' = LastFolded(f) /\ step'[f] = step[f]
      BY <1>4, Progress DEF LastFolded, IsLast
    <2>5. \A f \in Emitters : LastFolded(f)' => LastFolded(f)
      BY <2>3, <2>4
    <2>6. p \in dirty' => p \in loaded' /\ \E f \in Emitters : ~LastFolded(f)'
      BY <2>1, <2>5
    <2>7. \A f \in Emitters : step'[f] # "flush" => snapshot'[f] = {}
      BY <2>1, <2>4
    <2>8. \/ p \in dirty'
          \/ memory'[p] \subseteq
                persisted' \union lost' \union UNION {snapshot'[f] : f \in Emitters}
      BY <2>1
    <2> QED
      BY <2>6, <2>7, <2>8
  <1> QED
    BY <1>1, <1>2, <1>3, <1>4

\* A lone emitter writes a newer copy over an older one.
LEMMA GrowsInductive ==
    ASSUME TypeOK, InOrder, NEW e \in Emitters, Emit(e) \/ Raise(e),
           \A f \in Emitters : f = e, Grows, raised = 0 => lost = {}
    PROVE  Grows' /\ (raised' = 0 => lost' = {})
  <1> DEFINE p == Home[e]
  <1>0. /\ p \in Procs /\ memory \in [Procs -> SUBSET Event]
        /\ step = [f \in Emitters |-> step[f]]
        /\ snapshot = [f \in Emitters |-> snapshot[f]]
        /\ raised \in Nat
    BY RunStreamAssumption DEF TypeOK
  <1>1. CASE Apply(e)
    <2>1. PICK changed, thinks, flush \in BOOLEAN :
             LET state == IF changed THEN StateIn(p) \union {CurrentEvent(e)}
                          ELSE StateIn(p)
             IN  /\ memory' = [memory EXCEPT ![p] = state]
                 /\ snapshot' = IF flush THEN [snapshot EXCEPT ![e] = state]
                                ELSE snapshot
                 /\ step' = [step EXCEPT ![e] = IF flush THEN "flush" ELSE "number"]
      BY <1>1, Folding
    <2>2. /\ loaded' = loaded \union {p} /\ UNCHANGED <<persisted, lost, raised>>
      BY <1>1 DEF Apply, Fold, failureVars
    <2>3. persisted \subseteq StateIn(p)
      BY DEF Grows, StateIn
    <2>4. persisted \subseteq memory'[p]
      BY <1>0, <2>1, <2>3
    <2>5. step'[e] = "flush" => snapshot'[e] = memory'[p]
      BY <1>0, <2>1
    <2> QED
      BY <2>2, <2>4, <2>5 DEF Grows
  <1>2. CASE Flush(e)
    <2>1. /\ step[e] = "flush" /\ step'[e] = "number" /\ persisted' = snapshot[e]
          /\ lost' = (lost \union persisted) \ snapshot[e]
          /\ UNCHANGED <<loaded, memory, raised>>
      BY <1>0, <1>2 DEF Flush, Goto
    <2> QED
      BY <2>1 DEF Grows
  <1>3. CASE Raise(e)
    <2>1. raised' = raised + 1 /\ UNCHANGED <<persisted, loaded, memory>>
      BY <1>3 DEF Raise
    <2>2. step'[e] # "flush"
      BY <1>3, RaiseProgress
    <2> QED
      BY <1>0, <2>1, <2>2 DEF Grows
  <1>4. CASE Emit(e) /\ ~Apply(e) /\ ~Flush(e)
    <2>1. UNCHANGED <<snapshot, persisted, lost, loaded, memory, raised>>
      BY <1>4 DEF Emit, WriteStatus, Number, Publish, Relay, Goto, serviceVars,
                  failureVars
    <2>2. step'[e] # "flush"
      BY <1>0, <1>4 DEF Emit, WriteStatus, Number, Publish, Relay, NextEvent, Start, Goto
    <2> QED
      BY <2>1, <2>2 DEF Grows
  <1> QED
    BY <1>1, <1>2, <1>3, <1>4

\* Both hold of every behaviour.
LEMMA SavedInductive ==
    TypeOK /\ InOrder /\ AllMarked /\ OnlyGrows /\ [Next]_vars
        => AllMarked' /\ OnlyGrows'
  <1> SUFFICES ASSUME TypeOK, InOrder, AllMarked, OnlyGrows, [Next]_vars
               PROVE  AllMarked' /\ OnlyGrows'
    OBVIOUS
  <1>1. CASE UNCHANGED <<step, current, snapshot, persisted, loaded, memory, dirty,
                         raised, lost>>
    <2>1. \A e \in Emitters : LastFolded(e)' = LastFolded(e)
      BY <1>1 DEF LastFolded, IsLast
    <2>2. AllMarked'
      BY <1>1, <2>1 DEF AllMarked, Marked
    <2>3. OnlyGrows'
      BY <1>1 DEF OnlyGrows, Grows
    <2> QED
      BY <2>2, <2>3
  <1>2. ASSUME NEW e \in Emitters, Emit(e) \/ Raise(e) PROVE AllMarked' /\ OnlyGrows'
    <2>1. AllMarked'
      BY <1>2, MarkedInductive DEF AllMarked
    <2>2. OnlyGrows'
      BY <1>2, GrowsInductive DEF OnlyGrows
    <2> QED
      BY <2>1, <2>2
  <1>3. CASE UNCHANGED vars
    BY <1>1, <1>3 DEF vars, emitterVars, serviceVars, failureVars
  <1> QED
    BY <1>1, <1>2, <1>3, ClientQuiet DEF Next

\* What the emitters of a process leave unsaved is marked or about to be written, or
\* was lost to a write that raised or to an older copy (run_stream.py 119-146); a
\* lone emitter whose writes succeed loses nothing.
THEOREM NothingUnsavedCorrect == Spec => []NothingUnsaved
<1>1. Init => AllMarked /\ OnlyGrows
  <2> SUFFICES ASSUME Init PROVE AllMarked /\ OnlyGrows
    OBVIOUS
  <2>1. /\ \A e \in Emitters : snapshot[e] = {} /\ step[e] \in {"write", "apply"}
        /\ \A p \in Procs : memory[p] = {}
        /\ dirty = {} /\ loaded = {} /\ lost = {}
    BY DEF Init, Start
  <2>2. AllMarked
    BY <2>1 DEF AllMarked, Marked
  <2>3. OnlyGrows
    BY <2>1 DEF OnlyGrows, Grows
  <2> QED
    BY <2>2, <2>3
<1>2. InOrder /\ AllMarked /\ OnlyGrows => NothingUnsaved
  <2> SUFFICES ASSUME InOrder, AllMarked, OnlyGrows, NEW p \in Procs,
                      \A e \in Emitters : Home[e] = p
               PROVE  /\ \/ p \in dirty
                         \/ memory[p] \subseteq persisted \union lost
                                 \union UNION {snapshot[e] : e \in Emitters}
                      /\ (\A e \in Emitters : step[e] = "done") =>
                            memory[p] \subseteq persisted \union lost
                      /\ raised = 0 /\ (\A d, e \in Emitters : d = e) => lost = {}
    BY DEF NothingUnsaved
  <2>1. Marked(p)
    BY DEF AllMarked
  <2>2. ASSUME \A e \in Emitters : step[e] = "done"
        PROVE  memory[p] \subseteq persisted \union lost
    <3>1. \A e \in Emitters : LastFolded(e) /\ snapshot[e] = {}
      BY <2>1, <2>2 DEF Marked, LastFolded, InOrder
    <3>2. UNION {snapshot[e] : e \in Emitters} = {}
      BY <3>1
    <3> QED
      BY <2>1, <3>1, <3>2 DEF Marked
  <2>3. raised = 0 /\ (\A d, e \in Emitters : d = e) => lost = {}
    BY DEF OnlyGrows
  <2> QED
    BY <2>1, <2>2, <2>3 DEF Marked
<1> QED
  BY <1>1, <1>2, SavedInductive, FoldedCorrect, PTL DEF Spec

-----------------------------------------------------------------------------
(* What a closed stream has told.                                          *)

\* An emitter that has written the row has no event left but its last.
Over(e) == e \in Emitters /\ current[e] = Events[e]

\* The last snapshot of a stream holds all events but the last of the emitter that
\* ended the run, and is the last.
Told(c) ==
    /\ row[c].status # "running" => Over(row[c].status)
    /\ phase[c] = "closed" => ended[c]
    /\ ended[c] =>
           /\ phase[c] \in {"live", "poll", "closed", "left"}
           /\ row[c].status # "running"
           /\ At[c] = Home[row[c].status] =>
                 \A i \in 1 .. (Events[row[c].status] - 1) :
                     [by |-> row[c].status, n |-> i] \in base[c] \union unsent

AllTold == /\ status # "running" => Over(status)
           /\ \A c \in Clients : Told(c)

\* An emitter that is over stays so.
LEMMA StaysOver ==
    ASSUME TypeOK, InOrder, NEW e \in Emitters, Emit(e) \/ Raise(e), NEW f, Over(f)
    PROVE  Over(f)'
  BY Progress, RaiseProgress DEF Over, IsLast

\* A subscriber learns the end of a run from its row, or from the last event.
LEMMA ToldInductive ==
    TypeOK /\ InOrder /\ Folded /\ AllTold /\ [Next]_vars => AllTold'
  <1> SUFFICES ASSUME TypeOK, InOrder, Folded, AllTold, [Next]_vars PROVE AllTold'
    OBVIOUS
  <1>1. ASSUME NEW e \in Emitters, Emit(e) PROVE AllTold'
    <2>1. UNCHANGED <<phase, row, base, ended, unsent>>
      BY <1>1 DEF Emit, WriteStatus, Apply, Fold, Flush, Number, Publish, Relay,
                  clientVars, serviceVars, failureVars
    <2>2. \A c \in Clients : Told(c)'
      BY <1>1, <2>1, StaysOver DEF AllTold, Told
    <2>3. CASE WriteStatus(e)
      <3>1. status' = e /\ step[e] = "write" /\ step'[e] = "apply" /\ current' = current
        BY <2>3 DEF WriteStatus, Goto, TypeOK
      <3> QED
        BY <2>2, <3>1 DEF AllTold, Over, InOrder, IsLast
    <2>4. CASE ~WriteStatus(e)
      <3>1. status' = status
        BY <1>1, <2>4 DEF Emit, Apply, Fold, Flush, Number, Publish, Relay
      <3> QED
        BY <1>1, <2>2, <3>1, StaysOver DEF AllTold
    <2> QED
      BY <2>3, <2>4
  <1>2. ASSUME NEW c \in Clients, Listen(c) \/ Subscribe(c) \/ Serve(c) \/ Leave(c)
        PROVE  AllTold'
    <2>0. /\ phase = [d \in Clients |-> phase[d]] /\ row = [d \in Clients |-> row[d]]
          /\ base = [d \in Clients |-> base[d]] /\ ended = [d \in Clients |-> ended[d]]
      BY DEF TypeOK
    <2>1. UNCHANGED <<step, current, status, persisted, loaded, memory, unsent>>
      BY <1>2, ClientQuiet
    <2>2. \A e : Over(e)' = Over(e)
      BY <2>1 DEF Over
    <2>3. CASE UNCHANGED <<phase, row, base, ended>>
      BY <2>1, <2>2, <2>3 DEF AllTold, Told
    <2>4. CASE Listen(c) \/ Take(c)
      BY <2>3, <2>4 DEF Listen, Connect, Disconnect, Arrive, Take, clientVars
    <2>5. CASE Subscribe(c) \/ TimeOut(c) \/ Leave(c)
      <3>1. /\ UNCHANGED <<row, base, ended>>
            /\ \A d \in Clients \ {c} : phase'[d] = phase[d]
            /\ phase'[c] # "closed"
            /\ phase'[c] \in {"live", "poll", "left"} \/ phase[c] \in {"new", "row"}
        BY <2>0, <2>5 DEF Subscribe, TimeOut, Leave
      <3> QED
        BY <2>1, <2>2, <3>1 DEF AllTold, Told
    <2>6. CASE ReadRow(c)
      <3>1. /\ UNCHANGED <<base, ended>> /\ phase[c] = "row"
            /\ \A d \in Clients \ {c} : phase'[d] = phase[d] /\ row'[d] = row[d]
            /\ phase'[c] = "snapshot" /\ row'[c].status = status
        BY <2>0, <2>6 DEF ReadRow
      <3> QED
        BY <2>1, <2>2, <3>1 DEF AllTold, Told
    <2>7. CASE Poll(c)
      <3>1. /\ UNCHANGED <<base, ended>> /\ phase[c] = "poll"
            /\ \A d \in Clients \ {c} : phase'[d] = phase[d] /\ row'[d] = row[d]
            /\ \/ phase'[c] = "live" /\ row'[c] = row[c]
               \/ phase'[c] = "closed" /\ ended[c] /\ row'[c] = row[c]
               \/ phase'[c] = "snapshot" /\ ~ended[c] /\ row'[c].status = status
        BY <2>0, <2>7 DEF Poll
      <3> QED
        BY <2>1, <2>2, <3>1 DEF AllTold, Told
    <2>8. CASE SendSnapshot(c)
      <3>1. /\ UNCHANGED row
            /\ \A d \in Clients \ {c} :
                  phase'[d] = phase[d] /\ base'[d] = base[d] /\ ended'[d] = ended[d]
            /\ phase'[c] = "live"
            /\ ended'[c] = (row[c].status # "running")
            /\ At[c] \in loaded => base'[c] = memory[At[c]]
        BY <2>0, <2>8 DEF SendSnapshot
      <3>2. ASSUME row[c].status # "running", At[c] = Home[row[c].status],
                   NEW i \in 1 .. (Events[row[c].status] - 1)
            PROVE  [by |-> row[c].status, n |-> i] \in base'[c] \union unsent
        <4> DEFINE e == row[c].status
        <4>1. e \in Emitters /\ current[e] = Events[e] /\ Events[e] \in Nat
          BY <3>2, RunStreamAssumption DEF AllTold, Told, Over
        <4>2. FoldedTo(e) = Events[e] - 1
          BY <4>1 DEF FoldedTo, IsLast
        <4>3. i \in 1 .. FoldedTo(e)
          BY <4>2
        <4>4. \/ [by |-> e, n |-> i] \in unsent
              \/ Home[e] \in loaded /\ [by |-> e, n |-> i] \in memory[Home[e]]
          BY <4>1, <4>3 DEF Folded
        <4> QED
          BY <3>1, <3>2, <4>4
      <3> QED
        BY <2>1, <2>2, <3>1, <3>2 DEF AllTold, Told
    <2> QED
      BY <1>2, <2>4, <2>5, <2>6, <2>7, <2>8 DEF Serve
  <1>3. CASE UNCHANGED vars
    BY <1>3 DEF vars, emitterVars, serviceVars, failureVars, clientVars, AllTold, Told, Over
  <1>4. ASSUME NEW e \in Emitters, Raise(e) PROVE AllTold'
    <2>1. UNCHANGED <<phase, row, base, ended, status>> /\ unsent \subseteq unsent'
      BY <1>4, RaiseProgress DEF clientVars
    <2>2. \A f : Over(f) => Over(f)'
      BY <1>4, StaysOver
    <2>3. \A c \in Clients : Told(c)'
      BY <2>1, <2>2 DEF AllTold, Told
    <2> QED
      BY <2>1, <2>2, <2>3 DEF AllTold
  <1> QED
    BY <1>1, <1>2, <1>3, <1>4 DEF Next

\* A stream that closes has told the outcome and what led to it, for any number of
\* emitters, cancel requests among them, and of processes (api.py 177-189).
THEOREM ClosesCompleteCorrect == Spec => []ClosesComplete
<1>1. Init => AllTold
  BY DEF Init, AllTold, Told
<1>2. AllTold => ClosesComplete
  BY DEF AllTold, Told, ClosesComplete
<1> QED
  BY <1>1, <1>2, ToldInductive, FoldedCorrect, PTL DEF Spec

-----------------------------------------------------------------------------
(* What is sent, where one process numbers the events.                     *)

OneProcess == \A p, q \in Procs : p = q

\* Emitters whose event has a number.
InFlight == {e \in Emitters : step[e] \in {"publish", "relay"}}

\* The messages that may still reach a subscriber.
Around(c) == Elements(queue[c]) \union Elements(relay[c])
                 \union {MessageOf(e) : e \in InFlight}

\* An event that has got a number.
Numbered(x) ==
    \/ x.n < current[x.by]
    \/ x.n = current[x.by] /\ step[x.by] \in {"publish", "relay", "done"}

\* Numbers that were given are below the next, and each is the number of one event:
\* a message is skipped exactly if its event was sent.
NumberedOnce(c) ==
    /\ \A m \in Around(c) : /\ m \in Message /\ Numbered(m.event)
                            /\ \A p \in Procs : m.id < nextId[p]
    /\ \A m, k \in Around(c) : m.id = k.id <=> m.event = k.event
    /\ \A m \in Around(c) : m.id \in seen[c] <=> m.event \in Elements(got[c])
    /\ \A i \in seen[c] : \A p \in Procs : i < nextId[p]
    /\ \A x \in Elements(got[c]) : x \in Event /\ Numbered(x)

AllNumbered == \A c \in Clients : NumberedOnce(c)

\* Fewer messages are no harm, nor are higher numbers to come.
LEMMA FewerMessages ==
    ASSUME TypeOK, NEW c \in Clients, NumberedOnce(c), Around(c)' \subseteq Around(c),
           seen'[c] = seen[c], got'[c] = got[c],
           \A p \in Procs : nextId'[p] \in Nat /\ nextId'[p] >= nextId[p],
           \A x \in Event : Numbered(x) => Numbered(x)'
    PROVE  NumberedOnce(c)'
  <1>1. /\ \A p \in Procs : nextId[p] \in Nat
        /\ \A i \in seen[c] : i \in Nat
    BY DEF TypeOK
  <1>2. Elements(got[c])' = Elements(got[c])
    BY DEF Elements
  <1>3. \A m \in Around(c) : m \in Message /\ m.id \in Nat /\ m.event \in Event
    BY DEF NumberedOnce, Message
  <1>4. \A m \in Around(c)' : /\ m \in Message /\ Numbered(m.event)'
                              /\ \A p \in Procs : m.id < nextId'[p]
    <2> SUFFICES ASSUME NEW m \in Around(c)
                 PROVE  /\ m \in Message /\ Numbered(m.event)'
                        /\ \A p \in Procs : m.id < nextId'[p]
      OBVIOUS
    <2>1. \A p \in Procs : m.id < nextId[p]
      BY DEF NumberedOnce
    <2>2. \A p \in Procs : m.id < nextId'[p]
      BY <1>1, <1>3, <2>1
    <2> QED
      BY <1>3, <2>2 DEF NumberedOnce
  <1>5. \A i \in seen[c] : \A p \in Procs : i < nextId'[p]
    <2>1. \A i \in seen[c] : \A p \in Procs : i < nextId[p]
      BY DEF NumberedOnce
    <2> QED
      BY <1>1, <2>1
  <1>6. \A x \in Elements(got[c]) : x \in Event /\ Numbered(x)'
    BY DEF NumberedOnce
  <1>7. /\ \A m, k \in Around(c)' : m.id = k.id <=> m.event = k.event
        /\ \A m \in Around(c)' : m.id \in seen[c] <=> m.event \in Elements(got[c])
    BY DEF NumberedOnce
  <1> QED
    BY <1>2, <1>4, <1>5, <1>6, <1>7 DEF NumberedOnce

\* An event keeps its number.
LEMMA StaysNumbered ==
    ASSUME TypeOK, InOrder, NEW e \in Emitters, Emit(e), NEW x \in Event, Numbered(x)
    PROVE  Numbered(x)'
  <1>1. x.by \in Emitters /\ x.n \in Nat /\ current[x.by] \in Nat
    BY DEF Event, TypeOK
  <1>2. CASE x.by # e
    BY <1>1, <1>2, Progress DEF Numbered
  <1>3. CASE x.by = e /\ current'[e] = current[e]
    <2>1. step[e] \in {"publish", "relay", "done"} => step'[e] \in {"relay", "done"}
      <3>1. /\ step = [f \in Emitters |-> step[f]]
            /\ current = [f \in Emitters |-> current[f]] /\ current[e] \in Nat
        BY DEF TypeOK
      <3>2. ASSUME NextEvent(e) PROVE step'[e] = "done"
        BY <1>3, <3>1, <3>2 DEF NextEvent
      <3>3. CASE step[e] = "publish"
        <4>1. Publish(e)
          BY <3>3 DEF Emit, WriteStatus, Apply, Fold, Flush, Number, Goto, Relay
        <4> QED
          BY <3>1, <3>2, <4>1 DEF Publish
      <3>4. CASE step[e] = "relay"
        <4>1. Relay(e)
          BY <3>4 DEF Emit, WriteStatus, Apply, Fold, Flush, Number, Goto, Publish
        <4> QED
          BY <3>2, <4>1 DEF Relay
      <3>5. CASE step[e] = "done"
        BY <3>5 DEF Emit, WriteStatus, Apply, Fold, Flush, Number, Goto, Publish, Relay
      <3> QED
        BY <3>3, <3>4, <3>5
    <2> QED
      BY <1>3, <2>1 DEF Numbered
  <1>4. CASE x.by = e /\ current'[e] = current[e] + 1
    BY <1>1, <1>4 DEF Numbered
  <1> QED
    BY <1>2, <1>3, <1>4, Progress

\* The calls of an emitter but the numbering add no message.
LEMMA EmitAround ==
    ASSUME TypeOK, NEW e \in Emitters, Emit(e), ~Number(e), NEW c \in Clients
    PROVE  Around(c)' \subseteq Around(c) /\ UNCHANGED <<nextId, seen, got>>
  <1>0. /\ step = [f \in Emitters |-> step[f]] /\ queue \in [Clients -> Seq(Message)]
        /\ relay \in [Clients -> Seq(Message)]
        /\ current = [f \in Emitters |-> current[f]]
        /\ number = [f \in Emitters |-> number[f]]
    BY DEF TypeOK
  <1>1. ASSUME UNCHANGED <<current, number>>, InFlight' \subseteq InFlight
        PROVE  {MessageOf(f) : f \in InFlight}' \subseteq {MessageOf(f) : f \in InFlight}
    BY <1>1 DEF MessageOf, CurrentEvent
  <1>2. CASE WriteStatus(e) \/ Apply(e) \/ Flush(e)
    <2>1. /\ UNCHANGED <<current, number, queue, relay, nextId, seen, got>>
          /\ InFlight' \subseteq InFlight
      BY <1>0, <1>2 DEF WriteStatus, Apply, Fold, Flush, Goto, InFlight, clientVars,
                        busVars, serviceVars
    <2> QED
      BY <1>1, <2>1 DEF Around
  <1>3. ASSUME NextEvent(e), step[e] \in {"publish", "relay"}
        PROVE  {MessageOf(f) : f \in InFlight}' \subseteq {MessageOf(f) : f \in InFlight}
    <2>1. step'[e] \notin {"publish", "relay"}
      BY <1>0, <1>3 DEF NextEvent, Start
    <2>2. \A f \in Emitters \ {e} : /\ step'[f] = step[f] /\ current'[f] = current[f]
                                    /\ number'[f] = number[f]
      BY <1>0, <1>3 DEF NextEvent
    <2> QED
      BY <2>1, <2>2 DEF InFlight, MessageOf, CurrentEvent
  <1>4. CASE Publish(e)
    <2>1. e \in InFlight /\ step[e] = "publish"
      BY <1>4 DEF Publish, InFlight
    <2>2. {MessageOf(f) : f \in InFlight}' \subseteq {MessageOf(f) : f \in InFlight}
      <3>1. CASE Redis
        BY <1>0, <1>1, <1>4, <2>1, <3>1 DEF Publish, InFlight
      <3> QED
        BY <1>3, <1>4, <2>1, <3>1 DEF Publish
    <2>3. Elements(queue[c])' \subseteq Elements(queue[c]) \union {MessageOf(e)}
      <3>1. queue'[c] \in {queue[c], Append(queue[c], MessageOf(e))}
        BY <1>4 DEF Publish
      <3>2. /\ MessageOf(e) \in Message /\ queue[c] \in Seq(Message)
            /\ Elements(queue[c])' = Elements(queue'[c])
        BY <1>0, MessageType DEF Elements
      <3>3. Elements(Append(queue[c], MessageOf(e))) = Elements(queue[c]) \union {MessageOf(e)}
        BY <3>2, AppendElements
      <3> QED
        BY <3>1, <3>2, <3>3
    <2>4. UNCHANGED <<relay, nextId, seen, got>>
      BY <1>4 DEF Publish, serviceVars, clientVars
    <2> QED
      BY <2>1, <2>2, <2>3, <2>4 DEF Around
  <1>5. CASE Relay(e)
    <2>1. e \in InFlight /\ step[e] = "relay"
      BY <1>5 DEF Relay, InFlight
    <2>2. {MessageOf(f) : f \in InFlight}' \subseteq {MessageOf(f) : f \in InFlight}
      BY <1>3, <1>5, <2>1 DEF Relay
    <2>3. Elements(relay[c])' \subseteq Elements(relay[c]) \union {MessageOf(e)}
      <3>1. relay'[c] \in {relay[c], Append(relay[c], MessageOf(e))}
        BY <1>5 DEF Relay
      <3>2. /\ MessageOf(e) \in Message /\ relay[c] \in Seq(Message)
            /\ Elements(relay[c])' = Elements(relay'[c])
        BY <1>0, MessageType DEF Elements
      <3>3. Elements(Append(relay[c], MessageOf(e))) = Elements(relay[c]) \union {MessageOf(e)}
        BY <3>2, AppendElements
      <3> QED
        BY <3>1, <3>2, <3>3
    <2>4. UNCHANGED <<queue, nextId, seen, got>>
      BY <1>5 DEF Relay, serviceVars, clientVars
    <2> QED
      BY <2>1, <2>2, <2>3, <2>4 DEF Around
  <1> QED
    BY <1>2, <1>4, <1>5 DEF Emit

\* A fresh number is that of one event, which had none.
LEMMA NumberOnce ==
    ASSUME OneProcess, TypeOK, NEW e \in Emitters, Number(e),
           NEW c \in Clients, NumberedOnce(c), InOrder
    PROVE  NumberedOnce(c)'
  <1> DEFINE m == [id |-> nextId[Home[e]], event |-> CurrentEvent(e)]
  <1>0. /\ step = [f \in Emitters |-> step[f]] /\ number = [f \in Emitters |-> number[f]]
        /\ nextId \in [Procs -> Nat] /\ Home[e] \in Procs
        /\ \A p \in Procs : p = Home[e]
    BY RunStreamAssumption DEF TypeOK, OneProcess
  <1>1. /\ UNCHANGED <<queue, relay, seen, got, current>>
        /\ nextId' = [nextId EXCEPT ![Home[e]] = @ + 1]
        /\ number' = [number EXCEPT ![e] = nextId[Home[e]]]
        /\ step' = [step EXCEPT ![e] = "publish"] /\ step[e] = "number"
    BY DEF Number, Goto, clientVars, busVars
  <1>2. CurrentEvent(e) \in Event /\ m \in Message
    BY <1>0, MessageType DEF Message
  <1>3. ~Numbered(CurrentEvent(e)) /\ Numbered(CurrentEvent(e))'
    <2>1. current[e] \in Nat
      BY DEF TypeOK
    <2> QED
      BY <1>0, <1>1, <2>1 DEF Numbered, CurrentEvent
  <1>4. \A x \in Event : Numbered(x) => Numbered(x)'
    BY StaysNumbered DEF Emit
  <1>5. Around(c)' \subseteq Around(c) \union {m}
    <2>1. \A f \in InFlight' : (f \in InFlight /\ f # e) \/ f = e
      BY <1>0, <1>1 DEF InFlight
    <2>2. \A f \in InFlight \ {e} : MessageOf(f)' = MessageOf(f)
      BY <1>0, <1>1 DEF InFlight, MessageOf, CurrentEvent
    <2>3. MessageOf(e)' = m
      BY <1>0, <1>1 DEF MessageOf, CurrentEvent
    <2>4. {MessageOf(f) : f \in InFlight}' \subseteq {MessageOf(f) : f \in InFlight} \union {m}
      BY <2>1, <2>2, <2>3
    <2> QED
      BY <1>1, <2>4 DEF Around
  <1>6. \A p \in Procs : nextId[p] \in Nat /\ nextId'[p] = nextId[p] + 1
                         /\ m.id = nextId[p]
    BY <1>0, <1>1
  <1>7. \A k \in Around(c) : /\ k \in Message /\ k.id \in Nat /\ k.event \in Event
                             /\ Numbered(k.event) /\ k.id # m.id /\ k.event # m.event
                             /\ \A p \in Procs : k.id < nextId[p]
    BY <1>0, <1>3, <1>6 DEF NumberedOnce, Message
  <1>8. m.id \notin seen[c] /\ m.event \notin Elements(got[c])
    BY <1>0, <1>3, <1>6 DEF NumberedOnce
  <1>9. seen[c] \subseteq Nat
    BY DEF TypeOK
  <1> HIDE DEF m
  <1>10. m.id \in Nat /\ m.event = CurrentEvent(e)
    BY <1>0 DEF m
  <1>11. \A k \in Around(c)' : /\ k \in Message /\ Numbered(k.event)'
                               /\ \A p \in Procs : k.id < nextId'[p]
    <2> SUFFICES ASSUME NEW k \in Around(c)'
                 PROVE  /\ k \in Message /\ Numbered(k.event)'
                        /\ \A p \in Procs : k.id < nextId'[p]
      OBVIOUS
    <2>1. CASE k = m
      <3>1. k.event.by = e /\ k.event.n = current[e]
        BY <1>10, <2>1 DEF CurrentEvent
      <3>2. Numbered(k.event)'
        BY <1>0, <1>1, <3>1 DEF Numbered
      <3> QED
        BY <1>2, <1>6, <1>10, <2>1, <3>2
    <2>2. CASE k \in Around(c)
      <3>1. k.id \in Nat /\ \A p \in Procs : k.id < nextId[p]
        BY <1>7, <2>2
      <3>2. \A p \in Procs : k.id < nextId'[p]
        BY <1>6, <3>1
      <3> QED
        BY <1>4, <1>7, <2>2, <3>2
    <2> QED
      BY <1>5, <2>1, <2>2
  <1>12. \A k, l \in Around(c)' : k.id = l.id <=> k.event = l.event
    BY <1>5, <1>7 DEF NumberedOnce
  <1>13. \A k \in Around(c)' : k.id \in seen[c] <=> k.event \in Elements(got[c])
    BY <1>5, <1>8 DEF NumberedOnce
  <1>14. \A i \in seen[c] : \A p \in Procs : i < nextId'[p]
    BY <1>6, <1>9 DEF NumberedOnce
  <1> QED
    BY <1>1, <1>4, <1>11, <1>12, <1>13, <1>14 DEF NumberedOnce

\* A subscriber only takes from what is around it.
LEMMA ClientAround ==
    ASSUME TypeOK, NEW c \in Clients, Listen(c) \/ Subscribe(c) \/ Serve(c) \/ Leave(c),
           NEW d \in Clients
    PROVE  /\ Around(d)' \subseteq Around(d)
           /\ d # c \/ ~(SendSnapshot(c) \/ Take(c)) =>
                  seen'[d] = seen[d] /\ got'[d] = got[d]
           /\ \A p \in Procs : nextId'[p] \in Nat /\ nextId'[p] >= nextId[p]
           /\ \A x : Numbered(x)' = Numbered(x)
  <1>0. /\ queue \in [Clients -> Seq(Message)] /\ relay \in [Clients -> Seq(Message)]
        /\ seen = [b \in Clients |-> seen[b]] /\ got = [b \in Clients |-> got[b]]
        /\ nextId \in [Procs -> Nat] /\ At[c] \in Procs
    BY RunStreamAssumption DEF TypeOK
  <1>1. UNCHANGED <<step, current, number>>
    BY ClientQuiet DEF Listen, Connect, Disconnect, Arrive, Subscribe, Serve, ReadRow,
                       SendSnapshot, Take, TimeOut, Poll, Leave, emitterVars
  <1>2. {MessageOf(f) : f \in InFlight}' = {MessageOf(f) : f \in InFlight}
    BY <1>1 DEF MessageOf, CurrentEvent, InFlight
  <1>3. \A x : Numbered(x)' = Numbered(x)
    BY <1>1 DEF Numbered
  <1>4. \A p \in Procs : nextId'[p] \in Nat /\ nextId'[p] >= nextId[p]
    <2>1. CASE SendSnapshot(c)
      BY <1>0, <2>1 DEF SendSnapshot
    <2>2. CASE ~SendSnapshot(c)
      <3>1. nextId' = nextId
        BY <2>2 DEF Listen, Connect, Disconnect, Arrive, Subscribe, Serve, ReadRow,
                    Take, TimeOut, Poll, Leave, serviceVars
      <3> QED
        BY <1>0, <3>1
    <2> QED
      BY <2>1, <2>2
  <1>5. d # c \/ ~(SendSnapshot(c) \/ Take(c)) => seen'[d] = seen[d] /\ got'[d] = got[d]
    BY <1>0 DEF Listen, Connect, Disconnect, Arrive, Subscribe, Serve, ReadRow,
                SendSnapshot, Take, TimeOut, Poll, Leave, clientVars
  <1>6. Elements(queue'[d]) \union Elements(relay'[d])
            \subseteq Elements(queue[d]) \union Elements(relay[d])
    <2>1. CASE Arrive(c)
      <3>1. /\ relay[c] # <<>> /\ relay' = [relay EXCEPT ![c] = Tail(@)]
            /\ queue' = [queue EXCEPT ![c] = Append(@, Head(relay[c]))]
        BY <2>1 DEF Arrive
      <3>2. /\ Head(relay[c]) \in Message
            /\ Elements(relay[c]) = {Head(relay[c])} \union Elements(Tail(relay[c]))
        BY <1>0, <3>1, TailElements
      <3>3. Elements(Append(queue[c], Head(relay[c]))) =
                Elements(queue[c]) \union {Head(relay[c])}
        BY <1>0, <3>2, AppendElements
      <3> QED
        BY <1>0, <3>1, <3>2, <3>3
    <2>2. CASE Take(c)
      <3>1. /\ queue[c] # <<>> /\ relay' = relay /\ queue' = [queue EXCEPT ![c] = Tail(@)]
        BY <2>2 DEF Take
      <3>2. Elements(queue[c]) = {Head(queue[c])} \union Elements(Tail(queue[c]))
        BY <1>0, <3>1, TailElements
      <3> QED
        BY <1>0, <3>1, <3>2
    <2>3. CASE ~Arrive(c) /\ ~Take(c)
      <3>1. queue'[d] \in {queue[d], <<>>} /\ relay'[d] \in {relay[d], <<>>}
        BY <1>0, <2>3 DEF Listen, Connect, Disconnect, Subscribe, Serve, ReadRow,
                          SendSnapshot, TimeOut, Poll, Leave, busVars
      <3> QED
        BY <3>1, NoElements
    <2> QED
      BY <2>1, <2>2, <2>3
  <1>7. /\ Elements(queue[d])' = Elements(queue'[d])
        /\ Elements(relay[d])' = Elements(relay'[d])
    BY DEF Elements
  <1> QED
    BY <1>2, <1>3, <1>4, <1>5, <1>6, <1>7 DEF Around

\* A snapshot takes a number that no message has.
LEMMA SnapshotOnce ==
    ASSUME OneProcess, TypeOK, NEW c \in Clients, NumberedOnce(c), SendSnapshot(c)
    PROVE  NumberedOnce(c)'
  <1>1. /\ nextId \in [Procs -> Nat] /\ seen \in [Clients -> SUBSET Nat]
        /\ \A p \in Procs : p = At[c]
        /\ At[c] \in Procs
    BY RunStreamAssumption DEF TypeOK, OneProcess
  <1>2. /\ seen'[c] = seen[c] \union {nextId[At[c]]} /\ got' = got
        /\ \A p \in Procs : nextId'[p] = nextId[p] + 1 /\ nextId[p] = nextId[At[c]]
        /\ \A p \in Procs : nextId[p] \in Nat
    BY <1>1 DEF SendSnapshot
  <1>3. Around(c)' \subseteq Around(c) /\ \A x : Numbered(x)' = Numbered(x)
    BY ClientAround DEF Serve
  <1>4. Elements(got[c])' = Elements(got[c])
    BY <1>2 DEF Elements
  <1>5. \A m \in Around(c) : m.id \in Nat /\ m.id # nextId[At[c]]
                             /\ \A p \in Procs : m.id < nextId'[p]
    <2> SUFFICES ASSUME NEW m \in Around(c)
                 PROVE  m.id \in Nat /\ m.id # nextId[At[c]]
                        /\ \A p \in Procs : m.id < nextId'[p]
      OBVIOUS
    <2>1. m.id \in Nat /\ \A p \in Procs : m.id < nextId[p]
      BY DEF NumberedOnce, Message
    <2> QED
      BY <1>1, <1>2, <2>1
  <1>6. \A i \in seen'[c] : \A p \in Procs : i < nextId'[p]
    <2> SUFFICES ASSUME NEW i \in seen'[c], NEW p \in Procs PROVE i < nextId'[p]
      OBVIOUS
    <2>1. i \in Nat /\ (i < nextId[p] \/ i = nextId[p])
      BY <1>1, <1>2 DEF NumberedOnce
    <2> QED
      BY <1>2, <2>1
  <1> QED
    BY <1>2, <1>3, <1>4, <1>5, <1>6 DEF NumberedOnce

\* Taking a message marks its number exactly when its event is sent.
LEMMA TakeOnce ==
    ASSUME TypeOK, NEW c \in Clients, NumberedOnce(c), Take(c)
    PROVE  /\ NumberedOnce(c)'
           /\ \/ /\ Head(queue[c]).event \in Elements(got[c]) /\ got' = got
              \/ /\ Head(queue[c]).event \notin Elements(got[c])
                 /\ got'[c] = Append(got[c], Head(queue[c]).event)
                 /\ \A d \in Clients \ {c} : got'[d] = got[d]
  <1> DEFINE m == Head(queue[c])
  <1>0. /\ queue \in [Clients -> Seq(Message)] /\ queue[c] # <<>>
        /\ got \in [Clients -> Seq(Event)] /\ seen \in [Clients -> SUBSET Nat]
    BY DEF TypeOK, Take
  <1>1. m \in Around(c)
    <2>1. m \in Elements(queue[c])
      BY <1>0, TailElements
    <2> QED
      BY <2>1 DEF Around
  <1>2. /\ m \in Message /\ m.id \in Nat /\ m.event \in Event /\ Numbered(m.event)
        /\ \A p \in Procs : m.id < nextId[p]
        /\ m.id \in seen[c] <=> m.event \in Elements(got[c])
    BY <1>1 DEF NumberedOnce, Message
  <1>3. /\ Around(c)' \subseteq Around(c) /\ \A x : Numbered(x)' = Numbered(x)
        /\ nextId' = nextId
    BY ClientAround DEF Serve, Take, serviceVars
  <1>4. CASE m.id \in seen[c]
    <2>1. got' = got /\ seen' = seen
      BY <1>4 DEF Take
    <2>2. Elements(got[c])' = Elements(got[c])
      BY <2>1 DEF Elements
    <2>3. NumberedOnce(c)'
      BY <1>3, <2>1, <2>2 DEF NumberedOnce
    <2> QED
      BY <1>2, <1>4, <2>1, <2>3
  <1>5. CASE m.id \notin seen[c]
    <2>1. /\ seen' = [seen EXCEPT ![c] = @ \union {m.id}]
          /\ got' = [got EXCEPT ![c] = Append(@, m.event)]
      BY <1>5 DEF Take
    <2> HIDE DEF m
    <2>2. /\ seen'[c] = seen[c] \union {m.id} /\ got'[c] = Append(got[c], m.event)
          /\ \A d \in Clients \ {c} : got'[d] = got[d]
      BY <1>0, <2>1
    <2>3. Elements(got[c])' = Elements(got[c]) \union {m.event}
      <3>1. Elements(got[c])' = Elements(got'[c])
        BY DEF Elements
      <3>2. Elements(Append(got[c], m.event)) = Elements(got[c]) \union {m.event}
        BY <1>0, <1>2, AppendElements
      <3> QED
        BY <2>2, <3>1, <3>2
    <2>4. \A k \in Around(c) : k.id = m.id <=> k.event = m.event
      BY <1>1 DEF NumberedOnce
    <2>5. \A k \in Around(c) :
              k.id \in seen'[c] <=> k.event \in Elements(got[c]) \union {m.event}
      BY <2>2, <2>4 DEF NumberedOnce
    <2>6. /\ \A k \in Around(c)' : /\ k \in Message /\ Numbered(k.event)'
                                   /\ \A p \in Procs : k.id < nextId'[p]
          /\ \A k, l \in Around(c)' : k.id = l.id <=> k.event = l.event
          /\ \A i \in seen'[c] : \A p \in Procs : i < nextId'[p]
          /\ \A x \in Elements(got[c]) \union {m.event} : x \in Event /\ Numbered(x)'
      BY <1>2, <1>3, <2>2 DEF NumberedOnce
    <2>7. NumberedOnce(c)'
      BY <1>3, <2>3, <2>5, <2>6 DEF NumberedOnce
    <2> QED
      BY <1>2, <1>5, <2>2, <2>7 DEF m
  <1> QED
    BY <1>4, <1>5

\* Every step keeps numbers to their events.
LEMMA NumberedInductive ==
    ASSUME OneProcess
    PROVE  TypeOK /\ InOrder /\ AllNumbered /\ [Next]_vars => AllNumbered'
  <1> SUFFICES ASSUME TypeOK, InOrder, AllNumbered, [Next]_vars,
                      NEW d \in Clients
               PROVE  NumberedOnce(d)'
    BY DEF AllNumbered
  <1>0. NumberedOnce(d) /\ \A p \in Procs : nextId[p] \in Nat
    BY DEF AllNumbered, TypeOK
  <1>1. ASSUME NEW e \in Emitters, Emit(e) PROVE NumberedOnce(d)'
    <2>1. CASE Number(e)
      BY <1>0, <2>1, NumberOnce
    <2>2. CASE ~Number(e)
      BY <1>0, <1>1, <2>2, EmitAround, StaysNumbered, FewerMessages
    <2> QED
      BY <2>1, <2>2
  <1>2. ASSUME NEW c \in Clients, Listen(c) \/ Subscribe(c) \/ Serve(c) \/ Leave(c)
        PROVE  NumberedOnce(d)'
    <2>1. CASE d = c /\ SendSnapshot(c)
      BY <1>0, <2>1, SnapshotOnce
    <2>2. CASE d = c /\ Take(c)
      BY <1>0, <2>2, TakeOnce
    <2>3. CASE d # c \/ ~(SendSnapshot(c) \/ Take(c))
      BY <1>0, <1>2, <2>3, ClientAround, FewerMessages
    <2> QED
      BY <2>1, <2>2, <2>3
  <1>3. CASE UNCHANGED vars
    <2>1. UNCHANGED <<step, current, number, queue, relay, seen, got, nextId>>
      BY <1>3 DEF vars, emitterVars, serviceVars, clientVars, busVars
    <2>2. Around(d)' = Around(d) /\ \A x : Numbered(x)' = Numbered(x)
      BY <2>1 DEF Around, Elements, InFlight, MessageOf, CurrentEvent, Numbered
    <2> QED
      BY <1>0, <2>1, <2>2, FewerMessages
  <1>4. ASSUME NEW e \in Emitters, Raise(e) PROVE NumberedOnce(d)'
    <2>1. /\ UNCHANGED <<number, nextId, queue, relay, seen, got>>
          /\ \A f \in Emitters \ {e} : step'[f] = step[f] /\ current'[f] = current[f]
          /\ step[e] \notin {"publish", "relay", "done"}
          /\ step'[e] \notin {"publish", "relay"}
          /\ current'[e] >= current[e]
      BY <1>4, RaiseProgress DEF clientVars, busVars
    <2>2. /\ InFlight' = InFlight
          /\ \A f \in InFlight : MessageOf(f)' = MessageOf(f)
      BY <2>1 DEF InFlight, MessageOf, CurrentEvent
    <2>3. Around(d)' = Around(d)
      BY <2>1, <2>2 DEF Around, Elements
    <2>4. ASSUME NEW x \in Event, Numbered(x) PROVE Numbered(x)'
      <3>1. /\ x.by \in Emitters /\ x.n \in Nat
            /\ current[e] \in Nat /\ current'[e] \in Nat
        BY <1>4, RaiseType DEF Event, TypeOK
      <3> QED
        BY <2>1, <2>4, <3>1 DEF Numbered
    <2> QED
      BY <1>0, <2>1, <2>3, <2>4, FewerMessages
  <1> QED
    BY <1>1, <1>2, <1>3, <1>4 DEF Next

\* So numbers are those of one event in every behaviour.
LEMMA NumberedCorrect ==
    ASSUME OneProcess
    PROVE  Spec => [](TypeOK /\ InOrder /\ Folded /\ AllNumbered)
<1>1. Init => AllNumbered
  <2> SUFFICES ASSUME Init, NEW c \in Clients PROVE NumberedOnce(c)
    BY DEF AllNumbered
  <2>1. InFlight = {} /\ queue[c] = <<>> /\ relay[c] = <<>> /\ got[c] = <<>> /\ seen[c] = {}
    BY DEF Init, InFlight, Start
  <2>2. Around(c) = {} /\ Elements(got[c]) = {}
    BY <2>1, NoElements DEF Around
  <2> QED
    BY <2>1, <2>2 DEF NumberedOnce
<1> QED
  BY <1>1, NumberedInductive, FoldedCorrect, PTL DEF Spec

\* The events an emitter has published or given up.
Passed(e) ==
    {[by |-> e, n |-> i] :
        i \in 1 .. (IF step[e] = "relay" /\ ~IsLast(e) THEN current[e]
                    ELSE current[e] - 1)}

\* Only publishing an event that is not the last adds to them.
LEMMA PassedStep ==
    ASSUME TypeOK, InOrder, NEW e \in Emitters, Emit(e), NEW f \in Emitters
    PROVE  \/ Passed(f)' \subseteq Passed(f)
           \/ /\ f = e /\ Publish(e)
              /\ Passed(f)' \subseteq Passed(f) \union {CurrentEvent(e)}
  <1>0. /\ step = [g \in Emitters |-> step[g]] /\ current[f] \in Nat /\ current[e] \in Nat
        /\ current = [g \in Emitters |-> current[g]]
    BY DEF TypeOK
  <1>1. CASE f # e
    <2>1. step'[f] = step[f] /\ current'[f] = current[f]
      BY <1>1, Progress
    <2> QED
      BY <2>1 DEF Passed, IsLast
  <1>2. CASE f = e /\ current'[e] = current[e]
    <2>1. CASE step'[e] = "relay" /\ ~IsLast(e)
      <3>1. Publish(e)
        <4>1. ~Relay(e)
          BY <1>0, <1>2, <2>1 DEF Relay, NextEvent
        <4> QED
          BY <1>0, <2>1, <4>1 DEF Emit, WriteStatus, Apply, Fold, Flush, Number, Goto
      <3>2. step[e] = "publish"
        BY <3>1 DEF Publish
      <3>3. \A i \in 1 .. current[e] : i \in 1 .. current[e] - 1 \/ i = current[e]
        BY <1>0
      <3>4. /\ Passed(e) = {[by |-> e, n |-> i] : i \in 1 .. current[e] - 1}
            /\ Passed(e)' = {[by |-> e, n |-> i] : i \in 1 .. current[e]}
        BY <1>2, <2>1, <3>2 DEF Passed, IsLast
      <3> QED
        BY <1>2, <3>1, <3>3, <3>4 DEF CurrentEvent
    <2>2. CASE ~(step'[e] = "relay" /\ ~IsLast(e))
      <3>1. Passed(e)' = {[by |-> e, n |-> i] : i \in 1 .. current[e] - 1}
        BY <1>2, <2>2 DEF Passed, IsLast
      <3>2. 1 .. current[e] - 1 \subseteq 1 .. current[e]
        BY <1>0
      <3> QED
        BY <1>2, <3>1, <3>2 DEF Passed
    <2> QED
      BY <2>1, <2>2
  <1>3. CASE f = e /\ ~IsLast(e) /\ current'[e] = current[e] + 1
                   /\ step'[e] \in {"write", "apply"}
    <2>1. Passed(e)' = {[by |-> e, n |-> i] : i \in 1 .. current[e]}
      BY <1>0, <1>3 DEF Passed
    <2>2. \A i \in 1 .. current[e] : i \in 1 .. current[e] - 1 \/ i = current[e]
      BY <1>0
    <2>3. CASE step[e] = "relay"
      BY <1>3, <2>1, <2>3 DEF Passed
    <2>4. CASE step[e] # "relay"
      <3>1. Publish(e)
        BY <1>0, <1>3, <2>4 DEF Emit, WriteStatus, Apply, Fold, Flush, Number, Goto, Relay
      <3>2. Passed(e) = {[by |-> e, n |-> i] : i \in 1 .. current[e] - 1}
        BY <2>4 DEF Passed
      <3> QED
        BY <1>3, <2>1, <2>2, <3>1, <3>2 DEF CurrentEvent
    <2> QED
      BY <2>3, <2>4
  <1> QED
    BY <1>1, <1>2, <1>3, Progress

\* So only that adds to what is published.
LEMMA PublishedStep ==
    ASSUME TypeOK, InOrder, NEW e \in Emitters, Emit(e) \/ Raise(e), NEW f \in Emitters
    PROVE  \/ Published(f)' \subseteq Published(f)
           \/ /\ f = e /\ Publish(e)
              /\ Published(f)' \subseteq Published(f) \union {CurrentEvent(e)}
  <1>1. /\ Published(f) = Passed(f) \ unsent
        /\ Published(f)' = Passed(f)' \ unsent'
    BY DEF Published, Passed
  <1>2. CASE Emit(e)
    <2>1. unsent' = unsent
      BY <1>2 DEF Emit, WriteStatus, Apply, Fold, Flush, Number, Publish, Relay,
                  serviceVars, failureVars
    <2> QED
      BY <1>1, <1>2, <2>1, PassedStep
  <1>3. CASE Raise(e)
    <2>1. CASE f # e
      <3>1. Passed(f)' = Passed(f) /\ unsent \subseteq unsent'
        BY <1>3, <2>1, RaiseProgress DEF Passed, IsLast
      <3> QED
        BY <1>1, <3>1
    <2>2. CASE f = e
      <3>1. /\ Passed(e)' = {[by |-> e, n |-> i] : i \in 1 .. (Events[e] - 1)}
            /\ Passed(e) = {[by |-> e, n |-> i] : i \in 1 .. (current[e] - 1)}
        BY <1>3, RaiseProgress DEF Passed, IsLast
      <3>2. \A i \in 1 .. (Events[e] - 1) :
               i \in 1 .. (current[e] - 1) \/ i \in current[e] .. (Events[e] - 1)
        <4>1. current[e] \in Nat /\ Events[e] \in Nat
          BY RunStreamAssumption DEF TypeOK
        <4> QED
          BY ONLY <4>1
      <3>3. unsent \subseteq unsent'
        BY <1>3, RaiseProgress
      <3>4. \A i \in current[e] .. (Events[e] - 1) : [by |-> e, n |-> i] \in unsent'
        BY <1>3, RaiseProgress
      <3>5. Passed(e)' \ unsent' \subseteq Passed(e) \ unsent
        BY <3>1, <3>2, <3>3, <3>4
      <3> QED
        BY <1>1, <2>2, <3>5
    <2> QED
      BY <2>1, <2>2
  <1> QED
    BY <1>2, <1>3

\* An event published before a subscriber listened is in the row or in the memory
\* it reads afterwards; a later one is queued for it.
LEMMA NoGapInductive ==
    TypeOK /\ InOrder /\ Folded /\ AllNumbered /\ NoGap /\ [Next]_vars => NoGap'
  <1> SUFFICES ASSUME TypeOK, InOrder, Folded, AllNumbered, NoGap, [Next]_vars,
                      NEW d \in Clients, NEW f \in Emitters,
                      Live(d)', At[d] = Home[f]
               PROVE  Published(f)' \subseteq Reach(d)'
    BY DEF NoGap
  <1>0. /\ queue \in [Clients -> Seq(Message)] /\ got \in [Clients -> Seq(Event)]
        /\ phase = [b \in Clients |-> phase[b]] /\ base = [b \in Clients |-> base[b]]
    BY DEF TypeOK
  <1>01. Reach(d)' = base'[d] \union Elements(got'[d])
                        \union {m.event : m \in Elements(queue'[d])}
    BY DEF Reach, Elements
  <1>1. ASSUME NEW e \in Emitters, Emit(e) PROVE Published(f)' \subseteq Reach(d)'
    <2>1. UNCHANGED <<phase, base, got>>
      BY <1>1 DEF Emit, WriteStatus, Apply, Fold, Flush, Number, Publish, Relay,
                  clientVars
    <2>2. Live(d) /\ Published(f) \subseteq Reach(d)
      BY <2>1 DEF NoGap, Live
    <2>3. CASE Publish(e)
      <3>1. MessageOf(e) \in Message /\ MessageOf(e).event = CurrentEvent(e)
        BY MessageType DEF MessageOf
      <3>2. Elements(Append(queue[d], MessageOf(e))) = Elements(queue[d]) \union {MessageOf(e)}
        BY <1>0, <3>1, AppendElements
      <3>3. queue'[d] = IF At[d] = Home[e] THEN Append(queue[d], MessageOf(e)) ELSE queue[d]
        BY <2>2, <2>3 DEF Publish, Live, Subscribed
      <3>4. Reach(d) \subseteq Reach(d)'
        BY <1>01, <2>1, <3>2, <3>3 DEF Reach
      <3>5. f = e => CurrentEvent(e) \in Reach(d)'
        BY <1>01, <3>1, <3>2, <3>3
      <3> QED
        BY <1>1, <2>2, <3>4, <3>5, PublishedStep
    <2>4. CASE ~Publish(e)
      <3>1. queue' = queue
        BY <1>1, <2>4 DEF Emit, WriteStatus, Apply, Fold, Flush, Number, Relay, busVars
      <3> QED
        BY <1>01, <1>1, <2>1, <2>2, <2>4, <3>1, PublishedStep DEF Reach
    <2> QED
      BY <2>3, <2>4
  <1>2. ASSUME NEW c \in Clients, Listen(c) \/ Subscribe(c) \/ Serve(c) \/ Leave(c)
        PROVE  Published(f)' \subseteq Reach(d)'
    <2>1. Published(f)' = Published(f)
      BY <1>2, ClientQuiet DEF Published, IsLast
    <2>2. CASE c = d /\ SendSnapshot(c)
      <3>1. base'[d] = IF At[d] \in loaded THEN memory[At[d]] ELSE row[d].state
        BY <1>0, <2>2 DEF SendSnapshot
      <3>2. ASSUME NEW x \in Published(f) PROVE x \in base'[d]
        <4>1. current[f] \in Nat
          BY DEF TypeOK
        <4>2. PICK i \in 1 .. FoldedTo(f) : x = [by |-> f, n |-> i] /\ x \notin unsent
          BY <4>1, <3>2 DEF Published, FoldedTo
        <4> QED
          BY <3>1, <4>2 DEF Folded
      <3> QED
        BY <1>01, <2>1, <3>2
    <2>3. CASE c = d /\ Take(c)
      <3> DEFINE m == Head(queue[d])
      <3>1. /\ queue[d] # <<>> /\ phase' = phase /\ base' = base
            /\ queue'[d] = Tail(queue[d])
        <4>1. /\ queue' = [queue EXCEPT ![d] = Tail(@)] /\ queue[d] # <<>>
              /\ UNCHANGED <<phase, base>>
          BY <2>3 DEF Take
        <4> QED
          BY <1>0, <4>1
      <3>2. /\ m \in Message /\ m.event \in Event
            /\ Elements(queue[d]) = {m} \union Elements(Tail(queue[d]))
        <4>1. /\ m \in Message
              /\ Elements(queue[d]) = {m} \union Elements(Tail(queue[d]))
          BY <1>0, <3>1, TailElements
        <4> QED
          BY <4>1 DEF Message
      <3>3. NumberedOnce(d)
        BY DEF AllNumbered
      <3>4. Elements(got'[d]) = Elements(got[d]) \union {m.event}
        <4>1. CASE m.event \in Elements(got[d]) /\ got' = got
          BY <4>1
        <4>2. CASE got'[d] = Append(got[d], m.event)
          BY <1>0, <3>2, <4>2, AppendElements
        <4> QED
          BY <2>3, <3>3, <4>1, <4>2, TakeOnce
      <3>5. Live(d)
        BY <3>1 DEF Live
      <3> HIDE DEF m
      <3>6. Reach(d) \subseteq Reach(d)'
        BY <1>01, <3>1, <3>2, <3>4 DEF Reach
      <3> QED
        BY <2>1, <3>5, <3>6 DEF NoGap
    <2>4. CASE ~(c = d /\ (SendSnapshot(c) \/ Take(c)))
      <3>1. Live(d)
        BY <1>0, <1>2, <2>4
        DEF Listen, Connect, Disconnect, Arrive, Subscribe, Serve, ReadRow,
            SendSnapshot, Take, TimeOut, Poll, Leave, Live, clientVars
      <3>2. base'[d] = base[d]
        BY <1>0, <1>2, <2>4
        DEF Listen, Connect, Disconnect, Arrive, Subscribe, Serve, ReadRow,
            SendSnapshot, Take, TimeOut, Poll, Leave, clientVars
      <3>3. got'[d] = got[d]
        BY <1>2, <2>4, ClientAround
      <3>4. Elements(queue[d]) \subseteq Elements(queue'[d])
        <4>1. CASE Arrive(c)
          <5>1. /\ relay[c] \in Seq(Message) /\ relay[c] # <<>>
                /\ queue' = [queue EXCEPT ![c] = Append(@, Head(relay[c]))]
            BY <4>1 DEF Arrive, TypeOK
          <5>2. Head(relay[c]) \in Message
            BY <5>1, TailElements
          <5>3. Elements(queue[c]) \subseteq Elements(Append(queue[c], Head(relay[c])))
            BY <1>0, <5>2, AppendElements
          <5> QED
            BY <1>0, <5>1, <5>3
        <4>2. CASE ~Arrive(c)
          <5>1. queue'[d] = queue[d]
            BY <1>0, <1>2, <2>4, <4>2
            DEF Listen, Connect, Disconnect, Subscribe, Serve, ReadRow,
                SendSnapshot, Take, TimeOut, Poll, Leave, Live, busVars
          <5> QED
            BY <5>1
        <4> QED
          BY <4>1, <4>2
      <3> QED
        BY <1>01, <2>1, <3>1, <3>2, <3>3, <3>4 DEF NoGap, Reach
    <2> QED
      BY <2>2, <2>3, <2>4
  <1>3. CASE UNCHANGED vars
    <2>1. UNCHANGED <<step, current, unsent, phase, base, got, queue>>
      BY <1>3 DEF vars, emitterVars, serviceVars, failureVars, clientVars, busVars
    <2> QED
      BY <2>1 DEF NoGap, Live, Published, IsLast, Reach, Elements
  <1>4. ASSUME NEW e \in Emitters, Raise(e) PROVE Published(f)' \subseteq Reach(d)'
    <2>1. UNCHANGED <<phase, base, got, queue>> /\ ~Publish(e)
      BY <1>4, RaiseProgress DEF clientVars, busVars, Publish
    <2>2. Published(f)' \subseteq Published(f)
      BY <1>4, <2>1, PublishedStep
    <2> QED
      BY <2>1, <2>2 DEF NoGap, Live, Reach, Elements
  <1> QED
    BY <1>1, <1>2, <1>3, <1>4 DEF Next

\* In one process, with any emitters and subscribers and with Redis or without, no
\* subscriber misses an event, whenever it came (api.py 141-194).
THEOREM NoGapCorrect == ASSUME OneProcess PROVE Spec => []NoGap
<1>1. Init => NoGap
  BY DEF Init, NoGap, Live
<1> QED
  BY <1>1, NoGapInductive, NumberedCorrect, PTL DEF Spec

\* And none is sent to it twice.
THEOREM SentOnceCorrect == ASSUME OneProcess PROVE Spec => []SentOnce
<1>1. Init => SentOnce
  BY DEF Init, SentOnce
<1>2. TypeOK /\ AllNumbered /\ SentOnce /\ [Next]_vars => SentOnce'
  <2> SUFFICES ASSUME TypeOK, AllNumbered, SentOnce, [Next]_vars, NEW d \in Clients,
                      NEW i \in DOMAIN got'[d], NEW j \in DOMAIN got'[d], i < j
               PROVE  got'[d][i] # got'[d][j]
    BY DEF SentOnce
  <2>1. CASE got'[d] = got[d]
    BY <2>1 DEF SentOnce
  <2>2. ASSUME Take(d) PROVE got'[d][i] # got'[d][j]
    <3> DEFINE x == Head(queue[d]).event
    <3>1. got[d] \in Seq(Event) /\ NumberedOnce(d)
      BY DEF TypeOK, AllNumbered
    <3>2. CASE x \notin Elements(got[d]) /\ got'[d] = Append(got[d], x)
      <4> HIDE DEF x
      <4>1. /\ DOMAIN got[d] = 1 .. Len(got[d]) /\ Len(got[d]) \in Nat
            /\ DOMAIN got'[d] = 1 .. Len(got[d]) + 1
            /\ \A k \in 1 .. Len(got[d]) : got'[d][k] = got[d][k]
            /\ got'[d][Len(got[d]) + 1] = x
        BY <3>1, <3>2
      <4>2. i \in 1 .. Len(got[d]) /\ (j \in 1 .. Len(got[d]) \/ j = Len(got[d]) + 1)
        BY <4>1
      <4>3. CASE j \in 1 .. Len(got[d])
        BY <4>1, <4>2, <4>3 DEF SentOnce
      <4>4. CASE j = Len(got[d]) + 1
        BY <3>2, <4>1, <4>2, <4>4 DEF Elements
      <4> QED
        BY <4>2, <4>3, <4>4
    <3> QED
      BY <2>1, <2>2, <3>1, <3>2, TakeOnce
  <2>3. CASE \E e \in Emitters : Emit(e)
    <3>1. got' = got
      BY <2>3 DEF Emit, WriteStatus, Apply, Fold, Flush, Number, Publish, Relay,
                  clientVars
    <3> QED
      BY <2>1, <3>1
  <2>4. ASSUME NEW c \in Clients, Listen(c) \/ Subscribe(c) \/ Serve(c) \/ Leave(c)
        PROVE  got'[d][i] # got'[d][j]
    <3>1. CASE c = d /\ Take(c)
      BY <2>2, <3>1
    <3>2. CASE SendSnapshot(c)
      BY <2>1, <3>2 DEF SendSnapshot
    <3>3. CASE ~(c = d /\ Take(c)) /\ ~SendSnapshot(c)
      BY <2>1, <2>4, <3>3, ClientAround
    <3> QED
      BY <3>1, <3>2, <3>3
  <2>5. CASE UNCHANGED vars
    BY <2>1, <2>5 DEF vars, clientVars
  <2>6. CASE \E e \in Emitters : Raise(e)
    BY <2>1, <2>6 DEF Raise, clientVars
  <2> QED
    BY <2>3, <2>4, <2>5, <2>6 DEF Next
<1> QED
  BY <1>1, <1>2, NumberedCorrect, PTL DEF Spec
=============================================================================
