--------------------------- MODULE ServiceProofs ----------------------------
(***************************************************************************)
(* Proofs about Session and Startup, which share no variable.  Session,    *)
(* for any life of the cookie of at least two seconds, any latency and any *)
(* number of overlapping requests: an active user stays signed in.         *)
(* Startup, for any number of instances, migrations and crashes: an        *)
(* instance which serves has a migrated database.                          *)
(***************************************************************************)
EXTENDS Session, Startup, TLAPS

-----------------------------------------------------------------------------
(* The session.                                                             *)

\* session_ttl_seconds // 2 is at least a second, and at most the whole.
LEMMA HalfLife ==
    /\ MarkerLife \in Nat /\ MarkerLife >= 1
    /\ Pause \in Nat /\ Pause + MarkerLife = Ttl
<1>1. Ttl \in Nat /\ Ttl >= 2
  BY SessionAssumption
<1>2. Ttl \div 2 \in Nat /\ 2 * (Ttl \div 2) <= Ttl /\ Ttl \div 2 >= 1
  BY <1>1, Z3
<1> QED
  BY <1>1, <1>2 DEF MarkerLife, Pause

\* Every variable has its type.
THEOREM SessionTypeCorrect == SessionSpec => []SessionTypeOK
<1>1. SessionInit => SessionTypeOK
  <2> SUFFICES ASSUME SessionInit PROVE SessionTypeOK
    OBVIOUS
  <2>1. now \in Nat /\ cookieUntil \in Nat /\ markerUntil \in Nat /\ lastUse \in Nat
    BY DEF SessionInit
  <2>2. pending \subseteq Requests
    BY DEF SessionInit
  <2>3. signedIn \in BOOLEAN /\ diligent \in BOOLEAN
    BY Zenon DEF SessionInit
  <2> QED
    BY <2>1, <2>2, <2>3 DEF SessionTypeOK
<1>2. SessionTypeOK /\ [SessionNext]_sessionVars => SessionTypeOK'
  <2> SUFFICES ASSUME SessionTypeOK, [SessionNext]_sessionVars
               PROVE  SessionTypeOK'
    OBVIOUS
  <2> USE SessionAssumption, HalfLife DEF SessionTypeOK
  <2>1. CASE SignIn
    BY <2>1 DEF SignIn, SetCookies
  <2>2. CASE SignOut
    BY <2>2 DEF SignOut
  <2>3. CASE Send
    <3>1. PICK streams \in BOOLEAN : pending' = pending \union
               {[sent |-> now, cookie |-> Present(cookieUntil),
                 marker |-> Present(markerUntil), streams |-> streams]}
      BY <2>3 DEF Send
    <3>2. Present(cookieUntil) \in BOOLEAN /\ Present(markerUntil) \in BOOLEAN
      BY DEF Present
    <3>3. pending' \subseteq Requests
      BY <3>1, <3>2 DEF Requests
    <3> QED
      BY <2>3, <3>3 DEF Send
  <2>4. CASE Tick
    BY <2>4 DEF Tick
  <2>5. ASSUME NEW r \in pending, Succeed(r) PROVE SessionTypeOK'
    BY <2>5 DEF Succeed, SetCookies, Requests
  <2>6. ASSUME NEW r \in pending, Refuse(r) PROVE SessionTypeOK'
    BY <2>6 DEF Refuse
  <2>7. CASE UNCHANGED sessionVars
    BY <2>7 DEF sessionVars
  <2> QED
    BY <2>1, <2>2, <2>3, <2>4, <2>5, <2>6, <2>7 DEF SessionNext
<1> QED
  BY <1>1, <1>2, PTL DEF SessionSpec

-----------------------------------------------------------------------------
\* While a user is signed in, the two cookies were set together; no request was
\* sent in the future; one that carries the marker was sent before the marker that
\* the browser has now expires, and so was the last one that succeeded: if it did
\* not carry the marker, it set a new one.
CookiesInStep ==
    /\ \A r \in pending : r.sent <= now
    /\ lastUse <= now
    /\ signedIn =>
           /\ cookieUntil = markerUntil + Pause
           /\ markerUntil <= now + MarkerLife
           /\ lastUse < markerUntil
           /\ \A r \in pending : r.marker => r.sent < markerUntil
           /\ diligent => now <= lastUse + Pause

\* The cookies stay in step, however requests overlap.
THEOREM CookiesInStepCorrect == SessionSpec => []CookiesInStep
<1>1. SessionInit => CookiesInStep
  BY DEF SessionInit, CookiesInStep
<1>2. SessionTypeOK /\ CookiesInStep /\ [SessionNext]_sessionVars => CookiesInStep'
  <2> SUFFICES ASSUME SessionTypeOK, CookiesInStep, [SessionNext]_sessionVars
               PROVE  CookiesInStep'
    OBVIOUS
  <2> USE SessionAssumption, HalfLife DEF SessionTypeOK, CookiesInStep, Requests
  <2>1. CASE SignIn
    BY <2>1 DEF SignIn, SetCookies
  <2>2. CASE SignOut
    BY <2>2 DEF SignOut
  <2>3. CASE Send
    <3>1. PICK streams \in BOOLEAN : pending' = pending \union
               {[sent |-> now, cookie |-> Present(cookieUntil),
                 marker |-> Present(markerUntil), streams |-> streams]}
      BY <2>3 DEF Send
    <3>2. ASSUME NEW r \in pending'
          PROVE  r.sent <= now /\ (signedIn /\ r.marker => r.sent < markerUntil)
      <4>1. CASE r \in pending
        BY <4>1
      <4>2. CASE r = [sent |-> now, cookie |-> Present(cookieUntil),
                      marker |-> Present(markerUntil), streams |-> streams]
        <5>1. r.sent = now /\ r.marker = Present(markerUntil)
          BY <4>2
        <5>2. r.marker => now < markerUntil
          BY <5>1, Zenon DEF Present
        <5> QED
          BY <5>1, <5>2
      <4> QED
        BY <3>1, <4>1, <4>2
    <3> QED
      BY <2>3, <3>2 DEF Send
  <2>4. CASE Tick
    <3>1. now' = now + 1 /\ pending' = pending /\ signedIn' = signedIn
          /\ lastUse' = lastUse /\ cookieUntil' = cookieUntil
          /\ markerUntil' = markerUntil
      BY <2>4 DEF Tick
    <3>2. diligent' => now' <= lastUse + Pause
      <4>1. diligent' => now + 1 - lastUse <= Pause
        BY <2>4, Zenon DEF Tick
      <4> QED
        BY <3>1, <4>1
    <3>3. \A r \in pending : r.sent <= now'
      BY <3>1
    <3> QED
      BY <3>1, <3>2, <3>3
  <2>5. ASSUME NEW r \in pending, Succeed(r) PROVE CookiesInStep'
    <3>1. r.sent \in Nat /\ r.sent <= now
      BY <2>5
    <3>2. CASE r.streams
      BY <2>5, <3>1, <3>2 DEF Succeed
    <3>3. CASE ~r.streams /\ r.marker
      BY <2>5, <3>1, <3>3 DEF Succeed
    <3>4. CASE ~r.streams /\ ~r.marker
      BY <2>5, <3>1, <3>4 DEF Succeed, SetCookies
    <3> QED
      BY <3>2, <3>3, <3>4
  <2>6. ASSUME NEW r \in pending, Refuse(r) PROVE CookiesInStep'
    BY <2>6 DEF Refuse
  <2>7. CASE UNCHANGED sessionVars
    BY <2>7 DEF sessionVars
  <2> QED
    BY <2>1, <2>2, <2>3, <2>4, <2>5, <2>6, <2>7 DEF SessionNext
<1> QED
  BY <1>1, <1>2, SessionTypeCorrect, PTL DEF SessionSpec

\* A user who never pauses for longer than Pause stays signed in.
THEOREM ActiveStaysSignedInCorrect == SessionSpec => []ActiveStaysSignedIn
<1>1. SessionTypeOK /\ CookiesInStep => ActiveStaysSignedIn
  BY HalfLife DEF SessionTypeOK, CookiesInStep, ActiveStaysSignedIn
<1> QED
  BY <1>1, SessionTypeCorrect, CookiesInStepCorrect, PTL

-----------------------------------------------------------------------------
(* The start.                                                               *)

\* Every variable has its type, files are those there are, and only the table of
\* migrations has number 0.
FileOf(i) ==
    /\ phase[i] \in {"apply", "applying"} => file[i] \in 0 .. Migrations
    /\ phase[i] = "record" => file[i] \in Files
    /\ phase[i] = "lookup" => file[i] \in 1 .. Migrations + 1

StartupTypes == StartupTypeOK /\ \A i \in Instances : FileOf(i)

\* The types are inductive: every step keeps them (all actions of Startup).
LEMMA TypesInductive ==
    StartupTypes /\ [StartupNext]_startupVars => StartupTypes'
<1> SUFFICES ASSUME StartupTypes, [StartupNext]_startupVars PROVE StartupTypes'
  OBVIOUS
<1> USE StartupAssumption DEF StartupTypes, StartupTypeOK, FileOf, Files, Phases,
        Become
<1>1. ASSUME NEW i \in Instances, Start(i) PROVE StartupTypes'
  BY <1>1 DEF Start
<1>2. ASSUME NEW i \in Instances, LookUp(i) PROVE StartupTypes'
  <2>1. CASE file[i] > Migrations
    BY <1>2, <2>1 DEF LookUp
  <2>2. CASE ~(file[i] > Migrations) /\ file[i] \in recorded
    BY <1>2, <2>2 DEF LookUp
  <2>3. CASE ~(file[i] > Migrations) /\ file[i] \notin recorded
    BY <1>2, <2>3 DEF LookUp
  <2> QED
    BY <2>1, <2>2, <2>3
<1>3. ASSUME NEW i \in Instances, BeginApply(i) PROVE StartupTypes'
  BY <1>3 DEF BeginApply
<1>4. ASSUME NEW i \in Instances, CommitApply(i) PROVE StartupTypes'
  <2>1. CASE file[i] = 0
    BY <1>4, <2>1 DEF CommitApply
  <2>2. CASE file[i] # 0
    <3>1. file[i] \in Files
      BY <1>4, <2>2 DEF CommitApply
    <3>2. StartupTypeOK'
      BY <1>4, <2>2, <3>1 DEF CommitApply
    <3>3. ASSUME NEW j \in Instances PROVE FileOf(j)'
      BY <1>4, <2>2, <3>1 DEF CommitApply
    <3> QED
      BY <3>2, <3>3
  <2> QED
    BY <2>1, <2>2
<1>5. ASSUME NEW i \in Instances, CollideApply(i) PROVE StartupTypes'
  BY <1>5 DEF CollideApply
<1>6. ASSUME NEW i \in Instances, RecordMigration(i) PROVE StartupTypes'
  <2>1. CASE file[i] \in recorded
    BY <1>6, <2>1 DEF RecordMigration
  <2>2. CASE file[i] \notin recorded
    <3>1. file[i] \in Files
      BY <1>6 DEF RecordMigration
    <3>2. StartupTypeOK'
      <4>1. file[i] + 1 \in 0 .. Migrations + 1
        BY <3>1
      <4>2. /\ file' = [file EXCEPT ![i] = file[i] + 1]
            /\ recorded' = recorded \union {file[i]}
        BY <1>6, <2>2 DEF RecordMigration
      <4>3. file' \in [Instances -> 0 .. Migrations + 1]
        BY <4>1, <4>2
      <4> QED
        BY <1>6, <2>2, <3>1, <4>2, <4>3 DEF RecordMigration
    <3>3. ASSUME NEW j \in Instances PROVE FileOf(j)'
      BY <1>6, <2>2, <3>1 DEF RecordMigration
    <3> QED
      BY <3>2, <3>3
  <2> QED
    BY <2>1, <2>2
<1>7. ASSUME NEW i \in Instances, ValidateProvider(i) PROVE StartupTypes'
  BY <1>7 DEF ValidateProvider
<1>8. ASSUME NEW i \in Instances, WarmUp(i) PROVE StartupTypes'
  BY <1>8 DEF WarmUp
<1>9. ASSUME NEW i \in Instances, GoDown(i) PROVE StartupTypes'
  BY <1>9 DEF GoDown
<1>10. CASE UNCHANGED startupVars
  BY <1>10 DEF startupVars
<1> QED
  BY <1>1, <1>2, <1>3, <1>4, <1>5, <1>6, <1>7, <1>8, <1>9, <1>10
     DEF StartupNext, Advance

\* They hold when the processes have not started yet.
LEMMA TypesInitially == StartupInit => StartupTypes
  BY StartupAssumption
     DEF StartupInit, StartupTypes, StartupTypeOK, FileOf, Files, Phases

\* They hold always, with what a phase says of the migration an instance is at.
THEOREM StartupTypesCorrect == StartupSpec => []StartupTypes
  BY TypesInitially, TypesInductive, PTL DEF StartupSpec

\* Every variable has its type.
THEOREM StartupTypeCorrect == StartupSpec => []StartupTypeOK
<1>1. StartupTypes => StartupTypeOK
  BY DEF StartupTypes
<1> QED
  BY <1>1, StartupTypesCorrect, PTL

-----------------------------------------------------------------------------
\* The schema and the names grow in order, and an instance has passed only what is
\* recorded: so what it takes up next, or records, follows what is there.
SchemaInOrder ==
    /\ \A f \in applied : 0 .. f \subseteq applied
    /\ recorded \subseteq applied

Passed(i) ==
    /\ phase[i] \in {"lookup", "apply", "applying", "record"} =>
           /\ 1 .. (file[i] - 1) \subseteq recorded
           /\ file[i] > 0 => 0 \in applied
    /\ phase[i] = "record" => file[i] \in applied
    /\ phase[i] \in {"startup", "warm", "serving"} => recorded = Files
    /\ ready[i] => phase[i] \in {"warm", "serving"}

MigratedInOrder == SchemaInOrder /\ \A i \in Instances : Passed(i)

\* What one instance has passed stays passed when the others go on.
LEMMA PassedStays ==
    ASSUME StartupTypes, StartupTypes', NEW i \in Instances, Passed(i),
           applied \subseteq applied', recorded \subseteq recorded',
           phase'[i] = phase[i], file'[i] = file[i], ready'[i] = ready[i]
    PROVE  Passed(i)'
  BY DEF Passed, StartupTypes, StartupTypeOK

\* Every step keeps the order: a migration is applied after those before it, and
\* recorded once it is in the schema (CommitApply, RecordMigration, LookUp).
LEMMA MigratedInductive ==
    StartupTypes /\ StartupTypes' /\ MigratedInOrder /\ [StartupNext]_startupVars
        => MigratedInOrder'
<1> SUFFICES ASSUME StartupTypes, StartupTypes', MigratedInOrder,
                    [StartupNext]_startupVars
             PROVE  MigratedInOrder'
  OBVIOUS
<1> USE StartupAssumption
<1>0. ASSUME NEW i \in Instances, applied \subseteq applied',
             recorded \subseteq recorded', SchemaInOrder', Passed(i)',
             \A j \in Instances \ {i} : /\ phase'[j] = phase[j]
                                        /\ file'[j] = file[j]
                                        /\ ready'[j] = ready[j]
      PROVE  MigratedInOrder'
  <2>1. ASSUME NEW j \in Instances, j # i PROVE Passed(j)'
    BY <1>0, <2>1, PassedStays DEF MigratedInOrder
  <2> QED
    BY <1>0, <2>1 DEF MigratedInOrder
<1> USE DEF StartupTypes, StartupTypeOK, FileOf, Files, Become, MigratedInOrder,
        SchemaInOrder, Passed
<1>1. ASSUME NEW i \in Instances, Start(i) PROVE MigratedInOrder'
  BY <1>0, <1>1 DEF Start
<1>2. ASSUME NEW i \in Instances, LookUp(i) PROVE MigratedInOrder'
  <2>1. CASE file[i] > Migrations
    <3>1. file[i] = Migrations + 1 /\ 1 .. (file[i] - 1) \subseteq recorded
      BY <1>2, <2>1 DEF LookUp
    <3>2. file[i] - 1 = Migrations
      BY <3>1
    <3>3. Files \subseteq recorded
      BY <3>1, <3>2
    <3>4. recorded = Files
      BY <3>3
    <3> QED
      BY <1>0, <1>2, <2>1, <3>4 DEF LookUp
  <2>2. CASE ~(file[i] > Migrations) /\ file[i] \in recorded
    <3>1. phase'[i] = "lookup" /\ file'[i] = file[i] + 1 /\ ready'[i] = ready[i]
      BY <1>2, <2>2 DEF LookUp
    <3>2. 1 .. (file[i] - 1) \subseteq recorded /\ file[i] \in recorded
      BY <1>2, <2>2 DEF LookUp
    <3>3. 1 .. (file'[i] - 1) \subseteq recorded
      BY <3>1, <3>2
    <3>4. Passed(i)'
      BY <1>2, <2>2, <3>1, <3>3 DEF LookUp
    <3> QED
      BY <1>0, <1>2, <2>2, <3>4 DEF LookUp
  <2>3. CASE ~(file[i] > Migrations) /\ file[i] \notin recorded
    BY <1>0, <1>2, <2>3 DEF LookUp
  <2> QED
    BY <2>1, <2>2, <2>3
<1>3. ASSUME NEW i \in Instances, BeginApply(i) PROVE MigratedInOrder'
  BY <1>0, <1>3 DEF BeginApply
<1>4. ASSUME NEW i \in Instances, CommitApply(i) PROVE MigratedInOrder'
  <2>1. 0 .. file[i] \subseteq applied'
    <3> SUFFICES ASSUME NEW f \in 0 .. file[i] PROVE f \in applied'
      OBVIOUS
    <3>1. CASE f = file[i]
      BY <1>4, <3>1 DEF CommitApply
    <3>2. CASE f = 0 /\ f # file[i]
      BY <1>4, <3>2 DEF CommitApply
    <3>3. CASE f # 0 /\ f # file[i]
      BY <1>4, <3>3 DEF CommitApply
    <3> QED
      BY <3>1, <3>2, <3>3
  <2>2. SchemaInOrder'
    BY <1>4, <2>1 DEF CommitApply
  <2>3. CASE file[i] = 0
    BY <1>0, <1>4, <2>2, <2>3 DEF CommitApply
  <2>4. CASE file[i] # 0
    BY <1>0, <1>4, <2>2, <2>4 DEF CommitApply
  <2> QED
    BY <2>3, <2>4
<1>5. ASSUME NEW i \in Instances, CollideApply(i) PROVE MigratedInOrder'
  BY <1>0, <1>5 DEF CollideApply
<1>6. ASSUME NEW i \in Instances, RecordMigration(i) PROVE MigratedInOrder'
  <2>1. CASE file[i] \in recorded
    BY <1>0, <1>6, <2>1 DEF RecordMigration
  <2>2. CASE file[i] \notin recorded
    <3>1. 1 .. file[i] \subseteq recorded'
      BY <1>6, <2>2 DEF RecordMigration
    <3>2. recorded' \subseteq applied'
      BY <1>6, <2>2 DEF RecordMigration
    <3>3. Passed(i)'
      BY <1>6, <2>2, <3>1 DEF RecordMigration
    <3> QED
      BY <1>0, <1>6, <2>2, <3>2, <3>3 DEF RecordMigration
  <2> QED
    BY <2>1, <2>2
<1>7. ASSUME NEW i \in Instances, ValidateProvider(i) PROVE MigratedInOrder'
  BY <1>0, <1>7 DEF ValidateProvider
<1>8. ASSUME NEW i \in Instances, WarmUp(i) PROVE MigratedInOrder'
  BY <1>0, <1>8 DEF WarmUp
<1>9. ASSUME NEW i \in Instances, GoDown(i) PROVE MigratedInOrder'
  BY <1>0, <1>9 DEF GoDown
<1>10. CASE UNCHANGED startupVars
  BY <1>10 DEF startupVars
<1> QED
  BY <1>1, <1>2, <1>3, <1>4, <1>5, <1>6, <1>7, <1>8, <1>9, <1>10
     DEF StartupNext, Advance

\* The schema and the names grow in order in every behaviour.
THEOREM MigratedInOrderCorrect == StartupSpec => []MigratedInOrder
<1>1. StartupInit => MigratedInOrder
  BY DEF StartupInit, MigratedInOrder, SchemaInOrder, Passed
<1> QED
  BY <1>1, StartupTypesCorrect, MigratedInductive, PTL DEF StartupSpec

\* An instance that is ready or serves has every migration in its database, in
\* order, whatever instances crash or collide.
THEOREM ServesMigratedCorrect == StartupSpec => []ServesMigrated
<1>1. MigratedInOrder => ServesMigrated
  BY DEF MigratedInOrder, SchemaInOrder, Passed, ServesMigrated
<1> QED
  BY <1>1, MigratedInOrderCorrect, PTL
=============================================================================
