--------------------------- MODULE AttemptProofs ---------------------------
(***************************************************************************)
(* Theorems about what the attempts of a run leave behind: the             *)
(* conversation with the model (Dialogue) and the artifacts                *)
(* (ArtifactStore), for any numbers of attempts, corrections, regenerated  *)
(* programs, pieces and artifacts.                                         *)
(***************************************************************************)
EXTENDS Dialogue, ArtifactStore, SequenceTheorems, TLAPS

(***************************************************************************)
(* Dialogue.                                                               *)
(***************************************************************************)

\* A program of this round is under way that is not generated but corrected.
Correcting == stage \in {"save", "announce"} /\ corrections > 0

\* Nothing of this round has been executed.
Untried ==
    \/ stage \in {"idle", "generate", "validate"}
    \/ stage \in {"save", "announce"} /\ corrections = 0

\* Programs are executed in rounds that have begun, and the round after another
\* was told the last program of that one.
RoundsInOrder ==
    /\ \A r \in 0 .. MaxRegenerations : r > round => runs[r] = <<>>
    /\ Untried => runs[round] = <<>> /\ (stage # "idle" => corrections = 0)
    /\ prior = -1 <=> round = 0
    /\ round > 0 => runs[round - 1] # <<>> /\ prior = Last(runs[round - 1])

\* The program in hand at each place that keeps it, from the step on that puts it
\* there.
InPlace ==
    /\ stage \in {"save", "announce", "validate", "execute", "correct",
                  "exhausted", "completed"} => code \in Nat
    /\ stage \in {"announce", "validate", "execute", "correct", "completed"} =>
           row = code
    /\ stage \in {"validate", "execute", "correct", "completed"} =>
           shown = Shown(code)
    /\ stage \in {"correct", "exhausted", "completed"} =>
           runs[round] # <<>> /\ Last(runs[round]) = code
    /\ stage = "correct" => corrections < MaxCorrections

\* The turns up to the last program that was executed in this round and failed.
Recorded(mine) ==
    /\ turns[1] = Question(prior)
    /\ \A i \in 1 .. Len(mine) :
           turns[2 * i] = Model(mine[i]) /\ turns[2 * i + 1] = Failure(mine[i])

Remembered ==
    /\ stage = "correct" =>
           Len(turns) = 2 * Len(runs[round]) + 1 /\ Recorded(runs[round])
    /\ Correcting \/ stage = "execute" =>
           /\ Len(turns) = 2 * Len(runs[round]) + 2 /\ Recorded(runs[round])
           /\ turns[Len(turns)] = Model(code)
    /\ stage = "completed" => turns # <<>> /\ turns[Len(turns)] = Model(code)

Turns == [role : {"user", "model"}, says : {"question", "program", "error"},
          program : Programs]
Shows == [program : Nat, whole : BOOLEAN]

LEMMA TurnTypes ==
    \A p \in Programs : {Question(p), Model(p), Failure(p)} \subseteq Turns
  BY DEF Turns, Question, Model, Failure

LEMMA ShownTypes ==
    ASSUME NEW p \in Nat
    PROVE  Shown(p) \in Seq(Shows) /\ Chunk(p) \in Shows
  <1>1. Chunk(p) \in Shows /\ [program |-> p, whole |-> TRUE] \in Shows
    BY DEF Chunk, Shows
  <1>2. CASE p = 0
    BY <1>1, <1>2 DEF Shown
  <1>3. CASE p # 0
    BY <1>1, <1>3 DEF Shown
  <1> QED
    BY <1>2, <1>3

\* The types, with names for the sets of records.
Typed ==
    /\ provider \in Providers \union {"none"} /\ stage \in Stages
    /\ round \in 0 .. MaxRegenerations /\ corrections \in 0 .. MaxCorrections
    /\ turns \in Seq(Turns) /\ shown \in Seq(Shows)
    /\ code \in Programs /\ chunks \in 0 .. MaxChunks /\ row \in Programs
    /\ prior \in Programs /\ written \in Nat
    /\ runs \in [0 .. MaxRegenerations -> Seq(Nat)]

DialogueInv == Typed /\ RoundsInOrder /\ InPlace /\ Remembered

LEMMA TypesNamed == DialogueTypeOK <=> Typed
  BY DEF DialogueTypeOK, Typed, Turns, Shows

LEMMA DialogueInitially == DialogueInit => DialogueInv
  <1> SUFFICES ASSUME DialogueInit PROVE DialogueInv
    OBVIOUS
  <1>1. Typed
    BY DialogueAssumption DEF DialogueInit, Typed, Stages, Programs
  <1>2. RoundsInOrder /\ InPlace /\ Remembered
    BY DialogueAssumption
    DEF DialogueInit, RoundsInOrder, InPlace, Remembered, Untried, Correcting
  <1> QED
    BY <1>1, <1>2 DEF DialogueInv

LEMMA DialogueTypes ==
    ASSUME DialogueInv, DialogueNext
    PROVE  Typed'
  <1>1. CASE Ask
    BY <1>1, DialogueAssumption DEF Ask,
           DialogueInv, Typed, Stages, Programs
  <1>2. CASE StreamChunk
    BY <1>2, ShownTypes, DialogueAssumption DEF StreamChunk,
           DialogueInv, Typed, Stages, Programs
  <1>3. CASE \E p \in {0, written + 1} : ReceiveProgram(p)
    <2>1. PICK p \in {0, written + 1} : ReceiveProgram(p)
      BY <1>3
    <2>2. shown' \in Seq(Shows)
      <3>1. p \in Nat /\ shown \in Seq(Shows)
        BY DEF DialogueInv, Typed
      <3>2. Shown(p) \in Seq(Shows)
        BY <3>1, ShownTypes
      <3>3. shown' = shown \/ shown' = shown \o Shown(p)
        BY <2>1 DEF ReceiveProgram
      <3>4. shown \o Shown(p) \in Seq(Shows)
        BY <3>1, <3>2, ConcatProperties
      <3> QED
        BY <3>1, <3>3, <3>4
    <2> QED
      BY <2>1, <2>2 DEF ReceiveProgram, DialogueInv, Typed, Stages, Programs
  <1>4. CASE FailGeneration
    BY <1>4, DialogueAssumption DEF FailGeneration,
           DialogueInv, Typed, Stages, Programs
  <1>5. CASE SaveProgram
    BY <1>5, DialogueAssumption DEF SaveProgram,
           DialogueInv, Typed, Stages, Programs
  <1>6. CASE AnnounceProgram
    <2>1. code \in Nat
      BY <1>6 DEF AnnounceProgram, DialogueInv, InPlace
    <2>2. shown' \in Seq(Shows)
      BY <1>6, <2>1, ShownTypes DEF AnnounceProgram
    <2> QED
      BY <1>6, <2>2 DEF AnnounceProgram, DialogueInv, Typed, Stages, Programs
  <1>7. CASE OpenConversation
    BY <1>7, TurnTypes, DialogueAssumption DEF OpenConversation,
           DialogueInv, Typed, Stages, Programs
  <1>8. CASE RejectProgram
    BY <1>8, DialogueAssumption DEF RejectProgram,
           DialogueInv, Typed, Stages, Programs
  <1>9. CASE Execute
    <2>1. code \in Nat
      BY <1>9 DEF Execute, DialogueInv, InPlace
    <2>2. runs' \in [0 .. MaxRegenerations -> Seq(Nat)]
      <3>1. runs \in [0 .. MaxRegenerations -> Seq(Nat)] /\ round \in 0 .. MaxRegenerations
        BY DEF DialogueInv, Typed
      <3> QED
        BY <1>9, <2>1, <3>1 DEF Execute
    <2>3. turns' = turns \/ turns' = Append(turns, Failure(code))
      BY <1>9 DEF Execute
    <2>4. turns \in Seq(Turns) /\ Failure(code) \in Turns
      BY <2>1, TurnTypes DEF DialogueInv, Typed, Programs
    <2>5. turns' \in Seq(Turns)
      BY <2>3, <2>4
    <2> QED
      BY <1>9, <2>2, <2>5 DEF Execute, DialogueInv, Typed, Stages, Programs
  <1>10. CASE \E p \in 0 .. (written + 1) : TakeCorrection(p)
    BY <1>10, TurnTypes, DialogueAssumption DEF TakeCorrection, Corrected, InPlace,
           DialogueInv, Typed, Stages, Programs
  <1>11. CASE FailCorrection
    BY <1>11, DialogueAssumption DEF FailCorrection,
           DialogueInv, Typed, Stages, Programs
  <1>12. CASE Regenerate
    BY <1>12, DialogueAssumption DEF Regenerate, InPlace,
           DialogueInv, Typed, Stages, Programs
  <1>13. CASE GiveUp
    BY <1>13, DialogueAssumption DEF GiveUp,
           DialogueInv, Typed, Stages, Programs
  <1> QED
    BY <1>1, <1>2, <1>3, <1>4, <1>5, <1>6, <1>7, <1>8, <1>9, <1>10, <1>11,
       <1>12, <1>13 DEF DialogueNext

LEMMA DialogueRounds ==
    ASSUME DialogueInv, DialogueNext
    PROVE  RoundsInOrder'
  <1>1. CASE Ask
    BY <1>1, DialogueAssumption DEF Ask,
           DialogueInv, Typed, Stages, Programs, RoundsInOrder, Untried
  <1>2. CASE StreamChunk
    BY <1>2, DialogueAssumption DEF StreamChunk,
           DialogueInv, Typed, Stages, Programs, RoundsInOrder, Untried
  <1>3. CASE \E p \in {0, written + 1} : ReceiveProgram(p)
    BY <1>3, DialogueAssumption DEF ReceiveProgram,
           DialogueInv, Typed, Stages, Programs, RoundsInOrder, Untried
  <1>4. CASE FailGeneration
    BY <1>4, DialogueAssumption DEF FailGeneration,
           DialogueInv, Typed, Stages, Programs, RoundsInOrder, Untried
  <1>5. CASE SaveProgram
    BY <1>5, DialogueAssumption DEF SaveProgram,
           DialogueInv, Typed, Stages, Programs, RoundsInOrder, Untried
  <1>6. CASE AnnounceProgram
    BY <1>6, DialogueAssumption DEF AnnounceProgram,
           DialogueInv, Typed, Stages, Programs, RoundsInOrder, Untried
  <1>7. CASE OpenConversation
    BY <1>7, DialogueAssumption DEF OpenConversation,
           DialogueInv, Typed, Stages, Programs, RoundsInOrder, Untried
  <1>8. CASE RejectProgram
    BY <1>8, DialogueAssumption DEF RejectProgram,
           DialogueInv, Typed, Stages, Programs, RoundsInOrder, Untried
  <1>9. CASE Execute
    BY <1>9, DialogueAssumption DEF Execute,
           DialogueInv, Typed, Stages, Programs, RoundsInOrder, Untried
  <1>10. CASE \E p \in 0 .. (written + 1) : TakeCorrection(p)
    BY <1>10, DialogueAssumption DEF TakeCorrection, Corrected,
           DialogueInv, Typed, Stages, Programs, RoundsInOrder, Untried
  <1>11. CASE FailCorrection
    BY <1>11, DialogueAssumption DEF FailCorrection,
           DialogueInv, Typed, Stages, Programs, RoundsInOrder, Untried
  <1>12. CASE Regenerate
    <2>1. /\ round' = round + 1 /\ round \in Nat /\ round + 1 \in 0 .. MaxRegenerations
          /\ prior' = code /\ code \in Nat /\ corrections' = 0 /\ stage' = "generate"
          /\ runs' = runs /\ runs[round] # <<>> /\ Last(runs[round]) = code
      BY <1>12, DialogueAssumption DEF Regenerate, DialogueInv, Typed, InPlace
    <2>2. \A r \in 0 .. MaxRegenerations : r > round => runs[r] = <<>>
      BY DEF DialogueInv, RoundsInOrder
    <2> QED
      BY <2>1, <2>2 DEF RoundsInOrder, Untried
  <1>13. CASE GiveUp
    BY <1>13, DialogueAssumption DEF GiveUp,
           DialogueInv, Typed, Stages, Programs, RoundsInOrder, Untried
  <1> QED
    BY <1>1, <1>2, <1>3, <1>4, <1>5, <1>6, <1>7, <1>8, <1>9, <1>10, <1>11,
       <1>12, <1>13 DEF DialogueNext

LEMMA DialoguePlaces ==
    ASSUME DialogueInv, DialogueNext
    PROVE  InPlace'
  <1>1. CASE Ask
    BY <1>1, DialogueAssumption DEF Ask,
           DialogueInv, Typed, Stages, Programs, InPlace
  <1>2. CASE StreamChunk
    BY <1>2, DialogueAssumption DEF StreamChunk,
           DialogueInv, Typed, Stages, Programs, InPlace
  <1>3. CASE \E p \in {0, written + 1} : ReceiveProgram(p)
    BY <1>3, DialogueAssumption DEF ReceiveProgram,
           DialogueInv, Typed, Stages, Programs, InPlace
  <1>4. CASE FailGeneration
    BY <1>4, DialogueAssumption DEF FailGeneration,
           DialogueInv, Typed, Stages, Programs, InPlace
  <1>5. CASE SaveProgram
    BY <1>5, DialogueAssumption DEF SaveProgram,
           DialogueInv, Typed, Stages, Programs, InPlace
  <1>6. CASE AnnounceProgram
    BY <1>6, DialogueAssumption DEF AnnounceProgram, Shown,
           DialogueInv, Typed, Stages, Programs, InPlace
  <1>7. CASE OpenConversation
    BY <1>7, DialogueAssumption DEF OpenConversation, Shown,
           DialogueInv, Typed, Stages, Programs, InPlace
  <1>8. CASE RejectProgram
    BY <1>8, DialogueAssumption DEF RejectProgram,
           DialogueInv, Typed, Stages, Programs, InPlace
  <1>9. CASE Execute
    <2>1. code \in Nat /\ runs[round] \in Seq(Nat)
      BY <1>9 DEF Execute, DialogueInv, Typed, InPlace
    <2>2. runs'[round] = Append(runs[round], code)
      BY <1>9 DEF Execute, DialogueInv, Typed
    <2>3. runs'[round] # <<>> /\ Last(runs'[round]) = code
      BY <2>1, <2>2 DEF Last
    <2>4. corrections \in 0 .. MaxCorrections /\ row = code /\ shown = Shown(code)
      BY <1>9 DEF Execute, DialogueInv, Typed, InPlace
    <2> QED
      BY <1>9, <2>1, <2>3, <2>4, DialogueAssumption DEF Execute, InPlace, Shown
  <1>10. CASE \E p \in 0 .. (written + 1) : TakeCorrection(p)
    BY <1>10, DialogueAssumption DEF TakeCorrection, Corrected,
           DialogueInv, Typed, Stages, Programs, InPlace
  <1>11. CASE FailCorrection
    BY <1>11, DialogueAssumption DEF FailCorrection,
           DialogueInv, Typed, Stages, Programs, InPlace
  <1>12. CASE Regenerate
    BY <1>12, DialogueAssumption DEF Regenerate,
           DialogueInv, Typed, Stages, Programs, InPlace
  <1>13. CASE GiveUp
    BY <1>13, DialogueAssumption DEF GiveUp,
           DialogueInv, Typed, Stages, Programs, InPlace
  <1> QED
    BY <1>1, <1>2, <1>3, <1>4, <1>5, <1>6, <1>7, <1>8, <1>9, <1>10, <1>11,
       <1>12, <1>13 DEF DialogueNext

LEMMA DialogueTurns ==
    ASSUME DialogueInv, DialogueNext
    PROVE  Remembered'
  <1>1. CASE Ask
    BY <1>1 DEF Ask,
           DialogueInv, Typed, Remembered, Recorded, Correcting
  <1>2. CASE StreamChunk
    BY <1>2 DEF StreamChunk,
           DialogueInv, Typed, Remembered, Recorded, Correcting
  <1>3. CASE \E p \in {0, written + 1} : ReceiveProgram(p)
    BY <1>3 DEF ReceiveProgram, RoundsInOrder, Untried,
           DialogueInv, Typed, Remembered, Recorded, Correcting
  <1>4. CASE FailGeneration
    BY <1>4 DEF FailGeneration,
           DialogueInv, Typed, Remembered, Recorded, Correcting
  <1>5. CASE SaveProgram
    BY <1>5 DEF SaveProgram,
           DialogueInv, Typed, Remembered, Recorded, Correcting
  <1>6. CASE AnnounceProgram
    BY <1>6 DEF AnnounceProgram,
           DialogueInv, Typed, Remembered, Recorded, Correcting
  <1>7. CASE OpenConversation
    <2>1. runs'[round'] = <<>> /\ Len(runs'[round']) = 0
      BY <1>7 DEF OpenConversation, DialogueInv, RoundsInOrder, Untried
    <2> QED
      BY <1>7, <2>1 DEF OpenConversation, Remembered, Recorded, Correcting
  <1>8. CASE RejectProgram
    BY <1>8 DEF RejectProgram,
           DialogueInv, Typed, Remembered, Recorded, Correcting
  <1>9. CASE Execute
    <2> DEFINE n == Len(runs[round])
    <2>1. /\ runs[round] \in Seq(Nat) /\ code \in Nat /\ turns \in Seq(Turns)
          /\ Failure(code) \in Turns
      BY <1>9, TurnTypes DEF Execute, DialogueInv, Typed, InPlace, Programs
    <2>2. /\ runs'[round] = Append(runs[round], code)
          /\ prior' = prior /\ code' = code /\ round' = round
          /\ stage' = "correct" => turns' = Append(turns, Failure(code))
          /\ stage' # "correct" => turns' = turns
          /\ stage' \in {"completed", "correct", "exhausted"}
      BY <1>9 DEF Execute, DialogueInv, Typed
    <2>3. /\ Len(turns) = 2 * n + 2 /\ turns[1] = Question(prior)
          /\ turns[2 * n + 2] = Model(code)
          /\ \A i \in 1 .. n : /\ turns[2 * i] = Model(runs[round][i])
                               /\ turns[2 * i + 1] = Failure(runs[round][i])
      BY <1>9 DEF Execute, DialogueInv, Remembered, Recorded
    <2>4. n \in Nat /\ Len(runs'[round]) = n + 1 /\ runs'[round][n + 1] = code
          /\ \A i \in 1 .. n : runs'[round][i] = runs[round][i]
      BY <2>1, <2>2
    <2> HIDE DEF n
    <2>5. CASE stage' = "correct"
      <3>1. /\ Len(turns') = 2 * (n + 1) + 1
            /\ \A j \in 1 .. 2 * n + 2 : turns'[j] = turns[j]
            /\ turns'[2 * n + 3] = Failure(code)
        <4>1. /\ Len(turns') = Len(turns) + 1 /\ turns'[Len(turns) + 1] = Failure(code)
              /\ \A j \in 1 .. Len(turns) : turns'[j] = turns[j]
          <5>1. /\ turns \in Seq(Turns) /\ Failure(code) \in Turns
                /\ turns' = Append(turns, Failure(code))
            BY <2>1, <2>2, <2>5
          <5> QED
            BY ONLY <5>1, AppendProperties
        <4> QED
          BY <2>3, <2>4, <4>1
      <3>2. turns'[1] = Question(prior)
        BY <2>3, <2>4, <3>1
      <3>3. ASSUME NEW i \in 1 .. n + 1
            PROVE  /\ turns'[2 * i] = Model(runs'[round][i])
                   /\ turns'[2 * i + 1] = Failure(runs'[round][i])
        <4>1. CASE i \in 1 .. n
          BY <2>3, <2>4, <3>1, <4>1
        <4>2. CASE i = n + 1
          <5>1. 2 * i = 2 * n + 2 /\ 2 * i + 1 = 2 * n + 3 /\ 2 * n + 2 \in 1 .. 2 * n + 2
            BY <2>4, <4>2
          <5> QED
            BY <2>3, <2>4, <3>1, <4>2, <5>1
        <4> QED
          BY <2>4, <4>1, <4>2
      <3> QED
        BY <2>2, <2>4, <2>5, <3>1, <3>2, <3>3 DEF Remembered, Recorded, Correcting
    <2>6. CASE stage' # "correct"
      <3>1. Len(turns) > 0 /\ turns # <<>> /\ turns[Len(turns)] = Model(code)
        BY <2>1, <2>3, <2>4
      <3> QED
        BY <2>2, <2>6, <3>1 DEF Remembered, Correcting
    <2> QED
      BY <2>5, <2>6
  <1>10. CASE \E p \in 0 .. (written + 1) : TakeCorrection(p)
    <2> DEFINE n == Len(runs[round])
    <2>1. PICK p \in 0 .. (written + 1) : TakeCorrection(p)
      BY <1>10
    <2>2. /\ turns' = Append(turns, Model(p)) /\ code' = p /\ stage' = "save"
          /\ UNCHANGED <<runs, round, prior>> /\ stage = "correct"
      BY <2>1 DEF TakeCorrection, Corrected
    <2>3. /\ turns \in Seq(Turns) /\ Model(p) \in Turns /\ runs[round] \in Seq(Nat)
      BY TurnTypes DEF DialogueInv, Typed, Programs
    <2>4. n \in Nat /\ Len(turns) = 2 * n + 1 /\ turns[1] = Question(prior)
          /\ \A i \in 1 .. n : /\ turns[2 * i] = Model(runs[round][i])
                               /\ turns[2 * i + 1] = Failure(runs[round][i])
      BY <2>2, <2>3 DEF DialogueInv, Remembered, Recorded
    <2> HIDE DEF n
    <2>5. /\ Len(turns') = 2 * n + 2 /\ turns'[2 * n + 2] = Model(p)
          /\ \A j \in 1 .. 2 * n + 1 : turns'[j] = turns[j]
      <3>1. /\ Len(turns') = Len(turns) + 1 /\ turns'[Len(turns) + 1] = Model(p)
            /\ \A j \in 1 .. Len(turns) : turns'[j] = turns[j]
        BY <2>2, <2>3, AppendProperties
      <3> QED
        BY <2>4, <3>1
    <2>6. \A i \in 1 .. n : 2 * i \in 1 .. 2 * n + 1 /\ 2 * i + 1 \in 1 .. 2 * n + 1
      BY <2>4
    <2>7. turns'[1] = Question(prior)
      BY <2>4, <2>5
    <2>8. \A i \in 1 .. n : /\ turns'[2 * i] = Model(runs[round][i])
                            /\ turns'[2 * i + 1] = Failure(runs[round][i])
      BY <2>4, <2>5, <2>6
    <2> QED
      BY <2>2, <2>5, <2>7, <2>8 DEF Remembered, Recorded, n
  <1>11. CASE FailCorrection
    BY <1>11 DEF FailCorrection,
           DialogueInv, Typed, Remembered, Recorded, Correcting
  <1>12. CASE Regenerate
    BY <1>12 DEF Regenerate,
           DialogueInv, Typed, Remembered, Recorded, Correcting
  <1>13. CASE GiveUp
    BY <1>13 DEF GiveUp,
           DialogueInv, Typed, Remembered, Recorded, Correcting
  <1> QED
    BY <1>1, <1>2, <1>3, <1>4, <1>5, <1>6, <1>7, <1>8, <1>9, <1>10, <1>11,
       <1>12, <1>13 DEF DialogueNext

\* What the conversation remembers, and what is saved and shown, fit together
\* after every step.
THEOREM DialogueInvCorrect == DialogueSpec => []DialogueInv
  <1>1. DialogueInv /\ [DialogueNext]_dialogueVars => DialogueInv'
    <2>1. CASE DialogueNext
      BY <2>1, DialogueTypes, DialogueRounds, DialoguePlaces, DialogueTurns
      DEF DialogueInv
    <2>2. CASE UNCHANGED dialogueVars
      BY <2>2
      DEF dialogueVars, DialogueInv, Typed, RoundsInOrder, InPlace,
          Remembered, Recorded, Untried, Correcting
    <2> QED
      BY <2>1, <2>2
  <1> QED
    BY <1>1, DialogueInitially, PTL DEF DialogueSpec

\* Every variable has its type.
THEOREM DialogueTypeCorrect == DialogueSpec => []DialogueTypeOK
  <1>1. DialogueInv => DialogueTypeOK
    BY TypesNamed DEF DialogueInv
  <1> QED
    BY <1>1, DialogueInvCorrect, PTL

\* Whenever a correction is asked for, the turns are the question and, for each
\* program executed in the round, the turn that wrote it and the one that tells its
\* failure (_execute_with_retry, generate_correction).
THEOREM TurnsFaithfulCorrect == DialogueSpec => []TurnsFaithful
  <1>1. DialogueInv => TurnsFaithful
    <2> SUFFICES ASSUME DialogueInv, stage = "correct" PROVE TurnsFaithful
      BY DEF TurnsFaithful
    <2>1. runs[round] \in Seq(Nat)
      BY DEF DialogueInv, Typed
    <2>2. DOMAIN runs[round] = 1 .. Len(runs[round])
      BY <2>1, LenProperties
    <2>3. prior = IF round = 0 THEN -1 ELSE Last(runs[round - 1])
      BY DEF DialogueInv, Typed, RoundsInOrder
    <2> QED
      BY <2>2, <2>3 DEF DialogueInv, Remembered, Recorded, TurnsFaithful
  <1> QED
    BY <1>1, DialogueInvCorrect, PTL

\* The program that is executed, or completed with, is the one in the row, the one
\* shown, whole and alone, and the last that the model wrote (update_run,
\* run.codegen.completed, conversation_history).
THEOREM ShowsWhatRunsCorrect == DialogueSpec => []ShowsWhatRuns
  <1>1. DialogueInv => ShowsWhatRuns
    <2> SUFFICES ASSUME DialogueInv, stage \in {"execute", "correct", "completed"}
                 PROVE  \E i \in DOMAIN turns :
                            /\ turns[i] = Model(code)
                            /\ \A j \in i + 1 .. Len(turns) : turns[j].role # "model"
      BY DEF DialogueInv, InPlace, ShowsWhatRuns
    <2>1. /\ Len(turns) \in Nat /\ DOMAIN turns = 1 .. Len(turns)
          /\ turns # <<>> => Len(turns) > 0
      <3>1. turns \in Seq(Turns)
        BY DEF DialogueInv, Typed
      <3> QED
        BY <3>1, LenProperties, EmptySeq
    <2>2. CASE stage = "correct"
      <3> DEFINE n == Len(runs[round])
      <3>1. n \in Nat /\ n > 0 /\ runs[round][n] = code /\ Len(turns) = 2 * n + 1
        <4>1. runs[round] # <<>> /\ Last(runs[round]) = code
          BY <2>2 DEF DialogueInv, InPlace
        <4>2. runs[round] \in Seq(Nat)
          BY DEF DialogueInv, Typed
        <4>3. Len(turns) = 2 * n + 1
          BY <2>2 DEF DialogueInv, Remembered
        <4> QED
          BY <4>1, <4>2, <4>3, EmptySeq DEF Last
      <3>2. turns[2 * n] = Model(code) /\ turns[2 * n + 1] = Failure(code)
        BY <2>2, <3>1 DEF DialogueInv, Remembered, Recorded
      <3>3. \A j \in 2 * n + 1 .. Len(turns) : turns[j].role # "model"
        BY <3>1, <3>2 DEF Failure
      <3> QED
        BY <2>1, <3>1, <3>2, <3>3
    <2>3. CASE stage # "correct"
      <3>1. Len(turns) > 0 /\ turns[Len(turns)] = Model(code)
        <4>1. CASE stage = "completed"
          BY <2>1, <4>1 DEF DialogueInv, Remembered
        <4>2. CASE stage = "execute"
          <5>1. runs[round] \in Seq(Nat)
            BY DEF DialogueInv, Typed
          <5>2. Len(turns) = 2 * Len(runs[round]) + 2 /\ Len(runs[round]) \in Nat
            BY <4>2, <5>1, LenProperties DEF DialogueInv, Remembered
          <5> QED
            BY <4>2, <5>2 DEF DialogueInv, Remembered
        <4> QED
          BY <2>3, <4>1, <4>2
      <3> QED
        BY <2>1, <3>1
    <2> QED
      BY <2>2, <2>3
  <1> QED
    BY <1>1, DialogueInvCorrect, PTL

-----------------------------------------------------------------------------
(***************************************************************************)
(* ArtifactStore.                                                          *)
(***************************************************************************)

LEMMA RangeAppend ==
    ASSUME NEW S, NEW s \in Seq(S), NEW e \in S
    PROVE  Range(Append(s, e)) = Range(s) \union {e}
  <1>1. /\ Append(s, e) \in Seq(S) /\ Len(Append(s, e)) = Len(s) + 1
        /\ \A i \in 1 .. Len(s) : Append(s, e)[i] = s[i]
        /\ Append(s, e)[Len(s) + 1] = e
    BY AppendProperties
  <1>2. /\ DOMAIN s = 1 .. Len(s) /\ DOMAIN Append(s, e) = 1 .. Len(s) + 1
        /\ Len(s) \in Nat
    BY <1>1, LenProperties
  <1> QED
    BY <1>1, <1>2 DEF Range

LEMMA RangeTail ==
    ASSUME NEW S, NEW s \in Seq(S), s # <<>>
    PROVE  /\ Head(s) \in S /\ Tail(s) \in Seq(S) /\ Head(s) = s[1]
           /\ Range(s) = {Head(s)} \union Range(Tail(s))
           /\ Len(Tail(s)) = Len(s) - 1 /\ Len(s) \in Nat \ {0}
           /\ \A i \in 1 .. Len(s) - 1 : Tail(s)[i] = s[i + 1]
  <1>1. /\ Head(s) \in S /\ Tail(s) \in Seq(S) /\ Len(Tail(s)) = Len(s) - 1
        /\ \A i \in 1 .. Len(Tail(s)) : Tail(s)[i] = s[i + 1]
    BY HeadTailProperties
  <1>2. /\ DOMAIN s = 1 .. Len(s) /\ DOMAIN Tail(s) = 1 .. Len(s) - 1
        /\ Len(s) \in Nat \ {0} /\ Head(s) = s[1]
    BY <1>1, LenProperties, EmptySeq
  <1>3. ASSUME NEW i \in 1 .. Len(s)
        PROVE  s[i] \in {Head(s)} \union Range(Tail(s))
    <2>1. CASE i = 1
      BY <1>2, <2>1
    <2>2. CASE i > 1
      <3>1. i - 1 \in 1 .. Len(s) - 1 /\ (i - 1) + 1 = i
        BY <1>2, <2>2
      <3> QED
        BY <1>1, <1>2, <3>1 DEF Range
    <2> QED
      BY <2>1, <2>2
  <1>4. ASSUME NEW i \in 1 .. Len(s) - 1
        PROVE  Tail(s)[i] \in Range(s)
    BY <1>1, <1>2 DEF Range
  <1>5. Range(s) = {Head(s)} \union Range(Tail(s))
    BY <1>2, <1>3, <1>4 DEF Range
  <1> QED
    BY <1>1, <1>2, <1>5

Executing == step \in {"execute", "put", "persist", "log", "ended"}
Replaying == step \in {"replay", "completed"}
Storing == step \in {"put", "persist"}

\* Where the thread is in an attempt, and which artifact it stores.
AttemptInv ==
    /\ step \in {"start", "reset"} => attempt < MaxAttempts /\ table = <<>>
    /\ attempt = 0 => step = "start"
    /\ Storing => current \in Artifacts /\ current.attempt = attempt
    /\ step = "put" => bucket /\ current.large
    /\ Executing => buffer = table
    /\ step = "completed" => buffer = <<>>

\* The last row that names an object has its payload there; while the next one is
\* about to be stored, that one.
Newest(i) ==
    /\ table[i].key # "none"
    /\ \A j \in 1 .. Len(table) : j > i => table[j].key # table[i].key
Offloading == step = "persist" /\ bucket /\ current.large

PayloadInv ==
    Executing \/ Replaying =>
        /\ Offloading => objects["plotly"] = current
        /\ ~ Offloading => \A i \in 1 .. Len(table) :
               Newest(i) => objects[table[i].key] = table[i].artifact

\* The artifacts of the attempt are the last ones made, in the order of the rows.
Unstored == IF Storing THEN 1 ELSE 0

MadeBefore(k) ==
    /\ Len(made) = k + Len(table) + Unstored
    /\ \A i \in 1 .. Len(table) : made[k + i] = table[i].artifact
    /\ Storing => made[Len(made)] = current
    /\ \A i \in 1 .. Len(made) : made[i].attempt = attempt <=> i > k

MadeInv ==
    /\ \A i \in 1 .. Len(made) : made[i].attempt <= attempt
    /\ Executing \/ Replaying => \E k \in 0 .. Len(made) : MadeBefore(k)

\* What a client shows once it has taken what is queued for it.
Waiting == Range(queue) \ {Reset}
Told == Reset \in Range(queue)

ClientInv ==
    /\ \A i, j \in 1 .. Len(queue) :
           i < j /\ queue[j] = Reset => queue[i] = Reset
    /\ joined = "away" => queue = <<>>
    /\ joined # "showing" => client = {}
    /\ ~ Replaying => Waiting = {}
    /\ joined = "showing" /\ ~ Told =>
           /\ step = "start" => client = {}
           /\ Executing => client \subseteq Range(table)
           /\ Replaying => client \union Waiting \union Range(buffer) = Range(table)
    /\ Replaying => Waiting \union Range(buffer) \subseteq Range(table)
    /\ Replaying /\ Told => Waiting \union Range(buffer) = Range(table)

StoreInv == StoreTypeOK /\ AttemptInv /\ PayloadInv /\ MadeInv /\ ClientInv

LEMMA StoreInitially == StoreInit => StoreInv
  <1> SUFFICES ASSUME StoreInit PROVE StoreInv
    OBVIOUS
  <1>1. StoreTypeOK
    <2>1. /\ <<>> \in Seq(Rows) /\ <<>> \in Seq(Artifacts)
          /\ <<>> \in Seq(Rows \union {Reset}) /\ {} \subseteq Rows
          /\ 0 \in 0 .. MaxAttempts /\ 0 \in 0 .. MaxEmits
      BY ArtifactStoreAssumption, EmptySeq
    <2>2. /\ step \in Steps /\ bucket \in BOOLEAN
          /\ current \in Artifacts \union {Nothing}
          /\ objects \in [{"plotly"} -> Artifacts \union {Nothing}]
      BY DEF StoreInit, Steps
    <2> QED
      BY <2>1, <2>2 DEF StoreInit, StoreTypeOK
  <1>2. AttemptInv /\ PayloadInv /\ MadeInv
    BY ArtifactStoreAssumption
    DEF StoreInit, AttemptInv, PayloadInv, MadeInv, Executing, Replaying, Storing
  <1>3. Range(<<>>) = {}
    BY DEF Range
  <1>4. ClientInv
    BY <1>3
    DEF StoreInit, ClientInv, Executing, Replaying, Waiting, Told
  <1> QED
    BY <1>1, <1>2, <1>4 DEF StoreInv

\* The rows and artifacts that the thread makes.
LEMMA StoreRecords ==
    ASSUME StoreTypeOK, AttemptInv
    PROVE  /\ step \in {"execute", "log"} => attempt \in 1 .. MaxAttempts
           /\ step = "log" => LogOf \in Rows /\ LogOf.artifact \in Artifacts
           /\ \A large \in BOOLEAN : step = "execute" /\ emits < MaxEmits =>
                  [attempt |-> attempt, no |-> emits + 1, large |-> large]
                      \in Artifacts
           /\ \A a \in Artifacts : RowOf(a) \in Rows
  <1>1. step \in {"execute", "log"} => attempt \in 1 .. MaxAttempts
    BY ArtifactStoreAssumption DEF StoreTypeOK, AttemptInv
  <1>2. emits \in 0 .. MaxEmits
    BY DEF StoreTypeOK
  <1>3. step = "log" => LogOf \in Rows /\ LogOf.artifact \in Artifacts
    <2>1. step = "log" =>
              [attempt |-> attempt, no |-> 0, large |-> FALSE] \in Artifacts
      BY <1>1, ArtifactStoreAssumption DEF Artifacts
    <2> QED
      BY <2>1 DEF LogOf, Rows
  <1>4. \A large \in BOOLEAN : step = "execute" /\ emits < MaxEmits =>
            [attempt |-> attempt, no |-> emits + 1, large |-> large] \in Artifacts
    BY <1>1, <1>2, ArtifactStoreAssumption DEF Artifacts
  <1>5. \A a \in Artifacts : RowOf(a) \in Rows
    BY DEF RowOf, Rows, KeyOf
  <1> QED
    BY <1>1, <1>3, <1>4, <1>5

\* The reset event is no row.
LEMMA ResetIsNoRow == Reset \notin Rows
  <1>1. \A r \in Rows : "artifact" \in DOMAIN r
    BY DEF Rows
  <1>2. "artifact" \notin DOMAIN Reset
    BY DEF Reset
  <1> QED
    BY <1>1, <1>2

LEMMA StoreTypes ==
    ASSUME StoreInv, StoreNext PROVE StoreTypeOK'
  <1> DEFINE Messages == Rows \union {Reset}
  <1>0. StoreTypeOK /\ AttemptInv
    BY DEF StoreInv
  <1>1. /\ bucket \in BOOLEAN /\ step \in Steps
        /\ attempt \in 0 .. MaxAttempts /\ emits \in 0 .. MaxEmits
        /\ current \in Artifacts \union {Nothing} /\ table \in Seq(Rows)
        /\ objects \in [{"plotly"} -> Artifacts \union {Nothing}]
        /\ buffer \in Seq(Rows) /\ joined \in {"away", "subscribed", "showing"}
        /\ queue \in Seq(Messages) /\ client \subseteq Rows
        /\ made \in Seq(Artifacts)
    BY <1>0 DEF StoreTypeOK
  <1> HIDE DEF Messages
  <1>2. Reset \in Messages /\ Rows \subseteq Messages
    BY DEF Messages
  <1>4. CASE StartAttempt
    <2>1. attempt' \in 0 .. MaxAttempts /\ emits' \in 0 .. MaxEmits
      BY <1>0, <1>1, <1>4, ArtifactStoreAssumption DEF StartAttempt, AttemptInv
    <2> QED
      BY <1>1, <1>4, <2>1 DEF StartAttempt, StoreTypeOK, Steps, Messages, clientVars
  <1>5. CASE TakeArtifact
    <2>1. PICK large \in BOOLEAN :
              LET a == [attempt |-> attempt, no |-> emits + 1, large |-> large]
              IN  current' = a /\ made' = Append(made, a)
                  /\ step' = IF bucket /\ a.large THEN "put" ELSE "persist"
      BY <1>5 DEF TakeArtifact
    <2>2. [attempt |-> attempt, no |-> emits + 1, large |-> large] \in Artifacts
      BY <1>0, <1>5, StoreRecords DEF TakeArtifact
    <2>3. made' \in Seq(Artifacts) /\ current' \in Artifacts
      BY <1>1, <2>1, <2>2, AppendProperties
    <2>4. emits' \in 0 .. MaxEmits /\ step' \in Steps
      BY <1>1, <1>5, <2>1, ArtifactStoreAssumption DEF TakeArtifact, Steps
    <2> QED
      BY <1>1, <1>5, <2>3, <2>4 DEF TakeArtifact, StoreTypeOK, Messages, clientVars
  <1>6. CASE PutObject
    <2>1. objects' \in [{"plotly"} -> Artifacts \union {Nothing}]
      BY <1>1, <1>6 DEF PutObject, KeyOf
    <2> QED
      BY <1>1, <1>6, <2>1 DEF PutObject, StoreTypeOK, Steps, Messages, clientVars
  <1>7. CASE PersistRow
    <2>1. RowOf(current) \in Rows
      BY <1>0, <1>7, StoreRecords DEF PersistRow, AttemptInv, Storing
    <2>2. table' \in Seq(Rows) /\ buffer' \in Seq(Rows)
      BY <1>1, <1>7, <2>1, AppendProperties DEF PersistRow
    <2> QED
      BY <1>1, <1>7, <2>2 DEF PersistRow, StoreTypeOK, Steps, Messages, clientVars
  <1>8. CASE PersistExecutionLog
    <2>1. LogOf \in Rows /\ LogOf.artifact \in Artifacts
      BY <1>0, <1>8, StoreRecords DEF PersistExecutionLog
    <2>2. table' \in Seq(Rows) /\ buffer' \in Seq(Rows) /\ made' \in Seq(Artifacts)
      BY <1>1, <1>8, <2>1, AppendProperties DEF PersistExecutionLog
    <2> QED
      BY <1>1, <1>8, <2>2
      DEF PersistExecutionLog, StoreTypeOK, Steps, Messages, clientVars
  <1>9. CASE EndExecution \/ CheckResult \/ CompleteRun \/ DiscardRows \/ StopRun
    <2>1. /\ step' \in Steps /\ table' \in Seq(Rows)
          /\ UNCHANGED <<bucket, attempt, emits, current, objects, buffer, joined,
                         queue, client, made>>
      BY <1>1, <1>9, EmptySeq
      DEF EndExecution, CheckResult, CompleteRun, DiscardRows, StopRun, Steps,
          clientVars
    <2> QED
      BY <1>1, <2>1 DEF StoreTypeOK, Messages
  <1>10. CASE ReplayArtifact
    <2>1. Head(buffer) \in Messages /\ buffer' \in Seq(Rows)
      BY <1>1, <1>2, <1>10, RangeTail DEF ReplayArtifact
    <2>2. queue' \in Seq(Messages)
      BY <1>1, <1>10, <2>1, AppendProperties DEF ReplayArtifact, Queued
    <2> QED
      BY <1>1, <1>10, <2>1, <2>2 DEF ReplayArtifact, StoreTypeOK, Messages
  <1>11. CASE AnnounceReset
    <2>1. queue' \in Seq(Messages)
      BY <1>1, <1>2, <1>11, AppendProperties DEF AnnounceReset, Queued
    <2> QED
      BY <1>1, <1>11, <2>1 DEF AnnounceReset, StoreTypeOK, Steps, Messages
  <1>12. CASE SubscribeClient
    BY <1>1, <1>12 DEF SubscribeClient, StoreTypeOK, Messages
  <1>13. CASE SnapshotRows
    <2>1. Range(table) \subseteq Rows
      BY <1>1, RangeOfSeq
    <2> QED
      BY <1>1, <1>13, <2>1 DEF SnapshotRows, StoreTypeOK, Messages
  <1>14. CASE ApplyArtifact
    <2>1. queue' \in Seq(Messages) /\ Head(queue) \in Messages
      BY <1>1, <1>14, RangeTail DEF ApplyArtifact
    <2>2. client' \subseteq Rows
      BY <1>1, <1>14, <2>1 DEF ApplyArtifact, Messages
    <2> QED
      BY <1>1, <1>14, <2>1, <2>2 DEF ApplyArtifact, StoreTypeOK, Messages
  <1> QED
    BY <1>4, <1>5, <1>6, <1>7, <1>8, <1>9, <1>10, <1>11, <1>12, <1>13, <1>14
    DEF StoreNext, RunnerStep, ClientStep

LEMMA StoreAttempts ==
    ASSUME StoreInv, StoreNext PROVE AttemptInv'
  <1>0. /\ AttemptInv /\ attempt \in Nat /\ step \in Steps
        /\ MaxAttempts \in Nat \ {0}
    BY ArtifactStoreAssumption DEF StoreInv, StoreTypeOK
  <1>1. CASE StartAttempt
    <2>1. step' = "execute" /\ attempt' = attempt + 1 /\ table' = table
          /\ buffer' = <<>> /\ table = <<>>
      BY <1>0, <1>1 DEF StartAttempt, AttemptInv
    <2> QED
      BY <1>0, <2>1 DEF AttemptInv, Executing, Storing
  <1>2. CASE TakeArtifact
    <2>1. PICK large \in BOOLEAN :
              LET a == [attempt |-> attempt, no |-> emits + 1, large |-> large]
              IN  current' = a /\ made' = Append(made, a)
                  /\ step' = IF bucket /\ a.large THEN "put" ELSE "persist"
      BY <1>2 DEF TakeArtifact
    <2>2. [attempt |-> attempt, no |-> emits + 1, large |-> large] \in Artifacts
      BY <1>2, StoreRecords DEF TakeArtifact, StoreInv
    <2>3. /\ current' \in Artifacts /\ current'.attempt = attempt
          /\ current'.large = large
          /\ step' = IF bucket /\ large THEN "put" ELSE "persist"
      BY <2>1, <2>2
    <2>4. /\ step = "execute"
          /\ UNCHANGED <<bucket, attempt, table, buffer>>
      BY <1>2 DEF TakeArtifact
    <2> QED
      BY <1>0, <2>3, <2>4 DEF AttemptInv, Executing, Storing
  <1>3. CASE PutObject
    BY <1>0, <1>3 DEF PutObject, AttemptInv, Executing, Storing
  <1>4. CASE PersistRow
    BY <1>0, <1>4 DEF PersistRow, AttemptInv, Executing, Storing
  <1>5. CASE PersistExecutionLog
    BY <1>0, <1>5 DEF PersistExecutionLog, AttemptInv, Executing, Storing
  <1>6. CASE EndExecution \/ CheckResult \/ CompleteRun \/ DiscardRows \/ StopRun
    BY <1>0, <1>6 DEF EndExecution, CheckResult, CompleteRun, DiscardRows, StopRun,
                      AttemptInv, Executing, Storing
  <1>7. CASE ReplayArtifact \/ AnnounceReset
    BY <1>0, <1>7 DEF ReplayArtifact, AnnounceReset, AttemptInv, Executing, Storing
  <1>8. CASE ClientStep
    <2>1. UNCHANGED <<bucket, step, attempt, current, table, buffer>>
      BY <1>8 DEF ClientStep, SubscribeClient, SnapshotRows, ApplyArtifact
    <2> QED
      BY <1>0, <2>1 DEF AttemptInv, Executing, Storing
  <1> QED
    BY <1>1, <1>2, <1>3, <1>4, <1>5, <1>6, <1>7, <1>8
    DEF StoreNext, RunnerStep

\* What holds of rows and objects stays, if neither they nor the step change.
LEMMA PayloadStays ==
    ASSUME PayloadInv, UNCHANGED <<bucket, table, objects>>,
           (Executing \/ Replaying)' => Executing \/ Replaying,
           ~ Offloading, ~ Offloading'
    PROVE  PayloadInv'
  BY DEF PayloadInv, Newest

LEMMA StorePayloads ==
    ASSUME StoreInv, StoreNext PROVE PayloadInv'
  <1>0. PayloadInv /\ AttemptInv /\ table \in Seq(Rows) /\ Len(table) \in Nat
    BY LenProperties DEF StoreInv, StoreTypeOK
  <1>a. /\ DOMAIN objects = {"plotly"}
        /\ \A i \in 1 .. Len(table) : table[i].key \in {"plotly", "none"}
    <2>1. \A i \in 1 .. Len(table) : table[i] \in Rows
      BY <1>0, ElementOfSeq
    <2> QED
      BY <2>1 DEF StoreInv, StoreTypeOK, Rows
  <1>1. CASE StartAttempt
    BY <1>0, <1>1 DEF StartAttempt, AttemptInv, PayloadInv, Offloading
  <1>2. CASE TakeArtifact
    <2>1. /\ step = "execute" /\ UNCHANGED <<bucket, table, objects>>
          /\ ~ Offloading /\ ~ Offloading'
      BY <1>2 DEF TakeArtifact, Offloading
    <2> QED
      BY <1>0, <2>1, PayloadStays DEF Executing
  <1>3. CASE PutObject
    <2>1. objects' = [objects EXCEPT !["plotly"] = current]
      BY <1>3 DEF PutObject, KeyOf
    <2>2. step' = "persist" /\ bucket /\ current.large /\ UNCHANGED <<bucket, current>>
      BY <1>0, <1>3 DEF PutObject, AttemptInv
    <2> QED
      BY <1>a, <2>1, <2>2 DEF PayloadInv, Offloading
  <1>4. CASE PersistRow
    <2>0. PICK n \in Nat : n = Len(table) + 1
      BY <1>0
    <2>1. /\ step = "persist" /\ step' = "execute" /\ UNCHANGED <<bucket, objects>>
          /\ table' = Append(table, RowOf(current))
      BY <1>4 DEF PersistRow
    <2>2. RowOf(current) \in Rows
      BY <1>0, <2>1, StoreRecords DEF AttemptInv, Storing, StoreInv
    <2>3. /\ Len(table') = n /\ table'[n] = RowOf(current)
          /\ \A i \in 1 .. Len(table) : table'[i] = table[i]
      BY <1>0, <2>0, <2>1, <2>2, AppendProperties
    <2>4. /\ RowOf(current).artifact = current
          /\ RowOf(current).key = IF bucket /\ current.large THEN "plotly" ELSE "none"
      BY DEF RowOf, KeyOf
    <2>5. Executing /\ ~ Offloading'
      BY <2>1 DEF Executing, Offloading
    <2>6. ASSUME NEW i \in 1 .. n, Newest(i)'
          PROVE  objects'[table'[i].key] = table'[i].artifact
      <3>1. i \in 1 .. Len(table) \/ i = n
        BY <1>0, <2>0
      <3>2. CASE i \in 1 .. Len(table)
        <4>1. n \in 1 .. Len(table') /\ n > i
          BY <1>0, <2>0, <2>3, <3>2
        <4>2. table[i].key = "plotly" /\ table'[n].key # "plotly"
          BY <1>a, <2>3, <2>6, <3>2, <4>1 DEF Newest
        <4>3. ~ Offloading
          BY <2>3, <2>4, <4>2 DEF Offloading
        <4>4. \A j \in 1 .. Len(table) : j \in 1 .. Len(table') /\ table'[j] = table[j]
          BY <1>0, <2>0, <2>3
        <4>5. Newest(i)
          BY <2>6, <3>2, <4>4 DEF Newest
        <4> QED
          BY <1>0, <2>1, <2>3, <2>5, <3>2, <4>3, <4>5 DEF PayloadInv
      <3>3. CASE i = n
        <4>1. table'[n].key # "none"
          BY <2>6, <3>3 DEF Newest
        <4>2. Offloading /\ table'[n].key = "plotly" /\ table'[n].artifact = current
          BY <2>1, <2>3, <2>4, <4>1 DEF Offloading
        <4> QED
          BY <1>0, <2>1, <2>5, <3>3, <4>2 DEF PayloadInv
      <3> QED
        BY <3>1, <3>2, <3>3
    <2> QED
      BY <2>3, <2>5, <2>6 DEF PayloadInv
  <1>5. CASE PersistExecutionLog
    <2>0. PICK n \in Nat : n = Len(table) + 1
      BY <1>0
    <2>1. /\ step = "log" /\ step' = "ended" /\ UNCHANGED <<bucket, objects>>
          /\ table' = Append(table, LogOf)
      BY <1>5 DEF PersistExecutionLog
    <2>2. LogOf \in Rows
      BY <1>0, <2>1, StoreRecords DEF StoreInv
    <2>3. /\ Len(table') = n /\ table'[n] = LogOf
          /\ \A i \in 1 .. Len(table) : table'[i] = table[i]
      BY <1>0, <2>0, <2>1, <2>2, AppendProperties
    <2>4. Executing /\ ~ Offloading /\ ~ Offloading' /\ LogOf.key = "none"
      BY <2>1 DEF Executing, Offloading, LogOf
    <2>5. ASSUME NEW i \in 1 .. n, Newest(i)'
          PROVE  objects'[table'[i].key] = table'[i].artifact
      <3>1. i \in 1 .. Len(table)
        <4>1. i # n
          BY <2>3, <2>4, <2>5 DEF Newest
        <4> QED
          BY <1>0, <2>0, <4>1
      <3>2. \A j \in 1 .. Len(table) : j \in 1 .. Len(table') /\ table'[j] = table[j]
        BY <1>0, <2>0, <2>3
      <3>3. Newest(i)
        BY <2>5, <3>1, <3>2 DEF Newest
      <3> QED
        BY <1>0, <2>1, <2>4, <3>1, <3>2, <3>3 DEF PayloadInv
    <2> QED
      BY <2>3, <2>4, <2>5 DEF PayloadInv
  <1>6. CASE EndExecution
    <2>1. CASE step = "execute"
      <3>1. UNCHANGED <<bucket, table, objects>> /\ ~ Offloading /\ ~ Offloading'
        BY <1>6, <2>1 DEF EndExecution, Offloading
      <3> QED
        BY <1>0, <2>1, <3>1, PayloadStays DEF Executing
    <2>2. CASE step # "execute"
      BY <1>6, <2>2 DEF EndExecution, PayloadInv, Executing, Replaying
    <2> QED
      BY <2>1, <2>2
  <1>7. CASE CheckResult \/ CompleteRun \/ StopRun \/ ReplayArtifact \/ AnnounceReset
    <2>1. UNCHANGED <<bucket, table, objects>> /\ ~ Offloading /\ ~ Offloading'
          /\ ((Executing \/ Replaying)' => Executing \/ Replaying)
      BY <1>7 DEF CheckResult, CompleteRun, StopRun, ReplayArtifact, AnnounceReset,
                  Executing, Replaying, Offloading
    <2> QED
      BY <1>0, <2>1, PayloadStays
  <1>8. CASE DiscardRows
    BY <1>8 DEF DiscardRows, PayloadInv, Executing, Replaying
  <1>9. CASE ClientStep
    <2>1. UNCHANGED <<bucket, step, table, objects, current>>
      BY <1>9 DEF ClientStep, SubscribeClient, SnapshotRows, ApplyArtifact
    <2> QED
      BY <1>0, <2>1 DEF PayloadInv, Executing, Replaying, Offloading, Newest
  <1> QED
    BY <1>1, <1>2, <1>3, <1>4, <1>5, <1>6, <1>7, <1>8, <1>9
    DEF StoreNext, RunnerStep

\* What was made stays as it is, if nothing is made and no row comes or goes.
LEMMA MadeStays ==
    ASSUME MadeInv, UNCHANGED <<made, table, attempt, current>>,
           (Executing \/ Replaying)' => Executing \/ Replaying,
           (Executing \/ Replaying)' => (Storing' <=> Storing)
    PROVE  MadeInv'
  <1>1. ASSUME (Executing \/ Replaying)'
        PROVE  \E k \in 0 .. Len(made') : MadeBefore(k)'
    <2>1. PICK k \in 0 .. Len(made) : MadeBefore(k)
      BY <1>1 DEF MadeInv
    <2>2. Unstored' = Unstored
      BY <1>1 DEF Unstored
    <2> QED
      BY <1>1, <2>1, <2>2 DEF MadeBefore
  <1> QED
    BY <1>1 DEF MadeInv

\* The next artifact of the attempt.
LEMMA MadeGrows ==
    ASSUME StoreTypeOK, MadeInv, NEW a \in Artifacts, a.attempt = attempt,
           made' = Append(made, a), attempt' = attempt
    PROVE  /\ Len(made') = Len(made) + 1 /\ made'[Len(made')] = a
           /\ \A i \in 1 .. Len(made) : made'[i] = made[i]
           /\ \A i \in 1 .. Len(made') : made'[i].attempt <= attempt'
           /\ \A k \in 0 .. Len(made) : MadeBefore(k) =>
                  \A i \in 1 .. Len(made') : made'[i].attempt = attempt' <=> i > k
  <1>1. made \in Seq(Artifacts) /\ Len(made) \in Nat /\ attempt \in Nat
    BY LenProperties DEF StoreTypeOK
  <1>2. /\ Len(made') = Len(made) + 1 /\ made'[Len(made) + 1] = a
        /\ \A i \in 1 .. Len(made) : made'[i] = made[i]
    BY <1>1, AppendProperties
  <1>3. \A i \in 1 .. Len(made') : i \in 1 .. Len(made) \/ i = Len(made) + 1
    BY <1>1, <1>2
  <1>4. ASSUME NEW i \in 1 .. Len(made') PROVE made'[i].attempt <= attempt'
    <2>1. CASE i \in 1 .. Len(made)
      BY <1>2, <2>1 DEF MadeInv
    <2>2. CASE i = Len(made) + 1
      BY <1>1, <1>2, <2>2
    <2> QED
      BY <1>3, <2>1, <2>2
  <1>5. ASSUME NEW k \in 0 .. Len(made), MadeBefore(k), NEW i \in 1 .. Len(made')
        PROVE  made'[i].attempt = attempt' <=> i > k
    <2>1. CASE i \in 1 .. Len(made)
      BY <1>2, <1>5, <2>1 DEF MadeBefore
    <2>2. CASE i = Len(made) + 1
      BY <1>1, <1>2, <2>2
    <2> QED
      BY <1>3, <2>1, <2>2
  <1> QED
    BY <1>2, <1>4, <1>5

LEMMA StoreMade ==
    ASSUME StoreInv, StoreNext PROVE MadeInv'
  <1>0. /\ MadeInv /\ AttemptInv /\ StoreTypeOK /\ made \in Seq(Artifacts)
        /\ table \in Seq(Rows) /\ Len(made) \in Nat /\ Len(table) \in Nat
        /\ attempt \in Nat
    BY LenProperties DEF StoreInv, StoreTypeOK
  <1>1. CASE StartAttempt
    <2>1. /\ step = "start" /\ step' = "execute" /\ attempt' = attempt + 1
          /\ UNCHANGED <<table, made, current>> /\ table = <<>>
      BY <1>0, <1>1 DEF StartAttempt, AttemptInv
    <2>2. \A i \in 1 .. Len(made) : made[i].attempt \in Nat /\ made[i].attempt <= attempt
      <3>1. \A i \in 1 .. Len(made) : made[i] \in Artifacts
        BY <1>0, ElementOfSeq
      <3> QED
        BY <1>0, <3>1, ArtifactStoreAssumption DEF MadeInv, Artifacts
    <2>3. Len(table') = 0 /\ Unstored' = 0 /\ ~ Storing'
      BY <2>1, EmptySeq DEF Unstored, Storing
    <2>4. MadeBefore(Len(made))'
      <3>1. \A i \in 1 .. Len(made) : ~ (made[i].attempt = attempt + 1) /\ ~ (i > Len(made))
        BY <1>0, <2>2
      <3> QED
        BY <1>0, <2>1, <2>3, <3>1 DEF MadeBefore
    <2>5. \A i \in 1 .. Len(made') : made'[i].attempt <= attempt'
      BY <1>0, <2>1, <2>2
    <2> QED
      BY <1>0, <2>1, <2>4, <2>5 DEF MadeInv
  <1>2. CASE TakeArtifact
    <2>1. PICK large \in BOOLEAN :
              LET a == [attempt |-> attempt, no |-> emits + 1, large |-> large]
              IN  current' = a /\ made' = Append(made, a)
                  /\ step' = IF bucket /\ a.large THEN "put" ELSE "persist"
      BY <1>2 DEF TakeArtifact
    <2>2. /\ step = "execute" /\ UNCHANGED <<table, attempt>>
          /\ step' \in {"put", "persist"}
      BY <1>2 DEF TakeArtifact
    <2>3. /\ current' \in Artifacts /\ current'.attempt = attempt
          /\ made' = Append(made, current')
      <3>1. [attempt |-> attempt, no |-> emits + 1, large |-> large] \in Artifacts
        BY <1>0, <1>2, StoreRecords DEF TakeArtifact
      <3> QED
        BY <2>1, <3>1
    <2>4. PICK k \in 0 .. Len(made) : MadeBefore(k)
      BY <1>0, <2>2 DEF MadeInv, Executing
    <2>5. /\ Len(made') = Len(made) + 1 /\ made'[Len(made')] = current'
          /\ \A i \in 1 .. Len(made) : made'[i] = made[i]
          /\ \A i \in 1 .. Len(made') : made'[i].attempt <= attempt'
          /\ \A i \in 1 .. Len(made') : made'[i].attempt = attempt' <=> i > k
      BY <1>0, <2>2, <2>3, <2>4, MadeGrows
    <2>6. Unstored = 0 /\ Unstored' = 1
      BY <2>2 DEF Unstored, Storing
    <2>7. MadeBefore(k)'
      <3>1. Len(made) = k + Len(table)
        BY <1>0, <2>4, <2>6 DEF MadeBefore
      <3>2. \A i \in 1 .. Len(table) : k + i \in 1 .. Len(made)
        BY <1>0, <3>1
      <3> QED
        BY <1>0, <2>2, <2>4, <2>5, <2>6, <3>1, <3>2 DEF MadeBefore
    <2>8. k \in 0 .. Len(made')
      BY <1>0, <2>5
    <2> QED
      BY <2>5, <2>7, <2>8 DEF MadeInv
  <1>3. CASE PutObject
    BY <1>0, <1>3, MadeStays DEF PutObject, Executing, Storing
  <1>4. CASE PersistRow
    <2>1. /\ step = "persist" /\ step' = "execute"
          /\ UNCHANGED <<attempt, current, made>>
          /\ table' = Append(table, RowOf(current))
      BY <1>4 DEF PersistRow
    <2>2. RowOf(current) \in Rows /\ RowOf(current).artifact = current
      BY <1>0, <2>1, StoreRecords DEF AttemptInv, Storing, RowOf
    <2>3. /\ Len(table') = Len(table) + 1 /\ table'[Len(table) + 1] = RowOf(current)
          /\ \A i \in 1 .. Len(table) : table'[i] = table[i]
      BY <1>0, <2>1, <2>2, AppendProperties
    <2>4. PICK k \in 0 .. Len(made) : MadeBefore(k)
      BY <1>0, <2>1 DEF MadeInv, Executing
    <2>5. Unstored = 1 /\ Unstored' = 0 /\ Storing /\ ~ Storing'
      BY <2>1 DEF Unstored, Storing
    <2>6. Len(made) = k + Len(table) + 1 /\ made[k + (Len(table) + 1)] = current
      BY <1>0, <2>4, <2>5 DEF MadeBefore
    <2>7. \A i \in 1 .. Len(table') : made[k + i] = table'[i].artifact
      <3>1. \A i \in 1 .. Len(table') : i \in 1 .. Len(table) \/ i = Len(table) + 1
        BY <1>0, <2>3
      <3> QED
        BY <2>2, <2>3, <2>4, <2>6, <3>1 DEF MadeBefore
    <2>8. MadeBefore(k)'
      BY <1>0, <2>1, <2>3, <2>4, <2>5, <2>6, <2>7 DEF MadeBefore
    <2> QED
      BY <1>0, <2>1, <2>8 DEF MadeInv
  <1>5. CASE PersistExecutionLog
    <2>1. /\ step = "log" /\ step' = "ended" /\ UNCHANGED <<attempt, current>>
          /\ table' = Append(table, LogOf) /\ made' = Append(made, LogOf.artifact)
      BY <1>5 DEF PersistExecutionLog
    <2>2. LogOf \in Rows /\ LogOf.artifact \in Artifacts
      BY <1>0, <2>1, StoreRecords
    <2>3. LogOf.artifact.attempt = attempt
      BY DEF LogOf
    <2>4. /\ Len(table') = Len(table) + 1 /\ table'[Len(table) + 1] = LogOf
          /\ \A i \in 1 .. Len(table) : table'[i] = table[i]
      BY <1>0, <2>1, <2>2, AppendProperties
    <2>5. PICK k \in 0 .. Len(made) : MadeBefore(k)
      BY <1>0, <2>1 DEF MadeInv, Executing
    <2>6. /\ Len(made') = Len(made) + 1 /\ made'[Len(made')] = LogOf.artifact
          /\ \A i \in 1 .. Len(made) : made'[i] = made[i]
          /\ \A i \in 1 .. Len(made') : made'[i].attempt <= attempt'
          /\ \A i \in 1 .. Len(made') : made'[i].attempt = attempt' <=> i > k
      BY <1>0, <2>1, <2>2, <2>3, <2>5, MadeGrows
    <2>7. Unstored = 0 /\ Unstored' = 0 /\ ~ Storing'
      BY <2>1 DEF Unstored, Storing
    <2>8. Len(made) = k + Len(table)
      BY <1>0, <2>5, <2>7 DEF MadeBefore
    <2>9. ASSUME NEW i \in 1 .. Len(table')
          PROVE  made'[k + i] = table'[i].artifact
      <3>1. CASE i \in 1 .. Len(table)
        <4>1. k + i \in 1 .. Len(made)
          BY <1>0, <2>8, <3>1
        <4> QED
          BY <2>4, <2>5, <2>6, <3>1, <4>1 DEF MadeBefore
      <3>2. CASE i = Len(table) + 1
        <4>1. k + i = Len(made')
          BY <1>0, <2>6, <2>8, <3>2
        <4> QED
          BY <2>4, <2>6, <3>2, <4>1
      <3> QED
        BY <1>0, <2>4, <3>1, <3>2
    <2>10. MadeBefore(k)'
      BY <1>0, <2>4, <2>6, <2>7, <2>8, <2>9 DEF MadeBefore
    <2>11. k \in 0 .. Len(made')
      BY <1>0, <2>6
    <2> QED
      BY <2>6, <2>10, <2>11 DEF MadeInv
  <1>6. CASE EndExecution \/ CheckResult \/ CompleteRun \/ DiscardRows \/ StopRun
    <2>1. CASE (Executing \/ Replaying)'
      <3>1. UNCHANGED <<made, table, attempt, current>> /\ (Executing \/ Replaying)
            /\ (Storing' <=> Storing)
        BY <1>6, <2>1 DEF EndExecution, CheckResult, CompleteRun, DiscardRows,
                          StopRun, Executing, Replaying, Storing
      <3> QED
        BY <1>0, <2>1, <3>1, MadeStays
    <2>2. CASE ~ (Executing \/ Replaying)'
      <3>1. UNCHANGED <<made, attempt>>
        BY <1>6 DEF EndExecution, CheckResult, CompleteRun, DiscardRows, StopRun
      <3> QED
        BY <1>0, <2>2, <3>1 DEF MadeInv
    <2> QED
      BY <2>1, <2>2
  <1>7. CASE ReplayArtifact \/ AnnounceReset
    BY <1>0, <1>7, MadeStays
    DEF ReplayArtifact, AnnounceReset, Executing, Replaying, Storing
  <1>8. CASE ClientStep
    <2>1. UNCHANGED <<made, table, attempt, current, step>>
      BY <1>8 DEF ClientStep, SubscribeClient, SnapshotRows, ApplyArtifact
    <2> QED
      BY <1>0, <2>1, MadeStays DEF Executing, Replaying, Storing
  <1> QED
    BY <1>1, <1>2, <1>3, <1>4, <1>5, <1>6, <1>7, <1>8
    DEF StoreNext, RunnerStep

\* A step of the thread that queues nothing.
LEMMA ClientStays ==
    ASSUME ClientInv, UNCHANGED <<joined, queue, client>>,
           Replaying' => Waiting \union Range(buffer') \subseteq Range(table'),
           Replaying' /\ Told => Waiting \union Range(buffer') = Range(table'),
           ~ Replaying' => Waiting = {},
           joined = "showing" /\ ~ Told =>
               /\ step' = "start" => client = {}
               /\ Executing' => client \subseteq Range(table')
               /\ Replaying' => client \union Waiting \union Range(buffer')
                                     = Range(table')
    PROVE  ClientInv'
  <1>1. Waiting' = Waiting /\ (Told' <=> Told)
    BY DEF Waiting, Told
  <1> QED
    BY <1>1 DEF ClientInv

\* The next event, at the end of the queue.
LEMMA QueueGrows ==
    ASSUME StoreTypeOK, NEW event \in Rows \union {Reset}, joined # "away",
           queue' = Queued(event)
    PROVE  /\ Len(queue') = Len(queue) + 1 /\ queue'[Len(queue')] = event
           /\ \A i \in 1 .. Len(queue) : queue'[i] = queue[i]
           /\ Range(queue') = Range(queue) \union {event} /\ Len(queue) \in Nat
  <1> DEFINE Messages == Rows \union {Reset}
  <1>1. queue \in Seq(Messages) /\ event \in Messages
    BY DEF StoreTypeOK
  <1>2. queue' = Append(queue, event)
    BY DEF Queued
  <1> HIDE DEF Messages
  <1> QED
    BY <1>1, <1>2, AppendProperties, RangeAppend, LenProperties

LEMMA StoreClient ==
    ASSUME StoreInv, StoreNext PROVE ClientInv'
  <1>0. /\ ClientInv /\ AttemptInv /\ StoreTypeOK /\ table \in Seq(Rows)
        /\ buffer \in Seq(Rows)
    BY DEF StoreInv, StoreTypeOK
  <1>1. CASE StartAttempt
    <2>1. /\ step = "start" /\ step' = "execute"
          /\ UNCHANGED <<joined, queue, client, table>>
      BY <1>1 DEF StartAttempt, clientVars
    <2> QED
      BY <1>0, <2>1, ClientStays DEF ClientInv, Executing, Replaying
  <1>2. CASE TakeArtifact \/ PutObject
    <2>1. /\ Executing /\ Executing' /\ ~ Replaying /\ ~ Replaying'
          /\ UNCHANGED <<joined, queue, client, table>> /\ step' # "start"
      BY <1>2 DEF TakeArtifact, PutObject, clientVars, Executing, Replaying
    <2> QED
      BY <1>0, <2>1, ClientStays DEF ClientInv
  <1>3. CASE PersistRow \/ PersistExecutionLog
    <2>1. PICK r \in Rows : table' = Append(table, r)
      BY <1>0, <1>3, StoreRecords
      DEF PersistRow, PersistExecutionLog, AttemptInv, Storing
    <2>2. Range(table) \subseteq Range(table')
      BY <1>0, <2>1, RangeAppend
    <2>3. /\ Executing /\ Executing' /\ ~ Replaying /\ ~ Replaying'
          /\ UNCHANGED <<joined, queue, client>> /\ step' # "start"
      BY <1>3 DEF PersistRow, PersistExecutionLog, clientVars, Executing, Replaying
    <2> QED
      BY <1>0, <2>2, <2>3, ClientStays DEF ClientInv
  <1>4. CASE EndExecution
    <2>1. /\ Executing /\ ~ Replaying /\ ~ Replaying' /\ step' # "start"
          /\ UNCHANGED <<joined, queue, client, table>>
      BY <1>4 DEF EndExecution, clientVars, Executing, Replaying
    <2> QED
      BY <1>0, <2>1, ClientStays DEF ClientInv
  <1>5. CASE CheckResult
    <2>1. /\ Executing /\ ~ Replaying /\ ~ Executing' /\ step' # "start"
          /\ UNCHANGED <<joined, queue, client, table, buffer>>
      BY <1>5 DEF CheckResult, clientVars, Executing, Replaying
    <2>2. Waiting = {} /\ buffer = table
          /\ (joined = "showing" /\ ~ Told => client \subseteq Range(table))
      BY <1>0, <2>1 DEF ClientInv, AttemptInv
    <2> QED
      BY <1>0, <2>1, <2>2, ClientStays
  <1>6. CASE CompleteRun
    <2>1. /\ Replaying /\ Replaying' /\ ~ Executing' /\ step' # "start"
          /\ UNCHANGED <<joined, queue, client, table, buffer>>
      BY <1>6 DEF CompleteRun, clientVars, Executing, Replaying
    <2> QED
      BY <1>0, <2>1, ClientStays DEF ClientInv
  <1>7. CASE DiscardRows \/ StopRun
    <2>1. /\ ~ Replaying /\ ~ Replaying' /\ ~ Executing' /\ step' # "start"
          /\ UNCHANGED <<joined, queue, client>>
      BY <1>7 DEF DiscardRows, StopRun, clientVars, Executing, Replaying
    <2> QED
      BY <1>0, <2>1, ClientStays DEF ClientInv
  <1>8. CASE ReplayArtifact
    <2>1. /\ step = "replay" /\ step' = "replay" /\ buffer # <<>>
          /\ queue' = Queued(Head(buffer)) /\ buffer' = Tail(buffer)
          /\ UNCHANGED <<joined, client, table>>
      BY <1>8 DEF ReplayArtifact
    <2>2. /\ Head(buffer) \in Rows
          /\ Range(buffer) = {Head(buffer)} \union Range(buffer')
      BY <1>0, <2>1, RangeTail
    <2>3. Replaying /\ Replaying' /\ ~ Executing'
      BY <2>1 DEF Replaying, Executing
    <2>4. CASE joined = "away"
      <3>1. queue' = queue /\ queue = <<>>
        BY <1>0, <2>1, <2>4 DEF Queued, ClientInv
      <3>2. ~ Told
        BY <3>1 DEF Told, Range
      <3> QED
        BY <1>0, <2>1, <2>2, <2>3, <2>4, <3>1, <3>2, ClientStays DEF ClientInv
    <2>5. CASE joined # "away"
      <3>1. /\ Len(queue') = Len(queue) + 1 /\ queue'[Len(queue')] = Head(buffer)
            /\ \A i \in 1 .. Len(queue) : queue'[i] = queue[i]
            /\ Range(queue') = Range(queue) \union {Head(buffer)}
            /\ Len(queue) \in Nat
        BY <1>0, <2>1, <2>2, <2>5, QueueGrows
      <3>2. Head(buffer) # Reset
        BY <2>2, ResetIsNoRow
      <3>3. Waiting' = Waiting \union {Head(buffer)} /\ (Told' <=> Told)
        BY <3>1, <3>2 DEF Waiting, Told
      <3>4. \A i, j \in 1 .. Len(queue') :
                i < j /\ queue'[j] = Reset => queue'[i] = Reset
        <4>1. \A i \in 1 .. Len(queue') : queue'[i] = Reset => i \in 1 .. Len(queue)
          BY <3>1, <3>2
        <4>2. \A i \in 1 .. Len(queue'), j \in 1 .. Len(queue) :
                  i < j => i \in 1 .. Len(queue)
          BY <3>1
        <4> QED
          BY <1>0, <3>1, <4>1, <4>2 DEF ClientInv
      <3>5. Waiting' \union Range(buffer') = Waiting \union Range(buffer)
        BY <2>2, <3>3
      <3>6. joined = "showing" /\ ~ Told =>
                client' \union Waiting' \union Range(buffer') = Range(table')
        BY <1>0, <2>1, <2>3, <3>5 DEF ClientInv
      <3>7. /\ Waiting' \union Range(buffer') \subseteq Range(table')
            /\ Told => Waiting' \union Range(buffer') = Range(table')
        BY <1>0, <2>1, <2>3, <3>5 DEF ClientInv
      <3>8. joined # "showing" => client = {}
        BY <1>0 DEF ClientInv
      <3> QED
        BY <2>1, <2>3, <2>5, <3>3, <3>4, <3>6, <3>7, <3>8 DEF ClientInv
    <2> QED
      BY <2>4, <2>5
  <1>9. CASE AnnounceReset
    <2>1. /\ step = "reset" /\ step' = "start" /\ queue' = Queued(Reset)
          /\ UNCHANGED <<joined, client, table, buffer>>
      BY <1>9 DEF AnnounceReset
    <2>2. ~ Replaying /\ ~ Replaying' /\ ~ Executing'
      BY <2>1 DEF Replaying, Executing
    <2>3. Waiting = {}
      BY <1>0, <2>2 DEF ClientInv
    <2>4. CASE joined = "away"
      <3>1. queue' = queue
        BY <2>1, <2>4 DEF Queued
      <3> QED
        BY <1>0, <2>1, <2>2, <2>3, <2>4, <3>1, ClientStays
    <2>5. CASE joined # "away"
      <3>1. /\ Len(queue') = Len(queue) + 1 /\ queue'[Len(queue')] = Reset
            /\ \A i \in 1 .. Len(queue) : queue'[i] = queue[i]
            /\ Range(queue') = Range(queue) \union {Reset}
            /\ Len(queue) \in Nat
        BY <1>0, <2>1, <2>5, QueueGrows
      <3>2. Waiting' = {} /\ Told'
        BY <2>3, <3>1 DEF Waiting, Told
      <3>3. \A i \in 1 .. Len(queue') : queue'[i] = Reset
        <4>1. queue' \in Seq(Rows \union {Reset})
          BY StoreTypes DEF StoreTypeOK
        <4>2. \A i \in 1 .. Len(queue') : queue'[i] \in Range(queue')
          BY <4>1, LenProperties DEF Range
        <4> QED
          BY <3>2, <4>2 DEF Waiting
      <3>4. joined # "showing" => client = {}
        BY <1>0 DEF ClientInv
      <3> QED
        BY <2>1, <2>2, <2>5, <3>2, <3>3, <3>4 DEF ClientInv
    <2> QED
      BY <2>4, <2>5
  <1>10. CASE SubscribeClient
    <2>1. /\ joined = "away" /\ joined' = "subscribed"
          /\ UNCHANGED <<step, table, buffer, queue, client>>
      BY <1>10 DEF SubscribeClient
    <2> QED
      BY <1>0, <2>1 DEF ClientInv, Replaying, Executing, Waiting, Told
  <1>11. CASE SnapshotRows
    <2>1. /\ joined = "subscribed" /\ joined' = "showing" /\ client' = Range(table)
          /\ UNCHANGED <<step, table, buffer, queue>>
      BY <1>11 DEF SnapshotRows
    <2>2. step = "start" => Range(table) = {}
      BY <1>0 DEF AttemptInv, Range
    <2>3. /\ Waiting' = Waiting /\ (Told' <=> Told) /\ (Replaying' <=> Replaying)
          /\ (Executing' <=> Executing)
      BY <2>1 DEF Waiting, Told, Replaying, Executing
    <2> QED
      BY <1>0, <2>1, <2>2, <2>3 DEF ClientInv
  <1>12. CASE ApplyArtifact
    <2>1. /\ joined = "showing" /\ queue # <<>> /\ queue' = Tail(queue)
          /\ client' = IF Head(queue) = Reset THEN {}
                       ELSE client \union {Head(queue)}
          /\ UNCHANGED <<step, table, buffer, joined>>
      BY <1>12 DEF ApplyArtifact
    <2> DEFINE Messages == Rows \union {Reset}
    <2>2. queue \in Seq(Messages)
      BY <1>0 DEF StoreTypeOK
    <2> HIDE DEF Messages
    <2>3. /\ Head(queue) = queue[1]
          /\ Range(queue) = {Head(queue)} \union Range(queue')
          /\ Len(queue') = Len(queue) - 1 /\ Len(queue) \in Nat \ {0}
          /\ \A i \in 1 .. Len(queue) - 1 : queue'[i] = queue[i + 1]
      BY <2>1, <2>2, RangeTail
    <2>4. (Replaying' <=> Replaying) /\ (Executing' <=> Executing)
      BY <2>1 DEF Replaying, Executing
    <2>5. \A i, j \in 1 .. Len(queue') :
              i < j /\ queue'[j] = Reset => queue'[i] = Reset
      <3>1. \A i \in 1 .. Len(queue') : i + 1 \in 1 .. Len(queue)
        BY <2>3
      <3>2. \A i, j \in 1 .. Len(queue') : i < j => i + 1 < j + 1
        BY <2>3
      <3> QED
        BY <1>0, <2>3, <3>1, <3>2 DEF ClientInv
    <2>6. CASE Head(queue) = Reset
      <3>1. Told /\ Waiting' = Waiting /\ client' = {}
        BY <2>1, <2>3, <2>6 DEF Told, Waiting
      <3> QED
        BY <1>0, <2>1, <2>4, <2>5, <3>1 DEF ClientInv
    <2>7. CASE Head(queue) # Reset
      <3>1. ~ Told
        <4>1. ASSUME NEW j \in 1 .. Len(queue) PROVE queue[j] # Reset
          BY <1>0, <2>3, <2>7 DEF ClientInv
        <4>2. DOMAIN queue = 1 .. Len(queue)
          BY <2>2, LenProperties
        <4> QED
          BY <4>1, <4>2 DEF Told, Range
      <3>2. /\ Waiting = {Head(queue)} \union Waiting'
            /\ client' = client \union {Head(queue)}
        BY <2>1, <2>3, <2>7 DEF Waiting
      <3>3. ~ Told'
        BY <2>3, <3>1 DEF Told
      <3>4. Replaying /\ ~ Executing /\ step # "start"
        <4>1. Waiting # {}
          BY <3>2
        <4> QED
          BY <1>0, <4>1 DEF ClientInv, Replaying, Executing
      <3>5. client' \union Waiting' \union Range(buffer') = Range(table')
        <4>1. client \union Waiting \union Range(buffer) = Range(table)
          BY <1>0, <2>1, <3>1, <3>4 DEF ClientInv
        <4> QED
          BY <2>1, <3>2, <4>1
      <3>6. Waiting' \union Range(buffer') \subseteq Range(table')
        BY <2>1, <3>5
      <3> QED
        BY <2>1, <2>4, <2>5, <3>3, <3>4, <3>5, <3>6 DEF ClientInv
    <2> QED
      BY <2>6, <2>7
  <1> QED
    BY <1>1, <1>2, <1>3, <1>4, <1>5, <1>6, <1>7, <1>8, <1>9, <1>10, <1>11, <1>12
    DEF StoreNext, RunnerStep, ClientStep

LEMMA StoreStutters ==
    ASSUME StoreInv, UNCHANGED storeVars PROVE StoreInv'
  BY DEF storeVars, clientVars, StoreInv, StoreTypeOK, AttemptInv, PayloadInv, MadeInv,
         MadeBefore, ClientInv, Executing, Replaying, Storing, Newest, Offloading,
         Unstored, Waiting, Told

\* The artifact store keeps its inductive invariant: where the thread is in an
\* attempt, what rows and objects hold, what was made, and what the client has
\* been told, fit together.
THEOREM StoreInvCorrect == StoreSpec => []StoreInv
  <1>1. StoreInit => StoreInv
    BY StoreInitially
  <1>2. StoreInv /\ [StoreNext]_storeVars => StoreInv'
    BY StoreTypes, StoreAttempts, StorePayloads, StoreMade, StoreClient,
       StoreStutters DEF StoreInv
  <1> QED
    BY <1>1, <1>2, PTL DEF StoreSpec

\* Every variable of the artifact store has its type.
THEOREM StoreTypeCorrect == StoreSpec => []StoreTypeOK
  <1>1. StoreInv => StoreTypeOK
    BY DEF StoreInv
  <1> QED
    BY <1>1, StoreInvCorrect, PTL

\* The last row of a completed run that names an object has its payload there,
\* whatever failed attempts and earlier artifacts have put under the key.
THEOREM ObjectsCurrentCorrect == StoreSpec => []ObjectsCurrent
  <1>1. ASSUME StoreInv PROVE ObjectsCurrent
    <2>1. DOMAIN table = 1 .. Len(table)
      BY <1>1, LenProperties DEF StoreInv, StoreTypeOK
    <2>2. PayloadInv
      BY <1>1 DEF StoreInv
    <2> QED
      BY <2>1, <2>2 DEF PayloadInv, Replaying, Newest, Offloading, ObjectsCurrent
  <1> QED
    BY <1>1, StoreInvCorrect, PTL

\* When a run has completed, a client that has taken its events shows the rows,
\* and these are the artifacts of the last execution, each once and in order.
THEOREM ClientConvergesCorrect == StoreSpec => []ClientConverges
  <1>1. ASSUME StoreInv, step = "completed"
        PROVE  /\ joined = "showing" /\ queue = <<>> => client = Range(table)
               /\ \E k \in 0 .. Len(made) :
                      /\ SubSeq(made, k + 1, Len(made)) =
                             [i \in DOMAIN table |-> table[i].artifact]
                      /\ \A i \in DOMAIN made : made[i].attempt = attempt <=> i > k
    <2>1. joined = "showing" /\ queue = <<>> => client = Range(table)
      <3>1. SUFFICES ASSUME joined = "showing", queue = <<>>
                     PROVE  client = Range(table)
        OBVIOUS
      <3>2. ~ Told /\ Waiting = {} /\ Replaying
        BY <1>1, <3>1 DEF Told, Waiting, Range, Replaying
      <3> QED
        <4>1. Range(buffer) = {}
          BY <1>1 DEF StoreInv, AttemptInv, Range
        <4> QED
          BY <1>1, <3>1, <3>2, <4>1 DEF StoreInv, ClientInv
    <2>2. /\ made \in Seq(Artifacts) /\ table \in Seq(Rows)
          /\ Len(made) \in Nat /\ Len(table) \in Nat
          /\ DOMAIN made = 1 .. Len(made) /\ DOMAIN table = 1 .. Len(table)
      BY <1>1, LenProperties DEF StoreInv, StoreTypeOK
    <2>3. PICK k \in 0 .. Len(made) : MadeBefore(k)
      BY <1>1 DEF StoreInv, MadeInv, Replaying
    <2>4. Len(made) = k + Len(table)
      BY <1>1, <2>2, <2>3 DEF MadeBefore, Unstored, Storing
    <2>5. \A i \in k + 1 .. Len(made) : made[i] \in Artifacts
      <3>1. \A i \in k + 1 .. Len(made) : i \in 1 .. Len(made)
        BY <2>2
      <3> QED
        BY <2>2, <3>1, ElementOfSeq
    <2>6. PICK last \in Seq(Artifacts) : last = SubSeq(made, k + 1, Len(made))
      <3>1. k + 1 \in Int /\ Len(made) \in Int
        BY <2>2
      <3>2. SubSeq(made, k + 1, Len(made)) \in Seq(Artifacts)
        BY <2>5, <3>1, SubSeqProperties
      <3> QED
        BY <3>2
    <2>7. /\ Len(last) = Len(table)
          /\ \A i \in 1 .. Len(table) : last[i] = table[i].artifact
      <3>1. /\ Len(last) = IF k + 1 <= Len(made) THEN Len(made) - (k + 1) + 1 ELSE 0
            /\ \A i \in 1 .. Len(made) - (k + 1) + 1 : last[i] = made[(k + 1) + i - 1]
        <4>1. k + 1 \in Int /\ Len(made) \in Int
          BY <2>2
        <4> QED
          BY <2>5, <2>6, <4>1, SubSeqProperties
      <3>2. Len(made) - (k + 1) + 1 = Len(table)
        BY <2>2, <2>4
      <3>3. \A i \in 1 .. Len(table) : (k + 1) + i - 1 = k + i
        BY <2>2
      <3>4. Len(last) = Len(table)
        BY <2>2, <2>4, <3>1
      <3>5. \A i \in 1 .. Len(table) : last[i] = made[k + i]
        BY <3>1, <3>2, <3>3
      <3> QED
        BY <2>3, <3>4, <3>5 DEF MadeBefore
    <2>8. SubSeq(made, k + 1, Len(made)) = [i \in DOMAIN table |-> table[i].artifact]
      <3>1. last = [i \in 1 .. Len(table) |-> last[i]]
        BY <2>7, LenProperties
      <3> QED
        BY <2>2, <2>6, <2>7, <3>1
    <2> QED
      BY <2>1, <2>2, <2>3, <2>8 DEF MadeBefore
  <1>2. StoreInv => ClientConverges
    BY <1>1 DEF ClientConverges
  <1> QED
    BY <1>2, StoreInvCorrect, PTL
=============================================================================
