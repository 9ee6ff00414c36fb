------------------------------ MODULE Dialogue ------------------------------
(***************************************************************************)
(* The conversation of a run with its model: a program is generated, maybe *)
(* in chunks that the client sees, executed, and corrected in further      *)
(* turns until it works or the corrections are used up, when the           *)
(* conversation starts anew (orchestrator.py, llm.py, prompts.py).         *)
(*                                                                         *)
(* A program is a number; 0 is the empty one, which is what a payload      *)
(* without python_code amounts to, and which the validator accepts.        *)
(***************************************************************************)
EXTENDS Integers, SequencesExt

CONSTANTS
    Providers,          \* settings.ask_llm_provider
    MaxCorrections,     \* MAX_ERROR_RETRY
    MaxRegenerations,   \* MAX_CODEGEN_RETRY
    MaxChunks           \* pieces a program is streamed in (bound)

ASSUME DialogueAssumption ==
    /\ Providers \subseteq {"vertex_gemini", "databricks_claude", "other"}
    /\ MaxCorrections \in Nat /\ MaxRegenerations \in Nat /\ MaxChunks \in Nat

VARIABLES
    provider,   \* "none" before the run starts
    stage,      \* where the run is, see Stages
    round,      \* regenerations so far
    corrections,    \* corrections in this round
    turns,      \* conversation_history
    code,       \* python_code, as _execute_with_retry has it
    chunks,     \* pieces of the current program streamed so far
    row,        \* python_code of the run's row, -1 for none
    shown,      \* codeBuffer of the stream state, in pieces
    prior,      \* the program whose error is prior_failure, -1 for none
    written,    \* programs the model has written
    runs        \* the programs executed in each round, in order (history)

dialogueVars == <<provider, stage, round, corrections, turns, code, chunks,
                  row, shown, prior, written, runs>>

Stages == {"idle", "generate", "save", "announce", "validate", "execute",
           "correct", "exhausted", "completed", "failed"}

\* What a turn says: the question, with the error that ended the last round; a
\* program; or that a program failed, with its code and error.
Question(p) == [role |-> "user", says |-> "question", program |-> p]
Model(p) == [role |-> "model", says |-> "program", program |-> p]
Failure(p) == [role |-> "user", says |-> "error", program |-> p]

\* The pieces that show a whole program, and one that shows a part of its text.
Shown(p) == IF p = 0 THEN <<>> ELSE <<[program |-> p, whole |-> TRUE]>>
Chunk(p) == [program |-> p, whole |-> FALSE]

DialogueInit ==
    /\ provider = "none" /\ stage = "idle" /\ round = 0 /\ corrections = 0
    /\ turns = <<>> /\ code = -1 /\ chunks = 0 /\ row = -1 /\ shown = <<>>
    /\ prior = -1 /\ written = 0
    /\ runs = [r \in 0 .. MaxRegenerations |-> <<>>]

Ask ==
    /\ stage = "idle"
    /\ provider' \in Providers
    /\ stage' = "generate"
    /\ UNCHANGED <<round, corrections, turns, code, chunks, row, shown, prior,
                   written, runs>>

-----------------------------------------------------------------------------
(* Generation.                                                             *)

\* on_codegen_chunk: the text is appended to what is shown, which at a second
\* round is the program of the first.
StreamChunk ==
    /\ stage = "generate" /\ provider # "other" /\ chunks < MaxChunks
    /\ chunks' = chunks + 1
    /\ shown' = Append(shown, Chunk(written + 1))
    /\ UNCHANGED <<provider, stage, round, corrections, turns, code, row, prior,
                   written, runs>>

\* A payload has come: from Gemini it is the text that was streamed, from Claude
\* the input of the tool, which may not have been.  A program that was not
\* streamed is shown as a whole.
ReceiveProgram(p) ==
    /\ stage = "generate" /\ provider # "other"
    /\ provider = "vertex_gemini" => chunks > 0
    /\ code' = p
    /\ written' = written + 1
    /\ shown' = IF chunks = 0 THEN shown \o Shown(p) ELSE shown
    /\ stage' = "save"
    /\ UNCHANGED <<provider, round, corrections, turns, chunks, row, prior, runs>>

\* The request fails, the text is no JSON object, the tool was not used; an
\* unknown provider is called with a parameter that it does not have.  The run
\* fails, whatever the class of the error.
FailGeneration ==
    /\ stage = "generate"
    /\ stage' = "failed"
    /\ UNCHANGED <<provider, round, corrections, turns, code, chunks, row, shown,
                   prior, written, runs>>

\* Only a program that was generated is saved.
SaveGenerated ==
    /\ stage = "save"
    /\ row' = IF corrections = 0 THEN code ELSE row
    /\ stage' = "announce"
    /\ UNCHANGED <<provider, round, corrections, turns, code, chunks, shown,
                   prior, written, runs>>

\* update_run, of a program generated or corrected.
SaveProgram ==
    /\ stage = "save"
    /\ row' = code
    /\ stage' = "announce"
    /\ UNCHANGED <<provider, round, corrections, turns, code, chunks, shown,
                   prior, written, runs>>

\* run.codegen.completed replaces what is shown.  A generated program is
\* validated after that, a corrected one has been.
AnnounceProgram ==
    /\ stage = "announce"
    /\ shown' = Shown(code)
    /\ stage' = IF corrections = 0 THEN "validate" ELSE "execute"
    /\ UNCHANGED <<provider, round, corrections, turns, code, chunks, row, prior,
                   written, runs>>

\* The conversation is the prompt and the text of the model.
OpenConversation ==
    /\ stage = "validate"
    /\ stage' = "execute"
    /\ turns' = <<Question(prior), Model(code)>>
    /\ UNCHANGED <<provider, round, corrections, code, chunks, row, shown, prior,
                   written, runs>>

\* A generated program that is not valid fails the run; it is not corrected.
RejectProgram ==
    /\ stage = "validate" /\ code # 0
    /\ stage' = "failed"
    /\ UNCHANGED <<provider, round, corrections, turns, code, chunks, row, shown,
                   prior, written, runs>>

-----------------------------------------------------------------------------
(* Execution and correction.                                               *)

\* The program works; or it does not, and a turn says so if corrections remain.
Execute ==
    /\ stage = "execute"
    /\ runs' = [runs EXCEPT ![round] = Append(@, code)]
    /\ \/ stage' = "completed" /\ UNCHANGED turns
       \/ /\ corrections < MaxCorrections
          /\ stage' = "correct" /\ turns' = Append(turns, Failure(code))
       \/ corrections = MaxCorrections /\ stage' = "exhausted" /\ UNCHANGED turns
    /\ UNCHANGED <<provider, round, corrections, code, chunks, row, shown, prior,
                   written>>

Corrected(p) ==
    /\ code' = p
    /\ corrections' = corrections + 1
    /\ stage' = "save"

\* apply_search_replace: blocks replace parts of the current program; one that
\* does not occur in it is skipped, so nothing may change.
Patched == {code, written + 1}

\* The programs a correction may result in.  Gemini writes a whole one that is not
\* empty; Claude writes blocks, and an empty program cannot be corrected.
Corrections ==
    CASE provider = "vertex_gemini" -> {code, written + 1} \ {0}
      [] provider = "databricks_claude" /\ code # 0 -> Patched
      [] OTHER -> {}

TakeCorrection(p) ==
    /\ stage = "correct" /\ p \in Corrections
    /\ Corrected(p)
    /\ turns' = Append(turns, Model(p))
    /\ written' = written + 1
    /\ UNCHANGED <<provider, round, chunks, row, shown, prior, runs>>

\* A correction that fails, for whatever LLMProviderError, or is not valid, ends
\* the round.
FailCorrection ==
    /\ stage = "correct"
    /\ stage' = "exhausted"
    /\ UNCHANGED <<provider, round, corrections, turns, code, chunks, row, shown,
                   prior, written, runs>>

\* The next round is told nothing.
RegenerateUntold ==
    /\ stage = "exhausted" /\ round < MaxRegenerations
    /\ round' = round + 1
    /\ corrections' = 0 /\ turns' = <<>> /\ chunks' = 0
    /\ stage' = "generate"
    /\ UNCHANGED <<provider, code, row, shown, prior, written, runs>>

\* ExecutionRetryExhausted: the next round is told the error of the last program
\* executed, and nothing else of this one.
Regenerate ==
    /\ stage = "exhausted" /\ round < MaxRegenerations
    /\ round' = round + 1
    /\ corrections' = 0 /\ turns' = <<>> /\ chunks' = 0
    /\ prior' = code
    /\ stage' = "generate"
    /\ UNCHANGED <<provider, code, row, shown, written, runs>>

GiveUp ==
    /\ stage = "exhausted" /\ round = MaxRegenerations
    /\ stage' = "failed"
    /\ UNCHANGED <<provider, round, corrections, turns, code, chunks, row, shown,
                   prior, written, runs>>

-----------------------------------------------------------------------------
DialogueNext ==
    \/ Ask \/ StreamChunk
    \/ \E p \in {0, written + 1} : ReceiveProgram(p)
    \/ FailGeneration \/ SaveProgram \/ AnnounceProgram \/ OpenConversation
    \/ RejectProgram \/ Execute
    \/ \E p \in 0 .. (written + 1) : TakeCorrection(p)
    \/ FailCorrection \/ Regenerate \/ GiveUp

DialogueSpec == DialogueInit /\ [][DialogueNext]_dialogueVars

-----------------------------------------------------------------------------
(* Properties.                                                             *)

Programs == Nat \union {-1}

\* Every variable has its type.
DialogueTypeOK ==
    /\ provider \in Providers \union {"none"} /\ stage \in Stages
    /\ round \in 0 .. MaxRegenerations /\ corrections \in 0 .. MaxCorrections
    /\ turns \in Seq([role : {"user", "model"},
                      says : {"question", "program", "error"}, program : Programs])
    /\ code \in Programs /\ chunks \in 0 .. MaxChunks /\ row \in Programs
    /\ shown \in Seq([program : Nat, whole : BOOLEAN])
    /\ prior \in Programs /\ written \in Nat
    /\ runs \in [0 .. MaxRegenerations -> Seq(Nat)]

\* Whenever a correction is asked for, the conversation is the question, with the
\* error of the last program executed in the round before, and then for each
\* program executed in this round, in order, the turn in which the model wrote it
\* and the turn that says how it failed: so the turns alternate, as the models
\* demand, and no turn tells of a program that was not executed.
TurnsFaithful ==
    stage = "correct" =>
        LET mine == runs[round]
        IN  /\ Len(turns) = 2 * Len(mine) + 1
            /\ turns[1] = Question(IF round = 0 THEN -1 ELSE Last(runs[round - 1]))
            /\ \A i \in DOMAIN mine :
                   /\ turns[2 * i] = Model(mine[i])
                   /\ turns[2 * i + 1] = Failure(mine[i])

\* While a program is executed, and when the run completes, that program is the
\* one in the row of the run, the one the stream state shows, whole and alone,
\* whatever was shown while it or an earlier one was written, and the one the
\* model's last turn holds.
ShowsWhatRuns ==
    stage \in {"execute", "correct", "completed"} =>
        /\ row = code /\ shown = Shown(code)
        /\ \E i \in DOMAIN turns :
               /\ turns[i] = Model(code)
               /\ \A j \in i + 1 .. Len(turns) : turns[j].role # "model"
        /\ stage # "execute" => runs[round] # <<>> /\ Last(runs[round]) = code
=============================================================================
