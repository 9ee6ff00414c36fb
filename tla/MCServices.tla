----------------------------- MODULE MCServices -----------------------------
(***************************************************************************)
(* TLC instance of the five smaller components.  They share no variable:   *)
(* each behaviour is one of one of them, with the others at rest, so that  *)
(* the state graph is the union of theirs.                                 *)
(***************************************************************************)
EXTENDS ProgramOutput, ArtifactStore, Dialogue, Startup, Session

VARIABLE part   \* the component this behaviour is about

vars == <<part, outputVars, storeVars, dialogueVars, startupVars, sessionVars>>

ServicesInit ==
    /\ part \in {"output", "store", "dialogue", "startup", "session"}
    /\ OutputInit /\ StoreInit /\ DialogueInit /\ StartupInit /\ SessionInit

OutputAlone(A) ==
    /\ part = "output" /\ A
    /\ UNCHANGED <<part, storeVars, dialogueVars, startupVars, sessionVars>>
StoreAlone ==
    /\ part = "store" /\ StoreNext
    /\ UNCHANGED <<part, outputVars, dialogueVars, startupVars, sessionVars>>
DialogueAlone ==
    /\ part = "dialogue" /\ DialogueNext
    /\ UNCHANGED <<part, outputVars, storeVars, startupVars, sessionVars>>
StartupAlone(A) ==
    /\ part = "startup" /\ A
    /\ UNCHANGED <<part, outputVars, storeVars, dialogueVars, sessionVars>>
SessionAlone ==
    /\ part = "session" /\ SessionNext
    /\ UNCHANGED <<part, outputVars, storeVars, dialogueVars, startupVars>>

ServicesNext ==
    \/ OutputAlone(OutputNext) \/ StoreAlone \/ DialogueAlone
    \/ StartupAlone(StartupNext) \/ SessionAlone

\* OutputFairness and StartupFairness, each of its own behaviours.
ServicesFairness ==
    /\ WF_vars(OutputAlone(ProgramStep)) /\ WF_vars(OutputAlone(WorkerStep))
    /\ WF_vars(OutputAlone(RunStep)) /\ WF_vars(OutputAlone(TimeOutIdle /\ mode # "cold"))
    /\ \A i \in Instances : WF_vars(StartupAlone(Advance(i)))

ServicesSpec == ServicesInit /\ [][ServicesNext]_vars /\ ServicesFairness
=============================================================================
