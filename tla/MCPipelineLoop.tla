--------------------------- MODULE MCPipelineLoop ---------------------------
(***************************************************************************)
(* The pipeline loop for TLC, with enable_precise_task_scheduling on or    *)
(* off: the initial state chooses, and it does not change.                 *)
(***************************************************************************)
EXTENDS PipelineLoopLedger

CONSTANTS t1, t2, Modes

VARIABLE precise

\* The constant Precise is TRUE.
Simple == INSTANCE PipelineLoop WITH Precise <- FALSE

loopVars == <<precise, vars>>

LoopInit == precise \in Modes /\ Init

LoopNext ==
    /\ UNCHANGED precise
    /\ \/ precise /\ Next
       \/ ~precise /\ Simple!Next

LoopSpec == LoopInit /\ [][LoopNext]_loopVars

\* Precise scheduling, with frames that keep coming.
LoopFramesSpec == LoopSpec /\ FramesFairness
=============================================================================
