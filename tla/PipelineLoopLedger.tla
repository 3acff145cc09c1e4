------------------------- MODULE PipelineLoopLedger -------------------------
(***************************************************************************)
(* PipelineLoop as an implementation of TaskLedger: the task a thread is   *)
(* about to queue or to process is the one it holds, the owner of          *)
(* pipeline_mutex_ owns the pipeline, and a processed task is settled by   *)
(* the decrement of pending_tasks_.                                        *)
(***************************************************************************)
EXTENDS PipelineLoop

Ledger == INSTANCE TaskLedger WITH
    Actors <- Threads,
    state <- taskState, held <- current, owner <- pipelineMutex, settling <- Decrementing,
    pending <- pendingTasks

(* The loop as a whole does to tasks what the ledger allows: whichever thread
   takes a step, a task is scheduled, queued, taken, processed under pipeline_mutex_
   and settled in this order, one thread at a time. *)
ImplementsLedger == Ledger!Spec
=============================================================================
