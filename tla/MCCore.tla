------------------------------- MODULE MCCore -------------------------------
(***************************************************************************)
(* The lock-free queue, the timer and the seqlock of roc_core, the         *)
(* abstract ledger of tasks, the pipeline loop with simple scheduling, and *)
(* the splitting of RTCP reports over packets, side by side for TLC: every *)
(* behaviour is one of the part that the initial state selects, and the    *)
(* variables of the other parts do not change.                             *)
(***************************************************************************)
EXTENDS TaskLedger, Seqlock, MpscQueue, Timer, TLC

CONSTANTS t1, t2, t3, w, f, n1, n2, n3

VARIABLES
    part,
    loopPc, ret, taskState, loopSem, loopQueue, unlinked, pendingTasks, pendingFrames, procState,
    pipelineMutex, schedMutex, requested, frameTid, storing, sampledFrames, current,
    needResched, frame,
    fits, limit, streams, dest, sendIndex, recvIndex, left

\* One client that schedules task after task, beside the frame thread and the worker.
Loop == INSTANCE PipelineLoop WITH
    Tasks <- {t1}, Waiters <- {}, Repeating <- {t1}, OnFrameThread <- {}, Framer <- f,
    Worker <- w, Precise <- FALSE, FrameLen <- 1, SubframeLen <- 0, MinSamples <- 1,
    pc <- loopPc, queue <- loopQueue, sem <- loopSem

\* Two threads move the deadline, once each.
OneEach == n1 :> 1 @@ n2 :> 1

\* Buffers that hold the blocks of no, two or three streams.
Split == INSTANCE RtcpSplit WITH
    InitialLimit <- 6, Capacities <- {0, 2, 3}, Crowded <- {2, 3}, MaxStreams <- 4, Dests <- 1,
    Generations <- 2, done <- left

loopVars == <<loopPc, ret, taskState, loopSem, loopQueue, unlinked, pendingTasks, pendingFrames,
              procState, pipelineMutex, schedMutex, requested, frameTid, storing, sampledFrames,
              current, needResched, frame>>
splitVars == <<fits, limit, streams, dest, sendIndex, recvIndex, left>>

CoreInit ==
    /\ part \in {"ledger", "mpsc", "loop", "timer", "split", "seqlock"}
    /\ Init /\ MpscInit /\ Loop!Init /\ TimerInit /\ Split!Init /\ SeqInit
    /\ part # "split" => fits = 0

CoreNext ==
    /\ UNCHANGED part
    /\ \/ part = "ledger" /\ Next /\ UNCHANGED <<mpscVars, loopVars, timerVars, splitVars, seqVars>>
       \/ part = "mpsc" /\ MpscNext /\ UNCHANGED <<ledger, loopVars, timerVars, splitVars, seqVars>>
       \/ part = "loop" /\ Loop!Next /\ UNCHANGED <<ledger, mpscVars, timerVars, splitVars, seqVars>>
       \/ part = "timer" /\ TimerNext /\ UNCHANGED <<ledger, mpscVars, loopVars, splitVars, seqVars>>
       \/ part = "split" /\ Split!Next /\ UNCHANGED <<ledger, mpscVars, loopVars, timerVars, seqVars>>
       \/ part = "seqlock" /\ SeqNext
          /\ UNCHANGED <<ledger, mpscVars, loopVars, timerVars, splitVars>>

\* The fairness of the FairSpec of each part.
CoreSpec ==
    /\ CoreInit /\ [][CoreNext]_<<part, mpscVars, loopVars, timerVars, splitVars, seqVars, ledger>>
    /\ WF_mpscVars(part = "mpsc" /\ Consume)
    /\ \A t \in Nodes : WF_mpscVars(part = "mpsc" /\ PushNode(t))
    /\ WF_loopVars(part = "loop" /\ (Loop!Client(t1) \/ Loop!AsyncProcessing(t1)))
    /\ WF_loopVars(part = "loop" /\ (Loop!ProcessTasks \/ Loop!AsyncProcessing(w)))
    /\ WF_loopVars(part = "loop" /\ (Loop!ProcessFrame \/ Loop!AsyncProcessing(f)))
    /\ SF_loopVars(part = "loop" /\ Loop!FrameLock)
    /\ \A s \in Setters : WF_timerVars(part = "timer" /\ SetterStep(s))
    /\ WF_timerVars(part = "timer" /\ Sleeper)
    /\ WF_timerVars(part = "timer" /\ Tick)
    /\ WF_splitVars(part = "split" /\ (Split!PacketFits \/ Split!Retry \/ Split!NoSpace))
    /\ \A s \in Storers : WF_seqVars(part = "seqlock" /\ (StoreWord(s) \/ StorePublish(s)))
    /\ \A l \in Loaders :
          WF_seqVars(part = "seqlock" /\ (LoadAgain(l) \/ LoadWord(l) \/ LoadCheck(l) \/ LoadReturn(l)))

-----------------------------------------------------------------------------

\* The variables of the queue, the timer, the RTCP loop and the seqlock have their types,
\* and change_owner_() of the queue never panics: no node is popped twice or without a push.
CoreConsistent ==
    MpscTypeOK /\ TimerTypeOK /\ Split!TypeOK /\ SeqTypeOK /\ MpscOwnersAsExpected

\* What was begun ends.  MpscQueue: every node whose push has begun is popped while the
\* consumer keeps popping.  PipelineLoop with simple scheduling: process_subframes_and_tasks()
\* returns, however many tasks are scheduled.  Timer: wait_deadline() returns once the
\* deadline is due.  RtcpSplit: generate_packets_() of the RTCP communicator ends.
\* Seqlock: wait_load() returns.
CoreProgress ==
    /\ MpscPushedIsPopped
    /\ Loop!FrameEventuallyFinished
    /\ part = "timer" => TimerDueDeadlineWakes
    /\ Split!RtcpGenerationEnds
    /\ SeqlockWaitEnds
=============================================================================
