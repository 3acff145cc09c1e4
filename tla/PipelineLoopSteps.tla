-------------------------- MODULE PipelineLoopSteps -------------------------
(***************************************************************************)
(* The steps of PipelineLoop, classified by what they do.                  *)
(*                                                                         *)
(* A control state has one of five roles, by what its thread owns.  The    *)
(* steps of a thread fall into nine classes, by how its role and the tasks *)
(* change.                                                                 *)
(*                                                                         *)
(* The last parts do not need the classes: the steps of the frame thread,  *)
(* and what a client that waits for its task knows of it.                  *)
(***************************************************************************)
EXTENDS PipelineLoop, TLAPS

DecrementLabels == {"decr", "w_decr", "f_decr"}

(* The roles: the thread owns nothing; owns the pipeline; has a task in hand; owns
   the pipeline to process the task in hand; has just processed it. *)
Outside(l) ==
    /\ l \in Labels
    /\ l \notin PipelineHeld /\ l \notin HoldsTask /\ l \notin DecrementLabels
Owning(l) ==
    /\ l \in Labels
    /\ l \in PipelineHeld /\ l \notin HoldsTask /\ l \notin DecrementLabels
Holding(l) ==
    /\ l \in Labels
    /\ l \notin PipelineHeld /\ l \in HoldsTask /\ l \notin DecrementLabels
Processing(l) ==
    /\ l \in Labels
    /\ l \in PipelineHeld /\ l \in HoldsTask /\ l \notin DecrementLabels
Settling(l) ==
    /\ l \in Labels
    /\ l \in PipelineHeld /\ l \notin HoldsTask /\ l \in DecrementLabels

(* The roles of the control states of a client, ... *)
LEMMA ClientRoles ==
    /\ Outside("idle") /\ Outside("a_load") /\ Outside("recheck") /\ Outside("link") /\ Outside("ask")
    /\ Outside("leave") /\ Outside("done")
    /\ Owning("sample") /\ Owning("unlock")
    /\ Holding("load") /\ Holding("allowed") /\ Holding("trylock") /\ Holding("push")
    /\ Processing("exec")
    /\ Settling("decr")
BY DEF Outside, Owning, Holding, Processing, Settling, Labels, PipelineHeld, HoldsTask,
       DecrementLabels

(* ... of the subroutines for asynchronous processing and their callers, ... *)
LEMMA AsyncRoles ==
    /\ Outside("idle") /\ Outside("ask") /\ Outside("leave") /\ Outside("done")
    /\ Outside("a_load") /\ Outside("a_lock") /\ Outside("a_test") /\ Outside("a_call")
    /\ Outside("a_set") /\ Outside("a_unlock") /\ Outside("a_frames") /\ Outside("c_lock")
    /\ Outside("c_test") /\ Outside("c_call") /\ Outside("c_set") /\ Outside("c_unlock")
    /\ Outside("f_lock")
BY DEF Outside, Owning, Holding, Processing, Settling, Labels, PipelineHeld, HoldsTask,
       DecrementLabels

(* ... of the worker, ... *)
LEMMA WorkerRoles ==
    /\ Outside("idle") /\ Outside("a_load") /\ Outside("w_load") /\ Outside("w_trylock")
    /\ Outside("w_recheck") /\ Outside("w_reset")
    /\ Owning("w_run") /\ Owning("w_allowed") /\ Owning("w_frames") /\ Owning("w_pop")
    /\ Owning("w_unlock")
    /\ Processing("w_exec")
    /\ Settling("w_decr")
BY DEF Outside, Owning, Holding, Processing, Settling, Labels, PipelineHeld, HoldsTask,
       DecrementLabels

(* ... and of the frame thread. *)
LEMMA FrameRoles ==
    /\ Outside("idle") /\ Outside("a_load") /\ Outside("c_lock") /\ Outside("f_lock")
    /\ Outside("f_leave") /\ Outside("f_recheck")
    /\ Owning("f_subframe") /\ Owning("f_deadline") /\ Owning("f_deadline_end")
    /\ Owning("f_tasks") /\ Owning("f_pop") /\ Owning("f_allowed") /\ Owning("f_next")
    /\ Owning("f_report") /\ Owning("f_report_end") /\ Owning("f_tid") /\ Owning("f_tid_end")
    /\ Owning("f_unlock")
    /\ Processing("f_exec")
    /\ Settling("f_decr")
BY DEF Outside, Owning, Holding, Processing, Settling, Labels, PipelineHeld, HoldsTask,
       DecrementLabels

-----------------------------------------------------------------------------
ReturnLabels == {"idle", "leave", "ask", "done", "f_lock"}

ControlTypes ==
    /\ pc \in [Threads -> Labels]
    /\ ret \in [Threads -> ReturnLabels]

(* pipeline_mutex_ is owned by the thread whose control state says so. *)
MutexOwner == \A th \in Threads : pc[th] \in PipelineHeld <=> pipelineMutex = th

(* A thread has a task in hand where its control state says so, a client its own. *)
TaskInHand ==
    /\ \A th \in Threads : current[th] # None <=> pc[th] \in HoldsTask
    /\ \A t \in Tasks : current[t] \in {t, None}

(* Only th moves, from a control state with role R to one with role S. *)
Moves(th, R(_), S(_)) ==
    /\ pc' = [pc EXCEPT ![th] = pc'[th]]
    /\ R(pc[th]) /\ S(pc'[th])
    /\ UNCHANGED ret \/ \E r \in ReturnLabels : ret' = [ret EXCEPT ![th] = r]

QuietStep(th) ==
    /\ Moves(th, Outside, Outside) \/ Moves(th, Owning, Owning) \/ Moves(th, Holding, Holding)
    /\ UNCHANGED <<taskState, queue, current, pipelineMutex, pendingTasks>>

AcquireStep(th) ==
    /\ Moves(th, Outside, Owning) \/ Moves(th, Holding, Processing)
    /\ pipelineMutex = None /\ pipelineMutex' = th
    /\ UNCHANGED <<taskState, queue, current, pendingTasks>>

ReleaseStep(th) ==
    /\ Moves(th, Owning, Outside)
    /\ pipelineMutex' = None
    /\ UNCHANGED <<taskState, queue, current, pendingTasks>>

ScheduleStep(t) ==
    /\ Moves(t, Outside, Holding)
    /\ taskState[t] = "new" /\ taskState' = [taskState EXCEPT ![t] = "scheduled"]
    /\ current' = [current EXCEPT ![t] = t]
    /\ pendingTasks' = pendingTasks + 1
    /\ UNCHANGED <<queue, pipelineMutex>>

EnqueueStep(t) ==
    /\ Moves(t, Holding, Outside)
    /\ queue' = Append(queue, t)
    /\ current' = [current EXCEPT ![t] = None]
    /\ UNCHANGED <<taskState, pipelineMutex, pendingTasks>>

RenewStep(t) ==
    /\ Moves(t, Outside, Outside)
    /\ taskState[t] = "finished" /\ taskState' = [taskState EXCEPT ![t] = "new"]
    /\ UNCHANGED <<queue, current, pipelineMutex, pendingTasks>>

(* Only the worker and the frame thread take tasks from the queue. *)
DequeueStep(th) ==
    /\ th \notin Tasks
    /\ Moves(th, Owning, Processing)
    /\ queue # <<>> /\ queue' = Tail(queue)
    /\ current' = [current EXCEPT ![th] = Head(queue)]
    /\ UNCHANGED <<taskState, pipelineMutex, pendingTasks>>

ProcessStep(th) ==
    /\ Moves(th, Processing, Settling)
    /\ taskState' = [taskState EXCEPT ![current[th]] = "finished"]
    /\ current' = [current EXCEPT ![th] = None]
    /\ UNCHANGED <<queue, pipelineMutex, pendingTasks>>

SettleStep(th) ==
    /\ Moves(th, Settling, Owning)
    /\ pendingTasks' = pendingTasks - 1
    /\ UNCHANGED <<taskState, queue, current, pipelineMutex>>

ClassifiedStep(th) ==
    \/ QuietStep(th) \/ AcquireStep(th) \/ ReleaseStep(th)
    \/ DequeueStep(th) \/ ProcessStep(th) \/ SettleStep(th)
    \/ th \in Tasks /\ (ScheduleStep(th) \/ EnqueueStep(th) \/ RenewStep(th))

(* Where the threads are after a step of th. *)
LEMMA MoveEffect ==
    ASSUME ControlTypes, NEW th \in Threads, pc' = [pc EXCEPT ![th] = pc'[th]]
    PROVE  /\ \A x \in Threads \ {th} : pc'[x] = pc[x]
           /\ Decrementing' = IF pc'[th] \in DecrementLabels
                              THEN Decrementing \cup {th} ELSE Decrementing \ {th}
           /\ th \in Decrementing <=> pc[th] \in DecrementLabels
<1>1. \A x \in Threads \ {th} : pc'[x] = pc[x]
  BY DEF ControlTypes
<1>2. QED
  BY <1>1 DEF Decrementing, DecrementLabels

(* What a step of th does to the control state. *)
LEMMA ControlStep ==
    ASSUME ControlTypes, NEW th \in Threads, ClassifiedStep(th)
    PROVE  /\ ControlTypes'
           /\ \A x \in Threads \ {th} : pc'[x] = pc[x] /\ ret'[x] = ret[x]
<1>1. /\ pc' = [pc EXCEPT ![th] = pc'[th]] /\ pc'[th] \in Labels
      /\ UNCHANGED ret \/ \E r \in ReturnLabels : ret' = [ret EXCEPT ![th] = r]
  BY Zenon DEF ClassifiedStep, QuietStep, AcquireStep, ReleaseStep, DequeueStep, ProcessStep,
         SettleStep, ScheduleStep, EnqueueStep, RenewStep, Moves, Outside, Owning, Holding,
         Processing, Settling
<1>2. QED
  BY <1>1 DEF ControlTypes

-----------------------------------------------------------------------------
(* A thread sent to l is at l, and no other thread moves. *)
LEMMA LandsAt ==
    ASSUME ControlTypes, NEW th \in Threads, NEW l, pc' = [pc EXCEPT ![th] = l]
    PROVE  pc'[th] = l /\ pc' = [pc EXCEPT ![th] = pc'[th]]
BY DEF ControlTypes

LEMMA CallerLabels ==
    /\ "idle" \in ReturnLabels /\ "leave" \in ReturnLabels /\ "ask" \in ReturnLabels
    /\ "done" \in ReturnLabels /\ "f_lock" \in ReturnLabels
BY DEF ReturnLabels

(* Subroutines return to control states outside of the pipeline. *)
LEMMA ReturnOutside ==
    ASSUME ControlTypes
    PROVE  \A th \in Threads : Outside(ret[th])
BY AsyncRoles DEF ControlTypes, ReturnLabels

(* The steps of schedule() and schedule_and_wait(). *)
LEMMA ClientClassified ==
    ASSUME ControlTypes, NEW t \in Tasks, Schedule(t) \/ Client(t) \/ Renew(t)
    PROVE  ClassifiedStep(t)
<1>0. t \in Threads
  BY ConstAssumption DEF Threads
<1> USE <1>0, ClientRoles, LandsAt, CallerLabels
<1>1. CASE Schedule(t)
  <2>1. ScheduleStep(t)
    BY <1>1, Zenon DEF Schedule, Goto, Call, Moves, ScheduleStep
  <2>2. QED
    BY <2>1 DEF ClassifiedStep
<1>2. CASE LoadDeadline(t)
  <2>1. QuietStep(t)
    BY <1>2, Zenon DEF LoadDeadline, Goto, Call, locals, taskVars, Moves, QuietStep
  <2>2. QED
    BY <2>1 DEF ClassifiedStep
<1>3. CASE CheckAllowed(t)
  <2>1. QuietStep(t)
    BY <1>3, ZenonT(30) DEF CheckAllowed, Goto, Call, locals, taskVars, Moves, QuietStep
  <2>2. QED
    BY <2>1 DEF ClassifiedStep
<1>4. CASE TryLockPipeline(t)
  <2>1. AcquireStep(t) \/ QuietStep(t)
    BY <1>4, Zenon DEF TryLockPipeline, Goto, Call, locals, taskVars, Moves, AcquireStep,
        QuietStep
  <2>2. QED
    BY <2>1 DEF ClassifiedStep
<1>5. CASE ProcessInPlace(t)
  <2>1. ProcessStep(t)
    BY <1>5, Zenon DEF ProcessInPlace, ProcessTask, Goto, Moves, ProcessStep
  <2>2. QED
    BY <2>1 DEF ClassifiedStep
<1>6. CASE DecrementInPlace(t)
  <2>1. SettleStep(t)
    BY <1>6, Zenon DEF DecrementInPlace, DecrementPending, Goto, locals, Moves, SettleStep
  <2>2. QED
    BY <2>1 DEF ClassifiedStep
<1>7. CASE SampleFrames(t)
  <2>1. QuietStep(t)
    BY <1>7, Zenon DEF SampleFrames, Goto, taskVars, Moves, QuietStep
  <2>2. QED
    BY <2>1 DEF ClassifiedStep
<1>8. CASE UnlockInPlace(t)
  <2>1. ReleaseStep(t)
    BY <1>8, Zenon DEF UnlockInPlace, UnlockPipeline, Goto, locals, taskVars, Moves, ReleaseStep
  <2>2. QED
    BY <2>1 DEF ClassifiedStep
<1>9. CASE RecheckPending(t)
  <2>1. QuietStep(t)
    BY <1>9, Zenon DEF RecheckPending, Goto, Call, taskVars, Moves, QuietStep
  <2>2. QED
    BY <2>1 DEF ClassifiedStep
<1>10. CASE PushBack(t)
  <2>1. EnqueueStep(t)
    BY <1>10, Zenon DEF PushBack, Goto, Moves, EnqueueStep
  <2>2. QED
    BY <2>1 DEF ClassifiedStep
<1>11. CASE LinkPushed(t)
  <2>1. QuietStep(t)
    BY <1>11, ReturnOutside, Zenon DEF LinkPushed, Return, locals, Moves, QuietStep
  <2>2. QED
    BY <2>1 DEF ClassifiedStep
<1>12. CASE AskForProcessing(t)
  <2>1. QuietStep(t)
    BY <1>12, Zenon DEF AskForProcessing, Goto, Call, locals, taskVars, Moves, QuietStep
  <2>2. QED
    BY <2>1 DEF ClassifiedStep
<1>13. CASE Leave(t)
  <2>1. QuietStep(t)
    BY <1>13, Zenon DEF Leave, Goto, locals, taskVars, Moves, QuietStep
  <2>2. QED
    BY <2>1 DEF ClassifiedStep
<1>14. CASE Renew(t)
  <2>1. RenewStep(t)
    BY <1>14, Zenon DEF Renew, Goto, locals, Moves, RenewStep
  <2>2. QED
    BY <2>1 DEF ClassifiedStep
<1>15. QED
  BY <1>1, <1>2, <1>3, <1>4, <1>5, <1>6, <1>7, <1>8, <1>9, <1>10, <1>11, <1>12, <1>13, <1>14 DEF Client

(* The steps of schedule_async_task_processing_() and cancel_async_task_processing_(). *)
LEMMA AsyncClassified ==
    ASSUME ControlTypes, NEW th \in Threads, AsyncProcessing(th)
    PROVE  ClassifiedStep(th)
<1>0. th \in Threads
  BY ConstAssumption DEF Threads
<1> USE <1>0, AsyncRoles, LandsAt, CallerLabels
<1>1. CASE AsyncLoadDeadline(th)
  <2>1. QuietStep(th)
    BY <1>1, ReturnOutside, Zenon DEF AsyncLoadDeadline, Goto, Return, locals, taskVars, Moves,
        QuietStep
  <2>2. QED
    BY <2>1 DEF ClassifiedStep
<1>2. CASE AsyncTryLock(th)
  <2>1. QuietStep(th)
    BY <1>2, ReturnOutside, Zenon DEF AsyncTryLock, Goto, Return, locals, taskVars, Moves,
        QuietStep
  <2>2. QED
    BY <2>1 DEF ClassifiedStep
<1>3. CASE AsyncTest(th)
  <2>1. QuietStep(th)
    BY <1>3, Zenon DEF AsyncTest, Goto, locals, taskVars, Moves, QuietStep
  <2>2. QED
    BY <2>1 DEF ClassifiedStep
<1>4. CASE AsyncCall(th)
  <2>1. QuietStep(th)
    BY <1>4, Zenon DEF AsyncCall, Goto, locals, taskVars, Moves, QuietStep
  <2>2. QED
    BY <2>1 DEF ClassifiedStep
<1>5. CASE AsyncSetScheduled(th)
  <2>1. QuietStep(th)
    BY <1>5, Zenon DEF AsyncSetScheduled, Goto, locals, taskVars, Moves, QuietStep
  <2>2. QED
    BY <2>1 DEF ClassifiedStep
<1>6. CASE AsyncUnlock(th)
  <2>1. QuietStep(th)
    BY <1>6, Zenon DEF AsyncUnlock, Goto, locals, taskVars, Moves, QuietStep
  <2>2. QED
    BY <2>1 DEF ClassifiedStep
<1>7. CASE AsyncCheckFrames(th)
  <2>1. QuietStep(th)
    BY <1>7, ReturnOutside, Zenon DEF AsyncCheckFrames, Goto, Return, locals, taskVars, Moves,
        QuietStep
  <2>2. QED
    BY <2>1 DEF ClassifiedStep
<1>8. CASE CancelTryLock(th)
  <2>1. QuietStep(th)
    BY <1>8, ReturnOutside, Zenon DEF CancelTryLock, Goto, Return, locals, taskVars, Moves,
        QuietStep
  <2>2. QED
    BY <2>1 DEF ClassifiedStep
<1>9. CASE CancelTest(th)
  <2>1. QuietStep(th)
    BY <1>9, Zenon DEF CancelTest, Goto, locals, taskVars, Moves, QuietStep
  <2>2. QED
    BY <2>1 DEF ClassifiedStep
<1>10. CASE CancelCall(th)
  <2>1. QuietStep(th)
    BY <1>10, Zenon DEF CancelCall, Goto, locals, taskVars, Moves, QuietStep
  <2>2. QED
    BY <2>1 DEF ClassifiedStep
<1>11. CASE CancelSetNotScheduled(th)
  <2>1. QuietStep(th)
    BY <1>11, Zenon DEF CancelSetNotScheduled, Goto, locals, taskVars, Moves, QuietStep
  <2>2. QED
    BY <2>1 DEF ClassifiedStep
<1>12. CASE CancelUnlock(th)
  <2>1. QuietStep(th)
    BY <1>12, ReturnOutside, Zenon DEF CancelUnlock, Return, locals, taskVars, Moves, QuietStep
  <2>2. QED
    BY <2>1 DEF ClassifiedStep
<1>13. QED
  BY <1>1, <1>2, <1>3, <1>4, <1>5, <1>6, <1>7, <1>8, <1>9, <1>10, <1>11, <1>12 DEF AsyncProcessing

(* The steps of process_tasks(). *)
LEMMA WorkerClassified ==
    ASSUME ControlTypes, ProcessTasks
    PROVE  ClassifiedStep(Worker)
<1>0. Worker \in Threads \ Tasks
  BY ConstAssumption DEF Threads
<1> USE <1>0, WorkerRoles, LandsAt, CallerLabels
<1>1. CASE InvokeProcessTasks
  <2>1. QuietStep(Worker)
    BY <1>1, Zenon DEF InvokeProcessTasks, Goto, locals, taskVars, Moves, QuietStep
  <2>2. QED
    BY <2>1 DEF ClassifiedStep
<1>2. CASE WorkerLoadDeadline
  <2>1. QuietStep(Worker)
    BY <1>2, Zenon DEF WorkerLoadDeadline, Goto, locals, taskVars, Moves, QuietStep
  <2>2. QED
    BY <2>1 DEF ClassifiedStep
<1>3. CASE WorkerTryLock
  <2>1. AcquireStep(Worker) \/ QuietStep(Worker)
    BY <1>3, Zenon DEF WorkerTryLock, Goto, locals, taskVars, Moves, AcquireStep, QuietStep
  <2>2. QED
    BY <2>1 DEF ClassifiedStep
<1>4. CASE WorkerSetRunning
  <2>1. QuietStep(Worker)
    BY <1>4, Zenon DEF WorkerSetRunning, Goto, locals, taskVars, Moves, QuietStep
  <2>2. QED
    BY <2>1 DEF ClassifiedStep
<1>5. CASE WorkerCheckAllowed
  <2>1. QuietStep(Worker)
    BY <1>5, Zenon DEF WorkerCheckAllowed, Goto, locals, taskVars, Moves, QuietStep
  <2>2. QED
    BY <2>1 DEF ClassifiedStep
<1>6. CASE WorkerSampleFrames
  <2>1. QuietStep(Worker)
    BY <1>6, Zenon DEF WorkerSampleFrames, Goto, taskVars, Moves, QuietStep
  <2>2. QED
    BY <2>1 DEF ClassifiedStep
<1>7. CASE WorkerPop
  <2>1. DequeueStep(Worker) \/ QuietStep(Worker)
    BY <1>7, Zenon DEF WorkerPop, TryPop, Goto, CanPop, Moves, DequeueStep, QuietStep
  <2>2. QED
    BY <2>1 DEF ClassifiedStep
<1>8. CASE WorkerProcess
  <2>1. ProcessStep(Worker)
    BY <1>8, Zenon DEF WorkerProcess, ProcessTask, Goto, Moves, ProcessStep
  <2>2. QED
    BY <2>1 DEF ClassifiedStep
<1>9. CASE WorkerDecrement
  <2>1. SettleStep(Worker)
    BY <1>9, Zenon DEF WorkerDecrement, DecrementPending, Goto, locals, Moves, SettleStep
  <2>2. QED
    BY <2>1 DEF ClassifiedStep
<1>10. CASE WorkerUnlock
  <2>1. ReleaseStep(Worker)
    BY <1>10, Zenon DEF WorkerUnlock, UnlockPipeline, Goto, locals, taskVars, Moves, ReleaseStep
  <2>2. QED
    BY <2>1 DEF ClassifiedStep
<1>11. CASE WorkerRecheckPending
  <2>1. QuietStep(Worker)
    BY <1>11, Zenon DEF WorkerRecheckPending, Goto, taskVars, Moves, QuietStep
  <2>2. QED
    BY <2>1 DEF ClassifiedStep
<1>12. CASE WorkerReset
  <2>1. QuietStep(Worker)
    BY <1>12, Zenon DEF WorkerReset, Goto, Call, taskVars, Moves, QuietStep
  <2>2. QED
    BY <2>1 DEF ClassifiedStep
<1>13. QED
  BY <1>1, <1>2, <1>3, <1>4, <1>5, <1>6, <1>7, <1>8, <1>9, <1>10, <1>11, <1>12 DEF ProcessTasks

(* The steps of process_subframes_and_tasks(). *)
LEMMA FrameClassified ==
    ASSUME ControlTypes, StartFrame \/ ProcessFrame
    PROVE  ClassifiedStep(Framer)
<1>0. Framer \in Threads \ Tasks
  BY ConstAssumption DEF Threads
<1> USE <1>0, FrameRoles, LandsAt, CallerLabels
<1>1. CASE StartFrame
  <2>1. QuietStep(Framer)
    BY <1>1, Zenon DEF StartFrame, Call, locals, taskVars, Moves, QuietStep
  <2>2. QED
    BY <2>1 DEF ClassifiedStep
<1>2. CASE FrameLock
  <2>1. AcquireStep(Framer)
    BY <1>2, Zenon DEF FrameLock, Goto, locals, taskVars, Moves, AcquireStep
  <2>2. QED
    BY <2>1 DEF ClassifiedStep
<1>3. CASE FrameSimple
  <2>1. QuietStep(Framer)
    BY <1>3, Zenon DEF FrameSimple, Goto, locals, taskVars, Moves, QuietStep
  <2>2. QED
    BY <2>1 DEF ClassifiedStep
<1>4. CASE FrameSubframe
  <2>1. QuietStep(Framer)
    BY <1>4, Zenon DEF FrameSubframe, Goto, locals, taskVars, Moves, QuietStep
  <2>2. QED
    BY <2>1 DEF ClassifiedStep
<1>5. CASE BeginStoreDeadline
  <2>1. QuietStep(Framer)
    BY <1>5, Zenon DEF BeginStoreDeadline, Goto, locals, taskVars, Moves, QuietStep
  <2>2. QED
    BY <2>1 DEF ClassifiedStep
<1>6. CASE EndStoreDeadline
  <2>1. QuietStep(Framer)
    BY <1>6, Zenon DEF EndStoreDeadline, Goto, locals, taskVars, Moves, QuietStep
  <2>2. QED
    BY <2>1 DEF ClassifiedStep
<1>7. CASE FrameStartTasks
  <2>1. QuietStep(Framer)
    BY <1>7, Zenon DEF FrameStartTasks, Goto, locals, taskVars, Moves, QuietStep
  <2>2. QED
    BY <2>1 DEF ClassifiedStep
<1>8. CASE FramePop
  <2>1. DequeueStep(Framer) \/ QuietStep(Framer)
    BY <1>8, Zenon DEF FramePop, TryPop, Goto, CanPop, Moves, DequeueStep, QuietStep
  <2>2. QED
    BY <2>1 DEF ClassifiedStep
<1>9. CASE FrameProcess
  <2>1. ProcessStep(Framer)
    BY <1>9, Zenon DEF FrameProcess, ProcessTask, Goto, Moves, ProcessStep
  <2>2. QED
    BY <2>1 DEF ClassifiedStep
<1>10. CASE FrameDecrement
  <2>1. SettleStep(Framer)
    BY <1>10, Zenon DEF FrameDecrement, DecrementPending, Goto, locals, Moves, SettleStep
  <2>2. QED
    BY <2>1 DEF ClassifiedStep
<1>11. CASE FrameTasksAllowed
  <2>1. QuietStep(Framer)
    BY <1>11, Zenon DEF FrameTasksAllowed, Goto, locals, taskVars, Moves, QuietStep
  <2>2. QED
    BY <2>1 DEF ClassifiedStep
<1>12. CASE FrameTasksTimeUp
  <2>1. QuietStep(Framer)
    BY <1>12, Zenon DEF FrameTasksTimeUp, Goto, locals, taskVars, Moves, QuietStep
  <2>2. QED
    BY <2>1 DEF ClassifiedStep
<1>13. CASE FrameNext
  <2>1. QuietStep(Framer)
    BY <1>13, Zenon DEF FrameNext, Goto, locals, taskVars, Moves, QuietStep
  <2>2. QED
    BY <2>1 DEF ClassifiedStep
<1>14. CASE ReportStats
  <2>1. QuietStep(Framer)
    BY <1>14, Zenon DEF ReportStats, Goto, locals, taskVars, Moves, QuietStep
  <2>2. QED
    BY <2>1 DEF ClassifiedStep
<1>15. CASE ReportStatsEnd
  <2>1. QuietStep(Framer)
    BY <1>15, Zenon DEF ReportStatsEnd, Goto, locals, taskVars, Moves, QuietStep
  <2>2. QED
    BY <2>1 DEF ClassifiedStep
<1>16. CASE BeginStoreTid
  <2>1. QuietStep(Framer)
    BY <1>16, Zenon DEF BeginStoreTid, Goto, locals, taskVars, Moves, QuietStep
  <2>2. QED
    BY <2>1 DEF ClassifiedStep
<1>17. CASE EndStoreTid
  <2>1. QuietStep(Framer)
    BY <1>17, Zenon DEF EndStoreTid, Goto, locals, taskVars, Moves, QuietStep
  <2>2. QED
    BY <2>1 DEF ClassifiedStep
<1>18. CASE FrameUnlock
  <2>1. ReleaseStep(Framer)
    BY <1>18, Zenon DEF FrameUnlock, UnlockPipeline, Goto, locals, taskVars, Moves, ReleaseStep
  <2>2. QED
    BY <2>1 DEF ClassifiedStep
<1>19. CASE FrameLeave
  <2>1. QuietStep(Framer)
    BY <1>19, Zenon DEF FrameLeave, Goto, locals, taskVars, Moves, QuietStep
  <2>2. QED
    BY <2>1 DEF ClassifiedStep
<1>20. CASE FrameRecheckPending
  <2>1. QuietStep(Framer)
    BY <1>20, Zenon DEF FrameRecheckPending, Goto, Call, locals, taskVars, Moves, QuietStep
  <2>2. QED
    BY <2>1 DEF ClassifiedStep
<1>21. QED
  BY <1>1, <1>2, <1>3, <1>4, <1>5, <1>6, <1>7, <1>8, <1>9, <1>10, <1>11, <1>12, <1>13, <1>14,
        <1>15, <1>16, <1>17, <1>18, <1>19, <1>20 DEF ProcessFrame

-----------------------------------------------------------------------------
(* The variables that the ledger does not see. *)
DataTypes ==
    /\ sem \subseteq Tasks /\ unlinked \subseteq Tasks
    /\ procState \in {"NotScheduled", "Scheduled", "Running"}
    /\ schedMutex \in Threads \cup {None}
    /\ requested \in BOOLEAN /\ frameTid \in BOOLEAN
    /\ storing \in {"none", "tid", "deadline"}
    /\ sampledFrames \in [Threads -> {0, 1}]
    /\ needResched \in BOOLEAN

(* The control states of a frame being processed, and those that follow a subframe. *)
FrameLabels == {"f_lock", "f_subframe", "f_deadline", "f_deadline_end", "f_tasks", "f_pop",
                "f_exec", "f_decr", "f_allowed", "f_next", "f_report", "f_report_end", "f_tid",
                "f_tid_end", "f_unlock", "f_leave"}
AfterSubframe == {"f_deadline", "f_deadline_end", "f_tasks", "f_pop", "f_exec", "f_decr",
                  "f_allowed", "f_next"}

InFrame ==
    \/ pc[Framer] \in FrameLabels
    \/ pc[Framer] \in AsyncLabels /\ ret[Framer] = "f_lock"

(* pending_frames_ counts the frame of the frame thread, from before it asks for
   pipeline_mutex_ until after it released it. *)
FrameCount == pendingFrames = IF InFrame THEN 1 ELSE 0

(* A subframe starts inside the frame; a frame that is not split has one. *)
FramePos ==
    /\ frame \in [pos : 0 .. FrameLen, ok : BOOLEAN, samples : Nat, enough : BOOLEAN]
    /\ SubframeLen = 0 => frame.pos \in {0, FrameLen}
    /\ pc[Framer] \notin AfterSubframe => frame.pos < FrameLen

FrameInv == FrameCount /\ FramePos


(* The data of the steps of schedule() and schedule_and_wait(), ... *)
LEMMA ClientData ==
    ASSUME DataTypes, pendingFrames \in {0, 1}, NEW t \in Tasks,
           Schedule(t) \/ Client(t) \/ Renew(t)
    PROVE  DataTypes' /\ UNCHANGED <<pendingFrames, frame>>
<1>0. t \in Threads
  BY ConstAssumption DEF Threads
<1> USE <1>0 DEF DataTypes
<1>1. ASSUME Schedule(t) PROVE DataTypes' /\ UNCHANGED <<pendingFrames, frame>>
  BY <1>1 DEF Schedule, schedVars, frameVars
<1>2. ASSUME LoadDeadline(t) PROVE DataTypes' /\ UNCHANGED <<pendingFrames, frame>>
  BY <1>2 DEF LoadDeadline, locals, taskVars, schedVars, frameVars
<1>3. ASSUME CheckAllowed(t) PROVE DataTypes' /\ UNCHANGED <<pendingFrames, frame>>
  BY <1>3 DEF CheckAllowed, locals, taskVars, schedVars, frameVars
<1>4. ASSUME TryLockPipeline(t) PROVE DataTypes' /\ UNCHANGED <<pendingFrames, frame>>
  BY <1>4 DEF TryLockPipeline, locals, taskVars, schedVars, frameVars
<1>5. ASSUME ProcessInPlace(t) PROVE DataTypes' /\ UNCHANGED <<pendingFrames, frame>>
  BY <1>5 DEF ProcessInPlace, ProcessTask, schedVars, frameVars
<1>6. ASSUME DecrementInPlace(t) PROVE DataTypes' /\ UNCHANGED <<pendingFrames, frame>>
  BY <1>6 DEF DecrementInPlace, DecrementPending, locals, schedVars, frameVars
<1>7. ASSUME SampleFrames(t) PROVE DataTypes' /\ UNCHANGED <<pendingFrames, frame>>
  BY <1>7 DEF SampleFrames, taskVars, schedVars, frameVars
<1>8. ASSUME UnlockInPlace(t) PROVE DataTypes' /\ UNCHANGED <<pendingFrames, frame>>
  BY <1>8 DEF UnlockInPlace, UnlockPipeline, locals, taskVars, schedVars, frameVars
<1>9. ASSUME RecheckPending(t) PROVE DataTypes' /\ UNCHANGED <<pendingFrames, frame>>
  BY <1>9 DEF RecheckPending, taskVars, schedVars, frameVars
<1>10. ASSUME PushBack(t) PROVE DataTypes' /\ UNCHANGED <<pendingFrames, frame>>
  BY <1>10 DEF PushBack, schedVars, frameVars
<1>11. ASSUME LinkPushed(t) PROVE DataTypes' /\ UNCHANGED <<pendingFrames, frame>>
  BY <1>11 DEF LinkPushed, locals, schedVars, frameVars
<1>12. ASSUME AskForProcessing(t) PROVE DataTypes' /\ UNCHANGED <<pendingFrames, frame>>
  BY <1>12 DEF AskForProcessing, locals, taskVars, schedVars, frameVars
<1>13. ASSUME Leave(t) PROVE DataTypes' /\ UNCHANGED <<pendingFrames, frame>>
  BY <1>13 DEF Leave, locals, taskVars, schedVars, frameVars
<1>14. ASSUME Renew(t) PROVE DataTypes' /\ UNCHANGED <<pendingFrames, frame>>
  BY <1>14 DEF Renew, locals, schedVars, frameVars
<1>15. QED
  BY <1>1, <1>2, <1>3, <1>4, <1>5, <1>6, <1>7, <1>8, <1>9, <1>10, <1>11, <1>12, <1>13, <1>14 DEF Client

(* ... of the subroutines, ... *)
LEMMA AsyncData ==
    ASSUME DataTypes, pendingFrames \in {0, 1}, NEW th \in Threads,
           AsyncProcessing(th)
    PROVE  DataTypes' /\ UNCHANGED <<pendingFrames, frame>>
<1>0. th \in Threads
  BY ConstAssumption DEF Threads
<1> USE <1>0 DEF DataTypes
<1>1. ASSUME AsyncLoadDeadline(th) PROVE DataTypes' /\ UNCHANGED <<pendingFrames, frame>>
  BY <1>1 DEF AsyncLoadDeadline, locals, taskVars, schedVars, frameVars
<1>2. ASSUME AsyncTryLock(th) PROVE DataTypes' /\ UNCHANGED <<pendingFrames, frame>>
  BY <1>2 DEF AsyncTryLock, locals, taskVars, frameVars
<1>3. ASSUME AsyncTest(th) PROVE DataTypes' /\ UNCHANGED <<pendingFrames, frame>>
  BY <1>3 DEF AsyncTest, locals, taskVars, schedVars, frameVars
<1>4. ASSUME AsyncCall(th) PROVE DataTypes' /\ UNCHANGED <<pendingFrames, frame>>
  BY <1>4 DEF AsyncCall, locals, taskVars, frameVars
<1>5. ASSUME AsyncSetScheduled(th) PROVE DataTypes' /\ UNCHANGED <<pendingFrames, frame>>
  BY <1>5 DEF AsyncSetScheduled, locals, taskVars, frameVars
<1>6. ASSUME AsyncUnlock(th) PROVE DataTypes' /\ UNCHANGED <<pendingFrames, frame>>
  BY <1>6 DEF AsyncUnlock, locals, taskVars, frameVars
<1>7. ASSUME AsyncCheckFrames(th) PROVE DataTypes' /\ UNCHANGED <<pendingFrames, frame>>
  BY <1>7 DEF AsyncCheckFrames, locals, taskVars, schedVars, frameVars
<1>8. ASSUME CancelTryLock(th) PROVE DataTypes' /\ UNCHANGED <<pendingFrames, frame>>
  BY <1>8 DEF CancelTryLock, locals, taskVars, frameVars
<1>9. ASSUME CancelTest(th) PROVE DataTypes' /\ UNCHANGED <<pendingFrames, frame>>
  BY <1>9 DEF CancelTest, locals, taskVars, schedVars, frameVars
<1>10. ASSUME CancelCall(th) PROVE DataTypes' /\ UNCHANGED <<pendingFrames, frame>>
  BY <1>10, Zenon DEF CancelCall, locals, taskVars, frameVars
<1>11. ASSUME CancelSetNotScheduled(th) PROVE DataTypes' /\ UNCHANGED <<pendingFrames, frame>>
  BY <1>11 DEF CancelSetNotScheduled, locals, taskVars, frameVars
<1>12. ASSUME CancelUnlock(th) PROVE DataTypes' /\ UNCHANGED <<pendingFrames, frame>>
  BY <1>12 DEF CancelUnlock, locals, taskVars, frameVars
<1>13. QED
  BY <1>1, <1>2, <1>3, <1>4, <1>5, <1>6, <1>7, <1>8, <1>9, <1>10, <1>11, <1>12 DEF AsyncProcessing

(* ... of process_tasks(), ... *)
LEMMA WorkerData ==
    ASSUME DataTypes, pendingFrames \in {0, 1}, ProcessTasks
    PROVE  DataTypes' /\ UNCHANGED <<pendingFrames, frame>>
<1>0. Worker \in Threads
  BY ConstAssumption DEF Threads
<1> USE <1>0 DEF DataTypes
<1>1. ASSUME InvokeProcessTasks PROVE DataTypes' /\ UNCHANGED <<pendingFrames, frame>>
  BY <1>1, Zenon DEF InvokeProcessTasks, locals, taskVars, frameVars
<1>2. ASSUME WorkerLoadDeadline PROVE DataTypes' /\ UNCHANGED <<pendingFrames, frame>>
  BY <1>2 DEF WorkerLoadDeadline, locals, taskVars, schedVars, frameVars
<1>3. ASSUME WorkerTryLock PROVE DataTypes' /\ UNCHANGED <<pendingFrames, frame>>
  BY <1>3 DEF WorkerTryLock, locals, taskVars, schedVars, frameVars
<1>4. ASSUME WorkerSetRunning PROVE DataTypes' /\ UNCHANGED <<pendingFrames, frame>>
  BY <1>4 DEF WorkerSetRunning, locals, taskVars, frameVars
<1>5. ASSUME WorkerCheckAllowed PROVE DataTypes' /\ UNCHANGED <<pendingFrames, frame>>
  BY <1>5 DEF WorkerCheckAllowed, locals, taskVars, schedVars, frameVars
<1>6. ASSUME WorkerSampleFrames PROVE DataTypes' /\ UNCHANGED <<pendingFrames, frame>>
  BY <1>6 DEF WorkerSampleFrames, taskVars, schedVars, frameVars
<1>7. ASSUME WorkerPop PROVE DataTypes' /\ UNCHANGED <<pendingFrames, frame>>
  BY <1>7 DEF WorkerPop, TryPop, schedVars, frameVars
<1>8. ASSUME WorkerProcess PROVE DataTypes' /\ UNCHANGED <<pendingFrames, frame>>
  BY <1>8, ConstAssumption DEF WorkerProcess, ProcessTask, schedVars, frameVars
<1>9. ASSUME WorkerDecrement PROVE DataTypes' /\ UNCHANGED <<pendingFrames, frame>>
  BY <1>9 DEF WorkerDecrement, DecrementPending, locals, schedVars, frameVars
<1>10. ASSUME WorkerUnlock PROVE DataTypes' /\ UNCHANGED <<pendingFrames, frame>>
  BY <1>10 DEF WorkerUnlock, UnlockPipeline, locals, taskVars, schedVars, frameVars
<1>11. ASSUME WorkerRecheckPending PROVE DataTypes' /\ UNCHANGED <<pendingFrames, frame>>
  BY <1>11 DEF WorkerRecheckPending, taskVars, schedVars, frameVars
<1>12. ASSUME WorkerReset PROVE DataTypes' /\ UNCHANGED <<pendingFrames, frame>>
  BY <1>12, Zenon DEF WorkerReset, taskVars, frameVars
<1>13. QED
  BY <1>1, <1>2, <1>3, <1>4, <1>5, <1>6, <1>7, <1>8, <1>9, <1>10, <1>11, <1>12 DEF ProcessTasks

(* ... and of process_subframes_and_tasks(). *)
LEMMA FrameData ==
    ASSUME DataTypes, pendingFrames \in {0, 1}, StartFrame \/ ProcessFrame
    PROVE  DataTypes'
<1>0. Framer \in Threads
  BY ConstAssumption DEF Threads
<1> USE <1>0 DEF DataTypes
<1>1. ASSUME StartFrame PROVE DataTypes'
  BY <1>1 DEF StartFrame, locals, taskVars, schedVars
<1>2. ASSUME FrameLock PROVE DataTypes'
  BY <1>2 DEF FrameLock, locals, taskVars, schedVars, frameVars
<1>3. ASSUME FrameSimple PROVE DataTypes'
  BY <1>3 DEF FrameSimple, locals, taskVars, schedVars, frameVars
<1>4. ASSUME FrameSubframe PROVE DataTypes'
  BY <1>4 DEF FrameSubframe, locals, taskVars, schedVars
<1>5. ASSUME BeginStoreDeadline PROVE DataTypes'
  BY <1>5 DEF BeginStoreDeadline, locals, taskVars, schedVars
<1>6. ASSUME EndStoreDeadline PROVE DataTypes'
  BY <1>6 DEF EndStoreDeadline, locals, taskVars, schedVars
<1>7. ASSUME FrameStartTasks PROVE DataTypes'
  BY <1>7 DEF FrameStartTasks, locals, taskVars, schedVars
<1>8. ASSUME FramePop PROVE DataTypes'
  BY <1>8 DEF FramePop, TryPop, schedVars, frameVars
<1>9. ASSUME FrameProcess PROVE DataTypes'
  BY <1>9, ConstAssumption DEF FrameProcess, ProcessTask, schedVars, frameVars
<1>10. ASSUME FrameDecrement PROVE DataTypes'
  BY <1>10 DEF FrameDecrement, DecrementPending, locals, schedVars, frameVars
<1>11. ASSUME FrameTasksAllowed PROVE DataTypes'
  BY <1>11 DEF FrameTasksAllowed, locals, taskVars, schedVars, frameVars
<1>12. ASSUME FrameTasksTimeUp PROVE DataTypes'
  BY <1>12 DEF FrameTasksTimeUp, locals, taskVars, schedVars, frameVars
<1>13. ASSUME FrameNext PROVE DataTypes'
  BY <1>13 DEF FrameNext, locals, taskVars, schedVars
<1>14. ASSUME ReportStats PROVE DataTypes'
  BY <1>14 DEF ReportStats, locals, taskVars, frameVars
<1>15. ASSUME ReportStatsEnd PROVE DataTypes'
  BY <1>15 DEF ReportStatsEnd, locals, taskVars, frameVars
<1>16. ASSUME BeginStoreTid PROVE DataTypes'
  BY <1>16 DEF BeginStoreTid, locals, taskVars, schedVars
<1>17. ASSUME EndStoreTid PROVE DataTypes'
  BY <1>17 DEF EndStoreTid, locals, taskVars, schedVars
<1>18. ASSUME FrameUnlock PROVE DataTypes'
  BY <1>18 DEF FrameUnlock, UnlockPipeline, locals, taskVars, schedVars, frameVars
<1>19. ASSUME FrameLeave PROVE DataTypes'
  BY <1>19 DEF FrameLeave, locals, taskVars, schedVars
<1>20. ASSUME FrameRecheckPending PROVE DataTypes'
  BY <1>20 DEF FrameRecheckPending, locals, taskVars, schedVars, frameVars
<1>21. QED
  BY <1>1, <1>2, <1>3, <1>4, <1>5, <1>6, <1>7, <1>8, <1>9, <1>10, <1>11, <1>12, <1>13, <1>14,
        <1>15, <1>16, <1>17, <1>18, <1>19, <1>20, Zenon DEF ProcessFrame

-----------------------------------------------------------------------------
(* The control states of the frame thread and of the subroutines it calls. *)
LEMMA FrameLabelFacts ==
    /\ FrameLabels \cap AsyncLabels = {} /\ AfterSubframe \cap AsyncLabels = {}
    /\ AfterSubframe \subseteq FrameLabels
    /\ FrameLabels \cap ReturnLabels = {"f_lock"} /\ "f_lock" \notin AfterSubframe
    /\ AsyncLabels \cap ReturnLabels = {}
    /\ "f_recheck" \notin FrameLabels \cup AsyncLabels
BY DEF FrameLabels, AsyncLabels, AfterSubframe, ReturnLabels

(* The subroutines stay inside or return to their caller. *)
LEMMA AsyncReturns ==
    ASSUME ControlTypes, NEW th \in Threads, AsyncProcessing(th)
    PROVE  /\ pc[th] \in AsyncLabels
           /\ \/ pc'[th] \in AsyncLabels /\ ret'[th] = ret[th]
              \/ pc'[th] = ret[th] /\ ret'[th] = "idle"
           /\ UNCHANGED <<pendingFrames, frame>>
BY DEF ControlTypes, AsyncProcessing, AsyncLabels, Goto, Return, frameVars,
       AsyncLoadDeadline, AsyncTryLock, AsyncTest, AsyncCall, AsyncSetScheduled, AsyncUnlock,
       AsyncCheckFrames, CancelTryLock, CancelTest, CancelCall, CancelSetNotScheduled, CancelUnlock

(* The steps of process_subframes_and_tasks() count the frame and stay inside it. *)
LEMMA FrameStep ==
    ASSUME ControlTypes, FrameInv, StartFrame \/ ProcessFrame
    PROVE  FrameInv'
<1>0. Framer \in Threads /\ FrameLen \in Nat \ {0} /\ SubframeLen \in Nat /\ MinSamples \in Nat
  BY ConstAssumption DEF Threads
<1> USE <1>0 DEF FrameInv
<1>1. CASE StartFrame
  <2>1. FrameCount'
    BY <1>1 DEF StartFrame, Call, ControlTypes, FrameCount, InFrame, FrameLabels, AsyncLabels
  <2>2. FramePos'
    BY <1>1 DEF StartFrame, Call, ControlTypes, FramePos, AfterSubframe
  <2>3. QED
    BY <2>1, <2>2
<1>2. CASE FrameLock
  BY <1>2 DEF FrameLock, Goto, frameVars, ControlTypes, FrameCount, InFrame, FramePos,
        FrameLabels, AfterSubframe
<1>3. CASE FrameSimple
  BY <1>3 DEF FrameSimple, Goto, frameVars, ControlTypes, FrameCount, InFrame, FramePos,
        FrameLabels, AfterSubframe
<1>4. CASE FrameSubframe
  <2>1. FrameCount'
    BY <1>4 DEF FrameSubframe, Goto, ControlTypes, FrameCount, InFrame, FrameLabels, AsyncLabels
  <2>2. FramePos'
    <3>1. frame.pos \in 0 .. FrameLen /\ frame.pos < FrameLen /\ frame.samples \in Nat
          /\ frame.enough \in BOOLEAN
      BY <1>4 DEF FrameSubframe, FramePos, AfterSubframe
    <3>2. pc'[Framer] \in AfterSubframe
      BY <1>4 DEF FrameSubframe, Goto, ControlTypes, AfterSubframe
    <3> DEFINE duration == IF SubframeLen # 0 THEN Smaller(FrameLen - frame.pos, SubframeLen)
                                              ELSE FrameLen
               total == IF frame.enough THEN frame.samples ELSE frame.samples + duration
    <3>3. PICK ok \in BOOLEAN :
            frame' = [pos |-> frame.pos + duration, ok |-> ok, samples |-> total,
                      enough |-> frame.enough \/ total >= MinSamples]
      BY <1>4 DEF FrameSubframe
    <3>4. /\ duration \in Nat /\ frame.pos + duration <= FrameLen
          /\ SubframeLen = 0 => frame.pos + duration = FrameLen
      BY <3>1 DEF FramePos, Smaller
    <3>5. total \in Nat
      BY <3>1, <3>4
    <3> HIDE DEF duration, total
    <3>6. QED
      BY <3>1, <3>2, <3>3, <3>4, <3>5 DEF FramePos
  <2>3. QED
    BY <2>1, <2>2
<1>5. CASE BeginStoreDeadline
  BY <1>5 DEF BeginStoreDeadline, Goto, ControlTypes, FrameCount, InFrame, FramePos, FrameLabels,
        AfterSubframe
<1>6. CASE EndStoreDeadline
  BY <1>6 DEF EndStoreDeadline, Goto, ControlTypes, FrameCount, InFrame, FramePos, FrameLabels,
        AfterSubframe
<1>7. CASE FrameStartTasks
  <2>1. FrameCount'
    BY <1>7 DEF FrameStartTasks, Goto, ControlTypes, FrameCount, InFrame, FrameLabels, AsyncLabels
  <2>2. FramePos'
    BY <1>7, Zenon DEF FrameStartTasks, Goto, ControlTypes, FramePos, AfterSubframe
  <2>3. QED
    BY <2>1, <2>2
<1>8. CASE FramePop
  BY <1>8 DEF FramePop, TryPop, Goto, frameVars, ControlTypes, FrameCount, InFrame, FramePos,
        FrameLabels, AfterSubframe
<1>9. CASE FrameProcess
  BY <1>9 DEF FrameProcess, ProcessTask, Goto, frameVars, ControlTypes, FrameCount, InFrame,
        FramePos, FrameLabels, AfterSubframe
<1>10. CASE FrameDecrement
  BY <1>10 DEF FrameDecrement, DecrementPending, Goto, frameVars, ControlTypes, FrameCount,
        InFrame, FramePos, FrameLabels, AfterSubframe
<1>11. CASE FrameTasksAllowed
  BY <1>11 DEF FrameTasksAllowed, Goto, frameVars, ControlTypes, FrameCount, InFrame, FramePos,
        FrameLabels, AfterSubframe
<1>12. CASE FrameTasksTimeUp
  BY <1>12 DEF FrameTasksTimeUp, Goto, frameVars, ControlTypes, FrameCount, InFrame, FramePos,
        FrameLabels, AfterSubframe
<1>13. CASE FrameNext
  <2>1. FrameCount'
    BY <1>13 DEF FrameNext, Goto, ControlTypes, FrameCount, InFrame, FrameLabels, AsyncLabels
  <2>2. FramePos'
    <3>1. CASE ~frame.ok \/ frame.pos = FrameLen
      <4>1. frame' = [frame EXCEPT !.pos = 0, !.ok = TRUE]
        BY <1>13, <3>1, Zenon DEF FrameNext
      <4>2. frame' = [pos |-> 0, ok |-> TRUE, samples |-> frame.samples, enough |-> frame.enough]
        BY <4>1, Zenon DEF FramePos
      <4>3. QED
        BY <4>2 DEF FramePos
    <3>2. CASE ~(~frame.ok \/ frame.pos = FrameLen)
      <4>1. frame' = [frame EXCEPT !.ok = TRUE]
        BY <1>13, <3>2, Zenon DEF FrameNext, FramePos
      <4>2. frame' = [pos |-> frame.pos, ok |-> TRUE, samples |-> frame.samples,
                      enough |-> frame.enough]
        BY <4>1, Zenon DEF FramePos
      <4>3. frame.pos \in 0 .. FrameLen /\ frame.pos < FrameLen
        BY <3>2 DEF FramePos
      <4>4. QED
        BY <4>2, <4>3 DEF FramePos
    <3>3. QED
      BY <3>1, <3>2
  <2>3. QED
    BY <2>1, <2>2
<1>14. CASE ReportStats
  BY <1>14 DEF ReportStats, Goto, frameVars, ControlTypes, FrameCount, InFrame, FramePos,
        FrameLabels, AfterSubframe
<1>15. CASE ReportStatsEnd
  BY <1>15 DEF ReportStatsEnd, Goto, frameVars, ControlTypes, FrameCount, InFrame, FramePos,
        FrameLabels, AfterSubframe
<1>16. CASE BeginStoreTid
  BY <1>16 DEF BeginStoreTid, Goto, ControlTypes, FrameCount, InFrame, FramePos, FrameLabels,
        AfterSubframe
<1>17. CASE EndStoreTid
  BY <1>17 DEF EndStoreTid, Goto, ControlTypes, FrameCount, InFrame, FramePos, FrameLabels,
        AfterSubframe
<1>18. CASE FrameUnlock
  BY <1>18 DEF FrameUnlock, UnlockPipeline, Goto, frameVars, ControlTypes, FrameCount, InFrame,
        FramePos, FrameLabels, AfterSubframe
<1>19. CASE FrameLeave
  <2>1. FrameCount'
    <3>1. InFrame /\ pendingFrames = 1
      BY <1>19 DEF FrameLeave, FrameCount, InFrame, FrameLabels
    <3>2. pendingFrames' = 0 /\ pc'[Framer] = "f_recheck"
      BY <1>19, <3>1 DEF FrameLeave, Goto, ControlTypes
    <3> QED
      BY <3>2 DEF FrameCount, InFrame, FrameLabels, AsyncLabels
  <2>2. FramePos'
    BY <1>19 DEF FrameLeave, Goto, ControlTypes, FramePos, AfterSubframe
  <2>3. QED
    BY <2>1, <2>2
<1>20. CASE FrameRecheckPending
  <2>1. FrameCount'
    <3>1. ~InFrame
      BY <1>20 DEF FrameRecheckPending, InFrame, FrameLabels, AsyncLabels
    <3>2. /\ pc'[Framer] = "idle" \/ (pc'[Framer] = "a_load" /\ ret'[Framer] = "idle")
          /\ UNCHANGED pendingFrames
      BY <1>20 DEF FrameRecheckPending, Goto, Call, frameVars, ControlTypes
    <3> QED
      BY <3>1, <3>2 DEF FrameCount, InFrame, FrameLabels, AsyncLabels
  <2>2. FramePos'
    BY <1>20 DEF FrameRecheckPending, Goto, Call, frameVars, ControlTypes, FramePos, AfterSubframe
  <2>3. QED
    BY <2>1, <2>2
<1>21. QED
  BY <1>1, <1>2, <1>3, <1>4, <1>5, <1>6, <1>7, <1>8, <1>9, <1>10, <1>11, <1>12, <1>13, <1>14,
        <1>15, <1>16, <1>17, <1>18, <1>19, <1>20 DEF ProcessFrame

(* The steps of the other threads, and of the subroutines, keep the frame. *)
LEMMA OtherFrameStep ==
    ASSUME ControlTypes, FrameInv, NEW th \in Threads, ClassifiedStep(th),
           UNCHANGED <<pendingFrames, frame>>, th # Framer \/ AsyncProcessing(th)
    PROVE  FrameInv'
<1>0. Framer \in Threads
  BY DEF Threads
<1>1. CASE th # Framer
  <2>1. pc'[Framer] = pc[Framer] /\ ret'[Framer] = ret[Framer]
    BY <1>0, <1>1, ControlStep
  <2>2. QED
    BY <2>1 DEF FrameInv, FrameCount, InFrame, FramePos
<1>2. CASE th = Framer /\ AsyncProcessing(th)
  <2>1. /\ pc[Framer] \in AsyncLabels
        /\ \/ pc'[Framer] \in AsyncLabels /\ ret'[Framer] = ret[Framer]
           \/ pc'[Framer] = ret[Framer] /\ ret'[Framer] = "idle"
    BY <1>2, AsyncReturns
  <2>2. ret[Framer] \in ReturnLabels
    BY <1>0 DEF ControlTypes
  <2>3. FrameCount'
    BY <2>1, <2>2, FrameLabelFacts DEF FrameInv, FrameCount, InFrame
  <2>4. FramePos'
    BY <2>1, <2>2, FrameLabelFacts DEF FrameInv, FramePos
  <2>5. QED
    BY <2>3, <2>4 DEF FrameInv
<1>3. QED
  BY <1>1, <1>2

-----------------------------------------------------------------------------
(* Where the owner of a task that was processed in place is on its way to return,
   and where schedule_and_wait() has returned. *)
Returning(t) ==
    \/ pc[t] \in {"decr", "sample", "unlock", "recheck"}
    \/ pc[t] \in AsyncLabels /\ ret[t] = "done"
    \/ pc[t] = "done" /\ t \in Waiters

TaskTypes ==
    /\ taskState \in [Tasks -> {"new", "scheduled", "finished"}]
    /\ current \in [Threads -> Tasks \cup {None}]

(* A client that returns from processing in place, or whose semaphore was posted,
   has its task processed; one that queues its task does not return without
   waiting. *)
WaitInv ==
    /\ \A t \in Tasks : Returning(t) \/ t \in sem => taskState[t] = "finished"
    /\ \A t \in Tasks : pc[t] \in {"push", "link"} => ret[t] \in {"leave", "ask"}

(* A task stays finished until its owner renews it. *)
LEMMA FinishedStays ==
    ASSUME TaskTypes, NEW th \in Threads, ClassifiedStep(th), NEW u \in Tasks,
           taskState[u] = "finished"
    PROVE  taskState'[u] = "finished" \/ (th = u /\ RenewStep(u))
<1>0. taskState \in [Tasks -> {"new", "scheduled", "finished"}]
  BY DEF TaskTypes
<1>1. \/ UNCHANGED taskState
      \/ (\E t \in Tasks : taskState[t] = "new" /\ taskState' = [taskState EXCEPT ![t] = "scheduled"])
      \/ taskState' = [taskState EXCEPT ![current[th]] = "finished"]
      \/ th \in Tasks /\ RenewStep(th)
  BY Zenon DEF ClassifiedStep, QuietStep, AcquireStep, ReleaseStep, DequeueStep, ProcessStep,
         SettleStep, ScheduleStep, EnqueueStep
<1>2. CASE UNCHANGED taskState
  BY <1>2
<1>3. ASSUME NEW t \in Tasks, taskState[t] = "new",
             taskState' = [taskState EXCEPT ![t] = "scheduled"]
      PROVE  taskState'[u] = "finished"
  <2>1. t # u
    BY <1>3
  <2> QED
    BY <1>0, <1>3, <2>1
<1>4. CASE taskState' = [taskState EXCEPT ![current[th]] = "finished"]
  BY <1>0, <1>4
<1>5. CASE th \in Tasks /\ RenewStep(th)
  <2>1. CASE th = u
    BY <1>5, <2>1
  <2>2. CASE th # u
    BY <1>0, <1>5, <2>2 DEF RenewStep
  <2> QED
    BY <2>1, <2>2
<1> QED
  BY <1>1, <1>2, <1>3, <1>4, <1>5

(* A semaphore is posted for a task that was processed, and by nobody else. *)
LEMMA PostsAreForProcessed ==
    ASSUME TaskTypes, TaskInHand, [Next]_vars, NEW u \in sem', u \notin sem
    PROVE  taskState'[u] = "finished"
<1>0. /\ taskState \in [Tasks -> {"new", "scheduled", "finished"}]
      /\ current \in [Threads -> Tasks \cup {None}] /\ None \notin Threads
  BY ConstAssumption DEF TaskTypes, Threads
<1>1. ASSUME NEW th \in Threads, pc[th] \in HoldsTask, sem' \subseteq sem \cup {current[th]},
             taskState' = [taskState EXCEPT ![current[th]] = "finished"]
      PROVE  taskState'[u] = "finished"
  <2>1. current[th] \in Tasks
    BY <1>0, <1>1 DEF TaskInHand
  <2> QED
    BY <1>0, <1>1, <2>1
<1>2. /\ Framer \in Threads /\ Worker \in Threads /\ Tasks \subseteq Threads
      /\ "exec" \in HoldsTask /\ "w_exec" \in HoldsTask /\ "f_exec" \in HoldsTask
  BY DEF Threads, HoldsTask
<1>3. ASSUME NEW t \in Tasks, Schedule(t) \/ Client(t) \/ Renew(t)
      PROVE  taskState'[u] = "finished"
  <2>1. CASE ProcessInPlace(t)
    BY <1>1, <1>2, <2>1 DEF ProcessInPlace, ProcessTask
  <2>2. CASE Renew(t)
    BY <2>2 DEF Renew
  <2>3. ASSUME ~ProcessInPlace(t), ~Renew(t) PROVE UNCHANGED sem
    BY <1>3, <2>3, Zenon DEF Client, Schedule, LoadDeadline, CheckAllowed, TryLockPipeline,
           DecrementInPlace, DecrementPending, SampleFrames, UnlockInPlace, UnlockPipeline,
           RecheckPending, PushBack, LinkPushed, AskForProcessing, Leave, taskVars
  <2> QED
    BY <2>1, <2>2, <2>3
<1>4. ASSUME NEW th \in Threads, AsyncProcessing(th) PROVE UNCHANGED sem
  BY <1>4, Zenon DEF AsyncProcessing, taskVars,
       AsyncLoadDeadline, AsyncTryLock, AsyncTest, AsyncCall, AsyncSetScheduled, AsyncUnlock,
       AsyncCheckFrames, CancelTryLock, CancelTest, CancelCall, CancelSetNotScheduled, CancelUnlock
<1>5. ASSUME ProcessTasks PROVE taskState'[u] = "finished"
  <2>1. CASE WorkerProcess
    <3>1. /\ pc[Worker] = "w_exec" /\ sem' \subseteq sem \cup {current[Worker]}
          /\ taskState' = [taskState EXCEPT ![current[Worker]] = "finished"]
      BY <2>1 DEF WorkerProcess, ProcessTask
    <3> QED
      BY <1>1, <1>2, <3>1, Zenon
  <2>2. ASSUME ~WorkerProcess PROVE UNCHANGED sem
    BY <1>5, <2>2, Zenon DEF ProcessTasks, taskVars, InvokeProcessTasks, WorkerLoadDeadline,
           WorkerTryLock, WorkerSetRunning, WorkerCheckAllowed, WorkerSampleFrames, WorkerPop, TryPop,
           WorkerDecrement, DecrementPending, WorkerUnlock, UnlockPipeline, WorkerRecheckPending,
           WorkerReset
  <2> QED
    BY <2>1, <2>2
<1>6. ASSUME StartFrame \/ ProcessFrame PROVE taskState'[u] = "finished"
  <2>1. CASE FrameProcess
    <3>1. /\ pc[Framer] = "f_exec" /\ sem' \subseteq sem \cup {current[Framer]}
          /\ taskState' = [taskState EXCEPT ![current[Framer]] = "finished"]
      BY <2>1 DEF FrameProcess, ProcessTask
    <3> QED
      BY <1>1, <1>2, <3>1, Zenon
  <2>2. ASSUME ~FrameProcess PROVE UNCHANGED sem
    BY <1>6, <2>2, Zenon DEF StartFrame, ProcessFrame, taskVars, FrameLock, FrameSimple,
           FrameSubframe, BeginStoreDeadline, EndStoreDeadline, FrameStartTasks, FramePop, TryPop,
           FrameDecrement, DecrementPending, FrameTasksAllowed, FrameTasksTimeUp, FrameNext,
           ReportStats, ReportStatsEnd, BeginStoreTid, EndStoreTid, FrameUnlock, UnlockPipeline,
           FrameLeave, FrameRecheckPending
  <2> QED
    BY <2>1, <2>2
<1>7. CASE UNCHANGED vars
  BY <1>7 DEF vars, taskVars
<1> QED
  BY <1>3, <1>4, <1>5, <1>6, <1>7 DEF Next

(* What the steps of its owner do to a task's way back. *)
LEMMA OwnerStep ==
    ASSUME ControlTypes, WaitInv, NEW t \in Tasks,
           taskState \in [Tasks -> {"new", "scheduled", "finished"}],
           Schedule(t) \/ Client(t) \/ Renew(t) \/ AsyncProcessing(t),
           current[t] \in {t, None}, current[t] # None <=> pc[t] \in HoldsTask
    PROVE  /\ Returning(t)' => taskState'[t] = "finished"
           /\ pc'[t] \in {"push", "link"} => ret'[t] \in {"leave", "ask"}
<1>0. t \in Threads /\ pc \in [Threads -> Labels] /\ ret \in [Threads -> ReturnLabels]
  BY DEF Threads, ControlTypes
<1>a. Returning(t) => taskState[t] = "finished"
  BY DEF WaitInv
<1>b. pc[t] \in {"push", "link"} => ret[t] \in {"leave", "ask"}
  BY DEF WaitInv
<1>c. \A l \in {"idle", "load", "allowed", "trylock", "exec", "push", "link", "ask", "leave"} :
          l \notin AsyncLabels
  BY DEF AsyncLabels
<1> USE <1>0
<1>1. CASE Schedule(t)
  <2>1. pc'[t] = "load" \/ (pc'[t] = "push" /\ ret'[t] = "leave")
    BY <1>1 DEF Schedule, Goto, Call
  <2> QED
    BY <1>c, <2>1 DEF Returning
<1>2. CASE LoadDeadline(t)
  <2>1. pc'[t] = "allowed" \/ (pc'[t] = "push" /\ ret'[t] = "leave")
    BY <1>2, Zenon DEF LoadDeadline, Goto, Call
  <2> QED
    BY <1>c, <2>1 DEF Returning
<1>3. CASE CheckAllowed(t)
  <2>1. pc'[t] = "trylock" \/ (pc'[t] = "push" /\ ret'[t] = "ask")
    BY <1>3 DEF CheckAllowed, Goto, Call
  <2> QED
    BY <1>c, <2>1 DEF Returning
<1>4. CASE TryLockPipeline(t)
  <2>1. pc'[t] = "exec" \/ (pc'[t] = "push" /\ ret'[t] = "leave")
    BY <1>4 DEF TryLockPipeline, Goto, Call
  <2> QED
    BY <1>c, <2>1 DEF Returning
<1>5. CASE ProcessInPlace(t)
  <2>1. pc[t] = "exec" /\ pc'[t] = "decr" /\ taskState' = [taskState EXCEPT ![current[t]] = "finished"]
    BY <1>5 DEF ProcessInPlace, ProcessTask, Goto
  <2>2. current[t] = t
    BY <2>1 DEF HoldsTask
  <2> QED
    BY <2>1, <2>2
<1>6. CASE DecrementInPlace(t) \/ SampleFrames(t) \/ UnlockInPlace(t)
  <2>1. /\ pc[t] \in {"decr", "sample", "unlock"} /\ pc'[t] \in {"sample", "unlock", "recheck"}
        /\ UNCHANGED taskState
    BY <1>6 DEF DecrementInPlace, DecrementPending, SampleFrames, UnlockInPlace, UnlockPipeline,
                Goto, taskVars
  <2> QED
    BY <1>a, <2>1 DEF Returning
<1>7. CASE RecheckPending(t)
  <2>1. pc[t] = "recheck" /\ pc'[t] \in {"a_load", "done"} /\ UNCHANGED taskState
    BY <1>7, Zenon DEF RecheckPending, Goto, Call, taskVars
  <2> QED
    BY <1>a, <2>1 DEF Returning
<1>8. CASE PushBack(t)
  <2>1. pc[t] = "push" /\ pc'[t] = "link" /\ UNCHANGED ret
    BY <1>8 DEF PushBack, Goto
  <2> QED
    BY <1>b, <1>c, <2>1 DEF Returning
<1>9. CASE LinkPushed(t)
  <2>1. pc[t] = "link" /\ pc'[t] = ret[t]
    BY <1>9 DEF LinkPushed, Return
  <2> QED
    BY <1>b, <1>c, <2>1 DEF Returning
<1>10. CASE AskForProcessing(t)
  <2>1. pc'[t] = "leave" \/ (pc'[t] = "a_load" /\ ret'[t] = "leave")
    BY <1>10 DEF AskForProcessing, Goto, Call
  <2> QED
    BY <1>c, <2>1 DEF Returning
<1>11. CASE Leave(t)
  <2>1. pc'[t] = "done" /\ UNCHANGED taskState /\ (t \in Waiters => t \in sem)
    BY <1>11 DEF Leave, Goto, taskVars
  <2>2. t \in Waiters => taskState'[t] = "finished"
    BY <2>1 DEF WaitInv
  <2>3. "done" \notin AsyncLabels
    BY DEF AsyncLabels
  <2> QED
    BY <2>1, <2>2, <2>3 DEF Returning
<1>12. CASE Renew(t)
  <2>1. pc'[t] = "idle"
    BY <1>12 DEF Renew, Goto
  <2> QED
    BY <1>c, <2>1 DEF Returning
<1>13. CASE AsyncProcessing(t)
  <2>1. /\ pc[t] \in AsyncLabels
        /\ \/ pc'[t] \in AsyncLabels /\ ret'[t] = ret[t]
           \/ pc'[t] = ret[t] /\ ret'[t] = "idle"
    BY <1>13, AsyncReturns, Zenon
  <2>2. UNCHANGED taskState
    BY <1>13, Zenon DEF AsyncProcessing, taskVars,
       AsyncLoadDeadline, AsyncTryLock, AsyncTest, AsyncCall, AsyncSetScheduled, AsyncUnlock,
       AsyncCheckFrames, CancelTryLock, CancelTest, CancelCall, CancelSetNotScheduled, CancelUnlock
  <2>3. ret[t] \in ReturnLabels
    OBVIOUS
  <2>4. CASE pc'[t] \in AsyncLabels /\ ret'[t] = ret[t]
    <3>1. pc'[t] \notin {"decr", "sample", "unlock", "recheck", "done", "push", "link"}
      BY <2>4 DEF AsyncLabels
    <3> QED
      BY <1>a, <2>1, <2>2, <2>4, <3>1 DEF Returning
  <2>5. CASE pc'[t] = ret[t] /\ ret'[t] = "idle"
    <3>1. pc'[t] \notin {"decr", "sample", "unlock", "recheck", "push", "link"}
      BY <2>3, <2>5 DEF ReturnLabels
    <3>2. pc'[t] = "done" => taskState'[t] = "finished"
      BY <1>a, <2>1, <2>2, <2>5 DEF Returning
    <3> QED
      BY <2>5, <3>1, <3>2 DEF Returning
  <2> QED
    BY <2>1, <2>4, <2>5, Zenon
<1> QED
  BY <1>1, <1>2, <1>3, <1>4, <1>5, <1>6, <1>7, <1>8, <1>9, <1>10, <1>11, <1>12, <1>13, Zenon DEF Client

(* The other threads do not move the owner, and leave a finished task finished. *)
LEMMA WaitStep ==
    ASSUME ControlTypes, TaskTypes, TaskInHand, pendingFrames \in {0, 1}, WaitInv, [Next]_vars
    PROVE  WaitInv'
<1>0. /\ Tasks \subseteq Threads
      /\ Framer \in Threads \ Tasks /\ Worker \in Threads \ Tasks
      /\ taskState \in [Tasks -> {"new", "scheduled", "finished"}]
  BY ConstAssumption DEF Threads, TaskTypes
<1>2. ASSUME NEW th \in Threads, ClassifiedStep(th), NEW u \in Tasks, u # th
      PROVE  /\ Returning(u)' \/ u \in sem' => taskState'[u] = "finished"
             /\ pc'[u] \in {"push", "link"} => ret'[u] \in {"leave", "ask"}
  <2>1. pc'[u] = pc[u] /\ ret'[u] = ret[u]
    BY <1>0, <1>2, ControlStep
  <2>2. taskState[u] = "finished" => taskState'[u] = "finished"
    BY <1>0, <1>2, FinishedStays
  <2>3. Returning(u)' => taskState'[u] = "finished"
    BY <2>1, <2>2 DEF WaitInv, Returning
  <2>4. u \in sem' => taskState'[u] = "finished"
    BY <1>0, <2>2, PostsAreForProcessed DEF WaitInv
  <2> QED
    BY <2>1, <2>3, <2>4 DEF WaitInv
<1>3. ASSUME NEW t \in Tasks, Schedule(t) \/ Client(t) \/ Renew(t) \/ AsyncProcessing(t)
      PROVE  WaitInv'
  <2>1. ClassifiedStep(t)
    BY <1>0, <1>3, ClientClassified, AsyncClassified
  <2>2. /\ Returning(t)' => taskState'[t] = "finished"
        /\ pc'[t] \in {"push", "link"} => ret'[t] \in {"leave", "ask"}
    BY <1>0, <1>3, OwnerStep DEF TaskInHand
  <2>3. t \in sem' => taskState'[t] = "finished"
    <3>1. CASE t \in sem
      <4>1. taskState[t] = "finished"
        BY <3>1 DEF WaitInv
      <4>2. CASE Renew(t)
        BY <4>2 DEF Renew
      <4>3. CASE ProcessInPlace(t)
        BY <1>0, <4>1, <4>3 DEF ProcessInPlace, ProcessTask
      <4>4. CASE AsyncProcessing(t)
        BY <4>1, <4>4, Zenon DEF AsyncProcessing, taskVars, AsyncLoadDeadline, AsyncTryLock,
               AsyncTest, AsyncCall, AsyncSetScheduled, AsyncUnlock, AsyncCheckFrames,
               CancelTryLock, CancelTest, CancelCall, CancelSetNotScheduled, CancelUnlock
      <4>5. CASE Client(t) /\ ~ProcessInPlace(t)
        BY <4>1, <4>5, Zenon DEF Client, LoadDeadline, CheckAllowed, TryLockPipeline,
               DecrementInPlace, DecrementPending, SampleFrames, UnlockInPlace, UnlockPipeline,
               RecheckPending, PushBack, LinkPushed, AskForProcessing, Leave, taskVars
      <4>6. ~Schedule(t)
        BY <4>1 DEF Schedule
      <4> QED
        BY <1>3, <4>2, <4>3, <4>4, <4>5, <4>6
    <3>2. CASE t \notin sem
      BY <1>0, <3>2, PostsAreForProcessed
    <3> QED
      BY <3>1, <3>2
  <2> QED
    BY <1>0, <1>2, <2>1, <2>2, <2>3 DEF WaitInv
<1>4. ASSUME NEW th \in Threads \ Tasks, ClassifiedStep(th)
      PROVE  WaitInv'
  BY <1>2, <1>4 DEF WaitInv
<1>5. CASE UNCHANGED vars
  BY <1>5 DEF vars, control, taskVars, WaitInv, Returning
<1>6. ASSUME NEW th \in Threads, AsyncProcessing(th)
      PROVE  WaitInv'
  BY <1>0, <1>3, <1>4, <1>6, AsyncClassified
<1>7. ASSUME ProcessTasks
      PROVE  WaitInv'
  BY <1>0, <1>4, <1>7, WorkerClassified
<1>8. ASSUME StartFrame \/ ProcessFrame
      PROVE  WaitInv'
  BY <1>0, <1>4, <1>8, FrameClassified
<1> QED
  BY <1>3, <1>5, <1>6, <1>7, <1>8 DEF Next
=============================================================================
