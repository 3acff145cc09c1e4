---------------------------- MODULE PipelineLoop ----------------------------
(***************************************************************************)
(* roc_pipeline/pipeline_loop: frames and tasks compete for one pipeline.  *)
(*                                                                         *)
(* Every method runs on the thread of its caller: clients schedule tasks,  *)
(* one thread processes frames, and a worker invokes process_tasks() when  *)
(* the IPipelineTaskScheduler was asked to.  One action is one access to   *)
(* state another thread can see (an atomic, a seqlock, a mutex, the task   *)
(* queue), so the interleavings of the model are those of the code.        *)
(*                                                                         *)
(* The clock is not modelled: where the code compares the time with a      *)
(* deadline, either outcome is possible.                                   *)
(***************************************************************************)
EXTENDS Integers, Sequences, FiniteSets, Functions

CONSTANTS
    Tasks,          \* client threads; each has one task at a time, named after it
    Waiters,        \* clients that call schedule_and_wait(), the others call schedule()
    Repeating,      \* clients that schedule task after task, the others schedule one
    OnFrameThread,  \* clients that are the thread that also processes frames
    Framer,         \* the thread that processes frames
    Worker,         \* the thread that invokes process_tasks()
    None,           \* no thread, no task
    Precise,        \* config_.enable_precise_task_scheduling
    FrameLen,       \* frame_duration
    SubframeLen,    \* max_samples_between_tasks_, 0 if frames are not split
    MinSamples      \* min_samples_between_tasks_

ASSUME ConstAssumption ==
    /\ IsFiniteSet(Tasks)
    /\ Waiters \subseteq Tasks
    /\ Repeating \subseteq Tasks
    /\ OnFrameThread \subseteq Tasks
    /\ Framer \notin Tasks /\ Worker \notin Tasks /\ Framer # Worker
    /\ None \notin Tasks \cup {Framer, Worker}
    /\ Precise \in BOOLEAN
    /\ FrameLen \in Nat \ {0}
    /\ SubframeLen \in Nat
    /\ MinSamples \in Nat

VARIABLES
    pc, ret,            \* control state of every thread, and where a subroutine returns
    taskState,          \* PipelineTask::state_
    sem,                \* tasks whose semaphore was posted
    queue, unlinked,    \* task_queue_, and the pushes into it that are in progress
    pendingTasks,       \* pending_tasks_
    pendingFrames,      \* pending_frames_
    procState,          \* processing_state_
    pipelineMutex,      \* owner of pipeline_mutex_
    schedMutex,         \* owner of scheduler_mutex_
    requested,          \* the external scheduler has an invocation to make
    frameTid,           \* frame_processing_tid_: has the frame thread stored its id
    storing,            \* the seqlock that is being stored to, if any
    sampledFrames,      \* n_pending_frames of a thread
    current,            \* the task a thread is about to queue or to process
    needResched,        \* need_reschedule of the worker
    frame               \* locals of process_subframes_and_tasks and the fields only it uses

control == <<pc, ret>>
locals == <<sampledFrames, current, needResched>>
taskVars == <<taskState, sem, queue, unlinked, pendingTasks>>
schedVars == <<procState, schedMutex, requested>>
frameVars == <<frameTid, storing, pendingFrames, frame>>
vars == <<control, locals, taskVars, schedVars, frameVars, pipelineMutex>>

Threads == Tasks \cup {Framer, Worker}

Smaller(a, b) == IF a < b THEN a ELSE b

(* The thread moves on to control state l. *)
Goto(th, l) == pc' = [pc EXCEPT ![th] = l] /\ UNCHANGED ret

(* The thread enters a subroutine at l and will continue at r. *)
Call(th, l, r) == pc' = [pc EXCEPT ![th] = l] /\ ret' = [ret EXCEPT ![th] = r]

Return(th) == pc' = [pc EXCEPT ![th] = ret[th]] /\ ret' = [ret EXCEPT ![th] = "idle"]

Init ==
    /\ pc = [th \in Threads |-> "idle"]
    /\ ret = [th \in Threads |-> "idle"]
    /\ taskState = [t \in Tasks |-> "new"]
    /\ sem = {}
    /\ queue = <<>> /\ unlinked = {}
    /\ pendingTasks = 0 /\ pendingFrames = 0
    /\ procState = "NotScheduled"
    /\ pipelineMutex = None /\ schedMutex = None
    /\ requested = FALSE
    /\ frameTid = FALSE /\ storing = "none"
    /\ sampledFrames = [th \in Threads |-> 0]
    /\ current = [th \in Threads |-> None]
    /\ needResched = FALSE
    /\ frame = [pos |-> 0, ok |-> TRUE, samples |-> 0, enough |-> FALSE]

-----------------------------------------------------------------------------
(* interframe_task_processing_allowed_() may say no to thread th: never before the
   first frame and never on the frame thread, unless the thread id cannot be read
   because it is being stored; otherwise the clock decides. *)
InterframeMayProhibit(th) ==
    /\ Precise
    /\ storing = "tid" \/ (frameTid /\ th \notin OnFrameThread)

(* MpscQueue::try_pop_front_exclusive(): the oldest task, or NULL if there is
   none or if some push is in progress (then both are possible). *)
CanPop(t) == queue # <<>> /\ t = Head(queue) /\ t \notin unlinked
PopMayFail == queue = <<>> \/ unlinked # {}

(* Mutant: the last task of the queue is never popped. *)
TryPopNeverLast(th, hit, miss) ==
    /\ \/ \E t \in Tasks :
            /\ CanPop(t) /\ Len(queue) > 1
            /\ queue' = Tail(queue)
            /\ current' = [current EXCEPT ![th] = t]
            /\ Goto(th, hit)
       \/ (PopMayFail \/ Len(queue) = 1) /\ Goto(th, miss) /\ UNCHANGED <<queue, current>>
    /\ UNCHANGED <<sampledFrames, needResched, taskState, sem, unlinked, pendingTasks,
                   schedVars, frameVars, pipelineMutex>>

(* The consumer th takes the oldest task and goes to hit, or goes to miss. *)
TryPop(th, hit, miss) ==
    /\ \/ \E t \in Tasks :
            /\ CanPop(t)
            /\ queue' = Tail(queue)
            /\ current' = [current EXCEPT ![th] = t]
            /\ Goto(th, hit)
       \/ PopMayFail /\ Goto(th, miss) /\ UNCHANGED <<queue, current>>
    /\ UNCHANGED <<sampledFrames, needResched, taskState, sem, unlinked, pendingTasks,
                   schedVars, frameVars, pipelineMutex>>

(* process_task_(): run the task, mark it finished, and notify its owner by the
   completer or the semaphore (a waiter served in place needs neither). *)
ProcessTask(th, notify, next) ==
    LET t == current[th]
    IN /\ taskState' = [taskState EXCEPT ![t] = "finished"]
       /\ sem' = IF t \in Waiters /\ notify THEN sem \cup {t} ELSE sem
       /\ current' = [current EXCEPT ![th] = None]
       /\ Goto(th, next)
       /\ UNCHANGED <<sampledFrames, needResched, queue, unlinked, pendingTasks, schedVars,
                      frameVars, pipelineMutex>>

(* --pending_tasks_ after a task was processed and its owner notified. *)
DecrementPending(th, next) ==
    /\ pendingTasks' = pendingTasks - 1
    /\ Goto(th, next)
    /\ UNCHANGED <<locals, taskState, sem, queue, unlinked, schedVars, frameVars, pipelineMutex>>

UnlockPipeline(th, next) ==
    /\ pipelineMutex' = None
    /\ Goto(th, next)
    /\ UNCHANGED <<locals, taskVars, schedVars, frameVars>>

-----------------------------------------------------------------------------
(* schedule() and schedule_and_wait(), both through
   schedule_and_maybe_process_task_(). *)

(* The only pending task may be processed in place, any other is left to
   whoever is handling the ones before it. *)
Schedule(t) ==
    /\ pc[t] = "idle" /\ taskState[t] = "new"
    /\ t \in OnFrameThread => \A u \in OnFrameThread \cup {Framer} : pc[u] \in {"idle", "done"}
    /\ taskState' = [taskState EXCEPT ![t] = "scheduled"]
    /\ pendingTasks' = pendingTasks + 1
    /\ current' = [current EXCEPT ![t] = t]
    /\ IF pendingTasks = 0 THEN Goto(t, "load") ELSE Call(t, "push", "leave")
    /\ UNCHANGED <<sampledFrames, needResched, sem, queue, unlinked, schedVars, frameVars,
                   pipelineMutex>>

(* next_frame_deadline_.try_load() fails while the deadline is being stored. *)
LoadDeadline(t) ==
    /\ pc[t] = "load"
    /\ IF storing = "deadline" THEN Call(t, "push", "leave") ELSE Goto(t, "allowed")
    /\ UNCHANGED <<locals, taskVars, schedVars, frameVars, pipelineMutex>>

(* Mutant: a task that may not run now is not queued. *)
CheckAllowedUnqueued(t) ==
    /\ pc[t] = "allowed"
    /\ Goto(t, "trylock") \/ (InterframeMayProhibit(t) /\ Goto(t, "ask"))
    /\ UNCHANGED <<locals, taskVars, schedVars, frameVars, pipelineMutex>>

CheckAllowed(t) ==
    /\ pc[t] = "allowed"
    /\ Goto(t, "trylock") \/ (InterframeMayProhibit(t) /\ Call(t, "push", "ask"))
    /\ UNCHANGED <<locals, taskVars, schedVars, frameVars, pipelineMutex>>

(* Mutant: the result of try_lock() is not looked at. *)
TryLockUnchecked(t) ==
    /\ pc[t] = "trylock"
    /\ pipelineMutex' = t /\ Goto(t, "exec")
    /\ UNCHANGED <<locals, taskVars, schedVars, frameVars>>

TryLockPipeline(t) ==
    /\ pc[t] = "trylock"
    /\ IF pipelineMutex = None
       THEN pipelineMutex' = t /\ Goto(t, "exec")
       ELSE UNCHANGED pipelineMutex /\ Call(t, "push", "leave")
    /\ UNCHANGED <<locals, taskVars, schedVars, frameVars>>

(* Mutant: a task processed in place stays counted as pending. *)
ProcessUncounted(t) == pc[t] = "exec" /\ ProcessTask(t, FALSE, "sample")

ProcessInPlace(t) == pc[t] = "exec" /\ ProcessTask(t, FALSE, "decr")
DecrementInPlace(t) == pc[t] = "decr" /\ DecrementPending(t, "sample")

SampleFrames(t) ==
    /\ pc[t] = "sample"
    /\ sampledFrames' = [sampledFrames EXCEPT ![t] = pendingFrames]
    /\ Goto(t, "unlock")
    /\ UNCHANGED <<current, needResched, taskVars, schedVars, frameVars, pipelineMutex>>

UnlockInPlace(t) == pc[t] = "unlock" /\ UnlockPipeline(t, "recheck")

(* Tasks that were queued while this one was processed in place. *)
RecheckPending(t) ==
    /\ pc[t] = "recheck"
    /\ IF sampledFrames[t] = 0 /\ pendingTasks # 0 THEN Call(t, "a_load", "done") ELSE Goto(t, "done")
    /\ sampledFrames' = [sampledFrames EXCEPT ![t] = 0]
    /\ UNCHANGED <<current, needResched, taskVars, schedVars, frameVars, pipelineMutex>>

(* task_queue_.push_back(): the task gets its place in the queue, ... *)
PushBack(t) ==
    /\ pc[t] = "push"
    /\ queue' = Append(queue, t)
    /\ unlinked' = unlinked \cup {t}
    /\ current' = [current EXCEPT ![t] = None]
    /\ Goto(t, "link")
    /\ UNCHANGED <<sampledFrames, needResched, taskState, sem, pendingTasks, schedVars, frameVars,
                   pipelineMutex>>

(* ... and becomes reachable from the head of the queue. *)
LinkPushed(t) ==
    /\ pc[t] = "link"
    /\ unlinked' = unlinked \ {t}
    /\ Return(t)
    /\ UNCHANGED <<locals, taskState, sem, queue, pendingTasks, schedVars, frameVars, pipelineMutex>>

(* Mutant: schedule_and_wait() does not wait after asking for processing. *)
AskAndReportProcessed(t) ==
    /\ pc[t] = "ask"
    /\ IF pendingFrames = 0 THEN Call(t, "a_load", "done") ELSE Goto(t, "leave")
    /\ UNCHANGED <<locals, taskVars, schedVars, frameVars, pipelineMutex>>

(* A task queued because this is not the time for tasks asks for asynchronous
   processing, unless a frame is being processed or about to be. *)
AskForProcessing(t) ==
    /\ pc[t] = "ask"
    /\ IF pendingFrames = 0 THEN Call(t, "a_load", "leave") ELSE Goto(t, "leave")
    /\ UNCHANGED <<locals, taskVars, schedVars, frameVars, pipelineMutex>>

(* schedule() returns; schedule_and_wait() waits for the semaphore first. *)
Leave(t) ==
    /\ pc[t] = "leave"
    /\ t \in Waiters => t \in sem
    /\ Goto(t, "done")
    /\ UNCHANGED <<locals, taskVars, schedVars, frameVars, pipelineMutex>>

(* The owner, told that its task is completed, destroys it and may schedule
   another. *)
Renew(t) ==
    /\ pc[t] = "done"
    /\ t \in Repeating
    /\ taskState[t] = "finished"
    /\ taskState' = [taskState EXCEPT ![t] = "new"]
    /\ sem' = sem \ {t}
    /\ Goto(t, "idle")
    /\ UNCHANGED <<locals, queue, unlinked, pendingTasks, schedVars, frameVars, pipelineMutex>>

Client(t) ==
    \/ LoadDeadline(t) \/ CheckAllowed(t) \/ TryLockPipeline(t) \/ ProcessInPlace(t)
    \/ DecrementInPlace(t) \/ SampleFrames(t) \/ UnlockInPlace(t) \/ RecheckPending(t)
    \/ PushBack(t) \/ LinkPushed(t) \/ AskForProcessing(t) \/ Leave(t)

-----------------------------------------------------------------------------
(* schedule_async_task_processing_(), on any thread. *)

AsyncLoadDeadline(th) ==
    /\ pc[th] = "a_load"
    /\ IF storing = "deadline" THEN Return(th) ELSE Goto(th, "a_lock")
    /\ UNCHANGED <<locals, taskVars, schedVars, frameVars, pipelineMutex>>

AsyncTryLock(th) ==
    /\ pc[th] = "a_lock"
    /\ IF schedMutex = None
       THEN schedMutex' = th /\ Goto(th, "a_test")
       ELSE UNCHANGED schedMutex /\ Return(th)
    /\ UNCHANGED <<locals, taskVars, procState, requested, frameVars, pipelineMutex>>

AsyncTest(th) ==
    /\ pc[th] = "a_test"
    /\ Goto(th, IF procState = "NotScheduled" THEN "a_call" ELSE "a_unlock")
    /\ UNCHANGED <<locals, taskVars, schedVars, frameVars, pipelineMutex>>

(* scheduler_.schedule_task_processing(), at once or after the next frame. *)
AsyncCall(th) ==
    /\ pc[th] = "a_call"
    /\ requested' = TRUE
    /\ Goto(th, "a_set")
    /\ UNCHANGED <<locals, taskVars, procState, schedMutex, frameVars, pipelineMutex>>

AsyncSetScheduled(th) ==
    /\ pc[th] = "a_set"
    /\ procState' = "Scheduled"
    /\ Goto(th, "a_unlock")
    /\ UNCHANGED <<locals, taskVars, requested, schedMutex, frameVars, pipelineMutex>>

AsyncUnlock(th) ==
    /\ pc[th] = "a_unlock"
    /\ schedMutex' = None
    /\ Goto(th, "a_frames")
    /\ UNCHANGED <<locals, taskVars, requested, procState, frameVars, pipelineMutex>>

(* A frame that arrived meanwhile takes priority. *)
AsyncCheckFrames(th) ==
    /\ pc[th] = "a_frames"
    /\ IF pendingFrames # 0 THEN Goto(th, "c_lock") ELSE Return(th)
    /\ UNCHANGED <<locals, taskVars, schedVars, frameVars, pipelineMutex>>

(* cancel_async_task_processing_(), on any thread. *)

CancelTryLock(th) ==
    /\ pc[th] = "c_lock"
    /\ IF schedMutex = None
       THEN schedMutex' = th /\ Goto(th, "c_test")
       ELSE UNCHANGED schedMutex /\ Return(th)
    /\ UNCHANGED <<locals, taskVars, procState, requested, frameVars, pipelineMutex>>

CancelTest(th) ==
    /\ pc[th] = "c_test"
    /\ Goto(th, IF procState = "Scheduled" THEN "c_call" ELSE "c_unlock")
    /\ UNCHANGED <<locals, taskVars, schedVars, frameVars, pipelineMutex>>

(* scheduler_.cancel_task_processing(): a request not yet taken is dropped. *)
CancelCall(th) ==
    /\ pc[th] = "c_call"
    /\ requested' = FALSE
    /\ Goto(th, "c_set")
    /\ UNCHANGED <<locals, taskVars, procState, schedMutex, frameVars, pipelineMutex>>

CancelSetNotScheduled(th) ==
    /\ pc[th] = "c_set"
    /\ procState' = "NotScheduled"
    /\ Goto(th, "c_unlock")
    /\ UNCHANGED <<locals, taskVars, requested, schedMutex, frameVars, pipelineMutex>>

CancelUnlock(th) ==
    /\ pc[th] = "c_unlock"
    /\ schedMutex' = None
    /\ Return(th)
    /\ UNCHANGED <<locals, taskVars, requested, procState, frameVars, pipelineMutex>>

AsyncProcessing(th) ==
    \/ AsyncLoadDeadline(th) \/ AsyncTryLock(th) \/ AsyncTest(th) \/ AsyncCall(th)
    \/ AsyncSetScheduled(th) \/ AsyncUnlock(th) \/ AsyncCheckFrames(th)
    \/ CancelTryLock(th) \/ CancelTest(th) \/ CancelCall(th) \/ CancelSetNotScheduled(th)
    \/ CancelUnlock(th)

-----------------------------------------------------------------------------
(* process_tasks(), invoked by the external scheduler. *)

InvokeProcessTasks ==
    /\ pc[Worker] = "idle"
    /\ requested
    /\ requested' = FALSE
    /\ Goto(Worker, "w_load")
    /\ UNCHANGED <<locals, taskVars, procState, schedMutex, frameVars, pipelineMutex>>

WorkerLoadDeadline ==
    /\ pc[Worker] = "w_load"
    /\ Goto(Worker, IF storing = "deadline" THEN "w_reset" ELSE "w_trylock")
    /\ UNCHANGED <<locals, taskVars, schedVars, frameVars, pipelineMutex>>

WorkerTryLock ==
    /\ pc[Worker] = "w_trylock"
    /\ IF pipelineMutex = None
       THEN pipelineMutex' = Worker /\ Goto(Worker, "w_run")
       ELSE UNCHANGED pipelineMutex /\ Goto(Worker, "w_reset")
    /\ UNCHANGED <<locals, taskVars, schedVars, frameVars>>

WorkerSetRunning ==
    /\ pc[Worker] = "w_run"
    /\ procState' = "Running"
    /\ Goto(Worker, "w_allowed")
    /\ UNCHANGED <<locals, taskVars, requested, schedMutex, frameVars, pipelineMutex>>

WorkerCheckAllowed ==
    /\ pc[Worker] = "w_allowed"
    /\ Goto(Worker, "w_frames") \/ (InterframeMayProhibit(Worker) /\ Goto(Worker, "w_unlock"))
    /\ UNCHANGED <<locals, taskVars, schedVars, frameVars, pipelineMutex>>

WorkerSampleFrames ==
    /\ pc[Worker] = "w_frames"
    /\ sampledFrames' = [sampledFrames EXCEPT ![Worker] = pendingFrames]
    /\ Goto(Worker, IF pendingFrames # 0 THEN "w_unlock" ELSE "w_pop")
    /\ UNCHANGED <<current, needResched, taskVars, schedVars, frameVars, pipelineMutex>>

WorkerPop == pc[Worker] = "w_pop" /\ TryPop(Worker, "w_exec", "w_unlock")
WorkerProcess == pc[Worker] = "w_exec" /\ ProcessTask(Worker, TRUE, "w_decr")
WorkerDecrement == pc[Worker] = "w_decr" /\ DecrementPending(Worker, "w_allowed")
WorkerUnlock == pc[Worker] = "w_unlock" /\ UnlockPipeline(Worker, "w_recheck")

WorkerRecheckPending ==
    /\ pc[Worker] = "w_recheck"
    /\ needResched' = (sampledFrames[Worker] = 0 /\ pendingTasks # 0)
    /\ sampledFrames' = [sampledFrames EXCEPT ![Worker] = 0]
    /\ Goto(Worker, "w_reset")
    /\ UNCHANGED <<current, taskVars, schedVars, frameVars, pipelineMutex>>

WorkerReset ==
    /\ pc[Worker] = "w_reset"
    /\ procState' = "NotScheduled"
    /\ IF needResched THEN Call(Worker, "a_load", "idle") ELSE Goto(Worker, "idle")
    /\ needResched' = FALSE
    /\ UNCHANGED <<sampledFrames, current, taskVars, requested, schedMutex, frameVars, pipelineMutex>>

ProcessTasks ==
    \/ InvokeProcessTasks \/ WorkerLoadDeadline \/ WorkerTryLock \/ WorkerSetRunning
    \/ WorkerCheckAllowed \/ WorkerSampleFrames \/ WorkerPop \/ WorkerProcess
    \/ WorkerDecrement \/ WorkerUnlock \/ WorkerRecheckPending \/ WorkerReset

-----------------------------------------------------------------------------
(* process_subframes_and_tasks(), simple and precise. *)

StartFrame ==
    /\ pc[Framer] = "idle"
    /\ \A t \in OnFrameThread : pc[t] \in {"idle", "done"}
    /\ pendingFrames' = pendingFrames + 1
    /\ Call(Framer, "c_lock", "f_lock")
    /\ UNCHANGED <<locals, taskVars, schedVars, frameTid, storing, frame, pipelineMutex>>

(* Mutant: the frame is processed without the pipeline mutex. *)
FrameLockSkipped ==
    /\ pc[Framer] = "f_lock"
    /\ Goto(Framer, "f_subframe")
    /\ UNCHANGED <<locals, taskVars, schedVars, frameVars, pipelineMutex>>

FrameLock ==
    /\ pc[Framer] = "f_lock"
    /\ pipelineMutex = None
    /\ pipelineMutex' = Framer
    /\ Goto(Framer, "f_subframe")
    /\ UNCHANGED <<locals, taskVars, schedVars, frameVars>>

(* process_subframe_imp() of the whole frame, without task processing. *)
FrameSimple ==
    /\ ~Precise
    /\ pc[Framer] = "f_subframe"
    /\ Goto(Framer, "f_unlock")
    /\ UNCHANGED <<locals, taskVars, schedVars, frameVars, pipelineMutex>>

(* process_next_subframe_(), which may fail; the first one is followed by
   update_next_frame_deadline_(). *)
FrameSubframe ==
    LET duration == IF SubframeLen # 0 THEN Smaller(FrameLen - frame.pos, SubframeLen) ELSE FrameLen
        total == IF frame.enough THEN frame.samples ELSE frame.samples + duration
    IN /\ Precise
       /\ pc[Framer] = "f_subframe"
       /\ \E ok \in BOOLEAN :
            frame' = [pos |-> frame.pos + duration, ok |-> ok, samples |-> total,
                      enough |-> frame.enough \/ total >= MinSamples]
       /\ Goto(Framer, IF frame.pos = 0 THEN "f_deadline" ELSE "f_tasks")
       /\ UNCHANGED <<locals, taskVars, schedVars, frameTid, storing, pendingFrames, pipelineMutex>>

(* Seqlock::exclusive_store() makes loads fail from its begin to its end. *)
BeginStoreDeadline ==
    /\ pc[Framer] = "f_deadline"
    /\ storing' = "deadline"
    /\ Goto(Framer, "f_deadline_end")
    /\ UNCHANGED <<locals, taskVars, schedVars, frameTid, pendingFrames, frame, pipelineMutex>>

EndStoreDeadline ==
    /\ pc[Framer] = "f_deadline_end"
    /\ storing' = "none"
    /\ Goto(Framer, "f_tasks")
    /\ UNCHANGED <<locals, taskVars, schedVars, frameTid, pendingFrames, frame, pipelineMutex>>

(* start_subframe_task_processing_() *)
FrameStartTasks ==
    LET start == pendingTasks # 0 /\ frame.enough
    IN /\ pc[Framer] = "f_tasks"
       /\ frame' = IF start THEN [frame EXCEPT !.enough = FALSE, !.samples = 0] ELSE frame
       /\ Goto(Framer, IF start THEN "f_pop" ELSE "f_next")
       /\ UNCHANGED <<locals, taskVars, schedVars, frameTid, storing, pendingFrames, pipelineMutex>>

FramePop == pc[Framer] = "f_pop" /\ TryPop(Framer, "f_exec", "f_next")
FrameProcess == pc[Framer] = "f_exec" /\ ProcessTask(Framer, TRUE, "f_decr")
FrameDecrement == pc[Framer] = "f_decr" /\ DecrementPending(Framer, "f_allowed")

(* subframe_task_processing_allowed_(): there is time for another task, ... *)
FrameTasksAllowed ==
    /\ pc[Framer] = "f_allowed"
    /\ Goto(Framer, "f_pop")
    /\ UNCHANGED <<locals, taskVars, schedVars, frameVars, pipelineMutex>>

(* ... or one of the two deadlines for tasks has passed. *)
FrameTasksTimeUp ==
    /\ pc[Framer] = "f_allowed"
    /\ Goto(Framer, "f_next")
    /\ UNCHANGED <<locals, taskVars, schedVars, frameVars, pipelineMutex>>

FrameNext ==
    LET last == ~frame.ok \/ frame.pos = FrameLen
    IN /\ pc[Framer] = "f_next"
       /\ frame' = [frame EXCEPT !.pos = IF last THEN 0 ELSE @, !.ok = TRUE]
       /\ Goto(Framer, IF last THEN "f_report" ELSE "f_subframe")
       /\ UNCHANGED <<locals, taskVars, schedVars, frameTid, storing, pendingFrames, pipelineMutex>>

(* report_stats_() holds scheduler_mutex_ for a while if it is time to report
   and nobody else holds it. *)
ReportStats ==
    /\ pc[Framer] = "f_report"
    /\ \/ schedMutex = None /\ schedMutex' = Framer /\ Goto(Framer, "f_report_end")
       \/ UNCHANGED schedMutex /\ Goto(Framer, "f_tid")
    /\ UNCHANGED <<locals, taskVars, procState, requested, frameVars, pipelineMutex>>

ReportStatsEnd ==
    /\ pc[Framer] = "f_report_end"
    /\ schedMutex' = None
    /\ Goto(Framer, "f_tid")
    /\ UNCHANGED <<locals, taskVars, procState, requested, frameVars, pipelineMutex>>

BeginStoreTid ==
    /\ pc[Framer] = "f_tid"
    /\ storing' = "tid"
    /\ Goto(Framer, "f_tid_end")
    /\ UNCHANGED <<locals, taskVars, schedVars, frameTid, pendingFrames, frame, pipelineMutex>>

EndStoreTid ==
    /\ pc[Framer] = "f_tid_end"
    /\ storing' = "none"
    /\ frameTid' = TRUE
    /\ Goto(Framer, "f_unlock")
    /\ UNCHANGED <<locals, taskVars, schedVars, pendingFrames, frame, pipelineMutex>>

(* Mutant: the frame is processed again while tasks are pending. *)
FrameUnlockYield ==
    /\ pc[Framer] = "f_unlock"
    /\ UnlockPipeline(Framer, IF pendingTasks # 0 THEN "f_lock" ELSE "f_leave")

FrameUnlock == pc[Framer] = "f_unlock" /\ UnlockPipeline(Framer, "f_leave")

FrameLeave ==
    /\ pc[Framer] = "f_leave"
    /\ pendingFrames' = pendingFrames - 1
    /\ Goto(Framer, IF pendingFrames = 1 THEN "f_recheck" ELSE "idle")
    /\ UNCHANGED <<locals, taskVars, schedVars, frameTid, storing, frame, pipelineMutex>>

FrameRecheckPending ==
    /\ pc[Framer] = "f_recheck"
    /\ IF pendingTasks # 0 THEN Call(Framer, "a_load", "idle") ELSE Goto(Framer, "idle")
    /\ UNCHANGED <<locals, taskVars, schedVars, frameVars, pipelineMutex>>

(* The frame thread once it is in process_subframes_and_tasks(). *)
ProcessFrame ==
    \/ FrameLock \/ FrameSimple \/ FrameSubframe \/ BeginStoreDeadline \/ EndStoreDeadline
    \/ FrameStartTasks \/ FramePop \/ FrameProcess \/ FrameDecrement \/ FrameTasksAllowed
    \/ FrameTasksTimeUp \/ FrameNext \/ ReportStats \/ ReportStatsEnd \/ BeginStoreTid \/ EndStoreTid
    \/ FrameUnlock \/ FrameLeave \/ FrameRecheckPending

-----------------------------------------------------------------------------
Next ==
    \/ \E t \in Tasks : Schedule(t) \/ Client(t) \/ Renew(t)
    \/ \E th \in Threads : AsyncProcessing(th)
    \/ ProcessTasks
    \/ StartFrame
    \/ ProcessFrame

Spec == Init /\ [][Next]_vars

(* Threads are scheduled by the system and keep running inside a method; a
   thread blocked on pipeline_mutex_, which is released again and again, gets it;
   and the deadline for the tasks of a subframe passes. *)
Fairness ==
    /\ \A t \in Tasks : WF_vars(Client(t) \/ AsyncProcessing(t))
    /\ WF_vars(ProcessTasks \/ AsyncProcessing(Worker))
    /\ WF_vars(ProcessFrame \/ AsyncProcessing(Framer))
    /\ SF_vars(FrameLock) /\ SF_vars(FrameTasksTimeUp)

(* The sound device or the user keeps asking for frames. *)
FramesFairness == Fairness /\ WF_vars(StartFrame)

-----------------------------------------------------------------------------
Labels == {"idle", "load", "allowed", "trylock", "exec", "decr", "sample", "unlock", "recheck",
           "push", "link", "ask", "leave", "done",
           "a_load", "a_lock", "a_test", "a_call", "a_set", "a_unlock", "a_frames",
           "c_lock", "c_test", "c_call", "c_set", "c_unlock",
           "w_load", "w_trylock", "w_run", "w_allowed", "w_frames", "w_pop", "w_exec", "w_decr",
           "w_unlock", "w_recheck", "w_reset",
           "f_lock", "f_subframe", "f_deadline", "f_deadline_end", "f_tasks", "f_pop", "f_exec",
           "f_decr", "f_allowed", "f_next", "f_report", "f_report_end", "f_tid", "f_tid_end",
           "f_unlock", "f_leave", "f_recheck"}

(* Inside schedule_async_task_processing_() or cancel_async_task_processing_(). *)
AsyncLabels == {"a_load", "a_lock", "a_test", "a_call", "a_set", "a_unlock", "a_frames",
                "c_lock", "c_test", "c_call", "c_set", "c_unlock"}

(* Where a thread owns pipeline_mutex_, and where it owns scheduler_mutex_. *)
PipelineHeld == {"exec", "decr", "sample", "unlock"}
                \cup {"w_run", "w_allowed", "w_frames", "w_pop", "w_exec", "w_decr", "w_unlock"}
                \cup {"f_subframe", "f_deadline", "f_deadline_end", "f_tasks", "f_pop", "f_exec",
                      "f_decr", "f_allowed", "f_next", "f_report", "f_report_end", "f_tid",
                      "f_tid_end", "f_unlock"}

(* Where a thread has a task it must still queue or process. *)
HoldsTask == {"load", "allowed", "trylock", "push", "exec", "w_exec", "f_exec"}

Scheduled == {t \in Tasks : taskState[t] = "scheduled"}
Decrementing == {th \in Threads : pc[th] \in {"decr", "w_decr", "f_decr"}}

(* Types of the variables. *)
TypeOK ==
    /\ pc \in [Threads -> Labels]
    /\ ret \in [Threads -> {"idle", "leave", "ask", "done", "f_lock"}]
    /\ taskState \in [Tasks -> {"new", "scheduled", "finished"}]
    /\ sem \subseteq Tasks
    /\ queue \in Seq(Tasks)
    /\ unlinked \subseteq Tasks
    /\ pendingTasks \in Nat /\ pendingFrames \in {0, 1}
    /\ procState \in {"NotScheduled", "Scheduled", "Running"}
    /\ pipelineMutex \in Threads \cup {None} /\ schedMutex \in Threads \cup {None}
    /\ requested \in BOOLEAN /\ frameTid \in BOOLEAN
    /\ storing \in {"none", "tid", "deadline"}
    /\ sampledFrames \in [Threads -> {0, 1}]
    /\ current \in [Threads -> Tasks \cup {None}]
    /\ needResched \in BOOLEAN
    /\ frame \in [pos : 0 .. FrameLen, ok : BOOLEAN, samples : Nat, enough : BOOLEAN]

(* "At every moment, the pipeline is either processing a frame, processing a
   task, or doing nothing" (pipeline_loop.h): of the threads that process a
   subframe or a task, or take one from the single-consumer queue, there is never
   more than one. *)
OneProcessor ==
    \A a, b \in Threads :
        LET busy == {"exec", "w_pop", "w_exec", "f_pop", "f_exec", "f_subframe"}
        IN pc[a] \in busy /\ pc[b] \in busy => a = b

(* A task from schedule() to its processing is in exactly one place: once in the
   queue, or in the hands of one thread; and nothing else is ever in such a place,
   so no task is lost, processed twice, or processed after its owner got it back. *)
EachTaskInOnePlace ==
    /\ \A i, j \in DOMAIN queue : queue[i] = queue[j] => i = j
    /\ \A a, b \in Threads : current[a] = current[b] /\ current[a] # None => a = b
    /\ \A th \in Threads : current[th] \notin Range(queue)
    /\ \A th \in Threads : current[th] # None <=> pc[th] \in HoldsTask
    /\ Scheduled = Range(queue) \cup {current[th] : th \in {x \in Threads : current[x] # None}}

(* pending_tasks_, on which every decision to process in place, to reschedule
   or to leave is based, counts the tasks not yet processed and the processed ones
   whose decrement is still to come: it never drifts. *)
PendingTasksExact ==
    pendingTasks = Cardinality(Scheduled) + Cardinality(Decrementing)

(* schedule_and_wait() returns only after the task was processed, so its caller,
   which keeps the task on its stack, may destroy it (~PipelineTask() panics on a
   scheduled task). *)
WaiterReturnsProcessed ==
    \A t \in Waiters : pc[t] = "done" => taskState[t] = "finished"

(* Every thread is out of the loop's methods, or waits for its task. *)
Quiescent ==
    /\ pc[Worker] = "idle" /\ pc[Framer] = "idle"
    /\ \A t \in Tasks : pc[t] \in {"idle", "leave", "done"}

(* "If pipeline_mutex_ is locked, it's guaranteed that the thread locking it will
   check pending tasks after unlocking the mutex and will either process them or
   scheduler asynchronous processing" (pipeline_loop.h): when everyone is done,
   tasks that are still pending have an invocation of process_tasks() coming. *)
PendingTasksAreScheduled == Quiescent /\ pendingTasks # 0 => requested

(* While frames keep coming, a scheduled task is eventually processed: by its
   client, by the worker, or between two subframes. *)
TaskEventuallyProcessed ==
    \A t \in Tasks : taskState[t] = "scheduled" ~> taskState[t] = "finished"

(* A frame that was started is eventually finished, whatever tasks are scheduled. *)
FrameEventuallyFinished == pc[Framer] # "idle" ~> pc[Framer] = "idle"
=============================================================================
