-------------------------- MODULE ControlTaskQueue --------------------------
(***************************************************************************)
(* ctl::ControlTaskQueue: any thread schedules, reschedules, cancels and   *)
(* resumes tasks without taking a lock; the event loop thread executes     *)
(* them as soon as possible or at a deadline.  A request is stored in the  *)
(* task (renewed_deadline_, flags_), and whoever moves the task to         *)
(* StateReady puts it into ready_queue_, or, when the event loop sleeps    *)
(* and only a deadline changes, applies the request in-place.              *)
(*                                                                         *)
(* Every atomic operation on shared state is a step of its own; what is    *)
(* done under task_mutex_ to fields that only its owner uses belongs to    *)
(* the step before or after it.  ready_queue_ is the FIFO queue that       *)
(* MpscQueue implements: it may seem empty while a push is running.        *)
(* wakeup_timer_ is the deadline that Timer implements: its waiter returns *)
(* once the deadline is due, and a store fails during another one.         *)
(***************************************************************************)
EXTENDS Integers, FiniteSets, Sequences, SequencesExt

CONSTANTS
    Tasks,
    Clients,            \* threads that use the queue, besides its own thread
    Schedulers,         \* clients that call schedule() and schedule_at()
    Cancellers,         \* clients that call async_cancel()
    Waiters,            \* clients that call wait()
    Resumers,           \* clients that end asynchronous operations by resume()
    MaxCalls,           \* bound: calls made by each client, [Clients -> Nat]
    MaxTime,            \* bound: the clock, and the deadlines given to schedule_at()
    Results,            \* what tasks return besides success and failure: "continue", "pause"
    PauseAgain,         \* a task pauses more than once between two calls of schedule()
    Completer,          \* tasks have a completer
    None

Loop == "loop"          \* the event loop thread
Threads == Clients \cup {Loop}

VARIABLES
    state,      \* ControlTask::state_
    flags,      \* ControlTask::flags_, as a set
    guard,      \* ControlTask::renew_guard_
    renewed,    \* ControlTask::renewed_deadline_ with its version; writing: a store runs
    effective,  \* ControlTask::effective_deadline_ and effective_version_
    sem,        \* ControlTask::sem_ is set, and the count of sem_holder_
    ready,      \* ready_queue_
    size,       \* ready_queue_size_
    sleeping,   \* sleeping_queue_
    paused,     \* paused_queue_
    mutex,      \* the owner of task_mutex_
    timer,      \* the deadline of wakeup_timer_, and the thread that is storing one
    fetchReady, \* fetch_ready_
    stop,       \* stop_
    pc,         \* where each thread is
    loc,        \* the local variables of each thread
    calls,      \* calls made by each client
    operation,  \* tasks whose asynchronous operation will end with resume()
    now,        \* the clock
    fault       \* roc_panic() was called

taskVars == <<state, flags, guard, renewed, effective, sem>>
queueVars == <<ready, size, sleeping, paused, mutex, timer, fetchReady, stop>>
envVars == <<calls, operation, now>>
vars == <<taskVars, queueVars, envVars, pc, loc, fault>>

States == {"Ready", "Sleeping", "Cancelling", "Processing", "Completing", "Completed"}

\* task; requested or loaded deadline and version; loaded flags; the state to leave;
\* the semaphore taken by complete_task_(); is_ready or task_renewed; the other queue was
\* already tried; the deadline for wakeup_timer_
NoLocals == [task |-> None, deadline |-> 0, version |-> 0, flags |-> {}, from |-> "Ready",
             took |-> FALSE, again |-> FALSE, second |-> FALSE, wakeup |-> 0]

Init ==
    /\ state = [t \in Tasks |-> "Completed"]
    /\ flags = [t \in Tasks |-> {}]
    /\ guard = [t \in Tasks |-> FALSE]
    /\ renewed = [t \in Tasks |-> [deadline |-> 0, version |-> 0, writing |-> FALSE]]
    /\ effective = [t \in Tasks |-> [deadline |-> 0, version |-> 0]]
    /\ sem = [t \in Tasks |-> [set |-> FALSE, count |-> 0]]
    /\ ready = <<>> /\ size = 0
    /\ sleeping = <<>> /\ paused = {}
    /\ mutex = None
    /\ timer = [deadline |-> 0, by |-> None]
    /\ fetchReady = TRUE
    /\ stop = FALSE
    /\ pc = [th \in Threads |-> IF th = Loop THEN "wait" ELSE "idle"]
    /\ loc = [th \in Threads |-> NoLocals]
    /\ calls = [c \in Clients |-> 0]
    /\ operation = {}
    /\ now = 0
    /\ fault = FALSE

\* The thread goes from one label to another, and keeps its locals or gets new ones.
Go(th, to) == pc' = [pc EXCEPT ![th] = to] /\ UNCHANGED loc
GoWith(th, to, l) == pc' = [pc EXCEPT ![th] = to] /\ loc' = [loc EXCEPT ![th] = l]
Return(c) == GoWith(c, "idle", NoLocals)

\* The locals a thread still needs: its task, or its task and the version of its request.
KeepTask(th) == [NoLocals EXCEPT !.task = loc[th].task]
KeepRequest(th) == [KeepTask(th) EXCEPT !.version = loc[th].version]

Task(th) == loc[th].task

\* A renewal gives the guard back; resume(), which has no version, has none.
Finish(c) == IF loc[c].version = 0 THEN Return(c) ELSE GoWith(c, "release", KeepTask(c))

Panic == fault' = TRUE /\ UNCHANGED <<taskVars, queueVars, envVars, pc, loc>>

-----------------------------------------------------------------------------
(* The calls of clients. *)

(* request_renew_(): only one of several concurrent requests for a task proceeds. *)
RequestRenew(c, t, d) ==
    /\ ~stop /\ pc[c] = "idle" /\ calls[c] < MaxCalls[c]
    /\ calls' = [calls EXCEPT ![c] = @ + 1]
    /\ guard' = [guard EXCEPT ![t] = TRUE]
    /\ IF guard[t] THEN UNCHANGED <<pc, loc>>
       ELSE GoWith(c, "store", [NoLocals EXCEPT !.task = t, !.deadline = d])
    /\ UNCHANGED <<state, flags, renewed, effective, sem, queueVars, operation, now, fault>>

(* schedule() and schedule_at() *)
Schedule(c) == c \in Schedulers /\ \E t \in Tasks, d \in 0..MaxTime : RequestRenew(c, t, d)

(* async_cancel() *)
AsyncCancel(c) == c \in Cancellers /\ \E t \in Tasks : RequestRenew(c, t, -1)

ReleaseGuard(c) ==
    /\ pc[c] = "release"
    /\ guard' = [guard EXCEPT ![Task(c)] = FALSE]
    /\ Return(c)
    /\ UNCHANGED <<state, flags, renewed, effective, sem, queueVars, envVars, fault>>

(* request_renew_guarded_(): store the deadline, ... *)
BeginStore(c) ==
    /\ pc[c] = "store"
    /\ renewed' = [renewed EXCEPT ![Task(c)].writing = TRUE]
    /\ Go(c, "stored")
    /\ UNCHANGED <<state, flags, guard, effective, sem, queueVars, envVars, fault>>

EndStore(c) ==
    LET v == renewed[Task(c)].version + 1
    IN /\ pc[c] = "stored"
       /\ renewed' = [renewed EXCEPT ![Task(c)] =
                        [deadline |-> loc[c].deadline, version |-> v, writing |-> FALSE]]
       /\ GoWith(c, IF loc[c].deadline < 0 THEN "cancel" ELSE "schedule",
                 [loc[c] EXCEPT !.version = v])
       /\ UNCHANGED <<state, flags, guard, effective, sem, queueVars, envVars, fault>>

(* ... which is all for a cancellation, unless the task sleeps, ... *)
CancelSleeping(c) ==
    LET t == Task(c)
    IN /\ pc[c] = "cancel"
       /\ IF state[t] = "Sleeping" THEN state' = [state EXCEPT ![t] = "Ready"] /\ Go(c, "count")
                                   ELSE Finish(c) /\ UNCHANGED state
       /\ UNCHANGED <<flags, guard, renewed, effective, sem, queueVars, envVars, fault>>

(* ... or for a new deadline, if the task is paused ... *)
CheckPaused(c) ==
    /\ pc[c] = "schedule"
    /\ IF "Paused" \in flags[Task(c)] THEN Finish(c) ELSE Go(c, "exchange")
    /\ UNCHANGED <<taskVars, queueVars, envVars, fault>>

(* ... or already in ready_queue_. *)
MarkReady(c) ==
    LET t == Task(c)
    IN /\ pc[c] = "exchange"
       /\ IF state[t] = "Ready" THEN Finish(c) /\ UNCHANGED state
                                ELSE state' = [state EXCEPT ![t] = "Ready"] /\ Go(c, "count")
       /\ UNCHANGED <<flags, guard, renewed, effective, sem, queueVars, envVars, fault>>

(* Without need to wake up the event loop, the task is renewed in-place if the mutex is free. *)
CountReady(c) ==
    LET inplace == loc[c].deadline > 0 \/ (loc[c].deadline < 0 /\ ~Completer)
    IN /\ pc[c] = "count"
       /\ size' = size + 1
       /\ Go(c, IF size = 0 /\ inplace THEN "trylock" ELSE "push")
       /\ UNCHANGED <<taskVars, ready, sleeping, paused, mutex, timer, fetchReady, stop,
                      envVars, fault>>

Push(c) ==
    /\ pc[c] = "push"
    /\ ready' = Append(ready, Task(c))
    /\ GoWith(c, "set", KeepRequest(c))
    /\ UNCHANGED <<taskVars, size, sleeping, paused, mutex, timer, fetchReady, stop,
                   envVars, fault>>

(* try_renew_inplace_() *)
TryLock(c) ==
    /\ pc[c] = "trylock"
    /\ IF mutex = None THEN mutex' = c /\ Go(c, "inplace") ELSE Go(c, "push") /\ UNCHANGED mutex
    /\ UNCHANGED <<taskVars, ready, size, sleeping, paused, timer, fetchReady, stop,
                   envVars, fault>>

RenewInPlace(c) ==
    LET f == flags[Task(c)]
        can == "Paused" \notin f \/ (loc[c].deadline < 0 /\ ~Completer)
    IN /\ pc[c] = "inplace"
       /\ mutex' = IF can THEN c ELSE None
       /\ GoWith(c, IF can THEN "renew" ELSE "push", [loc[c] EXCEPT !.flags = f])
       /\ UNCHANGED <<taskVars, ready, size, sleeping, paused, timer, fetchReady, stop,
                      envVars, fault>>

(* resume(): request_resume_() *)
Resume(c) ==
    /\ c \in Resumers /\ pc[c] = "idle"
    /\ \E t \in operation :
          /\ operation' = operation \ {t}
          /\ GoWith(c, "resume", [NoLocals EXCEPT !.task = t])
    /\ UNCHANGED <<taskVars, queueVars, calls, now, fault>>

MarkResumed(c) ==
    LET t == Task(c)
    IN /\ pc[c] = "resume"
       /\ flags' = [flags EXCEPT ![t] = @ \cup {"Resumed"}]
       /\ IF "Resumed" \in flags[t] THEN Return(c) ELSE Go(c, "exchange")
       /\ UNCHANGED <<state, guard, renewed, effective, sem, queueVars, envVars, fault>>

-----------------------------------------------------------------------------
(* wait(): wait_task_() *)

Wait(c) ==
    /\ c \in Waiters /\ ~stop /\ pc[c] = "idle" /\ calls[c] < MaxCalls[c]
    /\ calls' = [calls EXCEPT ![c] = @ + 1]
    /\ \E t \in Tasks :
          IF state[t] = "Completed" THEN UNCHANGED <<pc, loc>>
          ELSE GoWith(c, "attach", [NoLocals EXCEPT !.task = t])
    /\ UNCHANGED <<taskVars, queueVars, operation, now, fault>>

AttachSemaphore(c) ==
    /\ pc[c] = "attach"
    /\ sem' = [sem EXCEPT ![Task(c)].set = TRUE]
    /\ Go(c, "spin")
    /\ UNCHANGED <<state, flags, guard, renewed, effective, queueVars, envVars, fault>>

(* Mutant: wait() goes on while the task is being completed. *)
SpinNever(c) ==
    /\ pc[c] = "spin"
    /\ Go(c, "test state")
    /\ UNCHANGED <<taskVars, queueVars, envVars, fault>>

SpinCompleting(c) ==
    /\ pc[c] = "spin" /\ state[Task(c)] # "Completing"
    /\ Go(c, "test state")
    /\ UNCHANGED <<taskVars, queueVars, envVars, fault>>

TestState(c) ==
    /\ pc[c] = "test state"
    /\ Go(c, IF state[Task(c)] # "Completed" THEN "block" ELSE "test semaphore")
    /\ UNCHANGED <<taskVars, queueVars, envVars, fault>>

TestSemaphore(c) ==
    /\ pc[c] = "test semaphore"
    /\ Go(c, IF sem[Task(c)].set THEN "detach" ELSE "block")
    /\ UNCHANGED <<taskVars, queueVars, envVars, fault>>

Block(c) ==
    /\ pc[c] = "block" /\ sem[Task(c)].count > 0
    /\ sem' = [sem EXCEPT ![Task(c)].count = @ - 1]
    /\ Go(c, "detach")
    /\ UNCHANGED <<state, flags, guard, renewed, effective, queueVars, envVars, fault>>

DetachSemaphore(c) ==
    /\ pc[c] = "detach"
    /\ sem' = [sem EXCEPT ![Task(c)].set = FALSE]
    /\ Return(c)
    /\ UNCHANGED <<state, flags, guard, renewed, effective, queueVars, envVars, fault>>

-----------------------------------------------------------------------------
\* The event loop tries the next task of ready_queue_.
NextReady == GoWith(Loop, "pop", [NoLocals EXCEPT !.second = loc[Loop].second])

\* The event loop fetches the next task.
Fetch == GoWith(Loop, IF fetchReady THEN "pop" ELSE "front", NoLocals)

(* Renewal of a task in StateReady, by the event loop or in-place; task_mutex_ is held. *)

RenewedState(l) ==
    CASE l.deadline < 0 -> "Cancelling"
      [] l.deadline >= 0 /\ "Paused" \in l.flags ->
            IF "Resumed" \in l.flags THEN "Processing" ELSE "Sleeping"
      [] OTHER -> IF l.deadline = 0 THEN "Processing" ELSE "Sleeping"

(* renew_state_() *)
RenewState(th) ==
    LET t == Task(th)
        new == RenewedState(loc[th])
    IN /\ pc[th] = "renew"
       /\ \/ state[t] # "Ready" /\ Panic
          \/ /\ state[t] = "Ready"
             /\ state' = [state EXCEPT ![t] = new]
             /\ GoWith(th, IF th = Loop THEN "recheck" ELSE "apply", [loc[th] EXCEPT !.from = new])
             /\ UNCHANGED <<flags, guard, renewed, effective, sem, queueVars, envVars, fault>>

(* insert_sleeping_task_(): behind the tasks with the same or an earlier deadline. *)
InsertSleeping(q, t, d) ==
    SelectSeq(q, LAMBDA x : effective[x].deadline <= d) \o <<t>>
        \o SelectSeq(q, LAMBDA x : effective[x].deadline > d)

(* reschedule_task_() *)
RescheduleTask(th) ==
    LET t == Task(th)
        d == loc[th].deadline
    IN /\ paused' = paused \ {t}
       /\ sleeping' = IF d = 0 THEN Remove(sleeping, t)
                               ELSE InsertSleeping(Remove(sleeping, t), t, d)
       /\ effective' = [effective EXCEPT ![t] = [deadline |-> d, version |-> loc[th].version]]
       /\ GoWith(th, "uncount", [loc[th] EXCEPT !.again = (d = 0)])
       /\ UNCHANGED flags

(* cancel_task_() up to complete_task_() *)
CancelTask(th) ==
    LET t == Task(th)
    IN /\ paused' = paused \ {t}
       /\ sleeping' = Remove(sleeping, t)
       /\ flags' = [flags EXCEPT ![t] = {"Cancelled"}]
       /\ effective' = [effective EXCEPT ![t] = [deadline |-> -1, version |-> loc[th].version]]
       /\ GoWith(th, "complete", [loc[th] EXCEPT !.again = FALSE])

(* renew_scheduling_() *)
RenewScheduling(th) ==
    LET l == loc[th]
        cancel == l.deadline < 0
        cancelled == effective[l.task] = [deadline |-> -1, version |-> l.version]
        pausing == "Paused" \in l.flags
    IN /\ pc[th] = "apply"
       /\ \/ cancel /\ cancelled /\ Panic
          \/ /\ \/ cancel /\ ~cancelled /\ CancelTask(th)
                \/ ~cancel /\ ~pausing /\ RescheduleTask(th)
                \/ /\ ~cancel /\ pausing
                   /\ GoWith(th, "uncount", [l EXCEPT !.again = "Resumed" \in l.flags])
                   /\ UNCHANGED <<paused, sleeping, flags, effective>>
             /\ UNCHANGED <<state, guard, renewed, sem, ready, size, mutex, timer, fetchReady,
                            stop, envVars, fault>>

UncountRemoved(th) ==
    LET l == loc[th]
        toggle == th = Loop /\ l.again /\ ~l.second
    IN /\ pc[th] = "uncount"
       /\ size' = size - 1
       /\ fetchReady' = IF toggle THEN ~fetchReady ELSE fetchReady
       /\ IF th # Loop THEN GoWith(th, "update", KeepRequest(th))
          ELSE IF l.again THEN GoWith(th, "clear", KeepTask(th)) ELSE NextReady
       /\ UNCHANGED <<taskVars, ready, sleeping, paused, mutex, timer, stop, envVars, fault>>

-----------------------------------------------------------------------------
(* complete_task_() *)

StartCompleting(th) ==
    LET t == Task(th)
    IN /\ pc[th] = "complete"
       /\ state' = [state EXCEPT ![t] = IF @ = loc[th].from THEN "Completing" ELSE @]
       /\ Go(th, "take")
       /\ UNCHANGED <<flags, guard, renewed, effective, sem, queueVars, envVars, fault>>

TakeSemaphore(th) ==
    LET t == Task(th)
    IN /\ pc[th] = "take"
       /\ sem' = [sem EXCEPT ![t].set = FALSE]
       /\ GoWith(th, "finish", [loc[th] EXCEPT !.took = sem[t].set])
       /\ UNCHANGED <<state, flags, guard, renewed, effective, queueVars, envVars, fault>>

AfterComplete(th) ==
    LET l == loc[th]
    IN IF l.from = "Cancelling" THEN GoWith(th, "uncount", [l EXCEPT !.took = FALSE])
       ELSE IF l.again THEN GoWith(th, "reborn", [KeepTask(th) EXCEPT !.from = "Completed"])
       ELSE Fetch

FinishCompleting(th) ==
    LET t == Task(th)
        done == state[t] = "Completing"
    IN /\ pc[th] = "finish"
       /\ state' = [state EXCEPT ![t] = IF done THEN "Completed" ELSE @]
       /\ sem' = [sem EXCEPT ![t].set = @ \/ (loc[th].took /\ ~done)]
       /\ IF loc[th].took /\ done THEN Go(th, "post") ELSE AfterComplete(th)
       /\ UNCHANGED <<flags, guard, renewed, effective, queueVars, envVars, fault>>

PostSemaphore(th) ==
    /\ pc[th] = "post"
    /\ sem' = [sem EXCEPT ![Task(th)].count = @ + 1]
    /\ AfterComplete(th)
    /\ UNCHANGED <<state, flags, guard, renewed, effective, queueVars, envVars, fault>>

-----------------------------------------------------------------------------
(* update_wakeup_timer_() and wakeup_timer_.try_set_deadline() *)

UpdateTimer(th) ==
    LET d == IF size # 0 THEN 0
             ELSE IF sleeping # <<>> THEN effective[Head(sleeping)].deadline ELSE -1
    IN /\ pc[th] = "update"
       /\ GoWith(th, "set", [loc[th] EXCEPT !.wakeup = d])
       /\ UNCHANGED <<taskVars, queueVars, envVars, fault>>

AfterSet(th) == IF loc[th].wakeup # 0 THEN "verify" ELSE "updated"

BeginSetDeadline(th) ==
    /\ pc[th] = "set"
    /\ IF timer.by = None THEN timer' = [timer EXCEPT !.by = th] /\ Go(th, "setting")
                          ELSE Go(th, AfterSet(th)) /\ UNCHANGED timer
    /\ UNCHANGED <<taskVars, ready, size, sleeping, paused, mutex, fetchReady, stop, envVars,
                   fault>>

EndSetDeadline(th) ==
    /\ pc[th] = "setting"
    /\ timer' = [deadline |-> loc[th].wakeup, by |-> None]
    /\ Go(th, AfterSet(th))
    /\ UNCHANGED <<taskVars, ready, size, sleeping, paused, mutex, fetchReady, stop, envVars,
                   fault>>

(* Mutant: new ready tasks are not looked for once the timer is set. *)
VerifyNothing(th) ==
    /\ pc[th] = "verify"
    /\ Go(th, "updated")
    /\ UNCHANGED <<taskVars, queueVars, envVars, fault>>

VerifyTimer(th) ==
    /\ pc[th] = "verify"
    /\ IF size # 0 THEN GoWith(th, "set", [loc[th] EXCEPT !.wakeup = 0]) ELSE Go(th, "updated")
    /\ UNCHANGED <<taskVars, queueVars, envVars, fault>>

(* The event loop goes on with its tasks, or back to run(); in-place renewal unlocks
   the mutex; and the call that woke the event loop returns. *)
ContinueUpdated(th) ==
    LET again == th = Loop /\ loc[th].wakeup = 0
    IN /\ pc[th] = "updated"
       /\ mutex' = IF mutex = th /\ ~again THEN None ELSE mutex
       /\ IF th # Loop THEN Finish(th)
          ELSE IF again THEN Fetch
          ELSE GoWith(th, IF stop THEN "exited" ELSE "wait", NoLocals)
       /\ UNCHANGED <<taskVars, ready, size, sleeping, paused, timer, fetchReady, stop, envVars,
                      fault>>

-----------------------------------------------------------------------------
(* The event loop thread: run(), process_tasks_() and fetch_task_(). *)

WaitDeadline ==
    /\ pc[Loop] = "wait"
    /\ timer.by = None /\ timer.deadline \in 0..now
    /\ Go(Loop, "lock")
    /\ UNCHANGED <<taskVars, queueVars, envVars, fault>>

LockTasks ==
    /\ pc[Loop] = "lock" /\ mutex = None
    /\ mutex' = Loop
    /\ Fetch
    /\ UNCHANGED <<taskVars, ready, size, sleeping, paused, timer, fetchReady, stop, envVars,
                   fault>>

\* One of the two queues gave no task: try the other one, or update the timer.
FetchedNone(other) ==
    IF loc[Loop].second THEN GoWith(Loop, "update", NoLocals)
                        ELSE GoWith(Loop, other, [NoLocals EXCEPT !.second = TRUE])

(* fetch_ready_task_() *)
PopReady ==
    /\ pc[Loop] = "pop" /\ ready # <<>>
    /\ ready' = Tail(ready)
    /\ GoWith(Loop, "load", [loc[Loop] EXCEPT !.task = Head(ready), !.flags = flags[Head(ready)]])
    /\ UNCHANGED <<taskVars, size, sleeping, paused, mutex, timer, fetchReady, stop, envVars,
                   fault>>

PopNone ==
    /\ pc[Loop] = "pop"
    /\ ready = <<>> \/ \E c \in Clients : pc[c] = "push"
    /\ FetchedNone("front")
    /\ UNCHANGED <<taskVars, queueVars, envVars, fault>>

LoadDeadline ==
    LET t == Task(Loop)
        r == renewed[t]
    IN /\ pc[Loop] = "load"
       /\ ready' = IF r.writing THEN Append(ready, t) ELSE ready
       /\ IF r.writing THEN NextReady
          ELSE GoWith(Loop, "renew",
                      [loc[Loop] EXCEPT !.deadline = r.deadline, !.version = r.version])
       /\ UNCHANGED <<taskVars, size, sleeping, paused, mutex, timer, fetchReady, stop, envVars,
                      fault>>

(* Mutant: the renewed parameters are used without being checked again. *)
RecheckNothing ==
    /\ pc[Loop] = "recheck"
    /\ Go(Loop, "apply")
    /\ UNCHANGED <<taskVars, queueVars, envVars, fault>>

RecheckRenewed ==
    LET l == loc[Loop]
        r == renewed[l.task]
        same == ~r.writing /\ r.version = l.version /\ flags[l.task] = l.flags
    IN /\ pc[Loop] = "recheck"
       /\ Go(Loop, IF same THEN "apply" ELSE "undo")
       /\ UNCHANGED <<taskVars, queueVars, envVars, fault>>

(* Mutant: the task goes back without being counted again. *)
UndoUncounted ==
    LET t == Task(Loop)
        undo == state[t] = loc[Loop].from
    IN /\ pc[Loop] = "undo"
       /\ state' = IF undo THEN [state EXCEPT ![t] = "Ready"] ELSE state
       /\ ready' = IF undo THEN Append(ready, t) ELSE ready
       /\ NextReady
       /\ UNCHANGED <<flags, guard, renewed, effective, sem, size, sleeping, paused, mutex, timer,
                      fetchReady, stop, envVars, fault>>

(* Back to ready_queue_, unless another thread has put the task there. *)
UndoRenewal ==
    LET t == Task(Loop)
        undo == state[t] = loc[Loop].from
    IN /\ pc[Loop] = "undo"
       /\ state' = IF undo THEN [state EXCEPT ![t] = "Ready"] ELSE state
       /\ ready' = IF undo THEN Append(ready, t) ELSE ready
       /\ size' = IF undo THEN size ELSE size - 1
       /\ NextReady
       /\ UNCHANGED <<flags, guard, renewed, effective, sem, sleeping, paused, mutex, timer,
                      fetchReady, stop, envVars, fault>>

(* fetch_sleeping_task_() *)
FrontSleeping ==
    LET t == Head(sleeping)
    IN /\ pc[Loop] = "front"
       /\ IF sleeping # <<>> /\ effective[t].deadline <= now
          THEN /\ sleeping' = Tail(sleeping)
               /\ GoWith(Loop, "awake", [loc[Loop] EXCEPT !.task = t])
          ELSE FetchedNone("pop") /\ UNCHANGED sleeping
       /\ UNCHANGED <<taskVars, ready, size, paused, mutex, timer, fetchReady, stop, envVars, fault>>

AwakeSleeping ==
    LET t == Task(Loop)
        woken == state[t] = "Sleeping"
    IN /\ pc[Loop] = "awake"
       /\ state' = IF woken THEN [state EXCEPT ![t] = "Processing"] ELSE state
       /\ fetchReady' = IF woken /\ ~loc[Loop].second THEN ~fetchReady ELSE fetchReady
       /\ IF woken THEN GoWith(Loop, "clear", KeepTask(Loop)) ELSE FetchedNone("pop")
       /\ UNCHANGED <<flags, guard, renewed, effective, sem, ready, size, sleeping, paused, mutex,
                      timer, stop, envVars, fault>>

-----------------------------------------------------------------------------
(* execute_task_() *)

ClearFlags ==
    LET t == Task(Loop)
    IN /\ pc[Loop] = "clear"
       /\ \/ effective[t].deadline < 0 /\ Panic
          \/ /\ effective[t].deadline >= 0
             /\ flags' = [flags EXCEPT ![t] = @ \ {"Succeeded", "Cancelled", "Resumed"}]
             /\ Go(Loop, "execute")
             /\ UNCHANGED <<state, guard, renewed, effective, sem, queueVars, envVars, fault>>

(* The task succeeded or failed. *)
ExecuteDone ==
    /\ pc[Loop] = "execute"
    /\ \E f \in {{"Succeeded"}, {}} : flags' = [flags EXCEPT ![Task(Loop)] = f]
    /\ Go(Loop, "renewed")
    /\ UNCHANGED <<state, guard, renewed, effective, sem, queueVars, envVars, fault>>

CheckRenewed ==
    LET t == Task(Loop)
        r == renewed[t]
    IN /\ pc[Loop] = "renewed"
       /\ GoWith(Loop, "complete", [KeepTask(Loop) EXCEPT !.from = "Processing",
            !.again = ~r.writing /\ r.version # effective[t].version /\ r.deadline >= 0])
       /\ UNCHANGED <<taskVars, queueVars, envVars, fault>>

(* The task starts an asynchronous operation, ... *)
ExecuteOperation ==
    LET t == Task(Loop)
    IN /\ "pause" \in Results /\ pc[Loop] = "execute"
       /\ PauseAgain \/ t \notin paused
       /\ operation' = operation \cup {t}
       /\ Go(Loop, "pause")
       /\ UNCHANGED <<taskVars, queueVars, calls, now, fault>>

(* ... and returns ControlTaskPause. *)
MarkPaused ==
    /\ pc[Loop] = "pause"
    /\ flags' = [flags EXCEPT ![Task(Loop)] = @ \cup {"Paused"}]
    /\ Go(Loop, "park")
    /\ UNCHANGED <<state, guard, renewed, effective, sem, queueVars, envVars, fault>>

(* pause_task_() *)
PauseTask ==
    LET t == Task(Loop)
        linked == t \in paused \/ Contains(sleeping, t)
    IN /\ pc[Loop] = "park"
       /\ \/ linked /\ Panic
          \/ /\ ~linked
             /\ state' = [state EXCEPT ![t] = IF @ = "Processing" THEN "Sleeping" ELSE @]
             /\ paused' = paused \cup {t}
             /\ Go(Loop, "cancelled")
             /\ UNCHANGED <<flags, guard, renewed, effective, sem, ready, size, sleeping, mutex,
                            timer, fetchReady, stop, envVars, fault>>

CheckCancelled ==
    LET r == renewed[Task(Loop)]
        cancelled == ~r.writing /\ r.deadline < 0
    IN /\ pc[Loop] = "cancelled"
       /\ IF cancelled THEN GoWith(Loop, "reborn", [KeepTask(Loop) EXCEPT !.from = "Processing"])
                       ELSE Fetch
       /\ UNCHANGED <<taskVars, queueVars, envVars, fault>>

(* The task returns ControlTaskContinue. *)
ExecuteContinue ==
    /\ "continue" \in Results /\ pc[Loop] = "execute"
    /\ flags' = [flags EXCEPT ![Task(Loop)] = @ \ {"Paused"}]
    /\ GoWith(Loop, "reborn", [KeepTask(Loop) EXCEPT !.from = "Processing"])
    /\ UNCHANGED <<state, guard, renewed, effective, sem, queueVars, envVars, fault>>

(* reborn_task_(); nobody but the owner of task_mutex_ relies on ready_queue_size_. *)
RebornTask ==
    LET t == Task(Loop)
        reborn == state[t] = loc[Loop].from
    IN /\ pc[Loop] = "reborn"
       /\ state' = IF reborn THEN [state EXCEPT ![t] = "Ready"] ELSE state
       /\ size' = IF reborn THEN size + 1 ELSE size
       /\ ready' = IF reborn THEN Append(ready, t) ELSE ready
       /\ Fetch
       /\ UNCHANGED <<flags, guard, renewed, effective, sem, sleeping, paused, mutex, timer,
                      fetchReady, stop, envVars, fault>>

-----------------------------------------------------------------------------
(* stop_thread_(): "All tasks should be completed before calling stop_and_wait()", and so
   should the rescheduling of a task that was postponed because it was paused. *)
StopThread(c) ==
    /\ ~stop
    /\ \A x \in Clients : pc[x] = "idle"
    /\ \A t \in Tasks :
          /\ state[t] = "Completed"
          /\ renewed[t].version = effective[t].version \/ renewed[t].deadline < 0
    /\ operation = {}
    /\ stop' = TRUE
    /\ GoWith(c, "set", NoLocals)
    /\ UNCHANGED <<taskVars, ready, size, sleeping, paused, mutex, timer, fetchReady, envVars,
                   fault>>

Tick ==
    /\ now < MaxTime
    /\ now' = now + 1
    /\ UNCHANGED <<taskVars, queueVars, calls, operation, pc, loc, fault>>

(* What the owner of task_mutex_ or a call in progress does next. *)
Common(th) ==
    \/ RenewState(th) \/ RenewScheduling(th) \/ UncountRemoved(th)
    \/ StartCompleting(th) \/ TakeSemaphore(th) \/ FinishCompleting(th) \/ PostSemaphore(th)
    \/ UpdateTimer(th) \/ BeginSetDeadline(th) \/ EndSetDeadline(th) \/ VerifyTimer(th)
    \/ ContinueUpdated(th)

ClientStep(c) ==
    \/ ReleaseGuard(c) \/ BeginStore(c) \/ EndStore(c) \/ CancelSleeping(c)
    \/ CheckPaused(c) \/ MarkReady(c) \/ CountReady(c) \/ Push(c) \/ TryLock(c)
    \/ RenewInPlace(c) \/ MarkResumed(c)
    \/ AttachSemaphore(c) \/ SpinCompleting(c) \/ TestState(c) \/ TestSemaphore(c) \/ Block(c)
    \/ DetachSemaphore(c)
    \/ Common(c)

LoopStep ==
    \/ WaitDeadline \/ LockTasks \/ PopReady \/ PopNone \/ LoadDeadline
    \/ RecheckRenewed \/ UndoRenewal \/ FrontSleeping \/ AwakeSleeping
    \/ ClearFlags \/ ExecuteDone \/ CheckRenewed
    \/ ExecuteOperation \/ MarkPaused \/ PauseTask \/ CheckCancelled
    \/ ExecuteContinue \/ RebornTask
    \/ Common(Loop)

Next ==
    /\ ~fault
    /\ \/ LoopStep \/ Tick
       \/ \E c \in Clients :
             ClientStep(c) \/ Schedule(c) \/ AsyncCancel(c) \/ Resume(c) \/ Wait(c) \/ StopThread(c)

Spec == Init /\ [][Next]_vars

(* The threads run, time passes, operations end, and a task does not return
   ControlTaskContinue forever. *)
FairSpec ==
    /\ Spec
    /\ WF_vars(~fault /\ LoopStep)
    /\ SF_vars(~fault /\ ExecuteDone)
    /\ \A c \in Clients : WF_vars(~fault /\ ClientStep(c)) /\ WF_vars(~fault /\ Resume(c))
    /\ WF_vars(~fault /\ Tick)

-----------------------------------------------------------------------------
Labels ==
    {"idle", "release", "store", "stored", "cancel", "schedule", "exchange", "count",
     "push", "trylock", "inplace", "resume", "attach", "spin", "test state", "test semaphore",
     "block", "detach", "renew", "apply", "uncount", "complete", "take", "finish", "post",
     "update", "set", "setting", "verify", "updated", "wait", "exited", "lock", "pop",
     "front", "load", "recheck", "undo", "awake", "clear", "execute", "renewed",
     "pause", "park", "cancelled", "reborn"}

Flags == {"Succeeded", "Paused", "Resumed", "Cancelled"}

(* Type correctness; in particular a semaphore is posted at most once per wait, and
   ready_queue_size_ is never negative. *)
TypeOK ==
    /\ state \in [Tasks -> States]
    /\ flags \in [Tasks -> SUBSET Flags]
    /\ guard \in [Tasks -> BOOLEAN]
    /\ renewed \in [Tasks -> [deadline : -1..MaxTime, version : Nat, writing : BOOLEAN]]
    /\ effective \in [Tasks -> [deadline : -1..MaxTime, version : Nat]]
    /\ sem \in [Tasks -> [set : BOOLEAN, count : 0..1]]
    /\ Range(ready) \subseteq Tasks /\ size \in Nat
    /\ Range(sleeping) \subseteq Tasks /\ paused \subseteq Tasks
    /\ mutex \in Threads \cup {None}
    /\ timer \in [deadline : -1..MaxTime, by : Threads \cup {None}]
    /\ {fetchReady, stop, fault} \subseteq BOOLEAN
    /\ pc \in [Threads -> Labels]
    /\ loc \in [Threads -> [task : Tasks \cup {None}, deadline : -1..MaxTime, version : Nat,
                            flags : SUBSET Flags, from : States, took : BOOLEAN,
                            again : BOOLEAN, second : BOOLEAN, wakeup : -1..MaxTime]]
    /\ calls \in [Clients -> Nat] /\ \A c \in Clients : calls[c] <= MaxCalls[c]
    /\ operation \subseteq Tasks
    /\ now \in 0..MaxTime

(* None of the checks that guard the queue against its own mistakes fails: renew_state_()
   finds the task in StateReady, cancel_task_() finds it not cancelled yet, execute_task_()
   does not get a cancelled task, and a list gets a task that is in no list. *)
NeverPanics == ~fault

\* The thread holds a task between the moment it counted it or popped it, and the moment
\* it pushes or uncounts it.
Renewing(th) ==
    \/ pc[th] \in {"renew", "recheck", "undo", "apply", "uncount"}
    \/ pc[th] \in {"complete", "take", "finish", "post"} /\ loc[th].from = "Cancelling"
Counted(th) == Renewing(th) \/ pc[th] \in {"push", "trylock", "inplace", "load"}

(* ready_queue_size_ is exact: the tasks in the queue, those a thread has counted and is
   about to push, and those that were popped or renewed in-place and are not uncounted yet.
   So it is zero only if there is nothing to do, which lets the event loop sleep. *)
ReadyQueueSizeExact == size = Len(ready) + Cardinality({th \in Threads : Counted(th)})

(* A task in StateReady is in exactly one place: in the queue, once, or in the hands of
   one thread; and a task in another state is in none.  So it is never pushed into the
   intrusive queue twice. *)
ReadyInOnePlace ==
    \A t \in Tasks :
        LET places == {i \in DOMAIN ready : ready[i] = t}
            holders == {th \in Threads : Task(th) = t /\ pc[th] \in
                          {"count", "push", "trylock", "inplace", "load", "renew"}}
        IN Cardinality(places) + Cardinality(holders) = (IF state[t] = "Ready" THEN 1 ELSE 0)

Quiet == pc[Loop] = "wait" /\ \A c \in Clients : pc[c] = "idle"

(* When all calls have returned and the event loop sleeps, it will wake up for every task:
   at once if there is something in the queue, and by the earliest deadline otherwise;
   and every sleeping task is in the list where its deadline or its resume will find it. *)
NobodyOversleeps ==
    Quiet =>
        /\ size > 0 => timer.deadline = 0
        /\ \A i \in DOMAIN sleeping : timer.deadline \in 0..effective[sleeping[i]].deadline
        /\ \A t \in Tasks : state[t] = "Sleeping" =>
              IF "Paused" \in flags[t] THEN t \in paused ELSE Contains(sleeping, t)

(* When all calls have returned and the queue is empty, the last request of every task
   was applied: its deadline is the effective one, or it came too late to cancel the
   task, or the task is paused, which postpones a new deadline. *)
NoRequestLost ==
    Quiet /\ size = 0 =>
        \A t \in Tasks :
            \/ effective[t].version = renewed[t].version
            \/ renewed[t].deadline < 0 /\ state[t] = "Completed"
            \/ renewed[t].deadline >= 0 /\ "Paused" \in flags[t]

(* wait() "Blocks until the task is completed or canceled", if nobody but the waiting
   thread schedules the task. *)
WaitReturnsCompleted == \A c \in Waiters : pc[c] = "detach" => state[Task(c)] = "Completed"

(* async_cancel(): "After the task execution, if the task asked to pause or continue, then
   cancellation request is fulfilled and the task is canceled": once the event loop sleeps,
   no paused task has a cancellation to be fulfilled. *)
CancelIsFulfilled ==
    Quiet /\ size = 0 =>
        \A t \in Tasks : "Paused" \in flags[t] => renewed[t].deadline >= 0

(* StateCompleted: "task is completed and is not used anywhere; it may be safely destroyed
   or reused": ~ListNode() aborts if the task is still in a list. *)
CompletedIsUnlinked ==
    \A t \in Tasks : state[t] = "Completed" => t \notin paused /\ ~Contains(sleeping, t)

(* schedule_at(): "If the task is already completed, it's scheduled with given deadline":
   a call for a task that was completed after the last request is not dropped.  (For
   clients that only schedule, and a single task.) *)
CompletedIsSchedulable ==
    [][\A c \in Clients, t \in Tasks :
          calls'[c] # calls[c] /\ state[t] = "Completed"
          /\ ~renewed[t].writing /\ renewed[t].version = effective[t].version
          /\ renewed[t].version > 0 => pc'[c] # "idle"]_vars

(* wait(): "Blocks until the task is completed or canceled": when no call is in progress,
   the semaphore has no post left over, which would end the next wait() at once. *)
NoPostLeftOver == Quiet => \A t \in Tasks : sem[t].count = 0

(* A task that was scheduled is completed or cancelled. *)
ScheduledCompletes == \A t \in Tasks : state[t] # "Completed" ~> state[t] = "Completed"

(* wait() returns. *)
WaitFinishes == \A c \in Waiters : pc[c] = "attach" ~> pc[c] = "idle"

(* The destructor can join the event loop thread. *)
StopFinishes == stop ~> pc[Loop] = "exited"
=============================================================================
