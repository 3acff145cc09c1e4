----------------------------- MODULE MCControl -----------------------------
(***************************************************************************)
(* The control task queue in five settings, side by side for TLC: every    *)
(* behaviour is one of the part that the initial state selects.            *)
(***************************************************************************)
EXTENDS Naturals, TLC

CONSTANTS
    t1, c1, c2,         \* the task and the clients of the settings where roles differ
    t3, t4, c3, c4,     \* those of the settings where they may be exchanged
    None

VARIABLES
    part,
    state, flags, guard, renewed, effective, sem, ready, size, sleeping, paused, mutex, timer,
    fetchReady, stop, pc, loc, calls, operation, now, fault

TwoAndOne == c1 :> 2 @@ c2 :> 1
TwoAndNone == c1 :> 2 @@ c2 :> 0
OneAndNone == c1 :> 1 @@ c2 :> 0

\* Both clients schedule and cancel the same task, which may ask to be continued.
Shared == INSTANCE ControlTaskQueue WITH
    Tasks <- {t3}, Clients <- {c3, c4}, Schedulers <- {c3, c4}, Cancellers <- {c3, c4},
    Waiters <- {}, Resumers <- {}, MaxCalls <- [c \in {c3, c4} |-> 2], MaxTime <- 1,
    Results <- {"continue"}, PauseAgain <- FALSE, Completer <- FALSE

\* One client schedules the task and waits for it, the other one cancels it.
Owned == INSTANCE ControlTaskQueue WITH
    Tasks <- {t1}, Clients <- {c1, c2}, Schedulers <- {c1}, Cancellers <- {c2},
    Waiters <- {c1}, Resumers <- {}, MaxCalls <- TwoAndOne, MaxTime <- 1,
    Results <- {}, PauseAgain <- FALSE, Completer <- FALSE

\* The task pauses, once per schedule(), and the other client resumes it.
Paused == INSTANCE ControlTaskQueue WITH
    Tasks <- {t1}, Clients <- {c1, c2}, Schedulers <- {c1}, Cancellers <- {},
    Waiters <- {c1}, Resumers <- {c2}, MaxCalls <- TwoAndNone, MaxTime <- 0,
    Results <- {"pause"}, PauseAgain <- FALSE, Completer <- TRUE

\* The same with deadlines, for one call.
Delayed == INSTANCE ControlTaskQueue WITH
    Tasks <- {t1}, Clients <- {c1, c2}, Schedulers <- {c1}, Cancellers <- {},
    Waiters <- {c1}, Resumers <- {c2}, MaxCalls <- OneAndNone, MaxTime <- 1,
    Results <- {"pause"}, PauseAgain <- FALSE, Completer <- TRUE

\* Two tasks with deadlines.
Two == INSTANCE ControlTaskQueue WITH
    Tasks <- {t3, t4}, Clients <- {c3, c4}, Schedulers <- {c3, c4}, Cancellers <- {},
    Waiters <- {}, Resumers <- {}, MaxCalls <- [c \in {c3, c4} |-> 1], MaxTime <- 1,
    Results <- {}, PauseAgain <- FALSE, Completer <- FALSE

queueVars == <<state, flags, guard, renewed, effective, sem, ready, size, sleeping, paused, mutex,
               timer, fetchReady, stop, pc, loc, calls, operation, now, fault>>

ControlInit ==
    \/ part = "shared" /\ Shared!Init
    \/ part = "owned" /\ Owned!Init
    \/ part = "paused" /\ Paused!Init
    \/ part = "two" /\ Two!Init

ControlNext ==
    /\ UNCHANGED part
    /\ \/ part = "shared" /\ Shared!Next
       \/ part = "owned" /\ Owned!Next
       \/ part = "paused" /\ Paused!Next
       \/ part = "two" /\ Two!Next
       \/ part = "delayed" /\ Delayed!Next

ControlSpec == ControlInit /\ [][ControlNext]_<<part, queueVars>>

\* The task that pauses, with and without a deadline, and the fairness of the queue.
PausedInit ==
    \/ part = "paused" /\ Paused!Init
    \/ part = "delayed" /\ Delayed!Init
PausedSpec ==
    /\ PausedInit /\ [][ControlNext]_<<part, queueVars>>
    /\ WF_queueVars(~fault /\ Paused!LoopStep)
    /\ SF_queueVars(~fault /\ Paused!ExecuteDone)
    /\ \A c \in {c1, c2} :
          WF_queueVars(~fault /\ Paused!ClientStep(c)) /\ WF_queueVars(~fault /\ Paused!Resume(c))
    /\ WF_queueVars(part = "delayed" /\ ~fault /\ Delayed!Tick)

Symmetry == Permutations({c3, c4}) \cup Permutations({t3, t4})

-----------------------------------------------------------------------------

\* The invariant of the instance that the part is one of.
InEveryPart(shared, owned, paused_, two) ==
    CASE part = "shared" -> shared
      [] part = "owned" -> owned
      [] part = "paused" -> paused_
      [] part = "two" -> two

\* The sleeping event loop will wake up for every task; none of the queue's internal checks
\* panics; a task in StateReady is in exactly one place, and ready_queue_size_ counts exactly
\* the tasks that are to be renewed.
QueueNobodyOversleeps ==
    /\ ~fault
    /\ InEveryPart(Shared!TypeOK, Owned!TypeOK, Paused!TypeOK, Two!TypeOK)
    /\ InEveryPart(Shared!NobodyOversleeps, Owned!NobodyOversleeps,
                   Paused!NobodyOversleeps, Two!NobodyOversleeps)
    /\ InEveryPart(Shared!ReadyInOnePlace, Owned!ReadyInOnePlace,
                   Paused!ReadyInOnePlace, Two!ReadyInOnePlace)
    /\ InEveryPart(Shared!ReadyQueueSizeExact, Owned!ReadyQueueSizeExact,
                   Paused!ReadyQueueSizeExact, Two!ReadyQueueSizeExact)

\* The last request of every task is applied, and wait() returns when the task is
\* completed or cancelled.
QueueNoRequestLost ==
    /\ InEveryPart(Shared!NoRequestLost, Owned!NoRequestLost,
                   Paused!NoRequestLost, Two!NoRequestLost)
    /\ part = "owned" => Owned!WaitReturnsCompleted

\* A scheduled task completes, wait() returns, and the destructor joins the event loop
\* thread.
QueueProgress == Paused!ScheduledCompletes /\ Paused!WaitFinishes /\ Paused!StopFinishes
=============================================================================
