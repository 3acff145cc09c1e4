---------------------------- MODULE NetworkLoop ----------------------------
(***************************************************************************)
(* netio::NetworkLoop: threads schedule tasks, the network thread runs     *)
(* them, ports close asynchronously, and the destructor stops the thread.  *)
(* A port is what UdpPort and TcpConnection show it to be: async_close()   *)
(* either completes at once or is completed by a later callback.  A task   *)
(* that adds a port names it.  schedule_and_wait() is schedule() whose     *)
(* completion wakes the caller.                                            *)
(***************************************************************************)
EXTENDS Naturals, Sequences

CONSTANTS
    Tasks,          \* task objects; each is scheduled at most once
    PendingAtStop   \* the loop may be destroyed while tasks are pending

VARIABLES
    state,      \* NetworkTask::state_, and "Pushing" inside schedule()
    kind,       \* what the task does: "add", "remove", "resolve", "start"
    target,     \* the port that a task removes or uses, named by the task that added it
    success,    \* success_
    finished,   \* how often the completer was called
    queue,      \* pending_tasks_
    signals,    \* uv_async_send() calls not yet answered: "task", "stop"
    sems,       \* task_sem_initialized_ and stop_sem_initialized_
    openPorts, closingPorts,    \* open_ports_ and closing_ports_
    live,       \* ports with an open or closing handle of libuv
    resolving,  \* tasks that wait for uv_getaddrinfo()
    npc,        \* the network thread: "idle", "tasks" in process_pending_tasks_, "ended"
    dtor,       \* the destructor: "none", "stopping", "done"
    fault

tasks == <<state, kind, target, success, finished>>
ports == <<openPorts, closingPorts, live, resolving>>
vars == <<state, kind, target, success, finished, queue, signals, sems, openPorts,
          closingPorts, live, resolving, npc, dtor, fault>>

Init ==
    /\ state = [t \in Tasks |-> "Initialized"]
    /\ kind = [t \in Tasks |-> "start"]
    /\ target = [t \in Tasks |-> t]
    /\ success = [t \in Tasks |-> FALSE]
    /\ finished = [t \in Tasks |-> 0]
    /\ queue = <<>> /\ signals = {} /\ sems = {"task", "stop"}
    /\ openPorts = {} /\ closingPorts = {} /\ live = {} /\ resolving = {}
    /\ npc = "idle" /\ dtor = "none" /\ fault = FALSE

-----------------------------------------------------------------------------
(* Threads that use the loop. *)

\* A port handle comes from a task that finished with success.
Handles == {a \in Tasks : kind[a] = "add" /\ state[a] = "Finished" /\ success[a]}

\* Each port is used and removed by its owner, one task at a time.
Free(p) ==
    \A t \in Tasks : ~(target[t] = p /\ t # p /\ kind[t] = "remove")
                     /\ (target[t] = p /\ t # p => state[t] = "Finished")

Schedule(t, k, p) ==
    /\ dtor = "none" /\ state[t] = "Initialized"
    /\ k \in {"add", "resolve"} => p = t
    /\ k \in {"remove", "start"} => p \in Handles /\ Free(p)
    /\ kind' = [kind EXCEPT ![t] = k]
    /\ target' = [target EXCEPT ![t] = p]
    /\ state' = [state EXCEPT ![t] = "Pushing"]
    /\ queue' = Append(queue, t)
    /\ UNCHANGED <<success, finished, signals, sems, ports, npc, dtor, fault>>

\* The push is complete, and the loop is woken.
Wake(t) ==
    /\ state[t] = "Pushing"
    /\ state' = [state EXCEPT ![t] = "Pending"]
    /\ signals' = signals \cup {"task"}
    /\ UNCHANGED <<kind, target, success, finished, queue, sems, ports, npc, dtor, fault>>

Destroy ==
    /\ dtor = "none"
    /\ \A t \in Tasks : state[t] # "Pushing"
    /\ PendingAtStop \/ \A t \in Tasks : state[t] \in {"Initialized", "Finished"}
    /\ dtor' = "stopping"
    /\ signals' = signals \cup {"stop"}
    /\ UNCHANGED <<tasks, queue, sems, ports, npc, fault>>

\* join() returns, then the assertions of the destructor.
Joined ==
    /\ dtor = "stopping" /\ npc = "ended"
    /\ dtor' = "done"
    /\ fault' = (openPorts # {} \/ closingPorts # {} \/ sems # {})
    /\ UNCHANGED <<tasks, queue, signals, sems, ports, npc>>

-----------------------------------------------------------------------------
(* Tasks.  Each leaves its task finished or waiting, and may fail. *)

FinishTask(t, ok) ==
    /\ state' = [state EXCEPT ![t] = "Finished"]
    /\ success' = [success EXCEPT ![t] = ok]
    /\ finished' = [finished EXCEPT ![t] = @ + 1]

WaitFor(t, s, ok) ==
    /\ state' = [state EXCEPT ![t] = s]
    /\ success' = [success EXCEPT ![t] = ok]
    /\ UNCHANGED finished

AddPort(t) ==
    /\ \/ FinishTask(t, TRUE) /\ openPorts' = openPorts \cup {t} /\ live' = live \cup {t}
          /\ UNCHANGED closingPorts
       \/ FinishTask(t, FALSE) /\ UNCHANGED <<openPorts, closingPorts, live>>
       \/ WaitFor(t, "ClosingPort", FALSE)
          /\ closingPorts' = closingPorts \cup {t} /\ live' = live \cup {t} /\ UNCHANGED openPorts
    /\ UNCHANGED <<resolving, fault>>

\* A mutant that keeps the port in open_ports_ as well.
RemoveKeepingPort(t) ==
    /\ closingPorts' = closingPorts \cup {target[t]}
    /\ WaitFor(t, "ClosingPort", TRUE)
    /\ UNCHANGED <<openPorts, live, resolving, fault>>

\* open_ports_.remove() demands that the port is in the list.
RemovePort(t) ==
    LET p == target[t] IN
    IF p \notin openPorts THEN fault' = TRUE /\ UNCHANGED <<state, success, finished, ports>>
    ELSE /\ openPorts' = openPorts \ {p}
         /\ closingPorts' = closingPorts \cup {p}
         /\ WaitFor(t, "ClosingPort", TRUE)
         /\ UNCHANGED <<live, resolving, fault>>

Resolve(t) ==
    /\ \/ \E ok \in BOOLEAN : FinishTask(t, ok) /\ UNCHANGED resolving
       \/ WaitFor(t, "Pending", FALSE) /\ resolving' = resolving \cup {t}
    /\ UNCHANGED <<openPorts, closingPorts, live, fault>>

StartUdp(t) ==
    /\ \E ok \in BOOLEAN : FinishTask(t, ok)
    /\ UNCHANGED <<ports, fault>>

RunTask(t) ==
    /\ \/ kind[t] = "add" /\ AddPort(t)
       \/ kind[t] = "remove" /\ RemovePort(t)
       \/ kind[t] = "resolve" /\ Resolve(t)
       \/ kind[t] = "start" /\ StartUdp(t)
    /\ UNCHANGED <<kind, target>>

-----------------------------------------------------------------------------
(* The network thread. *)

TaskSemCb ==
    /\ npc = "idle" /\ "task" \in signals /\ "task" \in sems
    /\ signals' = signals \ {"task"}
    /\ npc' = "tasks"
    /\ UNCHANGED <<tasks, queue, sems, ports, dtor, fault>>

\* Ports first, then the semaphores; then tasks are processed a last time.
StopSemCb ==
    /\ npc = "idle" /\ "stop" \in signals /\ "stop" \in sems
    /\ signals' = signals \ {"stop"}
    /\ closingPorts' = closingPorts \cup openPorts
    /\ openPorts' = {}
    /\ sems' = {}
    /\ npc' = "tasks"
    /\ UNCHANGED <<tasks, queue, live, resolving, dtor, fault>>

\* A task is not popped while its own push is in progress.
ProcessTask ==
    /\ npc = "tasks" /\ queue # <<>> /\ state[Head(queue)] # "Pushing"
    /\ queue' = Tail(queue)
    /\ RunTask(Head(queue))
    /\ UNCHANGED <<signals, sems, npc, dtor>>

\* try_pop_front_exclusive() returns NULL: the queue is empty, or a push is in progress.
NoMoreTasks ==
    /\ npc = "tasks"
    /\ queue = <<>> \/ \E t \in Tasks : state[t] = "Pushing"
    /\ npc' = "idle"
    /\ UNCHANGED <<tasks, queue, signals, sems, ports, dtor, fault>>

\* The task, if any, that waits for port p to be closed.
Waiting(p) == {t \in Tasks : state[t] = "ClosingPort" /\ target[t] = p}

HandleCloseCompleted(p) ==
    /\ npc = "idle" /\ p \in live \ openPorts
    /\ live' = live \ {p}
    /\ IF p \notin closingPorts THEN fault' = TRUE /\ UNCHANGED <<closingPorts, tasks>>
       ELSE /\ closingPorts' = closingPorts \ {p}
            /\ state' = [t \in Tasks |-> IF t \in Waiting(p) THEN "Finished" ELSE state[t]]
            /\ finished' = [t \in Tasks |-> finished[t] + IF t \in Waiting(p) THEN 1 ELSE 0]
            /\ UNCHANGED <<kind, target, success, fault>>
    /\ UNCHANGED <<queue, signals, sems, openPorts, resolving, npc, dtor>>

HandleResolved(t) ==
    /\ npc = "idle" /\ t \in resolving
    /\ resolving' = resolving \ {t}
    /\ \E ok \in BOOLEAN : FinishTask(t, ok)
    /\ UNCHANGED <<kind, target, queue, signals, sems, openPorts, closingPorts, live, npc,
                   dtor, fault>>

\* uv_run() returns when nothing is left to wait for.
RunReturns ==
    /\ npc = "idle" /\ sems = {} /\ live = {} /\ resolving = {}
    /\ npc' = "ended"
    /\ UNCHANGED <<tasks, queue, signals, sems, ports, dtor, fault>>

Finished == (dtor = "done" \/ fault) /\ UNCHANGED vars

-----------------------------------------------------------------------------
Network ==
    \/ TaskSemCb \/ StopSemCb \/ ProcessTask \/ NoMoreTasks \/ RunReturns
    \/ \E p \in Tasks : HandleCloseCompleted(p) \/ HandleResolved(p)

Users ==
    \/ \E t, p \in Tasks, k \in {"add", "remove", "resolve", "start"} : Schedule(t, k, p)
    \/ \E t \in Tasks : Wake(t)
    \/ Destroy \/ Joined

Next == (~fault /\ (Network \/ Users)) \/ Finished

Spec == Init /\ [][Next]_vars

\* The network thread runs, libuv completes what it was asked for, a thread
\* inside schedule() finishes it and the destructor returns from join().
FairSpec ==
    /\ Spec
    /\ WF_vars(~fault /\ (TaskSemCb \/ ProcessTask \/ NoMoreTasks \/ RunReturns))
    /\ WF_vars(~fault /\ StopSemCb)
    /\ \A p \in Tasks : SF_vars(~fault /\ (HandleCloseCompleted(p) \/ HandleResolved(p)))
    /\ \A t \in Tasks : WF_vars(~fault /\ Wake(t))
    /\ WF_vars(~fault /\ Joined)

-----------------------------------------------------------------------------
TypeOK ==
    /\ state \in [Tasks -> {"Initialized", "Pushing", "Pending", "ClosingPort", "Finished"}]
    /\ kind \in [Tasks -> {"add", "remove", "resolve", "start"}]
    /\ target \in [Tasks -> Tasks] /\ success \in [Tasks -> BOOLEAN]
    /\ finished \in [Tasks -> 0 .. 1]
    /\ queue \in Seq(Tasks)
    /\ signals \subseteq {"task", "stop"} /\ sems \subseteq {"task", "stop"}
    /\ openPorts \cup closingPorts \cup live \cup resolving \subseteq Tasks
    /\ npc \in {"idle", "tasks", "ended"} /\ dtor \in {"none", "stopping", "done"}
    /\ fault \in BOOLEAN

\* The lists and libuv agree: a port whose handle exists is in exactly one of
\* open_ports_ and closing_ports_, and a task waits for a port only while it is in
\* closing_ports_.
PortsInOneList ==
    /\ live = openPorts \cup closingPorts
    /\ openPorts \cap closingPorts = {}
    /\ \A t \in Tasks : state[t] = "ClosingPort" => target[t] \in closingPorts

\* A task is somewhere until it is finished, its completer is called once, and a port
\* handle given out by a successful task stays valid until it is removed or the loop
\* is destroyed.
TasksAccounted ==
    \A t \in Tasks :
        /\ state[t] \in {"Pushing", "Pending"} =>
              t \in resolving \/ \E i \in 1 .. Len(queue) : queue[i] = t
        /\ finished[t] = IF state[t] = "Finished" THEN 1 ELSE 0
        /\ t \in Handles /\ Free(t) /\ dtor = "none" => t \in openPorts

\* None of the assertions fails: a removed port is in open_ports_, a closed one in
\* closing_ports_, and nothing is left when the destructor has joined the thread.
NeverPanics == ~fault

-----------------------------------------------------------------------------
\* The inductive invariant, for a loop that is destroyed when its tasks are finished.
\* A task is queued once, or resolving, while it is pending;
PendingOnce ==
    /\ \A i \in 1 .. Len(queue) :
          state[queue[i]] \in {"Pushing", "Pending"} /\ queue[i] \notin resolving
    /\ \A i, j \in 1 .. Len(queue) : queue[i] = queue[j] => i = j
    /\ \A t \in resolving : state[t] = "Pending" /\ kind[t] = "resolve"

\* a port has the name of the task that added it, and is open if that was successful;
PortsAdded ==
    /\ \A p \in live : kind[p] = "add" /\ state[p] \in {"ClosingPort", "Finished"}
    /\ \A p \in openPorts : state[p] = "Finished" /\ success[p]
    /\ \A t \in Tasks : kind[t] = "add" /\ state[t] = "ClosingPort" => ~success[t]

\* the user of a port is another task than the one that added it, and only one at a time;
UsesPort(t) == kind[t] \in {"remove", "start"} /\ state[t] # "Initialized"

OneUser ==
    /\ \A t \in Tasks : IF UsesPort(t) THEN target[t] # t /\ target[t] \in Handles
                                       ELSE target[t] = t
    /\ \A t, u \in Tasks :
          t # u /\ UsesPort(t) /\ UsesPort(u) /\ target[t] = target[u] =>
              /\ state[t] = "Finished" \/ state[u] = "Finished"
              /\ kind[t] = "start" \/ kind[u] = "start"

\* a port stays open until its removal has begun;
OpenUntilRemoved ==
    dtor = "none" =>
        \A p \in Handles :
            \/ p \in openPorts
            \/ \E t \in Tasks : /\ kind[t] = "remove" /\ target[t] = p
                               /\ state[t] \in {"ClosingPort", "Finished"}

\* and how far the destructor and the network thread are.
Stopping ==
    /\ dtor # "none" => \A t \in Tasks : state[t] \in {"Initialized", "Finished"}
    /\ "stop" \in signals => dtor # "none"
    /\ sems # {} => sems = {"task", "stop"}
    /\ sems = {} => dtor # "none" /\ openPorts = {}
    /\ npc = "ended" => sems = {} /\ live = {}

LoopInv ==
    /\ TypeOK /\ NeverPanics /\ PortsInOneList /\ TasksAccounted
    /\ PendingOnce /\ PortsAdded /\ OneUser /\ OpenUntilRemoved /\ Stopping

-----------------------------------------------------------------------------
\* network_loop.h:209: the completer is invoked after the task completes; every
\* scheduled task does complete.
ScheduledFinishes ==
    \A t \in Tasks : state[t] = "Pushing" ~> (fault \/ state[t] = "Finished")

\* network_loop.h:194: the destructor stops all receivers and senders and waits until
\* the background thread finishes, so it returns.
DestructorReturns == dtor = "stopping" ~> (fault \/ dtor = "done")
=============================================================================
