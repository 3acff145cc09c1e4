-------------------------- MODULE NetworkLoopProofs --------------------------
(***************************************************************************)
(* For any number of tasks: no assertion of the network loop fails, its    *)
(* lists of ports are exact, and a task is never lost or completed twice,  *)
(* if the loop is destroyed when its tasks are finished.                   *)
(***************************************************************************)
EXTENDS NetworkLoop, TLAPS

(* Sequences *)

\* push_back() puts the task behind the others.
LEMMA AppendAt ==
    ASSUME NEW S, NEW s \in Seq(S), NEW x \in S
    PROVE  /\ Append(s, x) \in Seq(S) /\ Len(Append(s, x)) = Len(s) + 1
           /\ \A i \in 1 .. Len(s) : Append(s, x)[i] = s[i]
           /\ Append(s, x)[Len(s) + 1] = x
OBVIOUS

\* pop_front() takes the first task and keeps the order of the others.
LEMMA TailAt ==
    ASSUME NEW S, NEW s \in Seq(S), s # <<>>
    PROVE  /\ Tail(s) \in Seq(S) /\ Len(Tail(s)) = Len(s) - 1
           /\ Len(s) \in Nat \ {0} /\ Head(s) = s[1] /\ Head(s) \in S
           /\ \A i \in 1 .. Len(s) - 1 : Tail(s)[i] = s[i + 1]
OBVIOUS

-----------------------------------------------------------------------------
\* A handle whose port is not used or removed by another task is in open_ports_.
LEMMA FreeHandleIsOpen ==
    ASSUME OneUser, OpenUntilRemoved
    PROVE  \A t \in Tasks : t \in Handles /\ Free(t) /\ dtor = "none" => t \in openPorts
BY DEF OneUser, OpenUntilRemoved, UsesPort, Handles, Free

\* What TasksAccounted says besides.
Accounted ==
    \A t \in Tasks :
        /\ state[t] \in {"Pushing", "Pending"} =>
              t \in resolving \/ \E i \in 1 .. Len(queue) : queue[i] = t
        /\ finished[t] = IF state[t] = "Finished" THEN 1 ELSE 0

LEMMA AccountedEnough ==
    ASSUME OneUser, OpenUntilRemoved, Accounted
    PROVE  TasksAccounted
BY FreeHandleIsOpen, Zenon DEF Accounted, TasksAccounted

LEMMA AccountedEnoughPrime ==
    ASSUME OneUser', OpenUntilRemoved', Accounted'
    PROVE  TasksAccounted'
<1>1. \A t \in Tasks : (t \in Handles)' /\ Free(t)' /\ dtor' = "none" => t \in openPorts'
  BY DEF OneUser, OpenUntilRemoved, UsesPort, Handles, Free
<1> QED
  BY <1>1 DEF Accounted, TasksAccounted

\* Steps that change neither tasks nor ports.
LEMMA QuietKeeps ==
    ASSUME LoopInv, UNCHANGED <<tasks, queue, ports>>, dtor' = "none" => dtor = "none"
    PROVE  /\ PortsInOneList' /\ TasksAccounted' /\ PendingOnce'
           /\ PortsAdded' /\ OneUser' /\ OpenUntilRemoved'
<1> USE DEF LoopInv, tasks, ports
<1>1. PortsInOneList'
  BY DEF PortsInOneList
<1>2. TasksAccounted'
  BY DEF TasksAccounted, Handles, Free
<1>3. PendingOnce'
  BY DEF PendingOnce
<1>4. PortsAdded'
  BY DEF PortsAdded
<1>5. OneUser'
  BY DEF OneUser, UsesPort, Handles
<1>6. OpenUntilRemoved'
  BY DEF OpenUntilRemoved, Handles
<1> QED
  BY <1>1, <1>2, <1>3, <1>4, <1>5, <1>6

\* uv_async_send() was answered, the queue was empty, uv_run() has returned, and the
\* two halves of the destructor.
LEMMA QuietSteps ==
    ASSUME ~PendingAtStop, LoopInv,
           TaskSemCb \/ NoMoreTasks \/ RunReturns \/ Destroy \/ Joined
    PROVE  LoopInv'
<1>1. UNCHANGED <<tasks, queue, ports>> /\ (dtor' = "none" => dtor = "none")
  BY DEF TaskSemCb, NoMoreTasks, RunReturns, Destroy, Joined, tasks, ports
<1>2. NeverPanics'
  BY DEF LoopInv, NeverPanics, TaskSemCb, NoMoreTasks, RunReturns, Destroy, Joined,
         Stopping, PortsInOneList, TypeOK
<1>3. TypeOK'
  BY <1>2, Zenon DEF LoopInv, TypeOK, TaskSemCb, NoMoreTasks, RunReturns, Destroy, Joined, tasks, ports,
         NeverPanics
<1>4. Stopping'
  BY DEF LoopInv, Stopping, TaskSemCb, NoMoreTasks, RunReturns, Destroy, Joined, tasks, ports
<1> QED
  BY <1>1, <1>2, <1>3, <1>4, QuietKeeps DEF LoopInv

-----------------------------------------------------------------------------
\* schedule(): the second half.
LEMMA WakeStep ==
    ASSUME LoopInv, NEW t \in Tasks, Wake(t)
    PROVE  LoopInv'
<1>0. /\ state' = [state EXCEPT ![t] = "Pending"] /\ state[t] = "Pushing"
      /\ signals' = signals \cup {"task"}
      /\ UNCHANGED <<kind, target, success, finished, queue, sems, openPorts, closingPorts, live,
                     resolving, npc, dtor, fault>>
      /\ state \in [Tasks -> {"Initialized", "Pushing", "Pending", "ClosingPort", "Finished"}]
  BY DEF Wake, ports, LoopInv, TypeOK
<1>1. TypeOK' /\ NeverPanics'
  BY <1>0 DEF LoopInv, TypeOK, NeverPanics
<1>2. PortsInOneList'
  BY <1>0 DEF LoopInv, PortsInOneList
<1>3. Handles' = Handles
  BY <1>0 DEF Handles
<1>4. Accounted'
  BY <1>0 DEF LoopInv, Accounted, TasksAccounted
<1>5. PendingOnce'
  BY <1>0 DEF LoopInv, PendingOnce, TypeOK
<1>6. PortsAdded'
  BY <1>0 DEF LoopInv, PortsAdded, PortsInOneList, TypeOK
<1>7. OneUser'
  BY <1>0, <1>3 DEF LoopInv, OneUser, UsesPort
<1>8. OpenUntilRemoved'
  BY <1>0, <1>3 DEF LoopInv, OpenUntilRemoved
<1>9. Stopping'
  BY <1>0 DEF LoopInv, Stopping
<1> QED
  BY <1>1, <1>2, <1>4, <1>5, <1>6, <1>7, <1>8, <1>9, AccountedEnoughPrime DEF LoopInv

\* schedule(): the first half.
LEMMA ScheduleStep ==
    ASSUME LoopInv, NEW t \in Tasks, NEW p \in Tasks,
           NEW k \in {"add", "remove", "resolve", "start"}, Schedule(t, k, p)
    PROVE  LoopInv'
<1>0. /\ dtor = "none" /\ state[t] = "Initialized"
      /\ k \in {"add", "resolve"} => p = t
      /\ k \in {"remove", "start"} => p \in Handles /\ Free(p)
      /\ kind' = [kind EXCEPT ![t] = k]
      /\ target' = [target EXCEPT ![t] = p]
      /\ state' = [state EXCEPT ![t] = "Pushing"]
      /\ queue' = Append(queue, t)
      /\ UNCHANGED <<success, finished, signals, sems, openPorts, closingPorts, live, resolving,
                     npc, dtor, fault>>
  BY DEF Schedule, ports
<1>1. /\ state \in [Tasks -> {"Initialized", "Pushing", "Pending", "ClosingPort", "Finished"}]
      /\ kind \in [Tasks -> {"add", "remove", "resolve", "start"}]
      /\ target \in [Tasks -> Tasks]
      /\ queue \in Seq(Tasks)
      /\ openPorts \subseteq Tasks /\ closingPorts \subseteq Tasks /\ live \subseteq Tasks
      /\ resolving \subseteq Tasks
  BY DEF LoopInv, TypeOK
<1>2. /\ queue' \in Seq(Tasks) /\ Len(queue') = Len(queue) + 1 /\ Len(queue) \in Nat
      /\ \A i \in 1 .. Len(queue) : queue'[i] = queue[i]
      /\ queue'[Len(queue) + 1] = t
  BY <1>0, <1>1, AppendAt
<1>3. t \notin live /\ t \notin resolving /\ \A i \in 1 .. Len(queue) : queue[i] # t
  BY <1>0, <1>1 DEF LoopInv, PendingOnce, PortsAdded
<1>4. Handles' = Handles
  BY <1>0, <1>1 DEF Handles
<1>5. TypeOK' /\ NeverPanics'
  BY <1>0, <1>2 DEF LoopInv, TypeOK, NeverPanics
<1>6. PortsInOneList'
  BY <1>0, <1>1 DEF LoopInv, PortsInOneList
<1>7. Accounted'
  <2> SUFFICES ASSUME NEW u \in Tasks
               PROVE  /\ state'[u] \in {"Pushing", "Pending"} =>
                           u \in resolving' \/ \E i \in 1 .. Len(queue') : queue'[i] = u
                      /\ finished'[u] = IF state'[u] = "Finished" THEN 1 ELSE 0
    BY DEF Accounted
  <2>1. CASE u = t
    <3>1. Len(queue) + 1 \in 1 .. Len(queue')
      BY <1>2
    <3> QED
      BY <2>1, <3>1, <1>0, <1>1, <1>2 DEF LoopInv, TasksAccounted
  <2>2. CASE u # t
    <3>1. state'[u] = state[u] /\ finished'[u] = finished[u] /\ resolving' = resolving
      BY <2>2, <1>0, <1>1
    <3>2. ASSUME NEW i \in 1 .. Len(queue), queue[i] = u
          PROVE  \E j \in 1 .. Len(queue') : queue'[j] = u
      BY <3>2, <1>2
    <3> QED
      BY <3>1, <3>2 DEF LoopInv, TasksAccounted
  <2> QED
    BY <2>1, <2>2
<1>8. PendingOnce'
  <2>1. \A i \in 1 .. Len(queue') : i \in 1 .. Len(queue) \/ i = Len(queue) + 1
    BY <1>2
  <2>2. \A i \in 1 .. Len(queue') :
           state'[queue'[i]] \in {"Pushing", "Pending"} /\ queue'[i] \notin resolving'
    <3>1. \A i \in 1 .. Len(queue) : queue[i] \in Tasks
      BY <1>1
    <3> QED
      BY <2>1, <3>1, <1>0, <1>1, <1>2, <1>3 DEF LoopInv, PendingOnce
  <2>3. \A i, j \in 1 .. Len(queue') : queue'[i] = queue'[j] => i = j
    BY <2>1, <1>2, <1>3 DEF LoopInv, PendingOnce
  <2>4. \A u \in resolving' : state'[u] = "Pending" /\ kind'[u] = "resolve"
    BY <1>0, <1>1, <1>3 DEF LoopInv, PendingOnce
  <2> QED
    BY <2>2, <2>3, <2>4 DEF PendingOnce
<1>9. PortsAdded'
  BY <1>0, <1>1, <1>3 DEF LoopInv, PortsAdded, PortsInOneList
<1>10. OneUser'
  <2>1. \A u \in Tasks : u # t => (UsesPort(u)' <=> UsesPort(u)) /\ target'[u] = target[u]
                                   /\ state'[u] = state[u] /\ kind'[u] = kind[u]
    BY <1>0, <1>1 DEF UsesPort
  <2>2. (UsesPort(t)' <=> k \in {"remove", "start"}) /\ target'[t] = p /\ kind'[t] = k
    BY <1>0, <1>1 DEF UsesPort
  <2>3. k \in {"remove", "start"} => p # t /\ p \in Handles
    BY <1>0 DEF Handles
  <2>4. \A u \in Tasks : IF UsesPort(u)' THEN target'[u] # u /\ target'[u] \in Handles'
                                        ELSE target'[u] = u
    BY <2>1, <2>2, <2>3, <1>0, <1>4 DEF LoopInv, OneUser
  <2>5. \A u \in Tasks : u # t /\ UsesPort(u) /\ target[u] = p /\ k \in {"remove", "start"} =>
                            state[u] = "Finished" /\ kind[u] = "start"
    BY <1>0, <1>1 DEF LoopInv, OneUser, UsesPort, Free
  <2>6. ASSUME NEW u \in Tasks, NEW v \in Tasks, u # v, UsesPort(u)', UsesPort(v)',
               target'[u] = target'[v]
        PROVE  /\ state'[u] = "Finished" \/ state'[v] = "Finished"
               /\ kind'[u] = "start" \/ kind'[v] = "start"
    <3>1. CASE u = t
      BY <3>1, <2>6, <2>1, <2>2, <2>5
    <3>2. CASE v = t
      BY <3>2, <2>6, <2>1, <2>2, <2>5
    <3>3. CASE u # t /\ v # t
      BY <3>3, <2>6, <2>1 DEF LoopInv, OneUser
    <3> QED
      BY <3>1, <3>2, <3>3
  <2> QED
    BY <2>4, <2>6 DEF OneUser
<1>11. OpenUntilRemoved'
  <2>1. \A u \in Tasks : state[u] \in {"ClosingPort", "Finished"} =>
           state'[u] = state[u] /\ kind'[u] = kind[u] /\ target'[u] = target[u]
    BY <1>0, <1>1
  <2> QED
    BY <2>1, <1>0, <1>4 DEF LoopInv, OpenUntilRemoved
<1>12. Stopping'
  BY <1>0 DEF LoopInv, Stopping
<1> QED
  BY <1>5, <1>6, <1>7, <1>8, <1>9, <1>10, <1>11, <1>12, AccountedEnoughPrime DEF LoopInv

-----------------------------------------------------------------------------
\* stop_sem_cb_(): all open ports are closed, and no task is pending.
LEMMA StopStep ==
    ASSUME LoopInv, StopSemCb
    PROVE  LoopInv'
<1>0. /\ dtor # "none" /\ dtor' = dtor
      /\ closingPorts' = closingPorts \cup openPorts /\ openPorts' = {} /\ sems' = {}
      /\ npc' = "tasks" /\ signals' = signals \ {"stop"}
      /\ UNCHANGED <<state, kind, target, success, finished, queue, live, resolving, fault>>
      /\ \A t \in Tasks : state[t] \in {"Initialized", "Finished"}
  BY DEF StopSemCb, LoopInv, Stopping, tasks
<1>1. TypeOK' /\ NeverPanics'
  BY <1>0 DEF LoopInv, TypeOK, NeverPanics
<1>2. PortsInOneList'
  BY <1>0 DEF LoopInv, PortsInOneList
<1>3. Accounted'
  BY <1>0 DEF LoopInv, Accounted, TasksAccounted
<1>4. PendingOnce'
  BY <1>0 DEF LoopInv, PendingOnce
<1>5. PortsAdded'
  BY <1>0 DEF LoopInv, PortsAdded
<1>6. OneUser'
  BY <1>0 DEF LoopInv, OneUser, UsesPort, Handles
<1>7. OpenUntilRemoved'
  BY <1>0 DEF OpenUntilRemoved
<1>8. Stopping'
  BY <1>0 DEF LoopInv, Stopping
<1> QED
  BY <1>1, <1>2, <1>3, <1>4, <1>5, <1>6, <1>7, <1>8, AccountedEnoughPrime DEF LoopInv

\* handle_close_completed_(): the port leaves closing_ports_, and who waited is finished.
LEMMA CloseStep ==
    ASSUME LoopInv, NEW p \in Tasks, HandleCloseCompleted(p)
    PROVE  LoopInv'
<1>0. /\ npc = "idle" /\ p \in live /\ p \notin openPorts /\ p \in closingPorts
      /\ live' = live \ {p} /\ closingPorts' = closingPorts \ {p}
      /\ UNCHANGED <<kind, target, success, queue, signals, sems, openPorts, resolving, npc, dtor,
                     fault>>
  BY DEF HandleCloseCompleted, LoopInv, PortsInOneList
<1>f. /\ state' = [t \in Tasks |-> IF t \in Waiting(p) THEN "Finished" ELSE state[t]]
      /\ finished' = [t \in Tasks |-> finished[t] + IF t \in Waiting(p) THEN 1 ELSE 0]
  BY <1>0 DEF HandleCloseCompleted
<1>1. /\ state \in [Tasks -> {"Initialized", "Pushing", "Pending", "ClosingPort", "Finished"}]
      /\ finished \in [Tasks -> 0 .. 1] /\ queue \in Seq(Tasks)
      /\ openPorts \subseteq Tasks /\ closingPorts \subseteq Tasks /\ live \subseteq Tasks
      /\ resolving \subseteq Tasks
  BY DEF LoopInv, TypeOK
<1>2. \A t \in Tasks :
         /\ state[t] = "ClosingPort" /\ target[t] = p =>
               state'[t] = "Finished" /\ finished'[t] = finished[t] + 1
         /\ ~(state[t] = "ClosingPort" /\ target[t] = p) =>
               state'[t] = state[t] /\ finished'[t] = finished[t]
  <2>1. \A t \in Tasks : t \in Waiting(p) <=> state[t] = "ClosingPort" /\ target[t] = p
    BY DEF Waiting
  <2> HIDE DEF Waiting
  <2>2. \A t \in Tasks : /\ state'[t] = IF t \in Waiting(p) THEN "Finished" ELSE state[t]
                        /\ finished'[t] = finished[t] + IF t \in Waiting(p) THEN 1 ELSE 0
    BY <1>f
  <2>3. \A t \in Tasks : finished[t] + 0 = finished[t]
    BY <1>1
  <2> QED
    BY <2>1, <2>2, <2>3
<1>3. Accounted'
  <2>1. \A t \in Tasks : finished[t] = IF state[t] = "Finished" THEN 1 ELSE 0
    BY Zenon DEF LoopInv, TasksAccounted
  <2>2. \A t \in Tasks : finished'[t] = IF state'[t] = "Finished" THEN 1 ELSE 0
    BY <2>1, <1>2
  <2>3. \A t \in Tasks : state'[t] \in {"Pushing", "Pending"} =>
              t \in resolving' \/ \E i \in 1 .. Len(queue') : queue'[i] = t
    BY <1>0, <1>2 DEF LoopInv, TasksAccounted
  <2> QED
    BY <2>2, <2>3 DEF Accounted
<1>4. TypeOK' /\ NeverPanics'
  <2>1. \A t \in Tasks : finished'[t] \in 0 .. 1
    BY <1>3 DEF Accounted
  <2>2. finished' \in [Tasks -> 0 .. 1]
    BY <2>1, <1>f
  <2>3. state' \in [Tasks -> {"Initialized", "Pushing", "Pending", "ClosingPort", "Finished"}]
    BY <1>f, <1>1
  <2> QED
    BY <2>2, <2>3, <1>0 DEF LoopInv, TypeOK, NeverPanics
<1>5. PortsInOneList'
  BY <1>0, <1>2 DEF LoopInv, PortsInOneList
<1>6. PendingOnce'
  <2>1. \A i \in 1 .. Len(queue) : queue[i] \in Tasks
    BY <1>1
  <2> QED
    BY <2>1, <1>0, <1>1, <1>2 DEF LoopInv, PendingOnce
<1>7. PortsAdded'
  BY <1>0, <1>1, <1>2 DEF LoopInv, PortsAdded
<1>8. Handles' = Handles
  BY <1>0, <1>2 DEF Handles, LoopInv, PortsAdded
<1>9. OneUser'
  BY <1>0, <1>2, <1>8 DEF LoopInv, OneUser, UsesPort
<1>10. OpenUntilRemoved'
  BY <1>0, <1>2, <1>8 DEF LoopInv, OpenUntilRemoved
<1>11. Stopping'
  BY <1>0, <1>2 DEF LoopInv, Stopping
<1> QED
  BY <1>3, <1>4, <1>5, <1>6, <1>7, <1>9, <1>10, <1>11, AccountedEnoughPrime DEF LoopInv

\* The resolver's callback: a pending task that resolves is finished.
LEMMA ResolvedStep ==
    ASSUME LoopInv, NEW t \in Tasks, HandleResolved(t)
    PROVE  LoopInv'
<1>0. PICK ok \in BOOLEAN :
      /\ npc = "idle" /\ t \in resolving /\ resolving' = resolving \ {t}
      /\ state' = [state EXCEPT ![t] = "Finished"]
      /\ success' = [success EXCEPT ![t] = ok]
      /\ finished' = [finished EXCEPT ![t] = @ + 1]
      /\ UNCHANGED <<kind, target, queue, signals, sems, openPorts, closingPorts, live, npc,
                     dtor, fault>>
  BY Zenon DEF HandleResolved, FinishTask
<1>1. /\ state \in [Tasks -> {"Initialized", "Pushing", "Pending", "ClosingPort", "Finished"}]
      /\ success \in [Tasks -> BOOLEAN]
      /\ finished \in [Tasks -> 0 .. 1] /\ queue \in Seq(Tasks)
      /\ openPorts \subseteq Tasks /\ live \subseteq Tasks /\ resolving \subseteq Tasks
  BY DEF LoopInv, TypeOK
<1>2. /\ state[t] = "Pending" /\ kind[t] = "resolve" /\ finished[t] = 0
      /\ \A i \in 1 .. Len(queue) : queue[i] # t
      /\ t \notin live /\ t \notin openPorts
  BY <1>0 DEF LoopInv, PendingOnce, TasksAccounted, PortsAdded
<1>3. TypeOK' /\ NeverPanics'
  BY <1>0, <1>1, <1>2 DEF LoopInv, TypeOK, NeverPanics
<1>4. PortsInOneList'
  BY <1>0, <1>1 DEF LoopInv, PortsInOneList
<1>5. Accounted'
  BY <1>0, <1>1, <1>2 DEF LoopInv, Accounted, TasksAccounted
<1>6. PendingOnce'
  BY <1>0, <1>1, <1>2 DEF LoopInv, PendingOnce
<1>7. PortsAdded'
  BY <1>0, <1>1, <1>2 DEF LoopInv, PortsAdded
<1>8. Handles' = Handles
  BY <1>0, <1>1, <1>2 DEF Handles
<1>9. OneUser'
  BY <1>0, <1>1, <1>2, <1>8 DEF LoopInv, OneUser, UsesPort
<1>10. OpenUntilRemoved'
  BY <1>0, <1>1, <1>2, <1>8 DEF LoopInv, OpenUntilRemoved
<1>11. Stopping'
  BY <1>0, <1>1 DEF LoopInv, Stopping
<1> QED
  BY <1>3, <1>4, <1>5, <1>6, <1>7, <1>9, <1>10, <1>11, AccountedEnoughPrime DEF LoopInv

-----------------------------------------------------------------------------
(* process_pending_tasks_() *)

\* The task at the front of the queue is pending, in no list, and the loop is not stopping.
LEMMA FrontTask ==
    ASSUME LoopInv, queue # <<>>, state[Head(queue)] # "Pushing"
    PROVE  /\ Head(queue) \in Tasks /\ state[Head(queue)] = "Pending"
           /\ finished[Head(queue)] = 0
           /\ Head(queue) \notin resolving /\ Head(queue) \notin live
           /\ dtor = "none" /\ sems = {"task", "stop"}
           /\ \A i \in 1 .. Len(Tail(queue)) : Tail(queue)[i] # Head(queue)
<1>1. queue \in Seq(Tasks)
  BY DEF LoopInv, TypeOK
<1>2. /\ Len(Tail(queue)) = Len(queue) - 1 /\ Len(queue) \in Nat \ {0}
      /\ Head(queue) = queue[1] /\ Head(queue) \in Tasks
      /\ \A i \in 1 .. Len(queue) - 1 : Tail(queue)[i] = queue[i + 1]
  BY <1>1, TailAt
<1>3. 1 \in 1 .. Len(queue)
  BY <1>2
<1>4. state[Head(queue)] = "Pending" /\ Head(queue) \notin resolving
  BY <1>2, <1>3 DEF LoopInv, PendingOnce
<1>5. \A i \in 1 .. Len(Tail(queue)) : i + 1 \in 1 .. Len(queue) /\ i + 1 # 1
  BY <1>2
<1>6. \A i \in 1 .. Len(Tail(queue)) : Tail(queue)[i] # Head(queue)
  BY <1>2, <1>3, <1>5 DEF LoopInv, PendingOnce
<1>7. finished[Head(queue)] = 0 /\ Head(queue) \notin live
  BY <1>2, <1>4 DEF LoopInv, TasksAccounted, PortsAdded
<1>8. dtor = "none" /\ sems = {"task", "stop"}
  BY <1>2, <1>4 DEF LoopInv, Stopping
<1> QED
  BY <1>2, <1>4, <1>6, <1>7, <1>8

\* The queue without its first task, which is finished, waits for a port or resolves.
LEMMA PopKeeps ==
    ASSUME LoopInv, queue # <<>>, state[Head(queue)] # "Pushing", queue' = Tail(queue),
           NEW s \in {"Pending", "ClosingPort", "Finished"}, NEW ok \in BOOLEAN,
           state' = [state EXCEPT ![Head(queue)] = s],
           success' = [success EXCEPT ![Head(queue)] = ok],
           s = "Finished" => finished' = [finished EXCEPT ![Head(queue)] = @ + 1],
           s # "Finished" => finished' = finished,
           s = "Pending" => /\ kind[Head(queue)] = "resolve"
                            /\ resolving' = resolving \cup {Head(queue)},
           s # "Pending" => resolving' = resolving,
           kind' = kind
    PROVE  /\ PendingOnce' /\ Accounted' /\ queue' \in Seq(Tasks)
           /\ state' \in [Tasks -> {"Initialized", "Pushing", "Pending", "ClosingPort", "Finished"}]
           /\ success' \in [Tasks -> BOOLEAN] /\ finished' \in [Tasks -> 0 .. 1]
           /\ resolving' \subseteq Tasks
<1> DEFINE t == Head(queue)
<1>0. /\ t \in Tasks /\ state[t] = "Pending" /\ finished[t] = 0 /\ t \notin resolving
      /\ \A i \in 1 .. Len(Tail(queue)) : Tail(queue)[i] # t
  BY FrontTask
<1>1. /\ state \in [Tasks -> {"Initialized", "Pushing", "Pending", "ClosingPort", "Finished"}]
      /\ success \in [Tasks -> BOOLEAN] /\ finished \in [Tasks -> 0 .. 1]
      /\ queue \in Seq(Tasks) /\ resolving \subseteq Tasks
  BY DEF LoopInv, TypeOK
<1>2. /\ queue' \in Seq(Tasks) /\ Len(queue') = Len(queue) - 1 /\ Len(queue) \in Nat \ {0}
      /\ t = queue[1]
      /\ \A i \in 1 .. Len(queue') : queue'[i] = queue[i + 1] /\ i + 1 \in 1 .. Len(queue)
  BY <1>1, TailAt
<1>3. /\ state' \in [Tasks -> {"Initialized", "Pushing", "Pending", "ClosingPort", "Finished"}]
      /\ success' \in [Tasks -> BOOLEAN] /\ resolving' \subseteq Tasks
      /\ state'[t] = s /\ \A u \in Tasks : u # t => state'[u] = state[u]
  BY <1>0, <1>1
<1>4. /\ finished' \in [Tasks -> 0 .. 1] /\ \A u \in Tasks : u # t => finished'[u] = finished[u]
      /\ finished'[t] = IF s = "Finished" THEN 1 ELSE 0
  <2>1. CASE s = "Finished"
    BY <2>1, <1>0, <1>1
  <2>2. CASE s # "Finished"
    BY <2>2, <1>0, <1>1
  <2> QED
    BY <2>1, <2>2
<1>5. PendingOnce'
  <2>1. \A i \in 1 .. Len(queue') : queue'[i] \in Tasks /\ queue'[i] # t
    BY <1>0, <1>2
  <2>2. \A i \in 1 .. Len(queue') :
           state'[queue'[i]] \in {"Pushing", "Pending"} /\ queue'[i] \notin resolving'
    BY <2>1, <1>2, <1>3 DEF LoopInv, PendingOnce
  <2>3. \A i, j \in 1 .. Len(queue') : queue'[i] = queue'[j] => i = j
    <3>1. \A i, j \in 1 .. Len(queue') : i + 1 = j + 1 => i = j
      OBVIOUS
    <3> QED
      BY <3>1, <1>2 DEF LoopInv, PendingOnce
  <2>4. \A u \in resolving' : state'[u] = "Pending" /\ kind'[u] = "resolve"
    BY <1>0, <1>1, <1>3 DEF LoopInv, PendingOnce
  <2> QED
    BY <2>2, <2>3, <2>4 DEF PendingOnce
<1>6. Accounted'
  <2> SUFFICES ASSUME NEW u \in Tasks
               PROVE  /\ state'[u] \in {"Pushing", "Pending"} =>
                           u \in resolving' \/ \E i \in 1 .. Len(queue') : queue'[i] = u
                      /\ finished'[u] = IF state'[u] = "Finished" THEN 1 ELSE 0
    BY DEF Accounted
  <2>1. CASE u = t
    BY <2>1, <1>0, <1>3, <1>4
  <2>2. CASE u # t
    <3>1. finished'[u] = IF state'[u] = "Finished" THEN 1 ELSE 0
      BY <2>2, <1>3, <1>4 DEF LoopInv, TasksAccounted
    <3>2. ASSUME NEW i \in 1 .. Len(queue), queue[i] = u
          PROVE  \E j \in 1 .. Len(queue') : queue'[j] = u
      <4>1. i - 1 \in 1 .. Len(queue')
        BY <3>2, <2>2, <1>2
      <4>2. queue'[i - 1] = u
        BY <4>1, <3>2, <1>2
      <4> QED
        BY <4>1, <4>2
    <3> QED
      BY <3>1, <3>2, <2>2, <1>3 DEF LoopInv, TasksAccounted
  <2> QED
    BY <2>1, <2>2
<1> QED
  BY <1>2, <1>3, <1>4, <1>5, <1>6

\* Tasks that leave the ports alone: AddPort that fails, ResolveEndpointAddress and the
\* tasks that use a port.
LEMMA PlainStep ==
    ASSUME LoopInv, queue # <<>>, state[Head(queue)] # "Pushing",
           queue' = Tail(queue),
           NEW s \in {"Pending", "Finished"}, NEW ok \in BOOLEAN,
           state' = [state EXCEPT ![Head(queue)] = s],
           success' = [success EXCEPT ![Head(queue)] = ok],
           s = "Finished" => finished' = [finished EXCEPT ![Head(queue)] = @ + 1],
           s # "Finished" => finished' = finished,
           s = "Pending" => /\ kind[Head(queue)] = "resolve"
                            /\ resolving' = resolving \cup {Head(queue)},
           s # "Pending" => resolving' = resolving,
           kind[Head(queue)] = "add" => ~ok, kind[Head(queue)] # "remove",
           UNCHANGED <<kind, target, openPorts, closingPorts, live, fault, signals, sems, npc, dtor>>
    PROVE  LoopInv'
<1> DEFINE t == Head(queue)
<1>0. /\ t \in Tasks /\ state[t] = "Pending" /\ t \notin live
      /\ dtor = "none" /\ sems = {"task", "stop"}
  BY FrontTask
<1>1. /\ PendingOnce' /\ Accounted' /\ queue' \in Seq(Tasks)
      /\ state' \in [Tasks -> {"Initialized", "Pushing", "Pending", "ClosingPort", "Finished"}]
      /\ success' \in [Tasks -> BOOLEAN] /\ finished' \in [Tasks -> 0 .. 1]
      /\ resolving' \subseteq Tasks
  BY PopKeeps, Zenon
<1>2. /\ state'[t] = s /\ success'[t] = ok
      /\ \A u \in Tasks : u # t => state'[u] = state[u] /\ success'[u] = success[u]
      /\ openPorts \subseteq live /\ live \subseteq Tasks
  BY <1>0 DEF LoopInv, TypeOK, PortsInOneList
<1> HIDE DEF t
<1>3. TypeOK' /\ NeverPanics'
  BY <1>1 DEF LoopInv, TypeOK, NeverPanics
<1>4. PortsInOneList'
  BY <1>0, <1>2 DEF LoopInv, PortsInOneList
<1>5. PortsAdded'
  BY <1>0, <1>2 DEF LoopInv, PortsAdded
<1>6. Handles' = Handles
  <2>1. t \notin Handles /\ t \notin Handles'
    BY <1>0, <1>2 DEF Handles, t
  <2> QED
    BY <2>1, <1>2 DEF Handles
<1>7. OneUser'
  BY <1>0, <1>2, <1>6 DEF LoopInv, OneUser, UsesPort
<1>8. OpenUntilRemoved'
  BY <1>0, <1>2, <1>6 DEF LoopInv, OpenUntilRemoved
<1>9. Stopping'
  BY <1>0 DEF LoopInv, Stopping
<1> QED
  BY <1>1, <1>3, <1>4, <1>5, <1>7, <1>8, <1>9, AccountedEnoughPrime DEF LoopInv

\* add_port_() that succeeds, and that fails when the port is open already.
LEMMA AddStep ==
    ASSUME LoopInv, queue # <<>>, state[Head(queue)] # "Pushing",
           queue' = Tail(queue), kind[Head(queue)] = "add", AddPort(Head(queue)),
           UNCHANGED <<kind, target, signals, sems, npc, dtor>>
    PROVE  LoopInv'
<1> DEFINE t == Head(queue)
<1>0. /\ t \in Tasks /\ state[t] = "Pending" /\ t \notin live /\ target[t] = t
      /\ dtor = "none" /\ sems = {"task", "stop"}
      /\ openPorts \subseteq live /\ closingPorts \subseteq live /\ live \subseteq Tasks
  BY FrontTask, Zenon DEF LoopInv, TypeOK, PortsInOneList, OneUser, UsesPort
<1>1. CASE FinishTask(t, FALSE) /\ UNCHANGED <<openPorts, closingPorts, live>>
  BY <1>1, PlainStep, Zenon DEF AddPort, FinishTask
<1>2. CASE /\ FinishTask(t, TRUE) /\ openPorts' = openPorts \cup {t} /\ live' = live \cup {t}
           /\ UNCHANGED closingPorts
  <2>1. /\ PendingOnce' /\ Accounted' /\ queue' \in Seq(Tasks)
        /\ state' \in [Tasks -> {"Initialized", "Pushing", "Pending", "ClosingPort", "Finished"}]
        /\ success' \in [Tasks -> BOOLEAN] /\ finished' \in [Tasks -> 0 .. 1]
        /\ resolving' \subseteq Tasks /\ UNCHANGED fault
    BY <1>2, PopKeeps, Zenon DEF AddPort, FinishTask
  <2>2. /\ state'[t] = "Finished" /\ success'[t] = TRUE
        /\ \A u \in Tasks : u # t => state'[u] = state[u] /\ success'[u] = success[u]
    BY <1>0, <1>2 DEF LoopInv, TypeOK, FinishTask
  <2> HIDE DEF t
  <2>3. TypeOK' /\ NeverPanics'
    BY <1>0, <1>2, <2>1 DEF LoopInv, TypeOK, NeverPanics
  <2>4. PortsInOneList'
    BY <1>0, <1>2, <2>2 DEF LoopInv, PortsInOneList
  <2>5. PortsAdded'
    BY <1>0, <1>2, <2>2 DEF LoopInv, PortsAdded, t
  <2>6. Handles' = Handles \cup {t}
    BY <1>0, <2>2 DEF Handles, t
  <2>7. OneUser'
    BY <1>0, <2>2, <2>6 DEF LoopInv, OneUser, UsesPort, t
  <2>8. OpenUntilRemoved'
    BY <1>0, <1>2, <2>2, <2>6 DEF LoopInv, OpenUntilRemoved
  <2>9. Stopping'
    BY <1>0, <1>2 DEF LoopInv, Stopping, t
  <2> QED
    BY <2>1, <2>3, <2>4, <2>5, <2>7, <2>8, <2>9, AccountedEnoughPrime DEF LoopInv
<1>3. CASE /\ WaitFor(t, "ClosingPort", FALSE)
           /\ closingPorts' = closingPorts \cup {t} /\ live' = live \cup {t} /\ UNCHANGED openPorts
  <2>1. /\ PendingOnce' /\ Accounted' /\ queue' \in Seq(Tasks)
        /\ state' \in [Tasks -> {"Initialized", "Pushing", "Pending", "ClosingPort", "Finished"}]
        /\ success' \in [Tasks -> BOOLEAN] /\ finished' \in [Tasks -> 0 .. 1]
        /\ resolving' \subseteq Tasks /\ UNCHANGED fault
    BY <1>3, PopKeeps, Zenon DEF AddPort, WaitFor
  <2>2. /\ state'[t] = "ClosingPort" /\ success'[t] = FALSE
        /\ \A u \in Tasks : u # t => state'[u] = state[u] /\ success'[u] = success[u]
    BY <1>0, <1>3 DEF LoopInv, TypeOK, WaitFor
  <2> HIDE DEF t
  <2>3. TypeOK' /\ NeverPanics'
    BY <1>0, <1>3, <2>1 DEF LoopInv, TypeOK, NeverPanics
  <2>4. PortsInOneList'
    BY <1>0, <1>3, <2>2 DEF LoopInv, PortsInOneList
  <2>5. PortsAdded'
    BY <1>0, <1>3, <2>2 DEF LoopInv, PortsAdded, t
  <2>6. Handles' = Handles
    BY <1>0, <2>2 DEF Handles, t
  <2>7. OneUser'
    BY <1>0, <2>2, <2>6 DEF LoopInv, OneUser, UsesPort, t
  <2>8. OpenUntilRemoved'
    BY <1>0, <1>3, <2>2, <2>6 DEF LoopInv, OpenUntilRemoved
  <2>9. Stopping'
    BY <1>0, <1>3 DEF LoopInv, Stopping, t
  <2> QED
    BY <2>1, <2>3, <2>4, <2>5, <2>7, <2>8, <2>9, AccountedEnoughPrime DEF LoopInv
<1> QED
  BY <1>1, <1>2, <1>3, Zenon DEF AddPort

\* remove_port_(): the port is open, since nobody else has removed it.
LEMMA RemoveStep ==
    ASSUME LoopInv, queue # <<>>, state[Head(queue)] # "Pushing",
           queue' = Tail(queue), kind[Head(queue)] = "remove", RemovePort(Head(queue)),
           UNCHANGED <<kind, target, signals, sems, npc, dtor>>
    PROVE  LoopInv'
<1> DEFINE t == Head(queue)
           p == target[t]
<1>0. /\ t \in Tasks /\ state[t] = "Pending" /\ t \notin live
      /\ dtor = "none" /\ sems = {"task", "stop"}
      /\ openPorts \subseteq live /\ closingPorts \subseteq live /\ live \subseteq Tasks
  BY FrontTask DEF LoopInv, TypeOK, PortsInOneList
<1>1. p \in openPorts
  <2>1. UsesPort(t) /\ p \in Handles
    BY <1>0 DEF LoopInv, OneUser, UsesPort
  <2>2. ASSUME NEW u \in Tasks, kind[u] = "remove", target[u] = p,
               state[u] \in {"ClosingPort", "Finished"}
        PROVE  FALSE
    <3>1. u # t /\ UsesPort(u)
      BY <2>2, <1>0 DEF UsesPort
    <3> QED
      BY <3>1, <2>1, <2>2, <1>0 DEF LoopInv, OneUser
  <2> QED
    BY <2>1, <2>2, <1>0 DEF LoopInv, OpenUntilRemoved
<1>2. /\ openPorts' = openPorts \ {p} /\ closingPorts' = closingPorts \cup {p}
      /\ state' = [state EXCEPT ![t] = "ClosingPort"]
      /\ success' = [success EXCEPT ![t] = TRUE]
      /\ UNCHANGED <<finished, live, resolving, fault>>
  BY <1>1 DEF RemovePort, WaitFor
<1>3. /\ PendingOnce' /\ Accounted' /\ queue' \in Seq(Tasks)
      /\ state' \in [Tasks -> {"Initialized", "Pushing", "Pending", "ClosingPort", "Finished"}]
      /\ success' \in [Tasks -> BOOLEAN] /\ finished' \in [Tasks -> 0 .. 1]
      /\ resolving' \subseteq Tasks
  BY <1>2, PopKeeps, Zenon
<1>4. /\ state'[t] = "ClosingPort"
      /\ \A u \in Tasks : u # t => state'[u] = state[u] /\ success'[u] = success[u]
  BY <1>0, <1>2 DEF LoopInv, TypeOK
<1>5. kind[t] = "remove" /\ target[t] = p /\ p \in Tasks
  BY <1>0, <1>1
<1> HIDE DEF t, p
<1>6. TypeOK' /\ NeverPanics'
  BY <1>0, <1>2, <1>3, <1>5 DEF LoopInv, TypeOK, NeverPanics
<1>7. PortsInOneList'
  BY <1>0, <1>1, <1>2, <1>4, <1>5 DEF LoopInv, PortsInOneList
<1>8. PortsAdded'
  BY <1>0, <1>2, <1>4, <1>5 DEF LoopInv, PortsAdded
<1>9. Handles' = Handles
  BY <1>0, <1>4, <1>5 DEF Handles
<1>10. OneUser'
  BY <1>0, <1>4, <1>5, <1>9 DEF LoopInv, OneUser, UsesPort
<1>11. OpenUntilRemoved'
  BY <1>0, <1>2, <1>4, <1>5, <1>9 DEF LoopInv, OpenUntilRemoved
<1>12. Stopping'
  BY <1>0 DEF LoopInv, Stopping
<1> QED
  BY <1>3, <1>6, <1>7, <1>8, <1>10, <1>11, <1>12, AccountedEnoughPrime DEF LoopInv

LEMMA ProcessStep ==
    ASSUME LoopInv, ProcessTask
    PROVE  LoopInv'
<1> DEFINE t == Head(queue)
<1>0. /\ queue # <<>> /\ state[t] # "Pushing" /\ queue' = Tail(queue)
      /\ UNCHANGED <<kind, target, signals, sems, npc, dtor>>
  BY DEF ProcessTask, RunTask
<1>1. CASE kind[t] = "add" /\ AddPort(t)
  BY <1>0, <1>1, AddStep
<1>2. CASE kind[t] = "remove" /\ RemovePort(t)
  BY <1>0, <1>2, RemoveStep
<1>3. CASE kind[t] = "resolve" /\ Resolve(t)
  <2>0. UNCHANGED <<openPorts, closingPorts, live, fault>>
    BY <1>3 DEF Resolve
  <2>1. ASSUME NEW ok \in BOOLEAN, FinishTask(t, ok) /\ UNCHANGED resolving
        PROVE  LoopInv'
    BY <1>0, <1>3, <2>0, <2>1, PlainStep, Zenon DEF FinishTask
  <2>2. CASE WaitFor(t, "Pending", FALSE) /\ resolving' = resolving \cup {t}
    BY <1>0, <1>3, <2>0, <2>2, PlainStep, Zenon DEF WaitFor
  <2> QED
    BY <1>3, <2>1, <2>2, Zenon DEF Resolve
<1>4. CASE kind[t] = "start" /\ StartUdp(t)
  <2>0. UNCHANGED <<openPorts, closingPorts, live, resolving, fault>>
    BY <1>4 DEF StartUdp, ports
  <2>1. ASSUME NEW ok \in BOOLEAN, FinishTask(t, ok)
        PROVE  LoopInv'
    BY <1>0, <1>4, <2>0, <2>1, PlainStep, Zenon DEF FinishTask
  <2> QED
    BY <1>4, <2>1 DEF StartUdp
<1> QED
  BY <1>1, <1>2, <1>3, <1>4 DEF ProcessTask, RunTask

-----------------------------------------------------------------------------
LEMMA InitLoopInv ==
    ASSUME Init
    PROVE  LoopInv
<1> USE DEF Init
<1>1. queue \in Seq(Tasks) /\ Len(queue) = 0 /\ 1 .. Len(queue) = {}
  OBVIOUS
<1>2. TypeOK /\ NeverPanics
  <2>1. state \in [Tasks -> {"Initialized", "Pushing", "Pending", "ClosingPort", "Finished"}]
    OBVIOUS
  <2>2. kind \in [Tasks -> {"add", "remove", "resolve", "start"}] /\ target \in [Tasks -> Tasks]
    OBVIOUS
  <2>3. success \in [Tasks -> BOOLEAN] /\ finished \in [Tasks -> 0 .. 1]
    OBVIOUS
  <2> QED
    BY <1>1, <2>1, <2>2, <2>3, Zenon DEF TypeOK, NeverPanics
<1>3. PortsInOneList /\ PortsAdded /\ Stopping
  BY DEF PortsInOneList, PortsAdded, Stopping
<1>4. PendingOnce
  BY <1>1 DEF PendingOnce
<1>5. Handles = {}
  BY DEF Handles
<1>6. OneUser /\ OpenUntilRemoved
  BY <1>5 DEF OneUser, UsesPort, OpenUntilRemoved
<1>7. Accounted
  BY Zenon DEF Accounted
<1> QED
  BY <1>2, <1>3, <1>4, <1>6, <1>7, AccountedEnough DEF LoopInv

LEMMA NextLoopInv ==
    ASSUME ~PendingAtStop, LoopInv, [Next]_vars
    PROVE  LoopInv'
<1>1. CASE Network
  <2>1. ASSUME NEW p \in Tasks, HandleCloseCompleted(p) \/ HandleResolved(p)
        PROVE  LoopInv'
    BY <2>1, CloseStep, ResolvedStep
  <2> QED
    BY <1>1, <2>1, QuietSteps, StopStep, ProcessStep DEF Network
<1>2. CASE Users
  BY <1>2, QuietSteps, ScheduleStep, WakeStep DEF Users
<1>3. CASE UNCHANGED vars
  <2>1. TypeOK' /\ NeverPanics' /\ Stopping'
    BY <1>3 DEF vars, LoopInv, TypeOK, NeverPanics, Stopping
  <2> QED
    BY <1>3, <2>1, QuietKeeps DEF vars, tasks, ports, LoopInv
<1> QED
  BY <1>1, <1>2, <1>3 DEF Next, Finished

\* For any set of tasks, if the loop is destroyed only when no task is pending: no assertion
\* of NetworkLoop fails (a removed port is in open_ports_, a closed one in closing_ports_,
\* nothing is left when the destructor has joined the thread), every port with a handle of
\* libuv is in exactly one list, a task that waits for a port finds it in closing_ports_, no
\* task is lost before it is finished once, and the handle of a port stays open until the
\* port is removed.
THEOREM NetworkLoopCorrect ==
    ASSUME ~PendingAtStop
    PROVE  Spec => [](TypeOK /\ NeverPanics /\ PortsInOneList /\ TasksAccounted)
<1>1. Init => LoopInv
  BY InitLoopInv
<1>2. LoopInv /\ [Next]_vars => LoopInv'
  BY NextLoopInv
<1>3. LoopInv => TypeOK /\ NeverPanics /\ PortsInOneList /\ TasksAccounted
  BY DEF LoopInv
<1> QED
  BY <1>1, <1>2, <1>3, PTL DEF Spec
==============================================================================
