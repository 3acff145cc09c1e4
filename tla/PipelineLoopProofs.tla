------------------------- MODULE PipelineLoopProofs -------------------------
(***************************************************************************)
(* PipelineLoop implements TaskLedger and keeps its invariants, for any    *)
(* number of clients, any mixture of schedule() and schedule_and_wait(),   *)
(* and any lengths of frames and subframes.                                *)
(***************************************************************************)
EXTENDS PipelineLoopLedger, PipelineLoopSteps, FiniteSetTheorems

TaskInv == ControlTypes /\ MutexOwner /\ TaskInHand /\ Ledger!LedgerInv

(* Every class of steps is a step of the ledger or leaves it alone. *)
LEMMA ClassStep ==
    ASSUME TaskInv, NEW th \in Threads, ClassifiedStep(th)
    PROVE  [Ledger!Next]_(Ledger!ledger) /\ MutexOwner' /\ TaskInHand'
<1>0. /\ None \notin Threads /\ Tasks \subseteq Threads
      /\ Ledger!LedgerTypes
  BY ConstAssumption DEF Threads, TaskInv, Ledger!LedgerInv
<1> USE <1>0, MoveEffect DEF TaskInv
<1>1. ASSUME QuietStep(th)
      PROVE  UNCHANGED Ledger!ledger /\ MutexOwner' /\ TaskInHand'
  <2>1. Decrementing' = Decrementing
    BY <1>1 DEF QuietStep, Moves, Outside, Owning, Holding
  <2>2. MutexOwner' /\ TaskInHand'
    BY <1>1 DEF QuietStep, Moves, Outside, Owning, Holding, MutexOwner, TaskInHand
  <2>3. QED
    BY <1>1, <2>1, <2>2 DEF QuietStep, Ledger!ledger
<1>2. ASSUME AcquireStep(th)
      PROVE  Ledger!Acquire(th) /\ MutexOwner' /\ TaskInHand'
  <2>1. Decrementing' = Decrementing
    BY <1>2 DEF AcquireStep, Moves, Outside, Owning, Holding, Processing
  <2>2. MutexOwner' /\ TaskInHand'
    BY <1>2 DEF AcquireStep, Moves, Outside, Owning, Holding, Processing, MutexOwner, TaskInHand
  <2>3. QED
    BY <1>2, <2>1, <2>2 DEF AcquireStep, Ledger!Acquire
<1>3. ASSUME ReleaseStep(th)
      PROVE  Ledger!Release(th) /\ MutexOwner' /\ TaskInHand'
  <2>1. Decrementing' = Decrementing /\ th \notin Decrementing
    BY <1>3 DEF ReleaseStep, Moves, Outside, Owning
  <2>2. MutexOwner' /\ TaskInHand'
    BY <1>3 DEF ReleaseStep, Moves, Outside, Owning, MutexOwner, TaskInHand
  <2>3. pipelineMutex = th /\ current[th] = None
    BY <1>3 DEF ReleaseStep, Moves, Owning, MutexOwner, TaskInHand
  <2>4. QED
    BY <1>3, <2>1, <2>2, <2>3 DEF ReleaseStep, Ledger!Release
<1>4. ASSUME th \in Tasks, ScheduleStep(th)
      PROVE  Ledger!Schedule(th) /\ MutexOwner' /\ TaskInHand'
  <2>0. Moves(th, Outside, Holding)
    BY <1>4 DEF ScheduleStep
  <2>1. Decrementing' = Decrementing
    BY <2>0 DEF Moves, Outside, Holding
  <2>2. MutexOwner' /\ TaskInHand'
    BY <1>4, Zenon DEF ScheduleStep, Moves, Outside, Holding, MutexOwner, TaskInHand, Ledger!LedgerTypes
  <2>3. current[th] = None
    BY <1>4 DEF ScheduleStep, Moves, Outside, TaskInHand
  <2>4. QED
    BY <1>4, <2>1, <2>2, <2>3 DEF ScheduleStep, Ledger!Schedule
<1>5. ASSUME th \in Tasks, EnqueueStep(th)
      PROVE  Ledger!Enqueue(th) /\ MutexOwner' /\ TaskInHand'
  <2>0. Moves(th, Holding, Outside)
    BY <1>5 DEF EnqueueStep
  <2>1. Decrementing' = Decrementing
    BY <2>0 DEF Moves, Outside, Holding
  <2>2. MutexOwner' /\ TaskInHand'
    BY <1>5 DEF EnqueueStep, Moves, Outside, Holding, MutexOwner, TaskInHand, Ledger!LedgerTypes
  <2>3. current[th] = th
    BY <1>5 DEF EnqueueStep, Moves, Holding, TaskInHand
  <2>4. QED
    BY <1>5, <2>1, <2>2, <2>3 DEF EnqueueStep, Ledger!Enqueue
<1>6. ASSUME th \in Tasks, RenewStep(th)
      PROVE  Ledger!Renew(th) /\ MutexOwner' /\ TaskInHand'
  <2>1. Decrementing' = Decrementing
    BY <1>6 DEF RenewStep, Moves, Outside
  <2>2. MutexOwner' /\ TaskInHand'
    BY <1>6 DEF RenewStep, Moves, Outside, MutexOwner, TaskInHand
  <2>3. QED
    BY <1>6, <2>1, <2>2 DEF RenewStep, Ledger!Renew
<1>7. ASSUME DequeueStep(th)
      PROVE  Ledger!Dequeue(th) /\ MutexOwner' /\ TaskInHand'
  <2>0. Moves(th, Owning, Processing)
    BY <1>7 DEF DequeueStep
  <2>1. Decrementing' = Decrementing
    BY <2>0 DEF Moves, Owning, Processing
  <2>2. pipelineMutex = th /\ current[th] = None
    BY <1>7 DEF DequeueStep, Moves, Owning, MutexOwner, TaskInHand
  <2>3. Head(queue) \in Tasks
    BY <1>7 DEF DequeueStep, Ledger!LedgerTypes
  <2>4. MutexOwner' /\ TaskInHand'
    BY <1>7, <2>3 DEF DequeueStep, Moves, Owning, Processing, MutexOwner, TaskInHand, Ledger!LedgerTypes
  <2>5. QED
    BY <1>7, <2>1, <2>2, <2>4 DEF DequeueStep, Ledger!Dequeue
<1>8. ASSUME ProcessStep(th)
      PROVE  Ledger!Process(th) /\ MutexOwner' /\ TaskInHand'
  <2>1. Decrementing' = Decrementing \cup {th} /\ th \notin Decrementing
    BY <1>8 DEF ProcessStep, Moves, Processing, Settling
  <2>2. pipelineMutex = th /\ current[th] # None
    BY <1>8 DEF ProcessStep, Moves, Processing, MutexOwner, TaskInHand
  <2>3. MutexOwner' /\ TaskInHand'
    BY <1>8 DEF ProcessStep, Moves, Processing, Settling, MutexOwner, TaskInHand, Ledger!LedgerTypes
  <2>4. QED
    BY <1>8, <2>1, <2>2, <2>3 DEF ProcessStep, Ledger!Process
<1>9. ASSUME SettleStep(th)
      PROVE  Ledger!Settle(th) /\ MutexOwner' /\ TaskInHand'
  <2>1. Decrementing' = Decrementing \ {th} /\ th \in Decrementing
    BY <1>9 DEF SettleStep, Moves, Settling, Owning
  <2>2. MutexOwner' /\ TaskInHand'
    BY <1>9 DEF SettleStep, Moves, Settling, Owning, MutexOwner, TaskInHand
  <2>3. pipelineMutex = th
    BY <1>9 DEF SettleStep, Moves, Settling, MutexOwner
  <2>4. QED
    BY <1>9, <2>1, <2>2, <2>3 DEF SettleStep, Ledger!Settle
<1>10. QED
  BY <1>1, <1>2, <1>3, <1>4, <1>5, <1>6, <1>7, <1>8, <1>9 DEF ClassifiedStep, Ledger!Next

-----------------------------------------------------------------------------
LedgerP == INSTANCE TaskLedgerProofs WITH
    Actors <- Threads,
    state <- taskState, held <- current, owner <- pipelineMutex, settling <- Decrementing,
    pending <- pendingTasks

(* An instance of TaskLedger has its own copies of the library's operators. *)
LEMMA SameOperators ==
    /\ \A S : Ledger!Cardinality(S) = Cardinality(S) /\ LedgerP!Cardinality(S) = Cardinality(S)
    /\ \A S : LedgerP!IsFiniteSet(S) <=> IsFiniteSet(S)
    /\ \A f : Ledger!Range(f) = Range(f) /\ LedgerP!Range(f) = Range(f)
<1>1. \A S : Ledger!Cardinality(S) = Cardinality(S)
  BY DEF Ledger!Cardinality, Cardinality
<1>2. \A S : LedgerP!Cardinality(S) = Cardinality(S)
  BY DEF LedgerP!Cardinality, Cardinality
<1>3. \A S : LedgerP!IsFiniteSet(S) <=> IsFiniteSet(S)
  BY DEF LedgerP!IsFiniteSet, IsFiniteSet
<1>4. \A f : Ledger!Range(f) = Range(f) /\ LedgerP!Range(f) = Range(f)
  BY DEF Ledger!Range, LedgerP!Range, Range
<1>5. QED
  BY <1>1, <1>2, <1>3, <1>4

LEMMA FiniteThreads == IsFiniteSet(Threads)
<1>1. IsFiniteSet(Tasks \cup {Framer})
  BY ConstAssumption, FS_AddElement
<1>2. Threads = (Tasks \cup {Framer}) \cup {Worker}
  BY DEF Threads
<1>3. QED
  BY <1>1, <1>2, FS_AddElement

(* The ledger's invariant is kept by the ledger's steps (TaskLedgerProofs). *)
LEMMA LedgerKept ==
    ASSUME Ledger!LedgerInv, [Ledger!Next]_(Ledger!ledger)
    PROVE  Ledger!LedgerInv'
<1>1. Ledger!LedgerInv <=> LedgerP!LedgerInv
  BY SameOperators DEF Ledger!LedgerInv, Ledger!LedgerTypes, Ledger!InOnePlace, Ledger!PendingExact,
         Ledger!OwnerSettles, Ledger!Scheduled, Ledger!Holders,
         LedgerP!LedgerInv, LedgerP!LedgerTypes, LedgerP!InOnePlace, LedgerP!PendingExact,
         LedgerP!OwnerSettles, LedgerP!Scheduled, LedgerP!Holders
<1>2. LedgerP!LedgerInv' => Ledger!LedgerInv'
  BY SameOperators DEF Ledger!LedgerInv, Ledger!LedgerTypes, Ledger!InOnePlace, Ledger!PendingExact,
         Ledger!OwnerSettles, Ledger!Scheduled, Ledger!Holders,
         LedgerP!LedgerInv, LedgerP!LedgerTypes, LedgerP!InOnePlace, LedgerP!PendingExact,
         LedgerP!OwnerSettles, LedgerP!Scheduled, LedgerP!Holders
<1>3. [LedgerP!Next]_(LedgerP!ledger)
  BY DEF Ledger!Next, Ledger!ledger, Ledger!Schedule, Ledger!Enqueue, Ledger!Renew,
         Ledger!Acquire, Ledger!Release, Ledger!Dequeue, Ledger!Process, Ledger!Settle,
         LedgerP!Next, LedgerP!ledger, LedgerP!Schedule, LedgerP!Enqueue, LedgerP!Renew,
         LedgerP!Acquire, LedgerP!Release, LedgerP!Dequeue, LedgerP!Process, LedgerP!Settle
<1>4. LedgerP!LedgerAssumption
  BY FiniteThreads, SameOperators, ConstAssumption DEF LedgerP!LedgerAssumption, Threads
<1>5. QED
  BY <1>1, <1>2, <1>3, <1>4, LedgerP!LedgerStep

-----------------------------------------------------------------------------
(* The inductive invariant: who owns the pipeline and has which task in hand is
   what the control states say, the ledger balances, and the frame is counted. *)
Inv == TaskInv /\ DataTypes /\ FrameInv

LEMMA InvInit ==
    ASSUME Init
    PROVE  Inv /\ Ledger!Init
<1>0. Framer \in Threads /\ Tasks \subseteq Threads /\ None \notin Threads
  BY ConstAssumption DEF Threads
<1>1. ControlTypes
  <2>1. pc = [th \in Threads |-> "idle"] /\ ret = [th \in Threads |-> "idle"]
    BY DEF Init
  <2>2. "idle" \in Labels /\ "idle" \in ReturnLabels
    BY DEF Labels, ReturnLabels
  <2> QED
    BY <2>1, <2>2 DEF ControlTypes
<1>2. MutexOwner /\ TaskInHand
  BY <1>0 DEF Init, MutexOwner, TaskInHand, PipelineHeld, HoldsTask
<1>3. Decrementing = {}
  BY DEF Init, Decrementing
<1>4. Ledger!Init
  BY <1>3 DEF Init, Ledger!Init
<1>5. Ledger!LedgerInv
  <2>1. /\ taskState = [t \in Tasks |-> "new"] /\ queue = <<>> /\ pendingTasks = 0
        /\ pipelineMutex = None /\ current = [th \in Threads |-> None]
    BY DEF Init
  <2>2. Ledger!LedgerTypes
    BY <1>3, <2>1 DEF Ledger!LedgerTypes
  <2>3. Ledger!Scheduled = {} /\ Ledger!Holders = {} /\ Range(queue) = {}
    BY <1>0, <2>1 DEF Ledger!Scheduled, Ledger!Holders, Range
  <2>4. Cardinality({}) = 0
    BY FS_EmptySet
  <2>5. Ledger!InOnePlace
    BY <2>1, <2>3, SameOperators DEF Ledger!InOnePlace
  <2>6. Ledger!PendingExact
    BY <1>3, <2>1, <2>3, <2>4, SameOperators DEF Ledger!PendingExact
  <2>7. Ledger!OwnerSettles
    BY <1>3, <2>1 DEF Ledger!OwnerSettles
  <2> QED
    BY <2>2, <2>5, <2>6, <2>7 DEF Ledger!LedgerInv
<1>6. DataTypes
  <2>1. /\ sem = {} /\ unlinked = {} /\ procState = "NotScheduled" /\ schedMutex = None
        /\ requested = FALSE /\ frameTid = FALSE /\ storing = "none" /\ needResched = FALSE
        /\ sampledFrames = [th \in Threads |-> 0]
    BY DEF Init
  <2> QED
    BY <2>1, Zenon DEF DataTypes
<1>7. FrameInv
  <2>1. /\ pc[Framer] = "idle" /\ pendingFrames = 0
        /\ frame = [pos |-> 0, ok |-> TRUE, samples |-> 0, enough |-> FALSE]
    BY <1>0 DEF Init
  <2>2. FrameCount
    BY <2>1 DEF FrameCount, InFrame, FrameLabels, AsyncLabels
  <2>3. FramePos
    BY <2>1, ConstAssumption DEF FramePos
  <2> QED
    BY <2>2, <2>3 DEF FrameInv
<1>8. QED
  BY <1>1, <1>2, <1>4, <1>5, <1>6, <1>7 DEF Inv, TaskInv

LEMMA InvStep ==
    ASSUME Inv, [Next]_vars
    PROVE  Inv' /\ [Ledger!Next]_(Ledger!ledger)
<1>0. /\ ControlTypes /\ DataTypes /\ FrameInv /\ pendingFrames \in {0, 1}
      /\ Framer \in Threads /\ Worker \in Threads /\ Tasks \subseteq Threads
      /\ Framer # Worker /\ Framer \notin Tasks
  BY ConstAssumption DEF Inv, TaskInv, FrameInv, FrameCount, Threads
<1>1. ASSUME NEW th \in Threads, ClassifiedStep(th), DataTypes', FrameInv'
      PROVE  Inv' /\ [Ledger!Next]_(Ledger!ledger)
  <2>1. ControlTypes'
    BY <1>0, <1>1, ControlStep
  <2>2. [Ledger!Next]_(Ledger!ledger) /\ MutexOwner' /\ TaskInHand'
    BY <1>1, ClassStep DEF Inv
  <2>3. Ledger!LedgerInv'
    BY <2>2, LedgerKept DEF Inv, TaskInv
  <2>4. QED
    BY <1>1, <2>1, <2>2, <2>3 DEF Inv, TaskInv
<1>2. ASSUME NEW t \in Tasks, Schedule(t) \/ Client(t) \/ Renew(t)
      PROVE  ClassifiedStep(t) /\ DataTypes' /\ FrameInv'
  BY <1>0, <1>2, ClientClassified, ClientData, OtherFrameStep
<1>3. ASSUME NEW th \in Threads, AsyncProcessing(th)
      PROVE  ClassifiedStep(th) /\ DataTypes' /\ FrameInv'
  BY <1>0, <1>3, AsyncClassified, AsyncData, OtherFrameStep
<1>4. ASSUME ProcessTasks
      PROVE  ClassifiedStep(Worker) /\ DataTypes' /\ FrameInv'
  BY <1>0, <1>4, WorkerClassified, WorkerData, OtherFrameStep
<1>5. ASSUME StartFrame \/ ProcessFrame
      PROVE  ClassifiedStep(Framer) /\ DataTypes' /\ FrameInv'
  BY <1>0, <1>5, FrameClassified, FrameData, FrameStep
<1>6. CASE UNCHANGED vars
  <2>1. /\ UNCHANGED <<pc, ret, taskState, queue, current, pipelineMutex, pendingTasks>>
        /\ UNCHANGED <<sem, unlinked, procState, schedMutex, requested, frameTid, storing>>
        /\ UNCHANGED <<sampledFrames, needResched, pendingFrames, frame>>
    BY <1>6 DEF vars, control, locals, taskVars, schedVars, frameVars
  <2>2. Decrementing' = Decrementing
    BY <2>1 DEF Decrementing
  <2>3. [Ledger!Next]_(Ledger!ledger)
    BY <2>1, <2>2 DEF Ledger!ledger
  <2>4. Ledger!LedgerInv'
    BY <2>3, LedgerKept DEF Inv, TaskInv
  <2>5. ControlTypes' /\ MutexOwner' /\ TaskInHand'
    BY <2>1 DEF Inv, TaskInv, ControlTypes, MutexOwner, TaskInHand
  <2>6. DataTypes'
    BY <2>1 DEF Inv, DataTypes
  <2>7. FrameCount'
    BY <2>1 DEF Inv, FrameInv, FrameCount, InFrame
  <2>8. FramePos'
    BY <2>1 DEF Inv, FrameInv, FramePos
  <2> QED
    BY <2>3, <2>4, <2>5, <2>6, <2>7, <2>8 DEF Inv, TaskInv, FrameInv
<1>7. QED
  BY <1>0, <1>1, <1>2, <1>3, <1>4, <1>5, <1>6 DEF Next

-----------------------------------------------------------------------------
(* The inductive invariant says what the runs check. *)
LEMMA InvImplies ==
    ASSUME Inv
    PROVE  TypeOK /\ OneProcessor /\ EachTaskInOnePlace /\ PendingTasksExact
<1>1. /\ ControlTypes /\ MutexOwner /\ TaskInHand /\ DataTypes /\ FrameInv
      /\ Ledger!LedgerTypes /\ Ledger!InOnePlace /\ Ledger!PendingExact
  BY DEF Inv, TaskInv, Ledger!LedgerInv
<1>2. Ledger!Scheduled = Scheduled
  BY DEF Ledger!Scheduled, Scheduled
<1>3. PendingTasksExact
  BY <1>1, <1>2, SameOperators DEF PendingTasksExact, Ledger!PendingExact
<1>4. OneProcessor
  <2>1. \A l \in {"exec", "w_pop", "w_exec", "f_pop", "f_exec", "f_subframe"} : l \in PipelineHeld
    BY DEF PipelineHeld
  <2>2. QED
    BY <1>1, <2>1 DEF OneProcessor, MutexOwner
<1>5. EachTaskInOnePlace
  <2>1. None \notin Range(queue)
    <3>1. queue \in Seq(Tasks) /\ None \notin Tasks
      BY <1>1, ConstAssumption DEF Ledger!LedgerTypes, Threads
    <3>2. \A i \in DOMAIN queue : queue[i] \in Tasks
      BY <3>1
    <3> QED
      BY <3>1, <3>2 DEF Range
  <2>2. /\ \A i, j \in DOMAIN queue : queue[i] = queue[j] => i = j
        /\ \A a, b \in Ledger!Holders : current[a] = current[b] => a = b
        /\ \A th \in Ledger!Holders : current[th] \notin Range(queue)
        /\ Scheduled = Range(queue) \cup {current[th] : th \in Ledger!Holders}
    BY <1>1, <1>2, SameOperators DEF Ledger!InOnePlace
  <2>3. \A th \in Threads : current[th] # None <=> pc[th] \in HoldsTask
    BY <1>1 DEF TaskInHand
  <2>4. Ledger!Holders = {x \in Threads : current[x] # None}
    BY DEF Ledger!Holders
  <2>5. \A th \in Threads : current[th] \notin Range(queue)
    BY <2>1, <2>2, <2>4
  <2>6. \A a, b \in Threads : current[a] = current[b] /\ current[a] # None => a = b
    BY <2>2, <2>4
  <2>7. QED
    BY <2>2, <2>3, <2>4, <2>5, <2>6, Zenon DEF EachTaskInOnePlace
<1>6. pendingTasks \in Nat
  <2>1. IsFiniteSet(Scheduled) /\ IsFiniteSet(Decrementing)
    <3>1. IsFiniteSet(Threads)
      BY FiniteThreads
    <3>2. Scheduled \subseteq Threads /\ Decrementing \subseteq Threads
      BY DEF Scheduled, Decrementing, Threads
    <3>3. QED
      BY <3>1, <3>2, FS_Subset
  <2>2. QED
    BY <1>3, <2>1, FS_CardinalityType DEF PendingTasksExact
<1>7. TypeOK
  BY <1>1, <1>6 DEF TypeOK, ControlTypes, ReturnLabels, Ledger!LedgerTypes, DataTypes, FrameInv,
                    FrameCount, FramePos
<1>8. QED
  BY <1>3, <1>4, <1>5, <1>7

(* The loop, with any number of clients, schedules, queues, processes and settles
   tasks as the ledger allows. *)
THEOREM PipelineImplementsLedger == Spec => ImplementsLedger
<1>1. Spec => []Inv
  BY InvInit, InvStep, PTL DEF Spec
<1>2. Inv /\ [Next]_vars => [Ledger!Next]_(Ledger!ledger)
  BY InvStep
<1>3. QED
  BY <1>1, <1>2, InvInit, PTL DEF Spec, ImplementsLedger, Ledger!Spec

(* The variables keep their types: in particular pending_tasks_ and
   pending_frames_ never go below zero, and no subframe passes the frame's end. *)
THEOREM PipelineTypes == Spec => []TypeOK
BY InvInit, InvStep, InvImplies, PTL DEF Spec

(* Frames and tasks are processed, and the single-consumer queue popped, by one
   thread at a time. *)
THEOREM PipelineExclusive == Spec => []OneProcessor
BY InvInit, InvStep, InvImplies, PTL DEF Spec

(* A scheduled task is in one place until it is processed. *)
THEOREM PipelineKeepsTasks == Spec => []EachTaskInOnePlace
BY InvInit, InvStep, InvImplies, PTL DEF Spec

(* schedule_and_wait() returns only after its task was processed, by whichever
   thread. *)
THEOREM PipelineWaitsForTask == Spec => []WaiterReturnsProcessed
<1>1. Init => WaitInv
  <2>1. "idle" \notin AsyncLabels
    BY DEF AsyncLabels
  <2> QED
    BY <2>1 DEF Init, WaitInv, Returning, Threads
<1>2. Init => Inv
  BY InvInit
<1>3. Inv /\ WaitInv /\ [Next]_vars => Inv' /\ WaitInv'
  <2> SUFFICES ASSUME Inv, WaitInv, [Next]_vars PROVE Inv' /\ WaitInv'
    OBVIOUS
  <2>1. ControlTypes /\ TaskInHand /\ TaskTypes /\ pendingFrames \in {0, 1}
    BY DEF Inv, TaskInv, Ledger!LedgerInv, Ledger!LedgerTypes, TaskTypes, FrameInv, FrameCount
  <2>2. WaitInv'
    BY <2>1, WaitStep
  <2> QED
    BY <2>2, InvStep
<1>4. WaitInv => WaiterReturnsProcessed
  BY ConstAssumption DEF WaitInv, Returning, WaiterReturnsProcessed
<1> QED
  BY <1>1, <1>2, <1>3, <1>4, PTL DEF Spec

(* pending_tasks_ is exact. *)
THEOREM PipelineCountsTasks == Spec => []PendingTasksExact
BY InvInit, InvStep, InvImplies, PTL DEF Spec
=============================================================================
