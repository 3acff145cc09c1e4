----------------------------- MODULE TaskLedger -----------------------------
(***************************************************************************)
(* What roc_pipeline::PipelineLoop promises about tasks, whatever its      *)
(* threads do: a scheduled task is held by one thread or queued, is        *)
(* processed once and under the pipeline lock, and is counted as pending   *)
(* from schedule() until after its owner was told.                         *)
(***************************************************************************)
EXTENDS Integers, Sequences, FiniteSets, Functions

CONSTANTS
    Tasks,      \* tasks, each owned by the client thread of the same name
    Actors,     \* all threads
    None

ASSUME LedgerAssumption ==
    /\ IsFiniteSet(Actors)
    /\ Tasks \subseteq Actors
    /\ None \notin Actors

VARIABLES
    state,      \* state of each task
    queue,      \* tasks left for somebody else to process
    held,       \* the task a thread has in hand
    owner,      \* the thread that owns the pipeline
    settling,   \* threads that processed a task which still counts as pending
    pending     \* number of pending tasks

ledger == <<state, queue, held, owner, settling, pending>>

Init ==
    /\ state = [t \in Tasks |-> "new"]
    /\ queue = <<>>
    /\ held = [th \in Actors |-> None]
    /\ owner = None
    /\ settling = {}
    /\ pending = 0

Schedule(t) ==
    /\ state[t] = "new" /\ held[t] = None
    /\ state' = [state EXCEPT ![t] = "scheduled"]
    /\ held' = [held EXCEPT ![t] = t]
    /\ pending' = pending + 1
    /\ UNCHANGED <<queue, owner, settling>>

(* The client gives up processing its task in place. *)
Enqueue(t) ==
    /\ held[t] = t
    /\ queue' = Append(queue, t)
    /\ held' = [held EXCEPT ![t] = None]
    /\ UNCHANGED <<state, owner, settling, pending>>

Acquire(th) ==
    /\ owner = None
    /\ owner' = th
    /\ UNCHANGED <<state, queue, held, settling, pending>>

(* Mutant: the pipeline is released with a task half done. *)
ReleaseUnsettled(th) ==
    /\ owner = th /\ held[th] = None
    /\ owner' = None
    /\ UNCHANGED <<state, queue, held, settling, pending>>

(* The pipeline is never released with a task half done. *)
Release(th) ==
    /\ owner = th /\ held[th] = None /\ th \notin settling
    /\ owner' = None
    /\ UNCHANGED <<state, queue, held, settling, pending>>

Dequeue(th) ==
    /\ owner = th /\ held[th] = None
    /\ queue # <<>>
    /\ held' = [held EXCEPT ![th] = Head(queue)]
    /\ queue' = Tail(queue)
    /\ UNCHANGED <<state, owner, settling, pending>>

Process(th) ==
    /\ owner = th /\ held[th] # None /\ th \notin settling
    /\ state' = [state EXCEPT ![held[th]] = "finished"]
    /\ held' = [held EXCEPT ![th] = None]
    /\ settling' = settling \cup {th}
    /\ UNCHANGED <<queue, owner, pending>>

Settle(th) ==
    /\ owner = th /\ th \in settling
    /\ settling' = settling \ {th}
    /\ pending' = pending - 1
    /\ UNCHANGED <<state, queue, held, owner>>

(* The owner replaces a finished task by another one. *)
Renew(t) ==
    /\ state[t] = "finished"
    /\ state' = [state EXCEPT ![t] = "new"]
    /\ UNCHANGED <<queue, held, owner, settling, pending>>

Next ==
    \/ \E t \in Tasks : Schedule(t) \/ Enqueue(t) \/ Renew(t)
    \/ \E th \in Actors : Acquire(th) \/ Release(th) \/ Dequeue(th) \/ Process(th) \/ Settle(th)

Spec == Init /\ [][Next]_ledger

-----------------------------------------------------------------------------
Scheduled == {t \in Tasks : state[t] = "scheduled"}
Holders == {th \in Actors : held[th] # None}

LedgerTypes ==
    /\ state \in [Tasks -> {"new", "scheduled", "finished"}]
    /\ queue \in Seq(Tasks)
    /\ held \in [Actors -> Tasks \cup {None}]
    /\ owner \in Actors \cup {None}
    /\ settling \subseteq Actors
    /\ pending \in Int

(* A task is scheduled exactly while it is once in the queue or in the hands of
   one thread: no task is lost, processed twice, or processed after its owner got
   it back. *)
InOnePlace ==
    /\ \A i, j \in DOMAIN queue : queue[i] = queue[j] => i = j
    /\ \A a, b \in Holders : held[a] = held[b] => a = b
    /\ \A th \in Holders : held[th] \notin Range(queue)
    /\ Scheduled = Range(queue) \cup {held[th] : th \in Holders}

(* The counter is the number of tasks that are not processed, plus one while a
   processed task is being settled. *)
PendingExact == pending = Cardinality(Scheduled) + Cardinality(settling)

(* Only the owner of the pipeline settles a task, so there is at most one. *)
OwnerSettles == \A th \in settling : owner = th

(* All of it: the inductive invariant of the ledger. *)
LedgerInv == LedgerTypes /\ InOnePlace /\ PendingExact /\ OwnerSettles
=============================================================================
