-------------------------- MODULE TaskLedgerProofs --------------------------
(***************************************************************************)
(* TaskLedger keeps its invariant, for any number of threads and tasks.    *)
(***************************************************************************)
EXTENDS TaskLedger, FiniteSetTheorems, SequenceTheorems, TLAPS

(* The two sets that the pending counter counts are finite. *)
LEMMA CountedFinite ==
    ASSUME LedgerTypes
    PROVE  /\ IsFiniteSet(Scheduled) /\ Cardinality(Scheduled) \in Nat
           /\ IsFiniteSet(settling) /\ Cardinality(settling) \in Nat
<1>1. IsFiniteSet(Tasks)
  BY LedgerAssumption, FS_Subset
<1>2. IsFiniteSet(Scheduled) /\ IsFiniteSet(settling)
  BY <1>1, LedgerAssumption, FS_Subset DEF Scheduled, LedgerTypes
<1>3. QED
  BY <1>2, FS_CardinalityType

(* An element appended to a sequence without repetitions that did not contain it. *)
LEMMA AppendOne ==
    ASSUME NEW S, NEW q \in Seq(S), NEW e \in S, e \notin Range(q),
           \A i, j \in DOMAIN q : q[i] = q[j] => i = j
    PROVE  /\ Append(q, e) \in Seq(S)
           /\ Range(Append(q, e)) = Range(q) \cup {e}
           /\ \A i, j \in DOMAIN Append(q, e) : Append(q, e)[i] = Append(q, e)[j] => i = j
<1>1. /\ Append(q, e) \in Seq(S)
      /\ Len(Append(q, e)) = Len(q) + 1
      /\ \A i \in 1 .. Len(q) : Append(q, e)[i] = q[i]
      /\ Append(q, e)[Len(q) + 1] = e
  BY AppendProperties
<1>2. DOMAIN q = 1 .. Len(q) /\ DOMAIN Append(q, e) = 1 .. Len(q) + 1 /\ Len(q) \in Nat
  BY <1>1, LenProperties
<1>3. QED
  BY <1>1, <1>2 DEF Range

(* The first element taken off a sequence without repetitions. *)
LEMMA TailOne ==
    ASSUME NEW S, NEW q \in Seq(S), q # <<>>,
           \A i, j \in DOMAIN q : q[i] = q[j] => i = j
    PROVE  /\ Tail(q) \in Seq(S)
           /\ Head(q) \in S
           /\ Range(q) = Range(Tail(q)) \cup {Head(q)}
           /\ Head(q) \notin Range(Tail(q))
           /\ \A i, j \in DOMAIN Tail(q) : Tail(q)[i] = Tail(q)[j] => i = j
<1>1. /\ Head(q) \in S /\ Tail(q) \in Seq(S)
      /\ Len(Tail(q)) = Len(q) - 1
      /\ \A i \in 1 .. Len(Tail(q)) : Tail(q)[i] = q[i + 1]
      /\ Head(q) = q[1]
  BY HeadTailProperties
<1>2. DOMAIN q = 1 .. Len(q) /\ DOMAIN Tail(q) = 1 .. Len(q) - 1 /\ Len(q) \in Nat \ {0}
  BY <1>1, LenProperties, EmptySeq
<1>3. \A i \in 2 .. Len(q) : q[i] = Tail(q)[i - 1]
  BY <1>1, <1>2
<1>4. Range(q) = Range(Tail(q)) \cup {Head(q)}
  <2>1. ASSUME NEW x \in Range(q) PROVE x \in Range(Tail(q)) \cup {Head(q)}
    <3>1. PICK i \in 1 .. Len(q) : x = q[i]
      BY <1>2 DEF Range
    <3>2. CASE i = 1
      BY <1>1, <3>1, <3>2
    <3>3. CASE i \in 2 .. Len(q)
      <4>1. i - 1 \in DOMAIN Tail(q) /\ x = Tail(q)[i - 1]
        BY <1>2, <1>3, <3>1, <3>3
      <4>2. QED
        BY <4>1, Zenon DEF Range
    <3>4. QED
      BY <1>2, <3>2, <3>3
  <2>2. ASSUME NEW x \in Range(Tail(q)) \cup {Head(q)} PROVE x \in Range(q)
    BY <1>1, <1>2 DEF Range
  <2>3. QED
    BY <2>1, <2>2
<1>5. QED
  BY <1>1, <1>2, <1>4 DEF Range

(* Every step of the ledger keeps its invariant. *)
LEMMA LedgerStep ==
    ASSUME LedgerInv, [Next]_ledger
    PROVE  LedgerInv'
<1>0. None \notin Tasks /\ None \notin Actors /\ Tasks \subseteq Actors
  BY LedgerAssumption
<1> USE <1>0, CountedFinite DEF LedgerInv
<1>1. ASSUME NEW t \in Tasks, Schedule(t)
      PROVE  LedgerInv'
  <2>1. LedgerTypes'
    BY <1>1 DEF Schedule, LedgerTypes
  <2>2. Scheduled' = Scheduled \cup {t} /\ t \notin Scheduled
    BY <1>1 DEF Schedule, LedgerTypes, Scheduled
  <2>3. InOnePlace'
    BY <1>1, <2>2 DEF Schedule, LedgerTypes, InOnePlace, Holders, Range
  <2>4. PendingExact'
    <3>1. Cardinality(Scheduled') = Cardinality(Scheduled) + 1
      BY <2>2, FS_AddElement, Zenon
    <3>2. QED
      BY <1>1, <3>1 DEF Schedule, PendingExact
  <2>5. QED
    BY <1>1, <2>1, <2>3, <2>4 DEF Schedule, OwnerSettles
<1>2. ASSUME NEW t \in Tasks, Enqueue(t)
      PROVE  LedgerInv'
  <2>1. t \notin Range(queue)
    BY <1>2 DEF Enqueue, LedgerTypes, InOnePlace, Holders
  <2>2. /\ queue' \in Seq(Tasks)
        /\ Range(queue') = Range(queue) \cup {t}
        /\ \A i, j \in DOMAIN queue' : queue'[i] = queue'[j] => i = j
    BY <1>2, <2>1, AppendOne DEF Enqueue, LedgerTypes, InOnePlace
  <2>3. LedgerTypes'
    BY <1>2, <2>2 DEF Enqueue, LedgerTypes
  <2>4. Scheduled' = Scheduled
    BY <1>2 DEF Enqueue, Scheduled
  <2>5. InOnePlace'
    <3>1. Holders' = Holders \ {t} /\ t \in Holders /\ \A th \in Holders' : held'[th] = held[th]
      BY <1>2 DEF Enqueue, LedgerTypes, Holders
    <3>2. QED
      BY <1>2, <2>2, <2>4, <3>1 DEF Enqueue, InOnePlace
  <2>6. QED
    BY <1>2, <2>3, <2>4, <2>5 DEF Enqueue, PendingExact, OwnerSettles
<1>3. ASSUME NEW t \in Tasks, Renew(t)
      PROVE  LedgerInv'
  <2>1. LedgerTypes' /\ Scheduled' = Scheduled
    BY <1>3 DEF Renew, LedgerTypes, Scheduled
  <2>2. InOnePlace'
    BY <1>3, <2>1 DEF Renew, InOnePlace, Holders
  <2>3. QED
    BY <1>3, <2>1, <2>2 DEF Renew, PendingExact, OwnerSettles
<1>4. ASSUME NEW th \in Actors, Acquire(th) \/ Release(th)
      PROVE  LedgerInv'
  <2>1. LedgerTypes' /\ Scheduled' = Scheduled /\ Holders' = Holders
    BY <1>4 DEF Acquire, Release, LedgerTypes, Scheduled, Holders
  <2>2. InOnePlace'
    BY <1>4, <2>1 DEF Acquire, Release, InOnePlace
  <2>3. OwnerSettles'
    BY <1>4 DEF Acquire, Release, OwnerSettles, LedgerTypes
  <2>4. QED
    BY <1>4, <2>1, <2>2, <2>3 DEF Acquire, Release, PendingExact
<1>5. ASSUME NEW th \in Actors, Dequeue(th)
      PROVE  LedgerInv'
  <2>1. /\ queue' \in Seq(Tasks)
        /\ Head(queue) \in Tasks
        /\ Range(queue) = Range(queue') \cup {Head(queue)}
        /\ Head(queue) \notin Range(queue')
        /\ \A i, j \in DOMAIN queue' : queue'[i] = queue'[j] => i = j
    BY <1>5, TailOne DEF Dequeue, LedgerTypes, InOnePlace
  <2>2. LedgerTypes'
    BY <1>5, <2>1 DEF Dequeue, LedgerTypes
  <2>3. Scheduled' = Scheduled
    BY <1>5 DEF Dequeue, Scheduled
  <2>4. InOnePlace'
    <3>1. /\ Holders' = Holders \cup {th} /\ th \notin Holders
          /\ held'[th] = Head(queue)
          /\ \A x \in Holders : held'[x] = held[x]
      BY <1>5, <2>1 DEF Dequeue, LedgerTypes, Holders
    <3>2. QED
      BY <2>1, <2>3, <3>1 DEF InOnePlace
  <2>5. QED
    BY <1>5, <2>2, <2>3, <2>4 DEF Dequeue, PendingExact, OwnerSettles
<1>6. ASSUME NEW th \in Actors, Process(th)
      PROVE  LedgerInv'
  <2>1. held[th] \in Tasks /\ held[th] \in Scheduled
    BY <1>6 DEF Process, LedgerTypes, InOnePlace, Holders
  <2>2. LedgerTypes'
    BY <1>6, <2>1 DEF Process, LedgerTypes
  <2>3. Scheduled' = Scheduled \ {held[th]}
    BY <1>6, <2>1 DEF Process, LedgerTypes, Scheduled
  <2>4. InOnePlace'
    <3>1. Holders' = Holders \ {th} /\ th \in Holders /\ \A x \in Holders' : held'[x] = held[x]
      BY <1>6 DEF Process, LedgerTypes, Holders
    <3>2. QED
      BY <1>6, <2>3, <3>1 DEF Process, InOnePlace
  <2>5. PendingExact'
    <3>1. Cardinality(Scheduled') = Cardinality(Scheduled) - 1
      BY <2>1, <2>3, FS_RemoveElement, Zenon
    <3>2. Cardinality(settling') = Cardinality(settling) + 1
      BY <1>6, FS_AddElement, Zenon DEF Process
    <3>3. QED
      BY <1>6, <3>1, <3>2 DEF Process, PendingExact
  <2>6. QED
    BY <1>6, <2>2, <2>4, <2>5 DEF Process, OwnerSettles
<1>7. ASSUME NEW th \in Actors, Settle(th)
      PROVE  LedgerInv'
  <2>1. LedgerTypes' /\ Scheduled' = Scheduled /\ Holders' = Holders
    BY <1>7 DEF Settle, LedgerTypes, Scheduled, Holders
  <2>2. InOnePlace'
    BY <1>7, <2>1 DEF Settle, InOnePlace
  <2>3. Cardinality(settling') = Cardinality(settling) - 1
    BY <1>7, FS_RemoveElement, Zenon DEF Settle
  <2>4. QED
    BY <1>7, <2>1, <2>2, <2>3 DEF Settle, PendingExact, OwnerSettles
<1>8. CASE UNCHANGED ledger
  <2>1. Scheduled' = Scheduled /\ Holders' = Holders
    BY <1>8 DEF ledger, Scheduled, Holders
  <2>2. QED
    BY <1>8, <2>1 DEF ledger, LedgerTypes, InOnePlace, PendingExact, OwnerSettles
<1>9. QED
  BY <1>1, <1>2, <1>3, <1>4, <1>5, <1>6, <1>7, <1>8 DEF Next

(* Whatever the threads do, a scheduled task is in one place, the counter of
   pending tasks is exact, and tasks are settled under the pipeline lock. *)
THEOREM LedgerCorrect == Spec => []LedgerInv
<1>1. Init => LedgerInv
  <2>1. SUFFICES ASSUME Init PROVE LedgerInv
    OBVIOUS
  <2>2. LedgerTypes /\ Scheduled = {} /\ settling = {} /\ Holders = {} /\ Range(queue) = {}
    BY <2>1, LedgerAssumption DEF Init, LedgerTypes, Scheduled, Holders, Range
  <2>3. InOnePlace
    BY <2>1, <2>2 DEF Init, InOnePlace
  <2>4. PendingExact
    BY <2>1, <2>2, FS_EmptySet DEF Init, PendingExact
  <2>5. QED
    BY <2>2, <2>3, <2>4 DEF LedgerInv, OwnerSettles
<1>2. QED
  BY <1>1, LedgerStep, PTL DEF Spec
=============================================================================
