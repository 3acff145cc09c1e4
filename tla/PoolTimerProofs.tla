--------------------------- MODULE PoolTimerProofs ---------------------------
(***************************************************************************)
(* Two lock-free parts of roc_core, for any number of threads.  The        *)
(* counter of core::MemoryLimiter is exact and a limited pool stays within *)
(* its limit, whatever the limit and the size of the objects.  The sleeper *)
(* of core::Timer does not sleep past the deadline, whatever the deadlines.*)
(***************************************************************************)
EXTENDS LimitedPool, Timer, FiniteSetTheorems, TLAPS

\* The objects that are charged, and those in use, are finitely many, and
\* the latter are among the former.
LEMMA PoolFinite ==
    /\ IsFiniteSet(Charged) /\ Cardinality(Charged) \in Nat
    /\ IsFiniteSet(InUse) /\ Cardinality(InUse) \in Nat
    /\ Cardinality(InUse) <= Cardinality(Charged)
<1>1. Charged \subseteq Users /\ InUse \subseteq Charged
  BY DEF Charged, InUse
<1>2. IsFiniteSet(Charged)
  BY <1>1, PoolAssumption, FS_Subset
<1> QED
  BY <1>1, <1>2, FS_Subset, FS_CardinalityType

\* acquire() charges one object more.
LEMMA PoolCharge ==
    ASSUME PoolTypeOK, NEW u \in Users, upc[u] = "loaded",
           upc' = [upc EXCEPT ![u] = "acquired"]
    PROVE  Cardinality(Charged') = Cardinality(Charged) + 1
<1>1. Charged' = Charged \cup {u} /\ u \notin Charged
  BY DEF PoolTypeOK, Charged
<1> QED
  BY <1>1, PoolFinite, FS_AddElement, Zenon

\* release() charges one object less, and there was one.
LEMMA PoolDischarge ==
    ASSUME PoolTypeOK, NEW u \in Users, upc[u] = "freed",
           upc' = [upc EXCEPT ![u] = "idle"]
    PROVE  /\ Cardinality(Charged) >= 1
           /\ Cardinality(Charged') = Cardinality(Charged) - 1
<1>1. Charged' = Charged \ {u} /\ u \in Charged
  BY DEF PoolTypeOK, Charged
<1>2. Cardinality(Charged') = Cardinality(Charged) - 1
  BY <1>1, PoolFinite, FS_RemoveElement, Zenon
<1>3. IsFiniteSet(Charged') /\ Cardinality(Charged') \in Nat
  BY <1>1, PoolFinite, FS_Subset, FS_CardinalityType
<1> QED
  BY <1>2, <1>3, PoolFinite

\* The other steps leave the set of charged objects as it is.
LEMMA PoolUncharged ==
    ASSUME PoolTypeOK, NEW u \in Users, NEW next,
           upc[u] \in {"acquired", "using", "freed"}
             <=> next \in {"acquired", "using", "freed"},
           upc' = [upc EXCEPT ![u] = next]
    PROVE  Charged' = Charged
BY DEF PoolTypeOK, Charged

\* The invariant holds at the beginning.
LEMMA PoolInitially == PoolInit => PoolInv
<1> SUFFICES ASSUME PoolInit PROVE PoolInv
  OBVIOUS
<1>1. Charged = {}
  BY DEF PoolInit, Charged
<1>2. Cardinality(Charged) = 0
  BY <1>1, FS_EmptySet
<1> QED
  BY <1>2, PoolAssumption DEF PoolInit, PoolInv, PoolTypeOK, PoolCountExact

\* Every step of every thread keeps the invariant.
LEMMA PoolStep == PoolInv /\ [PoolNext]_poolVars => PoolInv'
<1> SUFFICES ASSUME PoolInv, [PoolNext]_poolVars PROVE PoolInv'
  OBVIOUS
<1> USE PoolAssumption
<1>0. PoolTypeOK /\ Cardinality(Charged) \in Nat
  BY PoolFinite DEF PoolInv
<1>1. ASSUME NEW u \in Users, Load(u) PROVE PoolInv'
  <2>1. Charged' = Charged
    <3>1. PICK next \in {"idle", "loaded"} : upc' = [upc EXCEPT ![u] = next]
      BY <1>1, Zenon DEF Load
    <3> QED
      BY <1>0, <1>1, <3>1, PoolUncharged, Zenon DEF Load
  <2> QED
    BY <1>1, <2>1 DEF Load, PoolInv, PoolTypeOK, PoolCountExact
<1>2. ASSUME NEW u \in Users, CompareExchange(u) PROVE PoolInv'
  <2>1. CASE acquired = seen[u]
    <3>1. Cardinality(Charged') = Cardinality(Charged) + 1
      BY <1>0, <1>2, <2>1, PoolCharge DEF CompareExchange
    <3>2. acquired' = ObjectSize * Cardinality(Charged')
      BY <1>0, <1>2, <2>1, <3>1 DEF CompareExchange, PoolInv, PoolCountExact
    <3> QED
      BY <1>2, <2>1, <3>2 DEF CompareExchange, PoolInv, PoolTypeOK, PoolCountExact
  <2>2. CASE acquired # seen[u]
    <3>1. Charged' = Charged
      BY <1>0, <1>2, <2>2, PoolUncharged DEF CompareExchange
    <3> QED
      BY <1>2, <2>2, <3>1 DEF CompareExchange, PoolInv, PoolTypeOK, PoolCountExact
  <2> QED
    BY <2>1, <2>2
<1>3. ASSUME NEW u \in Users, PoolAllocate(u) PROVE PoolInv'
  <2>1. PICK next \in {"using", "freed"} : upc' = [upc EXCEPT ![u] = next]
    BY <1>3, Zenon DEF PoolAllocate
  <2>2. Charged' = Charged
    BY <1>0, <1>3, <2>1, PoolUncharged, Zenon DEF PoolAllocate
  <2> QED
    BY <1>3, <2>1, <2>2 DEF PoolAllocate, PoolInv, PoolTypeOK, PoolCountExact
<1>4. ASSUME NEW u \in Users, PoolDeallocate(u) PROVE PoolInv'
  <2>1. Charged' = Charged
    BY <1>0, <1>4, PoolUncharged, Zenon DEF PoolDeallocate
  <2> QED
    BY <1>4, <2>1 DEF PoolDeallocate, PoolInv, PoolTypeOK, PoolCountExact
<1>5. ASSUME NEW u \in Users, Release(u) PROVE PoolInv'
  <2>1. /\ Cardinality(Charged) >= 1
        /\ Cardinality(Charged') = Cardinality(Charged) - 1
    BY <1>0, <1>5, PoolDischarge, Zenon DEF Release
  <2>2. acquired' = ObjectSize * Cardinality(Charged') /\ acquired' \in Nat
    BY <1>0, <1>5, <2>1 DEF Release, PoolInv, PoolCountExact
  <2> QED
    BY <1>5, <2>2 DEF Release, PoolInv, PoolTypeOK, PoolCountExact
<1>6. CASE UNCHANGED poolVars
  <2>1. Charged' = Charged
    BY <1>6 DEF poolVars, Charged
  <2> QED
    BY <1>6, <2>1 DEF poolVars, PoolInv, PoolTypeOK, PoolCountExact
<1> QED
  BY <1>1, <1>2, <1>3, <1>4, <1>5, <1>6 DEF PoolNext

\* bytes_acquired_ is exactly what the objects between acquire() and
\* release() take, so release() never panics.
THEOREM PoolCounts == PoolSpec => []PoolInv
BY PoolInitially, PoolStep, PTL DEF PoolSpec

\* However many threads race for the last bytes, the memory in use stays
\* within max_bytes_.
THEOREM PoolStaysWithinLimit == PoolSpec => []PoolWithinLimit
<1>1. PoolInv => PoolWithinLimit
  <2> SUFFICES ASSUME PoolInv, MaxBytes > 0
               PROVE  ObjectSize * Cardinality(InUse) <= MaxBytes
    BY DEF PoolWithinLimit
  <2>1. ObjectSize * Cardinality(InUse) <= ObjectSize * Cardinality(Charged)
    BY PoolFinite, PoolAssumption
  <2> QED
    BY <2>1, PoolFinite, PoolAssumption DEF PoolInv, PoolTypeOK, PoolCountExact
<1> QED
  BY <1>1, PoolCounts, PTL

-----------------------------------------------------------------------------
(* Timer *)

LEMMA TimerInvAtFirst == TimerInit => TimerInv
<1> SUFFICES ASSUME TimerInit PROVE TimerInv
  OBVIOUS
<1>1. TimerTypeOK
  <2>1. 0 \in -1..MaxTime /\ 0 \in 0..MaxTime
    BY TimerAssumption
  <2> QED
    BY <2>1, Zenon DEF TimerInit, TimerTypeOK
<1>2. TimerAnnounced /\ TimerFlagged /\ TimerWakes
  BY DEF TimerInit, TimerAnnounced, TimerFlagged, TimerWakes, TimerLate
<1> QED
  BY <1>1, <1>2 DEF TimerInv

-----------------------------------------------------------------------------
(* A step of a setter leaves the sleeper and what it announced alone. *)
LEMMA SetterKeepsAnnounced ==
    ASSUME TimerInv, NEW s \in Setters, TrySetDeadline(s) \/ SetterStep(s)
    PROVE  UNCHANGED <<wakeup, wpc, loaded>> /\ TimerAnnounced'
<1>1. UNCHANGED <<wakeup, wpc, loaded>>
  BY DEF TrySetDeadline, SetterStep, StoreDeadline, CompareWakeup, RaiseFlag, Post, sleeper
<1> QED
  BY <1>1 DEF TimerInv, TimerAnnounced

(* The setters that s is not do not move. *)
LEMMA OtherSetters ==
    ASSUME TimerTypeOK, NEW s \in Setters, NEW l, SetterGoto(s, l)
    PROVE  setPc'[s] = l /\ \A t \in Setters \ {s} : setPc'[t] = setPc[t]
BY DEF TimerTypeOK, SetterGoto

LEMMA TrySetDeadlineKeeps ==
    ASSUME TimerInv, NEW s \in Setters, TrySetDeadline(s)
    PROVE  TimerInv'
<1>1. TimerTypeOK /\ TimerFlagged /\ TimerWakes /\ TimerAnnounced'
  BY SetterKeepsAnnounced DEF TimerInv
<1>2. UNCHANGED <<wakeup, sem, posted, wpc, loaded, now>> /\ setPc[s] = "idle"
  BY DEF TrySetDeadline, sleeper
<1>3. CASE deadline.by # Nobody
  <2>1. UNCHANGED <<deadline, new, setPc>> /\ sets' = [sets EXCEPT ![s] = @ + 1]
    BY <1>3 DEF TrySetDeadline
  <2>2. TimerTypeOK'
    BY <1>1, <1>2, <2>1 DEF TimerTypeOK
  <2>3. TimerFlagged' /\ TimerWakes'
    BY <1>1, <1>2, <2>1 DEF TimerFlagged, TimerWakes, TimerLate
  <2> QED
    BY <1>1, <2>2, <2>3 DEF TimerInv
<1>4. CASE deadline.by = Nobody
  <2>1. /\ deadline' = [deadline EXCEPT !.by = s] /\ SetterGoto(s, "storing")
        /\ sets' = [sets EXCEPT ![s] = @ + 1]
    BY <1>4 DEF TrySetDeadline
  <2>2. PICK d \in -1..MaxTime : new' = [new EXCEPT ![s] = d]
    BY <1>4 DEF TrySetDeadline
  <2>3. /\ setPc'[s] = "storing"
        /\ \A t \in Setters \ {s} : setPc'[t] = setPc[t] /\ new'[t] = new[t]
    BY <1>1, <2>1, <2>2, OtherSetters DEF TimerTypeOK
  <2>4. deadline'.value = deadline.value /\ deadline' \in [value : -1..MaxTime, by : Setters \cup {Nobody}]
    BY <1>1, <2>1 DEF TimerTypeOK
  <2>5. TimerTypeOK'
    BY <1>1, <1>2, <2>1, <2>2, <2>4 DEF TimerTypeOK, SetterGoto
  <2>6. \A t \in Setters : setPc[t] \in {"compare", "flag", "post"} =>
            setPc'[t] = setPc[t] /\ new'[t] = new[t]
    BY <1>2, <2>3
  <2>7. TimerFlagged'
    BY <1>1, <1>2, <2>6 DEF TimerFlagged
  <2>8. TimerWakes'
    BY <1>1, <1>2, <2>4, <2>6 DEF TimerWakes, TimerLate
  <2> QED
    BY <1>1, <2>5, <2>7, <2>8 DEF TimerInv
<1> QED
  BY <1>3, <1>4

(* The setter that moves the deadline goes on to compare it with next_wakeup_. *)
LEMMA StoreDeadlineKeeps ==
    ASSUME TimerInv, NEW s \in Setters, StoreDeadline(s)
    PROVE  TimerInv'
<1>1. TimerTypeOK /\ TimerFlagged /\ TimerAnnounced'
  BY SetterKeepsAnnounced DEF TimerInv, SetterStep
<1>2. /\ UNCHANGED <<wakeup, sem, posted, new, sets, wpc, loaded, now>> /\ setPc[s] = "storing"
      /\ deadline' = [value |-> new[s], by |-> Nobody] /\ SetterGoto(s, "compare")
  BY DEF StoreDeadline, sleeper
<1>3. setPc'[s] = "compare" /\ \A t \in Setters \ {s} : setPc'[t] = setPc[t]
  BY <1>1, <1>2, OtherSetters
<1>4. TimerTypeOK'
  BY <1>1, <1>2 DEF TimerTypeOK, SetterGoto
<1>5. TimerFlagged'
  BY <1>1, <1>2, <1>3 DEF TimerFlagged
<1>6. TimerWakes'
  BY <1>2, <1>3 DEF TimerWakes
<1> QED
  BY <1>1, <1>4, <1>5, <1>6 DEF TimerInv

(* It finds that the sleeper is late: either the time of its wakeup is later than
   the deadline, or the sleeper has not decided yet. *)
LEMMA CompareWakeupKeeps ==
    ASSUME TimerInv, NEW s \in Setters, CompareWakeup(s)
    PROVE  TimerInv'
<1>1. TimerTypeOK /\ TimerFlagged /\ TimerWakes /\ TimerAnnounced /\ TimerAnnounced'
  BY SetterKeepsAnnounced DEF TimerInv, SetterStep
<1>2. UNCHANGED <<deadline, wakeup, sem, posted, new, sets, wpc, loaded, now>> /\ setPc[s] = "compare"
  BY DEF CompareWakeup, sleeper
<1> DEFINE next == IF wakeup.writing THEN -1 ELSE wakeup.value
           early == next < 0 \/ (new[s] >= 0 /\ new[s] < next)
<1>3. SetterGoto(s, IF early THEN "flag" ELSE "idle")
  BY DEF CompareWakeup
<1>4. /\ setPc'[s] = (IF early THEN "flag" ELSE "idle")
      /\ \A t \in Setters \ {s} : setPc'[t] = setPc[t]
  BY <1>1, <1>3, OtherSetters
<1>5. TimerTypeOK'
  BY <1>1, <1>2, <1>3 DEF TimerTypeOK, SetterGoto
<1>6. TimerFlagged'
  BY <1>1, <1>2, <1>4 DEF TimerFlagged
<1>7. ASSUME TimerLate, new[s] = deadline.value
      PROVE  early
  <2>1. /\ deadline.value \in Int /\ deadline.value >= 0 /\ loaded \in Int /\ loaded >= -1
        /\ loaded > 0 => deadline.value < loaded
    BY <1>1, <1>7, TimerAssumption DEF TimerTypeOK, TimerLate
  <2>2. CASE wpc = "announce"
    BY <1>1, <2>2 DEF TimerAnnounced
  <2>3. CASE wpc = "announcing"
    BY <1>1, <2>3 DEF TimerAnnounced
  <2>4. CASE wpc = "sleep"
    <3>1. next = loaded /\ loaded # 0
      BY <1>1, <2>4 DEF TimerAnnounced
    <3> QED
      BY <1>7, <2>1, <3>1
  <2> QED
    BY <1>7, <2>2, <2>3, <2>4 DEF TimerLate
<1>8. TimerWakes'
  <2> SUFFICES ASSUME TimerLate'
               PROVE  \/ sem' > 0
                      \/ \E t \in Setters : setPc'[t] \in {"flag", "post"}
                      \/ \E t \in Setters : setPc'[t] = "compare" /\ new'[t] = deadline'.value
    BY DEF TimerWakes
  <2>1. TimerLate
    BY <1>2 DEF TimerLate
  <2>2. CASE sem > 0
    BY <1>2, <2>2
  <2>3. ASSUME NEW t \in Setters, setPc[t] \in {"flag", "post"}
        PROVE  setPc'[t] \in {"flag", "post"}
    BY <1>2, <1>4, <2>3
  <2>4. ASSUME NEW t \in Setters, setPc[t] = "compare", new[t] = deadline.value
        PROVE  \/ setPc'[t] = "flag"
               \/ setPc'[t] = "compare" /\ new'[t] = deadline'.value
    <3>1. CASE t = s
      BY <1>4, <1>7, <2>1, <2>4, <3>1
    <3>2. CASE t # s
      BY <1>2, <1>4, <2>4, <3>2
    <3> QED
      BY <3>1, <3>2
  <2> QED
    BY <1>1, <2>1, <2>2, <2>3, <2>4 DEF TimerWakes
<1> QED
  BY <1>1, <1>5, <1>6, <1>8 DEF TimerInv

(* If the flag was raised already, whoever raised it wakes the sleeper up. *)
LEMMA RaiseFlagKeeps ==
    ASSUME TimerInv, NEW s \in Setters, RaiseFlag(s)
    PROVE  TimerInv'
<1>1. TimerTypeOK /\ TimerFlagged /\ TimerWakes /\ TimerAnnounced'
  BY SetterKeepsAnnounced DEF TimerInv, SetterStep
<1>2. /\ UNCHANGED <<deadline, wakeup, sem, new, sets, wpc, loaded, now>> /\ setPc[s] = "flag"
      /\ posted' = TRUE /\ SetterGoto(s, IF posted THEN "idle" ELSE "post")
  BY DEF RaiseFlag, sleeper
<1>3. /\ setPc'[s] = (IF posted THEN "idle" ELSE "post")
      /\ \A t \in Setters \ {s} : setPc'[t] = setPc[t]
  BY <1>1, <1>2, OtherSetters
<1>4. TimerTypeOK'
  BY <1>1, <1>2 DEF TimerTypeOK, SetterGoto
<1>5. sem' > 0 \/ wpc' = "unflag" \/ \E t \in Setters : setPc'[t] = "post"
  <2>1. CASE posted
    BY <1>1, <1>2, <1>3, <2>1 DEF TimerFlagged
  <2>2. CASE ~posted
    BY <1>3, <2>2
  <2> QED
    BY <2>1, <2>2
<1>6. TimerFlagged'
  BY <1>5 DEF TimerFlagged
<1>7. TimerWakes'
  BY <1>5 DEF TimerWakes, TimerLate
<1> QED
  BY <1>1, <1>4, <1>6, <1>7 DEF TimerInv

LEMMA PostKeeps ==
    ASSUME TimerInv, NEW s \in Setters, Post(s)
    PROVE  TimerInv'
<1>1. TimerTypeOK /\ TimerAnnounced'
  BY SetterKeepsAnnounced DEF TimerInv, SetterStep
<1>2. /\ UNCHANGED <<deadline, wakeup, posted, new, sets, wpc, loaded, now>>
      /\ sem' = sem + 1 /\ SetterGoto(s, "idle")
  BY DEF Post, sleeper
<1>3. TimerTypeOK' /\ sem' > 0
  BY <1>1, <1>2 DEF TimerTypeOK, SetterGoto
<1> QED
  BY <1>1, <1>3 DEF TimerInv, TimerFlagged, TimerWakes

-----------------------------------------------------------------------------
LEMMA SleeperKeeps ==
    ASSUME TimerInv, Sleeper
    PROVE  TimerInv'
<1>0. TimerTypeOK /\ TimerAnnounced /\ TimerFlagged /\ TimerWakes
  BY DEF TimerInv
<1>1. CASE BeginStoreWakeup
  <2>1. /\ UNCHANGED <<deadline, sem, posted, setPc, new, sets, loaded, now>>
        /\ wakeup' = [wakeup EXCEPT !.writing = TRUE]
        /\ wpc \in {"returned", "again", "announce", "leave"}
        /\ wpc' \in {"announcing", "leaving", "resetting"}
        /\ wpc' = "announcing" => wpc = "announce"
    BY <1>1 DEF BeginStoreWakeup, setters
  <2>2. TimerTypeOK'
    BY <1>0, <2>1, Zenon DEF TimerTypeOK
  <2>3. TimerAnnounced'
    BY <1>0, <2>1 DEF TimerAnnounced, TimerTypeOK
  <2>4. TimerFlagged'
    BY <1>0, <2>1 DEF TimerFlagged
  <2>5. TimerWakes'
    BY <1>0, <2>1 DEF TimerWakes, TimerLate
  <2> QED
    BY <2>2, <2>3, <2>4, <2>5 DEF TimerInv
<1>2. CASE EndStoreWakeup
  <2> DEFINE value == CASE wpc = "announcing" -> loaded [] wpc = "leaving" -> 0 [] OTHER -> -1
  <2>1. /\ UNCHANGED <<deadline, sem, posted, setPc, new, sets, loaded, now>>
        /\ wakeup' = [value |-> value, writing |-> FALSE]
        /\ wpc \in {"announcing", "leaving", "resetting"}
    BY <1>2 DEF EndStoreWakeup, setters
  <2>2. /\ wpc = "announcing" => wpc' = "sleep" /\ value = loaded
        /\ wpc = "leaving" => wpc' = "returned" /\ value = 0
        /\ wpc = "resetting" => wpc' = "load" /\ value = -1
    BY <1>2 DEF EndStoreWakeup
  <2> HIDE DEF value
  <2>3. TimerTypeOK'
    BY <1>0, <2>1, <2>2, TimerAssumption DEF TimerTypeOK
  <2>4. TimerAnnounced'
    <3>1. CASE wpc = "announcing"
      <4>1. loaded > 0 /\ loaded \in Int
        BY <1>0, <3>1 DEF TimerAnnounced, TimerTypeOK
      <4> QED
        BY <2>1, <2>2, <3>1, <4>1 DEF TimerAnnounced
    <3>2. CASE wpc \in {"leaving", "resetting"}
      BY <2>1, <2>2, <3>2, Zenon DEF TimerAnnounced
    <3> QED
      BY <2>1, <3>1, <3>2
  <2>5. TimerFlagged'
    BY <1>0, <2>1 DEF TimerFlagged
  <2>6. TimerWakes'
    BY <1>0, <2>1, <2>2 DEF TimerWakes, TimerLate
  <2> QED
    BY <2>3, <2>4, <2>5, <2>6 DEF TimerInv
<1>3. CASE LoadDeadline
  <2>1. /\ UNCHANGED <<deadline, wakeup, sem, posted, setPc, new, sets, now>>
        /\ loaded' = deadline.value /\ wpc = "load"
        /\ wpc' = IF deadline.value \in 0..now THEN "leave"
                  ELSE IF deadline.value > 0 THEN "announce" ELSE "sleep"
    BY <1>3 DEF LoadDeadline, setters
  <2>2. deadline.value \in -1..MaxTime /\ now \in Nat /\ deadline.value \in Int
    BY <1>0, TimerAssumption DEF TimerTypeOK
  <2>3. /\ wpc' \in {"leave", "announce", "sleep"}
        /\ wpc' = "announce" => deadline.value > 0
        /\ wpc' = "sleep" => deadline.value = -1
    BY <2>1, <2>2
  <2>4. TimerTypeOK'
    BY <1>0, <2>1, <2>2, <2>3 DEF TimerTypeOK
  <2>5. TimerAnnounced'
    BY <1>0, <2>1, <2>2, <2>3 DEF TimerAnnounced
  <2>6. TimerFlagged'
    BY <1>0, <2>1 DEF TimerFlagged
  <2>7. TimerWakes'
    BY <2>1, <2>2, <2>3 DEF TimerWakes, TimerLate
  <2> QED
    BY <2>4, <2>5, <2>6, <2>7 DEF TimerInv
<1>4. CASE WakePosted \/ WakeTimedOut
  <2>1. /\ UNCHANGED <<deadline, wakeup, posted, setPc, new, sets, loaded, now>> /\ wpc' = "unflag"
        /\ UNCHANGED sem \/ (sem > 0 /\ sem' = sem - 1)
    BY <1>4 DEF WakePosted, WakeTimedOut, setters
  <2>2. TimerTypeOK'
    BY <1>0, <2>1 DEF TimerTypeOK
  <2> QED
    BY <2>1, <2>2 DEF TimerInv, TimerAnnounced, TimerFlagged, TimerWakes, TimerLate
<1>5. CASE ClearFlag
  <2>1. /\ UNCHANGED <<deadline, wakeup, sem, setPc, new, sets, loaded, now>>
        /\ wpc' = "again" /\ posted' = FALSE
    BY <1>5 DEF ClearFlag, setters
  <2>2. TimerTypeOK'
    BY <1>0, <2>1, Zenon DEF TimerTypeOK
  <2> QED
    BY <2>1, <2>2 DEF TimerInv, TimerAnnounced, TimerFlagged, TimerWakes, TimerLate
<1> QED
  BY <1>1, <1>2, <1>3, <1>4, <1>5 DEF Sleeper

LEMMA TimerInvKept == TimerInv /\ [TimerNext]_timerVars => TimerInv'
<1> SUFFICES ASSUME TimerInv, [TimerNext]_timerVars PROVE TimerInv'
  OBVIOUS
<1>1. ASSUME NEW s \in Setters, TrySetDeadline(s) \/ SetterStep(s) PROVE TimerInv'
  BY <1>1, TrySetDeadlineKeeps, StoreDeadlineKeeps, CompareWakeupKeeps, RaiseFlagKeeps, PostKeeps
  DEF SetterStep
<1>2. CASE Tick \/ UNCHANGED timerVars
  <2>1. /\ UNCHANGED <<deadline, wakeup, sem, posted, setPc, new, sets, wpc, loaded>>
        /\ now' = now \/ (now < MaxTime /\ now' = now + 1)
    BY <1>2 DEF Tick, timerVars, setters, sleeper
  <2>2. TimerTypeOK'
    BY <2>1, TimerAssumption DEF TimerInv, TimerTypeOK
  <2> QED
    BY <2>1, <2>2 DEF TimerInv, TimerAnnounced, TimerFlagged, TimerWakes, TimerLate
<1> QED
  BY <1>1, <1>2, SleeperKeeps DEF TimerNext

(* However try_set_deadline() and wait_deadline() interleave, and however many
   threads move the deadline: once they are done the sleeper either will be woken
   up or wakes up in time. *)
THEOREM TimerWakesInTime == TimerSpec => []TimerNeverOversleeps
<1>1. TimerInv => TimerNeverOversleeps
  BY DEF TimerInv, TimerWakes, TimerNeverOversleeps, TimerQuiet, TimerTypeOK
<1> QED
  BY <1>1, TimerInvAtFirst, TimerInvKept, PTL DEF TimerSpec
=============================================================================
