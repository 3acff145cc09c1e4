----------------------------- MODULE LimitedPool ----------------------------
(***************************************************************************)
(* core::LimitedPool over core::MemoryLimiter (roc_core/limited_pool.cpp,  *)
(* memory_limiter.cpp): threads that allocate objects of one size from a   *)
(* pool, within a limit that an atomic counter of bytes enforces without a *)
(* lock.  The pool below may refuse an allocation.                         *)
(***************************************************************************)
EXTENDS Naturals, FiniteSets

CONSTANTS
    Users,      \* objects that may be asked for at the same time
    MaxBytes,   \* max_bytes_, 0 for no limit
    ObjectSize  \* allocation_size()

ASSUME PoolAssumption ==
    /\ IsFiniteSet(Users)
    /\ MaxBytes \in Nat
    /\ ObjectSize \in Nat \ {0}

VARIABLES
    acquired,  \* bytes_acquired_
    upc,       \* where each user is
    seen       \* acquire(): the value that was read

poolVars == <<acquired, upc, seen>>

PoolInit ==
    /\ acquired = 0
    /\ upc = [u \in Users |-> "idle"]
    /\ seen = [u \in Users |-> 0]

\* Mutant: the limit is compared with the counter as it is, without the new object.
LoadUnsummed(u) ==
    /\ upc[u] \in {"idle", "retry"}
    /\ seen' = [seen EXCEPT ![u] = acquired]
    /\ upc' = [upc EXCEPT ![u] = IF MaxBytes > 0 /\ acquired > MaxBytes THEN "idle" ELSE "loaded"]
    /\ UNCHANGED acquired

\* acquire(): the counter is read; beyond the limit the object is refused.
Load(u) ==
    /\ upc[u] \in {"idle", "retry"}
    /\ seen' = [seen EXCEPT ![u] = acquired]
    /\ upc' = [upc EXCEPT ![u] = IF MaxBytes > 0 /\ acquired + ObjectSize > MaxBytes
                                 THEN "idle" ELSE "loaded"]
    /\ UNCHANGED acquired

\* acquire(): compare_exchange(), and once more if the counter has changed.
CompareExchange(u) ==
    /\ upc[u] = "loaded"
    /\ IF acquired = seen[u]
       THEN acquired' = seen[u] + ObjectSize /\ upc' = [upc EXCEPT ![u] = "acquired"]
       ELSE UNCHANGED acquired /\ upc' = [upc EXCEPT ![u] = "retry"]
    /\ UNCHANGED seen

\* allocate() of the pool: memory, or nothing.
PoolAllocate(u) ==
    /\ upc[u] = "acquired"
    /\ \E next \in {"using", "freed"} : upc' = [upc EXCEPT ![u] = next]
    /\ UNCHANGED <<acquired, seen>>

\* deallocate(): the object goes back to the pool.
PoolDeallocate(u) ==
    /\ upc[u] = "using"
    /\ upc' = [upc EXCEPT ![u] = "freed"]
    /\ UNCHANGED <<acquired, seen>>

\* release(), after deallocate() or for an object the pool did not have.
Release(u) ==
    /\ upc[u] = "freed"
    /\ acquired' = acquired - ObjectSize
    /\ upc' = [upc EXCEPT ![u] = "idle"]
    /\ UNCHANGED seen

PoolNext ==
    \E u \in Users :
        Load(u) \/ CompareExchange(u) \/ PoolAllocate(u) \/ PoolDeallocate(u) \/ Release(u)

PoolSpec == PoolInit /\ [][PoolNext]_poolVars
-----------------------------------------------------------------------------
Charged == {u \in Users : upc[u] \in {"acquired", "using", "freed"}}
InUse == {u \in Users : upc[u] = "using"}

\* Type correctness: release() never finds fewer bytes than it gives back.
PoolTypeOK ==
    /\ acquired \in Nat
    /\ upc \in [Users -> {"idle", "retry", "loaded", "acquired", "using", "freed"}]
    /\ seen \in [Users -> Nat]

\* The counter is exactly what the objects between acquire() and release()
\* take.
PoolCountExact == acquired = ObjectSize * Cardinality(Charged)

\* A limited pool never has more memory in use than its limit, whatever the
\* order in which threads read and change the counter.
PoolWithinLimit == MaxBytes > 0 => ObjectSize * Cardinality(InUse) <= MaxBytes

\* The inductive invariant: a user that read the counter checked the limit.
PoolInv ==
    /\ PoolTypeOK
    /\ PoolCountExact
    /\ MaxBytes > 0 =>
         /\ acquired <= MaxBytes
         /\ \A u \in Users : upc[u] = "loaded" => seen[u] + ObjectSize <= MaxBytes
=============================================================================
