------------------------------- MODULE Hashmap ------------------------------
(***************************************************************************)
(* core::HashmapImpl (roc_core/hashmap_impl.cpp): a hash table with chains *)
(* that moves its elements to a larger table a few at a time, with the     *)
(* calls that follow the growth.  A bucket is the sequence of its nodes,   *)
(* from its head on.                                                       *)
(***************************************************************************)
EXTENDS Naturals, SequencesExt, FiniteSetsExt, FiniteSets

CONSTANTS
    HashNodes,      \* the nodes that are inserted and removed
    Hash(_),        \* the hash sum of a node's key
    PrimeCounts,    \* prime_counts
    MinArenaCount,  \* min_arena_count
    Preallocated,   \* num_preallocated_buckets_
    LoadNum, LoadDen \* LoadFactorNum, LoadFactorDen

VARIABLES
    table,    \* the hashmap
    members   \* history: the nodes inserted and not removed, in order

hashVars == <<table, members>>

Init ==
    /\ table = [curr |-> <<>>, prev |-> <<>>, pos |-> 0, remain |-> 0,
                all |-> <<>>, unfinished |-> FALSE, notReset |-> FALSE]
    /\ members = <<>>

\* buckets_capacity_()
Capacity(n) == (n * LoadNum) \div LoadDen

\* get_next_bucket_size_(): the largest count that the preallocated memory
\* holds, then the next one that is worth an allocation.
NextBucketSize(count) ==
    LET embedded == {k \in 1..Len(PrimeCounts) - 1 :
                       /\ PrimeCounts[k] <= Preallocated
                       /\ PrimeCounts[k] > count
                       /\ PrimeCounts[k + 1] > Preallocated}
        larger == {c \in ToSet(PrimeCounts) : c >= MinArenaCount /\ c > count}
    IN  IF count < Preallocated /\ embedded # {} THEN PrimeCounts[Min(embedded)]
        ELSE IF larger # {} THEN Min(larger)
        ELSE count * 3

\* select_bucket_() and bucket_insert_()
BucketInsert(buckets, x) ==
    [buckets EXCEPT ![(Hash(x) % Len(buckets)) + 1] = Append(@, x)]

InBuckets(buckets, x) == \E b \in DOMAIN buckets : x \in ToSet(buckets[b])

WithoutNode(buckets, x) ==
    [b \in DOMAIN buckets |-> Remove(buckets[b], x)]

\* bucket_remove_()
BucketRemove(m, x) ==
    [m EXCEPT !.curr = WithoutNode(@, x), !.prev = WithoutNode(@, x),
              !.remain = IF InBuckets(m.prev, x) THEN @ - 1 ELSE @]

\* find_node(): the bucket of the hash in the new table, then in the old one.
FindNode(m, x) ==
    \E buckets \in {m.curr, m.prev} :
        /\ buckets # <<>>
        /\ x \in ToSet(buckets[(Hash(x) % Len(buckets)) + 1])

\* migrate_node_()
MigrateNode(m, x) ==
    LET r == BucketRemove(m, x) IN [r EXCEPT !.curr = BucketInsert(@, x)]

RECURSIVE Migrate(_, _)
\* The loop of proceed_rehash_(): after the last bucket the old table is
\* given up.
Migrate(m, left) ==
    LET bucket == m.prev[m.pos + 1]
    IN  IF bucket = <<>>
        THEN IF m.pos + 1 = Len(m.prev)
             THEN [m EXCEPT !.pos = 0, !.prev = <<>>]
             ELSE Migrate([m EXCEPT !.pos = @ + 1], left)
        ELSE IF left = 0 THEN m
        ELSE Migrate(MigrateNode(m, Head(bucket)), left - 1)

\* Mutant: an insertion moves nothing.
ProceedInRemoveOnly(m, inInsert) ==
    IF m.remain = 0 \/ inInsert THEN m ELSE Migrate(m, 1)

\* proceed_rehash_(): an insertion moves as many nodes as are needed to be
\* done before the table is full again, a removal moves one.
ProceedRehash(m, inInsert) ==
    LET room == Capacity(Len(m.curr)) - Len(m.all)
    IN  IF m.remain = 0 THEN m
        ELSE IF ~inInsert THEN Migrate(m, 1)
        ELSE IF room = 0 THEN Migrate(m, m.remain)
        ELSE Migrate(m, (m.remain + room - 1) \div room)

RECURSIVE GrownSize(_, _)
GrownSize(m, n) ==
    IF Len(m.all) < Capacity(NextBucketSize(n)) THEN NextBucketSize(n)
    ELSE GrownSize(m, NextBucketSize(n))

\* realloc_buckets_(): its assertions on the rehash before it are recorded.
ReallocBuckets(m, n) ==
    [m EXCEPT !.prev = m.curr, !.pos = 0,
              !.remain = IF m.curr = <<>> THEN 0 ELSE Len(m.all),
              !.curr = [b \in 1..n |-> <<>>],
              !.unfinished = m.remain # 0,
              !.notReset = m.pos # 0]

Aborted == table.unfinished \/ table.notReset

\* grow(), called by insert() when the table is full.
Grow(m) ==
    IF Len(m.all) >= Capacity(Len(m.curr)) THEN ReallocBuckets(m, GrownSize(m, Len(m.curr)))
    ELSE m

\* insert() of a node whose key is not there.
InsertNode(x) ==
    /\ ~Aborted /\ x \notin ToSet(members)
    /\ LET g == Grow(table)
           i == [g EXCEPT !.curr = BucketInsert(@, x), !.all = Append(@, x)]
       IN  table' = IF g.unfinished \/ g.notReset THEN g ELSE ProceedRehash(i, TRUE)
    /\ members' = Append(members, x)

\* Mutant: the count of nodes to move is not kept by a removal.
RemoveNodeUncounted(x) ==
    /\ ~Aborted /\ x \in ToSet(members)
    /\ LET r == [BucketRemove(table, x) EXCEPT !.remain = table.remain]
       IN  table' = [r EXCEPT !.all = Remove(@, x)]
    /\ members' = Remove(members, x)

\* remove(); the destructor, which skips the rehash, is left out.
RemoveNode(x) ==
    /\ ~Aborted /\ x \in ToSet(members)
    /\ LET r == [BucketRemove(table, x) EXCEPT !.all = Remove(@, x)]
       IN  table' = ProceedRehash(r, FALSE)
    /\ members' = Remove(members, x)

Next == \E x \in HashNodes : InsertNode(x) \/ RemoveNode(x)

Spec == Init /\ [][Next]_hashVars
-----------------------------------------------------------------------------
\* Type correctness; every node is in the table once.
TypeOK ==
    /\ ToSet(table.all) \subseteq HashNodes
    /\ table.prev # <<>> => table.pos < Len(table.prev)
    /\ \A x \in HashNodes : ~(InBuckets(table.curr, x) /\ InBuckets(table.prev, x))

\* find_node() finds exactly the nodes that are in the map, in whichever table
\* they are while the elements move; front() and nextof() visit them in the
\* order of their insertion.
HashmapFindsExactly ==
    ~Aborted =>
        /\ \A x \in HashNodes : FindNode(table, x) <=> x \in ToSet(members)
        /\ table.all = members

\* rehash_remain_nodes_ counts the nodes of the old table, so that none is
\* left in it when it is given up.
HashmapRemainExact ==
    table.remain = Cardinality({x \in HashNodes : InBuckets(table.prev, x)})

\* proceed_rehash_(): "migrate as much nodes per insert as needed to finish
\* until next rehash": the table is never full again with nodes left to move.
HashmapRehashInTime ==
    ~table.unfinished /\ (Len(table.all) = Capacity(Len(table.curr)) => table.remain = 0)

\* realloc_buckets_() asserts rehash_pos_ == 0.
HashmapRehashReset == ~table.notReset
=============================================================================
