-------------------------- MODULE MpscQueueProofs --------------------------
(***************************************************************************)
(* core/mpsc_queue_impl is a FIFO queue, for any number of threads that    *)
(* push.  MpscInv follows the list through every atomic access; that each  *)
(* access is a step of FifoQueue, or none, is then a matter of the step    *)
(* alone.                                                                  *)
(***************************************************************************)
EXTENDS MpscQueue, TLAPS

Elements == Nodes \cup {Stub}

-----------------------------------------------------------------------------
(* Sequences *)

LEMMA AppendFacts ==
    ASSUME NEW S, NEW s \in Seq(S), NEW x \in S
    PROVE  /\ Append(s, x) \in Seq(S) /\ Len(Append(s, x)) = Len(s) + 1
           /\ Append(s, x)[Len(s) + 1] = x
           /\ \A i \in 1 .. Len(s) : Append(s, x)[i] = s[i]
OBVIOUS

LEMMA TailFacts ==
    ASSUME NEW S, NEW s \in Seq(S), s # <<>>
    PROVE  /\ Tail(s) \in Seq(S) /\ Len(Tail(s)) = Len(s) - 1 /\ Len(s) \in Nat /\ Len(s) > 0
           /\ \A i \in 1 .. Len(s) - 1 : Tail(s)[i] = s[i + 1]
OBVIOUS

LEMMA TwoOrMore ==
    ASSUME NEW S, NEW s \in Seq(S), Len(s) > 0, Len(s) # 1
    PROVE  Len(s) > 1 /\ 1 \in 1 .. Len(s) - 1 /\ 2 \in 1 .. Len(s)
<1>1. PICK k \in Nat : k = Len(s)
  OBVIOUS
<1>2. k > 0 /\ k # 1
  BY <1>1
<1>3. k > 1 /\ 1 \in 1 .. k - 1 /\ 2 \in 1 .. k
  BY <1>2
<1> QED
  BY <1>1, <1>3

LEMMA SameSeq ==
    ASSUME NEW S, NEW T, NEW s \in Seq(S), NEW t \in Seq(T), Len(s) = Len(t),
           \A i \in 1 .. Len(s) : s[i] = t[i]
    PROVE  s = t
OBVIOUS

-----------------------------------------------------------------------------
(* What the invariant says of the list *)

LEMMA ChainFacts ==
    ASSUME MpscInv
    PROVE  /\ chain \in Seq(Elements) /\ Len(chain) \in Nat /\ Len(chain) > 0
           /\ \A i \in 1 .. Len(chain) : chain[i] \in Elements
           /\ head \in Elements /\ tail \in Elements
           /\ InChain(head) /\ InChain(tail)
<1>1. chain \in Seq(Elements) /\ chain # <<>> /\ chain[1] = head /\ chain[Len(chain)] = tail
  BY DEF MpscInv, MpscTypeOK, ChainEnds, Elements
<1>2. /\ Len(chain) \in Nat /\ Len(chain) > 0
      /\ \A i \in 1 .. Len(chain) : chain[i] \in Elements
  BY <1>1
<1>3. 1 \in 1 .. Len(chain) /\ Len(chain) \in 1 .. Len(chain)
  BY <1>2
<1> QED
  BY <1>1, <1>2, <1>3 DEF InChain

(* The nodes of the list are queued, or about to be linked. *)
LEMMA ChainStates ==
    ASSUME MpscInv, NEW x, InChain(x)
    PROVE  pc[x] \in {"link", "queued"}
<1>1. PICK i \in 1 .. Len(chain) : chain[i] = x
  BY DEF InChain
<1>2. CASE i = 1
  BY <1>1, <1>2 DEF MpscInv, ChainEnds, ChainLinked
<1>3. CASE i # 1
  <2>1. i - 1 \in 1 .. Len(chain) - 1 /\ (i - 1) + 1 = i
    BY <1>3, ChainFacts
  <2>2. pc[chain[(i - 1) + 1]] \in {"link", "queued"}
    BY <2>1 DEF MpscInv, ChainLinked
  <2> QED
    BY <1>1, <2>1, <2>2
<1> QED
  BY <1>2, <1>3

(* A first node that has a successor, or is not the last: the second node. *)
LEMMA SecondNode ==
    ASSUME MpscInv, head # tail \/ next[head] # Null
    PROVE  /\ Len(chain) > 1 /\ chain[2] \in Elements /\ InChain(chain[2])
           /\ \/ pc[chain[2]] = "queued" /\ next[head] = chain[2]
              \/ pc[chain[2]] = "link" /\ next[head] = Null
<1>1. Len(chain) # 1
  BY DEF MpscInv, ChainEnds, ChainLinked
<1>2. Len(chain) > 1 /\ 1 \in 1 .. Len(chain) - 1 /\ 2 \in 1 .. Len(chain) /\ 1 + 1 = 2
  <2>1. chain \in Seq(Elements) /\ Len(chain) > 0
    BY ChainFacts
  <2> QED
    BY <1>1, <2>1, TwoOrMore
<1>3. \/ pc[chain[2]] = "queued" /\ next[chain[1]] = chain[2]
      \/ pc[chain[2]] = "link" /\ next[chain[1]] = Null
  BY <1>2 DEF MpscInv, ChainLinked
<1> QED
  BY <1>2, <1>3, ChainFacts DEF MpscInv, ChainEnds, InChain

(* A step that changes no node of the list keeps it. *)
LEMMA ListKept ==
    ASSUME MpscInv, UNCHANGED <<chain, head, tail>>,
           \A x \in Elements : InChain(x) =>
               next'[x] = next[x] /\ pc'[x] = pc[x] /\ prev'[x] = prev[x]
    PROVE  ChainEnds' /\ ChainLinked' /\ \A x : InChain(x)' <=> InChain(x)
<1>1. ChainEnds' /\ \A x : InChain(x)' <=> InChain(x)
  BY DEF MpscInv, ChainEnds, InChain
<1>2. \A i \in 1 .. Len(chain) :
        /\ next'[chain[i]] = next[chain[i]] /\ pc'[chain[i]] = pc[chain[i]]
        /\ prev'[chain[i]] = prev[chain[i]]
  BY ChainFacts DEF InChain
<1>3. \A i \in 1 .. Len(chain) - 1 : i \in 1 .. Len(chain) /\ i + 1 \in 1 .. Len(chain)
  BY ChainFacts
<1>4. next'[tail] = next[tail] /\ pc'[head] = pc[head]
  BY ChainFacts
<1>5. ChainLinked'
  <2>1. /\ chain' = chain /\ head' = head /\ tail' = tail /\ ChainLinked
        /\ chain \in Seq(Elements)
    BY ChainFacts DEF MpscInv
  <2>2. ASSUME NEW i \in 1 .. Len(chain) - 1
        PROVE  \/ pc'[chain[i + 1]] = "queued" /\ next'[chain[i]] = chain[i + 1]
               \/ /\ pc'[chain[i + 1]] = "link" /\ prev'[chain[i + 1]] = chain[i]
                  /\ next'[chain[i]] = Null
    BY <1>2, <1>3, <2>1 DEF ChainLinked
  <2> QED
    BY <1>4, <2>1, <2>2 DEF ChainLinked
<1> QED
  BY <1>1, <1>5

(* A step that leaves the list and the pushes alone. *)
LEMMA OnlyConsumer ==
    ASSUME MpscInv, UNCHANGED <<list, producer>>, MpscTypeOK', StubPushes', ConsumerKnows',
           cpc # "popped"
    PROVE  MpscInv'
<1>1. UNCHANGED <<next, tail, head, owned, panicked, order, chain, pc, prev>>
  BY DEF list, producer
<1>2. ChainEnds' /\ ChainLinked' /\ \A x : InChain(x)' <=> InChain(x)
  BY <1>1, ListKept
<1>3. ChainMembers'
  BY <1>1, <1>2 DEF MpscInv, ChainMembers
<1>4. ChainSpellsOrder' /\ OwnedWhileUsed'
  BY <1>1, <1>2 DEF MpscInv, ChainSpellsOrder, OwnedWhileUsed
<1> QED
  BY <1>2, <1>3, <1>4 DEF MpscInv

-----------------------------------------------------------------------------
(* push_back() *)

LEMMA TakeOwnershipKeeps ==
    ASSUME MpscInv, NEW t \in Nodes, TakeOwnership(t)
    PROVE  MpscInv'
<1>0. /\ MpscTypeOK /\ ChainMembers /\ StubPushes /\ ConsumerKnows /\ ChainSpellsOrder
      /\ OwnedWhileUsed
  BY DEF MpscInv
<1>1. /\ UNCHANGED <<next, tail, head, prev, order, chain, cpc, h, n, spin>> /\ pc[t] = "free"
      /\ pc' = [pc EXCEPT ![t] = "clear"] /\ owned' = owned \cup {t} /\ panicked' = (t \in owned)
  BY DEF TakeOwnership, consumer
<1>2. ~InChain(t) /\ t # Stub
  BY <1>1, ChainStates, MpscAssumption
<1>3. pc'[t] = "clear" /\ \A x \in Elements : x # t => pc'[x] = pc[x]
  BY <1>0, <1>1 DEF MpscTypeOK, Elements
<1>4. ChainEnds' /\ ChainLinked' /\ \A x : InChain(x)' <=> InChain(x)
  <2>1. \A x \in Elements : InChain(x) =>
            next'[x] = next[x] /\ pc'[x] = pc[x] /\ prev'[x] = prev[x]
    BY <1>1, <1>2, <1>3
  <2> QED
    BY <1>1, <2>1, ListKept
<1>5. t \notin owned
  BY <1>0, <1>1 DEF OwnedWhileUsed
<1>6. MpscTypeOK'
  BY <1>0, <1>1 DEF MpscTypeOK
<1>7. ChainMembers'
  BY <1>0, <1>1, <1>3, <1>4 DEF ChainMembers, Elements
<1>8. StubPushes'
  BY <1>0, <1>1, <1>2, <1>3, <1>4 DEF StubPushes, Elements
<1>9. ConsumerKnows'
  BY <1>0, <1>1, <1>3, <1>4 DEF ConsumerKnows, Elements, MpscTypeOK
<1>10. ChainSpellsOrder'
  BY <1>0, <1>1, <1>4 DEF ChainSpellsOrder
<1>11. OwnedWhileUsed'
  BY <1>0, <1>1, <1>3, <1>5, Zenon DEF OwnedWhileUsed, Elements
<1> QED
  BY <1>4, <1>6, <1>7, <1>8, <1>9, <1>10, <1>11 DEF MpscInv

(* The next of a node that is not in the list is no link of it. *)
LEMMA ClearNextKeeps ==
    ASSUME MpscInv, NEW t \in Elements, ClearNext(t)
    PROVE  MpscInv'
<1>0. /\ MpscTypeOK /\ ChainMembers /\ StubPushes /\ ConsumerKnows /\ ChainSpellsOrder
      /\ OwnedWhileUsed
  BY DEF MpscInv
<1>1. /\ UNCHANGED <<tail, head, owned, panicked, prev, order, chain, cpc, h, n, spin>>
      /\ pc[t] = "clear" /\ pc' = [pc EXCEPT ![t] = "exchange"]
      /\ next' = [next EXCEPT ![t] = Null]
  BY DEF ClearNext, consumer
<1>2. ~InChain(t) /\ head # t
  BY <1>1, ChainStates, ChainFacts
<1>3. /\ pc'[t] = "exchange" /\ next'[t] = Null
      /\ \A x \in Elements : x # t => pc'[x] = pc[x] /\ next'[x] = next[x]
  BY <1>0, <1>1 DEF MpscTypeOK, Elements
<1>4. ChainEnds' /\ ChainLinked' /\ \A x : InChain(x)' <=> InChain(x)
  <2>1. \A x \in Elements : InChain(x) =>
            next'[x] = next[x] /\ pc'[x] = pc[x] /\ prev'[x] = prev[x]
    BY <1>1, <1>2, <1>3
  <2> QED
    BY <1>1, <2>1, ListKept
<1>5. h \in Elements /\ head \in Elements /\ (cpc = "popped" => h # t)
  BY <1>0, <1>1, ChainFacts DEF MpscTypeOK, Elements, ConsumerKnows
<1>6. MpscTypeOK'
  BY <1>0, <1>1, Zenon DEF MpscTypeOK
<1>7. ChainMembers'
  BY <1>0, <1>1, <1>3, <1>4 DEF ChainMembers, Elements
<1>8. StubPushes'
  BY <1>0, <1>1, <1>3, <1>4 DEF StubPushes, Elements
<1>9. ConsumerKnows'
  BY <1>0, <1>1, <1>2, <1>3, <1>4, <1>5 DEF ConsumerKnows
<1>10. ChainSpellsOrder'
  BY <1>0, <1>1, <1>4 DEF ChainSpellsOrder
<1>11. OwnedWhileUsed'
  BY <1>0, <1>1, <1>3 DEF OwnedWhileUsed, Elements
<1> QED
  BY <1>4, <1>6, <1>7, <1>8, <1>9, <1>10, <1>11 DEF MpscInv

(* The exchange of tail_ puts the node behind the last one, unlinked. *)
LEMMA ExchangeTailKeeps ==
    ASSUME MpscInv, NEW t \in Elements, ExchangeTail(t)
    PROVE  MpscInv'
<1>0. /\ MpscTypeOK /\ ChainEnds /\ ChainLinked /\ ChainMembers /\ StubPushes /\ ConsumerKnows
      /\ ChainSpellsOrder /\ OwnedWhileUsed
  BY DEF MpscInv
<1>1. /\ UNCHANGED <<next, head, owned, panicked, cpc, h, n, spin>>
      /\ pc[t] = "exchange" /\ pc' = [pc EXCEPT ![t] = "link"]
      /\ prev' = [prev EXCEPT ![t] = tail] /\ tail' = t /\ chain' = Append(chain, t)
      /\ order' = IF t = Stub THEN order ELSE Append(order, t)
  BY DEF ExchangeTail, consumer
<1>2. ~InChain(t) /\ head # t
  BY <1>1, ChainStates, ChainFacts
<1>3. /\ pc'[t] = "link" /\ prev'[t] = tail
      /\ \A x \in Elements : x # t => pc'[x] = pc[x] /\ prev'[x] = prev[x]
  BY <1>0, <1>1 DEF MpscTypeOK, Elements
<1>4. PICK L \in Nat \ {0} : L = Len(chain)
  BY ChainFacts
<1>5. /\ chain' \in Seq(Elements) /\ Len(chain') = L + 1 /\ chain'[L + 1] = t
      /\ \A i \in 1 .. L : chain'[i] = chain[i]
  BY <1>1, <1>4, ChainFacts, AppendFacts
<1>6. \A i \in 1 .. L : chain[i] \in Elements /\ chain[i] # t
  BY <1>2, <1>4, ChainFacts DEF InChain
<1>7. \A i \in 1 .. L + 1 : i \in 1 .. L \/ i = L + 1
  OBVIOUS
<1>8. \A x : InChain(x)' <=> InChain(x) \/ x = t
  <2>1. \A i \in 1 .. L : i \in 1 .. L + 1
    OBVIOUS
  <2>2. L + 1 \in 1 .. L + 1
    OBVIOUS
  <2> QED
    BY <1>4, <1>5, <1>7, <2>1, <2>2, Zenon DEF InChain
<1>9. MpscTypeOK'
  <2>1. t \in Nodes => order' \in Seq(Nodes)
    BY <1>0, <1>1, AppendFacts DEF MpscTypeOK
  <2>2. order' \in Seq(Nodes)
    BY <1>0, <1>1, <2>1 DEF MpscTypeOK, Elements
  <2> QED
    BY <1>0, <1>1, <1>5, <2>2 DEF MpscTypeOK, Elements
<1>10. ChainEnds'
  <2>1. chain' # <<>> /\ chain'[1] = head /\ chain'[Len(chain')] = t
    BY <1>0, <1>5 DEF ChainEnds
  <2>2. \A i, j \in 1 .. L : chain[i] = chain[j] => i = j
    BY <1>0, <1>4 DEF ChainEnds
  <2>3. \A i, j \in 1 .. L + 1 : chain'[i] = chain'[j] => i = j
    BY <1>5, <1>6, <1>7, <2>2
  <2> QED
    BY <1>1, <1>5, <2>1, <2>3 DEF ChainEnds
<1>11. ChainLinked'
  <2>1. ASSUME NEW i \in 1 .. L
        PROVE  \/ pc'[chain'[i + 1]] = "queued" /\ next'[chain'[i]] = chain'[i + 1]
               \/ /\ pc'[chain'[i + 1]] = "link" /\ prev'[chain'[i + 1]] = chain'[i]
                  /\ next'[chain'[i]] = Null
    <3>1. CASE i = L
      <4>1. chain'[i + 1] = t /\ chain'[i] = tail
        BY <1>0, <1>4, <1>5, <3>1 DEF ChainEnds
      <4> QED
        BY <1>0, <1>1, <1>3, <4>1 DEF ChainLinked
    <3>2. CASE i # L
      <4>1. i \in 1 .. L - 1 /\ i + 1 \in 1 .. L
        BY <3>2
      <4>2. chain'[i + 1] = chain[i + 1] /\ chain'[i] = chain[i]
        BY <1>5, <4>1
      <4>3. /\ pc'[chain[i + 1]] = pc[chain[i + 1]] /\ prev'[chain[i + 1]] = prev[chain[i + 1]]
            /\ next' = next
        BY <1>1, <1>3, <1>6, <4>1
      <4>4. \/ pc[chain[i + 1]] = "queued" /\ next[chain[i]] = chain[i + 1]
            \/ /\ pc[chain[i + 1]] = "link" /\ prev[chain[i + 1]] = chain[i]
               /\ next[chain[i]] = Null
        BY <1>0, <1>4, <4>1 DEF ChainLinked
      <4> QED
        BY <4>2, <4>3, <4>4
    <3> QED
      BY <3>1, <3>2
  <2>2. next'[tail'] = Null /\ pc'[head'] = "queued"
    BY <1>0, <1>1, <1>2, <1>3, ChainFacts DEF ChainLinked, ChainMembers, Elements
  <2>3. Len(chain') - 1 = L
    BY <1>5
  <2> QED
    BY <2>1, <2>2, <2>3 DEF ChainLinked
<1>12. ChainMembers'
  BY <1>0, <1>1, <1>3, <1>8 DEF ChainMembers, Elements
<1>13. StubPushes'
  BY <1>0, <1>1, <1>3, <1>8 DEF StubPushes, Elements
<1>14. ConsumerKnows'
  <2>1. h \in Elements /\ (cpc = "popped" => h # t)
    BY <1>0, <1>1 DEF MpscTypeOK, Elements, ConsumerKnows
  <2> QED
    BY <1>0, <1>1, <1>2, <1>3, <1>8, <2>1 DEF ConsumerKnows
<1>15. ChainSpellsOrder'
  <2>0. order \in Seq(Nodes)
    BY <1>0 DEF MpscTypeOK
  <2>1. CASE t = Stub
    <3>1. chain = order /\ order' = order
      BY <1>1, <1>2, <1>0, <1>4, <2>1 DEF ChainSpellsOrder, InChain
    <3>2. L + 1 \in 1 .. Len(chain') /\ chain'[L + 1] = Stub /\ Len(order') = Len(chain') - 1
      BY <1>4, <1>5, <2>1, <3>1
    <3>3. \A i \in 1 .. Len(order') : order'[i] = IF i < L + 1 THEN chain'[i] ELSE chain'[i + 1]
      BY <1>4, <1>5, <3>1
    <3> QED
      BY <3>2, <3>3 DEF ChainSpellsOrder
  <2>2. CASE t # Stub
    <3>1. order' = Append(order, t) /\ t \in Nodes
      BY <1>1, <2>2 DEF Elements
    <3>2. CASE ~InChain(Stub) /\ chain = order
      <4>1. ~InChain(Stub)' /\ chain' = order'
        BY <1>1, <1>8, <2>2, <3>1, <3>2
      <4> QED
        BY <4>1 DEF ChainSpellsOrder
    <3>3. CASE \E k \in 1 .. Len(chain) :
                 /\ chain[k] = Stub /\ Len(order) = Len(chain) - 1
                 /\ \A i \in 1 .. Len(order) : order[i] = IF i < k THEN chain[i] ELSE chain[i + 1]
      <4>1. PICK k \in 1 .. L :
                 /\ chain[k] = Stub /\ Len(order) = L - 1
                 /\ \A i \in 1 .. L - 1 : order[i] = IF i < k THEN chain[i] ELSE chain[i + 1]
        BY <1>4, <3>3
      <4>2. /\ Len(order') = L /\ order'[L] = t
            /\ \A i \in 1 .. L - 1 : order'[i] = order[i]
        BY <2>0, <3>1, <4>1, AppendFacts
      <4>3. \A i \in 1 .. L : order'[i] = IF i < k THEN chain'[i] ELSE chain'[i + 1]
        <5> SUFFICES ASSUME NEW i \in 1 .. L
                     PROVE  order'[i] = IF i < k THEN chain'[i] ELSE chain'[i + 1]
          OBVIOUS
        <5>1. CASE i = L
          BY <1>5, <4>2, <5>1
        <5>2. CASE i # L
          <6>1. i \in 1 .. L - 1 /\ i + 1 \in 1 .. L
            BY <5>2
          <6> QED
            BY <1>5, <4>1, <4>2, <6>1
        <5> QED
          BY <5>1, <5>2
      <4>4. k \in 1 .. Len(chain') /\ chain'[k] = Stub /\ Len(order') = Len(chain') - 1
        BY <1>5, <4>1, <4>2
      <4> QED
        BY <4>2, <4>3, <4>4, Zenon DEF ChainSpellsOrder
    <3> QED
      BY <1>0, <3>2, <3>3 DEF ChainSpellsOrder
  <2> QED
    BY <2>1, <2>2
<1>16. OwnedWhileUsed'
  BY <1>0, <1>1, <1>3 DEF OwnedWhileUsed, Elements
<1> QED
  BY <1>9, <1>10, <1>11, <1>12, <1>13, <1>14, <1>15, <1>16 DEF MpscInv

(* The node whose push exchanged tail_ is linked to the one before it, which is still
   in the list. *)
LEMMA LinkNextKeeps ==
    ASSUME MpscInv, NEW t \in Elements, LinkNext(t)
    PROVE  MpscInv'
<1>0. /\ MpscTypeOK /\ ChainEnds /\ ChainLinked /\ ChainMembers /\ StubPushes /\ ConsumerKnows
      /\ ChainSpellsOrder /\ OwnedWhileUsed
  BY DEF MpscInv
<1>1. /\ UNCHANGED <<tail, head, owned, panicked, order, chain, cpc, h, n, spin>>
      /\ pc[t] = "link" /\ pc' = [pc EXCEPT ![t] = "queued"]
      /\ next' = [next EXCEPT ![prev[t]] = t] /\ prev' = [prev EXCEPT ![t] = Null]
  BY DEF LinkNext, consumer
<1>2. PICK L \in Nat \ {0} : L = Len(chain)
  BY ChainFacts
<1>3. PICK j \in 1 .. L : chain[j] = t
  BY <1>0, <1>1, <1>2 DEF ChainMembers, InChain, Elements
<1>4. j # 1
  BY <1>0, <1>1, <1>3 DEF ChainEnds, ChainLinked
<1>5. PICK p \in 1 .. L - 1 : p + 1 = j
  <2>1. j - 1 \in 1 .. L - 1 /\ (j - 1) + 1 = j
    BY <1>4
  <2> QED
    BY <2>1
<1>6. prev[t] = chain[p] /\ next[chain[p]] = Null
  BY <1>0, <1>1, <1>2, <1>3, <1>5 DEF ChainLinked
<1>7. \A i \in 1 .. L : chain[i] \in Elements /\ InChain(chain[i])
  BY <1>2, ChainFacts DEF InChain
<1>8. chain[p] \in Elements /\ InChain(chain[p]) /\ p \in 1 .. L /\ p # L
  BY <1>5, <1>7
<1>9. /\ pc'[t] = "queued" /\ \A x \in Elements : x # t => pc'[x] = pc[x] /\ prev'[x] = prev[x]
      /\ next'[chain[p]] = t /\ \A x \in Elements : x # chain[p] => next'[x] = next[x]
  BY <1>0, <1>1, <1>6, <1>8 DEF MpscTypeOK, Elements
<1>10. \A i, k \in 1 .. L : chain[i] = chain[k] => i = k
  BY <1>0, <1>2 DEF ChainEnds
<1>11. MpscTypeOK'
  BY <1>0, <1>1, Zenon DEF MpscTypeOK, Elements
<1>12. ChainEnds' /\ \A x : InChain(x)' <=> InChain(x)
  BY <1>0, <1>1 DEF ChainEnds, InChain
<1>13. ChainLinked'
  <2>1. ASSUME NEW i \in 1 .. L - 1
        PROVE  \/ pc'[chain[i + 1]] = "queued" /\ next'[chain[i]] = chain[i + 1]
               \/ /\ pc'[chain[i + 1]] = "link" /\ prev'[chain[i + 1]] = chain[i]
                  /\ next'[chain[i]] = Null
    <3>0. i \in 1 .. L /\ i + 1 \in 1 .. L
      OBVIOUS
    <3>1. CASE i = p
      BY <1>3, <1>5, <1>9, <3>1
    <3>2. CASE i # p
      <4>1. chain[i] # chain[p] /\ chain[i + 1] # t
        BY <1>3, <1>5, <1>8, <1>10, <3>0, <3>2
      <4>2. /\ pc'[chain[i + 1]] = pc[chain[i + 1]] /\ prev'[chain[i + 1]] = prev[chain[i + 1]]
            /\ next'[chain[i]] = next[chain[i]]
        BY <1>7, <1>9, <3>0, <4>1
      <4>3. \/ pc[chain[i + 1]] = "queued" /\ next[chain[i]] = chain[i + 1]
            \/ /\ pc[chain[i + 1]] = "link" /\ prev[chain[i + 1]] = chain[i]
               /\ next[chain[i]] = Null
        BY <1>0, <1>2 DEF ChainLinked
      <4> QED
        BY <4>2, <4>3
    <3> QED
      BY <3>1, <3>2
  <2>2. next'[tail] = Null
    <3>1. L \in 1 .. L /\ chain[L] = tail
      BY <1>0, <1>2 DEF ChainEnds
    <3>2. tail # chain[p]
      BY <1>8, <1>10, <3>1
    <3> QED
      BY <1>0, <1>9, <3>2, ChainFacts DEF ChainLinked
  <2>3. pc'[head] = "queued"
    BY <1>0, <1>1, <1>9, ChainFacts DEF ChainLinked
  <2>4. chain' = chain /\ head' = head /\ tail' = tail
    BY <1>1
  <2> QED
    BY <1>2, <2>1, <2>2, <2>3, <2>4 DEF ChainLinked
<1>14. ChainMembers'
  <2>1. pc[chain[p]] \in {"link", "queued"}
    BY <1>8, ChainStates
  <2>2. InChain(t)
    BY <1>3, <1>7
  <2> QED
    BY <1>0, <1>1, <1>9, <1>12, <2>1, <2>2 DEF ChainMembers, Elements
<1>15. StubPushes'
  <2>1. InChain(t)
    BY <1>3, <1>7
  <2> QED
    BY <1>0, <1>1, <1>9, <1>12, <2>1 DEF StubPushes, Elements
<1>16. ConsumerKnows'
  <2>1. h \in Elements /\ (cpc = "popped" => h # t)
    BY <1>0, <1>1 DEF MpscTypeOK, Elements, ConsumerKnows
  <2>2. cpc \in {"skip", "advance"} => next'[h] = next[h]
    BY <1>0, <1>6, <1>9, <2>1 DEF ConsumerKnows
  <2> QED
    BY <1>0, <1>1, <1>9, <1>12, <2>1, <2>2 DEF ConsumerKnows
<1>17. ChainSpellsOrder'
  BY <1>0, <1>1, <1>12 DEF ChainSpellsOrder
<1>18. OwnedWhileUsed'
  BY <1>0, <1>1, <1>9 DEF OwnedWhileUsed, Elements
<1> QED
  BY <1>11, <1>12, <1>13, <1>14, <1>15, <1>16, <1>17, <1>18 DEF MpscInv

LEMMA PushNodeKeeps ==
    ASSUME MpscInv, NEW t \in Elements, PushNode(t)
    PROVE  MpscInv'
BY ClearNextKeeps, ExchangeTailKeeps, LinkNextKeeps DEF PushNode

-----------------------------------------------------------------------------
(* pop_front(): the steps that only look at the list *)

LEMMA LookingKeeps ==
    ASSUME MpscInv, StartPop \/ LoadNext \/ CheckEmpty \/ StubPushed \/ WaitNext \/ ReturnNull
    PROVE  MpscInv'
<1>0. MpscTypeOK /\ ChainEnds /\ StubPushes /\ ConsumerKnows /\ ChainLinked
  BY DEF MpscInv
<1>1. UNCHANGED <<list, producer>> /\ cpc # "popped" /\ cpc' # "popped"
  BY DEF StartPop, LoadNext, CheckEmpty, StubPushed, WaitNext, ReturnNull, ConsumerGoto
<1>2. UNCHANGED <<next, tail, head, owned, panicked, order, chain, pc, prev>>
  BY <1>1 DEF list, producer
<1>3. InChain(Stub)' <=> InChain(Stub)
  BY <1>2 DEF InChain
<1>4. CASE StartPop
  <2>1. cpc = "idle" /\ cpc' = "load" /\ h' = head /\ UNCHANGED n /\ spin' \in BOOLEAN
    BY <1>4 DEF StartPop, ConsumerGoto
  <2>2. MpscTypeOK' /\ ConsumerKnows' /\ StubPushes'
    BY <1>0, <1>2, <2>1 DEF MpscTypeOK, ConsumerKnows, StubPushes
  <2> QED
    BY <1>1, <2>2, OnlyConsumer
<1>5. CASE LoadNext
  <2>1. /\ cpc = "load" /\ n' = next[h] /\ UNCHANGED <<h, spin>>
        /\ cpc' = IF n' # Null THEN (IF h = Stub THEN "skip" ELSE "advance")
                  ELSE IF h = Stub THEN "empty" ELSE "last"
    BY <1>5 DEF LoadNext, ConsumerGoto
  <2>2. n' \in Nodes \cup {Stub, Null}
    BY <1>0, <2>1 DEF MpscTypeOK
  <2>3. MpscTypeOK'
    BY <1>0, <1>2, <2>1, <2>2 DEF MpscTypeOK
  <2>4. ConsumerKnows' /\ StubPushes'
    BY <1>0, <1>2, <2>1 DEF ConsumerKnows, StubPushes
  <2> QED
    BY <1>1, <2>3, <2>4, OnlyConsumer
<1>6. CASE CheckEmpty
  <2>1. /\ cpc = "empty" /\ UNCHANGED <<h, n, spin>>
        /\ cpc' = IF tail = h THEN "null" ELSE "wait"
    BY <1>6 DEF CheckEmpty, ConsumerGoto
  <2>2. MpscTypeOK' /\ ConsumerKnows' /\ StubPushes'
    BY <1>0, <1>2, <2>1 DEF MpscTypeOK, ConsumerKnows, StubPushes
  <2> QED
    BY <1>1, <2>2, OnlyConsumer
<1>7. CASE StubPushed
  <2>1. cpc = "stub" /\ pc[Stub] = "queued" /\ UNCHANGED <<h, n, spin>> /\ cpc' = "wait"
    BY <1>7 DEF StubPushed, ConsumerGoto
  <2>2. head # tail
    <3>1. PICK k \in 1 .. Len(chain) : chain[k] = Stub
      BY <1>0, <2>1 DEF StubPushes, InChain
    <3>2. head # Stub /\ chain[1] = head
      BY <1>0, <2>1 DEF ConsumerKnows, ChainEnds
    <3>3. Len(chain) # 1
      BY <3>1, <3>2
    <3>4. 1 \in 1 .. Len(chain) /\ Len(chain) \in 1 .. Len(chain)
      BY ChainFacts
    <3> QED
      BY <1>0, <3>2, <3>3, <3>4 DEF ChainEnds
  <2>3. MpscTypeOK' /\ ConsumerKnows' /\ StubPushes'
    BY <1>0, <1>2, <2>1, <2>2 DEF MpscTypeOK, ConsumerKnows, StubPushes
  <2> QED
    BY <1>1, <2>3, OnlyConsumer
<1>8. CASE WaitNext
  <2>1. /\ cpc = "wait" /\ n' = next[h] /\ UNCHANGED <<h, spin>>
        /\ \/ n' # Null /\ cpc' = IF h = Stub THEN "skip" ELSE "advance"
           \/ n' = Null /\ cpc' = "null"
    BY <1>8 DEF WaitNext, ConsumerGoto
  <2>2. n' \in Nodes \cup {Stub, Null}
    BY <1>0, <2>1 DEF MpscTypeOK
  <2>3. MpscTypeOK'
    BY <1>0, <1>2, <2>1, <2>2 DEF MpscTypeOK
  <2>4. ConsumerKnows' /\ StubPushes'
    BY <1>0, <1>2, <2>1 DEF ConsumerKnows, StubPushes
  <2> QED
    BY <1>1, <2>3, <2>4, OnlyConsumer
<1>9. CASE ReturnNull
  <2>1. cpc = "null" /\ cpc' = "idle" /\ UNCHANGED <<h, n, spin>>
    BY <1>9 DEF ReturnNull, ConsumerGoto
  <2>2. MpscTypeOK' /\ ConsumerKnows' /\ StubPushes'
    BY <1>0, <1>2, <2>1 DEF MpscTypeOK, ConsumerKnows, StubPushes
  <2> QED
    BY <1>1, <2>2, OnlyConsumer
<1> QED
  BY <1>4, <1>5, <1>6, <1>7, <1>8, <1>9

-----------------------------------------------------------------------------
(* The steps that change it *)

(* The stub is pushed when it is not in the list. *)
LEMMA CheckLastKeeps ==
    ASSUME MpscInv, CheckLast
    PROVE  MpscInv'
<1>0. /\ MpscTypeOK /\ ChainEnds /\ ChainMembers /\ StubPushes /\ ConsumerKnows
      /\ ChainSpellsOrder /\ OwnedWhileUsed
  BY DEF MpscInv
<1>1. /\ UNCHANGED <<list, prev, h, n, spin>> /\ cpc = "last" /\ h = head /\ h # Stub
      /\ pc[Stub] = "queued"
  BY <1>0 DEF CheckLast, ConsumerKnows, StubPushes, MpscTypeOK
<1>2. CASE tail # h
  <2>1. UNCHANGED <<list, producer>> /\ cpc' = "wait" /\ cpc # "popped" /\ UNCHANGED <<h, n, spin>>
    BY <1>1, <1>2 DEF CheckLast, ConsumerGoto, producer
  <2>2. UNCHANGED <<next, tail, head, owned, panicked, order, chain, pc, prev>>
    BY <2>1 DEF list, producer
  <2>3. MpscTypeOK' /\ ConsumerKnows' /\ StubPushes'
    BY <1>0, <1>1, <1>2, <2>1, <2>2 DEF MpscTypeOK, ConsumerKnows, StubPushes
  <2> QED
    BY <2>1, <2>3, OnlyConsumer
<1>3. CASE tail = h
  <2>1. cpc' = "stub" /\ pc' = [pc EXCEPT ![Stub] = "clear"]
    BY <1>3 DEF CheckLast, ConsumerGoto
  <2>2. UNCHANGED <<next, tail, head, owned, panicked, order, chain, prev, h, n, spin>>
    BY <1>1 DEF list
  <2>3. ~InChain(Stub)
    <3>1. 1 \in 1 .. Len(chain) /\ Len(chain) \in 1 .. Len(chain)
      BY ChainFacts
    <3>2. Len(chain) = 1
      BY <1>0, <1>1, <1>3, <3>1, Zenon DEF ChainEnds
    <3>3. \A i \in 1 .. Len(chain) : i = 1
      BY <3>2
    <3> QED
      BY <1>0, <1>1, <3>3 DEF InChain, ChainEnds
  <2>4. pc'[Stub] = "clear" /\ \A x \in Elements : x # Stub => pc'[x] = pc[x]
    BY <1>0, <2>1 DEF MpscTypeOK, Elements
  <2>5. ChainEnds' /\ ChainLinked' /\ \A x : InChain(x)' <=> InChain(x)
    <3>1. \A x \in Elements : InChain(x) =>
              next'[x] = next[x] /\ pc'[x] = pc[x] /\ prev'[x] = prev[x]
      BY <2>2, <2>3, <2>4
    <3> QED
      BY <2>2, <3>1, ListKept
  <2>6. MpscTypeOK'
    BY <1>0, <2>1, <2>2 DEF MpscTypeOK
  <2>7. ChainMembers'
    BY <1>0, <1>1, <2>2, <2>4, <2>5 DEF ChainMembers, Elements
  <2>8. StubPushes' /\ ConsumerKnows'
    BY <1>1, <2>1, <2>2, <2>4 DEF StubPushes, ConsumerKnows
  <2>9. ChainSpellsOrder'
    BY <1>0, <2>2, <2>5 DEF ChainSpellsOrder
  <2>10. OwnedWhileUsed'
    BY <1>0, <2>2, <2>4, MpscAssumption DEF OwnedWhileUsed, Elements
  <2> QED
    BY <2>5, <2>6, <2>7, <2>8, <2>9, <2>10 DEF MpscInv
<1> QED
  BY <1>2, <1>3

(* head_ moves to the second node, which is linked. *)
LEMMA HeadMoves ==
    ASSUME MpscInv, cpc \in {"skip", "advance"}, chain' = Tail(chain), head' = n,
           UNCHANGED <<next, tail, pc, prev>>
    PROVE  /\ chain' \in Seq(Elements) /\ n \in Elements /\ h = head /\ pc[h] = "queued"
           /\ Len(chain) > 1 /\ Len(chain') = Len(chain) - 1
           /\ \A i \in 1 .. Len(chain) - 1 : chain'[i] = chain[i + 1]
           /\ ChainEnds' /\ ChainLinked'
           /\ \A x : InChain(x)' <=> InChain(x) /\ x # head
<1>0. ChainEnds /\ ChainLinked /\ ConsumerKnows
  BY DEF MpscInv
<1>1. h = head /\ n = next[head] /\ n # Null /\ pc[head] = "queued"
  BY <1>0 DEF ConsumerKnows, ChainLinked
<1>2. PICK L \in Nat \ {0} : L = Len(chain)
  BY ChainFacts
<1>3. L > 1 /\ chain[2] = n /\ n \in Elements
  BY <1>1, <1>2, SecondNode
<1>4. /\ chain' \in Seq(Elements) /\ Len(chain') = L - 1
      /\ \A i \in 1 .. L - 1 : chain'[i] = chain[i + 1]
  BY <1>0, <1>2, ChainFacts, TailFacts DEF ChainEnds
<1>5. \A i \in 1 .. L - 1 : i \in 1 .. L /\ i + 1 \in 1 .. L
  OBVIOUS
<1>6. \A i, j \in 1 .. L : chain[i] = chain[j] => i = j
  BY <1>0, <1>2 DEF ChainEnds
<1>7. ChainEnds'
  <2>1. 1 \in 1 .. L - 1 /\ L - 1 \in 1 .. L - 1 /\ 1 + 1 = 2 /\ (L - 1) + 1 = L
    BY <1>3
  <2>2. chain' # <<>>
    <3>1. L - 1 # 0 /\ Len(<<>>) = 0
      BY <1>3
    <3> QED
      BY <1>4, <3>1, Zenon
  <2>3. chain'[1] = n /\ chain'[L - 1] = tail
    BY <1>0, <1>2, <1>3, <1>4, <2>1 DEF ChainEnds
  <2>4. ASSUME NEW i \in 1 .. L - 1, NEW j \in 1 .. L - 1, chain'[i] = chain'[j] PROVE i = j
    <3>1. i + 1 = j + 1
      BY <1>4, <1>5, <1>6, <2>4
    <3> QED
      BY <3>1
  <2> QED
    BY <1>4, <2>2, <2>3, <2>4 DEF ChainEnds
<1>8. ChainLinked'
  <2>1. ASSUME NEW i \in 1 .. L - 2
        PROVE  \/ pc'[chain'[i + 1]] = "queued" /\ next'[chain'[i]] = chain'[i + 1]
               \/ /\ pc'[chain'[i + 1]] = "link" /\ prev'[chain'[i + 1]] = chain'[i]
                  /\ next'[chain'[i]] = Null
    <3>1. i \in 1 .. L - 1 /\ i + 1 \in 1 .. L - 1
      OBVIOUS
    <3>2. chain'[i] = chain[i + 1] /\ chain'[i + 1] = chain[(i + 1) + 1]
      BY <1>4, <3>1
    <3> QED
      BY <1>0, <1>2, <3>1, <3>2 DEF ChainLinked
  <2>2. pc[n] = "queued"
    BY <1>1, <1>3, SecondNode
  <2>3. Len(chain') - 1 = L - 2
    BY <1>4
  <2> QED
    BY <1>0, <2>1, <2>2, <2>3 DEF ChainLinked
<1>9. ASSUME NEW x PROVE InChain(x)' <=> InChain(x) /\ x # head
  <2>1. ASSUME InChain(x)' PROVE InChain(x) /\ x # head
    <3>1. PICK i \in 1 .. L - 1 : chain'[i] = x
      BY <1>4, <2>1 DEF InChain
    <3>2. chain[i + 1] = x /\ i + 1 \in 1 .. L /\ i + 1 # 1 /\ 1 \in 1 .. L
      BY <1>4, <3>1
    <3> QED
      BY <1>0, <1>2, <1>6, <3>2 DEF InChain, ChainEnds
  <2>2. ASSUME InChain(x), x # head PROVE InChain(x)'
    <3>1. PICK i \in 1 .. L : chain[i] = x
      BY <1>2, <2>2 DEF InChain
    <3>2. i # 1
      BY <1>0, <2>2, <3>1 DEF ChainEnds
    <3>3. i - 1 \in 1 .. L - 1 /\ (i - 1) + 1 = i
      BY <3>2
    <3>4. chain'[i - 1] = x
      BY <1>4, <3>1, <3>3
    <3> QED
      BY <1>4, <3>3, <3>4 DEF InChain
  <2> QED
    BY <2>1, <2>2
<1> QED
  BY <1>1, <1>2, <1>3, <1>4, <1>7, <1>8, <1>9

LEMMA SkipStubKeeps ==
    ASSUME MpscInv, SkipStub
    PROVE  MpscInv'
<1>0. /\ MpscTypeOK /\ ChainEnds /\ ChainMembers /\ StubPushes /\ ConsumerKnows
      /\ ChainSpellsOrder /\ OwnedWhileUsed
  BY DEF MpscInv
<1>1. /\ UNCHANGED <<next, tail, owned, panicked, order, pc, prev, n, spin>>
      /\ cpc = "skip" /\ cpc' = "load" /\ head' = n /\ h' = n /\ chain' = Tail(chain)
      /\ h = Stub
  BY <1>0 DEF SkipStub, ConsumerGoto, producer, ConsumerKnows
<1>2. /\ chain' \in Seq(Elements) /\ n \in Elements /\ h = head /\ pc[h] = "queued"
      /\ ChainEnds' /\ ChainLinked' /\ \A x : InChain(x)' <=> InChain(x) /\ x # head
  BY <1>1, HeadMoves
<1>3. MpscTypeOK'
  BY <1>0, <1>1, <1>2 DEF MpscTypeOK, Elements
<1>4. ChainMembers'
  BY <1>0, <1>1, <1>2 DEF ChainMembers
<1>5. StubPushes' /\ ConsumerKnows'
  BY <1>0, <1>1 DEF StubPushes, ConsumerKnows
<1>6. ChainSpellsOrder'
  <2>1. PICK L \in Nat \ {0} : L = Len(chain)
    BY ChainFacts
  <2>2. Len(chain') = L - 1 /\ \A i \in 1 .. L - 1 : chain'[i] = chain[i + 1]
    BY <1>1, <2>1, HeadMoves
  <2>3. InChain(Stub) /\ chain[1] = Stub /\ 1 \in 1 .. L
    BY <1>0, <1>1, <1>2, <2>1, ChainFacts DEF ChainEnds
  <2>4. PICK k \in 1 .. L :
          /\ chain[k] = Stub /\ Len(order) = L - 1
          /\ \A i \in 1 .. L - 1 : order[i] = IF i < k THEN chain[i] ELSE chain[i + 1]
    BY <1>0, <2>1, <2>3 DEF ChainSpellsOrder
  <2>5. k = 1
    BY <1>0, <2>1, <2>3, <2>4 DEF ChainEnds
  <2>6. \A i \in 1 .. L - 1 : chain'[i] = order[i]
    BY <2>2, <2>4, <2>5
  <2>7. order \in Seq(Nodes) /\ Len(chain') = Len(order)
    BY <1>0, <2>2, <2>4 DEF MpscTypeOK
  <2>8. chain' = order
    BY <1>2, <2>2, <2>6, <2>7, SameSeq
  <2>9. ~InChain(Stub)'
    BY <1>1, <1>2
  <2> QED
    BY <1>1, <2>8, <2>9 DEF ChainSpellsOrder
<1>7. OwnedWhileUsed'
  BY <1>0, <1>1 DEF OwnedWhileUsed
<1> QED
  BY <1>2, <1>3, <1>4, <1>5, <1>6, <1>7 DEF MpscInv

(* The first node, which is not the stub, leaves the list. *)
LEMMA AdvanceKeeps ==
    ASSUME MpscInv, Advance
    PROVE  MpscInv' /\ order # <<>> /\ Head(order) = h /\ h \in Nodes /\ pc[h] = "queued"
<1>0. /\ MpscTypeOK /\ ChainEnds /\ ChainMembers /\ StubPushes /\ ConsumerKnows
      /\ ChainSpellsOrder /\ OwnedWhileUsed
  BY DEF MpscInv
<1>1. /\ UNCHANGED <<next, tail, owned, panicked, pc, prev, h, n, spin>>
      /\ cpc = "advance" /\ cpc' = "popped" /\ head' = n /\ order' = Tail(order)
      /\ chain' = Tail(chain) /\ h # Stub
  BY <1>0 DEF Advance, ConsumerGoto, producer, ConsumerKnows
<1>2. /\ chain' \in Seq(Elements) /\ n \in Elements /\ h = head /\ pc[h] = "queued"
      /\ ChainEnds' /\ ChainLinked' /\ \A x : InChain(x)' <=> InChain(x) /\ x # head
  BY <1>1, HeadMoves
<1>3. PICK L \in Nat \ {0} : L = Len(chain)
  BY ChainFacts
<1>4. L > 1 /\ Len(chain') = L - 1 /\ \A i \in 1 .. L - 1 : chain'[i] = chain[i + 1]
  BY <1>1, <1>3, HeadMoves
<1>5. order \in Seq(Nodes) /\ chain[1] = h /\ 1 \in 1 .. L
  BY <1>0, <1>2, <1>3 DEF MpscTypeOK, ChainEnds
<1>6. ChainSpellsOrder' /\ order # <<>> /\ order[1] = h
  <2>1. CASE ~InChain(Stub) /\ chain = order
    <3>1. ~InChain(Stub)' /\ chain' = order' /\ order # <<>> /\ order[1] = h
      BY <1>0, <1>1, <1>2, <1>5, <2>1 DEF ChainEnds
    <3> QED
      BY <3>1 DEF ChainSpellsOrder
  <2>2. CASE \E k \in 1 .. Len(chain) :
               /\ chain[k] = Stub /\ Len(order) = Len(chain) - 1
               /\ \A i \in 1 .. Len(order) : order[i] = IF i < k THEN chain[i] ELSE chain[i + 1]
    <3>1. PICK k \in 1 .. L :
            /\ chain[k] = Stub /\ Len(order) = L - 1
            /\ \A i \in 1 .. L - 1 : order[i] = IF i < k THEN chain[i] ELSE chain[i + 1]
      BY <1>3, <2>2
    <3>2. k > 1 /\ 1 \in 1 .. L - 1 /\ L - 1 # 0 /\ Len(<<>>) = 0
      BY <1>1, <1>4, <1>5, <3>1
    <3>3. order # <<>> /\ order[1] = h
      BY <1>5, <3>1, <3>2
    <3>4. Len(order') = L - 2 /\ \A i \in 1 .. L - 2 : order'[i] = order[i + 1]
      <4>1. /\ Len(order') = Len(order) - 1
            /\ \A i \in 1 .. Len(order) - 1 : order'[i] = order[i + 1]
        BY <1>1, <1>5, <3>3, TailFacts
      <4>2. Len(order) - 1 = L - 2
        BY <3>1
      <4> QED
        BY <4>1, <4>2
    <3>5. k - 1 \in 1 .. L - 1 /\ chain'[k - 1] = Stub
      BY <1>4, <3>1, <3>2
    <3>6. ASSUME NEW i \in 1 .. L - 2
          PROVE  order'[i] = IF i < k - 1 THEN chain'[i] ELSE chain'[i + 1]
      <4>1. i \in 1 .. L - 1 /\ i + 1 \in 1 .. L - 1 /\ (i < k - 1 <=> i + 1 < k)
        OBVIOUS
      <4>2. chain'[i] = chain[i + 1] /\ chain'[i + 1] = chain[(i + 1) + 1]
        BY <1>4, <4>1
      <4>3. order'[i] = IF i + 1 < k THEN chain[i + 1] ELSE chain[(i + 1) + 1]
        BY <3>1, <3>4, <4>1
      <4> QED
        BY <4>1, <4>2, <4>3
    <3>7. Len(order') = Len(chain') - 1
      BY <1>4, <3>4
    <3> QED
      BY <1>4, <3>3, <3>4, <3>5, <3>6, <3>7 DEF ChainSpellsOrder
  <2> QED
    BY <1>0, <2>1, <2>2 DEF ChainSpellsOrder
<1>7. h \in Nodes /\ Head(order) = h
  BY <1>0, <1>1, <1>5, <1>6 DEF MpscTypeOK
<1>8. MpscTypeOK'
  <2>1. order' \in Seq(Nodes)
    BY <1>1, <1>5, <1>6, TailFacts
  <2> QED
    BY <1>0, <1>1, <1>2, <2>1 DEF MpscTypeOK, Elements
<1>9. ChainMembers'
  BY <1>0, <1>1, <1>2 DEF ChainMembers
<1>10. StubPushes' /\ ConsumerKnows'
  BY <1>0, <1>1, <1>2 DEF StubPushes, ConsumerKnows
<1>11. OwnedWhileUsed'
  BY <1>0, <1>1 DEF OwnedWhileUsed
<1> QED
  BY <1>2, <1>6, <1>7, <1>8, <1>9, <1>10, <1>11 DEF MpscInv

LEMMA ReleaseOwnershipKeeps ==
    ASSUME MpscInv, ReleaseOwnership
    PROVE  MpscInv'
<1>0. /\ MpscTypeOK /\ ChainMembers /\ StubPushes /\ ConsumerKnows /\ ChainSpellsOrder
      /\ OwnedWhileUsed
  BY DEF MpscInv
<1>1. /\ UNCHANGED <<next, tail, head, prev, order, chain, h, n, spin>>
      /\ cpc = "popped" /\ cpc' = "idle" /\ pc' = [pc EXCEPT ![h] = "free"]
      /\ owned' = owned \ {h} /\ panicked' = (h \notin owned)
  BY DEF ReleaseOwnership, ConsumerGoto
<1>2. h \in Nodes /\ h # Stub /\ pc[h] = "queued" /\ ~InChain(h) /\ h \in owned
  BY <1>0, <1>1 DEF ConsumerKnows, MpscTypeOK, OwnedWhileUsed
<1>3. pc'[h] = "free" /\ \A x \in Elements : x # h => pc'[x] = pc[x]
  BY <1>0, <1>1, <1>2 DEF MpscTypeOK, Elements
<1>4. ChainEnds' /\ ChainLinked' /\ \A x : InChain(x)' <=> InChain(x)
  <2>1. \A x \in Elements : InChain(x) =>
            next'[x] = next[x] /\ pc'[x] = pc[x] /\ prev'[x] = prev[x]
    BY <1>1, <1>2, <1>3
  <2> QED
    BY <1>1, <2>1, ListKept
<1>5. MpscTypeOK'
  BY <1>0, <1>1, <1>2 DEF MpscTypeOK
<1>6. ChainMembers'
  BY <1>0, <1>1, <1>3, <1>4 DEF ChainMembers, Elements
<1>7. StubPushes' /\ ConsumerKnows'
  BY <1>0, <1>1, <1>2, <1>3 DEF StubPushes, ConsumerKnows, Elements
<1>8. ChainSpellsOrder'
  BY <1>0, <1>1, <1>4 DEF ChainSpellsOrder
<1>9. OwnedWhileUsed'
  BY <1>0, <1>1, <1>2, <1>3, Zenon DEF OwnedWhileUsed, Elements
<1> QED
  BY <1>4, <1>5, <1>6, <1>7, <1>8, <1>9 DEF MpscInv

-----------------------------------------------------------------------------
LEMMA MpscInvAtFirst == MpscInit => MpscInv
<1> SUFFICES ASSUME MpscInit PROVE MpscInv
  OBVIOUS
<1>1. /\ chain = <<Stub>> /\ Len(chain) = 1 /\ chain[1] = Stub /\ chain \in Seq(Elements)
      /\ order = <<>> /\ Len(order) = 0 /\ order \in Seq(Nodes)
  BY DEF MpscInit, Elements
<1>2. /\ \A x \in Nodes : pc[x] = "free"
      /\ pc[Stub] = "queued" /\ next[Stub] = Null
      /\ head = Stub /\ tail = Stub /\ cpc = "idle"
  BY MpscAssumption DEF MpscInit
<1>3. MpscTypeOK
  BY <1>1, Zenon DEF MpscInit, MpscTypeOK, Elements
<1>4. \A i \in 1 .. Len(chain) : i = 1
  BY <1>1
<1>5. ChainEnds /\ InChain(Stub)
  BY <1>1, <1>2, <1>4 DEF ChainEnds, InChain
<1>6. ChainLinked
  <2>1. \A i \in 1 .. Len(chain) - 1 : FALSE
    BY <1>1
  <2> QED
    BY <1>2, <2>1 DEF ChainLinked
<1>7. ChainMembers /\ StubPushes /\ ConsumerKnows
  BY <1>2 DEF ChainMembers, StubPushes, ConsumerKnows
<1>8. ChainSpellsOrder
  BY <1>1 DEF ChainSpellsOrder
<1>9. OwnedWhileUsed
  BY <1>2 DEF OwnedWhileUsed, MpscInit
<1> QED
  BY <1>3, <1>5, <1>6, <1>7, <1>8, <1>9 DEF MpscInv

LEMMA MpscInvKept == MpscInv /\ [MpscNext]_mpscVars => MpscInv'
<1> SUFFICES ASSUME MpscInv, [MpscNext]_mpscVars PROVE MpscInv'
  OBVIOUS
<1>1. CASE Consume
  BY <1>1, LookingKeeps, SkipStubKeeps, CheckLastKeeps, AdvanceKeeps, ReleaseOwnershipKeeps,
     PushNodeKeeps DEF Consume, Elements
<1>2. ASSUME NEW t \in Nodes, TakeOwnership(t) \/ PushNode(t) PROVE MpscInv'
  BY <1>2, TakeOwnershipKeeps, PushNodeKeeps DEF Elements
<1>3. CASE UNCHANGED mpscVars
  BY <1>3 DEF mpscVars, MpscInv, MpscTypeOK, ChainEnds, ChainLinked, ChainMembers, StubPushes,
     ConsumerKnows, ChainSpellsOrder, OwnedWhileUsed, InChain
<1> QED
  BY <1>1, <1>2, <1>3 DEF MpscNext

(* change_owner_() finds the owner that push_back() and pop_front() expect: a node
   is popped once for each time it was pushed. *)
THEOREM MpscOwnersCorrect == MpscSpec => []MpscOwnersAsExpected
<1>1. MpscInv => MpscOwnersAsExpected
  BY DEF MpscInv, OwnedWhileUsed, MpscOwnersAsExpected
<1> QED
  BY <1>1, MpscInvAtFirst, MpscInvKept, PTL DEF MpscSpec

-----------------------------------------------------------------------------
(* Each step is a step of the FIFO queue, or none *)

Unlinked == {t \in Nodes : pc[t] = "link"}
Asking == {"load", "empty", "skip", "last", "stub", "wait", "advance"}

LEMMA Results ==
    /\ cpc = "idle" => PopResult = "idle"
    /\ cpc = "popped" => PopResult = h
    /\ cpc = "null" => PopResult = Null
    /\ cpc \in Asking => PopResult = "asked"
BY DEF PopResult, Asking

LEMMA ResultsAfter ==
    /\ cpc' = "idle" => PopResult' = "idle"
    /\ cpc' = "popped" => PopResult' = h'
    /\ cpc' = "null" => PopResult' = Null
    /\ cpc' \in Asking => PopResult' = "asked"
BY DEF PopResult, Asking

LEMMA PushIsStep ==
    ASSUME MpscInv, NEW t \in Elements, PushNode(t) \/ TakeOwnership(t)
    PROVE  [Fifo!Next]_(Fifo!fifo)
<1>0. MpscTypeOK /\ ConsumerKnows
  BY DEF MpscInv
<1>1. UNCHANGED PopResult
  <2>1. UNCHANGED <<cpc, h>>
    BY DEF PushNode, TakeOwnership, ClearNext, ExchangeTail, LinkNext, consumer
  <2> QED
    BY <2>1 DEF PopResult
<1>2. CASE TakeOwnership(t) \/ ClearNext(t)
  <2>1. /\ UNCHANGED order /\ pc[t] \notin {"link"}
        /\ pc' = [pc EXCEPT ![t] = "clear"] \/ pc' = [pc EXCEPT ![t] = "exchange"]
    BY <1>2 DEF TakeOwnership, ClearNext
  <2>2. Unlinked' = Unlinked
    BY <1>0, <2>1 DEF Unlinked, MpscTypeOK
  <2> QED
    BY <1>1, <2>1, <2>2 DEF Fifo!fifo, Unlinked
<1>3. CASE ExchangeTail(t)
  <2>1. /\ pc[t] = "exchange" /\ pc' = [pc EXCEPT ![t] = "link"]
        /\ order' = IF t = Stub THEN order ELSE Append(order, t)
    BY <1>3 DEF ExchangeTail
  <2>2. CASE t = Stub
    <3>1. Unlinked' = Unlinked
      BY <1>0, <2>1, <2>2, MpscAssumption DEF Unlinked, MpscTypeOK
    <3> QED
      BY <1>1, <2>1, <2>2, <3>1 DEF Fifo!fifo, Unlinked
  <2>3. CASE t # Stub
    <3>1. t \in Nodes /\ Unlinked' = Unlinked \cup {t} /\ order' = Append(order, t)
      BY <1>0, <2>1, <2>3 DEF Unlinked, MpscTypeOK, Elements
    <3>2. t # PopResult
      <4>1. cpc = "popped" => h # t
        BY <1>0, <2>1 DEF ConsumerKnows
      <4>2. t \notin {"idle", "asked", Null}
        BY <3>1, MpscAssumption
      <4> QED
        BY <1>0, <4>1, <4>2, Results DEF MpscTypeOK, Asking
    <3>3. \A i \in DOMAIN order : order[i] # t
      <4> SUFFICES ASSUME NEW i \in DOMAIN order, order[i] = t PROVE FALSE
        OBVIOUS
      <4>1. PICK L \in Nat \ {0} : L = Len(chain)
        BY ChainFacts
      <4>2. order \in Seq(Nodes) /\ i \in 1 .. Len(order)
        BY <1>0 DEF MpscTypeOK
      <4>3. InChain(order[i])
        <5>1. CASE chain = order
          BY <4>2, <5>1 DEF InChain
        <5>2. CASE \E k \in 1 .. Len(chain) :
                     /\ chain[k] = Stub /\ Len(order) = Len(chain) - 1
                     /\ \A j \in 1 .. Len(order) :
                          order[j] = IF j < k THEN chain[j] ELSE chain[j + 1]
          <6>1. i \in 1 .. L /\ i + 1 \in 1 .. L
            BY <4>1, <4>2, <5>2
          <6>2. order[i] = chain[i] \/ order[i] = chain[i + 1]
            BY <4>2, <5>2
          <6> QED
            BY <4>1, <6>1, <6>2 DEF InChain
        <5> QED
          BY <5>1, <5>2 DEF MpscInv, ChainSpellsOrder
      <4> QED
        BY <2>1, <4>3, ChainStates
    <3>4. Fifo!Push(t)
      BY <1>1, <3>1, <3>2, <3>3 DEF Fifo!Push, Unlinked
    <3> QED
      BY <3>1, <3>4 DEF Fifo!Next
  <2> QED
    BY <2>2, <2>3
<1>4. CASE LinkNext(t)
  <2>1. pc[t] = "link" /\ pc' = [pc EXCEPT ![t] = "queued"] /\ UNCHANGED order
    BY <1>4 DEF LinkNext
  <2>2. Unlinked' = Unlinked \ {t}
    BY <1>0, <2>1 DEF Unlinked, MpscTypeOK
  <2>3. CASE t \in Nodes
    <3>1. Fifo!PushReturns(t)
      BY <1>1, <2>1, <2>2, <2>3 DEF Fifo!PushReturns, Unlinked
    <3> QED
      BY <2>3, <3>1 DEF Fifo!Next
  <2>4. CASE t = Stub
    <3>1. Unlinked' = Unlinked
      BY <2>2, <2>4, MpscAssumption DEF Unlinked
    <3> QED
      BY <1>1, <2>1, <3>1 DEF Fifo!fifo, Unlinked
  <2> QED
    BY <2>3, <2>4 DEF Elements
<1> QED
  BY <1>2, <1>3, <1>4 DEF PushNode

(* A pop comes back empty-handed only if no node is queued, or one is not linked. *)
LEMMA PopFailsRightly ==
    ASSUME MpscInv, CheckEmpty \/ WaitNext, cpc' = "null"
    PROVE  order = <<>> \/ Unlinked # {}
<1>0. /\ MpscTypeOK /\ ChainEnds /\ StubPushes /\ ConsumerKnows /\ ChainSpellsOrder
  BY DEF MpscInv
<1>1. CASE CheckEmpty
  <2>1. cpc = "empty" /\ tail = h
    BY <1>1 DEF CheckEmpty, ConsumerGoto
  <2>2. head = Stub /\ tail = head
    BY <1>0, <2>1 DEF ConsumerKnows
  <2>3. 1 \in 1 .. Len(chain) /\ Len(chain) \in 1 .. Len(chain)
    BY ChainFacts
  <2>4. Len(chain) = 1 /\ chain[1] = Stub
    BY <1>0, <2>2, <2>3, Zenon DEF ChainEnds
  <2>5. Len(order) = 0
    BY <1>0, <2>3, <2>4 DEF ChainSpellsOrder, InChain
  <2> QED
    BY <1>0, <2>5 DEF MpscTypeOK
<1>2. CASE WaitNext
  <2>1. cpc = "wait" /\ next[h] = Null
    BY <1>2 DEF WaitNext, ConsumerGoto
  <2>2. h = head /\ head # tail /\ pc[Stub] # "link"
    BY <1>0, <2>1 DEF ConsumerKnows, StubPushes
  <2>3. chain[2] \in Elements /\ pc[chain[2]] = "link"
    <3>1. /\ chain[2] \in Elements
          /\ \/ pc[chain[2]] = "queued" /\ next[head] = chain[2]
             \/ pc[chain[2]] = "link" /\ next[head] = Null
      BY <2>2, SecondNode
    <3>2. Null \notin Elements
      BY MpscAssumption DEF Elements
    <3> QED
      BY <2>1, <2>2, <3>1, <3>2
  <2>4. chain[2] \in Unlinked
    BY <2>2, <2>3 DEF Unlinked, Elements
  <2> QED
    BY <2>4
<1> QED
  BY <1>1, <1>2

LEMMA PopIsStep ==
    ASSUME MpscInv, Consume
    PROVE  [Fifo!Next]_(Fifo!fifo)
<1>0. MpscTypeOK /\ ConsumerKnows
  BY DEF MpscInv
<1>1. CASE PushNode(Stub)
  BY <1>1, PushIsStep DEF Elements
<1>2. CASE StartPop
  <2>1. cpc = "idle" /\ cpc' = "load" /\ UNCHANGED <<order, pc>>
    BY <1>2 DEF StartPop, ConsumerGoto, list, producer
  <2>2. PopResult = "idle" /\ PopResult' = "asked"
    BY <2>1, Results, ResultsAfter DEF Asking
  <2>3. Fifo!Ask
    BY <2>1, <2>2 DEF Fifo!Ask
  <2> QED
    BY <2>3 DEF Fifo!Next
<1>3. CASE Advance
  <2>1. cpc = "advance" /\ cpc' = "popped" /\ h' = h /\ order' = Tail(order) /\ UNCHANGED pc
    BY <1>3 DEF Advance, ConsumerGoto, producer
  <2>2. order # <<>> /\ Head(order) = h /\ pc[h] = "queued"
    BY <1>3, AdvanceKeeps
  <2>3. PopResult = "asked" /\ PopResult' = h
    BY <2>1, Results, ResultsAfter DEF Asking
  <2>4. Unlinked' = Unlinked /\ h \notin Unlinked
    BY <2>1, <2>2 DEF Unlinked
  <2>5. Fifo!Pop
    BY <2>1, <2>2, <2>3, <2>4 DEF Fifo!Pop, Unlinked
  <2> QED
    BY <2>5 DEF Fifo!Next
<1>4. CASE ReleaseOwnership
  <2>1. cpc = "popped" /\ cpc' = "idle" /\ UNCHANGED order /\ pc' = [pc EXCEPT ![h] = "free"]
    BY <1>4 DEF ReleaseOwnership, ConsumerGoto
  <2>2. h \in Nodes /\ pc[h] = "queued"
    BY <1>0, <2>1 DEF ConsumerKnows, MpscTypeOK
  <2>3. PopResult = h /\ PopResult' = "idle"
    BY <2>1, Results, ResultsAfter
  <2>4. Unlinked' = Unlinked
    BY <1>0, <2>1, <2>2 DEF Unlinked, MpscTypeOK
  <2>5. Fifo!PopReturns
    BY <2>1, <2>2, <2>3, <2>4 DEF Fifo!PopReturns, Unlinked
  <2> QED
    BY <2>5 DEF Fifo!Next
<1>5. CASE ReturnNull
  <2>1. cpc = "null" /\ cpc' = "idle" /\ UNCHANGED <<order, pc>>
    BY <1>5 DEF ReturnNull, ConsumerGoto, list, producer
  <2>2. PopResult = Null /\ PopResult' = "idle"
    BY <2>1, Results, ResultsAfter
  <2>3. Fifo!PopReturns
    BY <2>1, <2>2 DEF Fifo!PopReturns
  <2> QED
    BY <2>3 DEF Fifo!Next
<1>6. CASE (CheckEmpty \/ WaitNext) /\ cpc' = "null"
  <2>1. cpc \in Asking /\ UNCHANGED <<order, pc>>
    BY <1>6 DEF CheckEmpty, WaitNext, list, producer, Asking
  <2>2. PopResult = "asked" /\ PopResult' = Null
    BY <1>6, <2>1, Results, ResultsAfter
  <2>3. order = <<>> \/ Unlinked # {}
    BY <1>6, PopFailsRightly
  <2>4. Fifo!PopFails
    BY <2>1, <2>2, <2>3 DEF Fifo!PopFails, Unlinked
  <2> QED
    BY <2>4 DEF Fifo!Next
<1>7. CASE \/ LoadNext \/ SkipStub \/ CheckLast \/ StubPushed
           \/ ((CheckEmpty \/ WaitNext) /\ cpc' # "null")
  <2>1. cpc \in Asking /\ cpc' \in Asking /\ UNCHANGED order
    BY <1>7 DEF LoadNext, SkipStub, CheckLast, StubPushed, CheckEmpty, WaitNext, ConsumerGoto,
       list, Asking
  <2>2. PopResult' = PopResult
    BY <2>1, Results, ResultsAfter
  <2>3. UNCHANGED pc \/ pc' = [pc EXCEPT ![Stub] = "clear"]
    BY <1>7, Zenon DEF LoadNext, SkipStub, CheckLast, StubPushed, CheckEmpty, WaitNext, producer
  <2>4. Unlinked' = Unlinked
    BY <1>0, <2>3, MpscAssumption DEF Unlinked, MpscTypeOK
  <2> QED
    BY <2>1, <2>2, <2>4 DEF Fifo!fifo, Unlinked
<1> QED
  BY <1>1, <1>2, <1>3, <1>4, <1>5, <1>6, <1>7 DEF Consume

(* push_back() and pop_front(), access by access, implement the FIFO queue that the
   pipeline loop and the session group rely on: a push takes effect with the exchange
   of tail_, a pop with the move of head_, nodes leave in the order in which they came,
   and a pop fails only if there is none or a push is running. *)
THEOREM MpscIsFifo == MpscSpec => MpscImplementsFifo
<1>1. MpscInit => Fifo!Init
  <2> SUFFICES ASSUME MpscInit PROVE Fifo!Init
    OBVIOUS
  <2>1. order = <<>> /\ cpc = "idle" /\ \A t \in Nodes : pc[t] = "free"
    BY MpscAssumption DEF MpscInit
  <2>2. PopResult = "idle" /\ {t \in Nodes : pc[t] = "link"} = {}
    BY <2>1, Results
  <2> QED
    BY <2>1, <2>2 DEF Fifo!Init
<1>2. MpscInv /\ [MpscNext]_mpscVars => [Fifo!Next]_(Fifo!fifo)
  <2> SUFFICES ASSUME MpscInv, [MpscNext]_mpscVars PROVE [Fifo!Next]_(Fifo!fifo)
    OBVIOUS
  <2>1. ASSUME NEW t \in Nodes, TakeOwnership(t) \/ PushNode(t) PROVE [Fifo!Next]_(Fifo!fifo)
    BY <2>1, PushIsStep DEF Elements
  <2>2. CASE UNCHANGED mpscVars
    BY <2>2 DEF mpscVars, Fifo!fifo, PopResult
  <2> QED
    BY <2>1, <2>2, PopIsStep DEF MpscNext
<1> QED
  BY <1>1, <1>2, MpscInvAtFirst, MpscInvKept, PTL DEF MpscSpec, MpscImplementsFifo, Fifo!Spec
=============================================================================
