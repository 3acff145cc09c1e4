--------------------------- MODULE UdpPortProofs ---------------------------
(***************************************************************************)
(* A UDP port sends what was written in order and is not closed under a    *)
(* packet, for any number of writers and packets.  The invariant UdpInv    *)
(* has two halves: where the packets are (DataInv), which most steps leave *)
(* alone, and the phases of the port's life, which need only the counter.  *)
(***************************************************************************)
EXTENDS UdpPort, FiniteSetTheorems, TLAPS

DataInv ==
    /\ IsFiniteSet(refused) /\ PendingPacketsExact /\ SentInOrder /\ PacketsInOrder
    /\ PacketsTaken /\ DirectAlone /\ PacketsKept

\* Appending to a sequence, and taking its first element off.
LEMMA Appended ==
    ASSUME NEW S, NEW s \in Seq(S), NEW x \in S
    PROVE  /\ Append(s, x) \in Seq(S) /\ Len(Append(s, x)) = Len(s) + 1 /\ Len(s) \in Nat
           /\ Append(s, x)[Len(s) + 1] = x
           /\ \A i \in 1 .. Len(s) : Append(s, x)[i] = s[i]
OBVIOUS

LEMMA Popped ==
    ASSUME NEW S, NEW s \in Seq(S), s # <<>>
    PROVE  /\ Tail(s) \in Seq(S) /\ Len(Tail(s)) = Len(s) - 1 /\ Len(s) \in Nat /\ Len(s) > 0
           /\ Head(s) = s[1] /\ Head(s) \in S
           /\ \A i \in 1 .. Len(s) - 1 : Tail(s)[i] = s[i + 1]
OBVIOUS

LEMMA EmptySeq ==
    ASSUME NEW S, NEW s \in Seq(S)
    PROVE  Len(s) \in Nat /\ (Len(s) = 0 <=> s = <<>>)
OBVIOUS

LEMMA SeqElements ==
    ASSUME NEW S, NEW s \in Seq(S)
    PROVE  Len(s) \in Nat /\ \A i \in 1 .. Len(s) : s[i] \in S
OBVIOUS

\* What the type invariant says of the packets.
LEMMA PacketTypes ==
    ASSUME TypeOK
    PROVE  /\ queue \in Seq(Packets) /\ Len(queue) \in Nat
           /\ inflight \in Seq(Packets) /\ Len(inflight) \in Nat
           /\ \A i \in 1 .. Len(queue) : queue[i] \in Packets
           /\ \A i \in 1 .. Len(inflight) : inflight[i] \in Packets
           /\ \A w \in Writers : /\ sent[w] \in Seq(1 .. MaxPackets) /\ Len(sent[w]) \in Nat
                                 /\ \A i \in 1 .. Len(sent[w]) : sent[w][i] \in 1 .. MaxPackets
           /\ \A w \in Writers : written[w] \in 0 .. MaxPackets /\ Taken[w] \in Int
           /\ \A p \in Packets : /\ p[1] \in Writers /\ p[2] \in 1 .. MaxPackets
                                 /\ p = <<p[1], p[2]>>
<1>1. /\ queue \in Seq(Packets) /\ inflight \in Seq(Packets)
      /\ sent \in [Writers -> Seq(1 .. MaxPackets)] /\ written \in [Writers -> 0 .. MaxPackets]
  BY Zenon DEF TypeOK
<1>2. /\ Len(queue) \in Nat /\ \A i \in 1 .. Len(queue) : queue[i] \in Packets
      /\ Len(inflight) \in Nat /\ \A i \in 1 .. Len(inflight) : inflight[i] \in Packets
  BY <1>1
<1>3. ASSUME NEW w \in Writers
      PROVE  /\ sent[w] \in Seq(1 .. MaxPackets) /\ Len(sent[w]) \in Nat
             /\ \A i \in 1 .. Len(sent[w]) : sent[w][i] \in 1 .. MaxPackets
  <2>1. sent[w] \in Seq(1 .. MaxPackets)
    BY <1>1
  <2> QED
    BY <2>1, SeqElements, Zenon
<1>4. ASSUME NEW w \in Writers PROVE written[w] \in 0 .. MaxPackets /\ Taken[w] \in Int
  BY <1>1, UdpAssumption DEF Taken
<1>5. \A p \in Packets : p[1] \in Writers /\ p[2] \in 1 .. MaxPackets /\ p = <<p[1], p[2]>>
  BY DEF Packets
<1> QED
  BY <1>1, <1>2, <1>3, <1>4, <1>5

LEMMA CountedFinite == IsFiniteSet(Counted) /\ Cardinality(Counted) \in Nat
  BY UdpAssumption, FS_Subset, FS_CardinalityType DEF Counted

\* What is counted covers what is on its way.
LEMMA PendingCovers ==
    ASSUME TypeOK, IsFiniteSet(refused), PendingPacketsExact
    PROVE  /\ pending >= Len(queue) + Len(inflight)
           /\ Counted # {} => pending >= 1
           /\ pending = 0 => queue = <<>> /\ inflight = <<>> /\ refused = {} /\ Counted = {}
<1>1. Cardinality(refused) \in Nat /\ (Cardinality(refused) = 0 <=> refused = {})
  BY FS_CardinalityType, FS_EmptySet
<1>2. Cardinality(Counted) \in Nat /\ (Cardinality(Counted) = 0 <=> Counted = {})
  BY CountedFinite, FS_EmptySet
<1>3. PICK a \in Nat, b \in Nat : a = Len(queue) /\ b = Len(inflight)
  BY PacketTypes, Zenon
<1>4. (a = 0 => queue = <<>>) /\ (b = 0 => inflight = <<>>)
  BY <1>3, PacketTypes, EmptySeq
<1>5. pending = a + b + Cardinality(refused) + Cardinality(Counted)
  BY <1>3 DEF PendingPacketsExact
<1> QED
  BY <1>1, <1>2, <1>3, <1>4, <1>5

-----------------------------------------------------------------------------
(* Where the packets are *)

\* Steps that move no packet.
LEMMA PacketsStay ==
    ASSUME TypeOK, DataInv, UNCHANGED <<queue, inflight, sent, refused>>,
           \A w \in Writers : Taken'[w] = Taken[w],
           \A w \in Writers : wpc'[w] \in {"count", "try", "push"} => written'[w] > 0,
           PendingPacketsExact', DirectAlone'
    PROVE  DataInv'
<1>1. IsFiniteSet(refused)' /\ SentInOrder' /\ PacketsInOrder'
  BY DEF DataInv, SentInOrder, PacketsInOrder
<1>2. PacketsTaken'
  <2>1. \A w \in Writers : \A i \in 1 .. Len(sent[w]) : sent[w][i] <= Taken'[w]
    BY DEF DataInv, PacketsTaken
  <2>2. \A i \in 1 .. Len(inflight) : inflight[i][2] <= Taken'[inflight[i][1]]
    BY PacketTypes, Zenon DEF DataInv, PacketsTaken
  <2>3. \A i \in 1 .. Len(queue) : queue[i][2] <= Taken'[queue[i][1]] /\ queue[i] \notin refused
    BY PacketTypes, Zenon DEF DataInv, PacketsTaken
  <2>4. \A p \in refused : p[2] <= Taken'[p[1]]
    BY PacketTypes, Zenon DEF DataInv, PacketsTaken, TypeOK
  <2> QED
    BY <2>1, <2>2, <2>3, <2>4 DEF PacketsTaken
<1>3. PacketsKept'
  BY Zenon DEF DataInv, PacketsKept
<1> QED
  BY <1>1, <1>2, <1>3 DEF DataInv

\* A write that begins takes no number of the packets before it.
LEMMA WriteData ==
    ASSUME TypeOK, DataInv, NEW w \in Writers, Write(w)
    PROVE  DataInv'
<1>0. UNCHANGED <<pending, queue, inflight, sent, refused>>
  BY Zenon DEF Write, net
<1>1. CASE UNCHANGED writing
  BY <1>0, <1>1, PacketsStay
     DEF writing, DataInv, Taken, PacketsTaken, PendingPacketsExact, Counted, DirectAlone
<1>2. CASE wpc' = [wpc EXCEPT ![w] = "count"] /\ written' = [written EXCEPT ![w] = @ + 1]
  <2>1. /\ wpc \in [Writers -> {"idle", "count", "try", "uncount", "push", "notify"}]
        /\ written \in [Writers -> 0 .. MaxPackets] /\ wpc[w] = "idle"
    BY Zenon DEF TypeOK, Write
  <2>2. Counted' = Counted
    BY <1>2, <2>1 DEF Counted
  <2>3. \A u \in Writers : Taken'[u] = Taken[u]
    BY <1>2, <2>1, UdpAssumption DEF Taken
  <2>4. \A u \in Writers : wpc'[u] \in {"count", "try", "push"} => written'[u] > 0
    BY <1>2, <2>1, UdpAssumption DEF DataInv, PacketsTaken
  <2>5. PendingPacketsExact'
    BY <1>0, <2>2 DEF PendingPacketsExact, DataInv
  <2>6. DirectAlone'
    BY <1>0, <1>2, <2>1 DEF DirectAlone, DataInv
  <2> QED
    BY <1>0, <2>3, <2>4, <2>5, <2>6, PacketsStay
<1> QED
  BY <1>1, <1>2, Zenon DEF Write

\* The first of the packets on their way is counted before it is tried.
LEMMA CountData ==
    ASSUME TypeOK, DataInv, NEW w \in Writers, CountPending(w)
    PROVE  DataInv'
<1>1. /\ wpc \in [Writers -> {"idle", "count", "try", "uncount", "push", "notify"}]
      /\ wpc[w] = "count" /\ pending' = pending + 1
      /\ wpc' = [wpc EXCEPT ![w] = IF NonBlocking /\ pending = 0 THEN "try" ELSE "push"]
      /\ UNCHANGED <<queue, inflight, sent, refused, written>>
  BY Zenon DEF TypeOK, CountPending, net
<1>2. Counted' = Counted \cup {w} /\ w \notin Counted
  BY <1>1 DEF Counted
<1>3. Cardinality(Counted') = Cardinality(Counted) + 1
  BY <1>2, CountedFinite, FS_AddElement
<1>4. PendingPacketsExact'
  <2>1. PICK a \in Nat, b \in Nat, c \in Nat, d \in Nat :
             /\ a = Len(queue) /\ b = Len(inflight)
             /\ c = Cardinality(refused) /\ d = Cardinality(Counted)
    BY PacketTypes, CountedFinite, FS_CardinalityType, Zenon DEF DataInv
  <2>2. pending = a + b + c + d
    BY <2>1 DEF PendingPacketsExact, DataInv
  <2>3. pending' = a + b + c + (d + 1)
    BY <1>1, <2>2
  <2> QED
    BY <1>1, <1>3, <2>1, <2>3 DEF PendingPacketsExact
<1>5. DirectAlone'
  <2>1. CASE pending = 0
    <3>1. Len(queue) = 0 /\ Len(inflight) = 0
      BY <2>1, PendingCovers DEF DataInv
    <3> QED
      BY <1>1, <3>1 DEF DirectAlone
  <2>2. CASE pending # 0
    BY <1>1, <2>2 DEF DirectAlone, DataInv
  <2> QED
    BY <2>1, <2>2
<1>6. \A u \in Writers : Taken'[u] = Taken[u]
  BY <1>1 DEF Taken
<1>7. \A u \in Writers : wpc'[u] \in {"count", "try", "push"} => written'[u] > 0
  BY <1>1 DEF DataInv, PacketsTaken
<1> QED
  BY <1>1, <1>4, <1>5, <1>6, <1>7, PacketsStay

\* The direct path gives up, the counter is taken back after a direct send, and the
\* network thread is woken.
LEMMA StayData ==
    ASSUME TypeOK, DataInv, NEW w \in Writers,
           \/ /\ wpc[w] = "try" /\ wpc' = [wpc EXCEPT ![w] = "push"]
              /\ UNCHANGED <<pending, queue, inflight, sent, refused, written>>
           \/ Uncount(w)
           \/ Notify(w)
    PROVE  DataInv'
<1>0. wpc \in [Writers -> {"idle", "count", "try", "uncount", "push", "notify"}]
  BY Zenon DEF TypeOK
<1>1. CASE wpc[w] = "try" /\ wpc' = [wpc EXCEPT ![w] = "push"]
           /\ UNCHANGED <<pending, queue, inflight, sent, refused, written>>
  <2>1. Counted' = Counted
    BY <1>0, <1>1 DEF Counted
  <2>2. PendingPacketsExact'
    BY <1>1, <2>1 DEF PendingPacketsExact, DataInv
  <2>3. DirectAlone'
    BY <1>0, <1>1 DEF DirectAlone, DataInv
  <2>4. \A u \in Writers : Taken'[u] = Taken[u]
    BY <1>0, <1>1 DEF Taken
  <2>5. \A u \in Writers : wpc'[u] \in {"count", "try", "push"} => written'[u] > 0
    BY <1>0, <1>1 DEF DataInv, PacketsTaken
  <2> QED
    BY <1>1, <2>2, <2>3, <2>4, <2>5, PacketsStay
<1>2. CASE Uncount(w)
  <2>1. /\ wpc[w] = "uncount" /\ pending' = pending - 1 /\ wpc' = [wpc EXCEPT ![w] = "idle"]
        /\ UNCHANGED <<queue, inflight, sent, refused, written>>
    BY <1>2 DEF Uncount, net
  <2>2. Counted' = Counted \ {w} /\ w \in Counted
    BY <1>0, <2>1 DEF Counted
  <2>3. Cardinality(Counted') = Cardinality(Counted) - 1
    BY <2>2, CountedFinite, FS_RemoveElement
  <2>4. PendingPacketsExact'
    <3>1. PICK a \in Nat, b \in Nat, c \in Nat, d \in Nat :
               /\ a = Len(queue) /\ b = Len(inflight)
               /\ c = Cardinality(refused) /\ d = Cardinality(Counted)
      BY PacketTypes, CountedFinite, FS_CardinalityType, Zenon DEF DataInv
    <3>2. pending = a + b + c + d
      BY <3>1 DEF PendingPacketsExact, DataInv
    <3>3. pending' = a + b + c + (d - 1)
      BY <2>1, <3>2
    <3> QED
      BY <2>1, <2>3, <3>1, <3>3 DEF PendingPacketsExact
  <2>5. DirectAlone'
    BY <1>0, <2>1 DEF DirectAlone, DataInv
  <2>6. \A u \in Writers : Taken'[u] = Taken[u]
    BY <1>0, <2>1 DEF Taken
  <2>7. \A u \in Writers : wpc'[u] \in {"count", "try", "push"} => written'[u] > 0
    BY <1>0, <2>1 DEF DataInv, PacketsTaken
  <2> QED
    BY <2>1, <2>4, <2>5, <2>6, <2>7, PacketsStay
<1>3. CASE Notify(w)
  <2>1. /\ wpc[w] = "notify" /\ wpc' = [wpc EXCEPT ![w] = "idle"]
        /\ UNCHANGED <<pending, queue, inflight, sent, refused, written>>
    BY <1>3 DEF Notify
  <2>2. Counted' = Counted
    BY <1>0, <2>1 DEF Counted
  <2>3. PendingPacketsExact'
    BY <2>1, <2>2 DEF PendingPacketsExact, DataInv
  <2>4. DirectAlone'
    BY <1>0, <2>1 DEF DirectAlone, DataInv
  <2>5. \A u \in Writers : Taken'[u] = Taken[u]
    BY <1>0, <2>1 DEF Taken
  <2>6. \A u \in Writers : wpc'[u] \in {"count", "try", "push"} => written'[u] > 0
    BY <1>0, <2>1 DEF DataInv, PacketsTaken
  <2> QED
    BY <2>1, <2>3, <2>4, <2>5, <2>6, PacketsStay
<1> QED
  BY <1>1, <1>2, <1>3

\* The numbers that are taken grow.
LEMMA TakenGrows ==
    ASSUME TypeOK, PacketsTaken,
           \A w \in Writers : Taken'[w] \in Int /\ Taken[w] <= Taken'[w]
    PROVE  /\ \A i \in 1 .. Len(inflight) : inflight[i][2] <= Taken'[inflight[i][1]]
           /\ \A i \in 1 .. Len(queue) : queue[i][2] <= Taken'[queue[i][1]]
           /\ \A p \in refused : p[2] <= Taken'[p[1]]
<1>1. ASSUME NEW p \in Packets, p[2] <= Taken[p[1]] PROVE p[2] <= Taken'[p[1]]
  <2>1. p[1] \in Writers /\ p[2] \in Int
    BY UdpAssumption DEF Packets
  <2>2. Taken[p[1]] \in Int
    BY <2>1, PacketTypes
  <2> QED
    BY <1>1, <2>1, <2>2
<1>2. /\ \A i \in 1 .. Len(inflight) : inflight[i][2] <= Taken[inflight[i][1]]
      /\ \A i \in 1 .. Len(queue) : queue[i][2] <= Taken[queue[i][1]]
      /\ \A p \in refused : p[2] <= Taken[p[1]]
  BY DEF PacketsTaken
<1>3. /\ \A i \in 1 .. Len(inflight) : inflight[i] \in Packets
      /\ \A i \in 1 .. Len(queue) : queue[i] \in Packets
      /\ refused \subseteq Packets
  BY PacketTypes, Zenon DEF TypeOK
<1> QED
  BY <1>1, <1>2, <1>3

\* A direct send goes past nothing of the same writer, which has nothing on its way.
LEMMA TryData ==
    ASSUME TypeOK, DataInv, NEW w \in Writers, TryNonblockingWrite(w)
    PROVE  DataInv'
<1>0. /\ wpc \in [Writers -> {"idle", "count", "try", "uncount", "push", "notify"}]
      /\ sent \in [Writers -> Seq(1 .. MaxPackets)] /\ written \in [Writers -> 0 .. MaxPackets]
      /\ wpc[w] = "try" /\ UNCHANGED <<pending, queue, inflight, refused, written>>
  BY Zenon DEF TypeOK, TryNonblockingWrite, net
<1>1. CASE wpc' = [wpc EXCEPT ![w] = "push"] /\ UNCHANGED sent
  BY <1>0, <1>1, StayData, Zenon
<1>2. CASE Transmit(Packet(w)) /\ wpc' = [wpc EXCEPT ![w] = "uncount"]
  <2> DEFINE k == written[w]
             n == Len(sent[w])
  <2>1. k \in 1 .. MaxPackets /\ Taken[w] = k - 1 /\ Taken'[w] = k
    BY <1>0, <1>2, UdpAssumption DEF Taken, DataInv, PacketsTaken
  <2>2. \A u \in Writers : u # w => Taken'[u] = Taken[u] /\ sent'[u] = sent[u]
    BY <1>0, <1>2 DEF Taken, Transmit, Packet
  <2>3. sent'[w] = Append(sent[w], k) /\ sent[w] \in Seq(1 .. MaxPackets)
    BY <1>0, <1>2 DEF Transmit, Packet
  <2>4. /\ n \in Nat /\ Len(sent'[w]) = n + 1 /\ sent'[w][n + 1] = k
        /\ \A i \in 1 .. n : sent'[w][i] = sent[w][i]
    BY <2>1, <2>3, Appended
  <2>5. \A i \in 1 .. n : sent[w][i] \in 1 .. MaxPackets /\ sent[w][i] <= k - 1
    BY <2>1, PacketTypes DEF DataInv, PacketsTaken
  <2> HIDE DEF k, n
  <2>6. SentInOrder'
    <3>1. \A i, j \in 1 .. n + 1 : i < j => sent'[w][i] < sent'[w][j]
      <4> TAKE i, j \in 1 .. n + 1
      <4> HAVE i < j
      <4>1. i \in 1 .. n /\ sent'[w][i] = sent[w][i]
        BY <2>4
      <4>2. CASE j = n + 1
        BY <2>1, <2>4, <2>5, <4>1, <4>2
      <4>3. CASE j # n + 1
        <5>1. j \in 1 .. n /\ sent'[w][j] = sent[w][j]
          BY <2>4, <4>3
        <5>2. sent[w][i] < sent[w][j]
          BY <4>1, <5>1 DEF n, DataInv, SentInOrder
        <5> QED
          BY <4>1, <5>1, <5>2
      <4> QED
        BY <4>2, <4>3
    <3> QED
      BY <2>2, <2>4, <3>1 DEF SentInOrder, DataInv
  <2>7. PacketsInOrder'
    <3>1. /\ \A j \in 1 .. Len(inflight) : inflight[j][1] # w
          /\ \A j \in 1 .. Len(queue) : queue[j][1] # w
      BY <1>0 DEF DataInv, DirectAlone
    <3>2. ASSUME NEW u \in Writers, NEW i \in 1 .. Len(sent'[u])
          PROVE  /\ \A j \in 1 .. Len(inflight) : Follow(<<u, sent'[u][i]>>, inflight[j])
                 /\ \A j \in 1 .. Len(queue) : Follow(<<u, sent'[u][i]>>, queue[j])
      <4>1. CASE u = w
        BY <3>1, <4>1 DEF Follow
      <4>2. CASE u # w
        BY <2>2, <4>2 DEF PacketsInOrder, DataInv
      <4> QED
        BY <4>1, <4>2
    <3> QED
      BY <1>0, <3>2, Zenon DEF PacketsInOrder, DataInv
  <2>8. PacketsTaken'
    <3>1. \A u \in Writers : Taken[u] \in Int /\ Taken'[u] \in Int /\ Taken[u] <= Taken'[u]
      <4> TAKE u \in Writers
      <4>1. Taken[u] \in Int
        BY PacketTypes
      <4>2. CASE u = w
        BY <2>1, <4>2
      <4>3. CASE u # w
        BY <2>2, <4>1, <4>3
      <4> QED
        BY <4>1, <4>2, <4>3
    <3>2. ASSUME NEW u \in Writers, NEW i \in 1 .. Len(sent'[u]) PROVE sent'[u][i] <= Taken'[u]
      <4>1. CASE u # w
        BY <2>2, <4>1 DEF DataInv, PacketsTaken
      <4>2. CASE u = w
        BY <2>1, <2>4, <2>5, <4>2
      <4> QED
        BY <4>1, <4>2
    <3>3. /\ \A i \in 1 .. Len(inflight) : inflight[i][2] <= Taken'[inflight[i][1]]
          /\ \A i \in 1 .. Len(queue) : queue[i][2] <= Taken'[queue[i][1]]
          /\ \A p \in refused : p[2] <= Taken'[p[1]]
      BY <3>1, TakenGrows DEF DataInv
    <3>4. \A i \in 1 .. Len(queue) : queue[i] \notin refused
      BY DEF DataInv, PacketsTaken
    <3>6. \A u \in Writers : wpc'[u] \in {"count", "try", "push"} => written'[u] > 0
      BY <1>0, <1>2 DEF DataInv, PacketsTaken
    <3> QED
      BY <1>0, <3>2, <3>3, <3>4, <3>6, Zenon DEF PacketsTaken
  <2>9. PacketsKept'
    <3>1. ASSUME NEW u \in Writers, NEW m \in 1 .. Taken'[u]
          PROVE  \/ \E i \in 1 .. Len(sent'[u]) : sent'[u][i] = m
                 \/ \E i \in 1 .. Len(inflight) : inflight[i] = <<u, m>>
                 \/ \E i \in 1 .. Len(queue) : queue[i] = <<u, m>>
                 \/ <<u, m>> \in refused
      <4>1. CASE u # w
        BY <2>2, <4>1, Zenon DEF DataInv, PacketsKept
      <4>2. CASE u = w /\ m = k
        BY <2>4, <4>2
      <4>3. CASE u = w /\ m # k
        <5>1. m \in 1 .. Taken[w]
          BY <2>1, <4>3
        <5>2. \/ \E i \in 1 .. n : sent[w][i] = m
              \/ \E i \in 1 .. Len(inflight) : inflight[i] = <<w, m>>
              \/ \E i \in 1 .. Len(queue) : queue[i] = <<w, m>>
              \/ <<w, m>> \in refused
          BY <5>1, Zenon DEF DataInv, PacketsKept, n
        <5>3. ASSUME NEW i \in 1 .. n, sent[w][i] = m
              PROVE  \E j \in 1 .. Len(sent'[w]) : sent'[w][j] = m
          <6>1. i \in 1 .. Len(sent'[w]) /\ sent'[w][i] = m
            BY <2>4, <5>3
          <6> QED
            BY <6>1
        <5> QED
          BY <4>3, <5>2, <5>3
      <4> QED
        BY <4>1, <4>2, <4>3
    <3> QED
      BY <1>0, <3>1, Zenon DEF PacketsKept
  <2>10. Counted' = Counted
    BY <1>0, <1>2 DEF Counted
  <2>11. PendingPacketsExact'
    BY <1>0, <2>10 DEF PendingPacketsExact, DataInv
  <2>12. DirectAlone'
    BY <1>0, <1>2 DEF DirectAlone, DataInv
  <2> QED
    BY <1>0, <2>6, <2>7, <2>8, <2>9, <2>11, <2>12 DEF DataInv
<1> QED
  BY <1>1, <1>2 DEF TryNonblockingWrite

\* A packet is queued behind all others of its writer.
LEMMA PushData ==
    ASSUME TypeOK, DataInv, NEW w \in Writers, PushPacket(w)
    PROVE  DataInv'
<1> DEFINE k == written[w]
           n == Len(queue)
<1>0. /\ wpc \in [Writers -> {"idle", "count", "try", "uncount", "push", "notify"}]
      /\ written \in [Writers -> 0 .. MaxPackets]
      /\ wpc[w] = "push" /\ wpc' = [wpc EXCEPT ![w] = "notify"] /\ queue' = Append(queue, <<w, k>>)
      /\ UNCHANGED <<pending, inflight, sent, refused, written>>
  BY Zenon DEF TypeOK, PushPacket, Packet
<1>1. k \in 1 .. MaxPackets /\ Taken[w] = k - 1 /\ Taken'[w] = k
  BY <1>0, UdpAssumption DEF Taken, DataInv, PacketsTaken
<1>2. \A u \in Writers : u # w => Taken'[u] = Taken[u]
  BY <1>0 DEF Taken
<1>3. <<w, k>> \in Packets
  BY <1>1 DEF Packets
<1>4. /\ n \in Nat /\ Len(queue') = n + 1 /\ queue'[n + 1] = <<w, k>>
      /\ \A i \in 1 .. n : queue'[i] = queue[i]
  BY <1>0, <1>3, PacketTypes, Appended
<1> HIDE DEF k, n
<1>5. \A p \in Packets : p[2] <= Taken[p[1]] => Follow(p, <<w, k>>)
  BY <1>1, UdpAssumption DEF Follow, Packets
<1>6. PacketsInOrder'
  <2>1. ASSUME NEW i \in 1 .. Len(queue'), NEW j \in 1 .. Len(queue'), i < j
        PROVE  Follow(queue'[i], queue'[j])
    <3>1. i \in 1 .. n /\ queue'[i] = queue[i]
      BY <1>4, <2>1
    <3>2. CASE j = n + 1
      <4>1. queue[i] \in Packets /\ queue[i][2] <= Taken[queue[i][1]]
        BY <3>1, PacketTypes DEF n, DataInv, PacketsTaken
      <4> QED
        BY <1>4, <1>5, <3>1, <3>2, <4>1
    <3>3. CASE j # n + 1
      <4>1. j \in 1 .. n /\ queue'[j] = queue[j]
        BY <1>4, <3>3
      <4> QED
        BY <2>1, <3>1, <4>1 DEF n, DataInv, PacketsInOrder
    <3> QED
      BY <3>2, <3>3
  <2>2. ASSUME NEW i \in 1 .. Len(inflight), NEW j \in 1 .. Len(queue')
        PROVE  Follow(inflight[i], queue'[j])
    <3>1. CASE j = n + 1
      <4>1. inflight[i] \in Packets /\ inflight[i][2] <= Taken[inflight[i][1]]
        BY PacketTypes DEF DataInv, PacketsTaken
      <4> QED
        BY <1>4, <1>5, <3>1, <4>1
    <3>2. CASE j # n + 1
      <4>1. j \in 1 .. n /\ queue'[j] = queue[j]
        BY <1>4, <3>2
      <4> QED
        BY <4>1 DEF n, DataInv, PacketsInOrder
    <3> QED
      BY <3>1, <3>2
  <2>3. ASSUME NEW u \in Writers, NEW i \in 1 .. Len(sent[u]), NEW j \in 1 .. Len(queue')
        PROVE  Follow(<<u, sent[u][i]>>, queue'[j])
    <3>1. CASE j = n + 1
      <4>1. <<u, sent[u][i]>> \in Packets /\ sent[u][i] <= Taken[u]
        BY PacketTypes DEF Packets, DataInv, PacketsTaken
      <4> QED
        BY <1>4, <1>5, <3>1, <4>1
    <3>2. CASE j # n + 1
      <4>1. j \in 1 .. n /\ queue'[j] = queue[j]
        BY <1>4, <3>2
      <4> QED
        BY <4>1, Zenon DEF n, DataInv, PacketsInOrder
    <3> QED
      BY <3>1, <3>2
  <2> QED
    BY <1>0, <2>1, <2>2, <2>3, Zenon DEF PacketsInOrder, DataInv
<1>7. PacketsTaken'
  <2>1. \A u \in Writers : Taken[u] \in Int /\ Taken'[u] \in Int /\ Taken[u] <= Taken'[u]
    <3> TAKE u \in Writers
    <3>1. Taken[u] \in Int
      BY PacketTypes
    <3>2. CASE u = w
      BY <1>1, <3>2
    <3>3. CASE u # w
      BY <1>2, <3>1, <3>3
    <3> QED
      BY <3>1, <3>2, <3>3
  <2>2. ASSUME NEW u \in Writers, NEW i \in 1 .. Len(sent[u]) PROVE sent[u][i] <= Taken'[u]
    <3>1. sent[u][i] \in 1 .. MaxPackets /\ sent[u][i] <= Taken[u]
      BY PacketTypes DEF DataInv, PacketsTaken
    <3> QED
      BY <2>1, <3>1, UdpAssumption
  <2>3. /\ \A i \in 1 .. Len(inflight) : inflight[i][2] <= Taken'[inflight[i][1]]
        /\ \A i \in 1 .. Len(queue) : queue[i][2] <= Taken'[queue[i][1]]
        /\ \A p \in refused : p[2] <= Taken'[p[1]]
    BY <2>1, TakenGrows DEF DataInv
  <2>4. <<w, k>> \notin refused
    <3> SUFFICES ASSUME <<w, k>> \in refused PROVE FALSE
      OBVIOUS
    <3>1. k <= Taken[w]
      BY DEF DataInv, PacketsTaken
    <3> QED
      BY <1>1, <3>1, UdpAssumption
  <2>5. ASSUME NEW i \in 1 .. Len(queue')
        PROVE  queue'[i][2] <= Taken'[queue'[i][1]] /\ queue'[i] \notin refused
    <3>1. CASE i = n + 1
      BY <1>1, <1>4, <2>4, <3>1, UdpAssumption
    <3>2. CASE i # n + 1
      <4>1. i \in 1 .. n /\ queue'[i] = queue[i]
        BY <1>4, <3>2
      <4> QED
        BY <2>3, <4>1 DEF n, DataInv, PacketsTaken
    <3> QED
      BY <3>1, <3>2
  <2>6. \A u \in Writers : wpc'[u] \in {"count", "try", "push"} => written'[u] > 0
    BY <1>0 DEF DataInv, PacketsTaken
  <2> QED
    BY <1>0, <2>2, <2>3, <2>5, <2>6, Zenon DEF PacketsTaken
<1>8. PacketsKept'
  <2>1. \A i \in 1 .. n : i \in 1 .. Len(queue') /\ queue'[i] = queue[i]
    BY <1>4
  <2>2. n + 1 \in 1 .. Len(queue')
    BY <1>4
  <2>3. ASSUME NEW u \in Writers, NEW m \in 1 .. Taken'[u]
        PROVE  \/ \E i \in 1 .. Len(sent[u]) : sent[u][i] = m
               \/ \E i \in 1 .. Len(inflight) : inflight[i] = <<u, m>>
               \/ \E i \in 1 .. Len(queue') : queue'[i] = <<u, m>>
               \/ <<u, m>> \in refused
    <3>1. CASE u = w /\ m = k
      BY <1>4, <2>2, <3>1
    <3>2. CASE ~(u = w /\ m = k)
      <4>1. m \in 1 .. Taken[u]
        BY <1>1, <1>2, <3>2
      <4>2. \/ \E i \in 1 .. Len(sent[u]) : sent[u][i] = m
            \/ \E i \in 1 .. Len(inflight) : inflight[i] = <<u, m>>
            \/ \E i \in 1 .. n : queue[i] = <<u, m>>
            \/ <<u, m>> \in refused
        BY <4>1, Zenon DEF n, DataInv, PacketsKept
      <4> QED
        BY <2>1, <4>2
    <3> QED
      BY <3>1, <3>2
  <2> QED
    BY <1>0, <2>3, Zenon DEF PacketsKept
<1>9. PendingPacketsExact'
  <2>1. Counted' = Counted \ {w} /\ w \in Counted
    BY <1>0 DEF Counted
  <2>2. Cardinality(Counted') = Cardinality(Counted) - 1
    BY <2>1, CountedFinite, FS_RemoveElement
  <2>3. PICK b \in Nat, c \in Nat, d \in Nat :
             b = Len(inflight) /\ c = Cardinality(refused) /\ d = Cardinality(Counted)
    BY PacketTypes, CountedFinite, FS_CardinalityType DEF DataInv
  <2>4. pending = n + b + c + d
    BY <2>3 DEF PendingPacketsExact, DataInv, n
  <2>5. pending' = (n + 1) + b + c + (d - 1)
    BY <1>0, <1>4, <2>4
  <2> QED
    BY <1>0, <1>4, <2>2, <2>3, <2>5, Zenon DEF PendingPacketsExact
<1>10. DirectAlone'
  <2>1. ASSUME NEW u \in Writers, wpc'[u] = "try", NEW i \in 1 .. Len(queue')
        PROVE  queue'[i][1] # u
    <3>1. u # w /\ wpc[u] = "try"
      BY <1>0, <2>1
    <3>2. CASE i = n + 1
      BY <1>4, <3>1, <3>2
    <3>3. CASE i # n + 1
      <4>1. i \in 1 .. n /\ queue'[i] = queue[i]
        BY <1>4, <3>3
      <4> QED
        BY <3>1, <4>1 DEF n, DataInv, DirectAlone
    <3> QED
      BY <3>2, <3>3
  <2> QED
    BY <1>0, <2>1 DEF DirectAlone, DataInv
<1> QED
  BY <1>0, <1>6, <1>7, <1>8, <1>9, <1>10 DEF DataInv, SentInOrder

\* The first packet of the queue is given to libuv, behind those it has, or refused.
LEMMA PopData ==
    ASSUME TypeOK, DataInv, PopPacket
    PROVE  DataInv'
<1> DEFINE h == queue[1]
           n == Len(queue)
<1>0. /\ queue # <<>> /\ queue' = Tail(queue)
      /\ UNCHANGED <<pending, wpc, written, sent>>
  BY DEF PopPacket, writing
<1>1. /\ n \in Nat /\ n > 0 /\ Len(queue') = n - 1 /\ Head(queue) = h /\ h \in Packets
      /\ \A i \in 1 .. n - 1 : queue'[i] = queue[i + 1]
  BY <1>0, PacketTypes, Popped
<1>2. Taken' = Taken /\ Counted' = Counted
  BY <1>0 DEF Taken, Counted
<1>3. \A i \in 1 .. Len(queue') : i + 1 \in 1 .. n /\ queue'[i] = queue[i + 1]
  BY <1>1
<1>4. 1 \in 1 .. n
  BY <1>1
<1>5. \A i \in 1 .. n : queue[i] = h \/ \E j \in 1 .. Len(queue') : queue'[j] = queue[i]
  <2> TAKE i \in 1 .. n
  <2>1. CASE i = 1
    BY <2>1
  <2>2. CASE i # 1
    <3>1. i - 1 \in 1 .. Len(queue') /\ queue'[i - 1] = queue[i]
      BY <1>1, <2>2
    <3> QED
      BY <3>1
  <2> QED
    BY <2>1, <2>2
<1> HIDE DEF h, n
<1>6. \A i \in 1 .. Len(queue') : Follow(h, queue'[i])
  <2> TAKE i \in 1 .. Len(queue')
  <2>1. i + 1 \in 1 .. n /\ queue'[i] = queue[i + 1] /\ 1 < i + 1
    BY <1>1, <1>3
  <2> QED
    BY <1>4, <2>1 DEF h, n, DataInv, PacketsInOrder
<1>7. \A i, j \in 1 .. Len(queue') : i < j => Follow(queue'[i], queue'[j])
  <2> TAKE i, j \in 1 .. Len(queue')
  <2> HAVE i < j
  <2>1. /\ i + 1 \in 1 .. n /\ queue'[i] = queue[i + 1] /\ i + 1 < j + 1
        /\ j + 1 \in 1 .. n /\ queue'[j] = queue[j + 1]
    BY <1>1, <1>3
  <2> QED
    BY <2>1 DEF n, DataInv, PacketsInOrder
<1>8. \A u \in Writers : \A i \in 1 .. Len(sent[u]) :
         /\ Follow(<<u, sent[u][i]>>, h)
         /\ \A j \in 1 .. Len(queue') : Follow(<<u, sent[u][i]>>, queue'[j])
  BY <1>3, <1>4 DEF h, n, DataInv, PacketsInOrder
<1>9. \A i \in 1 .. Len(inflight) :
         /\ Follow(inflight[i], h)
         /\ \A j \in 1 .. Len(queue') : Follow(inflight[i], queue'[j])
  BY <1>3, <1>4 DEF h, n, DataInv, PacketsInOrder
<1>10. /\ h[2] <= Taken[h[1]] /\ h \notin refused
       /\ \A i \in 1 .. Len(queue') : queue'[i][2] <= Taken[queue'[i][1]] /\ queue'[i] \notin refused
  BY <1>3, <1>4 DEF h, n, DataInv, PacketsTaken
<1>11. \A u \in Writers : wpc[u] = "try" =>
          h[1] # u /\ \A i \in 1 .. Len(queue') : queue'[i][1] # u
  BY <1>3, <1>4 DEF h, n, DataInv, DirectAlone
<1>12. ASSUME NEW u \in Writers, NEW m \in 1 .. Taken[u]
       PROVE  \/ \E i \in 1 .. Len(sent[u]) : sent[u][i] = m
              \/ \E i \in 1 .. Len(inflight) : inflight[i] = <<u, m>>
              \/ \E i \in 1 .. Len(queue') : queue'[i] = <<u, m>>
              \/ h = <<u, m>>
              \/ <<u, m>> \in refused
  <2>1. \/ \E i \in 1 .. Len(sent[u]) : sent[u][i] = m
        \/ \E i \in 1 .. Len(inflight) : inflight[i] = <<u, m>>
        \/ \E i \in 1 .. n : queue[i] = <<u, m>>
        \/ <<u, m>> \in refused
    BY Zenon DEF n, DataInv, PacketsKept
  <2> QED
    BY <1>5, <2>1
<1>13. PICK b \in Nat, c \in Nat, d \in Nat :
            b = Len(inflight) /\ c = Cardinality(refused) /\ d = Cardinality(Counted)
  BY PacketTypes, CountedFinite, FS_CardinalityType DEF DataInv
<1>14. pending = n + b + c + d
  BY <1>13 DEF PendingPacketsExact, DataInv, n
<1>15. SentInOrder'
  BY <1>0 DEF SentInOrder, DataInv
<1>16. CASE inflight' = Append(inflight, Head(queue)) /\ UNCHANGED refused
  <2>1. /\ Len(inflight') = b + 1 /\ inflight'[b + 1] = h
        /\ \A i \in 1 .. b : inflight'[i] = inflight[i]
    BY <1>1, <1>13, <1>16, PacketTypes, Appended
  <2>2. \A i \in 1 .. Len(inflight') :
           \/ i = b + 1 /\ inflight'[i] = h
           \/ i \in 1 .. b /\ inflight'[i] = inflight[i]
    BY <2>1
  <2>3. b + 1 \in 1 .. Len(inflight') /\ \A i \in 1 .. b : i \in 1 .. Len(inflight')
    BY <2>1
  <2>4. PacketsInOrder'
    <3>1. ASSUME NEW i \in 1 .. Len(inflight'), NEW j \in 1 .. Len(inflight'), i < j
          PROVE  Follow(inflight'[i], inflight'[j])
      <4>1. i \in 1 .. b /\ inflight'[i] = inflight[i]
        BY <2>1, <3>1
      <4>2. CASE j = b + 1
        BY <1>9, <1>13, <2>1, <4>1, <4>2
      <4>3. CASE j \in 1 .. b /\ inflight'[j] = inflight[j]
        BY <1>13, <3>1, <4>1, <4>3 DEF DataInv, PacketsInOrder
      <4> QED
        BY <2>2, <4>2, <4>3
    <3>2. ASSUME NEW i \in 1 .. Len(inflight'), NEW j \in 1 .. Len(queue')
          PROVE  Follow(inflight'[i], queue'[j])
      BY <1>6, <1>9, <1>13, <2>2
    <3>3. ASSUME NEW u \in Writers, NEW i \in 1 .. Len(sent[u]), NEW j \in 1 .. Len(inflight')
          PROVE  Follow(<<u, sent[u][i]>>, inflight'[j])
      BY <1>8, <1>13, <2>2 DEF DataInv, PacketsInOrder
    <3> QED
      BY <1>0, <1>7, <1>8, <3>1, <3>2, <3>3 DEF PacketsInOrder
  <2>5. PacketsTaken'
    <3>1. \A i \in 1 .. Len(inflight') : inflight'[i][2] <= Taken[inflight'[i][1]]
      BY <1>10, <1>13, <2>2 DEF DataInv, PacketsTaken
    <3> QED
      BY <1>0, <1>2, <1>10, <1>16, <3>1 DEF PacketsTaken, DataInv
  <2>6. DirectAlone'
    <3>1. \A u \in Writers : wpc[u] = "try" => \A i \in 1 .. Len(inflight') : inflight'[i][1] # u
      BY <1>11, <1>13, <2>2 DEF DataInv, DirectAlone
    <3> QED
      BY <1>0, <1>11, <3>1 DEF DirectAlone
  <2>7. PacketsKept'
    <3>1. ASSUME NEW u \in Writers, NEW m \in 1 .. Taken[u]
          PROVE  \/ \E i \in 1 .. Len(sent[u]) : sent[u][i] = m
                 \/ \E i \in 1 .. Len(inflight') : inflight'[i] = <<u, m>>
                 \/ \E i \in 1 .. Len(queue') : queue'[i] = <<u, m>>
                 \/ <<u, m>> \in refused
      BY <1>12, <1>13, <2>1, <2>3, Zenon
    <3> QED
      BY <1>0, <1>2, <1>16, <3>1, Zenon DEF PacketsKept
  <2>8. PendingPacketsExact'
    <3>1. pending' = (n - 1) + (b + 1) + c + d
      BY <1>0, <1>1, <1>14
    <3> QED
      BY <1>1, <1>2, <1>13, <1>16, <2>1, <3>1 DEF PendingPacketsExact
  <2> QED
    BY <1>15, <1>16, <2>4, <2>5, <2>6, <2>7, <2>8 DEF DataInv
<1>17. CASE refused' = refused \cup {Head(queue)} /\ UNCHANGED inflight
  <2>1. refused' = refused \cup {h}
    BY <1>1, <1>17
  <2>2. IsFiniteSet(refused') /\ Cardinality(refused') = c + 1
    BY <1>10, <1>13, <2>1, FS_AddElement DEF DataInv
  <2>3. PacketsInOrder'
    BY <1>0, <1>7, <1>8, <1>9, <1>17, Zenon DEF PacketsInOrder, DataInv
  <2>4. PacketsTaken'
    <3>1. \A i \in 1 .. Len(queue') : queue'[i] # h
      <4> SUFFICES ASSUME NEW i \in 1 .. Len(queue'), queue'[i] = h PROVE FALSE
        OBVIOUS
      <4>1. h[2] < h[2] /\ h[2] \in Int
        BY <1>1, <1>6, UdpAssumption DEF Follow, Packets
      <4> QED
        BY <4>1
    <3> QED
      BY <1>0, <1>2, <1>10, <1>17, <2>1, <3>1 DEF PacketsTaken, DataInv
  <2>5. DirectAlone'
    BY <1>0, <1>11, <1>17 DEF DirectAlone, DataInv
  <2>6. PacketsKept'
    BY <1>0, <1>2, <1>12, <1>17, <2>1, Zenon DEF PacketsKept
  <2>7. PendingPacketsExact'
    <3>1. pending' = (n - 1) + b + (c + 1) + d
      BY <1>0, <1>1, <1>14
    <3> QED
      BY <1>1, <1>2, <1>13, <1>17, <2>2, <3>1 DEF PendingPacketsExact
  <2> QED
    BY <1>15, <2>2, <2>3, <2>4, <2>5, <2>6, <2>7 DEF DataInv
<1> QED
  BY <1>16, <1>17 DEF PopPacket

\* The first packet that libuv has leaves, behind those of its writer that left.
LEMMA SendData ==
    ASSUME TypeOK, DataInv, SendCb
    PROVE  DataInv'
<1> DEFINE h == inflight[1]
           n == Len(inflight)
           w == h[1]
           k == h[2]
           l == Len(sent[w])
<1>0. /\ inflight # <<>> /\ inflight' = Tail(inflight) /\ pending' = pending - 1
      /\ sent' = [sent EXCEPT ![Head(inflight)[1]] = Append(@, Head(inflight)[2])]
      /\ UNCHANGED <<queue, wpc, written, refused>>
      /\ sent \in [Writers -> Seq(1 .. MaxPackets)]
  BY Zenon DEF SendCb, Transmit, writing, TypeOK
<1>1. /\ n \in Nat /\ n > 0 /\ Len(inflight') = n - 1 /\ Head(inflight) = h /\ h \in Packets
      /\ \A i \in 1 .. n - 1 : inflight'[i] = inflight[i + 1]
  BY <1>0, PacketTypes, Popped
<1>2. Taken' = Taken /\ Counted' = Counted
  BY <1>0 DEF Taken, Counted
<1>3. \A i \in 1 .. Len(inflight') : i + 1 \in 1 .. n /\ inflight'[i] = inflight[i + 1]
  BY <1>1
<1>4. 1 \in 1 .. n /\ w \in Writers /\ k \in 1 .. MaxPackets /\ h = <<w, k>>
  BY <1>1, PacketTypes
<1>5. \A i \in 1 .. n : inflight[i] = h \/ \E j \in 1 .. Len(inflight') : inflight'[j] = inflight[i]
  <2> TAKE i \in 1 .. n
  <2>1. CASE i = 1
    BY <2>1
  <2>2. CASE i # 1
    <3>1. i - 1 \in 1 .. Len(inflight') /\ inflight'[i - 1] = inflight[i]
      BY <1>1, <2>2
    <3> QED
      BY <3>1
  <2> QED
    BY <2>1, <2>2
<1>6. /\ sent'[w] = Append(sent[w], k) /\ sent[w] \in Seq(1 .. MaxPackets)
      /\ \A u \in Writers : u # w => sent'[u] = sent[u]
  BY <1>0, <1>1, <1>4
<1>7. /\ l \in Nat /\ Len(sent'[w]) = l + 1 /\ sent'[w][l + 1] = k
      /\ \A i \in 1 .. l : sent'[w][i] = sent[w][i]
  BY <1>4, <1>6, Appended
<1> HIDE DEF h, n, w, k, l
<1>8. \A i \in 1 .. Len(sent'[w]) :
         \/ i = l + 1 /\ sent'[w][i] = k
         \/ i \in 1 .. l /\ sent'[w][i] = sent[w][i]
  BY <1>7
<1>9. l + 1 \in 1 .. Len(sent'[w]) /\ \A i \in 1 .. l : i \in 1 .. Len(sent'[w])
  BY <1>7
<1>10. \A i \in 1 .. Len(inflight') : Follow(h, inflight'[i])
  <2> TAKE i \in 1 .. Len(inflight')
  <2>1. i + 1 \in 1 .. n /\ inflight'[i] = inflight[i + 1] /\ 1 < i + 1
    BY <1>1, <1>3
  <2> QED
    BY <1>4, <2>1 DEF h, n, DataInv, PacketsInOrder
<1>11. \A i \in 1 .. Len(queue) : Follow(h, queue[i])
  BY <1>4 DEF h, n, DataInv, PacketsInOrder
<1>12. SentInOrder'
  <2>1. ASSUME NEW i \in 1 .. Len(sent'[w]), NEW j \in 1 .. Len(sent'[w]), i < j
        PROVE  sent'[w][i] < sent'[w][j]
    <3>1. i \in 1 .. l /\ sent'[w][i] = sent[w][i]
      BY <1>7, <2>1
    <3>2. CASE j = l + 1
      <4>1. Follow(<<w, sent[w][i]>>, h)
        BY <1>4, <3>1 DEF h, n, l, DataInv, PacketsInOrder
      <4> QED
        BY <1>4, <1>7, <3>1, <3>2, <4>1 DEF Follow
    <3>3. CASE j \in 1 .. l /\ sent'[w][j] = sent[w][j]
      BY <1>4, <2>1, <3>1, <3>3 DEF l, DataInv, SentInOrder
    <3> QED
      BY <1>8, <3>2, <3>3
  <2>2. ASSUME NEW u \in Writers, u # w, NEW i \in 1 .. Len(sent'[u]),
               NEW j \in 1 .. Len(sent'[u]), i < j
        PROVE  sent'[u][i] < sent'[u][j]
    BY <1>6, <2>2 DEF DataInv, SentInOrder
  <2> QED
    BY <2>1, <2>2 DEF SentInOrder
<1>13. PacketsInOrder'
  <2>1. ASSUME NEW i \in 1 .. Len(inflight'), NEW j \in 1 .. Len(inflight'), i < j
        PROVE  Follow(inflight'[i], inflight'[j])
    <3>1. /\ i + 1 \in 1 .. n /\ inflight'[i] = inflight[i + 1] /\ i + 1 < j + 1
          /\ j + 1 \in 1 .. n /\ inflight'[j] = inflight[j + 1]
      BY <1>1, <1>3, <2>1
    <3> QED
      BY <3>1 DEF n, DataInv, PacketsInOrder
  <2>2. ASSUME NEW i \in 1 .. Len(inflight'), NEW j \in 1 .. Len(queue)
        PROVE  Follow(inflight'[i], queue[j])
    BY <1>3 DEF n, DataInv, PacketsInOrder
  <2>3. ASSUME NEW u \in Writers, NEW i \in 1 .. Len(sent'[u])
        PROVE  /\ \A j \in 1 .. Len(inflight') : Follow(<<u, sent'[u][i]>>, inflight'[j])
               /\ \A j \in 1 .. Len(queue) : Follow(<<u, sent'[u][i]>>, queue[j])
    <3>1. CASE u = w /\ i = l + 1 /\ sent'[u][i] = k
      <4>1. <<u, sent'[u][i]>> = h
        BY <1>4, <3>1
      <4> QED
        BY <1>10, <1>11, <4>1
    <3>2. CASE i \in 1 .. Len(sent[u]) /\ sent'[u][i] = sent[u][i]
      BY <1>3, <3>2 DEF n, DataInv, PacketsInOrder
    <3> QED
      BY <1>6, <1>8, <3>1, <3>2, Zenon DEF l
  <2> QED
    BY <1>0, <2>1, <2>2, <2>3 DEF PacketsInOrder, DataInv
<1>14. PacketsTaken'
  <2>1. \A i \in 1 .. Len(inflight') : inflight'[i][2] <= Taken[inflight'[i][1]]
    BY <1>3 DEF n, DataInv, PacketsTaken
  <2>2. k <= Taken[w]
    BY <1>4 DEF h, n, k, w, DataInv, PacketsTaken
  <2>3. ASSUME NEW u \in Writers, NEW i \in 1 .. Len(sent'[u]) PROVE sent'[u][i] <= Taken[u]
    <3>1. CASE u = w
      BY <1>4, <1>8, <2>2, <3>1 DEF l, DataInv, PacketsTaken
    <3>2. CASE u # w
      BY <1>6, <3>2 DEF DataInv, PacketsTaken
    <3> QED
      BY <3>1, <3>2
  <2> QED
    BY <1>0, <1>2, <2>1, <2>3 DEF PacketsTaken, DataInv
<1>15. DirectAlone'
  BY <1>0, <1>3 DEF n, DataInv, DirectAlone
<1>16. PacketsKept'
  <2>1. ASSUME NEW u \in Writers, NEW m \in 1 .. Taken[u]
        PROVE  \/ \E i \in 1 .. Len(sent'[u]) : sent'[u][i] = m
               \/ \E i \in 1 .. Len(inflight') : inflight'[i] = <<u, m>>
               \/ \E i \in 1 .. Len(queue) : queue[i] = <<u, m>>
               \/ <<u, m>> \in refused
    <3>1. \/ \E i \in 1 .. Len(sent[u]) : sent[u][i] = m
          \/ \E i \in 1 .. n : inflight[i] = <<u, m>>
          \/ \E i \in 1 .. Len(queue) : queue[i] = <<u, m>>
          \/ <<u, m>> \in refused
      BY Zenon DEF n, DataInv, PacketsKept
    <3>2. ASSUME NEW i \in 1 .. Len(sent[u]), sent[u][i] = m
          PROVE  \E j \in 1 .. Len(sent'[u]) : sent'[u][j] = m
      <4>1. CASE u = w
        <5>1. i \in 1 .. Len(sent'[w]) /\ sent'[w][i] = m
          BY <1>7, <1>9, <3>2, <4>1 DEF l
        <5> QED
          BY <4>1, <5>1
      <4>2. CASE u # w
        BY <1>6, <3>2, <4>2
      <4> QED
        BY <4>1, <4>2
    <3>3. ASSUME h = <<u, m>> PROVE \E j \in 1 .. Len(sent'[u]) : sent'[u][j] = m
      <4>1. u = w /\ m = k
        BY <1>4, <3>3
      <4> QED
        BY <1>7, <1>9, <4>1
    <3> QED
      BY <1>5, <3>1, <3>2, <3>3
  <2> QED
    BY <1>0, <1>2, <2>1, Zenon DEF PacketsKept
<1>17. PendingPacketsExact'
  <2>1. PICK b \in Nat, c \in Nat, d \in Nat :
             b = Len(queue) /\ c = Cardinality(refused) /\ d = Cardinality(Counted)
    BY PacketTypes, CountedFinite, FS_CardinalityType DEF DataInv
  <2>2. pending = b + n + c + d
    BY <2>1 DEF PendingPacketsExact, DataInv, n
  <2>3. pending' = b + (n - 1) + c + d
    BY <1>0, <1>1, <2>2
  <2> QED
    BY <1>0, <1>1, <1>2, <2>1, <2>3, Zenon DEF PendingPacketsExact
<1> QED
  BY <1>0, <1>12, <1>13, <1>14, <1>15, <1>16, <1>17 DEF DataInv

\* Every step keeps the order and the count of the packets.
LEMMA DataStep ==
    ASSUME TypeOK, DataInv, Next
    PROVE  DataInv'
<1>1. CASE UNCHANGED <<pending, queue, inflight, wpc, written, sent, refused>>
  BY <1>1, Zenon DEF DataInv, PendingPacketsExact, Counted, SentInOrder, PacketsInOrder, PacketsTaken,
              Taken, DirectAlone, PacketsKept
<1>2. ASSUME NEW w \in Writers, Write(w) \/ WriterStep(w) PROVE DataInv'
  BY <1>2, WriteData, CountData, TryData, StayData, PushData, Zenon DEF WriterStep
<1>3. CASE Network \/ Receive \/ Owner \/ Finished
  <2>1. CASE PopPacket
    BY <2>1, PopData
  <2>2. CASE SendCb
    BY <2>2, SendData
  <2>3. CASE ~PopPacket /\ ~SendCb
    <3>1. \/ WriteSemCb \/ PopNothing \/ CloseCb \/ Receive \/ AddUdpPort \/ StartSend
          \/ StartRecv \/ RemovePort \/ DestroyPort \/ DeleteSlot \/ Finished
      BY <1>3, <2>3 DEF Network, Owner
    <3>2. UNCHANGED <<pending, queue, inflight, wpc, written, sent, refused>>
      BY <3>1, Zenon DEF WriteSemCb, PopNothing, CloseCb, Receive, AddUdpPort, StartSend, StartRecv,
                  RemovePort, DestroyPort, DeleteSlot, Finished, net, writing, vars
    <3> QED
      BY <1>1, <3>2
  <2> QED
    BY <2>1, <2>2, <2>3
<1> QED
  BY <1>2, <1>3 DEF Next

-----------------------------------------------------------------------------
(* The life of the port *)

LEMMA ClosingFacts ==
    ASSUME NEW p \in PortStates
    PROVE  /\ StartClosing(p) \in PortStates
           /\ StartClosing(p).wantClose = p.wantClose /\ StartClosing(p).closed = p.closed
           /\ ~p.closed => /\ StartClosing(p).handle # "open" /\ StartClosing(p).sem # "open"
                           /\ p.handle = "none" => StartClosing(p).handle = "none"
                           /\ p.sem = "none" => StartClosing(p).sem = "none"
                           /\ ~(p.handle = "none" /\ p.sem = "none") =>
                                 ~StartClosing(p).recv /\ ~StartClosing(p).joined
                           /\ (p.handle = "none" /\ p.sem = "none") => StartClosing(p) = p
  BY Zenon DEF PortStates, StartClosing, FullyClosed, CloseHandle

\* A handle that was closed, of either kind.
LEMMA CloseCbFacts ==
    ASSUME TypeOK, CloseCb
    PROVE  /\ port' \in PortStates /\ port'.wantClose = port.wantClose
           /\ port'.recv = port.recv /\ port'.joined = port.joined
           /\ \/ port'.handle = port.handle /\ port.sem = "closing" /\ port'.sem = "none"
              \/ port'.sem = port.sem /\ port.handle = "closing" /\ port'.handle = "none"
           /\ \/ port'.closed = port.closed /\ owner' = owner
              \/ port'.handle = "none" /\ port'.sem = "none" /\ owner' = "removed"
<1>1. port \in PortStates
  BY Zenon DEF TypeOK
<1>2. PICK h \in {"handle", "sem"} :
        /\ port[h] = "closing"
        /\ IF [port EXCEPT ![h] = "none"].handle # "none" \/ [port EXCEPT ![h] = "none"].sem # "none"
           THEN port' = [port EXCEPT ![h] = "none"] /\ owner' = owner
           ELSE port' = [[port EXCEPT ![h] = "none"] EXCEPT !.closed = TRUE] /\ owner' = "removed"
  BY Zenon DEF CloseCb
<1>3. CASE h = "handle"
  <2>1. PICK p : p = [port EXCEPT !.handle = "none"]
    BY Zenon
  <2>2. /\ p \in PortStates /\ p.handle = "none" /\ p.sem = port.sem /\ p.recv = port.recv
        /\ p.joined = port.joined /\ p.wantClose = port.wantClose /\ p.closed = port.closed
    BY <1>1, <2>1 DEF PortStates
  <2>3. port.handle = "closing" /\ IF p.handle # "none" \/ p.sem # "none"
                                   THEN port' = p /\ owner' = owner
                                   ELSE port' = [p EXCEPT !.closed = TRUE] /\ owner' = "removed"
    BY <1>2, <1>3, <2>1, Zenon
  <2> QED
    BY <2>2, <2>3, Zenon DEF PortStates
<1>4. CASE h = "sem"
  <2>1. PICK p : p = [port EXCEPT !.sem = "none"]
    BY Zenon
  <2>2. /\ p \in PortStates /\ p.sem = "none" /\ p.handle = port.handle /\ p.recv = port.recv
        /\ p.joined = port.joined /\ p.wantClose = port.wantClose /\ p.closed = port.closed
    BY <1>1, <2>1 DEF PortStates
  <2>3. port.sem = "closing" /\ IF p.handle # "none" \/ p.sem # "none"
                                THEN port' = p /\ owner' = owner
                                ELSE port' = [p EXCEPT !.closed = TRUE] /\ owner' = "removed"
    BY <1>2, <1>4, <2>1, Zenon
  <2> QED
    BY <2>2, <2>3, Zenon DEF PortStates
<1> QED
  BY <1>2, <1>3, <1>4, Zenon

\* Closing begins at once if nothing is pending; a port that was never opened is closed.
LEMMA AsyncCloseFacts ==
    ASSUME NEW p \in PortStates, ~p.closed, AsyncClose(p)
    PROVE  /\ port' \in PortStates
           /\ \/ /\ owner' = "removed" /\ p.handle = "none" /\ p.sem = "none"
                 /\ port' = [p EXCEPT !.wantClose = TRUE]
              \/ /\ owner' = "removing" /\ pending # 0 /\ port' = [p EXCEPT !.wantClose = TRUE]
              \/ /\ owner' = "removing" /\ pending = 0 /\ ~port'.recv /\ ~port'.joined
                 /\ port'.handle # "open" /\ port'.sem # "open"
<1> DEFINE q == [p EXCEPT !.wantClose = TRUE]
<1>1. /\ q \in PortStates /\ q.handle = p.handle /\ q.sem = p.sem /\ ~q.closed
  BY Zenon DEF PortStates
<1>2. /\ port' = IF pending = 0 THEN StartClosing(q) ELSE q
      /\ owner' = IF FullyClosed(q) THEN "removed" ELSE "removing"
  BY DEF AsyncClose
<1>3. FullyClosed(q) <=> p.handle = "none" /\ p.sem = "none"
  BY <1>1 DEF FullyClosed
<1> HIDE DEF q
<1>4. port' \in PortStates
  BY <1>1, <1>2, ClosingFacts
<1>5. CASE FullyClosed(q)
  <2>1. port' = q
    BY <1>1, <1>2, <1>3, <1>5, ClosingFacts
  <2> QED
    BY <1>2, <1>3, <1>4, <1>5, <2>1, Zenon DEF q
<1>6. CASE ~FullyClosed(q) /\ pending # 0
  BY <1>2, <1>4, <1>6 DEF q
<1>7. CASE ~FullyClosed(q) /\ pending = 0
  BY <1>1, <1>2, <1>3, <1>4, <1>7, ClosingFacts
<1> QED
  BY <1>5, <1>6, <1>7

LEMMA TypeStep ==
    ASSUME TypeOK, DataInv, Next
    PROVE  TypeOK'
<1>0. /\ pending \in Nat /\ written \in [Writers -> 0 .. MaxPackets]
      /\ wpc \in [Writers -> {"idle", "count", "try", "uncount", "push", "notify"}]
  BY Zenon DEF TypeOK
<1>1. ASSUME NEW w \in Writers, Write(w) \/ WriterStep(w) PROVE TypeOK'
  <2>0. wpc[w] \in {"try", "uncount", "push"} => pending >= 1
    BY PendingCovers DEF Counted, DataInv
  <2>1. CASE Write(w)
    <3>1. fault' \in {"none", "destroyed", "closed sender", "null buffer", "destructor"}
      BY <2>1, Zenon DEF Write, TypeOK, Abort
    <3>2. wpc' \in [Writers -> {"idle", "count", "try", "uncount", "push", "notify"}]
      BY <1>0, <2>1, Zenon DEF Write, writing
    <3>3. written' \in [Writers -> 0 .. MaxPackets]
      <4>1. written[w] \in 0 .. MaxPackets /\ written[w] < MaxPackets
        BY <1>0, <2>1, Zenon DEF Write
      <4>2. written[w] + 1 \in 0 .. MaxPackets
        BY <4>1, UdpAssumption
      <4> QED
        BY <1>0, <2>1, <4>2, Zenon DEF Write, writing
    <3> QED
      BY <2>1, <3>1, <3>2, <3>3, Zenon DEF Write, TypeOK, net
  <2>2. CASE CountPending(w)
    <3>1. pending' \in Nat
      BY <1>0, <2>2 DEF CountPending
    <3>2. wpc' \in [Writers -> {"idle", "count", "try", "uncount", "push", "notify"}]
      BY <1>0, <2>2 DEF CountPending
    <3> QED
      BY <2>2, <3>1, <3>2, Zenon DEF CountPending, TypeOK, net
  <2>3. CASE TryNonblockingWrite(w)
    <3>1. wpc[w] = "try" => written[w] \in 1 .. MaxPackets
      BY <1>0, UdpAssumption DEF DataInv, PacketsTaken
    <3>2. sent' \in [Writers -> Seq(1 .. MaxPackets)]
      <4>1. CASE Transmit(Packet(w))
        <5>1. sent' = [sent EXCEPT ![w] = Append(sent[w], written[w])]
          BY <4>1, Zenon DEF Transmit, Packet, TypeOK
        <5>2. Append(sent[w], written[w]) \in Seq(1 .. MaxPackets)
          BY <2>3, <3>1, PacketTypes, Appended DEF TryNonblockingWrite
        <5> QED
          BY <5>1, <5>2, Zenon DEF TypeOK
      <4> QED
        BY <2>3, <4>1, Zenon DEF TryNonblockingWrite, TypeOK
    <3> QED
      BY <2>3, <3>2, Zenon DEF TryNonblockingWrite, TypeOK, net
  <2>4. CASE Uncount(w)
    <3>1. pending' \in Nat
      BY <1>0, <2>0, <2>4 DEF Uncount
    <3> QED
      BY <2>4, <3>1, Zenon DEF Uncount, TypeOK, net
  <2>5. CASE PushPacket(w)
    <3>1. Packet(w) \in Packets
      <4>1. written[w] \in 1 .. MaxPackets
        BY <1>0, <2>5, UdpAssumption DEF PushPacket, DataInv, PacketsTaken
      <4> QED
        BY <4>1 DEF Packet, Packets
    <3>2. queue' \in Seq(Packets)
      BY <2>5, <3>1, PacketTypes, Appended DEF PushPacket
    <3> QED
      BY <2>5, <3>2, Zenon DEF PushPacket, TypeOK
  <2>6. CASE Notify(w)
    BY <2>6, Zenon DEF Notify, TypeOK
  <2> QED
    BY <1>1, <2>1, <2>2, <2>3, <2>4, <2>5, <2>6 DEF WriterStep
<1>2. CASE WriteSemCb
  BY <1>2, Zenon DEF WriteSemCb, TypeOK, writing
<1>3. CASE PopPacket
  <2>1. queue' \in Seq(Packets) /\ Head(queue) \in Packets
    BY <1>3, PacketTypes, Popped DEF PopPacket
  <2>2. inflight' \in Seq(Packets) /\ refused' \subseteq Packets
    <3>1. Append(inflight, Head(queue)) \in Seq(Packets) /\ inflight \in Seq(Packets)
      BY <2>1, PacketTypes, Appended
    <3>2. refused \subseteq Packets
      BY Zenon DEF TypeOK
    <3> QED
      BY <1>3, <2>1, <3>1, <3>2, Zenon DEF PopPacket
  <2> QED
    BY <1>3, <2>1, <2>2, Zenon DEF PopPacket, TypeOK, writing
<1>4. CASE PopNothing
  BY <1>4, Zenon DEF PopNothing, TypeOK, writing
<1>5. CASE SendCb
  <2>1. /\ inflight' \in Seq(Packets) /\ Head(inflight) \in Packets
        /\ Len(inflight) \in Nat /\ Len(inflight) > 0
    BY <1>5, PacketTypes, Popped DEF SendCb
  <2>2. pending >= 1
    <3>1. PICK a \in Nat, b \in Nat : a = Len(queue) /\ b = Len(inflight) /\ b > 0
      BY <2>1, PacketTypes, Zenon
    <3>2. pending >= a + b
      BY <3>1, PendingCovers DEF DataInv
    <3> QED
      BY <1>0, <3>1, <3>2
  <2>3. port' \in PortStates
    BY <1>5, ClosingFacts, Zenon DEF SendCb, TypeOK
  <2>4. sent' \in [Writers -> Seq(1 .. MaxPackets)]
    <3>1. PICK u \in Writers, m \in 1 .. MaxPackets : Head(inflight) = <<u, m>>
      BY <2>1 DEF Packets
    <3>2. sent' = [sent EXCEPT ![u] = Append(sent[u], m)]
      <4>1. Head(inflight)[1] = u /\ Head(inflight)[2] = m
        BY <3>1
      <4> QED
        BY <1>5, <4>1, Zenon DEF SendCb, Transmit
    <3>3. Append(sent[u], m) \in Seq(1 .. MaxPackets)
      BY PacketTypes, Appended
    <3> QED
      BY <3>2, <3>3, Zenon DEF TypeOK
  <2>5. pending' \in Nat
    BY <1>0, <1>5, <2>2 DEF SendCb
  <2> QED
    BY <1>5, <2>1, <2>3, <2>4, <2>5, Zenon DEF SendCb, TypeOK, writing
<1>6. CASE CloseCb
  <2>1. port' \in PortStates /\ owner' \in {owner, "removed"}
    BY <1>6, CloseCbFacts
  <2> QED
    BY <1>6, <2>1, Zenon DEF CloseCb, TypeOK, writing
<1>7. CASE Receive
  BY <1>7, Zenon DEF Receive, TypeOK, net, writing, Abort
<1>8. CASE AddUdpPort \/ RemovePort
  <2>1. port' \in PortStates /\ owner' \in {"running", "removing", "removed"}
    <3>1. ASSUME NEW p \in PortStates, AsyncClose(p)
          PROVE  port' \in PortStates /\ owner' \in {"removing", "removed"}
      <4>1. [p EXCEPT !.wantClose = TRUE] \in PortStates
        BY Zenon DEF PortStates
      <4> QED
        BY <3>1, <4>1, ClosingFacts DEF AsyncClose
    <3>2. port \in PortStates /\ [port EXCEPT !.handle = "open"] \in PortStates
      BY Zenon DEF TypeOK, PortStates
    <3> QED
      BY <1>8, <3>1, <3>2 DEF AddUdpPort, RemovePort
  <2> QED
    BY <1>8, <2>1, Zenon DEF AddUdpPort, RemovePort, TypeOK, writing
<1>9. CASE StartSend
  <2>1. port' \in PortStates
    BY <1>9, Zenon DEF StartSend, TypeOK, PortStates
  <2> QED
    BY <1>9, <2>1, Zenon DEF StartSend, TypeOK, writing
<1>10. CASE StartRecv
  <2>1. port' \in PortStates
    BY <1>10, UdpAssumption, Zenon DEF StartRecv, TypeOK, PortStates
  <2> QED
    BY <1>10, <2>1, Zenon DEF StartRecv, TypeOK, writing
<1>11. CASE DestroyPort
  BY <1>11, Zenon DEF DestroyPort, TypeOK, net, writing, Abort
<1>12. CASE DeleteSlot
  BY <1>12, Zenon DEF DeleteSlot, TypeOK, net, writing
<1>13. CASE Finished
  BY <1>13, Zenon DEF Finished, TypeOK, vars
<1> QED
  BY <1>1, <1>2, <1>3, <1>4, <1>5, <1>6, <1>7, <1>8, <1>9, <1>10, <1>11, <1>12, <1>13
     DEF Next, Network, Owner

\* A slot that is deleted before its port keeps the port in use only while it is open.
LEMMA PhaseStep ==
    ASSUME TypeOK, DataInv, ~PortsFirst, PortPhases, NeverAborts, Next
    PROVE  PortPhases' /\ NeverAborts'
<1>0. port \in PortStates /\ wpc \in [Writers -> {"idle", "count", "try", "uncount", "push", "notify"}]
  BY Zenon DEF TypeOK
<1>1. ASSUME NEW w \in Writers, Write(w) \/ WriterStep(w) PROVE PortPhases' /\ NeverAborts'
  <2>1. slot /\ UNCHANGED <<port, inCb, owner, slot>>
    BY <1>1, Zenon DEF Write, WriterStep, CountPending, TryNonblockingWrite, Uncount, PushPacket, Notify,
                net, PortPhases
  <2>2. owner = "running" /\ port.handle = "open" /\ ~port.wantClose
    BY <2>1 DEF PortPhases
  <2>3. fault' = fault
    BY <1>1, <2>2 DEF Write, WriterStep, CountPending, TryNonblockingWrite, Uncount, PushPacket,
                      Notify
  <2> QED
    BY <2>1, <2>2, <2>3, Zenon DEF PortPhases, NeverAborts
<1>2. CASE WriteSemCb
  BY <1>2, Zenon DEF WriteSemCb, PortPhases, NeverAborts, writing
<1>3. CASE PopPacket
  BY <1>3, Zenon DEF PopPacket, PortPhases, NeverAborts, writing
<1>4. CASE PopNothing
  BY <1>4, Zenon DEF PopNothing, PortPhases, NeverAborts, writing
<1>5. CASE SendCb
  <2>1. inflight # <<>> /\ pending # 0
    BY <1>5, PendingCovers DEF SendCb, DataInv
  <2>2. port.handle = "open" /\ pending \in Nat /\ pending' = pending - 1
    BY <1>5, <2>1, Zenon DEF PortPhases, SendCb, TypeOK
  <2>3. UNCHANGED <<inCb, wpc, owner, slot, fault>> /\ ~inCb
    BY <1>5 DEF SendCb, writing
  <2>4. CASE port' = port
    BY <2>2, <2>3, <2>4, Zenon DEF PortPhases, NeverAborts
  <2>5. CASE pending = 1 /\ port.wantClose /\ port' = StartClosing(port)
    <3>1. owner = "removing"
      BY <2>2, <2>5, Zenon DEF PortPhases, TypeOK
    <3>2. CASE port.closed
      <4>1. port' = port
        BY <2>5, <3>2 DEF StartClosing, FullyClosed
      <4> QED
        BY <2>4, <4>1
    <3>3. CASE ~port.closed
      <4>1. port'.handle # "open" /\ port'.sem # "open" /\ ~port'.recv /\ ~port'.joined
        BY <1>0, <2>2, <2>5, <3>3, ClosingFacts
      <4>2. pending' = 0
        BY <2>2, <2>5
      <4> QED
        BY <2>3, <3>1, <4>1, <4>2, Zenon DEF PortPhases, NeverAborts
    <3> QED
      BY <3>2, <3>3
  <2> QED
    BY <1>5, <2>4, <2>5 DEF SendCb
<1>6. CASE CloseCb
  <2>1. UNCHANGED <<pending, inCb, wpc, slot, fault>> /\ ~inCb
    BY <1>6, Zenon DEF CloseCb, writing
  <2>2. port.handle # "open" /\ owner = "removing"
    BY <1>6, CloseCbFacts, Zenon DEF PortPhases, TypeOK
  <2> QED
    BY <1>6, <2>1, <2>2, CloseCbFacts, Zenon DEF PortPhases, NeverAborts
<1>7. CASE Receive
  BY <1>7, Zenon DEF Receive, PortPhases, NeverAborts, net, writing, Abort
<1>8. CASE AddUdpPort
  <2>1. /\ owner = "adding" /\ ~inCb /\ port.handle = "none" /\ port.sem = "none" /\ ~port.recv
        /\ ~port.joined /\ ~port.closed /\ ~port.wantClose /\ pending = 0 /\ ~slot
        /\ UNCHANGED <<pending, inCb, wpc, slot, fault>>
    BY <1>8 DEF AddUdpPort, PortPhases, writing
  <2>2. PICK p : p = [port EXCEPT !.handle = "open"]
    BY Zenon
  <2>3. /\ p \in PortStates /\ p.handle = "open" /\ p.sem = "none" /\ ~p.closed
        /\ ~p.recv /\ ~p.joined /\ ~p.wantClose
    BY <1>0, <2>1, <2>2 DEF PortStates
  <2>4. CASE port' = p /\ owner' = "running"
    BY <2>1, <2>3, <2>4, Zenon DEF PortPhases, NeverAborts
  <2>5. CASE AsyncClose(port)
    <3>1. \/ /\ owner' = "removed" /\ port' = [port EXCEPT !.wantClose = TRUE]
          \/ /\ owner' = "removing" /\ ~port'.recv /\ ~port'.joined
             /\ port'.handle # "open" /\ port'.sem # "open"
      BY <1>0, <2>1, <2>5, AsyncCloseFacts
    <3>2. CASE owner' = "removed" /\ port' = [port EXCEPT !.wantClose = TRUE]
      <4>1. port'.handle = "none" /\ port'.sem = "none" /\ ~port'.recv /\ ~port'.joined
        BY <1>0, <2>1, <3>2 DEF PortStates
      <4> QED
        BY <2>1, <3>2, <4>1, Zenon DEF PortPhases, NeverAborts
    <3>3. CASE /\ owner' = "removing" /\ ~port'.recv /\ ~port'.joined
               /\ port'.handle # "open" /\ port'.sem # "open"
      BY <2>1, <3>3, Zenon DEF PortPhases, NeverAborts
    <3> QED
      BY <3>1, <3>2, <3>3
  <2>6. CASE AsyncClose(p)
    <3>1. /\ owner' = "removing" /\ ~port'.recv /\ ~port'.joined
          /\ port'.handle # "open" /\ port'.sem # "open"
      BY <2>1, <2>3, <2>6, AsyncCloseFacts
    <3> QED
      BY <2>1, <3>1, Zenon DEF PortPhases, NeverAborts
  <2> QED
    BY <1>8, <2>2, <2>4, <2>5, <2>6 DEF AddUdpPort
<1>9. CASE StartSend
  <2>1. /\ owner = "running" /\ ~inCb /\ port.handle = "open" /\ slot' = TRUE
        /\ UNCHANGED <<pending, inCb, wpc, owner, fault>> /\ port' = [port EXCEPT !.sem = "open"]
    BY <1>9 DEF StartSend, PortPhases, writing
  <2>2. /\ port'.handle = port.handle /\ port'.sem = "open" /\ port'.wantClose = port.wantClose
        /\ port'.closed = port.closed
    BY <1>0, <2>1 DEF PortStates
  <2> QED
    BY <2>1, <2>2, Zenon DEF PortPhases, NeverAborts
<1>10. CASE StartRecv
  <2>1. /\ owner = "running" /\ ~inCb /\ port.handle = "open"
        /\ UNCHANGED <<pending, inCb, wpc, owner, slot, fault>>
    BY <1>10 DEF StartRecv, writing
  <2>2. /\ port'.handle = port.handle /\ port'.sem = port.sem /\ port'.wantClose = port.wantClose
        /\ port'.closed = port.closed
    BY <1>0, <1>10, Zenon DEF StartRecv, PortStates
  <2> QED
    BY <2>1, <2>2, Zenon DEF PortPhases, NeverAborts
<1>11. CASE RemovePort
  <2>1. /\ owner = "running" /\ ~inCb /\ port.handle = "open" /\ ~port.closed /\ ~slot
        /\ UNCHANGED <<pending, inCb, wpc, slot, fault>>
    BY <1>11 DEF RemovePort, PortPhases, writing
  <2>2. \/ /\ owner' = "removing" /\ pending # 0 /\ port' = [port EXCEPT !.wantClose = TRUE]
        \/ /\ owner' = "removing" /\ pending = 0 /\ ~port'.recv /\ ~port'.joined
           /\ port'.handle # "open" /\ port'.sem # "open"
    BY <1>0, <1>11, <2>1, AsyncCloseFacts DEF RemovePort
  <2>3. CASE /\ owner' = "removing" /\ pending # 0 /\ port' = [port EXCEPT !.wantClose = TRUE]
    <3>1. port'.handle = port.handle /\ port'.sem = port.sem
      BY <1>0, <2>3 DEF PortStates
    <3> QED
      BY <2>1, <2>3, <3>1, Zenon DEF PortPhases, NeverAborts
  <2>4. CASE /\ owner' = "removing" /\ pending = 0 /\ ~port'.recv /\ ~port'.joined
             /\ port'.handle # "open" /\ port'.sem # "open"
    BY <2>1, <2>4, Zenon DEF PortPhases, NeverAborts
  <2> QED
    BY <2>2, <2>3, <2>4
<1>12. CASE DestroyPort
  <2>1. port.handle = "none" /\ pending = 0
    BY <1>12 DEF DestroyPort, PortPhases
  <2>2. owner = "removed" /\ owner' = "gone" /\ UNCHANGED <<port, pending, inCb, wpc, slot, fault>>
    BY <1>12, <2>1 DEF DestroyPort, net, writing
  <2> QED
    BY <2>2, Zenon DEF PortPhases, NeverAborts
<1>13. CASE DeleteSlot
  BY <1>13, Zenon DEF DeleteSlot, PortPhases, NeverAborts, net, writing
<1>14. CASE Finished
  BY <1>14, Zenon DEF Finished, PortPhases, NeverAborts, vars
<1> QED
  BY <1>1, <1>2, <1>3, <1>4, <1>5, <1>6, <1>7, <1>8, <1>9, <1>10, <1>11, <1>12, <1>13, <1>14
     DEF Next, Network, Owner

-----------------------------------------------------------------------------
(* The theorems *)

LEMMA UdpInvAtFirst == Init => UdpInv
<1> SUFFICES ASSUME Init PROVE UdpInv
  OBVIOUS
<1>1. TypeOK
  <2>1. port \in PortStates
    BY DEF Init, PortStates
  <2>2. <<>> \in Seq(Packets) /\ <<>> \in Seq(1 .. MaxPackets) /\ 0 \in 0 .. MaxPackets
    BY UdpAssumption
  <2> QED
    BY <2>1, <2>2, Zenon DEF Init, TypeOK
<1>2. Len(queue) = 0 /\ Len(inflight) = 0 /\ \A w \in Writers : Len(sent[w]) = 0
  BY DEF Init
<1>3. Counted = {} /\ \A w \in Writers : Taken[w] = 0
  BY DEF Init, Counted, Taken
<1>4. IsFiniteSet(refused) /\ PendingPacketsExact
  BY <1>2, <1>3, FS_EmptySet DEF Init, PendingPacketsExact
<1>5. SentInOrder /\ PacketsInOrder
  BY <1>2 DEF SentInOrder, PacketsInOrder
<1>6. PacketsTaken /\ DirectAlone
  BY <1>2 DEF PacketsTaken, DirectAlone, Init
<1>7. PacketsKept
  BY <1>3 DEF PacketsKept
<1>8. PortPhases /\ NeverAborts
  BY DEF Init, PortPhases, NeverAborts
<1> QED
  BY <1>1, <1>4, <1>5, <1>6, <1>7, <1>8 DEF UdpInv

LEMMA UdpInvStep == UdpInv /\ [Next]_vars => UdpInv'
<1> SUFFICES ASSUME UdpInv, [Next]_vars PROVE UdpInv'
  OBVIOUS
<1>1. CASE Next
  <2>1. TypeOK /\ DataInv /\ (~PortsFirst => PortPhases /\ NeverAborts)
    BY DEF UdpInv, DataInv
  <2>2. TypeOK' /\ DataInv'
    BY <1>1, <2>1, TypeStep, DataStep
  <2>3. ~PortsFirst => PortPhases' /\ NeverAborts'
    BY <1>1, <2>1, PhaseStep
  <2> QED
    BY <2>2, <2>3 DEF UdpInv, DataInv
<1>2. CASE UNCHANGED vars
  <2>1. UNCHANGED <<Taken, Counted>>
    BY <1>2 DEF vars, Taken, Counted
  <2>2. TypeOK' /\ IsFiniteSet(refused)' /\ PendingPacketsExact'
    BY <1>2, <2>1, Zenon DEF vars, UdpInv, TypeOK, PendingPacketsExact
  <2>3. SentInOrder' /\ PacketsInOrder' /\ DirectAlone'
    BY <1>2 DEF vars, UdpInv, SentInOrder, PacketsInOrder, DirectAlone
  <2>4. PacketsTaken' /\ PacketsKept'
    BY <1>2, <2>1, Zenon DEF vars, UdpInv, PacketsTaken, PacketsKept
  <2>5. (~PortsFirst => PortPhases /\ NeverAborts)'
    BY <1>2, Zenon DEF vars, UdpInv, PortPhases, NeverAborts
  <2> QED
    BY <2>2, <2>3, <2>4, <2>5 DEF UdpInv
<1> QED
  BY <1>1, <1>2

\* What the invariant gives when a port is closed or removed.
LEMMA UdpInvGives == UdpInv => UdpSendsAllInOrder
<1> SUFFICES ASSUME UdpInv PROVE UdpSendsAllInOrder
  OBVIOUS
<1>1. TypeOK /\ DataInv
  BY DEF UdpInv, DataInv
<1>2. SUFFICES ASSUME ~PortsFirst, PortPhases PROVE NotClosedUnderPackets /\ NothingLostByClosing
  BY DEF UdpInv, UdpSendsAllInOrder
<1>3. pending = 0 => queue = <<>> /\ inflight = <<>> /\ refused = {} /\ Counted = {}
  BY <1>1, PendingCovers DEF DataInv
<1>4. NotClosedUnderPackets
  BY <1>2, <1>3 DEF NotClosedUnderPackets, PortPhases
<1>5. NothingLostByClosing
  <2> SUFFICES ASSUME owner \in {"removed", "gone"}
               PROVE  /\ ~port.recv /\ ~port.joined /\ ~inCb
                      /\ \A w \in Writers :
                            /\ wpc[w] = "idle"
                            /\ {sent[w][i] : i \in 1 .. Len(sent[w])} = 1 .. written[w]
    BY DEF NothingLostByClosing
  <2>1. /\ ~port.recv /\ ~port.joined /\ ~inCb /\ pending = 0 /\ ~slot
        /\ \A w \in Writers : wpc[w] = "idle"
    BY <1>2 DEF PortPhases
  <2>2. Len(queue) = 0 /\ Len(inflight) = 0 /\ refused = {}
    BY <1>3, <2>1
  <2>3. ASSUME NEW w \in Writers
        PROVE  {sent[w][i] : i \in 1 .. Len(sent[w])} = 1 .. written[w]
    <3>1. Taken[w] = written[w] /\ written[w] \in Nat
      <4>1. written[w] \in 0 .. MaxPackets
        BY <1>1, PacketTypes
      <4>2. Taken[w] = written[w]
        BY <2>1 DEF Taken
      <4> QED
        BY <4>1, <4>2, UdpAssumption
    <3>2. \A k \in 1 .. written[w] : \E i \in 1 .. Len(sent[w]) : sent[w][i] = k
      BY <1>1, <2>2, <3>1 DEF DataInv, PacketsKept
    <3>3. \A i \in 1 .. Len(sent[w]) : sent[w][i] \in 1 .. MaxPackets /\ sent[w][i] <= written[w]
      BY <1>1, <3>1, PacketTypes DEF DataInv, PacketsTaken
    <3>4. \A i \in 1 .. Len(sent[w]) : sent[w][i] \in 1 .. written[w]
      BY <3>1, <3>3, UdpAssumption
    <3> QED
      BY <3>2, <3>4
  <2> QED
    BY <2>1, <2>3
<1> QED
  BY <1>4, <1>5

\* For any number of writers and packets: the packets of a writer leave in the order of its
\* calls to write(), pending_packets_ is exact, and, if the slot is deleted before the port,
\* the port is not closed under a packet and removed only when all that was written has left.
THEOREM UdpOrderAndClosing == Spec => []UdpSendsAllInOrder
  BY UdpInvAtFirst, UdpInvStep, UdpInvGives, PTL DEF Spec

\* If the slot is deleted before the port, no thread writes to a port that is being closed or
\* was destroyed, and the destructor finds neither handle nor pending packet.
THEOREM UdpNeverAborts == ASSUME ~PortsFirst PROVE Spec => []NeverAborts
<1>1. UdpInv => NeverAborts
  BY DEF UdpInv
<1> QED
  BY <1>1, UdpInvAtFirst, UdpInvStep, PTL DEF Spec
=============================================================================
