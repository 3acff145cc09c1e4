---------------------------- MODULE SortedQueue -----------------------------
(***************************************************************************)
(* packet::SortedQueue (roc_packet/sorted_queue.cpp): the incoming queue   *)
(* of a receiver session, ordered by sequence number.  A queue is a        *)
(* sequence of packets, oldest first: its first element is head(), its     *)
(* last element is tail().  Packets are records with a field sn, repair    *)
(* packets with fields sbn and esi.                                        *)
(***************************************************************************)
EXTENDS Serial, SequencesExt

\* RTP::compare: -1, 0 or 1, by serial arithmetic on the sequence numbers.
RtpCompare(p, q, m) ==
    IF SerialLt(p.sn, q.sn, m) THEN -1 ELSE IF p.sn = q.sn THEN 0 ELSE 1

\* FEC::compare, for repair packets without RTP: by block number, then by
\* number within the block.
FecCompare(p, q, m) ==
    IF SerialLt(p.sbn, q.sbn, m) THEN -1
    ELSE IF p.sbn # q.sbn THEN 1
    ELSE IF p.esi < q.esi THEN -1 ELSE IF p.esi = q.esi THEN 0 ELSE 1

\* write(): walk from the newest packet to the oldest until one is not newer
\* than p.  If that one compares equal then p is a duplicate and is dropped,
\* else p goes right after it.  The session's queues have no size limit.
\* cmp has p.compare() for each packet of the queue.
QueueWrite(q, p, cmp) ==
    LET k == Max({0} \cup {i \in DOMAIN q : cmp[i] >= 0})
    IN  IF k > 0 /\ cmp[k] = 0 THEN q ELSE InsertAt(q, k + 1, p)

\* Packet::compare() of packets that have RTP, and of those that only have FEC.
RtpWrite(q, p, m) == QueueWrite(q, p, [i \in DOMAIN q |-> RtpCompare(p, q[i], m)])
FecWrite(q, p, m) == QueueWrite(q, p, [i \in DOMAIN q |-> FecCompare(p, q[i], m)])
=============================================================================
