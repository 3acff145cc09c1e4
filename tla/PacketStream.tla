---------------------------- MODULE PacketStream ----------------------------
(***************************************************************************)
(* The packets of one session between the sender's sequencer and the       *)
(* receiver's depacketizer, without FEC, as                                *)
(* roc_pipeline/receiver_session.cpp wires the receiver: a packet routed   *)
(* to the session passes the link meter and is stored in the sorted queue; *)
(* the depacketizer pulls packets from there through rtp::Filter,          *)
(* packet::DelayedReader and rtp::TimestampInjector.  The modules          *)
(* PcmPlayback and OpusPlayback add the two depacketizers.                 *)
(*                                                                         *)
(* The network loses, duplicates and reorders packets.  A sample is        *)
(* identified by its absolute position in the sender's stream; sequence    *)
(* numbers and stream timestamps wrap.  One sample lasts one unit of time, *)
(* so the sample at position x was captured at CaptureStart + x.           *)
(*                                                                         *)
(* The readers are operators from the state of the chain to its next       *)
(* state; the packet that a reader returns is the field "got".             *)
(***************************************************************************)
EXTENDS SortedQueue, TLC

CONSTANTS
    SnMod, TsMod,         \* numbers of sequence numbers and of timestamps
    FirstSns, FirstTss,    \* where the sequencer of the sender may start
    Durations,             \* samples in a packet
    FrameSizes,            \* samples in a frame that the sink asks for
    Delay,                 \* DelayedReader::delay_, the target latency
    MaxSnJump, MaxTsJump,  \* FilterConfig
    CaptureStart,          \* capture time of the sample at position 0
    MaxPackets,            \* bound: packets sent
    ReportAfter,           \* bound: numbers of packets after which the sender
                           \* reports
    Repeated,              \* bound: packets that the network delivers twice
    Window,                \* bound: packets that may overtake a packet
    MaxLead                \* bound: samples that playback runs ahead of
                           \* the sender

VARIABLES
    start,    \* first sequence number and timestamp of the sender
    sent,     \* packets sent, in order
    copies,   \* how many times each of them was delivered
    meter,    \* LinkMeter
    chain,    \* the readers of the session and the frame being read
    ready     \* history: samples at hand when the last read began

vars == <<start, sent, copies, meter, chain, ready>>

None == [sn |-> -1]
Silence == -1

\* Frame and FrameInfo: the samples put into the frame so far, each with the
\* stream position it is played at; the capture time; the late packets.
NewFrame == [out |-> <<>>, cts |-> 0, drops |-> 0]

\* The readers before the first packet, and what both depacketizers start
\* with: the position in the stream is not known yet.  "rejected" is history:
\* the packets that the filter did not let through.
NewReaders ==
    [queue |-> <<>>, got |-> None, prev |-> None, rejected |-> {},
     delayed |-> <<>>, started |-> FALSE,
     mapping |-> FALSE, captTs |-> 0, rtpTs |-> 0,
     first |-> TRUE, ts |-> 0, at |-> 0,
     nextCts |-> 0, validCts |-> FALSE, frame |-> NewFrame]

StreamInit ==
    /\ start \in [sn : FirstSns, ts : FirstTss]
    /\ sent = <<>>
    /\ copies = <<>>
    /\ meter = [first |-> TRUE, firstSn |-> 0, hi |-> 0, lo |-> 0]
    /\ ready = {}

TsDiff(a, b) == SerialDiff(a, b, TsMod)
TsLt(a, b) == SerialLt(a, b, TsMod)
SnDiff(a, b) == SerialDiff(a, b, SnMod)
Compare(p, q) == RtpCompare(p, q, SnMod)
Abs(n) == IF n < 0 THEN -n ELSE n

-----------------------------------------------------------------------------
(* rtp::Filter *)

\* validate_sequence_(): a packet too far from the newest one is rejected.
\* Source id, payload type and capture time are the same for all packets
\* that reach this session (the capture time is filled in later).
ValidateSequence(prev, next) ==
    /\ Abs(SnDiff(next.sn, prev.sn)) <= MaxSnJump
    /\ Abs(TsDiff(next.ts, prev.ts)) <= MaxTsJump

\* read(): takes the oldest packet of the queue.  A rejected packet is
\* reported as "no data".
FilterRead(c) ==
    IF c.queue = <<>> THEN [c EXCEPT !.got = None]
    ELSE LET p == Head(c.queue)
             taken == [c EXCEPT !.queue = Tail(@)]
         IN  IF c.prev # None /\ ~ValidateSequence(c.prev, p)
             THEN [taken EXCEPT !.got = None, !.rejected = @ \cup {p.pos}]
             ELSE [taken EXCEPT
                     !.got = p,
                     !.prev = IF @ = None \/ Compare(@, p) < 0
                              THEN p ELSE @]

-----------------------------------------------------------------------------
(* packet::DelayedReader *)

\* queue_size_(): samples from the oldest queued packet to the newest.
QueueSize(q) ==
    IF q = <<>> THEN 0
    ELSE LET d == TsDiff(Last(q).ts + Last(q).dur, Head(q).ts)
         IN  IF d < 0 THEN 0 ELSE d

RECURSIVE FetchPackets(_)
StoreFetched(c) ==
    IF c.got = None THEN c
    ELSE FetchPackets([c EXCEPT !.delayed = RtpWrite(@, c.got, SnMod)])

\* fetch_packets_(): moves what the filter lets through to the own queue.
FetchPackets(c) == StoreFetched(FilterRead(c))

RECURSIVE ReadQueuedPacket(_)
\* read_queued_packet_(): drops packets while the rest still holds Delay.
ReadQueuedPacket(c) ==
    IF c.delayed = <<>> THEN [c EXCEPT !.got = None]
    ELSE LET r == [c EXCEPT !.got = Head(c.delayed), !.delayed = Tail(@)]
         IN  IF QueueSize(r.delayed) < Delay THEN r ELSE ReadQueuedPacket(r)

\* read() after the start: the own queue, then the filter.
ReadStarted(c) == IF c.delayed # <<>> THEN ReadQueuedPacket(c) ELSE FilterRead(c)

\* read(): nothing until the packets at hand span Delay.
StartWhenFull(c) ==
    IF QueueSize(c.delayed) < Delay THEN [c EXCEPT !.got = None]
    ELSE ReadStarted([c EXCEPT !.started = TRUE])
DelayedRead(c) == IF c.started THEN ReadStarted(c) ELSE StartWhenFull(FetchPackets(c))

-----------------------------------------------------------------------------
(* rtp::TimestampInjector *)

\* read(): fills in the capture time once a report gave the mapping.
InjectTimestamp(c) ==
    IF c.got = None \/ ~c.mapping THEN c
    ELSE [c EXCEPT !.got.cts = c.captTs + TsDiff(c.got.ts, c.rtpTs)]
InjectorRead(c) == InjectTimestamp(DelayedRead(c))

-----------------------------------------------------------------------------
(* Sender and network *)

\* The next packet of the stream: Sequencer::next() numbers it, and its
\* timestamp goes on where the packet before it ended.
Send(d) ==
    /\ Len(sent) < MaxPackets
    /\ LET n == Len(sent)
           pos == IF n = 0 THEN 0 ELSE Last(sent).pos + Last(sent).dur
       IN  sent' = Append(sent, [sn |-> (start.sn + n) % SnMod,
                                 ts |-> (start.ts + pos) % TsMod,
                                 dur |-> d, pos |-> pos, cts |-> 0])
    /\ copies' = Append(copies, 0)
    /\ UNCHANGED <<start, meter, chain, ready>>

\* Mutant: the number of the last packet follows every packet.
UpdateMetricsAlways(m, sn) ==
    [first |-> FALSE, firstSn |-> IF m.first THEN sn ELSE m.firstSn,
     hi |-> m.hi, lo |-> sn]

\* LinkMeter::update_metrics_(): first and last sequence number received.
\* A wrap adds SnMod - 1, the value of (uint16_t)-1.
UpdateMetrics(m, sn) ==
    LET newer == m.first \/ SnDiff(sn, m.lo) > 0
    IN  [first |-> FALSE,
         firstSn |-> IF (m.first \/ SnDiff(sn, m.firstSn) < 0) /\ m.hi = 0
                     THEN sn ELSE m.firstSn,
         hi |-> IF newer /\ sn < m.lo THEN m.hi + SnMod - 1 ELSE m.hi,
         lo |-> IF newer THEN sn ELSE m.lo]

\* The network delivers a packet, late or once more; the session passes it
\* through the link meter to the queue.
Deliver(i) ==
    /\ i > Len(sent) - Window
    /\ copies[i] < (IF i \in Repeated THEN 2 ELSE 1)
    /\ copies' = [copies EXCEPT ![i] = @ + 1]
    /\ meter' = UpdateMetrics(meter, sent[i].sn)
    /\ chain' = [chain EXCEPT !.queue = RtpWrite(@, sent[i], SnMod)]
    /\ UNCHANGED <<start, sent, ready>>

-----------------------------------------------------------------------------
(* Session *)

\* TimestampInjector::update_mapping(), from ReceiverSession::process_report():
\* a sender report tells the capture time of the newest packet sent.
UpdateMapping ==
    /\ Len(sent) \in ReportAfter
    /\ chain' = [chain EXCEPT !.mapping = TRUE,
                              !.captTs = CaptureStart + Last(sent).pos,
                              !.rtpTs = Last(sent).ts]
    /\ UNCHANGED <<start, sent, copies, meter, ready>>

-----------------------------------------------------------------------------
(* What is common to the depacketizers *)

\* The capture time of the frame, told by the capture time of the sample that
\* follows the samples filled so far.
StampFrame(c) ==
    IF c.frame.cts = 0 /\ c.validCts
    THEN [c EXCEPT !.frame.cts = c.nextCts - Len(c.frame.out)]
    ELSE c

Samples(p) == p.pos..(p.pos + p.dur - 1)

\* History: no packet of the queue is one that the filter rejects, and the
\* initial queue of the delayed reader is used up.
NoneTooFar ==
    /\ chain.started
    /\ chain.delayed = <<>>
    /\ \A k \in DOMAIN chain.queue : ValidateSequence(chain.prev, chain.queue[k])

\* Playback does not run away from the sender: a session that is out of
\* packets for long is ended by the watchdog.
WithinLead(n) ==
    chain.at + n <= MaxLead + (IF sent = <<>> THEN 0
                               ELSE Last(sent).pos + Last(sent).dur)

StreamNext ==
    \/ \E d \in Durations : Send(d)
    \/ \E i \in DOMAIN sent : Deliver(i)
    \/ UpdateMapping

-----------------------------------------------------------------------------
(* Properties *)

Packet == [sn : 0..SnMod - 1, ts : 0..TsMod - 1, dur : Durations, pos : Nat,
           cts : Int]

StreamTypeOK ==
    /\ sent \in Seq(Packet) /\ Len(sent) <= MaxPackets
    /\ copies \in [DOMAIN sent -> 0..2]
    /\ meter \in [first : BOOLEAN, firstSn : 0..SnMod - 1,
                  hi : Nat, lo : 0..SnMod - 1]
    /\ chain.queue \in Seq(Packet) /\ chain.delayed \in Seq(Packet)
    /\ chain.prev \in Packet \cup {None}
    /\ chain.ts \in 0..TsMod - 1

\* What the reports to the sender say: the link meter's last
\* sequence number is that of the newest packet delivered, however the
\* network reordered the packets (LinkMeter::update_metrics_).
MeterFollowsNewest ==
    \A i \in DOMAIN sent :
        (copies[i] > 0 /\ \A j \in DOMAIN sent : j > i => copies[j] = 0)
            => meter.lo = sent[i].sn

\* ilink_meter.h:32, "The low 16 bits contain the highest sequence number
\* received": of the extended last sequence number, the part below SnMod is
\* the number of the newest packet.
ExtLastSeqnum == ~meter.first => (meter.hi + meter.lo) % SnMod = meter.lo
=============================================================================
