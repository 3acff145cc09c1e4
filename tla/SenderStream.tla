---------------------------- MODULE SenderStream ----------------------------
(***************************************************************************)
(* The sender's session from audio frames to packets, without FEC, as      *)
(* roc_pipeline/sender_session.cpp wires it: the packetizer (PCM or Opus)  *)
(* cuts frames into packets, rtp::Sequencer numbers them with the source   *)
(* id of rtp::Identity, rtp::TimestampExtractor remembers the mapping for  *)
(* sender reports, and packet::Router passes them to the endpoint.         *)
(*                                                                         *)
(* Allocating a packet may fail at any time, frames may lack a capture     *)
(* time, and the source id changes when a collision is found.  A sample is *)
(* identified by its position in the input; sample x is captured at        *)
(* CaptureStart + x.                                                       *)
(***************************************************************************)
EXTENDS Serial, SequencesExt

CONSTANTS
    Codecs,        \* subset of {"pcm", "opus"}
    SnMod, TsMod,  \* numbers of sequence numbers and of timestamps
    FirstSn, FirstTs,
    PacketLen,     \* samples_per_packet_
    FrameLens,     \* samples in a frame
    CaptureStart,  \* capture time of the sample at position 0
    MaxSamples,    \* bound: samples written
    MaxIds         \* bound: source ids used

VARIABLES
    codec,    \* which packetizer the session has
    ssrc,     \* Identity::ssrc_
    pk,       \* the packetizer: the samples of the packet being filled
    seq,      \* Sequencer
    mapping,  \* TimestampExtractor
    route,    \* the router's route for audio packets
    at,       \* samples written so far
    made,     \* history: packets that the packetizer finished
    wire,     \* history: packets written to the endpoint
    dropped   \* history: samples dropped when an allocation failed

senderVars == <<codec, ssrc, pk, seq, mapping, route, at, made, wire, dropped>>

NoMapping == [has |-> FALSE, capt |-> 0, rtp |-> 0]

Init ==
    /\ codec \in Codecs
    /\ ssrc = 1
    /\ pk = [open |-> FALSE, buf |-> <<>>, cts |-> 0, frameCts |-> 0]
    /\ seq = [sn |-> FirstSn, ts |-> FirstTs]
    /\ mapping = NoMapping
    /\ route = [started |-> FALSE, source |-> 0]
    /\ at = 0
    /\ made = <<>> /\ wire = <<>> /\ dropped = {}

\* The session as a record, for the operators below.
Session ==
    [ssrc |-> ssrc, pk |-> pk, seq |-> seq, mapping |-> mapping, route |-> route,
     made |-> made, wire |-> wire, left |-> <<>>, allocs |-> 0]

-----------------------------------------------------------------------------
(* What a finished packet passes *)

\* Sequencer::next()
NextPacket(s, dur) ==
    [src |-> s.ssrc, sn |-> s.seq.sn, ts |-> s.seq.ts, dur |-> dur,
     cts |-> s.pk.cts, is |-> s.pk.buf]

\* TimestampExtractor::write()
Extract(m, p) ==
    IF p.cts # 0 THEN [has |-> TRUE, capt |-> p.cts, rtp |-> p.ts] ELSE m

\* Router::allow_route_(): a route keeps to the source id of its first packet.
AllowRoute(r, p) == ~r.started \/ r.source = p.src

\* Packetizer::end_packet_(), or the end of OpusPacketizer::emit_packet_(),
\* with all the writers behind it.
FinishPacket(s, dur) ==
    LET p == NextPacket(s, dur)
        allowed == AllowRoute(s.route, p)
    IN  [s EXCEPT
           !.pk = [open |-> FALSE, buf |-> <<>>, cts |-> 0, frameCts |-> s.pk.frameCts],
           !.seq = [sn |-> (@.sn + 1) % SnMod, ts |-> (@.ts + dur) % TsMod],
           !.mapping = Extract(@, p),
           !.route = IF @.started THEN @ ELSE [started |-> TRUE, source |-> p.src],
           !.made = Append(@, p),
           !.wire = IF allowed THEN Append(@, p) ELSE @]

\* Mutant: the capture time of the frame does not move with the samples taken.
TakeUnmoved(s) ==
    LET n == Min({Len(s.left), PacketLen - Len(s.pk.buf)})
    IN  [s EXCEPT
           !.pk.buf = @ \o SubSeq(s.left, 1, n),
           !.left = SubSeq(@, n + 1, Len(@))]

\* Takes samples from the frame into the packet being filled.
Take(s) ==
    LET n == Min({Len(s.left), PacketLen - Len(s.pk.buf)})
    IN  [s EXCEPT
           !.pk.buf = @ \o SubSeq(s.left, 1, n),
           !.pk.frameCts = IF @ # 0 THEN @ + n ELSE 0,
           !.left = SubSeq(@, n + 1, Len(@))]

-----------------------------------------------------------------------------
(* audio::Packetizer *)

\* begin_packet_()
BeginPacket(s) ==
    [s EXCEPT !.pk.open = TRUE, !.pk.cts = s.pk.frameCts, !.allocs = @ - 1]

RECURSIVE WritePcm(_)
\* The loop of write(); a packet is allocated when its first sample comes, and
\* if that fails the rest of the frame is dropped.
WritePcm(s) ==
    IF s.left = <<>> THEN s
    ELSE IF ~s.pk.open /\ s.allocs = 0 THEN s
    ELSE LET b == IF s.pk.open THEN s ELSE BeginPacket(s)
             t == Take(b)
         IN  WritePcm(IF Len(t.pk.buf) = PacketLen THEN FinishPacket(t, PacketLen)
                      ELSE t)

-----------------------------------------------------------------------------
(* audio::OpusPacketizer *)

\* emit_packet_(): a full packet is allocated when it is encoded; if that
\* fails it stays in the buffer.
Emit(s) ==
    IF s.allocs = 0 THEN s
    ELSE FinishPacket([s EXCEPT !.allocs = @ - 1], PacketLen)

RECURSIVE WriteOpus(_)
\* The loop of write(); if a packet cannot be emitted the rest of the frame is
\* dropped.
WriteOpus(s) ==
    IF s.left = <<>> THEN s
    ELSE LET t == Take(IF s.pk.buf = <<>> THEN [s EXCEPT !.pk.cts = s.pk.frameCts]
                       ELSE s)
         IN  IF Len(t.pk.buf) < PacketLen THEN WriteOpus(t)
             ELSE IF t.allocs = 0 THEN Emit(t)
             ELSE WriteOpus(Emit(t))

-----------------------------------------------------------------------------

Become(s) ==
    /\ pk' = s.pk /\ seq' = s.seq /\ mapping' = s.mapping /\ route' = s.route
    /\ made' = s.made /\ wire' = s.wire

\* write(): a frame of n samples, stamped with its capture time or not;
\* allocs packets can be allocated before an allocation fails.
Write(n, stamped, allocs) ==
    LET frame == [k \in 1..n |-> at + k - 1]
        begun == [Session EXCEPT
                    !.pk.frameCts = IF stamped THEN CaptureStart + at ELSE 0,
                    !.left = frame, !.allocs = allocs]
        done == IF codec = "pcm" THEN WritePcm(begun) ELSE WriteOpus(begun)
    IN  /\ at + n <= MaxSamples
        /\ at' = at + n
        /\ Become([done EXCEPT !.pk.frameCts = 0])
        /\ dropped' = dropped \cup Range(done.left)
        /\ UNCHANGED <<codec, ssrc>>

\* flush(): the packet being filled is finished early; that of Opus is filled
\* up with zeros.
Flush(ok) ==
    /\ IF codec = "pcm" THEN pk.open ELSE pk.buf # <<>>
    /\ Become(IF codec = "pcm" THEN FinishPacket(Session, Len(pk.buf))
              ELSE Emit([Session EXCEPT !.allocs = IF ok THEN 1 ELSE 0]))
    /\ UNCHANGED <<codec, ssrc, at, dropped>>

\* SenderSession::change_source_id(), when the RTCP reporter finds that another
\* participant has the same source id.
ChangeSourceId ==
    /\ ssrc < MaxIds
    /\ ssrc' = ssrc + 1
    /\ UNCHANGED <<codec, pk, seq, mapping, route, at, made, wire, dropped>>

Next ==
    \/ \E n \in FrameLens, stamped \in BOOLEAN, allocs \in 0..2 :
          Write(n, stamped, allocs)
    \/ \E ok \in BOOLEAN : Flush(ok)
    \/ ChangeSourceId

Spec == Init /\ [][Next]_senderVars

-----------------------------------------------------------------------------
(* Properties *)

SenderPacket ==
    [src : 1..MaxIds, sn : 0..SnMod - 1, ts : 0..TsMod - 1, dur : 1..PacketLen,
     cts : Nat, is : Seq(0..MaxSamples)]

TypeOK ==
    /\ codec \in Codecs /\ ssrc \in 1..MaxIds /\ at \in 0..MaxSamples
    /\ made \in Seq(SenderPacket) /\ wire \in Seq(SenderPacket)
    /\ Len(pk.buf) <= PacketLen
    /\ dropped \subseteq 0..MaxSamples

\* All samples in packets, in order, and those still in the packetizer.
Packed == FlattenSeq([i \in DOMAIN made |-> made[i].is]) \o pk.buf

\* No sample is packed twice or out of order, none is lost but the rest of a
\* frame for which a packet could not be allocated, and a packet has no hole:
\* its samples are consecutive, although it may be filled by several frames
\* between which others were dropped (write, emit_packet_).
SenderKeepsSamples ==
    /\ Packed = SelectSeq([k \in 1..at |-> k - 1], LAMBDA x : x \notin dropped)
    /\ \A i \in DOMAIN made : \A k \in DOMAIN made[i].is :
          made[i].is[k] = made[i].is[1] + k - 1

\* A packet's capture time is that of its first sample, whichever frame that
\* sample came with, also when the packet could not be emitted at first.
SenderCaptureTime ==
    \A i \in DOMAIN made :
        made[i].cts # 0 => made[i].cts = CaptureStart + made[i].is[1]

\* What a sender report says: the stream timestamp that the report gives for
\* the capture time of the newest packet with a capture time is the timestamp
\* of that packet (TimestampExtractor::write, get_mapping).
SenderReportsNewest ==
    LET stamped == {i \in DOMAIN made : made[i].cts # 0}
    IN  stamped # {} =>
            LET p == made[Max(stamped)]
            IN  (mapping.rtp + p.cts - mapping.capt) % TsMod = p.ts

\* As long as the source id stays the same, every packet that is made goes out.
SenderSendsAll == ssrc = 1 => wire = made

\* sequencer.cpp:39, "Identity can change SSRC in case of collision, so we read
\* SSRC from it each time": packets go on after a collision.
SenderSurvivesCollision == wire = made

\* rtp.h:41, "if sender is 44100Hz audio card, then stream timestamp is
\* incremented by one each generated sample": the timestamps of two packets are
\* as far apart as their samples.
SenderTimestampsTellSamples ==
    \A i \in DOMAIN made :
        SerialDiff(made[i].ts, made[1].ts, TsMod) = made[i].is[1] - made[1].is[1]
=============================================================================
