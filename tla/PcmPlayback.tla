---------------------------- MODULE PcmPlayback -----------------------------
(***************************************************************************)
(* audio::Depacketizer (roc_audio/depacketizer.cpp) with the PCM decoder   *)
(* behind the readers of PacketStream: it puts the samples of the packets  *)
(* at their stream positions and fills what is missing with silence.       *)
(***************************************************************************)
EXTENDS PacketStream

\* "newest" is history: the packet begun last.
Init ==
    /\ StreamInit
    /\ chain = NewReaders @@ [packet |-> None, panic |-> FALSE, newest |-> -1]

\* The end of update_packet_(): the packet just read becomes the current one.
\* The first packet sets the stream position; what is already past of a
\* packet is skipped.
BeginPacket(c) ==
    LET p == c.got
        ts == IF c.first THEN p.ts ELSE c.ts
        past == IF TsLt(p.ts, ts) THEN TsDiff(ts, p.ts) ELSE 0
        valid == c.validCts \/ p.cts # 0
    IN  [c EXCEPT
           !.packet = [sn |-> p.sn, ts |-> (p.ts + past) % TsMod,
                       pos |-> p.pos + past, left |-> p.dur - past],
           !.first = FALSE, !.newest = p.pos,
           !.ts = ts,
           !.at = IF c.first THEN p.pos ELSE @,
           !.nextCts = IF valid THEN p.cts + past ELSE p.cts,
           !.validCts = valid,
           !.panic = @ \/ past > p.dur]

RECURSIVE UpdatePacket(_)
UseOrDrop(c) ==
    IF c.got = None THEN c
    ELSE IF c.first \/ TsLt(c.ts, (c.got.ts + c.got.dur) % TsMod) THEN BeginPacket(c)
    ELSE UpdatePacket([c EXCEPT !.frame.drops = @ + 1])

\* update_packet_(): reads packets, dropping those that end before the
\* stream position.
UpdatePacket(c) == IF c.packet # None THEN c ELSE UseOrDrop(InjectorRead(c))

\* Puts n samples into the frame: silence, or samples from pos on.
Put(c, n, pos) ==
    [c EXCEPT
       !.frame.out = @ \o [k \in 1..n |->
                             [at |-> IF c.first THEN Silence ELSE c.at + k - 1,
                              is |-> IF pos = Silence THEN Silence
                                     ELSE pos + k - 1]],
       !.ts = (@ + n) % TsMod,
       !.at = IF c.first THEN @ ELSE @ + n]

\* read_missing_samples_()
ReadMissingSamples(c, n) == Put(c, n, Silence)

\* read_packet_samples_() and the bookkeeping of its caller: the packet is
\* kept until a read asks for more than it has.
ReadPacketSamples(c, room) ==
    LET n == Min({c.packet.left, room})
        stamped == IF n > 0 THEN StampFrame(c) ELSE c
        put == Put(stamped, n, c.packet.pos)
    IN  [put EXCEPT
           !.nextCts = IF c.validCts THEN @ + n ELSE @,
           !.packet = IF n < room THEN None
                      ELSE [@ EXCEPT !.left = @ - n, !.pos = @ + n,
                                     !.ts = (@ + n) % TsMod]]

\* Mutant: the samples missing before the packet are not made up for.
FillNoGap(c, room) ==
    IF c.packet = None THEN ReadMissingSamples(c, room) ELSE ReadPacketSamples(c, room)

\* The rest of read_samples_(): silence up to the packet, then samples of it;
\* or silence for the rest of the frame when there is no packet.
Fill(c, room) ==
    LET gap == TsDiff(c.packet.ts, c.ts)
        n == Min({gap, room})
        filled == StampFrame(ReadMissingSamples(c, n))
    IN  CASE c.packet = None ->
               [ReadMissingSamples(StampFrame(c), room)
                  EXCEPT !.nextCts = IF c.validCts THEN @ + room ELSE @]
          [] c.packet # None /\ gap < 0 ->
               [ReadMissingSamples(c, room) EXCEPT !.panic = TRUE]
          [] c.packet # None /\ gap = 0 -> ReadPacketSamples(c, room)
          [] OTHER -> IF n < room THEN ReadPacketSamples(filled, room - n) ELSE filled

\* read_samples_()
ReadSamples(c, room) == Fill(UpdatePacket(c), room)

RECURSIVE FillFrame(_, _)
\* The loop of read_frame_().
FillFrame(c, n) ==
    IF Len(c.frame.out) = n THEN c
    ELSE FillFrame(ReadSamples(c, n - Len(c.frame.out)), n)

\* What the session has at hand when the sink asks for a frame: packets that
\* were delivered and not rejected, from the one begun last on.  The
\* depacketizer never looks behind the packet it holds, so a packet that
\* arrives while the gap before the held one is played comes too late.
AtHand ==
    UNION {Samples(sent[i]) : i \in {k \in DOMAIN sent :
              copies[k] > 0 /\ sent[k].pos >= chain.newest
                            /\ sent[k].pos \notin chain.rejected}}

\* Depacketizer::read()
ReadFrame(n) ==
    /\ WithinLead(n)
    /\ chain' = [FillFrame([chain EXCEPT !.frame = NewFrame], n)
                   EXCEPT !.got = None]
    /\ ready' = IF NoneTooFar THEN AtHand ELSE {}
    /\ UNCHANGED <<start, sent, copies, meter>>

Next ==
    \/ StreamNext
    \/ \E n \in FrameSizes : ReadFrame(n)

Spec == Init /\ [][Next]_vars

-----------------------------------------------------------------------------
(* Properties *)

TypeOK ==
    /\ StreamTypeOK
    /\ chain.packet = None \/ chain.packet.left \in 0..Max(Durations)

\* Neither "can't shift packet" nor the check that the next packet does not
\* begin before the stream position (depacketizer.cpp:114 and 277) fails:
\* with numbers that wrap, it is the filter and the dropping of late packets
\* that keep every packet that is begun within reach of the position.
ChainNeverPanics == ~chain.panic

\* Whatever the network loses, repeats or reorders, a sample is played at its
\* own stream position or not at all: a gap is filled with exactly as much
\* silence as was lost, a late packet is cut where playback is, and no sample
\* is played twice (Depacketizer::read_samples_, update_packet_).
PlayedInPlace ==
    \A k \in DOMAIN chain.frame.out :
        LET o == chain.frame.out[k] IN o.is # Silence => o.is = o.at

\* A sample that had been delivered when the frame was
\* asked for, and whose turn came in that frame, is heard: nothing on the way
\* through filter, delayed reader and depacketizer loses a packet that came
\* in time, once the initial queue of the delayed reader is used up.  In time
\* means: before the depacketizer took a later packet.
InTimeIsHeard ==
    \A k \in DOMAIN chain.frame.out :
        LET o == chain.frame.out[k] IN o.at \in ready => o.is = o.at

\* Frame::capture_timestamp() is the capture time of the frame's first sample,
\* also when the frame begins with silence, within a packet, or with packets
\* read before the first sender report; unless the frame ends within the gap
\* before a packet that the depacketizer already holds (see FrameCaptureTime).
CaptureTimeOfFirst ==
    LET f == chain.frame
    IN  (f.cts > 0 /\ (chain.packet = None \/ chain.packet.ts = chain.ts))
            => f.cts = CaptureStart + f.out[1].at

\* frame.h:95, "Get unix-epoch timestamp in ns of the 1st sample": every frame
\* that has a capture time has that of its first sample.
FrameCaptureTime ==
    chain.frame.cts > 0
        => chain.frame.cts = CaptureStart + chain.frame.out[1].at
=============================================================================
