---------------------------- MODULE OpusPlayback ----------------------------
(***************************************************************************)
(* audio::OpusDepacketizer (roc_audio/target_opus) behind the readers of   *)
(* PacketStream.  It plays chunks: a decoded packet, a concealed packet    *)
(* (by the decoder, or restored from the in-band FEC of the packet after   *)
(* it), or silence that stands for a packet.                               *)
(*                                                                         *)
(* The Opus codec is external: it decodes every packet but those in        *)
(* Undecodable, and its in-band FEC restores the packet right before.      *)
(***************************************************************************)
EXTENDS PacketStream

CONSTANTS
    Supported,    \* durations that the codec supports (supported_frame_size)
    Undecodable   \* positions of packets that the codec cannot decode

NoChunk == [by |-> "none", is |-> <<>>]

Init ==
    /\ StreamInit
    /\ chain = NewReaders @@ [next |-> None, lastDur |-> 0, chunk |-> NoChunk]

RECURSIVE FetchPacket(_)
KeepOrDrop(c) ==
    IF c.got = None THEN c
    ELSE IF c.first \/ TsLt(c.ts, (c.got.ts + c.got.dur) % TsMod) THEN [c EXCEPT !.next = c.got]
    ELSE FetchPacket([c EXCEPT !.frame.drops = @ + 1])

\* fetch_packet_(): reads packets, dropping those that end before the stream
\* position.
FetchPacket(c) == IF c.next # None THEN c ELSE KeepOrDrop(InjectorRead(c))

\* decode_synthetic_chunk_(): silence that stands for a packet; no chunk if
\* there is nothing to tell its length.
DecodeSyntheticChunk(c, n) ==
    IF n = 0 THEN c
    ELSE [c EXCEPT !.lastDur = n,
                   !.chunk = [by |-> "none", is |-> [k \in 1..n |-> Silence]]]

\* Mutant: the lost packet is taken to be as long as the gap.
ConcealWholeGap(c) ==
    LET gap == IF c.next = None THEN 0 ELSE TsDiff(c.next.ts, c.ts)
    IN  DecodeSyntheticChunk(c, gap + 1)

\* decode_missing_chunk_(): conceals a packet as long as the last one, but
\* not longer than the gap; with the FEC of the next packet if that has the
\* same length.
DecodeMissingChunk(c) ==
    LET p == c.next
        gap == IF p = None THEN 0 ELSE TsDiff(p.ts, c.ts)
        n == IF gap # 0
             THEN Min({gap, IF c.lastDur # 0 THEN c.lastDur ELSE p.dur})
             ELSE c.lastDur
        fec == p # None /\ n = p.dur
        concealed == [c EXCEPT
            !.chunk = IF fec
                      THEN [by |-> "fec", is |-> [k \in 1..n |-> p.pos - n + k - 1]]
                      ELSE [by |-> "none", is |-> [k \in 1..n |-> Silence]],
            !.lastDur = n]
    IN  IF n \notin Supported \/ (fec /\ p.pos \in Undecodable)
        THEN DecodeSyntheticChunk(c, n)
        ELSE IF p = None \/ p.cts = 0 THEN concealed
        ELSE [concealed EXCEPT
                !.nextCts = Max({p.cts - n, 0}),
                !.validCts = @ \/ p.cts - n > 0]

\* decode_packet_chunk_(): decodes the packet and skips what is past of it.
DecodePacketChunk(c) ==
    LET p == c.next
        skip == IF TsLt(p.ts, c.ts) THEN TsDiff(c.ts, p.ts) ELSE 0
        done == [c EXCEPT !.next = None]
    IN  IF p.pos \in Undecodable THEN DecodeMissingChunk(done)
        ELSE IF skip >= p.dur THEN done
        ELSE [done EXCEPT
                !.chunk = [by |-> "packet",
                           is |-> [k \in 1..(p.dur - skip) |-> p.pos + skip + k - 1]],
                !.lastDur = p.dur,
                !.nextCts = IF p.cts # 0 THEN p.cts + skip ELSE @,
                !.validCts = @ \/ p.cts # 0]

\* The rest of ensure_chunk_(): the first packet sets the stream position.
StartAt(c) ==
    IF c.first THEN [c EXCEPT !.ts = c.next.ts, !.at = c.next.pos, !.first = FALSE] ELSE c
DecodeFrom(c) == IF TsLt(c.ts, c.next.ts) THEN DecodeMissingChunk(c) ELSE DecodePacketChunk(c)
DecodeChunk(c) ==
    IF c.next # None THEN DecodeFrom(StartAt(c))
    ELSE IF c.first \/ c.lastDur \notin Supported THEN c
    ELSE DecodeSyntheticChunk(c, c.lastDur)

\* ensure_chunk_(): the chunk to play next; it stays empty before the first
\* packet and where nothing can be decoded.
EnsureChunk(c) ==
    IF c.chunk.is # <<>> THEN c ELSE DecodeChunk(FetchPacket([c EXCEPT !.chunk = NoChunk]))

\* The end of read_samples_(): n samples go into the frame, from the chunk or
\* silence.
Advance(c, is, by) ==
    LET s == StampFrame(c)
        n == Len(is)
    IN  [s EXCEPT
           !.frame.out = @ \o [k \in 1..n |->
                                 [at |-> IF c.first THEN Silence ELSE c.at + k - 1,
                                  is |-> is[k], by |-> by]],
           !.nextCts = IF c.validCts THEN @ + n ELSE @,
           !.ts = (@ + n) % TsMod,
           !.at = IF c.first THEN @ ELSE @ + n]

\* read_samples_()
Play(c, room) ==
    LET n == Min({room, Len(c.chunk.is)})
    IN  IF c.chunk.is = <<>>
        THEN Advance(c, [k \in 1..room |-> Silence], "none")
        ELSE [Advance(c, SubSeq(c.chunk.is, 1, n), c.chunk.by)
                EXCEPT !.chunk = IF n = Len(@.is) THEN NoChunk
                                 ELSE [@ EXCEPT !.is = SubSeq(@, n + 1, Len(@))]]
ReadSamples(c, room) == Play(EnsureChunk(c), room)

RECURSIVE FillFrame(_, _)
\* The loop of read_frame_().
FillFrame(c, n) ==
    IF Len(c.frame.out) = n THEN c
    ELSE FillFrame(ReadSamples(c, n - Len(c.frame.out)), n)

\* What the session has at hand when the sink asks for a frame: the rest of
\* the current chunk if it is a packet, and what comes after it of the next
\* packet and of the packets of the queue that follow.
AtHand ==
    LET later == {k \in DOMAIN chain.queue :
                    chain.next = None \/ chain.queue[k].pos > chain.next.pos}
        packets == {chain.queue[k] : k \in later}
                     \cup (IF chain.next = None THEN {} ELSE {chain.next})
        good == {p \in packets : p.pos \notin Undecodable}
    IN  {x \in UNION {Samples(p) : p \in good} :
            x >= chain.at + Len(chain.chunk.is)}
          \cup (IF chain.chunk.by = "packet"
                THEN {chain.chunk.is[k] : k \in DOMAIN chain.chunk.is} ELSE {})

\* OpusDepacketizer::read()
ReadFrame(n) ==
    /\ WithinLead(n)
    /\ chain' = [FillFrame([chain EXCEPT !.frame = NewFrame], n)
                   EXCEPT !.got = None]
    /\ ready' = IF NoneTooFar THEN AtHand ELSE {}
    /\ UNCHANGED <<start, sent, copies, meter>>

Next ==
    \/ StreamNext
    \/ \E n \in FrameSizes : ReadFrame(n)

Spec == Init /\ [][Next]_vars

-----------------------------------------------------------------------------
(* Properties *)

TypeOK ==
    /\ StreamTypeOK
    /\ chain.lastDur \in Nat
    /\ chain.chunk.by \in {"none", "packet", "fec"}

\* A sample decoded from a packet is played at its own stream position,
\* whatever was concealed before it and however late the packet is.
OpusPlayedInPlace ==
    \A k \in DOMAIN chain.frame.out :
        LET o == chain.frame.out[k] IN o.by = "packet" => o.is = o.at

\* A sample that was at hand when the frame was asked for, and whose turn came
\* in that frame, is heard; but a packet does not replace the rest of a chunk
\* that already stands in for it (ensure_chunk_).
OpusInTimeIsHeard ==
    \A k \in DOMAIN chain.frame.out :
        LET o == chain.frame.out[k] IN o.at \in ready => o.by = "packet"

\* A frame made of samples of packets only has the capture time of its first
\* sample.
OpusCaptureTime ==
    LET f == chain.frame
    IN  (f.cts > 0 /\ \A k \in DOMAIN f.out : f.out[k].by = "packet")
            => f.cts = CaptureStart + f.out[1].at

\* frame.h:95, "Get unix-epoch timestamp in ns of the 1st sample": every frame
\* that has a capture time has that of its first sample.
OpusFrameCaptureTime ==
    chain.frame.cts > 0
        => chain.frame.cts = CaptureStart + chain.frame.out[1].at

\* The samples that the in-band FEC restores are played at their own place.
OpusRestoredInPlace ==
    \A k \in DOMAIN chain.frame.out :
        LET o == chain.frame.out[k] IN o.by = "fec" => o.is = o.at
=============================================================================
