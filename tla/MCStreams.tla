------------------------------ MODULE MCStreams -----------------------------
(***************************************************************************)
(* The components that audio passes through on its way from the sender's   *)
(* frames to the receiver's, and the pipeline slots that hold them, side   *)
(* by side for TLC: every behaviour is one of the part that the initial    *)
(* state selects, and the variables of the other parts do not change.      *)
(***************************************************************************)
EXTENDS Naturals, TLC

VARIABLES
    part,
    start, sent, copies, meter, chain, ready,
    writer, fecSent, fecCopies, reader, out, last, startBlk,
    dog, recent, total, heard,
    codec, ssrc, pk, seq, mapping, route, at, made, wire, dropped,
    sendSeq, slots, nextPut, nextSend, written, passed,
    side, scheme, slotList, pipeSlots, fanout, active, pending, writing, pulling, leaked, aborted

\* Packets of two samples, delivered in any order within a window of three.
Pcm == INSTANCE PcmPlayback WITH
    SnMod <- 8, TsMod <- 32, FirstSns <- {6}, FirstTss <- {29}, Durations <- {2},
    FrameSizes <- {2, 3}, Delay <- 3, MaxSnJump <- 3, MaxTsJump <- 5, CaptureStart <- 10,
    MaxPackets <- 4, ReportAfter <- {1, 3}, Repeated <- {1, 3}, Window <- 3, MaxLead <- 3

\* Packets of one or two samples; the codec restores two samples at a time and
\* cannot decode the third packet.
Opus == INSTANCE OpusPlayback WITH
    SnMod <- 8, TsMod <- 32, FirstSns <- {6}, FirstTss <- {29}, Durations <- {1, 2},
    FrameSizes <- {1, 3}, Delay <- 3, MaxSnJump <- 3, MaxTsJump <- 7, CaptureStart <- 10,
    MaxPackets <- 3, ReportAfter <- {1, 3}, Repeated <- {2}, Window <- 3, MaxLead <- 3,
    Supported <- {2}, Undecodable <- {2}

TwoSizes == {[s |-> 2, r |-> 1, p |-> 1], [s |-> 1, r |-> 1, p |-> 1]}
Fec == INSTANCE FecStream WITH
    SnMod <- 8, SbnMod <- 8, FirstSn <- 6, FirstSbn <- 6, Sizes <- TwoSizes,
    MaxSbnJump <- 1, MaxBlocks <- 3, Repeated <- {2}, Window <- 3,
    sent <- fecSent, copies <- fecCopies

AllFlags ==
    {{"NotBlank"}, {"NotBlank", "NotComplete"}, {"NotBlank", "PacketDrops"},
     {"NotComplete"}, {"NotBlank", "NotComplete", "PacketDrops"}}
Dog == INSTANCE Watchdog WITH
    PosMod <- 16, MaxBlank <- 5, MaxDrops <- 7, DropsWindow <- 3, Warmup <- 3,
    FrameLens <- {2}, FrameFlags <- AllFlags

Sender == INSTANCE SenderStream WITH
    Codecs <- {"pcm", "opus"}, SnMod <- 4, TsMod <- 32, FirstSn <- 2, FirstTs <- 29,
    PacketLen <- 3, FrameLens <- {2, 5}, CaptureStart <- 10, MaxSamples <- 9, MaxIds <- 2

Inter == INSTANCE Interleaver WITH BlockSize <- 4, MaxWritten <- 9

\* Two slots of a sender, or one of a receiver.
Slots == INSTANCE PipelineSlots WITH
    Sides <- {"sender", "receiver"}, SlotsOf <- [sender |-> {"a", "b"}, receiver |-> {"a"}],
    PipelineSchemes <- {"none", "rs8m"},
    SlotProtos <- {"rtp", "rs8m_source", "rs8m_repair", "ldpc_repair", "rtcp"},
    MaxPending <- 1, MaxSessions <- 2, MonitorMayFail <- FALSE, slots <- pipeSlots

streamVars == <<start, sent, copies, meter, chain, ready>>
fecVars == <<writer, fecSent, fecCopies, reader, out, last, startBlk>>
dogVars == <<dog, recent, total, heard>>
senderVars == <<codec, ssrc, pk, seq, mapping, route, at, made, wire, dropped>>
interVars == <<sendSeq, slots, nextPut, nextSend, written, passed>>
slotVars == <<side, scheme, slotList, pipeSlots, fanout, active, pending, writing, pulling, leaked,
              aborted>>

\* What the parts not selected start with does not matter.
StreamsInit ==
    /\ part \in {"pcm", "opus", "fec", "dog", "sender", "inter", "slots"}
    /\ IF part = "opus" THEN Opus!Init ELSE Pcm!Init
    /\ Fec!Init /\ (part # "fec" => writer.cur.s = 1)
    /\ Dog!Init
    /\ Sender!Init /\ (part # "sender" => codec = "pcm")
    /\ Inter!Init /\ (part # "inter" => \A i \in DOMAIN sendSeq : sendSeq[i] = i)
    /\ Slots!Init /\ (part # "slots" => side = "receiver")

StreamsNext ==
    /\ UNCHANGED part
    /\ \/ /\ part = "pcm" /\ Pcm!Next
          /\ UNCHANGED <<fecVars, dogVars, senderVars, interVars, slotVars>>
       \/ /\ part = "opus" /\ Opus!Next
          /\ UNCHANGED <<fecVars, dogVars, senderVars, interVars, slotVars>>
       \/ /\ part = "fec" /\ Fec!Next
          /\ UNCHANGED <<streamVars, dogVars, senderVars, interVars, slotVars>>
       \/ /\ part = "dog" /\ Dog!Next
          /\ UNCHANGED <<streamVars, fecVars, senderVars, interVars, slotVars>>
       \/ /\ part = "sender" /\ Sender!Next
          /\ UNCHANGED <<streamVars, fecVars, dogVars, interVars, slotVars>>
       \/ /\ part = "inter" /\ Inter!Next
          /\ UNCHANGED <<streamVars, fecVars, dogVars, senderVars, slotVars>>
       \/ /\ part = "slots" /\ Slots!Next
          /\ UNCHANGED <<streamVars, fecVars, dogVars, senderVars, interVars>>

StreamsSpec ==
    /\ StreamsInit
    /\ [][StreamsNext]_<<part, streamVars, fecVars, dogVars, senderVars, interVars, slotVars>>

-----------------------------------------------------------------------------

\* Every part: the variables have their types.  depacketizer.cpp and pcm_decoder.cpp: no
\* roc_panic() is reached, whatever the network lost, repeated or reordered.  LinkMeter
\* counts sequence numbers from the first to the newest, across wraps.  Slots: sessions and
\* packets are counted exactly, source and repair endpoints agree, no panic is reached, and a
\* pipeline is idle only when there is nothing to do.
StreamsConsistent ==
    /\ part = "pcm" => Pcm!TypeOK /\ Pcm!ChainNeverPanics /\ Pcm!MeterFollowsNewest
    /\ part = "opus" => Opus!TypeOK
    /\ part = "fec" => Fec!TypeOK
    /\ part = "dog" => Dog!TypeOK
    /\ part = "sender" => Sender!TypeOK
    /\ part = "inter" => Inter!TypeOK
    /\ part = "slots" => /\ Slots!SlotsTypeOK /\ Slots!SlotsCounted /\ Slots!SlotsNeverPanic
                         /\ Slots!SlotsPairsConsistent /\ Slots!SlotsIdleMeansNothingToDo

\* PcmPlayback: a PCM sample is played at its place in the stream, or silence is; a sample
\* that was at hand when its frame was read is heard; the capture time of a frame is that
\* of its first sample.
PcmPlayedInPlace ==
    part = "pcm" => Pcm!PlayedInPlace /\ Pcm!InTimeIsHeard /\ Pcm!CaptureTimeOfFirst

\* OpusPlayback: an Opus sample is played at its place in the stream, or one made up is; a
\* packet that was at hand in time is heard; the capture time of a frame is that of its
\* first sample.
OpusPlayedInPlace ==
    part = "opus" => Opus!OpusPlayedInPlace /\ Opus!OpusInTimeIsHeard /\ Opus!OpusCaptureTime

\* FecStream: fec::Reader returns only packets that the writer was given, in order and none
\* twice, and gives up on a packet only when too little of its block arrived.
FecRestoresInOrder == Fec!FecRestoresInOrder

\* Watchdog: Watchdog ends a session only after silence or choppy playback long enough, and
\* does end one that is silent or choppy for too long.
WatchdogEndsExactly ==
    part = "dog" =>
        Dog!WatchdogEndsOnlyBroken /\ Dog!WatchdogEndsSilent /\ Dog!WatchdogEndsChoppy

\* SenderStream: every sample written is in one packet, in order, or dropped by a failed
\* allocation; the capture time of a packet is that of its first sample, and sender reports
\* map the newest one to its RTP timestamp; every packet made under one source id reaches
\* the endpoint.
SenderKeepsSamples ==
    part = "sender" =>
        /\ Sender!SenderKeepsSamples /\ Sender!SenderCaptureTime
        /\ Sender!SenderReportsNewest /\ Sender!SenderSendsAll

\* Interleaver: every packet is sent once, and waits for fewer packets than a block.
InterleaverKeepsPackets ==
    part = "inter" => Inter!InterleaverKeepsPackets /\ Inter!InterleaverDelay

\* PipelineSlots: a sender's frames go to the complete live slots and to no other, and
\* feedback is gathered exactly for those with a unicast control endpoint, whatever the
\* order of the calls and whichever of them failed.
SlotsFeedComplete == part = "slots" => Slots!SlotsFeedComplete /\ Slots!SlotsMonitorStarted
=============================================================================
