------------------------------ MODULE RtcpSplit -----------------------------
(***************************************************************************)
(* How rtcp::Communicator spreads the reports of one generation over       *)
(* packets (roc_rtcp/communicator.cpp): a packet that overflows its buffer *)
(* is built again with fewer streams, and the limit found is kept.         *)
(***************************************************************************)
EXTENDS Naturals, Sequences, FiniteSetsExt

CONSTANTS
    InitialLimit,  \* header::MaxPacketBlocks
    Capacities,    \* how many streams' blocks fit into a packet buffer
    Crowded,       \* bound: the capacities tried with more than one stream
    MaxStreams,    \* bound: streams of each direction per destination
    Dests,         \* bound: destination addresses
    Generations    \* bound: generations

VARIABLES
    fits,      \* the capacity of the buffers
    limit,     \* max_pkt_streams_
    streams,   \* per destination, the numbers of streams to report
    dest,      \* dest_addr_index_, 0 when no generation runs
    sendIndex, \* send_stream_index_
    recvIndex, \* recv_stream_index_
    done       \* history: generations begun

splitVars == <<fits, limit, streams, dest, sendIndex, recvIndex, done>>

Counts == [send : 0..MaxStreams, recv : 0..MaxStreams]

Init ==
    /\ fits \in Capacities
    /\ limit = InitialLimit
    /\ streams = <<>>
    /\ dest = 0 /\ sendIndex = 0 /\ recvIndex = 0
    /\ done = 0

Size(c) == c.send + c.recv

\* begin_packet_generation_(), for an index with at least one destination.
Begin ==
    /\ dest = 0 /\ done < Generations
    /\ done' = done + 1
    /\ \E n \in 1..Dests : streams' \in [1..n -> Counts]
    /\ fits \notin Crowded => \A d \in DOMAIN streams' : Size(streams'[d]) <= 1
    /\ dest' = 1 /\ sendIndex' = 0 /\ recvIndex' = 0
    /\ UNCHANGED <<fits, limit>>

\* next_send_stream_(), next_recv_stream_(): streams are added to the packet
\* while their number stays below the limit.
Taken(i, count, taken) ==
    Max({n \in 0..count - i : n = 0 \/ n + taken < limit})

\* generate_reports_payload_(): reception blocks first, then DLRR blocks.
Content ==
    LET recv == Taken(recvIndex, streams[dest].recv, 0)
    IN  [recv |-> recv, send |-> Taken(sendIndex, streams[dest].send, recv)]

\* generate_packet_payload_() when the packet fits, and the step of
\* continue_packet_generation_() to the next destination.
PacketFits ==
    /\ dest # 0
    /\ LET c == Content
           all == /\ sendIndex + c.send >= streams[dest].send
                  /\ recvIndex + c.recv >= streams[dest].recv
       IN  /\ Size(c) <= fits
           /\ IF all
              THEN /\ dest' = (dest + 1) % (Len(streams) + 1)
                   /\ sendIndex' = 0 /\ recvIndex' = 0
              ELSE /\ sendIndex' = sendIndex + c.send
                   /\ recvIndex' = recvIndex + c.recv
                   /\ UNCHANGED dest
    /\ UNCHANGED <<fits, limit, streams, done>>

\* The packet does not fit: once more with fewer streams.
Retry ==
    /\ dest # 0
    /\ Size(Content) > fits /\ Size(Content) > 1
    /\ limit' = Size(Content) - 1
    /\ UNCHANGED <<fits, streams, dest, sendIndex, recvIndex, done>>

\* "Even one block can't fit into the buffer": the generation is given up, and
\* refresh() of the session panics on its status, so there is no further one.
NoSpace ==
    /\ dest # 0
    /\ Size(Content) > fits /\ Size(Content) <= 1
    /\ limit' = 1
    /\ dest' = 0
    /\ done' = Generations
    /\ UNCHANGED <<fits, streams, sendIndex, recvIndex>>

Next == Begin \/ PacketFits \/ Retry \/ NoSpace

\* generate_packets_() is a loop without a wait in it.
Spec == Init /\ [][Next]_splitVars /\ WF_splitVars(PacketFits \/ Retry \/ NoSpace)
-----------------------------------------------------------------------------
\* Type correctness.
TypeOK ==
    /\ limit \in 1..InitialLimit /\ fits \in Capacities
    /\ dest \in 0..Len(streams) /\ \A d \in DOMAIN streams : streams[d] \in Counts
    /\ dest # 0 => sendIndex <= streams[dest].send /\ recvIndex <= streams[dest].recv

\* generate_packet_payload_(): "We will eventually either find value for
\* max_pkt_blocks_ that does not cause errors, or report StatusNoSpace": the
\* loop of generate_packets_() ends, whatever limit earlier generations left.
RtcpGenerationEnds == dest # 0 ~> dest = 0
=============================================================================
