--------------------------- MODULE MCControlPlane ---------------------------
(***************************************************************************)
(* The RTCP reporter and the packets it builds and reads, the slots of the *)
(* nodes, and the hash table and the pool limit that these rest on, side   *)
(* by side for TLC: every behaviour is one of the part that the initial    *)
(* state selects, and the variables of the other parts do not change.      *)
(***************************************************************************)
EXTENDS LimitedPool, TLC

VARIABLES
    part,
    rep, sessions, sending, now, calls, changes, obs, heard,
    bld, cells, trav, sub, current, written, read,
    table, members,
    role, slotMap, ports, pslots, used, call, panicked

\* RTCP packets: ssrc and cname of their sender, where they came from, SR, RR or
\* BYE, whom a reception block is about, and whether there is an RRTR block.  The
\* local participant starts as 1 and may become 3; 2 and 4 are remote.
Packet(id, cname, addr, kind, block, xr) ==
    [ssrc |-> id, cname |-> cname, addr |-> addr, kind |-> kind, block |-> block, xr |-> xr]
RtcpPackets ==
    [receiver |->
        {Packet(2, "a", "A", "sr", 0, FALSE), Packet(2, "a", "B", "sr", 0, FALSE),
         Packet(1, "b", "B", "sr", 0, FALSE), Packet(1, "me", "A", "sr", 0, FALSE),
         Packet(2, "a", "A", "bye", 0, FALSE)},
     multicast |->
        {Packet(2, "a", "A", "sr", 0, FALSE), Packet(2, "c", "B", "sr", 0, FALSE)},
     sender |->
        {Packet(2, "a", "A", "rr", 1, TRUE), Packet(2, "a", "A", "rr", 3, TRUE),
         Packet(2, "a", "A", "rr", 1, FALSE), Packet(4, "d", "B", "rr", 1, TRUE),
         Packet(1, "b", "B", "rr", 3, TRUE), Packet(1, "me", "A", "rr", 1, TRUE),
         Packet(2, "a", "A", "bye", 0, FALSE)}]
Rtcp == INSTANCE RtcpReporter WITH
    Roles <- {"sender", "receiver", "multicast"}, Packets <- RtcpPackets,
    Sources <- [receiver |-> {2}, multicast |-> {2, 4}, sender |-> {}],
    LocalIds <- {1, 3}, ReportAddr <- "R", Timeout <- 4, Step <- 2, MaxNow <- 6,
    CallsPerInstant <- 2, ChangesPerCall <- 1

\* Everything enabled, extended reports alone and descriptions alone; slices that end
\* in the middle of a packet, and one large enough.
Config(sr_rr, sdes, xr) == [sr_rr |-> sr_rr, sdes |-> sdes, xr |-> xr]
ElementBound(config) == IF config.sdes /\ ~config.sr_rr THEN 5 ELSE 4
Compound == INSTANCE RtcpPacket WITH
    BuilderConfigs <- {Config(TRUE, TRUE, TRUE), Config(FALSE, FALSE, TRUE),
                       Config(FALSE, TRUE, FALSE)},
    SliceCapacities <- {60, 200}, MaxPacketBlocks <- 2, TextLens <- {0, 1, 2},
    PaddingLens <- {4}, MaxElements <- ElementBound

\* Hash sums that collide, and tables of 3, 6 and 12 nodes.
SmallHash(x) == (x * 3) % 7
Map == INSTANCE Hashmap WITH
    HashNodes <- 1..7, Hash <- SmallHash, PrimeCounts <- <<2, 4, 8>>, MinArenaCount <- 4,
    Preallocated <- 2, LoadNum <- 3, LoadDen <- 2

\* Two slots of a receiver, one slot of a sender whose interfaces share ports.
Node == INSTANCE NodeSlots WITH
    NodeRoles <- {"receiver", "sender"},
    SlotIndices <- [receiver |-> {1, 2}, sender |-> {1}],
    UsedIfaces <- [receiver |-> {"source", "repair"},
                   sender |-> {"source", "repair", "control"}],
    Schemes <- {"none", "rs8m"}, PipelineScheme <- "rs8m", Configs <- {4},
    Families <- [receiver |-> {4}, sender |-> {4, 6}], Unusual <- {}

\* The same with calls that ask a broken slot for its metrics.
Query == INSTANCE NodeSlots WITH
    NodeRoles <- {"receiver", "sender"},
    SlotIndices <- [receiver |-> {1, 2}, sender |-> {1}],
    UsedIfaces <- [receiver |-> {"source", "control"},
                   sender |-> {"source", "repair", "control"}],
    Schemes <- {"none", "rs8m"}, PipelineScheme <- "rs8m", Configs <- {4},
    Families <- [receiver |-> {4}, sender |-> {4, 6}], Unusual <- {"query broken"}

rtcpVars == <<rep, sessions, sending, now, calls, changes, obs, heard>>
compoundVars == <<bld, cells, trav, sub, current, written, read>>
mapVars == <<table, members>>
nodeVars == <<role, slotMap, ports, pslots, used, call, panicked>>

\* What the parts not selected start with does not matter.
ControlPlaneInit ==
    /\ part \in {"pool", "rtcp", "compound", "map", "node"}
    /\ PoolInit
    /\ Rtcp!Init /\ (part # "rtcp" => rep.role = "sender")
    /\ Compound!Init
    /\ part # "compound" => bld.capacity = 60 /\ bld.config = Config(TRUE, TRUE, TRUE)
    /\ Map!Init
    /\ Node!NodeInit /\ (part # "node" => role = "sender")

ControlPlaneNext ==
    /\ UNCHANGED part
    /\ \/ part = "pool" /\ PoolNext /\ UNCHANGED <<rtcpVars, compoundVars, mapVars, nodeVars>>
       \/ part = "rtcp" /\ Rtcp!Next /\ UNCHANGED <<poolVars, compoundVars, mapVars, nodeVars>>
       \/ /\ part = "compound" /\ Compound!Next
          /\ UNCHANGED <<poolVars, rtcpVars, mapVars, nodeVars>>
       \/ part = "map" /\ Map!Next /\ UNCHANGED <<poolVars, rtcpVars, compoundVars, nodeVars>>
       \/ /\ part = "node" /\ Node!NodeNext
          /\ UNCHANGED <<poolVars, rtcpVars, compoundVars, mapVars>>

controlPlaneVars == <<part, poolVars, rtcpVars, compoundVars, mapVars, nodeVars>>
ControlPlaneSpec == ControlPlaneInit /\ [][ControlPlaneNext]_controlPlaneVars

\* The hash table alone, and the nodes with their unusual calls alone.
HashmapSpec == part = "map" /\ ControlPlaneSpec
QuerySpec ==
    /\ part = "node" /\ ControlPlaneInit
    /\ [][/\ Query!NodeNext
          /\ UNCHANGED <<part, poolVars, rtcpVars, compoundVars, mapVars>>]_controlPlaneVars

-----------------------------------------------------------------------------

\* The variables have their types; no call uses the null handle of a broken slot
\* (NodeSlots); rehash_remain_nodes_ counts the nodes left to move (Hashmap); compound
\* packets stay within their slice and on 32-bit boundaries (RtcpPacket).
ControlPlaneConsistent ==
    /\ part = "pool" => PoolTypeOK
    /\ part = "rtcp" => Rtcp!TypeOK
    /\ part = "compound" => Compound!PacketTypeOK /\ Compound!RtcpPacketsAligned
    /\ part = "map" => Map!TypeOK /\ Map!HashmapRemainExact
    /\ part = "node" => Node!NodeTypeOK /\ Node!NodeNeverPanics

\* RtcpReporter: the pipeline is told of every report a packet brought, every session is
\* reported to its sender at its newest address and to nobody else, a block is filled from
\* the stream it names, and a stream whose reports stopped is forgotten after the timeout.
RtcpReportsAreDelivered ==
    part = "rtcp" =>
        /\ Rtcp!RtcpReportsAreDelivered /\ Rtcp!RtcpSendersGetReports
        /\ Rtcp!RtcpBlocksGenuine /\ Rtcp!RtcpSilentIsForgotten

\* RtcpReporter: streams are forgotten only by BYE or timeout, our own packets that come
\* back are no collision, and the SSRC changes only with a BYE to every destination.
RtcpIdentitiesSound == Rtcp!RtcpIdentitiesSound

\* RtcpPacket: the traversers return the elements of the packets finished, in their order and
\* no others, also when the slice was too small for the rest.
RtcpReadsWhatWasBuilt == part = "compound" => Compound!RtcpReadsWhatWasBuilt

\* Hashmap: find_node() finds exactly the nodes inserted, also while they move, and a rehash
\* is finished before the next one is due.
HashmapFindsExactly == part = "map" => Map!HashmapFindsExactly /\ Map!HashmapRehashInTime

\* NodeSlots: whichever task fails, every port and pipeline slot is owned or given back; no
\* packet is written through an endpoint or a port that is gone; one interface has one
\* protocol in all slots; interfaces share a port exactly when configuration and family
\* agree.
NodeOwnsEverything ==
    part = "node" =>
        /\ Node!NodeOwnsEverything /\ Node!NodeWritersLive
        /\ Node!NodeProtocolsAgree /\ Node!NodeSharesPorts

\* realloc_buckets_() asserts "rehash_pos_ == 0" (hashmap_impl.cpp).
HashmapRehashReset == Map!HashmapRehashReset

\* receiver.h, roc_receiver_bind(): a slot where an error happened "is disabled and marked
\* broken. The slot index remains reserved.": calls with it fail and do not abort.
NodeQueriesNeverPanic == Query!NodeNeverPanics
=============================================================================
