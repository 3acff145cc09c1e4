----------------------------- MODULE RtcpPacket -----------------------------
(***************************************************************************)
(* Compound RTCP packets: rtcp::Builder writes one into a slice of limited *)
(* size (roc_rtcp/builder.cpp), rtcp::Traverser and the traversers of      *)
(* SDES, BYE and XR packets read it back (roc_rtcp/*traverser.cpp).        *)
(*                                                                         *)
(* The bytes are a function from the offset at which a header, a block, a  *)
(* chunk, an item or padding begins to a cell.  Sizes and offsets are the  *)
(* ones of the code; of the contents only the identity of the element is   *)
(* kept, and the fields that the traversers read.                          *)
(***************************************************************************)
EXTENDS Naturals, Sequences, SequencesExt, TLC

CONSTANTS
    BuilderConfigs,  \* rtcp::Config: enable_sr_rr, enable_sdes, enable_xr
    SliceCapacities, \* capacities of the result slice
    MaxPacketBlocks, \* header::MaxPacketBlocks
    TextLens,        \* bound: lengths of SDES and BYE texts
    PaddingLens,     \* bound: lengths passed to add_padding()
    MaxElements(_)   \* bound: elements of a compound packet, for a configuration

VARIABLES
    bld,     \* the builder: state_, the slices and the flags
    cells,   \* the bytes of the result slice
    trav,    \* Traverser::Iterator
    sub,     \* the iterator of the SDES, BYE or XR packet being read
    current, \* history: elements of the packet being written
    written, \* history: elements of the packets finished
    read     \* history: elements returned by the traversers

packetVars == <<bld, cells, trav, sub, current, written, read>>

PacketHeader == 4
ReportBlock == 24
HeadSize == [SR |-> 28, RR |-> 8, SDES |-> 4, BYE |-> 4, XR |-> 8, APP |-> 12]
XrSize == [RRTR |-> 12, DLRR |-> 4, MEASUREMENT_INFO |-> 32, DELAY_METRICS |-> 28,
           QUEUE_METRICS |-> 16, UNKNOWN |-> 8]
ChunkHeader == 4
ItemHeader == 2
ByeSource == 4
ReasonHeader == 1
DlrrSubblock == 12

\* header::padding_len().
padding_len(size, min) ==
    min + ((4 - ((size + min) % 4)) % 4)

None == 100000 \* no offset, NULL

Cell(kind, id, len) == [kind |-> kind, id |-> id, len |-> len, counter |-> 0, padding |-> FALSE]
Garbage == Cell("garbage", 0, 0)
At(offset) == IF offset \in DOMAIN cells THEN cells[offset] ELSE Garbage

Idle == [state |-> "IDLE", pos |-> 0, from |-> 0, to |-> 0, count |-> 0, error |-> FALSE]

Init ==
    /\ \E c \in BuilderConfigs, n \in SliceCapacities :
         bld = [config |-> c, capacity |-> n, state |-> "TOP", size |-> 0, header |-> None,
                len |-> 0, block |-> None, report |-> FALSE, cname |-> FALSE,
                truncated |-> FALSE]
    /\ cells = <<>>
    /\ trav = Idle /\ sub = Idle
    /\ current = <<>> /\ written = <<>> /\ read = <<>>

-----------------------------------------------------------------------------
(* The builder.  A call that the builder answers with a panic is not made: *)
(* the guards are its roc_panic_if_msg() conditions.                       *)

NextId == Len(written) + Len(current) + 1

Building == trav.state = "IDLE" /\ NextId <= MaxElements(bld.config)
reading == <<trav, sub, read>>

\* begin_packet_(): the packet starts at the end of the result, which keeps its size.
BeginPacket(kind, state) ==
    LET fits == ~bld.truncated /\ bld.size + HeadSize[kind] <= bld.capacity
        next == [bld EXCEPT !.state = state, !.report = @ \/ kind \in {"SR", "RR"}]
    IN  /\ bld.state = "TOP" /\ Building
        /\ IF fits
           THEN /\ bld' = [next EXCEPT !.header = bld.size, !.len = HeadSize[kind]]
                /\ cells' = (bld.size :> Cell(kind, NextId, HeadSize[kind])) @@ cells
                /\ current' = <<NextId>>
           ELSE /\ bld' = [next EXCEPT !.truncated = TRUE]
                /\ UNCHANGED <<cells, current>>
        /\ UNCHANGED <<written, reading>>

\* add_block_() of n bytes, and the header of the packet after the call; logged tells the
\* elements that a reader is to return.
AddBlock(next, n, cell, header, logged) ==
    LET fits == ~bld.truncated /\ bld.header + bld.len + n <= bld.capacity
        offset == bld.header + bld.len
    IN  /\ IF fits
           THEN /\ bld' = [next EXCEPT !.len = @ + n]
                /\ cells' = (offset :> cell) @@ (bld.header :> header) @@ cells
                /\ current' = current \o logged
           ELSE /\ bld' = [next EXCEPT !.truncated = TRUE]
                /\ UNCHANGED <<cells, current>>
        /\ UNCHANGED <<written, reading>>

Header == cells[bld.header]

\* inc_counter(), which panics above MaxPacketBlocks.
Counted == [Header EXCEPT !.counter = @ + 1]
CounterFree == bld.truncated \/ Header.counter < MaxPacketBlocks

\* end_packet_().
EndPacket(next) ==
    /\ IF bld.truncated
       THEN bld' = next /\ UNCHANGED <<cells, current, written>>
       ELSE /\ bld' = [next EXCEPT !.size = @ + bld.len]
            /\ cells' = [cells EXCEPT ![bld.header].len = bld.len]
            /\ written' = written \o current
            /\ current' = <<>>
    /\ UNCHANGED reading

\* begin_sr(), begin_rr().
BeginReport(kind) ==
    /\ bld.config.sr_rr
    /\ BeginPacket(kind, kind \o "_HEAD")

\* add_sr_report(), add_rr_report().
AddReport(kind) ==
    LET counted == [Counted EXCEPT !.len = bld.len + ReportBlock]
    IN  /\ bld.state \in {kind \o "_HEAD", kind \o "_REPORT"} /\ Building /\ CounterFree
        /\ AddBlock([bld EXCEPT !.state = kind \o "_REPORT"], ReportBlock,
                    Cell("report", NextId, ReportBlock), counted, <<NextId>>)

\* end_sr(), end_rr().
EndReport(kind) ==
    /\ bld.state \in {kind \o "_HEAD", kind \o "_REPORT"}
    /\ EndPacket([bld EXCEPT !.state = "TOP"])

\* "first packet should be SR or RR".
ReportFirst == bld.config.sr_rr => bld.report

BeginSdes ==
    /\ bld.config.sdes /\ ReportFirst
    /\ BeginPacket("SDES", "SDES_HEAD")

BeginSdesChunk ==
    /\ bld.state = "SDES_HEAD" /\ Building /\ CounterFree
    /\ AddBlock([bld EXCEPT !.state = "SDES_CHUNK", !.cname = FALSE], ChunkHeader,
                Cell("chunk", NextId, ChunkHeader), Counted, <<NextId>>)

\* A CNAME is not empty, and there is one in each chunk.
AddSdesItem(cname, n) ==
    /\ bld.state = "SDES_CHUNK" /\ Building
    /\ cname => n > 0 /\ ~bld.cname
    /\ AddBlock([bld EXCEPT !.cname = @ \/ cname], ItemHeader + n,
                Cell("item", NextId, n), Header, <<NextId>>)

\* Mutant: the chunk is aligned, but may end without a zero byte.
EndSdesChunkUnterminated ==
    /\ bld.state = "SDES_CHUNK" /\ bld.cname
    /\ LET n == padding_len(bld.len, 0)
       IN  IF n = 0
           THEN bld' = [bld EXCEPT !.state = "SDES_HEAD"]
                /\ UNCHANGED <<cells, current, written, reading>>
           ELSE AddBlock([bld EXCEPT !.state = "SDES_HEAD"], n, Cell("zeros", 0, n), Header, <<>>)

\* "Adds at least one byte with zero value and aligns the end with 32 bit border".
EndSdesChunk ==
    /\ bld.state = "SDES_CHUNK" /\ bld.cname
    /\ LET n == padding_len(bld.len, 1)
       IN  AddBlock([bld EXCEPT !.state = "SDES_HEAD"], n, Cell("zeros", 0, n), Header, <<>>)

EndSdes ==
    /\ bld.state = "SDES_HEAD"
    /\ EndPacket([bld EXCEPT !.state = "TOP"])

BeginBye ==
    /\ ReportFirst
    /\ BeginPacket("BYE", "BYE_HEAD")

AddByeSsrc ==
    /\ bld.state \in {"BYE_HEAD", "BYE_SSRC"} /\ Building /\ CounterFree
    /\ AddBlock([bld EXCEPT !.state = "BYE_SSRC"], ByeSource,
                Cell("ssrc", NextId, ByeSource), Counted, <<NextId>>)

AddByeReason(n) ==
    LET total == ReasonHeader + n
    IN  /\ bld.state = "BYE_SSRC" /\ Building
        /\ AddBlock([bld EXCEPT !.state = "BYE_REASON"], total + padding_len(total, 0),
                    Cell("reason", NextId, n), Header, <<NextId>>)

EndBye ==
    /\ bld.state \in {"BYE_SSRC", "BYE_REASON"}
    /\ EndPacket([bld EXCEPT !.state = "TOP"])

BeginXr ==
    /\ bld.config.xr /\ ReportFirst
    /\ BeginPacket("XR", "XR_HEAD")

\* add_xr_rrtr(), add_xr_measurement_info(), add_xr_delay_metrics(),
\* add_xr_queue_metrics().
AddXrBlock(kind) ==
    /\ bld.state = "XR_HEAD" /\ Building
    /\ AddBlock([bld EXCEPT !.block = bld.header + bld.len], XrSize[kind],
                Cell(kind, NextId, XrSize[kind]), Header, <<NextId>>)

\* Bound: one packet or block of another implementation.
ForeignFree == \A o \in DOMAIN cells : cells[o].kind \notin {"UNKNOWN", "APP"}

\* A block type of another implementation, which the traverser does not know.
ForeignXrBlock ==
    /\ bld.state = "XR_HEAD" /\ Building /\ ForeignFree
    /\ AddBlock(bld, XrSize["UNKNOWN"], Cell("UNKNOWN", 0, XrSize["UNKNOWN"]), Header, <<>>)

\* A packet type of another implementation.
ForeignPacket ==
    LET n == HeadSize["APP"]
    IN  /\ bld.state = "TOP" /\ Building /\ ReportFirst /\ ~bld.truncated /\ ForeignFree
        /\ bld.size + n <= bld.capacity
        /\ cells' = (bld.size :> Cell("APP", 0, n)) @@ cells
        /\ bld' = [bld EXCEPT !.header = bld.size, !.len = n, !.size = @ + n]
        /\ UNCHANGED <<current, written, reading>>

BeginXrDlrr ==
    /\ bld.state = "XR_HEAD" /\ Building
    /\ AddBlock([bld EXCEPT !.state = "XR_DLRR_HEAD", !.block = bld.header + bld.len],
                XrSize["DLRR"], Cell("DLRR", NextId, XrSize["DLRR"]), Header, <<NextId>>)

AddXrDlrrReport ==
    /\ bld.state \in {"XR_DLRR_HEAD", "XR_DLRR_REPORT"} /\ Building
    /\ AddBlock([bld EXCEPT !.state = "XR_DLRR_REPORT"], DlrrSubblock,
                Cell("subblock", NextId, DlrrSubblock), Header, <<NextId>>)

\* The length of the block reaches from its header to the end of the packet so far.
EndXrDlrr ==
    /\ bld.state \in {"XR_DLRR_HEAD", "XR_DLRR_REPORT"}
    /\ bld' = [bld EXCEPT !.state = "XR_HEAD"]
    /\ cells' = IF bld.truncated THEN cells
                ELSE [cells EXCEPT ![bld.block].len = bld.header + bld.len - bld.block]
    /\ UNCHANGED <<current, written, reading>>

EndXr ==
    /\ bld.state = "XR_HEAD"
    /\ EndPacket([bld EXCEPT !.state = "TOP"])

\* add_padding(): the header is changed before the room is checked.  The last byte
\* tells the number of padding bytes.
AddPadding(n) ==
    LET fits == bld.size + n <= bld.capacity
        padded == [cells EXCEPT ![bld.header].padding = TRUE, ![bld.header].len = @ + n]
    IN  /\ bld.state = "TOP" /\ trav.state = "IDLE"
        /\ ~bld.truncated => bld.header # None
        /\ IF bld.truncated
           THEN bld' = [bld EXCEPT !.state = "LAST"] /\ UNCHANGED cells
           ELSE IF fits
           THEN /\ bld' = [bld EXCEPT !.state = "LAST", !.size = @ + n]
                /\ cells' = (bld.size + n - 1 :> Cell("padding", n, 1)) @@ padded
           ELSE /\ bld' = [bld EXCEPT !.state = "LAST", !.truncated = TRUE]
                /\ cells' = padded
        /\ UNCHANGED <<current, written, reading>>

-----------------------------------------------------------------------------
(* The traversers.  Positions of the inner iterators count from the start  *)
(* of their packet, sub.from.                                              *)

building == <<bld, cells, current, written>>

\* ~Builder() does not panic; Traverser::parse() and iter(), for a slice that holds
\* a header.
StartReading ==
    /\ trav.state = "IDLE"
    /\ bld.state \in {"TOP", "LAST"}
    /\ bld.truncated \/ bld.size > 0
    /\ ReportFirst
    /\ bld.config.sdes => bld.cname
    /\ bld.size >= PacketHeader
    /\ trav' = [Idle EXCEPT !.state = "BEGIN"]
    /\ UNCHANGED <<building, sub, read>>

\* The padding bytes that the last byte of a packet tells, if its header says so.
PaddingOf(header, end) == IF header.padding THEN At(end - 1).id ELSE 0

\* remove_padding_(), check_sr_(), check_rr_(): the slice without padding starts at the
\* beginning of the buffer.
CheckReport(kind, pos) ==
    LET header == At(pos)
        n == PaddingOf(header, pos + header.len)
        from == IF header.padding THEN 0 ELSE pos
        to == from + header.len - n
    IN  [from |-> from, to |-> to,
         ok |-> /\ header.padding => n \in 1..(header.len - PacketHeader)
                /\ HeadSize[kind] + At(from).counter * ReportBlock <= to - from]

\* get_sr(), get_rr() and get_block() of every index.
ReportElements(kind, from) ==
    <<At(from).id>> \o [i \in 1..At(from).counter |->
                           At(from + HeadSize[kind] + (i - 1) * ReportBlock).id]

TravEnd(error) ==
    /\ trav' = [trav EXCEPT !.state = "END", !.error = @ \/ error]
    /\ UNCHANGED <<sub, read>>

\* One round of the loop of next_packet_().  pos is the position of the next packet.
TravNext ==
    LET header == At(trav.pos)
        end == trav.pos + header.len
        to(state, from, upto) ==
            trav' = [trav EXCEPT !.state = state, !.pos = end, !.from = from, !.to = upto]
        skip(error) ==
            /\ trav' = [trav EXCEPT !.pos = end, !.error = @ \/ error]
            /\ UNCHANGED <<sub, read>>
    IN  /\ trav.state \notin {"IDLE", "END"} /\ sub.state \in {"IDLE", "END"}
        /\ IF trav.pos = bld.size THEN TravEnd(FALSE)
           ELSE IF trav.pos + PacketHeader > bld.size \/ end > bld.size THEN TravEnd(TRUE)
           ELSE CASE header.kind \in {"SR", "RR"} ->
                       LET c == CheckReport(header.kind, trav.pos)
                       IN  IF c.ok
                           THEN /\ to(header.kind, c.from, c.to)
                                /\ read' = read \o ReportElements(header.kind, c.from)
                                /\ UNCHANGED sub
                           ELSE skip(TRUE)
                  [] header.kind \in {"SDES", "BYE", "XR"} ->
                       /\ to(header.kind, trav.pos, end)
                       /\ sub' = [Idle EXCEPT !.state = "PARSE"]
                       /\ UNCHANGED read
                  [] OTHER -> skip(FALSE)
        /\ UNCHANGED building

\* parse() of the inner traversers, and packet() of the XR one.
SubParse ==
    LET header == At(trav.from)
        n == PaddingOf(header, trav.to)
        head == HeadSize[header.kind]
        ok == /\ trav.to - trav.from >= head
              /\ header.counter <= MaxPacketBlocks
              /\ header.padding => n \in 1..(header.len - head)
    IN  /\ sub.state = "PARSE"
        /\ sub' = IF ok
                  THEN [Idle EXCEPT !.state = "BEGIN", !.from = trav.from, !.pos = head,
                                    !.to = header.len - n, !.count = header.counter]
                  ELSE [sub EXCEPT !.state = "END", !.error = TRUE]
        /\ read' = IF ok THEN Append(read, header.id) ELSE read
        /\ UNCHANGED <<building, trav>>

SubAt(offset) == At(sub.from + offset)

\* The iterator goes to a state and its next element starts at pos; what it returns.
SubGo(state, pos, elements) ==
    /\ sub' = [sub EXCEPT !.state = state, !.pos = pos]
    /\ read' = read \o elements
    /\ UNCHANGED <<building, trav>>

SubEnd(error) ==
    /\ sub' = [sub EXCEPT !.state = "END", !.error = @ \/ error]
    /\ UNCHANGED <<building, trav, read>>

\* The zero bytes from pos to the next 32-bit boundary, at least one.
SkipZeros(pos) == pos + 1 + ((4 - ((pos + 1) % 4)) % 4)

\* The end of a chunk, or the next one: chunk headers as counted, then END.
SdesChunkAt(pos, left) ==
    IF left = 0 THEN SubEnd(FALSE)
    ELSE IF pos + ChunkHeader > sub.to THEN SubEnd(TRUE)
    ELSE /\ sub' = [sub EXCEPT !.state = "ITEM", !.pos = pos + ChunkHeader, !.count = left]
         /\ read' = Append(read, SubAt(pos).id)
         /\ UNCHANGED <<building, trav>>

\* SdesTraverser::Iterator::next_element_(): count chunks are left, the current one
\* included.
SdesNext ==
    LET cell == SubAt(sub.pos)
        next == sub.pos + ItemHeader + cell.len
    IN  /\ trav.state = "SDES" /\ sub.state \in {"BEGIN", "ITEM"}
        /\ IF sub.state = "BEGIN" THEN SdesChunkAt(sub.pos, sub.count)
           ELSE IF sub.pos = sub.to THEN SdesChunkAt(sub.pos, sub.count - 1)
           ELSE IF cell.kind = "zeros" THEN SdesChunkAt(SkipZeros(sub.pos), sub.count - 1)
           ELSE IF sub.pos + ItemHeader > sub.to \/ next > sub.to THEN SubEnd(TRUE)
           ELSE SubGo("ITEM", next, <<cell.id>>)

\* ByeTraverser::Iterator::next_element_(): count sources are left.
ByeNext ==
    LET cell == SubAt(sub.pos)
    IN  /\ trav.state = "BYE" /\ sub.state \in {"BEGIN", "REASON"}
        /\ IF sub.state = "REASON" THEN SubEnd(FALSE)
           ELSE IF sub.count > 0
           THEN IF sub.pos + ByeSource > sub.to THEN SubEnd(TRUE)
                ELSE /\ sub' = [sub EXCEPT !.pos = @ + ByeSource, !.count = @ - 1]
                     /\ read' = Append(read, cell.id)
                     /\ UNCHANGED <<building, trav>>
           ELSE IF sub.pos >= sub.to THEN SubEnd(FALSE)
           ELSE IF sub.pos + ReasonHeader + cell.len > sub.to THEN SubEnd(TRUE)
           ELSE SubGo("REASON", sub.pos, <<cell.id>>)

\* check_rrtr_(), check_dlrr_() and the others.
XrChecks(cell) ==
    IF cell.kind = "QUEUE_METRICS" THEN cell.len = XrSize[cell.kind]
    ELSE cell.len >= XrSize[cell.kind]

\* The block, and for DLRR its num_subblocks() sub-blocks.
XrElements(pos) ==
    LET cell == SubAt(pos)
    IN  <<cell.id>> \o
        IF cell.kind # "DLRR" THEN <<>>
        ELSE [i \in 1..(cell.len - XrSize["DLRR"]) \div DlrrSubblock |->
                 SubAt(pos + XrSize["DLRR"] + (i - 1) * DlrrSubblock).id]

\* One round of the loop of XrTraverser::Iterator::next_block_().
XrNext ==
    LET cell == SubAt(sub.pos)
        next == sub.pos + cell.len
    IN  /\ trav.state = "XR" /\ sub.state = "BEGIN"
        /\ IF sub.pos = sub.to THEN SubEnd(FALSE)
           ELSE IF sub.pos + PacketHeader > sub.to \/ next > sub.to THEN SubEnd(TRUE)
           ELSE IF cell.kind \notin DOMAIN XrSize \ {"UNKNOWN"}
           THEN SubGo("BEGIN", next, <<>>)
           ELSE IF XrChecks(cell) THEN SubGo("BEGIN", next, XrElements(sub.pos))
           ELSE /\ sub' = [sub EXCEPT !.pos = next, !.error = TRUE]
                /\ UNCHANGED <<building, trav, read>>

-----------------------------------------------------------------------------

Next ==
    \/ \E kind \in {"SR", "RR"} : BeginReport(kind) \/ AddReport(kind) \/ EndReport(kind)
    \/ BeginSdes \/ BeginSdesChunk \/ EndSdesChunk \/ EndSdes
    \/ \E n \in TextLens, cname \in BOOLEAN : AddSdesItem(cname, n)
    \/ BeginBye \/ AddByeSsrc \/ EndBye
    \/ \E n \in TextLens : AddByeReason(n)
    \/ BeginXr \/ BeginXrDlrr \/ AddXrDlrrReport \/ EndXrDlrr \/ EndXr
    \/ \E kind \in {"RRTR", "MEASUREMENT_INFO", "DELAY_METRICS", "QUEUE_METRICS"} :
          AddXrBlock(kind)
    \/ ForeignXrBlock \/ ForeignPacket
    \/ \E n \in PaddingLens : AddPadding(n)
    \/ StartReading \/ TravNext \/ SubParse \/ SdesNext \/ ByeNext \/ XrNext

PacketSpec == Init /\ [][Next]_packetVars

-----------------------------------------------------------------------------

\* The variables have their types: the result never exceeds its slice.
PacketTypeOK ==
    /\ bld.size <= bld.capacity
    /\ bld.truncated \/ bld.header = None \/ bld.header + bld.len <= bld.capacity
    /\ trav.pos <= bld.size /\ sub.from + sub.pos <= bld.capacity

\* A report that is not the first packet has padding; CheckReport() then reads the first
\* packet in its place.
LaterReportPadded ==
    \E offset \in DOMAIN cells \ {0} :
        cells[offset].kind \in {"SR", "RR"} /\ cells[offset].padding

\* What the traversers return is what the builder was given, element by element and in
\* order, whatever packets, chunks, items, texts and paddings were added, and unknown
\* packets and blocks among them are passed over (Builder, Traverser).  When the slice
\* was too small ("all its method will become no-op"), they return the packets that were
\* finished before, and never a part of one.  Not covered: padding that did not fit, and
\* padding of a report that is not the first packet.
RtcpReadsWhatWasBuilt ==
    (bld.truncated => bld.state # "LAST") /\ ~LaterReportPadded =>
        /\ IsPrefix(read, written)
        /\ trav.state = "END" => read = written
        /\ ~trav.error /\ ~sub.error

\* Every packet that can be ended is a multiple of 32 bits long, so that end_packet_() and
\* size_t_2_rtcp_length() do not panic.
RtcpPacketsAligned ==
    /\ bld.state \notin {"SDES_CHUNK", "LAST"} /\ ~bld.truncated => bld.len % 4 = 0
    /\ bld.size % 4 = 0
=============================================================================
