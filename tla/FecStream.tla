----------------------------- MODULE FecStream ------------------------------
(***************************************************************************)
(* Forward erasure correction: fec::Writer (roc_fec/writer.cpp) at the     *)
(* sender and fec::Reader (roc_fec/reader.cpp) at the receiver, with a     *)
(* network between them that loses, duplicates and reorders packets.       *)
(*                                                                         *)
(* The writer cuts the stream of source packets into blocks and adds       *)
(* repair packets to each block.  The reader puts the packets of the       *)
(* current block at their places and, where a place is empty, tries to     *)
(* restore the packet from the others.  The block codec is external: it    *)
(* restores the missing packets of a block if and only if it is given as   *)
(* many packets as the block has source packets, all of that block.        *)
(*                                                                         *)
(* A source packet is identified by its index in the stream (id) and by    *)
(* the count of blocks before it (blk); the code sees only the numbers     *)
(* that wrap (sn, sbn).                                                    *)
(***************************************************************************)
EXTENDS SortedQueue, FiniteSets, TLC

CONSTANTS
    SnMod, SbnMod,    \* numbers of sequence numbers and of block numbers
    FirstSn, FirstSbn,\* where the numbering starts: random in the code
    Sizes,            \* block and payload sizes: records [s, r, p]
    MaxSbnJump,       \* ReaderConfig::max_sbn_jump
    MaxBlocks,        \* bound: blocks written
    Repeated,         \* bound: which packets the network may deliver twice
    Window            \* bound: packets that may overtake a packet

VARIABLES
    writer,   \* fec::Writer
    sent,     \* packets sent, source and repair, in order
    copies,   \* how many times each of them was delivered
    reader,   \* fec::Reader
    out,      \* the packet that the last read returned
    last,     \* history: the last packet returned since decoding started
    startBlk  \* history: the block in which decoding started

vars == <<writer, sent, copies, reader, out, last, startBlk>>

None == [id |-> -1]

Init ==
    /\ \E z \in Sizes :
          writer = [blk |-> 0, pos |-> 0, id |-> 0, cur |-> z, next |-> z]
    /\ sent = <<>>
    /\ copies = <<>>
    /\ reader = [srcQ |-> <<>>, repQ |-> <<>>, src |-> {}, rep |-> {},
                 sblen |-> 0, rblen |-> 0, psize |-> 0,
                 sResized |-> FALSE, rResized |-> FALSE, pResized |-> FALSE,
                 sbn |-> 0, next |-> 0, canRepair |-> FALSE,
                 started |-> FALSE, alive |-> TRUE]
    /\ out = None
    /\ last = -1
    /\ startBlk = -1

BlkDiff(a, b) == SerialDiff(a, b, SbnMod)
Abs(n) == IF n < 0 THEN -n ELSE n

-----------------------------------------------------------------------------
(* fec::Writer *)

\* fill_packet_fec_fields_()
FecPacket(w, esi, id) ==
    [id |-> id, sn |-> IF id < 0 THEN 0 ELSE (FirstSn + id) % SnMod,
     esi |-> esi, sbn |-> (FirstSbn + w.blk) % SbnMod, blk |-> w.blk,
     sblen |-> w.cur.s, blen |-> w.cur.s + w.cur.r, psize |-> w.cur.p,
     genuine |-> TRUE]

\* end_block_(): the repair packets of the block.
RepairPackets(w) ==
    [k \in 1..w.cur.r |-> FecPacket(w, w.cur.s + k - 1, -2)]

\* write(): the sizes change at the beginning of a block only; the last
\* source packet of a block is followed by the repair packets.
WriteSource ==
    LET w == IF writer.pos = 0 THEN [writer EXCEPT !.cur = writer.next]
             ELSE writer
        source == FecPacket(w, w.pos, w.id)
        ends == w.pos + 1 = w.cur.s
        new == IF ends THEN <<source>> \o RepairPackets(w) ELSE <<source>>
    IN  /\ w.blk < MaxBlocks
        /\ sent' = sent \o new
        /\ copies' = copies \o [k \in DOMAIN new |-> 0]
        /\ writer' = [w EXCEPT !.id = @ + 1,
                               !.pos = IF ends THEN 0 ELSE @ + 1,
                               !.blk = IF ends THEN @ + 1 ELSE @]
        /\ UNCHANGED <<reader, out, last, startBlk>>

\* resize(); the size of the payload is that of the packets to come.
Resize(z) ==
    /\ writer.blk < MaxBlocks
    /\ z # writer.next
    /\ writer' = [writer EXCEPT !.next = z]
    /\ UNCHANGED <<sent, copies, reader, out, last, startBlk>>
-----------------------------------------------------------------------------
(* The network *)

\* A packet reaches the session; the reader fetches it with the next read
\* (fetch_all_packets_) into the queue of its kind.
Deliver(i) ==
    /\ i > Len(sent) - Window
    /\ copies[i] < (IF i \in Repeated THEN 2 ELSE 1)
    /\ copies' = [copies EXCEPT ![i] = @ + 1]
    /\ reader' = IF sent[i].esi < sent[i].sblen
                 THEN [reader EXCEPT !.srcQ = RtpWrite(@, sent[i], SnMod)]
                 ELSE [reader EXCEPT !.repQ = FecWrite(@, sent[i], SbnMod)]
    /\ UNCHANGED <<writer, sent, out, last, startBlk>>

-----------------------------------------------------------------------------
(* fec::Reader *)

\* can_update_payload_size_ and can_update_source_block_size_: sizes change
\* once in a block, with its first packet.
SourceFits(r, p) ==
    /\ p.psize = r.psize \/ ~r.pResized
    /\ p.sblen = r.sblen \/ ~r.sResized

\* and can_update_repair_block_size_
RepairFits(r, p) ==
    /\ SourceFits(r, p)
    /\ p.blen = r.sblen + r.rblen \/ ~r.rResized

\* update_payload_size_ and update_source_block_size_
SourceSizes(r, p) ==
    [r EXCEPT !.psize = p.psize, !.pResized = TRUE,
              !.sblen = p.sblen, !.sResized = TRUE]

\* and update_repair_block_size_
RepairSizes(r, p) ==
    [SourceSizes(r, p) EXCEPT !.rblen = p.blen - p.sblen, !.rResized = TRUE]

Drop(r, q) == [r EXCEPT ![q] = Tail(@)]

\* The rest of the loop of fill_source_block_ or fill_repair_block_ for a
\* packet of the current block, already taken from the queue.
AddSource(r, p) ==
    IF ~SourceFits(r, p) THEN r
    ELSE LET z == SourceSizes(r, p)
         IN  IF \E o \in z.src : o.esi = p.esi THEN z
             ELSE [z EXCEPT !.src = @ \cup {p}, !.canRepair = TRUE]

AddRepair(r, p) ==
    IF ~RepairFits(r, p) THEN r
    ELSE LET z == RepairSizes(r, p)
         IN  IF \E o \in z.rep : o.esi = p.esi THEN z
             ELSE [z EXCEPT !.rep = @ \cup {p}, !.canRepair = TRUE]

RECURSIVE Fill(_, _)
\* fill_source_block_ (q = "srcQ") and fill_repair_block_ (q = "repQ"): takes
\* packets up to the current block from the queue; a jump of the block number
\* shuts the reader down (validate_sbn_sequence_).
Fill(r, q) ==
    IF r[q] = <<>> THEN r
    ELSE LET p == Head(r[q])
             d == BlkDiff(p.sbn, r.sbn)
         IN  IF Abs(d) > MaxSbnJump THEN [r EXCEPT !.alive = FALSE]
             ELSE IF d > 0 THEN r
             ELSE IF d < 0 THEN Fill(Drop(r, q), q)
             ELSE Fill(IF q = "srcQ" THEN AddSource(Drop(r, q), p)
                       ELSE AddRepair(Drop(r, q), p), q)

\* fill_block_()
FillBlock(r) == Fill(Fill(r, "srcQ"), "repQ")

\* Mutant: the source packets of the block before stay in the block.
NextBlockRepeating(r) ==
    FillBlock([r EXCEPT !.rep = {}, !.sbn = (@ + 1) % SbnMod, !.next = 0,
                        !.sResized = FALSE, !.rResized = FALSE,
                        !.pResized = FALSE, !.canRepair = FALSE])

\* next_block_()
NextBlock(r) ==
    FillBlock([r EXCEPT !.src = {}, !.rep = {},
                        !.sbn = (@ + 1) % SbnMod, !.next = 0,
                        !.sResized = FALSE, !.rResized = FALSE,
                        !.pResized = FALSE, !.canRepair = FALSE])

\* The block decoder (external): what it gives for place n.
Decoded(known, n) ==
    LET blks == {p.blk : p \in known}
    IN  IF Cardinality(blks) = 1
        THEN CHOOSE p \in Range(sent) : p.blk \in blks /\ p.esi = n /\ p.id >= 0
        ELSE [FecPacket(writer, n, 0) EXCEPT !.genuine = FALSE]

\* try_repair_(): fills the empty places of the block if there is anything
\* new since the last attempt.
TryRepair(r) ==
    LET known == r.src \cup r.rep
        empty == {n \in 0..r.sblen - 1 : \A p \in r.src : p.esi # n}
    IN  IF ~(r.canRepair /\ r.sResized /\ r.rResized /\ r.pResized) THEN r
        ELSE [r EXCEPT !.canRepair = FALSE,
                       !.src = IF Cardinality(known) < r.sblen THEN @
                               ELSE @ \cup {Decoded(known, n) : n \in empty}]

\* Results of a read: the reader and the packet, None if there is no data.
Result(r, p) == [reader |-> r, packet |-> p]

RECURSIVE TakePacket(_, _)
\* The loop of get_next_packet_(): the packet at the next place, or, with
\* what can be restored, at the first place after it that is filled; the
\* block is given up only if there is a packet of a later one.
TakePacket(r, p) ==
    IF ~r.alive THEN Result(r, None)
    ELSE IF p # None
    THEN LET n == [r EXCEPT !.next = @ + 1]
         IN  Result(IF n.next = n.sblen THEN NextBlock(n) ELSE n, p)
    ELSE LET t == TryRepair(r)
             ahead == {o \in t.src : o.esi >= t.next}
         IN  IF ahead = {}
             THEN IF t.srcQ = <<>> THEN Result(t, None)
                  ELSE TakePacket(NextBlock(t), None)
             ELSE LET o == CHOOSE x \in ahead : \A y \in ahead : x.esi <= y.esi
                      n == [t EXCEPT !.next = o.esi + 1]
                  IN  Result(IF n.next = n.sblen THEN NextBlock(n) ELSE n, o)

\* get_next_packet_()
GetNextPacket(r) ==
    LET f == FillBlock(r)
        here == {p \in f.src : p.esi = f.next}
    IN  TakePacket(f, IF here = {} THEN None ELSE CHOOSE p \in here : TRUE)

RECURSIVE DropRepairPackets(_)
\* drop_repair_packets_from_prev_blocks_()
DropRepairPackets(r) ==
    IF r.repQ # <<>> /\ BlkDiff(Head(r.repQ).sbn, r.sbn) < 0
    THEN DropRepairPackets(Drop(r, "repQ")) ELSE r

\* try_start_(): decoding starts with the first packet of a block.
TryStart(r) ==
    IF r.srcQ = <<>> \/ ~SourceFits(r, Head(r.srcQ)) THEN r
    ELSE LET p == Head(r.srcQ)
             z == [SourceSizes(r, p) EXCEPT !.sbn = p.sbn]
         IN  [DropRepairPackets(z) EXCEPT !.started = (p.esi = 0)]

\* read_(): until decoding starts, source packets are passed on.
ReadResult(r) ==
    LET s == IF r.started THEN r ELSE TryStart(r)
    IN  IF s.started THEN GetNextPacket(s)
        ELSE IF s.srcQ = <<>> THEN Result(s, None)
        ELSE Result(Drop(s, "srcQ"), Head(s.srcQ))

\* read()
Read ==
    /\ reader.alive
    /\ LET res == ReadResult(reader)
       IN  /\ reader' = res.reader
           /\ out' = IF res.reader.alive THEN res.packet ELSE None
           /\ last' = IF res.reader.started /\ out' # None THEN out'.id ELSE last
           /\ startBlk' = IF ~reader.started /\ res.reader.started
                          THEN Head(reader.srcQ).blk ELSE startBlk
    /\ UNCHANGED <<writer, sent, copies>>

Next ==
    \/ WriteSource
    \/ \E z \in Sizes : Resize(z)
    \/ \E i \in DOMAIN sent : Deliver(i)
    \/ Read

Spec == Init /\ [][Next]_vars
-----------------------------------------------------------------------------
(* Properties *)

TypeOK ==
    /\ writer.blk \in 0..MaxBlocks /\ writer.cur \in Sizes /\ writer.next \in Sizes
    /\ copies \in [DOMAIN sent -> 0..2]
    /\ Range(reader.srcQ) \cup Range(reader.repQ) \cup reader.rep \subseteq Range(sent)
    /\ reader.sbn \in 0..SbnMod - 1
    /\ reader.next \in 0..Max({z.s : z \in Sizes})
    /\ {reader.started, reader.alive, reader.canRepair} \subseteq BOOLEAN

\* A packet that the reader returns is a packet of the stream: blocks are
\* never mixed, whatever old or duplicate packets arrive while block numbers
\* wrap (next_block_, fill_block_, validate_sbn_sequence_).
OutputGenuine == out # None => out \in Range(sent) /\ out.id >= 0

\* Once decoding has started, packets are returned in the order of the
\* stream and none is returned twice, neither a duplicate nor a late packet
\* that was already restored (get_next_packet_).
OutputInOrder ==
    (reader'.started /\ out' # out /\ out' # None) => out'.id > last

Arrived(b) == {i \in DOMAIN sent : sent[i].blk = b /\ copies[i] > 0}

\* The promise of the code: a source packet is passed over only if fewer
\* packets of its block have arrived than the block has source packets, so
\* that it could not be restored; and not before a packet of a later place
\* or block has arrived.  In the block where decoding started, packets may
\* already have been passed on.
RestoresWhatItCan ==
    \A i \in DOMAIN sent :
        LET s == sent[i]
        IN  (/\ reader'.started /\ last # last' /\ last < s.id /\ s.id < last'
             /\ s.blk > startBlk /\ last # -1)
            => Cardinality(Arrived(s.blk)) < s.sblen

\* fec::Reader returns only packets of the stream, in order and none twice,
\* and gives up on a packet only when too little of its block has arrived.
FecRestoresInOrder == [][OutputGenuine' /\ OutputInOrder /\ RestoresWhatItCan]_vars

\* reader.cpp:124, "Wait until we receive first packet in block (ESI=0)": the
\* reader does not wait longer than that.
FecStartsAtBlockBegin ==
    [][(Read /\ ~reader.started /\ reader.srcQ # <<>> /\ Head(reader.srcQ).esi = 0)
         => reader'.started]_vars
=============================================================================
