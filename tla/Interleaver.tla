----------------------------- MODULE Interleaver ----------------------------
(***************************************************************************)
(* packet::Interleaver (roc_packet/interleaver.cpp), between the FEC       *)
(* writer and the router of the sender: it sends the packets of a block in *)
(* a random order.  Packets are numbered in the order they are written.    *)
(***************************************************************************)
EXTENDS Naturals, SequencesExt

CONSTANTS
    BlockSize,    \* block_size_
    MaxWritten    \* bound: packets written

VARIABLES
    sendSeq,   \* send_seq_: in which order the slots are sent
    slots,     \* packets_: the packet in each slot, 0 if none
    nextPut,   \* next_2_put_
    nextSend,  \* next_2_send_
    written,   \* history: packets written
    passed     \* history: packets sent, in order

interVars == <<sendSeq, slots, nextPut, nextSend, written, passed>>

Slots == 0..BlockSize - 1

\* reinit_seq_(): any permutation of the slots.
Init ==
    /\ sendSeq \in {f \in [Slots -> Slots] : {f[i] : i \in Slots} = Slots}
    /\ slots = [i \in Slots |-> 0]
    /\ nextPut = 0 /\ nextSend = 0
    /\ written = 0
    /\ passed = <<>>

\* Mutant: one packet is sent for one packet written.
SendOne(s) ==
    LET i == sendSeq[s.send]
    IN  IF s.slots[i] = 0 THEN s
        ELSE [slots |-> [s.slots EXCEPT ![i] = 0],
              send |-> (s.send + 1) % BlockSize,
              passed |-> Append(s.passed, s.slots[i])]

RECURSIVE SendReady(_)
\* The loop of write(): sends while the packet whose turn it is is there.
SendReady(s) ==
    LET i == sendSeq[s.send]
    IN  IF s.slots[i] = 0 THEN s
        ELSE SendReady([slots |-> [s.slots EXCEPT ![i] = 0],
                        send |-> (s.send + 1) % BlockSize,
                        passed |-> Append(s.passed, s.slots[i])])

\* write()
Write ==
    /\ written < MaxWritten
    /\ LET s == SendReady([slots |-> [slots EXCEPT ![nextPut] = written + 1],
                           send |-> nextSend, passed |-> passed])
       IN  slots' = s.slots /\ nextSend' = s.send /\ passed' = s.passed
    /\ nextPut' = (nextPut + 1) % BlockSize
    /\ written' = written + 1
    /\ UNCHANGED sendSeq

\* flush(): sends what is left, and starts a new block.
Flush ==
    LET left == SelectSeq([k \in 1..BlockSize |-> slots[k - 1]], LAMBDA p : p # 0)
    IN  /\ passed' = passed \o left
        /\ slots' = [i \in Slots |-> 0]
        /\ nextPut' = 0 /\ nextSend' = 0
        /\ UNCHANGED <<sendSeq, written>>

Next == Write \/ Flush

Spec == Init /\ [][Next]_interVars

-----------------------------------------------------------------------------
(* Properties *)

TypeOK ==
    /\ slots \in [Slots -> 0..MaxWritten]
    /\ nextPut \in Slots /\ nextSend \in Slots
    /\ written \in 0..MaxWritten

\* Every packet written is sent once or still waits in a slot: none is
\* overwritten by a packet of the next block, none is sent twice, for any
\* order of sending and wherever flush() cuts a block.
InterleaverKeepsPackets ==
    LET waiting == {slots[i] : i \in Slots} \ {0}
    IN  /\ Range(passed) \cup waiting = 1..written
        /\ Range(passed) \cap waiting = {}
        /\ IsInjective(passed)

\* A block leaves as a whole with its last packet at the latest, so a packet
\* waits for fewer than BlockSize - 1 others and the receiver needs no more
\* latency than a block.
InterleaverDelay ==
    \A i \in Slots : slots[i] # 0 => written - slots[i] < BlockSize - 1
=============================================================================
