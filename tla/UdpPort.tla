------------------------------ MODULE UdpPort ------------------------------
(***************************************************************************)
(* netio::UdpPort: packets are written by any thread and sent either       *)
(* directly, by a non-blocking system call on the writing thread, or by    *)
(* the network thread, which the writer wakes through write_sem_.  Closing *)
(* is asynchronous: it starts when the last pending packet is gone, and    *)
(* the network loop hears of it when libuv has closed both handles.        *)
(*                                                                         *)
(* The owner is the thread that opens the port and later unlinks it from   *)
(* a node.  node::Sender deletes the pipeline slot, whose threads are the  *)
(* writers, before the port; node::Receiver deletes the port first         *)
(* (PortsFirst).  Callbacks of libuv run on one thread, so each of them is *)
(* one step, except for the loop of write_sem_cb_, which runs concurrently *)
(* with the writers packet by packet.                                      *)
(***************************************************************************)
EXTENDS Integers, Sequences, FiniteSets

CONSTANTS
    Writers,            \* threads that write packets
    MaxPackets,         \* bound: packets written by each of them
    NonBlocking,        \* UdpConfig::enable_non_blocking
    PortsFirst,         \* the slot that uses the port outlives it
    Multicast           \* UdpConfig::multicast_interface is set

ASSUME UdpAssumption ==
    /\ IsFiniteSet(Writers) /\ MaxPackets \in Nat
    /\ {NonBlocking, PortsFirst, Multicast} \subseteq BOOLEAN

VARIABLES
    port,       \* handle_, write_sem_, recv_started_, multicast_group_joined_,
                \* want_close_, closed_
    pending,    \* pending_packets_
    queue,      \* outbound_queue_
    wake,       \* uv_async_send() was called and write_sem_cb_ has not started
    inCb,       \* the network thread is in the loop of write_sem_cb_
    inflight,   \* packets given to uv_udp_send(), whose send_cb_ is to come
    wpc,        \* where each writer is in write()
    written,    \* packets each writer has written
    sent,       \* for each writer, the packets that left, in order
    refused,    \* history: packets that uv_udp_send() did not take
    owner,      \* what the owner of the port is doing
    slot,       \* a pipeline slot has the writer that start_send() returned
    fault       \* why the process aborted, or "none"

net == <<port, queue, wake, inCb, inflight>>
writing == <<wpc, written>>
vars == <<port, pending, queue, wake, inCb, inflight, wpc, written, sent, refused, owner, slot,
          fault>>

-----------------------------------------------------------------------------
(* Pieces of the port. *)

FullyClosed(p) == (p.handle = "none" /\ p.sem = "none") \/ p.closed

CloseHandle(h) == IF h = "open" THEN "closing" ELSE h

StartClosing(p) ==
    IF FullyClosed(p) THEN p
    ELSE [p EXCEPT !.recv = FALSE, !.joined = FALSE,
                   !.handle = CloseHandle(@), !.sem = CloseHandle(@)]

Abort(why) == fault' = why

Transmit(pkt) == sent' = [sent EXCEPT ![pkt[1]] = Append(@, pkt[2])]

Init ==
    /\ port = [handle |-> "none", sem |-> "none", recv |-> FALSE, joined |-> FALSE,
               wantClose |-> FALSE, closed |-> FALSE]
    /\ pending = 0 /\ queue = <<>> /\ wake = FALSE /\ inCb = FALSE /\ inflight = <<>>
    /\ wpc = [w \in Writers |-> "idle"]
    /\ written = [w \in Writers |-> 0]
    /\ sent = [w \in Writers |-> <<>>] /\ refused = {}
    /\ owner = "adding" /\ slot = FALSE /\ fault = "none"

-----------------------------------------------------------------------------
(* A writer.  A packet is <<writer, number>>. *)

Packet(w) == <<w, written[w]>>

\* Another thread may find the port destroyed: it holds a plain pointer.
Write(w) ==
    /\ slot /\ wpc[w] = "idle" /\ written[w] < MaxPackets
    /\ IF owner = "gone" THEN Abort("destroyed") /\ UNCHANGED writing
       ELSE IF port.wantClose THEN Abort("closed sender") /\ UNCHANGED writing
       ELSE /\ wpc' = [wpc EXCEPT ![w] = "count"]
            /\ written' = [written EXCEPT ![w] = @ + 1]
            /\ UNCHANGED fault
    /\ UNCHANGED <<net, pending, sent, refused, owner, slot>>

\* A mutant that tries to send past one pending packet.
CountLate(w) ==
    /\ wpc[w] = "count"
    /\ pending' = pending + 1
    /\ wpc' = [wpc EXCEPT ![w] = IF NonBlocking /\ pending <= 1 THEN "try" ELSE "push"]
    /\ UNCHANGED <<net, written, sent, refused, owner, slot, fault>>

CountPending(w) ==
    /\ wpc[w] = "count"
    /\ pending' = pending + 1
    /\ wpc' = [wpc EXCEPT ![w] = IF NonBlocking /\ pending = 0 THEN "try" ELSE "push"]
    /\ UNCHANGED <<net, written, sent, refused, owner, slot, fault>>

TryNonblockingWrite(w) ==
    /\ wpc[w] = "try"
    /\ \/ /\ Transmit(Packet(w))
          /\ wpc' = [wpc EXCEPT ![w] = "uncount"]
       \/ /\ wpc' = [wpc EXCEPT ![w] = "push"]
          /\ UNCHANGED sent
    /\ UNCHANGED <<net, pending, written, refused, owner, slot, fault>>

Uncount(w) ==
    /\ wpc[w] = "uncount"
    /\ pending' = pending - 1
    /\ wpc' = [wpc EXCEPT ![w] = "idle"]
    /\ UNCHANGED <<net, written, sent, refused, owner, slot, fault>>

\* The push takes effect; until Notify it may still be in progress.
PushPacket(w) ==
    /\ wpc[w] = "push"
    /\ queue' = Append(queue, Packet(w))
    /\ wpc' = [wpc EXCEPT ![w] = "notify"]
    /\ UNCHANGED <<port, pending, wake, inCb, inflight, written, sent, refused, owner, slot, fault>>

Notify(w) ==
    /\ wpc[w] = "notify"
    /\ wake' = TRUE
    /\ wpc' = [wpc EXCEPT ![w] = "idle"]
    /\ UNCHANGED <<port, pending, queue, inCb, inflight, written, sent, refused, owner, slot, fault>>

-----------------------------------------------------------------------------
(* Callbacks of the network thread. *)

\* libuv calls nothing for a handle that is being closed.
WriteSemCb ==
    /\ ~inCb /\ wake /\ port.sem = "open"
    /\ wake' = FALSE /\ inCb' = TRUE
    /\ UNCHANGED <<port, pending, queue, inflight, writing, sent, refused, owner, slot, fault>>

\* Head(queue) is not popped while its own push is in progress.  A packet that libuv
\* refuses stays counted in pending_packets_.
PopPacket ==
    /\ inCb /\ queue # <<>>
    /\ wpc[Head(queue)[1]] = "notify" => Packet(Head(queue)[1]) # Head(queue)
    /\ queue' = Tail(queue)
    /\ \/ inflight' = Append(inflight, Head(queue)) /\ UNCHANGED refused
       \/ refused' = refused \cup {Head(queue)} /\ UNCHANGED inflight
    /\ UNCHANGED <<port, pending, wake, inCb, writing, sent, owner, slot, fault>>

PopNothing ==
    /\ inCb
    /\ queue = <<>> \/ \E w \in Writers : wpc[w] = "notify"
    /\ inCb' = FALSE
    /\ UNCHANGED <<port, pending, queue, wake, inflight, writing, sent, refused, owner, slot, fault>>

\* libuv has sent the oldest packet.
SendCb ==
    /\ ~inCb /\ inflight # <<>>
    /\ Transmit(Head(inflight))
    /\ inflight' = Tail(inflight)
    /\ pending' = pending - 1
    /\ port' = IF pending = 1 /\ port.wantClose THEN StartClosing(port) ELSE port
    /\ UNCHANGED <<queue, wake, inCb, writing, refused, owner, slot, fault>>

\* alloc_cb_ and recv_cb_ follow each other on the network thread.  Without a
\* buffer libuv reports an error, and the buffer of recv_cb_ is a null pointer.
Receive ==
    /\ ~inCb /\ port.recv
    /\ \/ UNCHANGED fault
       \/ Abort("null buffer")
    /\ UNCHANGED <<net, pending, writing, sent, refused, owner, slot>>

\* The loop calls handle_close_completed() when both handles are closed, which
\* finishes the task that the owner waits for.
CloseCb ==
    /\ ~inCb
    /\ \E h \in {"handle", "sem"} :
        LET p == [port EXCEPT ![h] = "none"] IN
        /\ port[h] = "closing"
        /\ IF p.handle # "none" \/ p.sem # "none"
           THEN port' = p /\ UNCHANGED owner
           ELSE port' = [p EXCEPT !.closed = TRUE] /\ owner' = "removed"
    /\ UNCHANGED <<pending, queue, wake, inCb, inflight, writing, sent, refused, slot, fault>>

-----------------------------------------------------------------------------
(* The tasks the owner schedules on the network thread and waits for. *)

AsyncClose(p) ==
    LET q == [p EXCEPT !.wantClose = TRUE] IN
    /\ port' = IF pending = 0 THEN StartClosing(q) ELSE q
    /\ owner' = IF FullyClosed(q) THEN "removed" ELSE "removing"

\* task_add_udp_port_: a port that could not be opened is closed again.
AddUdpPort ==
    /\ ~inCb /\ owner = "adding"
    /\ \/ port' = [port EXCEPT !.handle = "open"] /\ owner' = "running"
       \/ AsyncClose(port)
       \/ AsyncClose([port EXCEPT !.handle = "open"])
    /\ UNCHANGED <<pending, queue, wake, inCb, inflight, writing, sent, refused, slot, fault>>

StartSend ==
    /\ ~inCb /\ owner = "running" /\ port.sem = "none"
    /\ port' = [port EXCEPT !.sem = "open"]
    /\ slot' = TRUE
    /\ UNCHANGED <<pending, queue, wake, inCb, inflight, writing, sent, refused, owner, fault>>

\* Joining the group may succeed and receiving still fail.
StartRecv ==
    /\ ~inCb /\ owner = "running" /\ port.handle = "open"
    /\ \/ port' = [port EXCEPT !.recv = TRUE, !.joined = Multicast]
       \/ Multicast /\ port' = [port EXCEPT !.joined = TRUE]
    /\ UNCHANGED <<pending, queue, wake, inCb, inflight, writing, sent, refused, owner, slot, fault>>

RemovePort ==
    /\ ~inCb /\ owner = "running" /\ (PortsFirst \/ ~slot)
    /\ AsyncClose(port)
    /\ UNCHANGED <<pending, queue, wake, inCb, inflight, writing, sent, refused, slot, fault>>

\* The destructor.
DestroyPort ==
    /\ owner = "removed"
    /\ IF port.handle # "none" \/ pending # 0 THEN Abort("destructor") /\ UNCHANGED owner
       ELSE owner' = "gone" /\ UNCHANGED fault
    /\ UNCHANGED <<net, pending, writing, sent, refused, slot>>

\* A task of the pipeline: no writer is in the middle of a write.
DeleteSlot ==
    /\ slot /\ \A w \in Writers : wpc[w] = "idle"
    /\ IF PortsFirst THEN owner = "gone" ELSE owner = "running"
    /\ slot' = FALSE
    /\ UNCHANGED <<net, pending, writing, sent, refused, owner, fault>>

\* The port is gone, or the process is.
Finished == ((owner = "gone" /\ (PortsFirst => ~slot)) \/ fault # "none") /\ UNCHANGED vars

-----------------------------------------------------------------------------
WriterStep(w) ==
    CountPending(w) \/ TryNonblockingWrite(w) \/ Uncount(w) \/ PushPacket(w) \/ Notify(w)

Network == WriteSemCb \/ PopPacket \/ PopNothing \/ SendCb \/ CloseCb

Owner == AddUdpPort \/ StartSend \/ StartRecv \/ RemovePort \/ DestroyPort \/ DeleteSlot

Next ==
    \/ fault = "none" /\ ((\E w \in Writers : Write(w) \/ WriterStep(w)) \/ Network \/ Receive \/ Owner)
    \/ Finished

Spec == Init /\ [][Next]_vars

\* A write that began is finished; libuv keeps calling back and sending.
FairSpec ==
    /\ Spec
    /\ \A w \in Writers : WF_vars(fault = "none" /\ WriterStep(w))
    /\ WF_vars(fault = "none" /\ Network)

-----------------------------------------------------------------------------
Packets == Writers \X (1 .. MaxPackets)

PortStates ==
    [handle : {"none", "open", "closing"}, sem : {"none", "open", "closing"},
     recv : BOOLEAN, joined : BOOLEAN, wantClose : BOOLEAN, closed : BOOLEAN]

\* Type correctness.
TypeOK ==
    /\ port \in PortStates
    /\ pending \in Nat
    /\ queue \in Seq(Packets) /\ inflight \in Seq(Packets) /\ refused \subseteq Packets
    /\ wake \in BOOLEAN /\ inCb \in BOOLEAN /\ slot \in BOOLEAN
    /\ wpc \in [Writers -> {"idle", "count", "try", "uncount", "push", "notify"}]
    /\ written \in [Writers -> 0 .. MaxPackets]
    /\ sent \in [Writers -> Seq(1 .. MaxPackets)]
    /\ owner \in {"adding", "running", "removing", "removed", "gone"}
    /\ fault \in {"none", "destroyed", "closed sender", "null buffer", "destructor"}

\* The packets of one thread leave in the order in which write() took them,
\* although some are sent by the writer itself and some by the network thread:
\* the direct path is taken only when nothing is pending.
SentInOrder ==
    \A w \in Writers : \A i, j \in 1 .. Len(sent[w]) : i < j => sent[w][i] < sent[w][j]

\* pending_packets_ counts the packets in the queue, those with libuv, the writers
\* between their increment and the push or the decrement, and what libuv refused.
Counted == {w \in Writers : wpc[w] \in {"try", "uncount", "push"}}
PendingPacketsExact ==
    pending = Len(queue) + Len(inflight) + Cardinality(refused) + Cardinality(Counted)

\* A port is not closed under a packet that is on its way.
NotClosedUnderPackets == port.handle # "open" => queue = <<>> /\ inflight = <<>>

\* When the removal of a port completes, every packet that was written has left,
\* nothing refers to the port any more, and it neither receives nor is a member
\* of its multicast group.
NothingLostByClosing ==
    owner \in {"removed", "gone"} =>
        /\ ~port.recv /\ ~port.joined /\ ~inCb
        /\ \A w \in Writers : /\ wpc[w] = "idle"
                              /\ {sent[w][i] : i \in 1 .. Len(sent[w])} = 1 .. written[w]

\* All of it, the last two if no thread writes to a port that is being removed.
UdpSendsAllInOrder ==
    /\ SentInOrder /\ PendingPacketsExact
    /\ ~PortsFirst => NotClosedUnderPackets /\ NothingLostByClosing

\* udp_port.cpp:432, and the destructor: no thread writes to a port that is being
\* closed or was destroyed, and no port is destroyed with handles or packets.
NeverAborts == fault \notin {"destroyed", "closed sender", "destructor"}

\* udp_port.cpp:269: recv_cb_ always gets a buffer that alloc_cb_ returned.
ReceivesIntoBuffer == fault # "null buffer"

-----------------------------------------------------------------------------
\* The inductive invariant.  Packets of the same writer follow each other, from those
\* that left over those with libuv to those in the queue;
Follow(p, q) == p[1] = q[1] => p[2] < q[2]

PacketsInOrder ==
    /\ \A i, j \in 1 .. Len(queue) : i < j => Follow(queue[i], queue[j])
    /\ \A i, j \in 1 .. Len(inflight) : i < j => Follow(inflight[i], inflight[j])
    /\ \A i \in 1 .. Len(inflight), j \in 1 .. Len(queue) : Follow(inflight[i], queue[j])
    /\ \A w \in Writers : \A i \in 1 .. Len(sent[w]) :
          /\ \A j \in 1 .. Len(inflight) : Follow(<<w, sent[w][i]>>, inflight[j])
          /\ \A j \in 1 .. Len(queue) : Follow(<<w, sent[w][i]>>, queue[j])

\* the packet that a writer has in hand is none of them;
Taken == [w \in Writers |-> IF wpc[w] \in {"count", "try", "push"} THEN written[w] - 1
                                                                ELSE written[w]]

PacketsTaken ==
    /\ \A w \in Writers : \A i \in 1 .. Len(sent[w]) : sent[w][i] <= Taken[w]
    /\ \A i \in 1 .. Len(inflight) : inflight[i][2] <= Taken[inflight[i][1]]
    /\ \A i \in 1 .. Len(queue) : queue[i][2] <= Taken[queue[i][1]] /\ queue[i] \notin refused
    /\ \A p \in refused : p[2] <= Taken[p[1]]
    /\ \A w \in Writers : wpc[w] \in {"count", "try", "push"} => written[w] > 0

\* a writer that sends directly has none on the way;
DirectAlone ==
    \A w \in Writers : wpc[w] = "try" =>
        /\ \A i \in 1 .. Len(inflight) : inflight[i][1] # w
        /\ \A i \in 1 .. Len(queue) : queue[i][1] # w

\* none is missing;
PacketsKept ==
    \A w \in Writers : \A k \in 1 .. Taken[w] :
        \/ \E i \in 1 .. Len(sent[w]) : sent[w][i] = k
        \/ \E i \in 1 .. Len(inflight) : inflight[i] = <<w, k>>
        \/ \E i \in 1 .. Len(queue) : queue[i] = <<w, k>>
        \/ <<w, k>> \in refused

\* and if the slot is deleted first: who may still use the port, and that it is closed
\* when nothing is pending.
PortPhases ==
    /\ slot => owner = "running"
    /\ \A w \in Writers : wpc[w] # "idle" => slot
    /\ owner \in {"adding", "running"} => ~port.wantClose /\ ~port.closed
    /\ owner = "adding" => port.handle = "none" /\ port.sem = "none"
    /\ owner = "running" => port.handle = "open"
    /\ owner \in {"removed", "gone"} => port.handle = "none" /\ port.sem = "none"
    /\ port.handle # "open" => pending = 0 /\ ~port.recv /\ ~port.joined /\ port.sem # "open"
    /\ port.sem = "closing" => port.handle # "open"
    /\ inCb => port.sem = "open"

UdpInv ==
    /\ TypeOK /\ IsFiniteSet(refused) /\ PendingPacketsExact
    /\ SentInOrder /\ PacketsInOrder /\ PacketsTaken /\ DirectAlone /\ PacketsKept
    /\ ~PortsFirst => PortPhases /\ NeverAborts

-----------------------------------------------------------------------------
\* Every packet that write() took is eventually sent or refused: the network thread is
\* woken again when it gave up on a push in progress.
WrittenIsSent ==
    \A w \in Writers : \A n \in 1 .. MaxPackets :
        written[w] = n ~> \/ Len(sent[w]) + Cardinality({p \in refused : p[1] = w}) >= n
                          \/ fault # "none"

\* The task that removes a port finishes, unless a refused packet keeps it open (or the
\* process aborted).
RemovalFinishes == owner = "removing" ~> (owner = "removed" \/ refused # {} \/ fault # "none")
=============================================================================
