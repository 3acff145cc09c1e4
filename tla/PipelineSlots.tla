--------------------------- MODULE PipelineSlots ---------------------------
(***************************************************************************)
(* The slots of a sender sink or a receiver source and their endpoints     *)
(* (roc_pipeline: sender_sink, sender_slot, sender_session,                *)
(* sender_endpoint, receiver_source, receiver_slot, receiver_endpoint,     *)
(* endpoint_helpers, state_tracker).                                       *)
(*                                                                         *)
(* Slots and endpoints are created and deleted by tasks of the pipeline,   *)
(* which never run together with a frame (PipelineLoop).  The network      *)
(* thread writes packets into the endpoints' queues at any time; a frame   *)
(* pulls them.  What a receiver's session group does with a packet is the  *)
(* subject of SessionGroup: here sessions come and go.  An allocation, a   *)
(* codec or a resampler may fail in every place where the code asks.       *)
(***************************************************************************)
EXTENDS Naturals, Sequences, SequencesExt, FiniteSetsExt

CONSTANTS
    Sides,          \* subset of {"sender", "receiver"}
    SlotsOf,        \* the slots that each side may have
    PipelineSchemes,\* FEC schemes that a sender may be configured with
    SlotProtos,     \* protocols that endpoints are added with
    MaxPending,     \* bound: pending_packets_
    MaxSessions,    \* bound: sessions of a receiver slot
    MonitorMayFail  \* whether a FeedbackMonitor may turn out to be invalid

VARIABLES
    side,     \* which pipeline
    scheme,   \* sender: sink_config_.fec_encoder.scheme
    slotList, \* slots_
    slots,    \* the slots by their identity
    fanout,   \* sender: slots whose frame_writer_ is an output of fanout_
    active,   \* active_sessions_
    pending,  \* pending_packets_
    writing,  \* the packet that the network thread has counted and not yet queued
    pulling,  \* what the frame has still to pull and refresh
    leaked,   \* history: packets that stay counted
    aborted   \* a roc_panic was reached

slotVars == <<side, scheme, slotList, slots, fanout, active, pending, writing, pulling,
              leaked, aborted>>

SlotIds == SlotsOf[side]
Ifaces == <<"source", "repair", "control">>
NoProto == "none"

\* address::ProtocolAttrs: interface and FEC scheme.
ProtocolAttrs ==
    [rtp |-> <<"source", "none">>, rtcp |-> <<"control", "none">>,
     rs8m_source |-> <<"source", "rs8m">>, rs8m_repair |-> <<"repair", "rs8m">>,
     ldpc_source |-> <<"source", "ldpc">>, ldpc_repair |-> <<"repair", "ldpc">>]
Iface(p) == ProtocolAttrs[p][1]
Scheme(p) == ProtocolAttrs[p][2]

NewSlot ==
    [proto |-> [i \in Range(Ifaces) |-> NoProto], queue |-> [i \in Range(Ifaces) |-> <<>>],
     handed |-> {}, writer |-> FALSE, monitor |-> "none", communicator |-> FALSE,
     multicast |-> FALSE, mapping |-> FALSE, sessions |-> 0, failed |-> FALSE]
NoPacket == [slot |-> "none", iface |-> "none", garbled |-> FALSE]

Init ==
    /\ side \in Sides
    /\ scheme \in IF side = "sender" THEN PipelineSchemes ELSE {"none"}
    /\ slotList = <<>>
    /\ slots = [s \in SlotIds |-> NewSlot]
    /\ fanout = {} /\ active = 0 /\ pending = 0
    /\ writing = NoPacket /\ pulling = <<>>
    /\ leaked = 0 /\ aborted = FALSE

Live == Range(slotList)
Queued(s) == MapThenSumSet(LAMBDA i : Len(slots[s].queue[i]), Range(Ifaces))

\* The constructor of the endpoint: a sender's parses control packets only, a receiver's
\* parses all.
HasParser(i) == side = "sender" => i = "control"

\* Tasks run between frames.
TaskRuns == pulling = <<>> /\ ~aborted
networkVars == <<pending, writing, leaked>>
fixedVars == <<side, scheme>>

-----------------------------------------------------------------------------
(* Tasks.                                                                  *)

\* create_slot(); one that fails changes nothing.
CreateSlot(s) ==
    /\ TaskRuns /\ s \notin Live
    /\ slotList' = Append(slotList, s)
    /\ slots' = [slots EXCEPT ![s] = NewSlot]
    /\ UNCHANGED <<fixedVars, fanout, active, networkVars, pulling, aborted>>

\* delete_slot(): the sender slot leaves the fanout in its destructor, the session group
\* of a receiver slot removes its sessions.  Packets still queued stay counted.  The
\* caller has removed the ports that write to the slot.
DeleteSlot(s) ==
    /\ TaskRuns /\ s \in Live /\ writing.slot # s
    /\ slotList' = SelectSeq(slotList, LAMBDA x : x # s)
    /\ slots' = [slots EXCEPT ![s] = NewSlot]
    /\ fanout' = fanout \ {s}
    /\ active' = active - (IF s \in fanout THEN 1 ELSE slots[s].sessions)
    /\ leaked' = leaked + Queued(s)
    /\ UNCHANGED <<fixedVars, pending, writing, pulling, aborted>>

\* add_endpoint() refuses other calls, and a call whose endpoint cannot be created changes
\* nothing: validate_endpoint(), validate_endpoint_pair_consistency()
\* and, on a sender, validate_endpoint_and_pipeline_consistency(); an interface is set once.
Acceptable(s, i, p) ==
    LET proto == slots[s].proto
    IN  /\ proto[i] = NoProto
        /\ Iface(p) = i
        /\ i = "source" /\ proto["repair"] # NoProto => Scheme(p) = Scheme(proto["repair"])
        /\ i = "repair" =>
              /\ Scheme(p) # "none"
              /\ proto["source"] # NoProto => Scheme(p) = Scheme(proto["source"])
        /\ side = "sender" /\ i # "control" => Scheme(p) = scheme

\* start_feedback_monitor_(): nothing to start before both pipelines exist, or when
\* the reports go to a multicast address; start() panics when the monitor is invalid.
StartFeedbackMonitor(slot) ==
    IF slot.monitor = "valid" /\ slot.communicator /\ ~slot.multicast
    THEN [slot EXCEPT !.monitor = "started"]
    ELSE slot
StartPanics(slot) == slot.monitor = "invalid" /\ slot.communicator /\ ~slot.multicast

\* The slot with a new endpoint.
WithEndpoint(s, i, p) == [slots[s] EXCEPT !.proto[i] = p]

\* The endpoint that add_endpoint() returns to the caller, or NULL.
Returned(slot, i) == [slot EXCEPT !.handed = @ \cup {i}]
NotReturned(slot) == [slot EXCEPT !.failed = TRUE]

\* Mutant: only create_control_pipeline() starts the monitor.
CreateTransportUnstarted(s, slot, i) ==
    \/ /\ slots' = [slots EXCEPT ![s] = Returned([slot EXCEPT !.writer = TRUE,
                                                            !.monitor = "valid"], i)]
       /\ fanout' = fanout \cup {s}
       /\ active' = active + 1
    \/ /\ \E m \in {"none"} \cup (IF MonitorMayFail THEN {"invalid"} ELSE {}) :
             slots' = [slots EXCEPT ![s] = NotReturned([slot EXCEPT !.monitor = m])]
       /\ UNCHANGED <<fanout, active>>

\* create_transport_pipeline(), and the fanout gets its frame_writer_.  When a step fails
\* the endpoint stays set; the last step is the monitor.
CreateTransportPipeline(s, slot, i) ==
    \/ /\ slots' = [slots EXCEPT ![s] =
                       Returned(StartFeedbackMonitor([slot EXCEPT !.writer = TRUE,
                                                                  !.monitor = "valid"]), i)]
       /\ fanout' = fanout \cup {s}
       /\ active' = active + 1
    \/ /\ \E m \in {"none"} \cup (IF MonitorMayFail THEN {"invalid"} ELSE {}) :
             slots' = [slots EXCEPT ![s] = NotReturned([slot EXCEPT !.monitor = m])]
       /\ UNCHANGED <<fanout, active>>

\* create_control_pipeline() of a sender session, with the address of the endpoint.
CreateControlPipeline(s, slot) ==
    \/ \E multicast \in BOOLEAN :
         LET next == [slot EXCEPT !.communicator = TRUE, !.multicast = multicast]
         IN  /\ slots' = [slots EXCEPT ![s] = Returned(StartFeedbackMonitor(next), "control")]
             /\ aborted' = StartPanics(next)
    \/ /\ slots' = [slots EXCEPT ![s] = NotReturned(slot)]
       /\ UNCHANGED aborted

taskVars == <<fixedVars, slotList, networkVars, pulling>>

\* SenderSlot::add_endpoint().
AddSenderEndpoint(s, i, p) ==
    LET slot == WithEndpoint(s, i, p)
        complete == /\ slot.proto["source"] # NoProto
                    /\ slot.proto["repair"] # NoProto \/ scheme = "none"
    IN  /\ TaskRuns /\ s \in Live /\ side = "sender"
        /\ Acceptable(s, i, p)
        /\ CASE i = "control" -> CreateControlPipeline(s, slot) /\ UNCHANGED <<fanout, active>>
             [] i # "control" /\ complete ->
                   IF slot.writer THEN aborted' = TRUE /\ UNCHANGED <<slots, fanout, active>>
                   ELSE CreateTransportPipeline(s, slot, i) /\ UNCHANGED aborted
             [] OTHER -> /\ slots' = [slots EXCEPT ![s] = Returned(slot, i)]
                         /\ UNCHANGED <<fanout, active, aborted>>
        /\ UNCHANGED taskVars

\* ReceiverSlot::add_endpoint(): the control endpoint needs the communicator of the
\* session group, and is reset when there is none.
AddReceiverEndpoint(s, i, p) ==
    LET slot == Returned(WithEndpoint(s, i, p), i)
    IN  /\ TaskRuns /\ s \in Live /\ side = "receiver"
        /\ Acceptable(s, i, p)
        /\ slots' = [slots EXCEPT ![s] = IF i = "control"
                                         THEN [slot EXCEPT !.communicator = TRUE] ELSE slot]
        /\ UNCHANGED <<taskVars, fanout, active, aborted>>

-----------------------------------------------------------------------------
(* The network thread: SenderEndpoint::write(), ReceiverEndpoint::write(). *)

CountPacket(s, i, garbled) ==
    /\ s \in Live /\ i \in slots[s].handed
    /\ HasParser(i)
    /\ writing = NoPacket /\ pending < MaxPending /\ ~aborted
    /\ pending' = pending + 1
    /\ writing' = [slot |-> s, iface |-> i, garbled |-> garbled]
    /\ UNCHANGED <<fixedVars, slotList, slots, fanout, active, pulling, leaked, aborted>>

PushPacket ==
    /\ writing # NoPacket
    /\ slots' = [slots EXCEPT ![writing.slot].queue[writing.iface] = Append(@, writing.garbled)]
    /\ writing' = NoPacket
    /\ UNCHANGED <<fixedVars, slotList, fanout, active, pending, pulling, leaked, aborted>>

-----------------------------------------------------------------------------
(* A frame.                                                                *)

\* What refresh() of the sink or source goes through: for each slot its endpoints with
\* a parser, then the session or the session group.
RefreshOrder ==
    LET pulls(s) == SelectSeq(Ifaces, LAMBDA i : slots[s].proto[i] # NoProto /\ HasParser(i))
        steps(s) == [k \in 1..Len(pulls(s)) |-> <<s, pulls(s)[k]>>] \o <<<<s, "refresh">>>>
    IN  FlattenSeq([k \in 1..Len(slotList) |-> steps(slotList[k])])

\* A sender writes the frame to the sessions of the fanout, some of which finish a packet
\* with it (TimestampExtractor gets a mapping), then refreshes; a receiver refreshes first.
StartFrame ==
    /\ TaskRuns /\ slotList # <<>>
    /\ \E sent \in SUBSET fanout :
         slots' = [s \in SlotIds |-> [slots[s] EXCEPT !.mapping = @ \/ s \in sent]]
    /\ pulling' = RefreshOrder
    /\ UNCHANGED <<fixedVars, slotList, fanout, active, networkVars, aborted>>

\* pull_packets() and route_packet() for one packet.  A packet that cannot be parsed is
\* dropped and stays counted; a packet may create a session of a receiver.
PullPacket(s, i) ==
    LET garbled == Head(slots[s].queue[i])
        popped == [slots EXCEPT ![s].queue[i] = Tail(@)]
    IN  /\ slots[s].queue[i] # <<>>
        /\ CASE garbled ->
                  slots' = popped /\ leaked' = leaked + 1 /\ UNCHANGED <<active, pending, aborted>>
             [] ~garbled /\ i = "control" ->
                  /\ slots' = popped /\ pending' = pending - 1
                  /\ aborted' = ~slots[s].communicator
                  /\ UNCHANGED <<active, leaked>>
             [] OTHER ->
                  \E new \in {0, 1} :
                     /\ slots[s].sessions + new <= MaxSessions
                     /\ slots' = [popped EXCEPT ![s].sessions = @ + new]
                     /\ active' = active + new
                     /\ pending' = pending - 1
                     /\ UNCHANGED <<leaked, aborted>>
        /\ UNCHANGED <<fixedVars, slotList, fanout, writing, pulling>>

\* try_pop_front_exclusive() finds no packet, or one that is being added.
NoMorePackets(s, i) ==
    /\ slots[s].queue[i] = <<>> \/ (writing.slot = s /\ writing.iface = i)
    /\ pulling' = Tail(pulling)
    /\ UNCHANGED <<fixedVars, slotList, slots, fanout, active, networkVars, aborted>>

\* SenderSession::refresh() generates reports and changes nothing here;
\* refresh_sessions() removes the sessions that have ended.
RefreshSlot(s) ==
    \E left \in 0..slots[s].sessions :
       /\ slots' = [slots EXCEPT ![s].sessions = left]
       /\ active' = active - (slots[s].sessions - left)
       /\ pulling' = Tail(pulling)
       /\ UNCHANGED <<fixedVars, slotList, fanout, networkVars, aborted>>

FrameStep ==
    /\ pulling # <<>> /\ ~aborted
    /\ LET s == Head(pulling)[1]
           i == Head(pulling)[2]
       IN  IF i = "refresh" THEN RefreshSlot(s) ELSE PullPacket(s, i) \/ NoMorePackets(s, i)

-----------------------------------------------------------------------------

Next ==
    \/ \E s \in SlotIds : CreateSlot(s) \/ DeleteSlot(s)
    \/ \E s \in SlotIds, i \in Range(Ifaces), p \in SlotProtos :
          AddSenderEndpoint(s, i, p) \/ AddReceiverEndpoint(s, i, p)
    \/ \E s \in SlotIds, i \in Range(Ifaces), garbled \in BOOLEAN : CountPacket(s, i, garbled)
    \/ PushPacket \/ StartFrame \/ FrameStep

SlotsSpec == Init /\ [][Next]_slotVars

-----------------------------------------------------------------------------

SlotsTypeOK ==
    /\ side \in Sides /\ scheme \in PipelineSchemes \cup {"none"}
    /\ Live \subseteq SlotIds /\ fanout \subseteq SlotIds
    /\ active \in Nat /\ pending \in Nat /\ leaked \in Nat
    /\ \A s \in SlotIds : slots[s].sessions \in 0..MaxSessions

\* active_sessions_ is the number of sessions that play or send, and pending_packets_ counts
\* every packet from before it is queued until it is routed (add_active_sessions(),
\* add_pending_packets()).
SlotsCounted ==
    /\ active = IF side = "sender" THEN Cardinality(fanout)
                ELSE MapThenSumSet(LAMBDA s : slots[s].sessions, SlotIds)
    /\ pending = leaked + MapThenSumSet(Queued, SlotIds) + (IF writing = NoPacket THEN 0 ELSE 1)

\* StateTracker::get_state() says "idle, we can sleep" only when no packet waits in a queue,
\* no session plays and no slot sends.
SlotsIdleMeansNothingToDo ==
    active = 0 /\ pending = 0 =>
        /\ fanout = {} /\ writing = NoPacket
        /\ \A s \in SlotIds : Queued(s) = 0 /\ slots[s].sessions = 0

\* Whatever the order in which endpoints are added and slots deleted, and whichever call
\* failed: frames are fanned out to the live slots with a complete transport pipeline and to no
\* other; the endpoints of such a slot agree on the FEC scheme of the pipeline; and a slot
\* where no call failed has its pipeline as soon as its endpoints are there.
SlotsFeedComplete ==
    side = "sender" =>
        /\ fanout = {s \in Live : slots[s].writer}
        /\ \A s \in Live :
              LET proto == slots[s].proto
                  set == {i \in {"source", "repair"} : proto[i] # NoProto}
                  complete == "source" \in set /\ ("repair" \in set \/ scheme = "none")
              IN  /\ \A i \in set : Scheme(proto[i]) = scheme
                  /\ slots[s].writer => complete
                  /\ complete /\ ~slots[s].failed => slots[s].writer

\* A sender gathers the feedback of its receiver exactly when it sends and has a control
\* endpoint with a unicast address, in whichever order the endpoints were added
\* (start_feedback_monitor_()).
SlotsMonitorStarted ==
    \A s \in SlotIds :
       slots[s].monitor = "started" <=>
           slots[s].writer /\ slots[s].communicator /\ ~slots[s].multicast

\* Source and repair endpoint of a receiver slot use one FEC scheme
\* (validate_endpoint_pair_consistency()).
SlotsPairsConsistent ==
    \A s \in Live :
       LET proto == slots[s].proto
       IN  proto["source"] # NoProto /\ proto["repair"] # NoProto =>
              Scheme(proto["source"]) = Scheme(proto["repair"]) /\ Scheme(proto["repair"]) # "none"

\* No control packet is routed before there is a communicator, and no pipeline is built twice
\* (the panics of route_control_packet_(), create_transport_pipeline() and
\* FeedbackMonitor::start()).
SlotsNeverPanic == ~aborted
=============================================================================
