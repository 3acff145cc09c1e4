---------------------------- MODULE SessionGroup ----------------------------
(***************************************************************************)
(* roc_pipeline/receiver_session_group with the endpoints and the state    *)
(* tracker around it: packets come from network threads into the queue of  *)
(* an endpoint; the pipeline thread pulls them, creates sessions and       *)
(* routes, handles RTCP, and removes sessions that ended.                  *)
(*                                                                         *)
(* Of rtcp::Reporter only what the group sees is here: the CNAME it knows  *)
(* of an SSRC, and when it announces or halts a stream.  Every RTCP packet *)
(* names its CNAME, as RFC 3550 requires.                                  *)
(***************************************************************************)
EXTENDS SessionRouter, Integers, Sequences, FiniteSetsExt

CONSTANTS
    Writers,            \* threads that write packets to the endpoints
    EnableRouting,      \* slot_config_.enable_routing
    Garbled,            \* some packets cannot be parsed
    MaxQueue            \* bound on the packets in the queues of the endpoints

ASSUME GroupAssumption ==
    /\ EnableRouting \in BOOLEAN /\ Garbled \in BOOLEAN
    /\ MaxQueue \in Nat \ {0}

VARIABLES
    sessions,           \* sessions_, and the inputs of the mixer
    active,             \* StateTracker::active_sessions_
    pending,            \* StateTracker::pending_packets_
    known,              \* the reporter's CNAME of an SSRC it got reports from
    queues,             \* inbound_queue_ of each endpoint
    writing,            \* the packet a network thread has counted but not queued
    pl,                 \* what the pipeline thread does: idle, pulls an endpoint, ends
    hand, routed        \* the packet it has in hand, and whether it was routed

groupVars == <<routerVars, sessions, active, pending, known, queues, writing, pl, hand, routed>>

Endpoints == {"source", "repair", "control"}

(* An RTP packet; a repair packet, which has no SSRC; an RTCP report or goodbye. *)
Packets ==
    {[ep |-> "source", ssrc |-> x, addr |-> a, cname |-> None] : x \in Ssrcs, a \in Addrs}
    \cup {[ep |-> "repair", ssrc |-> None, addr |-> a, cname |-> None] : a \in Addrs}
    \cup {[ep |-> "control", ssrc |-> x, addr |-> None, cname |-> c] :
             x \in Ssrcs, c \in Cnames \cup {None}}
    \cup (IF Garbled THEN {[ep |-> "source", ssrc |-> None, addr |-> None, cname |-> None]} ELSE {})

Parses(p) == p.ep # "source" \/ p.ssrc # None
NoPacket == [ep |-> "none"]

-----------------------------------------------------------------------------
(* The group as a value: its routes, its sessions and their number, the reporter's
   CNAMEs, and the status of the call. *)
World == [routes |-> routes, sessions |-> sessions, active |-> active, known |-> known,
          code |-> "OK"]

(* Mutant: the route keeps leading to the removed session. *)
RemoveUnrouted(W, s) ==
    IF s \notin W.sessions THEN [W EXCEPT !.code = "Panic"]
    ELSE [W EXCEPT !.sessions = @ \ {s}, !.active = @ - 1]

(* remove_session_(): mixer and list panic if the session is not there. *)
RemoveGroupSession(W, s) ==
    IF s \notin W.sessions THEN [W EXCEPT !.code = "Panic"]
    ELSE [W EXCEPT !.sessions = @ \ {s}, !.routes = RemoveSession(@, s), !.active = @ - 1]

(* The session an SSRC had is removed if no route leads to it any more. *)
DropIfUnrouted(W, old) ==
    IF old # None /\ ~HasSession(W.routes, old) THEN RemoveGroupSession(W, old) ELSE W

(* halt_recv_stream() *)
HaltRecvStream(W, x) ==
    DropIfUnrouted([W EXCEPT !.routes = UnlinkSource(@, x)], FindBySource(W.routes, x))

(* notify_recv_stream() *)
NotifyRecvStream(W, x, c) ==
    LET Linked(o) == [W EXCEPT !.routes = o.routes, !.code = o.code]
    IN {IF o.code = "OK" THEN DropIfUnrouted(Linked(o), FindBySource(W.routes, x)) ELSE Linked(o)
        : o \in LinkSource(W.routes, x, c)}

(* Reporter::detect_timeouts_(): no report for the streams T for too long. *)
DetectTimeouts(W, T) ==
    LET Halt(x, V) == [HaltRecvStream(V, x) EXCEPT !.known[x] = None]
    IN FoldSet(Halt, W, T)

Reported(W) == {x \in Ssrcs : W.known[x] # None}

(* A report from x: Reporter::process_cname() halts a stream whose CNAME changed;
   end_processing() detects timeouts and announces the stream. *)
ProcessReport(W, x, c, T) ==
    LET V == IF W.known[x] \notin {None, c} THEN HaltRecvStream(W, x) ELSE W
    IN NotifyRecvStream(DetectTimeouts([V EXCEPT !.known[x] = c], T), x, c)

(* Reporter::process_goodbye() and end_processing() *)
ProcessGoodbye(W, x, T) ==
    DetectTimeouts([HaltRecvStream(W, x) EXCEPT !.known[x] = None], T)

(* route_control_packet_() *)
RouteControlPacket(W, p) ==
    UNION {IF p.cname = None THEN {ProcessGoodbye(W, p.ssrc, T)}
           ELSE ProcessReport(W, p.ssrc, p.cname, T)
           : T \in SUBSET (Reported(W) \ {p.ssrc})}

(* create_session_(): a new session, unless it cannot be made or registered. *)
CreateSession(W, p) ==
    LET new == The(Sessions \ W.sessions)
        Registered(o) ==
            IF o.code = "OK"
            THEN [W EXCEPT !.routes = o.routes, !.sessions = @ \cup {new}, !.active = @ + 1]
            ELSE [W EXCEPT !.routes = o.routes, !.code = IF o.code = "Panic" THEN "Panic" ELSE @]
    IN {W} \cup (IF Sessions = W.sessions THEN {}
                 ELSE {Registered(o) : o \in AddSession(W.routes, new, p.ssrc, p.addr)})

(* The session of a packet, found by its SSRC or else by its source address; without
   routing, the only one there is. *)
SessionOf(W, p) ==
    LET found == IF p.ssrc = None THEN None ELSE FindBySource(W.routes, p.ssrc)
    IN IF EnableRouting
       THEN IF found = None THEN FindByAddress(W.routes, p.addr) ELSE found
       ELSE IF W.sessions = {} THEN None ELSE The(W.sessions)

(* route_transport_packet_(): a repair packet creates no session, an RTP packet of
   an unexpected payload type neither (which is among the outcomes of CreateSession). *)
RouteTransportPacket(W, p) ==
    IF ~EnableRouting /\ Cardinality(W.sessions) > 1 THEN {[W EXCEPT !.code = "Panic"]}
    ELSE IF SessionOf(W, p) # None \/ p.ep = "repair" THEN {W}
    ELSE CreateSession(W, p)

(* route_packet() *)
GroupRoutePacket(W, p) ==
    IF p.ep = "control" THEN RouteControlPacket(W, p) ELSE RouteTransportPacket(W, p)

-----------------------------------------------------------------------------
GroupInit ==
    /\ RouterInit
    /\ sessions = {} /\ active = 0 /\ pending = 0
    /\ known = [x \in Ssrcs |-> None]
    /\ queues = [e \in Endpoints |-> <<>>]
    /\ writing = [w \in Writers |-> NoPacket]
    /\ pl = "idle" /\ hand = NoPacket /\ routed = FALSE

(* The group becomes W; any status but OK aborts in ReceiverSlot::refresh(). *)
Become(W) ==
    /\ panicked' = (W.code # "OK")
    /\ IF W.code = "OK"
       THEN routes' = W.routes /\ sessions' = W.sessions /\ active' = W.active /\ known' = W.known
       ELSE UNCHANGED <<routes, sessions, active, known>>

groupState == <<routerVars, sessions, active, known>>

QueuedPackets == MapThenSumSet(LAMBDA e : Len(queues[e]), Endpoints)

(* Mutant: the packet is queued without being counted. *)
WriteUncounted(w, p) ==
    /\ writing[w] = NoPacket /\ QueuedPackets < MaxQueue
    /\ writing' = [writing EXCEPT ![w] = p]
    /\ UNCHANGED <<groupState, queues, pl, hand, routed, pending>>

(* ReceiverEndpoint::write(): first count the packet ... *)
WritePacket(w, p) ==
    /\ writing[w] = NoPacket /\ QueuedPackets < MaxQueue
    /\ writing' = [writing EXCEPT ![w] = p]
    /\ pending' = pending + 1
    /\ UNCHANGED <<groupState, queues, pl, hand, routed>>

(* ... then queue it. *)
QueuePacket(w) ==
    /\ writing[w] # NoPacket
    /\ queues' = [queues EXCEPT ![writing[w].ep] = Append(@, writing[w])]
    /\ writing' = [writing EXCEPT ![w] = NoPacket]
    /\ UNCHANGED <<groupState, pending, pl, hand, routed>>

(* ReceiverSlot::refresh() pulls the endpoints one after the other. *)
StartRefresh ==
    /\ pl = "idle"
    /\ pl' = "source"
    /\ UNCHANGED <<groupState, pending, queues, writing, hand, routed>>

(* pull_packets(): take a packet; one that cannot be parsed is dropped. *)
PopPacket(e) ==
    /\ pl = e /\ hand = NoPacket /\ queues[e] # <<>>
    /\ queues' = [queues EXCEPT ![e] = Tail(@)]
    /\ hand' = IF Parses(Head(queues[e])) THEN Head(queues[e]) ELSE NoPacket
    /\ UNCHANGED <<groupState, pending, writing, pl, routed>>

(* ... hand it to the group ... *)
RoutePacket ==
    /\ hand # NoPacket /\ ~routed
    /\ \E W \in GroupRoutePacket(World, hand) : Become(W)
    /\ routed' = TRUE
    /\ UNCHANGED <<pending, queues, writing, pl, hand>>

(* ... and take it off the count. *)
CountPacket ==
    /\ routed
    /\ pending' = pending - 1
    /\ hand' = NoPacket /\ routed' = FALSE
    /\ UNCHANGED <<groupState, queues, writing, pl>>

After == [source |-> "repair", repair |-> "control", control |-> "sessions"]

(* The endpoint has no more packets, or a write in progress hides them. *)
EndPull(e) ==
    /\ pl = e /\ hand = NoPacket
    /\ queues[e] = <<>> \/ \E w \in Writers : writing[w].ep = e
    /\ pl' = After[e]
    /\ UNCHANGED <<groupState, pending, queues, writing, hand, routed>>

(* refresh_sessions(): generate_reports() detects timeouts, and the sessions whose
   watchdog or latency monitor gave up are removed. *)
RefreshSessions ==
    /\ pl = "sessions"
    /\ \E T \in SUBSET Reported(World) :
          LET V == DetectTimeouts(World, T)
              Remove(s, W) == RemoveGroupSession(W, s)
          IN \E E \in SUBSET V.sessions : Become(FoldSet(Remove, V, E))
    /\ pl' = "idle"
    /\ UNCHANGED <<pending, queues, writing, hand, routed>>

GroupAborted == panicked /\ UNCHANGED groupVars

GroupNext ==
    \/ ~panicked /\
         \/ \E w \in Writers : QueuePacket(w) \/ \E p \in Packets : WritePacket(w, p)
         \/ StartRefresh \/ RoutePacket \/ CountPacket \/ RefreshSessions
         \/ \E e \in Endpoints : PopPacket(e) \/ EndPull(e)
    \/ GroupAborted

GroupSpec == GroupInit /\ [][GroupNext]_groupVars

-----------------------------------------------------------------------------
(* Types of the variables; StateTracker panics if a counter gets negative. *)
GroupTypeOK ==
    /\ RouterTypeOK
    /\ sessions \subseteq Sessions
    /\ active \in Nat /\ pending \in Nat
    /\ known \in [Ssrcs -> Cnames \cup {None}]
    /\ queues \in [Endpoints -> Seq(Packets)]
    /\ writing \in [Writers -> Packets \cup {NoPacket}]
    /\ pl \in Endpoints \cup {"idle", "sessions"}
    /\ hand \in Packets \cup {NoPacket} /\ routed \in BOOLEAN

(* remove_session_() "removes" a session from the mixer, the group and the router
   together, so whatever packets, reports, timeouts and endings come in whatever
   order, the router leads only to sessions the group has, and the state tracker
   counts exactly those. *)
RoutesLeadToSessions ==
    /\ \A i \in DOMAIN routes : routes[i].session \in sessions \cup {None}
    /\ active = Cardinality(sessions)

(* StateTracker::get_state() says Idle, on which the caller may sleep, only when no
   packet is being written, queued or routed and there is no session. *)
IdleMeansNothingToDo ==
    active = 0 /\ pending = 0 =>
        /\ sessions = {}
        /\ hand = NoPacket
        /\ \A e \in Endpoints : queues[e] = <<>>
        /\ \A w \in Writers : writing[w] = NoPacket

(* A packet for which the group finds no session can always get one: the router
   never answers that session or address is already registered ("conflict"), which
   would leave the sender unheard. *)
CreationNeverConflicts ==
    \A p \in Packets, s \in Sessions \ sessions :
        p.ep = "source" /\ Parses(p) /\ SessionOf(World, p) = None =>
            \A o \in AddSession(routes, s, p.ssrc, p.addr) : o.code # "Conflict"

(* "No sessions and packets; we can sleep until there are some" (state_tracker.cpp):
   when no session is left and every packet was handled, the state is Idle. *)
EmptyMeansIdle ==
    /\ sessions = {} /\ hand = NoPacket
    /\ \A e \in Endpoints : queues[e] = <<>>
    /\ \A w \in Writers : writing[w] = NoPacket
    => active = 0 /\ pending = 0

(* has_session() "Will return false after session was removed via remove_session()
   or unlink_source()" (receiver_session_router.h): a session that the group has not
   removed still has a route. *)
SessionsAreRouted == \A s \in sessions : HasSession(routes, s)
=============================================================================
