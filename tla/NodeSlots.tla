----------------------------- MODULE NodeSlots -----------------------------
(***************************************************************************)
(* The slots of the sender and receiver nodes (roc_node/receiver.cpp and   *)
(* roc_node/sender.cpp): what configure(), bind(), connect(), unlink() and *)
(* the destructor do to the ports of the network loop and to the slots and *)
(* endpoints of the pipeline.                                              *)
(*                                                                         *)
(* A node's mutex lets one call run at a time.  A call is a chain of tasks *)
(* that the network loop and the pipeline loop run for it, each of which   *)
(* may fail; between two tasks the network thread goes on writing received *)
(* packets to endpoints and the pipeline goes on writing packets to ports, *)
(* so the properties about those writers hold between the tasks too.       *)
(*                                                                         *)
(* A pipeline slot and a network port are numbers.  The protocol of an     *)
(* endpoint is the FEC scheme it implies ("none" for bare RTP and RTCP).   *)
(* A UdpConfig is the family of its bind address, 0 when it has none.      *)
(***************************************************************************)
EXTENDS Naturals, FiniteSets, Functions, TLC

CONSTANTS
    NodeRoles,       \* the kinds of node a run opens: "receiver", "sender"
    SlotIndices,     \* for each role, the slot indices the application uses
    UsedIfaces,      \* for each role, the interfaces it uses
    Schemes,         \* the FEC schemes of the endpoints it asks for
    PipelineScheme,  \* the FEC scheme a sender is configured with
    Configs,         \* the interface configurations it passes to configure()
    Families,        \* for each role, the address families of the endpoints
    Unusual          \* a subset of {"rebind", "query broken", "no memory"}

VARIABLES
    role,      \* the kind of node that is open
    slotMap,   \* slot_map_: the node's slots, by index
    ports,     \* the open ports of the network loop
    pslots,    \* the slots of the pipeline
    used,      \* used_interfaces_ and used_protocols_
    call,      \* the call that holds the node's mutex
    panicked   \* a roc_panic() was reached

nodeVars == <<role, slotMap, ports, pslots, used, call, panicked>>

Ifaces == {"source", "repair", "control"}
Null == 0
None == "absent"
Ids == 1 .. 2 * Cardinality(SlotIndices[role]) * Cardinality(Ifaces)
Idle == [op |-> "idle"]

(* Receiver::Slot and Sender::Slot, and the Port of each interface. *)
NewPort == [handle |-> Null, config |-> 0, origConfig |-> 0, sends |-> FALSE]
NewSlot(h) == [handle |-> h, broken |-> FALSE, ports |-> [i \in Ifaces |-> NewPort]]
NoEndpoint == [proto |-> None]

Fresh(f) == CHOOSE id \in Ids : id \notin DOMAIN f
Without(f, x) == Restrict(f, DOMAIN f \ {x})

NodeInit ==
    /\ role \in NodeRoles
    /\ slotMap = <<>>
    /\ ports = <<>>
    /\ pslots = <<>>
    /\ used = [i \in Ifaces |-> None]
    /\ call = Idle
    /\ panicked = FALSE

(* get_slot_(): the slot of an index, created when there is none.  Each    *)
(* outcome has the slot map and the pipeline slots it leaves.              *)
GetSlot(s) ==
    LET h == Fresh(pslots)
        created == pslots @@ (h :> [i \in Ifaces |-> NoEndpoint])
    IN  IF s \in DOMAIN slotMap
        THEN {[ok |-> TRUE, map |-> slotMap, pslots |-> pslots]}
        ELSE {[ok |-> TRUE, map |-> slotMap @@ (s :> NewSlot(h)), pslots |-> created],
              [ok |-> FALSE, map |-> slotMap, pslots |-> pslots]}
             \cup (IF "no memory" \in Unusual
                   THEN {[ok |-> FALSE, map |-> slotMap, pslots |-> created]} ELSE {})

(* break_slot_(): the slot is marked broken and cleaned up; the call fails. *)
Cleaning(op, s) == [op |-> op, slot |-> s, pc |-> "clean"]

Break(map, s) ==
    /\ slotMap' = [map EXCEPT ![s].broken = TRUE]
    /\ call' = Cleaning("break", s)

(* The interfaces whose ports the slot holds.  They are removed in any     *)
(* order here, by interface number in the code.                            *)
Held(slot) == {i \in Ifaces : slot.ports[i].handle # Null}

RemovePort(s) ==
    \E i \in Held(slotMap[s]) :
        /\ ports' = Without(ports, slotMap[s].ports[i].handle)
        /\ slotMap' = [slotMap EXCEPT ![s].ports[i].handle = Null]
        /\ UNCHANGED <<pslots, call>>

DeleteSlot(s) ==
    /\ slotMap[s].handle # Null
    /\ pslots' = Without(pslots, slotMap[s].handle)
    /\ slotMap' = [slotMap EXCEPT ![s].handle = Null]
    /\ UNCHANGED <<ports, call>>

(* A mutant: ports and pipeline slot in the other node's order. *)
CleanupSlotReversed(s) ==
    IF role = "sender"
    THEN RemovePort(s) \/ (Held(slotMap[s]) = {} /\ DeleteSlot(s))
    ELSE DeleteSlot(s) \/ (slotMap[s].handle = Null /\ RemovePort(s))

(* cleanup_slot_(): a receiver removes the ports and then the pipeline     *)
(* slot, a sender the pipeline slot and then the ports.                    *)
CleanupSlot(s) ==
    IF role = "receiver"
    THEN RemovePort(s) \/ (Held(slotMap[s]) = {} /\ DeleteSlot(s))
    ELSE DeleteSlot(s) \/ (slotMap[s].handle = Null /\ RemovePort(s))

(* The end of a cleanup: unlink() and the destructor also take the slot    *)
(* out of the map, which frees it.                                         *)
CleanedUp(s) ==
    /\ slotMap[s].handle = Null /\ Held(slotMap[s]) = {}
    /\ slotMap' = IF call.op = "break" THEN slotMap ELSE Without(slotMap, s)
    /\ call' = IF call.op = "close" THEN [op |-> "close", pc |-> "next"] ELSE Idle
    /\ UNCHANGED <<ports, pslots>>

Cleanup ==
    /\ call # Idle /\ call.pc = "clean"
    /\ CleanupSlot(call.slot) \/ CleanedUp(call.slot)
    /\ UNCHANGED <<role, used, panicked>>

(* configure() *)
ConfigureSlot(s, i, c) ==
    /\ call = Idle
    /\ \E g \in GetSlot(s) :
        /\ pslots' = g.pslots
        /\ IF ~g.ok \/ g.map[s].broken
           THEN slotMap' = g.map /\ call' = Idle
           ELSE IF g.map[s].ports[i].handle # Null
           THEN Break(g.map, s)
           ELSE slotMap' = [g.map EXCEPT ![s].ports[i].config = c] /\ call' = Idle
    /\ UNCHANGED <<role, ports, used, panicked>>

(* check_compatibility_() and update_compatibility_() *)
CheckCompatibility(i, p) == used[i] \in {None, p}

(* Receiver::bind() and Sender::connect() up to the first task. *)
BindOrConnect(s, i, p, fam) ==
    /\ call = Idle
    /\ (role = "receiver" /\ s \in DOMAIN slotMap /\ i \in Held(slotMap[s]))
         => "rebind" \in Unusual
    /\ \E g \in GetSlot(s), valid \in BOOLEAN :
        /\ pslots' = g.pslots
        /\ IF ~g.ok \/ g.map[s].broken
           THEN slotMap' = g.map /\ call' = Idle
           ELSE IF ~valid \/ ~CheckCompatibility(i, p)
           THEN Break(g.map, s)
           ELSE /\ slotMap' = g.map
                /\ call' = [op |-> "open", slot |-> s, iface |-> i, proto |-> p,
                            family |-> fam, port |-> i, pc |-> "resolve"]
    /\ UNCHANGED <<role, ports, used, panicked>>

At(pc) == call # Idle /\ call.pc = pc
Slot == slotMap[call.slot]
Port == Slot.ports[call.port]

(* A task of the call failed. *)
TaskFails ==
    /\ At("resolve") \/ At("open") \/ At("send") \/ At("endpoint") \/ At("recv")
    /\ Break(slotMap, call.slot)
    /\ UNCHANGED <<role, ports, pslots, used, panicked>>

(* select_outgoing_port_(): interfaces with the same configuration and     *)
(* address family share one port.                                          *)
SelectOutgoingPort ==
    LET own == Slot.ports[call.iface]
        shared == {i \in Held(Slot) \ {call.iface} :
                     /\ Slot.ports[i].origConfig = own.config
                     /\ Slot.ports[i].config = call.family}
    IN  IF own.handle = Null /\ shared # {}
        THEN CHOOSE i \in shared : TRUE ELSE call.iface

(* setup_outgoing_port_() *)
SetupOutgoingPort(port) ==
    IF port.handle = Null
    THEN [port EXCEPT !.origConfig = port.config, !.config = call.family] ELSE port

(* The address is resolved; a sender picks its port, a receiver stores the *)
(* address it will bind to.                                                *)
Resolved ==
    /\ At("resolve")
    /\ LET sel == IF role = "sender" THEN SelectOutgoingPort ELSE call.iface
           port == Slot.ports[sel]
       IN  IF role = "sender" /\ port.config \notin {0, call.family}
           THEN Break(slotMap, call.slot)
           ELSE /\ slotMap' = [slotMap EXCEPT ![call.slot].ports[sel] =
                       IF role = "sender" THEN SetupOutgoingPort(port)
                       ELSE [port EXCEPT !.config = call.family]]
                /\ call' = [call EXCEPT !.pc = "open", !.port = sel]
    /\ UNCHANGED <<role, ports, pslots, used, panicked>>

(* AddUdpPort *)
AddUdpPort ==
    /\ At("open")
    /\ IF role = "sender" /\ Port.handle # Null
       THEN UNCHANGED <<ports, slotMap>>
       ELSE LET id == Fresh(ports)
            IN  /\ ports' = ports @@ (id :> [recv |-> <<>>])
                /\ slotMap' = [slotMap EXCEPT ![call.slot].ports[call.port].handle = id]
    /\ call' = [call EXCEPT !.pc = "send"]
    /\ UNCHANGED <<role, pslots, used, panicked>>

(* StartUdpSend, whose writer the endpoint is given. *)
StartUdpSend ==
    /\ At("send")
    /\ slotMap' = IF role = "sender" \/ call.iface = "control"
                  THEN [slotMap EXCEPT ![call.slot].ports[call.port].sends = TRUE]
                  ELSE slotMap
    /\ call' = [call EXCEPT !.pc = "endpoint"]
    /\ UNCHANGED <<role, ports, pslots, used, panicked>>

(* validate_endpoint_pair_consistency(),                                   *)
(* validate_endpoint_and_pipeline_consistency() and the test that the slot *)
(* has no such endpoint yet.                                               *)
EndpointFits(pslot, i, p) ==
    /\ pslot[i] = NoEndpoint
    /\ i # "control" =>
        /\ \A j \in Ifaces \ {i, "control"} : pslot[j].proto \in {None, p}
        /\ role = "sender" => p = PipelineScheme

(* The AddEndpoint task; its constructor needs a pipeline slot. *)
AddEndpoint ==
    /\ At("endpoint")
    /\ IF Slot.handle = Null
       THEN panicked' = TRUE /\ UNCHANGED <<pslots, call>>
       ELSE /\ EndpointFits(pslots[Slot.handle], call.iface, call.proto)
            /\ pslots' = [pslots EXCEPT ![Slot.handle][call.iface] =
                   [proto |-> call.proto, out |-> IF Port.sends THEN Port.handle ELSE Null,
                    config |-> IF role = "sender"
                               THEN IF call.port = call.iface THEN Port.origConfig
                                    ELSE Slot.ports[call.iface].config
                               ELSE 0,
                    family |-> call.family]]
            /\ call' = [call EXCEPT !.pc = "recv"]
            /\ UNCHANGED panicked
    /\ UNCHANGED <<role, slotMap, ports, used>>

(* StartUdpRecv and update_compatibility_(), after which the call returns. *)
StartUdpRecv ==
    /\ At("recv")
    /\ ports' = IF role = "receiver" \/ call.iface = "control"
                THEN [ports EXCEPT ![Port.handle].recv = <<Slot.handle, call.iface>>]
                ELSE ports
    /\ used' = [used EXCEPT ![call.iface] = call.proto]
    /\ call' = Idle
    /\ UNCHANGED <<role, slotMap, pslots, panicked>>

(* unlink() *)
Unlink(s) ==
    /\ call = Idle
    /\ s \in DOMAIN slotMap
    /\ call' = Cleaning("unlink", s)
    /\ UNCHANGED <<role, slotMap, ports, pslots, used, panicked>>

(* get_metrics(): the QuerySlot task, whose constructor needs a pipeline   *)
(* slot.                                                                   *)
GetMetrics(s) ==
    /\ call = Idle
    /\ s \in DOMAIN slotMap
    /\ slotMap[s].broken => "query broken" \in Unusual
    /\ panicked' = (slotMap[s].handle = Null)
    /\ UNCHANGED <<role, slotMap, ports, pslots, used, call>>

(* The destructor cleans the slots up one by one.  The ports belong to the *)
(* context, which outlives the node; the application then opens another    *)
(* node in the same context.                                               *)
Close ==
    /\ call = Idle
    /\ call' = [op |-> "close", pc |-> "next"]
    /\ UNCHANGED <<role, slotMap, ports, pslots, used, panicked>>

CloseNext ==
    /\ At("next")
    /\ IF slotMap # <<>>
       THEN /\ \E s \in DOMAIN slotMap : call' = Cleaning("close", s)
            /\ UNCHANGED <<role, pslots, used>>
       ELSE /\ call' = Idle
            /\ role' \in NodeRoles
            /\ pslots' = <<>>
            /\ used' = [i \in Ifaces |-> None]
    /\ UNCHANGED <<slotMap, ports, panicked>>

ProtosOf(i) ==
    CASE i = "source" -> Schemes
      [] i = "repair" -> Schemes \ {"none"}
      [] OTHER -> {"none"}

NodeNext ==
    /\ ~panicked
    /\ \/ \E s \in SlotIndices[role], i \in UsedIfaces[role] :
            \/ \E c \in Configs : ConfigureSlot(s, i, c)
            \/ \E p \in ProtosOf(i), fam \in Families[role] : BindOrConnect(s, i, p, fam)
       \/ \E s \in SlotIndices[role] : Unlink(s) \/ GetMetrics(s)
       \/ Resolved \/ AddUdpPort \/ StartUdpSend \/ AddEndpoint \/ StartUdpRecv
       \/ TaskFails \/ Cleanup \/ Close \/ CloseNext

NodeSpec == NodeInit /\ [][NodeNext]_nodeVars
-----------------------------------------------------------------------------

NodeTypeOK ==
    /\ role \in NodeRoles
    /\ DOMAIN slotMap \subseteq SlotIndices[role]
    /\ \A s \in DOMAIN slotMap :
        /\ slotMap[s].handle \in Ids \cup {Null}
        /\ slotMap[s].broken \in BOOLEAN
        /\ slotMap[s].ports \in
              [Ifaces -> [handle : Ids \cup {Null}, config : Configs \cup Families[role] \cup {0},
                          origConfig : Configs \cup Families[role] \cup {0},
                          sends : BOOLEAN]]
    /\ DOMAIN ports \subseteq Ids /\ DOMAIN pslots \subseteq Ids
    /\ used \in [Ifaces -> Schemes \cup {None, "none"}]
    /\ panicked \in BOOLEAN

(* No sequence of calls, whichever of their tasks fail, reaches a task     *)
(* constructor with the null slot handle of a broken slot (the "slot       *)
(* handle is null" panics of receiver_loop.cpp and sender_loop.cpp).       *)
NodeNeverPanics == ~panicked

Endpoints(ps) == {i \in Ifaces : pslots[ps][i] # NoEndpoint}

(* The writer a port was started to receive with is an endpoint that still *)
(* exists, and the writer an endpoint sends through is that of an open     *)
(* port: the objects of one thread never hold a pointer to a freed object  *)
(* of the other.                                                           *)
InboundLive ==
    \A id \in DOMAIN ports :
        ports[id].recv = <<>> \/
            /\ ports[id].recv[1] \in DOMAIN pslots
            /\ ports[id].recv[2] \in Endpoints(ports[id].recv[1])

OutboundLive ==
    \A ps \in DOMAIN pslots : \A i \in Endpoints(ps) :
        pslots[ps][i].out \in DOMAIN ports \cup {Null}

(* "First remove network ports, because they write to pipeline slot" and   *)
(* "First remove pipeline slot, because it writes to network ports": at    *)
(* every moment of every call, and in the middle of every cleanup, a       *)
(* receiver's ports write to endpoints that exist and a sender's endpoints *)
(* write to ports that are open (cleanup_slot_() of the two nodes).        *)
NodeWritersLive == IF role = "receiver" THEN InboundLive ELSE OutboundLive

(* When no call runs, the network loop has exactly the ports and the       *)
(* pipeline exactly the slots that the node's map still refers to, each    *)
(* referred to once, and a broken slot refers to none: whichever task      *)
(* failed, break_slot_(), unlink() and the destructor gave everything back.*)
NodeOwnsEverything ==
    call = Idle =>
        LET held == {<<s, i>> \in (DOMAIN slotMap) \X Ifaces :
                        slotMap[s].ports[i].handle # Null}
            live == {s \in DOMAIN slotMap : slotMap[s].handle # Null}
        IN  /\ {slotMap[x[1]].ports[x[2]].handle : x \in held} = DOMAIN ports
            /\ Cardinality(held) = Cardinality(DOMAIN ports)
            /\ {slotMap[s].handle : s \in live} = DOMAIN pslots
            /\ Cardinality(live) = Cardinality(DOMAIN pslots)
            /\ live = {s \in DOMAIN slotMap : ~slotMap[s].broken}
            /\ \A x \in held : x[1] \in live

(* "Same interface of all slots should use same protocols": two endpoints  *)
(* of one interface, in whichever slots and after whichever failed calls,  *)
(* use one protocol (check_compatibility_() and update_compatibility_()).  *)
NodeProtocolsAgree ==
    call = Idle =>
        \A ps, qs \in DOMAIN pslots : \A i \in Endpoints(ps) \cap Endpoints(qs) :
            pslots[ps][i].proto = pslots[qs][i].proto

(* Two interfaces of a sender's slot send through one port exactly when    *)
(* they were connected with the same configuration and to addresses of the *)
(* same family, in whichever order they were configured and connected      *)
(* (select_outgoing_port_()).                                              *)
NodeSharesPorts ==
    role = "sender" =>
        \A ps \in DOMAIN pslots : \A i, j \in Endpoints(ps) :
            LET a == pslots[ps][i]  b == pslots[ps][j]
            IN  a.out = b.out <=> a.config = b.config /\ a.family = b.family

(* The stronger reading: at every moment the writers of both directions    *)
(* are live in both nodes.                                                 *)
NodeAllWritersLive == InboundLive /\ OutboundLive

(* "returns a negative value if slot is already bound or connected" and    *)
(* "Each slot's interface can be bound or connected only once": the        *)
(* configuration of a connected interface never changes.                   *)
NodeConnectedKeepsConfig ==
    [][\A s \in DOMAIN slotMap \cap DOMAIN slotMap' : \A i \in Ifaces :
         (/\ slotMap[s].handle # Null
          /\ i \in Endpoints(slotMap[s].handle))
           => slotMap'[s].ports[i].config = slotMap[s].ports[i].config]_nodeVars
============================================================================
