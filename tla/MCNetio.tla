------------------------------ MODULE MCNetio ------------------------------
(***************************************************************************)
(* The parts of roc_netio, and the sound device of roc_sndio, side by side *)
(* for TLC: every behaviour is one of the part that the initial state      *)
(* selects, and the variables of the others do not change.                 *)
(***************************************************************************)
EXTENDS UdpPort

CONSTANTS w1, w2, t1, t2, t3, Tasks

VARIABLES
    part,
    conn, was, handler, thandler, poll, sem, signal, socket, io, event, connPc, upc, log,
    connOwner, connFault,
    state, kind, target, success, finished, tasks, signals, sems, openPorts, closingPorts,
    live, resolving, loopPc, dtor, loopFault,
    device, dev, frag, pulse, user, copied, soundFault

Client == INSTANCE TcpConnection WITH
    Type <- "client", PollMayFail <- FALSE, npc <- connPc, owner <- connOwner, fault <- connFault
Server == INSTANCE TcpConnection WITH
    Type <- "server", PollMayFail <- TRUE, npc <- connPc, owner <- connOwner, fault <- connFault
Loop == INSTANCE NetworkLoop WITH
    PendingAtStop <- FALSE, queue <- tasks, npc <- loopPc, fault <- loopFault
Sound == INSTANCE PulseDevice WITH
    DeviceTypes <- {"sink", "source"}, FrameLen <- 2, Portions <- {1, 3}, MaxPortions <- 2,
    Usage <- {}, kind <- device, fault <- soundFault

connVars == <<conn, was, handler, thandler, poll, sem, signal, socket, io, event, connPc, upc,
              log, connOwner, connFault>>
loopVars == <<state, kind, target, success, finished, tasks, signals, sems, openPorts,
              closingPorts, live, resolving, loopPc, dtor, loopFault>>
soundVars == <<device, dev, frag, pulse, user, copied, soundFault>>

NetioInit ==
    /\ part \in {"udp", "client", "server", "loop", "sound"}
    /\ Init /\ Client!Init /\ Loop!Init
    /\ Sound!Init /\ (part # "sound" => device = "sink")

NetioNext ==
    /\ UNCHANGED part
    /\ \/ part = "udp" /\ Next /\ UNCHANGED <<connVars, loopVars, soundVars>>
       \/ part = "client" /\ Client!Next /\ UNCHANGED <<vars, loopVars, soundVars>>
       \/ part = "server" /\ Server!Next /\ UNCHANGED <<vars, loopVars, soundVars>>
       \/ part = "loop" /\ Loop!Next /\ UNCHANGED <<vars, connVars, soundVars>>
       \/ part = "sound" /\ Sound!Next /\ UNCHANGED <<vars, connVars, loopVars>>

\* The fairness of UdpPort, TcpConnection, NetworkLoop and PulseDevice.
NetioSpec ==
    /\ NetioInit /\ [][NetioNext]_<<part, vars, connVars, loopVars, soundVars>>
    /\ \A w \in Writers : WF_vars(part = "udp" /\ fault = "none" /\ WriterStep(w))
    /\ WF_vars(part = "udp" /\ fault = "none" /\ Network)
    /\ WF_connVars(part = "server" /\ ~connFault /\ Server!Network)
    /\ WF_connVars(part = "server" /\ ~connFault /\ Server!SignalTerminate)
    /\ WF_loopVars(/\ part = "loop" /\ ~loopFault
                   /\ Loop!TaskSemCb \/ Loop!ProcessTask \/ Loop!NoMoreTasks \/ Loop!RunReturns)
    /\ WF_loopVars(part = "loop" /\ ~loopFault /\ Loop!StopSemCb)
    /\ \A p \in Tasks :
          SF_loopVars(/\ part = "loop" /\ ~loopFault
                      /\ Loop!HandleCloseCompleted(p) \/ Loop!HandleResolved(p))
    /\ \A t \in Tasks : WF_loopVars(part = "loop" /\ ~loopFault /\ Loop!Wake(t))
    /\ WF_loopVars(part = "loop" /\ ~loopFault /\ Loop!Joined)
    /\ WF_soundVars(part = "sound" /\ Sound!OpenWake)
    /\ WF_soundVars(part = "sound" /\ Sound!RestartStream)
    /\ WF_soundVars(part = "sound" /\ Sound!Join)
    /\ WF_soundVars(part = "sound" /\ Sound!RequestTurn)
    /\ WF_soundVars(part = "sound" /\ Sound!RequestWake)
    /\ WF_soundVars(part = "sound" /\ Sound!TimerFires)
    /\ WF_soundVars(/\ part = "sound" /\ pulse.ctx = "connecting"
                    /\ Sound!ContextReady \/ Sound!ContextFails)
    /\ WF_soundVars(part = "sound" /\ Sound!DeviceInfo)
    /\ WF_soundVars(/\ part = "sound" /\ pulse.str = "creating"
                    /\ Sound!StreamReady \/ Sound!StreamFails)
    /\ WF_soundVars(part = "sound" /\ device = "source" /\ Sound!StreamRequest)

-----------------------------------------------------------------------------

\* The variables of the parts have their types and none of their assertions fails: no
\* thread writes to a UDP port that is being closed or was destroyed, a TCP connection
\* panics only on errors of libuv, the network loop and the sound device never.  What was
\* closed is released, and only that: a TCP connection its owner let go of holds no
\* resources, the lists of ports and the handles of libuv agree in the network loop, a task
\* is somewhere until it is finished once, and a closed sound device has neither connection
\* nor stream nor the lock of its main loop.
NetioConsistent ==
    /\ TypeOK /\ Client!TypeOK /\ Loop!TypeOK /\ Sound!TypeOK
    /\ NeverAborts
    /\ part = "client" => Client!NeverPanics
    /\ Client!ClosedIsReleased
    /\ Loop!NeverPanics /\ Loop!PortsInOneList /\ Loop!TasksAccounted
    /\ Sound!PulseNeverPanics /\ Sound!PulseClosedIsReleased /\ Sound!PulseLockReleased

\* TcpConnection: callbacks of the handler come in the order of iconn_handler.h, and no
\* event is lost between poll_cb_ and try_read() or try_write().
TcpCallbackWorkflow == Client!CallbackWorkflow /\ Client!EventsNotLost

\* PulseDevice: every sample recorded is read once.
SoundReadsEverySample == Sound!PulseReadsEverySample

\* What was begun ends.  UdpPort: every packet that write() took is sent, and the removal
\* of a port finishes.  TcpConnection: a connection that is terminated or closed gets
\* there.  NetworkLoop: every scheduled task finishes, and the destructor returns.
\* PulseDevice: every call returns, also when the server falls silent.
NetioProgress ==
    /\ WrittenIsSent /\ RemovalFinishes
    /\ part = "client" \/ Server!TerminationCompletes
    /\ Loop!ScheduledFinishes /\ Loop!DestructorReturns
    /\ Sound!PulseCallsReturn
=============================================================================
