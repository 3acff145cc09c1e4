--------------------------- MODULE TcpConnection ---------------------------
(***************************************************************************)
(* netio::TcpConnectionPort: one TCP connection, its handler, the user     *)
(* thread that does I/O on it and terminates it, and the network thread,   *)
(* which connects or accepts it, reports events, completes termination and *)
(* closes it on behalf of the network loop (client) or of TcpServerPort    *)
(* (server).                                                               *)
(*                                                                         *)
(* The user follows the workflow of IConnHandler: the connection is known  *)
(* from connection_refused() or connection_established() on, it is         *)
(* terminated once, no I/O follows, and a client port is removed only      *)
(* after connection_terminated().  A step of the network thread ends where *)
(* it calls the handler or where it has read conn_state_ and not yet acted *)
(* on it; retry loops around compare_exchange() are one step.              *)
(***************************************************************************)
EXTENDS Naturals, Sequences

CONSTANTS
    Type,           \* "client" or "server"
    PollMayFail     \* libuv may report an error of the socket to poll_cb_

VARIABLES
    conn,       \* conn_state_
    was,        \* conn_was_established_, conn_was_failed_ and got_stream_end_
    handler,    \* conn_handler_ is set
    thandler,   \* terminate_handler_ is set
    poll,       \* poll_handle_: "none", "started", "stopped", "closing"
    sem,        \* terminate_sem_: "none", "open", "closing"
    signal,     \* uv_async_send() on terminate_sem_, callback to come
    socket,     \* socket_ is valid
    io,         \* writable_status_ and readable_status_
    event,      \* libuv reported the direction after the last operation began
    npc,        \* what the network thread has still to do in poll_cb_
    upc,        \* where the user thread is, for which direction, with what result
    log,        \* the functions of the handler called so far, repetitions once
    owner,      \* progress of the task or server that owns the connection
    fault       \* an assertion failed

vars == <<conn, was, handler, thandler, poll, sem, signal, socket, io, event, npc, upc,
          log, owner, fault>>

States == {"Closed", "Opening", "Opened", "Connecting", "Refused", "Established", "Broken",
           "Terminating", "Terminated", "Closing"}
Dirs == {"wr", "rd"}
Usable == {"Connecting", "Refused", "Established", "Broken", "Terminating"}

-----------------------------------------------------------------------------
(* State changes. *)

Flagged(s) ==
    [was EXCEPT !.established = @ \/ s = "Established",
                !.failed = @ \/ s \in {"Refused", "Broken"}]

\* The intention of the guard in maybe_switch_state_ is to ignore everything but
\* closing after termination; as written it lets all changes of a terminating
\* connection through, and those of a terminated one that go to "Terminated".
Ignored(from, to) ==
    /\ from \in {"Terminating", "Terminated"}
    /\ from # "Terminating" /\ to # "Terminated" /\ to # "Closing"

\* switch_and_report_state_ without the report.
SwitchTo(s) ==
    /\ was' = IF conn = s THEN was ELSE Flagged(s)
    /\ conn' = IF Ignored(conn, s) THEN conn ELSE s

Log(call) ==
    log' = IF ~handler \/ (log # <<>> /\ log[Len(log)] = call) THEN log ELSE Append(log, call)

Idle == [at |-> "idle", dir |-> "none", ret |-> "none"]

Init ==
    /\ conn = "Closed"
    /\ was = [established |-> FALSE, failed |-> FALSE, eof |-> FALSE]
    /\ handler = FALSE /\ thandler = FALSE
    /\ poll = "none" /\ sem = "none" /\ signal = FALSE /\ socket = FALSE
    /\ io = [d \in Dirs |-> "NotAvailable"]
    /\ event = [d \in Dirs |-> FALSE]
    /\ npc = <<>> /\ upc = Idle /\ log = <<>>
    /\ owner = "adding" /\ fault = FALSE

-----------------------------------------------------------------------------
(* The network thread brings the connection up.  Nobody else knows it yet, so *)
(* the whole task of the loop, or the whole poll_cb_ of the server, is a step. *)

\* open() failed: nothing to wait for.
OpenFails ==
    /\ owner = "adding"
    /\ owner' = "closed"
    /\ UNCHANGED <<conn, was, handler, thandler, poll, sem, signal, socket, io, event,
                   npc, upc, log, fault>>

\* connect() or accept() failed somewhere on its way, or the acceptor did not
\* want the connection: it is terminated, with a handler that closes it.
ConnectFails ==
    /\ owner = "adding"
    /\ sem' = "open"
    /\ socket' \in BOOLEAN
    /\ poll' \in IF socket' THEN {"none", "stopped", "started"} ELSE {"none"}
    /\ poll' = "started" => Type = "server"
    /\ was' = [was EXCEPT !.failed = TRUE, !.established = poll' = "started"]
    /\ conn' = "Terminating" /\ thandler' = TRUE /\ signal' = TRUE
    /\ owner' = "terminating"
    /\ UNCHANGED <<handler, io, event, npc, upc, log, fault>>

\* Only a client may have to wait for the peer.
Connects ==
    /\ owner = "adding"
    /\ sem' = "open" /\ socket' = TRUE /\ poll' = "started"
    /\ handler' = TRUE /\ thandler' = (Type = "server")
    /\ owner' = "open"
    /\ \/ /\ conn' = "Established"
          /\ was' = [was EXCEPT !.established = TRUE]
          /\ log' = <<"established">>
       \/ /\ Type = "client" /\ conn' = "Connecting"
          /\ UNCHANGED <<was, log>>
    /\ UNCHANGED <<signal, io, event, npc, upc, fault>>

-----------------------------------------------------------------------------
(* poll_cb_. *)

\* libuv stops polling after an error.
PollConnecting ==
    /\ npc = <<>> /\ poll = "started" /\ conn = "Connecting"
    /\ \/ SwitchTo("Established") /\ Log("established") /\ UNCHANGED poll
       \/ SwitchTo("Refused") /\ Log("refused") /\ poll' \in {"started", "stopped"}
    /\ UNCHANGED <<handler, thandler, sem, signal, socket, io, event, npc, upc, owner, fault>>

\* The state is read; what follows happens in PollStep.
PollEstablished ==
    /\ npc = <<>> /\ poll = "started" /\ conn = "Established"
    /\ \/ npc' \in {<<"wr">>, <<"rd">>, <<"wr", "rd">>} /\ UNCHANGED poll
       \/ PollMayFail /\ npc' = <<"broken", "rd", "wr">> /\ poll' = "stopped"
    /\ UNCHANGED <<conn, was, handler, thandler, sem, signal, socket, io, event, upc, log,
                   owner, fault>>

SetAndReport(d) ==
    /\ io' = [io EXCEPT ![d] = "Available"]
    /\ event' = [event EXCEPT ![d] = TRUE]
    /\ Log(IF upc.at = "issued" THEN "late" ELSE "ready")

PollStep ==
    /\ npc # <<>>
    /\ npc' = Tail(npc)
    /\ IF Head(npc) = "broken" THEN SwitchTo("Broken") /\ UNCHANGED <<io, event, log>>
       ELSE SetAndReport(Head(npc)) /\ UNCHANGED <<conn, was>>
    /\ UNCHANGED <<handler, thandler, poll, sem, signal, socket, upc, owner, fault>>

-----------------------------------------------------------------------------
(* Termination and closing on the network thread. *)

\* Closing begins with a switch of the state that may be ignored.
CloseFrom(c) ==
    /\ conn' = IF Ignored(c, "Closing") THEN c ELSE "Closing"
    /\ sem' = "closing"
    /\ owner' = "closing"

\* disconnect_socket_, the callback, the handlers.  With a terminate handler the
\* owner closes the connection at once.
FinishTerminateCb ==
    /\ poll' = "none" /\ socket' = FALSE
    /\ \/ UNCHANGED was
       \/ socket /\ was' = [was EXCEPT !.failed = TRUE]
    /\ Log("terminated")
    /\ handler' = FALSE
    /\ IF thandler THEN CloseFrom("Terminated")
       ELSE conn' = "Terminated" /\ UNCHANGED <<sem, owner>>

StartTerminateCb ==
    /\ npc = <<>> /\ signal /\ sem = "open"
    /\ signal' = FALSE
    /\ IF conn # "Terminating"
       THEN fault' = TRUE /\ UNCHANGED <<conn, was, handler, poll, sem, socket, log, owner>>
       ELSE /\ UNCHANGED fault
            /\ IF poll = "none" THEN FinishTerminateCb
               ELSE poll' = "closing" /\ UNCHANGED <<conn, was, handler, sem, socket, log, owner>>
    /\ UNCHANGED <<thandler, io, event, npc, upc>>

PollClosed ==
    /\ npc = <<>> /\ poll = "closing"
    /\ IF conn # "Terminating"
       THEN fault' = TRUE /\ UNCHANGED <<conn, was, handler, poll, sem, socket, log, owner>>
       ELSE FinishTerminateCb /\ UNCHANGED fault
    /\ UNCHANGED <<thandler, signal, io, event, npc, upc>>

\* task_remove_port_ for a client whose user terminated the connection.
RemovePort ==
    /\ npc = <<>> /\ owner = "open" /\ ~thandler
    /\ log # <<>> /\ log[Len(log)] = "terminated"
    /\ IF conn \in {"Opening", "Opened", "Terminated"} THEN CloseFrom(conn) /\ UNCHANGED fault
       ELSE fault' = TRUE /\ UNCHANGED <<conn, sem, owner>>
    /\ UNCHANGED <<was, handler, thandler, poll, signal, socket, io, event, npc, upc, log>>

CloseCb ==
    /\ npc = <<>> /\ sem = "closing"
    /\ IF conn # "Closing" THEN fault' = TRUE /\ UNCHANGED <<conn, sem, owner>>
       ELSE sem' = "none" /\ conn' = "Closed" /\ owner' = "closed" /\ UNCHANGED fault
    /\ UNCHANGED <<was, handler, thandler, poll, signal, socket, io, event, npc, upc, log>>

-----------------------------------------------------------------------------
(* The user, who knows the connection from the first callback. *)

network == <<handler, thandler, poll, sem, socket, npc, log, owner>>

\* try_write() or try_read() up to the check of the state; in the other usable
\* states, and after the end of the stream, it returns an error.
TryBegin(d) ==
    /\ upc = Idle /\ log # <<>>
    /\ IF conn \notin {"Refused", "Established", "Broken"}
       THEN fault' = TRUE /\ UNCHANGED upc
       ELSE /\ conn = "Established" /\ ~(d = "rd" /\ was.eof)
            /\ upc' = [at |-> "set", dir |-> d, ret |-> "none"]
            /\ UNCHANGED fault
    /\ UNCHANGED <<network, conn, was, signal, io, event>>

TrySet ==
    /\ upc.at = "set"
    /\ io' = [io EXCEPT ![upc.dir] = "InProgress"]
    /\ event' = [event EXCEPT ![upc.dir] = FALSE]
    /\ upc' = [upc EXCEPT !.at = "io"]
    /\ UNCHANGED <<network, conn, was, signal, fault>>

TryIo ==
    /\ upc.at = "io"
    /\ \E ret \in {"done", "block", "end", "error"} :
        /\ ret = "end" => upc.dir = "rd"
        /\ upc' = [upc EXCEPT !.at = "finish", !.ret = ret]
    /\ UNCHANGED <<network, conn, was, signal, io, event, fault>>

Outcome(ret) == IF ret = "done" THEN "Available" ELSE "NotAvailable"

\* A mutant that stores the outcome over an event that came in between.
TryFinishStore ==
    /\ upc.at = "finish"
    /\ io' = [io EXCEPT ![upc.dir] = Outcome(upc.ret)]
    /\ was' = [was EXCEPT !.failed = @ \/ upc.ret = "error", !.eof = @ \/ upc.ret = "end"]
    /\ conn' = IF upc.ret = "error" /\ conn = "Established" THEN "Broken" ELSE conn
    /\ upc' = Idle
    /\ UNCHANGED <<network, signal, event, fault>>

TryFinish ==
    /\ upc.at = "finish"
    /\ io' = [io EXCEPT ![upc.dir] = IF @ = "InProgress" THEN Outcome(upc.ret) ELSE @]
    /\ was' = [was EXCEPT !.failed = @ \/ upc.ret = "error", !.eof = @ \/ upc.ret = "end"]
    /\ conn' = IF upc.ret = "error" /\ conn = "Established" THEN "Broken" ELSE conn
    /\ upc' = Idle
    /\ UNCHANGED <<network, signal, event, fault>>

AsyncTerminate ==
    /\ upc = Idle /\ log # <<>>
    /\ IF conn \notin Usable \ {"Terminating"} THEN fault' = TRUE /\ UNCHANGED <<conn, upc>>
       ELSE /\ conn' = "Terminating"
            /\ upc' = [Idle EXCEPT !.at = "signal"]
            /\ UNCHANGED fault
    /\ UNCHANGED <<network, was, signal, io, event>>

\* A mutant that wakes the network thread only for a graceful termination.
SignalGraceful ==
    /\ upc.at = "signal"
    /\ was' \in {was, [was EXCEPT !.failed = TRUE]}
    /\ signal' = ~was'.failed
    /\ upc' = [upc EXCEPT !.at = "issued"]
    /\ UNCHANGED <<network, conn, io, event, fault>>

\* With either termination mode.
SignalTerminate ==
    /\ upc.at = "signal"
    /\ was' \in {was, [was EXCEPT !.failed = TRUE]}
    /\ signal' = TRUE
    /\ upc' = [upc EXCEPT !.at = "issued"]
    /\ UNCHANGED <<network, conn, io, event, fault>>

\* The connection is destroyed, or the process aborted.
Finished == (owner = "closed" \/ fault) /\ UNCHANGED vars

-----------------------------------------------------------------------------
Bringup == OpenFails \/ ConnectFails \/ Connects
Network == PollStep \/ StartTerminateCb \/ PollClosed \/ CloseCb
User == (\E d \in Dirs : TryBegin(d)) \/ TrySet \/ TryIo \/ TryFinish \/ AsyncTerminate

Next ==
    \/ ~fault /\ (Bringup \/ PollConnecting \/ PollEstablished \/ Network \/ RemovePort
                  \/ User \/ SignalTerminate)
    \/ Finished

Spec == Init /\ [][Next]_vars

\* libuv calls back what is due, and async_terminate() does not stop half way.
FairSpec == Spec /\ WF_vars(~fault /\ Network) /\ WF_vars(~fault /\ SignalTerminate)

-----------------------------------------------------------------------------
TypeOK ==
    /\ conn \in States
    /\ was \in [established : BOOLEAN, failed : BOOLEAN, eof : BOOLEAN]
    /\ {handler, thandler, signal, socket, fault} \subseteq BOOLEAN
    /\ poll \in {"none", "started", "stopped", "closing"}
    /\ sem \in {"none", "open", "closing"}
    /\ io \in [Dirs -> {"NotAvailable", "InProgress", "Available"}]
    /\ event \in [Dirs -> BOOLEAN]
    /\ npc \in Seq({"broken", "rd", "wr"})
    /\ upc \in [at : {"idle", "set", "io", "finish", "signal", "issued"},
                dir : Dirs \cup {"none"}, ret : {"none", "done", "block", "end", "error"}]
    /\ log \in Seq({"refused", "established", "ready", "late", "terminated"})
    /\ owner \in {"adding", "open", "terminating", "closing", "closed"}

\* The workflow of iconn_handler.h: connection_refused() or connection_established()
\* comes first and once, events are reported for established connections only, and
\* nothing comes after connection_terminated().
CallbackWorkflow ==
    \A i \in DOMAIN log :
        /\ log[i] \in {"refused", "established"} <=> i = 1
        /\ log[i] = "terminated" => i = Len(log)
        /\ log[i] \in {"ready", "late"} => log[1] = "established"

\* No event is lost between poll_cb_ and a concurrent try_read() or try_write():
\* a direction that was reported after the last operation began is available.
EventsNotLost == \A d \in Dirs : event[d] => io[d] = "Available"

\* The assertions of the class hold: in particular, what was terminated stays
\* terminating until the network thread has completed it ("ignore all state
\* changes after termination, except closing", tcp_connection_port.cpp:682).
NeverPanics == ~fault

\* A connection whose owner let go of it holds no socket and no handle of libuv, is
\* in the state the destructor demands, and its handler got connection_terminated().
ClosedIsReleased ==
    owner = "closed" =>
        /\ conn = "Closed" /\ ~socket /\ poll = "none" /\ sem = "none" /\ ~handler
        /\ log # <<>> => log[Len(log)] = "terminated"

\* iconn_handler.h: "after an asynchronous terminate is issued, no other callbacks
\* except connection_terminated() are ever called".
NoLateCallbacks == \A i \in DOMAIN log : log[i] # "late"

\* A connection on which async_terminate() was called is reported as terminated, and
\* one that its owner closes is closed.
TerminationCompletes ==
    /\ upc.at = "issued" ~> (fault \/ (log # <<>> /\ log[Len(log)] = "terminated"))
    /\ owner \in {"terminating", "closing"} ~> (fault \/ owner = "closed")
=============================================================================
