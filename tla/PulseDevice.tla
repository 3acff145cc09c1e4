----------------------------- MODULE PulseDevice ----------------------------
(***************************************************************************)
(* sndio::PulseaudioDevice (target_pulseaudio/pulseaudio_device.cpp): a    *)
(* sound device opened, read or written, paused and closed by one thread,  *)
(* while libpulse calls back from a thread of its own.                     *)
(*                                                                         *)
(* Both threads do everything under the lock of the main loop, so a step   *)
(* of the user thread ends where it releases the lock or waits, and a      *)
(* callback is one step.  The lock is recursive: a wait releases it once.  *)
(*                                                                         *)
(* libpulse is external: a connection, a query and a stream that were      *)
(* begun succeed or fail in a callback, or at once; a stream that is ready *)
(* may break at any time.  The length of timeouts is left out.             *)
(***************************************************************************)
EXTENDS Integers, Sequences

CONSTANTS
    DeviceTypes,   \* device_type_: "sink", "source"
    FrameLen,      \* samples in the frames read or written
    Portions,      \* samples a server makes available at a time
    MaxPortions,   \* bound: portions recorded and not yet read
    Usage          \* what the user may do besides: "closed", to use a device
                   \* that is not open; "partial", to pause a source with part
                   \* of a fragment read

VARIABLES
    kind,    \* device_type_
    dev,     \* open_done_, opened_, and whether context_, device_info_op_,
             \* stream_ are set; timer_
    frag,    \* record_frag_size_, record_frag_flag_; live: the stream it is of
             \* is still open
    pulse,   \* libpulse: states of the context and of the stream, room in a
             \* playback buffer, fragments recorded
    user,    \* where the user thread is; held: locks it has not given back;
             \* woken, fired: it was signalled, by the timer; left: samples
             \* of the frame still to do; first: open() has not returned
    copied,  \* history: samples read of the oldest fragment recorded
    fault    \* an assertion of the device or of libpulse failed

vars == <<kind, dev, frag, pulse, user, copied, fault>>

Closed == [done |-> FALSE, opened |-> FALSE, ctx |-> FALSE, op |-> FALSE,
           stream |-> FALSE, timer |-> "none"]
NoServer == [ctx |-> "none", str |-> "none", room |-> 0, frags |-> <<>>]
NoFragment == [size |-> 0, drop |-> FALSE, live |-> TRUE]

\* The constructor.
Init ==
    /\ kind \in DeviceTypes
    /\ dev = Closed
    /\ frag = NoFragment
    /\ pulse = NoServer
    /\ user = [pc |-> "new", held |-> 0, woken |-> FALSE, fired |-> FALSE, left |-> 0,
               first |-> TRUE]
    /\ copied = 0
    /\ fault = "none"

Lesser(a, b) == IF a < b THEN a ELSE b

\* set_opened_()
SetOpened(d, ok) == [d EXCEPT !.done = TRUE, !.opened = ok]

\* pa_threaded_mainloop_signal()
Signalled(u) ==
    [u EXCEPT !.woken = @ \/ u.pc \in {"opening", "waiting"}]

-----------------------------------------------------------------------------
(* open_() and close_() *)

\* close_(): stop_timer_(), close_stream_(), cancel_device_info_op_() and
\* close_context_(), if an attempt to open was finished.  The callbacks that
\* closing itself causes change nothing that stays.
CloseDevice(d) ==
    IF d.done THEN [Closed EXCEPT !.timer = IF d.timer = "none" THEN "none" ELSE "off"]
    ELSE [d EXCEPT !.done = FALSE, !.opened = FALSE]

\* What close_() does to libpulse, and to the fragment, which is not reset.
Disconnected(p) == IF dev.done THEN NoServer ELSE p
Orphaned(f) == [f EXCEPT !.live = @ /\ (f.size = 0 \/ ~dev.done)]

\* The return from open_(): open() that fails leaves a device that is only
\* destroyed.
Return(u, d) ==
    [u EXCEPT !.pc = IF d.opened \/ ~u.first THEN "idle" ELSE "failed", !.first = FALSE]

\* open_() with open_context_(), by a user that comes with u and d: nothing
\* to do; or the context cannot be made; or the server refuses at once, which
\* context_state_cb_ hears of; or the user waits.
OpenDevice(u, d, p) ==
    \/ /\ user' = Return(u, d) /\ dev' = d /\ pulse' = p
    \/ /\ ~d.done
       /\ user' = Return(u, d)
       /\ dev' = SetOpened([d EXCEPT !.ctx = TRUE], FALSE)
       /\ pulse' = [p EXCEPT !.ctx = "failed"]
    \/ /\ ~d.done
       /\ user' = [u EXCEPT !.pc = "opening", !.woken = FALSE]
       /\ dev' = [d EXCEPT !.ctx = TRUE]
       /\ pulse' = [p EXCEPT !.ctx = "connecting"]

\* The loop of open_() after a signal.
OpenWake ==
    /\ user.pc = "opening" /\ user.woken /\ user.held = 0
    /\ user' = IF dev.done THEN Return(user, dev) ELSE [user EXCEPT !.woken = FALSE]
    /\ UNCHANGED <<kind, dev, frag, pulse, copied, fault>>

Idle == user.pc = "idle"
MayStop == kind = "sink" \/ frag.size = 0 \/ "partial" \in Usage

\* open() the first time, which also starts the thread of libpulse; and
\* resume().
OpenOrResume ==
    /\ user.pc \in {"new", "idle"}
    /\ OpenDevice(user, dev, pulse)
    /\ UNCHANGED <<kind, frag, copied, fault>>

\* pause()
Pause ==
    /\ Idle /\ MayStop
    /\ dev' = CloseDevice(dev)
    /\ pulse' = Disconnected(pulse)
    /\ frag' = Orphaned(frag)
    /\ copied' = IF dev.done THEN 0 ELSE copied
    /\ UNCHANGED <<kind, user, fault>>

\* close_() and open_(): restart(), and request_frame_() after an error.
CloseAndOpen ==
    /\ OpenDevice(user, CloseDevice(dev), Disconnected(pulse))
    /\ frag' = Orphaned(frag)
    /\ copied' = IF dev.done THEN 0 ELSE copied
    /\ UNCHANGED <<kind, fault>>

Restart == Idle /\ MayStop /\ CloseAndOpen
RestartStream == user.pc = "restarting" /\ CloseAndOpen

\* The destructor: close_(), then stop_mainloop_() waits for the thread of
\* libpulse, which needs the lock to end.
Destroy ==
    /\ user.pc \in {"idle", "failed"}
    /\ dev' = CloseDevice(dev)
    /\ pulse' = Disconnected(pulse)
    /\ user' = [user EXCEPT !.pc = "joining"]
    /\ UNCHANGED <<kind, frag, copied, fault>>

Join ==
    /\ user.pc = "joining" /\ user.held = 0
    /\ user' = [user EXCEPT !.pc = "gone"]
    /\ UNCHANGED <<kind, dev, frag, pulse, copied, fault>>

\* latency(): get_latency_() hands stream_ to libpulse, whatever it is.
Latency ==
    /\ Idle
    /\ dev.opened \/ "closed" \in Usage
    /\ fault' = IF dev.stream THEN fault ELSE "null stream"
    /\ UNCHANGED <<kind, dev, frag, pulse, user, copied>>

-----------------------------------------------------------------------------
(* request_frame_(): write() and read() *)

\* read() or write() of a frame; the loop begins with taking the lock.
Request ==
    /\ Idle
    /\ dev.opened \/ "closed" \in Usage
    /\ user' = [user EXCEPT !.pc = "locking", !.left = FrameLen]
    /\ UNCHANGED <<kind, dev, frag, pulse, copied, fault>>

\* The end of a turn of the loop: n samples were done, or -1 for an error.
TurnEnds(n) ==
    user' = [user EXCEPT
               !.left = IF n = -1 THEN @ ELSE @ - n,
               !.pc = IF n = -1 THEN "restarting"
                      ELSE IF n = user.left THEN "idle" ELSE "locking"]

Broken == pulse.str # "ready"
Available == IF kind = "sink" THEN pulse.room > 0 ELSE pulse.frags # <<>>

\* start_timer_(), and pa_threaded_mainloop_wait() in wait_stream_().
StartWait ==
    /\ fault' = IF dev.ctx THEN fault ELSE "no context"
    /\ dev' = [dev EXCEPT !.timer = "armed"]
    /\ user' = [user EXCEPT !.pc = "waiting", !.woken = FALSE, !.fired = FALSE]
    /\ UNCHANGED <<frag, pulse, copied>>

\* write_stream_() after wait_stream_(); pa_stream_write() may fail.
WriteStream ==
    LET n == Lesser(user.left, pulse.room)
    IN  /\ \/ TurnEnds(n) /\ pulse' = [pulse EXCEPT !.room = @ - n]
           \/ TurnEnds(-1) /\ UNCHANGED pulse
        /\ UNCHANGED <<frag, copied>>

\* Mutant: the fragment is dropped with its first samples.
ReadDropping(f) ==
    LET n == Lesser(user.left, f.size)
        ends == f.drop
        fails == ends /\ (Broken \/ ~f.live)
    IN  /\ frag' = IF ends THEN NoFragment ELSE [f EXCEPT !.size = @ - n]
        /\ copied' = IF ends THEN 0 ELSE copied + n
        /\ pulse' = IF ends /\ ~fails THEN [pulse EXCEPT !.frags = Tail(@)] ELSE pulse
        /\ TurnEnds(IF fails THEN -1 ELSE n)

\* The rest of read_stream_(): copies from the fragment; pa_stream_drop()
\* fails on a broken stream, and on one whose fragment this is not.
ReadFragment(f) ==
    LET n == Lesser(user.left, f.size)
        ends == f.size = n /\ f.drop
        fails == ends /\ (Broken \/ ~f.live)
    IN  /\ frag' = IF ends THEN NoFragment ELSE [f EXCEPT !.size = @ - n]
        /\ copied' = IF ends THEN 0 ELSE copied + n
        /\ pulse' = IF ends /\ ~fails THEN [pulse EXCEPT !.frags = Tail(@)] ELSE pulse
        /\ TurnEnds(IF fails THEN -1 ELSE n)

\* read_stream_() after wait_stream_(), whose result it does not look at:
\* pa_stream_peek() fails on a broken stream and may find nothing.
PeekFragment ==
    IF Broken THEN TurnEnds(-1) /\ UNCHANGED <<frag, pulse, copied>>
    ELSE IF pulse.frags = <<>> THEN TurnEnds(0) /\ UNCHANGED <<frag, pulse, copied>>
    ELSE ReadFragment([size |-> Head(pulse.frags), drop |-> TRUE, live |-> TRUE])

\* A round of wait_stream_(), and what follows it when it returns.
WaitStream(expired) ==
    \/ /\ ~Broken /\ ~Available /\ ~expired
       /\ StartWait
    \/ /\ Broken \/ Available \/ expired
       /\ dev' = [dev EXCEPT !.timer = IF @ = "none" THEN @ ELSE "off"]
       /\ IF kind = "source" THEN PeekFragment
          ELSE IF Broken \/ ~Available
          THEN TurnEnds(-1) /\ UNCHANGED <<frag, pulse, copied>>
          ELSE WriteStream
       /\ UNCHANGED fault

\* A turn of the loop of request_frame_(), up to a wait or the unlock.  On a
\* device that is not open it returns with the lock still held.
RequestTurn ==
    /\ user.pc = "locking"
    /\ IF ~dev.opened
       THEN /\ user' = [user EXCEPT !.pc = "idle", !.held = @ + 1]
            /\ UNCHANGED <<dev, frag, pulse, copied, fault>>
       ELSE IF kind = "source" /\ frag.size > 0
       THEN ReadFragment(frag) /\ UNCHANGED <<dev, fault>>
       ELSE WaitStream(FALSE)
    /\ UNCHANGED kind

\* The return from the wait of wait_stream_(): stop_timer_() finds the timer
\* expired if it has fired, and maybe also when it has not.
RequestWake ==
    /\ user.pc = "waiting" /\ user.woken /\ user.held = 0
    /\ \E expired \in (IF user.fired THEN {TRUE} ELSE BOOLEAN) : WaitStream(expired)
    /\ UNCHANGED kind

-----------------------------------------------------------------------------
(* Callbacks, on the thread of libpulse *)

Callback == user.held = 0 /\ user.pc \notin {"new", "gone"}

\* context_state_cb_() of a connection that is made: start_device_info_op_().
ContextReady ==
    /\ Callback /\ pulse.ctx = "connecting"
    /\ pulse' = [pulse EXCEPT !.ctx = "ready"]
    /\ \/ dev' = [dev EXCEPT !.op = TRUE] /\ UNCHANGED user
       \/ dev' = SetOpened(dev, FALSE) /\ user' = Signalled(user)
    /\ fault' = IF dev.op THEN "query pending" ELSE fault
    /\ UNCHANGED <<kind, frag, copied>>

\* The connection fails and takes the stream and the query with it:
\* stream_state_cb_() and context_state_cb_(), which look at opened_ first.
ContextFails ==
    /\ Callback /\ pulse.ctx \in {"connecting", "ready"}
    /\ pulse' = [pulse EXCEPT !.ctx = "failed",
                              !.str = IF @ = "none" THEN @ ELSE "failed"]
    /\ dev' = IF dev.opened THEN dev ELSE SetOpened(dev, FALSE)
    /\ user' = IF dev.opened THEN user ELSE Signalled(user)
    /\ UNCHANGED <<kind, frag, copied, fault>>

\* device_info_cb_(): no such device, or unusable parameters
\* (load_device_params_), or open_stream_() fails early or late, or the
\* stream is being made.
DeviceInfo ==
    /\ Callback /\ dev.op /\ pulse.ctx = "ready"
    /\ \E made, connected \in BOOLEAN :
          LET d == [dev EXCEPT !.op = FALSE, !.stream = made]
              ok == made /\ connected
          IN  /\ dev' = IF ok THEN d ELSE SetOpened(d, FALSE)
              /\ user' = IF ok THEN user ELSE Signalled(user)
              /\ pulse' = IF ok THEN [pulse EXCEPT !.str = "creating"] ELSE pulse
    /\ fault' = IF dev.ctx THEN fault ELSE "no context"
    /\ UNCHANGED <<kind, frag, copied>>

\* stream_state_cb_() of a stream that is ready.
StreamReady ==
    /\ Callback /\ pulse.str = "creating"
    /\ pulse' = [pulse EXCEPT !.str = "ready"]
    /\ dev' = IF dev.opened THEN dev ELSE SetOpened(dev, TRUE)
    /\ user' = IF dev.opened THEN user ELSE Signalled(user)
    /\ UNCHANGED <<kind, frag, copied, fault>>

\* stream_state_cb_() of a stream that fails; nobody is told if the device
\* was open.
StreamFails ==
    /\ Callback /\ pulse.str \in {"creating", "ready"}
    /\ pulse' = [pulse EXCEPT !.str = "failed"]
    /\ dev' = IF dev.opened THEN dev ELSE SetOpened(dev, FALSE)
    /\ user' = IF dev.opened THEN user ELSE Signalled(user)
    /\ UNCHANGED <<kind, frag, copied, fault>>

\* stream_request_cb_(): there is room to write, or a fragment to read.
StreamRequest ==
    /\ Callback /\ pulse.str = "ready"
    /\ \E n \in Portions :
          IF kind = "sink"
          THEN pulse.room = 0 /\ pulse' = [pulse EXCEPT !.room = n]
          ELSE /\ Len(pulse.frags) < MaxPortions
               /\ pulse' = [pulse EXCEPT !.frags = Append(@, n)]
    /\ user' = Signalled(user)
    /\ UNCHANGED <<kind, dev, frag, copied, fault>>

\* timer_cb_()
TimerFires ==
    /\ Callback /\ dev.timer = "armed"
    /\ dev' = [dev EXCEPT !.timer = "off"]
    /\ user' = [Signalled(user) EXCEPT !.fired = TRUE]
    /\ UNCHANGED <<kind, frag, pulse, copied, fault>>

UserNext ==
    \/ OpenOrResume \/ Pause \/ Restart \/ Destroy \/ Latency \/ Request
    \/ OpenWake \/ RestartStream \/ Join \/ RequestTurn \/ RequestWake

CallbackNext ==
    \/ ContextReady \/ ContextFails \/ DeviceInfo
    \/ StreamReady \/ StreamFails \/ StreamRequest \/ TimerFires

Next == UserNext \/ CallbackNext

\* The user thread runs on inside a call, timers fire, and libpulse settles
\* what was begun: it answers or the connection fails.  A sink need not ask
\* for samples; a source that is ready records until it breaks.
Fairness ==
    /\ WF_vars(OpenWake) /\ WF_vars(RestartStream) /\ WF_vars(Join)
    /\ WF_vars(RequestTurn) /\ WF_vars(RequestWake)
    /\ WF_vars(TimerFires)
    /\ WF_vars(pulse.ctx = "connecting" /\ (ContextReady \/ ContextFails))
    /\ WF_vars(DeviceInfo)
    /\ WF_vars(pulse.str = "creating" /\ (StreamReady \/ StreamFails))

Recording == WF_vars(kind = "source" /\ StreamRequest)

Spec == Init /\ [][Next]_vars /\ Fairness /\ Recording

\* The same with sources that may stop recording.
StallSpec == Init /\ [][Next]_vars /\ Fairness

-----------------------------------------------------------------------------
(* Properties *)

TypeOK ==
    /\ kind \in DeviceTypes
    /\ dev \in [done : BOOLEAN, opened : BOOLEAN, ctx : BOOLEAN, op : BOOLEAN,
                stream : BOOLEAN, timer : {"none", "off", "armed"}]
    /\ frag.size \in Nat /\ frag.drop \in BOOLEAN /\ frag.live \in BOOLEAN
    /\ pulse.ctx \in {"none", "connecting", "ready", "failed"}
    /\ pulse.str \in {"none", "creating", "ready", "failed"}
    /\ user.pc \in {"new", "idle", "failed", "opening", "locking", "waiting",
                   "restarting", "joining", "gone"}
    /\ user.left \in 0..FrameLen /\ user.held \in Nat

\* Whatever failed and in whatever order the callbacks came, no assertion is
\* met: no query is begun while one is pending (start_device_info_op_), a
\* stream and a timer are made with a context, libpulse gets a stream.
PulseNeverPanics == fault = "none"

\* After close_() nothing of the device is left open, however far opening it
\* had come; and a device that reports Active has a stream that was ready.
PulseClosedIsReleased ==
    /\ (~dev.done /\ user.pc \notin {"opening", "restarting"})
          => ~dev.ctx /\ ~dev.op /\ ~dev.stream /\ dev.timer # "armed"
    /\ dev.opened => dev.done /\ dev.ctx /\ dev.stream /\ pulse.str \in {"ready", "failed"}

\* Every sample of a fragment is read once before the fragment is given
\* back, although frames and fragments have different lengths (read_stream_).
PulseReadsEverySample ==
    [][/\ pulse'.frags # pulse.frags /\ Len(pulse'.frags) < Len(pulse.frags)
          /\ pulse'.str # "none"
          => copied + (user.left - user'.left) = Head(pulse.frags)]_vars

\* A call returns, even when the server falls silent while a frame is being
\* written (wait_stream_ with its timer), and the destructor returns.
PulseCallsReturn ==
    user.pc \notin {"new", "idle", "failed", "gone"}
        ~> user.pc \in {"idle", "failed", "gone"}

\* The lock of the main loop is held inside a call only.
PulseLockReleased == Idle => user.held = 0

\* Samples are read from fragments of a stream that is still open.
PulseFragmentLive ==
    [][(frag.size > 0 /\ ~frag.live) => frag' = frag]_vars
=============================================================================
