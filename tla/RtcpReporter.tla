----------------------------- MODULE RtcpReporter ---------------------------
(***************************************************************************)
(* rtcp::Reporter (roc_rtcp/reporter.cpp) and the calls rtcp::Communicator *)
(* makes to it: one per packet processed and one per generation.  All run  *)
(* on the pipeline thread, so a call is one action.  The report of a       *)
(* stream is kept as whether there is one; its figures are left out.       *)
(*                                                                         *)
(* A packet is [ssrc, cname, addr, kind, block, xr]: who sends it, from    *)
(* which address, "sr", "rr" or "bye", the sender its reception block is   *)
(* about (0 if it has none) and whether it has an RRTR block.  It names    *)
(* its CNAME, as RFC 3550 requires of every compound packet.               *)
(***************************************************************************)
EXTENDS Integers, SequencesExt, FiniteSets, TLC

CONSTANTS
    Roles,           \* "sender", "receiver" or "multicast" (a receiver)
    Packets,         \* packets that may arrive, by role
    Sources,         \* of each role: senders it may have sessions of
    LocalIds,        \* what fast_random_range() may return
    ReportAddr,      \* participant_report_addr_
    Timeout,         \* inactivity_timeout
    Step,            \* what the clock advances by between two refreshes
    MaxNow,          \* bound: the clock
    CallsPerInstant, \* bound: calls with the same current_time
    ChangesPerCall   \* bound: sessions that begin or end between two calls

VARIABLES
    rep,       \* the reporter
    sessions,  \* the receiver's sessions with a report, by sender, in order
    sending,   \* SenderSession::has_send_stream()
    now,       \* the clock the calls are given
    calls,     \* calls since it advanced
    changes,   \* changes of sessions since the last call
    obs,       \* history: the last call and what came out of it
    heard      \* history: when a report of each stream last arrived

rtcpVars == <<rep, sessions, sending, now, calls, changes, obs, heard>>

LocalCname == "me"
Dangling == 0   \* a pointer to a stream that was removed
NoneYet == [call |-> "none"]

\* Stream(): a stream nothing is known of yet.
NewStream(time) ==
    [cname |-> "", sr |-> FALSE, rr |-> FALSE, rrtr |-> FALSE, addr |-> "",
     looped |-> FALSE, upd |-> time, report |-> 0]

\* Reporter(): need_rebuild_index_ starts as true.
Init ==
    /\ \E role \in Roles, id \in LocalIds :
         /\ \A other \in LocalIds : id <= other
         /\ rep = [role |-> role, local |-> id, streams |-> <<>>, lru |-> <<>>,
                   addrs |-> <<>>, addrLru |-> <<>>, index |-> {},
                   rebuild |-> TRUE, recv |-> <<>>, hasSend |-> FALSE,
                   time |-> 0, collision |-> FALSE, reported |-> FALSE,
                   panic |-> FALSE]
    /\ sessions = <<>> /\ sending = FALSE
    /\ now = Step /\ calls = 0 /\ changes = 0
    /\ obs = NoneYet
    /\ heard = <<>>

\* begin_processing() and begin_generation(): report_time_.
ReportTime(r, time) == [r EXCEPT !.time = IF time # @ THEN time ELSE time + 1]

\* find_stream_(AutoCreate)
FindStream(r, s) ==
    IF s \in DOMAIN r.streams THEN r
    ELSE [r EXCEPT !.streams = (s :> NewStream(r.time)) @@ @,
                   !.lru = <<s>> \o @, !.rebuild = TRUE]

\* remove_stream_(): the pointers the index holds are left behind.
RemoveStream(r, s) ==
    LET Forget(q) == [i \in DOMAIN q |-> IF q[i] = s THEN Dangling ELSE q[i]]
    IN  [r EXCEPT
           !.streams = [t \in DOMAIN @ \ {s} |-> @[t]],
           !.lru = Remove(@, s),
           !.addrs = [a \in DOMAIN @ |-> [@[a] EXCEPT !.send = Forget(@),
                                                      !.recv = Forget(@)]],
           !.rebuild = TRUE]

\* Mutant: the stream keeps its place in the list.
UpdateInPlace(r, s) == [r EXCEPT !.streams[s].upd = r.time]

\* update_stream_()
UpdateStream(r, s) ==
    IF r.streams[s].upd = r.time THEN r
    ELSE [r EXCEPT !.streams[s].upd = r.time,
                   !.lru = <<s>> \o Remove(@, s)]

\* detect_collision_()
DetectCollision(r, s) ==
    IF r.collision \/ s # r.local THEN r
    ELSE IF s \in DOMAIN r.streams /\ r.streams[s].looped THEN r
    ELSE IF s \in DOMAIN r.streams /\ r.streams[s].cname = LocalCname
         THEN [r EXCEPT !.streams[s].looped = TRUE]
         ELSE [r EXCEPT !.collision = TRUE, !.reported = FALSE]
-----------------------------------------------------------------------------
(* What a packet does.  The participant's sessions are carried as .live.   *)

\* halt_recv_stream(): the group drops the session of that sender.
Halt(r, s) == [r EXCEPT !.live = Remove(@, s)]

\* process_cname(): another CNAME makes it another stream.
ProcessCname(r, p) ==
    LET f == FindStream(r, p.ssrc)
        old == f.streams[p.ssrc].cname
        g == IF old = "" THEN f
             ELSE FindStream(RemoveStream(Halt(f, p.ssrc), p.ssrc), p.ssrc)
    IN  IF old = p.cname THEN f
        ELSE UpdateStream(
               DetectCollision([g EXCEPT !.streams[p.ssrc].cname = p.cname,
                                         !.rebuild = TRUE], p.ssrc), p.ssrc)

\* process_sr()
ProcessSr(r, p) ==
    LET f == FindStream(DetectCollision(r, p.ssrc), p.ssrc)
        st == f.streams[p.ssrc]
    IN  IF p.kind # "sr" THEN r
        ELSE UpdateStream(
               [f EXCEPT !.streams[p.ssrc].sr = TRUE,
                         !.streams[p.ssrc].addr = p.addr,
                         !.rebuild = @ \/ ~st.sr \/ st.addr # p.addr], p.ssrc)

\* process_reception_block(): a block about another sender is not for us.
ProcessReceptionBlock(r, p) ==
    LET d == DetectCollision(r, p.ssrc)
        f == FindStream(d, p.ssrc)
        st == f.streams[p.ssrc]
    IN  IF p.block = 0 THEN r
        ELSE IF ~d.hasSend \/ p.block # d.local THEN d
        ELSE UpdateStream(
               [f EXCEPT !.streams[p.ssrc].rr = TRUE,
                         !.streams[p.ssrc].addr = p.addr,
                         !.rebuild = @ \/ ~st.rr \/ st.addr # p.addr], p.ssrc)

\* process_rrtr_block(): only for streams a reception block was seen of.
ProcessRrtrBlock(r, p) ==
    LET d == DetectCollision(r, p.ssrc)
    IN  IF ~p.xr THEN r
        ELSE IF p.ssrc \notin DOMAIN d.streams \/ ~d.streams[p.ssrc].rr THEN d
        ELSE UpdateStream([d EXCEPT !.streams[p.ssrc].rrtr = TRUE], p.ssrc)

\* process_goodbye()
ProcessGoodbye(r, p) ==
    IF p.kind # "bye" THEN r
    ELSE Halt(IF p.ssrc \in DOMAIN r.streams THEN RemoveStream(r, p.ssrc) ELSE r,
              p.ssrc)

RECURSIVE DetectTimeoutsAll(_)
\* Mutant: streams known from RTP alone time out as well.
DetectTimeoutsAll(r) ==
    IF r.lru = <<>> \/ r.streams[Last(r.lru)].upd > r.time - Timeout THEN r
    ELSE DetectTimeoutsAll(RemoveStream(Halt(r, Last(r.lru)), Last(r.lru)))

RECURSIVE DetectTimeouts(_)
\* detect_timeouts_(): from the back of the list to the first fresh stream.
DetectTimeouts(r) ==
    IF r.lru = <<>> \/ r.streams[Last(r.lru)].upd > r.time - Timeout THEN r
    ELSE LET s == Last(r.lru)
         IN  IF ~r.streams[s].rr /\ ~r.streams[s].sr
             THEN DetectTimeouts(UpdateStream(r, s))
             ELSE DetectTimeouts(RemoveStream(Halt(r, s), s))

\* notify_streams_(): from the front of the list to the first stream this
\* packet did not update.
Notified(r) ==
    LET fresh == {k \in DOMAIN r.lru :
                    \A j \in 1..k : r.streams[r.lru[j]].upd = r.time}
    IN  {s \in {r.lru[k] : k \in fresh} :
           /\ ~r.streams[s].looped
           /\ r.streams[s].sr \/ (r.streams[s].rr /\ sending)}
-----------------------------------------------------------------------------
(* The index of destination addresses.                                     *)

\* find_address_(AutoCreate) and rebuild_address_()
Touch(r, a) ==
    IF a \notin DOMAIN r.addrs
    THEN [r EXCEPT !.addrs = (a :> [send |-> <<>>, recv |-> <<>>,
                                    rebuilt |-> r.time]) @@ @,
                   !.addrLru = <<a>> \o @]
    ELSE IF r.addrs[a].rebuilt = r.time THEN r
    ELSE [r EXCEPT !.addrs[a] = [send |-> <<>>, recv |-> <<>>,
                                 rebuilt |-> r.time],
                   !.addrLru = <<a>> \o Remove(@, a)]

ReportMode(r) == IF r.role = "receiver" THEN "back" ELSE "address"

Destination(r, s) ==
    IF ReportMode(r) = "address" THEN ReportAddr ELSE r.streams[s].addr

IndexSending(r, s) ==
    LET a == Destination(r, s)
    IN  IF r.streams[s].looped \/ ~r.streams[s].rr \/ ~r.streams[s].rrtr THEN r
        ELSE [Touch(r, a) EXCEPT !.addrs[a].send = Append(@, s)]

IndexReceiving(r, k) ==
    LET s == r.recv[k]
        f == FindStream(r, s)
        a == Destination(f, s)
    IN  IF f.streams[s].looped \/ (ReportMode(f) = "back" /\ ~f.streams[s].sr)
        THEN f
        ELSE [Touch(f, a) EXCEPT !.addrs[a].recv = Append(@, s),
                                 !.streams[s].report = k]

RECURSIVE DropUntouched(_)
DropUntouched(r) ==
    IF r.addrLru = <<>> \/ r.addrs[Last(r.addrLru)].rebuilt = r.time THEN r
    ELSE LET a == Last(r.addrLru)
         IN  DropUntouched([r EXCEPT !.addrLru = Front(@),
                                     !.addrs = [b \in DOMAIN @ \ {a} |-> @[b]]])

\* rebuild_index_()
RebuildIndex(r) ==
    LET own == IF r.hasSend /\ ReportMode(r) = "address"
               THEN Touch(r, ReportAddr) ELSE r
        sends == IF r.hasSend
                 THEN FoldLeft(IndexSending, own, SetToSeq(DOMAIN r.streams))
                 ELSE own
        recvs == FoldLeft(IndexReceiving, sends, [k \in DOMAIN r.recv |-> k])
        kept == DropUntouched(recvs)
    IN  [kept EXCEPT !.index = DOMAIN kept.addrs, !.rebuild = FALSE]

\* query_streams_()
QueryStreams(r) ==
    [r EXCEPT
       !.hasSend = sending, !.recv = sessions,
       !.rebuild = @ \/ Len(r.recv) # Len(sessions)
                     \/ \E k \in DOMAIN sessions : sessions[k] \notin DOMAIN r.streams]

\* refresh_streams_()
RefreshStreams(r) ==
    LET q == QueryStreams(r) IN IF q.rebuild THEN RebuildIndex(q) ELSE q
-----------------------------------------------------------------------------
(* The calls.                                                              *)

WithSessions(r) == r @@ [live |-> sessions]
Reporter(r) == [f \in DOMAIN r \ {"live"} |-> r[f]]

ACall ==
    /\ calls < CallsPerInstant
    /\ ~rep.panic
    /\ calls' = calls + 1
    /\ changes' = 0
    /\ UNCHANGED <<sending, now>>

\* Communicator::process_packet(): SDES, then SR, RR and XR, then BYE.
ProcessPacket(p) ==
    /\ ACall
    /\ p \in Packets[rep.role]
    /\ LET begun == WithSessions(RefreshStreams(ReportTime(rep, now)))
           described == ProcessCname(begun, p)
           reports == ProcessRrtrBlock(
                        ProcessReceptionBlock(ProcessSr(described, p), p), p)
           ended == DetectTimeouts(ProcessGoodbye(reports, p))
       IN  /\ rep' = Reporter(ended)
           /\ sessions' = ended.live
           /\ obs' = [call |-> "process", packet |-> p, notified |-> Notified(ended)]
           /\ heard' = IF \/ p.kind = "sr"
                          \/ p.block = begun.local /\ begun.hasSend
                          \/ p.xr /\ described.streams[p.ssrc].rr
                       THEN (p.ssrc :> rep'.time) @@ heard ELSE heard

\* The packet generated for one destination: whom its blocks are addressed
\* to and the session whose report each reception block was filled from.
PacketTo(r, a) ==
    [addr |-> a, from |-> r.local, bye |-> r.collision,
     send |-> IF r.hasSend THEN r.addrs[a].send ELSE <<>>,
     recv |-> IF r.recv = <<>> THEN <<>>
              ELSE [k \in DOMAIN r.addrs[a].recv |->
                      LET s == r.addrs[a].recv[k]
                      IN  <<s, IF s = Dangling THEN Dangling
                               ELSE r.recv[r.streams[s].report]>>]]

\* resolve_collision_(): the new id is drawn until no stream has it.
NewId(r, id) ==
    /\ r.collision /\ r.reported => id \in LocalIds \ DOMAIN r.streams
    /\ ~(r.collision /\ r.reported) => id = r.local

ResolveCollision(r, id) ==
    [r EXCEPT !.local = id, !.collision = FALSE, !.reported = FALSE,
              !.panic = r.collision /\ ~r.reported]

\* Communicator::generate_reports(); a sender generates once it is sending.
GenerateReports ==
    /\ ACall
    /\ rep.role = "sender" => sending
    /\ LET begun == RefreshStreams(ReportTime(rep, now))
           packets == {PacketTo(begun, a) : a \in begun.index}
           done == [begun EXCEPT !.reported = @ \/ (begun.collision /\ packets # {})]
       IN  \E id \in LocalIds \cup {done.local} :
             LET resolved == WithSessions(ResolveCollision(done, id))
                 ended == DetectTimeouts(resolved)
             IN  /\ NewId(done, id)
                 /\ rep' = Reporter(ended)
                 /\ sessions' = ended.live
                 /\ obs' = [call |-> "generate", packets |-> packets, asked |-> sessions]
    /\ UNCHANGED heard

\* A session gets its first RTP packets, or ends (watchdog, remove slot).
ChangeSessions ==
    /\ rep.role # "sender" /\ ~rep.panic
    /\ changes < ChangesPerCall
    /\ changes' = changes + 1
    /\ \E s \in Sources[rep.role] :
         sessions' = IF s \in ToSet(sessions)
                     THEN Remove(sessions, s)
                     ELSE Append(sessions, s)
    /\ UNCHANGED <<rep, sending, now, calls, obs, heard>>

\* The sender's timestamp extractor sees the first packet.
StartSending ==
    /\ rep.role = "sender" /\ ~sending
    /\ sending' = TRUE
    /\ UNCHANGED <<rep, sessions, now, calls, changes, obs, heard>>

Tick ==
    /\ now + Step <= MaxNow
    /\ now' = now + Step
    /\ calls' = 0
    /\ UNCHANGED <<rep, sessions, sending, changes, obs, heard>>

Next ==
    \/ \E role \in Roles : \E p \in Packets[role] : ProcessPacket(p)
    \/ GenerateReports
    \/ ChangeSessions
    \/ StartSending
    \/ Tick

Spec == Init /\ [][Next]_rtcpVars
-----------------------------------------------------------------------------
(* Properties.                                                             *)

HasReport(s) == rep.streams[s].sr \/ rep.streams[s].rr

\* Type correctness; the list and the map hold the same streams.
TypeOK ==
    /\ rep.local \in LocalIds
    /\ rep.time \in 0..MaxNow + 1 /\ now \in Step..MaxNow
    /\ ToSet(rep.lru) = DOMAIN rep.streams /\ Len(rep.lru) = Cardinality(DOMAIN rep.streams)
    /\ ToSet(rep.addrLru) = DOMAIN rep.addrs
    /\ ToSet(sessions) \subseteq Sources[rep.role]

\* generate_reception_block() fills each block from the report of the stream
\* the block names, for a stream that is still known, and no stream is
\* reported twice to one address, however streams and sessions came and went
\* since the index was built.
RtcpBlocksGenuine ==
    obs.call = "generate" =>
        \A pk \in obs.packets :
            /\ \A k \in DOMAIN pk.recv : pk.recv[k][1] = pk.recv[k][2]
            /\ \A k \in DOMAIN pk.recv : pk.recv[k][1] # Dangling
            /\ \A k \in DOMAIN pk.send : pk.send[k] # Dangling
            /\ IsInjective(pk.recv) /\ IsInjective(pk.send)

\* generate_reports() of a receiver reports every session to its sender, at
\* the address the sender's last SR came from (or to the group's address), and
\* to nobody else.
RtcpSendersGetReports ==
    obs.call = "generate" /\ rep.role # "sender" =>
        \A s \in ToSet(obs.asked) \cap DOMAIN rep.streams :
            ~rep.streams[s].looped /\ (rep.streams[s].sr \/ rep.role = "multicast") =>
                {pk.addr : pk \in {q \in obs.packets :
                                     \E k \in DOMAIN q.recv : q.recv[k][1] = s}}
                  = {Destination(rep, s)}

\* end_processing() tells the pipeline of every report the packet brought.
RtcpReportsAreDelivered ==
    obs.call = "process" =>
        LET s == obs.packet.ssrc
        IN  s \in DOMAIN heard /\ heard[s] = rep.time /\ ~rep.streams[s].looped
              => s \in obs.notified

\* detect_timeouts_() leaves no stream behind whose reports stopped.
RtcpSilentIsForgotten ==
    \A s \in DOMAIN rep.streams : HasReport(s) => rep.time - heard[s] < Timeout

\* A stream ends only by its BYE or after its reports stopped for the timeout;
\* one known from RTP alone stays.
EndsForReason ==
    \A s \in DOMAIN rep.streams \ DOMAIN rep'.streams :
        \/ obs'.call = "process" /\ obs'.packet.kind = "bye" /\ obs'.packet.ssrc = s
        \/ s \in DOMAIN heard /\ rep'.time - heard[s] >= Timeout

\* detect_collision_() takes its own packets that come back for a loop, and
\* any other use of its SSRC for a collision.
OwnPacketsNoCollision ==
    rep'.collision /\ ~rep.collision =>
        obs'.packet.ssrc = rep.local /\ obs'.packet.cname # LocalCname

\* resolve_collision_(): the SSRC changes only after BYE went out under the
\* old one to every destination, and after a generation no other known
\* participant has our SSRC.
CollisionIsResolved ==
    /\ rep'.local # rep.local =>
         /\ obs'.packets # {}
         /\ \A pk \in obs'.packets : pk.bye /\ pk.from = rep.local
    /\ obs'.call = "generate" /\ rep' # rep /\ ~rep'.panic
         /\ rep'.local \in DOMAIN rep'.streams =>
             rep'.streams[rep'.local].looped

\* Participants come and go for a reason: remote streams are forgotten only
\* by BYE or timeout, the local SSRC is given up only for a real collision,
\* after its BYE, and for one that nobody has.
RtcpIdentitiesSound ==
    [][EndsForReason /\ OwnPacketsNoCollision /\ CollisionIsResolved]_rtcpVars

\* communicator.cpp, resolve_collision_(): "need_goodbye() returned true, but
\* generate_goodbye() was not called" never happens.
RtcpNoPanic == ~rep.panic

\* rebuild_index_(): "If there is configured single destination address for
\* all reports, ensure that it's always present in the index".
RtcpAddressAlwaysPresent ==
    obs.call = "generate" /\ rep.role = "sender" => obs.packets # {}

\* rebuild_index_(): "Skip sending stream if we haven't received both RR and
\* RRTR yet": a receiver both were received from is answered.
RtcpReceiversAreAnswered ==
    obs.call = "generate" /\ rep.role = "sender" =>
        \A s \in DOMAIN rep.streams :
            rep.streams[s].rr /\ rep.streams[s].rrtr /\ ~rep.streams[s].looped =>
                \E pk \in obs.packets : \E k \in DOMAIN pk.send : pk.send[k] = s
=============================================================================
