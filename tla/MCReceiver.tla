----------------------------- MODULE MCReceiver -----------------------------
(***************************************************************************)
(* The session group with its router, and the router alone, for TLC: the   *)
(* initial state selects a configuration.  Router alone: "streams" has     *)
(* three SSRCs and no failures, "failing" lets every allocation fail.      *)
(* With the group: "group" routes by SSRC and CNAME, "single" has routing  *)
(* disabled and lets allocations fail.                                     *)
(***************************************************************************)
EXTENDS SessionGroup, TLC

CONSTANTS x1, x2, x3, c1, c2, a1, a2, s1, s2, w1

VARIABLE part

Single == INSTANCE SessionGroup WITH
    EnableRouting <- FALSE, MayFail <- TRUE, MaxQueue <- 1, Addrs <- {a1, a2}
Streams == INSTANCE SessionRouter WITH
    Ssrcs <- Ssrcs \cup {x3}, RouteIds <- 1 .. 4, Addrs <- {a1, a2}
Failing == INSTANCE SessionRouter WITH MayFail <- TRUE, Addrs <- {a1, a2}

groupOnly == <<sessions, active, pending, known, queues, writing, pl, hand, routed>>

ReceiverInit == GroupInit /\ part \in {"group", "single", "streams", "failing"}

ReceiverNext ==
    /\ UNCHANGED part
    /\ \/ part = "group" /\ GroupNext
       \/ part = "single" /\ Single!GroupNext
       \/ part = "streams" /\ Streams!RouterNext /\ UNCHANGED groupOnly
       \/ part = "failing" /\ Failing!RouterNext /\ UNCHANGED groupOnly

ReceiverSpec == ReceiverInit /\ [][ReceiverNext]_<<part, groupVars>>

Names == Permutations(Ssrcs) \cup Permutations(Cnames) \cup Permutations(Sessions)

-----------------------------------------------------------------------------

WithGroup == part \in {"group", "single"}

\* The variables of the group and its router have their types; while allocations succeed,
\* routes live as long as they have SSRCs; no two routes answer to the same key, whatever
\* fails; and as the group uses it, the router never panics.
ReceiverConsistent ==
    /\ part = "group" => GroupTypeOK /\ NeverPanics
    /\ part = "streams" => RoutesHaveSources
    /\ part = "failing" => KeysLeadToOneRoute

\* Router: the order of add_session() and link_source() does not matter.
RouterOrderDoesNotMatter == part = "streams" => Streams!OrderDoesNotMatter

\* Router: senders do not disturb each other, whatever fails.
RouterOthersUndisturbed == part = "failing" => Failing!OthersUndisturbed

\* Group: the router leads only to sessions the group has, and a packet without a session
\* can get one.
GroupRoutesLeadToSessions ==
    /\ WithGroup => RoutesLeadToSessions
    /\ part = "group" => CreationNeverConflicts
    /\ part = "single" => Single!CreationNeverConflicts

\* Group: Idle means that there is nothing to do.
GroupIdleMeansNothingToDo == part = "group" => IdleMeansNothingToDo
=============================================================================
