---------------------------- MODULE SessionRouter ----------------------------
(***************************************************************************)
(* roc_pipeline/receiver_session_router: which session gets the packets of *)
(* a stream.  A route maps the SSRCs of a sender, its CNAME and its source *)
(* address to its session.  Links made by RTCP and sessions made by RTP    *)
(* packets come in any order.                                              *)
(*                                                                         *)
(* The router is used by one thread at a time, so a call is one step.  Its *)
(* allocations may fail.  A call is described by the set of its outcomes:  *)
(* the routes it leaves and the status it returns, "Panic" if it aborts.   *)
(***************************************************************************)
EXTENDS FiniteSets, Functions

CONSTANTS
    Ssrcs,          \* stream identifiers
    Cnames,         \* RTCP CNAMEs
    Addrs,          \* source addresses
    Sessions,       \* receiver sessions
    None,           \* no SSRC, no CNAME, no address, NULL session
    RouteIds,       \* places for routes
    MayFail         \* allocations may fail

ASSUME RouterAssumption ==
    /\ None \notin Ssrcs \cup Cnames \cup Addrs \cup Sessions
    /\ RouteIds # {}
    /\ MayFail \in BOOLEAN

VARIABLES
    routes,         \* route_list_: the live routes, by place
    panicked        \* the process was aborted by roc_panic()

(* Route.  A route is in source_route_map_ under each of its SSRCs and in
   cname_route_map_ under its CNAME if it has one; inAddr and inSess say whether it
   is in address_route_map_ and in session_route_map_. *)
Route == [sources : SUBSET Ssrcs, main : Ssrcs \cup {None}, cname : Cnames \cup {None},
          addr : Addrs \cup {None}, session : Sessions \cup {None},
          inAddr : BOOLEAN, inSess : BOOLEAN]

-----------------------------------------------------------------------------
(* Lookups: the routes, at most one, that a key leads to. *)

RoutesOfSource(R, x) == {i \in DOMAIN R : x \in R[i].sources}
RoutesOfCname(R, c) == {i \in DOMAIN R : R[i].cname = c}
RoutesOfAddr(R, a) == {i \in DOMAIN R : R[i].inAddr /\ R[i].addr = a}
RoutesOfSession(R, s) == {i \in DOMAIN R : R[i].inSess /\ R[i].session = s}

The(S) == CHOOSE i \in S : TRUE

FindBySource(R, x) ==
    LET S == RoutesOfSource(R, x) IN IF S = {} THEN None ELSE R[The(S)].session
FindByAddress(R, a) ==
    LET S == RoutesOfAddr(R, a) IN IF S = {} THEN None ELSE R[The(S)].session
HasSession(R, s) == RoutesOfSession(R, s) # {}

-----------------------------------------------------------------------------
(* Outcomes of a call, and of a call that goes on with Op if it went well. *)
Outcome(R, code) == {[routes |-> R, code |-> code]}
NoMem(R) == IF MayFail THEN Outcome(R, "NoMem") ELSE {}
Then(outs, Op(_)) == UNION {IF o.code = "OK" THEN Op(o.routes) ELSE {o} : o \in outs}

(* Mutant: all routes of the CNAME are removed. *)
RemoveByCname(R, i) == Restrict(R, {j \in DOMAIN R : R[j].cname # R[i].cname})

(* remove_route_() and collect_route_() *)
RemoveRoute(R, i) == Restrict(R, DOMAIN R \ {i})
CollectRoute(R, i) == IF R[i].sources = {} THEN RemoveRoute(R, i) ELSE R

(* The call removes route i if an allocation fails. *)
OrRemove(outs, i) ==
    {IF o.code = "NoMem" THEN [o EXCEPT !.routes = RemoveRoute(@, i)] ELSE o : o \in outs}

(* Hashmap::insert() of an embedded node, which panics if the node is in the map
   or another one has the same key. *)
InsertAddress(R, i) ==
    NoMem(R) \cup
    (IF R[i].inAddr \/ RoutesOfAddr(R, R[i].addr) # {}
     THEN Outcome(R, "Panic")
     ELSE Outcome([R EXCEPT ![i].inAddr = TRUE], "OK"))

InsertSession(R, i) ==
    NoMem(R) \cup
    (IF R[i].inSess \/ RoutesOfSession(R, R[i].session) # {}
     THEN Outcome(R, "Panic")
     ELSE Outcome([R EXCEPT ![i].inSess = TRUE], "OK"))

(* Give route i an address and a session, if there are any. *)
AttachSession(R, i, a, s) ==
    LET WithSession(Q) ==
            IF s = None THEN Outcome(Q, "OK")
            ELSE InsertSession([Q EXCEPT ![i].session = s], i)
    IN OrRemove(Then(IF a = None THEN Outcome(R, "OK")
                     ELSE InsertAddress([R EXCEPT ![i].addr = a], i), WithSession), i)

(* create_route_() for SSRC x, which becomes its main one. *)
CreateRoute(R, x, a, c, s) ==
    LET i == The(RouteIds \ DOMAIN R)
        new == [sources |-> {x}, main |-> x, cname |-> c, addr |-> None, session |-> None,
                inAddr |-> FALSE, inSess |-> FALSE]
    IN IF RouteIds \subseteq DOMAIN R THEN Outcome(R, "NoMem")
       ELSE NoMem(R) \cup
            (IF RoutesOfSource(R, x) # {} \/ (c # None /\ RoutesOfCname(R, c) # {})
             THEN Outcome(R, "Panic")
             ELSE AttachSession([j \in DOMAIN R \cup {i} |-> IF j = i THEN new ELSE R[j]], i, a, s))

(* Mutant: a route without sources is kept. *)
UnlinkUncollected(R, x) ==
    LET S == RoutesOfSource(R, x)
        i == The(S)
    IN IF S = {} THEN R
       ELSE [R EXCEPT ![i].sources = @ \ {x}, ![i].main = IF @ = x THEN None ELSE @]

(* unlink_source() *)
UnlinkSource(R, x) ==
    LET S == RoutesOfSource(R, x)
        i == The(S)
    IN IF S = {} THEN R
       ELSE CollectRoute([R EXCEPT ![i].sources = @ \ {x},
                                   ![i].main = IF @ = x THEN None ELSE @], i)

(* add_session() *)
AddSession(R, s, x, a) ==
    LET S == RoutesOfSource(R, x)
        i == The(S)
    IN IF (a # None /\ RoutesOfAddr(R, a) # {}) \/ HasSession(R, s) THEN Outcome(R, "Conflict")
       ELSE IF S # {} /\ R[i].addr = None /\ R[i].session = None THEN AttachSession(R, i, a, s)
       ELSE CreateRoute(UnlinkSource(R, x), x, a, None, s)

(* remove_session() *)
RemoveSession(R, s) ==
    LET S == RoutesOfSession(R, s) IN IF S = {} THEN R ELSE RemoveRoute(R, The(S))

(* move_route_session_(): address and session of route i go to route j, which
   loses its own. *)
MoveRouteSession(R, i, j) ==
    LET Moved(Q) == [Q EXCEPT ![i].inSess = FALSE, ![j].inSess = FALSE, ![i].session = None,
                              ![j].session = R[i].session]
        WithSession(Q) == InsertSession(Moved(Q), j)
    IN Then(InsertAddress([R EXCEPT ![i].inAddr = FALSE, ![j].inAddr = FALSE, ![i].addr = None,
                                    ![j].addr = R[i].addr], j), WithSession)

(* link_source() of an SSRC that has no route: a new route, or the CNAME's. *)
LinkNewSource(R, x, c) ==
    LET C == RoutesOfCname(R, c)
    IN IF C = {} THEN CreateRoute(R, x, None, c, None)
       ELSE NoMem(R) \cup Outcome([R EXCEPT ![The(C)].sources = @ \cup {x}], "OK")

(* Mutant: address and session stay behind. *)
RelinkStaying(R, x, c) ==
    LET i == The(RoutesOfSource(R, x))
        Move(Q) == Outcome(CollectRoute(Q, i), "OK")
    IN Then(LinkNewSource([R EXCEPT ![i].sources = @ \ {x}], x, c), Move)

(* relink_source_(): the main SSRC takes address and session along. *)
RelinkSource(R, x, c) ==
    LET i == The(RoutesOfSource(R, x))
        Move(Q) ==
            LET j == The(RoutesOfSource(Q, x))
                Settle(P) == Outcome(CollectRoute([P EXCEPT ![j].main = x, ![i].main = None], i), "OK")
            IN IF Q[i].main = x
               THEN Then(OrRemove(MoveRouteSession(Q, i, j), j), Settle)
               ELSE Outcome(CollectRoute(Q, i), "OK")
    IN Then(LinkNewSource([R EXCEPT ![i].sources = @ \ {x}], x, c), Move)

(* link_source() *)
LinkSource(R, x, c) ==
    LET S == RoutesOfSource(R, x)
        C == RoutesOfCname(R, c)
        i == The(S)
    IN IF S = {} THEN LinkNewSource(R, x, c)
       ELSE IF S = C THEN Outcome(R, "OK")
       ELSE IF C # {} \/ R[i].cname # None THEN RelinkSource(R, x, c)
       ELSE NoMem(R) \cup Outcome([R EXCEPT ![i].cname = c], "OK")

-----------------------------------------------------------------------------
(* The router on its own, called in any order with any arguments. *)

routerVars == <<routes, panicked>>

RouterInit == routes = <<>> /\ panicked = FALSE

(* The call ends with one of its outcomes. *)
Apply(outs) ==
    \E o \in outs :
        /\ panicked' = (o.code = "Panic")
        /\ routes' = IF panicked' THEN routes ELSE o.routes

DoAddSession(s, x, a) == ~panicked /\ Apply(AddSession(routes, s, x, a))
DoRemoveSession(s) == ~panicked /\ Apply(Outcome(RemoveSession(routes, s), "OK"))
DoLinkSource(x, c) == ~panicked /\ Apply(LinkSource(routes, x, c))
DoUnlinkSource(x) == ~panicked /\ Apply(Outcome(UnlinkSource(routes, x), "OK"))

(* An aborted process does nothing more. *)
Aborted == panicked /\ UNCHANGED routerVars

RouterNext ==
    \/ \E s \in Sessions, x \in Ssrcs, a \in Addrs \cup {None} : DoAddSession(s, x, a)
    \/ \E s \in Sessions : DoRemoveSession(s)
    \/ \E x \in Ssrcs, c \in Cnames : DoLinkSource(x, c)
    \/ \E x \in Ssrcs : DoUnlinkSource(x)
    \/ Aborted

RouterSpec == RouterInit /\ [][RouterNext]_routerVars

-----------------------------------------------------------------------------
(* Types of the variables. *)
RouterTypeOK ==
    /\ DOMAIN routes \subseteq RouteIds
    /\ \A i \in DOMAIN routes : routes[i] \in Route
    /\ panicked \in BOOLEAN

(* "one or several source ids (SSRCs) - one source address - one cname - one
   session pointer" (receiver_session_router.h, Route): no two routes answer to the
   same key, and a route that has a session or an address is found under it,
   whatever allocations failed. *)
KeysLeadToOneRoute ==
    /\ \A i, j \in DOMAIN routes :
          \/ i = j
          \/ /\ routes[i].sources \cap routes[j].sources = {}
             /\ routes[i].cname # None => routes[i].cname # routes[j].cname
             /\ routes[i].addr # None => routes[i].addr # routes[j].addr
             /\ routes[i].session # None => routes[i].session # routes[j].session
    /\ \A i \in DOMAIN routes :
          /\ routes[i].addr # None => routes[i].inAddr
          /\ routes[i].session # None => routes[i].inSess

(* While allocations succeed, a route lives exactly as long as it has SSRCs ("If
   this was the last SSRC, the whole route is removed") and its main SSRC is "one of
   the identifiers from source_nodes list". *)
RoutesHaveSources ==
    \A i \in DOMAIN routes :
        /\ routes[i].sources # {}
        /\ routes[i].main \in routes[i].sources \cup {None}

(* "one of the SSRCs should be explicitly mapped to a session using add_session(),
   and the rest of SSRCs should be linked together using link_source() with same
   CNAME. The order of these calls does not matter" (find_by_source()): in whatever
   state the router is, for a sender it does not know, every order of the three
   calls leads both SSRCs and the address to the session. *)
OrderDoesNotMatter ==
    \A x, y \in Ssrcs, c \in Cnames, a \in Addrs, s \in Sessions :
        LET Add(Q) == AddSession(Q, s, x, a)
            LinkX(Q) == LinkSource(Q, x, c)
            LinkY(Q) == LinkSource(Q, y, c)
            Routed(outs) == \A o \in outs :
                /\ o.code = "OK"
                /\ FindBySource(o.routes, x) = s
                /\ FindBySource(o.routes, y) = s
                /\ FindByAddress(o.routes, a) = s
        IN (/\ x # y
            /\ RoutesOfSource(routes, x) \cup RoutesOfSource(routes, y) = {}
            /\ RoutesOfCname(routes, c) \cup RoutesOfAddr(routes, a) \cup RoutesOfSession(routes, s) = {})
           => /\ Routed(Then(Then(Add(routes), LinkX), LinkY))
              /\ Routed(Then(Then(Add(routes), LinkY), LinkX))
              /\ Routed(Then(Then(LinkX(routes), Add), LinkY))
              /\ Routed(Then(Then(LinkX(routes), LinkY), Add))
              /\ Routed(Then(Then(LinkY(routes), Add), LinkX))
              /\ Routed(Then(Then(LinkY(routes), LinkX), Add))

(* The call leaves alone every route that has none of the SSRC x, the CNAME c and
   the session s. *)
LeavesOthers(outs, x, c, s) ==
    \A o \in outs, i \in DOMAIN routes :
        \/ o.code = "Panic"
        \/ x # None /\ x \in routes[i].sources
        \/ c # None /\ routes[i].cname = c
        \/ s # None /\ routes[i].session = s
        \/ i \in DOMAIN o.routes /\ o.routes[i] = routes[i]

(* Senders do not disturb each other: in whatever state the router is, a call about
   one SSRC, CNAME or session leaves the routes of all others as they are, even when
   an allocation fails in the middle of it. *)
OthersUndisturbed ==
    /\ \A x \in Ssrcs :
          /\ \A c \in Cnames : LeavesOthers(LinkSource(routes, x, c), x, c, None)
          /\ \A s \in Sessions, a \in Addrs \cup {None} :
                LeavesOthers(AddSession(routes, s, x, a), x, None, s)
          /\ LeavesOthers(Outcome(UnlinkSource(routes, x), "OK"), x, None, None)
    /\ \A s \in Sessions : LeavesOthers(Outcome(RemoveSession(routes, s), "OK"), None, None, s)

(* Hashmap::insert() panics if "elem" is already a "member of any hashmap" or the
   map has "an element with the same key" (hashmap.h); no sequence of calls to the
   router leads to that. *)
NeverPanics == ~panicked
=============================================================================
