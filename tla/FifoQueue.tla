----------------------------- MODULE FifoQueue -----------------------------
(***************************************************************************)
(* What core::MpscQueue promises: elements leave in the order in which     *)
(* their pushes took effect.  A pop takes the oldest element, unless its   *)
(* push has not returned yet; it may come back empty-handed only if there  *)
(* is no element or some push is in progress.  PipelineLoop and            *)
(* SessionGroup rely on exactly this.                                      *)
(***************************************************************************)
EXTENDS Naturals, Sequences

CONSTANTS Nodes, Null

VARIABLES
    queue,      \* elements whose push took effect, oldest first
    unlinked,   \* elements of pushes that took effect and have not returned
    result      \* of the consumer: "idle", "asked", an element, or Null

fifo == <<queue, unlinked, result>>

Init == queue = <<>> /\ unlinked = {} /\ result = "idle"

Push(t) ==
    /\ t # result /\ \A i \in DOMAIN queue : queue[i] # t
    /\ queue' = Append(queue, t)
    /\ unlinked' = unlinked \cup {t}
    /\ UNCHANGED result

PushReturns(t) ==
    /\ t \in unlinked
    /\ unlinked' = unlinked \ {t}
    /\ UNCHANGED <<queue, result>>

Ask == result = "idle" /\ result' = "asked" /\ UNCHANGED <<queue, unlinked>>

Pop ==
    /\ result = "asked" /\ queue # <<>> /\ Head(queue) \notin unlinked
    /\ result' = Head(queue)
    /\ queue' = Tail(queue)
    /\ UNCHANGED unlinked

PopFails ==
    /\ result = "asked" /\ (queue = <<>> \/ unlinked # {})
    /\ result' = Null
    /\ UNCHANGED <<queue, unlinked>>

PopReturns ==
    /\ result \in Nodes \cup {Null}
    /\ result' = "idle"
    /\ UNCHANGED <<queue, unlinked>>

Next == (\E t \in Nodes : Push(t) \/ PushReturns(t)) \/ Ask \/ Pop \/ PopFails \/ PopReturns

Spec == Init /\ [][Next]_fifo
=============================================================================
