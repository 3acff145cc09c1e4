----------------------------- MODULE MpscQueue -----------------------------
(***************************************************************************)
(* core/mpsc_queue_impl: the intrusive multi-producer single-consumer      *)
(* list with a stub node.  A push exchanges tail_ and then links the node  *)
(* to its predecessor; in between the list is cut in two.                  *)
(*                                                                         *)
(* One action is one atomic access.  Accesses are sequentially consistent  *)
(* here; the code's release and acquire pairs on "next" give the same      *)
(* outcomes for a single consumer.  Each node has a thread of its own that *)
(* pushes it again once it was popped.                                     *)
(***************************************************************************)
EXTENDS Integers, Sequences, FiniteSets

CONSTANTS Nodes, Stub, Null

ASSUME MpscAssumption ==
    /\ Stub \notin Nodes /\ Null \notin Nodes \cup {Stub}
    /\ {"idle", "asked"} \cap (Nodes \cup {Null}) = {}

VARIABLES
    next, tail, head,   \* the list
    owned,              \* nodes whose "queue" field points to this queue
    panicked,           \* change_owner_() found an unexpected owner
    pc, prev,           \* of the thread of each node, and of the stub: push_node_()
    cpc, h, n,          \* of the consumer: pop_node_() and its locals head and next
    spin,               \* can_spin
    order,              \* history: nodes in the order in which they exchanged tail_,
                        \* until head_ moves past them
    chain               \* history: the same with the stub: the list, linked or not

mpscVars == <<next, tail, head, owned, panicked, pc, prev, cpc, h, n, spin, order, chain>>
producer == <<pc, prev>>
consumer == <<cpc, h, n, spin>>

MpscInit ==
    /\ next = [x \in Nodes \cup {Stub} |-> Null]
    /\ tail = Stub /\ head = Stub
    /\ owned = {} /\ panicked = FALSE
    /\ pc = [x \in Nodes \cup {Stub} |-> IF x = Stub THEN "queued" ELSE "free"]
    /\ prev = [x \in Nodes \cup {Stub} |-> Null]
    /\ cpc = "idle" /\ h = Stub /\ n = Null /\ spin = FALSE
    /\ order = <<>> /\ chain = <<Stub>>

-----------------------------------------------------------------------------
(* push_back() *)

TakeOwnership(t) ==
    /\ t \in Nodes /\ pc[t] = "free"
    /\ owned' = owned \cup {t} /\ panicked' = (t \in owned)
    /\ pc' = [pc EXCEPT ![t] = "clear"]
    /\ UNCHANGED <<next, tail, head, prev, order, chain, consumer>>

ClearNext(t) ==
    /\ pc[t] = "clear"
    /\ next' = [next EXCEPT ![t] = Null]
    /\ pc' = [pc EXCEPT ![t] = "exchange"]
    /\ UNCHANGED <<tail, head, owned, panicked, prev, order, chain, consumer>>

ExchangeTail(t) ==
    /\ pc[t] = "exchange"
    /\ prev' = [prev EXCEPT ![t] = tail]
    /\ tail' = t
    /\ order' = IF t = Stub THEN order ELSE Append(order, t)
    /\ chain' = Append(chain, t)
    /\ pc' = [pc EXCEPT ![t] = "link"]
    /\ UNCHANGED <<next, head, owned, panicked, consumer>>

LinkNext(t) ==
    /\ pc[t] = "link"
    /\ next' = [next EXCEPT ![prev[t]] = t]
    /\ prev' = [prev EXCEPT ![t] = Null]
    /\ pc' = [pc EXCEPT ![t] = "queued"]
    /\ UNCHANGED <<tail, head, owned, panicked, order, chain, consumer>>

PushNode(t) == ClearNext(t) \/ ExchangeTail(t) \/ LinkNext(t)

-----------------------------------------------------------------------------
(* pop_front() *)

ConsumerGoto(l) == cpc' = l
list == <<next, tail, head, owned, panicked, order, chain>>

StartPop ==
    /\ cpc = "idle"
    /\ h' = head
    /\ spin' \in BOOLEAN
    /\ ConsumerGoto("load")
    /\ UNCHANGED <<list, producer, n>>

(* Load head->next and see where we are. *)
LoadNext ==
    /\ cpc = "load"
    /\ n' = next[h]
    /\ ConsumerGoto(IF n' # Null THEN (IF h = Stub THEN "skip" ELSE "advance")
            ELSE IF h = Stub THEN "empty" ELSE "last")
    /\ UNCHANGED <<list, producer, h, spin>>

(* The stub has no next: the queue is empty or a push is in progress. *)
CheckEmpty ==
    /\ cpc = "empty"
    /\ ConsumerGoto(IF tail = h THEN "null" ELSE "wait")
    /\ UNCHANGED <<list, producer, h, n, spin>>

(* Remove the stub from the beginning of the list, load the next of the first node. *)
SkipStub ==
    /\ cpc = "skip"
    /\ head' = n /\ h' = n
    /\ chain' = Tail(chain)
    /\ ConsumerGoto("load")
    /\ UNCHANGED <<next, tail, owned, panicked, order, producer, n, spin>>

(* A mutant that does not put the stub behind the last node. *)
CheckLastNoStub ==
    /\ cpc = "last"
    /\ ConsumerGoto("wait")
    /\ UNCHANGED <<list, producer, h, n, spin>>

(* The first node has no next: if it is the last one, push the stub behind it. *)
CheckLast ==
    /\ cpc = "last"
    /\ IF tail = h THEN ConsumerGoto("stub") /\ pc' = [pc EXCEPT ![Stub] = "clear"]
       ELSE ConsumerGoto("wait") /\ UNCHANGED pc
    /\ UNCHANGED <<list, prev, h, n, spin>>

StubPushed ==
    /\ cpc = "stub" /\ pc[Stub] = "queued"
    /\ ConsumerGoto("wait")
    /\ UNCHANGED <<list, producer, h, n, spin>>

(* wait_next_() and try_wait_next_(): the last attempt of the latter fails. *)
WaitNext ==
    /\ cpc = "wait"
    /\ n' = next[h]
    /\ \/ n' # Null /\ ConsumerGoto(IF h = Stub THEN "skip" ELSE "advance")
       \/ n' = Null /\ ~spin /\ ConsumerGoto("null")
    /\ UNCHANGED <<list, producer, h, spin>>

Advance ==
    /\ cpc = "advance"
    /\ head' = n
    /\ order' = Tail(order) /\ chain' = Tail(chain)
    /\ ConsumerGoto("popped")
    /\ UNCHANGED <<next, tail, owned, panicked, producer, h, n, spin>>

(* A mutant that leaves the popped node marked as owned. *)
ReleaseForgotten ==
    /\ cpc = "popped"
    /\ panicked' = (h \notin owned)
    /\ pc' = [pc EXCEPT ![h] = "free"]
    /\ ConsumerGoto("idle")
    /\ UNCHANGED <<next, tail, head, owned, prev, order, chain, h, n, spin>>

ReleaseOwnership ==
    /\ cpc = "popped"
    /\ owned' = owned \ {h} /\ panicked' = (h \notin owned)
    /\ pc' = [pc EXCEPT ![h] = "free"]
    /\ ConsumerGoto("idle")
    /\ UNCHANGED <<next, tail, head, prev, order, chain, h, n, spin>>

ReturnNull ==
    /\ cpc = "null"
    /\ ConsumerGoto("idle")
    /\ UNCHANGED <<list, producer, h, n, spin>>

Consume ==
    \/ StartPop \/ LoadNext \/ CheckEmpty \/ SkipStub \/ CheckLast \/ StubPushed \/ WaitNext
    \/ Advance \/ ReleaseOwnership \/ ReturnNull \/ PushNode(Stub)

MpscNext == Consume \/ \E t \in Nodes : TakeOwnership(t) \/ PushNode(t)

MpscSpec == MpscInit /\ [][MpscNext]_mpscVars

(* Threads inside a push are scheduled, and the consumer keeps popping. *)
MpscFairSpec == MpscSpec /\ WF_mpscVars(Consume) /\ \A t \in Nodes : WF_mpscVars(PushNode(t))

-----------------------------------------------------------------------------
(* Types of the variables. *)
MpscTypeOK ==
    /\ next \in [Nodes \cup {Stub} -> Nodes \cup {Stub, Null}]
    /\ tail \in Nodes \cup {Stub} /\ head \in Nodes \cup {Stub}
    /\ owned \subseteq Nodes /\ panicked \in BOOLEAN
    /\ pc \in [Nodes \cup {Stub} -> {"free", "clear", "exchange", "link", "queued"}]
    /\ prev \in [Nodes \cup {Stub} -> Nodes \cup {Stub, Null}]
    /\ cpc \in {"idle", "load", "empty", "skip", "last", "stub", "wait", "advance", "popped", "null"}
    /\ h \in Nodes \cup {Stub} /\ n \in Nodes \cup {Stub, Null}
    /\ spin \in BOOLEAN
    /\ order \in Seq(Nodes) /\ chain \in Seq(Nodes \cup {Stub})

(* change_owner_() never finds an unexpected owner: no node is popped twice, or
   popped without having been pushed. *)
MpscOwnersAsExpected == ~panicked

-----------------------------------------------------------------------------
(* The inductive invariant.  The list runs from head_ to tail_ and has no node twice; *)
InChain(x) == \E i \in 1 .. Len(chain) : chain[i] = x

ChainEnds ==
    /\ chain # <<>> /\ chain[1] = head /\ chain[Len(chain)] = tail
    /\ \A i, j \in 1 .. Len(chain) : chain[i] = chain[j] => i = j

(* a node is linked to the one before it, or its push is about to link it; *)
ChainLinked ==
    /\ \A i \in 1 .. Len(chain) - 1 :
          \/ pc[chain[i + 1]] = "queued" /\ next[chain[i]] = chain[i + 1]
          \/ /\ pc[chain[i + 1]] = "link" /\ prev[chain[i + 1]] = chain[i]
             /\ next[chain[i]] = Null
    /\ next[tail] = Null /\ pc[head] = "queued"

(* a node is in the list from the exchange of tail_ on, until head_ moves past it; *)
ChainMembers ==
    \A x \in Nodes \cup {Stub} :
        /\ pc[x] = "link" => InChain(x)
        /\ pc[x] = "queued" /\ x # Stub => InChain(x) \/ (cpc = "popped" /\ x = h)
        /\ pc[x] = "exchange" => next[x] = Null

(* the stub is pushed by the consumer alone, when its last node is the only one; *)
StubPushes ==
    /\ pc[Stub] # "free"
    /\ pc[Stub] \in {"clear", "exchange", "link"} => cpc = "stub"
    /\ cpc = "stub" /\ pc[Stub] = "queued" => InChain(Stub)

(* what the consumer knows of the list at each step; *)
ConsumerKnows ==
    /\ cpc \in {"load", "empty", "skip", "last", "stub", "wait", "advance"} => h = head
    /\ cpc \in {"empty", "skip"} => h = Stub
    /\ cpc \in {"last", "stub", "advance", "popped"} => h # Stub
    /\ cpc \in {"skip", "advance"} => n = next[h] /\ n # Null
    /\ cpc = "wait" => head # tail
    /\ cpc = "popped" => pc[h] = "queued" /\ ~InChain(h)

(* the list without the stub is what was pushed and not popped, in order; *)
ChainSpellsOrder ==
    \/ ~InChain(Stub) /\ chain = order
    \/ \E k \in 1 .. Len(chain) :
          /\ chain[k] = Stub /\ Len(order) = Len(chain) - 1
          /\ \A i \in 1 .. Len(order) : order[i] = IF i < k THEN chain[i] ELSE chain[i + 1]

(* and a node is owned while it is pushed, queued or popped. *)
OwnedWhileUsed == owned = {x \in Nodes : pc[x] # "free"} /\ ~panicked

MpscInv ==
    /\ MpscTypeOK /\ ChainEnds /\ ChainLinked /\ ChainMembers /\ StubPushes /\ ConsumerKnows
    /\ ChainSpellsOrder /\ OwnedWhileUsed

PopResult ==
    CASE cpc = "idle" -> "idle"
      [] cpc = "popped" -> h
      [] cpc = "null" -> Null
      [] OTHER -> "asked"

Fifo == INSTANCE FifoQueue WITH
    queue <- order, unlinked <- {t \in Nodes : pc[t] = "link"}, result <- PopResult

(* The list is a FIFO queue, whatever the interleaving: a push takes effect with the
   exchange of tail_, a pop with the move of head_, and a pop returns NULL only if
   the queue is empty or a push_back() is running. *)
MpscImplementsFifo == Fifo!Spec

(* While the consumer keeps popping, every node whose push has begun is popped, even
   if the consumer never spins; and pop_front_exclusive() does not spin forever. *)
MpscPushedIsPopped == \A t \in Nodes : pc[t] = "clear" ~> pc[t] = "free"
=============================================================================
