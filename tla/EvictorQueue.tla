---------------------------- MODULE EvictorQueue ----------------------------
(***************************************************************************)
(* What Cache relies on from class Queue: the chain reachable from head as *)
(* a sequence, changed by the operators of QueueOps, and the nodes that    *)
(* pushback has cut off.  EvictorList checks that the linked list in       *)
(* queue.hh behaves this way.                                              *)
(***************************************************************************)
EXTENDS QueueOps, FiniteSets

CONSTANTS
    Keys,
    Sizes        \* the uint32_t sizes values are enqueued with

VARIABLES
    queue,       \* the chain reachable from head
    lost,        \* how many nodes of each kind are allocated but not in it
    result,      \* what the last call returned
    status       \* "ok", or how the program died

vars == <<queue, lost, result, status>>

Node == [key : Keys, size : {AsInt(s) : s \in Sizes}]

CountIn(q, x) == Cardinality({i \in DOMAIN q : q[i] = x})

Init ==
    /\ queue = <<>>
    /\ lost = [x \in Node |-> 0]
    /\ result = 0
    /\ status = "ok"

\* The cache enqueues a key after it has taken the key's old node, if that is
\* still in the chain, out of it.
EnqueueKey(k, sz) ==
    /\ WalkTo(queue, k) = 0
    /\ queue' = Enqueue(queue, k, sz)
    /\ UNCHANGED <<lost, result, status>>

RemKey(k) ==
    /\ queue # <<>>
    /\ queue' = Rem(queue, k)
    /\ result' = SizeIn(queue, k)
    /\ UNCHANGED <<lost, status>>

PushbackKey(k) ==
    /\ queue # <<>>
    /\ queue' = Pushback(queue, k)
    /\ lost' = [x \in Node |-> lost[x] + CountIn(CutOff(queue, k), x)]
    /\ result' = SizeIn(queue, k)
    /\ UNCHANGED status

RetSize(k) ==
    /\ queue # <<>>
    /\ result' = SizeIn(queue, k)
    /\ UNCHANGED <<queue, lost, status>>

\* rem, pushback, ret_size and dequeue of an empty chain.
CrashOnEmpty ==
    /\ queue = <<>>
    /\ status' = "segfault"
    /\ UNCHANGED <<queue, lost, result>>

CrashOnUnsetPrev(k) ==
    /\ PrevUnset(queue, k)
    /\ status' = "corrupted"
    /\ UNCHANGED <<queue, lost, result>>

Dequeue ==
    /\ queue # <<>>
    /\ queue' = Tail(queue)
    /\ UNCHANGED <<lost, result, status>>

Next ==
    /\ status = "ok"
    /\ \/ \E k \in Keys, sz \in Sizes : EnqueueKey(k, sz)
       \/ \E k \in Keys : RemKey(k) \/ PushbackKey(k) \/ RetSize(k) \/ CrashOnUnsetPrev(k)
       \/ Dequeue
       \/ CrashOnEmpty

Spec == Init /\ [][Next]_vars
=============================================================================
