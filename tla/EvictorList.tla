----------------------------- MODULE EvictorList -----------------------------
(***************************************************************************)
(* class Queue (h_depen/queue.hh) on its linked list: head, and a heap of  *)
(* nodes with next pointers.  Addresses are reused after delete, pointers  *)
(* to deleted nodes dangle, and the local prev that pushback leaves unset  *)
(* when the key is the head's may hold any address at all.                 *)
(***************************************************************************)
EXTENDS MachineInts, Sequences, FiniteSets

CONSTANTS
    Addrs,       \* the addresses of nodes (bound: nodes allocated at a time)
    Keys,
    Sizes,       \* the uint32_t sizes values are enqueued with
    NULL,
    Free         \* what an address holds when no node is allocated there

Node == [key : Keys, size : {AsInt(s) : s \in Sizes}, next : Addrs \cup {NULL}]

ASSUME EvictorListAssumption ==
    /\ IsFiniteSet(Addrs) /\ NULL \notin Addrs
    /\ Sizes \subseteq UInt
    /\ Free \notin Node

VARIABLES head, heap, result, status

vars == <<head, heap, result, status>>

Init ==
    /\ head = NULL
    /\ heap = [a \in Addrs |-> Free]
    /\ result = 0
    /\ status = "ok"

-----------------------------------------------------------------------------
\* Walks.  Path[n] is the address n links after head, NULL past the end.
Path ==
    LET path[n \in 0 .. Cardinality(Addrs)] ==
            IF n = 0 THEN head
            ELSE IF path[n-1] = NULL THEN NULL
            ELSE IF heap[path[n-1]] = Free THEN NULL
            ELSE heap[path[n-1]].next
    IN  path

Chain == {Path[n] : n \in DOMAIN Path} \ {NULL}
ChainLength == Cardinality(Chain)

\* while(curr->next != NULL) from head.
Last == Path[ChainLength - 1]

\* How many links  while(curr->next != NULL && *curr->value != val)  follows.
Links(k) ==
    CHOOSE n \in 0 .. ChainLength - 1 :
        /\ heap[Path[n]].next = NULL \/ heap[Path[n]].key = k
        /\ \A m \in 0 .. n - 1 : heap[Path[m]].next # NULL /\ heap[Path[m]].key # k

Curr(k) == Path[Links(k)]
Prev(k) == Path[Links(k) - 1]
Found(k) == heap[Curr(k)].key = k

Crash(how) ==
    /\ status' = how
    /\ UNCHANGED <<head, heap, result>>

-----------------------------------------------------------------------------

Enqueue(k, sz) ==
    /\ \A a \in Chain : heap[a].key # k      \* see EvictorQueue!EnqueueKey
    /\ \E a \in Addrs :
          /\ heap[a] = Free
          /\ LET temp == [key |-> k, size |-> AsInt(sz), next |-> NULL]
             IN  IF head = NULL
                 THEN head' = a /\ heap' = [heap EXCEPT ![a] = temp]
                 ELSE /\ heap' = [heap EXCEPT ![a] = temp, ![Last].next = a]
                      /\ UNCHANGED head
    /\ UNCHANGED <<result, status>>

Rem(k) ==
    /\ head # NULL
    /\ result' = IF Found(k) THEN heap[Curr(k)].size ELSE 0
    /\ IF ~ Found(k) THEN UNCHANGED <<head, heap>>
       ELSE IF Curr(k) = head
       THEN /\ head' = heap[head].next
            /\ heap' = [heap EXCEPT ![Curr(k)] = Free]
       ELSE /\ heap' = [heap EXCEPT ![Prev(k)].next = heap[Curr(k)].next,
                                    ![Curr(k)] = Free]
            /\ UNCHANGED head
    /\ UNCHANGED status

\* Fault: curr->next = NULL forgotten.
RelinkCycle(prev, curr, newcurr) ==
    heap' = [heap EXCEPT ![prev].next = heap[curr].next, ![newcurr].next = curr]

\* Fault: prev->next = curr->next after curr->next = NULL.
RelinkLate(prev, curr, newcurr) ==
    heap' = [heap EXCEPT ![curr].next = NULL,
                         ![prev].next = NULL,
                         ![newcurr].next = curr]

\* prev->next = curr->next; curr->next = NULL; newcurr->next = curr.
Relink(prev, curr, newcurr) ==
    heap' = [heap EXCEPT ![prev].next = heap[curr].next,
                         ![curr].next = NULL,
                         ![newcurr].next = curr]

Pushback(k) ==
    /\ head # NULL
    /\ result' = IF Found(k) THEN heap[Curr(k)].size ELSE 0
    /\ IF ~ Found(k) \/ heap[Curr(k)].next = NULL THEN UNCHANGED heap
       ELSE IF Curr(k) # head THEN Relink(Prev(k), Curr(k), Last)
       ELSE \* the write through prev hits a node, or nothing that matters
            \/ \E a \in Addrs : heap[a] # Free /\ Relink(a, head, Last)
            \/ heap' = [heap EXCEPT ![head].next = NULL, ![Last].next = head]
    /\ UNCHANGED <<head, status>>

\* ... or it hits memory that belongs to the allocator or to somebody else.
PushbackCorrupts(k) ==
    /\ head # NULL
    /\ Curr(k) = head /\ Found(k) /\ heap[head].next # NULL
    /\ Crash("corrupted")

RetSize(k) ==
    /\ head # NULL
    /\ result' = IF Found(k) THEN heap[Curr(k)].size ELSE 0
    /\ UNCHANGED <<head, heap, status>>

Dequeue ==
    /\ head # NULL
    /\ head' = heap[head].next
    /\ heap' = [heap EXCEPT ![head] = Free]
    /\ UNCHANGED <<result, status>>

\* head->next with head == NULL in rem, pushback, ret_size or dequeue.
NullHead == head = NULL /\ Crash("segfault")

Next ==
    /\ status = "ok"
    /\ \/ \E k \in Keys, sz \in Sizes : Enqueue(k, sz)
       \/ \E k \in Keys : Rem(k) \/ Pushback(k) \/ PushbackCorrupts(k) \/ RetSize(k)
       \/ Dequeue
       \/ NullHead

Spec == Init /\ [][Next]_vars

-----------------------------------------------------------------------------
\* Properties

\* The type of the state.
TypeOK ==
    /\ head \in Addrs \cup {NULL}
    /\ heap \in [Addrs -> Node \cup {Free}]
    /\ result \in SInt
    /\ status \in {"ok", "segfault", "corrupted"}

\* The chain from head always ends at NULL and only visits allocated nodes, so
\* every walk in queue.hh terminates and none reads a deleted node: whatever
\* node the stray write of pushback hits, and although nodes that were cut off
\* keep pointers into the chain that dangle once those nodes are deleted.
ChainSound ==
    /\ \A a \in Chain : heap[a] # Free
    /\ Path[Cardinality(Addrs)] = NULL

\* The chain as a sequence, and how many allocated nodes of each kind are not
\* in it: the state of EvictorQueue.
AbstractNode(a) == [key |-> heap[a].key, size |-> heap[a].size]
Queue == [n \in 1 .. ChainLength |-> AbstractNode(Path[n-1])]
Lost(x) == {a \in Addrs \ Chain : heap[a] # Free /\ AbstractNode(a) = x}
LostCounts == [x \in [key : Keys, size : {AsInt(s) : s \in Sizes}] |-> Cardinality(Lost(x))]

EQ == INSTANCE EvictorQueue WITH queue <- Queue, lost <- LostCounts

\* The linked list does what the operators of QueueOps say, for every value
\* the unset prev may hold.
ImplementsEvictorQueue == EQ!Spec
=============================================================================
