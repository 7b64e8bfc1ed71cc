------------------------------ MODULE QueueOps ------------------------------
(***************************************************************************)
(* The methods of class Queue (h_depen/queue.hh) as operators on the chain *)
(* of nodes reachable from head, read as a sequence: the head is first and *)
(* is the next one to be evicted.  A node is a key and the int it was      *)
(* enqueued with.  EvictorList models the same methods on the linked list  *)
(* itself and is checked to implement these operators.                     *)
(*                                                                         *)
(* rem, pushback and ret_size start with  curr = head; curr->next  and so  *)
(* dereference NULL when the chain is empty: the operators below are for   *)
(* q # <<>>, and their callers have to model what happens otherwise.       *)
(***************************************************************************)
EXTENDS MachineInts, Sequences, SequencesExt

\* The node the walk  while(curr->next != NULL && *curr->value != val)  stops
\* at, if it carries key k: the first such node.  0 when no node does.
WalkTo(q, k) == SelectInSeq(q, LAMBDA x : x.key = k)

Enqueue(q, k, sz) == Append(q, [key |-> k, size |-> AsInt(sz)])

\* The int that rem, pushback and ret_size return.
SizeIn(q, k) == IF WalkTo(q, k) = 0 THEN 0 ELSE q[WalkTo(q, k)].size

Rem(q, k) == IF WalkTo(q, k) = 0 THEN q ELSE RemoveAt(q, WalkTo(q, k))

\* pushback reads its local prev although the loop never assigned it: the key
\* is the head's and other nodes follow it.
PrevUnset(q, k) == WalkTo(q, k) = 1 /\ Len(q) > 1

\* Fault: the size is returned but the node stays where it is.
PushbackStays(q, k) == IF PrevUnset(q, k) THEN <<Head(q)>> ELSE q

\* The chain after pushback.  When prev is unset the head's next becomes NULL
\* while head keeps pointing at it, so the chain is the head alone.
Pushback(q, k) ==
    CASE WalkTo(q, k) = 0 -> q
      [] PrevUnset(q, k)  -> <<Head(q)>>
      [] OTHER            -> Append(RemoveAt(q, WalkTo(q, k)), q[WalkTo(q, k)])

\* The nodes pushback cuts off: still allocated, never reachable again.
CutOff(q, k) == IF PrevUnset(q, k) THEN Tail(q) ELSE <<>>

(***************************************************************************)
(* The bytes charged by a chain of nodes: its sizes added up.  Written as  *)
(* a recursive function (not a fold) so that it can be unfolded in proofs. *)
(***************************************************************************)
RunningBytes(q) ==
    LET total[i \in 0 .. Len(q)] == IF i = 0 THEN 0 ELSE total[i-1] + q[i].size
    IN  total

Bytes(q) == RunningBytes(q)[Len(q)]
=============================================================================
