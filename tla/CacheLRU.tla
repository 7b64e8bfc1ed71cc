------------------------------ MODULE CacheLRU ------------------------------
(***************************************************************************)
(* Cache implements LRUCache.  A set takes effect when it stores its value *)
(* and enters the eviction loop, so while that loop runs the abstract      *)
(* store is what the loop will leave.  Once pushback has cut nodes off, or *)
(* written to memory that is not the list's, the promise is gone.          *)
(***************************************************************************)
EXTENDS Cache

Intact == orphans = <<>> /\ pc # "corrupted"

\* The chain the eviction loop leaves: the longest suffix that fits.
AfterEviction ==
    LET Suffix(i) == SubSeq(queue, i + 1, Len(queue))
    IN  Suffix(Min({i \in 0 .. Len(queue) : Bytes(Suffix(i)) <= MaxMem}))

AbstractStore ==
    [i \in 1 .. Len(AfterEviction) |->
        [key |-> AfterEviction[i].key, val |-> data[AfterEviction[i].key]]]

LRU == INSTANCE LRUCache WITH
    Capacity <- MaxMem,
    store    <- IF Intact /\ Live THEN AbstractStore ELSE <<>>,
    reply    <- IF Intact THEN call ELSE NoCall,
    intact   <- Intact,
    open     <- Intact /\ Live

\* Until the first get of the least recently used of several keys, every call
\* of Cache has the effect and the result the LRU specification gives it:
\* overwriting and looking up refresh recency, set discards exactly the least
\* recently used entries that have to go, and nothing else disappears.
ImplementsLRU == LRU!Spec
=============================================================================
