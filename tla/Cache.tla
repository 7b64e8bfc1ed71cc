------------------------------- MODULE Cache -------------------------------
(***************************************************************************)
(* Cache::Impl (cache.cc): an unordered_map from keys to malloc'ed values, *)
(* a byte counter, and an evictor queue of (key, size) nodes ordered from  *)
(* the least to the most recently used key.                                *)
(*                                                                         *)
(* Calls are issued one at a time (a server with one worker thread).  Each *)
(* call is one step, except that the eviction loop of set and the loop of  *)
(* ~Impl take one step per iteration, during which no other call starts.   *)
(***************************************************************************)
EXTENDS QueueOps

CONSTANTS
    Keys,
    Payloads,    \* the byte strings clients store
    SizeOf,      \* their sizes
    MaxMem,      \* maxmem_
    Null         \* no pointer

ASSUME CacheAssumption ==
    /\ SizeOf \in [Payloads -> UInt]
    /\ MaxMem \in UInt
    /\ Null \notin Payloads
    /\ Null \notin Keys

VARIABLES
    data,        \* data_: the value stored under each key, Null if none
    queue,       \* the chain of nodes reachable from evictor_queue.head
    orphans,     \* nodes cut off by pushback: allocated, unreachable
    memused,     \* memused_
    pc,          \* what the thread in the cache is doing
    call         \* the call in progress, or the last one, and its result

vars == <<data, queue, orphans, memused, pc, call>>

\* "segfault" is a dereference of a NULL head, "corrupted" a write through the
\* unset prev of pushback that hits memory outside the list.  The program's
\* behaviour is undefined after either, so both are final here.
PCs == {"idle", "evicting", "destroying", "destroyed", "segfault", "corrupted"}

\* get leaves its val_size argument as the caller passed it.
Untouched == -1

Reply(op, k, v, n) == [op |-> op, key |-> k, val |-> v, num |-> n]
NoCall == Reply("none", Null, Null, 0)

Init ==
    /\ data = [k \in Keys |-> Null]
    /\ queue = <<>>
    /\ orphans = <<>>
    /\ memused = 0
    /\ pc = "idle"
    /\ call = NoCall

\* curr = head; curr->next  or  *(head->value)  with head == NULL.
Segfault ==
    /\ pc' = "segfault"
    /\ UNCHANGED <<data, queue, orphans, memused, call>>

-----------------------------------------------------------------------------
\* int set(key, val, size)

SetTooLarge(k, p) ==
    /\ SizeOf[p] > MaxMem
    /\ call' = Reply("set", k, p, 1)
    /\ UNCHANGED <<data, queue, orphans, memused, pc>>

\* malloc, memcpy, data_[key] = val_ptr, memused_ += size, enqueue, and on to
\* the eviction loop.  q and used are the queue and counter so far.
Store(k, p, q, used) ==
    /\ data' = [data EXCEPT ![k] = p]
    /\ memused' = PlusU(used, SizeOf[p])
    /\ queue' = Enqueue(q, k, SizeOf[p])
    /\ pc' = "evicting"
    /\ call' = Reply("set", k, p, 0)
    /\ UNCHANGED orphans

SetNew(k, p) ==
    /\ SizeOf[p] <= MaxMem
    /\ data[k] = Null
    /\ Store(k, p, queue, memused)

\* Fault: the overwritten value is freed but stays queued.
SetOverwriteKeepsNode(k, p) ==
    /\ SizeOf[p] <= MaxMem
    /\ data[k] # Null
    /\ queue # <<>>
    /\ Store(k, p, queue, memused)

SetOverwrite(k, p) ==
    /\ SizeOf[p] <= MaxMem
    /\ data[k] # Null
    /\ queue # <<>>
    /\ Store(k, p, Rem(queue, k), MinusU(memused, AsUInt(SizeIn(queue, k))))

SetSegfault(k, p) ==
    /\ SizeOf[p] <= MaxMem
    /\ data[k] # Null
    /\ queue = <<>>
    /\ Segfault

Set(k, p) ==
    /\ pc = "idle"
    /\ \/ SetTooLarge(k, p)
       \/ SetNew(k, p)
       \/ SetOverwrite(k, p)
       \/ SetSegfault(k, p)

\* Fault: the size of the value is given back, not what rem returned.
ForgetValueSize(k) ==
    /\ data' = [data EXCEPT ![k] = Null]
    /\ queue' = IF data[k] # Null THEN Rem(queue, k) ELSE queue
    /\ memused' = IF data[k] # Null THEN MinusU(memused, SizeOf[data[k]]) ELSE memused

\* Fault: data_.erase(key) forgotten, the freed pointer stays.
ForgetKeepsPointer(k) ==
    /\ UNCHANGED data
    /\ queue' = IF data[k] # Null THEN Rem(queue, k) ELSE queue
    /\ memused' = IF data[k] # Null
                  THEN MinusU(memused, AsUInt(SizeIn(queue, k))) ELSE memused

\* Fault: the size is read but the node is not taken out.
ForgetKeepsNode(k) ==
    /\ data' = [data EXCEPT ![k] = Null]
    /\ UNCHANGED queue
    /\ memused' = IF data[k] # Null
                  THEN MinusU(memused, AsUInt(SizeIn(queue, k))) ELSE memused

\* What del(key) does to the cache when it does not crash.
Forget(k) ==
    /\ data' = [data EXCEPT ![k] = Null]
    /\ queue' = IF data[k] # Null THEN Rem(queue, k) ELSE queue
    /\ memused' = IF data[k] # Null
                  THEN MinusU(memused, AsUInt(SizeIn(queue, k))) ELSE memused

\* Fault: the newest key is evicted first.
EvictNewest ==
    /\ pc = "evicting"
    /\ memused > MaxMem
    /\ \/ /\ queue = <<>>
          /\ Segfault
       \/ /\ queue # <<>>
          /\ Forget(Last(queue).key)
          /\ UNCHANGED <<orphans, pc, call>>

\* while(memused_ > maxmem_) { header = *(head->value); del(header); }
Evict ==
    /\ pc = "evicting"
    /\ memused > MaxMem
    /\ \/ /\ queue = <<>>
          /\ Segfault
       \/ /\ queue # <<>>
          /\ Forget(Head(queue).key)
          /\ UNCHANGED <<orphans, pc, call>>

\* Fault: if instead of while.
SetReturnEarly ==
    /\ pc = "evicting"
    /\ pc' = "idle"
    /\ UNCHANGED <<data, queue, orphans, memused, call>>

SetReturn ==
    /\ pc = "evicting"
    /\ memused <= MaxMem
    /\ pc' = "idle"
    /\ UNCHANGED <<data, queue, orphans, memused, call>>

-----------------------------------------------------------------------------
\* val_type get(key, val_size)

\* data_[key] default-inserts a null pointer, which erase takes out again.
GetMiss(k) ==
    /\ data[k] = Null
    /\ call' = Reply("get", k, Null, Untouched)
    /\ UNCHANGED <<data, queue, orphans, memused, pc>>

GetHit(k) ==
    /\ data[k] # Null
    /\ queue # <<>>
    /\ queue' = Pushback(queue, k)
    /\ orphans' = orphans \o CutOff(queue, k)
    /\ call' = Reply("get", k, data[k], AsUInt(SizeIn(queue, k)))
    /\ UNCHANGED <<data, memused, pc>>

\* The write through the unset prev lands on memory in use outside the list.
GetCorrupts(k) ==
    /\ data[k] # Null
    /\ queue # <<>>
    /\ PrevUnset(queue, k)
    /\ pc' = "corrupted"
    /\ UNCHANGED <<data, queue, orphans, memused, call>>

GetSegfault(k) ==
    /\ data[k] # Null
    /\ queue = <<>>
    /\ Segfault

Get(k) ==
    /\ pc = "idle"
    /\ \/ GetMiss(k)
       \/ GetHit(k)
       \/ GetCorrupts(k)
       \/ GetSegfault(k)

-----------------------------------------------------------------------------
\* int del(key)

DelMiss(k) ==
    /\ data[k] = Null
    /\ Forget(k)
    /\ call' = Reply("del", k, Null, 1)
    /\ UNCHANGED <<orphans, pc>>

DelHit(k) ==
    /\ data[k] # Null
    /\ queue # <<>>
    /\ Forget(k)
    /\ call' = Reply("del", k, Null, 0)
    /\ UNCHANGED <<orphans, pc>>

DelSegfault(k) ==
    /\ data[k] # Null
    /\ queue = <<>>
    /\ Segfault

Del(k) ==
    /\ pc = "idle"
    /\ \/ DelMiss(k)
       \/ DelHit(k)
       \/ DelSegfault(k)

\* index_type space_used() const
SpaceUsed ==
    /\ pc = "idle"
    /\ call' = Reply("space_used", Null, Null, memused)
    /\ UNCHANGED <<data, queue, orphans, memused, pc>>

-----------------------------------------------------------------------------
\* ~Impl(): for (auto kvpair : data_) { free(...); evictor_queue.rem(key); }
\* in the order of the hash table, which is any order.

Destroy ==
    /\ pc = "idle"
    /\ pc' = "destroying"
    /\ UNCHANGED <<data, queue, orphans, memused, call>>

FreeEntry(k) ==
    /\ pc = "destroying"
    /\ data[k] # Null
    /\ \/ /\ queue = <<>>
          /\ Segfault
       \/ /\ queue # <<>>
          /\ data' = [data EXCEPT ![k] = Null]
          /\ queue' = Rem(queue, k)
          /\ UNCHANGED <<orphans, memused, pc, call>>

DestroyReturn ==
    /\ pc = "destroying"
    /\ \A k \in Keys : data[k] = Null
    /\ pc' = "destroyed"
    /\ UNCHANGED <<data, queue, orphans, memused, call>>

-----------------------------------------------------------------------------
Next ==
    \/ \E k \in Keys, p \in Payloads : Set(k, p)
    \/ \E k \in Keys : Get(k)
    \/ \E k \in Keys : Del(k)
    \/ SpaceUsed
    \/ Evict
    \/ SetReturn
    \/ Destroy
    \/ \E k \in Keys : FreeEntry(k)
    \/ DestroyReturn

\* A thread inside set keeps running; nobody has to make calls.
Fairness == WF_vars(Evict \/ SetReturn)

Spec == Init /\ [][Next]_vars /\ Fairness

-----------------------------------------------------------------------------
\* Properties

Live == pc \in {"idle", "evicting"}

\* The bytes in malloc'ed value buffers: what the cache really holds.
HeldBytes ==
    SumFunctionOnSet([k \in Keys |-> IF data[k] = Null THEN 0 ELSE SizeOf[data[k]]],
                     Keys)

\* The type of the state.
TypeOK ==
    /\ data \in [Keys -> Payloads \cup {Null}]
    /\ queue \in Seq([key : Keys, size : SInt])
    /\ orphans \in Seq([key : Keys, size : SInt])
    /\ memused \in UInt
    /\ pc \in PCs
    /\ call \in [op : {"none", "set", "get", "del", "space_used"},
                 key : Keys \cup {Null}, val : Payloads \cup {Null}, num : Int]

\* No key has two nodes in the chain, and every node in it belongs to a stored
\* value of the node's size.  set, get, del, the eviction loop and the
\* destructor all keep map and queue in step, even after pushback has cut the
\* chain: rem unlinks by key, and the eviction loop trusts the head's key.
QueueIndexesData ==
    pc \in {"idle", "evicting", "destroying"} =>
        /\ \A i, j \in 1 .. Len(queue) : queue[i].key = queue[j].key => i = j
        /\ \A i \in 1 .. Len(queue) :
              /\ data[queue[i].key] # Null
              /\ queue[i].size = AsInt(SizeOf[data[queue[i].key]])

\* Every stored value stays charged: a node, in the chain or cut off from it,
\* carries its key and its size.
EntriesCharged ==
    Live => \A k \in Keys : data[k] # Null =>
        \E q \in {queue, orphans} : \E i \in 1 .. Len(q) :
            q[i] = [key |-> k, size |-> AsInt(SizeOf[data[k]])]

\* memused_ is exactly what was charged: the sizes of the nodes in the chain
\* plus those of the nodes pushback cut off, whose bytes no later set or del
\* ever gives back.  It needs maxmem_ below 2^31 (see AccountingModulo).
Accounting == Live => memused = Bytes(queue) + Bytes(orphans)

\* The same for every maxmem_: the uint32_t counter and the narrowing of sizes
\* to int lose nothing but multiples of 2^32.
AccountingModulo ==
    Live => memused = (Bytes(queue) + Bytes(orphans)) % (2 * SignBit)

\* Between calls the counter is within maxmem_, and so are the bytes really
\* held, which the counter never underestimates, even when it has drifted.
CapacityRespected ==
    pc = "idle" => HeldBytes <= memused /\ memused <= MaxMem

\* The bytes of the nodes cut off never exceed maxmem_, so evicting the rest
\* always ends the eviction loop.
OrphansFit == Live => Bytes(orphans) <= MaxMem

\* A segfault on a NULL head takes an earlier get of the least recently used
\* of several keys: no other sequence of calls empties the queue under a
\* stored value.
SegfaultNeedsOrphans == pc = "segfault" => orphans # <<>>

\* The eviction loop of set itself never runs into the end of the queue.
EvictionNeverSegfaults == [][pc = "evicting" => pc' # "segfault"]_vars

\* A set that returned 0 has stored its value (the value just stored is never
\* evicted), as long as no node was cut off.
SetStores ==
    pc = "idle" /\ call.op = "set" /\ call.num = 0 /\ orphans = <<>>
        => data[call.key] = call.val

\* A get that returned a value returned its size with it, as long as no node
\* was cut off; after that, its size or 0.
GetSizeRight ==
    pc = "idle" /\ call.op = "get" /\ call.val # Null =>
        \/ call.num = SizeOf[call.val]
        \/ call.num = 0 /\ orphans # <<>>

\* The destructor frees every node of the queue, unless some were cut off.
CleanShutdown == pc = "destroyed" /\ orphans = <<>> => queue = <<>>

\* set returns: its eviction loop ends.
SetReturns == pc = "evicting" ~> pc = "idle"
=============================================================================
