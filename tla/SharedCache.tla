---------------------------- MODULE SharedCache ----------------------------
(***************************************************************************)
(* Cache::Impl (cache.cc) as the worker threads of the server run it: no   *)
(* lock is taken, so the statements of concurrent calls interleave.  Every *)
(* action is a statement, or the part of one that touches shared state     *)
(* once: memused_ += size is a load and a store.                           *)
(*                                                                         *)
(* A call on the list (rem, pushback, enqueue) and an access to the map    *)
(* are one step each.  In the build they can be torn as well, so two calls *)
(* at a time may do worse than what this module allows, never better.      *)
(*                                                                         *)
(* Values live in malloc'ed buffers, whose addresses are reused.           *)
(***************************************************************************)
EXTENDS QueueOps, FiniteSets

CONSTANTS
    Workers,
    Keys,
    Payloads, SizeOf,    \* the values clients store and their sizes
    MaxMem,              \* maxmem_
    Buffers,             \* addresses malloc returns (bound: values alive)
    Null,
    Free                 \* what an address holds when nothing is allocated

ASSUME SharedCacheAssumption ==
    /\ SizeOf \in [Payloads -> UInt]
    /\ MaxMem \in UInt
    /\ Null \notin Buffers \cup Payloads \cup Keys /\ Null \notin UInt
    /\ Free \notin Payloads

VARIABLES
    data,        \* data_: the buffer of each key, Null if none
    heap,        \* what each buffer holds
    queue,       \* the chain of evictor_queue
    orphans,     \* the nodes pushback cut off
    memused,     \* memused_
    pc,          \* where each worker is
    local,       \* each worker's request and local variables
    fault        \* "none", or how the process died

implVars == <<data, heap, queue, orphans, memused>>

Faults == {"none", "segfault", "corrupted", "double_free", "stale_read"}

\* key, val: the request.  victim: the key del works on.  sz, used: an int sz
\* and a loaded memused_.  ret: what the call returns.
NoRequest == [op |-> "none", key |-> Null, val |-> Null]
Locals(req) ==
    [op |-> req.op, key |-> req.key, val |-> req.val,
     victim |-> req.key, sz |-> 0, used |-> 0, ret |-> Null]

-----------------------------------------------------------------------------
Goto(w, from, to) ==
    /\ pc[w] = from
    /\ pc' = [pc EXCEPT ![w] = to]

Crash(how) ==
    /\ fault' = how
    /\ UNCHANGED <<implVars, pc, local>>

Return(w, from, value) ==
    /\ Goto(w, from, "returned")
    /\ local' = [local EXCEPT ![w].ret = value]
    /\ UNCHANGED fault

\* int sz = evictor_queue.rem(k)
ListRem(w, from, to, k) ==
    \/ /\ pc[w] = from /\ queue = <<>>
       /\ Crash("segfault")
    \/ /\ queue # <<>>
       /\ Goto(w, from, to)
       /\ local' = [local EXCEPT ![w].sz = SizeIn(queue, k)]
       /\ queue' = Rem(queue, k)
       /\ UNCHANGED <<data, heap, orphans, memused, fault>>

\* free(data_[k]), where data_[k] may have changed since it was tested.
FreeValue(w, from, to, k) ==
    /\ pc[w] = from
    /\ \/ /\ data[k] # Null /\ heap[data[k]] = Free
          /\ Crash("double_free")
       \/ /\ data[k] # Null => heap[data[k]] # Free
          /\ Goto(w, from, to)
          /\ heap' = IF data[k] = Null THEN heap ELSE [heap EXCEPT ![data[k]] = Free]
          /\ UNCHANGED <<data, queue, orphans, memused, local, fault>>

LoadMemused(w, from, to) ==
    /\ Goto(w, from, to)
    /\ local' = [local EXCEPT ![w].used = memused]
    /\ UNCHANGED <<implVars, fault>>

StoreMemused(w, from, to, value) ==
    /\ Goto(w, from, to)
    /\ memused' = value
    /\ UNCHANGED <<data, heap, queue, orphans, local, fault>>

-----------------------------------------------------------------------------
\* int set(key, val, size)

\* Fault: no check against maxmem_.
SetCheckMissing(w) ==
    /\ Goto(w, "set_check", "set_lookup")
    /\ UNCHANGED <<implVars, local, fault>>

SetCheck(w) ==
    /\ pc[w] = "set_check"
    /\ \/ /\ SizeOf[local[w].val] > MaxMem
          /\ Return(w, "set_check", 1)
       \/ /\ SizeOf[local[w].val] <= MaxMem
          /\ Goto(w, "set_check", "set_lookup")
          /\ UNCHANGED <<local, fault>>
    /\ UNCHANGED implVars

SetLookup(w) ==
    /\ pc[w] = "set_lookup"
    /\ Goto(w, "set_lookup",
            IF data[local[w].key] = Null THEN "set_alloc" ELSE "set_free")
    /\ UNCHANGED <<implVars, local, fault>>

SetFree(w) == FreeValue(w, "set_free", "set_rem", local[w].key)
SetRem(w) == ListRem(w, "set_rem", "set_load_less", local[w].key)
SetLoadLess(w) == LoadMemused(w, "set_load_less", "set_store_less")
SetStoreLess(w) == StoreMemused(w, "set_store_less", "set_alloc",
                                MinusU(local[w].used, AsUInt(local[w].sz)))

\* malloc, memcpy, and data_[key] = val_ptr.
SetAlloc(w) ==
    /\ Goto(w, "set_alloc", "set_load_more")
    /\ \E b \in Buffers :
          /\ heap[b] = Free
          /\ heap' = [heap EXCEPT ![b] = local[w].val]
          /\ data' = [data EXCEPT ![local[w].key] = b]
    /\ UNCHANGED <<queue, orphans, memused, local, fault>>

SetLoadMore(w) == LoadMemused(w, "set_load_more", "set_store_more")
SetStoreMore(w) ==
    /\ pc[w] = "set_store_more"
    /\ StoreMemused(w, "set_store_more", "set_enqueue",
                    PlusU(local[w].used, SizeOf[local[w].val]))

SetEnqueue(w) ==
    /\ Goto(w, "set_enqueue", "set_loop")
    /\ queue' = Enqueue(queue, local[w].key, SizeOf[local[w].val])
    /\ UNCHANGED <<data, heap, orphans, memused, local, fault>>

\* Fault: >= for >.
SetLoopStrict(w) ==
    \/ /\ memused >= MaxMem
       /\ Goto(w, "set_loop", "set_head")
       /\ UNCHANGED <<implVars, local, fault>>
    \/ /\ memused < MaxMem
       /\ Return(w, "set_loop", 0)
       /\ UNCHANGED implVars

\* while(memused_ > maxmem_)
SetLoop(w) ==
    \/ /\ memused > MaxMem
       /\ Goto(w, "set_loop", "set_head")
       /\ UNCHANGED <<implVars, local, fault>>
    \/ /\ memused <= MaxMem
       /\ Return(w, "set_loop", 0)
       /\ UNCHANGED implVars

\* key_type header = *(evictor_queue.head->value); del(header)
SetHead(w) ==
    \/ /\ pc[w] = "set_head" /\ queue = <<>>
       /\ Crash("segfault")
    \/ /\ queue # <<>>
       /\ Goto(w, "set_head", "del_lookup")
       /\ local' = [local EXCEPT ![w].victim = Head(queue).key]
       /\ UNCHANGED <<implVars, fault>>

-----------------------------------------------------------------------------
\* int del(key), called by a handler or by the eviction loop of set.

DelReturn(w, from, value) ==
    IF local[w].op = "put"
    THEN Goto(w, from, "set_loop") /\ UNCHANGED <<local, fault>>
    ELSE Return(w, from, value)

DelLookup(w) ==
    /\ pc[w] = "del_lookup"
    /\ Goto(w, "del_lookup",
            IF data[local[w].victim] = Null THEN "del_miss" ELSE "del_rem")
    /\ UNCHANGED <<implVars, local, fault>>

\* Fault: ret_size for rem.
DelRemKeepsNode(w) ==
    /\ queue # <<>>
    /\ Goto(w, "del_rem", "del_load")
    /\ local' = [local EXCEPT ![w].sz = SizeIn(queue, local[w].victim)]
    /\ UNCHANGED <<implVars, fault>>

DelRem(w) == ListRem(w, "del_rem", "del_load", local[w].victim)
DelLoad(w) == LoadMemused(w, "del_load", "del_store")
DelStore(w) == StoreMemused(w, "del_store", "del_free",
                            MinusU(local[w].used, AsUInt(local[w].sz)))
\* Fault: the value is not freed.
DelFreeForgotten(w) ==
    /\ Goto(w, "del_free", "del_erase")
    /\ UNCHANGED <<implVars, local, fault>>

DelFree(w) == FreeValue(w, "del_free", "del_erase", local[w].victim)

\* Fault: the freed pointer stays in the map.
DelEraseForgotten(w) ==
    /\ pc[w] \in {"del_erase", "del_miss"}
    /\ DelReturn(w, pc[w], IF pc[w] = "del_erase" THEN 0 ELSE 1)
    /\ UNCHANGED implVars

\* data_.erase(key) of the two branches: whatever the key holds by now.
DelErase(w) ==
    /\ pc[w] \in {"del_erase", "del_miss"}
    /\ data' = [data EXCEPT ![local[w].victim] = Null]
    /\ DelReturn(w, pc[w], IF pc[w] = "del_erase" THEN 0 ELSE 1)
    /\ UNCHANGED <<heap, queue, orphans, memused>>

-----------------------------------------------------------------------------
\* val_type get(key, val_size)

GetLookup(w) ==
    /\ pc[w] = "get_lookup"
    /\ Goto(w, "get_lookup",
            IF data[local[w].key] = Null THEN "get_miss" ELSE "get_pushback")
    /\ UNCHANGED <<implVars, local, fault>>

GetPushback(w) ==
    LET k == local[w].key IN
    \/ /\ pc[w] = "get_pushback" /\ queue = <<>>
       /\ Crash("segfault")
    \/ /\ pc[w] = "get_pushback" /\ queue # <<>> /\ PrevUnset(queue, k)
       /\ Crash("corrupted")
    \/ /\ queue # <<>>
       /\ Goto(w, "get_pushback", "get_read")
       /\ local' = [local EXCEPT ![w].sz = SizeIn(queue, k)]
       /\ queue' = Pushback(queue, k)
       /\ orphans' = orphans \o CutOff(queue, k)
       /\ UNCHANGED <<data, heap, memused, fault>>

\* return data_[key]
GetRead(w) ==
    /\ pc[w] = "get_read"
    /\ Return(w, "get_read", data[local[w].key])
    /\ UNCHANGED implVars

GetErase(w) ==
    /\ Return(w, "get_miss", Null)
    /\ data' = [data EXCEPT ![local[w].key] = Null]
    /\ UNCHANGED <<heap, queue, orphans, memused>>

\* space_used()
SpaceUsed(w) ==
    /\ Return(w, "space_used", memused)
    /\ UNCHANGED implVars

-----------------------------------------------------------------------------
SetStep(w) ==
    \/ SetCheck(w) \/ SetLookup(w) \/ SetFree(w) \/ SetRem(w)
    \/ SetLoadLess(w) \/ SetStoreLess(w) \/ SetAlloc(w)
    \/ SetLoadMore(w) \/ SetStoreMore(w) \/ SetEnqueue(w)
    \/ SetLoop(w) \/ SetHead(w)

DelStep(w) ==
    DelLookup(w) \/ DelRem(w) \/ DelLoad(w) \/ DelStore(w) \/ DelFree(w) \/ DelErase(w)

GetStep(w) == GetLookup(w) \/ GetPushback(w) \/ GetRead(w) \/ GetErase(w)

CallStep(w) == SetStep(w) \/ DelStep(w) \/ GetStep(w) \/ SpaceUsed(w)
=============================================================================
