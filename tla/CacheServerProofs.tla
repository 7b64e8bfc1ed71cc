------------------------- MODULE CacheServerProofs --------------------------
(***************************************************************************)
(* What the server's workers do to the cache's memory, for any workers,    *)
(* keys, payloads, buffers and maxmem_: as long as no two calls overlapped,*)
(* every buffer is some key's, and only the worker in the cache ever holds *)
(* a pointer to a freed one.  Until then the statements refine the         *)
(* sequential Cache, which serial is: Agree relates the two, statement by  *)
(* statement for the worker in the cache.  With it the invariant of        *)
(* CacheProofs is true of serial, and bounds what GET /memsize answers     *)
(* between two statements of a call.                                       *)
(***************************************************************************)
EXTENDS CacheServer, QueueOpsProofs

Nodes == [key : Keys, size : SInt]

Ops == {"none", "put", "get", "delete", "memsize", "head", "shutdown"}

LocalTypes ==
    [op : Ops,
     key : Keys \cup {Null}, val : Payloads \cup {Null}, victim : Keys \cup {Null},
     sz : SInt, used : UInt, ret : Buffers \cup {Null} \cup UInt]

Types ==
    /\ data \in [Keys -> Buffers \cup {Null}]
    /\ heap \in [Buffers -> Payloads \cup {Free}]
    /\ queue \in Seq(Nodes)
    /\ orphans \in Seq(Nodes)
    /\ memused \in UInt
    /\ local \in [Workers -> LocalTypes]
    /\ fault \in Faults
    /\ main \in {"serving", "destroying", "exited"}
    /\ overlapped \in BOOLEAN

\* The statements of set after the test of the size, and those of del.
SetPCs == {"set_check", "set_lookup", "set_free", "set_rem", "set_load_less",
           "set_store_less", "set_alloc", "set_load_more", "set_store_more",
           "set_enqueue", "set_loop", "set_head"}
DelPCs == {"del_lookup", "del_rem", "del_load", "del_store", "del_free", "del_erase",
           "del_miss"}
GetPCs == {"get_lookup", "get_miss", "get_pushback", "get_read"}

\* Where a worker is, given the request it works on.
Places(op) ==
    CASE op = "put"     -> SetPCs \cup DelPCs \cup {"returned"}
      [] op = "delete"  -> DelPCs \cup {"returned"}
      [] op = "get"     -> GetPCs \cup {"returned"}
      [] op = "memsize" -> {"space_used", "returned"}
      [] op = "head"    -> {"returned"}
      [] op = "shutdown" -> {"stopping", "returned"}
      [] OTHER          -> {"ready", "exited"}

CallOps == {"put", "get", "delete"}

AllPlaces ==
    SetPCs \cup DelPCs \cup GetPCs
    \cup {"ready", "space_used", "stopping", "returned", "exited"}

InPlace(w) ==
    /\ pc[w] \in Places(local[w].op)
    /\ local[w].op \in CallOps => local[w].key \in Keys /\ local[w].victim \in Keys
    /\ local[w].op = "put" => local[w].val \in Payloads
    /\ local[w].op = "delete" => local[w].victim = local[w].key
    /\ local[w].op = "get" => local[w].ret \in Buffers \cup {Null}

Shape == pc \in [Workers -> AllPlaces] /\ \A w \in Workers : InPlace(w)

AllOut == main # "serving" => stopped /\ \A w \in Workers : pc[w] = "exited"

Alone == \A v, w \in Workers : InCall(v) /\ InCall(w) => v = w

\* Worker w has freed what key k points to, and will overwrite the pointer.
Dangles(w, k) ==
    \/ pc[w] \in {"set_rem", "set_load_less", "set_store_less", "set_alloc"} /\ k = local[w].key
    \/ pc[w] = "del_erase" /\ k = local[w].victim

Freed(k) == data[k] # Null => heap[data[k]] = Free

Injective == \A k, l \in Keys : data[k] = data[l] /\ data[k] # Null => k = l

Covered == \A b \in Buffers : heap[b] # Free => \E k \in Keys : data[k] = b

\* What the keys point to is allocated, except where the worker in the cache
\* has just freed it.
Owns ==
    /\ \A k \in Keys : data[k] # Null =>
          heap[data[k]] # Free \/ \E w \in Workers : Dangles(w, k)
    /\ \A w \in Workers, k \in Keys : Dangles(w, k) => Freed(k)

Knows(w) ==
    /\ pc[w] = "del_miss" => data[local[w].victim] = Null
    /\ pc[w] = "get_miss" => data[local[w].key] = Null
    /\ pc[w] = "returned" /\ local[w].op = "get" /\ local[w].ret # Null =>
          heap[local[w].ret] # Free

Memory ==
    /\ Alone /\ Injective /\ Covered /\ Owns
    /\ \A w \in Workers : Knows(w)

IInv ==
    /\ Types /\ Shape /\ AllOut
    /\ overlapped \/ Memory
    /\ FaultsNeedOverlap

-----------------------------------------------------------------------------
(* Types. *)

LEMMA QueueTypes ==
    ASSUME NEW q \in Seq(Nodes), NEW k
    PROVE  /\ Rem(q, k) \in Seq(Nodes)
           /\ SizeIn(q, k) \in SInt
           /\ q # <<>> => Pushback(q, k) \in Seq(Nodes) /\ CutOff(q, k) \in Seq(Nodes)
           /\ \A u \in UInt : k \in Keys => Enqueue(q, k, u) \in Seq(Nodes)
BY ChainTypes DEF Nodes

-----------------------------------------------------------------------------
(* Workers move on, and the state keeps its types. *)

LEMMA PlacesOf ==
    /\ Places("put") = SetPCs \cup DelPCs \cup {"returned"}
    /\ Places("delete") = DelPCs \cup {"returned"}
    /\ Places("get") = GetPCs \cup {"returned"}
    /\ Places("memsize") = {"space_used", "returned"}
    /\ Places("head") = {"returned"}
    /\ Places("shutdown") = {"stopping", "returned"}
    /\ Places("none") = {"ready", "exited"}
    /\ \A op \in Ops : Places(op) \subseteq AllPlaces
BY DEF Places, Ops, AllPlaces

\* The place of a worker tells what it works on.
LEMMA Whose ==
    ASSUME Types, Shape, NEW w \in Workers
    PROVE  /\ local[w].op \in Ops
           /\ pc[w] \in SetPCs => local[w].op = "put"
           /\ pc[w] \in DelPCs => local[w].op \in {"put", "delete"}
           /\ pc[w] \in GetPCs => local[w].op = "get"
           /\ pc[w] = "space_used" => local[w].op = "memsize"
           /\ pc[w] = "stopping" => local[w].op = "shutdown"
           /\ pc[w] \in {"ready", "exited"} => local[w].op = "none"
           /\ pc[w] = "returned" => local[w].op # "none"
<1>1. local[w].op \in Ops
  BY DEF Types, LocalTypes
<1>2. pc[w] \in Places(local[w].op)
  BY DEF Shape, InPlace
<1> QED BY <1>1, <1>2, PlacesOf DEF Ops, SetPCs, DelPCs, GetPCs

\* A step of worker w within its request.
LEMMA Moves ==
    ASSUME Types, Shape, NEW w \in Workers,
           pc' = [pc EXCEPT ![w] = pc'[w]], pc'[w] \in Places(local[w].op),
           local' = [local EXCEPT ![w] = local'[w]], local'[w] \in LocalTypes,
           local'[w].op = local[w].op, local'[w].key = local[w].key,
           local'[w].val = local[w].val,
           local[w].op \in CallOps => local'[w].victim \in Keys,
           local[w].op = "delete" => local'[w].victim = local[w].victim,
           local[w].op = "get" => local'[w].ret \in Buffers \cup {Null}
    PROVE  Shape' /\ local' \in [Workers -> LocalTypes]
<1>1. local[w].op \in Ops
  BY DEF Types, LocalTypes
<1>2. pc'[w] \in AllPlaces
  BY <1>1, PlacesOf
<1>3. ASSUME NEW v \in Workers PROVE InPlace(v)'
  <2>1. CASE v = w
    BY <2>1 DEF Shape, InPlace
  <2>2. CASE v # w
    <3>1. pc'[v] = pc[v] /\ local'[v] = local[v]
      BY <2>2 DEF Shape, Types
    <3> QED BY <3>1 DEF Shape, InPlace
  <2> QED BY <2>1, <2>2
<1>4. pc' \in [Workers -> AllPlaces]
  BY <1>2 DEF Shape
<1>5. local' \in [Workers -> LocalTypes]
  BY DEF Types
<1> QED BY <1>3, <1>4, <1>5 DEF Shape

\* ... that leaves its local variables alone ...
LEMMA Looks ==
    ASSUME Types, Shape, NEW w \in Workers,
           pc' = [pc EXCEPT ![w] = pc'[w]], pc'[w] \in Places(local[w].op),
           UNCHANGED local
    PROVE  Shape' /\ local' \in [Workers -> LocalTypes]
<1>1. local[w] \in LocalTypes /\ local = [local EXCEPT ![w] = local[w]]
  BY DEF Types
<1>2. /\ local[w].op \in CallOps => local[w].victim \in Keys
      /\ local[w].op = "get" => local[w].ret \in Buffers \cup {Null}
  BY DEF Shape, InPlace
<1> QED BY <1>1, <1>2, Moves

\* ... or assigns to one of them.
LEMMA Assigns ==
    ASSUME Types, Shape, NEW w \in Workers,
           pc' = [pc EXCEPT ![w] = pc'[w]], pc'[w] \in Places(local[w].op),
           \/ \E x \in SInt : local' = [local EXCEPT ![w].sz = x]
           \/ \E x \in UInt : local' = [local EXCEPT ![w].used = x]
           \/ /\ local[w].op = "put"
              /\ \E x \in Keys : local' = [local EXCEPT ![w].victim = x]
           \/ /\ local[w].op # "get"
              /\ \E x \in UInt : local' = [local EXCEPT ![w].ret = x]
           \/ \E x \in Buffers \cup {Null} : local' = [local EXCEPT ![w].ret = x]
    PROVE  Shape' /\ local' \in [Workers -> LocalTypes]
<1>1. local[w] \in LocalTypes
  BY DEF Types
<1>2. /\ local[w].op \in CallOps => local[w].victim \in Keys
      /\ local[w].op = "get" => local[w].ret \in Buffers \cup {Null}
  BY DEF Shape, InPlace
<1>3. local' = [local EXCEPT ![w] = local'[w]]
  BY DEF Types
<1>0. local \in [Workers -> LocalTypes]
  BY DEF Types
<1>4. /\ local'[w] \in LocalTypes
      /\ local'[w].op = local[w].op /\ local'[w].key = local[w].key
      /\ local'[w].val = local[w].val
  <2>1. CASE \E x \in SInt : local' = [local EXCEPT ![w].sz = x]
    BY <1>0, <1>1, <2>1 DEF LocalTypes
  <2>2. CASE \E x \in UInt : local' = [local EXCEPT ![w].used = x]
    BY <1>0, <1>1, <2>2 DEF LocalTypes
  <2>3. CASE \E x \in Keys : local' = [local EXCEPT ![w].victim = x]
    BY <1>0, <1>1, <2>3 DEF LocalTypes
  <2>4. CASE \E x \in UInt : local' = [local EXCEPT ![w].ret = x]
    BY <1>0, <1>1, <2>4 DEF LocalTypes
  <2>5. CASE \E x \in Buffers \cup {Null} : local' = [local EXCEPT ![w].ret = x]
    BY <1>0, <1>1, <2>5 DEF LocalTypes
  <2> QED BY <2>1, <2>2, <2>3, <2>4, <2>5
<1>5. /\ local[w].op \in CallOps => local'[w].victim \in Keys
      /\ local[w].op = "delete" => local'[w].victim = local[w].victim
  BY <1>1, <1>2 DEF Types, LocalTypes
<1>6. ASSUME local[w].op = "get" PROVE local'[w].ret \in Buffers \cup {Null}
  <2>1. local'[w].ret = local[w].ret \/ local'[w].ret \in Buffers \cup {Null}
    BY <1>1, <1>6 DEF Types, LocalTypes
  <2> QED BY <2>1, <1>2, <1>6
<1> QED BY <1>3, <1>4, <1>5, <1>6, Moves

\* A process that dies keeps its state.
LEMMA CrashTypes ==
    ASSUME Types, Shape, NEW how \in Faults, Crash(how), UNCHANGED <<main, overlapped>>
    PROVE  Types' /\ Shape'
BY DEF Types, Shape, InPlace, Crash, implVars

\* The steps of the helpers, whichever statement of cache.cc they are.
LEMMA GotoTypes ==
    ASSUME Types, Shape, NEW w \in Workers, NEW from,
           pc[w] = from, pc' = [pc EXCEPT ![w] = pc'[w]], pc'[w] \in Places(local[w].op),
           UNCHANGED <<implVars, local, fault, main, overlapped>>
    PROVE  Types' /\ Shape'
BY Looks DEF Types, implVars

LEMMA ReturnTypes ==
    ASSUME Types, Shape, NEW w \in Workers, NEW from, Return(w, from, local'[w].ret),
           \/ local[w].op # "get" /\ local'[w].ret \in UInt
           \/ local'[w].ret \in Buffers \cup {Null},
           local[w].op # "none",
           data' \in [Keys -> Buffers \cup {Null}],
           UNCHANGED <<heap, queue, orphans, memused, main, overlapped>>
    PROVE  Types' /\ Shape'
<1>1. /\ pc' = [pc EXCEPT ![w] = "returned"]
      /\ local' = [local EXCEPT ![w].ret = local'[w].ret]
      /\ fault' = fault
  BY DEF Return, Goto
<1>2. pc'[w] = "returned" /\ "returned" \in Places(local[w].op)
  BY <1>1, PlacesOf, Whose DEF Shape, Ops
<1>3. \/ /\ local[w].op # "get"
         /\ \E x \in UInt : local' = [local EXCEPT ![w].ret = x]
      \/ \E x \in Buffers \cup {Null} : local' = [local EXCEPT ![w].ret = x]
  BY <1>1
<1>4. Shape' /\ local' \in [Workers -> LocalTypes]
  BY <1>1, <1>2, <1>3, Assigns
<1> QED BY <1>1, <1>4 DEF Types

LEMMA ListRemTypes ==
    ASSUME Types, Shape, NEW w \in Workers, NEW from, NEW to, NEW k \in Keys,
           to \in Places(local[w].op), ListRem(w, from, to, k), UNCHANGED <<main, overlapped>>
    PROVE  Types' /\ Shape'
<1>1. CASE Crash("segfault")
  BY <1>1, CrashTypes DEF Faults
<1>2. CASE /\ queue # <<>>
           /\ Goto(w, from, to)
           /\ local' = [local EXCEPT ![w].sz = SizeIn(queue, k)]
           /\ queue' = Rem(queue, k)
           /\ UNCHANGED <<data, heap, orphans, memused, fault>>
  <2>1. SizeIn(queue, k) \in SInt /\ Rem(queue, k) \in Seq(Nodes)
    BY QueueTypes DEF Types
  <2>2. pc' = [pc EXCEPT ![w] = to] /\ pc'[w] = to
    BY <1>2 DEF Goto, Shape
  <2>3. Shape' /\ local' \in [Workers -> LocalTypes]
    BY <1>2, <2>1, <2>2, Assigns
  <2> QED BY <1>2, <2>1, <2>3 DEF Types
<1> QED BY <1>1, <1>2 DEF ListRem

LEMMA FreeValueTypes ==
    ASSUME Types, Shape, NEW w \in Workers, NEW from, NEW to, NEW k \in Keys,
           to \in Places(local[w].op), FreeValue(w, from, to, k), UNCHANGED <<main, overlapped>>
    PROVE  Types' /\ Shape'
<1>1. CASE Crash("double_free")
  BY <1>1, CrashTypes DEF Faults
<1>2. CASE /\ Goto(w, from, to)
           /\ heap' = IF data[k] = Null THEN heap ELSE [heap EXCEPT ![data[k]] = Free]
           /\ UNCHANGED <<data, queue, orphans, memused, local, fault>>
  <2>1. pc' = [pc EXCEPT ![w] = to] /\ pc'[w] = to
    BY <1>2 DEF Goto, Shape
  <2>2. heap' \in [Buffers -> Payloads \cup {Free}]
    BY <1>2 DEF Types
  <2>3. Shape' /\ local' \in [Workers -> LocalTypes]
    BY <1>2, <2>1, Looks
  <2> QED BY <1>2, <2>2, <2>3 DEF Types
<1> QED BY <1>1, <1>2 DEF FreeValue

LEMMA MemusedTypes ==
    ASSUME Types, Shape, NEW w \in Workers, NEW from, NEW to,
           to \in Places(local[w].op), UNCHANGED <<main, overlapped>>
    PROVE  /\ LoadMemused(w, from, to) => Types' /\ Shape'
           /\ StoreMemused(w, from, to, memused') /\ memused' \in UInt => Types' /\ Shape'
<1>1. pc' = [pc EXCEPT ![w] = to] => pc'[w] = to
  BY DEF Shape
<1>2. ASSUME LoadMemused(w, from, to) PROVE Types' /\ Shape'
  <2>1. /\ pc' = [pc EXCEPT ![w] = to]
        /\ local' = [local EXCEPT ![w].used = memused]
        /\ UNCHANGED <<implVars, fault>>
        /\ memused \in UInt
    BY <1>2 DEF LoadMemused, Goto, Types
  <2>2. Shape' /\ local' \in [Workers -> LocalTypes]
    BY <1>1, <2>1, Assigns
  <2> QED BY <2>1, <2>2 DEF Types, implVars
<1>3. ASSUME StoreMemused(w, from, to, memused'), memused' \in UInt PROVE Types' /\ Shape'
  <2>1. /\ pc' = [pc EXCEPT ![w] = to]
        /\ UNCHANGED <<data, heap, queue, orphans, local, fault>>
    BY <1>3 DEF StoreMemused, Goto
  <2>2. Shape' /\ local' \in [Workers -> LocalTypes]
    BY <1>1, <2>1, Looks
  <2> QED BY <1>3, <2>1, <2>2 DEF Types
<1> QED BY <1>2, <1>3

LEMMA SetTypes ==
    ASSUME Types, Shape, NEW w \in Workers, SetStep(w), UNCHANGED <<main, overlapped>>
    PROVE  Types' /\ Shape'
<1>0. /\ pc[w] \in SetPCs => /\ local[w].op = "put" /\ local[w].key \in Keys
                             /\ local[w].val \in Payloads
      /\ Places("put") = SetPCs \cup DelPCs \cup {"returned"}
      /\ local[w].used \in UInt /\ local[w].sz \in SInt /\ memused \in UInt
      /\ 0 \in UInt /\ 1 \in UInt
  BY Whose, PlacesOf, SignBitAssumption DEF Types, LocalTypes, Shape, InPlace, CallOps, UInt
<1> USE DEF SetPCs, DelPCs
<1>1. CASE SetCheck(w) /\ SizeOf[local[w].val] > MaxMem
  <2>1. Return(w, "set_check", 1) /\ UNCHANGED implVars
    BY <1>1, SharedCacheAssumption, <1>0, SignBitAssumption DEF SetCheck, UInt
  <2>2. local'[w].ret = 1 /\ pc[w] = "set_check"
    BY <2>1 DEF Return, Goto, Types, LocalTypes
  <2> QED BY <1>0, <2>1, <2>2, ReturnTypes DEF implVars, Types
<1>2. CASE SetCheck(w) /\ ~ (SizeOf[local[w].val] > MaxMem)
  <2>1. /\ pc[w] = "set_check" /\ pc' = [pc EXCEPT ![w] = "set_lookup"]
        /\ UNCHANGED <<implVars, local, fault>>
    BY <1>2 DEF SetCheck, Goto
  <2>2. pc'[w] = "set_lookup"
    BY <2>1 DEF Shape
  <2> QED BY <1>0, <2>1, <2>2, GotoTypes
<1>3. CASE SetLookup(w)
  <2>1. /\ pc[w] = "set_lookup" /\ UNCHANGED <<implVars, local, fault>>
        /\ pc' = [pc EXCEPT ![w] = IF data[local[w].key] = Null THEN "set_alloc" ELSE "set_free"]
    BY <1>3 DEF SetLookup, Goto
  <2>2. pc'[w] \in {"set_alloc", "set_free"} /\ pc' = [pc EXCEPT ![w] = pc'[w]]
    BY <2>1 DEF Shape
  <2> QED BY <1>0, <2>1, <2>2, GotoTypes
<1>4. CASE SetFree(w)
  <2>1. pc[w] = "set_free"
    BY <1>4 DEF SetFree, FreeValue
  <2> QED BY <1>0, <1>4, <2>1, FreeValueTypes DEF SetFree
<1>5. CASE SetRem(w)
  <2>1. pc[w] = "set_rem"
    BY <1>5 DEF SetRem, ListRem, Goto
  <2> QED BY <1>0, <1>5, <2>1, ListRemTypes DEF SetRem
<1>6. CASE SetLoadLess(w)
  <2>1. pc[w] = "set_load_less"
    BY <1>6 DEF SetLoadLess, LoadMemused, Goto
  <2> QED BY <1>0, <1>6, <2>1, MemusedTypes DEF SetLoadLess
<1>7. CASE SetStoreLess(w)
  <2>1. pc[w] = "set_store_less" /\ memused' = MinusU(local[w].used, AsUInt(local[w].sz))
    BY <1>7 DEF SetStoreLess, StoreMemused, Goto
  <2>2. memused' \in UInt
    BY <1>0, <2>1, MachineIntTypes
  <2> QED BY <1>0, <1>7, <2>1, <2>2, MemusedTypes DEF SetStoreLess
<1>8. CASE SetAlloc(w)
  <2>1. /\ pc[w] = "set_alloc" /\ pc' = [pc EXCEPT ![w] = "set_load_more"]
        /\ UNCHANGED <<queue, orphans, memused, local, fault>>
    BY <1>8 DEF SetAlloc, Goto
  <2>2. pc'[w] = "set_load_more"
    BY <2>1 DEF Shape
  <2>3. heap' \in [Buffers -> Payloads \cup {Free}] /\ data' \in [Keys -> Buffers \cup {Null}]
    BY <1>8, <1>0, <2>1 DEF SetAlloc, Types
  <2>4. Shape' /\ local' \in [Workers -> LocalTypes]
    BY <1>0, <2>1, <2>2, Looks
  <2> QED BY <2>1, <2>3, <2>4 DEF Types
<1>9. CASE SetLoadMore(w)
  <2>1. pc[w] = "set_load_more"
    BY <1>9 DEF SetLoadMore, LoadMemused, Goto
  <2> QED BY <1>0, <1>9, <2>1, MemusedTypes DEF SetLoadMore
<1>10. CASE SetStoreMore(w)
  <2>1. pc[w] = "set_store_more" /\ memused' = PlusU(local[w].used, SizeOf[local[w].val])
    BY <1>10 DEF SetStoreMore, StoreMemused, Goto
  <2>2. SizeOf[local[w].val] \in UInt
    BY <1>0, <2>1, SharedCacheAssumption
  <2>3. memused' \in UInt
    BY <1>0, <2>1, <2>2, MachineIntTypes
  <2> QED BY <1>0, <1>10, <2>1, <2>3, MemusedTypes DEF SetStoreMore
<1>11. CASE SetEnqueue(w)
  <2>1. /\ pc[w] = "set_enqueue" /\ pc' = [pc EXCEPT ![w] = "set_loop"]
        /\ queue' = Enqueue(queue, local[w].key, SizeOf[local[w].val])
        /\ UNCHANGED <<data, heap, orphans, memused, local, fault>>
    BY <1>11 DEF SetEnqueue, Goto
  <2>2. pc'[w] = "set_loop"
    BY <2>1 DEF Shape
  <2>3. SizeOf[local[w].val] \in UInt
    BY <1>0, <2>1, SharedCacheAssumption
  <2>4. queue' \in Seq(Nodes)
    BY <1>0, <2>1, <2>3, QueueTypes DEF Types
  <2>5. Shape' /\ local' \in [Workers -> LocalTypes]
    BY <1>0, <2>1, <2>2, Looks
  <2> QED BY <2>1, <2>4, <2>5 DEF Types
<1>12. CASE SetLoop(w)
  <2>1. CASE Goto(w, "set_loop", "set_head") /\ UNCHANGED <<implVars, local, fault>>
    <3>1. pc'[w] = "set_head" /\ pc[w] = "set_loop" /\ pc' = [pc EXCEPT ![w] = "set_head"]
      BY <2>1 DEF Goto, Shape
    <3> QED BY <1>0, <2>1, <3>1, GotoTypes
  <2>2. CASE Return(w, "set_loop", 0) /\ UNCHANGED implVars
    <3>1. local'[w].ret = 0 /\ pc[w] = "set_loop"
      BY <2>2 DEF Return, Goto, Types, LocalTypes
    <3> QED BY <1>0, <2>2, <3>1, ReturnTypes DEF implVars, Types
  <2> QED BY <1>12, <2>1, <2>2 DEF SetLoop
<1>13. CASE SetHead(w)
  <2>1. CASE Crash("segfault")
    BY <2>1, CrashTypes DEF Faults
  <2>2. CASE /\ queue # <<>>
             /\ Goto(w, "set_head", "del_lookup")
             /\ local' = [local EXCEPT ![w].victim = Head(queue).key]
             /\ UNCHANGED <<implVars, fault>>
    <3>1. pc'[w] = "del_lookup" /\ pc[w] = "set_head" /\ pc' = [pc EXCEPT ![w] = "del_lookup"]
      BY <2>2 DEF Goto, Shape
    <3>2. Head(queue) \in Nodes
      BY <2>2, HeadTailProperties DEF Types
    <3>3. Head(queue).key \in Keys
      BY <3>2 DEF Nodes
    <3>4. Shape' /\ local' \in [Workers -> LocalTypes]
      BY <1>0, <2>2, <3>1, <3>3, Assigns
    <3> QED BY <2>2, <3>4 DEF Types, implVars
  <2> QED BY <1>13, <2>1, <2>2 DEF SetHead
<1> QED BY <1>1, <1>2, <1>3, <1>4, <1>5, <1>6, <1>7, <1>8, <1>9, <1>10, <1>11, <1>12, <1>13
        DEF SetStep

LEMMA DelTypes ==
    ASSUME Types, Shape, NEW w \in Workers, DelStep(w), UNCHANGED <<main, overlapped>>
    PROVE  Types' /\ Shape'
<1>0. /\ pc[w] \in DelPCs => /\ local[w].op \in {"put", "delete"} /\ local[w].victim \in Keys
                             /\ DelPCs \cup {"returned"} \subseteq Places(local[w].op)
      /\ Places("put") = SetPCs \cup DelPCs \cup {"returned"}
      /\ local[w].used \in UInt /\ local[w].sz \in SInt /\ memused \in UInt
      /\ 0 \in UInt /\ 1 \in UInt
  BY Whose, PlacesOf, SignBitAssumption DEF Types, LocalTypes, Shape, InPlace, CallOps, UInt
<1> USE DEF DelPCs
<1>1. CASE DelLookup(w)
  <2>1. /\ pc[w] = "del_lookup" /\ UNCHANGED <<implVars, local, fault>>
        /\ pc' = [pc EXCEPT ![w] = IF data[local[w].victim] = Null THEN "del_miss" ELSE "del_rem"]
    BY <1>1 DEF DelLookup, Goto
  <2>2. pc'[w] \in {"del_miss", "del_rem"} /\ pc' = [pc EXCEPT ![w] = pc'[w]]
    BY <2>1 DEF Shape
  <2> QED BY <1>0, <2>1, <2>2, GotoTypes
<1>2. CASE DelRem(w)
  <2>1. pc[w] = "del_rem"
    BY <1>2 DEF DelRem, ListRem, Goto
  <2> QED BY <1>0, <1>2, <2>1, ListRemTypes DEF DelRem
<1>3. CASE DelLoad(w)
  <2>1. pc[w] = "del_load"
    BY <1>3 DEF DelLoad, LoadMemused, Goto
  <2> QED BY <1>0, <1>3, <2>1, MemusedTypes DEF DelLoad
<1>4. CASE DelStore(w)
  <2>1. pc[w] = "del_store" /\ memused' = MinusU(local[w].used, AsUInt(local[w].sz))
    BY <1>4 DEF DelStore, StoreMemused, Goto
  <2>2. memused' \in UInt
    BY <1>0, <2>1, MachineIntTypes
  <2> QED BY <1>0, <1>4, <2>1, <2>2, MemusedTypes DEF DelStore
<1>5. CASE DelFree(w)
  <2>1. pc[w] = "del_free"
    BY <1>5 DEF DelFree, FreeValue
  <2> QED BY <1>0, <1>5, <2>1, FreeValueTypes DEF DelFree
<1>6. CASE DelErase(w)
  <2>1. /\ pc[w] \in {"del_erase", "del_miss"}
        /\ data' = [data EXCEPT ![local[w].victim] = Null]
        /\ UNCHANGED <<heap, queue, orphans, memused>>
        /\ DelReturn(w, pc[w], IF pc[w] = "del_erase" THEN 0 ELSE 1)
    BY <1>6 DEF DelErase
  <2>2. data' \in [Keys -> Buffers \cup {Null}]
    BY <2>1 DEF Types
  <2>3. CASE local[w].op = "put"
    <3>1. /\ pc' = [pc EXCEPT ![w] = "set_loop"] /\ pc'[w] = "set_loop"
          /\ UNCHANGED <<local, fault>>
      BY <2>1, <2>3 DEF DelReturn, Goto, Shape
    <3>2. Shape' /\ local' \in [Workers -> LocalTypes]
      BY <1>0, <2>3, <3>1, Looks DEF SetPCs
    <3> QED BY <2>1, <2>2, <3>1, <3>2 DEF Types
  <2>4. CASE local[w].op # "put"
    <3>1. Return(w, pc[w], IF pc[w] = "del_erase" THEN 0 ELSE 1)
      BY <2>1, <2>4 DEF DelReturn
    <3>2. local'[w].ret \in UInt /\ Return(w, pc[w], local'[w].ret)
      BY <1>0, <3>1 DEF Return, Goto, Types, LocalTypes
    <3> QED BY <1>0, <2>1, <2>2, <3>2, ReturnTypes
  <2> QED BY <2>3, <2>4
<1> QED BY <1>1, <1>2, <1>3, <1>4, <1>5, <1>6 DEF DelStep

LEMMA GetTypes ==
    ASSUME Types, Shape, NEW w \in Workers, GetStep(w) \/ SpaceUsed(w),
           UNCHANGED <<main, overlapped>>
    PROVE  Types' /\ Shape'
<1>0. /\ pc[w] \in GetPCs => /\ local[w].op = "get" /\ local[w].key \in Keys
      /\ Places("get") = GetPCs \cup {"returned"}
      /\ pc[w] = "space_used" => local[w].op = "memsize"
      /\ memused \in UInt
  BY Whose, PlacesOf DEF Types, LocalTypes, Shape, InPlace, CallOps
<1> USE DEF GetPCs
<1>1. CASE GetLookup(w)
  <2>1. /\ pc[w] = "get_lookup" /\ UNCHANGED <<implVars, local, fault>>
        /\ pc' = [pc EXCEPT ![w] = IF data[local[w].key] = Null THEN "get_miss" ELSE "get_pushback"]
    BY <1>1 DEF GetLookup, Goto
  <2>2. pc'[w] \in {"get_miss", "get_pushback"} /\ pc' = [pc EXCEPT ![w] = pc'[w]]
    BY <2>1 DEF Shape
  <2> QED BY <1>0, <2>1, <2>2, GotoTypes
<1>2. CASE GetPushback(w)
  <2>1. CASE Crash("segfault") \/ Crash("corrupted")
    BY <2>1, CrashTypes DEF Faults
  <2>2. CASE /\ queue # <<>>
             /\ Goto(w, "get_pushback", "get_read")
             /\ local' = [local EXCEPT ![w].sz = SizeIn(queue, local[w].key)]
             /\ queue' = Pushback(queue, local[w].key)
             /\ orphans' = orphans \o CutOff(queue, local[w].key)
             /\ UNCHANGED <<data, heap, memused, fault>>
    <3>1. /\ pc' = [pc EXCEPT ![w] = "get_read"] /\ pc'[w] = "get_read"
          /\ pc[w] = "get_pushback"
      BY <2>2 DEF Goto, Shape
    <3>2. /\ SizeIn(queue, local[w].key) \in SInt /\ queue' \in Seq(Nodes)
          /\ CutOff(queue, local[w].key) \in Seq(Nodes)
      BY <2>2, QueueTypes DEF Types
    <3>3. orphans' \in Seq(Nodes)
      BY <2>2, <3>2, ConcatProperties DEF Types
    <3>4. Shape' /\ local' \in [Workers -> LocalTypes]
      BY <1>0, <2>2, <3>1, <3>2, Assigns
    <3> QED BY <2>2, <3>2, <3>3, <3>4 DEF Types
  <2> QED BY <1>2, <2>1, <2>2 DEF GetPushback
<1>3. CASE GetRead(w)
  <2>1. /\ Return(w, "get_read", data[local[w].key]) /\ pc[w] = "get_read"
        /\ UNCHANGED implVars
    BY <1>3 DEF GetRead
  <2>2. local'[w].ret = data[local[w].key]
    BY <2>1 DEF Return, Types, LocalTypes
  <2>3. local'[w].ret \in Buffers \cup {Null}
    BY <1>0, <2>1, <2>2 DEF Types
  <2> QED BY <1>0, <2>1, <2>2, <2>3, ReturnTypes DEF implVars, Types
<1>4. CASE GetErase(w)
  <2>1. /\ Return(w, "get_miss", Null) /\ pc[w] = "get_miss"
        /\ data' = [data EXCEPT ![local[w].key] = Null]
        /\ UNCHANGED <<heap, queue, orphans, memused>>
    BY <1>4 DEF GetErase, Return, Goto
  <2>2. local'[w].ret = Null
    BY <2>1 DEF Return, Types, LocalTypes
  <2>3. data' \in [Keys -> Buffers \cup {Null}]
    BY <2>1 DEF Types
  <2> QED BY <1>0, <2>1, <2>2, <2>3, ReturnTypes
<1>5. CASE SpaceUsed(w)
  <2>1. Return(w, "space_used", memused) /\ pc[w] = "space_used" /\ UNCHANGED implVars
    BY <1>5 DEF SpaceUsed, Return, Goto
  <2>2. local'[w].ret = memused
    BY <2>1 DEF Return, Types, LocalTypes
  <2> QED BY <1>0, <2>1, <2>2, ReturnTypes DEF implVars, Types
<1> QED BY <1>1, <1>2, <1>3, <1>4, <1>5 DEF GetStep

LEMMA CallTypes ==
    ASSUME Types, Shape, NEW w \in Workers, Call(w)
    PROVE  Types' /\ Shape'
BY SetTypes, DelTypes, GetTypes DEF Call, CallStep, serverVars

\* A worker that starts or ends a request.
LEMMA Renews ==
    ASSUME Types, Shape, NEW w \in Workers,
           pc' = [pc EXCEPT ![w] = pc'[w]], local' = [local EXCEPT ![w] = local'[w]],
           local'[w] \in LocalTypes, pc'[w] \in Places(local'[w].op), InPlace(w)'
    PROVE  Shape' /\ local' \in [Workers -> LocalTypes]
<1>1. local'[w].op \in Ops
  BY DEF LocalTypes
<1>2. pc'[w] \in AllPlaces
  BY <1>1, PlacesOf
<1>3. ASSUME NEW v \in Workers \ {w} PROVE InPlace(v)'
  <2>1. pc'[v] = pc[v] /\ local'[v] = local[v]
    BY <1>3 DEF Shape, Types
  <2> QED BY <2>1 DEF Shape, InPlace
<1>4. pc' \in [Workers -> AllPlaces] /\ local' \in [Workers -> LocalTypes]
  BY <1>2 DEF Shape, Types
<1> QED BY <1>3, <1>4 DEF Shape

LEMMA NullNoKey == Null \notin Buffers /\ Null \notin Payloads /\ Null \notin Keys
BY SharedCacheAssumption

LEMMA ReceiveTypes ==
    ASSUME Types, Shape, NEW w \in Workers, Receive(w)
    PROVE  Types' /\ Shape'
<1>1. PICK req \in Requests :
         /\ pc[w] = "ready" /\ pc' = [pc EXCEPT ![w] = Entry(req.op)]
         /\ local' = [local EXCEPT ![w] = Locals(req)]
         /\ overlapped' = (overlapped \/ ( /\ req.op \in {"put", "get", "delete"}
                                           /\ \E v \in Workers : InCall(v) ))
  BY DEF Receive, Goto
<1>2. /\ req.op \in Ops \ {"none"}
      /\ req.key \in Keys \cup {Null} /\ req.val \in Payloads \cup {Null}
      /\ req.op \in CallOps => req.key \in Keys
      /\ req.op = "put" => req.val \in Payloads
  BY DEF Requests, Request, Ops, CallOps
<1>3. local'[w] = Locals(req) /\ pc'[w] = Entry(req.op)
  BY <1>1 DEF Types, Shape
<1>4. Locals(req) \in LocalTypes
  BY <1>2, SIntSized DEF Locals, LocalTypes
<1>5. Entry(req.op) \in Places(req.op)
  BY <1>2, PlacesOf DEF Entry, Ops, SetPCs, DelPCs, GetPCs
<1>6. InPlace(w)'
  BY <1>2, <1>3, <1>5 DEF InPlace, Locals
<1>7. local'[w].op = req.op
  BY <1>3 DEF Locals
<1>8. Shape' /\ local' \in [Workers -> LocalTypes]
  BY <1>1, <1>3, <1>4, <1>5, <1>6, <1>7, Renews
<1> QED BY <1>1, <1>8 DEF Receive, Types, implVars

LEMMA AnswerTypes ==
    ASSUME Types, Shape, NEW w \in Workers,
           pc' = [pc EXCEPT ![w] = "ready"], local' = [local EXCEPT ![w] = Locals(NoRequest)],
           UNCHANGED <<implVars, fault, main, overlapped>>
    PROVE  Types' /\ Shape'
<1>1. local'[w] = Locals(NoRequest) /\ pc'[w] = "ready"
  BY DEF Types, Shape
<1>2. Locals(NoRequest) \in LocalTypes /\ Locals(NoRequest).op = "none"
  BY SIntSized DEF Locals, LocalTypes, NoRequest, Ops
<1>3. InPlace(w)'
  BY <1>1, <1>2, PlacesOf DEF InPlace, CallOps
<1>4. Shape' /\ local' \in [Workers -> LocalTypes]
  BY <1>1, <1>2, <1>3, PlacesOf, Renews
<1> QED BY <1>4 DEF Types, implVars

LEMMA HandleTypes ==
    ASSUME Types, Shape, NEW w \in Workers, Handle(w) \/ Exit(w)
    PROVE  Types' /\ Shape'
<1>1. CASE Call(w)
  BY <1>1, CallTypes
<1>2. CASE \E status, body : Answer(w, status, body)
  BY <1>2, AnswerTypes DEF Answer, Goto
<1>3. CASE Crash("stale_read") /\ UNCHANGED <<serverVars, overlapped, serial>>
  BY <1>3, CrashTypes DEF Faults, serverVars
<1>4. CASE Shutdown(w)
  <2>1. /\ pc[w] = "stopping" /\ pc' = [pc EXCEPT ![w] = "returned"] /\ pc'[w] = "returned"
        /\ UNCHANGED <<implVars, local, fault, main, overlapped>>
    BY <1>4 DEF Shutdown, Goto, Shape
  <2>2. "returned" \in Places(local[w].op)
    BY <2>1, Whose, PlacesOf
  <2> QED BY <2>1, <2>2, GotoTypes
<1>5. CASE Exit(w)
  <2>1. /\ pc[w] = "ready" /\ pc' = [pc EXCEPT ![w] = "exited"] /\ pc'[w] = "exited"
        /\ UNCHANGED <<implVars, local, fault, main, overlapped>>
    BY <1>5 DEF Exit, Goto, Shape, serverVars
  <2>2. "exited" \in Places(local[w].op)
    BY <2>1, Whose, PlacesOf
  <2> QED BY <2>1, <2>2, GotoTypes
<1>6. CASE AnswerGet(w) /\ ~ Crash("stale_read")
  BY <1>2, <1>6 DEF AnswerGet
<1> QED BY <1>1, <1>2, <1>3, <1>4, <1>5, <1>6
        DEF Handle, AnswerPut, AnswerDelete, AnswerGet, AnswerMemsize, AnswerHead, AnswerShutdown

\* The main thread.
LEMMA MainTypes ==
    ASSUME Types, Shape, Signal \/ Main
    PROVE  Types' /\ Shape'
<1>0. Shape'
  BY DEF Shape, InPlace, Signal, Main, Destroy, FreeEntry, MainExit
<1>1. CASE Signal \/ Destroy \/ MainExit
  <2>1. /\ UNCHANGED <<implVars, local, fault, overlapped>>
        /\ main' \in {main, "destroying", "exited"}
    BY <1>1 DEF Signal, Destroy, MainExit
  <2> QED BY <1>0, <2>1 DEF Types, implVars
<1>2. ASSUME NEW k \in Keys, FreeEntry(k) PROVE Types'
  <2>1. Rem(queue, k) \in Seq(Nodes)
    BY QueueTypes DEF Types
  <2> QED BY <1>2, <2>1 DEF FreeEntry, Types, serverVars, implVars, Faults
<1> QED BY <1>0, <1>1, <1>2 DEF Main

-----------------------------------------------------------------------------
(* The memory behind the map, while calls do not overlap. *)

\* The same, of the one worker in the cache.
MemoryOf(w) ==
    /\ Injective /\ Covered
    /\ \A k \in Keys : data[k] # Null => heap[data[k]] # Free \/ Dangles(w, k)
    /\ \A k \in Keys : Dangles(w, k) => Freed(k)
    /\ Knows(w)

LEMMA InCallPlaces ==
    ASSUME Types, Shape, NEW w \in Workers
    PROVE  /\ InCall(w) <=> local[w].op \in CallOps
           /\ pc[w] \in SetPCs \cup DelPCs \cup GetPCs => InCall(w)
<1>1. pc[w] \in Places(local[w].op)
  BY DEF Shape, InPlace
<1> QED BY <1>1, Whose, PlacesOf DEF InCall, CallOps, Ops, SetPCs, DelPCs, GetPCs

\* Outside the cache a worker holds no pointer of the cache.
OutIsClean == \A w \in Workers : ~ InCall(w) => Knows(w) /\ \A k : ~ Dangles(w, k)

LEMMA Outside == Types /\ Shape => OutIsClean
<1> SUFFICES ASSUME Types, Shape, NEW w \in Workers, ~ InCall(w)
             PROVE  Knows(w) /\ \A k : ~ Dangles(w, k)
  BY DEF OutIsClean
<1>1. pc[w] \notin SetPCs \cup DelPCs \cup GetPCs /\ local[w].op \notin CallOps
  BY InCallPlaces
<1> QED BY <1>1 DEF Knows, Dangles, SetPCs, DelPCs, GetPCs, CallOps

LEMMA OutsideNext == Types' /\ Shape' => OutIsClean'
BY Outside, PTL

LEMMA MemoryToWorker ==
    ASSUME Types, Shape, Memory, NEW w \in Workers, InCall(w)
    PROVE  MemoryOf(w) /\ \A v \in Workers \ {w} : ~ InCall(v)
<1>1. \A v \in Workers \ {w} : ~ InCall(v)
  BY DEF Memory, Alone
<1>2. \A v \in Workers \ {w} : \A k : ~ Dangles(v, k)
  BY <1>1, Outside DEF OutIsClean
<1> QED BY <1>1, <1>2 DEF Memory, MemoryOf, Owns

AtMostOne == \E w \in Workers : MemoryOf(w) /\ \A v \in Workers \ {w} : ~ InCall(v)

LEMMA WorkerToMemory == Types /\ Shape /\ AtMostOne => Memory
<1> SUFFICES ASSUME Types, Shape, NEW w \in Workers, MemoryOf(w),
                    \A v \in Workers \ {w} : ~ InCall(v)
             PROVE  Memory
  BY DEF AtMostOne
<1>1. \A v \in Workers \ {w} : Knows(v) /\ \A k : ~ Dangles(v, k)
  BY Outside DEF OutIsClean
<1> QED BY <1>1 DEF Memory, MemoryOf, Owns, Alone

LEMMA WorkerToMemoryNext == Types' /\ Shape' /\ AtMostOne' => Memory'
BY WorkerToMemory, PTL

\* Steps that leave the memory alone.
LEMMA Still ==
    ASSUME NEW w \in Workers, MemoryOf(w), UNCHANGED <<data, heap>>,
           \A k \in Keys : Dangles(w, k)' <=> Dangles(w, k),
           Knows(w)'
    PROVE  MemoryOf(w)'
BY DEF MemoryOf, Injective, Covered, Freed

LEMMA CrashMemory ==
    ASSUME NEW w \in Workers, MemoryOf(w), NEW how, Crash(how)
    PROVE  MemoryOf(w)'
BY DEF Crash, implVars, MemoryOf, Injective, Covered, Freed, Knows, Dangles

\* free() is given a live pointer, which dangles until it is overwritten.
LEMMA FreeMemory ==
    ASSUME Types, NEW w \in Workers, MemoryOf(w), NEW from, NEW to, NEW k \in Keys,
           FreeValue(w, from, to, k),
           \A l : ~ Dangles(w, l), \A l \in Keys : Dangles(w, l)' <=> l = k,
           Knows(w)'
    PROVE  MemoryOf(w)' /\ fault' = fault
<1>1. data[k] # Null => heap[data[k]] # Free
  BY DEF MemoryOf
<1>2. /\ data' = data /\ fault' = fault
      /\ heap' = IF data[k] = Null THEN heap ELSE [heap EXCEPT ![data[k]] = Free]
  BY <1>1 DEF FreeValue
<1>3. Injective' /\ Covered'
  BY <1>2 DEF MemoryOf, Injective, Covered, Types
<1>4. \A l \in Keys : data'[l] # Null => heap'[data'[l]] # Free \/ Dangles(w, l)'
  BY <1>2 DEF MemoryOf, Injective, Types
<1>5. \A l \in Keys : Dangles(w, l)' => Freed(l)'
  BY <1>2 DEF Freed, Types
<1> QED BY <1>2, <1>3, <1>4, <1>5 DEF MemoryOf

LEMMA SetMemory ==
    ASSUME Types, Shape, NEW w \in Workers, MemoryOf(w), SetStep(w)
    PROVE  MemoryOf(w)' /\ fault' \in {fault, "segfault"}
<1>0. /\ pc[w] \in SetPCs => /\ local[w].op = "put" /\ local[w].key \in Keys
                             /\ local[w].val \in Payloads
      /\ local[w] \in LocalTypes
  BY Whose DEF Types, LocalTypes, Shape, InPlace, CallOps
<1> USE DEF SetPCs, DelPCs
<1>1. CASE SetCheck(w) \/ SetLoop(w) \/ SetLoadMore(w) \/ SetStoreMore(w) \/ SetEnqueue(w)
  <2>1. UNCHANGED <<data, heap>> /\ pc[w] \in SetPCs
    BY <1>1 DEF SetCheck, SetLoop, SetLoadMore, SetStoreMore, SetEnqueue, Goto, Return,
       LoadMemused, StoreMemused, implVars
  <2>2. /\ pc'[w] \in {"set_lookup", "set_store_more", "set_enqueue", "set_loop", "set_head", "returned"}
        /\ pc[w] \in {"set_check", "set_loop", "set_load_more", "set_store_more", "set_enqueue"}
        /\ fault' = fault
    BY <1>1 DEF SetCheck, SetLoop, SetLoadMore, SetStoreMore, SetEnqueue, Goto, Return,
       LoadMemused, StoreMemused, Shape
  <2>3. local'[w].op = local[w].op
    BY <1>1, <1>0 DEF SetCheck, SetLoop, SetLoadMore, SetStoreMore, SetEnqueue, Return,
       LoadMemused, StoreMemused, Types, LocalTypes
  <2> QED BY <1>0, <2>1, <2>2, <2>3, Still DEF Dangles, Knows
<1>2. CASE SetLookup(w)
  <2>1. /\ UNCHANGED <<data, heap, local, fault>> /\ pc[w] = "set_lookup"
        /\ pc'[w] = IF data[local[w].key] = Null THEN "set_alloc" ELSE "set_free"
    BY <1>2 DEF SetLookup, Goto, implVars, Shape
  <2> QED BY <1>0, <2>1 DEF MemoryOf, Injective, Covered, Freed, Knows, Dangles
<1>3. CASE SetFree(w)
  <2>1. pc[w] = "set_free"
    BY <1>3 DEF SetFree, FreeValue
  <2>2. data[local[w].key] # Null => heap[data[local[w].key]] # Free
    BY <1>0, <2>1 DEF MemoryOf, Dangles
  <2>3. UNCHANGED local /\ pc'[w] = "set_rem"
    BY <1>3, <2>2 DEF SetFree, FreeValue, Goto, Shape
  <2>4. /\ \A l : ~ Dangles(w, l)
        /\ \A l \in Keys : Dangles(w, l)' <=> l = local[w].key
        /\ Knows(w)'
    BY <2>1, <2>3 DEF Dangles, Knows
  <2> QED BY <1>0, <1>3, <2>1, <2>4, FreeMemory DEF SetFree
<1>4. CASE SetRem(w) \/ SetLoadLess(w) \/ SetStoreLess(w)
  <2>1. CASE Crash("segfault")
    BY <2>1, CrashMemory DEF Crash
  <2>2. CASE ~ Crash("segfault")
    <3>1. /\ UNCHANGED <<data, heap, fault>>
          /\ pc[w] \in {"set_rem", "set_load_less", "set_store_less"}
          /\ pc'[w] \in {"set_load_less", "set_store_less", "set_alloc"}
      BY <1>4, <2>2 DEF SetRem, SetLoadLess, SetStoreLess, ListRem, LoadMemused, StoreMemused,
                        Goto, implVars, Shape
    <3>2. local'[w].key = local[w].key
      BY <1>0, <1>4, <2>2 DEF SetRem, SetLoadLess, SetStoreLess, ListRem, LoadMemused,
                              StoreMemused, Types, LocalTypes
    <3> QED BY <3>1, <3>2, Still DEF Dangles, Knows
  <2> QED BY <2>1, <2>2
<1>5. CASE SetAlloc(w)
  <2>1. PICK b \in Buffers :
          /\ heap[b] = Free
          /\ heap' = [heap EXCEPT ![b] = local[w].val]
          /\ data' = [data EXCEPT ![local[w].key] = b]
    BY <1>5 DEF SetAlloc
  <2>2. /\ pc[w] = "set_alloc" /\ pc'[w] = "set_load_more" /\ UNCHANGED <<local, fault>>
    BY <1>5 DEF SetAlloc, Goto, Shape
  <2>3. /\ data \in [Keys -> Buffers \cup {Null}] /\ heap \in [Buffers -> Payloads \cup {Free}]
        /\ local[w].val # Free /\ b # Null /\ local[w].key \in Keys
    BY <1>0, <2>2, SharedCacheAssumption DEF Types
  <2> DEFINE k == local[w].key
  <2>4. \A l \in Keys : Dangles(w, l) <=> l = k
    BY <2>2 DEF Dangles
  <2>5. /\ \A l \in Keys \ {k} : data'[l] = data[l] /\ (data[l] # Null => heap[data[l]] # Free)
        /\ data'[k] = b /\ heap'[b] # Free
        /\ \A c \in Buffers \ {b} : heap'[c] = heap[c]
        /\ data[k] # Null => heap[data[k]] = Free
    BY <2>1, <2>3, <2>4 DEF MemoryOf, Freed
  <2>6. Injective'
    BY <2>1, <2>3, <2>5 DEF MemoryOf, Injective
  <2>7. Covered'
    <3>1. ASSUME NEW c \in Buffers, heap'[c] # Free PROVE \E l \in Keys : data'[l] = c
      <4>1. CASE c = b
        BY <2>3, <2>5, <4>1
      <4>2. CASE c # b
        <5>1. PICK l \in Keys : data[l] = c
          BY <2>5, <3>1, <4>2 DEF MemoryOf, Covered
        <5>2. l # k
          <6>1. heap[c] # Free /\ c # Null
            BY <2>3, <2>5, <3>1, <4>2, NullNoKey
          <6> QED BY <2>5, <5>1, <6>1
        <5> QED BY <2>5, <5>1, <5>2
      <4> QED BY <4>1, <4>2
    <3> QED BY <3>1 DEF Covered
  <2>8. \A l \in Keys : data'[l] # Null => heap'[data'[l]] # Free
    BY <2>1, <2>3, <2>5
  <2>9. Knows(w)' /\ \A l \in Keys : ~ Dangles(w, l)'
    BY <2>2 DEF Knows, Dangles
  <2> QED BY <2>2, <2>6, <2>7, <2>8, <2>9 DEF MemoryOf
<1>6. CASE SetHead(w)
  <2>1. CASE Crash("segfault")
    BY <2>1, CrashMemory DEF Crash
  <2>2. CASE ~ Crash("segfault")
    <3>1. /\ UNCHANGED <<data, heap, fault>>
          /\ pc[w] = "set_head" /\ pc'[w] = "del_lookup"
      BY <1>6, <2>2 DEF SetHead, Goto, implVars, Shape
    <3> QED BY <3>1, Still DEF Dangles, Knows
  <2> QED BY <2>1, <2>2
<1> QED BY <1>1, <1>2, <1>3, <1>4, <1>5, <1>6 DEF SetStep

LEMMA DelMemory ==
    ASSUME Types, Shape, NEW w \in Workers, MemoryOf(w), DelStep(w)
    PROVE  MemoryOf(w)' /\ fault' \in {fault, "segfault"}
<1>0. /\ pc[w] \in DelPCs => local[w].op \in {"put", "delete"} /\ local[w].victim \in Keys
      /\ local[w] \in LocalTypes
  BY Whose DEF Types, LocalTypes, Shape, InPlace, CallOps
<1> USE DEF DelPCs
<1>1. CASE DelLookup(w)
  <2>1. /\ UNCHANGED <<data, heap, local, fault>> /\ pc[w] = "del_lookup"
        /\ pc'[w] = IF data[local[w].victim] = Null THEN "del_miss" ELSE "del_rem"
    BY <1>1 DEF DelLookup, Goto, implVars, Shape
  <2>2. Knows(w)' /\ \A k \in Keys : Dangles(w, k)' <=> Dangles(w, k)
    BY <2>1 DEF Knows, Dangles
  <2> QED BY <2>1, <2>2, Still
<1>2. CASE DelRem(w) \/ DelLoad(w) \/ DelStore(w)
  <2>1. CASE Crash("segfault")
    BY <2>1, CrashMemory DEF Crash
  <2>2. CASE ~ Crash("segfault")
    <3>1. /\ UNCHANGED <<data, heap, fault>>
          /\ pc[w] \in {"del_rem", "del_load", "del_store"}
          /\ pc'[w] \in {"del_load", "del_store", "del_free"}
      BY <1>2, <2>2 DEF DelRem, DelLoad, DelStore, ListRem, LoadMemused, StoreMemused,
                        Goto, implVars, Shape
    <3> QED BY <3>1, Still DEF Dangles, Knows
  <2> QED BY <2>1, <2>2
<1>3. CASE DelFree(w)
  <2>1. pc[w] = "del_free"
    BY <1>3 DEF DelFree, FreeValue
  <2>2. data[local[w].victim] # Null => heap[data[local[w].victim]] # Free
    BY <1>0, <2>1 DEF MemoryOf, Dangles
  <2>3. UNCHANGED local /\ pc'[w] = "del_erase"
    BY <1>3, <2>2 DEF DelFree, FreeValue, Goto, Shape
  <2>4. /\ \A l : ~ Dangles(w, l)
        /\ \A l \in Keys : Dangles(w, l)' <=> l = local[w].victim
        /\ Knows(w)'
    BY <2>1, <2>3 DEF Dangles, Knows
  <2> QED BY <1>0, <1>3, <2>1, <2>4, FreeMemory DEF DelFree
<1>4. CASE DelErase(w)
  <2> DEFINE k == local[w].victim
  <2>1. /\ pc[w] \in {"del_erase", "del_miss"}
        /\ data' = [data EXCEPT ![k] = Null]
        /\ UNCHANGED <<heap, fault>>
        /\ pc'[w] \in {"set_loop", "returned"}
    BY <1>4 DEF DelErase, DelReturn, Return, Goto, Shape
  <2>2. k \in Keys /\ Freed(k) /\ \A l \in Keys \ {k} : ~ Dangles(w, l)
    BY <1>0, <2>1 DEF MemoryOf, Knows, Freed, Dangles
  <2>3. local'[w].op = local[w].op /\ local[w].op # "get"
    BY <1>0, <1>4, <2>1 DEF DelErase, DelReturn, Return, Types, LocalTypes
  <2>4. Knows(w)' /\ \A l \in Keys : ~ Dangles(w, l)'
    BY <2>1, <2>3 DEF Knows, Dangles
  <2>5. Injective' /\ Covered'
    BY <2>1, <2>2, NullNoKey DEF MemoryOf, Injective, Covered, Freed, Types
  <2>6. \A l \in Keys : data'[l] # Null => heap'[data'[l]] # Free
    BY <2>1, <2>2 DEF MemoryOf, Types
  <2> QED BY <2>1, <2>4, <2>5, <2>6 DEF MemoryOf
<1> QED BY <1>1, <1>2, <1>3, <1>4 DEF DelStep

\* What get returns is allocated, if it is anything.
LEMMA GetMemory ==
    ASSUME Types, Shape, NEW w \in Workers, MemoryOf(w), GetStep(w)
    PROVE  MemoryOf(w)' /\ fault' \in {fault, "segfault", "corrupted"}
<1>0. /\ pc[w] \in GetPCs => local[w].op = "get" /\ local[w].key \in Keys
      /\ local[w] \in LocalTypes
  BY Whose DEF Types, LocalTypes, Shape, InPlace, CallOps
<1> USE DEF GetPCs
<1>1. CASE GetLookup(w)
  <2>1. /\ UNCHANGED <<data, heap, local, fault>> /\ pc[w] = "get_lookup"
        /\ pc'[w] = IF data[local[w].key] = Null THEN "get_miss" ELSE "get_pushback"
    BY <1>1 DEF GetLookup, Goto, implVars, Shape
  <2>2. Knows(w)' /\ \A k \in Keys : Dangles(w, k)' <=> Dangles(w, k)
    BY <2>1 DEF Knows, Dangles
  <2> QED BY <2>1, <2>2, Still
<1>2. CASE GetPushback(w)
  <2>1. CASE Crash("segfault") \/ Crash("corrupted")
    BY <2>1, CrashMemory DEF Crash
  <2>2. CASE ~ Crash("segfault") /\ ~ Crash("corrupted")
    <3>1. /\ UNCHANGED <<data, heap, fault>>
          /\ pc[w] = "get_pushback" /\ pc'[w] = "get_read"
      BY <1>2, <2>2 DEF GetPushback, Goto, Shape
    <3> QED BY <3>1, Still DEF Dangles, Knows
  <2> QED BY <2>1, <2>2
<1>3. CASE GetRead(w)
  <2>1. /\ UNCHANGED <<data, heap, fault>> /\ pc[w] = "get_read" /\ pc'[w] = "returned"
        /\ local' = [local EXCEPT ![w].ret = data[local[w].key]]
    BY <1>3 DEF GetRead, Return, Goto, implVars, Shape
  <2>2. local'[w].ret = data[local[w].key] /\ local[w].key \in Keys
    BY <1>0, <2>1 DEF Types, LocalTypes
  <2>3. \A k : ~ Dangles(w, k) /\ ~ Dangles(w, k)'
    BY <2>1 DEF Dangles
  <2>4. Knows(w)'
    BY <2>1, <2>2, <2>3 DEF MemoryOf, Knows
  <2> QED BY <2>1, <2>3, <2>4, Still
<1>4. CASE GetErase(w)
  <2> DEFINE k == local[w].key
  <2>1. /\ UNCHANGED <<heap, fault>> /\ pc[w] = "get_miss" /\ pc'[w] = "returned"
        /\ local' = [local EXCEPT ![w].ret = Null]
        /\ data' = [data EXCEPT ![k] = Null]
    BY <1>4 DEF GetErase, Return, Goto, Shape
  <2>2. data[k] = Null /\ k \in Keys
    BY <1>0, <2>1 DEF MemoryOf, Knows
  <2>3. data' = data
    BY <2>1, <2>2 DEF Types
  <2>4. local'[w].ret = Null
    BY <1>0, <2>1 DEF Types, LocalTypes
  <2>5. Knows(w)' /\ \A l : ~ Dangles(w, l) /\ ~ Dangles(w, l)'
    BY <2>1, <2>4 DEF Knows, Dangles
  <2> QED BY <2>1, <2>3, <2>5, Still
<1> QED BY <1>1, <1>2, <1>3, <1>4 DEF GetStep

\* Other workers are where they were.
LEMMA OthersStay ==
    ASSUME Types, Shape, NEW w \in Workers,
           pc' = [pc EXCEPT ![w] = pc'[w]], local' = [local EXCEPT ![w] = local'[w]]
    PROVE  \A v \in Workers \ {w} :
              /\ pc'[v] = pc[v] /\ local'[v] = local[v]
              /\ InCall(v)' <=> InCall(v)
BY DEF Shape, Types, InCall

LEMMA CallMoves ==
    ASSUME Types, Shape, NEW w \in Workers, CallStep(w)
    PROVE  /\ pc' = [pc EXCEPT ![w] = pc'[w]]
           /\ local' = [local EXCEPT ![w] = local'[w]]
<1> USE DEF Types, Shape, Crash, Goto, Return
<1>1. CASE SetStep(w)
  BY <1>1 DEF SetStep, SetCheck, SetLookup, SetFree, SetRem, SetLoadLess, SetStoreLess, SetAlloc,
     SetLoadMore, SetStoreMore, SetEnqueue, SetLoop, SetHead, ListRem, FreeValue,
     LoadMemused, StoreMemused
<1>2. CASE DelStep(w)
  BY <1>2 DEF DelStep, DelLookup, DelRem, DelLoad, DelStore, DelFree, DelErase, DelReturn,
     ListRem, FreeValue, LoadMemused, StoreMemused
<1>3. CASE GetStep(w) \/ SpaceUsed(w)
  BY <1>3 DEF GetStep, GetLookup, GetPushback, GetRead, GetErase, SpaceUsed
<1> QED BY <1>1, <1>2, <1>3 DEF CallStep

\* A worker outside the cache.
LEMMA Bystander ==
    ASSUME Types, Shape, Types', Shape', Memory, NEW w \in Workers,
           ~ InCall(w), ~ InCall(w)', UNCHANGED <<data, heap>>,
           pc' = [pc EXCEPT ![w] = pc'[w]], local' = [local EXCEPT ![w] = local'[w]]
    PROVE  Memory'
<1>1. \A v \in Workers \ {w} :
         /\ pc'[v] = pc[v] /\ local'[v] = local[v] /\ (InCall(v)' <=> InCall(v))
  BY OthersStay
<1>2. \A v \in Workers \ {w} : (Knows(v)' <=> Knows(v)) /\ \A k : Dangles(v, k)' <=> Dangles(v, k)
  BY <1>1 DEF Knows, Dangles
<1>3. Knows(w)' /\ \A k : ~ Dangles(w, k) /\ ~ Dangles(w, k)'
  BY Outside, OutsideNext DEF OutIsClean
<1>4. Alone'
  BY <1>1 DEF Memory, Alone
<1>5. Injective' /\ Covered'
  BY DEF Memory, Injective, Covered
<1>6. Owns'
  <2>1. \A k \in Keys : Freed(k)' <=> Freed(k)
    BY DEF Freed
  <2> QED BY <1>2, <1>3, <2>1 DEF Memory, Owns
<1> QED BY <1>2, <1>3, <1>4, <1>5, <1>6 DEF Memory

\* A worker that enters or leaves the cache.
LEMMA Crosses ==
    ASSUME Types, Shape, Types', Shape', Memory, NEW w \in Workers,
           \A v \in Workers \ {w} : ~ InCall(v),
           \A k : ~ Dangles(w, k) /\ ~ Dangles(w, k)', Knows(w)',
           UNCHANGED <<data, heap>>,
           pc' = [pc EXCEPT ![w] = pc'[w]], local' = [local EXCEPT ![w] = local'[w]]
    PROVE  Memory'
<1>1. \A v \in Workers \ {w} : ~ InCall(v)'
  BY OthersStay
<1>2. \A v \in Workers \ {w} : \A k : ~ Dangles(v, k)
  BY Outside, OutsideNext DEF OutIsClean
<1>3. MemoryOf(w)'
  BY <1>2 DEF Memory, Owns, MemoryOf, Injective, Covered
<1> QED BY <1>1, <1>3, WorkerToMemoryNext DEF AtMostOne

LEMMA CallMemory ==
    ASSUME IInv, ~ overlapped, Types', Shape', NEW w \in Workers, Call(w)
    PROVE  Memory' /\ fault' \in {fault, "segfault", "corrupted"}
<1>1. /\ Types /\ Shape /\ Memory
      /\ pc' = [pc EXCEPT ![w] = pc'[w]] /\ local' = [local EXCEPT ![w] = local'[w]]
  BY CallMoves DEF IInv, Call
<1>2. CASE SetStep(w) \/ DelStep(w) \/ GetStep(w)
  <2>1. InCall(w)
    <3>1. pc[w] \in SetPCs \cup DelPCs \cup GetPCs
      BY <1>2 DEF SetStep, SetCheck, SetLookup, SetFree, SetRem, SetLoadLess, SetStoreLess,
         SetAlloc, SetLoadMore, SetStoreMore, SetEnqueue, SetLoop, SetHead, ListRem, FreeValue,
         LoadMemused, StoreMemused, DelStep, DelLookup, DelRem, DelLoad, DelStore, DelFree,
         DelErase, GetStep, GetLookup, GetPushback, GetRead, GetErase,
         Goto, Return, Crash, SetPCs, DelPCs, GetPCs
    <3> QED BY <1>1, <3>1, InCallPlaces
  <2>2. MemoryOf(w) /\ \A v \in Workers \ {w} : ~ InCall(v)
    BY <1>1, <2>1, MemoryToWorker
  <2>3. MemoryOf(w)' /\ fault' \in {fault, "segfault", "corrupted"}
    BY <1>1, <1>2, <2>2, SetMemory, DelMemory, GetMemory
  <2>4. \A v \in Workers \ {w} : ~ InCall(v)'
    BY <1>1, <2>2, OthersStay
  <2> QED BY <2>3, <2>4, WorkerToMemoryNext DEF AtMostOne
<1>3. CASE SpaceUsed(w)
  <2>1. /\ pc[w] = "space_used" /\ UNCHANGED <<data, heap, fault>>
        /\ local'[w].op = local[w].op
    BY <1>1, <1>3 DEF SpaceUsed, Return, Goto, implVars, Types, LocalTypes
  <2>2. ~ InCall(w) /\ ~ InCall(w)'
    BY <1>1, <2>1, Whose DEF InCall
  <2> QED BY <1>1, <2>1, <2>2, Bystander
<1> QED BY <1>2, <1>3 DEF Call, CallStep

LEMMA ReceiveMemory ==
    ASSUME IInv, ~ overlapped, Types', Shape', NEW w \in Workers, Receive(w), ~ overlapped'
    PROVE  Memory' /\ fault' = fault
<1>1. PICK req \in Requests :
         /\ pc[w] = "ready" /\ pc' = [pc EXCEPT ![w] = Entry(req.op)]
         /\ local' = [local EXCEPT ![w] = Locals(req)]
         /\ overlapped' = (overlapped \/ ( /\ req.op \in {"put", "get", "delete"}
                                           /\ \E v \in Workers : InCall(v) ))
  BY DEF Receive, Goto
<1>2. Types /\ Shape /\ Memory /\ UNCHANGED <<data, heap, fault>>
  BY DEF IInv, Receive, implVars
<1>3. /\ local'[w] = Locals(req) /\ pc'[w] = Entry(req.op) /\ ~ InCall(w)
      /\ pc' = [pc EXCEPT ![w] = pc'[w]] /\ local' = [local EXCEPT ![w] = local'[w]]
  BY <1>1, <1>2 DEF Types, Shape, InCall
<1>4. local'[w].op = req.op
  BY <1>3 DEF Locals
<1>5. CASE req.op \in CallOps
  <2>1. \A v \in Workers : ~ InCall(v)
    BY <1>1, <1>5, Zenon DEF CallOps
  <2>2. pc'[w] \in {"set_check", "get_lookup", "del_lookup"}
    BY <1>3, <1>5 DEF Entry, CallOps
  <2>3. Knows(w)' /\ \A k : ~ Dangles(w, k)'
    BY <2>2 DEF Knows, Dangles
  <2>4. \A k : ~ Dangles(w, k)
    BY <1>2, <1>3, Outside, OutsideNext DEF OutIsClean
  <2> QED BY <1>2, <1>3, <2>1, <2>3, <2>4, Crosses
<1>6. CASE req.op \notin CallOps
  <2>1. ~ InCall(w)'
    BY <1>4, <1>6 DEF InCall, CallOps
  <2> QED BY <1>2, <1>3, <2>1, Bystander
<1> QED BY <1>5, <1>6

\* ... and by sending its answer a worker gives up what it got from the cache.
LEMMA LeaveMemory ==
    ASSUME IInv, ~ overlapped, Types', Shape', NEW w \in Workers,
           \/ /\ pc[w] = "returned" /\ pc' = [pc EXCEPT ![w] = "ready"]
              /\ local' = [local EXCEPT ![w] = Locals(NoRequest)]
           \/ pc[w] = "stopping" /\ pc' = [pc EXCEPT ![w] = "returned"] /\ UNCHANGED local
           \/ pc[w] = "ready" /\ pc' = [pc EXCEPT ![w] = "exited"] /\ UNCHANGED local,
           UNCHANGED <<data, heap>>
    PROVE  Memory'
<1>1. Types /\ Shape /\ Memory
  BY DEF IInv
<1>2. pc' = [pc EXCEPT ![w] = pc'[w]] /\ local' = [local EXCEPT ![w] = local'[w]]
  BY <1>1 DEF Types, Shape
<1>3. ~ InCall(w)'
  <2>1. pc'[w] \in {"ready", "exited"} \/ local'[w].op = "shutdown"
    BY <1>1, Whose DEF Types, Shape
  <2> QED BY <2>1 DEF InCall
<1>4. CASE InCall(w)
  <2>1. pc[w] = "returned"
    BY <1>1, <1>4, Whose DEF InCall
  <2>2. \A k : ~ Dangles(w, k) /\ ~ Dangles(w, k)'
    BY <1>3, <2>1, Outside, OutsideNext DEF OutIsClean, Dangles
  <2>3. Knows(w)'
    BY <1>3, Outside, OutsideNext DEF OutIsClean
  <2>4. \A v \in Workers \ {w} : ~ InCall(v)
    BY <1>1, <1>4, MemoryToWorker
  <2> QED BY <1>1, <1>2, <2>2, <2>3, <2>4, Crosses
<1>5. CASE ~ InCall(w)
  BY <1>1, <1>2, <1>3, <1>5, Bystander
<1> QED BY <1>4, <1>5

\* A GET whose value is still allocated is answered with it.
LEMMA ReturnedIsLive ==
    ASSUME IInv, ~ overlapped, NEW w \in Workers,
           AnswerGet(w)
    PROVE  \E status, body : Answer(w, status, body)
<1>1. CASE local[w].ret # Null /\ heap[local[w].ret] = Free /\ pc[w] = "returned"
  <2>1. Knows(w) /\ local[w].op = "get"
    BY DEF IInv, Memory, AnswerGet
  <2> QED BY <1>1, <2>1 DEF Knows
<1>2. CASE ~ (local[w].ret # Null /\ heap[local[w].ret] = Free /\ pc[w] = "returned")
  <2>1. Answer(w, 200, Null) \/ Answer(w, 200, heap[local[w].ret])
    BY <1>2 DEF AnswerGet
  <2> QED BY <2>1
<1> QED BY <1>1, <1>2

LEMMA HandleMemory ==
    ASSUME IInv, ~ overlapped, Types', Shape', NEW w \in Workers, Handle(w) \/ Exit(w)
    PROVE  Memory' /\ fault' \in {fault, "segfault", "corrupted"}
<1>1. CASE Call(w)
  BY <1>1, CallMemory
<1>2. CASE \E status, body : Answer(w, status, body)
  BY <1>2, LeaveMemory DEF Answer, Goto, implVars
<1>3. CASE Shutdown(w)
  BY <1>3, LeaveMemory DEF Shutdown, Goto, implVars
<1>4. CASE Exit(w)
  BY <1>4, LeaveMemory DEF Exit, Goto, implVars
<1>5. CASE AnswerGet(w)
  BY <1>2, <1>5, ReturnedIsLive
<1> QED BY <1>1, <1>2, <1>3, <1>4, <1>5
        DEF Handle, AnswerPut, AnswerDelete, AnswerMemsize, AnswerHead, AnswerShutdown

\* The destructor frees the values that are left, each once.
LEMMA MainMemory ==
    ASSUME IInv, ~ overlapped, Types', Shape', Signal \/ Main
    PROVE  Memory' /\ fault' \in {fault, "segfault"}
<1>1. Types /\ Shape /\ Memory /\ UNCHANGED <<pc, local>>
  BY DEF IInv, Signal, Main, Destroy, FreeEntry, MainExit
<1>2. CASE Signal \/ Destroy \/ MainExit
  <2>1. UNCHANGED <<data, heap, fault>>
    BY <1>2 DEF Signal, Destroy, MainExit, implVars
  <2> QED BY <1>1, <2>1 DEF Memory, Alone, InCall, Injective, Covered, Owns, Knows, Dangles, Freed
<1>3. ASSUME NEW k \in Keys, FreeEntry(k) PROVE Memory' /\ fault' \in {fault, "segfault"}
  <2>1. \A w \in Workers : ~ InCall(w)
    BY <1>3 DEF IInv, AllOut, FreeEntry, InCall
  <2>2. \A w \in Workers : ~ InCall(w)'
    BY <1>1, <2>1 DEF InCall
  <2>3. \A w \in Workers : Knows(w)' /\ \A l : ~ Dangles(w, l) /\ ~ Dangles(w, l)'
    BY <1>1, <2>1, <2>2, Outside, OutsideNext DEF OutIsClean
  <2>4. \A l \in Keys : data[l] # Null => heap[data[l]] # Free
    BY <1>1, <2>3 DEF Memory, Owns
  <2>5. CASE UNCHANGED implVars /\ fault' = "segfault"
    <3>1. Injective' /\ Covered' /\ \A l \in Keys : data'[l] # Null => heap'[data'[l]] # Free
      BY <1>1, <2>4, <2>5 DEF Memory, Injective, Covered, implVars
    <3> QED BY <2>2, <2>3, <2>5, <3>1 DEF Memory, Alone, Owns
  <2>6. CASE /\ heap' = [heap EXCEPT ![data[k]] = Free] /\ data' = [data EXCEPT ![k] = Null]
             /\ fault' = fault
    <3>1. data[k] # Null
      BY <1>3 DEF FreeEntry
    <3>2. Injective'
      BY <1>1, <2>6, <3>1 DEF Memory, Injective, Types
    <3>4. Covered'
      <4>1. ASSUME NEW b \in Buffers, heap'[b] # Free PROVE \E l \in Keys : data'[l] = b
        <5>1. heap[b] # Free /\ data[k] # b
          BY <1>1, <2>6, <4>1 DEF Types
        <5>2. PICK l \in Keys : data[l] = b
          BY <1>1, <5>1 DEF Memory, Covered
        <5> QED BY <1>1, <2>6, <5>1, <5>2 DEF Types
      <4> QED BY <4>1 DEF Covered
    <3>3. \A l \in Keys : data'[l] # Null => heap'[data'[l]] # Free
      BY <1>1, <2>4, <2>6, <3>1 DEF Memory, Injective, Types
    <3> QED BY <2>2, <2>3, <2>6, <3>2, <3>3, <3>4 DEF Memory, Alone, Owns
  <2> QED BY <1>3, <2>4, <2>5, <2>6 DEF FreeEntry
<1> QED BY <1>2, <1>3 DEF Main

-----------------------------------------------------------------------------
(* The theorems. *)

LEMMA InitIInv == Init => IInv
<1> SUFFICES ASSUME Init PROVE IInv
  OBVIOUS
<1> USE DEF Init
<1>1. Locals(NoRequest) \in LocalTypes /\ Locals(NoRequest).op = "none"
  BY SIntSized DEF Locals, LocalTypes, NoRequest, Ops
<1>2. <<>> \in Seq(Nodes)
  OBVIOUS
<1>3. Types
  BY <1>1, <1>2, SIntSized DEF Types, Faults
<1>4. \A w \in Workers : InPlace(w)
  BY <1>1, PlacesOf DEF InPlace, CallOps
<1>5. Shape /\ AllOut
  BY <1>4 DEF Shape, AllPlaces, AllOut
<1>6. \A w \in Workers : ~ InCall(w) /\ Knows(w) /\ \A k : ~ Dangles(w, k)
  BY DEF InCall, Knows, Dangles
<1>7. Memory
  BY <1>6 DEF Memory, Alone, Injective, Covered, Owns
<1> QED BY <1>3, <1>5, <1>7 DEF IInv, FaultsNeedOverlap

LEMMA NextTypes == IInv /\ [Next]_vars => Types' /\ Shape' /\ AllOut'
<1> SUFFICES ASSUME IInv, [Next]_vars PROVE Types' /\ Shape' /\ AllOut'
  OBVIOUS
<1>0. Types /\ Shape /\ AllOut
  BY DEF IInv
<1>1. CASE UNCHANGED vars
  BY <1>0, <1>1 DEF vars, implVars, serverVars, Types, Shape, InPlace, AllOut
<1>2. ASSUME NEW w \in Workers, Receive(w) \/ Handle(w) \/ Exit(w)
      PROVE  Types' /\ Shape' /\ AllOut'
  <2>1. Types' /\ Shape'
    BY <1>0, <1>2, ReceiveTypes, HandleTypes
  <2>2. pc[w] # "exited"
    BY <1>2 DEF Receive, Handle, Exit, Call, CallStep, SetStep, SetCheck, SetLookup, SetFree,
       SetRem, SetLoadLess, SetStoreLess, SetAlloc, SetLoadMore, SetStoreMore, SetEnqueue,
       SetLoop, SetHead, DelStep, DelLookup, DelRem, DelLoad, DelStore, DelFree, DelErase,
       GetStep, GetLookup, GetPushback, GetRead, GetErase, SpaceUsed,
       ListRem, FreeValue, LoadMemused, StoreMemused, Goto, Return,
       AnswerPut, AnswerDelete, AnswerGet, AnswerMemsize, AnswerHead, AnswerShutdown, Answer,
       Shutdown
  <2>3. main = "serving"
    BY <1>0, <2>2 DEF AllOut
  <2>4. main' = main
    BY <1>2 DEF Receive, Handle, Exit, Call, AnswerPut, AnswerDelete, AnswerGet, AnswerMemsize,
       AnswerHead, AnswerShutdown, Answer, Shutdown, serverVars
  <2> QED BY <2>1, <2>3, <2>4 DEF AllOut
<1>3. CASE Signal \/ Main
  <2>1. Types' /\ Shape'
    BY <1>0, <1>3, MainTypes
  <2>2. AllOut'
    BY <1>0, <1>3 DEF AllOut, Signal, Main, Destroy, FreeEntry, MainExit, serverVars
  <2> QED BY <2>1, <2>2
<1> QED BY <1>1, <1>2, <1>3 DEF Next

LEMMA NextIInv == IInv /\ [Next]_vars => IInv'
<1> SUFFICES ASSUME IInv, [Next]_vars PROVE IInv'
  OBVIOUS
<1>0. Types' /\ Shape' /\ AllOut'
  BY NextTypes
<1>1. CASE UNCHANGED vars
  <2>1. UNCHANGED <<data, heap, pc, local, fault, overlapped>>
    BY <1>1 DEF vars, implVars
  <2>2. overlapped' \/ Memory'
    BY <2>1 DEF IInv, Memory, Alone, InCall, Injective, Covered, Owns, Knows, Dangles, Freed
  <2>3. FaultsNeedOverlap'
    BY <2>1 DEF IInv, FaultsNeedOverlap
  <2> QED BY <1>0, <2>2, <2>3 DEF IInv
<1>2. CASE fault = "none" /\ ~ overlapped'
  <2>1. ~ overlapped
    BY <1>1, <1>2 DEF Next, Receive, Handle, Exit, Call, AnswerPut, AnswerDelete, AnswerGet,
       AnswerMemsize, AnswerHead, AnswerShutdown, Answer, Shutdown, Signal, Main, Destroy,
       FreeEntry, MainExit, vars
  <2>2. Memory' /\ fault' \in {fault, "segfault", "corrupted"}
    <3>1. CASE \E w \in Workers : Receive(w)
      BY <1>0, <1>2, <2>1, <3>1, ReceiveMemory
    <3>2. CASE \E w \in Workers : Handle(w) \/ Exit(w)
      BY <1>0, <2>1, <3>2, HandleMemory
    <3>3. CASE Signal \/ Main
      BY <1>0, <2>1, <3>3, MainMemory
    <3>4. CASE UNCHANGED vars
      BY <2>1, <3>4, <1>2 DEF IInv, Memory, Alone, InCall, Injective, Covered, Owns, Knows,
         Dangles, Freed, vars, implVars
    <3> QED BY <3>1, <3>2, <3>3, <3>4 DEF Next
  <2>3. FaultsNeedOverlap'
    BY <1>2, <2>2 DEF FaultsNeedOverlap
  <2> QED BY <1>0, <2>2, <2>3 DEF IInv
<1>3. CASE overlapped'
  BY <1>0, <1>3 DEF IInv, FaultsNeedOverlap
<1> QED BY <1>1, <1>2, <1>3 DEF Next

\* The types, the workers' places and, until two calls overlap, who owns what
\* memory are an inductive invariant of the server.
THEOREM Invariance == Spec => []IInv
BY InitIInv, NextIInv, PTL DEF Spec

\* Without overlapping calls no value is freed twice, in a handler, in the
\* eviction loop or in the destructor, and the handler of GET streams a value
\* that is allocated.
THEOREM FaultsNeedOverlapHolds == Spec => []FaultsNeedOverlap
<1>1. IInv => FaultsNeedOverlap
  BY DEF IInv
<1> QED BY <1>1, Invariance, PTL

\* While no two calls overlapped, a value nothing points to is never allocated:
\* between calls every buffer is some key's.
THEOREM NoLeakHolds == Spec => []NoLeak
<1>1. IInv => NoLeak
  BY DEF IInv, NoLeak, Memory, Covered
<1> QED BY <1>1, Invariance, PTL

-----------------------------------------------------------------------------
(* What module Cache does with one call after the other.                     *)

\* AtomicCache's copies of the operators on numbers and chains are the same.
LEMMA SameInts ==
    /\ \A a : AtomicCache!AsInt(a) = AsInt(a) /\ AtomicCache!AsUInt(a) = AsUInt(a)
    /\ \A a, b : AtomicCache!PlusU(a, b) = PlusU(a, b) /\ AtomicCache!MinusU(a, b) = MinusU(a, b)
BY DEF AtomicCache!AsInt, AsInt, AtomicCache!AsUInt, AsUInt, AtomicCache!PlusU, PlusU,
       AtomicCache!MinusU, MinusU

LEMMA SameWalk == ASSUME NEW q, NEW k PROVE AtomicCache!WalkTo(q, k) = WalkTo(q, k)
BY DEF AtomicCache!WalkTo, WalkTo, AtomicCache!SelectInSeq, SelectInSeq, AtomicCache!Min, Min

LEMMA SameRemoveAt == ASSUME NEW q, NEW i PROVE AtomicCache!RemoveAt(q, i) = RemoveAt(q, i)
BY DEF AtomicCache!RemoveAt, RemoveAt

LEMMA SameChains == ASSUME NEW q, NEW k PROVE
    /\ AtomicCache!Rem(q, k) = Rem(q, k)
    /\ AtomicCache!SizeIn(q, k) = SizeIn(q, k)
    /\ AtomicCache!PrevUnset(q, k) <=> PrevUnset(q, k)
    /\ AtomicCache!Pushback(q, k) = Pushback(q, k)
    /\ AtomicCache!CutOff(q, k) = CutOff(q, k)
    /\ \A s : AtomicCache!Enqueue(q, k, s) = Enqueue(q, k, s)
<1>1. (AtomicCache!PrevUnset(q, k) <=> PrevUnset(q, k))
  BY SameWalk DEF AtomicCache!PrevUnset, PrevUnset
<1>2. AtomicCache!Rem(q, k) = Rem(q, k) /\ AtomicCache!SizeIn(q, k) = SizeIn(q, k)
  BY SameWalk, SameRemoveAt DEF AtomicCache!Rem, Rem, AtomicCache!SizeIn, SizeIn
<1>3. AtomicCache!Pushback(q, k) = Pushback(q, k)
  BY <1>1, SameWalk, SameRemoveAt DEF AtomicCache!Pushback, Pushback
<1>4. AtomicCache!CutOff(q, k) = CutOff(q, k)
  BY <1>1 DEF AtomicCache!CutOff, CutOff
<1>5. \A s : AtomicCache!Enqueue(q, k, s) = Enqueue(q, k, s)
  BY SameInts DEF AtomicCache!Enqueue, Enqueue
<1> QED BY <1>1, <1>2, <1>3, <1>4, <1>5

(***************************************************************************)
(* How the state of the program follows from the serial cache, which takes *)
(* each call in one or a few steps, when worker w alone is in a call: the  *)
(* map, the chain, the nodes cut off, the counter and the locals of w,     *)
(* each by the statement w is at.                                          *)
(***************************************************************************)
Value(k) == IF data[k] = Null THEN Null ELSE heap[data[k]]

\* The queue and the counter once set has taken out the value it overwrites.
Cleared(w) ==
    IF serial.data[local[w].key] = Null THEN serial.queue ELSE Rem(serial.queue, local[w].key)
Uncharged(w) ==
    IF serial.data[local[w].key] = Null THEN serial.memused
    ELSE MinusU(serial.memused, AsUInt(SizeIn(serial.queue, local[w].key)))

Storing == {"set_alloc", "set_load_more", "set_store_more", "set_enqueue"}
Stored == {"set_load_more", "set_store_more", "set_enqueue"}
Unlinked == {"del_load", "del_store", "del_free", "del_erase"}

MapFollows(w) ==
    /\ \A k \in Keys : \/ Value(k) = serial.data[k]
                       \/ Dangles(w, k)
                       \/ pc[w] \in Stored /\ k = local[w].key
    /\ pc[w] \in Stored => Value(local[w].key) = local[w].val

QueueFollows(w) ==
    queue =
      CASE pc[w] \in {"set_load_less", "set_store_less"} -> Rem(serial.queue, local[w].key)
        [] pc[w] \in Storing -> Cleared(w)
        [] pc[w] \in Unlinked -> Rem(serial.queue, local[w].victim)
        [] pc[w] = "get_read" -> Pushback(serial.queue, local[w].key)
        [] OTHER -> serial.queue

OrphansFollow(w) ==
    orphans = IF pc[w] = "get_read" THEN serial.orphans \o CutOff(serial.queue, local[w].key)
              ELSE serial.orphans

CounterFollows(w) ==
    memused =
      CASE pc[w] \in {"set_alloc", "set_load_more", "set_store_more"} -> Uncharged(w)
        [] pc[w] = "set_enqueue" -> PlusU(Uncharged(w), SizeOf[local[w].val])
        [] pc[w] \in {"del_free", "del_erase"} ->
              MinusU(serial.memused, AsUInt(SizeIn(serial.queue, local[w].victim)))
        [] OTHER -> serial.memused

\* What the local variables of the worker hold.
LocalsFollow(w) ==
    /\ pc[w] \in {"set_load_less", "set_store_less"} =>
          local[w].sz = SizeIn(serial.queue, local[w].key)
    /\ pc[w] = "get_read" =>
          local[w].sz = SizeIn(serial.queue, local[w].key)
    /\ pc[w] \in {"del_load", "del_store"} =>
          local[w].sz = SizeIn(serial.queue, local[w].victim)
    /\ pc[w] \in {"set_store_less", "del_store"} => local[w].used = serial.memused
    /\ pc[w] = "set_store_more" => local[w].used = Uncharged(w)
    /\ local[w].op = "put" /\ pc[w] # "returned" => local[w].ret = Null

\* The tests the worker has passed.
Tested(w) ==
    /\ pc[w] \in {"set_lookup", "set_free", "set_rem", "set_load_less", "set_store_less"} \cup Storing
          => SizeOf[local[w].val] <= MaxMem
    /\ pc[w] \in {"set_free", "set_rem", "set_load_less", "set_store_less",
                  "get_pushback", "get_read"} => serial.data[local[w].key] # Null
    /\ pc[w] \in Storing /\ serial.data[local[w].key] # Null => serial.queue # <<>>
    /\ pc[w] \in {"set_load_less", "set_store_less", "get_read"} \cup Unlinked => serial.queue # <<>>
    /\ pc[w] \in {"del_miss"} => serial.data[local[w].victim] = Null
    /\ pc[w] \in {"get_miss"} => serial.data[local[w].key] = Null
    /\ pc[w] \in {"del_rem"} \cup Unlinked => serial.data[local[w].victim] # Null
    /\ pc[w] = "set_head" => serial.memused > MaxMem
    /\ local[w].op = "put" /\ pc[w] \in DelPCs =>
          /\ serial.memused > MaxMem /\ serial.queue # <<>>
          /\ local[w].victim = Head(serial.queue).key

Evicting(w) == local[w].op = "put" /\ pc[w] \in {"set_loop", "set_head"} \cup DelPCs

PlaceFollows(w) ==
    /\ serial.pc = IF Evicting(w) THEN "evicting" ELSE "idle"
    /\ Evicting(w) => serial.call = [op |-> "set", key |-> local[w].key, val |-> local[w].val, num |-> 0]

Follows(w) ==
    /\ MapFollows(w) /\ QueueFollows(w) /\ OrphansFollow(w) /\ CounterFollows(w)
    /\ LocalsFollow(w) /\ Tested(w) /\ PlaceFollows(w)

\* Between calls the two agree.
Rests ==
    /\ \A k \in Keys : Value(k) = serial.data[k]
    /\ queue = serial.queue /\ orphans = serial.orphans /\ memused = serial.memused
    /\ serial.pc = CASE main = "serving" -> "idle"
                     [] main = "destroying" -> "destroying"
                     [] OTHER -> "destroyed"

Agree ==
    ~ overlapped /\ fault = "none" =>
        /\ \A w \in Workers : InCall(w) => Follows(w)
        /\ (\A w \in Workers : ~ InCall(w)) => Rests

SerialTypes ==
    /\ serial = At(serial, serial.pc, serial.call)
    /\ serial.data \in [Keys -> Payloads \cup {Null}]
    /\ serial.queue \in Seq(Nodes)
    /\ serial.orphans \in Seq(Nodes)
    /\ serial.memused \in UInt

\* Worker w is alone in the cache, which the serial one follows.
Sole(w) ==
    /\ IInv /\ ~ overlapped /\ fault = "none" /\ SerialTypes
    /\ InCall(w) /\ Follows(w)

LEMMA SoleFacts ==
    ASSUME NEW w \in Workers, Sole(w)
    PROVE  /\ Types /\ Shape /\ MemoryOf(w) /\ SerialTypes
           /\ \A v \in Workers \ {w} : ~ InCall(v)
           /\ local[w] \in LocalTypes /\ local[w].key \in Keys /\ local[w].victim \in Keys
           /\ pc[w] \in SetPCs => local[w].op = "put" /\ local[w].val \in Payloads
           /\ pc[w] \in DelPCs => local[w].op \in {"put", "delete"}
           /\ pc[w] \in GetPCs => local[w].op = "get"
           /\ \A k \in Keys : ~ Dangles(w, k) => (data[k] = Null <=> Value(k) = Null)
<1>1. Types /\ Shape /\ Memory /\ SerialTypes /\ InCall(w)
  BY DEF Sole, IInv
<1>2. MemoryOf(w) /\ \A v \in Workers \ {w} : ~ InCall(v)
  BY <1>1, MemoryToWorker
<1>3. /\ local[w] \in LocalTypes
      /\ pc[w] \in SetPCs => local[w].op = "put"
      /\ pc[w] \in DelPCs => local[w].op \in {"put", "delete"}
      /\ pc[w] \in GetPCs => local[w].op = "get"
      /\ local[w].op \in CallOps
  BY <1>1, Whose, InCallPlaces DEF Types
<1>4. /\ local[w].key \in Keys /\ local[w].victim \in Keys
      /\ pc[w] \in SetPCs => local[w].val \in Payloads
  BY <1>1, <1>3 DEF Shape, InPlace
<1>5. ASSUME NEW k \in Keys, ~ Dangles(w, k) PROVE data[k] = Null <=> Value(k) = Null
  <2>1. data[k] # Null => heap[data[k]] # Free /\ data[k] \in Buffers
    BY <1>1, <1>2, <1>5 DEF MemoryOf, Types
  <2>2. data[k] # Null => heap[data[k]] \in Payloads
    BY <1>1, <2>1 DEF Types
  <2> QED BY <2>2, NullNoKey DEF Value
<1> QED BY <1>1, <1>2, <1>3, <1>4, <1>5

LEMMA InnerFollow ==
    ASSUME NEW w \in Workers, ~ overlapped, Follow(w),
           fault' = "none", pc'[w] \notin {"set_loop", "returned"}
    PROVE  serial' = serial
BY DEF Follow

LEMMA SetLookupInner ==
    ASSUME NEW w \in Workers, Sole(w), SetLookup(w), Follow(w)
    PROVE  Follows(w)' /\ serial' = serial
<1> USE DEF Follows, MapFollows, Dangles, Stored, Value, implVars, QueueFollows,
       OrphansFollow, Storing, Unlinked, Cleared, CounterFollows, Uncharged, LocalsFollow,
       Tested, PlaceFollows, Evicting, SetPCs, DelPCs, GetPCs
<1>0. Follows(w) /\ SerialTypes /\ local \in [Workers -> LocalTypes] /\ Types
  BY SoleFacts DEF Sole, Types
<1>1. /\ pc[w] = "set_lookup"
      /\ UNCHANGED <<data, heap, queue, orphans, memused, local, fault>>
      /\ pc'[w] = IF data[local[w].key] = Null THEN "set_alloc" ELSE "set_free"
  BY SoleFacts DEF SetLookup, Goto, Shape, Types
<1>2. serial' = serial
  BY <1>1, InnerFollow DEF Sole
<1>4. data[local[w].key] = Null <=> serial.data[local[w].key] = Null
  BY <1>0, <1>1, SoleFacts
<1>3. Follows(w)'
  BY <1>0, <1>1, <1>2, SoleFacts, <1>4
<1> QED BY <1>2, <1>3

LEMMA SetFreeInner ==
    ASSUME NEW w \in Workers, Sole(w), SetFree(w), Follow(w)
    PROVE  Follows(w)' /\ serial' = serial
<1> USE DEF Follows, MapFollows, Dangles, Stored, Value, implVars, QueueFollows,
       OrphansFollow, Storing, Unlinked, Cleared, CounterFollows, Uncharged, LocalsFollow,
       Tested, PlaceFollows, Evicting, SetPCs, DelPCs, GetPCs
<1>0. Follows(w) /\ SerialTypes /\ local \in [Workers -> LocalTypes] /\ Types
  BY SoleFacts DEF Sole, Types
<1>1. /\ pc[w] = "set_free" /\ pc'[w] = "set_rem"
      /\ UNCHANGED <<data, queue, orphans, memused, local, fault>>
      /\ heap' = IF data[local[w].key] = Null THEN heap ELSE [heap EXCEPT ![data[local[w].key]] = Free]
  BY SoleFacts DEF SetFree, FreeValue, Goto, Shape, MemoryOf, Dangles
<1>2. serial' = serial
  BY <1>1, InnerFollow DEF Sole
<1>4. MemoryOf(w) /\ local[w].key \in Keys /\ heap \in [Buffers -> Payloads \cup {Free}]
      /\ data \in [Keys -> Buffers \cup {Null}]
  BY SoleFacts DEF Types
<1>5. ASSUME NEW l \in Keys \ {local[w].key} PROVE Value(l)' = Value(l)
  BY <1>1, <1>4 DEF MemoryOf, Injective
<1>3. Follows(w)'
  BY <1>0, <1>1, <1>2, SoleFacts, <1>5
<1> QED BY <1>2, <1>3

LEMMA SetRemInner ==
    ASSUME NEW w \in Workers, Sole(w), SetRem(w), Follow(w), fault' = "none"
    PROVE  Follows(w)' /\ serial' = serial
<1> USE DEF Follows, MapFollows, Dangles, Stored, Value, implVars, QueueFollows,
       OrphansFollow, Storing, Unlinked, Cleared, CounterFollows, Uncharged, LocalsFollow,
       Tested, PlaceFollows, Evicting, SetPCs, DelPCs, GetPCs
<1>0. Follows(w) /\ SerialTypes /\ local \in [Workers -> LocalTypes] /\ Types
  BY SoleFacts DEF Sole, Types
<1>1. /\ pc[w] = "set_rem" /\ pc'[w] = "set_load_less" /\ queue # <<>>
      /\ UNCHANGED <<data, heap, orphans, memused, fault>>
      /\ queue' = Rem(queue, local[w].key)
      /\ local'[w] = [local[w] EXCEPT !.sz = SizeIn(queue, local[w].key)]
  BY SoleFacts DEF SetRem, ListRem, Goto, Shape, Crash, Types
<1>2. serial' = serial
  BY <1>1, InnerFollow DEF Sole
<1>3. Follows(w)'
  BY <1>0, <1>1, <1>2, SoleFacts DEF LocalTypes
<1> QED BY <1>2, <1>3

LEMMA SetLoadLessInner ==
    ASSUME NEW w \in Workers, Sole(w), SetLoadLess(w), Follow(w)
    PROVE  Follows(w)' /\ serial' = serial
<1> USE DEF Follows, MapFollows, Dangles, Stored, Value, implVars, QueueFollows,
       OrphansFollow, Storing, Unlinked, Cleared, CounterFollows, Uncharged, LocalsFollow,
       Tested, PlaceFollows, Evicting, SetPCs, DelPCs, GetPCs
<1>0. Follows(w) /\ SerialTypes /\ local \in [Workers -> LocalTypes] /\ Types
  BY SoleFacts DEF Sole, Types
<1>1. /\ pc[w] = "set_load_less" /\ pc'[w] = "set_store_less"
      /\ UNCHANGED <<data, heap, queue, orphans, memused, fault>>
      /\ local'[w] = [local[w] EXCEPT !.used = memused]
  BY SoleFacts DEF SetLoadLess, LoadMemused, Goto, Shape, Types
<1>2. serial' = serial
  BY <1>1, InnerFollow DEF Sole
<1>3. Follows(w)'
  BY <1>0, <1>1, <1>2, SoleFacts DEF LocalTypes
<1> QED BY <1>2, <1>3

LEMMA SetStoreLessInner ==
    ASSUME NEW w \in Workers, Sole(w), SetStoreLess(w), Follow(w)
    PROVE  Follows(w)' /\ serial' = serial
<1> USE DEF Follows, MapFollows, Dangles, Stored, Value, implVars, QueueFollows,
       OrphansFollow, Storing, Unlinked, Cleared, CounterFollows, Uncharged, LocalsFollow,
       Tested, PlaceFollows, Evicting, SetPCs, DelPCs, GetPCs
<1>0. Follows(w) /\ SerialTypes /\ local \in [Workers -> LocalTypes] /\ Types
  BY SoleFacts DEF Sole, Types
<1>1. /\ pc[w] = "set_store_less" /\ pc'[w] = "set_alloc"
      /\ UNCHANGED <<data, heap, queue, orphans, local, fault>>
      /\ memused' = MinusU(local[w].used, AsUInt(local[w].sz))
  BY SoleFacts DEF SetStoreLess, StoreMemused, Goto, Shape, Types
<1>2. serial' = serial
  BY <1>1, InnerFollow DEF Sole
<1>3. Follows(w)'
  BY <1>0, <1>1, <1>2, SoleFacts
<1> QED BY <1>2, <1>3

LEMMA SetLoadMoreInner ==
    ASSUME NEW w \in Workers, Sole(w), SetLoadMore(w), Follow(w)
    PROVE  Follows(w)' /\ serial' = serial
<1> USE DEF Follows, MapFollows, Dangles, Stored, Value, implVars, QueueFollows,
       OrphansFollow, Storing, Unlinked, Cleared, CounterFollows, Uncharged, LocalsFollow,
       Tested, PlaceFollows, Evicting, SetPCs, DelPCs, GetPCs
<1>0. Follows(w) /\ SerialTypes /\ local \in [Workers -> LocalTypes] /\ Types
  BY SoleFacts DEF Sole, Types
<1>1. /\ pc[w] = "set_load_more" /\ pc'[w] = "set_store_more"
      /\ UNCHANGED <<data, heap, queue, orphans, memused, fault>>
      /\ local'[w] = [local[w] EXCEPT !.used = memused]
  BY SoleFacts DEF SetLoadMore, LoadMemused, Goto, Shape, Types
<1>2. serial' = serial
  BY <1>1, InnerFollow DEF Sole
<1>3. Follows(w)'
  BY <1>0, <1>1, <1>2, SoleFacts DEF LocalTypes
<1> QED BY <1>2, <1>3

LEMMA SetStoreMoreInner ==
    ASSUME NEW w \in Workers, Sole(w), SetStoreMore(w), Follow(w)
    PROVE  Follows(w)' /\ serial' = serial
<1> USE DEF Follows, MapFollows, Dangles, Stored, Value, implVars, QueueFollows,
       OrphansFollow, Storing, Unlinked, Cleared, CounterFollows, Uncharged, LocalsFollow,
       Tested, PlaceFollows, Evicting, SetPCs, DelPCs, GetPCs
<1>0. Follows(w) /\ SerialTypes /\ local \in [Workers -> LocalTypes] /\ Types
  BY SoleFacts DEF Sole, Types
<1>1. /\ pc[w] = "set_store_more" /\ pc'[w] = "set_enqueue"
      /\ UNCHANGED <<data, heap, queue, orphans, local, fault>>
      /\ memused' = PlusU(local[w].used, SizeOf[local[w].val])
  BY SoleFacts DEF SetStoreMore, StoreMemused, Goto, Shape, Types
<1>2. serial' = serial
  BY <1>1, InnerFollow DEF Sole
<1>3. Follows(w)'
  BY <1>0, <1>1, <1>2, SoleFacts
<1> QED BY <1>2, <1>3

LEMMA SetHeadInner ==
    ASSUME NEW w \in Workers, Sole(w), SetHead(w), Follow(w), fault' = "none"
    PROVE  Follows(w)' /\ serial' = serial
<1> USE DEF Follows, MapFollows, Dangles, Stored, Value, implVars, QueueFollows,
       OrphansFollow, Storing, Unlinked, Cleared, CounterFollows, Uncharged, LocalsFollow,
       Tested, PlaceFollows, Evicting, SetPCs, DelPCs, GetPCs
<1>0. Follows(w) /\ SerialTypes /\ local \in [Workers -> LocalTypes] /\ Types
  BY SoleFacts DEF Sole, Types
<1>1. /\ pc[w] = "set_head" /\ pc'[w] = "del_lookup"
      /\ UNCHANGED <<data, heap, queue, orphans, memused, fault>> /\ queue # <<>>
      /\ local'[w] = [local[w] EXCEPT !.victim = Head(queue).key]
  BY SoleFacts DEF SetHead, Crash, Goto, Shape, Types
<1>2. serial' = serial
  BY <1>1, InnerFollow DEF Sole
<1>3. Follows(w)'
  BY <1>0, <1>1, <1>2, SoleFacts DEF LocalTypes
<1> QED BY <1>2, <1>3

LEMMA DelLookupInner ==
    ASSUME NEW w \in Workers, Sole(w), DelLookup(w), Follow(w)
    PROVE  Follows(w)' /\ serial' = serial
<1> USE DEF Follows, MapFollows, Dangles, Stored, Value, implVars, QueueFollows,
       OrphansFollow, Storing, Unlinked, Cleared, CounterFollows, Uncharged, LocalsFollow,
       Tested, PlaceFollows, Evicting, SetPCs, DelPCs, GetPCs
<1>0. Follows(w) /\ SerialTypes /\ local \in [Workers -> LocalTypes] /\ Types
  BY SoleFacts DEF Sole, Types
<1>1. /\ pc[w] = "del_lookup"
      /\ UNCHANGED <<data, heap, queue, orphans, memused, local, fault>>
      /\ pc'[w] = IF data[local[w].victim] = Null THEN "del_miss" ELSE "del_rem"
  BY SoleFacts DEF DelLookup, Goto, Shape, Types
<1>2. serial' = serial
  BY <1>1, InnerFollow DEF Sole
<1>4. data[local[w].victim] = Null <=> serial.data[local[w].victim] = Null
  BY <1>0, <1>1, SoleFacts
<1>3. Follows(w)'
  BY <1>0, <1>1, <1>2, SoleFacts, <1>4
<1> QED BY <1>2, <1>3

LEMMA DelRemInner ==
    ASSUME NEW w \in Workers, Sole(w), DelRem(w), Follow(w), fault' = "none"
    PROVE  Follows(w)' /\ serial' = serial
<1> USE DEF Follows, MapFollows, Dangles, Stored, Value, implVars, QueueFollows,
       OrphansFollow, Storing, Unlinked, Cleared, CounterFollows, Uncharged, LocalsFollow,
       Tested, PlaceFollows, Evicting, SetPCs, DelPCs, GetPCs
<1>0. Follows(w) /\ SerialTypes /\ local \in [Workers -> LocalTypes] /\ Types
  BY SoleFacts DEF Sole, Types
<1>1. /\ pc[w] = "del_rem" /\ pc'[w] = "del_load" /\ queue # <<>>
      /\ UNCHANGED <<data, heap, orphans, memused, fault>>
      /\ queue' = Rem(queue, local[w].victim)
      /\ local'[w] = [local[w] EXCEPT !.sz = SizeIn(queue, local[w].victim)]
  BY SoleFacts DEF DelRem, ListRem, Goto, Shape, Crash, Types
<1>2. serial' = serial
  BY <1>1, InnerFollow DEF Sole
<1>3. Follows(w)'
  BY <1>0, <1>1, <1>2, SoleFacts DEF LocalTypes
<1> QED BY <1>2, <1>3

LEMMA DelLoadInner ==
    ASSUME NEW w \in Workers, Sole(w), DelLoad(w), Follow(w)
    PROVE  Follows(w)' /\ serial' = serial
<1> USE DEF Follows, MapFollows, Dangles, Stored, Value, implVars, QueueFollows,
       OrphansFollow, Storing, Unlinked, Cleared, CounterFollows, Uncharged, LocalsFollow,
       Tested, PlaceFollows, Evicting, SetPCs, DelPCs, GetPCs
<1>0. Follows(w) /\ SerialTypes /\ local \in [Workers -> LocalTypes] /\ Types
  BY SoleFacts DEF Sole, Types
<1>1. /\ pc[w] = "del_load" /\ pc'[w] = "del_store"
      /\ UNCHANGED <<data, heap, queue, orphans, memused, fault>>
      /\ local'[w] = [local[w] EXCEPT !.used = memused]
  BY SoleFacts DEF DelLoad, LoadMemused, Goto, Shape, Types
<1>2. serial' = serial
  BY <1>1, InnerFollow DEF Sole
<1>3. Follows(w)'
  BY <1>0, <1>1, <1>2, SoleFacts DEF LocalTypes
<1> QED BY <1>2, <1>3

LEMMA DelStoreInner ==
    ASSUME NEW w \in Workers, Sole(w), DelStore(w), Follow(w)
    PROVE  Follows(w)' /\ serial' = serial
<1> USE DEF Follows, MapFollows, Dangles, Stored, Value, implVars, QueueFollows,
       OrphansFollow, Storing, Unlinked, Cleared, CounterFollows, Uncharged, LocalsFollow,
       Tested, PlaceFollows, Evicting, SetPCs, DelPCs, GetPCs
<1>0. Follows(w) /\ SerialTypes /\ local \in [Workers -> LocalTypes] /\ Types
  BY SoleFacts DEF Sole, Types
<1>1. /\ pc[w] = "del_store" /\ pc'[w] = "del_free"
      /\ UNCHANGED <<data, heap, queue, orphans, local, fault>>
      /\ memused' = MinusU(local[w].used, AsUInt(local[w].sz))
  BY SoleFacts DEF DelStore, StoreMemused, Goto, Shape, Types
<1>2. serial' = serial
  BY <1>1, InnerFollow DEF Sole
<1>3. Follows(w)'
  BY <1>0, <1>1, <1>2, SoleFacts
<1> QED BY <1>2, <1>3

LEMMA DelFreeInner ==
    ASSUME NEW w \in Workers, Sole(w), DelFree(w), Follow(w)
    PROVE  Follows(w)' /\ serial' = serial
<1> USE DEF Follows, MapFollows, Dangles, Stored, Value, implVars, QueueFollows,
       OrphansFollow, Storing, Unlinked, Cleared, CounterFollows, Uncharged, LocalsFollow,
       Tested, PlaceFollows, Evicting, SetPCs, DelPCs, GetPCs
<1>0. Follows(w) /\ SerialTypes /\ local \in [Workers -> LocalTypes] /\ Types
  BY SoleFacts DEF Sole, Types
<1>1. /\ pc[w] = "del_free" /\ pc'[w] = "del_erase"
      /\ UNCHANGED <<data, queue, orphans, memused, local, fault>>
      /\ heap' = IF data[local[w].victim] = Null THEN heap ELSE [heap EXCEPT ![data[local[w].victim]] = Free]
  BY SoleFacts DEF DelFree, FreeValue, Goto, Shape, MemoryOf, Dangles
<1>2. serial' = serial
  BY <1>1, InnerFollow DEF Sole
<1>4. MemoryOf(w) /\ local[w].victim \in Keys /\ heap \in [Buffers -> Payloads \cup {Free}]
      /\ data \in [Keys -> Buffers \cup {Null}]
  BY SoleFacts DEF Types
<1>5. ASSUME NEW l \in Keys \ {local[w].victim} PROVE Value(l)' = Value(l)
  BY <1>1, <1>4 DEF MemoryOf, Injective
<1>3. Follows(w)'
  BY <1>0, <1>1, <1>2, SoleFacts, <1>5
<1> QED BY <1>2, <1>3

LEMMA GetLookupInner ==
    ASSUME NEW w \in Workers, Sole(w), GetLookup(w), Follow(w)
    PROVE  Follows(w)' /\ serial' = serial
<1> USE DEF Follows, MapFollows, Dangles, Stored, Value, implVars, QueueFollows,
       OrphansFollow, Storing, Unlinked, Cleared, CounterFollows, Uncharged, LocalsFollow,
       Tested, PlaceFollows, Evicting, SetPCs, DelPCs, GetPCs
<1>0. Follows(w) /\ SerialTypes /\ local \in [Workers -> LocalTypes] /\ Types
  BY SoleFacts DEF Sole, Types
<1>1. /\ pc[w] = "get_lookup"
      /\ UNCHANGED <<data, heap, queue, orphans, memused, local, fault>>
      /\ pc'[w] = IF data[local[w].key] = Null THEN "get_miss" ELSE "get_pushback"
  BY SoleFacts DEF GetLookup, Goto, Shape, Types
<1>2. serial' = serial
  BY <1>1, InnerFollow DEF Sole
<1>4. data[local[w].key] = Null <=> serial.data[local[w].key] = Null
  BY <1>0, <1>1, SoleFacts
<1>3. Follows(w)'
  BY <1>0, <1>1, <1>2, SoleFacts, <1>4
<1> QED BY <1>2, <1>3

LEMMA GetPushbackInner ==
    ASSUME NEW w \in Workers, Sole(w), GetPushback(w), Follow(w), fault' = "none"
    PROVE  Follows(w)' /\ serial' = serial
<1> USE DEF Follows, MapFollows, Dangles, Stored, Value, implVars, QueueFollows,
       OrphansFollow, Storing, Unlinked, Cleared, CounterFollows, Uncharged, LocalsFollow,
       Tested, PlaceFollows, Evicting, SetPCs, DelPCs, GetPCs
<1>0. Follows(w) /\ SerialTypes /\ local \in [Workers -> LocalTypes] /\ Types
  BY SoleFacts DEF Sole, Types
<1>1. /\ pc[w] = "get_pushback" /\ pc'[w] = "get_read"
      /\ UNCHANGED <<data, heap, memused, fault>> /\ queue # <<>>
      /\ local'[w] = [local[w] EXCEPT !.sz = SizeIn(queue, local[w].key)]
      /\ queue' = Pushback(queue, local[w].key)
      /\ orphans' = orphans \o CutOff(queue, local[w].key)
  BY SoleFacts DEF GetPushback, Crash, Goto, Shape, Types
<1>2. serial' = serial
  BY <1>1, InnerFollow DEF Sole
<1>3. /\ queue = serial.queue /\ orphans = serial.orphans /\ memused = serial.memused
      /\ \A k \in Keys : Value(k) = serial.data[k]
      /\ serial.pc = "idle" /\ local[w].op = "get" /\ serial.data[local[w].key] # Null
  BY <1>0, <1>1, SoleFacts
<1>4. /\ local'[w].op = "get" /\ local'[w].key = local[w].key
      /\ local'[w].sz = SizeIn(queue, local[w].key)
  BY <1>1, <1>3, SoleFacts DEF LocalTypes
<1>5. MapFollows(w)' /\ CounterFollows(w)' /\ LocalsFollow(w)' /\ Tested(w)' /\ PlaceFollows(w)'
  BY <1>1, <1>2, <1>3, <1>4
<1>6. QueueFollows(w)'
  BY <1>1, <1>2, <1>3, <1>4
<1>7. OrphansFollow(w)'
  BY <1>1, <1>2, <1>3, <1>4, Zenon DEF OrphansFollow
<1> QED BY <1>2, <1>5, <1>6, <1>7

LEMMA SetCheckInner ==
    ASSUME NEW w \in Workers, Sole(w), SetCheck(w), Follow(w), pc'[w] # "returned"
    PROVE  Follows(w)' /\ serial' = serial
<1> USE DEF Follows, MapFollows, Dangles, Stored, Value, implVars, QueueFollows,
       OrphansFollow, Storing, Unlinked, Cleared, CounterFollows, Uncharged, LocalsFollow,
       Tested, PlaceFollows, Evicting, SetPCs, DelPCs, GetPCs
<1>0. Follows(w) /\ SerialTypes /\ local \in [Workers -> LocalTypes] /\ Types
  BY SoleFacts DEF Sole, Types
<1>1. /\ pc[w] = "set_check" /\ pc'[w] = "set_lookup" /\ SizeOf[local[w].val] <= MaxMem
      /\ UNCHANGED <<data, heap, queue, orphans, memused, local, fault>>
  BY SoleFacts DEF SetCheck, Return, Goto, Shape, Types
<1>2. serial' = serial
  BY <1>1, InnerFollow DEF Sole
<1>3. Follows(w)'
  BY <1>0, <1>1, <1>2, SoleFacts
<1> QED BY <1>2, <1>3

LEMMA SetLoopInner ==
    ASSUME NEW w \in Workers, Sole(w), SetLoop(w), Follow(w), pc'[w] # "returned"
    PROVE  Follows(w)' /\ serial' = serial
<1> USE DEF Follows, MapFollows, Dangles, Stored, Value, implVars, QueueFollows,
       OrphansFollow, Storing, Unlinked, Cleared, CounterFollows, Uncharged, LocalsFollow,
       Tested, PlaceFollows, Evicting, SetPCs, DelPCs, GetPCs
<1>0. Follows(w) /\ SerialTypes /\ local \in [Workers -> LocalTypes] /\ Types
  BY SoleFacts DEF Sole, Types
<1>1. /\ pc[w] = "set_loop" /\ pc'[w] = "set_head" /\ memused > MaxMem
      /\ UNCHANGED <<data, heap, queue, orphans, memused, local, fault>>
  BY SoleFacts DEF SetLoop, Return, Goto, Shape, Types
<1>2. serial' = serial
  BY <1>1, InnerFollow DEF Sole
<1>3. Follows(w)'
  BY <1>0, <1>1, <1>2, SoleFacts
<1> QED BY <1>2, <1>3

LEMMA SetAllocInner ==
    ASSUME NEW w \in Workers, Sole(w), SetAlloc(w), Follow(w)
    PROVE  Follows(w)' /\ serial' = serial
<1> USE DEF Follows, MapFollows, Dangles, Stored, Value, implVars, QueueFollows,
       OrphansFollow, Storing, Unlinked, Cleared, CounterFollows, Uncharged, LocalsFollow,
       Tested, PlaceFollows, Evicting, SetPCs, DelPCs, GetPCs
<1>0. Follows(w) /\ SerialTypes /\ local \in [Workers -> LocalTypes] /\ Types
  BY SoleFacts DEF Sole, Types
<1>1. /\ pc[w] = "set_alloc" /\ pc'[w] = "set_load_more"
      /\ UNCHANGED <<queue, orphans, memused, local, fault>>
  BY SoleFacts DEF SetAlloc, Goto, Shape
<1>2. serial' = serial
  BY <1>1, InnerFollow DEF Sole
<1>4. PICK b \in Buffers :
        /\ heap[b] = Free
        /\ heap' = [heap EXCEPT ![b] = local[w].val]
        /\ data' = [data EXCEPT ![local[w].key] = b]
  BY DEF SetAlloc
<1>5. /\ MemoryOf(w) /\ local[w].key \in Keys /\ heap \in [Buffers -> Payloads \cup {Free}]
      /\ data \in [Keys -> Buffers \cup {Null}] /\ b # Null
  BY SoleFacts, NullNoKey DEF Types
<1>6. Value(local[w].key)' = local[w].val
  BY <1>1, <1>4, <1>5
<1>7. ASSUME NEW l \in Keys \ {local[w].key} PROVE Value(l)' = Value(l)
  <2>1. data'[l] = data[l] /\ ~ Dangles(w, l)
    BY <1>1, <1>4, <1>5
  <2>2. data[l] # Null => data[l] # b /\ data[l] \in Buffers
    BY <1>4, <1>5, <2>1 DEF MemoryOf
  <2> QED BY <1>4, <1>5, <2>1, <2>2
<1> HIDE DEF Value
<1>3. Follows(w)'
  BY <1>0, <1>1, <1>2, SoleFacts, <1>6, <1>7
<1> QED BY <1>2, <1>3

-----------------------------------------------------------------------------
\* The points between two calls.

LEMMA CommitFollow ==
    ASSUME NEW w \in Workers, Sole(w), CallStep(w), Follow(w),
           fault' = "none", pc'[w] \in {"set_loop", "returned"}
    PROVE  serial' = At(Contents', IF pc'[w] = "set_loop" THEN "evicting" ELSE "idle",
                        SerialCall(w)')
<1>1. \A v \in Workers \ {w} : ~ InCall(v)
  BY SoleFacts
<1>2. ~ overlapped
  BY DEF Sole
<1> QED BY <1>1, <1>2 DEF Follow

LEMMA Committed ==
    ASSUME NEW w \in Workers, NEW how, Types', MemoryOf(w)',
           serial' = At(Contents', how, SerialCall(w)'),
           \/ pc'[w] = "set_loop" /\ how = "evicting" /\ local'[w].op = "put" /\ local'[w].ret = Null
           \/ pc'[w] = "returned" /\ how = "idle"
    PROVE  /\ Follows(w)' /\ SerialTypes'
           /\ serial'.data = [k \in Keys |-> Value(k)']
           /\ serial'.queue = queue' /\ serial'.orphans = orphans' /\ serial'.memused = memused'
           /\ serial'.pc = how /\ serial'.call = SerialCall(w)'
           /\ \A k \in Keys : Value(k)' = Null <=> data'[k] = Null
<1>1. /\ serial'.data = [k \in Keys |-> Value(k)']
      /\ serial'.queue = queue' /\ serial'.orphans = orphans' /\ serial'.memused = memused'
      /\ serial'.pc = how /\ serial'.call = SerialCall(w)'
  BY DEF At, Contents, Value
<1>2. \A k : ~ Dangles(w, k)'
  BY DEF Dangles
<1>3. ASSUME NEW k \in Keys
      PROVE  Value(k)' \in Payloads \cup {Null} /\ (Value(k)' = Null <=> data'[k] = Null)
  <2>1. data'[k] # Null => heap'[data'[k]] # Free /\ data'[k] \in Buffers
    BY <1>2 DEF MemoryOf, Types
  <2>2. data'[k] # Null => heap'[data'[k]] \in Payloads
    BY <2>1 DEF Types
  <2> QED BY <2>2, NullNoKey DEF Value
<1>4. SerialTypes'
  <2>1. serial' = At(serial', serial'.pc, serial'.call)
    BY DEF At
  <2> QED BY <1>1, <1>3, <2>1 DEF SerialTypes, Types
<1>5. MapFollows(w)' /\ QueueFollows(w)' /\ OrphansFollow(w)' /\ CounterFollows(w)'
  BY <1>1 DEF MapFollows, Stored, QueueFollows, Storing, Unlinked, OrphansFollow, CounterFollows
<1>6. LocalsFollow(w)' /\ Tested(w)'
  BY DEF LocalsFollow, Tested, Storing, Unlinked, DelPCs
<1>7. PlaceFollows(w)'
  <2>1. Null # 1
    BY SharedCacheAssumption, SignBitAssumption DEF UInt
  <2>2. pc'[w] = "set_loop" =>
           SerialCall(w)' = [op |-> "set", key |-> local'[w].key, val |-> local'[w].val, num |-> 0]
    BY <2>1 DEF SerialCall
  <2> QED BY <1>1, <2>2 DEF PlaceFollows, Evicting, DelPCs
<1> QED BY <1>1, <1>3, <1>4, <1>5, <1>6, <1>7 DEF Follows

\* The facts every point between two calls has.
LEMMA CommitFacts ==
    ASSUME NEW w \in Workers, Sole(w), CallStep(w), Follow(w), Types', Shape',
           fault' = "none", pc'[w] \in {"set_loop", "returned"},
           MemoryOf(w)',
           pc'[w] = "set_loop" => local'[w].op = "put" /\ local'[w].ret = Null
    PROVE  /\ Follows(w)' /\ SerialTypes'
           /\ serial'.data = [k \in Keys |-> Value(k)']
           /\ serial'.queue = queue' /\ serial'.orphans = orphans' /\ serial'.memused = memused'
           /\ serial'.pc = (IF pc'[w] = "set_loop" THEN "evicting" ELSE "idle")
           /\ serial'.call = SerialCall(w)'
           /\ \A k \in Keys : Value(k)' = Null <=> data'[k] = Null
<1>1. CASE pc'[w] = "set_loop"
  BY <1>1, CommitFollow, Committed
<1>2. CASE pc'[w] = "returned"
  BY <1>2, CommitFollow, Committed
<1> QED BY <1>1, <1>2

LEMMA SetEnqueueCommit ==
    ASSUME NEW w \in Workers, Sole(w), SetEnqueue(w), Follow(w), Types', Shape'
    PROVE  /\ Follows(w)' /\ SerialTypes'
           /\ AtomicCache!Set(local[w].key, local[w].val)
<1> DEFINE k == local[w].key
           p == local[w].val
<1>1. /\ pc[w] = "set_enqueue" /\ pc'[w] = "set_loop"
      /\ queue' = Enqueue(queue, k, SizeOf[p])
      /\ UNCHANGED <<data, heap, orphans, memused, local, fault>>
  BY SoleFacts DEF SetEnqueue, Goto, Shape
<1>2. Follows(w) /\ SerialTypes /\ fault = "none" /\ k \in Keys /\ local[w].op = "put"
  BY <1>1, SoleFacts DEF Sole, SetPCs
<1>3. /\ local[w].ret = Null /\ serial.pc = "idle" /\ SizeOf[p] <= MaxMem
      /\ serial.data[k] # Null => serial.queue # <<>>
  BY <1>1, <1>2 DEF Follows, LocalsFollow, PlaceFollows, Evicting, DelPCs, Tested, Storing
<1>4. /\ queue = Cleared(w) /\ memused = PlusU(Uncharged(w), SizeOf[p]) /\ orphans = serial.orphans
      /\ Value(k) = p /\ \A l \in Keys \ {k} : Value(l) = serial.data[l]
  <2>1. \A l \in Keys : ~ Dangles(w, l)
    BY <1>1 DEF Dangles
  <2>2. Value(k) = p /\ \A l \in Keys \ {k} : Value(l) = serial.data[l]
    BY <1>1, <1>2, <2>1 DEF Follows, MapFollows, Stored
  <2>3. queue = Cleared(w) /\ orphans = serial.orphans
    BY <1>1, <1>2 DEF Follows, QueueFollows, OrphansFollow, Storing, Unlinked
  <2>4. memused = PlusU(Uncharged(w), SizeOf[p])
    BY <1>1, <1>2 DEF Follows, CounterFollows
  <2> QED BY <2>2, <2>3, <2>4
<1>5. MemoryOf(w)'
  BY <1>1, SoleFacts, SetMemory DEF SetStep
<1>6. /\ Follows(w)' /\ SerialTypes'
      /\ serial'.data = [l \in Keys |-> Value(l)']
      /\ serial'.queue = queue' /\ serial'.orphans = orphans' /\ serial'.memused = memused'
      /\ serial'.pc = "evicting" /\ serial'.call = SerialCall(w)'
  BY <1>1, <1>2, <1>3, <1>5, CommitFacts DEF CallStep, SetStep
<1>7. serial'.data = [serial.data EXCEPT ![k] = p]
  <2>1. \A l \in Keys : Value(l)' = Value(l)
    BY <1>1 DEF Value
  <2>2. \A l \in Keys : serial'.data[l] = IF l = k THEN p ELSE serial.data[l]
    BY <1>4, <1>6, <2>1
  <2> QED BY <1>2, <1>6, <2>2 DEF SerialTypes
<1>8. serial'.call = AtomicCache!Reply("set", k, p, 0)
  <2>1. Null # 1
    BY SharedCacheAssumption, SignBitAssumption DEF UInt
  <2> QED BY <1>1, <1>2, <1>3, <1>6, <2>1 DEF SerialCall, AtomicCache!Reply
<1>9. CASE serial.data[k] = Null
  <2>1. Cleared(w) = serial.queue /\ Uncharged(w) = serial.memused
    BY <1>9 DEF Cleared, Uncharged
  <2>2. AtomicCache!Store(k, p, serial.queue, serial.memused)
    <3>1. serial'.queue = AtomicCache!Enqueue(serial.queue, k, SizeOf[p])
      <4>1. AtomicCache!Enqueue(serial.queue, k, SizeOf[p]) = Enqueue(serial.queue, k, SizeOf[p])
        BY SameChains
      <4>2. queue = serial.queue
        BY <1>4, <2>1
      <4> QED BY <1>1, <1>6, <4>1, <4>2
    <3>2. serial'.memused = AtomicCache!PlusU(serial.memused, SizeOf[p])
      BY <1>1, <1>4, <1>6, <2>1, SameInts
    <3> QED BY <1>1, <1>4, <1>6, <1>7, <1>8, <3>1, <3>2 DEF AtomicCache!Store
  <2> QED BY <1>3, <1>6, <1>9, <2>2 DEF AtomicCache!Set, AtomicCache!SetNew
<1>10. CASE serial.data[k] # Null
  <2>1. /\ Cleared(w) = Rem(serial.queue, k)
        /\ Uncharged(w) = MinusU(serial.memused, AsUInt(SizeIn(serial.queue, k)))
    BY <1>10 DEF Cleared, Uncharged
  <2>2. AtomicCache!Store(k, p, Rem(serial.queue, k),
                          MinusU(serial.memused, AsUInt(SizeIn(serial.queue, k))))
    <3>1. AtomicCache!Enqueue(Rem(serial.queue, k), k, SizeOf[p])
             = Enqueue(Rem(serial.queue, k), k, SizeOf[p])
      BY SameChains
    <3>2. queue' = Enqueue(Rem(serial.queue, k), k, SizeOf[p])
      BY <1>1, <1>4, <2>1
    <3>3. memused' = AtomicCache!PlusU(MinusU(serial.memused, AsUInt(SizeIn(serial.queue, k))),
                                       SizeOf[p])
      BY <1>1, <1>4, <2>1, SameInts
    <3> QED BY <1>1, <1>4, <1>6, <1>7, <1>8, <3>1, <3>2, <3>3 DEF AtomicCache!Store
  <2>3. AtomicCache!SetOverwrite(k, p)
    BY <1>3, <1>10, <2>2, SameInts, SameChains DEF AtomicCache!SetOverwrite
  <2> QED BY <1>3, <1>6, <2>3 DEF AtomicCache!Set
<1> QED BY <1>6, <1>9, <1>10

LEMMA SetCheckCommit ==
    ASSUME NEW w \in Workers, Sole(w), SetCheck(w), Follow(w), Types', Shape', pc'[w] = "returned"
    PROVE  /\ Follows(w)' /\ SerialTypes'
           /\ AtomicCache!Set(local[w].key, local[w].val)
<1> DEFINE k == local[w].key
           p == local[w].val
<1>1. /\ pc[w] = "set_check" /\ SizeOf[p] > MaxMem
      /\ local'[w] = [local[w] EXCEPT !.ret = 1]
      /\ UNCHANGED <<data, heap, queue, orphans, memused, fault>>
  BY SoleFacts DEF SetCheck, Return, Goto, Shape, Types, implVars
<1>2. Follows(w) /\ SerialTypes /\ fault = "none" /\ k \in Keys /\ local[w].op = "put"
  BY <1>1, SoleFacts DEF Sole, SetPCs
<1>3. /\ serial.pc = "idle" /\ queue = serial.queue /\ memused = serial.memused
      /\ orphans = serial.orphans /\ \A l \in Keys : Value(l) = serial.data[l]
  BY <1>1, <1>2 DEF Follows, PlaceFollows, Evicting, DelPCs, MapFollows, QueueFollows,
       OrphansFollow, CounterFollows, Storing, Unlinked, Stored, Dangles
<1>4. MemoryOf(w)'
  BY <1>1, SoleFacts, SetMemory DEF SetStep
<1>5. /\ Follows(w)' /\ SerialTypes'
      /\ serial'.data = [l \in Keys |-> Value(l)']
      /\ serial'.queue = queue' /\ serial'.orphans = orphans' /\ serial'.memused = memused'
      /\ serial'.pc = "idle" /\ serial'.call = SerialCall(w)'
  BY <1>1, <1>2, <1>4, CommitFacts DEF CallStep, SetStep
<1>6. serial'.data = serial.data
  <2>1. \A l \in Keys : Value(l)' = Value(l)
    BY <1>1 DEF Value
  <2> QED BY <1>2, <1>3, <1>5, <2>1 DEF SerialTypes
<1>7. serial'.call = AtomicCache!Reply("set", k, p, 1)
  BY <1>1, <1>2, <1>5, SoleFacts DEF SerialCall, AtomicCache!Reply, LocalTypes
<1> QED BY <1>1, <1>3, <1>5, <1>6, <1>7 DEF AtomicCache!Set, AtomicCache!SetTooLarge

LEMMA SetLoopCommit ==
    ASSUME NEW w \in Workers, Sole(w), SetLoop(w), Follow(w), Types', Shape', pc'[w] = "returned"
    PROVE  Follows(w)' /\ SerialTypes' /\ AtomicCache!SetReturn
<1>1. /\ pc[w] = "set_loop" /\ memused <= MaxMem
      /\ local'[w] = [local[w] EXCEPT !.ret = 0]
      /\ UNCHANGED <<data, heap, queue, orphans, memused, fault>>
  BY SoleFacts DEF SetLoop, Return, Goto, Shape, Types, implVars
<1>2. Follows(w) /\ SerialTypes /\ fault = "none" /\ local[w].op = "put"
  BY <1>1, SoleFacts DEF Sole, SetPCs
<1>3. /\ serial.pc = "evicting" /\ queue = serial.queue /\ memused = serial.memused
      /\ orphans = serial.orphans /\ \A l \in Keys : Value(l) = serial.data[l]
      /\ serial.call = [op |-> "set", key |-> local[w].key, val |-> local[w].val, num |-> 0]
  BY <1>1, <1>2 DEF Follows, PlaceFollows, Evicting, DelPCs, MapFollows, QueueFollows,
       OrphansFollow, CounterFollows, Storing, Unlinked, Stored, Dangles
<1>4. MemoryOf(w)'
  BY <1>1, SoleFacts, SetMemory DEF SetStep
<1>5. /\ Follows(w)' /\ SerialTypes'
      /\ serial'.data = [l \in Keys |-> Value(l)']
      /\ serial'.queue = queue' /\ serial'.orphans = orphans' /\ serial'.memused = memused'
      /\ serial'.pc = "idle" /\ serial'.call = SerialCall(w)'
  BY <1>1, <1>2, <1>4, CommitFacts DEF CallStep, SetStep
<1>6. serial'.data = serial.data
  <2>1. \A l \in Keys : Value(l)' = Value(l)
    BY <1>1 DEF Value
  <2> QED BY <1>2, <1>3, <1>5, <2>1 DEF SerialTypes
<1>7. serial'.call = serial.call
  BY <1>1, <1>2, <1>3, <1>5, SoleFacts DEF SerialCall, LocalTypes
<1> QED BY <1>1, <1>3, <1>5, <1>6, <1>7 DEF AtomicCache!SetReturn

LEMMA DelEraseCommit ==
    ASSUME NEW w \in Workers, Sole(w), DelErase(w), Follow(w), Types', Shape'
    PROVE  /\ Follows(w)' /\ SerialTypes'
           /\ \/ AtomicCache!Evict
              \/ AtomicCache!Del(local[w].key)
<1> DEFINE k == local[w].victim
<1>1. /\ pc[w] \in {"del_erase", "del_miss"} /\ fault' = fault
      /\ UNCHANGED <<heap, queue, orphans, memused>>
      /\ data' = [data EXCEPT ![k] = Null]
      /\ IF local[w].op = "put" THEN pc'[w] = "set_loop" /\ local' = local
         ELSE /\ pc'[w] = "returned"
              /\ local'[w] = [local[w] EXCEPT !.ret = IF pc[w] = "del_erase" THEN 0 ELSE 1]
  BY SoleFacts DEF DelErase, DelReturn, Return, Goto, Shape, Types
<1>2. /\ Follows(w) /\ SerialTypes /\ fault = "none" /\ k \in Keys
      /\ local[w].op \in {"put", "delete"} /\ data \in [Keys -> Buffers \cup {Null}]
      /\ local[w].op = "delete" => k = local[w].key
  BY <1>1, SoleFacts DEF Sole, DelPCs, Types, Shape, InPlace
<1>3. /\ serial.pc = (IF local[w].op = "put" THEN "evicting" ELSE "idle")
      /\ local[w].op = "put" => /\ local[w].ret = Null /\ serial.memused > MaxMem
                               /\ serial.queue # <<>> /\ k = Head(serial.queue).key
      /\ IF pc[w] = "del_erase" THEN serial.data[k] # Null /\ serial.queue # <<>>
         ELSE serial.data[k] = Null
      /\ local[w].op = "put" =>
            serial.call = [op |-> "set", key |-> local[w].key, val |-> local[w].val, num |-> 0]
  BY <1>1, <1>2 DEF Follows, PlaceFollows, Evicting, DelPCs, Tested, Storing, Unlinked, LocalsFollow
<1>4. /\ queue = (IF pc[w] = "del_erase" THEN Rem(serial.queue, k) ELSE serial.queue)
      /\ orphans = serial.orphans
      /\ \A l \in Keys \ {k} : Value(l) = serial.data[l]
  BY <1>1, <1>2 DEF Follows, MapFollows, QueueFollows, OrphansFollow, Storing, Unlinked, Stored,
                    Dangles
<1>5. memused = (IF pc[w] = "del_erase"
                 THEN MinusU(serial.memused, AsUInt(SizeIn(serial.queue, k)))
                 ELSE serial.memused)
  BY <1>1, <1>2 DEF Follows, CounterFollows
<1>6. MemoryOf(w)'
  BY <1>1, SoleFacts, DelMemory DEF DelStep
<1>7. /\ Follows(w)' /\ SerialTypes'
      /\ serial'.data = [l \in Keys |-> Value(l)']
      /\ serial'.queue = queue' /\ serial'.orphans = orphans' /\ serial'.memused = memused'
      /\ serial'.pc = serial.pc /\ serial'.call = SerialCall(w)'
  <2>1. pc'[w] \in {"set_loop", "returned"}
    BY <1>1
  <2>2. pc'[w] = "set_loop" => local'[w].op = "put" /\ local'[w].ret = Null
    BY <1>1, <1>3
  <2>3. serial.pc = (IF pc'[w] = "set_loop" THEN "evicting" ELSE "idle")
    BY <1>1, <1>2, <1>3
  <2> QED BY <1>1, <1>2, <1>6, <2>1, <2>2, <2>3, CommitFacts DEF CallStep, DelStep
<1>8. serial'.data = [serial.data EXCEPT ![k] = Null]
  <2>1. \A l \in Keys : Value(l)' = IF l = k THEN Null ELSE Value(l)
    BY <1>1, <1>2 DEF Value
  <2>2. \A l \in Keys : serial'.data[l] = IF l = k THEN Null ELSE serial.data[l]
    BY <1>4, <1>7, <2>1
  <2> QED BY <1>2, <1>7, <2>2 DEF SerialTypes
<1>9. AtomicCache!Forget(k)
  <2>1. serial'.queue = (IF serial.data[k] # Null THEN AtomicCache!Rem(serial.queue, k)
                         ELSE serial.queue)
    BY <1>1, <1>3, <1>4, <1>7, SameChains
  <2>2. serial'.memused =
          (IF serial.data[k] # Null
           THEN AtomicCache!MinusU(serial.memused,
                                   AtomicCache!AsUInt(AtomicCache!SizeIn(serial.queue, k)))
           ELSE serial.memused)
    BY <1>1, <1>3, <1>5, <1>7, SameChains, SameInts
  <2> QED BY <1>8, <2>1, <2>2 DEF AtomicCache!Forget
<1>10. CASE local[w].op = "put"
  <2>1. serial'.call = serial.call
    <3>1. Null # 1
      BY SharedCacheAssumption, SignBitAssumption DEF UInt
    <3>2. local'[w] = local[w]
      BY <1>1, <1>10
    <3> QED BY <1>3, <1>7, <1>10, <3>1, <3>2 DEF SerialCall
  <2>2. /\ serial.pc = "evicting" /\ serial.memused > MaxMem /\ serial.queue # <<>>
        /\ serial'.orphans = serial.orphans
    BY <1>1, <1>3, <1>4, <1>7, <1>10
  <2>3. AtomicCache!Forget(Head(serial.queue).key)
    BY <1>3, <1>9, <1>10
  <2> QED BY <1>7, <2>1, <2>2, <2>3 DEF AtomicCache!Evict
<1>11. CASE local[w].op = "delete"
  <2>1. serial'.call = AtomicCache!Reply("del", k, Null, IF pc[w] = "del_erase" THEN 0 ELSE 1)
    <3>1. /\ local'[w].op = "delete" /\ local'[w].key = k
          /\ local'[w].ret = IF pc[w] = "del_erase" THEN 0 ELSE 1
      BY <1>1, <1>2, <1>11, SoleFacts DEF LocalTypes
    <3> QED BY <1>7, <3>1 DEF SerialCall, AtomicCache!Reply
  <2>2. serial.pc = "idle" /\ serial'.pc = "idle" /\ serial'.orphans = serial.orphans
    BY <1>1, <1>3, <1>4, <1>7, <1>11
  <2>3. CASE pc[w] = "del_erase"
    <3>1. serial.data[k] # Null /\ serial.queue # <<>>
      BY <1>3, <2>3
    <3>2. AtomicCache!DelHit(k)
      BY <1>9, <2>1, <2>2, <2>3, <3>1 DEF AtomicCache!DelHit
    <3> QED BY <1>2, <1>7, <1>11, <2>2, <3>2 DEF AtomicCache!Del
  <2>4. CASE pc[w] = "del_miss"
    <3>1. serial.data[k] = Null
      BY <1>3, <2>4
    <3>2. AtomicCache!DelMiss(k)
      BY <1>9, <2>1, <2>2, <2>4, <3>1 DEF AtomicCache!DelMiss
    <3> QED BY <1>2, <1>7, <1>11, <2>2, <3>2 DEF AtomicCache!Del
  <2> QED BY <1>1, <2>3, <2>4
<1> QED BY <1>2, <1>7, <1>10, <1>11

LEMMA GetCommit ==
    ASSUME NEW w \in Workers, Sole(w), GetRead(w) \/ GetErase(w), Follow(w), Types', Shape'
    PROVE  Follows(w)' /\ SerialTypes' /\ AtomicCache!Get(local[w].key)
<1> DEFINE k == local[w].key
<1>1. /\ pc[w] \in {"get_read", "get_miss"} /\ pc'[w] = "returned"
      /\ local'[w] = [local[w] EXCEPT !.ret = IF pc[w] = "get_read" THEN data[k] ELSE Null]
      /\ UNCHANGED <<heap, queue, orphans, memused, fault>>
      /\ data' = IF pc[w] = "get_read" THEN data ELSE [data EXCEPT ![k] = Null]
  BY SoleFacts DEF GetRead, GetErase, Return, Goto, Shape, Types, implVars
<1>2. /\ Follows(w) /\ SerialTypes /\ fault = "none" /\ k \in Keys
      /\ local[w].op = "get" /\ data \in [Keys -> Buffers \cup {Null}]
      /\ \A l \in Keys : data[l] = Null <=> Value(l) = Null
  BY <1>1, SoleFacts DEF Sole, GetPCs, Types, Dangles
<1>3. /\ serial.pc = "idle" /\ memused = serial.memused
      /\ IF pc[w] = "get_read"
         THEN serial.data[k] # Null /\ serial.queue # <<>> /\ local[w].sz = SizeIn(serial.queue, k)
         ELSE serial.data[k] = Null
  BY <1>1, <1>2 DEF Follows, PlaceFollows, Evicting, DelPCs, Tested, Storing, Unlinked,
                    LocalsFollow, CounterFollows
<1>4. /\ queue = (IF pc[w] = "get_read" THEN Pushback(serial.queue, k) ELSE serial.queue)
      /\ orphans = (IF pc[w] = "get_read" THEN serial.orphans \o CutOff(serial.queue, k)
                    ELSE serial.orphans)
      /\ \A l \in Keys : Value(l) = serial.data[l]
  BY <1>1, <1>2 DEF Follows, MapFollows, QueueFollows, OrphansFollow, Storing, Unlinked, Stored,
                    Dangles
<1>5. MemoryOf(w)'
  BY <1>1, SoleFacts, GetMemory DEF GetStep
<1>6. /\ Follows(w)' /\ SerialTypes'
      /\ serial'.data = [l \in Keys |-> Value(l)']
      /\ serial'.queue = queue' /\ serial'.orphans = orphans' /\ serial'.memused = memused'
      /\ serial'.pc = "idle" /\ serial'.call = SerialCall(w)'
  BY <1>1, <1>2, <1>5, CommitFacts DEF CallStep, GetStep
<1>7. data' = data
  <2>1. CASE pc[w] = "get_read"
    BY <1>1, <2>1
  <2>2. CASE pc[w] # "get_read"
    <3>1. data[k] = Null
      BY <1>2, <1>3, <1>4, <2>2
    <3> QED BY <1>1, <1>2, <2>2, <3>1
  <2> QED BY <2>1, <2>2
<1>8. serial'.data = serial.data
  <2>1. \A l \in Keys : Value(l)' = Value(l)
    BY <1>1, <1>7 DEF Value
  <2> QED BY <1>2, <1>4, <1>6, <2>1 DEF SerialTypes
<1>9. /\ local'[w].op = "get" /\ local'[w].key = k /\ local'[w].sz = local[w].sz
      /\ local'[w].ret = IF pc[w] = "get_read" THEN data[k] ELSE Null
  BY <1>1, <1>2, SoleFacts DEF LocalTypes
<1>10. CASE pc[w] = "get_read"
  <2>1. data[k] # Null /\ heap'[data[k]] = serial.data[k]
    BY <1>1, <1>2, <1>3, <1>4, <1>10 DEF Value
  <2>2. serial'.call = AtomicCache!Reply("get", k, serial.data[k],
                                         AtomicCache!AsUInt(AtomicCache!SizeIn(serial.queue, k)))
    BY <1>3, <1>6, <1>9, <1>10, <2>1, SameInts, SameChains DEF SerialCall, AtomicCache!Reply
  <2>3. /\ serial'.queue = AtomicCache!Pushback(serial.queue, k)
        /\ serial'.orphans = serial.orphans \o AtomicCache!CutOff(serial.queue, k)
    <3>1. /\ AtomicCache!Pushback(serial.queue, k) = Pushback(serial.queue, k)
          /\ AtomicCache!CutOff(serial.queue, k) = CutOff(serial.queue, k)
      BY SameChains
    <3>2. queue' = queue /\ orphans' = orphans
      BY <1>1
    <3> QED BY <1>4, <1>6, <1>10, <3>1, <3>2
  <2>4. AtomicCache!GetHit(k)
    BY <1>1, <1>3, <1>6, <1>8, <1>10, <2>2, <2>3 DEF AtomicCache!GetHit
  <2> QED BY <1>3, <1>6, <2>4 DEF AtomicCache!Get
<1>11. CASE pc[w] = "get_miss"
  <2>1. serial'.call = AtomicCache!Reply("get", k, Null, AtomicCache!Untouched)
    BY <1>6, <1>9, <1>11 DEF SerialCall, AtomicCache!Reply, AtomicCache!Untouched
  <2>2. AtomicCache!GetMiss(k)
    BY <1>1, <1>3, <1>4, <1>6, <1>8, <1>11, <2>1 DEF AtomicCache!GetMiss
  <2> QED BY <1>3, <1>6, <2>2 DEF AtomicCache!Get
<1> QED BY <1>1, <1>6, <1>10, <1>11

-----------------------------------------------------------------------------
\* A crash inside a call is the crash of the call.

LEMMA SerialDies ==
    ASSUME SerialTypes, serial' = [serial EXCEPT !.pc = fault']
    PROVE  /\ SerialTypes'
           /\ serial'.pc = fault'
           /\ serial'.data = serial.data /\ serial'.queue = serial.queue
           /\ serial'.orphans = serial.orphans /\ serial'.memused = serial.memused
           /\ serial'.call = serial.call
<1>1. \A s, f, d, q, o, m, p, c :
         s = [data |-> d, queue |-> q, orphans |-> o, memused |-> m, pc |-> p, call |-> c]
         => [s EXCEPT !.pc = f]
              = [data |-> d, queue |-> q, orphans |-> o, memused |-> m, pc |-> f, call |-> c]
  OBVIOUS
<1>2. serial = [data |-> serial.data, queue |-> serial.queue, orphans |-> serial.orphans,
                memused |-> serial.memused, pc |-> serial.pc, call |-> serial.call]
  BY DEF SerialTypes, At
<1>3. [serial EXCEPT !.pc = fault']
         = [data |-> serial.data, queue |-> serial.queue, orphans |-> serial.orphans,
            memused |-> serial.memused, pc |-> fault', call |-> serial.call]
  BY <1>1, <1>2
<1>4. serial' = At(serial, fault', serial.call)
  BY <1>3 DEF At
<1>5. /\ serial'.pc = fault'
      /\ serial'.data = serial.data /\ serial'.queue = serial.queue
      /\ serial'.orphans = serial.orphans /\ serial'.memused = serial.memused
      /\ serial'.call = serial.call
  BY <1>4 DEF At
<1>6. serial' = At(serial', serial'.pc, serial'.call)
  BY <1>4, <1>5 DEF At
<1> QED BY <1>5, <1>6 DEF SerialTypes

LEMMA CrashSerial ==
    ASSUME NEW w \in Workers, Sole(w), Follow(w), fault' # "none"
    PROVE  /\ SerialTypes'
           /\ serial'.pc = fault'
           /\ serial'.data = serial.data /\ serial'.queue = serial.queue
           /\ serial'.orphans = serial.orphans /\ serial'.memused = serial.memused
           /\ serial'.call = serial.call
<1>1. serial' = [serial EXCEPT !.pc = fault'] /\ SerialTypes
  BY DEF Follow, Sole
<1> QED BY <1>1, SerialDies

LEMMA SetRemCrash ==
    ASSUME NEW w \in Workers, Sole(w), SetRem(w), Follow(w), fault' # "none"
    PROVE  SerialTypes' /\ AtomicCache!Set(local[w].key, local[w].val)
<1>1. pc[w] = "set_rem" /\ queue = <<>> /\ fault' = "segfault"
  BY SoleFacts DEF SetRem, ListRem, Crash, Sole
<1>2. Follows(w) /\ local[w].op = "put"
  BY <1>1, SoleFacts DEF Sole, SetPCs
<1>3. /\ serial.pc = "idle" /\ serial.queue = <<>> /\ serial.data[local[w].key] # Null
      /\ SizeOf[local[w].val] <= MaxMem
  BY <1>1, <1>2 DEF Follows, PlaceFollows, Evicting, DelPCs, QueueFollows, Storing, Unlinked, Tested
<1>4. AtomicCache!Segfault
  BY <1>1, CrashSerial DEF AtomicCache!Segfault
<1>5. AtomicCache!SetSegfault(local[w].key, local[w].val)
  BY <1>3, <1>4 DEF AtomicCache!SetSegfault
<1> QED BY <1>3, <1>5, CrashSerial DEF AtomicCache!Set

LEMMA SetHeadCrash ==
    ASSUME NEW w \in Workers, Sole(w), SetHead(w), Follow(w), fault' # "none"
    PROVE  SerialTypes' /\ AtomicCache!Evict
<1>1. pc[w] = "set_head" /\ queue = <<>> /\ fault' = "segfault"
  BY SoleFacts DEF SetHead, Crash, Sole
<1>2. Follows(w) /\ local[w].op = "put"
  BY <1>1, SoleFacts DEF Sole, SetPCs
<1>3. serial.pc = "evicting" /\ serial.queue = <<>> /\ serial.memused > MaxMem
  BY <1>1, <1>2 DEF Follows, PlaceFollows, Evicting, DelPCs, QueueFollows, Storing, Unlinked, Tested
<1>4. AtomicCache!Segfault
  BY <1>1, CrashSerial DEF AtomicCache!Segfault
<1> QED BY <1>3, <1>4, CrashSerial DEF AtomicCache!Evict

\* The eviction loop has tested that the queue is not empty.
LEMMA DelRemCrash ==
    ASSUME NEW w \in Workers, Sole(w), DelRem(w), Follow(w), fault' # "none"
    PROVE  SerialTypes' /\ AtomicCache!Del(local[w].key)
<1>1. pc[w] = "del_rem" /\ queue = <<>> /\ fault' = "segfault"
  BY SoleFacts DEF DelRem, ListRem, Crash, Sole
<1>2. /\ Follows(w) /\ local[w].op \in {"put", "delete"}
      /\ local[w].op = "delete" => local[w].victim = local[w].key
  BY <1>1, SoleFacts DEF Sole, DelPCs, Shape, InPlace
<1>3. serial.queue = <<>> /\ serial.data[local[w].victim] # Null
  BY <1>1, <1>2 DEF Follows, DelPCs, QueueFollows, Storing, Unlinked, Tested
<1>4. local[w].op = "delete"
  BY <1>1, <1>2, <1>3 DEF Follows, Tested, DelPCs
<1>5. serial.pc = "idle"
  BY <1>2, <1>4 DEF Follows, PlaceFollows, Evicting
<1>6. AtomicCache!Segfault
  BY <1>1, CrashSerial DEF AtomicCache!Segfault
<1>7. AtomicCache!DelSegfault(local[w].key)
  BY <1>2, <1>3, <1>4, <1>6 DEF AtomicCache!DelSegfault
<1> QED BY <1>5, <1>7, CrashSerial DEF AtomicCache!Del

LEMMA GetPushbackCrash ==
    ASSUME NEW w \in Workers, Sole(w), GetPushback(w), Follow(w), fault' # "none"
    PROVE  SerialTypes' /\ AtomicCache!Get(local[w].key)
<1> DEFINE k == local[w].key
<1>1. /\ pc[w] = "get_pushback"
      /\ \/ queue = <<>> /\ fault' = "segfault"
         \/ queue # <<>> /\ PrevUnset(queue, k) /\ fault' = "corrupted"
  BY SoleFacts DEF GetPushback, Crash, Sole
<1>2. Follows(w) /\ local[w].op = "get"
  BY <1>1, SoleFacts DEF Sole, GetPCs
<1>3. serial.pc = "idle" /\ queue = serial.queue /\ serial.data[k] # Null
  BY <1>1, <1>2 DEF Follows, PlaceFollows, Evicting, QueueFollows, Storing, Unlinked, Tested
<1>4. CASE queue = <<>>
  <2>1. AtomicCache!Segfault
    BY <1>1, <1>4, CrashSerial DEF AtomicCache!Segfault
  <2>2. AtomicCache!GetSegfault(k)
    BY <1>3, <1>4, <2>1 DEF AtomicCache!GetSegfault
  <2> QED BY <1>3, <2>2, CrashSerial DEF AtomicCache!Get
<1>5. CASE queue # <<>>
  <2>1. AtomicCache!PrevUnset(serial.queue, k)
    <3>1. AtomicCache!PrevUnset(serial.queue, k) <=> PrevUnset(serial.queue, k)
      BY SameChains
    <3> QED BY <1>1, <1>3, <1>5, <3>1
  <2>2. AtomicCache!GetCorrupts(k)
    BY <1>1, <1>3, <1>5, <2>1, CrashSerial DEF AtomicCache!GetCorrupts
  <2> QED BY <1>3, <2>2, CrashSerial DEF AtomicCache!Get
<1> QED BY <1>4, <1>5

-----------------------------------------------------------------------------
\* A statement of the one call in progress.

LEMMA AtomicCalls ==
    ASSUME NEW k \in Keys
    PROVE  /\ \A p \in Payloads : AtomicCache!Set(k, p) => AtomicCache!Next
           /\ AtomicCache!Get(k) \/ AtomicCache!Del(k) => AtomicCache!Next
           /\ AtomicCache!Evict \/ AtomicCache!SetReturn => AtomicCache!Next
BY DEF AtomicCache!Next

LEMMA SoleSet ==
    ASSUME NEW w \in Workers, Sole(w), SetStep(w), Follow(w), Types', Shape'
    PROVE  /\ fault' = "none" => Follows(w)'
           /\ SerialTypes'
           /\ AtomicCache!Next \/ serial' = serial
<1>1. /\ SerialTypes /\ MemoryOf(w) /\ Types /\ Shape /\ fault = "none"
      /\ local[w].key \in Keys /\ (pc[w] \in SetPCs => local[w].val \in Payloads)
  BY SoleFacts DEF Sole
<1>2. serial' = serial => SerialTypes'
  BY <1>1 DEF SerialTypes
<1>3. CASE SetCheck(w)
  <2>1. fault' = "none" /\ pc[w] \in SetPCs
    BY <1>1, <1>3 DEF SetCheck, Return, Goto, SetPCs
  <2> QED BY <1>1, <1>2, <1>3, <2>1, SetCheckInner, SetCheckCommit, AtomicCalls
<1>4. CASE SetFree(w)
  <2>1. fault' = "none"
    BY <1>1, <1>4 DEF SetFree, FreeValue, MemoryOf, Dangles
  <2> QED BY <1>2, <1>4, <2>1, SetFreeInner
<1>5. CASE SetRem(w)
  <2>1. pc[w] \in SetPCs
    BY <1>5 DEF SetRem, ListRem, Goto, SetPCs
  <2> QED BY <1>1, <1>2, <1>5, <2>1, SetRemInner, SetRemCrash, AtomicCalls
<1>6. CASE SetEnqueue(w)
  <2>1. pc[w] \in SetPCs
    BY <1>6 DEF SetEnqueue, Goto, SetPCs
  <2> QED BY <1>1, <1>6, <2>1, SetEnqueueCommit, AtomicCalls
<1>7. CASE SetLoop(w)
  BY <1>1, <1>2, <1>7, SetLoopInner, SetLoopCommit, AtomicCalls
<1>8. CASE SetHead(w)
  BY <1>1, <1>2, <1>8, SetHeadInner, SetHeadCrash, AtomicCalls
<1>9. CASE SetLookup(w) \/ SetLoadLess(w) \/ SetStoreLess(w) \/ SetAlloc(w)
           \/ SetLoadMore(w) \/ SetStoreMore(w)
  BY <1>2, <1>9, SetLookupInner, SetLoadLessInner, SetStoreLessInner, SetAllocInner,
     SetLoadMoreInner, SetStoreMoreInner
<1> QED BY <1>3, <1>4, <1>5, <1>6, <1>7, <1>8, <1>9 DEF SetStep

LEMMA SoleDel ==
    ASSUME NEW w \in Workers, Sole(w), DelStep(w), Follow(w), Types', Shape'
    PROVE  /\ fault' = "none" => Follows(w)'
           /\ SerialTypes'
           /\ AtomicCache!Next \/ serial' = serial
<1>1. SerialTypes /\ MemoryOf(w) /\ Types /\ Shape /\ fault = "none" /\ local[w].key \in Keys
  BY SoleFacts DEF Sole
<1>2. serial' = serial => SerialTypes'
  BY <1>1 DEF SerialTypes
<1>3. CASE DelFree(w)
  <2>1. local[w].victim \in Keys
    BY SoleFacts
  <2>2. fault' = "none"
    BY <1>1, <1>3, <2>1 DEF DelFree, FreeValue, MemoryOf, Dangles
  <2> QED BY <1>2, <1>3, <2>2, DelFreeInner
<1>4. CASE DelRem(w)
  BY <1>1, <1>2, <1>4, DelRemInner, DelRemCrash, AtomicCalls
<1>5. CASE DelErase(w)
  BY <1>1, <1>5, DelEraseCommit, AtomicCalls
<1>6. CASE DelLookup(w) \/ DelLoad(w) \/ DelStore(w)
  BY <1>2, <1>6, DelLookupInner, DelLoadInner, DelStoreInner
<1> QED BY <1>3, <1>4, <1>5, <1>6 DEF DelStep

LEMMA SoleGet ==
    ASSUME NEW w \in Workers, Sole(w), GetStep(w), Follow(w), Types', Shape'
    PROVE  /\ fault' = "none" => Follows(w)'
           /\ SerialTypes'
           /\ AtomicCache!Next \/ serial' = serial
<1>1. SerialTypes /\ local[w].key \in Keys
  BY SoleFacts DEF Sole
<1>2. serial' = serial => SerialTypes'
  BY <1>1 DEF SerialTypes
<1>3. CASE GetLookup(w)
  BY <1>2, <1>3, GetLookupInner
<1>4. CASE GetPushback(w)
  BY <1>1, <1>2, <1>4, GetPushbackInner, GetPushbackCrash, AtomicCalls
<1>5. CASE GetRead(w) \/ GetErase(w)
  BY <1>1, <1>5, GetCommit, AtomicCalls
<1> QED BY <1>3, <1>4, <1>5 DEF GetStep

-----------------------------------------------------------------------------
\* Steps that leave the cache as it is.

LEMMA FollowsStays ==
    ASSUME NEW v \in Workers, Follows(v), UNCHANGED <<implVars, serial>>,
           pc'[v] = pc[v], local'[v] = local[v]
    PROVE  Follows(v)'
BY DEF Follows, MapFollows, Dangles, Stored, Value, implVars, QueueFollows, OrphansFollow,
       Storing, Unlinked, Cleared, CounterFollows, Uncharged, LocalsFollow, Tested,
       PlaceFollows, Evicting, DelPCs

LEMMA RestsStays ==
    ASSUME Rests, UNCHANGED <<implVars, serial, main>>
    PROVE  Rests'
BY DEF Rests, Value, implVars

LEMMA AgreeStays ==
    ASSUME Agree, ~ overlapped, fault = "none", UNCHANGED <<implVars, serial, main>>,
           \A v \in Workers : InCall(v)' => InCall(v) /\ pc'[v] = pc[v] /\ local'[v] = local[v],
           (\A v \in Workers : ~ InCall(v)') => Rests
    PROVE  Agree'
<1>1. \A v \in Workers : InCall(v)' => Follows(v)'
  BY FollowsStays DEF Agree
<1>2. (\A v \in Workers : ~ InCall(v)') => Rests'
  BY RestsStays
<1> QED BY <1>1, <1>2 DEF Agree

LEMMA ReturnedRests ==
    ASSUME NEW w \in Workers, Follows(w), pc[w] = "returned", main = "serving"
    PROVE  Rests
BY DEF Follows, MapFollows, Dangles, Stored, QueueFollows, OrphansFollow,
       Storing, Unlinked, CounterFollows, PlaceFollows, Evicting, DelPCs, Rests

LEMMA LeaveAgree ==
    ASSUME IInv, SerialTypes, Agree, ~ overlapped, fault = "none", NEW w \in Workers,
           \/ /\ pc[w] = "returned" /\ pc' = [pc EXCEPT ![w] = "ready"]
              /\ local' = [local EXCEPT ![w] = Locals(NoRequest)]
           \/ pc[w] = "stopping" /\ pc' = [pc EXCEPT ![w] = "returned"] /\ UNCHANGED local
           \/ pc[w] = "ready" /\ pc' = [pc EXCEPT ![w] = "exited"] /\ UNCHANGED local,
           UNCHANGED <<implVars, serial, main>>
    PROVE  Agree'
<1>1. Types /\ Shape /\ Memory /\ AllOut
  BY DEF IInv
<1>2. pc' = [pc EXCEPT ![w] = pc'[w]] /\ local' = [local EXCEPT ![w] = local'[w]]
  BY <1>1 DEF Types, Shape
<1>3. ~ InCall(w)'
  <2>1. pc'[w] \in {"ready", "exited"} \/ local'[w].op = "shutdown"
    BY <1>1, Whose DEF Types, Shape
  <2> QED BY <2>1 DEF InCall
<1>4. \A v \in Workers \ {w} :
         pc'[v] = pc[v] /\ local'[v] = local[v] /\ (InCall(v)' <=> InCall(v))
  BY <1>1, <1>2, OthersStay
<1>5. (\A v \in Workers : ~ InCall(v)') => Rests
  <2>1. CASE InCall(w)
    <3>1. pc[w] = "returned"
      BY <1>1, <2>1, Whose DEF InCall
    <3>2. main = "serving"
      BY <1>1, <3>1 DEF AllOut
    <3> QED BY <2>1, <3>1, <3>2, ReturnedRests DEF Agree
  <2>2. CASE ~ InCall(w)
    BY <1>4, <2>2 DEF Agree
  <2> QED BY <2>1, <2>2
<1> QED BY <1>3, <1>4, <1>5, AgreeStays

-----------------------------------------------------------------------------
\* A request arrives.

LEMMA EntryFollows ==
    ASSUME NEW w \in Workers, Rests, main = "serving", UNCHANGED <<implVars, serial>>,
           local'[w].ret = Null,
           \/ pc'[w] = "set_check" /\ local'[w].op = "put"
           \/ pc'[w] = "get_lookup" /\ local'[w].op = "get"
           \/ pc'[w] = "del_lookup" /\ local'[w].op = "delete"
    PROVE  Follows(w)'
BY DEF Follows, MapFollows, Dangles, Stored, Value, implVars, QueueFollows, OrphansFollow,
       Storing, Unlinked, Cleared, CounterFollows, Uncharged, LocalsFollow, Tested,
       PlaceFollows, Evicting, DelPCs, Rests

LEMMA ReceiveAgree ==
    ASSUME IInv, SerialTypes, Agree, ~ overlapped, fault = "none", NEW w \in Workers, Receive(w)
    PROVE  Agree' /\ serial' = serial
<1>1. PICK req \in Requests :
         /\ pc[w] = "ready" /\ pc' = [pc EXCEPT ![w] = Entry(req.op)]
         /\ local' = [local EXCEPT ![w] = Locals(req)]
         /\ overlapped' = (overlapped \/ ( /\ req.op \in {"put", "get", "delete"}
                                           /\ \E v \in Workers : InCall(v) ))
  BY DEF Receive, Goto
<1>2. Types /\ Shape /\ AllOut /\ UNCHANGED <<implVars, serial, main>>
  BY DEF IInv, Receive
<1>3. /\ local'[w] = Locals(req) /\ pc'[w] = Entry(req.op) /\ ~ InCall(w)
      /\ pc' = [pc EXCEPT ![w] = pc'[w]] /\ local' = [local EXCEPT ![w] = local'[w]]
  BY <1>1, <1>2 DEF Types, Shape, InCall
<1>4. local'[w].op = req.op /\ local'[w].ret = Null
  BY <1>3 DEF Locals
<1>5. \A v \in Workers \ {w} :
         pc'[v] = pc[v] /\ local'[v] = local[v] /\ (InCall(v)' <=> InCall(v))
  BY <1>2, <1>3, OthersStay
<1>6. CASE overlapped'
  BY <1>2, <1>6 DEF Agree
<1>7. CASE ~ overlapped' /\ req.op \in CallOps
  <2>1. \A v \in Workers : ~ InCall(v)
    BY <1>1, <1>7, Zenon DEF CallOps
  <2>2. Rests /\ main = "serving"
    BY <1>1, <1>2, <2>1 DEF Agree, AllOut
  <2>3. \/ pc'[w] = "set_check" /\ local'[w].op = "put"
        \/ pc'[w] = "get_lookup" /\ local'[w].op = "get"
        \/ pc'[w] = "del_lookup" /\ local'[w].op = "delete"
    BY <1>3, <1>4, <1>7 DEF Entry, CallOps
  <2>4. Follows(w)'
    BY <1>2, <1>4, <2>2, <2>3, EntryFollows
  <2>5. InCall(w)'
    BY <2>3 DEF InCall
  <2> QED BY <1>2, <1>5, <2>1, <2>4, <2>5 DEF Agree
<1>8. CASE ~ overlapped' /\ req.op \notin CallOps
  <2>1. ~ InCall(w)'
    BY <1>4, <1>8 DEF InCall, CallOps
  <2>2. (\A v \in Workers : ~ InCall(v)') => Rests
    BY <1>3, <1>5 DEF Agree
  <2> QED BY <1>2, <1>5, <2>1, <2>2, AgreeStays
<1> QED BY <1>2, <1>6, <1>7, <1>8

-----------------------------------------------------------------------------
\* A statement of a call.

LEMMA CallKeepsRequest ==
    ASSUME Types, Shape, NEW w \in Workers, CallStep(w)
    PROVE  local'[w].op = local[w].op
<1> USE DEF Types, Crash, Goto, Return, LocalTypes
<1>1. CASE SetStep(w)
  BY <1>1 DEF SetStep, SetCheck, SetLookup, SetFree, SetRem, SetLoadLess, SetStoreLess, SetAlloc,
     SetLoadMore, SetStoreMore, SetEnqueue, SetLoop, SetHead, ListRem, FreeValue,
     LoadMemused, StoreMemused
<1>2. CASE DelStep(w)
  BY <1>2 DEF DelStep, DelLookup, DelRem, DelLoad, DelStore, DelFree, DelErase, DelReturn,
     ListRem, FreeValue, LoadMemused, StoreMemused
<1>3. CASE GetStep(w) \/ SpaceUsed(w)
  BY <1>3 DEF GetStep, GetLookup, GetPushback, GetRead, GetErase, SpaceUsed
<1> QED BY <1>1, <1>2, <1>3 DEF CallStep

CallersAreIn == \A w \in Workers : InCall(w) <=> local[w].op \in CallOps

LEMMA CallersIn == Types /\ Shape => CallersAreIn
BY InCallPlaces DEF CallersAreIn

LEMMA CallersInNext == Types' /\ Shape' => CallersAreIn'
BY CallersIn, PTL

LEMMA SoleAgree ==
    ASSUME IInv, SerialTypes, Agree, ~ overlapped, fault = "none", Types', Shape',
           UNCHANGED overlapped,
           NEW w \in Workers, SetStep(w) \/ DelStep(w) \/ GetStep(w), Follow(w)
    PROVE  SerialTypes' /\ Agree' /\ (AtomicCache!Next \/ serial' = serial)
<1>1. Types /\ Shape /\ Memory
  BY DEF IInv
<1>2. InCall(w)
  <2>1. pc[w] \in SetPCs \cup DelPCs \cup GetPCs
    BY DEF SetStep, SetCheck, SetLookup, SetFree, SetRem, SetLoadLess, SetStoreLess,
       SetAlloc, SetLoadMore, SetStoreMore, SetEnqueue, SetLoop, SetHead, ListRem, FreeValue,
       LoadMemused, StoreMemused, DelStep, DelLookup, DelRem, DelLoad, DelStore, DelFree,
       DelErase, GetStep, GetLookup, GetPushback, GetRead, GetErase,
       Goto, Return, Crash, SetPCs, DelPCs, GetPCs
  <2> QED BY <1>1, <2>1, InCallPlaces
<1>3. Sole(w)
  BY <1>2 DEF Sole, Agree
<1>4. /\ fault' = "none" => Follows(w)'
      /\ SerialTypes'
      /\ AtomicCache!Next \/ serial' = serial
  BY <1>3, SoleSet, SoleDel, SoleGet
<1>5. InCall(w)'
  BY <1>1, <1>2, CallKeepsRequest, CallersIn, CallersInNext DEF CallStep, CallersAreIn
<1>6. \A v \in Workers \ {w} : ~ InCall(v)'
  BY <1>1, <1>2, MemoryToWorker, CallMoves, OthersStay DEF CallStep
<1>7. Agree'
  BY <1>4, <1>5, <1>6 DEF Agree
<1> QED BY <1>4, <1>7

LEMMA SpaceUsedAgree ==
    ASSUME IInv, SerialTypes, Agree, ~ overlapped, fault = "none",
           UNCHANGED <<main, overlapped>>,
           NEW w \in Workers, SpaceUsed(w), Follow(w)
    PROVE  SerialTypes' /\ Agree' /\ (AtomicCache!Next \/ serial' = serial)
<1>1. Types /\ Shape /\ AllOut
  BY DEF IInv
<1>2. /\ pc[w] = "space_used" /\ pc'[w] = "returned" /\ fault' = "none"
      /\ UNCHANGED implVars
      /\ local'[w] = [local[w] EXCEPT !.ret = memused]
      /\ pc' = [pc EXCEPT ![w] = pc'[w]] /\ local' = [local EXCEPT ![w] = local'[w]]
  BY <1>1 DEF SpaceUsed, Return, Goto, Types, Shape
<1>3. local[w].op = "memsize" /\ local'[w].op = "memsize" /\ local'[w].ret = memused
  BY <1>1, <1>2, Whose DEF Types, LocalTypes
<1>4. \A v \in Workers \ {w} :
         pc'[v] = pc[v] /\ local'[v] = local[v] /\ (InCall(v)' <=> InCall(v))
  BY <1>1, <1>2, OthersStay
<1>5. ~ InCall(w) /\ ~ InCall(w)'
  BY <1>3 DEF InCall
<1>6. CASE \E v \in Workers : InCall(v)
  <2>1. serial' = serial
    BY <1>2, <1>5, <1>6 DEF Follow
  <2>2. Agree'
    BY <1>2, <1>4, <1>5, <1>6, <2>1, AgreeStays
  <2> QED BY <2>1, <2>2 DEF SerialTypes
<1>7. CASE \A v \in Workers : ~ InCall(v)
  <2>1. Rests /\ main = "serving"
    BY <1>1, <1>2, <1>7 DEF Agree, AllOut
  <2>2. serial' = At(Contents', "idle", SerialCall(w)')
    BY <1>2, <1>7 DEF Follow
  <2>3. /\ serial'.data = [l \in Keys |-> Value(l)']
        /\ serial'.queue = queue' /\ serial'.orphans = orphans' /\ serial'.memused = memused'
        /\ serial'.pc = "idle" /\ serial'.call = SerialCall(w)'
        /\ serial' = At(serial', serial'.pc, serial'.call)
    BY <2>2 DEF At, Contents, Value
  <2>4. \A l \in Keys : Value(l)' = serial.data[l]
    BY <1>2, <2>1 DEF Value, Rests, implVars
  <2>5. serial'.data = serial.data
    BY <2>3, <2>4 DEF SerialTypes
  <2>6. /\ serial'.queue = serial.queue /\ serial'.orphans = serial.orphans
        /\ serial'.memused = serial.memused
    BY <1>2, <2>1, <2>3 DEF Rests, implVars
  <2>7. SerialTypes'
    BY <2>3, <2>5, <2>6 DEF SerialTypes
  <2>8. AtomicCache!SpaceUsed
    <3>1. SerialCall(w)' = AtomicCache!Reply("space_used", Null, Null, serial.memused)
      BY <1>3, <2>1 DEF SerialCall, AtomicCache!Reply, Rests
    <3>2. serial.pc = "idle"
      BY <2>1 DEF Rests
    <3> QED BY <2>3, <2>5, <2>6, <3>1, <3>2 DEF AtomicCache!SpaceUsed
  <2>9. Rests'
    BY <2>1, <2>3, <2>4, <2>5 DEF Rests
  <2>10. Agree'
    BY <1>4, <1>5, <1>7, <2>9 DEF Agree
  <2> QED BY <2>7, <2>8, <2>10 DEF AtomicCache!Next
<1> QED BY <1>6, <1>7

-----------------------------------------------------------------------------
\* The destruction of the cache.

LEMMA TrackFacts ==
    ASSUME ~ overlapped, NEW how, Track(how)
    PROVE  /\ serial'.data = [l \in Keys |-> Value(l)']
           /\ serial'.queue = queue' /\ serial'.orphans = orphans' /\ serial'.memused = memused'
           /\ serial'.pc = how /\ serial'.call = serial.call
           /\ serial' = At(serial', serial'.pc, serial'.call)
BY DEF Track, At, Contents, Value

LEMMA TurnAgree ==
    ASSUME SerialTypes, Agree, ~ overlapped, fault = "none", \A w \in Workers : ~ InCall(w),
           UNCHANGED <<implVars, pc, local, overlapped>>,
           \/ Track("destroying") /\ main' = "destroying"
           \/ Track("destroyed") /\ main' = "exited"
    PROVE  /\ SerialTypes' /\ Agree' /\ Rests
           /\ serial'.pc = (IF main' = "destroying" THEN "destroying" ELSE "destroyed")
           /\ serial'.data = serial.data /\ serial'.queue = serial.queue
           /\ serial'.orphans = serial.orphans /\ serial'.memused = serial.memused
           /\ serial'.call = serial.call
<1>1. Rests
  BY DEF Agree
<1>2. /\ serial'.data = [l \in Keys |-> Value(l)']
      /\ serial'.queue = queue' /\ serial'.orphans = orphans' /\ serial'.memused = memused'
      /\ serial'.pc = (IF main' = "destroying" THEN "destroying" ELSE "destroyed")
      /\ serial'.call = serial.call
      /\ serial' = At(serial', serial'.pc, serial'.call)
  BY TrackFacts
<1>3. \A l \in Keys : Value(l)' = serial.data[l]
  BY <1>1 DEF Value, Rests, implVars
<1>4. serial'.data = serial.data
  BY <1>2, <1>3 DEF SerialTypes
<1>5. /\ serial'.queue = serial.queue /\ serial'.orphans = serial.orphans
      /\ serial'.memused = serial.memused
  BY <1>1, <1>2 DEF Rests, implVars
<1>6. SerialTypes'
  BY <1>2, <1>4, <1>5 DEF SerialTypes
<1>7. Rests'
  BY <1>2, <1>3, <1>4 DEF Rests
<1>8. Agree'
  <2>1. \A w \in Workers : ~ InCall(w)'
    BY DEF InCall
  <2> QED BY <1>7, <2>1 DEF Agree
<1> QED BY <1>1, <1>2, <1>4, <1>5, <1>6, <1>8

LEMMA MainAgree ==
    ASSUME IInv, SerialTypes, Agree, ~ overlapped, fault = "none", Signal \/ Main
    PROVE  SerialTypes' /\ Agree' /\ (AtomicCache!Next \/ serial' = serial)
<1>1. Types /\ Shape /\ Memory /\ AllOut /\ UNCHANGED <<pc, local, overlapped>>
  BY DEF IInv, Signal, Main, Destroy, FreeEntry, MainExit
<1>2. CASE Signal
  <2>1. UNCHANGED <<implVars, serial, main>>
    BY <1>2 DEF Signal
  <2>2. Agree'
    <3>1. \A v \in Workers : InCall(v)' <=> InCall(v)
      BY <1>1 DEF InCall
    <3>2. (\A v \in Workers : ~ InCall(v)') => Rests
      BY <3>1 DEF Agree
    <3> QED BY <1>1, <2>1, <3>1, <3>2, AgreeStays
  <2> QED BY <2>1, <2>2 DEF SerialTypes
<1>3. CASE Destroy
  <2>1. /\ \A w \in Workers : ~ InCall(w)
        /\ UNCHANGED implVars /\ main = "serving" /\ main' = "destroying" /\ Track("destroying")
    BY <1>3 DEF Destroy, InCall
  <2>2. /\ SerialTypes' /\ Agree' /\ Rests
        /\ serial'.pc = "destroying"
        /\ serial'.data = serial.data /\ serial'.queue = serial.queue
        /\ serial'.orphans = serial.orphans /\ serial'.memused = serial.memused
        /\ serial'.call = serial.call
    BY <1>1, <2>1, TurnAgree
  <2>3. AtomicCache!Destroy
    BY <2>1, <2>2 DEF AtomicCache!Destroy, Rests
  <2> QED BY <2>2, <2>3 DEF AtomicCache!Next
<1>4. CASE MainExit
  <2>1. /\ main = "destroying" /\ main' = "exited" /\ Track("destroyed") /\ UNCHANGED implVars
        /\ \A k \in Keys : data[k] = Null
    BY <1>4 DEF MainExit
  <2>2. \A w \in Workers : ~ InCall(w)
    BY <1>1, <2>1 DEF AllOut, InCall
  <2>3. /\ SerialTypes' /\ Agree' /\ Rests
        /\ serial'.pc = "destroyed"
        /\ serial'.data = serial.data /\ serial'.queue = serial.queue
        /\ serial'.orphans = serial.orphans /\ serial'.memused = serial.memused
        /\ serial'.call = serial.call
    BY <1>1, <2>1, <2>2, TurnAgree
  <2>4. \A k \in Keys : serial.data[k] = Null
    BY <2>1, <2>3 DEF Rests, Value
  <2>5. AtomicCache!DestroyReturn
    BY <2>1, <2>3, <2>4 DEF AtomicCache!DestroyReturn, Rests
  <2> QED BY <2>3, <2>5 DEF AtomicCache!Next
<1>5. ASSUME NEW k \in Keys, FreeEntry(k)
      PROVE  SerialTypes' /\ Agree' /\ (AtomicCache!Next \/ serial' = serial)
  <2>1. /\ main = "destroying" /\ main' = main /\ data[k] # Null
        /\ \A w \in Workers : ~ InCall(w) /\ ~ InCall(w)'
    BY <1>1, <1>5 DEF AllOut, InCall, FreeEntry, serverVars
  <2>2. Rests /\ serial.pc = "destroying"
    BY <2>1 DEF Agree, Rests
  <2>3. \A l \in Keys : data[l] # Null => heap[data[l]] # Free /\ data[l] \in Buffers
    BY <1>1, <2>1, Outside DEF Memory, Owns, OutIsClean, Types
  <2>4. serial.data[k] # Null
    <3>1. heap[data[k]] \in Payloads
      BY <1>1, <2>1, <2>3 DEF Types
    <3> QED BY <2>1, <2>2, <3>1, NullNoKey DEF Rests, Value
  <2>5. CASE queue = <<>> /\ fault' = "segfault" /\ UNCHANGED implVars
             /\ serial' = [serial EXCEPT !.pc = "segfault"]
    <3>1. /\ SerialTypes'
          /\ serial'.pc = "segfault"
          /\ serial'.data = serial.data /\ serial'.queue = serial.queue
          /\ serial'.orphans = serial.orphans /\ serial'.memused = serial.memused
          /\ serial'.call = serial.call
      BY <2>5, SerialDies
    <3>2. AtomicCache!Segfault
      BY <3>1 DEF AtomicCache!Segfault
    <3>3. AtomicCache!FreeEntry(k)
      BY <2>2, <2>4, <2>5, <3>2 DEF AtomicCache!FreeEntry, Rests
    <3>4. Agree'
      BY <2>5 DEF Agree
    <3> QED BY <3>1, <3>3, <3>4 DEF AtomicCache!Next
  <2>6. CASE /\ queue # <<>>
             /\ heap' = [heap EXCEPT ![data[k]] = Free]
             /\ data' = [data EXCEPT ![k] = Null]
             /\ queue' = Rem(queue, k)
             /\ UNCHANGED <<orphans, memused, fault>>
             /\ Track("destroying")
    <3>1. /\ serial'.data = [l \in Keys |-> Value(l)']
          /\ serial'.queue = queue' /\ serial'.orphans = orphans' /\ serial'.memused = memused'
          /\ serial'.pc = "destroying" /\ serial'.call = serial.call
          /\ serial' = At(serial', serial'.pc, serial'.call)
      BY <2>6, TrackFacts
    <3>2. \A l \in Keys : Value(l)' = IF l = k THEN Null ELSE serial.data[l]
      <4>1. Value(k)' = Null
        BY <1>1, <2>6 DEF Value, Types
      <4>2. ASSUME NEW l \in Keys \ {k} PROVE Value(l)' = Value(l)
        <5>1. data'[l] = data[l] /\ (data[l] # Null => data[l] # data[k] /\ data[l] \in Buffers)
          BY <1>1, <2>1, <2>3, <2>6 DEF Memory, Injective, Types
        <5> QED BY <1>1, <2>6, <5>1 DEF Value, Types
      <4> QED BY <2>2, <4>1, <4>2 DEF Rests
    <3>3. serial'.data = [serial.data EXCEPT ![k] = Null]
      BY <3>1, <3>2 DEF SerialTypes
    <3>4. /\ serial'.queue = AtomicCache!Rem(serial.queue, k)
          /\ serial'.orphans = serial.orphans /\ serial'.memused = serial.memused
          /\ serial.queue # <<>>
      <4>1. AtomicCache!Rem(serial.queue, k) = Rem(serial.queue, k)
        BY SameChains
      <4> QED BY <2>2, <2>6, <3>1, <4>1 DEF Rests
    <3>5. AtomicCache!FreeEntry(k)
      BY <2>2, <2>4, <3>1, <3>3, <3>4 DEF AtomicCache!FreeEntry
    <3>6. SerialTypes'
      <4>1. serial'.queue \in Seq(Nodes)
        BY <2>2, <2>6, <3>1, QueueTypes DEF SerialTypes, Rests
      <4>2. serial'.data \in [Keys -> Payloads \cup {Null}]
        BY <3>3 DEF SerialTypes
      <4> QED BY <3>1, <3>4, <4>1, <4>2 DEF SerialTypes
    <3>7. Rests'
      BY <2>1, <3>1 DEF Rests
    <3>8. Agree'
      BY <2>1, <3>7 DEF Agree
    <3> QED BY <3>5, <3>6, <3>8 DEF AtomicCache!Next
  <2> QED BY <1>5, <2>1, <2>3, <2>5, <2>6 DEF FreeEntry
<1> QED BY <1>2, <1>3, <1>4, <1>5 DEF Main

-----------------------------------------------------------------------------
\* Every step.

LEMMA HandleAgree ==
    ASSUME IInv, SerialTypes, Agree, ~ overlapped, fault = "none", Types', Shape',
           NEW w \in Workers, Handle(w) \/ Exit(w)
    PROVE  SerialTypes' /\ Agree' /\ (AtomicCache!Next \/ serial' = serial)
<1>1. CASE Call(w)
  <2>1. Follow(w) /\ UNCHANGED <<main, overlapped>>
    BY <1>1 DEF Call, serverVars
  <2>2. CASE SetStep(w) \/ DelStep(w) \/ GetStep(w)
    BY <2>1, <2>2, SoleAgree
  <2>3. CASE SpaceUsed(w)
    BY <2>1, <2>3, SpaceUsedAgree
  <2> QED BY <1>1, <2>2, <2>3 DEF Call, CallStep
<1>2. ASSUME \E status, body : Answer(w, status, body)
      PROVE  SerialTypes' /\ Agree' /\ serial' = serial
  <2>1. /\ pc[w] = "returned" /\ pc' = [pc EXCEPT ![w] = "ready"]
        /\ local' = [local EXCEPT ![w] = Locals(NoRequest)]
        /\ UNCHANGED <<implVars, serial, main>>
    BY <1>2 DEF Answer, Goto
  <2> QED BY <2>1, LeaveAgree DEF SerialTypes
<1>3. CASE Shutdown(w) \/ Exit(w)
  <2>1. /\ \/ pc[w] = "stopping" /\ pc' = [pc EXCEPT ![w] = "returned"]
           \/ pc[w] = "ready" /\ pc' = [pc EXCEPT ![w] = "exited"]
        /\ UNCHANGED <<implVars, local, serial, main>>
    BY <1>3 DEF Shutdown, Exit, Goto, serverVars
  <2> QED BY <2>1, LeaveAgree DEF SerialTypes
<1>4. CASE AnswerGet(w)
  BY <1>2, <1>4, ReturnedIsLive
<1> QED BY <1>1, <1>2, <1>3, <1>4
        DEF Handle, AnswerPut, AnswerDelete, AnswerMemsize, AnswerHead, AnswerShutdown

\* serial is frozen once two calls have overlapped.
LEMMA Frozen ==
    ASSUME overlapped, [Next]_vars
    PROVE  overlapped' /\ serial' = serial
<1>1. ASSUME NEW w \in Workers, Receive(w) \/ Exit(w) \/ Shutdown(w) PROVE overlapped' /\ serial' = serial
  BY <1>1 DEF Receive, Exit, Shutdown
<1>2. ASSUME NEW w \in Workers, Call(w) PROVE overlapped' /\ serial' = serial
  BY <1>2 DEF Call, Follow
<1>3. ASSUME NEW w \in Workers, \E status, body : Answer(w, status, body)
      PROVE  overlapped' /\ serial' = serial
  BY <1>3 DEF Answer
<1>4. ASSUME NEW w \in Workers, AnswerGet(w) PROVE overlapped' /\ serial' = serial
  BY <1>3, <1>4 DEF AnswerGet
<1>5. ASSUME NEW w \in Workers, Handle(w) PROVE overlapped' /\ serial' = serial
  BY <1>1, <1>2, <1>3, <1>4, <1>5
     DEF Handle, AnswerPut, AnswerDelete, AnswerMemsize, AnswerHead, AnswerShutdown
<1>6. CASE Signal \/ Main
  BY <1>6 DEF Signal, Main, Destroy, FreeEntry, MainExit, Track
<1>7. CASE UNCHANGED vars
  BY <1>7 DEF vars
<1> QED BY <1>1, <1>5, <1>6, <1>7 DEF Next

AInv == IInv /\ SerialTypes /\ Agree

LEMMA NextAInv == AInv /\ [Next]_vars => AInv' /\ (AtomicCache!Next \/ serial' = serial)
<1> SUFFICES ASSUME AInv, [Next]_vars PROVE AInv' /\ (AtomicCache!Next \/ serial' = serial)
  OBVIOUS
<1>0. IInv /\ SerialTypes /\ Agree /\ IInv' /\ Types' /\ Shape'
  BY NextIInv DEF AInv, IInv
<1>1. CASE overlapped
  BY <1>0, <1>1, Frozen DEF AInv, SerialTypes, Agree
<1>2. CASE UNCHANGED vars
  <2>1. UNCHANGED <<implVars, serial, main, pc, local, overlapped, fault>>
    BY <1>2 DEF vars, serverVars
  <2>2. \A v \in Workers : InCall(v)' <=> InCall(v)
    BY <2>1 DEF InCall
  <2>3. ASSUME ~ overlapped, fault = "none" PROVE Agree'
    <3>1. (\A v \in Workers : ~ InCall(v)') => Rests
      BY <1>0, <2>2, <2>3 DEF Agree
    <3> QED BY <1>0, <2>1, <2>2, <2>3, <3>1, AgreeStays
  <2>4. Agree'
    BY <2>1, <2>3 DEF Agree
  <2> QED BY <1>0, <2>1, <2>4 DEF AInv, SerialTypes
<1>3. CASE ~ overlapped /\ Next
  <2>1. fault = "none"
    BY <1>3 DEF Next
  <2>2. ASSUME NEW w \in Workers, Receive(w)
        PROVE  SerialTypes' /\ Agree' /\ serial' = serial
    BY <1>0, <1>3, <2>1, <2>2, ReceiveAgree DEF SerialTypes
  <2>3. ASSUME NEW w \in Workers, Handle(w) \/ Exit(w)
        PROVE  SerialTypes' /\ Agree' /\ (AtomicCache!Next \/ serial' = serial)
    BY <1>0, <1>3, <2>1, <2>3, HandleAgree
  <2>4. CASE Signal \/ Main
    BY <1>0, <1>3, <2>1, <2>4, MainAgree DEF AInv
  <2> QED BY <1>0, <1>3, <2>2, <2>3, <2>4 DEF Next, AInv
<1> QED BY <1>1, <1>2, <1>3

LEMMA InitAInv == Init => AInv /\ AtomicCache!Init
<1> SUFFICES ASSUME Init PROVE AInv /\ AtomicCache!Init
  OBVIOUS
<1>1. serial = At(Contents, "idle", [op |-> "none", key |-> Null, val |-> Null, num |-> 0])
  BY DEF Init
<1>2. /\ serial.data = [k \in Keys |-> Null] /\ serial.queue = <<>> /\ serial.orphans = <<>>
      /\ serial.memused = 0 /\ serial.pc = "idle"
      /\ serial.call = [op |-> "none", key |-> Null, val |-> Null, num |-> 0]
      /\ serial = At(serial, serial.pc, serial.call)
  <2>1. \A k \in Keys : data[k] = Null
    BY DEF Init
  <2> QED BY <1>1, <2>1 DEF Init, At, Contents
<1>3. SerialTypes
  <2>1. <<>> \in Seq(Nodes)
    OBVIOUS
  <2> QED BY <1>2, <2>1, SIntSized DEF SerialTypes
<1>4. Rests
  BY <1>2 DEF Rests, Value, Init
<1>5. Agree
  <2>1. \A w \in Workers : ~ InCall(w)
    BY DEF Init, InCall
  <2> QED BY <1>4, <2>1 DEF Agree
<1>6. AtomicCache!Init
  BY <1>2 DEF AtomicCache!Init, AtomicCache!NoCall, AtomicCache!Reply
<1> QED BY <1>3, <1>5, <1>6, InitIInv DEF AInv

LEMMA Refines ==
    AInv /\ [Next]_vars => [AtomicCache!Next]_(AtomicCache!vars)
BY NextAInv DEF AtomicCache!vars

\* Until two calls overlap, the statements of cache.cc, run by whichever worker,
\* and the destruction of the cache do to the cache what module Cache says of
\* one call after the other.
THEOREM CallsAreAtomicHolds == Spec => CallsAreAtomic
<1>1. Spec => [](AInv)
  BY InitAInv, NextAInv, PTL DEF Spec
<1>2. Spec => [][AtomicCache!Next]_(AtomicCache!vars)
  BY <1>1, Refines, PTL DEF Spec
<1>3. Spec => AtomicCache!Init
  BY InitAInv DEF Spec
<1> QED BY <1>2, <1>3 DEF CallsAreAtomic

-----------------------------------------------------------------------------
(***************************************************************************)
(* What space_used reports.  The serial cache keeps the invariant of       *)
(* CacheProofs, so its counter is within maxmem_, or one value past it in  *)
(* the eviction loop; the counter of the shared one, anywhere in a call,   *)
(* is a sum or a difference of what the serial one holds.                  *)
(***************************************************************************)
AP == INSTANCE CacheProofs WITH
    data <- serial.data, queue <- serial.queue, orphans <- serial.orphans,
    memused <- serial.memused, pc <- serial.pc, call <- serial.call

\* The assumptions of CacheProofs.
LEMMA AsCache ==
    /\ SizeOf \in [Payloads -> AP!UInt] /\ MaxMem \in AP!UInt
    /\ Null \notin Payloads /\ Null \notin Keys
    /\ SignBit \in Nat \ {0}
BY SharedCacheAssumption, SignBitAssumption DEF AP!UInt, UInt

LEMMA SameNext == AtomicCache!Next => AP!Next
BY Zenon DEF AtomicCache!Next, AP!Next, AtomicCache!Set, AP!Set, AtomicCache!Get, AP!Get,
   AtomicCache!Del, AP!Del, AtomicCache!SpaceUsed, AP!SpaceUsed, AtomicCache!Evict, AP!Evict,
   AtomicCache!SetReturn, AP!SetReturn, AtomicCache!Destroy, AP!Destroy,
   AtomicCache!FreeEntry, AP!FreeEntry, AtomicCache!DestroyReturn, AP!DestroyReturn,
   AtomicCache!SetTooLarge, AP!SetTooLarge, AtomicCache!SetNew, AP!SetNew,
   AtomicCache!SetOverwrite, AP!SetOverwrite, AtomicCache!SetSegfault, AP!SetSegfault,
   AtomicCache!Store, AP!Store, AtomicCache!Segfault, AP!Segfault,
   AtomicCache!GetMiss, AP!GetMiss, AtomicCache!GetHit, AP!GetHit,
   AtomicCache!GetCorrupts, AP!GetCorrupts, AtomicCache!GetSegfault, AP!GetSegfault,
   AtomicCache!DelMiss, AP!DelMiss, AtomicCache!DelHit, AP!DelHit,
   AtomicCache!DelSegfault, AP!DelSegfault, AtomicCache!Forget, AP!Forget,
   AtomicCache!Reply, AP!Reply, AtomicCache!Untouched, AP!Untouched,
   AtomicCache!AsInt, AP!AsInt, AtomicCache!AsUInt, AP!AsUInt,
   AtomicCache!PlusU, AP!PlusU, AtomicCache!MinusU, AP!MinusU,
   AtomicCache!WalkTo, AP!WalkTo, AtomicCache!SelectInSeq, AP!SelectInSeq,
   AtomicCache!Min, AP!Min, AtomicCache!RemoveAt, AP!RemoveAt,
   AtomicCache!PrevUnset, AP!PrevUnset, AtomicCache!Rem, AP!Rem,
   AtomicCache!SizeIn, AP!SizeIn, AtomicCache!Pushback, AP!Pushback,
   AtomicCache!CutOff, AP!CutOff, AtomicCache!Enqueue, AP!Enqueue

SerialInv == AP!IInv /\ AP!OneOver

LEMMA InitSerialInv == ASSUME MaxMem < SignBit PROVE Init => SerialInv
<1>1. AtomicCache!Init => AP!Init
  BY DEF AtomicCache!Init, AP!Init, AtomicCache!NoCall, AP!NoCall, AtomicCache!Reply, AP!Reply
<1>2. AP!Init => AP!IInv
  BY AsCache, AP!InitIInv
<1>3. AP!Init => AP!OneOver
  BY DEF AP!Init, AP!OneOver
<1> QED BY <1>1, <1>2, <1>3, InitAInv DEF SerialInv

LEMMA NextSerialInv ==
    ASSUME MaxMem < SignBit
    PROVE  AInv /\ SerialInv /\ [Next]_vars => SerialInv'
<1>1. AP!IInv /\ [AP!Next]_(AP!vars) => AP!IInv'
  BY AsCache, AP!NextIInv
<1>2. AP!IInv /\ AP!OneOver /\ [AP!Next]_(AP!vars) => AP!OneOver'
  BY AsCache, AP!NextOneOver
<1>3. AInv /\ [Next]_vars => [AP!Next]_(AP!vars)
  BY NextAInv, SameNext DEF AP!vars
<1> QED BY <1>1, <1>2, <1>3 DEF SerialInv

Within(used) ==
    \/ used <= MaxMem
    \/ \E p \in Payloads : SizeOf[p] <= MaxMem /\ used <= MaxMem + SizeOf[p]

\* What is left after a key's node has been taken out of the serial cache.
LEMMA LessIsWithin ==
    ASSUME MaxMem < SignBit, SerialInv, serial.pc \in {"idle", "evicting"}, NEW k \in Keys
    PROVE  /\ serial.memused \in Nat
           /\ MinusU(serial.memused, AsUInt(SizeIn(serial.queue, k))) \in Nat
           /\ MinusU(serial.memused, AsUInt(SizeIn(serial.queue, k))) <= serial.memused
<1>1. /\ AP!MinusU(serial.memused, AP!AsUInt(AP!SizeIn(serial.queue, k))) \in Nat
      /\ AP!MinusU(serial.memused, AP!AsUInt(AP!SizeIn(serial.queue, k))) <= serial.memused
  BY AsCache, AP!GivesBack DEF SerialInv, AP!Live
<1>2. AP!SizeIn(serial.queue, k) = SizeIn(serial.queue, k)
  BY DEF AP!SizeIn, SizeIn, AP!WalkTo, WalkTo, AP!SelectInSeq, SelectInSeq, AP!Min, Min
<1>3. /\ \A a : AP!AsUInt(a) = AsUInt(a)
      /\ \A a, b : AP!MinusU(a, b) = MinusU(a, b)
  BY DEF AP!AsUInt, AsUInt, AP!MinusU, MinusU
<1>4. serial.memused \in Nat
  BY AsCache, AP!StateFacts DEF SerialInv
<1> QED BY <1>1, <1>2, <1>3, <1>4

\* The counter at every point of a call that overlaps no other.
LEMMA CounterWithin ==
    ASSUME MaxMem < SignBit, AInv, SerialInv, ~ overlapped, fault = "none", main = "serving"
    PROVE  Within(memused)
<1>0. MaxMem \in Nat /\ SizeOf \in [Payloads -> Nat] /\ SignBit \in Nat
  BY SharedCacheAssumption, SignBitAssumption, SIntSized
<1>1. ASSUME serial.pc \in {"idle", "evicting"}
      PROVE  Within(serial.memused) /\ (serial.pc = "idle" => serial.memused <= MaxMem)
  BY <1>1 DEF SerialInv, AP!IInv, AP!IdleFits, AP!OneOver, Within
<1>2. CASE \A w \in Workers : ~ InCall(w)
  <2>1. Rests
    BY <1>2 DEF AInv, Agree
  <2> QED BY <1>1, <2>1 DEF Rests
<1>3. ASSUME NEW w \in Workers, InCall(w) PROVE Within(memused)
  <2>1. Follows(w)
    BY <1>3 DEF AInv, Agree
  <2>2. Sole(w)
    BY <1>3, <2>1 DEF Sole, AInv
  <2>3. /\ local[w].key \in Keys /\ local[w].victim \in Keys
        /\ pc[w] \in SetPCs => local[w].op = "put" /\ local[w].val \in Payloads
    BY <2>2, SoleFacts
  <2>4. serial.pc \in {"idle", "evicting"} /\ (~ Evicting(w) => serial.pc = "idle")
    BY <2>1 DEF Follows, PlaceFollows
  <2>5. serial.memused \in Nat /\ Within(serial.memused)
    BY <1>1, <2>3, <2>4, LessIsWithin
  <2>6. ASSUME NEW u \in Nat, u <= serial.memused PROVE Within(u)
    <3>1. CASE serial.memused <= MaxMem
      BY <1>0, <2>5, <2>6, <3>1 DEF Within
    <3>2. ASSUME NEW p \in Payloads, SizeOf[p] <= MaxMem, serial.memused <= MaxMem + SizeOf[p]
          PROVE  Within(u)
      BY <1>0, <2>5, <2>6, <3>2 DEF Within
    <3> QED BY <2>5, <3>1, <3>2 DEF Within
  <2>7. CASE pc[w] \in {"set_alloc", "set_load_more", "set_store_more"}
    <3>1. memused = Uncharged(w)
      BY <2>1, <2>7 DEF Follows, CounterFollows
    <3>2. Uncharged(w) \in Nat /\ Uncharged(w) <= serial.memused
      BY <2>3, <2>4, <2>5, LessIsWithin DEF Uncharged
    <3> QED BY <2>6, <3>1, <3>2
  <2>8. CASE pc[w] = "set_enqueue"
    <3>1. memused = PlusU(Uncharged(w), SizeOf[local[w].val])
      BY <2>1, <2>8 DEF Follows, CounterFollows
    <3>2. Uncharged(w) \in Nat /\ Uncharged(w) <= serial.memused
      BY <2>3, <2>4, <2>5, LessIsWithin DEF Uncharged
    <3>3. serial.memused <= MaxMem
      BY <1>1, <2>4, <2>8 DEF Evicting, DelPCs
    <3>4. local[w].val \in Payloads /\ SizeOf[local[w].val] <= MaxMem
      BY <2>1, <2>3, <2>8 DEF SetPCs, Follows, Tested, Storing
    <3>5. memused <= MaxMem + SizeOf[local[w].val]
      BY <1>0, <2>5, <3>1, <3>2, <3>3, <3>4 DEF PlusU
    <3> QED BY <3>4, <3>5 DEF Within
  <2>9. CASE pc[w] \in {"del_free", "del_erase"}
    <3>1. memused = MinusU(serial.memused, AsUInt(SizeIn(serial.queue, local[w].victim)))
      BY <2>1, <2>9 DEF Follows, CounterFollows
    <3> QED BY <2>3, <2>4, <2>6, <3>1, LessIsWithin
  <2>10. CASE pc[w] \notin {"set_alloc", "set_load_more", "set_store_more", "set_enqueue",
                            "del_free", "del_erase"}
    <3>1. memused = serial.memused
      BY <2>1, <2>10 DEF Follows, CounterFollows
    <3> QED BY <2>5, <3>1
  <2> QED BY <2>7, <2>8, <2>9, <2>10
<1> QED BY <1>2, <1>3

Reported(w) == local[w].op = "memsize" /\ pc[w] = "returned" => Within(local[w].ret)

Reports ==
    ~ overlapped => /\ MemsizeBounded
                    /\ \A w \in Workers : Reported(w)

LEMMA SpaceUsedReports ==
    ASSUME MaxMem < SignBit, AInv, SerialInv, Reports, ~ overlapped, fault = "none",
           NEW w \in Workers, SpaceUsed(w)
    PROVE  \A v \in Workers : Reported(v)'
<1>1. Types /\ Shape /\ AllOut
  BY DEF AInv, IInv
<1>2. /\ pc[w] = "space_used" /\ local'[w] = [local[w] EXCEPT !.ret = memused]
      /\ pc' = [pc EXCEPT ![w] = pc'[w]] /\ local' = [local EXCEPT ![w] = local'[w]]
  BY <1>1 DEF SpaceUsed, Return, Goto, Types, Shape
<1>3. main = "serving"
  BY <1>1, <1>2 DEF AllOut
<1>4. local'[w].ret = memused
  BY <1>1, <1>2 DEF Types, LocalTypes
<1>5. Reported(w)'
  BY <1>3, <1>4, CounterWithin DEF Reported, Within
<1>6. ASSUME NEW v \in Workers \ {w} PROVE Reported(v)'
  BY <1>1, <1>2, OthersStay DEF Reports, Reported, Within
<1> QED BY <1>5, <1>6

\* Where a worker that works on something else is does not matter.
LEMMA OtherReports ==
    ASSUME Types, Shape, \A v \in Workers : Reported(v), NEW w \in Workers,
           pc' = [pc EXCEPT ![w] = pc'[w]], local' = [local EXCEPT ![w] = local'[w]],
           pc'[w] # "returned" \/ local'[w].op # "memsize"
    PROVE  \A v \in Workers : Reported(v)'
<1>1. Reported(w)'
  BY DEF Reported
<1>2. ASSUME NEW v \in Workers \ {w} PROVE Reported(v)'
  BY OthersStay DEF Reported, Within
<1> QED BY <1>1, <1>2

LEMMA AnswerReports ==
    ASSUME Types, Shape, Reports, ~ overlapped, NEW w \in Workers, NEW status, NEW body,
           Answer(w, status, body), local[w].op = "memsize" => body = local[w].ret
    PROVE  MemsizeBounded' /\ \A v \in Workers : Reported(v)'
<1>1. /\ pc[w] = "returned" /\ pc' = [pc EXCEPT ![w] = "ready"]
      /\ local' = [local EXCEPT ![w] = Locals(NoRequest)]
      /\ answer' = [op |-> local[w].op, key |-> local[w].key, status |-> status, body |-> body]
  BY DEF Answer, Goto
<1>2. \A v \in Workers : Reported(v)'
  <2>1. pc'[w] = "ready" /\ pc' = [pc EXCEPT ![w] = pc'[w]] /\ local' = [local EXCEPT ![w] = local'[w]]
    BY <1>1 DEF Types, Shape
  <2> QED BY <2>1, OtherReports DEF Reports
<1>3. ASSUME answer'.op = "memsize" PROVE Within(answer'.body)
  <2>1. local[w].op = "memsize" /\ answer'.body = local[w].ret
    BY <1>1, <1>3
  <2> QED BY <1>1, <2>1 DEF Reports, Reported
<1>4. MemsizeBounded'
  BY <1>3 DEF MemsizeBounded, Within
<1> QED BY <1>2, <1>4

LEMMA NextReports ==
    ASSUME MaxMem < SignBit
    PROVE  AInv /\ SerialInv /\ Reports /\ [Next]_vars => Reports'
<1> SUFFICES ASSUME AInv, SerialInv, Reports, [Next]_vars, ~ overlapped' PROVE Reports'
  BY DEF Reports
<1>0. Types /\ Shape /\ ~ overlapped
  BY Frozen DEF AInv, IInv
<1>1. CASE UNCHANGED <<pc, local, answer, overlapped>>
  BY <1>1 DEF Reports, MemsizeBounded, Reported, Within
<1>2. ASSUME NEW w \in Workers, UNCHANGED <<answer, overlapped>>,
             pc' = [pc EXCEPT ![w] = pc'[w]], local' = [local EXCEPT ![w] = local'[w]],
             pc'[w] # "returned" \/ local'[w].op # "memsize"
      PROVE  Reports'
  <2>1. \A v \in Workers : Reported(v)'
    BY <1>0, <1>2, OtherReports DEF Reports
  <2> QED BY <1>0, <1>2, <2>1 DEF Reports, MemsizeBounded
<1>3. ASSUME NEW w \in Workers, Receive(w) PROVE Reports'
  <2>1. PICK req \in Requests : Goto(w, "ready", Entry(req.op)) /\ local' = [local EXCEPT ![w] = Locals(req)]
    BY <1>3 DEF Receive
  <2>2. /\ pc' = [pc EXCEPT ![w] = pc'[w]] /\ local' = [local EXCEPT ![w] = local'[w]]
        /\ pc'[w] = Entry(req.op) /\ local'[w].op = req.op
    BY <1>0, <2>1 DEF Goto, Types, Shape, Locals
  <2>3. req.op = "memsize" => Entry(req.op) = "space_used"
    BY DEF Entry
  <2>4. answer' = answer
    BY <1>3 DEF Receive
  <2>5. \A v \in Workers : Reported(v)'
    BY <1>0, <2>2, <2>3, OtherReports DEF Reports
  <2> QED BY <1>0, <2>4, <2>5 DEF Reports, MemsizeBounded
<1>4. ASSUME NEW w \in Workers, Call(w), fault = "none" PROVE Reports'
  <2>1. UNCHANGED <<answer, overlapped>> /\ CallStep(w)
    BY <1>4 DEF Call, serverVars
  <2>2. CASE SpaceUsed(w)
    <3>1. \A v \in Workers : Reported(v)'
      BY <1>0, <1>4, <2>2, SpaceUsedReports
    <3> QED BY <1>0, <2>1, <3>1 DEF Reports, MemsizeBounded
  <2>3. CASE SetStep(w) \/ DelStep(w) \/ GetStep(w)
    <3>1. pc[w] \in SetPCs \cup DelPCs \cup GetPCs
      BY <2>3 DEF SetStep, SetCheck, SetLookup, SetFree, SetRem, SetLoadLess, SetStoreLess,
         SetAlloc, SetLoadMore, SetStoreMore, SetEnqueue, SetLoop, SetHead, ListRem, FreeValue,
         LoadMemused, StoreMemused, DelStep, DelLookup, DelRem, DelLoad, DelStore, DelFree,
         DelErase, GetStep, GetLookup, GetPushback, GetRead, GetErase,
         Goto, Return, Crash, SetPCs, DelPCs, GetPCs
    <3>2. local'[w].op = local[w].op /\ local[w].op \in {"put", "delete", "get"}
      BY <1>0, <2>1, <3>1, Whose, CallKeepsRequest
    <3> QED BY <1>0, <1>2, <2>1, <3>2, CallMoves
  <2> QED BY <2>1, <2>2, <2>3 DEF CallStep
<1>5. ASSUME NEW w \in Workers, Handle(w), ~ Call(w) PROVE Reports'
  <2>1. ASSUME NEW status, NEW body, Answer(w, status, body), local[w].op = "memsize" => body = local[w].ret
        PROVE  Reports'
    BY <1>0, <2>1, AnswerReports DEF Reports, Answer
  <2>2. CASE Shutdown(w)
    <3>1. pc[w] = "stopping" /\ pc' = [pc EXCEPT ![w] = "returned"] /\ UNCHANGED <<local, answer, overlapped>>
      BY <2>2 DEF Shutdown, Goto
    <3>2. local[w].op = "shutdown"
      BY <1>0, <3>1, Whose
    <3> QED BY <1>0, <1>2, <3>1, <3>2 DEF Types, Shape
  <2>3. CASE AnswerGet(w)
    <3>1. CASE \E status, body : Answer(w, status, body)
      BY <2>1, <2>3, <3>1 DEF AnswerGet
    <3>2. CASE Crash("stale_read") /\ UNCHANGED <<serverVars, overlapped, serial>>
      BY <1>1, <3>2 DEF Crash, serverVars
    <3> QED BY <2>3, <3>1, <3>2 DEF AnswerGet
  <2>4. CASE AnswerMemsize(w)
    BY <2>1, <2>4 DEF AnswerMemsize
  <2>5. CASE AnswerPut(w) \/ AnswerDelete(w) \/ AnswerHead(w) \/ AnswerShutdown(w)
    BY <2>1, <2>5 DEF AnswerPut, AnswerDelete, AnswerHead, AnswerShutdown
  <2> QED BY <1>5, <2>2, <2>3, <2>4, <2>5 DEF Handle
<1>6. ASSUME NEW w \in Workers, Exit(w) PROVE Reports'
  <2>1. pc' = [pc EXCEPT ![w] = "exited"] /\ UNCHANGED <<local, answer, overlapped>>
    BY <1>6 DEF Exit, Goto, serverVars
  <2> QED BY <1>0, <1>2, <2>1 DEF Types, Shape
<1>7. CASE Signal \/ Main
  BY <1>1, <1>7 DEF Signal, Main, Destroy, FreeEntry, MainExit, serverVars
<1>8. CASE UNCHANGED vars
  BY <1>1, <1>8 DEF vars, serverVars
<1> QED BY <1>3, <1>4, <1>5, <1>6, <1>7, <1>8 DEF Next

LEMMA InitReports == Init => Reports
BY DEF Init, Reports, MemsizeBounded, Reported, NoAnswer, Locals, NoRequest

\* What GET /memsize answers, also in the middle of one other call, is within
\* maxmem_ or past it by at most the size of one value that fits, for any number
\* of workers and every maxmem_ below 2^31.
THEOREM MemsizeBoundedHolds ==
    ASSUME MaxMem < SignBit
    PROVE  Spec => []MemsizeBounded
<1>1. Init => AInv /\ SerialInv /\ Reports
  BY InitAInv, InitSerialInv, InitReports
<1>2. AInv /\ SerialInv /\ Reports /\ [Next]_vars => (AInv /\ SerialInv /\ Reports)'
  BY NextAInv, NextSerialInv, NextReports
<1>3. Reports => MemsizeBounded
  BY DEF Reports, MemsizeBounded
<1> QED BY <1>1, <1>2, <1>3, PTL DEF Spec
=============================================================================
