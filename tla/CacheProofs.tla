---------------------------- MODULE CacheProofs ----------------------------
(***************************************************************************)
(* Theorems about Cache, for every set of keys and payloads, every SizeOf  *)
(* and every maxmem_ (below 2^31 where a theorem says so).                 *)
(***************************************************************************)
EXTENDS CacheLRU, QueueOpsProofs, FiniteSetTheorems

Nodes == [key : Keys, size : SInt]

-----------------------------------------------------------------------------
(* Machine integers *)

LEMMA NodesSized ==
    /\ Sized(Nodes)
    /\ \A x \in Nodes : x.key \in Keys /\ x.size \in SInt
BY SIntSized DEF Sized, Nodes

\* Sizes in the queue are machine integers whatever the queue went through.
LEMMA QueueTypes ==
    ASSUME NEW q \in Seq(Nodes), NEW k
    PROVE  /\ Rem(q, k) \in Seq(Nodes)
           /\ SizeIn(q, k) \in SInt
           /\ q # <<>> => Pushback(q, k) \in Seq(Nodes) /\ CutOff(q, k) \in Seq(Nodes)
           /\ \A u \in UInt : k \in Keys => Enqueue(q, k, u) \in Seq(Nodes)
BY ChainTypes DEF Nodes

-----------------------------------------------------------------------------
(* Type correctness *)

LEMMA StoreType ==
    ASSUME TypeOK, NEW k \in Keys, NEW p \in Payloads,
           NEW q \in Seq(Nodes), NEW used \in UInt, Store(k, p, q, used)
    PROVE  TypeOK'
<1>1. SizeOf[p] \in UInt
    BY CacheAssumption
<1>2. PlusU(used, SizeOf[p]) \in UInt /\ Enqueue(q, k, SizeOf[p]) \in Seq(Nodes)
    BY <1>1, MachineIntTypes, QueueTypes
<1> QED BY <1>2 DEF TypeOK, Store, Reply, PCs, Nodes

LEMMA ForgetType ==
    ASSUME TypeOK, NEW k \in Keys, Forget(k)
    PROVE  /\ data' \in [Keys -> Payloads \cup {Null}]
           /\ queue' \in Seq(Nodes)
           /\ memused' \in UInt
<1>1. queue \in Seq(Nodes) /\ memused \in UInt
    BY DEF TypeOK, Nodes
<1>2. Rem(queue, k) \in Seq(Nodes) /\ SizeIn(queue, k) \in SInt
    BY <1>1, QueueTypes
<1>3. MinusU(memused, AsUInt(SizeIn(queue, k))) \in UInt
    BY <1>1, <1>2, MachineIntTypes
<1> QED BY <1>1, <1>2, <1>3 DEF Forget, TypeOK

LEMMA InitType == Init => TypeOK
<1>1. <<>> \in Seq([key : Keys, size : SInt])
    OBVIOUS
<1> QED BY <1>1, SIntSized DEF Init, TypeOK, NoCall, Reply, PCs

\* Every step keeps the types.
LEMMA NextType == TypeOK /\ [Next]_vars => TypeOK'
<1> SUFFICES ASSUME TypeOK, [Next]_vars PROVE TypeOK'
    OBVIOUS
<1> USE DEF PCs
<1>0. /\ queue \in Seq(Nodes) /\ orphans \in Seq(Nodes) /\ memused \in UInt
      /\ SizeOf \in [Payloads -> UInt] /\ UInt \subseteq Int
    BY CacheAssumption, SIntSized DEF TypeOK, Nodes
<1>1. ASSUME Segfault PROVE TypeOK'
    BY <1>1 DEF TypeOK, Segfault
<1>2. ASSUME NEW k \in Keys, NEW p \in Payloads, Set(k, p) PROVE TypeOK'
    <2>1. CASE SetTooLarge(k, p)
        BY <2>1 DEF SetTooLarge, TypeOK, Reply
    <2>2. CASE SetNew(k, p)
        <3>1. Store(k, p, queue, memused)
            BY <2>2 DEF SetNew
        <3> QED BY <3>1, <1>0, StoreType
    <2>3. CASE SetOverwrite(k, p)
        <3>1. Rem(queue, k) \in Seq(Nodes) /\ SizeIn(queue, k) \in SInt
            BY <1>0, QueueTypes
        <3>2. MinusU(memused, AsUInt(SizeIn(queue, k))) \in UInt
            BY <1>0, <3>1, MachineIntTypes
        <3>3. Store(k, p, Rem(queue, k), MinusU(memused, AsUInt(SizeIn(queue, k))))
            BY <2>3 DEF SetOverwrite
        <3> QED BY <3>1, <3>2, <3>3, StoreType
    <2>4. CASE SetSegfault(k, p)
        BY <2>4, <1>1 DEF SetSegfault
    <2> QED BY <1>2, <2>1, <2>2, <2>3, <2>4 DEF Set
<1>3. ASSUME NEW k \in Keys, Get(k) PROVE TypeOK'
    <2>1. CASE GetMiss(k)
        BY <2>1 DEF GetMiss, TypeOK, Reply, Untouched
    <2>2. CASE GetHit(k)
        <3>1. queue # <<>>
            BY <2>2 DEF GetHit
        <3>2. Pushback(queue, k) \in Seq(Nodes) /\ CutOff(queue, k) \in Seq(Nodes)
            BY <1>0, <3>1, QueueTypes
        <3>3. orphans \o CutOff(queue, k) \in Seq(Nodes)
            BY <1>0, <3>2, ConcatProperties
        <3>4. AsUInt(SizeIn(queue, k)) \in Int
            <4>1. SizeIn(queue, k) \in SInt
                BY <1>0, QueueTypes
            <4> QED BY <1>0, <4>1, MachineIntTypes
        <3> QED BY <2>2, <3>2, <3>3, <3>4 DEF GetHit, TypeOK, Reply, Nodes
    <2>3. CASE GetCorrupts(k)
        BY <2>3 DEF GetCorrupts, TypeOK
    <2>4. CASE GetSegfault(k)
        BY <2>4, <1>1 DEF GetSegfault
    <2> QED BY <1>3, <2>1, <2>2, <2>3, <2>4 DEF Get
<1>4. ASSUME NEW k \in Keys, Del(k) PROVE TypeOK'
    <2>1. CASE DelMiss(k)
        <3>1. Forget(k)
            BY <2>1 DEF DelMiss
        <3>2. data' \in [Keys -> Payloads \cup {Null}] /\ queue' \in Seq(Nodes) /\ memused' \in UInt
            BY <3>1, ForgetType
        <3> QED BY <2>1, <3>2 DEF DelMiss, TypeOK, Reply, Nodes
    <2>2. CASE DelHit(k)
        <3>1. Forget(k)
            BY <2>2 DEF DelHit
        <3>2. data' \in [Keys -> Payloads \cup {Null}] /\ queue' \in Seq(Nodes) /\ memused' \in UInt
            BY <3>1, ForgetType
        <3> QED BY <2>2, <3>2 DEF DelHit, TypeOK, Reply, Nodes
    <2>3. CASE DelSegfault(k)
        BY <2>3, <1>1 DEF DelSegfault
    <2> QED BY <1>4, <2>1, <2>2, <2>3 DEF Del
<1>5. CASE SpaceUsed
    BY <1>5, <1>0 DEF SpaceUsed, TypeOK, Reply
<1>6. CASE Evict
    <2>1. CASE Segfault
        BY <2>1, <1>1
    <2>2. CASE queue # <<>> /\ Forget(Head(queue).key) /\ UNCHANGED <<orphans, pc, call>>
        <3>1. Head(queue).key \in Keys
            BY <2>2, <1>0, HeadTailProperties, NodesSized
        <3> QED BY <2>2, <3>1, ForgetType DEF TypeOK, Nodes
    <2> QED BY <1>6, <2>1, <2>2 DEF Evict
<1>7. CASE SetReturn
    BY <1>7 DEF SetReturn, TypeOK
<1>8. CASE Destroy
    BY <1>8 DEF Destroy, TypeOK
<1>9. ASSUME NEW k \in Keys, FreeEntry(k) PROVE TypeOK'
    <2>1. Rem(queue, k) \in Seq(Nodes)
        BY <1>0, QueueTypes
    <2> QED BY <1>9, <1>1, <2>1 DEF FreeEntry, TypeOK, Nodes
<1>10. CASE DestroyReturn
    BY <1>10 DEF DestroyReturn, TypeOK
<1>11. CASE UNCHANGED vars
    BY <1>11 DEF TypeOK, vars
<1> QED
    BY <1>2, <1>3, <1>4, <1>5, <1>6, <1>7, <1>8, <1>9, <1>10, <1>11 DEF Next

\* In every state the variables have their types: above all, memused_ and the
\* sizes in the queue stay within their 32 bits, for every maxmem_.
THEOREM TypeCorrect == Spec => []TypeOK
BY InitType, NextType, PTL DEF Spec

-----------------------------------------------------------------------------
(***************************************************************************)
(* The inductive invariant, for maxmem_ below 2^31.  What is said of the   *)
(* chain by position in Cache is said here of its set of nodes.            *)
(***************************************************************************)
Running == pc \in {"idle", "evicting", "destroying"}

ChargeOf(k) == [key |-> k, size |-> SizeOf[data[k]]]

\* Only values that fit are ever stored, so no size is changed by narrowing.
StoredFit == Running => \A k \in Keys : data[k] # Null => SizeOf[data[k]] <= MaxMem

\* The nodes of the chain are the charges of stored values, one per key ...
ChainIsCharges ==
    Running => /\ KeysDistinct(queue)
               /\ \A x \in NodesOf(queue) : data[x.key] # Null /\ x = ChargeOf(x.key)

\* ... and every stored value has its charge in the chain or cut off from it.
ChargesKept ==
    Running => \A k \in Keys : data[k] # Null =>
                  ChargeOf(k) \in NodesOf(queue) \cup NodesOf(orphans)

SizesNatural == \A x \in NodesOf(queue) \cup NodesOf(orphans) : x.size >= 0

IdleFits == pc = "idle" => memused <= MaxMem

\* While the eviction loop runs, the value just stored is at the chain's end.
NewestLast ==
    pc = "evicting" =>
        /\ call.op = "set" /\ call.key \in Keys
        /\ orphans = <<>> => /\ queue # <<>>
                             /\ queue[Len(queue)].key = call.key
                             /\ data[call.key] = call.val

IInv ==
    /\ TypeOK
    /\ StoredFit
    /\ ChainIsCharges
    /\ ChargesKept
    /\ SizesNatural
    /\ Accounting
    /\ OrphansFit
    /\ IdleFits
    /\ NewestLast
    /\ SegfaultNeedsOrphans
    /\ SetStores
    /\ GetSizeRight
    /\ CleanShutdown

-----------------------------------------------------------------------------
(* Below 2^31 nothing is narrowed and nothing wraps *)

LEMMA NoWrap ==
    ASSUME MaxMem < SignBit
    PROVE  /\ \A u \in 0 .. MaxMem : AsInt(u) = u
           /\ \A i \in Nat : AsUInt(i) = i
           /\ \A a, b \in 0 .. MaxMem : PlusU(a, b) = a + b
           /\ \A a, b \in Nat : b <= a => MinusU(a, b) = a - b
<1>1. MaxMem \in Nat /\ SignBit \in Nat
    BY CacheAssumption, SignBitAssumption, SIntSized
<1>2. ASSUME NEW a \in 0 .. MaxMem, NEW b \in 0 .. MaxMem PROVE PlusU(a, b) = a + b
    BY <1>1 DEF PlusU
<1> QED BY <1>1, <1>2 DEF AsInt, AsUInt, MinusU

\* The state as the other lemmas use it.
LEMMA StateFacts ==
    ASSUME IInv
    PROVE  /\ queue \in Seq(Nodes) /\ orphans \in Seq(Nodes)
           /\ NodesOf(queue) \subseteq Nodes /\ NodesOf(orphans) \subseteq Nodes
           /\ Bytes(queue) \in Nat /\ Bytes(orphans) \in Nat
           /\ memused \in Nat /\ MaxMem \in Nat
           /\ data \in [Keys -> Payloads \cup {Null}]
           /\ \A k \in Keys : data[k] # Null => SizeOf[data[k]] \in Nat
<1>1. queue \in Seq(Nodes) /\ orphans \in Seq(Nodes) /\ memused \in UInt
      /\ data \in [Keys -> Payloads \cup {Null}]
    BY DEF IInv, TypeOK, Nodes
<1>2. /\ \A j \in 1 .. Len(queue) : queue[j].size >= 0
      /\ \A j \in 1 .. Len(orphans) : orphans[j].size >= 0
    BY DEF IInv, SizesNatural, NodesOf
<1>3. Bytes(queue) \in Int /\ Bytes(queue) >= 0 /\ Bytes(orphans) \in Int /\ Bytes(orphans) >= 0
    BY <1>1, <1>2, NodesSized, BytesType
<1>4. NodesOf(queue) \subseteq Nodes /\ NodesOf(orphans) \subseteq Nodes
    BY <1>1, SomeNode
<1>5. \A u \in UInt : u \in Nat
    BY SIntSized
<1>6. \A k \in Keys : data[k] # Null => SizeOf[data[k]] \in Nat
    <2>1. \A p \in Payloads : SizeOf[p] \in Nat
        BY <1>5, CacheAssumption
    <2> QED BY <1>1, <2>1
<1>7. memused \in Nat /\ MaxMem \in Nat
    BY <1>1, <1>5, CacheAssumption
<1>8. Bytes(queue) \in Nat /\ Bytes(orphans) \in Nat
    BY <1>3
<1> QED BY <1>1, <1>4, <1>6, <1>7, <1>8

\* Taking key k out of the chain: what rem leaves, what it returns, and the
\* counter after the subtraction.
LEMMA RemStep ==
    ASSUME MaxMem < SignBit, IInv, Running, NEW k \in Keys
    PROVE  /\ Rem(queue, k) \in Seq(Nodes)
           /\ KeysDistinct(Rem(queue, k))
           /\ NodesOf(Rem(queue, k)) = {x \in NodesOf(queue) : x.key # k}
           /\ Bytes(Rem(queue, k)) \in Nat
           /\ SizeIn(queue, k) \in Nat
           /\ Live => /\ MinusU(memused, AsUInt(SizeIn(queue, k)))
                            = Bytes(Rem(queue, k)) + Bytes(orphans)
                      /\ Bytes(Rem(queue, k)) + Bytes(orphans) <= memused
<1>1. queue \in Seq(Nodes) /\ Bytes(queue) \in Nat /\ Bytes(orphans) \in Nat /\ memused \in Nat
    BY StateFacts
<1>2. KeysDistinct(queue)
    BY DEF IInv, ChainIsCharges
<1>3. /\ Rem(queue, k) \in Seq(Nodes)
      /\ SizeIn(queue, k) \in Int
      /\ Bytes(Rem(queue, k)) = Bytes(queue) - SizeIn(queue, k)
      /\ KeysDistinct(Rem(queue, k))
      /\ NodesOf(Rem(queue, k)) = {x \in NodesOf(queue) : x.key # k}
    BY <1>1, <1>2, NodesSized, RemProperties
<1>4. SizeIn(queue, k) >= 0 /\ SizeIn(queue, k) <= Bytes(queue)
    <2>1. \A j \in 1 .. Len(queue) : queue[j].size >= 0
        BY DEF IInv, SizesNatural, NodesOf
    <2>2. \A j \in 1 .. Len(queue) : queue[j].size <= Bytes(queue)
        BY <1>1, <2>1, NodesSized, SizeAtMostBytes
    <2>3. \/ SizeIn(queue, k) = 0
          \/ \E j \in 1 .. Len(queue) : queue[j].key = k /\ SizeIn(queue, k) = queue[j].size
        BY <1>1, SizeInProperties
    <2> QED BY <1>1, <2>1, <2>2, <2>3
<1>5. SizeIn(queue, k) \in Nat /\ Bytes(Rem(queue, k)) \in Nat
    BY <1>1, <1>3, <1>4
<1>6. ASSUME Live
      PROVE  /\ MinusU(memused, AsUInt(SizeIn(queue, k))) = Bytes(Rem(queue, k)) + Bytes(orphans)
             /\ Bytes(Rem(queue, k)) + Bytes(orphans) <= memused
    <2>1. memused = Bytes(queue) + Bytes(orphans)
        BY <1>6 DEF IInv, Accounting
    <2>2. AsUInt(SizeIn(queue, k)) = SizeIn(queue, k)
        BY <1>5, NoWrap
    <2>3. SizeIn(queue, k) <= memused
        BY <1>1, <1>3, <1>4, <2>1
    <2>4. MinusU(memused, SizeIn(queue, k)) = memused - SizeIn(queue, k)
        BY <1>1, <1>5, <2>3, NoWrap
    <2> QED BY <1>1, <1>3, <1>4, <2>1, <2>2, <2>4
<1> QED BY <1>3, <1>5, <1>6

-----------------------------------------------------------------------------
(* One lemma per kind of step *)

LEMMA InitIInv == Init => IInv
<1> SUFFICES ASSUME Init PROVE IInv
    OBVIOUS
<1>1. TypeOK
    BY InitType
<1>2. MaxMem \in Nat
    BY CacheAssumption, SIntSized
<1>3. /\ queue = <<>> /\ orphans = <<>> /\ memused = 0 /\ pc = "idle"
      /\ call.op = "none" /\ \A k \in Keys : data[k] = Null
    BY DEF Init, NoCall, Reply
<1> QED
    BY <1>1, <1>2, <1>3, EmptyChain
    DEF IInv, StoredFit, ChainIsCharges, ChargesKept, SizesNatural, Accounting, OrphansFit,
        IdleFits, NewestLast, SegfaultNeedsOrphans, SetStores, GetSizeRight, CleanShutdown

\* A segfault on a NULL head happens under a stored value, whose charge must
\* then have been cut off.
LEMMA SegfaultStep ==
    ASSUME IInv, TypeOK', Segfault, orphans # <<>>
    PROVE  IInv'
BY DEF IInv, Segfault, Running, Live, StoredFit, ChainIsCharges, ChargesKept, SizesNatural,
       Accounting, OrphansFit, IdleFits, NewestLast, SegfaultNeedsOrphans, SetStores,
       GetSizeRight, CleanShutdown

LEMMA EmptyUnderValue ==
    ASSUME IInv, Running, queue = <<>>, NEW k \in Keys, data[k] # Null
    PROVE  orphans # <<>>
BY EmptyChain DEF IInv, ChargesKept

\* set stores p under k on top of a chain q that has no node of k.
LEMMA StoreStep ==
    ASSUME MaxMem < SignBit, IInv, TypeOK', pc = "idle",
           NEW k \in Keys, NEW p \in Payloads, SizeOf[p] <= MaxMem,
           NEW q \in Seq(Nodes), KeysDistinct(q),
           NodesOf(q) = {x \in NodesOf(queue) : x.key # k},
           Bytes(q) \in Nat, Bytes(q) + Bytes(orphans) <= memused,
           Store(k, p, q, Bytes(q) + Bytes(orphans))
    PROVE  IInv'
<1> DEFINE n == [key |-> k, size |-> SizeOf[p]]
<1>1. /\ MaxMem \in Nat /\ memused \in Nat /\ Bytes(orphans) \in Nat /\ memused <= MaxMem
      /\ data \in [Keys -> Payloads \cup {Null}]
    BY StateFacts DEF IInv, IdleFits
<1>2. SizeOf[p] \in 0 .. MaxMem
    <2>1. SizeOf[p] \in UInt /\ \A u \in UInt : u \in Nat
        BY CacheAssumption, SIntSized
    <2> QED BY <1>1, <2>1
<1>3. /\ data' = [data EXCEPT ![k] = p] /\ p # Null
      /\ queue' = Append(q, n)
      /\ pc' = "evicting" /\ orphans' = orphans
      /\ call'.op = "set" /\ call'.key = k /\ call'.val = p
    BY <1>2, NoWrap, CacheAssumption DEF Store, Enqueue, Reply
<1>4. memused' = (Bytes(q) + Bytes(orphans)) + SizeOf[p]
    <2>1. Bytes(q) + Bytes(orphans) \in 0 .. MaxMem
        BY <1>1
    <2> QED BY <1>2, <2>1, NoWrap DEF Store
<1>5. n \in Nodes
    BY <1>1, <1>2, SignBitAssumption DEF Nodes, SInt
<1>6. /\ Bytes(queue') = Bytes(q) + SizeOf[p]
      /\ NodesOf(queue') = NodesOf(q) \cup {n}
      /\ KeysDistinct(queue')
    <2>1. Bytes(Append(q, n)) = Bytes(q) + n.size
        BY <1>5, NodesSized, BytesAppend
    <2>2. /\ NodesOf(Append(q, n)) = NodesOf(q) \cup {n}
          /\ KeysDistinct(q) /\ (\A y \in NodesOf(q) : y.key # n.key) => KeysDistinct(Append(q, n))
        BY <1>5, NodesOfAppend
    <2> QED BY <1>3, <2>1, <2>2
<1>7. Bytes(q) \in Int /\ Bytes(orphans) \in Int /\ SizeOf[p] \in Int
    BY <1>1, <1>2
<1>8. \A j \in Keys : j # k => data'[j] = data[j] /\ ChargeOf(j)' = ChargeOf(j)
    BY <1>1, <1>3 DEF ChargeOf
<1>9. data'[k] = p /\ ChargeOf(k)' = n
    BY <1>1, <1>3 DEF ChargeOf
<1>10. StoredFit'
    BY <1>2, <1>8, <1>9 DEF IInv, StoredFit, Running
<1>11. ChainIsCharges'
    <2> SUFFICES ASSUME NEW x \in NodesOf(queue')
                 PROVE  data'[x.key] # Null /\ x = ChargeOf(x.key)'
        BY <1>6 DEF ChainIsCharges
    <2>1. CASE x = n
        BY <1>3, <1>9, <2>1
    <2>2. CASE x \in NodesOf(queue) /\ x.key # k
        <3>1. x.key \in Keys
            BY <2>2, StateFacts, NodesSized
        <3>2. data[x.key] # Null /\ x = ChargeOf(x.key)
            BY <2>2 DEF IInv, ChainIsCharges, Running
        <3> QED BY <2>2, <3>1, <3>2, <1>8
    <2> QED BY <1>6, <2>1, <2>2
<1>12. ChargesKept'
    <2> SUFFICES ASSUME NEW j \in Keys, data'[j] # Null
                 PROVE  ChargeOf(j)' \in NodesOf(queue') \cup NodesOf(orphans')
        BY DEF ChargesKept
    <2>1. CASE j = k
        BY <1>6, <1>9, <2>1
    <2>2. CASE j # k
        <3>1. ChargeOf(j)' = ChargeOf(j) /\ ChargeOf(j) \in NodesOf(queue) \cup NodesOf(orphans)
            BY <1>8, <2>2 DEF IInv, ChargesKept, Running
        <3>2. ChargeOf(j).key = j
            BY DEF ChargeOf
        <3> QED BY <1>3, <1>6, <2>2, <3>1, <3>2
    <2> QED BY <2>1, <2>2
<1>13. SizesNatural'
    BY <1>2, <1>3, <1>6 DEF IInv, SizesNatural
<1>14. Accounting'
    BY <1>3, <1>4, <1>6, <1>7 DEF Accounting
<1>15. OrphansFit'
    BY <1>1, <1>3 DEF IInv, OrphansFit, Live
<1>16. NewestLast'
    <2>1. queue' # <<>> /\ queue'[Len(queue')] = n
        BY <1>3, <1>5, AppendProperties
    <2> QED BY <1>3, <1>9, <2>1 DEF NewestLast
<1>17. IdleFits' /\ SegfaultNeedsOrphans' /\ SetStores' /\ GetSizeRight' /\ CleanShutdown'
    BY <1>3 DEF IdleFits, SegfaultNeedsOrphans, SetStores, GetSizeRight, CleanShutdown
<1> QED BY <1>10, <1>11, <1>12, <1>13, <1>14, <1>15, <1>16, <1>17 DEF IInv

\* Key k leaves the map and the chain together.
LEMMA DropStep ==
    ASSUME MaxMem < SignBit, IInv, Running, NEW k \in Keys,
           data' = [data EXCEPT ![k] = Null],
           queue' = Rem(queue, k),
           orphans' = orphans
    PROVE  StoredFit' /\ ChainIsCharges' /\ ChargesKept' /\ SizesNatural'
<1>1. data \in [Keys -> Payloads \cup {Null}]
    BY StateFacts
<1>2. KeysDistinct(queue') /\ NodesOf(queue') = {x \in NodesOf(queue) : x.key # k}
    BY RemStep
<1>3. /\ data'[k] = Null
      /\ \A j \in Keys : j # k => data'[j] = data[j] /\ ChargeOf(j)' = ChargeOf(j)
    BY <1>1 DEF ChargeOf
<1>4. StoredFit'
    BY <1>3 DEF IInv, StoredFit
<1>5. ChainIsCharges'
    <2> SUFFICES ASSUME NEW x \in NodesOf(queue), x.key # k
                 PROVE  data'[x.key] # Null /\ x = ChargeOf(x.key)'
        BY <1>2 DEF ChainIsCharges
    <2>1. x.key \in Keys
        BY StateFacts, NodesSized
    <2>2. data[x.key] # Null /\ x = ChargeOf(x.key)
        BY DEF IInv, ChainIsCharges
    <2> QED BY <1>3, <2>1, <2>2
<1>6. ChargesKept'
    <2> SUFFICES ASSUME NEW j \in Keys, data'[j] # Null
                 PROVE  ChargeOf(j)' \in NodesOf(queue') \cup NodesOf(orphans')
        BY DEF ChargesKept
    <2>1. j # k /\ data[j] # Null /\ ChargeOf(j)' = ChargeOf(j)
        BY <1>3
    <2>2. ChargeOf(j) \in NodesOf(queue) \cup NodesOf(orphans)
        BY <2>1 DEF IInv, ChargesKept
    <2>3. ChargeOf(j).key = j
        BY DEF ChargeOf
    <2> QED BY <1>2, <2>1, <2>2, <2>3
<1>7. SizesNatural'
    BY <1>2 DEF IInv, SizesNatural
<1> QED BY <1>4, <1>5, <1>6, <1>7

\* What del does to the cache, called from outside or by the eviction loop.
LEMMA ForgetStep ==
    ASSUME MaxMem < SignBit, IInv, Live, NEW k \in Keys, Forget(k),
           orphans' = orphans, pc' = pc
    PROVE  /\ StoredFit' /\ ChainIsCharges' /\ ChargesKept' /\ SizesNatural'
           /\ Accounting' /\ OrphansFit'
           /\ memused' <= memused
<1>1. /\ memused \in Nat /\ data \in [Keys -> Payloads \cup {Null}]
      /\ Running /\ Bytes(orphans) <= MaxMem
    BY StateFacts DEF Live, Running, IInv, OrphansFit
<1>2. OrphansFit'
    BY <1>1 DEF OrphansFit
<1>3. CASE data[k] = Null
    <2>1. data' = data /\ queue' = queue /\ memused' = memused
        BY <1>1, <1>3 DEF Forget
    <2> QED
        BY <1>1, <1>2, <2>1
        DEF IInv, StoredFit, ChainIsCharges, ChargesKept, SizesNatural, Accounting,
            Running, Live, ChargeOf
<1>4. CASE data[k] # Null
    <2>1. /\ data' = [data EXCEPT ![k] = Null] /\ queue' = Rem(queue, k)
          /\ memused' = MinusU(memused, AsUInt(SizeIn(queue, k)))
        BY <1>4 DEF Forget
    <2>2. StoredFit' /\ ChainIsCharges' /\ ChargesKept' /\ SizesNatural'
        BY <1>1, <2>1, DropStep
    <2>3. memused' = Bytes(queue') + Bytes(orphans) /\ memused' <= memused
        BY <1>1, <2>1, RemStep
    <2>4. Accounting'
        BY <2>3 DEF Accounting
    <2> QED BY <1>2, <2>2, <2>3, <2>4
<1> QED BY <1>3, <1>4

\* A call that changes neither map, queue nor counter.
LEMMA ReadStep ==
    ASSUME IInv, TypeOK', pc = "idle", UNCHANGED <<data, queue, orphans, memused, pc>>,
           SetStores', GetSizeRight'
    PROVE  IInv'
BY DEF IInv, Running, Live, StoredFit, ChainIsCharges, ChargesKept, SizesNatural,
       Accounting, OrphansFit, IdleFits, NewestLast, SegfaultNeedsOrphans, CleanShutdown,
       ChargeOf

\* The eviction loop has a head to evict: with the chain empty the counter is
\* what was cut off, and that fits.
LEMMA EvictHasHead ==
    ASSUME IInv, pc = "evicting", memused > MaxMem
    PROVE  queue # <<>>
<1>1. memused = Bytes(queue) + Bytes(orphans) /\ Bytes(orphans) <= MaxMem
    BY DEF IInv, Accounting, OrphansFit, Live
<1>2. MaxMem \in Nat /\ Bytes(orphans) \in Nat
    BY StateFacts
<1> QED BY <1>1, <1>2, EmptyChain

LEMMA EvictStep ==
    ASSUME MaxMem < SignBit, IInv, TypeOK', Evict
    PROVE  IInv'
<1>1. pc = "evicting" /\ memused > MaxMem /\ queue # <<>>
    BY EvictHasHead DEF Evict
<1>2. Forget(Head(queue).key) /\ UNCHANGED <<orphans, pc, call>>
    BY <1>1 DEF Evict
<1>3. queue \in Seq(Nodes) /\ Head(queue).key \in Keys /\ Head(queue) \in NodesOf(queue)
    <2>1. queue \in Seq(Nodes)
        BY StateFacts
    <2>2. Head(queue) = queue[1] /\ 1 \in 1 .. Len(queue)
        BY <1>1, <2>1, EmptySeq
    <2> QED BY <2>1, <2>2, ElementOfSeq, NodesSized DEF NodesOf
<1>4. /\ StoredFit' /\ ChainIsCharges' /\ ChargesKept' /\ SizesNatural'
      /\ Accounting' /\ OrphansFit'
    BY <1>1, <1>2, <1>3, ForgetStep DEF Live
<1>5. NewestLast'
    <2> SUFFICES ASSUME orphans = <<>>
                 PROVE  /\ queue' # <<>>
                        /\ queue'[Len(queue')].key = call.key
                        /\ data'[call.key] = call.val
        BY <1>1, <1>2 DEF IInv, NewestLast
    <2> DEFINE h == Head(queue)
    <2>1. /\ call.key \in Keys /\ queue[Len(queue)].key = call.key
          /\ data[call.key] = call.val
        BY <1>1 DEF IInv, NewestLast
    <2>2. data[h.key] # Null /\ h.size = SizeOf[data[h.key]] /\ h.size <= MaxMem
        <3>1. data[h.key] # Null /\ h = ChargeOf(h.key)
            BY <1>1, <1>3 DEF IInv, ChainIsCharges, Running
        <3>2. h.size = SizeOf[data[h.key]]
            BY <3>1 DEF ChargeOf
        <3> QED BY <1>1, <1>3, <3>1, <3>2 DEF IInv, StoredFit, Running
    <2>3. queue' = Rem(queue, h.key) /\ data' = [data EXCEPT ![h.key] = Null]
        BY <1>2, <2>2 DEF Forget
    <2>4. /\ Len(queue') = Len(queue) - 1
          /\ \A j \in 1 .. Len(queue) - 1 : queue'[j] = queue[j+1]
          /\ SizeIn(queue, h.key) = h.size
        BY <1>1, <1>3, <2>3, RemHead
    <2>5. Len(queue) \in Nat /\ Len(queue) > 1
        <3>1. Len(queue) \in Nat \ {0}
            BY <1>1, <1>3, EmptySeq
        <3>2. CASE Len(queue) = 1
            <4>1. queue = <<h>>
                BY <1>3, <3>2
            <4>2. h.size \in Int
                BY <1>3, StateFacts, NodesSized, SIntSized
            <4>3. Bytes(queue) = h.size
                BY <4>1, <4>2, BytesSingle, Zenon
            <4>4. memused = Bytes(queue) + Bytes(orphans) /\ Bytes(orphans) = 0
                BY <1>1, EmptyChain DEF IInv, Accounting, Live
            <4>5. MaxMem \in Nat
                BY StateFacts
            <4> QED BY <1>1, <2>2, <4>2, <4>3, <4>4, <4>5
        <3> QED BY <3>1, <3>2
    <2>6. queue' # <<>>
        BY <2>4, <2>5
    <2>7. queue'[Len(queue')] = queue[Len(queue)]
        <3>1. Len(queue) - 1 \in 1 .. Len(queue) - 1 /\ (Len(queue) - 1) + 1 = Len(queue)
            BY <2>5
        <3> QED BY <2>4, <3>1
    <2>8. h.key # call.key
        <3>1. KeysDistinct(queue) /\ queue[1] = h
            BY <1>1, <1>3 DEF IInv, ChainIsCharges, Running
        <3>2. ASSUME NEW n \in Nat, n > 1
              PROVE  1 \in 1 .. n /\ n \in 1 .. n /\ n # 1
            BY <3>2
        <3>3. 1 \in 1 .. Len(queue) /\ Len(queue) \in 1 .. Len(queue) /\ Len(queue) # 1
            BY <2>5, <3>2
        <3> QED BY <2>1, <3>1, <3>3 DEF KeysDistinct
    <2>9. data \in [Keys -> Payloads \cup {Null}]
        BY StateFacts
    <2> QED BY <2>1, <2>3, <2>6, <2>7, <2>8, <2>9
<1>6. IdleFits' /\ SegfaultNeedsOrphans' /\ SetStores' /\ GetSizeRight' /\ CleanShutdown'
    BY <1>1, <1>2 DEF IdleFits, SegfaultNeedsOrphans, SetStores, GetSizeRight, CleanShutdown
<1> QED BY <1>4, <1>5, <1>6 DEF IInv

\* get of a stored key, when pushback survives.
LEMMA GetHitStep ==
    ASSUME MaxMem < SignBit, IInv, TypeOK', pc = "idle", NEW k \in Keys, GetHit(k)
    PROVE  IInv'
<1>1. /\ data[k] # Null /\ queue # <<>>
      /\ queue' = Pushback(queue, k) /\ orphans' = orphans \o CutOff(queue, k)
      /\ call'.op = "get" /\ call'.val = data[k]
      /\ call'.num = AsUInt(SizeIn(queue, k))
      /\ UNCHANGED <<data, memused, pc>>
    BY DEF GetHit, Reply
<1>2. /\ queue \in Seq(Nodes) /\ orphans \in Seq(Nodes)
      /\ Bytes(queue) \in Nat /\ Bytes(orphans) \in Nat /\ memused \in Nat /\ MaxMem \in Nat
    BY StateFacts
<1>3. /\ queue' \in Seq(Nodes) /\ CutOff(queue, k) \in Seq(Nodes)
      /\ Bytes(queue') + Bytes(CutOff(queue, k)) = Bytes(queue)
      /\ NodesOf(queue') \cup NodesOf(CutOff(queue, k)) = NodesOf(queue)
      /\ KeysDistinct(queue')
    <2>1. KeysDistinct(queue)
        BY DEF IInv, ChainIsCharges, Running
    <2> QED BY <1>1, <1>2, <2>1, NodesSized, PushbackProperties
<1>4. /\ Bytes(orphans') = Bytes(orphans) + Bytes(CutOff(queue, k))
      /\ NodesOf(orphans') = NodesOf(orphans) \cup NodesOf(CutOff(queue, k))
    BY <1>1, <1>2, <1>3, NodesSized, BytesConcat, NodesOfConcat
<1>5. NodesOf(queue') \cup NodesOf(orphans') = NodesOf(queue) \cup NodesOf(orphans)
    BY <1>3, <1>4
<1>6. \A j : ChargeOf(j)' = ChargeOf(j)
    BY <1>1 DEF ChargeOf
<1>7. StoredFit' /\ ChainIsCharges' /\ ChargesKept' /\ SizesNatural'
    BY <1>1, <1>3, <1>5, <1>6
    DEF IInv, StoredFit, ChainIsCharges, ChargesKept, SizesNatural, Running
<1>8. Bytes(queue') \in Int /\ Bytes(CutOff(queue, k)) \in Int /\ Bytes(queue') >= 0
    <2>1. \A j \in 1 .. Len(queue') : queue'[j].size >= 0
        BY <1>7 DEF SizesNatural, NodesOf
    <2> QED BY <1>3, <2>1, NodesSized, BytesType
<1>9. Accounting' /\ OrphansFit' /\ IdleFits'
    <2>1. memused = Bytes(queue) + Bytes(orphans) /\ memused <= MaxMem
        BY DEF IInv, Accounting, IdleFits, Live
    <2>2. memused' = Bytes(queue') + Bytes(orphans') /\ Bytes(orphans') <= MaxMem
        BY <1>1, <1>2, <1>3, <1>4, <1>8, <2>1
    <2> QED BY <1>1, <2>1, <2>2 DEF Accounting, OrphansFit, IdleFits
<1>10. GetSizeRight'
    <2> DEFINE w == ChargeOf(k)
    <2>1. w \in NodesOf(queue) \cup NodesOf(orphans) /\ w.key = k /\ w.size = SizeOf[data[k]]
        BY <1>1 DEF IInv, ChargesKept, Running, ChargeOf
    <2>2. \/ /\ SizeIn(queue, k) = 0
             /\ \A x \in NodesOf(queue) : x.key # k
          \/ \E i \in 1 .. Len(queue) : queue[i].key = k /\ SizeIn(queue, k) = queue[i].size
        BY <1>2, SizeInProperties
    <2>3. CASE SizeIn(queue, k) = 0 /\ \A x \in NodesOf(queue) : x.key # k
        <3>1. w \in NodesOf(orphans)
            BY <2>1, <2>3
        <3>2. orphans' # <<>>
            BY <3>1, <1>4, EmptyChain
        <3>3. AsUInt(0) = 0
            BY NoWrap
        <3> QED BY <1>1, <2>3, <3>2, <3>3 DEF GetSizeRight
    <2>4. CASE \E i \in 1 .. Len(queue) : queue[i].key = k /\ SizeIn(queue, k) = queue[i].size
        <3>1. PICK i \in 1 .. Len(queue) : queue[i].key = k /\ SizeIn(queue, k) = queue[i].size
            BY <2>4
        <3>2. queue[i] \in NodesOf(queue)
            BY DEF NodesOf
        <3>3. queue[i] = ChargeOf(queue[i].key)
            BY <3>2 DEF IInv, ChainIsCharges, Running
        <3>4. SizeIn(queue, k) = SizeOf[data[k]]
            BY <2>1, <3>1, <3>3
        <3>5. SizeOf[data[k]] \in Nat
            BY <1>1, StateFacts
        <3>6. AsUInt(SizeIn(queue, k)) = SizeOf[data[k]]
            BY <3>4, <3>5, NoWrap
        <3> QED BY <1>1, <3>6 DEF GetSizeRight
    <2> QED BY <2>2, <2>3, <2>4
<1>11. NewestLast' /\ SegfaultNeedsOrphans' /\ SetStores' /\ CleanShutdown'
    BY <1>1 DEF NewestLast, SegfaultNeedsOrphans, SetStores, CleanShutdown
<1> QED BY <1>7, <1>9, <1>10, <1>11 DEF IInv

\* After a write outside the list nothing is claimed any more.
LEMMA CorruptStep ==
    ASSUME IInv, TypeOK', NEW k \in Keys, GetCorrupts(k)
    PROVE  IInv'
BY DEF IInv, GetCorrupts, Running, Live, StoredFit, ChainIsCharges, ChargesKept,
       SizesNatural, Accounting, OrphansFit, IdleFits, NewestLast, SegfaultNeedsOrphans,
       SetStores, GetSizeRight, CleanShutdown

LEMMA DelStep ==
    ASSUME MaxMem < SignBit, IInv, TypeOK', pc = "idle", NEW k \in Keys,
           DelMiss(k) \/ DelHit(k)
    PROVE  IInv'
<1>1. Forget(k) /\ UNCHANGED <<orphans, pc>> /\ call'.op = "del"
    BY DEF DelMiss, DelHit, Reply
<1>2. /\ StoredFit' /\ ChainIsCharges' /\ ChargesKept' /\ SizesNatural'
      /\ Accounting' /\ OrphansFit' /\ memused' <= memused
    BY <1>1, ForgetStep DEF Live
<1>3. memused \in Nat /\ MaxMem \in Nat /\ memused' \in Int /\ memused <= MaxMem
    BY StateFacts, SIntSized DEF TypeOK, IInv, IdleFits
<1>4. IdleFits'
    BY <1>2, <1>3 DEF IdleFits
<1>5. NewestLast' /\ SegfaultNeedsOrphans' /\ SetStores' /\ GetSizeRight' /\ CleanShutdown'
    BY <1>1 DEF NewestLast, SegfaultNeedsOrphans, SetStores, GetSizeRight, CleanShutdown
<1> QED BY <1>2, <1>4, <1>5 DEF IInv

LEMMA SetReturnStep ==
    ASSUME IInv, TypeOK', SetReturn
    PROVE  IInv'
<1>1. /\ pc = "evicting" /\ memused <= MaxMem /\ pc' = "idle"
      /\ UNCHANGED <<data, queue, orphans, memused, call>>
    BY DEF SetReturn
<1>2. SetStores' /\ GetSizeRight'
    BY <1>1 DEF IInv, NewestLast, SetStores, GetSizeRight
<1> QED
    BY <1>1, <1>2
    DEF IInv, Running, Live, StoredFit, ChainIsCharges, ChargesKept, SizesNatural,
        Accounting, OrphansFit, IdleFits, NewestLast, SegfaultNeedsOrphans, CleanShutdown,
        ChargeOf

LEMMA DestroyStep ==
    ASSUME IInv, TypeOK', Destroy
    PROVE  IInv'
BY DEF Destroy, IInv, Running, Live, StoredFit, ChainIsCharges, ChargesKept, SizesNatural,
       Accounting, OrphansFit, IdleFits, NewestLast, SegfaultNeedsOrphans, SetStores,
       GetSizeRight, CleanShutdown, ChargeOf

LEMMA FreeEntryStep ==
    ASSUME MaxMem < SignBit, IInv, TypeOK', NEW k \in Keys, FreeEntry(k)
    PROVE  IInv'
<1>1. CASE Segfault
    <2>1. orphans # <<>>
        BY <1>1, EmptyUnderValue DEF FreeEntry, Running, Segfault
    <2> QED BY <1>1, <2>1, SegfaultStep
<1>2. CASE ~ Segfault
    <2>1. /\ pc = "destroying"
          /\ data' = [data EXCEPT ![k] = Null] /\ queue' = Rem(queue, k)
          /\ UNCHANGED <<orphans, memused, pc, call>>
        BY <1>2 DEF FreeEntry
    <2>2. StoredFit' /\ ChainIsCharges' /\ ChargesKept' /\ SizesNatural'
        BY <2>1, DropStep DEF Running
    <2> QED BY <2>1, <2>2
        DEF IInv, Live, Accounting, OrphansFit, IdleFits, NewestLast,
            SegfaultNeedsOrphans, SetStores, GetSizeRight, CleanShutdown
<1> QED BY <1>1, <1>2

LEMMA DestroyReturnStep ==
    ASSUME IInv, TypeOK', DestroyReturn
    PROVE  IInv'
<1>1. /\ pc = "destroying" /\ pc' = "destroyed" /\ \A k \in Keys : data[k] = Null
      /\ UNCHANGED <<data, queue, orphans, memused, call>>
    BY DEF DestroyReturn
<1>2. queue = <<>>
    <2>1. \A x \in NodesOf(queue) : x.key \in Keys /\ data[x.key] # Null
        BY <1>1, StateFacts, NodesSized DEF IInv, ChainIsCharges, Running
    <2>2. NodesOf(queue) = {}
        BY <1>1, <2>1
    <2> QED BY <2>2, StateFacts, SomeNode
<1>3. SizesNatural'
    BY <1>1 DEF IInv, SizesNatural
<1> QED
    BY <1>1, <1>2, <1>3
    DEF IInv, Running, Live, StoredFit, ChainIsCharges, ChargesKept, Accounting, OrphansFit,
        IdleFits, NewestLast, SegfaultNeedsOrphans, SetStores, GetSizeRight, CleanShutdown

LEMMA SetStep ==
    ASSUME MaxMem < SignBit, IInv, TypeOK', pc = "idle",
           NEW k \in Keys, NEW p \in Payloads, Set(k, p)
    PROVE  IInv'
<1>1. queue \in Seq(Nodes) /\ Bytes(queue) \in Nat
    BY StateFacts
<1>2. CASE SetTooLarge(k, p)
    BY <1>2, ReadStep DEF SetTooLarge, SetStores, GetSizeRight, Reply
<1>3. CASE SetNew(k, p)
    <2>1. KeysDistinct(queue) /\ memused = Bytes(queue) + Bytes(orphans)
        BY DEF IInv, ChainIsCharges, Accounting, Running, Live
    <2>2. NodesOf(queue) = {x \in NodesOf(queue) : x.key # k}
        <3>1. \A x \in NodesOf(queue) : data[x.key] # Null
            BY DEF IInv, ChainIsCharges, Running
        <3> QED BY <3>1, <1>3 DEF SetNew
    <2>3. Store(k, p, queue, Bytes(queue) + Bytes(orphans)) /\ SizeOf[p] <= MaxMem
        BY <1>3, <2>1 DEF SetNew
    <2>4. Bytes(queue) + Bytes(orphans) <= memused
        BY <2>1, StateFacts
    <2> QED BY <1>1, <2>1, <2>2, <2>3, <2>4, StoreStep
<1>4. CASE SetOverwrite(k, p)
    <2> DEFINE q == Rem(queue, k)
    <2>1. /\ q \in Seq(Nodes) /\ KeysDistinct(q)
          /\ NodesOf(q) = {x \in NodesOf(queue) : x.key # k}
          /\ Bytes(q) \in Nat
          /\ MinusU(memused, AsUInt(SizeIn(queue, k))) = Bytes(q) + Bytes(orphans)
          /\ Bytes(q) + Bytes(orphans) <= memused
        BY RemStep DEF Running, Live
    <2>2. Store(k, p, q, Bytes(q) + Bytes(orphans)) /\ SizeOf[p] <= MaxMem
        BY <1>4, <2>1 DEF SetOverwrite
    <2> HIDE DEF q
    <2> QED BY <2>1, <2>2, StoreStep
<1>5. CASE SetSegfault(k, p)
    <2>1. orphans # <<>> /\ Segfault
        BY <1>5, EmptyUnderValue DEF SetSegfault, Running
    <2> QED BY <2>1, SegfaultStep
<1> QED BY <1>2, <1>3, <1>4, <1>5 DEF Set

-----------------------------------------------------------------------------
(* The invariant is inductive *)

LEMMA NextIInv ==
    ASSUME MaxMem < SignBit
    PROVE  IInv /\ [Next]_vars => IInv'
<1> SUFFICES ASSUME IInv, [Next]_vars PROVE IInv'
    OBVIOUS
<1>0. TypeOK'
    BY NextType DEF IInv
<1>1. ASSUME NEW k \in Keys, NEW p \in Payloads, Set(k, p) PROVE IInv'
    BY <1>0, <1>1, SetStep DEF Set
<1>2. ASSUME NEW k \in Keys, Get(k) PROVE IInv'
    <2>0. pc = "idle"
        BY <1>2 DEF Get
    <2>1. CASE GetMiss(k)
        BY <1>0, <2>0, <2>1, ReadStep DEF GetMiss, SetStores, GetSizeRight, Reply
    <2>2. CASE GetHit(k)
        BY <1>0, <2>0, <2>2, GetHitStep
    <2>3. CASE GetCorrupts(k)
        BY <1>0, <2>3, CorruptStep
    <2>4. CASE GetSegfault(k)
        BY <1>0, <2>0, <2>4, EmptyUnderValue, SegfaultStep DEF GetSegfault, Running
    <2> QED BY <1>2, <2>1, <2>2, <2>3, <2>4 DEF Get
<1>3. ASSUME NEW k \in Keys, Del(k) PROVE IInv'
    <2>0. pc = "idle"
        BY <1>3 DEF Del
    <2>1. CASE DelMiss(k) \/ DelHit(k)
        BY <1>0, <2>0, <2>1, DelStep
    <2>2. CASE DelSegfault(k)
        BY <1>0, <2>0, <2>2, EmptyUnderValue, SegfaultStep DEF DelSegfault, Running
    <2> QED BY <1>3, <2>1, <2>2 DEF Del
<1>4. CASE SpaceUsed
    BY <1>0, <1>4, ReadStep DEF SpaceUsed, SetStores, GetSizeRight, Reply
<1>5. CASE Evict
    BY <1>0, <1>5, EvictStep
<1>6. CASE SetReturn
    BY <1>0, <1>6, SetReturnStep
<1>7. CASE Destroy
    BY <1>0, <1>7, DestroyStep
<1>8. ASSUME NEW k \in Keys, FreeEntry(k) PROVE IInv'
    BY <1>0, <1>8, FreeEntryStep
<1>9. CASE DestroyReturn
    BY <1>0, <1>9, DestroyReturnStep
<1>10. CASE UNCHANGED vars
    BY <1>10
    DEF vars, IInv, TypeOK, Running, Live, StoredFit, ChainIsCharges, ChargesKept,
        SizesNatural, Accounting, OrphansFit, IdleFits, NewestLast, SegfaultNeedsOrphans,
        SetStores, GetSizeRight, CleanShutdown, ChargeOf
<1> QED
    BY <1>1, <1>2, <1>3, <1>4, <1>5, <1>6, <1>7, <1>8, <1>9, <1>10 DEF Next

LEMMA Invariance ==
    ASSUME MaxMem < SignBit
    PROVE  Spec => []IInv
BY InitIInv, NextIInv, PTL DEF Spec

-----------------------------------------------------------------------------
(* How far the counter may pass maxmem_ while the eviction loop runs *)

OneOver ==
    pc = "evicting" =>
        \E p \in Payloads : SizeOf[p] <= MaxMem /\ memused <= MaxMem + SizeOf[p]

\* Giving back the size of a key's node never wraps.
LEMMA GivesBack ==
    ASSUME MaxMem < SignBit, IInv, Live, NEW k \in Keys
    PROVE  /\ MinusU(memused, AsUInt(SizeIn(queue, k))) \in Nat
           /\ MinusU(memused, AsUInt(SizeIn(queue, k))) <= memused
<1>1. /\ MinusU(memused, AsUInt(SizeIn(queue, k))) = Bytes(Rem(queue, k)) + Bytes(orphans)
      /\ Bytes(Rem(queue, k)) \in Nat /\ Bytes(orphans) \in Nat
      /\ Bytes(Rem(queue, k)) + Bytes(orphans) <= memused
    BY RemStep, StateFacts DEF Running, Live
<1> QED BY <1>1

LEMMA NextOneOver ==
    ASSUME MaxMem < SignBit
    PROVE  IInv /\ OneOver /\ [Next]_vars => OneOver'
<1> SUFFICES ASSUME IInv, OneOver, [Next]_vars, pc' = "evicting"
             PROVE  (\E p \in Payloads : SizeOf[p] <= MaxMem /\ memused <= MaxMem + SizeOf[p])'
    BY DEF OneOver
<1>0. memused \in Nat /\ MaxMem \in Nat /\ SizeOf \in [Payloads -> Nat]
    BY StateFacts, CacheAssumption, SIntSized
<1>1. ASSUME NEW k \in Keys, NEW p \in Payloads, Set(k, p), ~ SetTooLarge(k, p)
      PROVE  SizeOf[p] <= MaxMem /\ memused' <= MaxMem + SizeOf[p]
    <2>1. pc = "idle" /\ memused <= MaxMem
        BY <1>1 DEF Set, IInv, IdleFits
    <2>2. SizeOf[p] \in 0 .. MaxMem /\ (SetNew(k, p) \/ SetOverwrite(k, p))
        BY <1>0, <1>1, <2>1 DEF Set, SetNew, SetOverwrite, SetSegfault, Segfault
    <2>3. CASE SetNew(k, p)
        <3>1. memused' = memused + SizeOf[p]
            BY <1>0, <2>1, <2>2, <2>3, NoWrap DEF SetNew, Store
        <3> QED BY <1>0, <2>1, <2>2, <3>1
    <2>4. CASE SetOverwrite(k, p)
        <3> DEFINE used == MinusU(memused, AsUInt(SizeIn(queue, k)))
        <3>1. used \in Nat /\ used <= memused
            BY <2>1, GivesBack DEF Live
        <3>2. memused' = PlusU(used, SizeOf[p])
            BY <2>4 DEF SetOverwrite, Store
        <3> HIDE DEF used
        <3>3. PlusU(used, SizeOf[p]) = used + SizeOf[p]
            BY <1>0, <2>1, <2>2, <3>1, NoWrap
        <3> QED BY <1>0, <2>1, <2>2, <3>1, <3>2, <3>3
    <2> QED BY <2>2, <2>3, <2>4
<1>2. CASE Evict
    <2>1. pc = "evicting" /\ memused' <= memused /\ memused' \in Nat
        <3>1. pc = "evicting" /\ queue # <<>> /\ Forget(Head(queue).key)
            BY <1>2 DEF Evict, Segfault
        <3>2. Head(queue).key \in Keys
            BY <3>1, StateFacts, HeadTailProperties, NodesSized
        <3> QED BY <1>0, <3>1, <3>2, GivesBack DEF Forget, Live
    <2> QED BY <1>0, <2>1 DEF OneOver
<1>3. CASE pc = "evicting" /\ memused' = memused
    BY <1>3 DEF OneOver
<1>4. pc' = pc \/ (\E k \in Keys, p \in Payloads : Set(k, p) /\ ~ SetTooLarge(k, p)) \/ Evict
    BY DEF Next, vars, Set, Get, Del, SpaceUsed, SetReturn, Destroy, FreeEntry, DestroyReturn,
           SetTooLarge, GetMiss, GetHit, GetCorrupts, GetSegfault, DelMiss, DelHit, DelSegfault,
           Segfault
<1>5. pc = "evicting" => Evict \/ memused' = memused
    BY DEF Next, vars, Set, Get, Del, SpaceUsed, SetReturn, Destroy, FreeEntry, DestroyReturn
<1> QED BY <1>1, <1>2, <1>3, <1>4, <1>5

-----------------------------------------------------------------------------
(* What follows for every execution, for every maxmem_ below 2^31 *)

\* memused_ is exactly the bytes of the chain plus those of the nodes cut off:
\* no sequence of calls leaks a charge or gives one back twice.
THEOREM AccountingHolds ==
    ASSUME MaxMem < SignBit
    PROVE  Spec => []Accounting
<1>1. IInv => Accounting
    BY DEF IInv
<1> QED BY <1>1, Invariance, PTL

\* Every node the eviction loop can meet names a stored value of its size, and
\* no key is queued twice.
THEOREM QueueIndexesDataHolds ==
    ASSUME MaxMem < SignBit
    PROVE  Spec => []QueueIndexesData
<1>1. ASSUME IInv PROVE QueueIndexesData
    <2> SUFFICES ASSUME Running
                 PROVE  /\ KeysDistinct(queue)
                        /\ \A i \in 1 .. Len(queue) :
                              /\ data[queue[i].key] # Null
                              /\ queue[i].size = AsInt(SizeOf[data[queue[i].key]])
        BY DEF QueueIndexesData, Running, KeysDistinct
    <2>1. KeysDistinct(queue)
        BY <1>1 DEF IInv, ChainIsCharges
    <2>2. ASSUME NEW i \in 1 .. Len(queue)
          PROVE  /\ data[queue[i].key] # Null
                 /\ queue[i].size = AsInt(SizeOf[data[queue[i].key]])
        <3> DEFINE x == queue[i]
        <3>1. x \in NodesOf(queue)
            BY DEF NodesOf
        <3>2. x.key \in Keys
            BY <1>1, <3>1, StateFacts, NodesSized
        <3>3. data[x.key] # Null /\ x.size = SizeOf[data[x.key]]
            BY <1>1, <3>1 DEF IInv, ChainIsCharges, ChargeOf
        <3>4. SizeOf[data[x.key]] \in 0 .. MaxMem
            <4>1. SizeOf[data[x.key]] \in Nat /\ MaxMem \in Nat
                BY <1>1, <3>2, <3>3, StateFacts
            <4>2. SizeOf[data[x.key]] <= MaxMem
                BY <1>1, <3>2, <3>3 DEF IInv, StoredFit
            <4> QED BY <4>1, <4>2
        <3> QED BY <3>3, <3>4, NoWrap
    <2> QED BY <2>1, <2>2
<1> QED BY <1>1, Invariance, PTL

\* Every stored value has its charge, queued or cut off.
THEOREM EntriesChargedHolds ==
    ASSUME MaxMem < SignBit
    PROVE  Spec => []EntriesCharged
<1>1. ASSUME IInv PROVE EntriesCharged
    <2> SUFFICES ASSUME Live, NEW k \in Keys, data[k] # Null
                 PROVE  \E q \in {queue, orphans} : \E i \in 1 .. Len(q) :
                            q[i] = [key |-> k, size |-> AsInt(SizeOf[data[k]])]
        BY DEF EntriesCharged
    <2>1. SizeOf[data[k]] \in 0 .. MaxMem
        <3>1. SizeOf[data[k]] \in Nat /\ MaxMem \in Nat
            BY <1>1, StateFacts
        <3>2. SizeOf[data[k]] <= MaxMem
            BY <1>1 DEF IInv, StoredFit, Running, Live
        <3> QED BY <3>1, <3>2
    <2>2. ChargeOf(k) = [key |-> k, size |-> AsInt(SizeOf[data[k]])]
        BY <2>1, NoWrap DEF ChargeOf
    <2>3. ChargeOf(k) \in NodesOf(queue) \cup NodesOf(orphans)
        BY <1>1 DEF IInv, ChargesKept, Running, Live
    <2> QED BY <2>2, <2>3 DEF NodesOf
<1> QED BY <1>1, Invariance, PTL

\* The bytes stranded by pushback never exceed maxmem_.
THEOREM OrphansFitHolds ==
    ASSUME MaxMem < SignBit
    PROVE  Spec => []OrphansFit
<1>1. IInv => OrphansFit
    BY DEF IInv
<1> QED BY <1>1, Invariance, PTL

\* A NULL head is dereferenced only after a get of the least recently used of
\* several keys.
THEOREM SegfaultNeedsOrphansHolds ==
    ASSUME MaxMem < SignBit
    PROVE  Spec => []SegfaultNeedsOrphans
<1>1. IInv => SegfaultNeedsOrphans
    BY DEF IInv
<1> QED BY <1>1, Invariance, PTL

\* Until then, a set that returned 0 has stored its value.
THEOREM SetStoresHolds ==
    ASSUME MaxMem < SignBit
    PROVE  Spec => []SetStores
<1>1. IInv => SetStores
    BY DEF IInv
<1> QED BY <1>1, Invariance, PTL

\* get reports the size of the value it returns, or 0 once a node was cut off.
THEOREM GetSizeRightHolds ==
    ASSUME MaxMem < SignBit
    PROVE  Spec => []GetSizeRight
<1>1. IInv => GetSizeRight
    BY DEF IInv
<1> QED BY <1>1, Invariance, PTL

\* The destructor leaves no node behind unless one was cut off.
THEOREM CleanShutdownHolds ==
    ASSUME MaxMem < SignBit
    PROVE  Spec => []CleanShutdown
<1>1. IInv => CleanShutdown
    BY DEF IInv
<1> QED BY <1>1, Invariance, PTL

\* The eviction loop never reads past the end of the queue.
THEOREM EvictionNeverSegfaultsHolds ==
    ASSUME MaxMem < SignBit
    PROVE  Spec => EvictionNeverSegfaults
<1>1. IInv /\ [Next]_vars => [pc = "evicting" => pc' # "segfault"]_vars
    <2> SUFFICES ASSUME IInv, Next, pc = "evicting"
                 PROVE  pc' # "segfault"
        BY DEF vars
    <2>1. CASE Evict
        BY <2>1, EvictHasHead DEF Evict
    <2>2. CASE SetReturn
        BY <2>2 DEF SetReturn
    <2> QED
        BY <2>1, <2>2 DEF Next, Set, Get, Del, SpaceUsed, Destroy, FreeEntry, DestroyReturn
<1> QED BY <1>1, Invariance, PTL DEF Spec, EvictionNeverSegfaults

-----------------------------------------------------------------------------
(***************************************************************************)
(* The counter for every maxmem_, also from 2^31 on, where sizes change    *)
(* sign in the queue.  Nothing is lost but multiples of 2^32: each step    *)
(* adds the same to the counter and to the bytes of the nodes, up to such  *)
(* a multiple, whatever the map holds.                                     *)
(***************************************************************************)
Congruent(a, b) == \E w \in Int : a = b + w * (2 * SignBit)

LEMMA CongruentSums ==
    ASSUME NEW a \in Int, NEW b \in Int, Congruent(a, b), NEW d \in Int, NEW e \in Int,
           \/ d = e \/ d = e + 2 * SignBit \/ d = e - 2 * SignBit
    PROVE  Congruent(a + d, b + e)
<1> DEFINE n == 2 * SignBit
<1>1. n \in Int
    BY SignBitAssumption
<1>2. PICK w \in Int : a = b + w * n
    BY DEF Congruent
<1> SUFFICES \E v \in Int : a + d = (b + e) + v * n
    BY DEF Congruent
<1> HIDE DEF n
<1>3. (w + 1) * n = w * n + n /\ (w - 1) * n = w * n - n /\ w * n \in Int
    BY <1>1
<1>4. w + 1 \in Int /\ w - 1 \in Int
    OBVIOUS
<1> DEFINE m == w * n
<1>5. \/ a + d = (b + e) + m
      \/ a + d = (b + e) + (m + n)
      \/ a + d = (b + e) + (m - n)
    <2>1. m \in Int /\ a = b + m /\ (d = e \/ d = e + n \/ d = e - n)
        BY <1>2, <1>3 DEF n
    <2> HIDE DEF m
    <2> QED BY <1>1, <2>1
<1> QED BY <1>3, <1>4, <1>5

\* What the conversions and the wrapping arithmetic of the counter lose.
LEMMA WrapAround ==
    ASSUME NEW u \in UInt, NEW v \in UInt, NEW i \in SInt
    PROVE  /\ u \in Int /\ i \in Int
           /\ \/ AsInt(u) = u \/ AsInt(u) = u - 2 * SignBit
           /\ \/ AsUInt(i) = i \/ AsUInt(i) = i + 2 * SignBit
           /\ \/ PlusU(u, v) = u + v \/ PlusU(u, v) = u + v - 2 * SignBit
           /\ \/ MinusU(u, v) = u - v \/ MinusU(u, v) = u - v + 2 * SignBit
    BY SignBitAssumption DEF UInt, SInt, AsInt, AsUInt, PlusU, MinusU

Charged(used, q) == Congruent(used, Bytes(q) + Bytes(orphans))

\* rem takes from the counter what it takes from the chain.
LEMMA ChargedRem ==
    ASSUME TypeOK, Charged(memused, queue), NEW k
    PROVE  /\ Charged(MinusU(memused, AsUInt(SizeIn(queue, k))), Rem(queue, k))
           /\ MinusU(memused, AsUInt(SizeIn(queue, k))) \in UInt
           /\ Rem(queue, k) \in Seq(Nodes)
<1> DEFINE s == SizeIn(queue, k)
           u == MinusU(memused, AsUInt(s))
           b == Bytes(queue) + Bytes(orphans)
<1>1. queue \in Seq(Nodes) /\ orphans \in Seq(Nodes) /\ memused \in UInt /\ memused \in Int
    BY SIntSized DEF TypeOK, Nodes
<1>2. s \in SInt /\ s \in Int /\ AsUInt(s) \in UInt /\ u \in UInt
    BY <1>1, QueueTypes, MachineIntTypes, SIntSized
<1>3. /\ Rem(queue, k) \in Seq(Nodes) /\ Bytes(Rem(queue, k)) = Bytes(queue) - s
      /\ Bytes(queue) \in Int /\ Bytes(orphans) \in Int
    BY <1>1, NodesSized, RemProperties, BytesType
<1>4. /\ AsUInt(s) = s \/ AsUInt(s) = s + 2 * SignBit
      /\ u = memused - AsUInt(s) \/ u = memused - AsUInt(s) + 2 * SignBit
    BY <1>1, <1>2, WrapAround
<1> DEFINE d == u - memused
<1>5. d \in Int /\ (d = - s \/ d = - s + 2 * SignBit \/ d = - s - 2 * SignBit)
    <2> HIDE DEF s, u
    <2> QED BY <1>1, <1>2, <1>4, SIntSized, SignBitAssumption DEF UInt
<1>6. Congruent(memused + d, b + (- s))
    <2>1. b \in Int /\ - s \in Int /\ Congruent(memused, b)
        BY <1>2, <1>3 DEF Charged
    <2> HIDE DEF s, d, b
    <2> QED BY <1>1, <1>5, <2>1, CongruentSums
<1>7. memused + d = u /\ b + (- s) = Bytes(Rem(queue, k)) + Bytes(orphans) /\ u \in Int
    <2> HIDE DEF s, u
    <2>1. u \in Int
        BY <1>2, SIntSized
    <2> QED BY <1>1, <1>2, <1>3, <2>1 DEF d
<1>8. Charged(u, Rem(queue, k))
    BY <1>6, <1>7 DEF Charged
<1> QED BY <1>2, <1>3, <1>8

\* A set charges the counter what it adds to the chain.
LEMMA ChargedStore ==
    ASSUME TypeOK, NEW k \in Keys, NEW p \in Payloads, NEW q \in Seq(Nodes),
           NEW used \in UInt, Charged(used, q), Store(k, p, q, used)
    PROVE  Charged(memused, queue)'
<1> DEFINE z == SizeOf[p]
           n == [key |-> k, size |-> AsInt(z)]
           b == Bytes(q) + Bytes(orphans)
           u == PlusU(used, z)
<1>1. z \in UInt /\ AsInt(z) \in SInt /\ n \in Nodes /\ u \in UInt
    BY CacheAssumption, MachineIntTypes DEF Nodes
<1>2. Bytes(Append(q, n)) = Bytes(q) + AsInt(z) /\ Bytes(q) \in Int /\ Bytes(orphans) \in Int
    <2>1. Bytes(Append(q, n)) = Bytes(q) + n.size
        BY <1>1, NodesSized, BytesAppend
    <2>2. orphans \in Seq(Nodes)
        BY DEF TypeOK, Nodes
    <2> QED BY <2>1, <2>2, NodesSized, BytesType
<1>3. /\ AsInt(z) = z \/ AsInt(z) = z - 2 * SignBit
      /\ u = used + z \/ u = used + z - 2 * SignBit
      /\ used \in Int /\ z \in Int /\ AsInt(z) \in Int /\ u \in Int
    BY <1>1, WrapAround, SIntSized
<1>4. memused' = u /\ queue' = Append(q, n) /\ orphans' = orphans
    BY DEF Store, Enqueue
<1> HIDE DEF z, u
<1> DEFINE d == u - used
<1>5. d \in Int /\ (d = AsInt(z) \/ d = AsInt(z) + 2 * SignBit \/ d = AsInt(z) - 2 * SignBit)
    BY <1>3, SignBitAssumption
<1>6. Congruent(used + d, b + AsInt(z))
    <2>1. b \in Int /\ Congruent(used, b)
        BY <1>2 DEF Charged
    <2> HIDE DEF d, b
    <2> QED BY <1>3, <1>5, <2>1, CongruentSums
<1>7. used + d = u /\ b + AsInt(z) = Bytes(Append(q, n)) + Bytes(orphans)
    <2> HIDE DEF n
    <2> QED BY <1>2, <1>3
<1>8. Congruent(u, Bytes(Append(q, n)) + Bytes(orphans))
    BY <1>6, <1>7
<1> HIDE DEF n
<1> QED BY <1>4, <1>8 DEF Charged

\* What the invariant says of every state in which calls may be made.
Balanced == Live => Charged(memused, queue)

LEMMA ForgetBalanced ==
    ASSUME TypeOK, Balanced, Live, NEW k, Forget(k), UNCHANGED <<orphans, pc>>
    PROVE  Balanced'
<1>1. Charged(memused, queue)
    BY DEF Balanced
<1>2. CASE data[k] = Null
    BY <1>1, <1>2 DEF Forget, Balanced, Charged
<1>3. CASE data[k] # Null
    <2>1. memused' = MinusU(memused, AsUInt(SizeIn(queue, k))) /\ queue' = Rem(queue, k)
        BY <1>3 DEF Forget
    <2> QED BY <1>1, <2>1, ChargedRem DEF Balanced, Charged
<1> QED BY <1>2, <1>3

LEMMA GetBalanced ==
    ASSUME TypeOK, Balanced, Live, NEW k, GetHit(k)
    PROVE  Balanced'
<1>1. queue \in Seq(Nodes) /\ orphans \in Seq(Nodes) /\ queue # <<>>
    BY DEF TypeOK, Nodes, GetHit
<1>2. /\ queue' \in Seq(Nodes) /\ CutOff(queue, k) \in Seq(Nodes)
      /\ Bytes(queue') + Bytes(CutOff(queue, k)) = Bytes(queue)
    BY <1>1, NodesSized, PushbackProperties DEF GetHit
<1>3. Bytes(orphans') = Bytes(orphans) + Bytes(CutOff(queue, k))
    BY <1>1, <1>2, NodesSized, BytesConcat DEF GetHit
<1>4. /\ Bytes(queue') \in Int /\ Bytes(queue) \in Int
      /\ Bytes(orphans) \in Int /\ Bytes(CutOff(queue, k)) \in Int
    BY <1>1, <1>2, NodesSized, BytesType
<1>5. Bytes(queue') + Bytes(orphans') = Bytes(queue) + Bytes(orphans)
    BY <1>2, <1>3, <1>4
<1>6. memused' = memused
    BY DEF GetHit
<1> QED BY <1>5, <1>6 DEF Balanced, Charged

LEMMA SetBalanced ==
    ASSUME TypeOK, Balanced, pc = "idle", NEW k \in Keys, NEW p \in Payloads, Set(k, p)
    PROVE  Balanced'
<1>1. /\ Charged(memused, queue) /\ memused \in UInt /\ queue \in Seq(Nodes)
    BY DEF Balanced, Live, TypeOK, Nodes
<1>2. CASE SetTooLarge(k, p)
    BY <1>2 DEF SetTooLarge, Balanced, Live, Charged
<1>3. CASE SetNew(k, p)
    BY <1>1, <1>3, ChargedStore DEF SetNew, Balanced
<1>4. CASE SetOverwrite(k, p)
    <2> DEFINE q == Rem(queue, k)
               u == MinusU(memused, AsUInt(SizeIn(queue, k)))
    <2>1. Charged(u, q) /\ u \in UInt /\ q \in Seq(Nodes)
        BY <1>1, ChargedRem
    <2>2. Store(k, p, q, u)
        BY <1>4 DEF SetOverwrite
    <2> HIDE DEF q, u
    <2> QED BY <2>1, <2>2, ChargedStore DEF Balanced
<1>5. CASE SetSegfault(k, p)
    BY <1>5 DEF SetSegfault, Segfault, Balanced, Live
<1> QED BY <1>2, <1>3, <1>4, <1>5 DEF Set

LEMMA NextBalanced == TypeOK /\ Balanced /\ [Next]_vars => Balanced'
<1> SUFFICES ASSUME TypeOK, Balanced, [Next]_vars PROVE Balanced'
    OBVIOUS
<1>1. ASSUME NEW k \in Keys, NEW p \in Payloads, Set(k, p) PROVE Balanced'
    BY <1>1, SetBalanced DEF Set
<1>2. ASSUME NEW k \in Keys, Get(k) PROVE Balanced'
    <2>1. CASE GetHit(k)
        BY <1>2, <2>1, GetBalanced DEF Get, Live
    <2> QED BY <1>2, <2>1 DEF Get, GetMiss, GetCorrupts, GetSegfault, Segfault, Balanced, Live,
                              Charged
<1>3. ASSUME NEW k \in Keys, Del(k) PROVE Balanced'
    <2>1. CASE DelSegfault(k)
        BY <2>1 DEF DelSegfault, Segfault, Balanced, Live
    <2> QED BY <1>3, <2>1, ForgetBalanced DEF Del, DelMiss, DelHit, Live
<1>4. CASE Evict
    <2>1. CASE Segfault
        BY <2>1 DEF Segfault, Balanced, Live
    <2> QED BY <1>4, <2>1, ForgetBalanced DEF Evict, Live
<1>5. ASSUME NEW k \in Keys, FreeEntry(k) PROVE Balanced'
    BY <1>5 DEF FreeEntry, Segfault, Balanced, Live
<1>6. CASE SpaceUsed \/ SetReturn \/ Destroy \/ DestroyReturn \/ UNCHANGED vars
    BY <1>6 DEF SpaceUsed, SetReturn, Destroy, DestroyReturn, vars, Balanced, Live, Charged
<1> QED BY <1>1, <1>2, <1>3, <1>4, <1>5, <1>6 DEF Next

LEMMA InitBalanced == Init => Balanced
<1>1. 0 = (0 + 0) + 0 * (2 * SignBit) /\ 0 \in Int
    BY SignBitAssumption
<1> QED BY <1>1, EmptyChain DEF Init, Balanced, Charged, Congruent

\* A number of the counter's range is determined by what it is congruent to.
LEMMA ModUnique ==
    ASSUME NEW n \in Nat \ {0}, NEW m \in 0 .. n - 1, NEW w \in Int
    PROVE  (m + w * n) % n = m
OBVIOUS

\* For every maxmem_ up to 2^32 - 1, memused_ is the bytes of the nodes, queued
\* or cut off, modulo 2^32: narrowing a size to int and widening it again, and
\* the subtractions of set and del, lose nothing else (cache.cc set, del).
THEOREM AccountingModuloHolds == Spec => []AccountingModulo
<1>1. ASSUME TypeOK, Balanced PROVE AccountingModulo
    <2> SUFFICES ASSUME Live
                 PROVE  memused = (Bytes(queue) + Bytes(orphans)) % (2 * SignBit)
        BY DEF AccountingModulo
    <2> DEFINE b == Bytes(queue) + Bytes(orphans)
               n == 2 * SignBit
    <2>1. PICK w \in Int : memused = b + w * n
        BY <1>1 DEF Balanced, Charged, Congruent
    <2>2. b \in Int
        <3>1. queue \in Seq(Nodes) /\ orphans \in Seq(Nodes)
            BY <1>1 DEF TypeOK, Nodes
        <3>2. Bytes(queue) \in Int /\ Bytes(orphans) \in Int
            BY <3>1, NodesSized, BytesType
        <3> QED BY <3>2
    <2>3. memused \in 0 .. n - 1 /\ n \in Nat \ {0}
        BY <1>1, SignBitAssumption DEF TypeOK, UInt
    <2> HIDE DEF b, n
    <2>4. b = memused + (- w) * n /\ - w \in Int
        BY <2>1, <2>2, <2>3
    <2>5. (memused + (- w) * n) % n = memused
        BY <2>3, <2>4, ModUnique
    <2> QED BY <2>4, <2>5 DEF b, n
<1>2. TypeOK /\ Balanced => AccountingModulo
    BY <1>1
<1>3. Spec => []Balanced
    BY TypeCorrect, InitBalanced, NextBalanced, PTL DEF Spec
<1> QED BY <1>2, <1>3, TypeCorrect, PTL

-----------------------------------------------------------------------------
(***************************************************************************)
(* Sums over a finite set, as SumFunctionOnSet computes them: an element   *)
(* at a time, by a function on the subsets.                                *)
(***************************************************************************)
Some(s) == CHOOSE x \in s : TRUE

Sums(f, K) ==
    LET sum[s \in SUBSET K] == IF s = {} THEN 0 ELSE f[Some(s)] + sum[s \ {Some(s)}]
    IN  sum

LEMMA SumIsSums ==
    ASSUME NEW f, NEW K
    PROVE  SumFunctionOnSet(f, K) = Sums(f, K)[K]
BY DEF SumFunctionOnSet, FoldFunctionOnSet, MapThenFoldSet, Sums, Some

\* t sums f over the sets of D.
IsSum(t, f, D) ==
    t = [s \in D |-> IF s = {} THEN 0 ELSE f[Some(s)] + t[s \ {Some(s)}]]

UpTo(K, n) == {s \in SUBSET K : Cardinality(s) <= n}

LEMMA LessOne ==
    ASSUME NEW K, IsFiniteSet(K), NEW s \in SUBSET K
    PROVE  /\ IsFiniteSet(s) /\ Cardinality(s) \in Nat
           /\ Cardinality(s) = 0 <=> s = {}
           /\ s # {} => /\ Some(s) \in s /\ s \ {Some(s)} \in SUBSET K
                        /\ Cardinality(s \ {Some(s)}) = Cardinality(s) - 1
<1>1. IsFiniteSet(s) /\ Cardinality(s) \in Nat
    BY FS_Subset, FS_CardinalityType
<1>2. s # {} => Some(s) \in s
    BY DEF Some
<1> QED BY <1>1, <1>2, FS_EmptySet, FS_RemoveElement

\* The equation that defines Sums has a solution ...
LEMMA SumExists ==
    ASSUME NEW K, IsFiniteSet(K), NEW f, NEW n \in Nat
    PROVE  \E t : IsSum(t, f, UpTo(K, n))
<1> DEFINE T == {m \in Nat : ~ \E t : IsSum(t, f, UpTo(K, m))}
<1> SUFFICES ASSUME T # {} PROVE FALSE
    OBVIOUS
<1>1. PICK m \in T : \A j \in T : m <= j
    BY LeastNumber
<1>2. CASE m = 0
    <2> DEFINE t == [s \in UpTo(K, 0) |-> 0]
    <2>1. ASSUME NEW s \in UpTo(K, 0) PROVE s = {}
        <3>1. s \in SUBSET K /\ Cardinality(s) <= 0
            BY DEF UpTo
        <3>2. Cardinality(s) \in Nat /\ (Cardinality(s) = 0 <=> s = {})
            BY <3>1, LessOne
        <3> QED BY <3>1, <3>2
    <2>2. IsSum(t, f, UpTo(K, 0))
        BY <2>1 DEF IsSum
    <2> QED BY <2>2, <1>2
<1>3. CASE m # 0
    <2>1. m \in Nat /\ m - 1 \in Nat /\ ~ (m <= m - 1)
        BY <1>3
    <2>2. PICK t : IsSum(t, f, UpTo(K, m - 1))
        BY <1>1, <2>1
    <2> DEFINE D == UpTo(K, m)
               E == UpTo(K, m - 1)
               g == [s \in D |-> IF s \in E THEN t[s] ELSE f[Some(s)] + t[s \ {Some(s)}]]
    <2>3. \A s \in D : s # {} => s \ {Some(s)} \in E /\ s \ {Some(s)} \in D
        BY <2>1, LessOne DEF UpTo
    <2>4. {} \in E
        BY <2>1, FS_EmptySet DEF UpTo
    <2>5. \A s \in E : t[s] = IF s = {} THEN 0 ELSE f[Some(s)] + t[s \ {Some(s)}]
        BY <2>2 DEF IsSum
    <2> HIDE DEF D, E
    <2>6. \A s \in D : g[s] = IF s = {} THEN 0 ELSE f[Some(s)] + g[s \ {Some(s)}]
        BY <2>3, <2>4, <2>5
    <2>7. IsSum(g, f, D)
        BY <2>6 DEF IsSum
    <2> QED BY <2>7 DEF D
<1> QED BY <1>2, <1>3

\* ... so Sums satisfies it.
LEMMA SumsUnfold ==
    ASSUME NEW K, IsFiniteSet(K), NEW f
    PROVE  \A s \in SUBSET K : Sums(f, K)[s] =
                IF s = {} THEN 0 ELSE f[Some(s)] + Sums(f, K)[s \ {Some(s)}]
<1>1. UpTo(K, Cardinality(K)) = SUBSET K
    BY FS_Subset DEF UpTo
<1>2. Cardinality(K) \in Nat
    BY FS_CardinalityType
<1>3. \E t : IsSum(t, f, SUBSET K)
    <2>1. \E t : IsSum(t, f, UpTo(K, Cardinality(K)))
        BY <1>2, SumExists
    <2> QED BY <1>1, <2>1
<1>4. IsSum(Sums(f, K), f, SUBSET K)
    BY <1>3 DEF Sums, IsSum
<1>5. Sums(f, K) = [s \in SUBSET K |->
            IF s = {} THEN 0 ELSE f[Some(s)] + Sums(f, K)[s \ {Some(s)}]]
    BY <1>4 DEF IsSum
<1> QED BY <1>5, Zenon

\* The keys of s are charged to the nodes of c, unless they weigh nothing.
ChargedTo(f, s, c) ==
    \A k \in s : f[k] = 0 \/ [key |-> k, size |-> f[k]] \in NodesOf(c)

\* What is charged to the nodes of a chain sums up to no more than its bytes.
LEMMA SumWithinBytes ==
    ASSUME NEW K, IsFiniteSet(K), NEW f \in [K -> Nat], NEW S, Sized(S), NEW c \in Seq(S),
           \A x \in NodesOf(c) : x.size >= 0, ChargedTo(f, K, c)
    PROVE  Sums(f, K)[K] \in Nat /\ Sums(f, K)[K] <= Bytes(c)
<1> DEFINE W(s) == Sums(f, K)[s]
           Fits(s, q) == W(s) \in Nat /\ W(s) <= Bytes(q)
           Chains == {q \in Seq(S) : \A x \in NodesOf(q) : x.size >= 0}
           Bad(n) == \E s \in SUBSET K, q \in Chains :
                        Cardinality(s) = n /\ ChargedTo(f, s, q) /\ ~ Fits(s, q)
           T == {n \in Nat : Bad(n)}
<1>1. ASSUME NEW q \in Chains PROVE Bytes(q) \in Nat
    <2>1. \A j \in 1 .. Len(q) : q[j].size >= 0
        BY DEF NodesOf
    <2>2. Bytes(q) \in Int /\ Bytes(q) >= 0
        BY <2>1, BytesType
    <2> QED BY <2>2
<1>2. T = {}
    <2> SUFFICES ASSUME T # {} PROVE FALSE
        OBVIOUS
    <2>1. PICK n \in T : \A m \in T : n <= m
        BY LeastNumber
    <2>2. PICK s \in SUBSET K, q \in Chains :
                Cardinality(s) = n /\ ChargedTo(f, s, q) /\ ~ Fits(s, q)
        BY <2>1
    <2> DEFINE x == Some(s)
               r == s \ {x}
    <2>3. W(s) = IF s = {} THEN 0 ELSE f[x] + W(r)
        BY SumsUnfold
    <2>4. s # {}
        <3>1. CASE s = {}
            <4>1. W(s) = 0
                BY <2>3, <3>1
            <4> QED BY <4>1, <2>2, <1>1
        <3> QED BY <3>1
    <2>5. /\ x \in s /\ x \in K /\ r \in SUBSET K
          /\ Cardinality(r) = n - 1 /\ n - 1 \in Nat /\ ~ (n <= n - 1)
        <3>1. Cardinality(s) \in Nat /\ (Cardinality(s) = 0 <=> s = {})
            BY LessOne
        <3>2. x \in s /\ r \in SUBSET K /\ Cardinality(r) = Cardinality(s) - 1
            BY <2>4, LessOne
        <3>3. x \in K
            BY <3>2
        <3> HIDE DEF x, r
        <3>4. n \in Nat /\ n # 0
            BY <2>2, <2>4, <3>1
        <3> QED BY <2>2, <3>2, <3>3, <3>4
    <2>6. f[x] \in Nat
        BY <2>5
    <2> HIDE DEF W, x, r
    <2>7. ASSUME NEW p \in Chains, ChargedTo(f, r, p), Bytes(p) + f[x] <= Bytes(q)
          PROVE  FALSE
        <3>1. n - 1 \notin T
            BY <2>1, <2>5
        <3>2. Fits(r, p)
            BY <3>1, <2>5, <2>7
        <3>3. W(s) = f[x] + W(r)
            BY <2>3, <2>4
        <3>4. Bytes(p) \in Nat /\ Bytes(q) \in Nat
            BY <1>1, <2>2
        <3>5. W(s) \in Nat /\ W(s) <= Bytes(q)
            BY <2>6, <2>7, <3>2, <3>3, <3>4
        <3> QED BY <2>2, <3>5
    <2>8. CASE f[x] = 0
        <3>1. ChargedTo(f, r, q)
            BY <2>2 DEF ChargedTo, r
        <3>2. Bytes(q) + f[x] <= Bytes(q)
            BY <1>1, <2>2, <2>8
        <3> QED BY <2>2, <2>7, <3>1, <3>2
    <2>9. CASE f[x] # 0
        <3>1. PICK i \in 1 .. Len(q) : q[i] = [key |-> x, size |-> f[x]]
            BY <2>2, <2>5, <2>9 DEF ChargedTo, NodesOf
        <3> DEFINE p == RemoveAt(q, i)
        <3>2. /\ p \in Seq(S) /\ Bytes(p) = Bytes(q) - q[i].size
              /\ NodesOf(q) = NodesOf(p) \cup {q[i]}
            BY RemoveAtProperties, BytesRemoveAt, NodesOfRemoveAt
        <3> HIDE DEF p
        <3>3. p \in Chains
            BY <3>2
        <3>4. ChargedTo(f, r, p)
            <4> SUFFICES ASSUME NEW k \in r, f[k] # 0
                         PROVE  [key |-> k, size |-> f[k]] \in NodesOf(p)
                BY DEF ChargedTo
            <4>1. k \in s /\ k # x
                BY DEF r
            <4>2. [key |-> k, size |-> f[k]] \in NodesOf(q)
                BY <2>2, <4>1 DEF ChargedTo
            <4>3. [key |-> k, size |-> f[k]] # q[i]
                BY <3>1, <4>1
            <4> QED BY <3>2, <4>2, <4>3
        <3>5. Bytes(p) + f[x] <= Bytes(q)
            BY <1>1, <2>2, <2>6, <3>1, <3>2, <3>3
        <3> QED BY <2>7, <3>3, <3>4, <3>5
    <2> QED BY <2>8, <2>9
<1>3. c \in Chains /\ K \in SUBSET K
    OBVIOUS
<1>4. Cardinality(K) \in Nat /\ Cardinality(K) \notin T
    BY <1>2, FS_CardinalityType
<1>5. Fits(K, c)
    BY <1>3, <1>4
<1> QED BY <1>5

\* Between calls the bytes really held never exceed the counter, nor the counter
\* maxmem_: also after pushback has cut nodes off, the counter errs on one side
\* (cache.cc set, del; for any finite set of keys and maxmem_ below 2^31).
THEOREM CapacityRespectedHolds ==
    ASSUME MaxMem < SignBit, IsFiniteSet(Keys)
    PROVE  Spec => []CapacityRespected
<1>1. ASSUME IInv PROVE CapacityRespected
    <2> SUFFICES ASSUME pc = "idle" PROVE HeldBytes <= memused /\ memused <= MaxMem
        BY DEF CapacityRespected
    <2> DEFINE f == [k \in Keys |-> IF data[k] = Null THEN 0 ELSE SizeOf[data[k]]]
               c == queue \o orphans
    <2>1. /\ queue \in Seq(Nodes) /\ orphans \in Seq(Nodes)
          /\ \A k \in Keys : data[k] # Null => SizeOf[data[k]] \in Nat
        BY <1>1, StateFacts
    <2>2. f \in [Keys -> Nat]
        BY <2>1
    <2>3. /\ c \in Seq(Nodes) /\ Bytes(c) = Bytes(queue) + Bytes(orphans)
          /\ NodesOf(c) = NodesOf(queue) \cup NodesOf(orphans)
        BY <2>1, NodesSized, BytesConcat, NodesOfConcat, ConcatProperties
    <2>4. Bytes(c) = memused /\ \A x \in NodesOf(c) : x.size >= 0
        BY <1>1, <2>3 DEF IInv, Accounting, SizesNatural, Live
    <2>5. ChargedTo(f, Keys, c)
        <3> SUFFICES ASSUME NEW k \in Keys, f[k] # 0
                     PROVE  [key |-> k, size |-> f[k]] \in NodesOf(c)
            BY DEF ChargedTo
        <3>1. data[k] # Null /\ f[k] = SizeOf[data[k]]
            OBVIOUS
        <3>2. ChargeOf(k) \in NodesOf(queue) \cup NodesOf(orphans)
            BY <1>1, <3>1 DEF IInv, ChargesKept, Running
        <3> QED BY <2>3, <3>1, <3>2 DEF ChargeOf
    <2>6. HeldBytes = Sums(f, Keys)[Keys]
        BY SumIsSums DEF HeldBytes
    <2> HIDE DEF f, c
    <2>7. HeldBytes <= memused
        BY <2>2, <2>3, <2>4, <2>5, <2>6, NodesSized, SumWithinBytes
    <2> QED BY <1>1, <2>7 DEF IInv, IdleFits
<1>2. IInv => CapacityRespected
    BY <1>1
<1> QED BY <1>2, Invariance, PTL

-----------------------------------------------------------------------------
(***************************************************************************)
(* Cache as the LRU store of CacheLRU.  A chain whose nodes belong to      *)
(* stored values of their sizes is seen as a sequence of entries, with the *)
(* same weights; what the eviction loop leaves of it is what Fitting says. *)
(***************************************************************************)
Entries == [key : Keys, val : Payloads]

View(q, d) == [i \in 1 .. Len(q) |-> [key |-> q[i].key, val |-> d[q[i].key]]]

Valued(q, d) ==
    /\ q \in Seq(Nodes)
    /\ \A i \in 1 .. Len(q) : d[q[i].key] \in Payloads /\ q[i].size = SizeOf[d[q[i].key]]

\* q without its first i nodes, and what the eviction loop leaves of it.
Cut(q, i) == SubSeq(q, i + 1, Len(q))
Fits(q) == {i \in 0 .. Len(q) : Bytes(Cut(q, i)) <= MaxMem}
Left(q) == Cut(q, Min(Fits(q)))

LEMMA ViewFacts ==
    ASSUME NEW q, NEW d, Valued(q, d)
    PROVE  /\ View(q, d) \in Seq(Entries) /\ Len(View(q, d)) = Len(q) /\ Len(q) \in Nat
           /\ \A i \in 1 .. Len(q) : /\ View(q, d)[i] = [key |-> q[i].key, val |-> d[q[i].key]]
                                     /\ q[i] \in Nodes
<1>1. q \in Seq(Nodes) /\ \A i \in 1 .. Len(q) : d[q[i].key] \in Payloads
    BY DEF Valued
<1>2. Len(q) \in Nat /\ \A i \in 1 .. Len(q) : q[i] \in Nodes
    BY <1>1, LenProperties, ElementOfSeq
<1>3. \A i \in 1 .. Len(q) : [key |-> q[i].key, val |-> d[q[i].key]] \in Entries
    BY <1>1, <1>2 DEF Entries, Nodes
<1>4. View(q, d) \in [1 .. Len(q) -> Entries] /\ DOMAIN View(q, d) = 1 .. Len(q)
    BY <1>3 DEF View
<1>5. View(q, d) \in Seq(Entries)
    BY <1>2, <1>4, SeqDef
<1>6. Len(View(q, d)) = Len(q)
    <2>1. DOMAIN View(q, d) = 1 .. Len(View(q, d)) /\ Len(View(q, d)) \in Nat
        BY <1>5, LenProperties
    <2> QED BY <1>2, <1>4, <2>1
<1>7. \A i \in 1 .. Len(q) : View(q, d)[i] = [key |-> q[i].key, val |-> d[q[i].key]]
    BY DEF View
<1> QED BY <1>2, <1>5, <1>6, <1>7

LEMMA CutFacts ==
    ASSUME NEW S, NEW q \in Seq(S), NEW i \in 0 .. Len(q)
    PROVE  /\ Cut(q, i) \in Seq(S) /\ Len(Cut(q, i)) = Len(q) - i
           /\ \A j \in 1 .. Len(q) - i : i + j \in 1 .. Len(q) /\ Cut(q, i)[j] = q[i + j]
<1>1. Len(q) \in Nat /\ \A j \in 1 .. Len(q) : q[j] \in S
    BY LenProperties, ElementOfSeq
<1>2. i + 1 \in Int /\ Len(q) \in Int /\ \A j \in i + 1 .. Len(q) : q[j] \in S
    <2>1. \A j \in i + 1 .. Len(q) : j \in 1 .. Len(q)
        BY <1>1
    <2>2. i + 1 \in Int /\ Len(q) \in Int
        BY <1>1
    <2> QED BY <1>1, <2>1, <2>2
<1> DEFINE s == SubSeq(q, i + 1, Len(q))
<1>3. /\ s \in Seq(S)
      /\ Len(s) = IF i + 1 <= Len(q) THEN Len(q) - (i + 1) + 1 ELSE 0
      /\ \A j \in 1 .. Len(q) - (i + 1) + 1 : s[j] = q[i + 1 + j - 1]
    BY <1>2, SubSeqProperties
<1> HIDE DEF s
<1>4. Len(s) = Len(q) - i
    <2>1. Len(s) = IF i + 1 <= Len(q) THEN Len(q) - (i + 1) + 1 ELSE 0
        BY <1>3
    <2> QED BY <1>1, <2>1
<1>5. ASSUME NEW j \in 1 .. Len(q) - i PROVE i + j \in 1 .. Len(q) /\ s[j] = q[i + j]
    <2>1. j \in 1 .. Len(q) - (i + 1) + 1 /\ i + 1 + j - 1 = i + j /\ i + j \in 1 .. Len(q)
        BY <1>1
    <2> QED BY <1>3, <2>1
<1> QED BY <1>3, <1>4, <1>5 DEF Cut, s

\* Cutting the chain cuts the view.
LEMMA CutView ==
    ASSUME NEW q, NEW d, Valued(q, d), NEW i \in 0 .. Len(q)
    PROVE  Valued(Cut(q, i), d) /\ SubSeq(View(q, d), i + 1, Len(q)) = View(Cut(q, i), d)
<1> DEFINE v == View(q, d)
           c == Cut(q, i)
           r == Cut(v, i)
<1>1. /\ q \in Seq(Nodes) /\ v \in Seq(Entries) /\ Len(v) = Len(q) /\ Len(q) \in Nat
      /\ \A j \in 1 .. Len(q) : v[j] = [key |-> q[j].key, val |-> d[q[j].key]]
    BY ViewFacts DEF Valued
<1> HIDE DEF v
<1>2. /\ c \in Seq(Nodes) /\ Len(c) = Len(q) - i
      /\ \A j \in 1 .. Len(q) - i : i + j \in 1 .. Len(q) /\ c[j] = q[i + j]
    BY <1>1, CutFacts
<1>3. /\ r \in Seq(Entries) /\ Len(r) = Len(q) - i
      /\ \A j \in 1 .. Len(q) - i : r[j] = v[i + j]
    <2>1. i \in 0 .. Len(v)
        BY <1>1
    <2>2. /\ r \in Seq(Entries) /\ Len(r) = Len(v) - i
          /\ \A j \in 1 .. Len(v) - i : i + j \in 1 .. Len(v) /\ r[j] = v[i + j]
        BY <1>1, <2>1, CutFacts
    <2> QED BY <1>1, <2>2
<1> HIDE DEF c, r
<1>4. Valued(c, d)
    BY <1>2 DEF Valued
<1> DEFINE w == View(c, d)
<1>5. /\ w \in Seq(Entries) /\ Len(w) = Len(q) - i
      /\ \A j \in 1 .. Len(q) - i : w[j] = [key |-> c[j].key, val |-> d[c[j].key]]
    BY <1>2, <1>4, ViewFacts
<1> HIDE DEF w
<1>6. \A j \in 1 .. Len(q) - i : r[j] = w[j]
    BY <1>1, <1>2, <1>3, <1>5
<1>7. r = w
    BY <1>3, <1>5, <1>6, SeqEqual
<1>8. r = SubSeq(v, i + 1, Len(q))
    BY <1>1 DEF r, Cut
<1> QED BY <1>4, <1>7, <1>8 DEF c, v, w

-----------------------------------------------------------------------------
(* Weights *)

LEMMA TotalUnique ==
    ASSUME NEW f, NEW g, NEW q, NEW n \in Nat, IsTotal(f, q, n), IsTotal(g, q, n)
    PROVE  f = g
<1>1. /\ \A i \in 0 .. n : f[i] = IF i = 0 THEN 0 ELSE f[i-1] + q[i].size
      /\ \A i \in 0 .. n : g[i] = IF i = 0 THEN 0 ELSE g[i-1] + q[i].size
    <2>1. \A i \in 0 .. n : f[i] = [j \in 0 .. n |-> IF j = 0 THEN 0 ELSE f[j-1] + q[j].size][i]
        BY DEF IsTotal
    <2>2. \A i \in 0 .. n : g[i] = [j \in 0 .. n |-> IF j = 0 THEN 0 ELSE g[j-1] + q[j].size][i]
        BY DEF IsTotal
    <2> QED BY <2>1, <2>2
<1> DEFINE Bad == {i \in 0 .. n : f[i] # g[i]}
<1>2. Bad = {}
    <2> SUFFICES ASSUME Bad # {} PROVE FALSE
        OBVIOUS
    <2>1. PICK m \in Bad : \A i \in Bad : m <= i
        <3>1. Bad \subseteq Nat
            OBVIOUS
        <3> QED BY <3>1, LeastNumber
    <2>2. m # 0 /\ m - 1 \in 0 .. n /\ ~ (m <= m - 1)
        BY <1>1, <2>1
    <2>3. f[m-1] = g[m-1]
        BY <2>1, <2>2
    <2> QED BY <1>1, <2>1, <2>2, <2>3
<1>3. f = [i \in 0 .. n |-> f[i]] /\ g = [i \in 0 .. n |-> g[i]]
    BY DEF IsTotal
<1> QED BY <1>2, <1>3

\* The entries weigh what the chain is charged.
LEMMA ViewWeighs ==
    ASSUME NEW q, NEW d, Valued(q, d)
    PROVE  LRU!Weight(View(q, d)) = Bytes(q)
<1> DEFINE v == View(q, d)
           n == Len(q)
           IsWeights(t) == t = [i \in 0 .. Len(v) |->
                                  IF i = 0 THEN 0 ELSE t[i-1] + SizeOf[v[i].val]]
<1>1. /\ Len(v) = n /\ n \in Nat /\ q \in Seq(Nodes)
      /\ \A i \in 1 .. n : v[i] = [key |-> q[i].key, val |-> d[q[i].key]]
    BY ViewFacts DEF Valued
<1>2. \A i \in 1 .. n : SizeOf[v[i].val] = q[i].size
    <2>1. \A i \in 1 .. n : q[i].size = SizeOf[d[q[i].key]]
        BY DEF Valued
    <2> HIDE DEF n, v
    <2>2. \A i \in 1 .. n : v[i].val = d[q[i].key]
        BY <1>1
    <2> QED BY <2>1, <2>2
<1> HIDE DEF v
<1>3. ASSUME NEW t PROVE IsWeights(t) <=> IsTotal(t, q, n)
    <2>1. [i \in 0 .. Len(v) |-> IF i = 0 THEN 0 ELSE t[i-1] + SizeOf[v[i].val]]
            = [i \in 0 .. n |-> IF i = 0 THEN 0 ELSE t[i-1] + q[i].size]
        <3>1. \A i \in 0 .. n : i # 0 => i \in 1 .. n
            BY <1>1
        <3> QED BY <1>1, <1>2, <3>1
    <2> QED BY <2>1 DEF IsTotal
<1>4. PICK t : IsTotal(t, q, n)
    BY <1>1, TotalExists
<1>5. LRU!Weights(v) = CHOOSE u : IsWeights(u)
    BY DEF LRU!Weights
<1>6. IsWeights(LRU!Weights(v))
    <2>1. IsWeights(t)
        BY <1>3, <1>4
    <2> HIDE DEF IsWeights
    <2> QED BY <1>5, <2>1
<1>7. IsTotal(LRU!Weights(v), q, n)
    <2> HIDE DEF IsWeights
    <2> QED BY <1>3, <1>6
<1>8. IsTotal(RunningBytes(q), q, n)
    BY <1>1, TotalExists DEF IsTotal, RunningBytes
<1>9. LRU!Weights(v) = RunningBytes(q)
    BY <1>1, <1>7, <1>8, TotalUnique
<1> QED BY <1>1, <1>9 DEF LRU!Weight, Bytes, v

-----------------------------------------------------------------------------
(* What is left *)

LEMMA LeastChosen ==
    ASSUME NEW F, NEW l \in F, \A i \in F : l <= i
    PROVE  Min(F) \in F /\ \A i \in F : Min(F) <= i
BY DEF Min

\* The loop takes out the fewest nodes that have to go.
LEMMA LeastFit ==
    ASSUME NEW q \in Seq(Nodes)
    PROVE  /\ Min(Fits(q)) \in Fits(q) /\ \A i \in Fits(q) : Min(Fits(q)) <= i
           /\ \A m \in Fits(q) : (\A i \in Fits(q) : m <= i) => Min(Fits(q)) = m
<1>1. Len(q) \in Nat /\ MaxMem \in Nat
    BY LenProperties, CacheAssumption, SIntSized
<1>2. Len(q) \in Fits(q)
    <2>1. Cut(q, Len(q)) = <<>>
        <3>1. Len(q) \in 0 .. Len(q)
            BY <1>1
        <3>2. Cut(q, Len(q)) \in Seq(Nodes) /\ Len(Cut(q, Len(q))) = Len(q) - Len(q)
            BY <3>1, CutFacts
        <3>3. Len(Cut(q, Len(q))) = 0
            BY <1>1, <3>2
        <3> QED BY <3>2, <3>3, EmptySeq
    <2> QED BY <1>1, <2>1, BytesEmpty DEF Fits
<1>3. Fits(q) \subseteq Nat
    BY <1>1 DEF Fits
<1>4. PICK l \in Fits(q) : \A i \in Fits(q) : l <= i
    BY <1>2, <1>3, LeastNumber
<1> DEFINE F == Fits(q)
           m == Min(F)
<1>6. m \in F /\ \A y \in F : m <= y
    BY <1>4, LeastChosen
<1>7. ASSUME NEW x \in F, \A i \in F : x <= i PROVE m = x
    <2>1. m \in Nat /\ x \in Nat /\ m <= x /\ x <= m
        BY <1>3, <1>6, <1>7
    <2> HIDE DEF m
    <2> QED BY <2>1
<1> QED BY <1>6, <1>7

LEMMA LeftFacts ==
    ASSUME NEW q \in Seq(Nodes)
    PROVE  \E m \in 0 .. Len(q) : /\ m = Min(Fits(q)) /\ Left(q) = Cut(q, m)
                                  /\ Left(q) \in Seq(Nodes) /\ Len(Left(q)) = Len(q) - m
                                  /\ \A j \in 1 .. Len(q) - m : /\ m + j \in 1 .. Len(q)
                                                                /\ Left(q)[j] = q[m + j]
<1>1. Min(Fits(q)) \in 0 .. Len(q)
    BY LeastFit DEF Fits
<1> QED BY <1>1, CutFacts DEF Left

\* A chain that fits is left whole.
LEMMA LeftWhole ==
    ASSUME NEW q \in Seq(Nodes), Bytes(q) <= MaxMem
    PROVE  Left(q) = q
<1>1. Len(q) \in Nat
    BY LenProperties
<1>2. Cut(q, 0) = q
    <2>1. 0 \in 0 .. Len(q)
        BY <1>1
    <2>2. /\ Cut(q, 0) \in Seq(Nodes) /\ Len(Cut(q, 0)) = Len(q) - 0
          /\ \A j \in 1 .. Len(q) - 0 : Cut(q, 0)[j] = q[0 + j]
        BY <2>1, CutFacts
    <2> DEFINE c == Cut(q, 0)
    <2> HIDE DEF c
    <2>3. Len(c) = Len(q)
        BY <1>1, <2>2 DEF c
    <2>4. \A j \in 1 .. Len(q) : c[j] = q[j]
        <3>1. Len(q) - 0 = Len(q) /\ \A j \in 1 .. Len(q) : 0 + j = j
            BY <1>1
        <3> QED BY <2>2, <3>1 DEF c
    <2>5. c = q
        BY <2>2, <2>3, <2>4, SeqEqual DEF c
    <2> QED BY <2>5 DEF c
<1>3. 0 \in Fits(q) /\ \A i \in Fits(q) : 0 <= i
    BY <1>1, <1>2 DEF Fits
<1>4. Min(Fits(q)) = 0
    BY <1>3, LeastFit
<1> QED BY <1>2, <1>4 DEF Left

\* Evicting the head of a chain that does not fit changes nothing.
LEMMA LeftTail ==
    ASSUME NEW q \in Seq(Nodes), q # <<>>, ~ (Bytes(q) <= MaxMem)
    PROVE  Left(Tail(q)) = Left(q)
<1> DEFINE t == Tail(q)
           n == Len(q)
<1>1. n \in Nat /\ n > 0
    BY LenProperties, EmptySeq
<1>2. t \in Seq(Nodes) /\ Len(t) = n - 1 /\ \A i \in 1 .. n - 1 : t[i] = q[i+1]
    <2>1. /\ t \in Seq(Nodes) /\ Len(t) = n - 1
          /\ \A i \in 1 .. Len(t) : t[i] = q[i+1]
        BY HeadTailProperties
    <2> QED BY <2>1
<1> HIDE DEF t
<1>3. ASSUME NEW i \in 0 .. n - 1 PROVE Cut(t, i) = Cut(q, i + 1)
    <2>0. i \in 0 .. Len(t) /\ i + 1 \in 0 .. n /\ i \in Nat
        BY <1>1, <1>2
    <2> DEFINE a == Cut(t, i)
               b == Cut(q, i + 1)
    <2>1. /\ a \in Seq(Nodes) /\ Len(a) = Len(t) - i
          /\ \A j \in 1 .. Len(t) - i : i + j \in 1 .. Len(t) /\ a[j] = t[i + j]
        BY <1>2, <2>0, CutFacts
    <2>2. /\ b \in Seq(Nodes) /\ Len(b) = Len(q) - (i + 1)
          /\ \A j \in 1 .. Len(q) - (i + 1) : i + 1 + j \in 1 .. Len(q) /\ b[j] = q[i + 1 + j]
        BY <2>0, CutFacts
    <2> HIDE DEF a, b
    <2>3. Len(a) = n - 1 - i /\ Len(b) = n - 1 - i
        BY <1>1, <1>2, <2>0, <2>1, <2>2
    <2>4. ASSUME NEW j \in 1 .. n - 1 - i PROVE a[j] = b[j]
        <3>1. j \in Nat /\ j \in 1 .. Len(t) - i /\ j \in 1 .. Len(q) - (i + 1) /\ i + j \in 1 .. n - 1
            BY <1>1, <1>2, <2>0
        <3>2. i + j + 1 = i + 1 + j
            BY <2>0, <3>1
        <3>3. a[j] = t[i + j] /\ t[i + j] = q[i + j + 1] /\ b[j] = q[i + 1 + j]
            BY <1>2, <2>1, <2>2, <3>1
        <3> QED BY <3>2, <3>3
    <2>5. a = b
        BY <2>1, <2>2, <2>3, <2>4, SeqEqual
    <2> QED BY <2>5 DEF a, b
<1>4. ~ (0 \in Fits(q))
    <2>1. Cut(q, 0) = q
        <3>1. Cut(q, 0) = SubSeq(q, 1, Len(q))
            BY DEF Cut
        <3> QED BY <3>1, SubSeqFull
    <2> QED BY <2>1 DEF Fits
<1>5. \A i : i \in Fits(t) => i \in 0 .. n - 1 /\ i + 1 \in Fits(q)
    <2> SUFFICES ASSUME NEW i \in Fits(t) PROVE i \in 0 .. n - 1 /\ i + 1 \in Fits(q)
        OBVIOUS
    <2>1. i \in 0 .. n - 1 /\ Bytes(Cut(t, i)) <= MaxMem
        BY <1>1, <1>2 DEF Fits
    <2>2. i + 1 \in 0 .. n
        BY <1>1, <2>1
    <2> QED BY <1>3, <2>1, <2>2 DEF Fits
<1>6. \A i : i \in Fits(q) => i \in 1 .. n /\ i - 1 \in Fits(t)
    <2> SUFFICES ASSUME NEW i \in Fits(q) PROVE i \in 1 .. n /\ i - 1 \in Fits(t)
        OBVIOUS
    <2>1. i \in 0 .. n /\ Bytes(Cut(q, i)) <= MaxMem /\ i # 0
        BY <1>4 DEF Fits
    <2>2. i \in 1 .. n /\ i - 1 \in 0 .. n - 1 /\ i - 1 + 1 = i
        BY <1>1, <2>1
    <2>3. Cut(t, i - 1) = Cut(q, i)
        BY <1>3, <2>2
    <2>4. i - 1 \in 0 .. Len(t)
        BY <1>2, <2>2
    <2> QED BY <2>1, <2>2, <2>3, <2>4 DEF Fits
<1> DEFINE m == Min(Fits(t))
<1>7. m \in Fits(t) /\ \A i \in Fits(t) : m <= i
    BY <1>2, LeastFit
<1> HIDE DEF m
<1>8. m \in 0 .. n - 1 /\ m + 1 \in Fits(q)
    BY <1>5, <1>7
<1>9. \A i \in Fits(q) : m + 1 <= i
    <2> TAKE i \in Fits(q)
    <2>1. i \in 1 .. n /\ m <= i - 1
        BY <1>6, <1>7
    <2> QED BY <1>8, <2>1
<1>10. Min(Fits(q)) = m + 1
    BY <1>8, <1>9, LeastFit
<1> QED BY <1>3, <1>8, <1>10 DEF Left, m, t

\* Fitting the view is viewing what is left.
LEMMA FittingView ==
    ASSUME NEW q, NEW d, Valued(q, d)
    PROVE  /\ LRU!Fitting(View(q, d)) = View(Left(q), d)
           /\ Valued(Left(q), d)
<1> DEFINE v == View(q, d)
           n == Len(q)
           W == {i \in 0 .. Len(v) : LRU!Weight(SubSeq(v, i + 1, Len(v))) <= MaxMem}
<1>1. Len(v) = n /\ q \in Seq(Nodes)
    BY ViewFacts DEF Valued
<1>2. \A i \in 0 .. n : /\ LRU!Weight(SubSeq(v, i + 1, n)) = Bytes(Cut(q, i))
                        /\ SubSeq(v, i + 1, n) = View(Cut(q, i), d)
                        /\ Valued(Cut(q, i), d)
    BY CutView, ViewWeighs
<1> HIDE DEF v
<1>3. W = Fits(q)
    BY <1>1, <1>2 DEF Fits
<1>4. LRU!Fitting(v) = SubSeq(v, LRU!Min(W) + 1, Len(v))
    BY DEF LRU!Fitting
<1>5. LRU!Min(W) = Min(Fits(q))
    BY <1>3 DEF LRU!Min, Min
<1>6. Min(Fits(q)) \in 0 .. n
    BY <1>1, LeastFit DEF Fits
<1>7. LRU!Fitting(v) = View(Cut(q, Min(Fits(q))), d)
    <2> HIDE DEF W
    <2> QED BY <1>1, <1>2, <1>4, <1>5, <1>6
<1> QED BY <1>2, <1>6, <1>7 DEF Left, v

-----------------------------------------------------------------------------
(* The abstract store in each state *)

LEMMA StoreIsView ==
    /\ AbstractStore = View(Left(queue), data)
    /\ AbstractStore' = View(Left(queue'), data')
BY DEF AbstractStore, AfterEviction, View, Left, Cut, Fits

LEMMA ValuedWhen ==
    ASSUME NEW q \in Seq(Nodes), NEW d \in [Keys -> Payloads \cup {Null}],
           \A x \in NodesOf(q) : /\ d[x.key] # Null
                                 /\ x = [key |-> x.key, size |-> SizeOf[d[x.key]]]
    PROVE  Valued(q, d)
<1> SUFFICES ASSUME NEW i \in 1 .. Len(q)
             PROVE  d[q[i].key] \in Payloads /\ q[i].size = SizeOf[d[q[i].key]]
    BY DEF Valued
<1>1. q[i] \in Nodes /\ q[i] \in NodesOf(q)
    BY ElementOfSeq DEF NodesOf
<1>2. q[i].key \in Keys /\ d[q[i].key] # Null
    BY <1>1, NodesSized
<1>3. q[i] = [key |-> q[i].key, size |-> SizeOf[d[q[i].key]]]
    BY <1>1
<1> QED BY <1>2, <1>3

LEMMA ChainValued ==
    ASSUME IInv, Running
    PROVE  Valued(queue, data)
<1>1. queue \in Seq(Nodes) /\ data \in [Keys -> Payloads \cup {Null}]
    BY DEF IInv, TypeOK, Nodes
<1>2. \A x \in NodesOf(queue) : data[x.key] # Null /\ x = ChargeOf(x.key)
    BY DEF IInv, ChainIsCharges
<1> QED BY <1>1, <1>2, ValuedWhen DEF ChargeOf

LEMMA ChainValuedNext ==
    ASSUME IInv', Running'
    PROVE  Valued(queue', data')
<1>1. queue' \in Seq(Nodes) /\ data' \in [Keys -> Payloads \cup {Null}]
    BY DEF IInv, TypeOK, Nodes
<1>2. \A x \in NodesOf(queue') : data'[x.key] # Null /\ x = ChargeOf(x.key)'
    BY DEF IInv, ChainIsCharges
<1> QED BY <1>1, <1>2, ValuedWhen DEF ChargeOf

\* Between calls nothing is left to evict.
LEMMA IdleLeft ==
    ASSUME IInv, pc = "idle", orphans = <<>>
    PROVE  Left(queue) = queue
<1>1. queue \in Seq(Nodes) /\ Bytes(queue) \in Nat
    BY StateFacts
<1>2. memused = Bytes(queue) + 0 /\ memused <= MaxMem
    BY BytesEmpty DEF IInv, Accounting, IdleFits, Live
<1>3. Bytes(queue) <= MaxMem
    BY <1>1, <1>2
<1> QED BY <1>1, <1>3, LeftWhole

LEMMA IdleLeftNext ==
    ASSUME IInv', pc' = "idle", orphans' = <<>>
    PROVE  Left(queue') = queue'
<1>1. queue' \in Seq(Nodes) /\ \A j \in 1 .. Len(queue') : queue'[j].size >= 0
    BY DEF IInv, TypeOK, SizesNatural, NodesOf, Nodes
<1>2. Bytes(queue') \in Int
    BY <1>1, NodesSized, BytesType
<1>3. memused' = Bytes(queue') + 0 /\ memused' <= MaxMem
    BY BytesEmpty DEF IInv, Accounting, IdleFits, Live
<1>4. Bytes(queue') <= MaxMem
    BY <1>2, <1>3
<1> QED BY <1>1, <1>4, LeftWhole

-----------------------------------------------------------------------------
(* Views under the operations *)

LEMMA ViewSame ==
    ASSUME NEW q, NEW d, NEW e, \A i \in 1 .. Len(q) : d[q[i].key] = e[q[i].key]
    PROVE  View(q, d) = View(q, e) /\ (Valued(q, d) => Valued(q, e))
<1>1. Valued(q, d) => Valued(q, e)
    BY DEF Valued
<1> QED BY <1>1 DEF View

LEMMA ViewAppend ==
    ASSUME NEW q, NEW d, Valued(q, d),
           NEW n \in Nodes, d[n.key] \in Payloads, n.size = SizeOf[d[n.key]]
    PROVE  /\ Valued(Append(q, n), d)
           /\ View(Append(q, n), d) = Append(View(q, d), [key |-> n.key, val |-> d[n.key]])
<1> DEFINE a == Append(q, n)
           v == View(q, d)
           e == [key |-> n.key, val |-> d[n.key]]
           b == Append(v, e)
           w == View(a, d)
<1>1. /\ q \in Seq(Nodes) /\ Len(q) \in Nat /\ v \in Seq(Entries) /\ Len(v) = Len(q)
      /\ \A i \in 1 .. Len(q) : v[i] = [key |-> q[i].key, val |-> d[q[i].key]]
    BY ViewFacts DEF Valued
<1>2. e \in Entries
    BY NodesSized DEF Entries
<1> HIDE DEF v, e
<1>3. /\ a \in Seq(Nodes) /\ Len(a) = Len(q) + 1
      /\ \A i \in 1 .. Len(q) : a[i] = q[i]
      /\ a[Len(q) + 1] = n
    BY <1>1, AppendProperties
<1>4. /\ b \in Seq(Entries) /\ Len(b) = Len(q) + 1
      /\ \A i \in 1 .. Len(q) : b[i] = v[i]
      /\ b[Len(q) + 1] = e
    BY <1>1, <1>2, AppendProperties
<1> HIDE DEF a, b
<1>5. \A i \in 1 .. Len(q) + 1 : i \in 1 .. Len(q) \/ i = Len(q) + 1
    BY <1>1
<1>6. Valued(a, d)
    <2>1. \A i \in 1 .. Len(q) : d[q[i].key] \in Payloads /\ q[i].size = SizeOf[d[q[i].key]]
        BY DEF Valued
    <2>2. \A i \in 1 .. Len(q) + 1 : d[a[i].key] \in Payloads /\ a[i].size = SizeOf[d[a[i].key]]
        BY <1>3, <1>5, <2>1
    <2> QED BY <1>3, <2>2 DEF Valued
<1>7. /\ w \in Seq(Entries) /\ Len(w) = Len(q) + 1
      /\ \A i \in 1 .. Len(q) + 1 : w[i] = [key |-> a[i].key, val |-> d[a[i].key]]
    BY <1>3, <1>6, ViewFacts
<1> HIDE DEF w
<1>8. \A i \in 1 .. Len(q) + 1 : w[i] = b[i]
    <2>1. w[Len(q) + 1] = e
        <3>1. Len(q) + 1 \in 1 .. Len(q) + 1
            BY <1>1
        <3> QED BY <1>3, <1>7, <3>1 DEF e
    <2>2. \A i \in 1 .. Len(q) : w[i] = v[i]
        <3>1. \A i \in 1 .. Len(q) : i \in 1 .. Len(q) + 1
            BY <1>1
        <3> QED BY <1>1, <1>3, <1>7, <3>1
    <2> QED BY <1>4, <1>5, <2>1, <2>2
<1>9. w = b
    BY <1>4, <1>7, <1>8, SeqEqual
<1> QED BY <1>6, <1>9 DEF a, b, e, v, w

LEMMA ViewRemoveAt ==
    ASSUME NEW q, NEW d, Valued(q, d), NEW i \in 1 .. Len(q)
    PROVE  /\ Valued(RemoveAt(q, i), d)
           /\ View(RemoveAt(q, i), d) = RemoveAt(View(q, d), i)
<1> DEFINE r == RemoveAt(q, i)
           v == View(q, d)
           b == RemoveAt(v, i)
           w == View(r, d)
           m == Len(q) - 1
<1>1. /\ q \in Seq(Nodes) /\ Len(q) \in Nat /\ v \in Seq(Entries) /\ Len(v) = Len(q)
      /\ \A j \in 1 .. Len(q) : v[j] = [key |-> q[j].key, val |-> d[q[j].key]]
    BY ViewFacts DEF Valued
<1> HIDE DEF v
<1>2. /\ r \in Seq(Nodes) /\ Len(r) = m
      /\ \A j \in 1 .. m : r[j] = IF j < i THEN q[j] ELSE q[j+1]
    BY <1>1, RemoveAtProperties
<1>3. /\ b \in Seq(Entries) /\ Len(b) = m
      /\ \A j \in 1 .. m : b[j] = IF j < i THEN v[j] ELSE v[j+1]
    <2>1. i \in 1 .. Len(v)
        BY <1>1
    <2>2. /\ b \in Seq(Entries) /\ Len(b) = Len(v) - 1
          /\ \A j \in 1 .. Len(v) - 1 : b[j] = IF j < i THEN v[j] ELSE v[j+1]
        BY <1>1, <2>1, RemoveAtProperties
    <2> QED BY <1>1, <2>2
<1> HIDE DEF r, b
<1>4. \A j \in 1 .. m : j \in 1 .. Len(q) /\ j + 1 \in 1 .. Len(q)
    BY <1>1
<1> HIDE DEF m
<1>5. Valued(r, d)
    <2>1. \A j \in 1 .. Len(q) : d[q[j].key] \in Payloads /\ q[j].size = SizeOf[d[q[j].key]]
        BY DEF Valued
    <2>2. \A j \in 1 .. m : d[r[j].key] \in Payloads /\ r[j].size = SizeOf[d[r[j].key]]
        BY <1>2, <1>4, <2>1
    <2> QED BY <1>2, <2>2 DEF Valued
<1>6. /\ w \in Seq(Entries) /\ Len(w) = m
      /\ \A j \in 1 .. m : w[j] = [key |-> r[j].key, val |-> d[r[j].key]]
    BY <1>2, <1>5, ViewFacts
<1> HIDE DEF w
<1>7. \A j \in 1 .. m : w[j] = b[j]
    <2> TAKE j \in 1 .. m
    <2>1. v[j] = [key |-> q[j].key, val |-> d[q[j].key]]
          /\ v[j+1] = [key |-> q[j+1].key, val |-> d[q[j+1].key]]
        BY <1>1, <1>4
    <2>2. CASE j < i
        BY <1>2, <1>3, <1>6, <2>1, <2>2
    <2>3. CASE ~ (j < i)
        BY <1>2, <1>3, <1>6, <2>1, <2>3
    <2> QED BY <2>2, <2>3
<1>8. w = b
    BY <1>3, <1>6, <1>7, SeqEqual
<1> QED BY <1>5, <1>8 DEF b, r, v, w

LEMMA ViewRem ==
    ASSUME NEW q, NEW d, Valued(q, d), NEW k
    PROVE  /\ Valued(Rem(q, k), d)
           /\ View(Rem(q, k), d) = IF WalkTo(q, k) # 0 THEN RemoveAt(View(q, d), WalkTo(q, k))
                                                       ELSE View(q, d)
<1>1. q \in Seq(Nodes)
    BY DEF Valued
<1>2. WalkTo(q, k) # 0 => WalkTo(q, k) \in 1 .. Len(q)
    BY <1>1, WalkToProperties
<1>3. CASE WalkTo(q, k) = 0
    BY <1>3 DEF Rem
<1>4. CASE WalkTo(q, k) # 0
    BY <1>2, <1>4, ViewRemoveAt DEF Rem
<1> QED BY <1>3, <1>4

\* The walk stops at the same place in the view.
LEMMA ViewPlace ==
    ASSUME NEW q, NEW d, Valued(q, d), NEW k
    PROVE  SelectInSeq(View(q, d), LAMBDA e : e.key = k) = WalkTo(q, k)
<1> DEFINE v == View(q, d)
<1>1. /\ Len(v) = Len(q)
      /\ \A i \in 1 .. Len(q) : v[i] = [key |-> q[i].key, val |-> d[q[i].key]]
    BY ViewFacts
<1> HIDE DEF v
<1>2. {i \in 1 .. Len(v) : v[i].key = k} = {i \in 1 .. Len(q) : q[i].key = k}
    <2>1. ASSUME NEW i \in 1 .. Len(q) PROVE v[i].key = q[i].key
        <3>1. v[i] = [key |-> q[i].key, val |-> d[q[i].key]]
            BY <1>1
        <3>2. [key |-> q[i].key, val |-> d[q[i].key]].key = q[i].key
            OBVIOUS
        <3> QED BY <3>1, <3>2, Zenon
    <2>2. Len(v) = Len(q)
        BY <1>1
    <2> QED BY <2>1, <2>2
<1>3. SelectInSeq(v, LAMBDA e : e.key = k) = WalkTo(q, k)
    BY <1>2 DEF SelectInSeq, WalkTo
<1> QED BY <1>3 DEF v

-----------------------------------------------------------------------------
(* The operators of LRUCache on the mapped store *)

LEMMA InStore ==
    ASSUME Intact, Live, Valued(queue, data), Left(queue) = queue, NEW k
    PROVE  /\ LRU!Has(k) <=> WalkTo(queue, k) # 0
           /\ LRU!Without(k) = View(Rem(queue, k), data)
           /\ WalkTo(queue, k) # 0 => LRU!Lookup(k) = View(queue, data)[WalkTo(queue, k)]
<1> DEFINE v == View(queue, data)
           s == IF Intact /\ Live THEN AbstractStore ELSE <<>>
           w == WalkTo(queue, k)
<1>1. s = v
    BY StoreIsView
<1>2. LRU!Place(k) = w
    <2>1. SelectInSeq(s, LAMBDA e : e.key = k) = w
        <3> HIDE DEF s
        <3> QED BY <1>1, ViewPlace
    <2>2. LRU!Place(k) = SelectInSeq(s, LAMBDA e : e.key = k)
        <3> HIDE DEF s
        <3>1. LRU!Place(k) = IF {i \in 1 .. Len(s) : s[i].key = k} # {}
                             THEN LRU!Min({i \in 1 .. Len(s) : s[i].key = k}) ELSE 0
            BY DEF LRU!Place, LRU!SelectInSeq, s
        <3>2. \A S : LRU!Min(S) = Min(S)
            BY DEF LRU!Min, Min
        <3> QED BY <3>1, <3>2 DEF SelectInSeq
    <2> QED BY <2>1, <2>2
<1>3. LRU!Has(k) <=> w # 0
    BY <1>2 DEF LRU!Has
<1>4. LRU!Without(k) = IF w # 0 THEN RemoveAt(s, w) ELSE s
    <2> HIDE DEF w
    <2>1. LRU!Without(k) = IF w # 0 THEN LRU!RemoveAt(s, w) ELSE s
        BY <1>2, <1>3 DEF LRU!Without
    <2>2. \A t, i : LRU!RemoveAt(t, i) = RemoveAt(t, i)
        BY DEF LRU!RemoveAt, RemoveAt
    <2> HIDE DEF s
    <2> QED BY <2>1, <2>2
<1>5. LRU!Lookup(k) = s[w]
    <2> HIDE DEF w
    <2> QED BY <1>2 DEF LRU!Lookup
<1> HIDE DEF s, v, w
<1>6. LRU!Without(k) = IF w # 0 THEN RemoveAt(v, w) ELSE v
    BY <1>1, <1>4
<1>7. View(Rem(queue, k), data) = IF w # 0 THEN RemoveAt(v, w) ELSE v
    BY ViewRem DEF v, w
<1>8. w # 0 => LRU!Lookup(k) = v[w]
    BY <1>1, <1>5
<1> QED BY <1>3, <1>6, <1>7, <1>8 DEF v, w

-----------------------------------------------------------------------------
(* Every step of Cache is a step of LRUCache, or none *)

\* Between calls.
AtRest == IInv /\ pc = "idle" /\ orphans = <<>>

LEMMA RestFacts ==
    ASSUME AtRest
    PROVE  /\ Intact /\ Live /\ Running
           /\ Valued(queue, data) /\ Left(queue) = queue
           /\ queue \in Seq(Nodes) /\ KeysDistinct(queue)
           /\ AbstractStore = View(queue, data)
           /\ data \in [Keys -> Payloads \cup {Null}]
<1>1. IInv /\ pc = "idle" /\ orphans = <<>>
    BY DEF AtRest
<1>2. Intact /\ Live /\ Running
    BY <1>1 DEF Intact, Live, Running
<1>3. Valued(queue, data) /\ Left(queue) = queue
    BY <1>1, <1>2, ChainValued, IdleLeft
<1>4. queue \in Seq(Nodes) /\ KeysDistinct(queue) /\ data \in [Keys -> Payloads \cup {Null}]
    BY <1>1, <1>2 DEF IInv, TypeOK, ChainIsCharges, Nodes
<1> QED BY <1>2, <1>3, <1>4, StoreIsView

\* With nothing cut off, the chain has a node of every stored value, and no other.
LEMMA StoredIsQueued ==
    ASSUME AtRest, NEW k \in Keys
    PROVE  /\ data[k] # Null <=> WalkTo(queue, k) # 0
           /\ WalkTo(queue, k) # 0 =>
                 /\ WalkTo(queue, k) \in 1 .. Len(queue)
                 /\ queue[WalkTo(queue, k)] = ChargeOf(k)
           /\ data[k] # Null => data[k] \in Payloads
<1> DEFINE w == WalkTo(queue, k)
<1>1. /\ queue \in Seq(Nodes) /\ Running /\ orphans = <<>>
      /\ data \in [Keys -> Payloads \cup {Null}]
    BY RestFacts DEF AtRest
<1>2. \/ w = 0 /\ \A j \in 1 .. Len(queue) : queue[j].key # k
      \/ w \in 1 .. Len(queue) /\ queue[w].key = k
    BY <1>1, WalkToProperties
<1>3. w = 0 => data[k] = Null
    <2> SUFFICES ASSUME w = 0, data[k] # Null PROVE FALSE
        OBVIOUS
    <2>1. ChargeOf(k) \in NodesOf(queue) \cup NodesOf(orphans)
        BY <1>1 DEF AtRest, IInv, ChargesKept
    <2>2. PICK j \in 1 .. Len(queue) : queue[j] = ChargeOf(k)
        BY <1>1, <2>1, EmptyChain DEF NodesOf
    <2>3. w \notin 1 .. Len(queue)
        BY <1>1, LenProperties
    <2> QED BY <1>2, <2>2, <2>3 DEF ChargeOf
<1>4. w # 0 => w \in 1 .. Len(queue) /\ queue[w] = ChargeOf(k) /\ data[k] # Null
    <2> SUFFICES ASSUME w # 0 PROVE w \in 1 .. Len(queue) /\ queue[w] = ChargeOf(k) /\ data[k] # Null
        OBVIOUS
    <2>1. w \in 1 .. Len(queue) /\ queue[w].key = k
        BY <1>2
    <2>2. queue[w] \in NodesOf(queue)
        BY <2>1 DEF NodesOf
    <2>3. data[queue[w].key] # Null /\ queue[w] = ChargeOf(queue[w].key)
        BY <1>1, <2>2 DEF AtRest, IInv, ChainIsCharges
    <2> QED BY <2>1, <2>3
<1> QED BY <1>1, <1>3, <1>4

\* The size rem or pushback reports is the size of the value.
LEMMA SizeReported ==
    ASSUME AtRest, NEW k \in Keys, data[k] # Null
    PROVE  AsUInt(SizeIn(queue, k)) = SizeOf[data[k]]
<1>1. SizeIn(queue, k) = SizeOf[data[k]]
    <2>1. WalkTo(queue, k) # 0 /\ queue[WalkTo(queue, k)] = ChargeOf(k)
        BY StoredIsQueued
    <2> QED BY <2>1 DEF SizeIn, ChargeOf
<1>2. SizeOf[data[k]] \in Nat
    BY StateFacts DEF AtRest
<1>3. \A i \in Nat : AsUInt(i) = i
    BY DEF AsUInt
<1> QED BY <1>1, <1>2, <1>3

\* A null head under a stored value takes a cut chain.
LEMMA NoSegfault ==
    ASSUME IInv', orphans = <<>>, Segfault
    PROVE  FALSE
BY DEF Segfault, IInv, SegfaultNeedsOrphans

\* set stores p under k, on top of the chain without k.
LEMMA StoreIsLRU ==
    ASSUME MaxMem < SignBit, AtRest, IInv', NEW k \in Keys, NEW p \in Payloads, NEW used,
           SizeOf[p] <= MaxMem, Store(k, p, Rem(queue, k), used)
    PROVE  LRU!SetStores(k, p) /\ Intact' /\ Live'
<1> DEFINE q == Rem(queue, k)
           n == [key |-> k, size |-> SizeOf[p]]
           e == [key |-> k, val |-> p]
<1>1. /\ Intact /\ Live /\ Running
      /\ Valued(queue, data) /\ Left(queue) = queue
      /\ queue \in Seq(Nodes) /\ KeysDistinct(queue)
      /\ data \in [Keys -> Payloads \cup {Null}]
    BY RestFacts
<1>2. SizeOf[p] \in 0 .. MaxMem /\ AsInt(SizeOf[p]) = SizeOf[p]
    <2>1. SizeOf[p] \in Nat /\ MaxMem \in Nat
        BY CacheAssumption, SIntSized
    <2>2. SizeOf[p] \in 0 .. MaxMem
        BY <2>1
    <2> QED BY <2>2, NoWrap
<1>3. /\ data' = [data EXCEPT ![k] = p] /\ queue' = Append(q, n)
      /\ pc' = "evicting" /\ orphans' = orphans /\ call' = Reply("set", k, p, 0)
    BY <1>2 DEF Store, Enqueue
<1>4. Intact' /\ Live' /\ Running'
    BY <1>1, <1>3 DEF Intact, Live, Running
<1>5. Valued(queue', data')
    BY <1>4, ChainValuedNext
<1>6. LRU!Fitting(View(queue', data')) = AbstractStore'
    BY <1>5, FittingView, StoreIsView
<1>7. Valued(q, data) /\ View(q, data) = LRU!Without(k)
    BY <1>1, ViewRem, InStore
<1>8. View(q, data) = View(q, data') /\ Valued(q, data')
    <2>1. \A x \in NodesOf(q) : x.key # k
        BY <1>1, NodesSized, RemProperties
    <2>2. \A i \in 1 .. Len(q) : q[i].key # k
        BY <2>1 DEF NodesOf
    <2>3. \A i \in 1 .. Len(q) : q[i] \in Nodes
        <3>1. q \in Seq(Nodes)
            BY <1>7 DEF Valued
        <3> QED BY <3>1, ElementOfSeq
    <2>4. \A j \in Keys : j # k => data[j] = data'[j]
        BY <1>1, <1>3
    <2> HIDE DEF q
    <2>5. \A i \in 1 .. Len(q) : data[q[i].key] = data'[q[i].key]
        BY <2>2, <2>3, <2>4, NodesSized
    <2> QED BY <1>7, <2>5, ViewSame
<1>9. View(queue', data') = Append(View(q, data'), e)
    <2>1. n \in Nodes
        <3>1. \A i \in 0 .. MaxMem : i \in SInt
            <4>1. MaxMem \in Nat /\ SignBit \in Nat
                BY CacheAssumption, SIntSized, SignBitAssumption
            <4> QED BY <4>1 DEF SInt
        <3> QED BY <1>2, <3>1 DEF Nodes
    <2>2. data'[k] = p
        BY <1>1, <1>3
    <2>3. n.key = k /\ n.size = SizeOf[p]
        OBVIOUS
    <2> HIDE DEF q, n
    <2>4. View(Append(q, n), data') = Append(View(q, data'), [key |-> n.key, val |-> data'[n.key]])
        BY <1>8, <2>1, <2>2, <2>3, ViewAppend
    <2> QED BY <1>3, <2>2, <2>3, <2>4
<1> HIDE DEF q
<1>10. AbstractStore' = LRU!Fitting(Append(LRU!Without(k), e))
    BY <1>6, <1>7, <1>8, <1>9
<1>11. call' = LRU!Reply("set", k, p, 0)
    BY <1>3 DEF Reply, LRU!Reply
<1> HIDE DEF e
<1> QED BY <1>4, <1>10, <1>11 DEF LRU!SetStores, e

\* set is a step of LRUCache, whether it stores or refuses.
LEMMA SetIsLRU ==
    ASSUME MaxMem < SignBit, AtRest, IInv', NEW k \in Keys, NEW p \in Payloads, Set(k, p)
    PROVE  LRU!Next
<1> SUFFICES (LRU!SetStores(k, p) \/ LRU!SetRejects(k, p)) /\ Intact' /\ Live'
    BY RestFacts DEF LRU!Next, LRU!Call
<1>1. CASE SetTooLarge(k, p)
    <2>1. /\ SizeOf[p] > MaxMem /\ call' = LRU!Reply("set", k, p, 1)
          /\ UNCHANGED <<data, queue, orphans, memused, pc>>
        BY <1>1 DEF SetTooLarge, Reply, LRU!Reply
    <2>2. Intact' = Intact /\ Live' = Live /\ AbstractStore' = AbstractStore
        BY <2>1, StoreIsView DEF Intact, Live
    <2> QED BY <2>1, <2>2, RestFacts DEF LRU!SetRejects
<1>2. CASE SetNew(k, p)
    <2>1. data[k] = Null /\ SizeOf[p] <= MaxMem /\ Store(k, p, queue, memused)
        BY <1>2 DEF SetNew
    <2>2. Rem(queue, k) = queue
        BY <2>1, StoredIsQueued DEF Rem
    <2> QED BY <2>1, <2>2, StoreIsLRU
<1>3. CASE SetOverwrite(k, p)
    BY <1>3, StoreIsLRU DEF SetOverwrite
<1>4. CASE SetSegfault(k, p)
    BY <1>4, NoSegfault DEF SetSegfault, AtRest
<1> QED BY <1>1, <1>2, <1>3, <1>4 DEF Set

\* get of the head of a longer chain ends the promise.
LEMMA BreakIsLRU ==
    ASSUME AtRest, NEW k \in Keys, PrevUnset(queue, k), ~ Intact'
    PROVE  LRU!Next
<1>1. /\ Intact /\ Live /\ Valued(queue, data) /\ AbstractStore = View(queue, data)
    BY RestFacts
<1>2. Len(AbstractStore) > 1
    <2>1. Len(AbstractStore) = Len(queue)
        BY <1>1, ViewFacts
    <2> QED BY <2>1 DEF PrevUnset
<1>3. NoCall = LRU!NoCall
    BY DEF NoCall, LRU!NoCall, Reply, LRU!Reply
<1>4. LRU!Break
    BY <1>1, <1>2, <1>3 DEF LRU!Break
<1> QED BY <1>4 DEF LRU!Next

\* get of any other stored key.
LEMMA FindIsLRU ==
    ASSUME MaxMem < SignBit, AtRest, IInv', NEW k \in Keys, GetHit(k), ~ PrevUnset(queue, k)
    PROVE  LRU!Next
<1> DEFINE w == WalkTo(queue, k)
           q == Rem(queue, k)
           v == View(queue, data)
           e == [key |-> k, val |-> data[k]]
<1>1. /\ Intact /\ Live /\ Running
      /\ Valued(queue, data) /\ Left(queue) = queue /\ orphans = <<>>
      /\ queue \in Seq(Nodes) /\ AbstractStore = v
    BY RestFacts DEF AtRest
<1>2. /\ data[k] # Null /\ data[k] \in Payloads
      /\ w # 0 /\ w \in 1 .. Len(queue) /\ queue[w] = ChargeOf(k)
    BY StoredIsQueued DEF GetHit
<1>3. queue[w] \in Nodes /\ queue[w].key = k /\ queue[w].size = SizeOf[data[k]]
    BY <1>1, <1>2, ElementOfSeq DEF ChargeOf
<1>4. queue' = Append(q, queue[w]) /\ orphans' = <<>>
    <2>1. Pushback(queue, k) = Append(q, queue[w])
        BY <1>2 DEF Pushback, Rem
    <2>2. CutOff(queue, k) = <<>>
        BY DEF CutOff
    <2>3. orphans' = <<>> \o <<>>
        BY <1>1, <2>2 DEF GetHit
    <2> QED BY <2>1, <2>3 DEF GetHit
<1>5. data' = data /\ pc' = pc /\ call' = LRU!Reply("get", k, data[k], SizeOf[data[k]])
    BY <1>2, SizeReported DEF GetHit, Reply, LRU!Reply
<1>6. Intact' /\ Live' /\ AbstractStore' = View(queue', data)
    <2>1. Intact' /\ Live'
        BY <1>1, <1>4, <1>5 DEF Intact, Live
    <2>2. Left(queue') = queue'
        BY <1>4, <1>5, IdleLeftNext DEF AtRest
    <2> QED BY <1>5, <2>1, <2>2, StoreIsView
<1>7. View(queue', data) = Append(LRU!Without(k), e)
    <2>1. Valued(q, data) /\ View(q, data) = LRU!Without(k)
        BY <1>1, ViewRem, InStore
    <2>2. View(Append(q, queue[w]), data)
            = Append(View(q, data), [key |-> queue[w].key, val |-> data[queue[w].key]])
        BY <1>2, <1>3, <2>1, ViewAppend
    <2> QED BY <1>3, <1>4, <2>1, <2>2
<1>8. LRU!Lookup(k) = e /\ LRU!Has(k)
    <2>1. LRU!Lookup(k) = v[w] /\ LRU!Has(k)
        BY <1>1, <1>2, InStore
    <2>2. v[w] = [key |-> queue[w].key, val |-> data[queue[w].key]]
        BY <1>1, <1>2, ViewFacts
    <2> QED BY <1>3, <2>1, <2>2
<1>9. e.val = data[k]
    OBVIOUS
<1>10. ~ (Len(v) > 1 /\ Head(v).key = k)
    <2> SUFFICES ASSUME Len(v) > 1, Head(v).key = k PROVE FALSE
        OBVIOUS
    <2>1. Len(v) = Len(queue) /\ v[1] = [key |-> queue[1].key, val |-> data[queue[1].key]]
        <3>1. Len(v) = Len(queue) /\ Len(queue) \in Nat
            BY <1>1, ViewFacts
        <3>2. 1 \in 1 .. Len(queue)
            BY <3>1
        <3> QED BY <1>1, <3>1, <3>2, ViewFacts
    <2>2. Head(v) = v[1]
        OBVIOUS
    <2>3. queue[1].key = k
        BY <2>1, <2>2
    <2>4. w = 1
        <3>1. \A j \in 1 .. w - 1 : queue[j].key # k
            BY <1>1, <1>2, WalkToProperties
        <3>2. w # 1 => 1 \in 1 .. w - 1
            <4>1. w \in Nat /\ w >= 1
                BY <1>1, <1>2, LenProperties
            <4> QED BY <4>1
        <3> QED BY <2>3, <3>1, <3>2
    <2> QED BY <2>1, <2>4 DEF PrevUnset
<1> HIDE DEF e, v
<1>11. LRU!GetFinds(k)
    BY <1>1, <1>5, <1>6, <1>7, <1>8, <1>9 DEF LRU!GetFinds
<1> QED BY <1>1, <1>6, <1>10, <1>11 DEF LRU!Next, LRU!Call

LEMMA GetIsLRU ==
    ASSUME MaxMem < SignBit, AtRest, IInv', NEW k \in Keys, Get(k)
    PROVE  LRU!Next
<1>1. CASE GetMiss(k)
    <2>1. /\ call' = LRU!Reply("get", k, Null, -1) /\ data[k] = Null
          /\ UNCHANGED <<data, queue, orphans, memused, pc>>
        BY <1>1 DEF GetMiss, Reply, LRU!Reply, Untouched
    <2>2. Intact' = Intact /\ Live' = Live /\ AbstractStore' = AbstractStore
        BY <2>1, StoreIsView DEF Intact, Live
    <2>3. ~ LRU!Has(k)
        BY <2>1, RestFacts, StoredIsQueued, InStore
    <2>4. LRU!GetMisses(k)
        BY <2>1, <2>2, <2>3, RestFacts DEF LRU!GetMisses
    <2> QED BY <2>2, <2>4, RestFacts DEF LRU!Next, LRU!Call
<1>2. CASE GetHit(k) /\ PrevUnset(queue, k)
    <2>1. orphans' = <<>> \o Tail(queue)
        BY <1>2 DEF GetHit, CutOff, AtRest
    <2>2. Tail(queue) \in Seq(Nodes) /\ Len(Tail(queue)) = Len(queue) - 1
        BY <1>2, RestFacts, HeadTailProperties DEF GetHit
    <2>3. Len(queue) \in Nat /\ Len(queue) > 1
        BY <1>2, RestFacts, LenProperties DEF PrevUnset
    <2>4. orphans' # <<>>
        <3>1. orphans' = Tail(queue)
            BY <2>1, <2>2, ConcatEmptySeq
        <3>2. Len(Tail(queue)) # 0
            BY <2>2, <2>3
        <3> QED BY <2>2, <3>1, <3>2, EmptySeq
    <2> QED BY <1>2, <2>4, BreakIsLRU DEF Intact
<1>3. CASE GetHit(k) /\ ~ PrevUnset(queue, k)
    BY <1>3, FindIsLRU
<1>4. CASE GetCorrupts(k)
    BY <1>4, BreakIsLRU DEF GetCorrupts, Intact
<1>5. CASE GetSegfault(k)
    BY <1>5, NoSegfault DEF GetSegfault, AtRest
<1> QED BY <1>1, <1>2, <1>3, <1>4, <1>5 DEF Get

LEMMA DelIsLRU ==
    ASSUME MaxMem < SignBit, AtRest, IInv', NEW k \in Keys, Del(k)
    PROVE  LRU!Next
<1>1. /\ Intact /\ Live /\ Running /\ orphans = <<>> /\ pc = "idle"
      /\ Valued(queue, data) /\ Left(queue) = queue
      /\ queue \in Seq(Nodes) /\ KeysDistinct(queue) /\ AbstractStore = View(queue, data)
      /\ data \in [Keys -> Payloads \cup {Null}]
    BY RestFacts DEF AtRest
<1>2. CASE DelMiss(k)
    <2>1. /\ call' = LRU!Reply("del", k, Null, 1) /\ data[k] = Null
          /\ UNCHANGED <<data, queue, orphans, pc>>
        BY <1>1, <1>2 DEF DelMiss, Forget, Reply, LRU!Reply
    <2>2. Intact' = Intact /\ Live' = Live /\ AbstractStore' = AbstractStore
        BY <2>1, StoreIsView DEF Intact, Live
    <2>3. ~ LRU!Has(k)
        BY <1>1, <2>1, StoredIsQueued, InStore
    <2>4. LRU!DelMisses(k)
        BY <1>1, <2>1, <2>2, <2>3 DEF LRU!DelMisses
    <2> QED BY <1>1, <2>2, <2>4 DEF LRU!Next, LRU!Call
<1>3. CASE DelHit(k)
    <2>1. /\ call' = LRU!Reply("del", k, Null, 0) /\ data[k] # Null
          /\ data' = [data EXCEPT ![k] = Null] /\ queue' = Rem(queue, k)
          /\ UNCHANGED <<orphans, pc>>
        BY <1>3 DEF DelHit, Forget, Reply, LRU!Reply
    <2>2. Intact' /\ Live' /\ Running'
        BY <1>1, <2>1 DEF Intact, Live, Running
    <2>3. AbstractStore' = View(queue', data')
        BY <1>1, <2>1, StoreIsView, IdleLeftNext
    <2>4. LRU!Has(k) /\ LRU!Without(k) = View(queue', data)
        BY <1>1, <2>1, StoredIsQueued, InStore
    <2>5. View(queue', data) = View(queue', data')
        <3>1. Valued(queue', data')
            BY <2>2, ChainValuedNext
        <3>2. \A i \in 1 .. Len(queue') : queue'[i].key \in Keys /\ data'[queue'[i].key] # Null
            <4>1. \A i \in 1 .. Len(queue') : data'[queue'[i].key] \in Payloads /\ queue'[i] \in Nodes
                BY <3>1, ViewFacts DEF Valued
            <4> QED BY <4>1, NodesSized, CacheAssumption
        <3>3. \A j \in Keys : data'[j] # Null => data[j] = data'[j]
            BY <1>1, <2>1
        <3> QED BY <3>2, <3>3, ViewSame
    <2>6. LRU!DelErases(k)
        BY <2>1, <2>2, <2>3, <2>4, <2>5 DEF LRU!DelErases
    <2> QED BY <1>1, <2>2, <2>6 DEF LRU!Next, LRU!Call
<1>4. CASE DelSegfault(k)
    BY <1>1, <1>4, NoSegfault DEF DelSegfault
<1> QED BY <1>2, <1>3, <1>4 DEF Del

LEMMA SpaceUsedIsLRU ==
    ASSUME AtRest, SpaceUsed
    PROVE  LRU!Next
<1>1. /\ Intact /\ Live /\ Valued(queue, data) /\ AbstractStore = View(queue, data)
    BY RestFacts
<1>2. UNCHANGED <<data, queue, orphans, memused, pc>>
    BY DEF SpaceUsed
<1>3. Intact' = Intact /\ Live' = Live /\ AbstractStore' = AbstractStore
    BY <1>2, StoreIsView DEF Intact, Live
<1>4. LRU!Weight(AbstractStore) = memused
    <2>1. LRU!Weight(AbstractStore) = Bytes(queue)
        BY <1>1, ViewWeighs
    <2>2. memused = Bytes(queue) + 0 /\ Bytes(queue) \in Nat
        BY <1>1, BytesEmpty, StateFacts DEF AtRest, IInv, Accounting
    <2> QED BY <2>1, <2>2
<1>5. call' = LRU!Reply("space_used", Null, Null, memused)
    BY DEF SpaceUsed, Reply, LRU!Reply
<1>6. LRU!SpaceUsed
    BY <1>1, <1>3, <1>4, <1>5 DEF LRU!SpaceUsed
<1> QED BY <1>1, <1>3, <1>6 DEF LRU!Next, LRU!Call

\* An iteration of the eviction loop only gets on with what it has to leave.
LEMMA EvictIsHidden ==
    ASSUME MaxMem < SignBit, IInv, IInv', Intact, Evict
    PROVE  AbstractStore' = AbstractStore /\ UNCHANGED <<orphans, pc, call>>
<1> DEFINE h == Head(queue).key
           l == Left(queue)
<1>1. pc = "evicting" /\ memused > MaxMem /\ orphans = <<>> /\ Running
    BY DEF Evict, Intact, Running
<1>2. queue # <<>> /\ Forget(h) /\ UNCHANGED <<orphans, pc, call>>
    BY <1>1, NoSegfault DEF Evict
<1>3. /\ queue \in Seq(Nodes) /\ KeysDistinct(queue) /\ Valued(queue, data)
      /\ data \in [Keys -> Payloads \cup {Null}]
    BY <1>1, ChainValued DEF IInv, TypeOK, ChainIsCharges, Nodes
<1>4. Head(queue) \in Nodes /\ Head(queue) = queue[1] /\ h \in Keys /\ 1 \in 1 .. Len(queue)
    <2>1. Head(queue) \in Nodes /\ Head(queue) = queue[1]
        BY <1>2, <1>3, HeadTailProperties
    <2>2. Len(queue) \in Nat \ {0}
        BY <1>2, <1>3, EmptySeq
    <2>3. 1 \in 1 .. Len(queue)
        BY <2>2
    <2> QED BY <2>1, <2>3, NodesSized
<1>5. data[h] # Null
    <2>1. data[queue[1].key] \in Payloads
        BY <1>3, <1>4 DEF Valued
    <2> QED BY <1>4, <2>1, CacheAssumption
<1>6. data' = [data EXCEPT ![h] = Null] /\ queue' = Rem(queue, h)
    BY <1>2, <1>5 DEF Forget
<1>7. queue' = Tail(queue)
    <2>1. /\ Len(queue') = Len(queue) - 1
          /\ \A j \in 1 .. Len(queue) - 1 : queue'[j] = queue[j+1]
        BY <1>2, <1>3, <1>6, RemHead
    <2>2. queue' \in Seq(Nodes)
        BY DEF IInv, TypeOK, Nodes
    <2>3. /\ Tail(queue) \in Seq(Nodes) /\ Len(Tail(queue)) = Len(queue) - 1
          /\ \A j \in 1 .. Len(Tail(queue)) : Tail(queue)[j] = queue[j+1]
        BY <1>2, <1>3, HeadTailProperties
    <2> DEFINE t == Tail(queue)
    <2> HIDE DEF t
    <2>4. Len(queue') = Len(t) /\ \A j \in 1 .. Len(queue') : queue'[j] = t[j]
        BY <2>1, <2>3 DEF t
    <2>5. queue' = t
        BY <2>2, <2>3, <2>4, SeqEqual DEF t
    <2> QED BY <2>5 DEF t
<1>8. ~ (Bytes(queue) <= MaxMem)
    <2>1. memused = Bytes(queue) + 0
        BY <1>1, BytesEmpty DEF IInv, Accounting, Live
    <2>2. Bytes(queue) \in Nat /\ MaxMem \in Nat
        BY StateFacts
    <2> QED BY <1>1, <2>1, <2>2
<1>9. Left(queue') = l
    BY <1>2, <1>3, <1>7, <1>8, LeftTail
<1>10. Valued(l, data')
    <2>1. Valued(queue', data')
        BY <1>1, <1>2, ChainValuedNext DEF Running
    <2> QED BY <1>9, <2>1, FittingView
<1>11. View(l, data) = View(l, data')
    <2> HIDE DEF l, h
    <2>1. \A i \in 1 .. Len(l) : data'[l[i].key] \in Payloads /\ l[i] \in Nodes
        BY <1>10, ViewFacts DEF Valued
    <2>2. \A j \in Keys : data'[j] # Null => data[j] = data'[j]
        BY <1>3, <1>6
    <2>3. \A i \in 1 .. Len(l) : data[l[i].key] = data'[l[i].key]
        BY <2>1, <2>2, NodesSized, CacheAssumption
    <2> QED BY <2>3, ViewSame
<1> QED BY <1>2, <1>9, <1>11, StoreIsView

LEMMA InitIsLRU == ASSUME Init PROVE LRU!Init
<1>1. Intact /\ Live /\ queue = <<>> /\ data = [k \in Keys |-> Null] /\ call = NoCall
    BY DEF Init, Intact, Live
<1>2. Len(AbstractStore) = 0 /\ AbstractStore = <<>>
    <2>1. queue \in Seq(Nodes) /\ Valued(queue, data)
        <3>1. <<>> \in Seq(Nodes) /\ Len(<<>>) = 0
            OBVIOUS
        <3> QED BY <1>1, <3>1 DEF Valued
    <2>2. Left(queue) = queue
        <3>1. Bytes(queue) <= MaxMem
            <4>1. MaxMem \in Nat /\ Bytes(queue) = 0
                BY <1>1, BytesEmpty, CacheAssumption, SIntSized
            <4> QED BY <4>1
        <3> QED BY <2>1, <3>1, LeftWhole
    <2>3. AbstractStore \in Seq(Entries) /\ Len(AbstractStore) = Len(queue)
        BY <2>1, <2>2, StoreIsView, ViewFacts
    <2>4. Len(queue) = 0
        BY <1>1
    <2> QED BY <2>3, <2>4, EmptySeq
<1>3. NoCall = LRU!NoCall
    BY DEF NoCall, LRU!NoCall, Reply, LRU!Reply
<1> QED BY <1>1, <1>2, <1>3 DEF LRU!Init

LEMMA StepIsLRU ==
    ASSUME MaxMem < SignBit, IInv, IInv', [Next]_vars
    PROVE  [LRU!Next]_(LRU!vars)
<1> DEFINE Same == LRU!vars' = LRU!vars
<1>1. CASE ~ Intact
    <2>1. ~ Intact'
        <3>1. CASE pc = "corrupted"
            <4>1. pc' = "corrupted"
                BY <3>1 DEF Next, Set, Get, Del, SpaceUsed, Evict, SetReturn, Destroy, FreeEntry,
                            DestroyReturn, vars
            <4> QED BY <4>1 DEF Intact
        <3>2. CASE orphans # <<>>
            <4>1. orphans' = orphans \/ \E k \in Keys : GetHit(k)
                BY DEF Next, Set, Get, Del, SpaceUsed, Evict, SetReturn, Destroy, FreeEntry,
                       DestroyReturn, vars, SetTooLarge, SetNew, SetOverwrite, SetSegfault, Store,
                       Segfault, GetMiss, GetCorrupts, GetSegfault, DelMiss, DelHit, DelSegfault
            <4>2. ASSUME NEW k \in Keys, GetHit(k) PROVE orphans' # <<>>
                <5>1. queue # <<>> /\ orphans' = orphans \o CutOff(queue, k)
                    BY <4>2 DEF GetHit
                <5>2. /\ orphans \in Seq(Nodes) /\ queue \in Seq(Nodes)
                      /\ CutOff(queue, k) \in Seq(Nodes)
                    BY <5>1, StateFacts, QueueTypes
                <5> QED BY <3>2, <5>1, <5>2, ConcatEqualIffEmpty
            <4> QED BY <3>2, <4>1, <4>2 DEF Intact
        <3> QED BY <1>1, <3>1, <3>2 DEF Intact
    <2>2. Intact = FALSE /\ Intact' = FALSE
        BY <1>1, <2>1 DEF Intact
    <2>3. NoCall' = NoCall
        BY DEF NoCall, Reply
    <2> QED BY <2>2, <2>3 DEF LRU!vars
<1>2. ASSUME Intact, Intact' = Intact, Live' = Live, Live => AbstractStore' = AbstractStore,
             call' = call
      PROVE  Same
    BY <1>2 DEF LRU!vars
<1>3. CASE Intact /\ pc = "idle"
    <2>1. AtRest
        BY <1>3 DEF AtRest, Intact
    <2>2. ASSUME NEW k \in Keys, NEW p \in Payloads, Set(k, p) PROVE LRU!Next
        BY <2>1, <2>2, SetIsLRU
    <2>3. ASSUME NEW k \in Keys, Get(k) PROVE LRU!Next
        BY <2>1, <2>3, GetIsLRU
    <2>4. ASSUME NEW k \in Keys, Del(k) PROVE LRU!Next
        BY <2>1, <2>4, DelIsLRU
    <2>5. CASE SpaceUsed
        BY <2>1, <2>5, SpaceUsedIsLRU
    <2>6. CASE Destroy
        <3>1. Live /\ ~ Live' /\ Intact' /\ call' = call
            BY <1>3, <2>6 DEF Destroy, Live, Intact
        <3> QED BY <1>3, <3>1 DEF LRU!Next, LRU!Destroy
    <2>7. CASE UNCHANGED vars
        <3>1. Intact' = Intact /\ Live' = Live /\ AbstractStore' = AbstractStore /\ call' = call
            BY <2>7, StoreIsView DEF vars, Intact, Live
        <3> QED BY <1>2, <1>3, <3>1
    <2> QED BY <1>3, <2>2, <2>3, <2>4, <2>5, <2>6, <2>7
            DEF Next, Evict, SetReturn, FreeEntry, DestroyReturn
<1>4. CASE Intact /\ pc = "evicting"
    <2>1. CASE Evict
        <3>1. AbstractStore' = AbstractStore /\ UNCHANGED <<orphans, pc, call>>
            BY <1>4, <2>1, EvictIsHidden
        <3>2. Intact' = Intact /\ Live' = Live
            BY <3>1 DEF Intact, Live
        <3> QED BY <1>2, <1>4, <3>1, <3>2
    <2>2. CASE SetReturn
        <3>1. pc' = "idle" /\ UNCHANGED <<data, queue, orphans, call>>
            BY <2>2 DEF SetReturn
        <3>2. Intact' = Intact /\ Live' = Live /\ AbstractStore' = AbstractStore
            BY <1>4, <3>1, StoreIsView DEF Intact, Live
        <3> QED BY <1>2, <1>4, <3>1, <3>2
    <2>3. CASE UNCHANGED vars
        <3>1. Intact' = Intact /\ Live' = Live /\ AbstractStore' = AbstractStore /\ call' = call
            BY <2>3, StoreIsView DEF vars, Intact, Live
        <3> QED BY <1>2, <1>4, <3>1
    <2> QED BY <1>4, <2>1, <2>2, <2>3
            DEF Next, Set, Get, Del, SpaceUsed, Destroy, FreeEntry, DestroyReturn
<1>5. CASE Intact /\ pc \notin {"idle", "evicting"}
    <2>1. ~ Live /\ orphans = <<>>
        BY <1>5 DEF Live, Intact
    <2>2. ~ Segfault
        BY <2>1, NoSegfault
    <2>3. pc' \notin {"idle", "evicting", "corrupted"} /\ UNCHANGED <<orphans, call>>
        BY <1>5, <2>2 DEF Next, Set, Get, Del, SpaceUsed, Evict, SetReturn, Destroy, FreeEntry,
                      DestroyReturn, vars, Intact
    <2>4. Intact' = Intact /\ Live' = Live
        BY <1>5, <2>1, <2>3 DEF Intact, Live
    <2> QED BY <1>2, <1>5, <2>1, <2>3, <2>4
<1> QED BY <1>1, <1>3, <1>4, <1>5

\* Until the first get of the least recently used of several keys, every call
\* of Cache has the effect and the result LRUCache gives it, whatever the keys,
\* the values and their sizes: cache.cc set, get, del, space_used, the eviction
\* loop and the destructor (for maxmem_ below 2^31).
THEOREM ImplementsLRUHolds ==
    ASSUME MaxMem < SignBit
    PROVE  Spec => ImplementsLRU
<1>1. Init => LRU!Init
    BY InitIsLRU
<1>2. IInv /\ IInv' /\ [Next]_vars => [LRU!Next]_(LRU!vars)
    BY StepIsLRU
<1>3. Spec => []IInv
    BY Invariance
<1> QED BY <1>1, <1>2, <1>3, PTL DEF Spec, ImplementsLRU, LRU!Spec

=============================================================================
