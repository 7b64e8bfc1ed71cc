------------------------- MODULE EvictorListProofs -------------------------
(***************************************************************************)
(* The linked list of class Queue, for any number of addresses, keys and   *)
(* sizes: its walks end and stay on allocated nodes, and it does what the  *)
(* operators of QueueOps say, whatever node the unset prev of pushback     *)
(* points to.                                                              *)
(*                                                                         *)
(* The invariant is that some sequence of distinct allocated addresses     *)
(* leads from head to NULL.  Path is shown to be that sequence, so that    *)
(* each method is a change of it; the nodes off the chain may point        *)
(* anywhere.                                                               *)
(***************************************************************************)
EXTENDS EvictorList, FiniteSetTheorems, SequenceTheorems, TLAPS

\* The lemmas about the operators of QueueOps.
QP == INSTANCE QueueOpsProofs

N == Cardinality(Addrs)

\* s are the addresses from head to the end.
Walks(s) ==
    /\ s \in Seq(Addrs)
    /\ \A i, j \in 1 .. Len(s) : s[i] = s[j] => i = j
    /\ \A i \in 1 .. Len(s) :
          /\ heap[s[i]] # Free
          /\ heap[s[i]].next = IF i < Len(s) THEN s[i+1] ELSE NULL
    /\ head = IF Len(s) = 0 THEN NULL ELSE s[1]

Linked == \E s : Walks(s)

IInv == TypeOK /\ Linked

-----------------------------------------------------------------------------
(* The chain that Path walks. *)

LEMMA Constants ==
    /\ IsFiniteSet(Addrs) /\ N \in Nat /\ NULL \notin Addrs /\ Free \notin Node
    /\ SignBit \in Nat \ {0} /\ SInt \subseteq Int /\ 0 \in SInt
    /\ \A sz \in Sizes : AsInt(sz) \in SInt
<1>1. SignBit \in Nat \ {0} /\ Sizes \subseteq UInt /\ IsFiniteSet(Addrs)
  BY SignBitAssumption, EvictorListAssumption
<1>2. \A sz \in UInt : AsInt(sz) \in SInt
  BY <1>1 DEF UInt, SInt, AsInt
<1>3. N \in Nat
  BY <1>1, FS_CardinalityType DEF N
<1> QED BY <1>1, <1>2, <1>3, EvictorListAssumption DEF SInt

\* No sequence of distinct addresses is longer than there are addresses.
LEMMA Short ==
    ASSUME NEW s \in Seq(Addrs), \A i, j \in 1 .. Len(s) : s[i] = s[j] => i = j
    PROVE  Len(s) \in 0 .. N /\ Cardinality({s[i] : i \in 1 .. Len(s)}) = Len(s)
<1> DEFINE R == {s[i] : i \in 1 .. Len(s)}
<1>1. Len(s) \in Nat /\ \A i \in 1 .. Len(s) : s[i] \in Addrs
  BY LenProperties, ElementOfSeq
<1>2. IsFiniteSet(1 .. Len(s)) /\ Cardinality(1 .. Len(s)) = Len(s)
  <2>1. \A a, b \in Int : /\ IsFiniteSet(a .. b)
                         /\ Cardinality(a .. b) = IF a > b THEN 0 ELSE b - a + 1
    BY FS_Interval
  <2>2. 1 \in Int /\ Len(s) \in Int
    BY <1>1
  <2>3. /\ IsFiniteSet(1 .. Len(s))
        /\ Cardinality(1 .. Len(s)) = IF 1 > Len(s) THEN 0 ELSE Len(s) - 1 + 1
    BY <2>1, <2>2
  <2> QED BY <1>1, <2>3
<1>3. ExistsBijection(1 .. Len(s), R)
  <2> DEFINE f == [i \in 1 .. Len(s) |-> s[i]]
  <2>1. f \in [1 .. Len(s) -> R] /\ \A i \in 1 .. Len(s) : f[i] = s[i]
    OBVIOUS
  <2>2. \A i, j \in 1 .. Len(s) : f[i] = f[j] => i = j
    BY <2>1
  <2>3. \A a \in R : \E i \in 1 .. Len(s) : f[i] = a
    BY <2>1
  <2> HIDE DEF f
  <2>4. f \in Bijection(1 .. Len(s), R)
    BY <2>1, <2>2, <2>3 DEF Bijection, Injection, Surjection, IsInjective
  <2> QED BY <2>4 DEF ExistsBijection
<1>4. IsFiniteSet(R) /\ Cardinality(R) = Len(s)
  BY <1>2, <1>3, FS_Bijection
<1>5. Cardinality(R) <= N
  <2>1. R \in SUBSET Addrs
    BY <1>1
  <2> QED BY <2>1, Constants, FS_Subset DEF N
<1>6. Len(s) \in 0 .. N
  <2> HIDE DEF R
  <2> QED BY <1>1, <1>4, <1>5, Constants
<1> QED BY <1>4, <1>6

\* The equation that defines Path.
IsPath(p) ==
    p = [n \in 0 .. N |->
            IF n = 0 THEN head
            ELSE IF p[n-1] = NULL THEN NULL
            ELSE IF heap[p[n-1]] = Free THEN NULL
            ELSE heap[p[n-1]].next]

\* The chain, and then NULL for ever.
PathOf(s) == [n \in 0 .. N |-> IF n < Len(s) THEN s[n+1] ELSE NULL]

LEMMA PathExists ==
    ASSUME NEW s, Walks(s)
    PROVE  IsPath(PathOf(s))
<1> DEFINE p == PathOf(s)
<1>1. Len(s) \in Nat /\ (\A i \in 1 .. Len(s) : s[i] \in Addrs /\ s[i] # NULL) /\ N \in Nat
  BY LenProperties, ElementOfSeq, Constants DEF Walks
<1>2. \A n \in 0 .. N : p[n] = IF n < Len(s) THEN s[n+1] ELSE NULL
  BY DEF PathOf
<1>3. ASSUME NEW n \in 0 .. N
      PROVE  p[n] = IF n = 0 THEN head
                    ELSE IF p[n-1] = NULL THEN NULL
                    ELSE IF heap[p[n-1]] = Free THEN NULL
                    ELSE heap[p[n-1]].next
  <2>1. CASE n = 0
    BY <1>1, <1>2, <2>1 DEF Walks
  <2>2. CASE n # 0
    <3>1. n - 1 \in 0 .. N /\ p[n-1] = IF n - 1 < Len(s) THEN s[n] ELSE NULL
      BY <1>1, <1>2, <2>2
    <3>2. CASE n - 1 < Len(s)
      <4>1. n \in 1 .. Len(s) /\ p[n-1] = s[n]
        BY <1>1, <2>2, <3>1, <3>2
      <4>2. heap[s[n]] # Free /\ heap[s[n]].next = IF n < Len(s) THEN s[n+1] ELSE NULL
        BY <4>1 DEF Walks
      <4> HIDE DEF p
      <4> QED BY <1>1, <1>2, <2>2, <4>1, <4>2
    <3>3. CASE ~ (n - 1 < Len(s))
      <4> HIDE DEF p
      <4> QED BY <1>1, <1>2, <2>2, <3>1, <3>3
    <3> QED BY <3>2, <3>3
  <2> QED BY <2>1, <2>2
<1>4. p = [n \in 0 .. N |->
            IF n = 0 THEN head
            ELSE IF p[n-1] = NULL THEN NULL
            ELSE IF heap[p[n-1]] = Free THEN NULL
            ELSE heap[p[n-1]].next]
  <2>1. p = [n \in 0 .. N |-> p[n]]
    BY DEF PathOf
  <2> HIDE DEF p
  <2> QED BY <1>3, <2>1
<1> QED BY <1>4 DEF IsPath

LEMMA PathUnique ==
    ASSUME NEW p, NEW q, IsPath(p), IsPath(q)
    PROVE  p = q
<1>1. /\ \A n \in 0 .. N : p[n] = IF n = 0 THEN head
                    ELSE IF p[n-1] = NULL THEN NULL
                    ELSE IF heap[p[n-1]] = Free THEN NULL
                    ELSE heap[p[n-1]].next
      /\ \A n \in 0 .. N : q[n] = IF n = 0 THEN head
                    ELSE IF q[n-1] = NULL THEN NULL
                    ELSE IF heap[q[n-1]] = Free THEN NULL
                    ELSE heap[q[n-1]].next
  <2>1. \A n \in 0 .. N : p[n] = [m \in 0 .. N |->
            IF m = 0 THEN head
            ELSE IF p[m-1] = NULL THEN NULL
            ELSE IF heap[p[m-1]] = Free THEN NULL
            ELSE heap[p[m-1]].next][n]
    BY DEF IsPath
  <2>2. \A n \in 0 .. N : q[n] = [m \in 0 .. N |->
            IF m = 0 THEN head
            ELSE IF q[m-1] = NULL THEN NULL
            ELSE IF heap[q[m-1]] = Free THEN NULL
            ELSE heap[q[m-1]].next][n]
    BY DEF IsPath
  <2> QED BY <2>1, <2>2
<1> DEFINE Bad == {n \in 0 .. N : p[n] # q[n]}
<1>2. Bad = {}
  <2> SUFFICES ASSUME Bad # {} PROVE FALSE
    OBVIOUS
  <2>1. PICK m \in Bad : \A n \in Bad : m <= n
    <3>1. Bad \subseteq Nat
      BY Constants
    <3> QED BY <3>1, SignBitAssumption, QP!LeastNumber
  <2>2. m # 0 /\ m - 1 \in 0 .. N /\ ~ (m <= m - 1)
    BY <1>1, <2>1, Constants
  <2>3. p[m-1] = q[m-1]
    BY <2>1, <2>2
  <2> QED BY <1>1, <2>1, <2>2, <2>3
<1>3. p = [n \in 0 .. N |-> p[n]] /\ q = [n \in 0 .. N |-> q[n]]
  BY DEF IsPath
<1> QED BY <1>2, <1>3

LEMMA PathIs ==
    ASSUME NEW s, Walks(s)
    PROVE  Path = PathOf(s)
<1>1. Path = CHOOSE p : IsPath(p)
  BY DEF Path, IsPath, N
<1>2. IsPath(Path)
  BY <1>1, PathExists
<1> QED BY <1>2, PathExists, PathUnique

Kinds == [key : Keys, size : {AsInt(s) : s \in Sizes}]

\* What the methods see of the chain.
LEMMA ChainIs ==
    ASSUME TypeOK, NEW s, Walks(s)
    PROVE  /\ Len(s) \in 0 .. N
           /\ \A i \in 1 .. Len(s) : s[i] \in Addrs /\ heap[s[i]] \in Node
           /\ \A i \in 1 .. Len(s) : Path[i-1] = s[i]
           /\ Chain = {s[i] : i \in 1 .. Len(s)} /\ ChainLength = Len(s)
           /\ Path[N] = NULL
           /\ Len(s) > 0 => Last = s[Len(s)]
           /\ head = NULL <=> Len(s) = 0
           /\ Queue = [i \in 1 .. Len(s) |-> AbstractNode(s[i])]
           /\ Queue \in Seq(Kinds) /\ Len(Queue) = Len(s)
<1>0. Cardinality({s[i] : i \in 1 .. Len(s)}) = Len(s) /\ Len(s) \in 0 .. N
  BY Short DEF Walks
<1>1. Len(s) \in 0 .. N /\ N \in Nat /\ Len(s) \in Nat /\ Len(s) <= N
  <2>1. N \in Nat
    BY Constants
  <2>2. Len(s) \in 0 .. N
    BY <1>0
  <2> QED BY <2>1, <2>2
<1>2. \A i \in 1 .. Len(s) : s[i] \in Addrs /\ s[i] # NULL /\ heap[s[i]] \in Node
  BY ElementOfSeq, Constants DEF Walks, TypeOK
<1>3. Path = [n \in 0 .. N |-> IF n < Len(s) THEN s[n+1] ELSE NULL]
  BY PathIs DEF PathOf
<1>4. \A i \in 1 .. Len(s) : i - 1 \in 0 .. N /\ Path[i-1] = s[i]
  BY <1>1, <1>3
<1>5. Chain = {s[i] : i \in 1 .. Len(s)}
  <2>1. DOMAIN Path = 0 .. N
    BY <1>3
  <2>2. \A n \in 0 .. N : Path[n] = IF n < Len(s) THEN s[n+1] ELSE NULL
    BY <1>3
  <2>3. ASSUME NEW n \in 0 .. N, Path[n] # NULL PROVE n + 1 \in 1 .. Len(s) /\ Path[n] = s[n+1]
    BY <1>1, <2>2, <2>3
  <2>4. \A x \in Chain : \E i \in 1 .. Len(s) : x = s[i]
    BY <2>1, <2>3 DEF Chain
  <2>5. \A i \in 1 .. Len(s) : s[i] \in Chain
    BY <1>2, <1>4, <2>1 DEF Chain
  <2> QED BY <2>4, <2>5
<1>6. ChainLength = Len(s)
  BY <1>0, <1>5 DEF ChainLength
<1>7. Path[N] = NULL
  BY <1>1, <1>3
<1>8. Len(s) > 0 => Last = s[Len(s)]
  BY <1>1, <1>4, <1>6 DEF Last
<1>9. head = NULL <=> Len(s) = 0
  <2>1. Len(s) # 0 => 1 \in 1 .. Len(s)
    BY <1>1
  <2> QED BY <1>2, <2>1 DEF Walks
<1>10. Queue = [i \in 1 .. Len(s) |-> AbstractNode(s[i])]
  BY <1>4, <1>6 DEF Queue
<1>11. \A i \in 1 .. Len(s) : AbstractNode(s[i]) \in Kinds
  BY <1>2 DEF AbstractNode, Node, Kinds
<1>12. Queue \in Seq(Kinds) /\ Len(Queue) = Len(s)
  <2>1. Queue \in [1 .. Len(s) -> Kinds]
    BY <1>10, <1>11
  <2>2. Len(s) \in Nat
    BY <1>1
  <2>3. Queue \in Seq(Kinds)
    BY <2>1, <2>2, SeqDef
  <2>4. DOMAIN Queue = 1 .. Len(s)
    BY <1>10
  <2>5. Len(Queue) \in Nat /\ DOMAIN Queue = 1 .. Len(Queue)
    BY <2>3, LenProperties
  <2> QED BY <2>2, <2>3, <2>4, <2>5
<1> QED BY <1>1, <1>2, <1>4, <1>5, <1>6, <1>7, <1>8, <1>9, <1>10, <1>12

-----------------------------------------------------------------------------
(* The copies of the operators of QueueOps and FiniteSets. *)

LEMMA SameCardinality == \A S : EQ!Cardinality(S) = Cardinality(S)
BY DEF EQ!Cardinality, Cardinality

LEMMA SameWalk == ASSUME NEW q, NEW k PROVE EQ!WalkTo(q, k) = QP!WalkTo(q, k)
BY DEF EQ!WalkTo, QP!WalkTo, EQ!SelectInSeq, QP!SelectInSeq, EQ!Min, QP!Min

LEMMA SameRemoveAt == ASSUME NEW q, NEW i PROVE EQ!RemoveAt(q, i) = QP!RemoveAt(q, i)
BY DEF EQ!RemoveAt, QP!RemoveAt

\* A walk of QueueOps finds the first node of the key.
LEMMA WalkFinds ==
    ASSUME NEW q \in Seq(Kinds), NEW k
    PROVE  \/ /\ EQ!WalkTo(q, k) = 0
              /\ \A j \in 1 .. Len(q) : q[j].key # k
           \/ /\ EQ!WalkTo(q, k) \in 1 .. Len(q)
              /\ q[EQ!WalkTo(q, k)].key = k
              /\ \A j \in 1 .. EQ!WalkTo(q, k) - 1 : q[j].key # k
BY SignBitAssumption, SameWalk, QP!WalkToProperties

LEMMA Removes ==
    ASSUME NEW S, NEW q \in Seq(S), NEW i \in 1 .. Len(q)
    PROVE  /\ EQ!RemoveAt(q, i) \in Seq(S)
           /\ Len(EQ!RemoveAt(q, i)) = Len(q) - 1
           /\ \A j \in 1 .. Len(q) - 1 :
                 EQ!RemoveAt(q, i)[j] = IF j < i THEN q[j] ELSE q[j+1]
BY SignBitAssumption, SameRemoveAt, QP!RemoveAtProperties

-----------------------------------------------------------------------------
(* Where the search loop ends. *)

LEMMA LinksFinds ==
    ASSUME TypeOK, NEW s, Walks(s), Len(s) > 0, NEW k
    PROVE  \E n \in 1 .. Len(s) :
              /\ Links(k) = n - 1
              /\ n = Len(s) \/ heap[s[n]].key = k
              /\ \A m \in 1 .. n - 1 : heap[s[m]].key # k
<1>1. /\ Len(s) \in Nat /\ ChainLength = Len(s)
      /\ \A i \in 1 .. Len(s) : Path[i-1] = s[i] /\ s[i] \in Addrs
  BY ChainIs
<1>2. \A n \in 0 .. Len(s) - 1 : n + 1 \in 1 .. Len(s) /\ Path[n] = s[n+1]
  BY <1>1
<1>3. \A n \in 0 .. Len(s) - 1 : heap[Path[n]].next = NULL <=> n = Len(s) - 1
  <2> SUFFICES ASSUME NEW n \in 0 .. Len(s) - 1 PROVE heap[s[n+1]].next = NULL <=> n = Len(s) - 1
    BY <1>2
  <2>1. heap[s[n+1]].next = IF n + 1 < Len(s) THEN s[n+2] ELSE NULL
    BY <1>2 DEF Walks
  <2>2. n + 1 < Len(s) => s[n+2] # NULL
    <3>1. n + 1 < Len(s) => n + 2 \in 1 .. Len(s)
      BY <1>1
    <3> QED BY <1>1, <3>1, Constants
  <2> QED BY <1>1, <2>1, <2>2
<1> DEFINE Stops(n) == heap[Path[n]].next = NULL \/ heap[Path[n]].key = k
           Ends == {n \in 0 .. Len(s) - 1 : Stops(n)}
           Search(n) == /\ Stops(n)
                        /\ \A m \in 0 .. n - 1 : heap[Path[m]].next # NULL /\ heap[Path[m]].key # k
<1>4. PICK l \in Ends : \A n \in Ends : l <= n
  <2>1. Len(s) - 1 \in Ends
    BY <1>1, <1>3
  <2>2. Ends \subseteq Nat /\ Ends # {}
    BY <1>1, <2>1
  <2> QED BY <2>2, SignBitAssumption, QP!LeastNumber
<1>5. l \in 0 .. Len(s) - 1 /\ Search(l)
  <2>1. \A m \in 0 .. l - 1 : m \in 0 .. Len(s) - 1 /\ ~ (l <= m)
    BY <1>1, <1>4
  <2> QED BY <1>4, <2>1
<1>6. Links(k) = CHOOSE n \in 0 .. Len(s) - 1 : Search(n)
  BY <1>1 DEF Links
<1>7. Links(k) \in 0 .. Len(s) - 1 /\ Search(Links(k))
  <2> HIDE DEF Search
  <2> QED BY <1>5, <1>6
<1> DEFINE n == Links(k) + 1
<1>8. n \in 1 .. Len(s) /\ Links(k) = n - 1
  BY <1>1, <1>7
<1>9. n = Len(s) \/ heap[s[n]].key = k
  <2>1. Path[Links(k)] = s[n]
    BY <1>2, <1>7
  <2>2. heap[Path[Links(k)]].next = NULL \/ heap[Path[Links(k)]].key = k
    BY <1>7
  <2>3. heap[Path[Links(k)]].next = NULL => Links(k) = Len(s) - 1
    BY <1>3, <1>7
  <2> QED BY <1>1, <1>8, <2>1, <2>2, <2>3
<1>10. ASSUME NEW m \in 1 .. n - 1 PROVE heap[s[m]].key # k
  <2>1. m - 1 \in 0 .. Links(k) - 1 /\ m - 1 \in 0 .. Len(s) - 1
    BY <1>1, <1>7, <1>8, <1>10
  <2>2. heap[Path[m-1]].key # k
    BY <1>7, <2>1
  <2>3. Path[m-1] = s[m-1+1] /\ m - 1 + 1 = m
    BY <1>2, <2>1, <1>8
  <2> QED BY <2>2, <2>3
<1> QED BY <1>8, <1>9, <1>10

\* n is where the search for k ends.
Stop(s, k, n) ==
    /\ n \in 1 .. Len(s)
    /\ Curr(k) = s[n] /\ (n > 1 => n - 1 \in 1 .. Len(s) /\ Prev(k) = s[n-1])
    /\ n = 1 <=> Curr(k) = head
    /\ heap[Curr(k)].next = NULL <=> n = Len(s)
    /\ Found(k) <=> EQ!WalkTo(Queue, k) # 0
    /\ Found(k) => EQ!WalkTo(Queue, k) = n
    /\ ~ Found(k) => n = Len(s)
    /\ EQ!SizeIn(Queue, k) = IF Found(k) THEN heap[Curr(k)].size ELSE 0

LEMMA Search ==
    ASSUME TypeOK, NEW s, Walks(s), Len(s) > 0, NEW k
    PROVE  \E n \in 1 .. Len(s) : Stop(s, k, n)
<1>1. PICK n \in 1 .. Len(s) :
         /\ Links(k) = n - 1
         /\ n = Len(s) \/ heap[s[n]].key = k
         /\ \A m \in 1 .. n - 1 : heap[s[m]].key # k
  BY LinksFinds
<1>0. Len(s) \in Nat
  BY LenProperties DEF Walks
<1>2. \A i \in 1 .. Len(s) : Path[i-1] = s[i] /\ s[i] \in Addrs
  BY ChainIs
<1>20. /\ Queue \in Seq(Kinds) /\ Len(Queue) = Len(s)
       /\ Queue = [i \in 1 .. Len(s) |-> AbstractNode(s[i])]
  BY ChainIs
<1>3. Curr(k) = s[n]
  BY <1>1, <1>2 DEF Curr
<1>4. n > 1 => n - 1 \in 1 .. Len(s) /\ Prev(k) = s[n-1]
  <2> SUFFICES ASSUME n > 1 PROVE n - 1 \in 1 .. Len(s) /\ Prev(k) = s[n-1]
    OBVIOUS
  <2>1. n - 1 \in 1 .. Len(s) /\ Links(k) - 1 = n - 1 - 1
    BY <1>0, <1>1
  <2> QED BY <1>2, <2>1 DEF Prev
<1>5. n = 1 <=> Curr(k) = head
  <2>1. head = s[1] /\ 1 \in 1 .. Len(s)
    BY <1>2 DEF Walks
  <2> QED BY <1>3, <2>1 DEF Walks
<1>6. heap[Curr(k)].next = NULL <=> n = Len(s)
  <2>1. heap[s[n]].next = IF n < Len(s) THEN s[n+1] ELSE NULL
    BY DEF Walks
  <2>2. n < Len(s) => n + 1 \in 1 .. Len(s)
    BY <1>0
  <2>3. n < Len(s) => s[n+1] # NULL
    BY <1>2, <2>2, Constants
  <2> QED BY <1>0, <1>3, <2>1, <2>3
<1>7. \A i \in 1 .. Len(s) : Queue[i].key = heap[s[i]].key /\ Queue[i].size = heap[s[i]].size
  BY <1>20 DEF AbstractNode
<1>8. Found(k) <=> heap[s[n]].key = k
  BY <1>3 DEF Found
<1>9. CASE heap[s[n]].key = k
  <2>1. EQ!WalkTo(Queue, k) \in 1 .. Len(s)
        /\ Queue[EQ!WalkTo(Queue, k)].key = k
        /\ \A j \in 1 .. EQ!WalkTo(Queue, k) - 1 : Queue[j].key # k
    BY <1>0, <1>7, <1>9, <1>20, WalkFinds
  <2>2. EQ!WalkTo(Queue, k) = n
    <3> DEFINE w == EQ!WalkTo(Queue, k)
    <3>1. w \in 1 .. Len(s) /\ heap[s[w]].key = k /\ \A j \in 1 .. w - 1 : Queue[j].key # k
      BY <1>7, <2>1
    <3> HIDE DEF w
    <3>2. ~ (w < n)
      BY <1>0, <1>1, <3>1
    <3>3. ~ (n < w)
      BY <1>0, <1>7, <1>9, <3>1
    <3> QED BY <1>0, <3>1, <3>2, <3>3 DEF w
  <2>3. EQ!SizeIn(Queue, k) = heap[s[n]].size
    BY <1>0, <1>7, <2>2 DEF EQ!SizeIn
  <2>4. n # 0
    BY <1>0
  <2> QED BY <1>3, <1>4, <1>5, <1>6, <1>8, <1>9, <2>2, <2>3, <2>4 DEF Stop
<1>10. CASE heap[s[n]].key # k
  <2>1. n = Len(s)
    BY <1>1, <1>10
  <2>2. \A j \in 1 .. Len(s) : Queue[j].key # k
    BY <1>0, <1>1, <1>7, <1>10, <2>1
  <2>3. EQ!WalkTo(Queue, k) = 0
    BY <1>0, <2>2, <1>20, WalkFinds
  <2>4. EQ!SizeIn(Queue, k) = 0
    BY <2>3 DEF EQ!SizeIn
  <2> QED BY <1>3, <1>4, <1>5, <1>6, <1>8, <1>10, <2>1, <2>3, <2>4 DEF Stop
<1> QED BY <1>9, <1>10

-----------------------------------------------------------------------------
(* Before and after a step. *)

ChainFacts(s) ==
    /\ Len(s) \in Nat
    /\ Chain = {s[i] : i \in 1 .. Len(s)}
    /\ Queue = [i \in 1 .. Len(s) |-> AbstractNode(s[i])]
    /\ Queue \in Seq(Kinds) /\ Len(Queue) = Len(s)

WalksAreChains == \A s : Walks(s) => ChainFacts(s)

LEMMA Chains == TypeOK => WalksAreChains
<1> SUFFICES ASSUME TypeOK, NEW s, Walks(s) PROVE ChainFacts(s)
  BY DEF WalksAreChains
<1> QED BY ChainIs, LenProperties DEF Walks, ChainFacts

LEMMA ChainsNext == TypeOK' => WalksAreChains'
BY Chains, PTL

\* Nodes that are off the chain before and after keep what they carry.
LEMMA LostStays ==
    ASSUME \A x \in Addrs : x \notin Chain' /\ heap'[x] # Free <=> x \notin Chain /\ heap[x] # Free,
           \A x \in Addrs : x \notin Chain /\ heap[x] # Free => AbstractNode(x)' = AbstractNode(x)
    PROVE  LostCounts' = LostCounts
<1>1. ASSUME NEW x PROVE Lost(x)' = Lost(x)
  BY DEF Lost, AbstractNode
<1> QED BY <1>1 DEF LostCounts

\* The addresses of a walk.
LEMMA WalkNodes ==
    ASSUME TypeOK, NEW s, Walks(s)
    PROVE  /\ Len(s) \in Nat
           /\ \A i \in 1 .. Len(s) : s[i] \in Addrs /\ s[i] # NULL /\ heap[s[i]] \in Node
           /\ Chain = {s[i] : i \in 1 .. Len(s)}
           /\ head = NULL <=> Len(s) = 0
           /\ Len(s) > 0 => Last = s[Len(s)]
BY ChainIs, LenProperties, Constants DEF Walks

LEMMA EnqueueStep ==
    ASSUME TypeOK, NEW s, Walks(s), NEW k \in Keys, NEW sz \in Sizes, Enqueue(k, sz)
    PROVE  TypeOK' /\ Linked' /\ EQ!EnqueueKey(k, sz)
<1>1. PICK a \in Addrs :
         /\ heap[a] = Free
         /\ LET temp == [key |-> k, size |-> AsInt(sz), next |-> NULL]
            IN  IF head = NULL
                THEN head' = a /\ heap' = [heap EXCEPT ![a] = temp]
                ELSE /\ heap' = [heap EXCEPT ![a] = temp, ![Last].next = a]
                     /\ UNCHANGED head
  BY DEF Enqueue
<1>2. UNCHANGED <<result, status>> /\ \A x \in Chain : heap[x].key # k
  BY DEF Enqueue
<1>3. /\ Len(s) \in Nat
      /\ \A i \in 1 .. Len(s) : s[i] \in Addrs /\ s[i] # NULL /\ heap[s[i]] \in Node
      /\ head = NULL <=> Len(s) = 0
      /\ Len(s) > 0 => Last = s[Len(s)]
  BY WalkNodes
<1>4. \A i \in 1 .. Len(s) : s[i] # a
  BY <1>1 DEF Walks
<1> DEFINE t == Append(s, a)
           temp == [key |-> k, size |-> AsInt(sz), next |-> NULL]
<1>5. /\ t \in Seq(Addrs) /\ Len(t) = Len(s) + 1 /\ t[Len(s) + 1] = a
      /\ \A i \in 1 .. Len(s) : t[i] = s[i]
  BY <1>3, AppendProperties DEF Walks
<1>6. /\ heap' \in [Addrs -> Node \cup {Free}] /\ head' \in Addrs \cup {NULL}
      /\ heap'[a] = temp
      /\ \A x \in Addrs \ {a} :
            /\ heap'[x] = Free <=> heap[x] = Free
            /\ heap[x] # Free => /\ heap'[x].key = heap[x].key /\ heap'[x].size = heap[x].size
                                 /\ heap'[x].next = IF Len(s) > 0 /\ x = s[Len(s)] THEN a ELSE heap[x].next
  <2>0. temp \in Node /\ Free \notin Node
    BY Constants DEF Node
  <2>1. CASE head = NULL
    BY <1>1, <1>3, <2>0, <2>1 DEF TypeOK
  <2>2. CASE head # NULL
    <3>1. Len(s) \in 1 .. Len(s) /\ Last = s[Len(s)] /\ Last \in Addrs /\ Last # a /\ heap[Last] \in Node
      BY <1>3, <1>4, <2>2
    <3> DEFINE l == Last
    <3>2. heap' = [heap EXCEPT ![a] = temp, ![l].next = a] /\ head' = head
      BY <1>1, <2>2
    <3>3. heap'[l] = [heap[l] EXCEPT !.next = a]
      BY <3>1, <3>2 DEF TypeOK
    <3>4. heap'[a] = temp /\ \A x \in Addrs \ {a, l} : heap'[x] = heap[x]
      BY <3>1, <3>2 DEF TypeOK
    <3>5. heap'[l] \in Node /\ heap'[l].key = heap[l].key /\ heap'[l].size = heap[l].size /\ heap'[l].next = a
      BY <3>1, <3>3 DEF Node
    <3>6. heap' \in [Addrs -> Node \cup {Free}]
      <4>1. \A x \in Addrs : heap'[x] \in Node \cup {Free}
        BY <2>0, <3>4, <3>5 DEF TypeOK
      <4>2. heap' = [x \in Addrs |-> heap'[x]]
        BY <3>2 DEF TypeOK
      <4> QED BY <4>1, <4>2
    <3> HIDE DEF l
    <3>7. l = s[Len(s)] /\ Len(s) > 0
      BY <1>3, <2>2, <3>1 DEF l
    <3> QED BY <2>0, <3>1, <3>2, <3>4, <3>5, <3>6, <3>7 DEF TypeOK, l
  <2> QED BY <2>1, <2>2
<1>7. TypeOK'
  BY <1>2, <1>6 DEF TypeOK
<1> HIDE DEF t, temp
<1>8. Walks(t)'
  <2>1. ASSUME NEW i \in 1 .. Len(t), NEW j \in 1 .. Len(t), t[i] = t[j] PROVE i = j
    <3>1. \A m \in 1 .. Len(t) : (m \in 1 .. Len(s) /\ t[m] = s[m]) \/ (m = Len(s) + 1 /\ t[m] = a)
      BY <1>3, <1>5
    <3>2. \A m, n \in 1 .. Len(s) : s[m] = s[n] => m = n
      BY DEF Walks
    <3> QED BY <1>4, <2>1, <3>1, <3>2
  <2>2. ASSUME NEW i \in 1 .. Len(t)
        PROVE  heap'[t[i]] # Free /\ heap'[t[i]].next = IF i < Len(t) THEN t[i+1] ELSE NULL
    <3>1. CASE i = Len(s) + 1
      <4>1. t[i] = a /\ heap'[a] = temp /\ ~ (i < Len(t))
        BY <1>3, <1>5, <1>6, <3>1
      <4>2. temp # Free /\ temp.next = NULL
        BY Constants DEF Node, temp
      <4> QED BY <4>1, <4>2
    <3>2. CASE i # Len(s) + 1
      <4>1. i \in 1 .. Len(s) /\ t[i] = s[i] /\ i < Len(t) /\ s[i] \in Addrs \ {a}
        BY <1>3, <1>4, <1>5, <3>2
      <4>2. heap[s[i]] # Free /\ heap[s[i]].next = IF i < Len(s) THEN s[i+1] ELSE NULL
        BY <4>1 DEF Walks
      <4>3. heap'[s[i]] # Free /\ heap'[s[i]].next = IF Len(s) > 0 /\ s[i] = s[Len(s)] THEN a ELSE heap[s[i]].next
        BY <1>6, <4>1, <4>2
      <4>4. CASE i = Len(s)
        BY <1>3, <1>5, <4>1, <4>3, <4>4
      <4>5. CASE i < Len(s)
        <5>1. s[i] # s[Len(s)]
          BY <1>3, <4>1, <4>5 DEF Walks
        <5>2. t[i+1] = s[i+1]
          BY <1>3, <1>5, <4>1, <4>5
        <5> QED BY <4>1, <4>2, <4>3, <4>5, <5>1, <5>2
      <4> QED BY <1>3, <4>1, <4>4, <4>5
    <3> QED BY <3>1, <3>2
  <2>3. head' = IF Len(t) = 0 THEN NULL ELSE t[1]
    <3>1. CASE Len(s) = 0
      BY <1>1, <1>3, <1>5, <3>1
    <3>2. CASE Len(s) # 0
      <4>1. 1 \in 1 .. Len(s) /\ head = s[1] /\ head' = head
        BY <1>1, <1>3, <3>2 DEF Walks
      <4> QED BY <1>3, <1>5, <4>1
    <3> QED BY <3>1, <3>2
  <2> QED BY <1>5, <2>1, <2>2, <2>3 DEF Walks
<1>9. ChainFacts(s) /\ ChainFacts(t)'
  BY <1>7, <1>8, Chains, ChainsNext DEF WalksAreChains
<1>10. Queue' = Append(Queue, [key |-> k, size |-> AsInt(sz)])
  <2>1. \A i \in 1 .. Len(s) : AbstractNode(s[i])' = AbstractNode(s[i])
    BY <1>3, <1>4, <1>6 DEF AbstractNode, Walks
  <2>2. AbstractNode(a)' = [key |-> k, size |-> AsInt(sz)]
    BY <1>6 DEF AbstractNode, temp
  <2>3. Queue' = [i \in 1 .. Len(s) + 1 |-> AbstractNode(t[i])']
    BY <1>5, <1>9 DEF ChainFacts
  <2> DEFINE q == Append(Queue, [key |-> k, size |-> AsInt(sz)])
  <2>4. [key |-> k, size |-> AsInt(sz)] \in Kinds
    BY DEF Kinds
  <2>5. /\ q \in Seq(Kinds) /\ Len(q) = Len(s) + 1 /\ q[Len(s) + 1] = [key |-> k, size |-> AsInt(sz)]
        /\ \A i \in 1 .. Len(s) : q[i] = Queue[i]
    BY <1>9, <2>4, AppendProperties DEF ChainFacts
  <2>6. \A i \in 1 .. Len(s) + 1 : Queue'[i] = q[i]
    <3>1. \A i \in 1 .. Len(s) : Queue[i] = AbstractNode(s[i])
      BY <1>9 DEF ChainFacts
    <3> HIDE DEF q
    <3> QED BY <1>3, <1>5, <2>1, <2>2, <2>3, <2>5, <3>1
  <2>7. Queue' \in Seq(Kinds) /\ Len(Queue') = Len(s) + 1
    BY <1>5, <1>9 DEF ChainFacts
  <2> HIDE DEF q
  <2>8. Queue' = q
    BY <2>5, <2>6, <2>7, SeqEqual
  <2> QED BY <2>8 DEF q
<1>11. LostCounts' = LostCounts
  <2>1. \A x : x \in Chain' <=> x \in Chain \/ x = a
    <3>1. \A x : x \in Chain' <=> \E i \in 1 .. Len(s) + 1 : x = t[i]
      BY <1>5, <1>9 DEF ChainFacts
    <3>2. \A x : x \in Chain <=> \E i \in 1 .. Len(s) : x = s[i]
      BY <1>9 DEF ChainFacts
    <3> QED BY <1>3, <1>5, <3>1, <3>2
  <2>2. \A x \in Addrs : x \notin Chain /\ heap[x] # Free => x # a /\ AbstractNode(x)' = AbstractNode(x)
    BY <1>1, <1>6 DEF AbstractNode
  <2> QED BY <1>1, <1>6, <2>1, <2>2, LostStays
<1>12. EQ!WalkTo(Queue, k) = 0
  <2>1. \A i \in 1 .. Len(s) : Queue[i].key # k
    BY <1>2, <1>9 DEF ChainFacts, AbstractNode
  <2> QED BY <1>9, <2>1, WalkFinds DEF ChainFacts
<1>13. EQ!AsInt(sz) = AsInt(sz)
  BY DEF EQ!AsInt, AsInt
<1> QED BY <1>2, <1>7, <1>8, <1>10, <1>11, <1>12, <1>13 DEF Linked, EQ!EnqueueKey, EQ!Enqueue

\* Every allocated node stays allocated and keeps its key and size.
Keeps ==
    /\ heap' \in [Addrs -> Node \cup {Free}]
    /\ \A x \in Addrs :
          /\ heap'[x] = Free <=> heap[x] = Free
          /\ heap[x] # Free => heap'[x].key = heap[x].key /\ heap'[x].size = heap[x].size

\* A new chain of nodes that kept their keys and sizes.
LEMMA NewQueue ==
    ASSUME TypeOK, TypeOK', NEW t, Walks(t)',
           \A i \in 1 .. Len(t) : heap'[t[i]].key = heap[t[i]].key /\ heap'[t[i]].size = heap[t[i]].size,
           NEW q \in Seq(Kinds), Len(q) = Len(t),
           \A i \in 1 .. Len(t) : q[i] = AbstractNode(t[i])
    PROVE  Queue' = q
<1>1. ChainFacts(t)'
  BY ChainsNext DEF WalksAreChains
<1>2. Queue' = [i \in 1 .. Len(t) |-> AbstractNode(t[i])'] /\ Queue' \in Seq(Kinds) /\ Len(Queue') = Len(t)
  BY <1>1 DEF ChainFacts
<1>3. \A i \in 1 .. Len(t) : Queue'[i] = q[i]
  <2>1. \A i \in 1 .. Len(t) : AbstractNode(t[i])' = AbstractNode(t[i])
    BY DEF AbstractNode
  <2> QED BY <1>2, <2>1
<1> QED BY <1>2, <1>3, SeqEqual

\* Nothing moves.
LEMMA Same ==
    ASSUME TypeOK, NEW s, Walks(s), UNCHANGED <<head, heap>>
    PROVE  Walks(s)' /\ Queue' = Queue /\ LostCounts' = LostCounts
<1>1. Walks(s)'
  BY DEF Walks
<1>2. Path' = Path
  BY DEF Path
<1>3. Chain' = Chain /\ ChainLength' = ChainLength
  BY <1>2 DEF Chain, ChainLength
<1>4. Queue' = Queue
  BY <1>2, <1>3 DEF Queue, AbstractNode
<1>5. LostCounts' = LostCounts
  BY <1>3 DEF LostCounts, Lost, AbstractNode
<1> QED BY <1>1, <1>4, <1>5

-----------------------------------------------------------------------------
(* rem and dequeue. *)

\* The node at place n leaves the chain and is deleted.
LEMMA TakesOut ==
    ASSUME TypeOK, TypeOK', NEW s, Walks(s), NEW n \in 1 .. Len(s),
           heap'[s[n]] = Free,
           \A x \in Addrs \ {s[n]} :
              /\ heap'[x] = Free <=> heap[x] = Free
              /\ heap[x] # Free =>
                    /\ heap'[x].key = heap[x].key /\ heap'[x].size = heap[x].size
                    /\ heap'[x].next = IF n > 1 /\ x = s[n-1] THEN heap[s[n]].next ELSE heap[x].next,
           head' = IF n = 1 THEN heap[s[1]].next ELSE head
    PROVE  Linked' /\ Queue' = EQ!RemoveAt(Queue, n) /\ LostCounts' = LostCounts
<1> DEFINE t == EQ!RemoveAt(s, n)
<1>1. /\ Len(s) \in Nat /\ n \in Nat /\ s \in Seq(Addrs)
      /\ \A i \in 1 .. Len(s) : s[i] \in Addrs /\ s[i] # NULL /\ heap[s[i]] \in Node
  BY WalkNodes DEF Walks
<1>2. /\ t \in Seq(Addrs) /\ Len(t) = Len(s) - 1
      /\ \A j \in 1 .. Len(s) - 1 : t[j] = IF j < n THEN s[j] ELSE s[j+1]
  BY <1>1, Removes
<1>3. \A i, j \in 1 .. Len(s) : s[i] = s[j] => i = j
  BY DEF Walks
<1>4. \A i \in 1 .. Len(s) : heap[s[i]] # Free /\ heap[s[i]].next = IF i < Len(s) THEN s[i+1] ELSE NULL
  BY DEF Walks
<1> HIDE DEF t
<1>5. \A j \in 1 .. Len(t) : \/ j < n /\ j \in 1 .. Len(s) /\ t[j] = s[j] /\ s[j] # s[n]
                             \/ j >= n /\ j + 1 \in 1 .. Len(s) /\ t[j] = s[j+1] /\ s[j+1] # s[n]
  <2> TAKE j \in 1 .. Len(t)
  <2>1. j \in Nat /\ j \in 1 .. Len(s) - 1 /\ t[j] = IF j < n THEN s[j] ELSE s[j+1]
    BY <1>1, <1>2
  <2>2. j \in 1 .. Len(s) /\ j + 1 \in 1 .. Len(s) /\ (j < n => j # n) /\ (j >= n => j + 1 # n)
    BY <1>1, <2>1
  <2>3. (j < n => s[j] # s[n]) /\ (j >= n => s[j+1] # s[n])
    BY <1>3, <2>2
  <2> QED BY <1>1, <2>1, <2>2, <2>3
<1>6. Walks(t)'
  <2>1. ASSUME NEW i \in 1 .. Len(t), NEW j \in 1 .. Len(t), t[i] = t[j] PROVE i = j
    BY <1>1, <1>3, <1>5, <2>1
  <2>2. ASSUME NEW i \in 1 .. Len(t)
        PROVE  heap'[t[i]] # Free /\ heap'[t[i]].next = IF i < Len(t) THEN t[i+1] ELSE NULL
    <3>0. i \in Nat /\ Len(t) = Len(s) - 1
      BY <1>1, <1>2
    <3>1. CASE i < n
      <4>1. i \in 1 .. Len(s) /\ t[i] = s[i] /\ s[i] \in Addrs \ {s[n]} /\ heap[s[i]] # Free
        BY <1>1, <1>4, <1>5, <3>0, <3>1
      <4>2. heap'[s[i]] # Free /\ heap'[s[i]].next = IF n > 1 /\ s[i] = s[n-1] THEN heap[s[n]].next ELSE heap[s[i]].next
        BY <4>1
      <4>3. CASE i = n - 1
        <5>1. heap'[s[i]].next = IF n < Len(s) THEN s[n+1] ELSE NULL
          BY <1>1, <1>4, <3>0, <4>1, <4>2, <4>3
        <5>2. i < Len(t) <=> n < Len(s)
          BY <1>1, <3>0, <4>3
        <5>3. i < Len(t) => t[i+1] = s[n+1]
          BY <1>1, <1>2, <3>0, <4>3
        <5> QED BY <4>1, <4>2, <5>1, <5>2, <5>3
      <4>4. CASE i # n - 1
        <5>1. i + 1 < n /\ i < Len(t) /\ i < Len(s) /\ i + 1 \in 1 .. Len(s) - 1
          BY <1>1, <3>0, <3>1, <4>1, <4>4
        <5>2. s[i] # s[n-1]
          <6>1. n - 1 \in 1 .. Len(s)
            BY <1>1, <3>0, <3>1, <4>1
          <6> QED BY <1>3, <4>1, <4>4, <6>1
        <5>3. t[i+1] = s[i+1]
          BY <1>2, <5>1
        <5> QED BY <1>4, <4>1, <4>2, <5>1, <5>2, <5>3
      <4> QED BY <4>3, <4>4
    <3>2. CASE i >= n
      <4>1. i + 1 \in 1 .. Len(s) /\ t[i] = s[i+1] /\ s[i+1] \in Addrs \ {s[n]} /\ heap[s[i+1]] # Free
        BY <1>1, <1>4, <1>5, <3>0, <3>2
      <4>2. n > 1 => s[i+1] # s[n-1]
        <5>1. n > 1 => n - 1 \in 1 .. Len(s) /\ n - 1 # i + 1
          BY <1>1, <3>0, <3>2, <4>1
        <5> QED BY <1>3, <4>1, <5>1
      <4>3. heap'[s[i+1]] # Free /\ heap'[s[i+1]].next = heap[s[i+1]].next
        BY <4>1, <4>2
      <4>4. heap[s[i+1]].next = IF i + 1 < Len(s) THEN s[i+1+1] ELSE NULL
        BY <1>4, <4>1
      <4>5. i + 1 < Len(s) <=> i < Len(t)
        BY <1>1, <3>0
      <4>6. i < Len(t) => t[i+1] = s[i+1+1]
        BY <1>1, <1>2, <3>0, <3>2
      <4> QED BY <4>1, <4>3, <4>4, <4>5, <4>6
    <3> QED BY <1>1, <3>0, <3>1, <3>2
  <2>3. head' = IF Len(t) = 0 THEN NULL ELSE t[1]
    <3>0. 1 \in 1 .. Len(s) /\ head = s[1]
      BY <1>1 DEF Walks
    <3>1. heap[s[1]].next = IF 1 < Len(s) THEN s[1+1] ELSE NULL
      BY <1>4, <3>0
    <3>2. Len(t) # 0 <=> 1 < Len(s)
      BY <1>1, <1>2, <3>0
    <3>3. 1 < Len(s) => t[1] = IF 1 < n THEN s[1] ELSE s[1+1]
      <4>1. 1 < Len(s) => 1 \in 1 .. Len(s) - 1
        BY <1>1
      <4> QED BY <1>2, <4>1
    <3>4. n # 1 => 1 < n /\ 1 < Len(s)
      BY <1>1
    <3> QED BY <1>1, <3>0, <3>1, <3>2, <3>3, <3>4
  <2> QED BY <1>2, <2>1, <2>2, <2>3 DEF Walks
<1>7. ChainFacts(s) /\ ChainFacts(t)'
  BY <1>6, Chains, ChainsNext DEF WalksAreChains
<1> DEFINE q == EQ!RemoveAt(Queue, n)
<1>8. Queue' = q
  <2>1. /\ q \in Seq(Kinds) /\ Len(q) = Len(s) - 1
        /\ \A j \in 1 .. Len(s) - 1 : q[j] = IF j < n THEN Queue[j] ELSE Queue[j+1]
    <3>1. Queue \in Seq(Kinds) /\ Len(Queue) = Len(s)
      BY <1>7 DEF ChainFacts
    <3> QED BY <3>1, Removes
  <2>2. \A i \in 1 .. Len(s) : Queue[i] = AbstractNode(s[i])
    BY <1>7 DEF ChainFacts
  <2> HIDE DEF q
  <2>3. \A i \in 1 .. Len(t) : q[i] = AbstractNode(t[i])
    <3> TAKE i \in 1 .. Len(t)
    <3>1. i \in Nat /\ q[i] = IF i < n THEN Queue[i] ELSE Queue[i+1]
      BY <1>1, <1>2, <2>1
    <3>2. CASE i < n
      BY <1>1, <1>5, <2>2, <3>1, <3>2
    <3>3. CASE i >= n
      BY <1>1, <1>5, <2>2, <3>1, <3>3
    <3> QED BY <1>1, <3>1, <3>2, <3>3
  <2>4. \A i \in 1 .. Len(t) : heap'[t[i]].key = heap[t[i]].key /\ heap'[t[i]].size = heap[t[i]].size
    BY <1>1, <1>4, <1>5
  <2> QED BY <1>2, <1>6, <2>1, <2>3, <2>4, NewQueue
<1>9. LostCounts' = LostCounts
  <2>1. \A x : x \in Chain <=> \E i \in 1 .. Len(s) : x = s[i]
    BY <1>7 DEF ChainFacts
  <2>2. \A x : x \in Chain' <=> \E i \in 1 .. Len(t) : x = t[i]
    BY <1>7 DEF ChainFacts
  <2>3. \A i \in 1 .. Len(s) : s[i] = s[n] \/ \E j \in 1 .. Len(t) : t[j] = s[i]
    <3> SUFFICES ASSUME NEW i \in 1 .. Len(s), i # n PROVE \E j \in 1 .. Len(t) : t[j] = s[i]
      OBVIOUS
    <3>1. CASE i < n
      <4>1. i \in 1 .. Len(s) - 1 /\ i \in 1 .. Len(t)
        BY <1>1, <1>2, <3>1
      <4> QED BY <1>2, <3>1, <4>1
    <3>2. CASE i > n
      <4>1. i - 1 \in 1 .. Len(s) - 1 /\ i - 1 \in 1 .. Len(t) /\ ~ (i - 1 < n) /\ i - 1 + 1 = i
        BY <1>1, <1>2, <3>2
      <4>2. t[i-1] = s[i]
        BY <1>2, <4>1
      <4> QED BY <4>1, <4>2
    <3> QED BY <1>1, <3>1, <3>2
  <2>4. \A x : x \in Chain' <=> x \in Chain /\ x # s[n]
    <3>1. \A x \in Chain' : x \in Chain /\ x # s[n]
      BY <1>5, <2>1, <2>2
    <3>2. ASSUME NEW x \in Chain, x # s[n] PROVE x \in Chain'
      BY <2>1, <2>2, <2>3, <3>2
    <3> QED BY <3>1, <3>2
  <2>5. s[n] \in Chain
    BY <2>1
  <2>6. \A x \in Addrs : x \notin Chain' /\ heap'[x] # Free <=> x \notin Chain /\ heap[x] # Free
    BY <2>4, <2>5
  <2>7. \A x \in Addrs : x \notin Chain /\ heap[x] # Free => AbstractNode(x)' = AbstractNode(x)
    BY <2>5 DEF AbstractNode
  <2> QED BY <2>6, <2>7, LostStays
<1> QED BY <1>6, <1>8, <1>9 DEF Linked

LEMMA RemStep ==
    ASSUME TypeOK, NEW s, Walks(s), NEW k \in Keys, Rem(k)
    PROVE  TypeOK' /\ Linked' /\ EQ!RemKey(k)
<1>1. head # NULL /\ UNCHANGED status /\ result' = IF Found(k) THEN heap[Curr(k)].size ELSE 0
  BY DEF Rem
<1>2. /\ Len(s) \in Nat /\ Len(s) > 0 /\ 1 \in 1 .. Len(s)
      /\ \A i \in 1 .. Len(s) : s[i] \in Addrs /\ s[i] # NULL /\ heap[s[i]] \in Node
  <2>1. /\ Len(s) \in Nat /\ Len(s) # 0
        /\ \A i \in 1 .. Len(s) : s[i] \in Addrs /\ s[i] # NULL /\ heap[s[i]] \in Node
    BY <1>1, WalkNodes
  <2> QED BY <2>1
<1>3. PICK n \in 1 .. Len(s) : Stop(s, k, n)
  BY <1>2, Search
<1>4. ChainFacts(s) /\ Queue # <<>>
  <2>1. ChainFacts(s)
    BY Chains DEF WalksAreChains
  <2>2. Len(Queue) # 0
    BY <1>2, <2>1 DEF ChainFacts
  <2> QED BY <2>1, <2>2
<1>5. result' = EQ!SizeIn(Queue, k) /\ result' \in SInt
  <2>1. \A x \in Node : x.size \in SInt
    BY Constants DEF Node
  <2>2. Curr(k) = s[n]
    BY <1>3 DEF Stop
  <2> QED BY <1>1, <1>2, <1>3, <2>1, <2>2, Constants DEF Stop
<1>6. CASE ~ Found(k)
  <2>1. UNCHANGED <<head, heap>>
    BY <1>6 DEF Rem
  <2>2. Walks(s)' /\ Queue' = Queue /\ LostCounts' = LostCounts
    BY <2>1, Same
  <2>3. EQ!Rem(Queue, k) = Queue
    BY <1>3, <1>6 DEF Stop, EQ!Rem
  <2>4. TypeOK'
    BY <1>1, <1>5, <2>1 DEF TypeOK
  <2> QED BY <1>1, <1>4, <1>5, <2>2, <2>3, <2>4 DEF Linked, EQ!RemKey
<1>7. CASE Found(k)
  <2>1. Curr(k) = s[n] /\ n \in Nat /\ (n > 1 => Prev(k) = s[n-1] /\ n - 1 \in 1 .. Len(s)) /\ (n = 1 <=> Curr(k) = head)
    BY <1>2, <1>3 DEF Stop
  <2>2. EQ!WalkTo(Queue, k) = n /\ n # 0
    BY <1>2, <1>3, <1>7 DEF Stop
  <2>3. head = s[1] /\ \A i, j \in 1 .. Len(s) : s[i] = s[j] => i = j
    BY <1>2 DEF Walks
  <2>4. heap[s[n]].next \in Addrs \cup {NULL} /\ Free \notin Node
    BY <1>2, Constants DEF Node
  <2>5. /\ heap' \in [Addrs -> Node \cup {Free}] /\ head' \in Addrs \cup {NULL}
        /\ heap'[s[n]] = Free
        /\ \A x \in Addrs \ {s[n]} :
              /\ heap'[x] = Free <=> heap[x] = Free
              /\ heap[x] # Free =>
                    /\ heap'[x].key = heap[x].key /\ heap'[x].size = heap[x].size
                    /\ heap'[x].next = IF n > 1 /\ x = s[n-1] THEN heap[s[n]].next ELSE heap[x].next
        /\ head' = IF n = 1 THEN heap[s[1]].next ELSE head
    <3>1. CASE n = 1
      <4>1. head' = heap[s[1]].next /\ heap' = [heap EXCEPT ![s[1]] = Free]
        BY <1>7, <2>1, <2>3, <3>1 DEF Rem
      <4> QED BY <1>2, <2>4, <3>1, <4>1 DEF TypeOK
    <3>2. CASE n # 1
      <4> DEFINE c == s[n]
                 p == s[n-1]
                 nx == heap[c].next
      <4>1. n > 1 /\ p \in Addrs /\ c \in Addrs /\ p # c /\ heap[p] \in Node /\ nx \in Addrs \cup {NULL}
        <5>1. n > 1 /\ n - 1 \in 1 .. Len(s) /\ n - 1 # n
          BY <2>1, <3>2
        <5> QED BY <1>2, <2>3, <2>4, <5>1
      <4>2. heap' = [heap EXCEPT ![p].next = nx, ![c] = Free] /\ head' = head
        BY <1>7, <2>1, <3>2, <4>1 DEF Rem
      <4> HIDE DEF c, p, nx
      <4>3. /\ heap'[c] = Free /\ heap'[p] = [heap[p] EXCEPT !.next = nx]
            /\ \A x \in Addrs \ {p, c} : heap'[x] = heap[x]
        BY <4>1, <4>2 DEF TypeOK
      <4>4. heap'[p] \in Node /\ heap'[p].key = heap[p].key /\ heap'[p].size = heap[p].size /\ heap'[p].next = nx
        BY <4>1, <4>3 DEF Node
      <4>5. heap' \in [Addrs -> Node \cup {Free}]
        <5>1. \A x \in Addrs : heap'[x] \in Node \cup {Free}
          BY <4>3, <4>4 DEF TypeOK
        <5>2. heap' = [x \in Addrs |-> heap'[x]]
          BY <4>2 DEF TypeOK
        <5> QED BY <5>1, <5>2
      <4>6. \A x \in Addrs \ {c} :
              /\ heap'[x] = Free <=> heap[x] = Free
              /\ heap[x] # Free =>
                    /\ heap'[x].key = heap[x].key /\ heap'[x].size = heap[x].size
                    /\ heap'[x].next = IF x = p THEN nx ELSE heap[x].next
        BY <2>4, <4>1, <4>3, <4>4
      <4>7. head' \in Addrs \cup {NULL}
        BY <4>2 DEF TypeOK
      <4> QED BY <3>2, <4>1, <4>2, <4>3, <4>5, <4>6, <4>7 DEF c, p, nx
    <3> QED BY <3>1, <3>2
  <2>6. TypeOK'
    BY <1>1, <1>5, <2>5 DEF TypeOK
  <2>7. Linked' /\ Queue' = EQ!RemoveAt(Queue, n) /\ LostCounts' = LostCounts
    BY <2>5, <2>6, TakesOut
  <2>8. EQ!Rem(Queue, k) = EQ!RemoveAt(Queue, n)
    BY <2>2 DEF EQ!Rem
  <2> QED BY <1>1, <1>4, <1>5, <2>6, <2>7, <2>8 DEF EQ!RemKey
<1> QED BY <1>6, <1>7

LEMMA DequeueStep ==
    ASSUME TypeOK, NEW s, Walks(s), Dequeue
    PROVE  TypeOK' /\ Linked' /\ EQ!Dequeue
<1>1. head # NULL /\ head' = heap[head].next /\ heap' = [heap EXCEPT ![head] = Free]
      /\ UNCHANGED <<result, status>>
  BY DEF Dequeue
<1>2. /\ Len(s) \in Nat /\ Len(s) > 0 /\ 1 \in 1 .. Len(s) /\ head = s[1]
      /\ s[1] \in Addrs /\ heap[s[1]] \in Node
  <2>1. /\ Len(s) \in Nat /\ Len(s) # 0
        /\ \A i \in 1 .. Len(s) : s[i] \in Addrs /\ s[i] # NULL /\ heap[s[i]] \in Node
    BY <1>1, WalkNodes
  <2> QED BY <2>1 DEF Walks
<1>3. ChainFacts(s) /\ Queue # <<>>
  <2>1. ChainFacts(s)
    BY Chains DEF WalksAreChains
  <2>2. Len(Queue) # 0
    BY <1>2, <2>1 DEF ChainFacts
  <2> QED BY <2>1, <2>2
<1>4. heap[s[1]].next \in Addrs \cup {NULL} /\ Free \notin Node
  BY <1>2, Constants DEF Node
<1>5. heap' \in [Addrs -> Node \cup {Free}] /\ heap'[s[1]] = Free
      /\ \A x \in Addrs \ {s[1]} : heap'[x] = heap[x]
  BY <1>1, <1>2 DEF TypeOK
<1>6. TypeOK'
  BY <1>1, <1>2, <1>4, <1>5 DEF TypeOK
<1>7. Linked' /\ Queue' = EQ!RemoveAt(Queue, 1) /\ LostCounts' = LostCounts
  <2>1. head' = heap[s[1]].next
    BY <1>1, <1>2
  <2>2. \A x \in Addrs \ {s[1]} :
              /\ heap'[x] = Free <=> heap[x] = Free
              /\ heap[x] # Free =>
                    /\ heap'[x].key = heap[x].key /\ heap'[x].size = heap[x].size
                    /\ heap'[x].next = IF 1 > 1 /\ x = s[1-1] THEN heap[s[1]].next ELSE heap[x].next
    BY <1>5
  <2> QED BY <1>2, <1>5, <1>6, <2>1, <2>2, TakesOut
<1>8. EQ!RemoveAt(Queue, 1) = Tail(Queue)
  <2>1. Queue \in Seq(Kinds) /\ Len(Queue) = Len(s)
    BY <1>3 DEF ChainFacts
  <2>2. 1 \in 1 .. Len(Queue)
    BY <1>2, <2>1
  <2> DEFINE q == EQ!RemoveAt(Queue, 1)
  <2>3. /\ q \in Seq(Kinds) /\ Len(q) = Len(Queue) - 1
        /\ \A j \in 1 .. Len(Queue) - 1 : q[j] = IF j < 1 THEN Queue[j] ELSE Queue[j+1]
    BY <2>1, <2>2, Removes
  <2>4. /\ Tail(Queue) \in Seq(Kinds) /\ Len(Tail(Queue)) = Len(Queue) - 1
        /\ \A i \in 1 .. Len(Tail(Queue)) : Tail(Queue)[i] = Queue[i+1]
    BY <1>3, <2>1, HeadTailProperties
  <2> HIDE DEF q
  <2>5. Len(Queue) \in Nat
    BY <1>2, <2>1
  <2>6. \A i \in 1 .. Len(q) : q[i] = Tail(Queue)[i]
    BY <2>3, <2>4, <2>5
  <2> QED BY <2>3, <2>4, <2>6, SeqEqual DEF q
<1> QED BY <1>1, <1>3, <1>6, <1>7, <1>8 DEF EQ!Dequeue

-----------------------------------------------------------------------------
(* ret_size, and the ways the program dies. *)

LEMMA RetSizeStep ==
    ASSUME TypeOK, NEW s, Walks(s), NEW k \in Keys, RetSize(k)
    PROVE  TypeOK' /\ Linked' /\ EQ!RetSize(k)
<1>1. head # NULL /\ UNCHANGED <<head, heap, status>> /\ result' = IF Found(k) THEN heap[Curr(k)].size ELSE 0
  BY DEF RetSize
<1>2. /\ Len(s) \in Nat /\ Len(s) > 0
      /\ \A i \in 1 .. Len(s) : s[i] \in Addrs /\ s[i] # NULL /\ heap[s[i]] \in Node
  <2>1. /\ Len(s) \in Nat /\ Len(s) # 0
        /\ \A i \in 1 .. Len(s) : s[i] \in Addrs /\ s[i] # NULL /\ heap[s[i]] \in Node
    BY <1>1, WalkNodes
  <2> QED BY <2>1
<1>3. PICK n \in 1 .. Len(s) : Stop(s, k, n)
  BY <1>2, Search
<1>4. Queue # <<>>
  <2>1. ChainFacts(s)
    BY Chains DEF WalksAreChains
  <2>2. Len(Queue) # 0
    BY <1>2, <2>1 DEF ChainFacts
  <2> QED BY <2>2
<1>5. result' = EQ!SizeIn(Queue, k) /\ result' \in SInt
  <2>1. \A x \in Node : x.size \in SInt
    BY Constants DEF Node
  <2>2. Curr(k) = s[n]
    BY <1>3 DEF Stop
  <2> QED BY <1>1, <1>2, <1>3, <2>1, <2>2, Constants DEF Stop
<1>6. Walks(s)' /\ Queue' = Queue /\ LostCounts' = LostCounts
  BY <1>1, Same
<1>7. TypeOK'
  BY <1>1, <1>5 DEF TypeOK
<1> QED BY <1>1, <1>4, <1>5, <1>6, <1>7 DEF Linked, EQ!RetSize

LEMMA NullHeadStep ==
    ASSUME TypeOK, NEW s, Walks(s), NullHead
    PROVE  TypeOK' /\ Linked' /\ EQ!CrashOnEmpty
<1>1. head = NULL /\ status' = "segfault" /\ UNCHANGED <<head, heap, result>>
  BY DEF NullHead, Crash
<1>2. Queue = <<>>
  <2>1. ChainFacts(s) /\ Len(s) = 0
    BY <1>1, WalkNodes, Chains DEF WalksAreChains
  <2>2. Queue \in Seq(Kinds) /\ Len(Queue) = 0
    BY <2>1 DEF ChainFacts
  <2> QED BY <2>2, EmptySeq
<1>3. Walks(s)' /\ Queue' = Queue /\ LostCounts' = LostCounts
  BY <1>1, Same
<1>4. TypeOK'
  BY <1>1 DEF TypeOK
<1> QED BY <1>1, <1>2, <1>3, <1>4 DEF Linked, EQ!CrashOnEmpty

LEMMA CorruptsStep ==
    ASSUME TypeOK, NEW s, Walks(s), NEW k \in Keys, PushbackCorrupts(k)
    PROVE  TypeOK' /\ Linked' /\ EQ!CrashOnUnsetPrev(k)
<1>1. /\ head # NULL /\ Curr(k) = head /\ Found(k) /\ heap[head].next # NULL
      /\ status' = "corrupted" /\ UNCHANGED <<head, heap, result>>
  BY DEF PushbackCorrupts, Crash
<1>2. Len(s) \in Nat /\ Len(s) > 0
  <2>1. Len(s) \in Nat /\ Len(s) # 0
    BY <1>1, WalkNodes
  <2> QED BY <2>1
<1>3. PICK n \in 1 .. Len(s) : Stop(s, k, n)
  BY <1>2, Search
<1>4. EQ!WalkTo(Queue, k) = 1 /\ Len(s) > 1
  <2>1. n = 1 /\ n # Len(s) /\ EQ!WalkTo(Queue, k) = n
    BY <1>1, <1>3 DEF Stop
  <2>2. Len(s) # 1
    BY <2>1
  <2>3. Len(s) > 1
    BY <1>2, <2>2
  <2> QED BY <2>1, <2>3
<1>5. Len(Queue) = Len(s)
  BY Chains DEF WalksAreChains, ChainFacts
<1>6. Walks(s)' /\ Queue' = Queue /\ LostCounts' = LostCounts
  BY <1>1, Same
<1>7. TypeOK'
  BY <1>1 DEF TypeOK
<1> QED BY <1>1, <1>4, <1>5, <1>6, <1>7 DEF Linked, EQ!CrashOnUnsetPrev, EQ!PrevUnset

-----------------------------------------------------------------------------
(* pushback. *)

\* What relinking writes: l->next = c after c->next = NULL, and some nodes in
\* P get another next before that.
Relinks(P, nx, c, l) ==
    /\ Keeps
    /\ \A x \in Addrs : heap[x] # Free =>
          heap'[x].next = IF x = l THEN c
                          ELSE IF x = c THEN NULL
                          ELSE IF x \in P THEN nx
                          ELSE heap[x].next

LEMMA RelinkIs ==
    ASSUME TypeOK, NEW p \in Addrs, NEW c \in Addrs, NEW l \in Addrs,
           heap[p] \in Node, heap[c] \in Node, heap[l] \in Node, Relink(p, c, l)
    PROVE  Relinks({p}, heap[c].next, c, l)
<1> DEFINE nx == heap[c].next
           h1 == [heap EXCEPT ![p].next = nx]
           h2 == [h1 EXCEPT ![c].next = NULL]
<1>1. nx \in Addrs \cup {NULL} /\ Free \notin Node
  BY Constants DEF Node
<1>2. heap' = [h2 EXCEPT ![l].next = c]
  BY DEF Relink
<1> HIDE DEF nx
<1>3. /\ h1 \in [Addrs -> Node \cup {Free}] /\ h1[c] \in Node /\ h1[l] \in Node
      /\ \A x \in Addrs \ {p} : h1[x] = heap[x]
      /\ h1[p] \in Node /\ h1[p].key = heap[p].key /\ h1[p].size = heap[p].size /\ h1[p].next = nx
  BY <1>1 DEF TypeOK, Node
<1> HIDE DEF h1
<1>4. /\ h2 \in [Addrs -> Node \cup {Free}] /\ h2[l] \in Node
      /\ \A x \in Addrs \ {c} : h2[x] = h1[x]
      /\ h2[c] \in Node /\ h2[c].key = h1[c].key /\ h2[c].size = h1[c].size /\ h2[c].next = NULL
  BY <1>3 DEF Node
<1> HIDE DEF h2
<1>5. /\ heap' \in [Addrs -> Node \cup {Free}]
      /\ \A x \in Addrs \ {l} : heap'[x] = h2[x]
      /\ heap'[l] \in Node /\ heap'[l].key = h2[l].key /\ heap'[l].size = h2[l].size /\ heap'[l].next = c
  BY <1>2, <1>4 DEF Node
<1>6. \A x \in Addrs : h1[x] = Free <=> heap[x] = Free
  BY <1>1, <1>3
<1>7. \A x \in Addrs : h2[x] = Free <=> heap[x] = Free
  BY <1>1, <1>3, <1>4, <1>6
<1>8. \A x \in Addrs : heap'[x] = Free <=> heap[x] = Free
  BY <1>1, <1>4, <1>5, <1>7
<1>9. \A x \in Addrs : heap'[x].key = heap[x].key /\ heap'[x].size = heap[x].size
  BY <1>3, <1>4, <1>5
<1>10. \A x \in Addrs : heap'[x].next = IF x = l THEN c ELSE IF x = c THEN NULL
                                        ELSE IF x \in {p} THEN nx ELSE heap[x].next
  BY <1>3, <1>4, <1>5
<1> QED BY <1>5, <1>8, <1>9, <1>10 DEF Relinks, Keeps, nx

\* The write through prev changes nothing that matters.
LEMMA HarmlessIs ==
    ASSUME TypeOK, NEW c \in Addrs, NEW l \in Addrs, heap[c] \in Node, heap[l] \in Node,
           heap' = [heap EXCEPT ![c].next = NULL, ![l].next = c], NEW nx
    PROVE  Relinks({}, nx, c, l)
<1> DEFINE h2 == [heap EXCEPT ![c].next = NULL]
<1>1. Free \notin Node
  BY Constants
<1>2. heap' = [h2 EXCEPT ![l].next = c]
  OBVIOUS
<1>4. /\ h2 \in [Addrs -> Node \cup {Free}] /\ h2[l] \in Node
      /\ \A x \in Addrs \ {c} : h2[x] = heap[x]
      /\ h2[c] \in Node /\ h2[c].key = heap[c].key /\ h2[c].size = heap[c].size /\ h2[c].next = NULL
  BY DEF Node, TypeOK
<1> HIDE DEF h2
<1>5. /\ heap' \in [Addrs -> Node \cup {Free}]
      /\ \A x \in Addrs \ {l} : heap'[x] = h2[x]
      /\ heap'[l] \in Node /\ heap'[l].key = h2[l].key /\ heap'[l].size = h2[l].size /\ heap'[l].next = c
  BY <1>2, <1>4 DEF Node
<1>7. \A x \in Addrs : h2[x] = Free <=> heap[x] = Free
  BY <1>1, <1>4
<1>8. \A x \in Addrs : heap'[x] = Free <=> heap[x] = Free
  BY <1>1, <1>4, <1>5, <1>7
<1>9. \A x \in Addrs : heap'[x].key = heap[x].key /\ heap'[x].size = heap[x].size
  BY <1>4, <1>5
<1>10. \A x \in Addrs : heap'[x].next = IF x = l THEN c ELSE IF x = c THEN NULL ELSE heap[x].next
  BY <1>4, <1>5
<1> QED BY <1>5, <1>8, <1>9, <1>10 DEF Relinks, Keeps

\* The node at place n goes to the end of the chain.
LEMMA MovesBack ==
    ASSUME TypeOK, TypeOK', NEW s, Walks(s), NEW n \in 1 .. Len(s), n > 1, n # Len(s),
           Relinks({s[n-1]}, heap[s[n]].next, s[n], s[Len(s)]), UNCHANGED head
    PROVE  /\ Linked' /\ LostCounts' = LostCounts
           /\ Queue' = Append(EQ!RemoveAt(Queue, n), Queue[n])
<1> DEFINE r == EQ!RemoveAt(s, n)
           t == Append(r, s[n])
           L == Len(s)
<1>1. /\ L \in Nat /\ n \in Nat /\ n > 1 /\ n < L /\ s \in Seq(Addrs)
      /\ \A i \in 1 .. L : s[i] \in Addrs /\ s[i] # NULL /\ heap[s[i]] \in Node
  <2>1. /\ L \in Nat /\ s \in Seq(Addrs)
        /\ \A i \in 1 .. L : s[i] \in Addrs /\ s[i] # NULL /\ heap[s[i]] \in Node
    BY WalkNodes DEF Walks
  <2> QED BY <2>1
<1>2. /\ t \in Seq(Addrs) /\ Len(t) = L
      /\ \A j \in 1 .. L : t[j] = IF j < n THEN s[j] ELSE IF j < L THEN s[j+1] ELSE s[n]
  <2>1. /\ r \in Seq(Addrs) /\ Len(r) = L - 1
        /\ \A j \in 1 .. L - 1 : r[j] = IF j < n THEN s[j] ELSE s[j+1]
    BY <1>1, Removes
  <2> HIDE DEF r
  <2>2. /\ t \in Seq(Addrs) /\ Len(t) = Len(r) + 1 /\ t[Len(r) + 1] = s[n]
        /\ \A j \in 1 .. Len(r) : t[j] = r[j]
    BY <1>1, <2>1, AppendProperties
  <2> HIDE DEF t
  <2>3. Len(r) \in Nat /\ Len(r) = L - 1 /\ L = Len(r) + 1 /\ Len(t) = L /\ t[L] = s[n]
    BY <1>1, <2>1, <2>2
  <2>4. ASSUME NEW j \in 1 .. L
        PROVE  t[j] = IF j < n THEN s[j] ELSE IF j < L THEN s[j+1] ELSE s[n]
    <3>1. CASE j = L
      BY <1>1, <2>3, <3>1
    <3>2. CASE j # L
      <4>1. j \in 1 .. L - 1 /\ j \in 1 .. Len(r) /\ j < L
        BY <1>1, <2>3, <3>2
      <4> QED BY <2>1, <2>2, <4>1
    <3> QED BY <3>1, <3>2
  <2> QED BY <2>2, <2>3, <2>4
<1>3. \A i, j \in 1 .. L : s[i] = s[j] => i = j
  BY DEF Walks
<1>4. \A i \in 1 .. L : heap[s[i]] # Free /\ heap[s[i]].next = IF i < L THEN s[i+1] ELSE NULL
  BY DEF Walks
<1> HIDE DEF t, r
<1>5. \A i \in 1 .. L :
         /\ heap'[s[i]] # Free /\ heap'[s[i]].key = heap[s[i]].key /\ heap'[s[i]].size = heap[s[i]].size
         /\ heap'[s[i]].next = IF i = L THEN s[n]
                               ELSE IF i = n THEN NULL
                               ELSE IF i = n - 1 THEN s[n+1]
                               ELSE s[i+1]
  <2> TAKE i \in 1 .. L
  <2>1. L \in 1 .. L /\ n - 1 \in 1 .. L /\ n \in 1 .. L /\ i \in Nat
    BY <1>1
  <2>2. /\ s[i] = s[L] <=> i = L
        /\ s[i] = s[n] <=> i = n
        /\ s[i] = s[n-1] <=> i = n - 1
    BY <1>3, <2>1
  <2>3. s[i] \in Addrs /\ heap[s[i]] # Free /\ heap[s[n]].next = s[n+1]
    BY <1>1, <1>4, <2>1
  <2>4. /\ heap'[s[i]] # Free /\ heap'[s[i]].key = heap[s[i]].key /\ heap'[s[i]].size = heap[s[i]].size
        /\ heap'[s[i]].next = IF s[i] = s[L] THEN s[n]
                               ELSE IF s[i] = s[n] THEN NULL
                               ELSE IF s[i] \in {s[n-1]} THEN heap[s[n]].next
                               ELSE heap[s[i]].next
    BY <2>3 DEF Relinks, Keeps
  <2>5. i # L => heap[s[i]].next = s[i+1]
    <3>1. i # L => i < L
      BY <1>1, <2>1
    <3> QED BY <1>4, <3>1
  <2> QED BY <2>2, <2>3, <2>4, <2>5
<1>6. \A j \in 1 .. L : \/ /\ j < n /\ j \in 1 .. L /\ t[j] = s[j]
                        \/ /\ j >= n /\ j < L /\ j + 1 \in 1 .. L /\ t[j] = s[j+1]
                        \/ /\ j = L /\ n \in 1 .. L /\ t[j] = s[n]
  BY <1>1, <1>2
<1>7. Walks(t)'
  <2>1. ASSUME NEW i \in 1 .. L, NEW j \in 1 .. L, t[i] = t[j] PROVE i = j
    <3> DEFINE from(m) == IF m < n THEN m ELSE IF m < L THEN m + 1 ELSE n
    <3>1. \A m \in 1 .. L : from(m) \in 1 .. L /\ t[m] = s[from(m)]
      BY <1>1, <1>6
    <3>2. from(i) = from(j)
      <4> HIDE DEF from
      <4> QED BY <1>3, <2>1, <3>1
    <3>3. i \in Nat /\ j \in Nat /\ i <= L /\ j <= L
      BY <1>1
    <3> QED BY <1>1, <3>2, <3>3
  <2>2. ASSUME NEW i \in 1 .. L
        PROVE  heap'[t[i]] # Free /\ heap'[t[i]].next = IF i < L THEN t[i+1] ELSE NULL
    <3>0. i \in Nat /\ i >= 1 /\ (i < L => i + 1 \in 1 .. L)
      BY <1>1
    <3>00. i < L => t[i+1] = IF i + 1 < n THEN s[i+1] ELSE IF i + 1 < L THEN s[i+1+1] ELSE s[n]
      BY <1>2, <3>0
    <3>1. CASE i < n
      <4>1. t[i] = s[i] /\ i # L /\ i # n /\ i < L
        BY <1>1, <1>2, <3>0, <3>1
      <4>2. heap'[s[i]] # Free /\ heap'[s[i]].next = IF i = n - 1 THEN s[n+1] ELSE s[i+1]
        BY <1>5, <4>1
      <4>3. CASE i = n - 1
        <5>1. t[i+1] = s[n+1]
          BY <1>1, <3>0, <3>00, <4>1, <4>3
        <5> QED BY <4>1, <4>2, <4>3, <5>1
      <4>4. CASE i # n - 1
        <5>1. t[i+1] = s[i+1]
          BY <1>1, <3>0, <3>00, <3>1, <4>1, <4>4
        <5> QED BY <4>1, <4>2, <4>4, <5>1
      <4> QED BY <4>3, <4>4
    <3>2. CASE i >= n /\ i < L
      <4>1. t[i] = s[i+1] /\ i + 1 \in 1 .. L /\ i + 1 # n /\ i + 1 # n - 1
        BY <1>1, <1>2, <3>0, <3>2
      <4>2. heap'[s[i+1]] # Free /\ heap'[s[i+1]].next = IF i + 1 = L THEN s[n] ELSE s[i+1+1]
        BY <1>5, <4>1
      <4>3. t[i+1] = IF i + 1 = L THEN s[n] ELSE s[i+1+1]
        BY <1>1, <3>0, <3>00, <3>2
      <4> QED BY <3>2, <4>1, <4>2, <4>3
    <3>3. CASE i = L
      <4>1. t[i] = s[n] /\ n # L
        BY <1>1, <1>2, <3>0, <3>3
      <4>2. heap'[s[n]] # Free /\ heap'[s[n]].next = NULL
        BY <1>5, <4>1
      <4> QED BY <1>1, <3>3, <4>1, <4>2
    <3> QED BY <1>1, <3>0, <3>1, <3>2, <3>3
  <2>3. head' = IF Len(t) = 0 THEN NULL ELSE t[1]
    <3>1. 1 \in 1 .. L /\ head = s[1] /\ L # 0
      BY <1>1 DEF Walks
    <3> QED BY <1>1, <1>2, <3>1
  <2> QED BY <1>2, <2>1, <2>2, <2>3 DEF Walks
<1>8. ChainFacts(s) /\ ChainFacts(t)'
  BY <1>7, Chains, ChainsNext DEF WalksAreChains
<1> DEFINE e == EQ!RemoveAt(Queue, n)
           q == Append(e, Queue[n])
<1>9. Queue' = q
  <2>1. Queue \in Seq(Kinds) /\ Len(Queue) = L /\ Queue[n] \in Kinds
    <3>1. Queue \in Seq(Kinds) /\ Len(Queue) = L
      BY <1>8 DEF ChainFacts
    <3> QED BY <1>1, <3>1, ElementOfSeq
  <2>2. /\ e \in Seq(Kinds) /\ Len(e) = L - 1
        /\ \A j \in 1 .. L - 1 : e[j] = IF j < n THEN Queue[j] ELSE Queue[j+1]
    BY <2>1, Removes
  <2> HIDE DEF e
  <2>3. /\ q \in Seq(Kinds) /\ Len(q) = Len(e) + 1 /\ q[Len(e) + 1] = Queue[n]
        /\ \A j \in 1 .. Len(e) : q[j] = e[j]
    BY <2>1, <2>2, AppendProperties
  <2> HIDE DEF q
  <2>4. \A i \in 1 .. L : Queue[i] = AbstractNode(s[i])
    BY <1>8 DEF ChainFacts
  <2>5. Len(q) = L
    BY <1>1, <2>2, <2>3
  <2>6. \A i \in 1 .. L : q[i] = AbstractNode(t[i])
    <3> TAKE i \in 1 .. L
    <3>0. i \in Nat /\ i >= 1 /\ i <= L
      BY <1>1
    <3>1. q[i] = IF i < n THEN Queue[i] ELSE IF i < L THEN Queue[i+1] ELSE Queue[n]
      BY <1>1, <2>2, <2>3, <3>0
    <3>2. CASE i < n
      BY <1>2, <2>4, <3>1, <3>2
    <3>3. CASE i >= n /\ i < L
      <4>1. i + 1 \in 1 .. L /\ ~ (i < n)
        BY <1>1, <3>0, <3>3
      <4> QED BY <1>2, <2>4, <3>1, <3>3, <4>1
    <3>4. CASE i = L
      <4>1. ~ (i < n) /\ ~ (i < L)
        BY <1>1, <3>4
      <4> QED BY <1>2, <2>4, <3>1, <4>1
    <3> QED BY <1>1, <3>0, <3>2, <3>3, <3>4
  <2>7. \A i \in 1 .. L : heap'[t[i]].key = heap[t[i]].key /\ heap'[t[i]].size = heap[t[i]].size
    BY <1>5, <1>6
  <2> QED BY <1>2, <1>7, <2>3, <2>5, <2>6, <2>7, NewQueue
<1>10. LostCounts' = LostCounts
  <2>1. \A x : x \in Chain <=> \E i \in 1 .. L : x = s[i]
    BY <1>8 DEF ChainFacts
  <2>2. \A x : x \in Chain' <=> \E i \in 1 .. L : x = t[i]
    BY <1>2, <1>8 DEF ChainFacts
  <2>3. \A i \in 1 .. L : \E j \in 1 .. L : t[j] = s[i]
    <3> TAKE i \in 1 .. L
    <3>1. CASE i < n
      BY <1>2, <3>1
    <3>2. CASE i = n
      <4>1. L \in 1 .. L /\ t[L] = s[n]
        BY <1>1, <1>2
      <4> QED BY <3>2, <4>1
    <3>3. CASE i > n
      <4>1. i - 1 \in 1 .. L /\ ~ (i - 1 < n) /\ i - 1 < L /\ i - 1 + 1 = i
        BY <1>1, <3>3
      <4>2. t[i-1] = s[i]
        BY <1>2, <4>1
      <4> QED BY <4>1, <4>2
    <3> QED BY <1>1, <3>1, <3>2, <3>3
  <2>4. \A x : x \in Chain' <=> x \in Chain
    <3>1. \A x \in Chain' : x \in Chain
      BY <1>6, <2>1, <2>2
    <3>2. \A x \in Chain : x \in Chain'
      BY <2>1, <2>2, <2>3
    <3> QED BY <3>1, <3>2
  <2>5. \A x \in Addrs : x \notin Chain' /\ heap'[x] # Free <=> x \notin Chain /\ heap[x] # Free
    BY <2>4 DEF Relinks, Keeps
  <2>6. \A x \in Addrs : x \notin Chain /\ heap[x] # Free => AbstractNode(x)' = AbstractNode(x)
    BY DEF AbstractNode, Relinks, Keeps
  <2> QED BY <2>5, <2>6, LostStays
<1> QED BY <1>7, <1>9, <1>10 DEF Linked

\* The head is all that is left of the chain; the rest is lost.
LEMMA CutsOff ==
    ASSUME TypeOK, TypeOK', NEW s, Walks(s), Len(s) > 1, NEW P, NEW nx,
           Relinks(P, nx, s[1], s[Len(s)]), UNCHANGED head
    PROVE  /\ Linked' /\ Queue' = <<Head(Queue)>>
           /\ LostCounts' = [x \in Kinds |-> LostCounts[x] + EQ!CountIn(Tail(Queue), x)]
<1> DEFINE t == <<s[1]>>
           L == Len(s)
<1>1. /\ L \in Nat /\ L > 1 /\ s \in Seq(Addrs) /\ 1 \in 1 .. L /\ L \in 1 .. L
      /\ \A i \in 1 .. L : s[i] \in Addrs /\ s[i] # NULL /\ heap[s[i]] \in Node /\ heap[s[i]] # Free
  <2>1. /\ L \in Nat /\ s \in Seq(Addrs)
        /\ \A i \in 1 .. L : s[i] \in Addrs /\ s[i] # NULL /\ heap[s[i]] \in Node /\ heap[s[i]] # Free
    BY WalkNodes DEF Walks
  <2>2. 1 \in 1 .. L /\ L \in 1 .. L
    BY <2>1
  <2> QED BY <2>1, <2>2
<1>2. \A i, j \in 1 .. L : s[i] = s[j] => i = j
  BY DEF Walks
<1>3. t \in Seq(Addrs) /\ Len(t) = 1 /\ t[1] = s[1]
  BY <1>1
<1> HIDE DEF t
<1>4. \A x \in Addrs : /\ heap'[x] = Free <=> heap[x] = Free
                       /\ heap[x] # Free => heap'[x].key = heap[x].key /\ heap'[x].size = heap[x].size
  BY DEF Relinks, Keeps
<1>5. heap'[s[1]] # Free /\ heap'[s[1]].next = NULL
  <2>1. s[1] # s[L] /\ s[1] \in Addrs /\ heap[s[1]] # Free
    BY <1>1, <1>2
  <2> QED BY <1>4, <2>1 DEF Relinks
<1>6. Walks(t)'
  <2>1. head' = s[1]
    BY <1>1 DEF Walks
  <2>2. \A i \in 1 .. Len(t) : i = 1
    BY <1>3
  <2> QED BY <1>3, <1>5, <2>1, <2>2 DEF Walks
<1>7. ChainFacts(s) /\ ChainFacts(t)'
  BY <1>6, Chains, ChainsNext DEF WalksAreChains
<1>8. /\ Queue \in Seq(Kinds) /\ Len(Queue) = L /\ Queue # <<>>
      /\ \A i \in 1 .. L : Queue[i] = AbstractNode(s[i])
  <2>1. /\ Queue \in Seq(Kinds) /\ Len(Queue) = L
        /\ \A i \in 1 .. L : Queue[i] = AbstractNode(s[i])
    BY <1>7 DEF ChainFacts
  <2>2. L # 0
    BY <1>1
  <2> QED BY <2>1, <2>2
<1>9. Queue' = <<Head(Queue)>>
  <2> DEFINE q == <<Head(Queue)>>
  <2>1. Head(Queue) = Queue[1] /\ Queue[1] \in Kinds
    BY <1>1, <1>8, HeadTailProperties, ElementOfSeq
  <2>2. q \in Seq(Kinds) /\ Len(q) = 1 /\ q[1] = Queue[1]
    BY <2>1
  <2> HIDE DEF q
  <2>3. \A i \in 1 .. Len(t) : i = 1
    BY <1>3
  <2>4. \A i \in 1 .. Len(t) : q[i] = AbstractNode(t[i])
    BY <1>1, <1>3, <1>8, <2>2, <2>3
  <2>5. \A i \in 1 .. Len(t) : heap'[t[i]].key = heap[t[i]].key /\ heap'[t[i]].size = heap[t[i]].size
    BY <1>1, <1>3, <1>4, <2>3
  <2> QED BY <1>3, <1>6, <2>2, <2>4, <2>5, NewQueue
<1> DEFINE T == Tail(Queue)
<1>10. /\ T \in Seq(Kinds) /\ Len(T) = L - 1
       /\ \A i \in 1 .. L - 1 : T[i] = AbstractNode(s[i+1])
       /\ DOMAIN T = 1 .. L - 1
  <2>1. /\ T \in Seq(Kinds) /\ Len(T) = Len(Queue) - 1
        /\ \A i \in 1 .. Len(T) : T[i] = Queue[i+1]
    BY <1>8, HeadTailProperties
  <2>2. DOMAIN T = 1 .. Len(T)
    BY <2>1, LenProperties
  <2> HIDE DEF T
  <2>3. Len(T) = L - 1
    BY <1>8, <2>1
  <2>4. \A i \in 1 .. L - 1 : i + 1 \in 1 .. L
    BY <1>1
  <2> QED BY <1>8, <2>1, <2>2, <2>3, <2>4
<1> HIDE DEF T
<1>11. ASSUME NEW x \in Kinds
       PROVE  Cardinality(Lost(x)') = Cardinality(Lost(x)) + EQ!CountIn(T, x)
  <2> DEFINE D == {i \in DOMAIN T : T[i] = x}
             New == {s[i+1] : i \in D}
  <2>1. D \subseteq 1 .. L - 1
    BY <1>10
  <2>2. \A i \in D : i \in Nat /\ i + 1 \in 1 .. L /\ i + 1 # 1 /\ AbstractNode(s[i+1]) = x
    <3>1. \A i \in 1 .. L - 1 : i \in Nat /\ i + 1 \in 1 .. L /\ i + 1 # 1
      BY <1>1
    <3> QED BY <1>10, <2>1, <3>1
  <2>3. IsFiniteSet(D)
    <3>1. L - 1 \in Int
      BY <1>1
    <3>2. IsFiniteSet(1 .. L - 1)
      <4>1. \A a, b \in Int : IsFiniteSet(a .. b)
        BY FS_Interval
      <4> QED BY <3>1, <4>1
    <3> HIDE DEF D
    <3> QED BY <2>1, <3>2, FS_Subset
  <2>4. ExistsBijection(D, New)
    <3> DEFINE f == [i \in D |-> s[i+1]]
    <3>1. f \in [D -> New] /\ \A i \in D : f[i] = s[i+1]
      OBVIOUS
    <3>2. \A a \in New : \E i \in D : f[i] = a
      BY <3>1
    <3> HIDE DEF D, f, New
    <3>3. ASSUME NEW i \in D, NEW j \in D, f[i] = f[j] PROVE i = j
      <4>1. i + 1 = j + 1
        BY <1>2, <2>2, <3>1, <3>3
      <4> QED BY <2>2, <4>1
    <3>4. f \in Bijection(D, New)
      BY <3>1, <3>2, <3>3 DEF Bijection, Injection, Surjection, IsInjective
    <3> QED BY <3>4 DEF ExistsBijection
  <2>5. IsFiniteSet(New) /\ Cardinality(New) = Cardinality(D)
    BY <2>3, <2>4, FS_Bijection
  <2>6. \A a : a \in New <=> \E i \in D : a = s[i+1]
    OBVIOUS
  <2>60. \A i : i \in D <=> i \in 1 .. L - 1 /\ AbstractNode(s[i+1]) = x
    BY <1>10
  <2> HIDE DEF D, New
  <2>7. /\ \A a : a \in Chain <=> \E i \in 1 .. L : a = s[i]
        /\ \A a : a \in Chain' <=> a = s[1]
    <3>1. \A a : a \in Chain' <=> \E i \in 1 .. Len(t) : a = t[i]
      BY <1>7 DEF ChainFacts
    <3>2. \A i : i \in 1 .. Len(t) <=> i = 1
      BY <1>3
    <3>3. \A a : a \in Chain <=> \E i \in 1 .. L : a = s[i]
      BY <1>7 DEF ChainFacts
    <3> QED BY <1>3, <3>1, <3>2, <3>3
  <2>8. \A a \in Addrs : a \in New <=> a \in Chain /\ a # s[1] /\ AbstractNode(a) = x
    <3> TAKE a \in Addrs
    <3>1. a \in New => a \in Chain /\ a # s[1] /\ AbstractNode(a) = x
      BY <1>1, <1>2, <2>2, <2>6, <2>7
    <3>2. ASSUME a \in Chain, a # s[1], AbstractNode(a) = x PROVE a \in New
      <4>1. PICK i \in 1 .. L : a = s[i]
        BY <2>7, <3>2
      <4>2. i \in Nat /\ i # 1 /\ i - 1 \in 1 .. L - 1 /\ i - 1 + 1 = i
        BY <1>1, <3>2, <4>1
      <4>3. i - 1 \in D
        BY <2>60, <3>2, <4>1, <4>2
      <4> QED BY <2>6, <4>1, <4>2, <4>3
    <3> QED BY <3>1, <3>2
  <2>9. \A a \in Addrs : heap[a] # Free => AbstractNode(a)' = AbstractNode(a)
    BY <1>4 DEF AbstractNode
  <2>10. /\ \A a : a \in Lost(x) <=> a \in Addrs /\ a \notin Chain /\ heap[a] # Free /\ AbstractNode(a) = x
         /\ \A a : a \in Lost(x)' <=> a \in Addrs /\ a \notin Chain' /\ heap'[a] # Free /\ AbstractNode(a)' = x
    BY DEF Lost
  <2>11. \A a \in New : a \in Addrs /\ heap[a] # Free
    BY <1>1, <2>2, <2>6
  <2>12. s[1] \in Chain
    BY <1>1, <2>7
  <2>13. Lost(x)' = Lost(x) \cup New /\ Lost(x) \cap New = {}
    <3>1. \A a : a \in Lost(x)' <=> a \in Lost(x) \/ a \in New
      BY <1>4, <2>7, <2>8, <2>9, <2>10, <2>11, <2>12
    <3>2. \A a : ~ (a \in Lost(x) /\ a \in New)
      BY <2>8, <2>10, <2>11
    <3> QED BY <3>1, <3>2
  <2>14. IsFiniteSet(Lost(x))
    <3>1. Lost(x) \in SUBSET Addrs
      BY <2>10
    <3> QED BY <3>1, Constants, FS_Subset
  <2>15. Cardinality(Lost(x) \cup New) = Cardinality(Lost(x)) + Cardinality(New) - Cardinality({})
    BY <2>5, <2>13, <2>14, FS_Union
  <2>16. Cardinality({}) = 0 /\ Cardinality(Lost(x)) \in Nat /\ Cardinality(New) \in Nat
    BY <2>5, <2>14, FS_EmptySet, FS_CardinalityType
  <2>17. Cardinality(Lost(x) \cup New) = Cardinality(Lost(x)) + Cardinality(New)
    <3> DEFINE u == Cardinality(Lost(x) \cup New)
               v == Cardinality(Lost(x))
               w == Cardinality(New)
               z == Cardinality({})
    <3>1. u = v + w - z /\ z = 0 /\ v \in Nat /\ w \in Nat
      BY <2>15, <2>16
    <3> HIDE DEF u, v, w, z
    <3>2. u = v + w
      BY <3>1
    <3> QED BY <3>2 DEF u, v, w
  <2>18. EQ!CountIn(T, x) = Cardinality(D)
    BY SameCardinality DEF EQ!CountIn, D
  <2> QED BY <2>5, <2>13, <2>17, <2>18
<1>12. LostCounts' = [x \in Kinds |-> LostCounts[x] + EQ!CountIn(T, x)]
  <2>1. \A x \in Kinds : LostCounts[x] = Cardinality(Lost(x))
    BY DEF LostCounts, Kinds
  <2>2. LostCounts' = [x \in Kinds |-> Cardinality(Lost(x)')]
    BY DEF LostCounts, Kinds
  <2> QED BY <1>11, <2>1, <2>2
<1> QED BY <1>6, <1>9, <1>12 DEF Linked, T

LEMMA PushbackStep ==
    ASSUME TypeOK, NEW s, Walks(s), NEW k \in Keys, Pushback(k)
    PROVE  TypeOK' /\ Linked' /\ EQ!PushbackKey(k)
<1>1. head # NULL /\ UNCHANGED <<head, status>> /\ result' = IF Found(k) THEN heap[Curr(k)].size ELSE 0
  BY DEF Pushback
<1>2. /\ Len(s) \in Nat /\ Len(s) > 0 /\ Last = s[Len(s)] /\ 1 \in 1 .. Len(s) /\ Len(s) \in 1 .. Len(s)
      /\ \A i \in 1 .. Len(s) : s[i] \in Addrs /\ s[i] # NULL /\ heap[s[i]] \in Node
  <2>1. /\ Len(s) \in Nat /\ Len(s) # 0 /\ (Len(s) > 0 => Last = s[Len(s)])
        /\ \A i \in 1 .. Len(s) : s[i] \in Addrs /\ s[i] # NULL /\ heap[s[i]] \in Node
    BY <1>1, WalkNodes
  <2> QED BY <2>1
<1>3. PICK n \in 1 .. Len(s) : Stop(s, k, n)
  BY <1>2, Search
<1>4. ChainFacts(s) /\ Queue # <<>>
  <2>1. ChainFacts(s)
    BY Chains DEF WalksAreChains
  <2>2. Len(Queue) # 0
    BY <1>2, <2>1 DEF ChainFacts
  <2> QED BY <2>1, <2>2
<1>40. Queue \in Seq(Kinds) /\ Len(Queue) = Len(s)
  BY <1>4 DEF ChainFacts
<1>5. result' = EQ!SizeIn(Queue, k) /\ result' \in SInt
  <2>1. \A x \in Node : x.size \in SInt
    BY Constants DEF Node
  <2>2. Curr(k) = s[n]
    BY <1>3 DEF Stop
  <2> QED BY <1>1, <1>2, <1>3, <2>1, <2>2, Constants DEF Stop
<1>6. Curr(k) = s[n] /\ n \in Nat /\ (heap[Curr(k)].next = NULL <=> n = Len(s)) /\ (n = 1 <=> Curr(k) = head)
  BY <1>2, <1>3 DEF Stop
<1>7. head = s[1]
  BY <1>2 DEF Walks
<1> DEFINE Counted(q) == [x \in EQ!Node |-> LostCounts[x] + EQ!CountIn(q, x)]
<1>8. EQ!Node = Kinds
  BY DEF EQ!Node, Kinds, EQ!AsInt, AsInt
<1>9. Counted(<<>>) = LostCounts
  <2>1. \A x \in Kinds : LostCounts[x] = Cardinality(Lost(x)) /\ Cardinality(Lost(x)) \in Nat
    <3> TAKE x \in Kinds
    <3>1. LostCounts[x] = Cardinality(Lost(x))
      BY DEF LostCounts, Kinds
    <3>2. IsFiniteSet(Lost(x))
      <4>1. Lost(x) \in SUBSET Addrs
        BY DEF Lost
      <4> QED BY <4>1, Constants, FS_Subset
    <3> QED BY <3>1, <3>2, FS_CardinalityType
  <2>2. \A x : EQ!CountIn(<<>>, x) = 0
    <3>1. \A x : {i \in DOMAIN <<>> : <<>>[i] = x} = {}
      OBVIOUS
    <3> QED BY <3>1, FS_EmptySet, SameCardinality DEF EQ!CountIn
  <2>3. LostCounts = [x \in Kinds |-> LostCounts[x]]
    BY DEF LostCounts, Kinds
  <2>4. \A x \in Kinds : LostCounts[x] + EQ!CountIn(<<>>, x) = LostCounts[x]
    <3> TAKE x \in Kinds
    <3>1. LostCounts[x] \in Nat /\ EQ!CountIn(<<>>, x) = 0
      BY <2>1, <2>2
    <3> QED BY <3>1
  <2> QED BY <1>8, <2>3, <2>4
<1>10. ASSUME TypeOK', Linked', Queue' = EQ!Pushback(Queue, k),
              LostCounts' = Counted(EQ!CutOff(Queue, k))
       PROVE  TypeOK' /\ Linked' /\ EQ!PushbackKey(k)
  BY <1>1, <1>4, <1>5, <1>10 DEF EQ!PushbackKey
<1> HIDE DEF Counted
<1>11. CASE ~ Found(k) \/ heap[Curr(k)].next = NULL
  <2>1. UNCHANGED <<head, heap>>
    BY <1>1, <1>11 DEF Pushback
  <2>2. Walks(s)' /\ Queue' = Queue /\ LostCounts' = LostCounts
    BY <2>1, Same
  <2>3. TypeOK'
    BY <1>1, <1>5, <2>1 DEF TypeOK
  <2>4. ~ EQ!PrevUnset(Queue, k)
    <3>1. CASE ~ Found(k)
      BY <1>3, <3>1 DEF Stop, EQ!PrevUnset
    <3>2. CASE Found(k) /\ n = Len(s)
      <4>1. EQ!WalkTo(Queue, k) = n
        BY <1>3, <3>2 DEF Stop
      <4>2. ~ (n = 1 /\ Len(s) > 1)
        BY <3>2
      <4> QED BY <1>40, <4>1, <4>2 DEF EQ!PrevUnset
    <3> QED BY <1>6, <1>11, <3>1, <3>2
  <2>5. EQ!Pushback(Queue, k) = Queue
    <3>1. CASE ~ Found(k)
      BY <1>3, <2>4, <3>1 DEF Stop, EQ!Pushback
    <3>2. CASE Found(k) /\ n = Len(s)
      <4> DEFINE L == Len(s)
                 e == EQ!RemoveAt(Queue, L)
                 q == Append(e, Queue[L])
      <4>1. EQ!WalkTo(Queue, k) = L /\ L # 0
        BY <1>2, <1>3, <3>2 DEF Stop
      <4>2. EQ!Pushback(Queue, k) = q
        BY <2>4, <4>1 DEF EQ!Pushback
      <4>3. L \in 1 .. Len(Queue) /\ Queue[L] \in Kinds
        BY <1>2, <1>40, ElementOfSeq
      <4>4. /\ e \in Seq(Kinds) /\ Len(e) = Len(Queue) - 1
            /\ \A j \in 1 .. Len(Queue) - 1 : e[j] = IF j < L THEN Queue[j] ELSE Queue[j+1]
        BY <1>40, <4>3, Removes
      <4> HIDE DEF e
      <4>5. /\ q \in Seq(Kinds) /\ Len(q) = Len(e) + 1 /\ q[Len(e) + 1] = Queue[L]
            /\ \A j \in 1 .. Len(e) : q[j] = e[j]
        BY <4>3, <4>4, AppendProperties
      <4> HIDE DEF q
      <4>6. Len(e) = L - 1 /\ L = Len(e) + 1 /\ Len(q) = L /\ q[L] = Queue[L]
        BY <1>2, <1>40, <4>4, <4>5
      <4>7. ASSUME NEW i \in 1 .. L PROVE q[i] = Queue[i]
        <5>1. CASE i = L
          BY <4>6, <5>1
        <5>2. CASE i # L
          <6>1. i \in 1 .. Len(e) /\ i \in 1 .. Len(Queue) - 1 /\ i < L
            BY <1>2, <1>40, <4>6, <5>2
          <6> QED BY <4>4, <4>5, <6>1
        <5> QED BY <5>1, <5>2
      <4>8. q = Queue
        BY <1>40, <4>5, <4>6, <4>7, SeqEqual
      <4> QED BY <4>2, <4>8
    <3> QED BY <1>6, <1>11, <3>1, <3>2
  <2>6. EQ!CutOff(Queue, k) = <<>>
    BY <2>4 DEF EQ!CutOff
  <2> QED BY <1>9, <1>10, <2>2, <2>3, <2>5, <2>6 DEF Linked
<1>12. CASE Found(k) /\ heap[Curr(k)].next # NULL
  <2>1. n # Len(s) /\ n < Len(s) /\ EQ!WalkTo(Queue, k) = n /\ n # 0
    <3>1. n # Len(s) /\ EQ!WalkTo(Queue, k) = n
      BY <1>3, <1>12 DEF Stop
    <3>2. n < Len(s) /\ n # 0
      BY <1>2, <1>6, <3>1
    <3> QED BY <3>1, <3>2
  <2>2. CASE n # 1
    <3>1. n > 1 /\ n - 1 \in 1 .. Len(s) /\ Prev(k) = s[n-1]
      <4>1. n > 1
        BY <1>6, <2>2
      <4> QED BY <1>3, <4>1 DEF Stop
    <3>2. Relink(s[n-1], s[n], s[Len(s)])
      BY <1>2, <1>6, <1>12, <2>2, <3>1 DEF Pushback
    <3>3. Relinks({s[n-1]}, heap[s[n]].next, s[n], s[Len(s)])
      BY <1>2, <3>1, <3>2, RelinkIs
    <3>4. TypeOK'
      BY <1>1, <1>5, <3>3 DEF TypeOK, Relinks, Keeps
    <3>5. /\ Linked' /\ LostCounts' = LostCounts
          /\ Queue' = Append(EQ!RemoveAt(Queue, n), Queue[n])
      BY <1>1, <2>1, <3>1, <3>3, <3>4, MovesBack
    <3>6. ~ EQ!PrevUnset(Queue, k)
      BY <2>1, <2>2 DEF EQ!PrevUnset
    <3>7. EQ!Pushback(Queue, k) = Append(EQ!RemoveAt(Queue, n), Queue[n]) /\ EQ!CutOff(Queue, k) = <<>>
      BY <2>1, <3>6 DEF EQ!Pushback, EQ!CutOff
    <3> QED BY <1>9, <1>10, <3>4, <3>5, <3>7
  <2>3. CASE n = 1
    <3>1. \/ \E a \in Addrs : heap[a] # Free /\ Relink(a, s[1], s[Len(s)])
          \/ heap' = [heap EXCEPT ![s[1]].next = NULL, ![s[Len(s)]].next = s[1]]
      BY <1>2, <1>6, <1>7, <1>12, <2>3 DEF Pushback
    <3>2. \E P, nx : Relinks(P, nx, s[1], s[Len(s)])
      <4>1. CASE \E a \in Addrs : heap[a] # Free /\ Relink(a, s[1], s[Len(s)])
        <5>1. PICK a \in Addrs : heap[a] # Free /\ Relink(a, s[1], s[Len(s)])
          BY <4>1
        <5>2. heap[a] \in Node
          BY <5>1 DEF TypeOK
        <5>3. Relinks({a}, heap[s[1]].next, s[1], s[Len(s)])
          BY <1>2, <5>1, <5>2, RelinkIs
        <5> QED BY <5>3
      <4>2. CASE heap' = [heap EXCEPT ![s[1]].next = NULL, ![s[Len(s)]].next = s[1]]
        <5>1. Relinks({}, NULL, s[1], s[Len(s)])
          BY <1>2, <4>2, HarmlessIs
        <5> QED BY <5>1
      <4> QED BY <3>1, <4>1, <4>2
    <3>3. PICK P, nx : Relinks(P, nx, s[1], s[Len(s)])
      BY <3>2
    <3>4. TypeOK'
      BY <1>1, <1>5, <3>3 DEF TypeOK, Relinks, Keeps
    <3>5. Len(s) > 1
      BY <2>1, <2>3
    <3>6. /\ Linked' /\ Queue' = <<Head(Queue)>>
          /\ LostCounts' = [x \in Kinds |-> LostCounts[x] + EQ!CountIn(Tail(Queue), x)]
      BY <1>1, <3>3, <3>4, <3>5, CutsOff
    <3>7. EQ!PrevUnset(Queue, k) /\ EQ!WalkTo(Queue, k) # 0
      BY <1>40, <2>1, <2>3, <3>5 DEF EQ!PrevUnset
    <3>8. EQ!Pushback(Queue, k) = <<Head(Queue)>> /\ EQ!CutOff(Queue, k) = Tail(Queue)
      BY <3>7 DEF EQ!Pushback, EQ!CutOff
    <3> QED BY <1>8, <1>10, <3>4, <3>6, <3>8 DEF Counted
  <2> QED BY <2>2, <2>3
<1> QED BY <1>11, <1>12

-----------------------------------------------------------------------------
(* The invariant, and what it gives. *)

LEMMA InitLinked == Init => IInv /\ EQ!Init
<1> SUFFICES ASSUME Init PROVE IInv /\ EQ!Init
  OBVIOUS
<1>1. TypeOK
  BY Constants DEF Init, TypeOK
<1>2. Walks(<<>>)
  BY DEF Walks, Init
<1>3. ChainFacts(<<>>)
  BY <1>1, <1>2, Chains DEF WalksAreChains
<1>4. Queue = <<>>
  BY <1>3, EmptySeq DEF ChainFacts
<1>5. LostCounts = [x \in EQ!Node |-> 0]
  <2>1. \A x : Lost(x) = {}
    BY DEF Lost, Init
  <2>2. EQ!Node = Kinds
    BY DEF EQ!Node, Kinds, EQ!AsInt, AsInt
  <2> QED BY <2>1, <2>2, FS_EmptySet DEF LostCounts, Kinds
<1> QED BY <1>1, <1>2, <1>4, <1>5 DEF IInv, Linked, EQ!Init, Init

\* Every call keeps a chain that ends, and is a call of the queue.
LEMMA NextLinked == IInv /\ [Next]_vars => IInv' /\ [EQ!Next]_(EQ!vars)
<1> SUFFICES ASSUME IInv, [Next]_vars PROVE IInv' /\ [EQ!Next]_(EQ!vars)
  OBVIOUS
<1>1. TypeOK /\ \E s : Walks(s)
  BY DEF IInv, Linked
<1>2. PICK s : Walks(s)
  BY <1>1
<1>3. CASE UNCHANGED vars
  <2>1. UNCHANGED <<head, heap, result, status>>
    BY <1>3 DEF vars
  <2>2. Walks(s)' /\ Queue' = Queue /\ LostCounts' = LostCounts
    BY <1>1, <1>2, <2>1, Same
  <2>3. TypeOK'
    BY <1>1, <2>1 DEF TypeOK
  <2> QED BY <2>1, <2>2, <2>3 DEF IInv, Linked, EQ!vars
<1>4. CASE Next
  <2>0. status = "ok"
    BY <1>4 DEF Next
  <2>1. ASSUME NEW k \in Keys, NEW sz \in Sizes, Enqueue(k, sz) PROVE IInv' /\ EQ!Next
    BY <1>1, <1>2, <2>0, <2>1, EnqueueStep DEF IInv, EQ!Next
  <2>2. ASSUME NEW k \in Keys, Rem(k) PROVE IInv' /\ EQ!Next
    BY <1>1, <1>2, <2>0, <2>2, RemStep DEF IInv, EQ!Next
  <2>3. ASSUME NEW k \in Keys, Pushback(k) PROVE IInv' /\ EQ!Next
    BY <1>1, <1>2, <2>0, <2>3, PushbackStep DEF IInv, EQ!Next
  <2>4. ASSUME NEW k \in Keys, PushbackCorrupts(k) PROVE IInv' /\ EQ!Next
    BY <1>1, <1>2, <2>0, <2>4, CorruptsStep DEF IInv, EQ!Next
  <2>5. ASSUME NEW k \in Keys, RetSize(k) PROVE IInv' /\ EQ!Next
    BY <1>1, <1>2, <2>0, <2>5, RetSizeStep DEF IInv, EQ!Next
  <2>6. ASSUME Dequeue PROVE IInv' /\ EQ!Next
    BY <1>1, <1>2, <2>0, <2>6, DequeueStep DEF IInv, EQ!Next
  <2>7. ASSUME NullHead PROVE IInv' /\ EQ!Next
    BY <1>1, <1>2, <2>0, <2>7, NullHeadStep DEF IInv, EQ!Next
  <2> QED BY <1>4, <2>1, <2>2, <2>3, <2>4, <2>5, <2>6, <2>7 DEF Next
<1> QED BY <1>3, <1>4

\* In every reachable state some sequence of distinct allocated nodes leads
\* from head to NULL.
THEOREM Invariance == Spec => []IInv
BY InitLinked, NextLinked, PTL DEF Spec

\* Every walk of queue.hh ends and reads only allocated nodes, whichever node
\* the stray write of pushback has hit before.
THEOREM ChainSoundHolds == Spec => []ChainSound
<1>1. IInv => ChainSound
  <2> SUFFICES ASSUME TypeOK, NEW s, Walks(s) PROVE ChainSound
    BY DEF IInv, Linked
  <2>1. Chain = {s[i] : i \in 1 .. Len(s)} /\ Path[N] = NULL
    BY ChainIs
  <2> QED BY <2>1 DEF Walks, ChainSound, N
<1> QED BY <1>1, Invariance, PTL

\* The linked list does what the operators of QueueOps say, and loses the
\* nodes that they say are lost, for any number of addresses, keys and sizes.
THEOREM ImplementsEvictorQueueHolds == Spec => ImplementsEvictorQueue
<1>1. Spec => EQ!Spec
  BY InitLinked, NextLinked, PTL DEF Spec, EQ!Spec
<1> QED BY <1>1 DEF ImplementsEvictorQueue
=============================================================================
