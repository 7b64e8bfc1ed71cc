--------------------------- MODULE QueueOpsProofs ---------------------------
(***************************************************************************)
(* Facts about the operators of QueueOps, for every key, size and length.  *)
(*                                                                         *)
(* Statements about running totals are proved by the least number          *)
(* principle (LeastNumber), which stands in for induction.                 *)
(***************************************************************************)
EXTENDS QueueOps, SequenceTheorems, WellFoundedInduction, TLAPS

\* A set of nodes whose sizes are integers.
Sized(S) == \A x \in S : x.size \in Int

\* Every nonempty set of naturals has a least element.
LEMMA LeastNumber ==
    ASSUME NEW T, T \subseteq Nat, T # {}
    PROVE  \E m \in T : \A n \in T : m <= n
<1>1. PICK m \in T : \A n \in T : ~ (<<n, m>> \in OpToRel(<, Nat))
    BY WFMin, NatLessThanWellFounded
<1>2. \A n \in T : ~ (n < m)
    BY <1>1 DEF OpToRel
<1> QED BY <1>2, SMT

-----------------------------------------------------------------------------
(* Running totals and Bytes *)

\* t gives the running totals of the first n sizes of q.
IsTotal(t, q, n) ==
    t = [i \in 0 .. n |-> IF i = 0 THEN 0 ELSE t[i-1] + q[i].size]

\* The equation that defines RunningBytes has a solution ...
LEMMA TotalExists ==
    ASSUME NEW q, NEW n \in Nat
    PROVE  \E t : IsTotal(t, q, n)
<1> DEFINE T == {m \in Nat : ~ \E t : IsTotal(t, q, m)}
<1> SUFFICES ASSUME T # {} PROVE FALSE
    OBVIOUS
<1>1. PICK m \in T : \A k \in T : m <= k
    BY LeastNumber
<1>2. CASE m = 0
    <2> DEFINE t == [i \in 0 .. 0 |-> 0]
    <2>1. IsTotal(t, q, 0)
        BY DEF IsTotal
    <2> QED BY <2>1, <1>2
<1>3. CASE m # 0
    <2>1. m \in Nat /\ m - 1 \in Nat /\ ~ (m <= m - 1)
        BY <1>3
    <2>2. m - 1 \notin T
        BY <1>1, <2>1
    <2>3. PICK f : IsTotal(f, q, m - 1)
        BY <2>1, <2>2
    <2> DEFINE g == [i \in 0 .. m |-> IF i < m THEN f[i] ELSE f[m-1] + q[m].size]
    <2>4. \A i \in 0 .. m-1 : f[i] = IF i = 0 THEN 0 ELSE f[i-1] + q[i].size
        BY <2>3 DEF IsTotal
    <2>5. \A i \in 0 .. m : g[i] = IF i = 0 THEN 0 ELSE g[i-1] + q[i].size
        BY <1>3, <2>1, <2>4
    <2>6. IsTotal(g, q, m)
        BY <2>5 DEF IsTotal
    <2> QED BY <2>6
<1> QED BY <1>2, <1>3

\* ... so RunningBytes satisfies it.
LEMMA RunningBytesUnfold ==
    ASSUME NEW q, Len(q) \in Nat
    PROVE  /\ RunningBytes(q)[0] = 0
           /\ \A i \in 1 .. Len(q) :
                 RunningBytes(q)[i] = RunningBytes(q)[i-1] + q[i].size
<1>1. IsTotal(RunningBytes(q), q, Len(q))
    BY TotalExists DEF IsTotal, RunningBytes
<1>2. RunningBytes(q) = [i \in 0 .. Len(q) |->
            IF i = 0 THEN 0 ELSE RunningBytes(q)[i-1] + q[i].size]
    BY <1>1 DEF IsTotal
<1>3. \A i \in 0 .. Len(q) : RunningBytes(q)[i] =
            IF i = 0 THEN 0 ELSE RunningBytes(q)[i-1] + q[i].size
    BY <1>2
<1> QED BY <1>3

\* Running totals are integers, and naturals if no size is negative.
LEMMA RunningBytesType ==
    ASSUME NEW S, Sized(S), NEW q \in Seq(S)
    PROVE  /\ \A i \in 0 .. Len(q) : RunningBytes(q)[i] \in Int
           /\ (\A j \in 1 .. Len(q) : q[j].size >= 0) =>
                 \A i \in 0 .. Len(q) : RunningBytes(q)[i] >= 0
<1> DEFINE R(i) == RunningBytes(q)[i]
           NonNeg == \A j \in 1 .. Len(q) : q[j].size >= 0
           Bad == {i \in 0 .. Len(q) : ~ (R(i) \in Int /\ (NonNeg => R(i) >= 0))}
<1>1. Len(q) \in Nat /\ \A j \in 1 .. Len(q) : q[j].size \in Int
    BY LenProperties, ElementOfSeq DEF Sized
<1>2. R(0) = 0 /\ \A i \in 1 .. Len(q) : R(i) = R(i-1) + q[i].size
    BY <1>1, RunningBytesUnfold
<1>3. Bad = {}
    <2> SUFFICES ASSUME Bad # {} PROVE FALSE
        OBVIOUS
    <2>1. PICK m \in Bad : \A k \in Bad : m <= k
        <3>1. Bad \subseteq Nat
            BY <1>1
        <3> QED BY <3>1, LeastNumber
    <2>2. m # 0 /\ m \in 1 .. Len(q)
        BY <1>1, <1>2
    <2>3. m - 1 \in 0 .. Len(q) /\ ~ (m <= m - 1)
        BY <2>2, <1>1
    <2>4. R(m-1) \in Int /\ (NonNeg => R(m-1) >= 0)
        BY <2>1, <2>3
    <2>5. R(m) = R(m-1) + q[m].size /\ q[m].size \in Int
        BY <1>1, <1>2, <2>2
    <2>6. R(m) \in Int
        BY <2>4, <2>5
    <2>7. NonNeg => R(m) >= 0
        <3> HIDE DEF R
        <3> QED BY <2>2, <2>4, <2>5, <2>6
    <2> QED BY <2>6, <2>7
<1> QED BY <1>3

LEMMA BytesType ==
    ASSUME NEW S, Sized(S), NEW q \in Seq(S)
    PROVE  /\ Bytes(q) \in Int
           /\ (\A j \in 1 .. Len(q) : q[j].size >= 0) => Bytes(q) >= 0
<1>1. Len(q) \in 0 .. Len(q)
    BY LenProperties
<1> QED BY <1>1, RunningBytesType DEF Bytes

\* Where a stretch of p carries the nodes of q, its total grows by Bytes(q).
LEMMA RunningBytesStretch ==
    ASSUME NEW S, Sized(S), NEW p \in Seq(S), NEW q \in Seq(S), NEW d \in 0 .. Len(p),
           Len(q) + d <= Len(p),
           \A i \in 1 .. Len(q) : p[d + i] = q[i]
    PROVE  RunningBytes(p)[d + Len(q)] = RunningBytes(p)[d] + Bytes(q)
<1> DEFINE P(i) == RunningBytes(p)[i]
           Q(i) == RunningBytes(q)[i]
           Bad == {n \in 0 .. Len(q) : P(d + n) # P(d) + Q(n)}
<1>1. Len(p) \in Nat /\ Len(q) \in Nat /\ d \in Nat
    BY LenProperties
<1>2. /\ Q(0) = 0
      /\ \A i \in 1 .. Len(q) : Q(i) = Q(i-1) + q[i].size
      /\ \A i \in 1 .. Len(p) : P(i) = P(i-1) + p[i].size
    BY <1>1, RunningBytesUnfold
<1>3. /\ \A i \in 0 .. Len(p) : P(i) \in Int
      /\ \A i \in 0 .. Len(q) : Q(i) \in Int
      /\ \A i \in 1 .. Len(q) : q[i].size \in Int
    BY RunningBytesType, ElementOfSeq DEF Sized
<1>4. Bad = {}
    <2> SUFFICES ASSUME Bad # {} PROVE FALSE
        OBVIOUS
    <2>1. PICK m \in Bad : \A k \in Bad : m <= k
        <3>1. Bad \subseteq Nat
            BY <1>1
        <3> QED BY <3>1, LeastNumber
    <2>2. m # 0
        <3> HIDE DEF P, Q
        <3> QED BY <1>1, <1>2, <1>3
    <2>3. m \in 1 .. Len(q) /\ m - 1 \in 0 .. Len(q) /\ ~ (m <= m - 1)
        BY <2>2, <1>1
    <2>4. P(d + (m-1)) = P(d) + Q(m-1)
        BY <2>1, <2>3
    <2>5. d + m \in 1 .. Len(p) /\ (d + m) - 1 = d + (m-1) /\ d + (m-1) \in 0 .. Len(p)
        BY <2>3, <1>1
    <2>6. P(d + m) = P(d + (m-1)) + q[m].size
        BY <2>3, <2>5, <1>2
    <2>7. P(d + m) = P(d) + Q(m)
        <3>1. P(d) \in Int /\ Q(m-1) \in Int /\ q[m].size \in Int /\ Q(m) = Q(m-1) + q[m].size
            BY <2>3, <1>2, <1>3
        <3> HIDE DEF P, Q
        <3> QED BY <2>4, <2>6, <3>1
    <2> QED BY <2>7
<1>5. P(d + Len(q)) = P(d) + Q(Len(q))
    BY <1>1, <1>4
<1> QED BY <1>5 DEF Bytes

LEMMA BytesEmpty == Bytes(<<>>) = 0
<1>1. Len(<<>>) = 0
    OBVIOUS
<1> QED BY <1>1, RunningBytesUnfold DEF Bytes

LEMMA BytesConcat ==
    ASSUME NEW S, Sized(S), NEW p \in Seq(S), NEW q \in Seq(S)
    PROVE  Bytes(p \o q) = Bytes(p) + Bytes(q)
<1>1. Len(p) \in Nat /\ Len(q) \in Nat
    BY LenProperties
<1>2. /\ p \o q \in Seq(S)
      /\ Len(p \o q) = Len(p) + Len(q)
      /\ \A i \in 1 .. Len(p) : (p \o q)[i] = p[i]
      /\ \A i \in 1 .. Len(q) : (p \o q)[Len(p) + i] = q[i]
    BY <1>1, ConcatProperties
<1> SUFFICES ASSUME NEW c \in Seq(S), c = p \o q,
                    Len(c) = Len(p) + Len(q),
                    \A i \in 1 .. Len(p) : c[i] = p[i],
                    \A i \in 1 .. Len(q) : c[Len(p) + i] = q[i]
             PROVE  Bytes(c) = Bytes(p) + Bytes(q)
    BY <1>2
<1>3. RunningBytes(c)[0 + Len(p)] = RunningBytes(c)[0] + Bytes(p)
    <2>1. ASSUME NEW d, d = 0
          PROVE  RunningBytes(c)[d + Len(p)] = RunningBytes(c)[d] + Bytes(p)
        <3>1. /\ d \in 0 .. Len(c) /\ Len(p) + d <= Len(c)
              /\ \A i \in 1 .. Len(p) : c[d + i] = p[i]
            BY <2>1, <1>1
        <3> QED BY <3>1, RunningBytesStretch
    <2> QED BY <2>1, Zenon
<1>4. RunningBytes(c)[Len(p) + Len(q)] = RunningBytes(c)[Len(p)] + Bytes(q)
    <2>1. Len(p) \in 0 .. Len(c) /\ Len(q) + Len(p) <= Len(c)
        BY <1>1
    <2> QED BY <2>1, RunningBytesStretch
<1>5. 0 + Len(p) = Len(p) /\ RunningBytes(c)[0] = 0
    BY <1>1, RunningBytesUnfold
<1>6. Bytes(p) \in Int
    BY BytesType
<1> QED BY <1>3, <1>4, <1>5, <1>6 DEF Bytes

LEMMA BytesSingle ==
    ASSUME NEW x, x.size \in Int
    PROVE  Bytes(<<x>>) = x.size
<1>1. Len(<<x>>) = 1 /\ <<x>>[1] = x
    OBVIOUS
<1>2. /\ RunningBytes(<<x>>)[0] = 0
      /\ RunningBytes(<<x>>)[1] = RunningBytes(<<x>>)[1-1] + <<x>>[1].size
    <2>1. 1 \in 1 .. Len(<<x>>) /\ Len(<<x>>) \in Nat
        BY <1>1
    <2> QED BY <2>1, RunningBytesUnfold
<1>3. RunningBytes(<<x>>)[1] = x.size
    <2>1. 1 - 1 = 0
        OBVIOUS
    <2> QED BY <1>1, <1>2, <2>1
<1> QED BY <1>1, <1>3 DEF Bytes

LEMMA BytesAppend ==
    ASSUME NEW S, Sized(S), NEW q \in Seq(S), NEW x \in S
    PROVE  Bytes(Append(q, x)) = Bytes(q) + x.size
<1>1. Append(q, x) = q \o <<x>>
    BY AppendIsConcat
<1>2. <<x>> \in Seq(S) /\ x.size \in Int
    BY DEF Sized
<1>3. Bytes(q \o <<x>>) = Bytes(q) + Bytes(<<x>>)
    BY <1>2, BytesConcat
<1> QED BY <1>1, <1>2, <1>3, BytesSingle

-----------------------------------------------------------------------------
(* Taking a node out *)

LEMMA RemoveAtProperties ==
    ASSUME NEW S, NEW q \in Seq(S), NEW i \in 1 .. Len(q)
    PROVE  /\ RemoveAt(q, i) \in Seq(S)
           /\ Len(RemoveAt(q, i)) = Len(q) - 1
           /\ \A j \in 1 .. Len(q) - 1 :
                 RemoveAt(q, i)[j] = IF j < i THEN q[j] ELSE q[j+1]
<1> DEFINE a == SubSeq(q, 1, i-1)
           b == SubSeq(q, i+1, Len(q))
<1>1. Len(q) \in Nat /\ \A j \in 1 .. Len(q) : q[j] \in S
    BY LenProperties, ElementOfSeq
<1>2. /\ a \in Seq(S) /\ Len(a) = i - 1
      /\ \A j \in 1 .. i-1 : a[j] = q[j]
    <2>1. i-1 \in Int /\ 1 \in Int /\ \A j \in 1 .. i-1 : q[j] \in S
        BY <1>1
    <2> QED BY <2>1, <1>1, SubSeqProperties
<1>3. /\ b \in Seq(S) /\ Len(b) = Len(q) - i
      /\ \A j \in 1 .. Len(q) - i : b[j] = q[i+j]
    <2>1. i+1 \in Int /\ Len(q) \in Int /\ \A j \in i+1 .. Len(q) : q[j] \in S
        BY <1>1
    <2> QED BY <2>1, <1>1, SubSeqProperties
<1> HIDE DEF a, b
<1>4. /\ a \o b \in Seq(S)
      /\ Len(a \o b) = Len(a) + Len(b)
      /\ \A j \in 1 .. Len(a) + Len(b) :
            (a \o b)[j] = IF j <= Len(a) THEN a[j] ELSE b[j - Len(a)]
    BY <1>2, <1>3, ConcatProperties
<1>5. RemoveAt(q, i) = a \o b
    BY DEF RemoveAt, a, b
<1>6. Len(a) + Len(b) = Len(q) - 1
    BY <1>1, <1>2, <1>3
<1>7. ASSUME NEW j \in 1 .. Len(q) - 1
      PROVE  (a \o b)[j] = IF j < i THEN q[j] ELSE q[j+1]
    <2>1. (a \o b)[j] = IF j <= Len(a) THEN a[j] ELSE b[j - Len(a)]
        BY <1>4, <1>6
    <2>2. CASE j < i
        <3>1. j <= Len(a) /\ j \in 1 .. i-1
            BY <1>1, <1>2, <2>2
        <3> QED BY <2>1, <2>2, <3>1, <1>2
    <2>3. CASE ~ (j < i)
        <3>1. /\ ~ (j <= Len(a)) /\ j - Len(a) \in 1 .. Len(q) - i
              /\ i + (j - Len(a)) = j + 1
            BY <1>1, <1>2, <2>3
        <3>2. b[j - Len(a)] = q[i + (j - Len(a))]
            BY <3>1, <1>3
        <3> QED BY <2>1, <2>3, <3>1, <3>2
    <2> QED BY <2>2, <2>3
<1> QED BY <1>4, <1>5, <1>6, <1>7

LEMMA BytesRemoveAt ==
    ASSUME NEW S, Sized(S), NEW q \in Seq(S), NEW i \in 1 .. Len(q)
    PROVE  Bytes(RemoveAt(q, i)) = Bytes(q) - q[i].size
<1> DEFINE a == SubSeq(q, 1, i-1)
           b == SubSeq(q, i+1, Len(q))
           c == SubSeq(q, i, Len(q))
<1>1. Len(q) \in Nat /\ \A j \in 1 .. Len(q) : q[j] \in S /\ q[j].size \in Int
    BY LenProperties, ElementOfSeq DEF Sized
<1>2. a \in Seq(S)
    <2>1. i-1 \in Int /\ 1 \in Int /\ \A j \in 1 .. i-1 : q[j] \in S
        BY <1>1
    <2> QED BY <2>1, SubSeqProperties
<1>3. b \in Seq(S)
    <2>1. i+1 \in Int /\ Len(q) \in Int /\ \A j \in i+1 .. Len(q) : q[j] \in S
        BY <1>1
    <2> QED BY <2>1, SubSeqProperties
<1>4. c = <<q[i]>> \o b
    <2>1. Len(q) \in i .. Len(q)
        BY <1>1
    <2> QED BY <2>1, SubSeqRecursiveFirst
<1>5. q = a \o c
    <2>1. /\ 1 \in 1 .. Len(q)+1 /\ i-1 \in 1-1 .. Len(q) /\ Len(q) \in i-1 .. Len(q)
          /\ (i-1)+1 = i
        BY <1>1
    <2>2. SubSeq(q, 1, i-1) \o SubSeq(q, (i-1)+1, Len(q)) = SubSeq(q, 1, Len(q))
        BY <2>1, ConcatAdjacentSubSeq
    <2> QED BY <2>1, <2>2, SubSeqFull
<1>6. RemoveAt(q, i) = a \o b
    BY DEF RemoveAt
<1> HIDE DEF a, b, c
<1>7. <<q[i]>> \in Seq(S) /\ q[i].size \in Int
    BY <1>1
<1>8. c \in Seq(S)
    BY <1>3, <1>4, <1>7, ConcatProperties
<1>9. /\ Bytes(c) = Bytes(<<q[i]>>) + Bytes(b)
      /\ Bytes(q) = Bytes(a) + Bytes(c)
      /\ Bytes(a \o b) = Bytes(a) + Bytes(b)
    <2>1. Bytes(c) = Bytes(<<q[i]>>) + Bytes(b)
        BY <1>3, <1>4, <1>7, BytesConcat
    <2>2. Bytes(q) = Bytes(a) + Bytes(c)
        BY <1>2, <1>5, <1>8, BytesConcat
    <2>3. Bytes(a \o b) = Bytes(a) + Bytes(b)
        BY <1>2, <1>3, BytesConcat
    <2> QED BY <2>1, <2>2, <2>3
<1>10. Bytes(<<q[i]>>) = q[i].size
    BY <1>7, BytesSingle
<1>11. Bytes(a) \in Int /\ Bytes(b) \in Int
    BY <1>2, <1>3, BytesType
<1> QED BY <1>6, <1>7, <1>9, <1>10, <1>11

\* No node is larger than the chain it is in.
LEMMA SizeAtMostBytes ==
    ASSUME NEW S, Sized(S), NEW q \in Seq(S), \A j \in 1 .. Len(q) : q[j].size >= 0,
           NEW i \in 1 .. Len(q)
    PROVE  q[i].size <= Bytes(q)
<1> DEFINE r == RemoveAt(q, i)
<1>1. Len(q) \in Nat /\ \A j \in 1 .. Len(q) : q[j].size \in Int
    BY LenProperties, ElementOfSeq DEF Sized
<1>2. r \in Seq(S) /\ \A j \in 1 .. Len(r) : r[j].size >= 0
    <2>1. /\ r \in Seq(S) /\ Len(r) = Len(q) - 1
          /\ \A j \in 1 .. Len(q) - 1 : r[j] = IF j < i THEN q[j] ELSE q[j+1]
        BY RemoveAtProperties
    <2> HIDE DEF r
    <2> QED BY <2>1, <1>1
<1>3. Bytes(r) = Bytes(q) - q[i].size
    BY BytesRemoveAt
<1> HIDE DEF r
<1>4. Bytes(r) >= 0 /\ Bytes(q) \in Int
    BY <1>2, BytesType
<1> QED BY <1>1, <1>3, <1>4

-----------------------------------------------------------------------------
(* The search loop *)

LEMMA WalkToProperties ==
    ASSUME NEW S, NEW q \in Seq(S), NEW k
    PROVE  \/ /\ WalkTo(q, k) = 0
              /\ \A j \in 1 .. Len(q) : q[j].key # k
           \/ /\ WalkTo(q, k) \in 1 .. Len(q)
              /\ q[WalkTo(q, k)].key = k
              /\ \A j \in 1 .. WalkTo(q, k) - 1 : q[j].key # k
<1> DEFINE I == {j \in 1 .. Len(q) : q[j].key = k}
<1>1. Len(q) \in Nat
    BY LenProperties
<1>2. WalkTo(q, k) = IF I # {} THEN Min(I) ELSE 0
    BY DEF WalkTo, SelectInSeq
<1>3. CASE I = {}
    BY <1>2, <1>3
<1>4. CASE I # {}
    <2>1. PICK m \in I : \A n \in I : m <= n
        <3>1. I \subseteq Nat
            BY <1>1
        <3> QED BY <3>1, <1>4, LeastNumber
    <2>2. Min(I) \in I /\ \A n \in I : Min(I) <= n
        BY <2>1 DEF Min
    <2>3. WalkTo(q, k) = Min(I)
        BY <1>2, <1>4
    <2>4. WalkTo(q, k) \in I /\ \A n \in I : WalkTo(q, k) <= n
        BY <2>2, <2>3
    <2> QED BY <2>4, <1>1
<1> QED BY <1>3, <1>4

-----------------------------------------------------------------------------
(* Chains as sets of nodes *)

NodesOf(q) == {q[i] : i \in 1 .. Len(q)}

KeysDistinct(q) ==
    \A i, j \in 1 .. Len(q) : q[i].key = q[j].key => i = j

\* RemoveAt takes out one node; with distinct keys, every node of that key.
LEMMA NodesOfRemoveAt ==
    ASSUME NEW S, NEW q \in Seq(S), NEW i \in 1 .. Len(q)
    PROVE  /\ NodesOf(q) = NodesOf(RemoveAt(q, i)) \cup {q[i]}
           /\ KeysDistinct(q) =>
                 /\ KeysDistinct(RemoveAt(q, i))
                 /\ \A x \in NodesOf(RemoveAt(q, i)) : x.key # q[i].key
<1> DEFINE r == RemoveAt(q, i)
<1>1. Len(q) \in Nat
    BY LenProperties
<1>2. /\ Len(r) = Len(q) - 1
      /\ \A j \in 1 .. Len(q) - 1 : r[j] = IF j < i THEN q[j] ELSE q[j+1]
    BY RemoveAtProperties
<1> HIDE DEF r
<1>3. NodesOf(q) \subseteq NodesOf(r) \cup {q[i]}
    <2> SUFFICES ASSUME NEW j \in 1 .. Len(q), j # i
                 PROVE  \E n \in 1 .. Len(r) : r[n] = q[j]
        BY DEF NodesOf
    <2>1. CASE j < i
        <3>1. j \in 1 .. Len(q) - 1
            BY <1>1, <2>1
        <3> QED BY <3>1, <1>2, <2>1
    <2>2. CASE ~ (j < i)
        <3>1. j - 1 \in 1 .. Len(q) - 1 /\ ~ (j - 1 < i) /\ (j - 1) + 1 = j
            BY <1>1, <2>2
        <3> QED BY <3>1, <1>2
    <2> QED BY <2>1, <2>2
<1>4. NodesOf(r) \cup {q[i]} \subseteq NodesOf(q)
    <2> SUFFICES ASSUME NEW j \in 1 .. Len(r)
                 PROVE  \E n \in 1 .. Len(q) : q[n] = r[j]
        BY DEF NodesOf
    <2>1. j \in 1 .. Len(q) /\ j + 1 \in 1 .. Len(q)
        BY <1>1, <1>2
    <2> QED BY <2>1, <1>2
<1>5. ASSUME KeysDistinct(q)
      PROVE  KeysDistinct(r) /\ \A x \in NodesOf(r) : x.key # q[i].key
    <2> DEFINE at(j) == IF j < i THEN j ELSE j + 1
    <2>1. \A j \in 1 .. Len(r) : at(j) \in 1 .. Len(q) /\ r[j] = q[at(j)] /\ at(j) # i
        BY <1>1, <1>2
    <2>2. \A j, n \in 1 .. Len(r) : at(j) = at(n) => j = n
        BY <1>1, <1>2
    <2> HIDE DEF at
    <2> QED BY <1>5, <2>1, <2>2 DEF KeysDistinct, NodesOf
<1> QED BY <1>3, <1>4, <1>5 DEF r

LEMMA NodesOfAppend ==
    ASSUME NEW S, NEW q \in Seq(S), NEW x \in S
    PROVE  /\ NodesOf(Append(q, x)) = NodesOf(q) \cup {x}
           /\ KeysDistinct(q) /\ (\A y \in NodesOf(q) : y.key # x.key)
                => KeysDistinct(Append(q, x))
<1> DEFINE a == Append(q, x)
<1>1. Len(q) \in Nat
    BY LenProperties
<1>2. /\ Len(a) = Len(q) + 1
      /\ \A i \in 1 .. Len(q) : a[i] = q[i]
      /\ a[Len(q) + 1] = x
    BY AppendProperties
<1> HIDE DEF a
<1>3. \A i \in 1 .. Len(a) : i \in 1 .. Len(q) \/ i = Len(q) + 1
    BY <1>1, <1>2
<1>4. Len(q) + 1 \in 1 .. Len(a) /\ \A i \in 1 .. Len(q) : i \in 1 .. Len(a)
    BY <1>1, <1>2
<1>5. NodesOf(a) = NodesOf(q) \cup {x}
    BY <1>2, <1>3, <1>4 DEF NodesOf
<1>6. KeysDistinct(q) /\ (\A y \in NodesOf(q) : y.key # x.key) => KeysDistinct(a)
    BY <1>2, <1>3, <1>4 DEF NodesOf, KeysDistinct
<1> QED BY <1>5, <1>6 DEF a

LEMMA NodesOfConcat ==
    ASSUME NEW S, NEW p \in Seq(S), NEW q \in Seq(S)
    PROVE  NodesOf(p \o q) = NodesOf(p) \cup NodesOf(q)
<1> DEFINE c == p \o q
<1>1. Len(p) \in Nat /\ Len(q) \in Nat
    BY LenProperties
<1>2. /\ Len(c) = Len(p) + Len(q)
      /\ \A i \in 1 .. Len(p) + Len(q) : c[i] =
            IF i <= Len(p) THEN p[i] ELSE q[i - Len(p)]
    BY ConcatProperties
<1> HIDE DEF c
<1>3. NodesOf(c) \subseteq NodesOf(p) \cup NodesOf(q)
    <2> SUFFICES ASSUME NEW i \in 1 .. Len(c)
                 PROVE  c[i] \in NodesOf(p) \cup NodesOf(q)
        BY DEF NodesOf
    <2>1. CASE i <= Len(p)
        <3>1. i \in 1 .. Len(p) /\ c[i] = p[i]
            BY <1>1, <1>2, <2>1
        <3> QED BY <3>1 DEF NodesOf
    <2>2. CASE ~ (i <= Len(p))
        <3>1. i - Len(p) \in 1 .. Len(q) /\ c[i] = q[i - Len(p)]
            BY <1>1, <1>2, <2>2
        <3> QED BY <3>1 DEF NodesOf
    <2> QED BY <2>1, <2>2
<1>4. ASSUME NEW i \in 1 .. Len(p) PROVE p[i] \in NodesOf(c)
    <2>1. i \in 1 .. Len(c) /\ c[i] = p[i]
        BY <1>1, <1>2
    <2> QED BY <2>1 DEF NodesOf
<1>5. ASSUME NEW i \in 1 .. Len(q) PROVE q[i] \in NodesOf(c)
    <2>1. Len(p) + i \in 1 .. Len(c) /\ ~ (Len(p) + i <= Len(p)) /\ (Len(p) + i) - Len(p) = i
        BY <1>1, <1>2
    <2>2. c[Len(p) + i] = q[i]
        BY <1>2, <2>1
    <2> QED BY <2>1, <2>2 DEF NodesOf
<1> QED BY <1>3, <1>4, <1>5 DEF NodesOf, c

-----------------------------------------------------------------------------
(* enqueue, rem and pushback *)

LEMMA EmptyChain ==
    /\ NodesOf(<<>>) = {}
    /\ KeysDistinct(<<>>)
    /\ Bytes(<<>>) = 0
BY BytesEmpty DEF NodesOf, KeysDistinct

LEMMA SomeNode ==
    ASSUME NEW S, NEW q \in Seq(S)
    PROVE  /\ NodesOf(q) = {} <=> q = <<>>
           /\ NodesOf(q) \subseteq S
<1>1. q # <<>> => 1 \in 1 .. Len(q)
    <2>1. q # <<>> => Len(q) \in Nat \ {0}
        BY EmptySeq
    <2> QED BY <2>1
<1>2. \A i \in 1 .. Len(q) : q[i] \in S
    BY ElementOfSeq
<1> QED BY <1>1, <1>2, EmptyChain DEF NodesOf

LEMMA RemProperties ==
    ASSUME NEW S, Sized(S), NEW q \in Seq(S), NEW k
    PROVE  /\ Rem(q, k) \in Seq(S)
           /\ SizeIn(q, k) \in Int
           /\ Bytes(Rem(q, k)) = Bytes(q) - SizeIn(q, k)
           /\ NodesOf(Rem(q, k)) \subseteq NodesOf(q)
           /\ KeysDistinct(q) =>
                 /\ KeysDistinct(Rem(q, k))
                 /\ NodesOf(Rem(q, k)) = {x \in NodesOf(q) : x.key # k}
<1> DEFINE w == WalkTo(q, k)
<1>1. Bytes(q) \in Int
    BY BytesType
<1>2. CASE w = 0 /\ \A j \in 1 .. Len(q) : q[j].key # k
    <2>1. Rem(q, k) = q /\ SizeIn(q, k) = 0
        BY <1>2 DEF Rem, SizeIn
    <2>2. NodesOf(q) = {x \in NodesOf(q) : x.key # k}
        BY <1>2 DEF NodesOf
    <2> QED BY <2>1, <2>2, <1>1
<1>3. CASE w \in 1 .. Len(q) /\ q[w].key = k
    <2>1. w # 0 /\ Rem(q, k) = RemoveAt(q, w) /\ SizeIn(q, k) = q[w].size
        <3>1. w # 0
            BY <1>3
        <3> QED BY <3>1 DEF Rem, SizeIn
    <2>2. q[w].size \in Int
        BY <1>3, ElementOfSeq DEF Sized
    <2>3. RemoveAt(q, w) \in Seq(S)
        BY <1>3, RemoveAtProperties
    <2>4. Bytes(RemoveAt(q, w)) = Bytes(q) - q[w].size
        BY <1>3, BytesRemoveAt
    <2>5. /\ NodesOf(q) = NodesOf(RemoveAt(q, w)) \cup {q[w]}
          /\ KeysDistinct(q) =>
                /\ KeysDistinct(RemoveAt(q, w))
                /\ \A x \in NodesOf(RemoveAt(q, w)) : x.key # q[w].key
        BY <1>3, NodesOfRemoveAt
    <2> HIDE DEF w
    <2> QED BY <1>3, <2>1, <2>2, <2>3, <2>4, <2>5
<1> QED BY <1>2, <1>3, WalkToProperties

\* rem, pushback and ret_size return the size of the key's node, 0 if there
\* is none.
LEMMA SizeInProperties ==
    ASSUME NEW S, NEW q \in Seq(S), NEW k
    PROVE  \/ /\ SizeIn(q, k) = 0
              /\ \A x \in NodesOf(q) : x.key # k
           \/ \E i \in 1 .. Len(q) : q[i].key = k /\ SizeIn(q, k) = q[i].size
<1> DEFINE w == WalkTo(q, k)
<1>1. CASE w = 0 /\ \A j \in 1 .. Len(q) : q[j].key # k
    BY <1>1 DEF NodesOf, SizeIn
<1>2. CASE w \in 1 .. Len(q) /\ q[w].key = k
    <2>1. w # 0
        BY <1>2
    <2> QED BY <1>2, <2>1 DEF SizeIn
<1> QED BY <1>1, <1>2, WalkToProperties

\* Evicting the head leaves the rest of the chain in order.
LEMMA RemHead ==
    ASSUME NEW S, NEW q \in Seq(S), q # <<>>
    PROVE  /\ SizeIn(q, Head(q).key) = Head(q).size
           /\ Len(Rem(q, Head(q).key)) = Len(q) - 1
           /\ \A j \in 1 .. Len(q) - 1 : Rem(q, Head(q).key)[j] = q[j+1]
<1>1. Len(q) \in Nat \ {0} /\ Head(q) = q[1]
    BY EmptySeq
<1>2. WalkTo(q, Head(q).key) = 1
    <2>1. \/ /\ WalkTo(q, q[1].key) = 0
             /\ \A j \in 1 .. Len(q) : q[j].key # q[1].key
          \/ /\ WalkTo(q, q[1].key) \in 1 .. Len(q)
             /\ q[WalkTo(q, q[1].key)].key = q[1].key
             /\ \A j \in 1 .. WalkTo(q, q[1].key) - 1 : q[j].key # q[1].key
        BY WalkToProperties
    <2>2. 1 \in 1 .. Len(q)
        BY <1>1
    <2>3. WalkTo(q, q[1].key) \in 1 .. Len(q) /\ 1 \notin 1 .. WalkTo(q, q[1].key) - 1
        BY <2>1, <2>2
    <2> QED BY <1>1, <2>3
<1>3. Rem(q, Head(q).key) = RemoveAt(q, 1) /\ SizeIn(q, Head(q).key) = q[1].size
    BY <1>2 DEF Rem, SizeIn
<1>4. 1 \in 1 .. Len(q)
    BY <1>1
<1>5. /\ Len(RemoveAt(q, 1)) = Len(q) - 1
      /\ \A j \in 1 .. Len(q) - 1 :
            RemoveAt(q, 1)[j] = IF j < 1 THEN q[j] ELSE q[j+1]
    BY <1>4, RemoveAtProperties
<1> QED BY <1>1, <1>3, <1>5

\* pushback loses no node between the chain and what it cuts off from it.
LEMMA PushbackProperties ==
    ASSUME NEW S, Sized(S), NEW q \in Seq(S), q # <<>>, NEW k
    PROVE  /\ Pushback(q, k) \in Seq(S)
           /\ CutOff(q, k) \in Seq(S)
           /\ Bytes(Pushback(q, k)) + Bytes(CutOff(q, k)) = Bytes(q)
           /\ NodesOf(Pushback(q, k)) \cup NodesOf(CutOff(q, k)) = NodesOf(q)
           /\ KeysDistinct(q) => KeysDistinct(Pushback(q, k))
<1> DEFINE w == WalkTo(q, k)
<1>1. Bytes(q) \in Int /\ Len(q) \in Nat \ {0} /\ <<>> \in Seq(S)
    BY BytesType, EmptySeq
<1>2. CASE w = 0
    <2>1. Pushback(q, k) = q /\ CutOff(q, k) = <<>>
        <3>1. ~ PrevUnset(q, k)
            BY <1>2 DEF PrevUnset
        <3> QED BY <1>2, <3>1 DEF Pushback, CutOff
    <2> QED BY <2>1, <1>1, EmptyChain
<1>3. CASE PrevUnset(q, k)
    <2> DEFINE h == <<Head(q)>>
               t == Tail(q)
    <2>1. Pushback(q, k) = h /\ CutOff(q, k) = t
        <3>1. w # 0
            BY <1>3 DEF PrevUnset
        <3> QED BY <1>3, <3>1 DEF Pushback, CutOff
    <2>2. Head(q) \in S /\ h \in Seq(S) /\ t \in Seq(S)
        BY HeadTailProperties
    <2>3. q = h \o t
        <3>1. 1 \in 1 .. Len(q) /\ Len(q) \in 1 .. Len(q) /\ Head(q) = q[1]
            BY <1>1
        <3>2. SubSeq(q, 1, Len(q)) = <<q[1]>> \o SubSeq(q, 1+1, Len(q))
            BY <3>1, SubSeqRecursiveFirst
        <3>3. 1 + 1 = 2 /\ SubSeq(q, 1, Len(q)) = q /\ Tail(q) = SubSeq(q, 2, Len(q))
            BY SubSeqFull, TailIsSubSeq
        <3> QED BY <3>1, <3>2, <3>3
    <2>4. KeysDistinct(h)
        BY DEF KeysDistinct
    <2> HIDE DEF h, t
    <2>5. Bytes(q) = Bytes(h) + Bytes(t) /\ NodesOf(q) = NodesOf(h) \cup NodesOf(t)
        BY <2>2, <2>3, BytesConcat, NodesOfConcat
    <2> QED BY <2>1, <2>2, <2>4, <2>5
<1>4. CASE w \in 1 .. Len(q) /\ ~ PrevUnset(q, k)
    <2> DEFINE r == RemoveAt(q, w)
    <2>1. Pushback(q, k) = Append(r, q[w]) /\ CutOff(q, k) = <<>>
        <3>1. w # 0
            BY <1>4
        <3> QED BY <1>4, <3>1 DEF Pushback, CutOff
    <2>2. q[w] \in S /\ q[w].size \in Int
        BY <1>4, ElementOfSeq DEF Sized
    <2>3. r \in Seq(S)
        BY <1>4, RemoveAtProperties
    <2>4. Bytes(r) = Bytes(q) - q[w].size
        BY <1>4, BytesRemoveAt
    <2>5. /\ NodesOf(q) = NodesOf(r) \cup {q[w]}
          /\ KeysDistinct(q) =>
                KeysDistinct(r) /\ \A x \in NodesOf(r) : x.key # q[w].key
        BY <1>4, NodesOfRemoveAt
    <2> HIDE DEF r, w
    <2>6. Append(r, q[w]) \in Seq(S)
        BY <2>2, <2>3, AppendProperties
    <2>7. Bytes(Append(r, q[w])) = Bytes(r) + q[w].size
        BY <2>2, <2>3, BytesAppend
    <2>8. /\ NodesOf(Append(r, q[w])) = NodesOf(r) \cup {q[w]}
          /\ KeysDistinct(r) /\ (\A y \in NodesOf(r) : y.key # q[w].key)
                => KeysDistinct(Append(r, q[w]))
        BY <2>2, <2>3, NodesOfAppend
    <2>9. Bytes(q) = Bytes(Append(r, q[w])) + 0
        BY <1>1, <2>2, <2>4, <2>7
    <2> QED BY <2>1, <2>5, <2>6, <2>8, <2>9, <1>1, EmptyChain
<1>5. w = 0 \/ w \in 1 .. Len(q)
    BY WalkToProperties
<1> QED BY <1>2, <1>3, <1>4, <1>5

-----------------------------------------------------------------------------
(* Machine integers *)

LEMMA SIntSized == SInt \subseteq Int /\ UInt \subseteq Nat /\ 0 \in SInt /\ 0 \in UInt
BY SignBitAssumption DEF SInt, UInt

LEMMA MachineIntTypes ==
    /\ \A u \in UInt : AsInt(u) \in SInt
    /\ \A i \in SInt : AsUInt(i) \in UInt
    /\ \A a, b \in UInt : PlusU(a, b) \in UInt /\ MinusU(a, b) \in UInt
<1>1. ASSUME NEW u \in UInt PROVE AsInt(u) \in SInt
    BY SignBitAssumption DEF SInt, UInt, AsInt
<1>2. ASSUME NEW i \in SInt PROVE AsUInt(i) \in UInt
    BY SignBitAssumption DEF SInt, UInt, AsUInt
<1>3. ASSUME NEW a \in UInt, NEW b \in UInt
      PROVE PlusU(a, b) \in UInt /\ MinusU(a, b) \in UInt
    BY SignBitAssumption DEF UInt, PlusU, MinusU
<1> QED BY <1>1, <1>2, <1>3

\* Sizes in a chain are machine integers whatever the chain went through.
LEMMA ChainTypes ==
    ASSUME NEW K, NEW q \in Seq([key : K, size : SInt]), NEW k
    PROVE  /\ Rem(q, k) \in Seq([key : K, size : SInt])
           /\ SizeIn(q, k) \in SInt
           /\ q # <<>> => /\ Pushback(q, k) \in Seq([key : K, size : SInt])
                          /\ CutOff(q, k) \in Seq([key : K, size : SInt])
           /\ \A u \in UInt : k \in K => Enqueue(q, k, u) \in Seq([key : K, size : SInt])
<1> DEFINE S == [key : K, size : SInt]
<1>0. Sized(S) /\ \A x \in S : x.size \in SInt
    BY SIntSized DEF Sized
<1>4. ASSUME NEW u \in UInt, k \in K PROVE Enqueue(q, k, u) \in Seq(S)
    <2>1. [key |-> k, size |-> AsInt(u)] \in S
        BY <1>4, MachineIntTypes
    <2> QED BY <2>1, AppendProperties DEF Enqueue
<1>5. q \in Seq(S)
    OBVIOUS
<1> HIDE DEF S
<1>1. Rem(q, k) \in Seq(S)
    BY <1>0, <1>5, RemProperties
<1>2. SizeIn(q, k) \in SInt
    <2>1. \A i \in 1 .. Len(q) : q[i].size \in SInt
        BY <1>0, <1>5, ElementOfSeq
    <2>2. \/ SizeIn(q, k) = 0
          \/ \E i \in 1 .. Len(q) : q[i].key = k /\ SizeIn(q, k) = q[i].size
        BY <1>5, SizeInProperties
    <2> QED BY <2>1, <2>2, SIntSized, Zenon
<1>3. q # <<>> => Pushback(q, k) \in Seq(S) /\ CutOff(q, k) \in Seq(S)
    BY <1>0, <1>5, PushbackProperties
<1> QED BY <1>1, <1>2, <1>3, <1>4 DEF S
=============================================================================
