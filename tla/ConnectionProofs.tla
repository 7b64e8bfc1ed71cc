-------------------------- MODULE ConnectionProofs --------------------------
(***************************************************************************)
(* First the timer queue of a worker, which keeps the deadlines of         *)
(* Deadlines for any number of connections, any width of the ints and      *)
(* however often step_ has wrapped.  Two facts carry that proof.  The key  *)
(* of a connection finds the entry that will call it back, so that         *)
(* cancelling empties that entry and no other; and the entries are queued  *)
(* in the order they run out, so that the loop that stops at the first     *)
(* entry not yet due misses none.                                          *)
(*                                                                         *)
(* Then the connections, for any number of them and whatever their peers   *)
(* send: types; one reader at a time; deadlines of reads (Guarded); and,   *)
(* for a peer that waits for its answers, what is in progress on its       *)
(* connection (Tidy), from which it follows that the answers are in order  *)
(* and that a connection deletes itself only when it is done.              *)
(*                                                                         *)
(* Some of this assumes that no key finds another connection's entry       *)
(* (KeysAreOwn).  The last part proves how long that is so: as long as no  *)
(* key is kept while as many timers are started as an unsigned int can     *)
(* count.                                                                  *)
(***************************************************************************)
EXTENDS Connection, SequenceTheorems, FiniteSetTheorems, TLAPS

Entries == [age : 0 .. Tick, owner : Conns \cup {Null}]

QueueTypes ==
    /\ dq \in Seq(Entries) /\ Len(dq) < 2 * SignBit
    /\ step \in UInt
    /\ key \in [Conns -> UInt \cup {Null}]

TimerInv == QueueTypes /\ KeysFindTimers /\ OldestFirst

-----------------------------------------------------------------------------
(* Arithmetic modulo 2 * SignBit *)

\* A difference is in range.
LEMMA MinusRange ==
    ASSUME NEW k \in UInt, NEW a \in UInt
    PROVE  MinusU(k, a) \in UInt /\ MinusU(k, a) \in Nat
  BY SignBitAssumption DEF UInt, MinusU

\* Adding stays in range, and taking away again gives what was added.
LEMMA PlusMinus ==
    ASSUME NEW a \in UInt, NEW n \in Nat, n < 2 * SignBit
    PROVE  PlusU(a, n) \in UInt /\ MinusU(PlusU(a, n), a) = n
  BY SignBitAssumption DEF UInt, PlusU, MinusU

\* An index counts down with what is popped, as long as it is not popped itself.
LEMMA MinusPlus ==
    ASSUME NEW k \in UInt, NEW a \in UInt, NEW n \in Nat, n <= MinusU(k, a)
    PROVE  MinusU(k, PlusU(a, n)) = MinusU(k, a) - n
  BY SignBitAssumption DEF UInt, PlusU, MinusU

-----------------------------------------------------------------------------
(* What the operations do to each entry *)

\* Cancelling empties at most the one entry its key finds.
LEMMA CancelledEntries ==
    ASSUME TimerInv, NEW c \in Conns
    PROVE  /\ Cancelled(c) \in Seq(Entries) /\ Len(Cancelled(c)) = Len(dq)
           /\ \A i \in 1 .. Len(dq) :
                /\ Cancelled(c)[i].age = dq[i].age
                /\ Cancelled(c)[i].owner \in {dq[i].owner, Null} \ {c}
                /\ KeyIsOwn(c) /\ dq[i].owner # c => Cancelled(c)[i].owner = dq[i].owner
<1> DEFINE n == Len(dq)
           e(i) == IF key[c] # Null /\ i = Index(c) + 1 THEN [dq[i] EXCEPT !.owner = Null] ELSE dq[i]
<1>1. n \in Nat /\ \A i \in 1 .. n : dq[i] \in Entries
  BY ElementOfSeq, LenProperties DEF TimerInv, QueueTypes
<1>2. \A i \in 1 .. n : e(i) \in Entries
  BY <1>1 DEF Entries
<1>3. Cancelled(c) = [i \in 1 .. n |-> e(i)]
  BY DEF Cancelled
<1>4. Cancelled(c) \in Seq(Entries)
  <2>1. [i \in 1 .. n |-> e(i)] \in [1 .. n -> Entries]
    BY <1>2
  <2> QED BY <1>1, <1>3, <2>1, SeqDef
<1>5. Len(Cancelled(c)) = n
  BY <1>1, <1>3
<1>6. ASSUME NEW i \in 1 .. n
      PROVE  /\ e(i).age = dq[i].age
             /\ e(i).owner \in {dq[i].owner, Null} \ {c}
             /\ KeyIsOwn(c) /\ dq[i].owner # c => e(i).owner = dq[i].owner
  <2>1. dq[i].owner = c => key[c] # Null /\ i = Index(c) + 1
    <3>1. dq[i].owner = c => key[c] # Null /\ Index(c) = i - 1
      BY DEF TimerInv, KeysFindTimers
    <3> QED BY <1>1, <3>1
  <2>2. CASE key[c] # Null /\ i = Index(c) + 1
    <3>1. e(i).age = dq[i].age /\ e(i).owner = Null
      BY <1>1, <2>2 DEF Entries
    <3>2. KeyIsOwn(c) => dq[i].owner \in {c, Null}
      <4>1. Index(c) \in Int
        <5>1. key[c] \in UInt /\ step \in UInt
          BY <2>2 DEF TimerInv, QueueTypes
        <5> QED BY <5>1, MinusRange DEF Index
      <4>2. Index(c) < n
        BY <1>1, <2>2, <4>1
      <4> QED BY <2>2, <4>2 DEF KeyIsOwn
    <3>3. c # Null
      BY TimerAssumption
    <3> QED BY <3>1, <3>2, <3>3
  <2>3. CASE ~ (key[c] # Null /\ i = Index(c) + 1)
    BY <1>1, <2>1, <2>3
  <2> QED BY <2>2, <2>3
<1> QED BY <1>3, <1>4, <1>5, <1>6

\* Popping shifts the others to the front.
LEMMA PoppedEntries ==
    ASSUME TimerInv, NEW n \in 0 .. Len(dq), Pop(n)
    PROVE  /\ dq' \in Seq(Entries) /\ Len(dq') = Len(dq) - n
           /\ \A i \in 1 .. Len(dq') : i + n \in 1 .. Len(dq) /\ dq'[i] = dq[i + n]
<1>1. Len(dq) \in Nat /\ \A i \in 1 .. Len(dq) : dq[i] \in Entries
  BY ElementOfSeq, LenProperties DEF TimerInv, QueueTypes
<1>2. dq' = SubSeq(dq, n + 1, Len(dq))
  BY DEF Pop
<1>3. \A i \in n + 1 .. Len(dq) : dq[i] \in Entries
  BY <1>1
<1>4. n + 1 \in Int /\ Len(dq) \in Int
  BY <1>1
<1>5. /\ dq' \in Seq(Entries)
      /\ Len(dq') = IF n + 1 <= Len(dq) THEN Len(dq) - (n + 1) + 1 ELSE 0
      /\ \A i \in 1 .. Len(dq) - (n + 1) + 1 : dq'[i] = dq[n + 1 + i - 1]
  BY <1>2, <1>3, <1>4, SubSeqProperties
<1>6. Len(dq') = Len(dq) - n
  BY <1>1, <1>5
<1>7. ASSUME NEW i \in 1 .. Len(dq')
      PROVE  i + n \in 1 .. Len(dq) /\ dq'[i] = dq[i + n]
  <2>1. i \in 1 .. Len(dq) - (n + 1) + 1 /\ n + 1 + i - 1 = i + n /\ i + n \in 1 .. Len(dq)
    BY <1>1, <1>6
  <2> QED BY <1>5, <2>1
<1> QED BY <1>5, <1>6, <1>7

\* Setting a deadline appends an entry.
LEMMA StartedEntries ==
    ASSUME TimerInv, NEW c \in Conns, StartTimer(c)
    PROVE  /\ dq' \in Seq(Entries) /\ Len(dq') = Len(dq) + 1 /\ Len(dq') < 2 * SignBit
           /\ \A i \in 1 .. Len(dq) : dq'[i] = Cancelled(c)[i]
           /\ dq'[Len(dq) + 1].age = 0 /\ dq'[Len(dq) + 1].owner = c
<1>1. Cancelled(c) \in Seq(Entries) /\ Len(Cancelled(c)) = Len(dq)
  BY CancelledEntries
<1>2. [age |-> 0, owner |-> c] \in Entries
  BY TimerAssumption DEF Entries
<1>3. dq' = Append(Cancelled(c), [age |-> 0, owner |-> c])
  BY DEF StartTimer
<1>4. Len(dq) \in Nat
  BY LenProperties DEF TimerInv, QueueTypes
<1>5. Len(dq) + 1 < 2 * SignBit
  BY DEF StartTimer
<1>6. dq'[Len(dq) + 1] = [age |-> 0, owner |-> c]
  BY <1>1, <1>2, <1>3, <1>4
<1>7. dq'[Len(dq) + 1].age = 0 /\ dq'[Len(dq) + 1].owner = c
  BY <1>6
<1> QED BY <1>1, <1>2, <1>3, <1>4, <1>5, <1>7

\* Time changes no owner.
LEMMA AgedEntries ==
    ASSUME TimerInv, Age
    PROVE  /\ dq' \in Seq(Entries) /\ Len(dq') = Len(dq)
           /\ \A i \in 1 .. Len(dq) :
                /\ dq'[i].owner = dq[i].owner
                /\ dq'[i].age = IF dq[i].age < Tick THEN dq[i].age + 1 ELSE Tick
<1> DEFINE n == Len(dq)
           e(i) == [dq[i] EXCEPT !.age = IF dq[i].age < Tick THEN dq[i].age + 1 ELSE Tick]
<1>1. n \in Nat /\ \A i \in 1 .. n : dq[i] \in Entries
  BY ElementOfSeq, LenProperties DEF TimerInv, QueueTypes
<1>2. \A i \in 1 .. n :
        /\ e(i) \in Entries
        /\ e(i).owner = dq[i].owner
        /\ e(i).age = IF dq[i].age < Tick THEN dq[i].age + 1 ELSE Tick
  BY <1>1, TimerAssumption DEF Entries
<1>3. dq' = [i \in 1 .. n |-> e(i)]
  BY DEF Age
<1>4. dq' \in Seq(Entries)
  <2>1. dq' \in [1 .. n -> Entries]
    BY <1>2, <1>3
  <2> QED BY <1>1, <2>1, SeqDef
<1>5. Len(dq') = n
  BY <1>1, <1>3
<1> QED BY <1>2, <1>3, <1>4, <1>5

-----------------------------------------------------------------------------
(* The invariant *)

LEMMA TimerInitInv == TimerInit => TimerInv
<1> SUFFICES ASSUME TimerInit PROVE TimerInv
  OBVIOUS
<1>1. dq \in Seq(Entries) /\ Len(dq) = 0
  BY EmptySeq DEF TimerInit
<1>2. QueueTypes
  BY <1>1, SignBitAssumption DEF TimerInit, QueueTypes, UInt
<1> QED BY <1>1, <1>2 DEF TimerInv, KeysFindTimers, OldestFirst

LEMMA CancelTimerInv ==
    ASSUME TimerInv, NEW c \in Conns, CancelTimer(c)
    PROVE  TimerInv'
<1>1. dq' = Cancelled(c) /\ key' = [key EXCEPT ![c] = Null] /\ step' = step
  BY DEF CancelTimer
<1>2. QueueTypes'
  BY <1>1, CancelledEntries DEF TimerInv, QueueTypes
<1>3. KeysFindTimers'
  <2> SUFFICES ASSUME NEW i \in 1 .. Len(dq'), NEW d \in Conns, dq'[i].owner = d
               PROVE  key'[d] # Null /\ Index(d)' = i - 1
    BY DEF KeysFindTimers
  <2>1. i \in 1 .. Len(dq) /\ d # Null
    BY <1>1, CancelledEntries, TimerAssumption
  <2>2. dq[i].owner = d /\ d # c
    BY <1>1, <2>1, CancelledEntries
  <2>3. key'[d] = key[d]
    BY <1>1, <2>2 DEF TimerInv, QueueTypes
  <2> QED BY <1>1, <2>1, <2>2, <2>3 DEF TimerInv, KeysFindTimers, Index
<1>4. OldestFirst'
  BY <1>1, CancelledEntries DEF TimerInv, OldestFirst
<1> QED BY <1>2, <1>3, <1>4 DEF TimerInv

LEMMA StartTimerInv ==
    ASSUME TimerInv, NEW c \in Conns, StartTimer(c)
    PROVE  TimerInv'
<1> DEFINE n == Len(dq)
<1>a. /\ dq' \in Seq(Entries) /\ Len(dq') = n + 1 /\ Len(dq') < 2 * SignBit
      /\ \A i \in 1 .. n : dq'[i] = Cancelled(c)[i]
      /\ dq'[n + 1].age = 0 /\ dq'[n + 1].owner = c
  BY StartedEntries, Zenon
<1>b. \A i \in 1 .. n :
        /\ Cancelled(c)[i].age = dq[i].age
        /\ Cancelled(c)[i].owner \in {dq[i].owner, Null} \ {c}
  BY CancelledEntries
<1>c. \A i \in 1 .. n : dq[i].age \in 0 .. Tick
  <2>1. \A i \in 1 .. n : dq[i] \in Entries
    BY ElementOfSeq DEF TimerInv, QueueTypes
  <2> QED BY <2>1 DEF Entries
<1>1. key' = [key EXCEPT ![c] = PlusU(step, n)] /\ step' = step
  BY DEF StartTimer
<1>2. /\ n \in Nat /\ n < 2 * SignBit /\ step \in UInt /\ key \in [Conns -> UInt \cup {Null}]
  BY LenProperties DEF TimerInv, QueueTypes
<1>3. PlusU(step, n) \in UInt /\ MinusU(PlusU(step, n), step) = n
  BY <1>2, PlusMinus
<1>4. QueueTypes'
  BY <1>1, <1>2, <1>3, <1>a DEF QueueTypes
<1>5. KeysFindTimers'
  <2> SUFFICES ASSUME NEW i \in 1 .. Len(dq'), NEW d \in Conns, dq'[i].owner = d
               PROVE  key'[d] # Null /\ Index(d)' = i - 1
    BY DEF KeysFindTimers
  <2>1. CASE i = n + 1
    <3>1. d = c /\ i - 1 = n
      BY <1>a, <1>2, <2>1
    <3>2. key'[c] = PlusU(step, n)
      BY <1>1, <1>2
    <3>3. Null \notin UInt
      BY TimerAssumption, SignBitAssumption DEF UInt
    <3> QED BY <1>1, <1>3, <3>1, <3>2, <3>3 DEF Index
  <2>2. CASE i # n + 1
    <3>1. i \in 1 .. n
      BY <1>a, <1>2, <2>2
    <3>2. dq[i].owner = d /\ d # c
      BY <1>a, <1>b, <3>1, TimerAssumption
    <3>3. key'[d] = key[d]
      BY <1>1, <1>2, <3>2
    <3> QED BY <1>1, <3>1, <3>2, <3>3 DEF TimerInv, KeysFindTimers, Index
  <2> QED BY <2>1, <2>2
<1>6. OldestFirst'
  <2> SUFFICES ASSUME NEW i \in 1 .. Len(dq'), NEW j \in 1 .. Len(dq'), i < j
               PROVE  dq'[i].age >= dq'[j].age
    BY DEF OldestFirst
  <2>1. i \in 1 .. n
    BY <1>a, <1>2
  <2>2. dq'[i].age = dq[i].age /\ dq[i].age \in Nat
    BY <1>a, <1>b, <1>c, <2>1, TimerAssumption
  <2>3. CASE j = n + 1
    <3>1. dq'[j].age = 0
      BY <1>a, <2>3
    <3> QED BY <2>2, <3>1
  <2>4. CASE j # n + 1
    <3>1. j \in 1 .. n
      BY <1>a, <1>2, <2>4
    <3>2. dq'[j].age = dq[j].age
      BY <1>a, <1>b, <3>1
    <3> QED BY <2>1, <2>2, <3>1, <3>2 DEF TimerInv, OldestFirst
  <2> QED BY <2>3, <2>4
<1> QED BY <1>4, <1>5, <1>6 DEF TimerInv

LEMMA PopInv ==
    ASSUME TimerInv, NEW n \in 0 .. Len(dq), Pop(n)
    PROVE  TimerInv'
<1>1. key' = key /\ step' = PlusU(step, n)
  BY DEF Pop
<1>2. /\ Len(dq) \in Nat /\ Len(dq) < 2 * SignBit /\ step \in UInt
      /\ key \in [Conns -> UInt \cup {Null}]
  BY LenProperties DEF TimerInv, QueueTypes
<1>3. QueueTypes'
  <2>1. n \in Nat /\ n < 2 * SignBit
    BY <1>2, SignBitAssumption
  <2>2. step' \in UInt
    BY <1>1, <1>2, <2>1, PlusMinus
  <2>3. Len(dq') < 2 * SignBit
    BY <1>2, PoppedEntries, SignBitAssumption
  <2> QED BY <1>1, <1>2, <2>2, <2>3, PoppedEntries DEF QueueTypes
<1>4. KeysFindTimers'
  <2> SUFFICES ASSUME NEW i \in 1 .. Len(dq'), NEW d \in Conns, dq'[i].owner = d
               PROVE  key'[d] # Null /\ Index(d)' = i - 1
    BY DEF KeysFindTimers
  <2>1. i \in Nat /\ i >= 1 /\ i + n \in 1 .. Len(dq) /\ dq[i + n].owner = d
    BY PoppedEntries
  <2>2. key[d] # Null /\ MinusU(key[d], step) = i + n - 1
    BY <2>1 DEF TimerInv, KeysFindTimers, Index
  <2>3. key[d] \in UInt /\ n \in Nat /\ n <= MinusU(key[d], step)
    BY <1>2, <2>1, <2>2
  <2>4. MinusU(key[d], PlusU(step, n)) = MinusU(key[d], step) - n
    BY <1>2, <2>3, MinusPlus
  <2> QED BY <1>1, <2>1, <2>2, <2>3, <2>4 DEF Index
<1>5. OldestFirst'
  <2> SUFFICES ASSUME NEW i \in 1 .. Len(dq'), NEW j \in 1 .. Len(dq'), i < j
               PROVE  dq'[i].age >= dq'[j].age
    BY DEF OldestFirst
  <2>1. i + n \in 1 .. Len(dq) /\ j + n \in 1 .. Len(dq) /\ i + n < j + n
    BY PoppedEntries
  <2> QED BY <2>1, PoppedEntries DEF TimerInv, OldestFirst
<1> QED BY <1>3, <1>4, <1>5 DEF TimerInv

LEMMA AgeInv ==
    ASSUME TimerInv, Age
    PROVE  TimerInv'
<1>1. key' = key /\ step' = step
  BY DEF Age
<1>2. QueueTypes'
  BY <1>1, AgedEntries DEF TimerInv, QueueTypes
<1>3. KeysFindTimers'
  BY <1>1, AgedEntries DEF TimerInv, KeysFindTimers, Index
<1>4. OldestFirst'
  <2> SUFFICES ASSUME NEW i \in 1 .. Len(dq'), NEW j \in 1 .. Len(dq'), i < j
               PROVE  dq'[i].age >= dq'[j].age
    BY DEF OldestFirst
  <2>1. i \in 1 .. Len(dq) /\ j \in 1 .. Len(dq) /\ dq[i].age >= dq[j].age
    BY AgedEntries DEF TimerInv, OldestFirst
  <2>a. \A k \in 1 .. Len(dq) : dq[k] \in Entries
    BY ElementOfSeq DEF TimerInv, QueueTypes
  <2>2. dq[i].age \in 0 .. Tick /\ dq[j].age \in 0 .. Tick
    BY <2>1, <2>a DEF Entries
  <2>3. ASSUME NEW a \in 0 .. Tick, NEW b \in 0 .. Tick, a >= b
        PROVE  (IF a < Tick THEN a + 1 ELSE Tick) >= (IF b < Tick THEN b + 1 ELSE Tick)
    BY <2>3, TimerAssumption
  <2> QED BY <2>1, <2>2, <2>3, AgedEntries
<1> QED BY <1>2, <1>3, <1>4 DEF TimerInv

LEMMA TimerStepInv == TimerInv /\ [TimerNext]_timerVars => TimerInv'
<1> SUFFICES ASSUME TimerInv, [TimerNext]_timerVars PROVE TimerInv'
  OBVIOUS
<1>1. CASE UNCHANGED timerVars
  BY <1>1 DEF timerVars, TimerInv, QueueTypes, KeysFindTimers, Index, OldestFirst
<1>2. CASE TimerNext
  BY <1>2, CancelTimerInv, StartTimerInv, PopInv, AgeInv DEF TimerNext
<1> QED BY <1>1, <1>2

\* Every key finds its entry, and the entries run out in order.
THEOREM TimersFound == TimerSpec => [](KeysFindTimers /\ OldestFirst)
<1>1. TimerInv => KeysFindTimers /\ OldestFirst
  BY DEF TimerInv
<1> QED BY <1>1, TimerInitInv, TimerStepInv, PTL DEF TimerSpec

-----------------------------------------------------------------------------
(* The refinement *)

AgesFound ==
    \A c \in Conns :
        /\ \A i \in 1 .. Len(dq) : dq[i].owner = c => AgeOf(c) = dq[i].age
        /\ (\A i \in 1 .. Len(dq) : dq[i].owner # c) => AgeOf(c) = Null

\* A connection has at most one entry, because its key finds every one.
LEMMA OneEntry == TimerInv => AgesFound
<1> SUFFICES ASSUME TimerInv, NEW c \in Conns, NEW i \in 1 .. Len(dq), dq[i].owner = c
             PROVE  AgeOf(c) = dq[i].age
  BY DEF AgesFound, AgeOf
<1>1. PICK j \in 1 .. Len(dq) : dq[j].owner = c /\ AgeOf(c) = dq[j].age
  BY DEF AgeOf
<1>2. i - 1 = j - 1
  BY <1>1 DEF TimerInv, KeysFindTimers
<1> QED BY <1>1, <1>2

LEMMA OneEntryNext == TimerInv' => AgesFound'
  BY OneEntry, PTL

Ages == [c \in Conns |-> AgeOf(c)]

LEMMA CancelRefines ==
    ASSUME TimerInv, TimerInv', NEW c \in Conns, KeyIsOwn(c), CancelTimer(c)
    PROVE  ADeadlines!CallOff(c)
<1>1. AgesFound /\ AgesFound'
  BY OneEntry, OneEntryNext
<1>2. /\ dq' = Cancelled(c) /\ Len(dq') = Len(dq)
      /\ \A i \in 1 .. Len(dq) : dq'[i].age = dq[i].age /\ dq'[i].owner # c
  BY CancelledEntries DEF CancelTimer
<1>3. \A i \in 1 .. Len(dq) : dq[i].owner # c => dq'[i].owner = dq[i].owner
  BY <1>2, CancelledEntries
<1>4. AgeOf(c)' = Null
  BY <1>1, <1>2 DEF AgesFound
<1>5. ASSUME NEW d \in Conns, d # c
      PROVE  AgeOf(d)' = AgeOf(d)
  <2>1. CASE \E i \in 1 .. Len(dq) : dq[i].owner = d
    BY <1>1, <1>2, <1>3, <1>5, <2>1 DEF AgesFound
  <2>2. CASE \A i \in 1 .. Len(dq) : dq[i].owner # d
    <3>1. \A i \in 1 .. Len(dq) : dq'[i].owner # d
      BY <2>2, <1>2, CancelledEntries, TimerAssumption
    <3> QED BY <1>1, <1>2, <2>2, <3>1 DEF AgesFound
  <2> QED BY <2>1, <2>2
<1> QED BY <1>4, <1>5 DEF ADeadlines!CallOff

LEMMA StartRefines ==
    ASSUME TimerInv, TimerInv', NEW c \in Conns, KeyIsOwn(c), StartTimer(c)
    PROVE  ADeadlines!Set(c)
<1> DEFINE n == Len(dq)
<1>1. AgesFound /\ AgesFound' /\ n \in Nat
  BY OneEntry, OneEntryNext, LenProperties DEF TimerInv, QueueTypes
<1>2. /\ Len(dq') = n + 1 /\ dq'[n + 1].age = 0 /\ dq'[n + 1].owner = c
      /\ \A i \in 1 .. n : dq'[i] = Cancelled(c)[i]
  BY StartedEntries, Zenon
<1>3. \A i \in 1 .. n :
        /\ Cancelled(c)[i].age = dq[i].age
        /\ Cancelled(c)[i].owner \in {dq[i].owner, Null} \ {c}
        /\ dq[i].owner # c => Cancelled(c)[i].owner = dq[i].owner
  BY CancelledEntries
<1>4. AgeOf(c)' = 0
  BY <1>1, <1>2 DEF AgesFound
<1>5. ASSUME NEW d \in Conns, d # c
      PROVE  AgeOf(d)' = AgeOf(d)
  <2>1. CASE \E i \in 1 .. n : dq[i].owner = d
    BY <1>1, <1>2, <1>3, <1>5, <2>1 DEF AgesFound
  <2>2. CASE \A i \in 1 .. n : dq[i].owner # d
    <3>1. \A i \in 1 .. n + 1 : dq'[i].owner # d
      BY <1>1, <1>2, <1>3, <1>5, <2>2, TimerAssumption
    <3> QED BY <1>1, <1>2, <2>2, <3>1 DEF AgesFound
  <2> QED BY <2>1, <2>2
<1> QED BY <1>4, <1>5 DEF ADeadlines!Set

LEMMA PopRefines ==
    ASSUME TimerInv, TimerInv', NEW n \in 0 .. Len(dq), DueCount(n), Pop(n)
    PROVE  ADeadlines!Expire
<1>1. AgesFound /\ AgesFound' /\ Len(dq) \in Nat
  BY OneEntry, OneEntryNext, LenProperties DEF TimerInv, QueueTypes
<1>2. /\ Len(dq') = Len(dq) - n
      /\ \A i \in 1 .. Len(dq') : i + n \in 1 .. Len(dq) /\ dq'[i] = dq[i + n]
  BY PoppedEntries, Zenon
<1>3. \A i \in 1 .. Len(dq) : dq[i].age \in Nat
  <2>1. \A i \in 1 .. Len(dq) : dq[i] \in Entries
    BY ElementOfSeq DEF TimerInv, QueueTypes
  <2> QED BY <2>1, TimerAssumption DEF Entries
<1>4. \A i \in 1 .. Len(dq) : dq[i].age >= Tick <=> i <= n
  <2> SUFFICES ASSUME NEW i \in 1 .. Len(dq) PROVE dq[i].age >= Tick <=> i <= n
    OBVIOUS
  <2>1. CASE i <= n
    BY <2>1 DEF DueCount
  <2>2. CASE i > n
    <3>1. n + 1 \in 1 .. Len(dq) /\ dq[n + 1].age < Tick
      BY <1>1, <2>2 DEF DueCount
    <3>2. dq[n + 1].age >= dq[i].age
      BY <1>3, <2>2, <3>1 DEF TimerInv, OldestFirst
    <3> QED BY <1>3, <2>2, <3>1, <3>2, TimerAssumption
  <2> QED BY <1>1, <2>1, <2>2
<1>5. ASSUME NEW c \in Conns
      PROVE  AgeOf(c)' = IF AgeOf(c) # Null /\ AgeOf(c) >= Tick THEN Null ELSE AgeOf(c)
  <2>1. CASE \A i \in 1 .. Len(dq) : dq[i].owner # c
    <3>1. \A i \in 1 .. Len(dq') : dq'[i].owner # c
      BY <1>2, <2>1
    <3>2. AgeOf(c)' = Null
      BY <1>1, <3>1 DEF AgesFound
    <3>3. AgeOf(c) = Null
      BY <1>1, <2>1 DEF AgesFound
    <3> QED BY <3>2, <3>3
  <2>2. ASSUME NEW i \in 1 .. Len(dq), dq[i].owner = c PROVE <1>5!2
    <3>1. AgeOf(c) = dq[i].age /\ AgeOf(c) # Null
      BY <1>1, <1>3, <2>2, TimerAssumption DEF AgesFound
    <3>2. \A j \in 1 .. Len(dq) : dq[j].owner = c => j = i
      BY <2>2 DEF TimerInv, KeysFindTimers
    <3>3. CASE i <= n
      <4>1. \A j \in 1 .. Len(dq') : dq'[j].owner # c
        BY <1>1, <1>2, <3>2, <3>3
      <4> QED BY <1>1, <1>4, <3>1, <3>3, <4>1 DEF AgesFound
    <3>4. CASE i > n
      <4>1. i - n \in 1 .. Len(dq') /\ i - n + n = i
        BY <1>1, <1>2, <3>4
      <4>2. AgeOf(c)' = dq[i].age
        BY <1>1, <1>2, <2>2, <4>1 DEF AgesFound
      <4> QED BY <1>4, <3>1, <3>4, <4>2
    <3> QED BY <3>3, <3>4
  <2> QED BY <2>1, <2>2
<1> QED BY <1>5 DEF ADeadlines!Expire, ADeadlines!Due

LEMMA AgeRefines ==
    ASSUME TimerInv, TimerInv', Age
    PROVE  ADeadlines!Elapse
<1>1. AgesFound /\ AgesFound'
  BY OneEntry, OneEntryNext
<1>2. /\ Len(dq') = Len(dq)
      /\ \A i \in 1 .. Len(dq) :
            /\ dq'[i].owner = dq[i].owner
            /\ dq'[i].age = IF dq[i].age < Tick THEN dq[i].age + 1 ELSE Tick
  BY AgedEntries, Zenon
<1>3. \A i \in 1 .. Len(dq) : dq[i].age # Null
  <2>1. \A i \in 1 .. Len(dq) : dq[i] \in Entries
    BY ElementOfSeq DEF TimerInv, QueueTypes
  <2> QED BY <2>1, TimerAssumption DEF Entries
<1>4. ASSUME NEW c \in Conns
      PROVE  AgeOf(c)' = IF AgeOf(c) = Null THEN Null ELSE ADeadlines!Older(AgeOf(c))
  <2>1. CASE \A i \in 1 .. Len(dq) : dq[i].owner # c
    BY <1>1, <1>2, <2>1 DEF AgesFound
  <2>2. ASSUME NEW i \in 1 .. Len(dq), dq[i].owner = c PROVE <1>4!2
    BY <1>1, <1>2, <1>3, <2>2 DEF AgesFound, ADeadlines!Older
  <2> QED BY <2>1, <2>2
<1> QED BY <1>4 DEF ADeadlines!Elapse

\* Only a deadline that is called back is lost when entries are popped.
LEMMA PopKeepsOthers ==
    ASSUME TimerInv, TimerInv', NEW n \in 0 .. Len(dq), Pop(n), NEW c \in Conns, c \notin Fired(n)
    PROVE  AgeOf(c)' = AgeOf(c)
<1>1. AgesFound /\ AgesFound' /\ Len(dq) \in Nat
  BY OneEntry, OneEntryNext, LenProperties DEF TimerInv, QueueTypes
<1>2. /\ Len(dq') = Len(dq) - n
      /\ \A i \in 1 .. Len(dq') : i + n \in 1 .. Len(dq) /\ dq'[i] = dq[i + n]
  BY PoppedEntries, Zenon
<1>3. CASE \A i \in 1 .. Len(dq) : dq[i].owner # c
  <2>1. \A i \in 1 .. Len(dq') : dq'[i].owner # c
    BY <1>2, <1>3
  <2>2. AgeOf(c)' = Null
    BY <1>1, <2>1 DEF AgesFound
  <2>3. AgeOf(c) = Null
    BY <1>1, <1>3 DEF AgesFound
  <2> QED BY <2>2, <2>3
<1>4. ASSUME NEW i \in 1 .. Len(dq), dq[i].owner = c PROVE AgeOf(c)' = AgeOf(c)
  <2>1. i > n
    <3>1. c # Null
      BY TimerAssumption
    <3> QED BY <1>1, <1>4, <3>1 DEF Fired
  <2>2. i - n \in 1 .. Len(dq') /\ i - n + n = i
    BY <1>1, <1>2, <2>1
  <2>3. AgeOf(c)' = dq[i].age
    <3>1. dq'[i - n] = dq[i]
      BY <1>2, <2>2
    <3> QED BY <1>1, <1>4, <2>2, <3>1 DEF AgesFound
  <2>4. AgeOf(c) = dq[i].age
    BY <1>1, <1>4 DEF AgesFound
  <2> QED BY <2>3, <2>4
<1> QED BY <1>3, <1>4

\* Who is called back had a deadline.
LEMMA FiredHadDeadline ==
    ASSUME TimerInv, NEW n \in 0 .. Len(dq), NEW c \in Conns, c \in Fired(n)
    PROVE  AgeOf(c) # Null
<1>1. PICK i \in 1 .. n : dq[i].owner = c
  BY DEF Fired
<1>2. i \in 1 .. Len(dq)
  BY <1>1, LenProperties DEF TimerInv, QueueTypes
<1>3. dq[i] \in Entries
  BY <1>2, ElementOfSeq DEF TimerInv, QueueTypes
<1>4. AgeOf(c) = dq[i].age
  BY <1>1, <1>2, OneEntry DEF AgesFound
<1> QED BY <1>3, <1>4, TimerAssumption DEF Entries

LEMMA InitRefines == TimerInit => ADeadlines!Init
  BY DEF TimerInit, AgeOf, ADeadlines!Init

LEMMA StepRefines ==
    ASSUME TimerInv, KeysAreOwn, [TimerNext]_timerVars
    PROVE  [ADeadlines!Next]_Ages
<1>1. CASE UNCHANGED timerVars
  BY <1>1 DEF timerVars, Ages, AgeOf
<1>2. CASE TimerNext
  <2>1. TimerInv'
    BY <1>2, TimerStepInv
  <2> QED BY <1>2, <2>1, CancelRefines, StartRefines, PopRefines, AgeRefines
          DEF TimerNext, KeysAreOwn, ADeadlines!Next
<1> QED BY <1>1, <1>2

\* The queue implements one deadline for each connection, as long as no key that
\* was kept past its entry comes to find another's.
THEOREM TimersRefine == TimerSpec /\ []KeysAreOwn => ADeadlines!Spec
<1>1. TimerInit => TimerInv /\ ADeadlines!Init
  BY TimerInitInv, InitRefines
<1>2. TimerInv /\ KeysAreOwn /\ [TimerNext]_timerVars
        => TimerInv' /\ [ADeadlines!Next]_Ages
  BY TimerStepInv, StepRefines
<1> QED BY <1>1, <1>2, PTL DEF TimerSpec, ADeadlines!Spec, Ages

-----------------------------------------------------------------------------
(* The state of the connections. *)

Operations ==
    [op : {"tick"}, conn : {Null}, ok : BOOLEAN, data : Seq(Tokens)] \cup
    [op : {"start", "read", "write"}, conn : Conns, ok : BOOLEAN, data : Seq(Tokens)]

Responses == [by : Nat, completed : BOOLEAN]
Writes == [by : Nat, torn : BOOLEAN]

Objects ==
    [obj : {"none", "alive", "deleted"}, open : BOOLEAN, reading : BOOLEAN, writing : BOOLEAN,
     closing : BOOLEAN, parsing : {"message", "body", "dead"}, count : Nat, res : Responses,
     threw : BOOLEAN]

Sockets ==
    [peer : {"none", "connected", "finished", "reset"}, left : Int, inbox : Seq(Tokens),
     awaiting : BOOLEAN, hasty : BOOLEAN, read : BOOLEAN, writes : Seq(Writes),
     answers : Seq(Writes)]

Types ==
    /\ conn \in [Conns -> Objects]
    /\ net \in [Conns -> Sockets]
    /\ ready \in Seq(Operations)
    /\ busy \in [conn : Conns \cup {Null}, todo : Seq(Tokens), ok : BOOLEAN]
    /\ busy.conn = Null => busy = Idle
    /\ fault \in {"none", "use_after_delete"}

-----------------------------------------------------------------------------
(* Types *)

LEMMA InitTypes == Init => Types
<1> SUFFICES ASSUME Init PROVE Types
  OBVIOUS
<1>1. conn \in [Conns -> Objects]
  BY DEF Init, Objects, Empty, Responses
<1>2. net \in [Conns -> Sockets]
  <2>1. PICK budget \in Budgets : net = [c \in Conns |->
        [peer |-> "none", left |-> budget[c], inbox |-> <<>>, awaiting |-> FALSE, hasty |-> FALSE,
         read |-> FALSE, writes |-> <<>>, answers |-> <<>>]]
    BY DEF Init
  <2>2. budget \in [Conns -> Nat]
    BY BudgetsAssumption
  <2>3. <<>> \in Seq(Tokens) /\ <<>> \in Seq(Writes)
    OBVIOUS
  <2> QED BY <2>1, <2>2, <2>3 DEF Sockets
<1>3. ready \in Seq(Operations) /\ busy = Idle /\ fault = "none"
  BY DEF Init
<1>4. Idle \in [conn : Conns \cup {Null}, todo : Seq(Tokens), ok : BOOLEAN]
  BY DEF Idle
<1> QED BY <1>1, <1>2, <1>3, <1>4 DEF Types

\* What completes is an operation.
LEMMA DoneType ==
    ASSUME NEW op \in {"start", "read", "write"}, NEW c \in Conns, NEW ok \in BOOLEAN,
           NEW data \in Seq(Tokens)
    PROVE  Done(op, c, ok, data) \in Operations
  BY DEF Done, Operations

LEMMA ReadyAppend ==
    ASSUME NEW r \in Seq(Operations), NEW x \in Operations
    PROVE  /\ Append(r, x) \in Seq(Operations) /\ Len(r) \in Nat
           /\ Len(Append(r, x)) = Len(r) + 1
           /\ \A i \in 1 .. Len(r) : Append(r, x)[i] = r[i]
           /\ Append(r, x)[Len(r) + 1] = x
  OBVIOUS

LEMMA TailReady ==
    ASSUME NEW r \in Seq(Operations), r # <<>>
    PROVE  /\ Head(r) = r[1] /\ Head(r) \in Operations /\ 1 \in 1 .. Len(r)
           /\ Tail(r) \in Seq(Operations) /\ Len(r) \in Nat /\ Len(Tail(r)) = Len(r) - 1
           /\ \A i \in 1 .. Len(Tail(r)) : i + 1 \in 1 .. Len(r) /\ Tail(r)[i] = r[i + 1]
<1>1. /\ Head(r) \in Operations /\ Tail(r) \in Seq(Operations) /\ Len(Tail(r)) = Len(r) - 1
      /\ \A i \in 1 .. Len(Tail(r)) : Tail(r)[i] = r[i + 1]
  BY HeadTailProperties
<1>2. Len(r) \in Nat \ {0} /\ Head(r) = r[1]
  BY EmptySeq
<1> QED BY <1>1, <1>2

LEMMA AcceptTypes == ASSUME Types, NEW c \in Conns, Accept(c) PROVE Types'
<1>1. conn'\in [Conns -> Objects]
  BY DEF Types, Accept, Objects
<1>2. net' \in [Conns -> Sockets]
  <2>1. net[c] \in Sockets
    BY DEF Types
  <2>2. net'[c].left \in Int
    BY <2>1 DEF Types, Accept, Sockets
  <2>3. net'[c] \in Sockets
    BY <2>1, <2>2 DEF Types, Accept, Sockets
  <2> QED BY <2>3 DEF Types, Accept
<1>3. ready' \in Seq(Operations)
  <2>1. <<>> \in Seq(Tokens)
    OBVIOUS
  <2> QED BY <2>1, DoneType, ReadyAppend DEF Types, Accept
<1> QED BY <1>1, <1>2, <1>3 DEF Types, Accept

LEMMA SendTypes == ASSUME Types, NEW c \in Conns, NEW t \in Tokens, Send(c, t) PROVE Types'
<1>1. net[c] \in Sockets
  BY DEF Types
<1>2. net'[c].left \in Int /\ net'[c].inbox \in Seq(Tokens) /\ net'[c].hasty \in BOOLEAN
  BY <1>1 DEF Types, Send, Sockets
<1>3. net'[c] \in Sockets
  BY <1>1, <1>2 DEF Types, Send, Sockets
<1>4. net' \in [Conns -> Sockets]
  BY <1>3 DEF Types, Send
<1> QED BY <1>4 DEF Types, Send, rest

LEMMA LeaveTypes == ASSUME Types, NEW c \in Conns, Leave(c) PROVE Types'
<1>1. net[c] \in Sockets /\ <<>> \in Seq(Tokens)
  BY DEF Types
<1>2. net' \in [Conns -> Sockets]
  <2>1. CASE net' = [net EXCEPT ![c].peer = "finished"]
    BY <1>1, <2>1 DEF Types, Sockets
  <2>2. CASE net' = [net EXCEPT ![c].peer = "reset", ![c].inbox = <<>>]
    <3>1. net'[c].inbox \in Seq(Tokens)
      BY <1>1, <2>2 DEF Types, Sockets
    <3>2. net'[c] \in Sockets
      BY <1>1, <2>2, <3>1 DEF Types, Sockets
    <3> QED BY <2>2, <3>2 DEF Types
  <2> QED BY <2>1, <2>2 DEF Leave
<1> QED BY <1>2 DEF Types, Leave, rest

LEMMA ReadCompletesTypes == ASSUME Types, NEW c \in Conns, ReadCompletes(c) PROVE Types'
<1>1. net[c].inbox \in Seq(Tokens) /\ <<>> \in Seq(Tokens)
  BY DEF Types, Sockets
<1>2. ready' \in Seq(Operations)
  <2>1. PICK ok \in BOOLEAN, data \in Seq(Tokens) :
          ready' = Append(ready, Done("read", c, ok, data))
    BY <1>1 DEF ReadCompletes
  <2>2. Done("read", c, ok, data) \in Operations
    BY DoneType
  <2> QED BY <2>1, <2>2, ReadyAppend DEF Types
<1>3. net' \in [Conns -> Sockets]
  <2>1. net'[c].inbox \in Seq(Tokens) /\ net'[c].read \in BOOLEAN
    BY <1>1 DEF Types, ReadCompletes, Sockets
  <2>2. net'[c] \in Sockets
    BY <2>1 DEF Types, ReadCompletes, Sockets
  <2> QED BY <2>2 DEF Types, ReadCompletes
<1> QED BY <1>2, <1>3 DEF Types, ReadCompletes

\* Removing one of the writes in flight, or tearing them, leaves writes.
LEMMA WritesType ==
    ASSUME Types, NEW c \in Conns
    PROVE  /\ net[c].writes \in Seq(Writes)
           /\ \A i \in 1 .. Len(net[c].writes) :
                net[c].writes[i] \in Writes /\ WithoutWrite(c, i) \in Seq(Writes)
           /\ TornWrites(c) \in Seq(Writes)
<1> DEFINE ws == net[c].writes
           e(i) == [ws[i] EXCEPT !.torn = ws[i].by # 0]
<1>1. ws \in Seq(Writes)
  BY DEF Types, Sockets
<1>2. Len(ws) \in Nat /\ \A i \in 1 .. Len(ws) : ws[i] \in Writes
  BY <1>1, LenProperties, ElementOfSeq
<1>3. ASSUME NEW i \in 1 .. Len(ws)
      PROVE  WithoutWrite(c, i) \in Seq(Writes)
  <2>1. \A j \in 1 .. i - 1 : ws[j] \in Writes
    BY <1>2
  <2>2. \A j \in i + 1 .. Len(ws) : ws[j] \in Writes
    BY <1>2
  <2>3. i - 1 \in Int /\ i + 1 \in Int /\ Len(ws) \in Int /\ 1 \in Int
    BY <1>2
  <2>4. SubSeq(ws, 1, i - 1) \in Seq(Writes)
    BY <2>1, <2>3, SubSeqProperties
  <2>5. SubSeq(ws, i + 1, Len(ws)) \in Seq(Writes)
    BY <2>2, <2>3, SubSeqProperties
  <2> QED BY <2>4, <2>5, ConcatProperties DEF WithoutWrite
<1>4. TornWrites(c) \in Seq(Writes)
  <2>1. \A i \in 1 .. Len(ws) : e(i) \in Writes
    BY <1>2 DEF Writes
  <2>2. TornWrites(c) = [i \in 1 .. Len(ws) |-> e(i)]
    BY DEF TornWrites
  <2>3. TornWrites(c) \in [1 .. Len(ws) -> Writes]
    BY <2>1, <2>2
  <2> QED BY <1>2, <2>3, SeqDef
<1> QED BY <1>1, <1>2, <1>3, <1>4

LEMMA WriteCompletesTypes ==
    ASSUME Types, NEW c \in Conns, NEW i \in 1 .. Len(net[c].writes),
           WriteCompletes(c, i) \/ WriteFails(c, i)
    PROVE  Types'
<1>1. /\ WithoutWrite(c, i) \in Seq(Writes)
      /\ net[c].answers \in Seq(Writes) /\ net[c].writes[i] \in Writes /\ <<>> \in Seq(Tokens)
  BY WritesType DEF Types, Sockets
<1>2. Append(net[c].answers, net[c].writes[i]) \in Seq(Writes)
  BY <1>1
<1>3. ready' \in Seq(Operations)
  <2>1. PICK ok \in BOOLEAN : ready' = Append(ready, Done("write", c, ok, <<>>))
    BY DEF WriteCompletes, WriteFails
  <2>2. Done("write", c, ok, <<>>) \in Operations
    BY <1>1, DoneType
  <2> QED BY <2>1, <2>2, ReadyAppend DEF Types
<1>4. net' \in [Conns -> Sockets]
  <2>1. CASE WriteCompletes(c, i)
    <3>1. net'[c].writes \in Seq(Writes) /\ net'[c].answers \in Seq(Writes)
      BY <1>1, <1>2, <2>1 DEF Types, WriteCompletes, Sockets
    <3>2. net'[c] \in Sockets
      BY <2>1, <3>1 DEF Types, WriteCompletes, Sockets
    <3> QED BY <2>1, <3>2 DEF Types, WriteCompletes
  <2>2. CASE WriteFails(c, i)
    <3>1. net'[c].writes \in Seq(Writes)
      BY <1>1, <2>2 DEF Types, WriteFails, Sockets
    <3>2. net'[c] \in Sockets
      BY <2>2, <3>1 DEF Types, WriteFails, Sockets
    <3> QED BY <2>2, <3>2 DEF Types, WriteFails
  <2> QED BY <2>1, <2>2
<1> QED BY <1>3, <1>4 DEF Types, WriteCompletes, WriteFails

LEMMA ElapseTypes == ASSUME Types, Elapse PROVE Types'
<1>1. Done("tick", Null, TRUE, <<>>) \in Operations
  BY DEF Done, Operations
<1>2. ready' \in Seq(Operations)
  BY <1>1, ReadyAppend DEF Types, Elapse
<1> QED BY <1>2 DEF Types, Elapse

-----------------------------------------------------------------------------
(* The worker *)

\* What a handler takes is the first operation, of a connection.
LEMMA TakesType ==
    ASSUME Types, NEW op \in {"start", "read", "write"}, Takes(op)
    PROVE  /\ Head(ready).conn \in Conns /\ Head(ready).op = op /\ ready # <<>>
           /\ Head(ready).ok \in BOOLEAN /\ Head(ready).data \in Seq(Tokens)
           /\ ready' \in Seq(Operations) /\ busy = Idle
<1>1. ready \in Seq(Operations) /\ ready # <<>> /\ Head(ready).op = op /\ ready' = Tail(ready)
      /\ busy = Idle
  BY DEF Types, Takes
<1>2. Head(ready) \in Operations /\ Tail(ready) \in Seq(Operations)
  BY <1>1, TailReady
<1> QED BY <1>1, <1>2 DEF Operations

LEMMA ReadMoreTypes ==
    ASSUME Types, NEW c \in Conns, ReadMore(c, conn[c])
    PROVE  conn' \in [Conns -> Objects] /\ net' \in [Conns -> Sockets]
<1>1. conn[c] \in Objects /\ net[c] \in Sockets
  BY DEF Types
<1>2. [conn[c] EXCEPT !.reading = TRUE] \in Objects
  BY <1>1 DEF Objects
<1>3. conn' \in [Conns -> Objects]
  BY <1>2 DEF Types, ReadMore, Put
<1>4. net' \in [Conns -> Sockets]
  BY <1>1 DEF Types, ReadMore, Sockets
<1> QED BY <1>3, <1>4

\* check_destroy keeps a connection a connection.
LEMMA CheckDestroyType ==
    ASSUME NEW r \in Objects
    PROVE  CheckDestroy(r) \in Objects
  BY DEF CheckDestroy, Objects

LEMMA ReadErrorTypes ==
    ASSUME Types, NEW c \in Conns, ReadError(c)
    PROVE  conn' \in [Conns -> Objects] /\ net' = net
<1> DEFINE r == [conn[c] EXCEPT !.open = FALSE, !.reading = FALSE]
<1>1. r \in Objects
  BY DEF Types, Objects
<1>2. CheckDestroy(r) \in Objects
  BY <1>1, CheckDestroyType
<1> QED BY <1>2 DEF Types, ReadError, Put

LEMMA StartTypes == ASSUME Types, Start PROVE Types'
<1>1. Takes("start")
  BY DEF Start, OfLiving
<1>2. /\ Head(ready).conn \in Conns /\ ready' \in Seq(Operations)
      /\ ReadMore(Head(ready).conn, conn[Head(ready).conn])
  BY <1>1, TakesType DEF Start
<1> QED BY <1>2, ReadMoreTypes DEF Types, Start, OfLiving

LEMMA ReadTypes == ASSUME Types, Read PROVE Types'
<1> DEFINE c == Head(ready).conn
<1>1. Takes("read")
  BY DEF Read, OfLiving
<1>2. c \in Conns /\ ready' \in Seq(Operations) /\ Head(ready).data \in Seq(Tokens) /\ c # Null
  BY <1>1, TakesType, TimerAssumption
<1>3. CASE Head(ready).ok
  <2>1. busy' = [conn |-> c, todo |-> Head(ready).data, ok |-> TRUE]
        /\ conn' = conn /\ net' = net /\ fault' = fault
    BY <1>3 DEF Read, OfLiving
  <2>2. busy' \in [conn : Conns \cup {Null}, todo : Seq(Tokens), ok : BOOLEAN] /\ busy'.conn # Null
    BY <1>2, <2>1
  <2> QED BY <1>2, <2>1, <2>2 DEF Types
<1>4. CASE ~ Head(ready).ok
  BY <1>2, <1>4, ReadErrorTypes DEF Types, Read, OfLiving
<1> QED BY <1>3, <1>4

LEMMA ReadEndTypes == ASSUME Types, ReadEnd PROVE Types'
<1> DEFINE c == busy.conn
           r == [conn[c] EXCEPT !.reading = FALSE]
<1>1. c \in Conns
  BY DEF Types, ReadEnd
<1>2. Idle \in [conn : Conns \cup {Null}, todo : Seq(Tokens), ok : BOOLEAN]
  BY DEF Idle
<1>3. r \in Objects
  <2>1. conn[c] \in Objects
    BY <1>1 DEF Types
  <2> QED BY <2>1 DEF Objects
<1>4. CheckDestroy(r) \in Objects
  BY <1>3, CheckDestroyType
<1>5. conn' \in [Conns -> Objects] /\ net' \in [Conns -> Sockets]
  <2>1. CASE ReadError(c)
    BY <1>1, <2>1, ReadErrorTypes DEF Types
  <2>2. CASE Put(c, CheckDestroy(r)) /\ UNCHANGED net
    BY <1>1, <1>4, <2>2 DEF Types, Put
  <2>3. CASE ReadMore(c, conn[c])
    BY <1>1, <2>3, ReadMoreTypes
  <2> QED BY <2>1, <2>2, <2>3 DEF ReadEnd
<1> QED BY <1>2, <1>5 DEF Types, ReadEnd

LEMMA WriteEndTypes == ASSUME Types, WriteEnd PROVE Types'
<1> DEFINE c == Head(ready).conn
           ok == Head(ready).ok
           r == AfterWrite(c)
           q == [r EXCEPT !.open = r.open /\ ~ ok]
<1>1. Takes("write")
  BY DEF WriteEnd, OfLiving
<1>2. c \in Conns /\ ready' \in Seq(Operations) /\ ok \in BOOLEAN
  BY <1>1, TakesType
<1>3. conn[c] \in Objects /\ net[c] \in Sockets
  BY <1>2 DEF Types
<1>4. Empty \in Responses
  BY DEF Empty, Responses
<1>5. r \in Objects
  BY <1>3, <1>4 DEF AfterWrite, Objects
<1>6. q \in Objects
  <2>1. (r.open /\ ~ ok) \in BOOLEAN
    OBVIOUS
  <2> QED BY <1>5, <2>1 DEF Objects
<1>7. CheckDestroy(q) \in Objects
  BY <1>6, CheckDestroyType
<1>8. Written(r, ok) \in Objects
  BY <1>5, <1>7 DEF Written
<1>9. conn' \in [Conns -> Objects]
  <2>1. conn' = [conn EXCEPT ![c] = Written(r, ok)]
    BY DEF WriteEnd, Put
  <2> QED BY <1>2, <1>8, <2>1 DEF Types
<1>10. net' \in [Conns -> Sockets]
  <2>1. net' = [net EXCEPT ![c].writes = TornWrites(c)]
    BY DEF WriteEnd
  <2>2. TornWrites(c) \in Seq(Writes)
    BY <1>2, WritesType
  <2>3. net'[c] \in Sockets
    BY <1>2, <1>3, <2>1, <2>2 DEF Types, Sockets
  <2> QED BY <2>1, <2>3 DEF Types
<1> QED BY <1>2, <1>9, <1>10 DEF Types, WriteEnd, OfLiving

LEMMA TimerFiresTypes == ASSUME Types, TimerFires PROVE Types'
<1>1. ready' \in Seq(Operations)
  BY TailReady DEF Types, TimerFires, Takes
<1>2. PICK n \in 0 .. Len(dq) :
        \/ fault' = "use_after_delete" /\ UNCHANGED conn
        \/ /\ conn' = [c \in Conns |->
                         IF c \in Fired(n) THEN [conn[c] EXCEPT !.open = FALSE] ELSE conn[c]]
           /\ UNCHANGED fault
  BY DEF TimerFires
<1>3. \A c \in Conns : conn[c] \in Objects /\ [conn[c] EXCEPT !.open = FALSE] \in Objects
  BY DEF Types, Objects
<1>4. conn' \in [Conns -> Objects] /\ fault' \in {"none", "use_after_delete"}
  BY <1>2, <1>3 DEF Types
<1> QED BY <1>1, <1>4 DEF Types, TimerFires

LEMMA UseAfterDeleteTypes ==
    ASSUME Types, NEW op \in {"start", "read", "write"}, UseAfterDelete(op) PROVE Types'
<1>1. ready' \in Seq(Operations)
  BY TakesType DEF UseAfterDelete
<1> QED BY <1>1 DEF Types, UseAfterDelete

\* While the parser works, the connection it works for is known.
LEMMA BusyType ==
    ASSUME Types, busy # Idle, busy.todo # <<>>
    PROVE  /\ busy.conn \in Conns /\ conn[busy.conn] \in Objects /\ net[busy.conn] \in Sockets
           /\ Tail(busy.todo) \in Seq(Tokens)
<1>1. busy.conn \in Conns /\ busy.todo \in Seq(Tokens)
  BY DEF Types
<1> QED BY <1>1 DEF Types

LEMMA ConsumeType ==
    ASSUME Types, busy # Idle, busy.todo # <<>>, Consume
    PROVE  /\ busy' \in [conn : Conns \cup {Null}, todo : Seq(Tokens), ok : BOOLEAN]
           /\ busy'.conn = busy.conn /\ busy.conn # Null
<1>1. Tail(busy.todo) \in Seq(Tokens) /\ busy.conn \in Conns
  BY BusyType
<1> QED BY <1>1, TimerAssumption DEF Types, Consume

LEMMA ParseFailsTypes == ASSUME Types, ParseFails PROVE Types'
<1>1. busy.conn \in Conns /\ busy.conn # Null /\ <<>> \in Seq(Tokens)
  BY BusyType, TimerAssumption DEF ParseFails
<1>2. /\ busy' \in [conn : Conns \cup {Null}, todo : Seq(Tokens), ok : BOOLEAN]
      /\ busy'.conn # Null
  BY <1>1 DEF Types, ParseFails
<1> QED BY <1>2 DEF Types, ParseFails

\* A write is added to the writes in flight, torn or not.
LEMMA StartWriteTypes ==
    ASSUME Types, NEW c \in Conns, NEW by \in Nat, NEW ws \in Seq(Writes), StartWrite(c, by, ws)
    PROVE  net' \in [Conns -> Sockets]
<1>1. Append(ws, Write(by)) \in Seq(Writes)
  <2>1. Write(by) \in Writes
    BY DEF Write, Writes
  <2> QED BY <2>1
<1>2. net[c] \in Sockets
  BY DEF Types
<1>3. net'[c] \in Sockets
  BY <1>1, <1>2 DEF Types, StartWrite, Sockets
<1> QED BY <1>3 DEF Types, StartWrite

LEMMA HandleHeaderTypes == ASSUME Types, HandleHeader PROVE Types'
<1> DEFINE c == busy.conn
<1>1. busy # Idle /\ busy.todo # <<>> /\ Consume /\ ready' = ready /\ fault' = fault
  BY DEF HandleHeader, Parses
<1>2. c \in Conns /\ conn[c] \in Objects
  BY <1>1, BusyType
<1>3. conn' \in [Conns -> Objects]
  <2>1. [conn[c] EXCEPT !.writing = TRUE, !.parsing = "body"] \in Objects
    BY <1>2 DEF Objects
  <2> QED BY <1>2, <2>1 DEF Types, HandleHeader, Put
<1>4. net' \in [Conns -> Sockets]
  BY <1>2, WritesType, StartWriteTypes DEF HandleHeader
<1> QED BY <1>1, <1>3, <1>4, ConsumeType DEF Types

LEMMA HandleUpgradeTypes == ASSUME Types, HandleUpgrade PROVE Types'
<1> DEFINE c == busy.conn
           r == [conn[c] EXCEPT !.count = conn[c].count + 1, !.closing = TRUE,
                                !.res = [by |-> conn[c].count + 1, completed |-> TRUE]]
<1>1. busy # Idle /\ busy.todo # <<>>
  BY DEF HandleUpgrade, Parses
<1>2. c \in Conns /\ conn[c] \in Objects /\ c # Null /\ <<>> \in Seq(Tokens)
  BY <1>1, BusyType, TimerAssumption
<1>3. conn[c].count + 1 \in Nat
  BY <1>2 DEF Objects
<1>4. r \in Objects
  <2>1. [by |-> conn[c].count + 1, completed |-> TRUE] \in Responses
    BY <1>3 DEF Responses
  <2> QED BY <1>2, <1>3, <2>1 DEF Objects
<1>5. conn' \in [Conns -> Objects]
  BY <1>2, <1>4 DEF Types, HandleUpgrade, Put
<1>6. /\ busy' \in [conn : Conns \cup {Null}, todo : Seq(Tokens), ok : BOOLEAN]
      /\ busy'.conn # Null
  <2>1. (Len(busy.todo) = 1) \in BOOLEAN
    OBVIOUS
  <2>2. busy'.conn = c /\ busy'.todo = <<>> /\ busy'.ok = (Len(busy.todo) = 1)
    BY <1>1 DEF Types, HandleUpgrade
  <2> QED BY <1>2, <2>1, <2>2 DEF Types, HandleUpgrade
<1> QED BY <1>5, <1>6 DEF Types, HandleUpgrade

LEMMA HandleTypes == ASSUME Types, NEW t \in Requests, Handle(t) PROVE Types'
<1> DEFINE c == busy.conn
           n == conn[c].count + 1
           r == [conn[c] EXCEPT
                   !.count = n, !.parsing = IF t = "close" THEN "dead" ELSE "message",
                   !.closing = conn[c].closing \/ t = "close"]
<1>1. busy # Idle /\ busy.todo # <<>> /\ ready' = ready /\ fault' = fault
  BY DEF Handle, Parses
<1>2. c \in Conns /\ conn[c] \in Objects /\ c # Null
  BY <1>1, BusyType, TimerAssumption
<1>3. n \in Nat /\ conn[c].res \in Responses
  BY <1>2 DEF Objects
<1>4. r \in Objects
  <2>1. (conn[c].closing \/ t = "close") \in BOOLEAN
    OBVIOUS
  <2>2. (IF t = "close" THEN "dead" ELSE "message") \in {"message", "body", "dead"}
    OBVIOUS
  <2> QED BY <1>2, <1>3, <2>1, <2>2 DEF Objects
<1>5. CASE Throw(c, r)
  <2>1. [r EXCEPT !.threw = TRUE] \in Objects
    BY <1>4 DEF Objects
  <2>2. Idle \in [conn : Conns \cup {Null}, todo : Seq(Tokens), ok : BOOLEAN]
    BY DEF Idle
  <2> QED BY <1>1, <1>2, <1>5, <2>1, <2>2 DEF Types, Throw, Put
<1>6. CASE ~ Throw(c, r)
  <2>1. PICK res \in Responses :
          /\ Put(c, [r EXCEPT !.res = res, !.writing = TRUE])
          /\ StartWrite(c, res.by, TornWrites(c))
          /\ Consume
    <3> DEFINE res == CASE t = "nohost" -> [by |-> n, completed |-> FALSE]
                        [] t # "nohost" /\ conn[c].res.completed -> conn[c].res
                        [] OTHER -> [by |-> n, completed |-> TRUE]
    <3>1. res \in Responses
      <4>1. [by |-> n, completed |-> FALSE] \in Responses /\ [by |-> n, completed |-> TRUE] \in Responses
        BY <1>3 DEF Responses
      <4> QED BY <1>3, <4>1
    <3> QED BY <1>6, <3>1 DEF Handle
  <2>2. [r EXCEPT !.res = res, !.writing = TRUE] \in Objects
    BY <1>4 DEF Objects
  <2>3. conn' \in [Conns -> Objects]
    BY <1>2, <2>1, <2>2 DEF Types, Put
  <2>4. net' \in [Conns -> Sockets]
    <3>1. res.by \in Nat /\ TornWrites(c) \in Seq(Writes)
      BY <1>2, WritesType DEF Responses
    <3> QED BY <1>2, <2>1, <3>1, StartWriteTypes
  <2> QED BY <1>1, <2>1, <2>3, <2>4, ConsumeType DEF Types
<1> QED BY <1>5, <1>6

LEMMA StepTypes == Types /\ [Next]_vars => Types'
<1> SUFFICES ASSUME Types, [Next]_vars PROVE Types'
  OBVIOUS
<1>1. CASE UNCHANGED vars
  BY <1>1 DEF Types, vars, rest
<1>2. CASE Worker
  BY <1>2, StartTypes, ReadTypes, ReadEndTypes, WriteEndTypes, TimerFiresTypes,
     UseAfterDeleteTypes, ParseFailsTypes, HandleHeaderTypes, HandleUpgradeTypes, HandleTypes
     DEF Worker
<1>3. ASSUME NEW c \in Conns,
             \/ Accept(c) \/ Leave(c) \/ Kernel(c)
             \/ \E t \in Tokens : Send(c, t)
             \/ \E i \in 1 .. Len(net[c].writes) : WriteCompletes(c, i)
      PROVE  Types'
  BY <1>3, AcceptTypes, LeaveTypes, ReadCompletesTypes, SendTypes, WriteCompletesTypes DEF Kernel
<1> QED BY <1>1, <1>2, <1>3, ElapseTypes DEF Next

-----------------------------------------------------------------------------
(* The timers *)

\* Each step of a connection is a step of the queue, or leaves it alone.
LEMMA TimerSteps == Types /\ [Next]_vars => [TimerNext]_timerVars
<1> SUFFICES ASSUME Types, [Next]_vars PROVE [TimerNext]_timerVars
  OBVIOUS
<1> DEFINE h == Head(ready).conn
<1>1. CASE UNCHANGED vars
  BY <1>1 DEF vars
<1>2. CASE Start
  <2>1. h \in Conns
    BY <1>2, TakesType DEF Start, OfLiving
  <2> QED BY <1>2, <2>1 DEF Start, ReadMore, TimerNext
<1>3. CASE Read
  <2>1. h \in Conns
    BY <1>3, TakesType DEF Read, OfLiving
  <2> QED BY <1>3, <2>1 DEF Read, ReadError, TimerNext
<1>4. CASE ReadEnd
  <2>1. busy.conn \in Conns
    BY <1>4 DEF Types, ReadEnd
  <2>2. CancelTimer(busy.conn) \/ StartTimer(busy.conn)
    BY <1>4 DEF ReadEnd, ReadError, ReadMore
  <2> QED BY <2>1, <2>2 DEF TimerNext
<1>5. CASE WriteEnd
  <2>1. h \in Conns
    BY <1>5, TakesType DEF WriteEnd, OfLiving
  <2>2. CancelTimer(h) \/ UNCHANGED timerVars
    BY <1>5 DEF WriteEnd
  <2> QED BY <2>1, <2>2 DEF TimerNext
<1>6. CASE TimerFires
  BY <1>6 DEF TimerFires, TimerNext
<1>7. ASSUME NEW op \in {"start", "read", "write"}, UseAfterDelete(op)
      PROVE  UNCHANGED timerVars
  BY <1>7 DEF UseAfterDelete
<1>8. CASE ParseFails \/ HandleHeader
  BY <1>8 DEF ParseFails, HandleHeader
<1>9. ASSUME CancelTimer(busy.conn), busy # Idle, busy.todo # <<>> PROVE TimerNext
  BY <1>9, BusyType DEF TimerNext
<1>10. CASE HandleUpgrade
  BY <1>9, <1>10 DEF HandleUpgrade, Parses
<1>11. ASSUME NEW t \in Requests, Handle(t) PROVE TimerNext
  BY <1>9, <1>11 DEF Handle, Parses
<1>12. CASE Elapse
  BY <1>12 DEF Elapse, TimerNext
<1>13. ASSUME NEW c \in Conns,
              \/ Accept(c) \/ Leave(c) \/ Kernel(c)
              \/ \E t \in Tokens : Send(c, t)
              \/ \E i \in 1 .. Len(net[c].writes) : WriteCompletes(c, i)
       PROVE  UNCHANGED timerVars
  BY <1>13 DEF Accept, Leave, Kernel, Send, ReadCompletes, WriteCompletes, WriteFails
<1> QED BY <1>1, <1>2, <1>3, <1>4, <1>5, <1>6, <1>7, <1>8, <1>10, <1>11, <1>12, <1>13
        DEF Next, Worker

LEMMA InitTimers == Init => TimerInv
  BY TimerInitInv DEF Init

LEMMA StepTimers == Types /\ TimerInv /\ [Next]_vars => TimerInv'
  BY TimerSteps, TimerStepInv

\* The types of the state, and the invariant of the queue.
THEOREM TypesInvariant == Spec => [](Types /\ TimerInv)
  BY InitTypes, StepTypes, InitTimers, StepTimers, PTL DEF Spec

\* TypeOK, for any number of connections and any budget.
THEOREM TypeCorrect == Spec => []TypeOK
<1>1. Types /\ TimerInv => TypeOK
  <2> SUFFICES ASSUME Types, TimerInv PROVE TypeOK
    OBVIOUS
  <2>1. \A i \in 1 .. Len(dq) : dq[i].age \in 0 .. Tick /\ dq[i].owner \in Conns \cup {Null}
    <3>1. \A i \in 1 .. Len(dq) : dq[i] \in Entries
      BY ElementOfSeq DEF TimerInv, QueueTypes
    <3> QED BY <3>1 DEF Entries
  <2>2. ASSUME NEW c \in Conns
        PROVE  /\ conn[c].obj \in {"none", "alive", "deleted"}
               /\ conn[c].parsing \in {"message", "body", "dead"}
               /\ net[c].peer \in {"none", "connected", "finished", "reset"}
               /\ {net[c].inbox[i] : i \in 1 .. Len(net[c].inbox)} \subseteq Tokens
    <3>1. conn[c] \in Objects /\ net[c] \in Sockets
      BY DEF Types
    <3>2. net[c].inbox \in Seq(Tokens)
      BY <3>1 DEF Sockets
    <3>3. \A i \in 1 .. Len(net[c].inbox) : net[c].inbox[i] \in Tokens
      BY <3>2, ElementOfSeq
    <3> QED BY <3>1, <3>3 DEF Objects, Sockets
  <2> QED BY <2>1, <2>2 DEF TypeOK, Types, TimerInv, QueueTypes
<1> QED BY <1>1, TypesInvariant, PTL

\* Cancelling finds the callback that waits, so that none is left behind, for
\* any number of connections and however often the ints have wrapped.
THEOREM KeysAreRight == Spec => []KeysFindTimers
<1>1. TimerInv => KeysFindTimers
  BY DEF TimerInv
<1> QED BY <1>1, TypesInvariant, PTL

\* Each connection has the deadline it has set, and loses it to no other.  It is
\* assumed that no key comes to find the entry of another connection: a key is
\* kept from when its deadline has run out, and closed the socket, until the
\* handler of the read that this ends; GuardedInTime says for how long it may be.
THEOREM DeadlinesImplemented == Spec /\ []KeysAreOwn => ImplementsDeadlines
<1>1. Types /\ TimerInv /\ KeysAreOwn /\ [Next]_vars => [ADeadlines!Next]_Ages
  BY TimerSteps, StepRefines
<1>2. Init => ADeadlines!Init
  BY InitRefines DEF Init
<1> QED BY <1>1, <1>2, TypesInvariant, PTL
        DEF Spec, ImplementsDeadlines, ADeadlines!Spec, Ages

-----------------------------------------------------------------------------
(* One reader at a time *)

\* Operation i is one whose handler ends with a read, or ends the reading, of c.
ReaderAt(i, c) == ready[i].op \in {"start", "read"} /\ ready[i].conn = c

\* Of a connection's read in flight, its completed read or start, and its read
\* handler in progress there is at most one.
OneReader(c) ==
    /\ net[c].read => busy.conn # c
    /\ \A i \in 1 .. Len(ready) : ReaderAt(i, c) => ~ net[c].read /\ busy.conn # c
    /\ \A i, j \in 1 .. Len(ready) : ReaderAt(i, c) /\ ReaderAt(j, c) => i = j
    /\ conn[c].obj = "none" =>
        ~ net[c].read /\ busy.conn # c /\ \A i \in 1 .. Len(ready) : ~ ReaderAt(i, c)

\* The first operation is taken, or none, or one is added that is no reader of c.
ReadyKeeps(c) ==
    \/ ready' = ready
    \/ ready # <<>> /\ ready' = Tail(ready)
    \/ \E x \in Operations :
        /\ ready' = Append(ready, x)
        /\ x.op \notin {"start", "read"} \/ x.conn # c

\* The readers of c after such a step are among those before.
LEMMA ReadersAmong ==
    ASSUME Types, NEW c \in Conns, ReadyKeeps(c)
    PROVE  \/ \A i \in 1 .. Len(ready)' : ReaderAt(i, c)' => i \in 1 .. Len(ready) /\ ReaderAt(i, c)
           \/ /\ ready' = Tail(ready)
              /\ \A i \in 1 .. Len(ready)' :
                    ReaderAt(i, c)' => 1 \in 1 .. Len(ready) /\ i + 1 \in 1 .. Len(ready)
                                       /\ ReaderAt(i + 1, c)
<1>1. CASE ready' = ready
  BY <1>1 DEF ReaderAt
<1>2. CASE ready # <<>> /\ ready' = Tail(ready)
  <2>1. \A i \in 1 .. Len(ready)' : 1 \in 1 .. Len(ready) /\ i + 1 \in 1 .. Len(ready)
                                      /\ ready'[i] = ready[i + 1]
    BY <1>2, TailReady DEF Types
  <2> QED BY <1>2, <2>1 DEF ReaderAt
<1>3. ASSUME NEW x \in Operations, ready' = Append(ready, x),
             x.op \notin {"start", "read"} \/ x.conn # c
      PROVE  \A i \in 1 .. Len(ready)' : ReaderAt(i, c)' => i \in 1 .. Len(ready) /\ ReaderAt(i, c)
  <2>1. /\ Len(ready) \in Nat /\ Len(ready') = Len(ready) + 1
        /\ \A i \in 1 .. Len(ready) : ready'[i] = ready[i]
        /\ ready'[Len(ready) + 1] = x
    BY <1>3, ReadyAppend DEF Types
  <2> SUFFICES ASSUME NEW i \in 1 .. Len(ready)', ReaderAt(i, c)'
               PROVE  i \in 1 .. Len(ready) /\ ReaderAt(i, c)
    OBVIOUS
  <2>2. i # Len(ready) + 1
    BY <1>3, <2>1 DEF ReaderAt
  <2>3. i \in 1 .. Len(ready)
    BY <2>1, <2>2
  <2> QED BY <2>1, <2>3 DEF ReaderAt
<1> QED BY <1>1, <1>2, <1>3 DEF ReadyKeeps

LEMMA KeepReader ==
    ASSUME Types, NEW c \in Conns, OneReader(c), ReadyKeeps(c),
           net'[c].read => net[c].read,
           conn'[c].obj = "none" => conn[c].obj = "none",
           busy'.conn = c => busy.conn = c
    PROVE  OneReader(c)'
<1>1. CASE \A i \in 1 .. Len(ready)' : ReaderAt(i, c)' => i \in 1 .. Len(ready) /\ ReaderAt(i, c)
  BY <1>1 DEF OneReader
<1>2. CASE \A i \in 1 .. Len(ready)' :
             ReaderAt(i, c)' => i + 1 \in 1 .. Len(ready) /\ ReaderAt(i + 1, c)
  <2>1. ASSUME NEW i \in 1 .. Len(ready)', NEW j \in 1 .. Len(ready)',
               ReaderAt(i, c)', ReaderAt(j, c)'
        PROVE  i = j
    <3>1. i + 1 = j + 1
      BY <1>2, <2>1 DEF OneReader
    <3> QED BY <3>1
  <2> QED BY <1>2, <2>1 DEF OneReader
<1> QED BY <1>1, <1>2, ReadersAmong

\* Once the reader that is first has been taken there is none.
LEMMA TakenReader ==
    ASSUME Types, NEW c \in Conns, OneReader(c), ready # <<>>, ReaderAt(1, c), ready' = Tail(ready)
    PROVE  /\ \A i \in 1 .. Len(ready)' : ~ ReaderAt(i, c)'
           /\ ~ net[c].read /\ busy.conn # c /\ conn[c].obj # "none"
<1>1. /\ 1 \in 1 .. Len(ready)
      /\ \A i \in 1 .. Len(ready)' : i + 1 \in 1 .. Len(ready) /\ ready'[i] = ready[i + 1]
  BY TailReady DEF Types
<1>2. ASSUME NEW i \in 1 .. Len(ready)', ReaderAt(i, c)' PROVE FALSE
  <2>1. ReaderAt(i + 1, c)
    BY <1>1, <1>2 DEF ReaderAt
  <2>2. i + 1 = 1
    BY <1>1, <2>1 DEF OneReader
  <2> QED BY <2>2
<1> QED BY <1>1, <1>2 DEF OneReader

Readers == \A c \in Conns : OneReader(c)

\* Steps of the peers and the operating system.
LEMMA KernelReaders ==
    ASSUME Types, Types', Readers, NEW c \in Conns,
           \/ Accept(c) \/ Leave(c) \/ ReadCompletes(c)
           \/ \E t \in Tokens : Send(c, t)
           \/ \E i \in 1 .. Len(net[c].writes) : WriteCompletes(c, i) \/ WriteFails(c, i)
    PROVE  Readers'
<1> SUFFICES ASSUME NEW d \in Conns PROVE OneReader(d)'
  BY DEF Readers
<1>1. OneReader(d) /\ OneReader(c) /\ net[d] \in Sockets /\ conn[d] \in Objects
  BY DEF Readers, Types
<1>2. busy' = busy
  BY DEF Accept, Leave, ReadCompletes, Send, WriteCompletes, WriteFails, rest
<1>3. CASE \/ Leave(c) \/ \E t \in Tokens : Send(c, t)
  <2>1. ready' = ready /\ conn' = conn
    BY <1>3 DEF Leave, Send, rest
  <2>2. CASE Leave(c)
    <3>1. net'[d].read = net[d].read
      <4>1. CASE net' = [net EXCEPT ![c].peer = "finished"]
        BY <1>1, <4>1 DEF Types, Sockets
      <4>2. CASE net' = [net EXCEPT ![c].peer = "reset", ![c].inbox = <<>>]
        BY <1>1, <4>2 DEF Types, Sockets
      <4> QED BY <2>2, <4>1, <4>2 DEF Leave
    <3> QED BY <1>1, <1>2, <2>1, <3>1, KeepReader DEF ReadyKeeps
  <2>3. ASSUME NEW t \in Tokens, Send(c, t) PROVE OneReader(d)'
    <3>1. net'[d].read = net[d].read
      BY <1>1, <2>3 DEF Types, Send, Sockets
    <3> QED BY <1>1, <1>2, <2>1, <3>1, KeepReader DEF ReadyKeeps
  <2> QED BY <1>3, <2>2, <2>3
<1>4. ASSUME NEW i \in 1 .. Len(net[c].writes), WriteCompletes(c, i) \/ WriteFails(c, i)
      PROVE  OneReader(d)'
  <2>1. PICK ok \in BOOLEAN : ready' = Append(ready, Done("write", c, ok, <<>>))
    BY <1>4 DEF WriteCompletes, WriteFails
  <2>2. Done("write", c, ok, <<>>) \in Operations /\ Done("write", c, ok, <<>>).op = "write"
    <3>1. <<>> \in Seq(Tokens)
      OBVIOUS
    <3> QED BY <3>1, DoneType DEF Done
  <2>3. ReadyKeeps(d)
    BY <2>1, <2>2 DEF ReadyKeeps
  <2>4. conn' = conn
    BY <1>4 DEF WriteCompletes, WriteFails
  <2>5. net'[d].read = net[d].read
    <3>1. CASE WriteCompletes(c, i)
      BY <1>1, <3>1 DEF Types, WriteCompletes, Sockets
    <3>2. CASE WriteFails(c, i)
      BY <1>1, <3>2 DEF Types, WriteFails, Sockets
    <3> QED BY <1>4, <3>1, <3>2
  <2> QED BY <1>1, <1>2, <2>3, <2>4, <2>5, KeepReader
<1>5. ASSUME NEW op \in {"start", "read"}, NEW ok \in BOOLEAN, NEW data \in Seq(Tokens),
             ready' = Append(ready, Done(op, c, ok, data)),
             net'[c].read = FALSE, conn'[c].obj # "none",
             op = "start" => conn[c].obj = "none", op = "read" => net[c].read,
             d # c => net'[d].read = net[d].read /\ conn'[d].obj = conn[d].obj
      PROVE  OneReader(d)'
  <2> DEFINE x == Done(op, c, ok, data)
  <2>1. x \in Operations /\ x.op = op /\ x.conn = c
    BY DoneType DEF Done
  <2>2. CASE d # c
    <3>1. ReadyKeeps(d)
      BY <1>5, <2>1, <2>2 DEF ReadyKeeps
    <3> QED BY <1>1, <1>2, <1>5, <2>2, <3>1, KeepReader
  <2>3. CASE d = c
    <3>1. /\ Len(ready) \in Nat /\ Len(ready') = Len(ready) + 1
          /\ \A i \in 1 .. Len(ready) : ready'[i] = ready[i]
      BY <1>5, <2>1, ReadyAppend DEF Types
    <3>2. busy.conn # c /\ \A i \in 1 .. Len(ready) : ~ ReaderAt(i, c)
      BY <1>1, <1>5 DEF OneReader
    <3>3. \A i \in 1 .. Len(ready)' : ReaderAt(i, c)' => i = Len(ready) + 1
      <4> SUFFICES ASSUME NEW i \in 1 .. Len(ready)', ReaderAt(i, c)', i # Len(ready) + 1
                   PROVE  FALSE
        OBVIOUS
      <4>1. i \in 1 .. Len(ready)
        BY <3>1
      <4> QED BY <3>1, <3>2, <4>1 DEF ReaderAt
    <3> QED BY <1>2, <1>5, <2>3, <3>2, <3>3 DEF OneReader
  <2> QED BY <2>2, <2>3
<1>6. CASE Accept(c)
  <2>1. <<>> \in Seq(Tokens) /\ ready' = Append(ready, Done("start", c, TRUE, <<>>))
    BY <1>6 DEF Accept
  <2>2. conn[c].obj = "none" /\ conn'[c].obj = "alive" /\ (d # c => conn'[d].obj = conn[d].obj)
    BY <1>1, <1>6 DEF Types, Accept, Objects
  <2>3. net'[d].read = net[d].read /\ net'[c].read = net[c].read
    BY <1>1, <1>6 DEF Types, Accept, Sockets
  <2>4. net'[c].read = FALSE
    BY <1>1, <2>2, <2>3 DEF OneReader, Types, Sockets
  <2> QED BY <1>5, <2>1, <2>2, <2>3, <2>4
<1>7. CASE ReadCompletes(c)
  <2>1. PICK ok \in BOOLEAN, data \in Seq(Tokens) :
          ready' = Append(ready, Done("read", c, ok, data))
    <3>1. net[c].inbox \in Seq(Tokens) /\ <<>> \in Seq(Tokens)
      BY DEF Types, Sockets
    <3> QED BY <1>7, <3>1 DEF ReadCompletes
  <2>2. conn' = conn /\ net[c].read /\ conn[c].obj # "none"
    BY <1>1, <1>7 DEF ReadCompletes, OneReader
  <2>3. net'[c].read = FALSE /\ (d # c => net'[d].read = net[d].read)
    BY <1>1, <1>7 DEF Types, ReadCompletes, Sockets
  <2> QED BY <1>5, <2>1, <2>2, <2>3
<1> QED BY <1>3, <1>4, <1>6, <1>7

\* What a handler does to the sockets and objects, as far as it matters here.
LEMMA ReadMoreReads ==
    ASSUME Types, NEW c \in Conns, ReadMore(c, conn[c])
    PROVE  /\ net'[c].read /\ \A d \in Conns : d # c => net'[d] = net[d]
           /\ \A d \in Conns : conn'[d].obj = conn[d].obj /\ conn'[d].open = conn[d].open
  BY DEF Types, ReadMore, Put, Objects, Sockets

\* An object that check_destroy has been called for was one before.
LEMMA CheckDestroyObj ==
    ASSUME NEW r \in Objects
    PROVE  /\ CheckDestroy(r).obj \in {r.obj, "deleted"}
           /\ CheckDestroy(r).open => r.open
           /\ CheckDestroy(r).obj = "deleted" => r.obj = "deleted" \/ ~ CheckDestroy(r).open
  BY DEF CheckDestroy, Objects

LEMMA ReadErrorObj ==
    ASSUME Types, NEW c \in Conns, ReadError(c)
    PROVE  /\ ~ conn'[c].open /\ conn'[c].obj \in {conn[c].obj, "deleted"}
           /\ \A d \in Conns : d # c => conn'[d] = conn[d]
<1> DEFINE r == [conn[c] EXCEPT !.open = FALSE, !.reading = FALSE]
<1>1. r \in Objects /\ ~ r.open /\ r.obj = conn[c].obj
  BY DEF Types, Objects
<1>2. CheckDestroy(r).obj \in {conn[c].obj, "deleted"} /\ ~ CheckDestroy(r).open
  BY <1>1, CheckDestroyObj
<1> QED BY <1>2 DEF Types, ReadError, Put

LEMMA StartReaders == ASSUME Types, Readers, Start PROVE Readers'
<1>0. Head(ready).conn \in Conns
  BY TakesType DEF Start, OfLiving
<1> PICK c \in Conns : c = Head(ready).conn
  BY <1>0
<1>1. c = Head(ready).conn /\ ready # <<>> /\ ready' = Tail(ready) /\ busy = Idle /\ busy' = busy
      /\ Head(ready).op = "start"
  BY TakesType DEF Start, OfLiving, Takes
<1>2. ReaderAt(1, c)
  BY <1>1, TailReady DEF ReaderAt, Types
<1>3. /\ net'[c].read /\ \A d \in Conns : d # c => net'[d] = net[d]
      /\ \A d \in Conns : conn'[d].obj = conn[d].obj
  BY <1>1, ReadMoreReads DEF Start
<1>4. ASSUME NEW d \in Conns, d # c PROVE OneReader(d)'
  BY <1>1, <1>3, <1>4, KeepReader DEF ReadyKeeps, Readers
<1>5. OneReader(c)'
  <2>1. /\ \A i \in 1 .. Len(ready)' : ~ ReaderAt(i, c)'
        /\ busy.conn # c /\ conn[c].obj # "none"
    BY <1>1, <1>2, TakenReader DEF Readers
  <2>2. busy'.conn # c /\ conn'[c].obj # "none"
    BY <1>1, <1>3, <2>1
  <2> QED BY <2>1, <2>2 DEF OneReader
<1> QED BY <1>4, <1>5 DEF Readers

LEMMA ReadReaders == ASSUME Types, Readers, Read PROVE Readers'
<1>0. Head(ready).conn \in Conns
  BY TakesType DEF Read, OfLiving
<1> PICK c \in Conns : c = Head(ready).conn
  BY <1>0
<1>1. c = Head(ready).conn /\ ready # <<>> /\ ready' = Tail(ready) /\ busy = Idle
      /\ Head(ready).op = "read" /\ c # Null
  BY TakesType, TimerAssumption DEF Read, OfLiving, Takes
<1>2. ReaderAt(1, c)
  BY <1>1, TailReady DEF ReaderAt, Types
<1>3. net' = net /\ \A d \in Conns : conn'[d].obj = "none" => conn[d].obj = "none"
  <2>1. CASE Head(ready).ok
    BY <2>1 DEF Read
  <2>2. CASE ~ Head(ready).ok
    <3>1. ReadError(c)
      BY <2>2 DEF Read
    <3> QED BY <1>1, <3>1, ReadErrorObj, ReadErrorTypes
  <2> QED BY <2>1, <2>2
<1>4. ASSUME NEW d \in Conns, d # c PROVE OneReader(d)'
  <2>1. busy'.conn = d => busy.conn = d
    BY <1>1, <1>4 DEF Read
  <2> QED BY <1>1, <1>3, <1>4, <2>1, KeepReader DEF ReadyKeeps, Readers
<1>5. OneReader(c)'
  <2>1. /\ \A i \in 1 .. Len(ready)' : ~ ReaderAt(i, c)'
        /\ ~ net[c].read /\ conn[c].obj # "none"
    BY <1>1, <1>2, TakenReader DEF Readers
  <2>2. ~ net'[c].read /\ conn'[c].obj # "none"
    BY <1>1, <1>3, <2>1
  <2> QED BY <2>1, <2>2 DEF OneReader
<1> QED BY <1>4, <1>5 DEF Readers

LEMMA ReadEndReaders == ASSUME Types, Readers, ReadEnd PROVE Readers'
<1>0. busy.conn \in Conns
  BY DEF Types, ReadEnd
<1> PICK c \in Conns : c = busy.conn
  BY <1>0
<1>1. c = busy.conn /\ busy' = Idle /\ ready' = ready /\ c # Null
  BY TimerAssumption DEF Types, ReadEnd
<1>2. Idle.conn = Null
  BY DEF Idle
<1>3. \A d \in Conns : busy'.conn # d
  BY <1>1, <1>2, TimerAssumption
<1>4. CASE ReadMore(c, conn[c])
  <2>1. /\ net'[c].read /\ \A d \in Conns : d # c => net'[d] = net[d]
        /\ \A d \in Conns : conn'[d].obj = conn[d].obj
    BY <1>1, <1>4, ReadMoreReads
  <2>2. ASSUME NEW d \in Conns, d # c PROVE OneReader(d)'
    BY <1>1, <1>3, <2>1, <2>2, KeepReader DEF ReadyKeeps, Readers
  <2>3. OneReader(c)'
    <3>1. \A i \in 1 .. Len(ready) : ~ ReaderAt(i, c)
      BY <1>1 DEF Readers, OneReader
    <3>2. \A i \in 1 .. Len(ready)' : ~ ReaderAt(i, c)'
      BY <1>1, <3>1 DEF ReaderAt
    <3>3. conn'[c].obj # "none"
      BY <1>1, <2>1 DEF Readers, OneReader
    <3> QED BY <1>1, <1>3, <3>2, <3>3 DEF OneReader
  <2> QED BY <2>2, <2>3 DEF Readers
<1>5. CASE ~ ReadMore(c, conn[c])
  <2>1. net' = net /\ \A d \in Conns : conn'[d].obj = "none" => conn[d].obj = "none"
    <3>1. CASE ReadError(c)
      BY <1>1, <3>1, ReadErrorObj, ReadErrorTypes
    <3>2. CASE Put(c, CheckDestroy([conn[c] EXCEPT !.reading = FALSE])) /\ UNCHANGED net
      <4>1. conn[c] \in Objects
        BY <1>1 DEF Types
      <4>2. /\ [conn[c] EXCEPT !.reading = FALSE] \in Objects
            /\ [conn[c] EXCEPT !.reading = FALSE].obj = conn[c].obj
        BY <4>1 DEF Objects
      <4>3. CheckDestroy([conn[c] EXCEPT !.reading = FALSE]).obj \in {conn[c].obj, "deleted"}
        BY <4>2, CheckDestroyObj
      <4> QED BY <1>1, <3>2, <4>3 DEF Types, Put
    <3> QED BY <1>5, <3>1, <3>2 DEF ReadEnd
  <2> QED BY <1>1, <1>3, <2>1, KeepReader DEF ReadyKeeps, Readers
<1> QED BY <1>4, <1>5

\* The parser and the handlers it calls only change what is being answered.
ParserChanges ==
    /\ ready' = ready /\ fault' = fault /\ busy'.conn \in {busy.conn, Null}
    /\ \A d \in Conns :
        /\ net'[d].read = net[d].read
        /\ conn'[d].obj = conn[d].obj /\ conn'[d].open = conn[d].open

\* A write is started.
LEMMA StartWriteReads ==
    ASSUME Types, NEW c \in Conns, NEW by, NEW ws, StartWrite(c, by, ws)
    PROVE  \A d \in Conns : net'[d].read = net[d].read
  BY DEF Types, StartWrite, Sockets

LEMMA PutKeeps ==
    ASSUME Types, NEW c \in Conns, NEW r, Put(c, r), r.obj = conn[c].obj, r.open = conn[c].open
    PROVE  \A d \in Conns : conn'[d].obj = conn[d].obj /\ conn'[d].open = conn[d].open
  BY DEF Types, Put

LEMMA HandleChanges == ASSUME Types, NEW t \in Requests, Handle(t) PROVE ParserChanges
<1> DEFINE c == busy.conn
           n == conn[c].count + 1
           r == [conn[c] EXCEPT
                   !.count = n, !.parsing = IF t = "close" THEN "dead" ELSE "message",
                   !.closing = conn[c].closing \/ t = "close"]
<1>1. busy # Idle /\ busy.todo # <<>> /\ ready' = ready /\ fault' = fault
  BY DEF Handle, Parses
<1>2. c \in Conns /\ conn[c] \in Objects
  BY <1>1, BusyType
<1>3. r.obj = conn[c].obj /\ r.open = conn[c].open
  BY <1>2 DEF Objects
<1>4. CASE Throw(c, r)
  <2>1. [r EXCEPT !.threw = TRUE].obj = conn[c].obj /\ [r EXCEPT !.threw = TRUE].open = conn[c].open
    BY <1>2, <1>3 DEF Objects
  <2>2. \A d \in Conns : conn'[d].obj = conn[d].obj /\ conn'[d].open = conn[d].open
    BY <1>2, <1>4, <2>1, PutKeeps DEF Throw
  <2> QED BY <1>1, <1>4, <2>2 DEF ParserChanges, Throw, Idle
<1>5. ASSUME NEW res, Put(c, [r EXCEPT !.res = res, !.writing = TRUE]),
             StartWrite(c, res.by, TornWrites(c)), Consume
      PROVE  ParserChanges
  <2> DEFINE q == [r EXCEPT !.res = res, !.writing = TRUE]
  <2>1. q.obj = conn[c].obj /\ q.open = conn[c].open
    BY <1>2, <1>3 DEF Objects
  <2>2. \A d \in Conns : conn'[d].obj = conn[d].obj /\ conn'[d].open = conn[d].open
    BY <1>2, <1>5, <2>1, PutKeeps
  <2>3. \A d \in Conns : net'[d].read = net[d].read
    BY <1>2, <1>5, StartWriteReads
  <2>4. busy'.conn = busy.conn
    BY <1>1, <1>5, ConsumeType
  <2> QED BY <1>1, <2>2, <2>3, <2>4 DEF ParserChanges
<1> QED BY <1>4, <1>5 DEF Handle

LEMMA OthersChange == ASSUME Types, ParseFails \/ HandleHeader \/ HandleUpgrade PROVE ParserChanges
<1> DEFINE c == busy.conn
<1>1. busy # Idle /\ busy.todo # <<>> /\ ready' = ready /\ fault' = fault
  BY DEF ParseFails, HandleHeader, HandleUpgrade, Parses
<1>2. c \in Conns /\ conn[c] \in Objects /\ net[c] \in Sockets
  BY <1>1, BusyType
<1>3. CASE ParseFails
  BY <1>1, <1>3 DEF Types, ParseFails, ParserChanges
<1>4. CASE HandleHeader
  <2> DEFINE r == [conn[c] EXCEPT !.writing = TRUE, !.parsing = "body"]
  <2>1. r.obj = conn[c].obj /\ r.open = conn[c].open
    BY <1>2 DEF Objects
  <2>2. \A d \in Conns : conn'[d].obj = conn[d].obj /\ conn'[d].open = conn[d].open
    BY <1>2, <1>4, <2>1, PutKeeps DEF HandleHeader
  <2>3. \A d \in Conns : net'[d].read = net[d].read
    BY <1>2, <1>4, StartWriteReads DEF HandleHeader
  <2>4. busy'.conn = busy.conn
    BY <1>1, <1>4, ConsumeType DEF HandleHeader
  <2> QED BY <1>1, <2>2, <2>3, <2>4 DEF ParserChanges
<1>5. CASE HandleUpgrade
  <2> DEFINE r == [conn[c] EXCEPT !.count = conn[c].count + 1, !.closing = TRUE,
                                  !.res = [by |-> conn[c].count + 1, completed |-> TRUE]]
  <2>1. r.obj = conn[c].obj /\ r.open = conn[c].open
    BY <1>2 DEF Objects
  <2>2. \A d \in Conns : conn'[d].obj = conn[d].obj /\ conn'[d].open = conn[d].open
    BY <1>2, <1>5, <2>1, PutKeeps DEF HandleUpgrade
  <2>3. busy'.conn = busy.conn
    BY <1>5 DEF Types, HandleUpgrade
  <2> QED BY <1>1, <1>5, <2>2, <2>3 DEF ParserChanges, HandleUpgrade
<1> QED BY <1>3, <1>4, <1>5

LEMMA ParserReaders == ASSUME Types, Readers, ParserChanges PROVE Readers'
<1> SUFFICES ASSUME NEW d \in Conns PROVE OneReader(d)'
  BY DEF Readers
<1>1. busy'.conn = d => busy.conn = d
  BY TimerAssumption DEF ParserChanges
<1> QED BY <1>1, KeepReader DEF ParserChanges, ReadyKeeps, Readers

\* The write handler.
LEMMA WriteEndChanges ==
    ASSUME Types, NEW c \in Conns, c = Head(ready).conn, WriteEnd
    PROVE  /\ \A d \in Conns : net'[d].read = net[d].read
           /\ \A d \in Conns : d # c => conn'[d] = conn[d]
           /\ conn'[c].obj \in {"alive", "deleted"} /\ conn[c].obj = "alive"
           /\ conn'[c].open => conn[c].open
           /\ conn'[c].obj = "deleted" => CancelTimer(c) /\ ~ conn'[c].open
           /\ conn'[c].obj = "alive" => UNCHANGED timerVars
<1> DEFINE ok == Head(ready).ok
           r == AfterWrite(c)
           q == [r EXCEPT !.open = r.open /\ ~ ok]
           w == Written(r, ok)
<1>1. conn[c] \in Objects /\ conn[c].obj = "alive" /\ Empty \in Responses /\ net[c] \in Sockets
  BY DEF Types, WriteEnd, OfLiving, Empty, Responses
<1>2. r \in Objects /\ r.obj = "alive" /\ r.open = conn[c].open
  BY <1>1 DEF AfterWrite, Objects
<1>3. q \in Objects /\ q.obj = "alive" /\ (q.open => conn[c].open)
  <2>1. (r.open /\ ~ ok) \in BOOLEAN
    OBVIOUS
  <2> QED BY <1>2, <2>1 DEF Objects
<1>4. /\ w.obj \in {"alive", "deleted"} /\ (w.open => conn[c].open)
      /\ w.obj = "deleted" => ~ w.open
  BY <1>2, <1>3, CheckDestroyObj DEF Written
<1>5. conn' = [conn EXCEPT ![c] = w] /\ net' = [net EXCEPT ![c].writes = TornWrites(c)]
  BY DEF WriteEnd, Put
<1>6. conn'[c] = w /\ \A d \in Conns : d # c => conn'[d] = conn[d]
  BY <1>5 DEF Types
<1>7. \A d \in Conns : net'[d].read = net[d].read
  BY <1>1, <1>5 DEF Types, Sockets
<1>8. IF w.obj = "deleted" THEN CancelTimer(c) ELSE UNCHANGED timerVars
  BY DEF WriteEnd
<1> QED BY <1>1, <1>4, <1>6, <1>7, <1>8

LEMMA TakeReaders ==
    ASSUME Types, Readers,
           \/ WriteEnd \/ TimerFires \/ \E op \in {"start", "read", "write"} : UseAfterDelete(op)
    PROVE  Readers'
<1> SUFFICES ASSUME NEW d \in Conns PROVE OneReader(d)'
  BY DEF Readers
<1>1. ready # <<>> /\ ready' = Tail(ready) /\ busy' = busy
  BY DEF WriteEnd, TimerFires, UseAfterDelete, OfLiving, Takes
<1>2. net'[d].read = net[d].read /\ (conn'[d].obj = "none" => conn[d].obj = "none")
  <2>1. CASE WriteEnd
    <3>1. Head(ready).conn \in Conns
      BY <2>1, TakesType DEF WriteEnd, OfLiving
    <3> QED BY <2>1, <3>1, WriteEndChanges
  <2>2. CASE TimerFires
    BY <2>2 DEF Types, TimerFires, Objects
  <2>3. CASE \E op \in {"start", "read", "write"} : UseAfterDelete(op)
    BY <2>3 DEF UseAfterDelete
  <2> QED BY <2>1, <2>2, <2>3
<1> QED BY <1>1, <1>2, KeepReader DEF ReadyKeeps, Readers

LEMMA ElapseReaders == ASSUME Types, Readers, Elapse PROVE Readers'
<1> SUFFICES ASSUME NEW d \in Conns PROVE OneReader(d)'
  BY DEF Readers
<1>1. Done("tick", Null, TRUE, <<>>) \in Operations /\ Done("tick", Null, TRUE, <<>>).op = "tick"
  BY DEF Done, Operations
<1>2. ReadyKeeps(d)
  BY <1>1 DEF Elapse, ReadyKeeps
<1> QED BY <1>2, KeepReader DEF Elapse, Readers

LEMMA InitReaders == Init => Readers
  BY TimerAssumption DEF Init, Readers, OneReader, Idle

LEMMA StepReaders == Types /\ Readers /\ [Next]_vars => Readers'
<1> SUFFICES ASSUME Types, Readers, [Next]_vars PROVE Readers'
  OBVIOUS
<1>1. Types'
  BY StepTypes
<1>2. CASE UNCHANGED vars
  BY <1>2 DEF vars, rest, Readers, OneReader, ReaderAt
<1>3. CASE Worker
  BY <1>3, StartReaders, ReadReaders, ReadEndReaders, TakeReaders, HandleChanges, OthersChange,
     ParserReaders DEF Worker
<1>4. ASSUME NEW c \in Conns,
             \/ Accept(c) \/ Leave(c) \/ Kernel(c)
             \/ \E t \in Tokens : Send(c, t)
             \/ \E i \in 1 .. Len(net[c].writes) : WriteCompletes(c, i)
      PROVE  Readers'
  BY <1>1, <1>4, KernelReaders DEF Kernel
<1> QED BY <1>2, <1>3, <1>4, ElapseReaders DEF Next

-----------------------------------------------------------------------------
(* Deadlines of reads *)

\* A read in flight has a deadline, a deleted connection has none, and a read
\* handler in progress is that of a connection that lives.
Guarded(c) ==
    /\ net[c].read /\ conn[c].open => AgeOf(c) # Null
    /\ conn[c].obj = "deleted" => AgeOf(c) = Null /\ ~ conn[c].open
    /\ busy.conn = c => conn[c].obj = "alive"

AllGuarded == \A c \in Conns : Guarded(c)

\* What the operations of the queue do to the deadlines of the connections.
LEMMA AgeCancelled ==
    ASSUME TimerInv, TimerInv', KeysAreOwn, NEW c \in Conns, CancelTimer(c), NEW d \in Conns
    PROVE  AgeOf(d)' = IF d = c THEN Null ELSE AgeOf(d)
<1>1. ADeadlines!CallOff(c)
  BY CancelRefines DEF KeysAreOwn
<1> QED BY <1>1 DEF ADeadlines!CallOff

LEMMA AgeStarted ==
    ASSUME TimerInv, TimerInv', KeysAreOwn, NEW c \in Conns, StartTimer(c), NEW d \in Conns
    PROVE  AgeOf(d)' = IF d = c THEN 0 ELSE AgeOf(d)
<1>1. ADeadlines!Set(c)
  BY StartRefines DEF KeysAreOwn
<1> QED BY <1>1 DEF ADeadlines!Set

LEMMA AgeElapsed ==
    ASSUME TimerInv, TimerInv', Age, NEW d \in Conns
    PROVE  AgeOf(d)' = Null <=> AgeOf(d) = Null
<1>1. ADeadlines!Elapse
  BY AgeRefines
<1>2. AgeOf(d)' = IF AgeOf(d) = Null THEN Null ELSE ADeadlines!Older(AgeOf(d))
  BY <1>1 DEF ADeadlines!Elapse
<1>3. AgeOf(d) # Null => AgeOf(d) \in Nat
  <2>1. \A i \in 1 .. Len(dq) : dq[i] \in Entries
    BY ElementOfSeq DEF TimerInv, QueueTypes
  <2> QED BY <2>1, OneEntry, TimerAssumption DEF AgesFound, Entries
<1>4. AgeOf(d) # Null => ADeadlines!Older(AgeOf(d)) \in Nat
  BY <1>3, TimerAssumption DEF ADeadlines!Older
<1> QED BY <1>2, <1>4, TimerAssumption

\* A step that takes nothing away keeps a connection guarded.
LEMMA KeepGuarded ==
    ASSUME NEW d \in Conns, Guarded(d), AgeOf(d)' = Null <=> AgeOf(d) = Null,
           net'[d].read => net[d].read, conn'[d].open => conn[d].open,
           conn'[d].obj = conn[d].obj \/ (conn[d].obj = "none" /\ conn'[d].obj = "alive"),
           busy'.conn = d => busy.conn = d
    PROVE  Guarded(d)'
  BY DEF Guarded

\* So does calling its deadline off when no read is in flight or the socket is closed.
LEMMA CallOffGuarded ==
    ASSUME NEW d \in Conns, Guarded(d), AgeOf(d)' = Null, ~ net'[d].read \/ ~ conn'[d].open,
           conn'[d].obj = "deleted" => ~ conn'[d].open,
           busy'.conn = d => conn'[d].obj = "alive"
    PROVE  Guarded(d)'
  BY DEF Guarded

LEMMA KernelGuarded ==
    ASSUME Types, Readers, AllGuarded, NEW c \in Conns,
           \/ Accept(c) \/ Leave(c) \/ ReadCompletes(c)
           \/ \E t \in Tokens : Send(c, t)
           \/ \E i \in 1 .. Len(net[c].writes) : WriteCompletes(c, i) \/ WriteFails(c, i)
    PROVE  AllGuarded'
<1> SUFFICES ASSUME NEW d \in Conns PROVE Guarded(d)'
  BY DEF AllGuarded
<1>1. Guarded(d) /\ net[d] \in Sockets /\ conn[d] \in Objects
  BY DEF AllGuarded, Types
<1>2. busy' = busy /\ AgeOf(d)' = AgeOf(d)
  BY DEF Accept, Leave, ReadCompletes, Send, WriteCompletes, WriteFails, rest, timerVars, AgeOf
<1>3. /\ conn'[d].open = conn[d].open
      /\ conn'[d].obj = conn[d].obj \/ (conn[d].obj = "none" /\ conn'[d].obj = "alive")
  <2>1. CASE Accept(c)
    BY <1>1, <2>1 DEF Types, Accept, Objects
  <2>2. CASE conn' = conn
    BY <2>2
  <2> QED BY <2>1, <2>2 DEF Leave, ReadCompletes, Send, WriteCompletes, WriteFails, rest
<1>4. net'[d].read => net[d].read
  <2>1. CASE Accept(c)
    BY <1>1, <2>1 DEF Types, Accept, Sockets
  <2>2. CASE net' = [net EXCEPT ![c].peer = "finished"]
    BY <1>1, <2>2 DEF Types, Sockets
  <2>3. CASE net' = [net EXCEPT ![c].peer = "reset", ![c].inbox = <<>>]
    BY <1>1, <2>3 DEF Types, Sockets
  <2>4. CASE ReadCompletes(c)
    BY <1>1, <2>4 DEF Types, ReadCompletes, Sockets
  <2>5. ASSUME NEW t \in Tokens, Send(c, t) PROVE net'[d].read => net[d].read
    BY <1>1, <2>5 DEF Types, Send, Sockets
  <2>6. ASSUME NEW i \in 1 .. Len(net[c].writes), WriteCompletes(c, i)
        PROVE  net'[d].read => net[d].read
    BY <1>1, <2>6 DEF Types, WriteCompletes, Sockets
  <2>7. ASSUME NEW i \in 1 .. Len(net[c].writes), WriteFails(c, i)
        PROVE  net'[d].read => net[d].read
    BY <1>1, <2>7 DEF Types, WriteFails, Sockets
  <2> QED BY <2>1, <2>2, <2>3, <2>4, <2>5, <2>6, <2>7 DEF Leave
<1> QED BY <1>1, <1>2, <1>3, <1>4, KeepGuarded

LEMMA ReadMoreGuarded ==
    ASSUME Types, TimerInv, TimerInv', KeysAreOwn, AllGuarded, NEW c \in Conns, ReadMore(c, conn[c]),
           conn[c].obj = "alive", \A d \in Conns : busy'.conn # d
    PROVE  AllGuarded'
<1> SUFFICES ASSUME NEW d \in Conns PROVE Guarded(d)'
  BY DEF AllGuarded
<1>1. /\ net'[c].read /\ (d # c => net'[d] = net[d])
      /\ conn'[d].obj = conn[d].obj /\ conn'[d].open = conn[d].open
  BY ReadMoreReads
<1>2. AgeOf(d)' = IF d = c THEN 0 ELSE AgeOf(d)
  BY AgeStarted DEF ReadMore
<1>3. CASE d = c
  BY <1>1, <1>2, <1>3, TimerAssumption DEF Guarded
<1>4. CASE d # c
  BY <1>1, <1>2, <1>4, KeepGuarded DEF AllGuarded
<1> QED BY <1>3, <1>4

LEMMA ReadErrorGuarded ==
    ASSUME Types, TimerInv, TimerInv', KeysAreOwn, AllGuarded, NEW c \in Conns, ReadError(c),
           \A d \in Conns : busy'.conn # d
    PROVE  AllGuarded'
<1> SUFFICES ASSUME NEW d \in Conns PROVE Guarded(d)'
  BY DEF AllGuarded
<1>1. net' = net /\ ~ conn'[c].open /\ (d # c => conn'[d] = conn[d])
  BY ReadErrorObj, ReadErrorTypes
<1>2. AgeOf(d)' = IF d = c THEN Null ELSE AgeOf(d)
  BY AgeCancelled DEF ReadError
<1>3. CASE d = c
  BY <1>1, <1>2, <1>3, CallOffGuarded DEF AllGuarded
<1>4. CASE d # c
  BY <1>1, <1>2, <1>4, KeepGuarded DEF AllGuarded
<1> QED BY <1>3, <1>4

LEMMA StartGuarded ==
    ASSUME Types, TimerInv, TimerInv', KeysAreOwn, AllGuarded, Start
    PROVE  AllGuarded'
<1>1. Head(ready).conn \in Conns /\ busy' = Idle
  BY TakesType DEF Start, OfLiving
<1> PICK c \in Conns : c = Head(ready).conn
  BY <1>1
<1>2. ReadMore(c, conn[c]) /\ conn[c].obj = "alive"
  BY DEF Start, OfLiving
<1>3. \A d \in Conns : busy'.conn # d
  BY <1>1, TimerAssumption DEF Idle
<1> QED BY <1>2, <1>3, ReadMoreGuarded

LEMMA ReadGuarded ==
    ASSUME Types, TimerInv, TimerInv', KeysAreOwn, AllGuarded, Read
    PROVE  AllGuarded'
<1>1. Head(ready).conn \in Conns /\ busy = Idle
  BY TakesType DEF Read, OfLiving
<1> PICK c \in Conns : c = Head(ready).conn
  BY <1>1
<1>2. CASE Head(ready).ok
  <2> SUFFICES ASSUME NEW d \in Conns PROVE Guarded(d)'
    BY DEF AllGuarded
  <2>1. conn' = conn /\ net' = net /\ AgeOf(d)' = AgeOf(d) /\ conn[c].obj = "alive"
        /\ busy'.conn = c
    BY <1>2 DEF Read, OfLiving, timerVars, AgeOf
  <2> QED BY <2>1 DEF AllGuarded, Guarded
<1>3. CASE ~ Head(ready).ok
  <2>1. ReadError(c) /\ busy' = Idle
    BY <1>1, <1>3 DEF Read
  <2>2. \A d \in Conns : busy'.conn # d
    BY <2>1, TimerAssumption DEF Idle
  <2> QED BY <2>1, <2>2, ReadErrorGuarded
<1> QED BY <1>2, <1>3

LEMMA ReadEndGuarded ==
    ASSUME Types, TimerInv, TimerInv', KeysAreOwn, Readers, AllGuarded, ReadEnd
    PROVE  AllGuarded'
<1>1. busy.conn \in Conns
  BY DEF Types, ReadEnd
<1> PICK c \in Conns : c = busy.conn
  BY <1>1
<1> DEFINE r == [conn[c] EXCEPT !.reading = FALSE]
<1>2. \A d \in Conns : busy'.conn # d
  BY TimerAssumption DEF ReadEnd, Idle
<1>3. conn[c].obj = "alive" /\ conn[c] \in Objects /\ ~ net[c].read
  BY DEF AllGuarded, Guarded, Types, Readers, OneReader
<1>4. CASE ReadError(c)
  BY <1>2, <1>4, ReadErrorGuarded
<1>5. CASE ReadMore(c, conn[c])
  BY <1>2, <1>3, <1>5, ReadMoreGuarded
<1>6. CASE CancelTimer(c) /\ Put(c, CheckDestroy(r)) /\ UNCHANGED net
  <2> SUFFICES ASSUME NEW d \in Conns PROVE Guarded(d)'
    BY DEF AllGuarded
  <2>1. r \in Objects /\ r.obj = "alive"
    BY <1>3 DEF Objects
  <2>2. CheckDestroy(r).obj = "deleted" => ~ CheckDestroy(r).open
    BY <2>1, CheckDestroyObj
  <2>3. conn'[c] = CheckDestroy(r) /\ (d # c => conn'[d] = conn[d])
    BY <1>6 DEF Types, Put
  <2>4. AgeOf(d)' = IF d = c THEN Null ELSE AgeOf(d)
    BY <1>6, AgeCancelled
  <2>5. CASE d = c
    BY <1>2, <1>3, <1>6, <2>2, <2>3, <2>4, <2>5, CallOffGuarded DEF AllGuarded
  <2>6. CASE d # c
    BY <1>2, <1>6, <2>3, <2>4, <2>6, KeepGuarded DEF AllGuarded
  <2> QED BY <2>5, <2>6
<1> QED BY <1>4, <1>5, <1>6 DEF ReadEnd

LEMMA WriteEndGuarded ==
    ASSUME Types, TimerInv, TimerInv', KeysAreOwn, AllGuarded, WriteEnd
    PROVE  AllGuarded'
<1>1. Head(ready).conn \in Conns /\ busy = Idle /\ busy' = Idle
  BY TakesType DEF WriteEnd, OfLiving
<1> PICK c \in Conns : c = Head(ready).conn
  BY <1>1
<1> SUFFICES ASSUME NEW d \in Conns PROVE Guarded(d)'
  BY DEF AllGuarded
<1>2. busy'.conn # d
  BY <1>1, TimerAssumption DEF Idle
<1>3. /\ net'[d].read = net[d].read
      /\ d # c => conn'[d] = conn[d]
      /\ conn'[c].obj \in {"alive", "deleted"} /\ conn[c].obj = "alive"
      /\ conn'[c].open => conn[c].open
      /\ conn'[c].obj = "deleted" => CancelTimer(c) /\ ~ conn'[c].open
      /\ conn'[c].obj = "alive" => UNCHANGED timerVars
  BY WriteEndChanges
<1>4. CASE conn'[c].obj = "deleted"
  <2>1. AgeOf(d)' = IF d = c THEN Null ELSE AgeOf(d)
    BY <1>3, <1>4, AgeCancelled
  <2>2. CASE d = c
    BY <1>2, <1>3, <1>4, <2>1, <2>2, CallOffGuarded DEF AllGuarded
  <2>3. CASE d # c
    BY <1>2, <1>3, <2>1, <2>3, KeepGuarded DEF AllGuarded
  <2> QED BY <2>2, <2>3
<1>5. CASE conn'[c].obj = "alive"
  <2>1. AgeOf(d)' = AgeOf(d)
    BY <1>3, <1>5 DEF timerVars, AgeOf
  <2> QED BY <1>2, <1>3, <1>5, <2>1, KeepGuarded DEF AllGuarded
<1> QED BY <1>3, <1>4, <1>5

\* The callbacks that are due are those of connections that live, which they close.
LEMMA TimerFiresGuarded ==
    ASSUME Types, TimerInv, TimerInv', AllGuarded, TimerFires
    PROVE  AllGuarded'
<1> SUFFICES ASSUME NEW d \in Conns PROVE Guarded(d)'
  BY DEF AllGuarded
<1>1. PICK n \in 0 .. Len(dq) :
        /\ Pop(n)
        /\ IF \E c \in Fired(n) : conn[c].obj = "deleted"
           THEN fault' = "use_after_delete" /\ UNCHANGED conn
           ELSE /\ conn' = [c \in Conns |->
                              IF c \in Fired(n) THEN [conn[c] EXCEPT !.open = FALSE] ELSE conn[c]]
                /\ UNCHANGED fault
  BY DEF TimerFires
<1>2. net' = net /\ busy' = busy /\ busy = Idle
  BY DEF TimerFires, Takes
<1>3. busy'.conn # d
  BY <1>2, TimerAssumption DEF Idle
<1>4. Fired(n) \subseteq Conns
  <2>1. \A i \in 1 .. Len(dq) : dq[i] \in Entries
    BY ElementOfSeq DEF TimerInv, QueueTypes
  <2>2. \A i \in 1 .. n : i \in 1 .. Len(dq)
    BY LenProperties DEF TimerInv, QueueTypes
  <2> QED BY <2>1, <2>2 DEF Fired, Entries
<1>5. \A c \in Fired(n) : conn[c].obj # "deleted"
  BY <1>4, FiredHadDeadline DEF AllGuarded, Guarded
<1>6. conn' = [c \in Conns |->
                 IF c \in Fired(n) THEN [conn[c] EXCEPT !.open = FALSE] ELSE conn[c]]
  BY <1>1, <1>5
<1>7. CASE d \in Fired(n)
  <2>1. ~ conn'[d].open /\ conn'[d].obj = conn[d].obj
    BY <1>6, <1>7 DEF Types, Objects
  <2> QED BY <1>3, <1>5, <1>7, <2>1 DEF Guarded
<1>8. CASE d \notin Fired(n)
  <2>1. AgeOf(d)' = AgeOf(d)
    BY <1>1, <1>8, PopKeepsOthers
  <2>2. conn'[d] = conn[d]
    BY <1>6, <1>8
  <2> QED BY <1>2, <2>1, <2>2, KeepGuarded DEF AllGuarded
<1> QED BY <1>7, <1>8

\* The parser calls the deadline off while no read is in flight.
LEMMA ParserGuarded ==
    ASSUME Types, TimerInv, TimerInv', KeysAreOwn, Readers, AllGuarded, ParserChanges,
           busy # Idle, CancelTimer(busy.conn) \/ UNCHANGED timerVars
    PROVE  AllGuarded'
<1>1. busy.conn \in Conns
  BY DEF Types
<1> PICK c \in Conns : c = busy.conn
  BY <1>1
<1> SUFFICES ASSUME NEW d \in Conns PROVE Guarded(d)'
  BY DEF AllGuarded
<1>2. /\ net'[d].read = net[d].read
      /\ busy'.conn = d => d = c
      /\ conn'[d].obj = conn[d].obj /\ conn'[d].open = conn[d].open
  BY TimerAssumption DEF ParserChanges
<1>3. ~ net[c].read /\ conn[c].obj = "alive"
  BY DEF Readers, OneReader, AllGuarded, Guarded
<1>4. CASE CancelTimer(c)
  <2>1. AgeOf(d)' = IF d = c THEN Null ELSE AgeOf(d)
    BY <1>4, AgeCancelled
  <2>2. CASE d = c
    BY <1>2, <1>3, <2>1, <2>2, CallOffGuarded DEF AllGuarded
  <2>3. CASE d # c
    BY <1>2, <2>1, <2>3, KeepGuarded DEF AllGuarded
  <2> QED BY <2>2, <2>3
<1>5. CASE UNCHANGED timerVars
  <2>1. AgeOf(d)' = AgeOf(d)
    BY <1>5 DEF timerVars, AgeOf
  <2> QED BY <1>2, <2>1, KeepGuarded DEF AllGuarded
<1> QED BY <1>4, <1>5

LEMMA InitGuarded == Init => AllGuarded
  BY TimerAssumption DEF Init, AllGuarded, Guarded, Idle

LEMMA StepGuarded ==
    Types /\ TimerInv /\ Readers /\ AllGuarded /\ KeysAreOwn /\ [Next]_vars => AllGuarded'
<1> SUFFICES ASSUME Types, TimerInv, Readers, AllGuarded, KeysAreOwn, [Next]_vars
             PROVE  AllGuarded'
  OBVIOUS
<1>1. Types' /\ TimerInv'
  BY StepTypes, StepTimers
<1>2. ASSUME UNCHANGED <<timerVars, conn, net, busy>> PROVE AllGuarded'
  BY <1>2 DEF timerVars, AgeOf, AllGuarded, Guarded
<1>3. ASSUME NEW op \in {"start", "read", "write"}, UseAfterDelete(op) PROVE AllGuarded'
  BY <1>2, <1>3 DEF UseAfterDelete
<1>4. CASE ParseFails \/ HandleHeader \/ HandleUpgrade
  <2>1. busy # Idle /\ (CancelTimer(busy.conn) \/ UNCHANGED timerVars)
    BY <1>4 DEF ParseFails, HandleHeader, HandleUpgrade, Parses
  <2> QED BY <1>1, <1>4, <2>1, OthersChange, ParserGuarded
<1>5. ASSUME NEW t \in Requests, Handle(t) PROVE AllGuarded'
  <2>1. busy # Idle /\ CancelTimer(busy.conn)
    BY <1>5 DEF Handle, Parses
  <2> QED BY <1>1, <1>5, <2>1, HandleChanges, ParserGuarded
<1>6. CASE Elapse
  <2> SUFFICES ASSUME NEW d \in Conns PROVE Guarded(d)'
    BY DEF AllGuarded
  <2> QED BY <1>1, <1>6, AgeElapsed, KeepGuarded DEF Elapse, AllGuarded
<1>7. CASE UNCHANGED vars
  BY <1>2, <1>7 DEF vars, rest
<1>8. CASE Worker
  BY <1>1, <1>3, <1>4, <1>5, <1>8, StartGuarded, ReadGuarded, ReadEndGuarded, WriteEndGuarded,
     TimerFiresGuarded DEF Worker
<1>9. ASSUME NEW c \in Conns,
             \/ Accept(c) \/ Leave(c) \/ Kernel(c)
             \/ \E t \in Tokens : Send(c, t)
             \/ \E i \in 1 .. Len(net[c].writes) : WriteCompletes(c, i)
      PROVE  AllGuarded'
  BY <1>9, KernelGuarded DEF Kernel
<1> QED BY <1>6, <1>7, <1>8, <1>9 DEF Next

\* A read that may keep a connection alive has a deadline that will close it, and a
\* connection that has deleted itself has none that would call it back.  As for
\* DeadlinesImplemented, no key may come to find another's entry.
THEOREM ReadsAreGuarded == Spec /\ []KeysAreOwn => []ReadsHaveDeadlines
<1>1. AllGuarded => ReadsHaveDeadlines
  BY DEF AllGuarded, Guarded, ReadsHaveDeadlines
<1>2. Spec => [](Types /\ TimerInv /\ Readers)
  BY InitTypes, InitTimers, InitReaders, StepTypes, StepTimers, StepReaders, PTL DEF Spec
<1>3. Spec /\ []KeysAreOwn => []AllGuarded
  BY <1>2, InitGuarded, StepGuarded, PTL DEF Spec
<1> QED BY <1>1, <1>3, PTL

-----------------------------------------------------------------------------
(* Peers that wait for their answers *)

OpAt(i, op, c) == ready[i].op = op /\ ready[i].conn = c

\* The parser has a token of c to look at.
Parsing(c) == busy.conn = c /\ busy.todo # <<>>

\* Nothing more that c is sent will be parsed.
Finished(c) ==
    /\ conn[c].obj # "none" /\ ~ net[c].read
    /\ \A i \in 1 .. Len(ready) : ~ ReaderAt(i, c)
    /\ busy.conn = c => busy.todo = <<>> /\ conn[c].closing

\* No further answer reaches the peer.
Lost(c) == ~ conn[c].open \/ net[c].peer = "reset" \/ Finished(c)

\* is_reading holds back check_destroy as long as a read may call back.
ReadingTells(c) ==
    /\ net[c].read \/ busy.conn = c => conn[c].reading
    /\ \A i \in 1 .. Len(ready) :
        /\ OpAt(i, "read", c) => conn[c].reading
        /\ OpAt(i, "start", c) => conn[c].obj = "alive" /\ ~ conn[c].writing
    /\ conn[c].obj = "none" => ~ conn[c].writing /\ net[c].peer = "none"
    /\ conn[c].obj = "deleted" => ~ conn[c].reading /\ ~ conn[c].writing

\* There is one write in flight, or one whose handler is to run, just as
\* is_writing says, and the response is complete for no longer.
WritingTells(c) ==
    /\ net[c].writes # <<>> =>
        /\ conn[c].writing /\ net[c].awaiting
        /\ net[c].writes = <<Write(net[c].writes[1].by)>>
        /\ \A i \in 1 .. Len(ready) : ~ OpAt(i, "write", c)
    /\ \A i \in 1 .. Len(ready) : OpAt(i, "write", c) => conn[c].writing
    /\ \A i, j \in 1 .. Len(ready) : OpAt(i, "write", c) /\ OpAt(j, "write", c) => i = j
    /\ conn[c].writing => net[c].writes # <<>> \/ \E i \in 1 .. Len(ready) : OpAt(i, "write", c)
    /\ conn[c].res.completed => conn[c].writing \/ Finished(c)

\* At most one token is on its way, and then nothing is written and the handler
\* of the write before it runs first.
OneToken(c) ==
    /\ net[c].inbox # <<>> =>
        /\ net[c].awaiting /\ net[c].writes = <<>> /\ Len(net[c].inbox) = 1 /\ ~ Parsing(c)
        /\ \A i \in 1 .. Len(ready) : OpAt(i, "read", c) => ready[i].data = <<>>
    /\ \A i \in 1 .. Len(ready) : OpAt(i, "read", c) /\ ready[i].data # <<>> =>
        /\ net[c].awaiting /\ net[c].writes = <<>> /\ Len(ready[i].data) = 1
        /\ \A j \in 1 .. Len(ready) : OpAt(j, "write", c) => j < i
    /\ Parsing(c) =>
        /\ net[c].awaiting /\ net[c].writes = <<>> /\ Len(busy.todo) = 1
        /\ \A j \in 1 .. Len(ready) : ~ OpAt(j, "write", c)

\* Of the requests that have been counted all have been answered, but for the
\* last if its answer is in flight or will never be taken.
Counted(c) ==
    /\ \A i \in 1 .. Len(net[c].answers) :
        net[c].answers[i].by # 0 => net[c].answers[i] = Write(Answered(c, i))
    /\ net[c].writes # <<>> /\ net[c].writes[1].by # 0 =>
        /\ net[c].writes[1].by = Answered(c, Len(net[c].answers)) + 1
        /\ conn[c].count = Answered(c, Len(net[c].answers)) + 1
    /\ net[c].writes = <<>> \/ net[c].writes[1].by = 0 =>
        conn[c].count = Answered(c, Len(net[c].answers)) \/ Lost(c)

Tidy(c) == ReadingTells(c) /\ WritingTells(c) /\ OneToken(c) /\ Counted(c)

Orderly == \A c \in Conns : ~ net[c].hasty => Tidy(c)

\* One operation is added to those that have completed.
LEMMA OpAdded ==
    ASSUME Types, NEW x \in Operations, ready' = Append(ready, x)
    PROVE  /\ Len(ready) \in Nat /\ Len(ready)' = Len(ready) + 1
           /\ \A i \in 1 .. Len(ready) :
                i \in 1 .. Len(ready)' /\ ready'[i] = ready[i] /\ i < Len(ready) + 1
           /\ Len(ready) + 1 \in 1 .. Len(ready)' /\ ready'[Len(ready) + 1] = x
           /\ \A i \in 1 .. Len(ready)' : i \in 1 .. Len(ready) \/ i = Len(ready) + 1
<1>1. /\ Len(ready) \in Nat /\ Len(ready)' = Len(ready) + 1
      /\ \A i \in 1 .. Len(ready) : ready'[i] = ready[i]
      /\ ready'[Len(ready) + 1] = x
  BY ReadyAppend DEF Types
<1> QED BY <1>1

\* The first of them is taken.
LEMMA OpTaken ==
    ASSUME Types, ready # <<>>, ready' = Tail(ready)
    PROVE  /\ Head(ready) = ready[1] /\ 1 \in 1 .. Len(ready)
           /\ \A i \in 1 .. Len(ready)' :
                i + 1 \in 1 .. Len(ready) /\ ready'[i] = ready[i + 1] /\ i + 1 # 1
           /\ \A i \in 1 .. Len(ready) :
                i # 1 => i - 1 \in 1 .. Len(ready)' /\ ready'[i - 1] = ready[i]
<1>1. /\ Head(ready) = ready[1] /\ 1 \in 1 .. Len(ready)
      /\ Len(ready) \in Nat /\ Len(ready)' = Len(ready) - 1
      /\ \A i \in 1 .. Len(ready)' : i + 1 \in 1 .. Len(ready) /\ ready'[i] = ready[i + 1]
  BY TailReady DEF Types
<1>2. ASSUME NEW i \in 1 .. Len(ready), i # 1
      PROVE  i - 1 \in 1 .. Len(ready)' /\ ready'[i - 1] = ready[i]
  <2>1. i - 1 \in 1 .. Len(ready)' /\ (i - 1) + 1 = i
    BY <1>1, <1>2
  <2> QED BY <1>1, <2>1
<1> QED BY <1>1, <1>2

\* The operations of c are the same before and after a step, up to a shift.
OpsKept(c) == \E k \in {0, 1} :
    /\ \A i \in 1 .. Len(ready)' : ready'[i].conn = c =>
        i + k \in 1 .. Len(ready) /\ ready'[i] = ready[i + k]
    /\ \A i \in 1 .. Len(ready) : ready[i].conn = c =>
        i - k \in 1 .. Len(ready)' /\ ready'[i - k] = ready[i]

\* So are its object and its socket, but that the object may be closed and its
\* peer leave.
Undisturbed(c) ==
    /\ OpsKept(c)
    /\ busy'.conn = c <=> busy.conn = c
    /\ busy.conn = c => busy' = busy
    /\ conn'[c].obj = conn[c].obj /\ conn'[c].reading = conn[c].reading
    /\ conn'[c].writing = conn[c].writing /\ conn'[c].closing = conn[c].closing
    /\ conn'[c].count = conn[c].count /\ conn'[c].res = conn[c].res
    /\ conn'[c].open => conn[c].open
    /\ net'[c].read = net[c].read /\ net'[c].writes = net[c].writes
    /\ net'[c].answers = net[c].answers /\ net'[c].hasty = net[c].hasty
    /\ net'[c].awaiting = net[c].awaiting /\ net'[c].inbox \in {net[c].inbox, <<>>}
    /\ net'[c].peer # net[c].peer => net[c].peer \notin {"none", "reset"}

LEMMA OpsKeptCases ==
    ASSUME Types, NEW c \in Conns,
           \/ ready' = ready
           \/ ready # <<>> /\ ready' = Tail(ready) /\ Head(ready).conn # c
           \/ \E x \in Operations : ready' = Append(ready, x) /\ x.conn # c
    PROVE  OpsKept(c)
<1>1. CASE ready' = ready
  <2>1. \A i \in 1 .. Len(ready) : i + 0 = i /\ i - 0 = i
    OBVIOUS
  <2> QED BY <1>1, <2>1 DEF OpsKept
<1>2. CASE ready # <<>> /\ ready' = Tail(ready) /\ Head(ready).conn # c
  BY <1>2, OpTaken DEF OpsKept
<1>3. ASSUME NEW x \in Operations, ready' = Append(ready, x), x.conn # c
      PROVE  OpsKept(c)
  <2>1. \A i \in 1 .. Len(ready) : i + 0 = i /\ i - 0 = i
    OBVIOUS
  <2>2. /\ \A i \in 1 .. Len(ready)' : ready'[i].conn = c => i \in 1 .. Len(ready)
        /\ \A i \in 1 .. Len(ready) : i \in 1 .. Len(ready)' /\ ready'[i] = ready[i]
    BY <1>3, OpAdded
  <2> QED BY <2>1, <2>2 DEF OpsKept
<1> QED BY <1>1, <1>2, <1>3

LEMMA UndisturbedTidy ==
    ASSUME Types, NEW c \in Conns, Undisturbed(c), Tidy(c)
    PROVE  Tidy(c)'
<1>1. PICK k \in {0, 1} :
        /\ \A i \in 1 .. Len(ready)' : ready'[i].conn = c =>
            i + k \in 1 .. Len(ready) /\ ready'[i] = ready[i + k]
        /\ \A i \in 1 .. Len(ready) : ready[i].conn = c =>
            i - k \in 1 .. Len(ready)' /\ ready'[i - k] = ready[i]
  BY DEF Undisturbed, OpsKept
<1>2. /\ \A i \in 1 .. Len(ready)', op \in {"start", "read", "write"} :
            OpAt(i, op, c)' => i + k \in 1 .. Len(ready) /\ OpAt(i + k, op, c)
                               /\ ready'[i] = ready[i + k]
      /\ \A i \in 1 .. Len(ready)' : 
            ReaderAt(i, c)' => i + k \in 1 .. Len(ready) /\ ReaderAt(i + k, c)
      /\ \A i \in 1 .. Len(ready), op \in {"start", "read", "write"} :
            OpAt(i, op, c) => i - k \in 1 .. Len(ready)' /\ OpAt(i - k, op, c)'
  BY <1>1 DEF OpAt, ReaderAt
<1>3. Finished(c) => Finished(c)'
  BY <1>2 DEF Undisturbed, Finished
<1>4. Lost(c) => Lost(c)'
  BY <1>3 DEF Undisturbed, Lost
<1>5. Parsing(c)' = Parsing(c)
  BY DEF Undisturbed, Parsing
<1>6. \A n : Answered(c, n)' = Answered(c, n)
  BY DEF Undisturbed, Answered
<1>7. ReadingTells(c)'
  BY <1>2 DEF Undisturbed, Tidy, ReadingTells
<1>8. WritingTells(c)'
  <2>1. ASSUME NEW i \in 1 .. Len(ready)', NEW j \in 1 .. Len(ready)',
               OpAt(i, "write", c)', OpAt(j, "write", c)'
        PROVE  i = j
    <3>1. i + k = j + k
      BY <1>2, <2>1 DEF Tidy, WritingTells
    <3> QED BY <3>1
  <2>2. conn'[c].writing =>
            net'[c].writes # <<>> \/ \E i \in 1 .. Len(ready)' : OpAt(i, "write", c)'
    BY <1>2 DEF Undisturbed, Tidy, WritingTells
  <2> QED BY <1>2, <1>3, <2>1, <2>2 DEF Undisturbed, Tidy, WritingTells
<1>9. OneToken(c)'
  <2>1. ASSUME NEW i \in 1 .. Len(ready)', NEW j \in 1 .. Len(ready)',
               OpAt(i, "read", c)', ready'[i].data # <<>>, OpAt(j, "write", c)'
        PROVE  j < i
    <3>1. j + k < i + k
      BY <1>2, <2>1 DEF Tidy, OneToken
    <3> QED BY <3>1
  <2>2. net'[c].inbox # <<>> =>
        /\ net'[c].awaiting /\ net'[c].writes = <<>> /\ Len(net'[c].inbox) = 1 /\ ~ Parsing(c)'
        /\ \A i \in 1 .. Len(ready)' : OpAt(i, "read", c)' => ready'[i].data = <<>>
    BY <1>2, <1>5 DEF Undisturbed, Tidy, OneToken
  <2>3. \A i \in 1 .. Len(ready)' : OpAt(i, "read", c)' /\ ready'[i].data # <<>> =>
        net'[c].awaiting /\ net'[c].writes = <<>> /\ Len(ready'[i].data) = 1
    BY <1>2 DEF Undisturbed, Tidy, OneToken
  <2>4. Parsing(c)' =>
        /\ net'[c].awaiting /\ net'[c].writes = <<>> /\ Len(busy'.todo) = 1
        /\ \A j \in 1 .. Len(ready)' : ~ OpAt(j, "write", c)'
    BY <1>2, <1>5 DEF Undisturbed, Tidy, OneToken, Parsing
  <2> QED BY <2>1, <2>2, <2>3, <2>4 DEF OneToken
<1>10. Counted(c)'
  BY <1>4, <1>6 DEF Undisturbed, Tidy, Counted
<1> QED BY <1>7, <1>8, <1>9, <1>10 DEF Tidy

\* What a step leaves alone is undisturbed.
LEMMA AloneTidy ==
    ASSUME Types, NEW d \in Conns, Tidy(d), conn'[d] = conn[d], net'[d] = net[d],
           busy'.conn = d <=> busy.conn = d, busy.conn = d => busy' = busy,
           \/ ready' = ready
           \/ ready # <<>> /\ ready' = Tail(ready) /\ Head(ready).conn # d
           \/ \E x \in Operations : ready' = Append(ready, x) /\ x.conn # d
    PROVE  Tidy(d)'
<1>1. OpsKept(d)
  BY OpsKeptCases
<1>2. Undisturbed(d)
  BY <1>1 DEF Undisturbed
<1> QED BY <1>2, UndisturbedTidy

LEMMA AcceptTidy ==
    ASSUME Types, Readers, NEW c \in Conns, Tidy(c), Accept(c)
    PROVE  Tidy(c)'
<1> DEFINE x == Done("start", c, TRUE, <<>>)
           n == Len(ready) + 1
<1>1. conn[c] \in Objects /\ net[c] \in Sockets /\ conn[c].obj = "none"
  BY DEF Types, Accept
<1>2. conn'[c] = [conn[c] EXCEPT !.obj = "alive"] /\ busy' = busy
  BY DEF Types, Accept
<1>3. /\ conn'[c].obj = "alive" /\ conn'[c].reading = conn[c].reading
      /\ conn'[c].writing = conn[c].writing /\ conn'[c].count = conn[c].count
      /\ conn'[c].res = conn[c].res /\ conn'[c].open = conn[c].open
  BY <1>1, <1>2 DEF Objects
<1>4. /\ net'[c].read = net[c].read /\ net'[c].writes = net[c].writes
      /\ net'[c].inbox = net[c].inbox /\ net'[c].awaiting = net[c].awaiting
      /\ net'[c].answers = net[c].answers
  BY <1>1 DEF Types, Accept, Sockets
<1>5. x \in Operations /\ x.op = "start" /\ x.conn = c /\ ready' = Append(ready, x)
  <2>1. <<>> \in Seq(Tokens)
    OBVIOUS
  <2> QED BY <2>1, DoneType DEF Done, Accept
<1>6. ~ net[c].read /\ busy.conn # c /\ \A i \in 1 .. Len(ready) : ~ ReaderAt(i, c)
  BY <1>1 DEF Readers, OneReader
<1>7. ~ conn[c].writing /\ net[c].peer = "none"
  BY <1>1 DEF Tidy, ReadingTells
<1>8. net[c].writes = <<>> /\ \A i \in 1 .. Len(ready) : ~ OpAt(i, "write", c)
  BY <1>7 DEF Tidy, WritingTells
<1>9. /\ \A i \in 1 .. Len(ready)' : ~ OpAt(i, "write", c)' /\ ~ OpAt(i, "read", c)'
      /\ ~ Parsing(c)
  <2>1. \A i \in 1 .. Len(ready) : i \in 1 .. Len(ready)' /\ ready'[i] = ready[i]
    BY <1>5, OpAdded
  <2>2. ready'[n] = x /\ \A i \in 1 .. Len(ready)' : i \in 1 .. Len(ready) \/ i = n
    BY <1>5, OpAdded
  <2>3. \A i \in 1 .. Len(ready) : ~ OpAt(i, "read", c)
    BY <1>6 DEF OpAt, ReaderAt
  <2> QED BY <1>5, <1>6, <1>8, <2>1, <2>2, <2>3 DEF OpAt, Parsing
<1>10. ReadingTells(c)'
  BY <1>2, <1>3, <1>4, <1>6, <1>7, <1>9 DEF ReadingTells
<1>11. WritingTells(c)'
  BY <1>1, <1>3, <1>4, <1>7, <1>8, <1>9 DEF WritingTells, Tidy, Finished
<1>12. OneToken(c)'
  BY <1>2, <1>4, <1>6, <1>8, <1>9 DEF OneToken, Tidy, Parsing
<1>13. Counted(c)'
  <2>1. \A m : Answered(c, m)' = Answered(c, m)
    BY <1>4 DEF Answered
  <2>2. Lost(c) => Lost(c)'
    BY <1>1, <1>3, <1>7 DEF Lost, Finished
  <2> QED BY <1>3, <1>4, <1>8, <2>1, <2>2 DEF Counted, Tidy
<1> QED BY <1>10, <1>11, <1>12, <1>13 DEF Tidy

LEMMA SendTidy ==
    ASSUME Types, NEW c \in Conns, NEW t \in Tokens, Tidy(c), Send(c, t), ~ net'[c].hasty
    PROVE  Tidy(c)'
<1>1. net[c] \in Sockets /\ net[c].inbox \in Seq(Tokens)
  BY DEF Types, Sockets
<1>2. /\ net'[c].read = net[c].read /\ net'[c].writes = net[c].writes
      /\ net'[c].inbox = Append(net[c].inbox, t) /\ net'[c].awaiting
      /\ net'[c].answers = net[c].answers /\ net'[c].peer = net[c].peer
      /\ ~ net[c].awaiting /\ conn' = conn /\ ready' = ready /\ busy' = busy
  BY <1>1 DEF Types, Send, Sockets, rest
<1>3. /\ net[c].writes = <<>> /\ net[c].inbox = <<>> /\ ~ Parsing(c)
      /\ \A i \in 1 .. Len(ready) : OpAt(i, "read", c) => ready[i].data = <<>>
  BY <1>2 DEF Tidy, WritingTells, OneToken
<1>4. Len(net'[c].inbox) = 1
  BY <1>1, <1>2, <1>3
<1>5. \A i : \A op : (OpAt(i, op, c)' = OpAt(i, op, c)) /\ (ReaderAt(i, c)' = ReaderAt(i, c))
  BY <1>2 DEF OpAt, ReaderAt
<1>6. Parsing(c)' = Parsing(c) /\ Finished(c)' = Finished(c) /\ Lost(c)' = Lost(c)
  BY <1>2, <1>5 DEF Parsing, Finished, Lost
<1>7. \A m : Answered(c, m)' = Answered(c, m)
  BY <1>2 DEF Answered
<1>8. ReadingTells(c)'
  BY <1>2, <1>5 DEF ReadingTells, Tidy
<1>9. WritingTells(c)'
  BY <1>2, <1>3, <1>5, <1>6 DEF WritingTells, Tidy
<1>10. OneToken(c)'
  BY <1>2, <1>3, <1>4, <1>5, <1>6 DEF OneToken, Tidy
<1>11. Counted(c)'
  BY <1>2, <1>3, <1>6, <1>7 DEF Counted, Tidy
<1> QED BY <1>8, <1>9, <1>10, <1>11 DEF Tidy

LEMMA LeaveTidy ==
    ASSUME Types, NEW c \in Conns, Tidy(c), Leave(c)
    PROVE  Tidy(c)'
<1>1. net[c] \in Sockets /\ conn' = conn /\ ready' = ready /\ busy' = busy
  BY DEF Types, Leave, rest
<1>2. OpsKept(c)
  BY <1>1, OpsKeptCases
<1>3. /\ net'[c].read = net[c].read /\ net'[c].writes = net[c].writes
      /\ net'[c].answers = net[c].answers /\ net'[c].hasty = net[c].hasty
      /\ net'[c].awaiting = net[c].awaiting /\ net'[c].inbox \in {net[c].inbox, <<>>}
      /\ net'[c].peer # net[c].peer => net[c].peer \notin {"none", "reset"}
  <2>1. CASE net[c].peer = "connected" /\ net' = [net EXCEPT ![c].peer = "finished"]
    BY <1>1, <2>1 DEF Types, Sockets
  <2>2. CASE /\ net[c].peer \in {"connected", "finished"}
             /\ net' = [net EXCEPT ![c].peer = "reset", ![c].inbox = <<>>]
    BY <1>1, <2>2 DEF Types, Sockets
  <2> QED BY <2>1, <2>2 DEF Leave
<1>4. Undisturbed(c)
  BY <1>1, <1>2, <1>3 DEF Undisturbed
<1> QED BY <1>4, UndisturbedTidy

LEMMA ReadCompletesTidy ==
    ASSUME Types, Readers, NEW c \in Conns, Tidy(c), ReadCompletes(c)
    PROVE  Tidy(c)'
<1> DEFINE n == Len(ready) + 1
<1>1. net[c] \in Sockets /\ net[c].inbox \in Seq(Tokens) /\ <<>> \in Seq(Tokens)
      /\ conn' = conn /\ busy' = busy /\ net[c].read
  BY DEF Types, Sockets, ReadCompletes
<1>2. PICK ok \in BOOLEAN, data \in {net[c].inbox, <<>>} :
        ready' = Append(ready, Done("read", c, ok, data))
  BY DEF ReadCompletes
<1> DEFINE x == Done("read", c, ok, data)
<1>3. x \in Operations /\ x.op = "read" /\ x.conn = c /\ x.data = data
  BY <1>1, DoneType DEF Done
<1>4. /\ ~ net'[c].read /\ net'[c].writes = net[c].writes
      /\ net'[c].inbox = <<>> /\ net'[c].awaiting = net[c].awaiting
      /\ net'[c].answers = net[c].answers /\ net'[c].peer = net[c].peer
  BY <1>1 DEF Types, ReadCompletes, Sockets
<1>5. /\ busy.conn # c /\ conn[c].obj # "none"
      /\ \A i \in 1 .. Len(ready) : ~ ReaderAt(i, c)
  BY <1>1 DEF Readers, OneReader
<1>6. \A i \in 1 .. Len(ready) : ~ OpAt(i, "read", c) /\ ~ OpAt(i, "start", c)
  BY <1>5 DEF OpAt, ReaderAt
<1>7. /\ \A i \in 1 .. Len(ready) :
            i \in 1 .. Len(ready)' /\ ready'[i] = ready[i] /\ i < n
      /\ n \in 1 .. Len(ready)' /\ ready'[n] = x
      /\ \A i \in 1 .. Len(ready)' : i \in 1 .. Len(ready) \/ i = n
  BY <1>2, <1>3, OpAdded
<1> HIDE DEF n, x
<1>8. /\ \A i \in 1 .. Len(ready)' : OpAt(i, "read", c)' => i = n
      /\ \A i \in 1 .. Len(ready)' : ~ OpAt(i, "start", c)'
      /\ \A i \in 1 .. Len(ready)' :
            OpAt(i, "write", c)' => i \in 1 .. Len(ready) /\ OpAt(i, "write", c) /\ i < n
      /\ \A i \in 1 .. Len(ready) : OpAt(i, "write", c) => OpAt(i, "write", c)'
  BY <1>3, <1>6, <1>7 DEF OpAt
<1>9. conn[c].reading
  BY <1>1 DEF Tidy, ReadingTells
<1>10. ~ Finished(c) /\ ~ Parsing(c)' /\ \A m : Answered(c, m)' = Answered(c, m)
  BY <1>1, <1>4, <1>5 DEF Finished, Parsing, Answered
<1>11. Lost(c) => Lost(c)'
  BY <1>1, <1>4, <1>10 DEF Lost
<1>12. ReadingTells(c)'
  BY <1>1, <1>4, <1>5, <1>8, <1>9 DEF ReadingTells, Tidy
<1>13. WritingTells(c)'
  BY <1>1, <1>4, <1>7, <1>8, <1>10 DEF WritingTells, Tidy
<1>14. OneToken(c)'
  <2>1. ready'[n].data # <<>> =>
            net'[c].awaiting /\ net'[c].writes = <<>> /\ Len(ready'[n].data) = 1
    BY <1>3, <1>4, <1>7 DEF OneToken, Tidy
  <2> QED BY <1>4, <1>8, <1>10, <2>1 DEF OneToken
<1>15. Counted(c)'
  BY <1>1, <1>4, <1>10, <1>11 DEF Counted, Tidy
<1> QED BY <1>12, <1>13, <1>14, <1>15 DEF Tidy

\* The answers are numbered as they come.
LEMMA AnsweredMore ==
    ASSUME NEW c \in Conns, NEW w \in Writes, net[c].answers \in Seq(Writes),
           net'[c].answers = Append(net[c].answers, w)
    PROVE  LET n == Len(net[c].answers) IN
           /\ n \in Nat /\ Len(net'[c].answers) = n + 1
           /\ \A i \in 1 .. n : net'[c].answers[i] = net[c].answers[i]
           /\ net'[c].answers[n + 1] = w
           /\ \A i \in 0 .. n : Answered(c, i)' = Answered(c, i)
           /\ Answered(c, n) \in Nat
           /\ \A m : m = n + 1 =>
                Answered(c, m)' = Answered(c, n) + (IF w.by # 0 THEN 1 ELSE 0)
<1> DEFINE n == Len(net[c].answers)
           S(i) == {j \in 1 .. i : net[c].answers[j].by # 0}
           T(i) == {j \in 1 .. i : net'[c].answers[j].by # 0}
<1>1. /\ n \in Nat /\ Len(net'[c].answers) = n + 1
      /\ \A i \in 1 .. n : net'[c].answers[i] = net[c].answers[i]
      /\ net'[c].answers[n + 1] = w
  OBVIOUS
<1>2. ASSUME NEW i \in 0 .. n PROVE T(i) = S(i)
  <2>1. 1 .. i \subseteq 1 .. n
    BY <1>1
  <2> QED BY <1>1, <2>1
<1>3. IsFiniteSet(S(n)) /\ n + 1 \notin S(n) /\ Cardinality(S(n)) \in Nat
  <2>1. IsFiniteSet(1 .. n)
    BY <1>1, FS_Interval
  <2>2. IsFiniteSet(S(n))
    BY <2>1, FS_Subset
  <2>3. n + 1 \notin 1 .. n
    BY <1>1
  <2> QED BY <2>2, <2>3, FS_CardinalityType
<1>4. T(n + 1) = IF w.by # 0 THEN S(n) \cup {n + 1} ELSE S(n)
  <2>1. 1 .. n + 1 = (1 .. n) \cup {n + 1}
    BY <1>1
  <2>2. T(n) = S(n)
    BY <1>1, <1>2
  <2>3. T(n + 1) = T(n) \cup (IF w.by # 0 THEN {n + 1} ELSE {})
    BY <1>1, <2>1
  <2> QED BY <2>2, <2>3
<1> HIDE DEF S, T, n
<1>5. Cardinality(T(n + 1)) = Cardinality(S(n)) + (IF w.by # 0 THEN 1 ELSE 0)
  <2>1. CASE w.by # 0
    <3>1. Cardinality(S(n) \cup {n + 1}) = Cardinality(S(n)) + 1
      BY <1>3, FS_AddElement
    <3> QED BY <1>4, <2>1, <3>1
  <2>2. CASE w.by = 0
    BY <1>3, <1>4, <2>2
  <2> QED BY <2>1, <2>2
<1>6. \A i : Answered(c, i) = Cardinality(S(i)) /\ Answered(c, i)' = Cardinality(T(i))
  BY DEF Answered, S, T
<1>7. \A i \in 0 .. n : Answered(c, i)' = Answered(c, i)
  BY <1>2, <1>6
<1>8. Answered(c, n) \in Nat
  BY <1>3, <1>6
<1>9. ASSUME NEW m, m = n + 1
      PROVE  Answered(c, m)' = Answered(c, n) + (IF w.by # 0 THEN 1 ELSE 0)
  BY <1>5, <1>6, <1>9
<1> QED BY <1>1, <1>7, <1>8, <1>9 DEF n

\* Of a peer that waits for its answers the write that ends is the only one.
LEMMA OnlyWrite ==
    ASSUME Types, NEW c \in Conns, Tidy(c), NEW i \in 1 .. Len(net[c].writes)
    PROVE  /\ i = 1 /\ net[c].writes = <<net[c].writes[1]>>
           /\ net[c].writes[1] = Write(net[c].writes[1].by) /\ net[c].writes[1] \in Writes
           /\ WithoutWrite(c, i) = <<>>
           /\ conn[c].writing /\ \A j \in 1 .. Len(ready) : ~ OpAt(j, "write", c)
<1> DEFINE ws == net[c].writes
<1>1. ws # <<>> /\ \A j \in 1 .. Len(ws) : ws[j] \in Writes
  BY WritesType
<1>2. /\ ws = <<Write(ws[1].by)>> /\ conn[c].writing
      /\ \A j \in 1 .. Len(ready) : ~ OpAt(j, "write", c)
  BY <1>1 DEF Tidy, WritingTells
<1>3. Len(ws) = 1 /\ ws[1] = Write(ws[1].by) /\ i = 1
  <2>1. PICK v : v = Write(ws[1].by) /\ ws = <<v>>
    BY <1>2
  <2>2. Len(ws) = 1 /\ ws[1] = v
    BY <2>1
  <2> QED BY <2>1, <2>2
<1>4. SubSeq(ws, 1, 0) = <<>> /\ SubSeq(ws, 2, 1) = <<>>
  BY SubSeqEmpty
<1>5. WithoutWrite(c, i) = <<>>
  BY <1>3, <1>4 DEF WithoutWrite
<1> QED BY <1>1, <1>2, <1>3, <1>5

LEMMA WriteTidy ==
    ASSUME Types, NEW c \in Conns, Tidy(c), NEW i \in 1 .. Len(net[c].writes),
           WriteCompletes(c, i) \/ WriteFails(c, i)
    PROVE  Tidy(c)'
<1> PICK n : n = Len(ready) + 1
  OBVIOUS
<1> DEFINE m == Len(net[c].answers)
           w == net[c].writes[1]
<1>1. net[c] \in Sockets /\ <<>> \in Seq(Tokens) /\ conn' = conn /\ busy' = busy
  <2>1. net[c] \in Sockets /\ <<>> \in Seq(Tokens)
    BY DEF Types
  <2>2. conn' = conn /\ busy' = busy
    BY DEF WriteCompletes, WriteFails
  <2> QED BY <2>1, <2>2
<1>2. PICK ok \in BOOLEAN : ready' = Append(ready, Done("write", c, ok, <<>>))
  BY DEF WriteCompletes, WriteFails
<1> DEFINE x == Done("write", c, ok, <<>>)
<1>3. x \in Operations /\ x.op = "write" /\ x.conn = c
  BY <1>1, DoneType DEF Done
<1>4. /\ i = 1 /\ w = Write(w.by) /\ w \in Writes /\ WithoutWrite(c, i) = <<>>
      /\ conn[c].writing /\ net[c].writes # <<>> /\ \A j \in 1 .. Len(ready) : ~ OpAt(j, "write", c)
  BY OnlyWrite
<1>5. /\ net'[c].read = net[c].read /\ net'[c].writes = <<>>
      /\ net'[c].inbox = net[c].inbox /\ net'[c].peer = net[c].peer
  <2>1. CASE WriteCompletes(c, i)
    BY <1>1, <1>4, <2>1 DEF Types, WriteCompletes, Sockets
  <2>2. CASE WriteFails(c, i)
    BY <1>1, <1>4, <2>2 DEF Types, WriteFails, Sockets
  <2> QED BY <2>1, <2>2
<1>6. /\ \A j \in 1 .. Len(ready) :
            j \in 1 .. Len(ready)' /\ ready'[j] = ready[j] /\ j < n
      /\ n \in 1 .. Len(ready)' /\ ready'[n] = x
      /\ \A j \in 1 .. Len(ready)' : j \in 1 .. Len(ready) \/ j = n
  BY <1>2, <1>3, OpAdded
<1> HIDE DEF x
<1>7. /\ \A j \in 1 .. Len(ready)' : OpAt(j, "write", c)' => j = n
      /\ n \in 1 .. Len(ready)' /\ OpAt(n, "write", c)'
      /\ \A j \in 1 .. Len(ready)' : ReaderAt(j, c)' => j \in 1 .. Len(ready) /\ ReaderAt(j, c)
      /\ \A j \in 1 .. Len(ready)', op \in {"start", "read"} :
            OpAt(j, op, c)' =>
                j \in 1 .. Len(ready) /\ OpAt(j, op, c) /\ ready'[j] = ready[j]
  BY <1>3, <1>4, <1>6 DEF OpAt, ReaderAt
<1>8. Parsing(c)' = Parsing(c) /\ (Finished(c) => Finished(c)') /\ (Lost(c) => Lost(c)')
  BY <1>1, <1>5, <1>7 DEF Parsing, Finished, Lost
<1>9. /\ net[c].inbox = <<>> /\ ~ Parsing(c)
      /\ \A j \in 1 .. Len(ready) : OpAt(j, "read", c) => ready[j].data = <<>>
  BY <1>4 DEF Tidy, OneToken
<1>10. ReadingTells(c)'
  BY <1>1, <1>4, <1>5, <1>7 DEF ReadingTells, Tidy
<1>11. WritingTells(c)'
  BY <1>1, <1>4, <1>5, <1>7, <1>8 DEF WritingTells, Tidy
<1>12. OneToken(c)'
  BY <1>5, <1>7, <1>8, <1>9 DEF OneToken
<1>13. Counted(c)'
  <2>1. CASE WriteCompletes(c, i)
    <3>1. /\ net[c].answers \in Seq(Writes)
          /\ net'[c].answers = Append(net[c].answers, w)
      BY <1>1, <1>4, <2>1 DEF Types, WriteCompletes, Sockets
    <3>2. /\ m \in Nat /\ Len(net'[c].answers) = m + 1
          /\ \A j \in 1 .. m : net'[c].answers[j] = net[c].answers[j]
          /\ net'[c].answers[m + 1] = w
          /\ \A j \in 0 .. m : Answered(c, j)' = Answered(c, j)
          /\ Answered(c, m) \in Nat
          /\ \A k : k = m + 1 => Answered(c, k)' = Answered(c, m) + (IF w.by # 0 THEN 1 ELSE 0)
      BY <1>4, <3>1, AnsweredMore
    <3>3. ASSUME NEW j \in 1 .. Len(net'[c].answers), net'[c].answers[j].by # 0
          PROVE  net'[c].answers[j] = Write(Answered(c, j)')
      <4>1. CASE j \in 1 .. m
        <5>1. j \in 0 .. m
          BY <3>2, <4>1
        <5>2. Answered(c, j)' = Answered(c, j) /\ net[c].answers[j].by # 0
          BY <3>2, <3>3, <4>1, <5>1
        <5> QED BY <3>2, <4>1, <5>2 DEF Counted, Tidy
      <4>2. CASE j = m + 1
        <5>1. w.by # 0 /\ Answered(c, j)' = Answered(c, m) + 1
          BY <3>2, <3>3, <4>2
        <5>2. w.by = Answered(c, m) + 1
          BY <1>4, <5>1 DEF Counted, Tidy
        <5> QED BY <1>4, <3>2, <4>2, <5>1, <5>2
      <4> QED BY <3>2, <4>1, <4>2
    <3>4. conn'[c].count = Answered(c, Len(net[c].answers))' \/ Lost(c)'
      <4>1. CASE w.by # 0
        <5>1. conn[c].count = Answered(c, m) + 1
          BY <1>4, <4>1 DEF Counted, Tidy
        <5>2. Answered(c, Len(net[c].answers))' = Answered(c, m) + 1
          BY <3>2, <4>1 DEF Answered
        <5> QED BY <1>1, <5>1, <5>2
      <4>2. CASE w.by = 0
        <5>1. conn[c].count = Answered(c, m) \/ Lost(c)
          BY <4>2 DEF Counted, Tidy
        <5>2. Answered(c, Len(net[c].answers))' = Answered(c, m)
          BY <3>2, <4>2 DEF Answered
        <5> QED BY <1>1, <1>8, <5>1, <5>2
      <4> QED BY <4>1, <4>2
    <3> QED BY <1>5, <3>3, <3>4 DEF Counted
  <2>2. CASE WriteFails(c, i)
    <3>1. net'[c].answers = net[c].answers
      BY <1>1, <2>2 DEF Types, WriteFails, Sockets
    <3>2. \A k : Answered(c, k)' = Answered(c, k)
      BY <3>1 DEF Answered
    <3>3. Lost(c)'
      BY <1>1, <1>5, <2>2 DEF WriteFails, Lost
    <3> QED BY <1>5, <3>1, <3>2, <3>3 DEF Counted, Tidy
  <2> QED BY <2>1, <2>2
<1> QED BY <1>10, <1>11, <1>12, <1>13 DEF Tidy

\* The operations of c that are writes are the same, up to a shift.
WritesKept(c) == \E k \in {0, 1} :
    /\ \A i \in 1 .. Len(ready)' : OpAt(i, "write", c)' =>
        i + k \in 1 .. Len(ready) /\ OpAt(i + k, "write", c)
    /\ \A i \in 1 .. Len(ready) : OpAt(i, "write", c) =>
        i - k \in 1 .. Len(ready)' /\ OpAt(i - k, "write", c)'

LEMMA WritesKeptCases ==
    ASSUME Types, NEW c \in Conns,
           \/ ready' = ready
           \/ ready # <<>> /\ ready' = Tail(ready) /\ Head(ready).op # "write"
    PROVE  WritesKept(c)
<1>1. CASE ready' = ready
  <2>1. \A i \in 1 .. Len(ready) : i + 0 = i /\ i - 0 = i
    OBVIOUS
  <2> QED BY <1>1, <2>1 DEF WritesKept, OpAt
<1>2. CASE ready # <<>> /\ ready' = Tail(ready) /\ Head(ready).op # "write"
  BY <1>2, OpTaken DEF WritesKept, OpAt
<1> QED BY <1>1, <1>2

\* The reading of c ends: nothing that is in progress will go on to parse.
LEMMA ReadingEnds ==
    ASSUME Types, NEW c \in Conns, Tidy(c), net'[c] = net[c], ~ net[c].read, WritesKept(c),
           \A i \in 1 .. Len(ready)' : ~ ReaderAt(i, c)', busy'.conn # c,
           conn'[c].writing = conn[c].writing,
           \/ conn'[c].obj = "alive"
           \/ conn'[c].obj = "deleted" /\ ~ conn'[c].reading /\ ~ conn'[c].writing,
           net[c].writes = <<>> \/ conn'[c].count = conn[c].count
    PROVE  Tidy(c)'
<1>1. PICK k \in {0, 1} :
        /\ \A i \in 1 .. Len(ready)' : OpAt(i, "write", c)' =>
            i + k \in 1 .. Len(ready) /\ OpAt(i + k, "write", c)
        /\ \A i \in 1 .. Len(ready) : OpAt(i, "write", c) =>
            i - k \in 1 .. Len(ready)' /\ OpAt(i - k, "write", c)'
  BY DEF WritesKept
<1>2. \A i \in 1 .. Len(ready)' : ~ OpAt(i, "start", c)' /\ ~ OpAt(i, "read", c)'
  BY DEF OpAt, ReaderAt
<1>3. Finished(c)' /\ Lost(c)' /\ ~ Parsing(c)'
  BY DEF Finished, Lost, Parsing
<1>4. \A n : Answered(c, n)' = Answered(c, n)
  BY DEF Answered
<1>5. ReadingTells(c)'
  BY <1>2 DEF ReadingTells
<1>6. WritingTells(c)'
  <2>1. ASSUME NEW i \in 1 .. Len(ready)', NEW j \in 1 .. Len(ready)',
               OpAt(i, "write", c)', OpAt(j, "write", c)'
        PROVE  i = j
    <3>1. i + k = j + k
      BY <1>1, <2>1 DEF Tidy, WritingTells
    <3> QED BY <3>1
  <2> QED BY <1>1, <1>3, <2>1 DEF WritingTells, Tidy
<1>7. OneToken(c)'
  BY <1>2, <1>3 DEF OneToken, Tidy
<1>8. Counted(c)'
  BY <1>3, <1>4 DEF Counted, Tidy
<1> QED BY <1>5, <1>6, <1>7, <1>8 DEF Tidy

\* The next read of c is started.
LEMMA ReadingGoesOn ==
    ASSUME Types, NEW c \in Conns, Tidy(c), ReadMore(c, conn[c]), ~ Finished(c), WritesKept(c),
           conn[c].obj = "alive",
           \A i \in 1 .. Len(ready)' : ~ ReaderAt(i, c)', busy'.conn # c
    PROVE  Tidy(c)'
<1>1. PICK k \in {0, 1} :
        /\ \A i \in 1 .. Len(ready)' : OpAt(i, "write", c)' =>
            i + k \in 1 .. Len(ready) /\ OpAt(i + k, "write", c)
        /\ \A i \in 1 .. Len(ready) : OpAt(i, "write", c) =>
            i - k \in 1 .. Len(ready)' /\ OpAt(i - k, "write", c)'
  BY DEF WritesKept
<1>2. \A i \in 1 .. Len(ready)' : ~ OpAt(i, "start", c)' /\ ~ OpAt(i, "read", c)'
  BY DEF OpAt, ReaderAt
<1>3. /\ conn'[c].obj = "alive" /\ conn'[c].reading /\ conn'[c].writing = conn[c].writing
      /\ conn'[c].count = conn[c].count /\ conn'[c].res = conn[c].res
      /\ conn'[c].open = conn[c].open
  BY DEF Types, ReadMore, Put, Objects
<1>4. /\ net'[c].read /\ net'[c].writes = net[c].writes
      /\ net'[c].answers = net[c].answers /\ net'[c].awaiting = net[c].awaiting
      /\ net'[c].inbox = net[c].inbox /\ net'[c].peer = net[c].peer
  BY DEF Types, ReadMore, Sockets
<1>5. ~ Parsing(c)' /\ (Lost(c) => Lost(c)') /\ \A n : Answered(c, n)' = Answered(c, n)
  BY <1>3, <1>4 DEF Parsing, Lost, Answered
<1>6. ReadingTells(c)'
  BY <1>2, <1>3 DEF ReadingTells
<1>7. WritingTells(c)'
  <2>1. ASSUME NEW i \in 1 .. Len(ready)', NEW j \in 1 .. Len(ready)',
               OpAt(i, "write", c)', OpAt(j, "write", c)'
        PROVE  i = j
    <3>1. i + k = j + k
      BY <1>1, <2>1 DEF Tidy, WritingTells
    <3> QED BY <3>1
  <2> QED BY <1>1, <1>3, <1>4, <2>1 DEF WritingTells, Tidy
<1>8. OneToken(c)'
  BY <1>2, <1>4, <1>5 DEF OneToken, Tidy
<1>9. Counted(c)'
  BY <1>3, <1>4, <1>5 DEF Counted, Tidy
<1> QED BY <1>6, <1>7, <1>8, <1>9 DEF Tidy

LEMMA StartTidy ==
    ASSUME Types, Readers, NEW c \in Conns, c = Head(ready).conn, Tidy(c), Start
    PROVE  Tidy(c)'
<1>1. ready # <<>> /\ ready' = Tail(ready) /\ Head(ready).op = "start" /\ busy = Idle /\ busy' = busy
      /\ ReadMore(c, conn[c]) /\ conn[c].obj = "alive"
  BY DEF Start, OfLiving, Takes
<1>2. ReaderAt(1, c) /\ 1 \in 1 .. Len(ready)
  BY <1>1, OpTaken DEF ReaderAt
<1>3. \A i \in 1 .. Len(ready)' : ~ ReaderAt(i, c)'
  BY <1>1, <1>2, TakenReader DEF Readers
<1>4. busy'.conn # c /\ ~ Finished(c) /\ WritesKept(c)
  BY <1>1, <1>2, WritesKeptCases, TimerAssumption DEF Finished, Idle
<1> QED BY <1>1, <1>3, <1>4, ReadingGoesOn

\* check_destroy, after the reading has ended.
LEMMA CheckDestroyReading ==
    ASSUME Types, NEW c \in Conns, NEW open \in BOOLEAN, conn[c].obj = "alive",
           Put(c, CheckDestroy([conn[c] EXCEPT !.open = open, !.reading = FALSE]))
    PROVE  /\ conn'[c].writing = conn[c].writing /\ conn'[c].count = conn[c].count
           /\ \/ conn'[c].obj = "alive"
              \/ conn'[c].obj = "deleted" /\ ~ conn'[c].reading /\ ~ conn'[c].writing
  BY DEF Types, Put, CheckDestroy, Objects

LEMMA ReadErrorTidy ==
    ASSUME Types, NEW c \in Conns, Tidy(c), ReadError(c), conn[c].obj = "alive", ~ net[c].read,
           WritesKept(c), \A i \in 1 .. Len(ready)' : ~ ReaderAt(i, c)', busy'.conn # c
    PROVE  Tidy(c)'
<1>1. /\ conn'[c].writing = conn[c].writing /\ conn'[c].count = conn[c].count
      /\ \/ conn'[c].obj = "alive"
         \/ conn'[c].obj = "deleted" /\ ~ conn'[c].reading /\ ~ conn'[c].writing
  BY CheckDestroyReading DEF ReadError
<1>2. net'[c] = net[c]
  BY DEF ReadError
<1> QED BY <1>1, <1>2, ReadingEnds

LEMMA ReadTidy ==
    ASSUME Types, Readers, NEW c \in Conns, c = Head(ready).conn, Tidy(c), Read
    PROVE  Tidy(c)'
<1>1. ready # <<>> /\ ready' = Tail(ready) /\ Head(ready).op = "read" /\ busy = Idle
      /\ conn[c].obj = "alive"
  BY DEF Read, OfLiving, Takes
<1>2. ReaderAt(1, c) /\ OpAt(1, "read", c) /\ 1 \in 1 .. Len(ready) /\ Head(ready) = ready[1]
  BY <1>1, OpTaken DEF ReaderAt, OpAt
<1>3. /\ \A i \in 1 .. Len(ready)' : ~ ReaderAt(i, c)'
      /\ ~ net[c].read
  BY <1>1, <1>2, TakenReader DEF Readers
<1>4. ~ Finished(c) /\ WritesKept(c)
  BY <1>1, <1>2, WritesKeptCases DEF Finished
<1>5. CASE ~ Head(ready).ok
  <2>1. ReadError(c) /\ busy'.conn # c
    BY <1>1, <1>5, TimerAssumption DEF Read, Idle
  <2> QED BY <1>1, <1>3, <1>4, <2>1, ReadErrorTidy
<1>6. CASE Head(ready).ok
  <2>1. /\ busy' = [conn |-> c, todo |-> Head(ready).data, ok |-> TRUE]
        /\ conn' = conn /\ net' = net
    BY <1>6 DEF Read
  <2>2. PICK k \in {0, 1} :
          /\ \A i \in 1 .. Len(ready)' : OpAt(i, "write", c)' =>
              i + k \in 1 .. Len(ready) /\ OpAt(i + k, "write", c)
          /\ \A i \in 1 .. Len(ready) : OpAt(i, "write", c) =>
              i - k \in 1 .. Len(ready)' /\ OpAt(i - k, "write", c)'
    BY <1>4 DEF WritesKept
  <2>3. \A i \in 1 .. Len(ready)' : ~ OpAt(i, "start", c)' /\ ~ OpAt(i, "read", c)'
    BY <1>3 DEF OpAt, ReaderAt
  <2>4. Lost(c) => Lost(c)'
    BY <1>4, <2>1 DEF Lost
  <2>5. \A n : Answered(c, n)' = Answered(c, n)
    BY <2>1 DEF Answered
  <2>6. conn[c].reading
    BY <1>2 DEF Tidy, ReadingTells
  <2>7. Parsing(c)' => /\ net[c].awaiting /\ net[c].writes = <<>> /\ Len(busy'.todo) = 1
                       /\ net[c].inbox = <<>>
                       /\ \A j \in 1 .. Len(ready)' : ~ OpAt(j, "write", c)'
    <3> SUFFICES ASSUME Parsing(c)' PROVE /\ net[c].awaiting /\ net[c].writes = <<>>
                       /\ Len(busy'.todo) = 1 /\ net[c].inbox = <<>>
                       /\ \A j \in 1 .. Len(ready)' : ~ OpAt(j, "write", c)'
      OBVIOUS
    <3>1. ready[1].data # <<>> /\ busy'.todo = ready[1].data
      BY <1>2, <2>1 DEF Parsing
    <3>2. /\ net[c].awaiting /\ net[c].writes = <<>> /\ Len(ready[1].data) = 1
          /\ net[c].inbox = <<>>
          /\ \A j \in 1 .. Len(ready) : OpAt(j, "write", c) => j < 1
      BY <1>2, <3>1 DEF Tidy, OneToken
    <3>3. \A j \in 1 .. Len(ready) : ~ OpAt(j, "write", c)
      <4>1. \A j \in 1 .. Len(ready) : ~ (j < 1)
        BY LenProperties DEF Types
      <4> QED BY <3>2, <4>1
    <3> QED BY <2>2, <3>1, <3>2, <3>3
  <2>8. ReadingTells(c)'
    BY <1>1, <2>1, <2>3, <2>6 DEF ReadingTells
  <2>9. WritingTells(c)'
    <3>1. ASSUME NEW i \in 1 .. Len(ready)', NEW j \in 1 .. Len(ready)',
                 OpAt(i, "write", c)', OpAt(j, "write", c)'
          PROVE  i = j
      <4>1. i + k = j + k
        BY <2>2, <3>1 DEF Tidy, WritingTells
      <4> QED BY <4>1
    <3> QED BY <1>4, <2>1, <2>2, <3>1 DEF WritingTells, Tidy
  <2>10. OneToken(c)'
    BY <2>1, <2>3, <2>7 DEF OneToken, Tidy
  <2>11. Counted(c)'
    BY <2>1, <2>4, <2>5 DEF Counted, Tidy
  <2> QED BY <2>8, <2>9, <2>10, <2>11 DEF Tidy
<1> QED BY <1>5, <1>6

LEMMA ReadEndTidy ==
    ASSUME Types, Readers, NEW c \in Conns, c = busy.conn, Tidy(c), ReadEnd, conn[c].obj = "alive"
    PROVE  Tidy(c)'
<1>1. busy # Idle /\ busy.todo = <<>> /\ busy' = Idle /\ ready' = ready
  BY DEF ReadEnd
<1>2. ~ net[c].read /\ \A i \in 1 .. Len(ready) : ~ ReaderAt(i, c)
  BY DEF Readers, OneReader
<1>3. /\ \A i \in 1 .. Len(ready)' : ~ ReaderAt(i, c)'
      /\ busy'.conn # c /\ WritesKept(c)
  BY <1>1, <1>2, WritesKeptCases, TimerAssumption DEF ReaderAt, Idle
<1>4. CASE ~ busy.ok \/ ~ conn[c].open
  <2>1. ReadError(c)
    BY <1>4 DEF ReadEnd
  <2> QED BY <1>2, <1>3, <2>1, ReadErrorTidy
<1>5. CASE busy.ok /\ conn[c].open /\ conn[c].closing
  <2>1. Put(c, CheckDestroy([conn[c] EXCEPT !.reading = FALSE])) /\ net' = net
    BY <1>5 DEF ReadEnd
  <2>2. conn[c].open \in BOOLEAN
        /\ [conn[c] EXCEPT !.reading = FALSE]
             = [conn[c] EXCEPT !.open = conn[c].open, !.reading = FALSE]
    BY DEF Types, Objects
  <2>3. /\ conn'[c].writing = conn[c].writing /\ conn'[c].count = conn[c].count
        /\ \/ conn'[c].obj = "alive"
           \/ conn'[c].obj = "deleted" /\ ~ conn'[c].reading /\ ~ conn'[c].writing
    BY <2>1, <2>2, CheckDestroyReading
  <2> QED BY <1>2, <1>3, <2>1, <2>3, ReadingEnds
<1>6. CASE busy.ok /\ conn[c].open /\ ~ conn[c].closing
  <2>1. ReadMore(c, conn[c])
    BY <1>6 DEF ReadEnd
  <2>2. ~ Finished(c)
    BY <1>6 DEF Finished
  <2> QED BY <1>3, <2>1, <2>2, ReadingGoesOn
<1> QED BY <1>4, <1>5, <1>6 DEF Types

\* What do_write's handler makes of the object.
LEMMA WriteEndObject ==
    ASSUME Types, NEW c \in Conns, c = Head(ready).conn, WriteEnd
    PROVE  /\ ~ conn'[c].writing /\ ~ conn'[c].res.completed
           /\ conn'[c].reading = conn[c].reading /\ conn'[c].closing = conn[c].closing
           /\ conn'[c].count = conn[c].count
           /\ conn'[c].open => conn[c].open
           /\ conn'[c].obj = "alive" \/ (conn'[c].obj = "deleted" /\ ~ conn'[c].reading)
<1> DEFINE ok == Head(ready).ok
           r == AfterWrite(c)
           q == [r EXCEPT !.open = r.open /\ ~ ok]
<1>1. conn[c] \in Objects /\ conn[c].obj = "alive" /\ Empty \in Responses /\ ~ Empty.completed
  BY DEF Types, WriteEnd, OfLiving, Empty, Responses
<1>2. /\ r \in Objects /\ r.obj = "alive" /\ r.open = conn[c].open /\ ~ r.writing
      /\ r.reading = conn[c].reading /\ r.closing = conn[c].closing /\ r.count = conn[c].count
      /\ ~ r.res.completed
  BY <1>1 DEF AfterWrite, Objects
<1>3. (r.open /\ ~ ok) \in BOOLEAN
  OBVIOUS
<1> HIDE DEF r
<1>4. /\ q \in Objects /\ q.obj = "alive" /\ (q.open => conn[c].open) /\ ~ q.writing
      /\ q.reading = conn[c].reading /\ q.closing = conn[c].closing /\ q.count = conn[c].count
      /\ ~ q.res.completed
  BY <1>2, <1>3 DEF Objects
<1>5. conn'[c] \in {r, CheckDestroy(q)}
  <2>1. conn' = [conn EXCEPT ![c] = Written(r, ok)]
    BY DEF WriteEnd, Put, r
  <2>2. Written(r, ok) \in {r, CheckDestroy(q)}
    BY DEF Written
  <2> QED BY <2>1, <2>2 DEF Types
<1> HIDE DEF q
<1>6. LET d == CheckDestroy(q) IN
      /\ ~ d.writing /\ ~ d.res.completed /\ d.reading = q.reading /\ d.closing = q.closing
      /\ d.count = q.count /\ (d.open => q.open)
      /\ d.obj = "alive" \/ (d.obj = "deleted" /\ ~ d.reading)
  BY <1>4 DEF CheckDestroy, Objects
<1> QED BY <1>2, <1>4, <1>5, <1>6

LEMMA WriteEndTidy ==
    ASSUME Types, Readers, NEW c \in Conns, c = Head(ready).conn, Tidy(c), WriteEnd
    PROVE  Tidy(c)'
<1>1. ready # <<>> /\ ready' = Tail(ready) /\ Head(ready).op = "write" /\ busy' = busy
  BY DEF WriteEnd, OfLiving, Takes
<1>2. /\ OpAt(1, "write", c) /\ 1 \in 1 .. Len(ready)
      /\ \A i \in 1 .. Len(ready)' :
            i + 1 \in 1 .. Len(ready) /\ ready'[i] = ready[i + 1] /\ i + 1 # 1
      /\ \A i \in 1 .. Len(ready) :
            i # 1 => i - 1 \in 1 .. Len(ready)' /\ ready'[i - 1] = ready[i]
  BY <1>1, OpTaken DEF OpAt
<1>3. /\ ~ conn'[c].writing /\ ~ conn'[c].res.completed
      /\ conn'[c].reading = conn[c].reading /\ conn'[c].closing = conn[c].closing
      /\ conn'[c].count = conn[c].count
      /\ conn'[c].open => conn[c].open
      /\ conn'[c].obj = "alive" \/ (conn'[c].obj = "deleted" /\ ~ conn'[c].reading)
  BY WriteEndObject
<1>4. net[c].writes = <<>> /\ conn[c].writing
      /\ \A i \in 1 .. Len(ready) : OpAt(i, "write", c) => i = 1
  BY <1>2 DEF Tidy, WritingTells
<1>5. TornWrites(c) = <<>>
  BY <1>4 DEF TornWrites
<1>6. /\ net'[c].read = net[c].read /\ net'[c].writes = <<>>
      /\ net'[c].answers = net[c].answers /\ net'[c].awaiting = net[c].awaiting
      /\ net'[c].inbox = net[c].inbox /\ net'[c].peer = net[c].peer
  BY <1>5 DEF Types, WriteEnd, Sockets
<1>7. /\ \A i \in 1 .. Len(ready)' : ~ OpAt(i, "write", c)'
      /\ \A i \in 1 .. Len(ready)' : OpAt(i, "read", c)' =>
            i + 1 \in 1 .. Len(ready) /\ OpAt(i + 1, "read", c) /\ ready'[i] = ready[i + 1]
      /\ \A i \in 1 .. Len(ready)' : ReaderAt(i, c)' =>
            i + 1 \in 1 .. Len(ready) /\ ReaderAt(i + 1, c)
      /\ \A i \in 1 .. Len(ready)' : ~ OpAt(i, "start", c)'
  <2>1. \A i \in 1 .. Len(ready)' : ~ OpAt(i, "write", c)'
    BY <1>2, <1>4 DEF OpAt
  <2>2. \A i \in 1 .. Len(ready)' : ~ OpAt(i, "start", c)'
    BY <1>2, <1>4 DEF OpAt, Tidy, ReadingTells
  <2> QED BY <1>2, <2>1, <2>2 DEF OpAt, ReaderAt
<1>8. Parsing(c)' = Parsing(c) /\ \A n : Answered(c, n)' = Answered(c, n)
  BY <1>1, <1>6 DEF Parsing, Answered
<1>9. Lost(c) => Lost(c)'
  BY <1>1, <1>3, <1>6, <1>7 DEF Lost, Finished
<1>10. ReadingTells(c)'
  BY <1>1, <1>3, <1>6, <1>7 DEF ReadingTells, Tidy
<1>11. WritingTells(c)'
  BY <1>3, <1>6, <1>7 DEF WritingTells
<1>12. OneToken(c)'
  BY <1>1, <1>4, <1>6, <1>7, <1>8 DEF OneToken, Tidy
<1>13. Counted(c)'
  BY <1>3, <1>4, <1>6, <1>8, <1>9 DEF Counted, Tidy
<1> QED BY <1>10, <1>11, <1>12, <1>13 DEF Tidy

\* While the parser looks at a token, its connection does nothing else.
LEMMA ParsingAlone ==
    ASSUME Types, Readers, NEW c \in Conns, c = busy.conn, busy.todo # <<>>, Tidy(c)
    PROVE  /\ net[c].awaiting /\ net[c].writes = <<>> /\ net[c].inbox = <<>> /\ ~ net[c].read
           /\ Tail(busy.todo) = <<>> /\ TornWrites(c) = <<>>
           /\ \A i \in 1 .. Len(ready) : ~ OpAt(i, "write", c) /\ ~ ReaderAt(i, c)
                                          /\ ~ OpAt(i, "start", c) /\ ~ OpAt(i, "read", c)
           /\ conn[c].obj = "alive" /\ conn[c].reading /\ ~ conn[c].writing
           /\ ~ conn[c].res.completed /\ ~ Finished(c)
<1>1. Parsing(c) /\ ~ Finished(c)
  BY DEF Parsing, Finished
<1>2. /\ net[c].awaiting /\ net[c].writes = <<>> /\ net[c].inbox = <<>> /\ Len(busy.todo) = 1
      /\ \A i \in 1 .. Len(ready) : ~ OpAt(i, "write", c)
  BY <1>1 DEF Tidy, OneToken
<1>3. Tail(busy.todo) = <<>> /\ TornWrites(c) = <<>>
  <2>1. busy.todo \in Seq(Tokens)
    BY DEF Types
  <2>2. Tail(busy.todo) \in Seq(Tokens) /\ Len(Tail(busy.todo)) = 0
    BY <1>2, <2>1, HeadTailProperties
  <2>3. Tail(busy.todo) = <<>>
    BY <2>2, EmptySeq
  <2> QED BY <1>2, <2>3 DEF TornWrites
<1>4. ~ net[c].read /\ conn[c].obj # "none" /\ \A i \in 1 .. Len(ready) : ~ ReaderAt(i, c)
  BY DEF Readers, OneReader
<1>5. conn[c].reading /\ conn[c].obj = "alive"
  BY <1>4 DEF Tidy, ReadingTells, Types, Objects
<1>6. ~ conn[c].writing /\ ~ conn[c].res.completed
  BY <1>1, <1>2 DEF Tidy, WritingTells
<1> QED BY <1>1, <1>2, <1>3, <1>4, <1>5, <1>6 DEF OpAt, ReaderAt

\* A write is started for the token the parser looks at.
LEMMA WriteStarts ==
    ASSUME Types, Readers, NEW c \in Conns, c = busy.conn, busy.todo # <<>>, Tidy(c),
           NEW by \in Nat, StartWrite(c, by, <<>>), Consume, ready' = ready,
           conn'[c].obj = "alive", conn'[c].reading, conn'[c].writing,
           conn'[c].open = conn[c].open,
           \/ by = 0 /\ conn'[c].count = conn[c].count
           \/ /\ by = conn[c].count + 1 /\ conn'[c].count = by
              /\ conn[c].open /\ net[c].peer # "reset"
    PROVE  Tidy(c)'
<1>1. /\ net[c].awaiting /\ net[c].writes = <<>> /\ net[c].inbox = <<>> /\ ~ net[c].read
      /\ Tail(busy.todo) = <<>> /\ ~ Finished(c)
      /\ \A i \in 1 .. Len(ready) : ~ OpAt(i, "write", c) /\ ~ ReaderAt(i, c)
                                     /\ ~ OpAt(i, "start", c) /\ ~ OpAt(i, "read", c)
  BY ParsingAlone
<1>2. \A i \in 1 .. Len(ready)' : ~ OpAt(i, "write", c)' /\ ~ OpAt(i, "start", c)'
                                  /\ ~ OpAt(i, "read", c)'
  BY <1>1 DEF OpAt
<1>3. net'[c] = [net[c] EXCEPT !.writes = Append(<<>>, Write(by))]
  BY DEF Types, StartWrite
<1>4. Append(<<>>, Write(by)) = <<Write(by)>> /\ Write(by).by = by
  BY DEF Write
<1>5. /\ net'[c].writes = <<Write(by)>> /\ net'[c].writes # <<>> /\ net'[c].writes[1] = Write(by)
      /\ net'[c].awaiting = net[c].awaiting /\ net'[c].inbox = net[c].inbox
      /\ net'[c].answers = net[c].answers /\ net'[c].peer = net[c].peer
  BY <1>3, <1>4 DEF Types, Sockets
<1>6. ~ Parsing(c)' /\ \A n : Answered(c, n)' = Answered(c, n)
  BY <1>1, <1>5 DEF Parsing, Answered, Consume, Types
<1>7. ReadingTells(c)'
  BY <1>2 DEF ReadingTells
<1>8. WritingTells(c)'
  BY <1>1, <1>2, <1>4, <1>5 DEF WritingTells
<1>9. OneToken(c)'
  BY <1>1, <1>2, <1>5, <1>6 DEF OneToken
<1>10. Counted(c)'
  <2>1. conn[c].count = Answered(c, Len(net[c].answers)) \/ ~ conn[c].open \/ net[c].peer = "reset"
    BY <1>1 DEF Tidy, Counted, Lost
  <2>2. \A i \in 1 .. Len(net'[c].answers) :
            net'[c].answers[i].by # 0 => net'[c].answers[i] = Write(Answered(c, i)')
    BY <1>5, <1>6 DEF Tidy, Counted
  <2>3. CASE by = 0 /\ conn'[c].count = conn[c].count
    <3>1. conn'[c].count = Answered(c, Len(net'[c].answers)) \/ Lost(c)'
      BY <1>5, <2>1, <2>3 DEF Lost
    <3> QED BY <1>4, <1>5, <1>6, <2>2, <2>3, <3>1 DEF Counted
  <2>4. CASE /\ by = conn[c].count + 1 /\ conn'[c].count = by
             /\ conn[c].open /\ net[c].peer # "reset"
    <3>1. conn[c].count \in Nat /\ by # 0
      BY <2>4 DEF Types, Objects
    <3>2. by = Answered(c, Len(net[c].answers)) + 1
      BY <2>1, <2>4
    <3> QED BY <1>4, <1>5, <1>6, <2>2, <2>4, <3>1, <3>2 DEF Counted
  <2> QED BY <2>3, <2>4
<1> QED BY <1>7, <1>8, <1>9, <1>10 DEF Tidy

LEMMA ParseFailsTidy ==
    ASSUME Types, Readers, NEW c \in Conns, c = busy.conn, Tidy(c), ParseFails
    PROVE  Tidy(c)'
<1>1. /\ conn' = conn /\ net' = net /\ ready' = ready /\ busy.todo # <<>>
      /\ busy'.conn = c /\ busy'.todo = <<>>
  BY DEF ParseFails, Types
<1>2. ~ Finished(c) /\ ~ conn[c].res.completed
  BY <1>1, ParsingAlone
<1>3. \A i : \A op : OpAt(i, op, c)' = OpAt(i, op, c)
  BY <1>1 DEF OpAt
<1>4. ~ Parsing(c)' /\ (Lost(c) => Lost(c)') /\ \A n : Answered(c, n)' = Answered(c, n)
  BY <1>1, <1>2 DEF Parsing, Lost, Answered
<1>5. ReadingTells(c)'
  BY <1>1, <1>3 DEF ReadingTells, Tidy
<1>6. WritingTells(c)'
  BY <1>1, <1>2, <1>3 DEF WritingTells, Tidy
<1>7. OneToken(c)'
  BY <1>1, <1>3, <1>4 DEF OneToken, Tidy
<1>8. Counted(c)'
  BY <1>1, <1>4 DEF Counted, Tidy
<1> QED BY <1>5, <1>6, <1>7, <1>8 DEF Tidy

LEMMA HandleHeaderTidy ==
    ASSUME Types, Readers, NEW c \in Conns, c = busy.conn, Tidy(c), HandleHeader
    PROVE  Tidy(c)'
<1>1. busy.todo # <<>> /\ Consume /\ ready' = ready /\ 0 \in Nat
  BY DEF HandleHeader, Parses
<1>2. net[c].writes = <<>> /\ conn[c].obj = "alive" /\ conn[c].reading
  BY <1>1, ParsingAlone
<1>3. StartWrite(c, 0, <<>>)
  BY <1>2 DEF HandleHeader
<1>4. /\ conn'[c].obj = "alive" /\ conn'[c].reading /\ conn'[c].writing
      /\ conn'[c].open = conn[c].open /\ conn'[c].count = conn[c].count
  BY <1>2 DEF HandleHeader, Put, Types, Objects
<1> QED BY <1>1, <1>3, <1>4, WriteStarts

LEMMA HandleUpgradeTidy ==
    ASSUME Types, Readers, NEW c \in Conns, c = busy.conn, Tidy(c), HandleUpgrade
    PROVE  Tidy(c)'
<1>1. /\ busy.todo # <<>> /\ ready' = ready /\ net' = net
      /\ busy'.conn = c /\ busy'.todo = <<>>
  BY DEF HandleUpgrade, Parses, Types
<1>2. /\ net[c].writes = <<>> /\ net[c].inbox = <<>> /\ ~ net[c].read
      /\ \A i \in 1 .. Len(ready) : ~ OpAt(i, "write", c) /\ ~ ReaderAt(i, c)
                                     /\ ~ OpAt(i, "start", c) /\ ~ OpAt(i, "read", c)
      /\ conn[c].obj = "alive" /\ conn[c].reading /\ ~ conn[c].writing
  BY <1>1, ParsingAlone
<1>3. /\ conn'[c].obj = "alive" /\ conn'[c].reading /\ ~ conn'[c].writing /\ conn'[c].closing
  BY <1>2 DEF HandleUpgrade, Put, Types, Objects
<1>4. \A i \in 1 .. Len(ready)' : ~ OpAt(i, "write", c)' /\ ~ ReaderAt(i, c)'
                                  /\ ~ OpAt(i, "start", c)' /\ ~ OpAt(i, "read", c)'
  BY <1>1, <1>2 DEF OpAt, ReaderAt
<1>5. Finished(c)' /\ Lost(c)' /\ ~ Parsing(c)' /\ \A n : Answered(c, n)' = Answered(c, n)
  BY <1>1, <1>2, <1>3, <1>4 DEF Finished, Lost, Parsing, Answered
<1>6. ReadingTells(c)'
  BY <1>3, <1>4 DEF ReadingTells
<1>7. WritingTells(c)'
  BY <1>1, <1>2, <1>3, <1>4, <1>5 DEF WritingTells
<1>8. OneToken(c)'
  BY <1>1, <1>2, <1>4, <1>5 DEF OneToken
<1>9. Counted(c)'
  BY <1>1, <1>2, <1>5 DEF Counted, Tidy
<1> QED BY <1>6, <1>7, <1>8, <1>9 DEF Tidy

LEMMA HandleTidy ==
    ASSUME Types, Readers, NEW c \in Conns, c = busy.conn, Tidy(c), NEW t \in Requests, Handle(t)
    PROVE  Tidy(c)'
<1> DEFINE n == conn[c].count + 1
           r == [conn[c] EXCEPT
                   !.count = n, !.parsing = IF t = "close" THEN "dead" ELSE "message",
                   !.closing = conn[c].closing \/ t = "close"]
           res == CASE t = "nohost" -> [by |-> n, completed |-> FALSE]
                    [] t # "nohost" /\ conn[c].res.completed -> conn[c].res
                    [] OTHER -> [by |-> n, completed |-> TRUE]
<1>1. busy.todo # <<>> /\ ready' = ready
  BY DEF Handle, Parses
<1>2. /\ net[c].writes = <<>> /\ ~ net[c].read /\ TornWrites(c) = <<>>
      /\ \A i \in 1 .. Len(ready) : ~ ReaderAt(i, c)
      /\ conn[c].obj = "alive" /\ conn[c].reading /\ ~ conn[c].writing
      /\ ~ conn[c].res.completed
  BY <1>1, ParsingAlone
<1>3. n \in Nat /\ res.by = n
  BY <1>2 DEF Types, Objects
<1>4. CASE ~ conn[c].open \/ net[c].peer = "reset"
  <2>1. Throw(c, r)
    BY <1>4 DEF Handle
  <2>2. conn'[c] = [r EXCEPT !.threw = TRUE] /\ busy' = Idle /\ net' = net
    BY <2>1 DEF Throw, Put, Types
  <2>3. conn'[c].obj = "alive" /\ conn'[c].writing = conn[c].writing
    BY <1>2, <2>2 DEF Types, Objects
  <2>4. busy'.conn # c /\ WritesKept(c) /\ \A i \in 1 .. Len(ready)' : ~ ReaderAt(i, c)'
    BY <1>1, <1>2, <2>2, WritesKeptCases, TimerAssumption DEF Idle, ReaderAt
  <2> QED BY <1>2, <2>2, <2>3, <2>4, ReadingEnds
<1>5. CASE conn[c].open /\ net[c].peer # "reset"
  <2>1. Put(c, [r EXCEPT !.res = res, !.writing = TRUE]) /\ StartWrite(c, n, <<>>) /\ Consume
    BY <1>2, <1>3, <1>5 DEF Handle
  <2>2. conn'[c] = [r EXCEPT !.res = res, !.writing = TRUE]
    BY <2>1 DEF Put, Types
  <2> HIDE DEF res
  <2>3. /\ conn'[c].obj = "alive" /\ conn'[c].reading /\ conn'[c].writing
        /\ conn'[c].open = conn[c].open /\ conn'[c].count = n
    BY <1>2, <2>2 DEF Types, Objects
  <2> QED BY <1>1, <1>3, <1>5, <2>1, <2>3, WriteStarts
<1> QED BY <1>4, <1>5 DEF Types, Objects

\* The peers and the operating system act on one connection.
LEMMA KernelOrderly ==
    ASSUME Types, Readers, Orderly, NEW c \in Conns,
           \/ Accept(c) \/ Leave(c) \/ ReadCompletes(c)
           \/ \E t \in Tokens : Send(c, t)
           \/ \E i \in 1 .. Len(net[c].writes) : WriteCompletes(c, i) \/ WriteFails(c, i)
    PROVE  Orderly'
<1> SUFFICES ASSUME NEW d \in Conns, ~ net'[d].hasty PROVE Tidy(d)'
  BY DEF Orderly
<1>1. busy' = busy /\ net[c] \in Sockets /\ net[d] \in Sockets
  BY DEF Types, Accept, Leave, ReadCompletes, Send, WriteCompletes, WriteFails, rest
<1>2. CASE d # c
  <2>1. conn'[d] = conn[d]
    BY <1>2 DEF Types, Accept, Leave, ReadCompletes, Send, WriteCompletes, WriteFails, rest
  <2>2. net'[d] = net[d]
    BY <1>2 DEF Types, Accept, Leave, ReadCompletes, Send, WriteCompletes, WriteFails
  <2>3. ready' = ready \/ \E x \in Operations : ready' = Append(ready, x) /\ x.conn # d
    <3>1. \A op \in {"start", "read", "write"}, ok \in BOOLEAN, data \in {net[c].inbox, <<>>} :
            Done(op, c, ok, data) \in Operations /\ Done(op, c, ok, data).conn = c
      <4>1. net[c].inbox \in Seq(Tokens) /\ <<>> \in Seq(Tokens)
        BY <1>1 DEF Sockets
      <4> QED BY <4>1, DoneType DEF Done
    <3>2. ready' = ready \/ \E op \in {"start", "read", "write"}, ok \in BOOLEAN,
                             data \in {net[c].inbox, <<>>} : ready' = Append(ready, Done(op, c, ok, data))
      BY DEF Accept, Leave, ReadCompletes, Send, WriteCompletes, WriteFails, rest
    <3> QED BY <1>2, <3>1, <3>2
  <2> QED BY <1>1, <2>1, <2>2, <2>3, AloneTidy DEF Orderly
<1>3. CASE d = c
  <2>1. ~ net[c].hasty
    <3>1. CASE Accept(c)
      BY <1>1, <1>3, <3>1 DEF Types, Accept, Sockets
    <3>2. CASE Leave(c)
      BY <1>1, <1>3, <3>2 DEF Types, Leave, Sockets
    <3>3. CASE ReadCompletes(c)
      BY <1>1, <1>3, <3>3 DEF Types, ReadCompletes, Sockets
    <3>4. ASSUME NEW t \in Tokens, Send(c, t) PROVE ~ net[c].hasty
      BY <1>1, <1>3, <3>4 DEF Types, Send, Sockets
    <3>5. ASSUME NEW i \in 1 .. Len(net[c].writes), WriteCompletes(c, i) PROVE ~ net[c].hasty
      BY <1>1, <1>3, <3>5 DEF Types, WriteCompletes, Sockets
    <3>6. ASSUME NEW i \in 1 .. Len(net[c].writes), WriteFails(c, i) PROVE ~ net[c].hasty
      BY <1>1, <1>3, <3>6 DEF Types, WriteFails, Sockets
    <3> QED BY <3>1, <3>2, <3>3, <3>4, <3>5, <3>6
  <2>2. Tidy(c)
    BY <2>1 DEF Orderly
  <2>3. ~ net'[c].hasty
    BY <1>3
  <2>4. Tidy(c)'
    BY <2>2, <2>3, AcceptTidy, LeaveTidy, ReadCompletesTidy, SendTidy, WriteTidy
  <2> QED BY <1>3, <2>4
<1> QED BY <1>2, <1>3

\* A handler, or the parser, acts on one connection.
LEMMA WorkerOrderly ==
    ASSUME Types, Orderly, NEW c \in Conns,
           \A d \in Conns : d # c => conn'[d] = conn[d] /\ net'[d] = net[d],
           net'[c].hasty = net[c].hasty, Tidy(c) => Tidy(c)', busy.conn \in {c, Null},
           busy'.conn \in {c, Null},
           \/ ready' = ready
           \/ ready # <<>> /\ ready' = Tail(ready) /\ Head(ready).conn = c
    PROVE  Orderly'
<1> SUFFICES ASSUME NEW d \in Conns, ~ net'[d].hasty PROVE Tidy(d)'
  BY DEF Orderly
<1>1. CASE d = c
  BY <1>1 DEF Orderly
<1>2. CASE d # c
  <2>1. busy.conn # d /\ busy'.conn # d
    BY <1>2, TimerAssumption
  <2> QED BY <1>2, <2>1, AloneTidy DEF Orderly
<1> QED BY <1>1, <1>2

\* What a handler leaves alone, for those that read.
LEMMA ReadMoreAlone ==
    ASSUME Types, NEW c \in Conns, ReadMore(c, conn[c])
    PROVE  /\ \A d \in Conns : d # c => conn'[d] = conn[d] /\ net'[d] = net[d]
           /\ net'[c].hasty = net[c].hasty
  BY DEF Types, ReadMore, Put, Sockets

LEMMA ReadErrorAlone ==
    ASSUME Types, NEW c \in Conns, ReadError(c)
    PROVE  net' = net /\ \A d \in Conns : d # c => conn'[d] = conn[d]
  BY DEF Types, ReadError, Put

LEMMA StartWriteAlone ==
    ASSUME Types, NEW c \in Conns, NEW by, NEW ws, StartWrite(c, by, ws)
    PROVE  /\ \A d \in Conns : d # c => net'[d] = net[d]
           /\ net'[c].hasty = net[c].hasty
  BY DEF Types, StartWrite, Sockets

LEMMA StartOrderly == ASSUME Types, Readers, Orderly, Start PROVE Orderly'
<1>1. Head(ready).conn \in Conns
  BY TakesType DEF Start, OfLiving
<1> PICK c \in Conns : c = Head(ready).conn
  BY <1>1
<1>2. ready # <<>> /\ ready' = Tail(ready) /\ busy = Idle /\ busy' = Idle /\ Idle.conn = Null
      /\ ReadMore(c, conn[c])
  BY DEF Start, OfLiving, Takes, Idle
<1>3. Tidy(c) => Tidy(c)'
  BY StartTidy
<1> QED BY <1>2, <1>3, ReadMoreAlone, WorkerOrderly

LEMMA ReadOrderly == ASSUME Types, Readers, Orderly, Read PROVE Orderly'
<1>1. Head(ready).conn \in Conns
  BY TakesType DEF Read, OfLiving
<1> PICK c \in Conns : c = Head(ready).conn
  BY <1>1
<1>2. ready # <<>> /\ ready' = Tail(ready) /\ busy = Idle /\ Idle.conn = Null
  BY DEF Read, OfLiving, Takes, Idle
<1>3. Tidy(c) => Tidy(c)'
  BY ReadTidy
<1>4. /\ net' = net /\ busy'.conn \in {c, Null}
      /\ \A d \in Conns : d # c => conn'[d] = conn[d]
  BY <1>2, ReadErrorAlone DEF Read
<1> QED BY <1>2, <1>3, <1>4, WorkerOrderly

LEMMA ReadEndOrderly == ASSUME Types, Readers, Orderly, ReadEnd PROVE Orderly'
<1>1. busy.conn \in Conns
  BY DEF Types, ReadEnd
<1> PICK c \in Conns : c = busy.conn
  BY <1>1
<1>2. ready' = ready /\ busy' = Idle /\ Idle.conn = Null
  BY DEF ReadEnd, Idle
<1>3. Tidy(c) => Tidy(c)'
  <2> SUFFICES ASSUME Tidy(c) PROVE Tidy(c)'
    OBVIOUS
  <2>1. conn[c].obj # "none"
    BY DEF Readers, OneReader
  <2>2. conn[c].obj = "alive"
    BY <2>1 DEF Tidy, ReadingTells, Types, Objects
  <2> QED BY <2>2, ReadEndTidy
<1>4. /\ \A d \in Conns : d # c => conn'[d] = conn[d] /\ net'[d] = net[d]
      /\ net'[c].hasty = net[c].hasty
  <2>1. CASE ReadError(c)
    BY <2>1, ReadErrorAlone
  <2>2. CASE ReadMore(c, conn[c])
    BY <2>2, ReadMoreAlone
  <2>3. CASE Put(c, CheckDestroy([conn[c] EXCEPT !.reading = FALSE])) /\ UNCHANGED net
    BY <2>3 DEF Types, Put
  <2> QED BY <2>1, <2>2, <2>3 DEF ReadEnd
<1> QED BY <1>2, <1>3, <1>4, WorkerOrderly

LEMMA WriteEndOrderly == ASSUME Types, Readers, Orderly, WriteEnd PROVE Orderly'
<1>1. Head(ready).conn \in Conns
  BY TakesType DEF WriteEnd, OfLiving
<1> PICK c \in Conns : c = Head(ready).conn
  BY <1>1
<1>2. ready # <<>> /\ ready' = Tail(ready) /\ busy = Idle /\ busy' = Idle /\ Idle.conn = Null
  BY DEF WriteEnd, OfLiving, Takes, Idle
<1>3. Tidy(c) => Tidy(c)'
  BY WriteEndTidy
<1>4. /\ \A d \in Conns : d # c => conn'[d] = conn[d] /\ net'[d] = net[d]
      /\ net'[c].hasty = net[c].hasty
  BY DEF Types, WriteEnd, Put, Sockets
<1> QED BY <1>2, <1>3, <1>4, WorkerOrderly

LEMMA ParserOrderly ==
    ASSUME Types, Readers, Orderly,
           ParseFails \/ HandleHeader \/ HandleUpgrade \/ \E t \in Requests : Handle(t)
    PROVE  Orderly'
<1>1. busy # Idle /\ busy.todo # <<>> /\ ready' = ready
  BY DEF ParseFails, HandleHeader, HandleUpgrade, Handle, Parses
<1>2. busy.conn \in Conns
  BY <1>1, BusyType
<1> PICK c \in Conns : c = busy.conn
  BY <1>2
<1>3. Tidy(c) => Tidy(c)'
  BY ParseFailsTidy, HandleHeaderTidy, HandleUpgradeTidy, HandleTidy
<1>4. busy'.conn \in {c, Null}
  BY HandleChanges, OthersChange DEF ParserChanges
<1>5. /\ \A d \in Conns : d # c => conn'[d] = conn[d] /\ net'[d] = net[d]
      /\ net'[c].hasty = net[c].hasty
  <2>1. CASE ParseFails
    BY <2>1 DEF ParseFails
  <2>2. CASE HandleHeader
    BY <2>2, StartWriteAlone DEF HandleHeader, Put, Types
  <2>3. CASE HandleUpgrade
    BY <2>3 DEF HandleUpgrade, Put, Types
  <2>4. ASSUME NEW t \in Requests, Handle(t)
        PROVE  /\ \A d \in Conns : d # c => conn'[d] = conn[d] /\ net'[d] = net[d]
               /\ net'[c].hasty = net[c].hasty
    <3>1. PICK r : Put(c, r)
      BY <2>4 DEF Handle, Throw
    <3>2. net' = net \/ \E by : StartWrite(c, by, TornWrites(c))
      BY <2>4 DEF Handle, Throw
    <3> QED BY <3>1, <3>2, StartWriteAlone DEF Put, Types
  <2> QED BY <2>1, <2>2, <2>3, <2>4
<1> QED BY <1>1, <1>3, <1>4, <1>5, WorkerOrderly

\* The tick handler and the timer disturb nobody.
LEMMA TickOrderly == ASSUME Types, Orderly, TimerFires \/ Elapse PROVE Orderly'
<1> SUFFICES ASSUME NEW d \in Conns, ~ net'[d].hasty PROVE Tidy(d)'
  BY DEF Orderly
<1>1. net' = net /\ busy' = busy
  BY DEF TimerFires, Elapse
<1>2. \/ ready # <<>> /\ ready' = Tail(ready) /\ Head(ready).conn # d
      \/ \E x \in Operations : ready' = Append(ready, x) /\ x.conn # d
  <2>1. CASE TimerFires
    <3>1. ready # <<>> /\ ready' = Tail(ready) /\ Head(ready).op = "tick"
      BY <2>1 DEF TimerFires, Takes
    <3>2. Head(ready) \in Operations
      BY <3>1, TailReady DEF Types
    <3>3. Head(ready).conn = Null
      BY <3>1, <3>2 DEF Operations
    <3> QED BY <3>1, <3>3, TimerAssumption
  <2>2. CASE Elapse
    <3>1. Done("tick", Null, TRUE, <<>>) \in Operations /\ Done("tick", Null, TRUE, <<>>).conn = Null
      BY DEF Done, Operations
    <3> QED BY <2>2, <3>1, TimerAssumption DEF Elapse
  <2> QED BY <2>1, <2>2
<1>3. OpsKept(d)
  BY <1>2, OpsKeptCases
<1>4. conn'[d] = conn[d] \/ conn'[d] = [conn[d] EXCEPT !.open = FALSE]
  BY DEF TimerFires, Elapse
<1>5. Undisturbed(d)
  BY <1>1, <1>3, <1>4 DEF Undisturbed, Types, Objects
<1> QED BY <1>1, <1>5, UndisturbedTidy DEF Orderly

\* No handler runs on a deleted connection whose peer waits for its answers.
LEMMA UseAfterDeleteOrderly ==
    ASSUME Types, Orderly, NEW op \in {"start", "read", "write"}, UseAfterDelete(op)
    PROVE  Orderly'
<1>1. Head(ready).conn \in Conns
  BY TakesType DEF UseAfterDelete
<1> PICK c \in Conns : c = Head(ready).conn
  BY <1>1
<1>2. ready # <<>> /\ ready' = Tail(ready) /\ Head(ready).op = op /\ conn[c].obj = "deleted"
      /\ busy = Idle /\ busy' = Idle /\ Idle.conn = Null /\ conn' = conn /\ net' = net
  BY DEF UseAfterDelete, Takes, Idle
<1>3. OpAt(1, op, c) /\ 1 \in 1 .. Len(ready)
  BY <1>2, OpTaken DEF OpAt
<1>4. ~ Tidy(c)
  BY <1>2, <1>3 DEF Tidy, ReadingTells, WritingTells
<1> QED BY <1>2, <1>4, WorkerOrderly

LEMMA InitOrderly == Init => Orderly
<1> SUFFICES ASSUME Init, NEW c \in Conns PROVE Tidy(c)
  BY DEF Orderly
<1>1. PICK budget : net = [d \in Conns |->
        [peer |-> "none", left |-> budget[d], inbox |-> <<>>, awaiting |-> FALSE, hasty |-> FALSE,
         read |-> FALSE, writes |-> <<>>, answers |-> <<>>]]
  BY DEF Init
<1>2. /\ ready = <<>> /\ busy.conn # c /\ conn[c].obj = "none" /\ ~ conn[c].writing
      /\ conn[c].count = 0 /\ ~ conn[c].res.completed
  BY TimerAssumption DEF Init, Idle, Empty
<1>3. /\ net[c].peer = "none" /\ net[c].inbox = <<>> /\ ~ net[c].read /\ net[c].writes = <<>>
      /\ net[c].answers = <<>>
  BY <1>1
<1>4. Answered(c, Len(net[c].answers)) = 0
  <2>1. {i \in 1 .. Len(net[c].answers) : net[c].answers[i].by # 0} = {}
    BY <1>3
  <2> QED BY <2>1, FS_EmptySet DEF Answered
<1>5. ReadingTells(c) /\ WritingTells(c) /\ OneToken(c)
  BY <1>2, <1>3 DEF ReadingTells, WritingTells, OneToken, Parsing
<1>6. Counted(c)
  BY <1>2, <1>3, <1>4 DEF Counted
<1> QED BY <1>5, <1>6 DEF Tidy

LEMMA StepOrderly == Types /\ Readers /\ Orderly /\ [Next]_vars => Orderly'
<1> SUFFICES ASSUME Types, Readers, Orderly, [Next]_vars PROVE Orderly'
  OBVIOUS
<1>1. CASE UNCHANGED vars
  <2>1. conn' = conn /\ net' = net /\ busy' = busy /\ ready' = ready
    BY <1>1 DEF vars, rest
  <2> QED BY <2>1, AloneTidy DEF Orderly
<1>2. CASE Worker
  BY <1>2, StartOrderly, ReadOrderly, ReadEndOrderly, WriteEndOrderly, TickOrderly,
     UseAfterDeleteOrderly, ParserOrderly DEF Worker
<1>3. ASSUME NEW c \in Conns,
             \/ Accept(c) \/ Leave(c) \/ Kernel(c)
             \/ \E t \in Tokens : Send(c, t)
             \/ \E i \in 1 .. Len(net[c].writes) : WriteCompletes(c, i)
      PROVE  Orderly'
  BY <1>3, KernelOrderly DEF Kernel
<1> QED BY <1>1, <1>2, <1>3, TickOrderly DEF Next

THEOREM OrderlyInvariant == Spec => [](Types /\ TimerInv /\ Readers /\ Orderly)
  BY InitTypes, InitTimers, InitReaders, InitOrderly, StepTypes, StepTimers, StepReaders,
     StepOrderly, PTL DEF Spec

\* A peer that waits for its answers gets those to its requests, in order and
\* whole, for any number of connections and whatever the other peers do.
THEOREM AnswersInOrderHolds == Spec => []AnswersInOrder
<1>1. Orderly => AnswersInOrder
  BY DEF Orderly, Tidy, Counted, AnswersInOrder
<1> QED BY <1>1, OrderlyInvariant, PTL

\* Nothing calls back a connection that has deleted itself: not its deadline,
\* under KeysAreOwn, and, if its peer waits for its answers, neither a read nor
\* a write.
THEOREM DeletesWhenDoneHolds == Spec /\ []KeysAreOwn => []DeletesWhenDone
<1>1. Types /\ Readers /\ Orderly /\ AllGuarded => DeletesWhenDone
  <2> SUFFICES ASSUME Types, Readers, Orderly, AllGuarded, NEW c \in Conns, conn[c].obj = "deleted"
               PROVE  /\ AgeOf(c) = Null
                      /\ ~ net[c].hasty =>
                          /\ ~ net[c].read /\ net[c].writes = <<>>
                          /\ \A i \in 1 .. Len(ready) : ready[i].conn # c
    BY DEF DeletesWhenDone
  <2>1. AgeOf(c) = Null
    BY DEF AllGuarded, Guarded
  <2>2. ASSUME ~ net[c].hasty
        PROVE  /\ ~ net[c].read /\ net[c].writes = <<>>
               /\ \A i \in 1 .. Len(ready) : ready[i].conn # c
    <3>1. Tidy(c)
      BY <2>2 DEF Orderly
    <3>2. ~ conn[c].reading /\ ~ conn[c].writing /\ ~ net[c].read /\ net[c].writes = <<>>
      BY <3>1 DEF Tidy, ReadingTells, WritingTells
    <3>3. ASSUME NEW i \in 1 .. Len(ready), ready[i].conn = c PROVE FALSE
      <4>1. ready[i] \in Operations
        BY ElementOfSeq DEF Types
      <4>2. ready[i].op \in {"start", "read", "write"}
        BY <3>3, <4>1, TimerAssumption DEF Operations
      <4> QED BY <3>1, <3>2, <3>3, <4>2 DEF Tidy, ReadingTells, WritingTells, OpAt
    <3> QED BY <3>2, <3>3
  <2> QED BY <2>1, <2>2
<1>2. Spec /\ []KeysAreOwn => []AllGuarded
  BY OrderlyInvariant, InitGuarded, StepGuarded, PTL DEF Spec
<1> QED BY <1>1, <1>2, OrderlyInvariant, PTL

-----------------------------------------------------------------------------
(* Keys of their own: when KeysAreOwn holds *)

\* History variables: how many timers were started, and how many before the one
\* that the key of a connection was last given for.
VARIABLES timers, born

\* Starting a timer is the only step that makes the queue longer, and its entry
\* is the last one then.
TimersCounted ==
    IF Len(dq') > Len(dq)
    THEN /\ timers' = timers + 1
         /\ born' = [born EXCEPT ![dq'[Len(dq')].owner] = timers]
    ELSE UNCHANGED <<timers, born>>

Counting ==
    /\ timers = 0 /\ born = [c \in Conns |-> 0]
    /\ [][TimersCounted]_<<dq, timers, born>>

\* The timers started since the one of c, that one included.
Since(c) == timers - born[c]

\* No key is kept until 2 * SignBit others have been given out.
GivenUpInTime == \A c \in Conns : key[c] # Null => Since(c) <= 2 * SignBit

\* The key that the next timer gets.
NextKey == PlusU(step, Len(dq))

\* A key is as far behind the next one as timers have been started since.
KeyTells(c) ==
    key[c] # Null =>
        /\ born[c] < timers
        /\ Since(c) <= 2 * SignBit =>
              MinusU(NextKey, key[c]) = IF Since(c) = 2 * SignBit THEN 0 ELSE Since(c)

CountInv ==
    /\ timers \in Nat /\ born \in [Conns -> Nat]
    /\ \A c \in Conns : KeyTells(c)
    /\ \A i \in 1 .. Len(dq) : \A c \in Conns : dq[i].owner = c => Since(c) = Len(dq) - i + 1
    /\ \A c, d \in Conns : key[c] # Null /\ key[d] # Null /\ born[c] = born[d] => c = d

\* The next key moves on by one, and so do the distances to it.
LEMMA NextKeyMoves ==
    ASSUME NEW a \in UInt, NEW n \in Nat, n + 1 < 2 * SignBit, NEW k \in UInt
    PROVE  /\ PlusU(a, n) \in UInt
           /\ MinusU(PlusU(a, n + 1), PlusU(a, n)) = 1
           /\ MinusU(PlusU(a, n + 1), k) =
                IF MinusU(PlusU(a, n), k) + 1 = 2 * SignBit THEN 0 ELSE MinusU(PlusU(a, n), k) + 1
  BY SignBitAssumption DEF UInt, PlusU, MinusU

\* Popping takes as many from the queue as it adds to step_.
LEMMA NextKeyStays ==
    ASSUME NEW a \in UInt, NEW n \in Nat, n < 2 * SignBit, NEW m \in 0 .. n
    PROVE  PlusU(PlusU(a, m), n - m) = PlusU(a, n)
  BY SignBitAssumption DEF UInt, PlusU

\* Distances tell keys apart.
LEMMA MinusApart ==
    ASSUME NEW a \in UInt, NEW k \in UInt, NEW l \in UInt, MinusU(k, a) = MinusU(l, a)
    PROVE  k = l
  BY SignBitAssumption DEF UInt, MinusU

LEMMA CountInit == TimerInit /\ timers = 0 /\ born = [c \in Conns |-> 0] => CountInv
<1> SUFFICES ASSUME TimerInit, timers = 0, born = [c \in Conns |-> 0] PROVE CountInv
  OBVIOUS
<1>1. Len(dq) = 0 /\ \A c \in Conns : key[c] = Null
  BY EmptySeq DEF TimerInit
<1> QED BY <1>1 DEF CountInv, KeyTells

LEMMA CountCancel ==
    ASSUME TimerInv, CountInv, NEW c \in Conns, CancelTimer(c), TimersCounted
    PROVE  CountInv'
<1>1. /\ Len(dq') = Len(dq) /\ step' = step /\ key' = [key EXCEPT ![c] = Null]
      /\ \A i \in 1 .. Len(dq) : dq'[i].owner \in {dq[i].owner, Null}
  BY CancelledEntries DEF CancelTimer
<1>2. timers' = timers /\ born' = born
  <2>1. Len(dq) \in Nat
    BY LenProperties DEF TimerInv, QueueTypes
  <2> QED BY <1>1, <2>1 DEF TimersCounted
<1>3. \A d \in Conns : key'[d] # Null => key'[d] = key[d]
  BY <1>1 DEF TimerInv, QueueTypes
<1>4. \A d \in Conns : KeyTells(d)'
  BY <1>1, <1>2, <1>3 DEF CountInv, KeyTells, Since, NextKey
<1>5. ASSUME NEW i \in 1 .. Len(dq'), NEW d \in Conns, dq'[i].owner = d
      PROVE  Since(d)' = Len(dq') - i + 1
  BY <1>1, <1>2, <1>5, TimerAssumption DEF CountInv, Since
<1>6. \A d, e \in Conns : key'[d] # Null /\ key'[e] # Null /\ born'[d] = born'[e] => d = e
  BY <1>2, <1>3 DEF CountInv
<1> QED BY <1>2, <1>4, <1>5, <1>6 DEF CountInv

LEMMA CountStart ==
    ASSUME TimerInv, CountInv, NEW c \in Conns, StartTimer(c), TimersCounted
    PROVE  CountInv'
<1> DEFINE n == Len(dq)
<1>1. n \in Nat /\ n + 1 < 2 * SignBit /\ step \in UInt
  BY LenProperties DEF TimerInv, QueueTypes, StartTimer
<1>2. /\ Len(dq') = n + 1 /\ dq'[n + 1].owner = c
      /\ \A i \in 1 .. n : dq'[i].owner \in {dq[i].owner, Null} \ {c}
  BY StartedEntries, CancelledEntries
<1>3. step' = step /\ key' = [key EXCEPT ![c] = NextKey]
  BY DEF StartTimer, NextKey
<1>4. timers' = timers + 1 /\ born' = [born EXCEPT ![c] = timers]
  BY <1>1, <1>2 DEF TimersCounted
<1>5. NextKey \in UInt /\ MinusU(NextKey', NextKey) = 1
  <2>1. NextKey' = PlusU(step, n + 1)
    BY <1>2, <1>3 DEF NextKey
  <2> QED BY <1>1, <2>1, NextKeyMoves DEF NextKey
<1>6. /\ timers \in Nat /\ born \in [Conns -> Nat] /\ key \in [Conns -> UInt \cup {Null}]
      /\ timers' \in Nat /\ born' \in [Conns -> Nat]
  BY <1>4 DEF CountInv, TimerInv, QueueTypes
<1>7. key'[c] = NextKey /\ Since(c)' = 1 /\ born'[c] = timers
  BY <1>3, <1>4, <1>6 DEF Since
<1>8. ASSUME NEW d \in Conns, d # c
      PROVE  key'[d] = key[d] /\ born'[d] = born[d] /\ Since(d)' = Since(d) + 1 /\ Since(d) \in Int
  BY <1>3, <1>4, <1>6, <1>8 DEF Since
<1>9. KeyTells(c)'
  <2>1. SignBit \in Nat /\ 1 < 2 * SignBit
    BY SignBitAssumption
  <2> QED BY <1>4, <1>5, <1>6, <1>7, <2>1 DEF KeyTells
<1>10. ASSUME NEW d \in Conns, d # c, key'[d] # Null
       PROVE  KeyTells(d)'
  <2>1. key[d] \in UInt /\ born[d] < timers /\ SignBit \in Nat /\ born[d] \in Nat
    BY <1>6, <1>8, <1>10, SignBitAssumption DEF CountInv, KeyTells
  <2>2. born'[d] < timers'
    BY <1>4, <1>6, <1>8, <1>10, <2>1
  <2>3. ASSUME Since(d)' <= 2 * SignBit
        PROVE  MinusU(NextKey', key[d]) = IF Since(d)' = 2 * SignBit THEN 0 ELSE Since(d)'
    <3>1. Since(d)' = Since(d) + 1 /\ Since(d) < 2 * SignBit
      BY <1>8, <1>10, <2>1, <2>3
    <3>2. MinusU(NextKey, key[d]) = Since(d)
      BY <1>8, <1>10, <2>1, <3>1 DEF CountInv, KeyTells
    <3>3. MinusU(NextKey', key[d]) =
            IF MinusU(NextKey, key[d]) + 1 = 2 * SignBit THEN 0 ELSE MinusU(NextKey, key[d]) + 1
      <4>1. NextKey' = PlusU(step, n + 1) /\ NextKey = PlusU(step, n)
        BY <1>2, <1>3 DEF NextKey
      <4> QED BY <1>1, <2>1, <4>1, NextKeyMoves
    <3> QED BY <3>1, <3>2, <3>3
  <2> QED BY <1>8, <1>10, <2>2, <2>3 DEF KeyTells
<1>11. \A d \in Conns : KeyTells(d)'
  BY <1>9, <1>10 DEF KeyTells
<1>12. ASSUME NEW i \in 1 .. Len(dq'), NEW d \in Conns, dq'[i].owner = d
       PROVE  Since(d)' = Len(dq') - i + 1
  <2>1. CASE i = n + 1
    BY <1>1, <1>2, <1>7, <1>12, <2>1
  <2>2. CASE i # n + 1
    <3>1. i \in 1 .. n
      BY <1>1, <1>2, <2>2
    <3>2. d # c /\ dq[i].owner = d
      BY <1>2, <1>12, <3>1, TimerAssumption
    <3>3. Since(d) = n - i + 1
      BY <3>1, <3>2 DEF CountInv
    <3> QED BY <1>1, <1>2, <1>8, <3>1, <3>2, <3>3
  <2> QED BY <2>1, <2>2
<1>13. ASSUME NEW d \in Conns, NEW e \in Conns, key'[d] # Null, key'[e] # Null, born'[d] = born'[e]
       PROVE  d = e
  <2>1. \A f \in Conns \ {c} : key'[f] # Null => born'[f] < timers /\ born'[f] \in Nat
    BY <1>6, <1>8 DEF CountInv, KeyTells
  <2>2. CASE d = c \/ e = c
    BY <1>6, <1>7, <1>13, <2>1, <2>2
  <2>3. CASE d # c /\ e # c
    BY <1>8, <1>13, <2>3 DEF CountInv
  <2> QED BY <2>2, <2>3
<1> QED BY <1>6, <1>11, <1>12, <1>13 DEF CountInv

LEMMA CountPop ==
    ASSUME TimerInv, CountInv, NEW n \in 0 .. Len(dq), Pop(n), TimersCounted
    PROVE  CountInv'
<1>1. Len(dq) \in Nat /\ Len(dq) < 2 * SignBit /\ step \in UInt
  BY LenProperties DEF TimerInv, QueueTypes
<1>2. /\ Len(dq') = Len(dq) - n
      /\ \A i \in 1 .. Len(dq') : i + n \in 1 .. Len(dq) /\ dq'[i] = dq[i + n]
  BY PoppedEntries, Zenon
<1>3. step' = PlusU(step, n) /\ key' = key
  BY DEF Pop
<1>4. timers' = timers /\ born' = born
  BY <1>1, <1>2 DEF TimersCounted
<1>5. NextKey' = NextKey
  <2>1. NextKey' = PlusU(PlusU(step, n), Len(dq) - n)
    BY <1>2, <1>3 DEF NextKey
  <2> QED BY <1>1, <2>1, NextKeyStays DEF NextKey
<1>6. \A c \in Conns : KeyTells(c)'
  BY <1>3, <1>4, <1>5 DEF CountInv, KeyTells, Since
<1>7. ASSUME NEW i \in 1 .. Len(dq'), NEW c \in Conns, dq'[i].owner = c
      PROVE  Since(c)' = Len(dq') - i + 1
  <2>1. i + n \in 1 .. Len(dq) /\ dq[i + n].owner = c
    BY <1>2, <1>7
  <2>2. Since(c) = Len(dq) - (i + n) + 1
    BY <2>1 DEF CountInv
  <2>3. Since(c)' = Since(c)
    BY <1>4 DEF Since
  <2> QED BY <1>1, <1>2, <2>2, <2>3
<1> QED BY <1>3, <1>4, <1>6, <1>7 DEF CountInv

LEMMA CountSame ==
    ASSUME CountInv, Len(dq') = Len(dq), \A i \in 1 .. Len(dq) : dq'[i].owner = dq[i].owner,
           step' = step, key' = key, timers' = timers, born' = born
    PROVE  CountInv'
<1>1. \A c \in Conns : KeyTells(c)' /\ Since(c)' = Since(c)
  BY DEF CountInv, KeyTells, Since, NextKey
<1> QED BY <1>1 DEF CountInv

LEMMA CountStep ==
    ASSUME TimerInv, CountInv, [TimerNext]_timerVars, [TimersCounted]_<<dq, timers, born>>
    PROVE  CountInv'
<1>0. Len(dq) \in Nat
  BY LenProperties DEF TimerInv, QueueTypes
<1>1. CASE UNCHANGED timerVars
  <2>1. dq' = dq /\ step' = step /\ key' = key
    BY <1>1 DEF timerVars
  <2>2. timers' = timers /\ born' = born
    BY <1>0, <2>1 DEF TimersCounted
  <2> QED BY <2>1, <2>2, CountSame
<1>2. CASE Age
  <2>1. /\ Len(dq') = Len(dq) /\ \A i \in 1 .. Len(dq) : dq'[i].owner = dq[i].owner
        /\ step' = step /\ key' = key
    <3>1. step' = step /\ key' = key
      BY <1>2 DEF Age
    <3> QED BY <1>2, <3>1, AgedEntries, Zenon
  <2>2. timers' = timers /\ born' = born
    BY <1>0, <2>1 DEF TimersCounted
  <2> QED BY <2>1, <2>2, CountSame
<1>3. ASSUME NEW c \in Conns, CancelTimer(c) PROVE CountInv'
  <2>1. Len(dq') = Len(dq)
    BY <1>3, CancelledEntries DEF CancelTimer
  <2>2. TimersCounted
    BY <1>0, <2>1 DEF TimersCounted
  <2> QED BY <1>3, <2>2, CountCancel
<1>4. ASSUME NEW c \in Conns, StartTimer(c) PROVE CountInv'
  <2>1. Len(dq') = Len(dq) + 1
    BY <1>4, StartedEntries
  <2>2. dq' # dq
    BY <1>0, <2>1
  <2> QED BY <1>4, <2>2, CountStart
<1>5. ASSUME NEW n \in 0 .. Len(dq), Pop(n) PROVE CountInv'
  <2>1. Len(dq') = Len(dq) - n
    BY <1>5, PoppedEntries, Zenon
  <2>2. TimersCounted
    BY <1>0, <2>1 DEF TimersCounted
  <2> QED BY <1>5, <2>2, CountPop
<1> QED BY <1>1, <1>2, <1>3, <1>4, <1>5 DEF TimerNext

LEMMA FoundEntries ==
    ASSUME TimerInv, NEW c \in Conns, key[c] # Null, Index(c) < Len(dq)
    PROVE  dq[Index(c) + 1].owner \in Conns \cup {Null}
<1>1. Index(c) \in Nat
  <2>1. key[c] \in UInt /\ step \in UInt
    BY DEF TimerInv, QueueTypes
  <2> QED BY <2>1, MinusRange DEF Index
<1>2. Index(c) + 1 \in 1 .. Len(dq)
  BY <1>1, LenProperties DEF TimerInv, QueueTypes
<1>3. dq[Index(c) + 1] \in Entries
  BY <1>2, ElementOfSeq DEF TimerInv, QueueTypes
<1> QED BY <1>3 DEF Entries

\* A key finds only what is its own, unless it was given to two.
LEMMA OwnKeys == TimerInv /\ CountInv => (GivenUpInTime => KeysAreOwn)
<1> SUFFICES ASSUME TimerInv, CountInv, GivenUpInTime, NEW c \in Conns, key[c] # Null,
                    Index(c) < Len(dq), NEW d \in Conns, dq[Index(c) + 1].owner = d
             PROVE  c = d
  BY FoundEntries DEF KeysAreOwn, KeyIsOwn
<1> DEFINE i == Index(c) + 1
<1>1. /\ key[c] \in UInt /\ step \in UInt /\ Len(dq) \in Nat /\ Len(dq) < 2 * SignBit
      /\ SignBit \in Nat /\ timers \in Nat /\ born[c] \in Nat /\ born[d] \in Nat
  BY LenProperties, SignBitAssumption DEF TimerInv, QueueTypes, CountInv
<1>2. Index(c) \in Nat /\ i \in 1 .. Len(dq)
  <2>1. Index(c) \in Nat
    BY <1>1, MinusRange DEF Index
  <2> QED BY <1>1, <2>1
<1>3. key[d] # Null /\ Index(d) = Index(c)
  <2>1. key[d] # Null /\ Index(d) = i - 1
    BY <1>2 DEF TimerInv, KeysFindTimers
  <2> QED BY <1>2, <2>1
<1>4. key[d] = key[c]
  <2>1. key[d] \in UInt
    BY <1>3 DEF TimerInv, QueueTypes
  <2> QED BY <1>1, <1>3, <2>1, MinusApart DEF Index
<1>5. Since(d) = Len(dq) - i + 1
  BY <1>2 DEF CountInv
<1>6. Since(d) \in 1 .. 2 * SignBit - 1
  BY <1>1, <1>2, <1>5
<1>7. MinusU(NextKey, key[c]) = Since(d)
  BY <1>1, <1>3, <1>4, <1>6 DEF CountInv, KeyTells
<1>8. MinusU(NextKey, key[c]) = IF Since(c) = 2 * SignBit THEN 0 ELSE Since(c)
  BY DEF CountInv, KeyTells, GivenUpInTime
<1>9. born[c] = born[d]
  BY <1>1, <1>6, <1>7, <1>8 DEF Since
<1> QED BY <1>3, <1>9 DEF CountInv

LEMMA CountInvariant == Spec /\ Counting => [](Types /\ TimerInv /\ CountInv)
<1>1. Init /\ timers = 0 /\ born = [c \in Conns |-> 0] => CountInv
  BY CountInit DEF Init
<1>2. Types /\ TimerInv /\ CountInv /\ [Next]_vars /\ [TimersCounted]_<<dq, timers, born>> => CountInv'
  BY TimerSteps, CountStep
<1> QED BY <1>1, <1>2, TypesInvariant, PTL DEF Spec, Counting

\* KeysAreOwn, for any number of connections and however often step_ has wrapped,
\* in every state in which no key has been kept while 2 * SignBit timers were
\* started: cancel_deadline_timer calls off nobody else's deadline.
THEOREM KeysAreOwnInTime == Spec /\ Counting => [](GivenUpInTime => KeysAreOwn)
  BY CountInvariant, OwnKeys, PTL

\* So under that bound alone, whatever the keys are, the connections have one
\* deadline each, a pending read of an open connection has one, and nothing calls
\* back a connection that has deleted itself.
THEOREM GuardedInTime ==
    Spec /\ Counting /\ []GivenUpInTime =>
        ImplementsDeadlines /\ []ReadsHaveDeadlines /\ []DeletesWhenDone
  BY KeysAreOwnInTime, DeadlinesImplemented, ReadsAreGuarded, DeletesWhenDoneHolds, PTL
=============================================================================
