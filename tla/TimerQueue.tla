----------------------------- MODULE TimerQueue -----------------------------
(***************************************************************************)
(* dumb_timer_queue (crow.h): a deque of callbacks, all with the same      *)
(* timeout, from whose front those that are due are popped.  The key a     *)
(* connection keeps for cancelling is an int, counted from step_, which    *)
(* counts the entries ever popped; both wrap.                              *)
(*                                                                         *)
(* An entry is its age, in units of which Tick make up the timeout, and    *)
(* the connection it calls back, Null once cancelled.  What a callback     *)
(* does to its connection is module Connection's.                          *)
(***************************************************************************)
EXTENDS MachineInts, Sequences

CONSTANTS
    Conns,
    Null,
    Tick

ASSUME TimerAssumption ==
    /\ Tick \in Nat \ {0}
    /\ Null \notin Conns /\ Null \notin Nat

VARIABLES
    dq,     \* dq_
    step,   \* step_
    key     \* timer_cancel_key_ of each connection; Null when its first is nullptr

timerVars == <<dq, step, key>>

TimerInit ==
    /\ dq = <<>>
    /\ step = 0
    /\ key = [c \in Conns |-> Null]

\* Fault: the offset from step_ is forgotten.
IndexUnshifted(c) == key[c]

\* index = (unsigned int)(k.second - self->step_), counted from 0.
Index(c) == MinusU(key[c], step)

\* dq_ after cancel(key of c).
Cancelled(c) ==
    [i \in 1..Len(dq) |->
        IF key[c] # Null /\ i = Index(c) + 1 THEN [dq[i] EXCEPT !.owner = Null] ELSE dq[i]]

\* cancel_deadline_timer
CancelTimer(c) ==
    /\ dq' = Cancelled(c)
    /\ key' = [key EXCEPT ![c] = Null]
    /\ UNCHANGED step

\* start_deadline: cancel, then add.  The deque never holds 2^32 entries.
StartTimer(c) ==
    /\ Len(dq) + 1 < 2 * SignBit
    /\ dq' = Append(Cancelled(c), [age |-> 0, owner |-> c])
    /\ key' = [key EXCEPT ![c] = PlusU(step, Len(dq))]
    /\ UNCHANGED step

\* The front n entries are due, and they are all process pops.
DueCount(n) ==
    /\ n \in 0..Len(dq)
    /\ \A i \in 1..n : dq[i].age >= Tick
    /\ n < Len(dq) => dq[n + 1].age < Tick

\* Fault: the entry that stops the loop is popped with the others.
PopOneMore(n) ==
    LET m == IF n < Len(dq) THEN n + 1 ELSE n IN
    /\ dq' = SubSeq(dq, m + 1, Len(dq))
    /\ step' = PlusU(step, m)
    /\ UNCHANGED key

\* Fault: step_ is incremented once.
PopCountsOnce(n) ==
    /\ dq' = SubSeq(dq, n + 1, Len(dq))
    /\ step' = IF n = 0 THEN step ELSE PlusU(step, 1)
    /\ UNCHANGED key

\* dq_.pop_front() and step_++, n times.
Pop(n) ==
    /\ dq' = SubSeq(dq, n + 1, Len(dq))
    /\ step' = PlusU(step, n)
    /\ UNCHANGED key

Fired(n) == {dq[i].owner : i \in 1..n} \ {Null}

\* Time passes.
Age ==
    /\ dq' = [i \in 1..Len(dq) |->
                [dq[i] EXCEPT !.age = IF dq[i].age < Tick THEN dq[i].age + 1 ELSE Tick]]
    /\ UNCHANGED <<step, key>>

TimerNext ==
    \/ \E c \in Conns : CancelTimer(c) \/ StartTimer(c)
    \/ \E n \in 0..Len(dq) : DueCount(n) /\ Pop(n)
    \/ Age

TimerSpec == TimerInit /\ [][TimerNext]_timerVars

-----------------------------------------------------------------------------
\* Properties

\* The key of a connection finds the one entry that will call it back, however
\* many entries have been popped and wherever the ints have wrapped: cancelling
\* never leaves a callback to a connection behind.
KeysFindTimers ==
    \A i \in 1..Len(dq) : \A c \in Conns :
        dq[i].owner = c => key[c] # Null /\ Index(c) = i - 1

\* The key c has kept does not find the entry of another connection.
KeyIsOwn(c) ==
    key[c] # Null /\ Index(c) < Len(dq) => dq[Index(c) + 1].owner \in {c, Null}

\* Cancelling with a key that was kept past its timer calls off nobody else's.
\* A key that is kept while 2 * SignBit entries are popped would.
KeysAreOwn == \A c \in Conns : KeyIsOwn(c)

\* Deadlines are queued in the order they run out, so process misses none.
OldestFirst == \A i, j \in 1..Len(dq) : i < j => dq[i].age >= dq[j].age

\* The age of the entry that will call c back.
AgeOf(c) ==
    IF \E i \in 1..Len(dq) : dq[i].owner = c
    THEN dq[CHOOSE i \in 1..Len(dq) : dq[i].owner = c].age
    ELSE Null

ADeadlines == INSTANCE Deadlines WITH age <- [c \in Conns |-> AgeOf(c)]
=============================================================================
