----------------------------- MODULE Deadlines -----------------------------
(***************************************************************************)
(* What a connection expects of the timer queue (crow.h): one deadline of  *)
(* its own that it may set anew or call off, which nobody else disturbs,   *)
(* and which is called back once, when it has run out.                     *)
(***************************************************************************)
EXTENDS Integers

CONSTANTS Conns, Null, Tick

\* How long ago each connection set its deadline; Null if it has none.
VARIABLE age

Init == age = [c \in Conns |-> Null]

\* start_deadline
Set(c) == age' = [age EXCEPT ![c] = 0]

\* cancel_deadline_timer
CallOff(c) == age' = [age EXCEPT ![c] = Null]

Due == {c \in Conns : age[c] # Null /\ age[c] >= Tick}

\* process, run by the worker's timer
Expire == age' = [c \in Conns |-> IF c \in Due THEN Null ELSE age[c]]

\* Ages are told apart up to Tick.
Older(a) == IF a < Tick THEN a + 1 ELSE Tick

Elapse == age' = [c \in Conns |-> IF age[c] = Null THEN Null ELSE Older(age[c])]

Next ==
    \/ \E c \in Conns : Set(c) \/ CallOff(c)
    \/ Expire
    \/ Elapse

Spec == Init /\ [][Next]_age
=============================================================================
