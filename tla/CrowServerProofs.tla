-------------------------- MODULE CrowServerProofs --------------------------
(***************************************************************************)
(* The server's start and stop, for any number of workers.  The accept     *)
(* loop begins when as many workers have counted themselves in as there    *)
(* are; none counts itself twice, so then all have, and each has published *)
(* its timer queue before.                                                 *)
(***************************************************************************)
EXTENDS CrowServer, Router, SequenceTheorems, FiniteSetTheorems, WellFoundedInduction, TLAPS

Counted == {w \in Workers : pc[w] \in {"loop", "handler", "stopping", "exited"}}

\* The types that need no count.
Types ==
    /\ main \in {"launching", "unwinding", "waiting", "accepting", "returned"}
    /\ launched \in 0 .. N
    /\ pc \in [Workers -> {"none", "starting", "set_up", "loop", "handler", "stopping",
                      "threw", "exited"}]
    /\ queues \subseteq Workers
    /\ index \in Workers
    /\ given \in [Workers -> Nat] /\ posted \in [Workers -> Nat]
    /\ signalled \in BOOLEAN
    /\ stopping \in [Workers \cup {Main} -> -1 .. N]
    /\ stopped \subseteq Workers \cup {Main}

CountInv ==
    /\ initCount = Cardinality(Counted)
    /\ \A w \in Workers : pc[w] = "set_up" \/ w \in Counted => w \in queues

LaunchInv == \A w \in Workers : w >= launched => pc[w] = "none"

ReadyInv ==
    /\ main \in {"accepting", "returned"} => queues = Workers
    /\ main \notin {"accepting", "returned"} => \A w \in Workers : given[w] = 0

StopInv ==
    /\ \A w \in Workers : stopping[w] # -1 => pc[w] = "stopping"
    /\ main = "returned" =>
        stopping[Main] = -1 /\ \A w \in Workers : pc[w] \in {"exited", "threw"}

\* The worker given a connection last is the last of the round that is under way.
Round(k) == \A w \in Workers : given[w] = IF 1 <= w /\ w <= index THEN k + 1 ELSE k

RoundInv == \E k \in Nat : Round(k)

Inv == Types /\ CountInv /\ LaunchInv /\ ReadyInv /\ StopInv /\ RoundInv

LEMMA WorkersFinite == IsFiniteSet(Workers) /\ Cardinality(Workers) = N
<1>1. N \in Nat /\ N > 0 /\ N - 1 \in Int /\ 0 \in Int
  BY NAssumption
<1>2. IsFiniteSet(0 .. N - 1) /\ Cardinality(0 .. N - 1) = IF 0 > N - 1 THEN 0 ELSE N - 1 - 0 + 1
  BY <1>1, FS_Interval
<1> QED BY <1>1, <1>2 DEF Workers

LEMMA MainIsNoWorker == Main \notin Workers /\ 0 \in Workers
  BY NAssumption DEF Main, Workers

\* The count of those that have counted themselves in is at most N, and N only if all have.
LEMMA CountedBound ==
    /\ IsFiniteSet(Counted) /\ Cardinality(Counted) \in 0 .. N
    /\ Cardinality(Counted) = N => Counted = Workers
<1>1. Counted \in SUBSET Workers
  BY DEF Counted
<1>2. IsFiniteSet(Counted) /\ Cardinality(Counted) <= N
      /\ (Cardinality(Workers) = Cardinality(Counted) => Workers = Counted)
  BY <1>1, WorkersFinite, FS_Subset
<1>3. Cardinality(Counted) \in Nat
  BY <1>2, FS_CardinalityType
<1> QED BY <1>2, <1>3, WorkersFinite, NAssumption

LEMMA NextIndexType == index \in Workers => NextIndex \in Workers
  BY NAssumption DEF Workers, NextIndex

LEMMA InitInv == Init => Inv
<1> SUFFICES ASSUME Init PROVE Inv
  OBVIOUS
<1>1. Types
  <2>1. 0 \in 0 .. N /\ -1 \in -1 .. N
    BY NAssumption
  <2> QED BY <2>1, MainIsNoWorker DEF Init, Types
<1>2. Counted = {}
  BY DEF Init, Counted
<1>3. CountInv
  BY <1>2, FS_EmptySet DEF Init, CountInv
<1>4. LaunchInv /\ ReadyInv /\ StopInv
  BY DEF Init, LaunchInv, ReadyInv, StopInv
<1>5. Round(0)
  BY DEF Init, Round, Workers
<1>6. RoundInv
  BY <1>5 DEF RoundInv
<1> QED BY <1>1, <1>3, <1>4, <1>6 DEF Inv

-----------------------------------------------------------------------------
(* Types *)

LEMMA StartingTypes == ASSUME Types, Starting \/ LaunchFails \/ Return PROVE Types'
<1>1. CASE Launch
  <2>1. launched' \in 0 .. N
    BY <1>1, NAssumption DEF Types, Launch
  <2> QED BY <1>1, <2>1 DEF Types, Launch, acceptVars, stopVars
<1>2. CASE Launched \/ LaunchFails \/ Return
  BY <1>2 DEF Types, Launched, LaunchFails, Return, acceptVars, stopVars
<1>3. CASE StartAccepting
  <2>1. NextIndex \in Workers /\ given[NextIndex] + 1 \in Nat
    BY NextIndexType DEF Types
  <2> QED BY <1>3, <2>1 DEF Types, StartAccepting, DoAccept, stopVars
<1> QED BY <1>1, <1>2, <1>3 DEF Starting

LEMMA AcceptedTypes == ASSUME Types, Accepted PROVE Types'
<1>1. NextIndex \in Workers /\ given[NextIndex] + 1 \in Nat /\ posted[index] + 1 \in Nat
  BY NextIndexType DEF Types
<1>2. given' \in [Workers -> Nat] /\ index' \in Workers
  BY <1>1 DEF Types, Accepted, DoAccept
<1>3. posted' \in [Workers -> Nat]
  BY <1>1 DEF Types, Accepted
<1> QED BY <1>2, <1>3 DEF Types, Accepted, stopVars

LEMMA ServeTypes ==
    ASSUME Types, NEW w \in Workers, Serve(w) \/ SetUpThrows(w)
    PROVE  Types'
<1>1. CASE RunHandler(w)
  <2>1. posted[w] - 1 \in Nat
    BY <1>1 DEF Types, RunHandler
  <2> QED BY <1>1, <2>1 DEF Types, RunHandler, acceptVars, stopVars
<1>2. CASE SetUp(w) \/ CountIn(w) \/ HandlerEnds(w) \/ WorkerExits(w) \/ SetUpThrows(w)
  BY <1>2 DEF Types, SetUp, CountIn, HandlerEnds, WorkerExits, SetUpThrows, acceptVars, stopVars
<1> QED BY <1>1, <1>2 DEF Serve

LEMMA StopTypes ==
    ASSUME Types, NEW t \in Workers \cup {Main}, Signal \/ CallStop(t) \/ StopNext(t)
    PROVE  Types'
<1>1. CASE Signal
  BY <1>1 DEF Types, Signal, acceptVars
<1>2. CASE CallStop(t)
  <2>1. 0 \in -1 .. N
    BY NAssumption
  <2>2. stopping' \in [Workers \cup {Main} -> -1 .. N]
    BY <1>2, <2>1 DEF Types, CallStop
  <2>3. pc' \in [Workers -> {"none", "starting", "set_up", "loop", "handler", "stopping",
                               "threw", "exited"}]
    BY <1>2 DEF Types, CallStop
  <2> QED BY <1>2, <2>2, <2>3 DEF Types, CallStop, acceptVars
<1>3. CASE StopNext(t)
  <2>1. Target(t) \in Workers \cup {Main}
    BY <1>3, NAssumption DEF Types, StopNext, Target, Workers
  <2>2. (IF stopping[t] = N THEN -1 ELSE stopping[t] + 1) \in -1 .. N
    BY <1>3, NAssumption DEF StopNext
  <2> QED BY <1>3, <2>1, <2>2 DEF Types, StopNext, acceptVars
<1> QED BY <1>1, <1>2, <1>3

LEMMA StepTypes == Types /\ [Next]_vars => Types'
<1>1. Types /\ UNCHANGED vars => Types'
  BY DEF Types, vars
<1> QED BY <1>1, StartingTypes, AcceptedTypes, ServeTypes, StopTypes DEF Next

-----------------------------------------------------------------------------
(* The count *)

\* Steps of the main thread and of stop do not change who has counted.
LEMMA CountKept ==
    ASSUME Types, CountInv, UNCHANGED <<queues, initCount>>,
           \A w \in Workers : /\ pc'[w] \in {"loop", "handler", "stopping", "exited"} <=>
                                   pc[w] \in {"loop", "handler", "stopping", "exited"}
                              /\ pc'[w] = "set_up" => pc[w] = "set_up"
    PROVE  CountInv'
<1>1. Counted' = Counted
  BY DEF Counted
<1> QED BY <1>1 DEF CountInv

LEMMA StepCount == Types /\ CountInv /\ LaunchInv /\ [Next]_vars => CountInv' /\ LaunchInv'
<1> SUFFICES ASSUME Types, CountInv, LaunchInv, [Next]_vars PROVE CountInv' /\ LaunchInv'
  OBVIOUS
<1>1. CASE UNCHANGED <<pc, launched, queues, initCount>>
  BY <1>1 DEF CountInv, LaunchInv, Counted
<1>2. CASE Launch
  <2>1. launched \in Workers /\ pc[launched] = "none"
    BY <1>2, NAssumption DEF Types, LaunchInv, Launch, Workers
  <2>2. CountInv'
    BY <1>2, <2>1, CountKept DEF Types, Launch
  <2>3. LaunchInv'
    BY <1>2, NAssumption DEF Types, LaunchInv, Launch, Workers
  <2> QED BY <2>2, <2>3
<1>3. ASSUME NEW w \in Workers, Serve(w) \/ SetUpThrows(w) \/ CallStop(w)
      PROVE  CountInv' /\ LaunchInv'
  <2>1. pc[w] # "none" /\ launched' = launched /\ \A v \in Workers : v # w => pc'[v] = pc[v]
    BY <1>3, MainIsNoWorker DEF Types, Serve, SetUp, CountIn, RunHandler, HandlerEnds, WorkerExits, SetUpThrows, CallStop
  <2>2. LaunchInv'
    BY <2>1 DEF LaunchInv
  <2>3. CASE SetUp(w)
    <3>1. Counted' = Counted
      BY <2>3 DEF Types, SetUp, Counted
    <3>2. initCount' = initCount /\ queues' = queues \cup {w}
      BY <2>3 DEF SetUp
    <3>3. \A v \in Workers : pc'[v] = "set_up" => v = w \/ pc[v] = "set_up"
      BY <2>1
    <3> QED BY <2>2, <3>1, <3>2, <3>3 DEF CountInv
  <2>4. CASE CountIn(w)
    <3>1. Counted' = Counted \cup {w} /\ w \notin Counted
      BY <2>4 DEF Types, CountIn, Counted
    <3>2. Cardinality(Counted') = Cardinality(Counted) + 1
      BY <3>1, CountedBound, FS_AddElement
    <3>3. initCount' = initCount + 1 /\ queues' = queues /\ pc[w] = "set_up"
      BY <2>4 DEF CountIn
    <3>4. \A v \in Workers : pc'[v] = "set_up" => pc[v] = "set_up"
      BY <2>1, <3>3
    <3> QED BY <2>2, <3>1, <3>2, <3>3, <3>4 DEF CountInv
  <2>5. CASE RunHandler(w) \/ HandlerEnds(w) \/ WorkerExits(w) \/ SetUpThrows(w) \/ CallStop(w)
    <3>1. UNCHANGED <<queues, initCount>>
      BY <2>5 DEF RunHandler, HandlerEnds, WorkerExits, SetUpThrows, CallStop
    <3>2. /\ pc'[w] \in {"loop", "handler", "stopping", "exited"} <=>
             pc[w] \in {"loop", "handler", "stopping", "exited"}
          /\ pc'[w] # "set_up"
      BY <2>5, MainIsNoWorker DEF Types, RunHandler, HandlerEnds, WorkerExits, SetUpThrows, CallStop
    <3> QED BY <2>1, <2>2, <3>1, <3>2, CountKept
  <2> QED BY <1>3, <2>3, <2>4, <2>5 DEF Serve
<1>4. CASE Launched \/ StartAccepting \/ LaunchFails \/ Accepted \/ Signal \/ Return
  BY <1>1, <1>4 DEF Launched, StartAccepting, LaunchFails, Accepted, Signal, Return
<1>5. ASSUME NEW t \in Workers \cup {Main}, StopNext(t) \/ (t = Main /\ CallStop(t))
      PROVE  CountInv' /\ LaunchInv'
  BY <1>1, <1>5 DEF StopNext, CallStop
<1>6. CASE UNCHANGED vars
  BY <1>1, <1>6 DEF vars
<1> QED BY <1>2, <1>3, <1>4, <1>5, <1>6 DEF Next, Starting

LEMMA StepReady == Types /\ CountInv /\ ReadyInv /\ [Next]_vars => ReadyInv'
<1> SUFFICES ASSUME Types, CountInv, ReadyInv, [Next]_vars PROVE ReadyInv'
  OBVIOUS
<1>1. CASE UNCHANGED <<main, queues, given>>
  BY <1>1 DEF ReadyInv
<1>2. CASE StartAccepting
  <2>1. Counted = Workers
    BY <1>2, CountedBound DEF StartAccepting, AllIn, CountInv
  <2>2. queues = Workers
    BY <2>1 DEF CountInv, Types
  <2> QED BY <1>2, <2>2 DEF StartAccepting, ReadyInv
<1>3. CASE Accepted \/ Return
  BY <1>3 DEF Accepted, InAcceptLoop, Return, acceptVars, ReadyInv
<1>4. CASE Launched \/ LaunchFails
  BY <1>4 DEF Launched, LaunchFails, acceptVars, ReadyInv
<1>5. ASSUME NEW w \in Workers, SetUp(w) PROVE ReadyInv'
  BY <1>5 DEF SetUp, acceptVars, ReadyInv
<1>6. CASE Launch \/ Signal
  BY <1>1, <1>6 DEF Launch, Signal, acceptVars
<1>7. ASSUME NEW w \in Workers,
             CountIn(w) \/ RunHandler(w) \/ HandlerEnds(w) \/ WorkerExits(w) \/ SetUpThrows(w)
      PROVE  ReadyInv'
  BY <1>1, <1>7 DEF CountIn, RunHandler, HandlerEnds, WorkerExits, SetUpThrows, acceptVars
<1>8. ASSUME NEW t \in Workers \cup {Main}, CallStop(t) \/ StopNext(t) PROVE ReadyInv'
  BY <1>1, <1>8 DEF CallStop, StopNext, acceptVars
<1>9. CASE UNCHANGED vars
  BY <1>1, <1>9 DEF vars
<1> QED BY <1>2, <1>3, <1>4, <1>5, <1>6, <1>7, <1>8, <1>9 DEF Next, Starting, Serve

-----------------------------------------------------------------------------
(* Stopping *)

LEMMA StepStop == Types /\ LaunchInv /\ StopInv /\ [Next]_vars => StopInv'
<1> SUFFICES ASSUME Types, LaunchInv, StopInv, [Next]_vars PROVE StopInv'
  OBVIOUS
<1>1. CASE UNCHANGED <<main, pc, stopping>>
  BY <1>1 DEF StopInv
<1>2. CASE Launch
  <2>1. launched \in Workers /\ main' # "returned" /\ pc[launched] = "none"
    BY <1>2, NAssumption DEF Types, LaunchInv, Launch, Workers
  <2>2. stopping' = stopping /\ \A w \in Workers : pc[w] = "stopping" => pc'[w] = "stopping"
    BY <1>2, <2>1 DEF Types, Launch, stopVars
  <2> QED BY <2>1, <2>2 DEF StopInv
<1>3. CASE Launched \/ LaunchFails \/ StartAccepting
  BY <1>3 DEF Launched, LaunchFails, StartAccepting, stopVars, StopInv
<1>4. CASE Return
  BY <1>4 DEF Return, stopVars, StopInv
<1>5. CASE Accepted \/ Signal
  BY <1>1, <1>5 DEF Accepted, Signal, stopVars
<1>6. ASSUME NEW w \in Workers, Serve(w) \/ SetUpThrows(w) PROVE StopInv'
  <2>1. stopping' = stopping /\ main' = main
    BY <1>6 DEF Serve, SetUp, CountIn, RunHandler, HandlerEnds, WorkerExits, SetUpThrows, stopVars
  <2>2. pc[w] \notin {"exited", "threw"} /\ \A v \in Workers : v # w => pc'[v] = pc[v]
    BY <1>6 DEF Types, Serve, SetUp, CountIn, RunHandler, HandlerEnds, WorkerExits, SetUpThrows
  <2>3. pc[w] = "stopping" => stopping[w] = -1
    BY <1>6 DEF Serve, SetUp, CountIn, RunHandler, HandlerEnds, WorkerExits, SetUpThrows
  <2>4. \A v \in Workers : stopping'[v] # -1 => pc'[v] = "stopping"
    BY <2>1, <2>2, <2>3 DEF StopInv
  <2>5. main' # "returned"
    BY <2>1, <2>2 DEF StopInv
  <2> QED BY <2>4, <2>5 DEF StopInv
<1>7. ASSUME NEW w \in Workers, CallStop(w) PROVE StopInv'
  <2>1. pc[w] = "handler" /\ pc' = [pc EXCEPT ![w] = "stopping"] /\ main' = main
    BY <1>7, MainIsNoWorker DEF CallStop
  <2>2. main' # "returned"
    BY <2>1 DEF StopInv
  <2>3. \A v \in Workers : stopping'[v] # -1 => pc'[v] = "stopping"
    BY <1>7, <2>1 DEF CallStop, StopInv, Types
  <2> QED BY <2>2, <2>3 DEF StopInv
<1>8. CASE CallStop(Main)
  BY <1>8, MainIsNoWorker DEF CallStop, InAcceptLoop, StopInv, Types
<1>9. ASSUME NEW t \in Workers \cup {Main}, StopNext(t) PROVE StopInv'
  <2>1. UNCHANGED <<main, pc>> /\ stopping[t] # -1
        /\ \A u \in Workers \cup {Main} : u # t => stopping'[u] = stopping[u]
    BY <1>9 DEF StopNext, Types
  <2>2. \A v \in Workers : stopping'[v] # -1 => pc'[v] = "stopping"
    BY <2>1 DEF StopInv
  <2>3. main = "returned" => t # Main
    BY <2>1 DEF StopInv
  <2> QED BY <2>1, <2>2, <2>3 DEF StopInv
<1>10. CASE UNCHANGED vars
  BY <1>1, <1>10 DEF vars
<1> QED BY <1>2, <1>3, <1>4, <1>5, <1>6, <1>7, <1>8, <1>9, <1>10 DEF Next, Starting

-----------------------------------------------------------------------------
(* Turns *)

\* One more connection for the next worker keeps the round, or begins the next.
LEMMA DoAcceptRound == Types /\ RoundInv /\ DoAccept => RoundInv'
<1> SUFFICES ASSUME Types, RoundInv, DoAccept PROVE RoundInv'
  OBVIOUS
<1>1. PICK k \in Nat : Round(k)
  BY DEF RoundInv
<1>2. N \in Nat /\ N > 0 /\ index \in Int /\ 0 <= index /\ index <= N - 1
  BY NAssumption DEF Types, Workers
<1>3. index' = NextIndex /\ NextIndex \in Workers
  BY NextIndexType DEF Types, DoAccept
<1>4. \A w \in Workers : given'[w] = IF w = NextIndex THEN given[w] + 1 ELSE given[w]
  BY <1>3 DEF DoAccept, Types
<1>5. CASE index + 1 >= N
  <2>1. NextIndex = 0 /\ index = N - 1
    BY <1>2, <1>5 DEF NextIndex
  <2>2. \A w \in Workers : w \in Int /\ 0 <= w /\ w <= index
    BY <1>2, <2>1 DEF Workers
  <2>3. \A w \in Workers : given'[w] = k + 1
    BY <1>1, <1>4, <2>1, <2>2 DEF Round
  <2>4. \A w \in Workers : ~ (1 <= w /\ w <= index')
    BY <1>3, <2>1, <2>2
  <2>5. Round(k + 1)'
    BY <2>3, <2>4 DEF Round
  <2> QED BY <2>5 DEF RoundInv
<1>6. CASE ~ (index + 1 >= N)
  <2>1. NextIndex = index + 1
    BY <1>6 DEF NextIndex
  <2>2. \A w \in Workers : (1 <= w /\ w <= index') <=> w = NextIndex \/ (1 <= w /\ w <= index)
    BY <1>2, <1>3, <2>1 DEF Workers
  <2>3. ~ (1 <= NextIndex /\ NextIndex <= index)
    BY <1>2, <2>1
  <2>4. given[NextIndex] = k
    BY <1>1, <1>3, <2>3 DEF Round
  <2>5. Round(k)'
    BY <1>1, <1>4, <2>2, <2>4 DEF Round
  <2> QED BY <2>5 DEF RoundInv
<1> QED BY <1>5, <1>6

LEMMA StepRound == Types /\ RoundInv /\ [Next]_vars => RoundInv'
<1> SUFFICES ASSUME Types, RoundInv, [Next]_vars PROVE RoundInv'
  OBVIOUS
<1>1. CASE UNCHANGED acceptVars
  BY <1>1 DEF acceptVars, RoundInv, Round
<1>2. CASE StartAccepting \/ Accepted
  BY <1>2, DoAcceptRound DEF StartAccepting, Accepted
<1>3. CASE Launch \/ Launched \/ LaunchFails \/ Signal \/ Return
  BY <1>1, <1>3 DEF Launch, Launched, LaunchFails, Signal, Return
<1>4. ASSUME NEW w \in Workers, Serve(w) \/ SetUpThrows(w) PROVE RoundInv'
  BY <1>1, <1>4 DEF Serve, SetUp, CountIn, RunHandler, HandlerEnds, WorkerExits, SetUpThrows
<1>5. ASSUME NEW t \in Workers \cup {Main}, CallStop(t) \/ StopNext(t) PROVE RoundInv'
  BY <1>1, <1>5 DEF CallStop, StopNext
<1>6. CASE UNCHANGED vars
  BY <1>1, <1>6 DEF vars, acceptVars
<1> QED BY <1>2, <1>3, <1>4, <1>5, <1>6 DEF Next, Starting

-----------------------------------------------------------------------------
\* The invariant: types, the count, readiness, stopping and the turns taken.
THEOREM Invariance == Spec => []Inv
<1>1. Inv /\ [Next]_vars => Inv'
  BY StepTypes, StepCount, StepReady, StepStop, StepRound DEF Inv
<1> QED BY InitInv, <1>1, PTL DEF Spec

\* The state always has its type: in particular init_count never passes the
\* number of workers, which the loop that waits for equality depends on.
THEOREM TypeCorrect == Spec => []TypeOK
<1>1. Inv => TypeOK
  BY CountedBound DEF Inv, Types, CountInv, TypeOK
<1> QED BY Invariance, <1>1, PTL

\* No connection is made for a worker before it has published its timer queue.
THEOREM GivenToReadyHolds == Spec => []GivenToReady
<1>1. Inv => GivenToReady
  <2> SUFFICES ASSUME Inv, NEW w \in Workers, given[w] > 0 PROVE w \in queues
    BY DEF GivenToReady
  <2>1. main \in {"accepting", "returned"}
    BY DEF Inv, ReadyInv
  <2> QED BY <2>1 DEF Inv, ReadyInv
<1> QED BY Invariance, <1>1, PTL

\* pick_io_service spreads the connections evenly over any number of workers.
THEOREM BalancedHolds == Spec => []Balanced
<1>1. Inv => Balanced
  <2> SUFFICES ASSUME Inv, NEW v \in Workers, NEW w \in Workers PROVE given[v] <= given[w] + 1
    BY DEF Balanced
  <2>1. PICK k \in Nat : Round(k)
    BY DEF Inv, RoundInv
  <2>2. given[v] \in {k, k + 1} /\ given[w] \in {k, k + 1}
    BY <2>1 DEF Round
  <2> QED BY <2>2
<1> QED BY Invariance, <1>1, PTL

\* When run returns no worker is in a handler and no call of stop in progress.
THEOREM ReturnsLastHolds == Spec => []ReturnsLast
<1>1. Inv => ReturnsLast
  <2> SUFFICES ASSUME Inv, main = "returned" PROVE ReturnsLast
    BY DEF ReturnsLast
  <2>1. stopping[Main] = -1 /\ \A w \in Workers : pc[w] \in {"exited", "threw"}
    BY DEF Inv, StopInv
  <2>2. \A w \in Workers : stopping[w] = -1
    BY <2>1 DEF Inv, StopInv
  <2> QED BY <2>1, <2>2 DEF ReturnsLast
<1> QED BY Invariance, <1>1, PTL

-----------------------------------------------------------------------------
(* Routing.  The nodes of the trie are labelled with the ways down to them *)
(* (Tree), and add changes nothing but the way of its pattern (AddTree).   *)

Labels == Symbols \cup ParamType

\* Every nonempty set of naturals has a least element.
LEMMA LeastNumber ==
    ASSUME NEW T, T \subseteq Nat, T # {}
    PROVE  \E m \in T : \A n \in T : m <= n
<1>1. PICK m \in T : \A n \in T : ~ (<<n, m>> \in OpToRel(<, Nat))
  BY WFMin, NatLessThanWellFounded
<1>2. \A n \in T : ~ (n < m)
  BY <1>1 DEF OpToRel
<1> QED BY <1>2, SMT

\* Every type has a name, which is a symbol.
LEMMA TypeNamedType ==
    /\ DOMAIN TypeNamed \subseteq Symbols
    /\ \A s \in DOMAIN TypeNamed : TypeNamed[s] \in ParamType
    /\ \A t \in ParamType : \E s \in DOMAIN TypeNamed : TypeNamed[s] = t
<1>1. DOMAIN TypeNamed = {"<int>", "<uint>", "<float>", "<double>", "<str>", "<string>", "<path>"}
  BY DEF TypeNamed
<1>2. /\ TypeNamed["<int>"] = "INT" /\ TypeNamed["<uint>"] = "UINT"
      /\ TypeNamed["<float>"] = "DOUBLE" /\ TypeNamed["<double>"] = "DOUBLE"
      /\ TypeNamed["<str>"] = "STRING" /\ TypeNamed["<string>"] = "STRING"
      /\ TypeNamed["<path>"] = "PATH"
  BY DEF TypeNamed
<1>3. DOMAIN TypeNamed \subseteq Symbols
  BY DEF Symbols
<1>4. \A s \in DOMAIN TypeNamed : TypeNamed[s] \in ParamType
  BY <1>1, <1>2 DEF ParamType
<1>5. \A t \in ParamType : \E s \in DOMAIN TypeNamed : TypeNamed[s] = t
  BY <1>1, <1>2 DEF ParamType
<1> QED BY <1>3, <1>4, <1>5

\* Two symbols have the same label if they are the same character, or parameters of one type.
LEMMA LabelSame ==
    /\ \A s \in Symbols : Label(s) \in Labels
    /\ \A r, s \in Symbols : Label(r) = Label(s) =>
          /\ r \in DOMAIN TypeNamed <=> s \in DOMAIN TypeNamed
          /\ r \in DOMAIN TypeNamed => TypeNamed[r] = TypeNamed[s]
          /\ r \notin DOMAIN TypeNamed => r = s
    /\ \A s \in Symbols : s \in DOMAIN TypeNamed <=> Label(s) \in ParamType
<1>1. \A s \in Symbols : s \notin ParamType
  <2>1. \A s \in DOMAIN TypeNamed : s \notin ParamType
    BY DEF TypeNamed, ParamType
  <2> QED BY <2>1, PatternsAssumption DEF Symbols
<1> QED BY <1>1, TypeNamedType DEF Label, Labels

LEMMA NodeFields ==
    ASSUME NEW node \in Node
    PROVE  /\ node.rule \in Nat /\ node.params \in [ParamType -> Nat]
           /\ DOMAIN node.children \subseteq {<<s>> : s \in Symbols}
           /\ node.children = [f \in DOMAIN node.children |-> node.children[f]]
           /\ \A f \in DOMAIN node.children : node.children[f] \in Nat
           /\ node = [rule |-> node.rule, params |-> node.params, children |-> node.children]
<1>1. PICK fragments \in SUBSET {<<s>> : s \in Symbols} : node.children \in [fragments -> Nat]
  BY DEF Node
<1> QED BY <1>1 DEF Node

LEMMA ChildType ==
    ASSUME NEW node \in Node, NEW s \in Symbols
    PROVE  Child(node, s) \in Nat
BY NodeFields, TypeNamedType DEF Child

LEMMA EmptyNodeType ==
    EmptyNode \in Node /\ EmptyNode.rule = 0 /\ \A s \in Symbols : Child(EmptyNode, s) = 0
<1>1. DOMAIN <<>> = {} /\ <<>> \in [{} -> Nat] 
  OBVIOUS
<1>2. {} \in SUBSET {<<s>> : s \in Symbols}
  OBVIOUS
<1>3. EmptyNode \in Node
  BY <1>1, <1>2 DEF EmptyNode, Node
<1> QED BY <1>1, <1>3, TypeNamedType DEF EmptyNode, Child

\* A node with a new child has that child for all symbols with its label, and else what it had.
LEMMA WithChildNode ==
    ASSUME NEW node \in Node, NEW s \in Symbols, NEW new \in Nat
    PROVE  /\ WithChild(node, s, new) \in Node
           /\ WithChild(node, s, new).rule = node.rule
           /\ \A r \in Symbols : Child(WithChild(node, s, new), r) =
                 IF Label(r) = Label(s) THEN new ELSE Child(node, r)
<1>1. CASE s \in DOMAIN TypeNamed
  <2>1. WithChild(node, s, new) = [node EXCEPT !.params[TypeNamed[s]] = new]
    BY <1>1 DEF WithChild
  <2>2. PICK ps : ps = [node.params EXCEPT ![TypeNamed[s]] = new]
    OBVIOUS
  <2>3. ps \in [ParamType -> Nat] /\ \A t \in ParamType : ps[t] = IF t = TypeNamed[s] THEN new ELSE node.params[t]
    BY <1>1, <2>2, NodeFields, TypeNamedType
  <2>4. WithChild(node, s, new) = [rule |-> node.rule, params |-> ps, children |-> node.children]
    BY <2>1, <2>2, NodeFields
  <2>5. WithChild(node, s, new) \in Node
    BY <2>3, <2>4 DEF Node
  <2>6. ASSUME NEW r \in Symbols PROVE Child(WithChild(node, s, new), r) =
                 IF Label(r) = Label(s) THEN new ELSE Child(node, r)
    <3>1. CASE r \in DOMAIN TypeNamed
      BY <3>1, <1>1, <2>3, <2>4, TypeNamedType DEF Child, Label
    <3>2. CASE r \notin DOMAIN TypeNamed
      BY <3>2, <1>1, <2>4, LabelSame DEF Child
    <3> QED BY <3>1, <3>2
  <2> QED BY <2>4, <2>5, <2>6
<1>2. CASE s \notin DOMAIN TypeNamed
  <2>1. WithChild(node, s, new) = [node EXCEPT !.children = [f \in DOMAIN node.children \cup {<<s>>} |->
                                       IF f = <<s>> THEN new ELSE node.children[f]]]
    BY <1>2, NodeFields DEF WithChild
  <2>2. PICK kids : kids = [f \in DOMAIN node.children \cup {<<s>>} |->
                                       IF f = <<s>> THEN new ELSE node.children[f]]
    OBVIOUS
  <2>3. /\ DOMAIN kids = DOMAIN node.children \cup {<<s>>}
        /\ \A f \in DOMAIN kids : kids[f] = IF f = <<s>> THEN new ELSE node.children[f]
        /\ kids \in [DOMAIN kids -> Nat] /\ DOMAIN kids \in SUBSET {<<r>> : r \in Symbols}
    BY <2>2, NodeFields
  <2>4. WithChild(node, s, new) = [rule |-> node.rule, params |-> node.params, children |-> kids]
    BY <2>1, <2>2, NodeFields
  <2>5. WithChild(node, s, new) \in Node
    <3>1. kids \in UNION {[fragments -> Nat] : fragments \in SUBSET {<<r>> : r \in Symbols}}
      BY <2>3
    <3> QED BY <3>1, <2>4, NodeFields DEF Node
  <2>6. ASSUME NEW r \in Symbols PROVE Child(WithChild(node, s, new), r) =
                 IF Label(r) = Label(s) THEN new ELSE Child(node, r)
    <3>1. CASE r \in DOMAIN TypeNamed
      BY <3>1, <1>2, <2>4, LabelSame DEF Child
    <3>2. CASE r \notin DOMAIN TypeNamed
      <4>1. Label(r) = r /\ Label(s) = s
        BY <1>2, <3>2 DEF Label
      <4>2. <<r>> = <<s>> <=> r = s
        OBVIOUS
      <4> QED BY <3>2, <2>3, <2>4, <4>1, <4>2 DEF Child
    <3> QED BY <3>1, <3>2
  <2> QED BY <2>4, <2>5, <2>6
<1> QED BY <1>1, <1>2

-----------------------------------------------------------------------------
\* path labels every node with the way down to it: the nodes are a tree, ...
Shape(ns, path) ==
    /\ ns \in Seq(Node) /\ Len(ns) >= 1
    /\ path \in [1 .. Len(ns) -> Seq(Labels)]
    /\ path[1] = <<>>
    /\ \A i, j \in 1 .. Len(ns) : path[i] = path[j] => i = j
    /\ \A j \in 1 .. Len(ns) : path[j] # <<>> =>
          \E k \in 1 .. Len(ns), l \in Labels : path[j] = Append(path[k], l)

\* ... a node has a child for a symbol exactly if there is one with its label, ...
Linked(ns, path) ==
    \A i \in 1 .. Len(ns), s \in Symbols :
        /\ Child(ns[i], s) = 0 => \A j \in 1 .. Len(ns) : path[j] # Append(path[i], Label(s))
        /\ Child(ns[i], s) # 0 =>
              /\ Child(ns[i], s) \in 1 .. Len(ns)
              /\ path[Child(ns[i], s)] = Append(path[i], Label(s))

\* ... the nodes with a rule are those of the ways in C, ...
Marked(ns, path, C) ==
    /\ \A i \in 1 .. Len(ns) : ns[i].rule # 0 <=> path[i] \in C
    /\ \A c \in C : \E i \in 1 .. Len(ns) : path[i] = c

\* ... and every way begins with a label in H, whose node is there.
Rooted(path, H) ==
    \A i \in DOMAIN path : path[i] # <<>> =>
        path[i][1] \in H /\ \E j \in DOMAIN path : path[j] = <<path[i][1]>>

Tree(ns, path, C, H) ==
    Shape(ns, path) /\ Linked(ns, path) /\ Marked(ns, path, C) /\ Rooted(path, H)

\* A step down leaves a tree and ends at the node with that symbol's label.
LEMMA AddSymbolTree ==
    ASSUME NEW at, NEW path, NEW C, NEW H, Tree(at.nodes, path, C, H),
           at.idx \in 1 .. Len(at.nodes), NEW s \in Symbols,
           path[at.idx] # <<>> \/ Label(s) \in H
    PROVE  \E p : /\ Tree(AddSymbol(at, s).nodes, p, C, H)
                  /\ AddSymbol(at, s).idx \in 1 .. Len(AddSymbol(at, s).nodes)
                  /\ p[AddSymbol(at, s).idx] = Append(path[at.idx], Label(s))
<1> PICK ns, i, next : ns = at.nodes /\ i = at.idx /\ next = AddSymbol(at, s)
  OBVIOUS
<1> SUFFICES ASSUME Tree(ns, path, C, H), i \in 1 .. Len(ns), path[i] # <<>> \/ Label(s) \in H
             PROVE  \E p : /\ Tree(next.nodes, p, C, H)
                           /\ next.idx \in 1 .. Len(next.nodes)
                           /\ p[next.idx] = Append(path[i], Label(s))
  OBVIOUS
<1> DEFINE child == Child(ns[i], s)
           new == Len(ns) + 1
           q == Append(path[i], Label(s))
<1>1. /\ Len(ns) \in Nat /\ \A j \in 1 .. Len(ns) : ns[j] \in Node
      /\ Label(s) \in Labels
      /\ \A j \in 1 .. Len(ns) : path[j] \in Seq(Labels)
  BY ElementOfSeq, LenProperties, LabelSame DEF Tree, Shape
<1>2. CASE child # 0
  <2>1. next = [idx |-> child, nodes |-> ns]
    BY <1>2 DEF AddSymbol
  <2>2. child \in 1 .. Len(ns) /\ path[child] = q
    BY <1>2 DEF Tree, Linked
  <2> QED BY <2>1, <2>2
<1>3. CASE child = 0
  <2>1. PICK w : w = WithChild(ns[i], s, new)
    OBVIOUS
  <2>2. /\ w \in Node /\ w.rule = ns[i].rule
        /\ \A r \in Symbols : Child(w, r) = IF Label(r) = Label(s) THEN new ELSE Child(ns[i], r)
    <3>1. PICK node : node = ns[i]
      OBVIOUS
    <3>2. node \in Node /\ new \in Nat
      BY <1>1, <3>1
    <3> HIDE DEF new
    <3>3. w = WithChild(node, s, new)
      BY <2>1, <3>1
    <3>4. w \in Node /\ w.rule = node.rule
      BY <3>2, <3>3, WithChildNode
    <3>5. \A r \in Symbols : Child(w, r) = IF Label(r) = Label(s) THEN new ELSE Child(node, r)
      <4>1. \A r \in Symbols : Child(WithChild(node, s, new), r) =
               IF Label(r) = Label(s) THEN new ELSE Child(node, r)
        BY <3>2, WithChildNode, Zenon
      <4> QED BY <3>3, <4>1
    <3> QED BY <3>1, <3>4, <3>5
  <2>3. PICK ns2 : ns2 = Append([ns EXCEPT ![i] = w], EmptyNode)
    OBVIOUS
  <2>4. next = [idx |-> new, nodes |-> ns2]
    BY <1>3, <2>1, <2>3 DEF AddSymbol
  <2>5. /\ ns2 \in Seq(Node) /\ Len(ns2) = new /\ ns2[new] = EmptyNode /\ ns2[i] = w
        /\ \A j \in 1 .. Len(ns) : j # i => ns2[j] = ns[j]
    <3>1. /\ [ns EXCEPT ![i] = w] \in Seq(Node) /\ Len([ns EXCEPT ![i] = w]) = Len(ns)
          /\ \A j \in 1 .. Len(ns) : [ns EXCEPT ![i] = w][j] = IF j = i THEN w ELSE ns[j]
      BY <2>2 DEF Tree, Shape
    <3> QED BY <2>3, <3>1, EmptyNodeType, AppendProperties
  <2>6. /\ q \in Seq(Labels) /\ q # <<>> /\ Len(q) = Len(path[i]) + 1
        /\ \A j \in 1 .. Len(path[i]) : q[j] = path[i][j]
        /\ q[Len(path[i]) + 1] = Label(s)
    <3>1. path[i] \in Seq(Labels) /\ Label(s) \in Labels
      BY <1>1
    <3> QED BY <3>1, AppendProperties
  <2>7. \A j \in 1 .. Len(ns) : path[j] # q
    BY <1>3 DEF Tree, Linked
  <2>8. PICK p : p = [j \in 1 .. new |-> IF j = new THEN q ELSE path[j]]
    OBVIOUS
  <2>9. /\ DOMAIN p = 1 .. new /\ p[new] = q /\ new \in 1 .. new
        /\ \A j \in 1 .. Len(ns) : p[j] = path[j] /\ j \in 1 .. new /\ j # new
        /\ \A j \in 1 .. new : j = new \/ j \in 1 .. Len(ns)
    BY <1>1, <2>8
  <2> HIDE DEF q, new, child
  <2>10. Shape(ns2, p)
    <3>1. p \in [1 .. Len(ns2) -> Seq(Labels)]
      BY <1>1, <2>5, <2>6, <2>8, <2>9
    <3>2. p[1] = <<>> /\ Len(ns2) >= 1
      BY <1>1, <2>5, <2>9 DEF Tree, Shape
    <3>3. \A j, k \in 1 .. new : p[j] = p[k] => j = k
      BY <2>7, <2>9 DEF Tree, Shape
    <3>4. \A j \in 1 .. new : p[j] # <<>> =>
             \E k \in 1 .. new, l \in Labels : p[j] = Append(p[k], l)
      <4>1. new \in 1 .. new /\ p[new] = Append(p[i], Label(s)) /\ i \in 1 .. new
        BY <2>9 DEF q
      <4>2. \A j \in 1 .. Len(ns) : path[j] # <<>> =>
               \E k \in 1 .. Len(ns), l \in Labels : path[j] = Append(path[k], l)
        BY DEF Tree, Shape
      <4>3. ASSUME NEW j \in 1 .. Len(ns), p[j] # <<>>
            PROVE  \E k \in 1 .. Len(ns), l \in Labels : p[j] = Append(p[k], l)
        <5>1. PICK k \in 1 .. Len(ns), l \in Labels : path[j] = Append(path[k], l)
          BY <4>2, <4>3, <2>9
        <5>2. p[j] = path[j] /\ p[k] = path[k]
          BY <2>9
        <5>3. p[j] = Append(p[k], l)
          BY <5>1, <5>2
        <5> QED BY <5>3
      <4>4. \A j \in 1 .. Len(ns) : p[j] # <<>> =>
               \E k \in 1 .. new, l \in Labels : p[j] = Append(p[k], l)
        BY <2>9, <4>3
      <4> QED BY <1>1, <2>9, <4>1, <4>4
    <3> QED BY <2>5, <3>1, <3>2, <3>3, <3>4 DEF Shape
  <2>11. Linked(ns2, p)
    <3>1. ASSUME NEW r \in Symbols, NEW j \in 1 .. new
          PROVE  p[j] # Append(q, Label(r))
      <4>1. Label(r) \in Labels
        BY LabelSame
      <4>2. CASE j = new
        <5>1. Len(Append(q, Label(r))) = Len(q) + 1 /\ Len(q) \in Nat
          BY <2>6, <4>1, AppendProperties, LenProperties
        <5> QED BY <5>1, <4>2, <2>9
      <4>3. CASE j \in 1 .. Len(ns)
        <5> SUFFICES ASSUME path[j] = Append(q, Label(r)) PROVE FALSE
          BY <4>3, <2>9
        <5>1. path[j] # <<>>
          BY <2>6, <4>1, AppendProperties
        <5>2. PICK k \in 1 .. Len(ns), l \in Labels : path[j] = Append(path[k], l)
          BY <4>3, <5>1 DEF Tree, Shape
        <5>3. path[k] = q
          <6>1. path[k] \in Seq(Labels) /\ Append(path[k], l) = Append(q, Label(r))
            BY <1>1, <5>2
          <6> QED BY <6>1, <2>6, <4>1, AppendInjective
        <5> QED BY <5>3, <2>7
      <4> QED BY <4>2, <4>3, <2>9
    <3>2. ASSUME NEW k \in 1 .. Len(ns), NEW r \in Symbols, q = Append(path[k], Label(r))
          PROVE  k = i /\ Label(r) = Label(s)
      <4>1. Label(r) \in Labels /\ path[k] \in Seq(Labels) /\ path[i] \in Seq(Labels)
        BY <1>1, LabelSame
      <4>2. path[k] = path[i] /\ Label(r) = Label(s)
        BY <1>1, <3>2, <4>1, AppendInjective DEF q
      <4> QED BY <4>2 DEF Tree, Shape
    <3>3. ASSUME NEW k \in 1 .. new, NEW r \in Symbols
          PROVE  /\ Child(ns2[k], r) = 0 => \A j \in 1 .. new : p[j] # Append(p[k], Label(r))
                 /\ Child(ns2[k], r) # 0 => /\ Child(ns2[k], r) \in 1 .. new
                                            /\ p[Child(ns2[k], r)] = Append(p[k], Label(r))
      <4>1. CASE k = new
        BY <4>1, <2>5, <2>9, <3>1, EmptyNodeType
      <4>2. CASE k \in 1 .. Len(ns) /\ k # i
        <5>1. /\ Child(ns[k], r) = 0 => \A j \in 1 .. Len(ns) : path[j] # Append(path[k], Label(r))
              /\ Child(ns[k], r) # 0 => /\ Child(ns[k], r) \in 1 .. Len(ns)
                                        /\ path[Child(ns[k], r)] = Append(path[k], Label(r))
          BY <4>2 DEF Tree, Linked
        <5>2. q # Append(path[k], Label(r))
          BY <3>2, <4>2
        <5> QED BY <4>2, <5>1, <5>2, <2>5, <2>9
      <4>3. CASE k = i
        <5>1. /\ Child(ns[i], r) = 0 => \A j \in 1 .. Len(ns) : path[j] # Append(path[i], Label(r))
              /\ Child(ns[i], r) # 0 => /\ Child(ns[i], r) \in 1 .. Len(ns)
                                        /\ path[Child(ns[i], r)] = Append(path[i], Label(r))
          BY DEF Tree, Linked
        <5>2. CASE Label(r) = Label(s)
          <6>1. Child(ns2[k], r) = new /\ new # 0
            BY <1>1, <2>2, <2>5, <4>3, <5>2 DEF new
          <6> QED BY <6>1, <5>2, <2>9, <4>3 DEF q
        <5>3. CASE Label(r) # Label(s)
          <6>1. Child(ns2[k], r) = Child(ns[i], r)
            BY <2>2, <2>5, <4>3, <5>3
          <6>2. q # Append(path[i], Label(r))
            BY <3>2, <5>3
          <6> QED BY <6>1, <6>2, <5>1, <2>9, <4>3
        <5> QED BY <5>2, <5>3
      <4> QED BY <4>1, <4>2, <4>3, <2>9
    <3> QED BY <3>3, <2>5 DEF Linked
  <2>12. Marked(ns2, p, C)
    <3>1. q \notin C
      BY <2>7 DEF Tree, Marked
    <3>2. \A j \in 1 .. Len(ns) : ns2[j].rule = ns[j].rule
      BY <2>2, <2>5
    <3>3. \A j \in 1 .. new : ns2[j].rule # 0 <=> p[j] \in C
      BY <3>1, <3>2, <2>5, <2>9, EmptyNodeType DEF Tree, Marked
    <3>4. \A c \in C : \E j \in 1 .. new : p[j] = c
      BY <2>9 DEF Tree, Marked
    <3> QED BY <3>3, <3>4, <2>5 DEF Marked
  <2>13. Rooted(p, H)
    <3>1. DOMAIN path = 1 .. Len(ns)
      BY DEF Tree, Shape
    <3>2. \A j \in 1 .. Len(ns) : path[j] # <<>> =>
             path[j][1] \in H /\ \E k \in 1 .. new : p[k] = <<path[j][1]>>
      BY <2>9, <3>1 DEF Tree, Rooted
    <3>3. q[1] \in H /\ \E k \in 1 .. new : p[k] = <<q[1]>>
      <4>1. CASE path[i] = <<>>
        <5>1. q = <<Label(s)>>
          BY <4>1 DEF q
        <5>2. q[1] = Label(s)
          BY <5>1
        <5> QED BY <5>1, <5>2, <4>1, <2>9
      <4>2. CASE path[i] # <<>>
        <5>1. 1 \in 1 .. Len(path[i])
          BY <1>1, <4>2, EmptySeq, LenProperties
        <5>2. q[1] = path[i][1]
          BY <5>1, <2>6
        <5> QED BY <5>2, <4>2, <3>2
      <4> QED BY <4>1, <4>2
    <3> QED BY <3>2, <3>3, <2>9 DEF Rooted
  <2> QED BY <2>4, <2>5, <2>9, <2>10, <2>11, <2>12, <2>13 DEF Tree, q
<1> QED BY <1>2, <1>3

-----------------------------------------------------------------------------
\* w gives the first n steps of the way.
IsWay(w, trie, pattern, n) ==
    w = [i \in 0 .. n |-> IF i = 0 THEN [idx |-> 1, nodes |-> trie]
                          ELSE AddSymbol(w[i-1], pattern[i])]

\* The recursive definition of Way has a solution, ...
LEMMA WayExists ==
    ASSUME NEW trie, NEW pattern, NEW n \in Nat
    PROVE  \E w : IsWay(w, trie, pattern, n)
<1> DEFINE T == {m \in Nat : ~ \E w : IsWay(w, trie, pattern, m)}
           start == [idx |-> 1, nodes |-> trie]
<1> SUFFICES ASSUME T # {} PROVE FALSE
  OBVIOUS
<1>1. PICK m \in T : \A k \in T : m <= k
  BY LeastNumber
<1> HIDE DEF start
<1>2. CASE m = 0
  <2> DEFINE w == [i \in 0 .. 0 |-> start]
  <2>1. IsWay(w, trie, pattern, 0)
    BY DEF IsWay, start
  <2> QED BY <2>1, <1>2
<1>3. CASE m # 0
  <2>1. m \in Nat /\ m - 1 \in Nat /\ ~ (m <= m - 1)
    BY <1>3
  <2>2. m - 1 \notin T
    BY <1>1, <2>1
  <2>3. PICK f : IsWay(f, trie, pattern, m - 1)
    BY <2>1, <2>2
  <2> DEFINE last == AddSymbol(f[m-1], pattern[m])
  <2> DEFINE g == [i \in 0 .. m |-> IF i < m THEN f[i] ELSE last]
  <2>4. \A i \in 0 .. m-1 : f[i] = IF i = 0 THEN start ELSE AddSymbol(f[i-1], pattern[i])
    BY <2>3 DEF IsWay, start
  <2>5. \A i \in 0 .. m : g[i] = IF i = 0 THEN start ELSE AddSymbol(g[i-1], pattern[i])
    <3> SUFFICES ASSUME NEW i \in 0 .. m
                 PROVE  g[i] = IF i = 0 THEN start ELSE AddSymbol(g[i-1], pattern[i])
      OBVIOUS
    <3>1. CASE i = m
      <4>1. g[i] = last /\ g[i-1] = f[m-1]
        <5> HIDE DEF last
        <5> QED BY <3>1, <2>1
      <4> QED BY <4>1, <3>1, <1>3
    <3>2. CASE i # m
      <4>1. g[i] = f[i] /\ i \in 0 .. m - 1 /\ (i # 0 => g[i-1] = f[i-1])
        <5> HIDE DEF last
        <5> QED BY <3>2, <2>1
      <4> QED BY <4>1, <2>4
    <3> QED BY <3>1, <3>2
  <2>6. IsWay(g, trie, pattern, m)
    BY <2>5 DEF IsWay, start
  <2> QED BY <2>6
<1> QED BY <1>2, <1>3

\* ... so Way satisfies it.
LEMMA WayUnfold ==
    ASSUME NEW trie, NEW pattern, Len(pattern) \in Nat
    PROVE  /\ Way(trie, pattern)[0] = [idx |-> 1, nodes |-> trie]
           /\ \A i \in 1 .. Len(pattern) :
                 Way(trie, pattern)[i] = AddSymbol(Way(trie, pattern)[i-1], pattern[i])
<1>1. IsWay(Way(trie, pattern), trie, pattern, Len(pattern))
  BY WayExists DEF IsWay, Way
<1>2. Way(trie, pattern) = [i \in 0 .. Len(pattern) |->
         IF i = 0 THEN [idx |-> 1, nodes |-> trie]
         ELSE AddSymbol(Way(trie, pattern)[i-1], pattern[i])]
  BY <1>1 DEF IsWay
<1>3. \A i \in 0 .. Len(pattern) : Way(trie, pattern)[i] =
         IF i = 0 THEN [idx |-> 1, nodes |-> trie]
         ELSE AddSymbol(Way(trie, pattern)[i-1], pattern[i])
  BY <1>2
<1> QED BY <1>3

LEMMA LabelsOfType ==
    ASSUME NEW pattern \in Seq(Symbols)
    PROVE  /\ LabelsOf(pattern) \in Seq(Labels) /\ Len(LabelsOf(pattern)) = Len(pattern)
           /\ \A i \in 1 .. Len(pattern) :
                 pattern[i] \in Symbols /\ LabelsOf(pattern)[i] = Label(pattern[i])
<1>1. Len(pattern) \in Nat /\ \A i \in 1 .. Len(pattern) : pattern[i] \in Symbols
  BY ElementOfSeq, LenProperties
<1>2. \A i \in 1 .. Len(pattern) : Label(pattern[i]) \in Labels
  BY <1>1, LabelSame
<1> QED BY <1>1, <1>2 DEF LabelsOf

\* Every step of the way leaves a tree and ends at the node that the labels so far lead to.
LEMMA WayTree ==
    ASSUME NEW trie, NEW path, NEW C, NEW H, Tree(trie, path, C, H),
           NEW pattern \in Seq(Symbols),
           pattern # <<>> => LabelsOf(pattern)[1] \in H
    PROVE  \A i \in 0 .. Len(pattern) :
              LET at == Way(trie, pattern)[i] IN
              \E p : /\ Tree(at.nodes, p, C, H)
                    /\ at.idx \in 1 .. Len(at.nodes)
                    /\ p[at.idx] = SubSeq(LabelsOf(pattern), 1, i)
<1> DEFINE At(i) == Way(trie, pattern)[i]
           Way1(i) == \E p : /\ Tree(At(i).nodes, p, C, H)
                            /\ At(i).idx \in 1 .. Len(At(i).nodes)
                            /\ p[At(i).idx] = SubSeq(LabelsOf(pattern), 1, i)
           Bad == {i \in 0 .. Len(pattern) : ~ Way1(i)}
<1> DEFINE labels == LabelsOf(pattern)
<1>1. /\ Len(pattern) \in Nat /\ labels \in Seq(Labels) /\ Len(labels) = Len(pattern)
      /\ \A i \in 1 .. Len(pattern) : pattern[i] \in Symbols /\ labels[i] = Label(pattern[i])
  BY LabelsOfType, LenProperties
<1>2. At(0) = [idx |-> 1, nodes |-> trie]
      /\ \A i \in 1 .. Len(pattern) : At(i) = AddSymbol(At(i-1), pattern[i])
  BY <1>1, WayUnfold
<1> SUFFICES ASSUME Bad # {} PROVE FALSE
  OBVIOUS
<1>3. PICK m \in Bad : \A k \in Bad : m <= k
  <2>1. Bad \subseteq Nat
    BY <1>1
  <2> QED BY <2>1, LeastNumber
<1>4. CASE m = 0
  <2>1. SubSeq(labels, 1, 0) = <<>>
    BY <1>1, SubSeqEmpty
  <2>2. path[1] = <<>> /\ 1 \in 1 .. Len(trie)
    BY DEF Tree, Shape
  <2>3. At(0).idx = 1 /\ At(0).nodes = trie
    BY <1>2
  <2>4. Way1(0)
    <3> HIDE DEF At
    <3> QED BY <2>1, <2>2, <2>3
  <2> QED BY <2>4, <1>4
<1>5. CASE m # 0
  <2>1. m \in 1 .. Len(pattern) /\ m - 1 \in 0 .. Len(pattern) /\ ~ (m <= m - 1)
    BY <1>1, <1>5
  <2>2. Way1(m - 1)
    BY <1>3, <2>1
  <2>3. PICK p : /\ Tree(At(m-1).nodes, p, C, H)
                 /\ At(m-1).idx \in 1 .. Len(At(m-1).nodes)
                 /\ p[At(m-1).idx] = SubSeq(labels, 1, m - 1)
    BY <2>2
  <2>4. At(m) = AddSymbol(At(m-1), pattern[m]) /\ pattern[m] \in Symbols
        /\ Label(pattern[m]) = labels[m] /\ labels[m] \in Labels
    BY <1>1, <1>2, <2>1, LabelSame
  <2>5. p[At(m-1).idx] # <<>> \/ Label(pattern[m]) \in H
    <3>1. CASE m = 1
      <4>1. pattern # <<>>
        BY <2>1, <3>1, EmptySeq
      <4> QED BY <4>1, <2>4, <3>1
    <3>2. CASE m # 1
      <4>1. m - 1 \in 1 .. Len(labels) /\ 1 \in 1 .. Len(labels) + 1
        BY <1>1, <2>1, <3>2
      <4>2. Len(SubSeq(labels, 1, m - 1)) = m - 1
        BY <1>1, <4>1, SubSeqProperties
      <4> QED BY <2>3, <4>1, <4>2, EmptySeq
    <3> QED BY <3>1, <3>2
  <2>6. \E p2 : /\ Tree(At(m).nodes, p2, C, H)
                /\ At(m).idx \in 1 .. Len(At(m).nodes)
                /\ p2[At(m).idx] = Append(p[At(m-1).idx], Label(pattern[m]))
    <3>1. PICK at, s : at = At(m-1) /\ s = pattern[m]
      OBVIOUS
    <3>2. At(m) = AddSymbol(at, s) /\ s \in Symbols
      BY <2>4, <3>1
    <3> HIDE DEF Bad, Way1, labels
    <3> HIDE DEF At
    <3>3. /\ Tree(at.nodes, p, C, H) /\ at.idx \in 1 .. Len(at.nodes)
          /\ p[at.idx] # <<>> \/ Label(s) \in H
      BY <3>1, <2>3, <2>5
    <3>4. \E p2 : /\ Tree(AddSymbol(at, s).nodes, p2, C, H)
                  /\ AddSymbol(at, s).idx \in 1 .. Len(AddSymbol(at, s).nodes)
                  /\ p2[AddSymbol(at, s).idx] = Append(p[at.idx], Label(s))
      BY <3>2, <3>3, AddSymbolTree
    <3> QED BY <3>1, <3>2, <3>4
  <2>7. Append(SubSeq(labels, 1, m - 1), labels[m]) = SubSeq(labels, 1, m)
    <3>1. m \in 1 .. Len(labels)
      BY <1>1, <2>1
    <3>2. SubSeq(labels, 1, m) = SubSeq(labels, 1, m - 1) \o <<labels[m]>>
      BY <1>1, <3>1, SubSeqRecursiveSecond
    <3>3. SubSeq(labels, 1, m - 1) \in Seq(Labels)
      BY <1>1, <3>1
    <3> QED BY <3>2, <3>3, <2>4, AppendIsConcat
  <2>8. Way1(m)
    BY <2>3, <2>4, <2>6, <2>7
  <2> QED BY <2>8
<1> QED BY <1>4, <1>5

\* Add refuses a pattern exactly if its way is taken, and takes it.
LEMMA AddTree ==
    ASSUME NEW trie, NEW path, NEW C, NEW H, Tree(trie, path, C, H),
           NEW pattern \in Seq(Symbols), NEW ruleIndex \in Nat \ {0},
           NEW D, pattern # <<>> => Label(pattern[1]) \in D
    PROVE  LET a == Add(trie, pattern, ruleIndex) IN
           /\ a.ok <=> LabelsOf(pattern) \notin C
           /\ \E p : Tree(a.nodes, p, C \cup {LabelsOf(pattern)}, H \cup D)
<1> DEFINE labels == LabelsOf(pattern)
           n == Len(pattern)
           H2 == H \cup D
<1>1. n \in Nat /\ labels \in Seq(Labels) /\ Len(labels) = n /\ n \in 0 .. n
      /\ \A i \in 1 .. n : pattern[i] \in Symbols /\ labels[i] = Label(pattern[i])
  BY LabelsOfType, LenProperties
<1>2. pattern # <<>> => labels[1] \in H2
  <2>1. pattern # <<>> => 1 \in 1 .. n
    BY <1>1, EmptySeq
  <2> QED BY <1>1, <2>1
<1>3. Tree(trie, path, C, H2)
  BY DEF Tree, Rooted
<1>4. PICK at : at = Way(trie, pattern)[n]
  OBVIOUS
<1>5. \E p : /\ Tree(at.nodes, p, C, H2)
             /\ at.idx \in 1 .. Len(at.nodes)
             /\ p[at.idx] = SubSeq(labels, 1, n)
  <2>1. \A k \in 0 .. Len(pattern) :
           \E p : /\ Tree(Way(trie, pattern)[k].nodes, p, C, H2)
                 /\ Way(trie, pattern)[k].idx \in 1 .. Len(Way(trie, pattern)[k].nodes)
                 /\ p[Way(trie, pattern)[k].idx] = SubSeq(LabelsOf(pattern), 1, k)
    BY <1>2, <1>3, WayTree
  <2> QED BY <1>1, <1>4, <2>1
<1>6. PICK ns, i, p : /\ ns = at.nodes /\ i = at.idx
                      /\ Tree(ns, p, C, H2) /\ i \in 1 .. Len(ns) /\ p[i] = labels
  BY <1>1, <1>5, SubSeqFull
<1>7. PICK node, ns2 : /\ node = [ns[i] EXCEPT !.rule = ruleIndex]
                       /\ ns2 = [ns EXCEPT ![i] = node]
  OBVIOUS
<1>8. PICK free : free = (ns[i].rule = 0)
  OBVIOUS
<1>9. (ns[i].rule = 0) <=> labels \notin C
  BY <1>6 DEF Tree, Marked
<1>10. ns[i] \in Node /\ ns \in Seq(Node)
  BY <1>6, ElementOfSeq DEF Tree, Shape
<1>11. /\ node \in Node /\ node.rule = ruleIndex
       /\ \A s \in Symbols : Child(node, s) = Child(ns[i], s)
  <2>1. PICK old \in Node : old = ns[i]
    BY <1>10
  <2>2. old = [rule |-> old.rule, params |-> old.params, children |-> old.children]
    BY NodeFields
  <2>3. node = [rule |-> ruleIndex, params |-> old.params, children |-> old.children]
    BY <1>7, <2>1, <2>2
  <2>4. node \in Node
    BY <2>3 DEF Node
  <2>5. \A s \in Symbols : Child(node, s) = Child(old, s)
    BY <2>3 DEF Child
  <2> QED BY <2>1, <2>3, <2>4, <2>5
<1>12. /\ ns2 \in Seq(Node) /\ Len(ns2) = Len(ns) /\ ns2[i] = node
       /\ \A j \in 1 .. Len(ns) : j # i => ns2[j] = ns[j]
  BY <1>6, <1>7, <1>10, <1>11
<1>13. Tree(ns2, p, C \cup {labels}, H2)
  <2> HIDE DEF labels, H2
  <2>1. Shape(ns2, p)
    <3>1. Shape(ns, p)
      BY <1>6 DEF Tree
    <3>2. Len(ns2) = Len(ns) /\ ns2 \in Seq(Node)
      BY <1>12
    <3> QED BY <3>1, <3>2, Zenon DEF Shape
  <2>2. \A j \in 1 .. Len(ns), s \in Symbols : Child(ns2[j], s) = Child(ns[j], s)
    BY <1>6, <1>11, <1>12
  <2>3. Linked(ns2, p)
    <3>1. Linked(ns, p)
      BY <1>6 DEF Tree
    <3> QED BY <3>1, <1>12, <2>2 DEF Linked
  <2>4. Marked(ns2, p, C \cup {labels})
    <3>1. \A j \in 1 .. Len(ns) : j # i => p[j] # labels
      BY <1>6 DEF Tree, Shape
    <3>2. ruleIndex # 0
      OBVIOUS
    <3>3. \A j \in 1 .. Len(ns) : ns2[j].rule # 0 <=> p[j] \in C \cup {labels}
      BY <1>6, <1>11, <1>12, <3>1, <3>2 DEF Tree, Marked
    <3>4. \A c \in C \cup {labels} : \E j \in 1 .. Len(ns) : p[j] = c
      BY <1>6 DEF Tree, Marked
    <3> QED BY <1>12, <3>3, <3>4 DEF Marked
  <2> QED BY <1>6, <2>1, <2>3, <2>4 DEF Tree
<1>14. Add(trie, pattern, ruleIndex) = [ok |-> free, nodes |-> IF free THEN ns2 ELSE ns]
  BY <1>4, <1>6, <1>7, <1>8 DEF Add
<1>15. Add(trie, pattern, ruleIndex).ok <=> labels \notin C
  <2>1. Add(trie, pattern, ruleIndex).ok = free
    BY <1>14
  <2> QED BY <1>8, <1>9, <2>1
<1>16. \E q : Tree(Add(trie, pattern, ruleIndex).nodes, q, C \cup {labels}, H2)
  <2>1. CASE free
    <3>1. Add(trie, pattern, ruleIndex).nodes = ns2
      BY <1>14, <2>1
    <3> QED BY <1>13, <3>1
  <2>2. CASE ~ free
    <3>1. Add(trie, pattern, ruleIndex).nodes = ns
      BY <1>14, <2>2
    <3>2. C \cup {labels} = C
      BY <1>8, <1>9, <2>2
    <3> QED BY <1>6, <3>1, <3>2
  <2> QED BY <2>1, <2>2
<1> QED BY <1>15, <1>16

-----------------------------------------------------------------------------
\* The ways that the rules claim, and the labels they begin with.
Claimed == UNION {Claims(rules[i].pattern) : i \in 1 .. Len(rules)}
Firsts == {Label(rules[i].pattern[1]) :
             i \in {i \in 1 .. Len(rules) : rules[i].pattern # <<>>}}

\* While rules may be added, the nodes with a rule are those of the ways claimed.
RouterInv ==
    /\ RouterTypeOK
    /\ ConflictsRefused
    /\ status = "open" => \E path : Tree(nodes, path, Claimed, Firsts)

\* The head is a simple node unless a pattern claims it or a parameter of it.
LEMMA HeadSimple ==
    ASSUME rules \in Seq([pattern : Patterns, methods : SUBSET Methods]),
           NEW path, Tree(nodes, path, Claimed, Firsts)
    PROVE  IsSimpleNode(nodes[1]) <=> ~ Headless
<1>1. /\ 1 \in 1 .. Len(nodes) /\ path[1] = <<>> /\ nodes[1] \in Node
      /\ DOMAIN path = 1 .. Len(nodes)
  BY ElementOfSeq DEF Tree, Shape
<1>2. \A j \in 1 .. Len(rules) : rules[j].pattern \in Seq(Symbols)
  <2>1. \A j \in 1 .. Len(rules) : rules[j] \in [pattern : Patterns, methods : SUBSET Methods]
    BY ElementOfSeq
  <2> QED BY <2>1, PatternsAssumption
<1>3. nodes[1].rule # 0 <=> \E j \in 1 .. Len(rules) : rules[j].pattern = <<>>
  <2>1. nodes[1].rule # 0 <=> <<>> \in Claimed
    BY <1>1 DEF Tree, Marked
  <2>2. ASSUME NEW j \in 1 .. Len(rules)
        PROVE  <<>> \in Claims(rules[j].pattern) <=> rules[j].pattern = <<>>
    <3>1. PICK q \in Seq(Symbols) : q = rules[j].pattern
      BY <1>2
    <3>2. LabelsOf(q) = <<>> <=> q = <<>>
      BY LabelsOfType, EmptySeq
    <3>3. IsDirectory(q) => LabelsOf(Front(q)) # <<>>
      <4> SUFFICES ASSUME IsDirectory(q) PROVE LabelsOf(Front(q)) # <<>>
        OBVIOUS
      <4>1. Len(q) \in Nat /\ Len(q) > 1 /\ \A i \in 1 .. Len(q) : q[i] \in Symbols
        BY ElementOfSeq, LenProperties DEF IsDirectory
      <4>2. Front(q) = SubSeq(q, 1, Len(q) - 1)
        BY DEF Front
      <4>3. Front(q) \in Seq(Symbols) /\ Len(Front(q)) = Len(q) - 1
        BY <4>1, <4>2, SubSeqProperties
      <4> QED BY <4>1, <4>3, LabelsOfType, EmptySeq
    <3> QED BY <3>1, <3>2, <3>3 DEF Claims
  <2> QED BY <2>1, <2>2 DEF Claimed
<1>4. (\E t \in ParamType : nodes[1].params[t] # 0)
         <=> \E s \in DOMAIN TypeNamed : Child(nodes[1], s) # 0
  BY TypeNamedType DEF Child
<1>5. ASSUME NEW s \in DOMAIN TypeNamed, Child(nodes[1], s) # 0
      PROVE  Headless
  <2>1. s \in Symbols
    BY TypeNamedType
  <2>2. PICK c \in 1 .. Len(nodes) : path[c] = Append(path[1], Label(s))
    BY <1>1, <1>5, <2>1 DEF Tree, Linked
  <2>3. path[c] = <<Label(s)>> /\ path[c] # <<>> /\ path[c][1] = Label(s)
    BY <1>1, <2>2
  <2>4. Label(s) \in Firsts
    BY <1>1, <2>3 DEF Tree, Rooted
  <2>5. PICK j \in 1 .. Len(rules) : rules[j].pattern # <<>> /\ Label(s) = Label(rules[j].pattern[1])
    BY <2>4 DEF Firsts
  <2>6. rules[j].pattern[1] \in Symbols
    BY <1>2, <2>5, EmptySeq, ElementOfSeq, LenProperties
  <2> QED BY <2>1, <2>5, <2>6, LabelSame DEF Headless
<1>6. ASSUME NEW j \in 1 .. Len(rules), rules[j].pattern # <<>>,
             rules[j].pattern[1] \in DOMAIN TypeNamed
      PROVE  \E s \in DOMAIN TypeNamed : Child(nodes[1], s) # 0
  <2>1. PICK q \in Seq(Symbols) : q = rules[j].pattern
    BY <1>2
  <2>2. PICK s \in DOMAIN TypeNamed : s = q[1]
    BY <1>6, <2>1
  <2>3. LabelsOf(q) \in Claimed
    BY <2>1 DEF Claimed, Claims
  <2>4. PICK i \in 1 .. Len(nodes) : path[i] = LabelsOf(q)
    BY <2>3 DEF Tree, Marked
  <2>5. 1 \in 1 .. Len(q)
    BY <1>6, <2>1, EmptySeq, LenProperties
  <2>6. path[i] # <<>> /\ path[i][1] = Label(s)
    BY <1>6, <2>1, <2>2, <2>4, <2>5, LabelsOfType, EmptySeq
  <2>7. PICK k \in 1 .. Len(nodes) : path[k] = <<Label(s)>>
    BY <1>1, <2>6 DEF Tree, Rooted
  <2>8. path[k] = Append(path[1], Label(s))
    BY <1>1, <2>7
  <2> QED BY <1>1, <2>8, TypeNamedType DEF Tree, Linked
<1> QED BY <1>1, <1>3, <1>4, <1>5, <1>6 DEF IsSimpleNode, Headless

LEMMA RouterInitInv == RouterInit => RouterInv
<1> SUFFICES ASSUME RouterInit PROVE RouterInv
  OBVIOUS
<1>1. rules = <<>> /\ nodes = <<EmptyNode>> /\ status = "open"
  BY DEF RouterInit
<1>2. Len(rules) = 0 /\ 1 .. Len(rules) = {}
  BY <1>1
<1>3. RouterTypeOK
  <2>1. rules \in Seq([pattern : Patterns, methods : SUBSET Methods])
    BY <1>1
  <2>2. nodes \in Seq(Node)
    BY <1>1, EmptyNodeType
  <2> QED BY <1>1, <2>1, <2>2 DEF RouterTypeOK
<1>4. ConflictsRefused
  BY <1>1, <1>2 DEF ConflictsRefused, Conflict
<1>5. Claimed = {} /\ Firsts = {}
  BY <1>2 DEF Claimed, Firsts
<1>6. PICK path : path = [i \in 1 .. 1 |-> <<>>]
  OBVIOUS
<1>7. /\ nodes \in Seq(Node) /\ Len(nodes) = 1 /\ nodes[1] = EmptyNode
      /\ path \in [1 .. 1 -> Seq(Labels)] /\ path[1] = <<>>
      /\ \A i \in 1 .. 1 : i = 1 /\ path[i] = <<>>
  BY <1>1, <1>6, EmptyNodeType, EmptySeq
<1>8. \A s \in Symbols : Append(<<>>, Label(s)) # <<>>
  BY LabelSame, EmptySeq, AppendProperties
<1>9. Shape(nodes, path)
  BY <1>7 DEF Shape
<1>10. Linked(nodes, path)
  BY <1>7, <1>8, EmptyNodeType DEF Linked
<1>11. Marked(nodes, path, {}) /\ Rooted(path, {})
  BY <1>7, EmptyNodeType DEF Marked, Rooted
<1> QED BY <1>3, <1>4, <1>5, <1>9, <1>10, <1>11 DEF RouterInv, Tree

\* A rule that is added claims its way, and that of the URL it redirects, ...
LEMMA ClaimsAdded ==
    ASSUME rules \in Seq([pattern : Patterns, methods : SUBSET Methods]),
           NEW p \in Patterns, NEW ms \in SUBSET Methods,
           rules' = Append(rules, [pattern |-> p, methods |-> ms])
    PROVE  /\ rules' \in Seq([pattern : Patterns, methods : SUBSET Methods])
           /\ Claimed' = Claimed \cup Claims(p)
           /\ Firsts' = Firsts \cup IF p = <<>> THEN {} ELSE {Label(p[1])}
           /\ Conflict' <=> Conflict \/ Claims(p) \cap Claimed # {}
<1> DEFINE n == Len(rules) + 1
<1>1. PICK rule \in [pattern : Patterns, methods : SUBSET Methods] :
         rule = [pattern |-> p, methods |-> ms] /\ rule.pattern = p
  OBVIOUS
<1>2. /\ Len(rules) \in Nat /\ n \in Nat
      /\ rules' \in Seq([pattern : Patterns, methods : SUBSET Methods])
      /\ Len(rules') = n /\ rules'[n] = rule
      /\ \A i \in 1 .. Len(rules) : rules'[i] = rules[i]
  BY <1>1, AppendProperties, LenProperties
<1>3. /\ \A i \in 1 .. n : i = n \/ i \in 1 .. Len(rules)
      /\ n \in 1 .. n /\ \A i \in 1 .. Len(rules) : i \in 1 .. n /\ i # n
      /\ 1 .. (n - 1) = 1 .. Len(rules)
      /\ \A j \in 1 .. Len(rules) : \A i \in 1 .. (j - 1) : i \in 1 .. Len(rules)
  BY <1>2
<1> HIDE DEF n
<1>4. \A i \in 1 .. Len(rules) : rules'[i].pattern = rules[i].pattern
  BY <1>2
<1>5. rules'[n].pattern = p
  BY <1>1, <1>2
<1>6. Claimed' = Claimed \cup Claims(p)
  <2>1. ASSUME NEW c PROVE c \in Claimed' <=> c \in Claimed \cup Claims(p)
    <3>1. c \in Claimed' <=> \E i \in 1 .. n : c \in Claims(rules'[i].pattern)
      BY <1>2 DEF Claimed
    <3>2. c \in Claimed <=> \E i \in 1 .. Len(rules) : c \in Claims(rules[i].pattern)
      BY DEF Claimed
    <3> QED BY <3>1, <3>2, <1>3, <1>4, <1>5
  <2> QED BY <2>1
<1>7. Firsts' = Firsts \cup IF p = <<>> THEN {} ELSE {Label(p[1])}
  <2>1. ASSUME NEW c
        PROVE  c \in Firsts' <=> c \in Firsts \/ (p # <<>> /\ c = Label(p[1]))
    <3>1. c \in Firsts' <=>
             \E i \in 1 .. n : rules'[i].pattern # <<>> /\ c = Label(rules'[i].pattern[1])
      BY <1>2 DEF Firsts, Label
    <3>2. c \in Firsts <=>
             \E i \in 1 .. Len(rules) : rules[i].pattern # <<>> /\ c = Label(rules[i].pattern[1])
      BY DEF Firsts
    <3> QED BY <3>1, <3>2, <1>3, <1>4, <1>5
  <2> QED BY <2>1
<1>8. Conflict' <=> Conflict \/ Claims(p) \cap Claimed # {}
  <2> DEFINE Clash(a, b) == Claims(a) \cap Claims(b) # {}
  <2>1. Conflict' <=> \E j \in 1 .. n : \E i \in 1 .. (j - 1) :
                         Clash(rules'[i].pattern, rules'[j].pattern)
    BY <1>2 DEF Conflict, Claims, LabelsOf
  <2>2. Conflict <=> \E j \in 1 .. Len(rules) : \E i \in 1 .. (j - 1) :
                        Clash(rules[i].pattern, rules[j].pattern)
    BY DEF Conflict
  <2>3. Claims(p) \cap Claimed # {} <=> \E i \in 1 .. Len(rules) : Clash(rules[i].pattern, p)
    BY DEF Claimed
  <2> HIDE DEF Clash
  <2>4. (\E j \in 1 .. n : \E i \in 1 .. (j - 1) : Clash(rules'[i].pattern, rules'[j].pattern))
           <=> \/ \E j \in 1 .. Len(rules) : \E i \in 1 .. (j - 1) :
                     Clash(rules'[i].pattern, rules'[j].pattern)
               \/ \E i \in 1 .. Len(rules) : Clash(rules'[i].pattern, rules'[n].pattern)
    BY <1>3
  <2> QED BY <2>1, <2>2, <2>3, <2>4, <1>3, <1>4, <1>5
<1> QED BY <1>2, <1>6, <1>7, <1>8

LEMMA AddRuleInv ==
    ASSUME RouterInv, NEW p \in Patterns, NEW ms \in SUBSET Methods, AddRule(p, ms)
    PROVE  RouterInv'
<1> DEFINE D == IF p = <<>> THEN {} ELSE {Label(p[1])}
<1>1. PICK first : first = Add(nodes, p, Len(rules) + 2)
  OBVIOUS
<1>2. PICK second : second = Add(first.nodes, Front(p), RedirectSlash)
  OBVIOUS
<1>3. /\ status = "open"
      /\ rules' = Append(rules, [pattern |-> p, methods |-> ms])
      /\ nodes' = IF IsDirectory(p) /\ first.ok THEN second.nodes ELSE first.nodes
      /\ status' = IF first.ok /\ (IsDirectory(p) => second.ok) THEN "open" ELSE "failed"
  BY <1>1, <1>2 DEF AddRule
<1>4. rules \in Seq([pattern : Patterns, methods : SUBSET Methods]) /\ ~ Conflict
  BY <1>3 DEF RouterInv, RouterTypeOK, ConflictsRefused
<1>5. /\ rules' \in Seq([pattern : Patterns, methods : SUBSET Methods])
      /\ Claimed' = Claimed \cup Claims(p) /\ Firsts' = Firsts \cup D
      /\ Conflict' <=> Claims(p) \cap Claimed # {}
  BY <1>3, <1>4, ClaimsAdded
<1>6. p \in Seq(Symbols) /\ Len(p) \in Nat
  BY PatternsAssumption, LenProperties
<1>7. Len(rules) + 2 \in Nat \ {0} /\ RedirectSlash \in Nat \ {0}
  BY <1>4, LenProperties DEF RedirectSlash
<1>8. PICK path : Tree(nodes, path, Claimed, Firsts)
  BY <1>3 DEF RouterInv
<1> HIDE DEF D
<1>9. p # <<>> => Label(p[1]) \in D
  BY DEF D
<1>10. /\ first.ok <=> LabelsOf(p) \notin Claimed
       /\ \E q : Tree(first.nodes, q, Claimed \cup {LabelsOf(p)}, Firsts \cup D)
  BY <1>1, <1>6, <1>7, <1>8, <1>9, AddTree
<1>11. ASSUME IsDirectory(p)
       PROVE  /\ Claims(p) = {LabelsOf(p), LabelsOf(Front(p))}
              /\ second.ok <=> LabelsOf(Front(p)) \notin Claimed
              /\ \E q : Tree(second.nodes, q, Claimed \cup Claims(p), Firsts \cup D)
  <2>1. Claims(p) = {LabelsOf(p), LabelsOf(Front(p))}
    BY <1>11 DEF Claims
  <2>2. Len(p) > 1 /\ \A i \in 1 .. Len(p) : p[i] \in Symbols
    BY <1>6, <1>11, ElementOfSeq DEF IsDirectory
  <2>3. Front(p) = SubSeq(p, 1, Len(p) - 1)
    BY DEF Front
  <2>4. /\ Front(p) \in Seq(Symbols) /\ Len(Front(p)) = Len(p) - 1
        /\ Front(p)[1] = p[1]
    BY <1>6, <2>2, <2>3, SubSeqProperties
  <2>5. LabelsOf(Front(p)) # LabelsOf(p)
    <3>1. Len(LabelsOf(Front(p))) = Len(p) - 1 /\ Len(LabelsOf(p)) = Len(p)
      BY <1>6, <2>4, LabelsOfType
    <3> QED BY <3>1, <1>6
  <2>6. p # <<>>
    BY <2>2, EmptySeq
  <2>7. Label(Front(p)[1]) \in D
    BY <1>9, <2>4, <2>6
  <2>8. PICK q : Tree(first.nodes, q, Claimed \cup {LabelsOf(p)}, Firsts \cup D)
    BY <1>10
  <2>9. /\ second.ok <=> LabelsOf(Front(p)) \notin Claimed \cup {LabelsOf(p)}
        /\ \E r : Tree(second.nodes, r, (Claimed \cup {LabelsOf(p)}) \cup {LabelsOf(Front(p))},
                       (Firsts \cup D) \cup D)
    BY <1>2, <1>7, <2>4, <2>7, <2>8, AddTree
  <2>10. /\ (Claimed \cup {LabelsOf(p)}) \cup {LabelsOf(Front(p))} = Claimed \cup Claims(p)
         /\ (Firsts \cup D) \cup D = Firsts \cup D
    BY <2>1
  <2> QED BY <2>1, <2>5, <2>9, <2>10
<1>12. ~ IsDirectory(p) => Claims(p) = {LabelsOf(p)}
  BY DEF Claims
<1>13. status' = (IF Claims(p) \cap Claimed = {} THEN "open" ELSE "failed")
  <2>1. CASE IsDirectory(p)
    BY <2>1, <1>3, <1>10, <1>11
  <2>2. CASE ~ IsDirectory(p)
    BY <2>2, <1>3, <1>10, <1>12
  <2> QED BY <2>1, <2>2
<1>14. status' = "open" => \E q : Tree(nodes', q, Claimed', Firsts')
  <2> SUFFICES ASSUME status' = "open" PROVE \E q : Tree(nodes', q, Claimed', Firsts')
    OBVIOUS
  <2>1. first.ok
    BY <1>3
  <2>2. CASE IsDirectory(p)
    <3>1. nodes' = second.nodes
      BY <1>3, <2>1, <2>2
    <3> QED BY <3>1, <2>2, <1>5, <1>11
  <2>3. CASE ~ IsDirectory(p)
    <3>1. nodes' = first.nodes
      BY <1>3, <2>3
    <3> QED BY <3>1, <2>3, <1>5, <1>10, <1>12
  <2> QED BY <2>2, <2>3
<1>15. ConflictsRefused'
  BY <1>5, <1>13 DEF ConflictsRefused
<1>16. RouterTypeOK'
  <2>1. status' = "open" => nodes' \in Seq(Node)
    BY <1>14 DEF Tree, Shape
  <2> QED BY <1>5, <1>13, <2>1 DEF RouterTypeOK
<1>17. (\E q : Tree(nodes, q, Claimed, Firsts))' <=> \E q : Tree(nodes', q, Claimed', Firsts')
  BY DEF Tree, Shape, Linked, Marked, Rooted, Child
<1> QED BY <1>14, <1>15, <1>16, <1>17 DEF RouterInv

LEMMA ValidateInv ==
    ASSUME RouterInv, Validate
    PROVE  RouterInv'
<1>1. /\ status = "open" /\ rules' = rules
      /\ status' = IF IsSimpleNode(nodes[1]) THEN "valid" ELSE "failed"
  BY DEF Validate
<1>2. /\ rules \in Seq([pattern : Patterns, methods : SUBSET Methods]) /\ ~ Conflict
      /\ \E path : Tree(nodes, path, Claimed, Firsts)
  BY <1>1 DEF RouterInv, RouterTypeOK, ConflictsRefused
<1>3. IsSimpleNode(nodes[1]) <=> ~ Headless
  BY <1>2, HeadSimple
<1>4. (Conflict' <=> Conflict) /\ (Headless' <=> Headless)
  BY <1>1 DEF Conflict, Headless
<1> QED BY <1>1, <1>2, <1>3, <1>4 DEF RouterInv, RouterTypeOK, ConflictsRefused

LEMMA RouterNextInv == RouterInv /\ [RouterNext]_routerVars => RouterInv'
<1> SUFFICES ASSUME RouterInv, [RouterNext]_routerVars PROVE RouterInv'
  OBVIOUS
<1>1. CASE RouterNext
  BY <1>1, AddRuleInv, ValidateInv DEF RouterNext
<1>2. CASE UNCHANGED routerVars
  BY <1>2 DEF routerVars, RouterInv, RouterTypeOK, ConflictsRefused, Conflict, Headless,
              Tree, Claimed, Firsts
<1> QED BY <1>1, <1>2

LEMMA RouterInvHolds == RouterSpec => []RouterInv
<1>1. RouterInit => RouterInv
  BY RouterInitInv
<1>2. RouterInv /\ [RouterNext]_routerVars => RouterInv'
  BY RouterNextInv
<1> QED BY <1>1, <1>2, PTL DEF RouterSpec

\* Whatever rules are added, the trie is made of nodes with links for characters and
\* parameters until it is compressed.
THEOREM RouterTypeCorrect == RouterSpec => []RouterTypeOK
<1>1. RouterInv => RouterTypeOK
  BY DEF RouterInv
<1> QED BY <1>1, RouterInvHolds, PTL

\* Whatever rules are added in whatever order, and however validate compresses the trie:
\* add throws exactly if two rules claim one way down the trie, and validate exactly if
\* a pattern claims its head.
THEOREM ConflictsRefusedHolds == RouterSpec => []ConflictsRefused
<1>1. RouterInv => ConflictsRefused
  BY DEF RouterInv
<1> QED BY <1>1, RouterInvHolds, PTL
=============================================================================
