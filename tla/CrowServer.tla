----------------------------- MODULE CrowServer -----------------------------
(***************************************************************************)
(* Server in crow.h: run starts one thread per worker, waits until each of *)
(* them has counted itself in, and then accepts connections, which it      *)
(* hands to the workers in turn; stop may be called by a signal handler or *)
(* by any request handler; run ends by waiting for the workers.            *)
(*                                                                         *)
(* The main thread here is the one in run, together with the thread that   *)
(* runs io_service_ for it.  What a worker does with a connection is       *)
(* module Connection's; here it is one handler, which may throw or stop    *)
(* the server.                                                             *)
(***************************************************************************)
EXTENDS Integers, FiniteSets

CONSTANTS
    N,             \* concurrency_
    MaxAccepts     \* bound: calls of do_accept

ASSUME NAssumption == N \in Nat \ {0}

Workers == 0 .. N - 1
Main == N

VARIABLES
    main,        \* where run is
    launched,    \* threads started
    pc,          \* where each worker is
    queues,      \* the workers whose timer_queue_pool_ and date entries are set
    initCount,   \* init_count
    index,       \* roundrobin_index_
    given,       \* connections made for each worker, accepted or not
    posted,      \* p->start handlers waiting in each worker's io_service
    signalled,   \* SIGINT or SIGTERM has come
    stopping,    \* how far the call of stop of each thread has come
    stopped      \* the io_services that are stopped, Main's io_service_ included

vars == <<main, launched, pc, queues, initCount, index, given, posted, signalled, stopping, stopped>>
acceptVars == <<index, given>>
stopVars == <<signalled, stopping, stopped>>

Init ==
    /\ main = "launching"
    /\ launched = 0
    /\ pc = [w \in Workers |-> "none"]
    /\ queues = {}
    /\ initCount = 0
    /\ index = 0
    /\ given = [w \in Workers |-> 0]
    /\ posted = [w \in Workers |-> 0]
    /\ signalled = FALSE
    /\ stopping = [t \in Workers \cup {Main} |-> -1]
    /\ stopped = {}

-----------------------------------------------------------------------------
\* run, up to the accept loop.

Launch ==
    /\ main = "launching" /\ launched < N
    /\ launched' = launched + 1
    /\ pc' = [pc EXCEPT ![launched] = "starting"]
    /\ UNCHANGED <<main, queues, initCount, acceptVars, posted, stopVars>>

\* std::async throws; the futures of the workers already launched are waited for.
LaunchFails ==
    /\ main = "launching" /\ launched < N
    /\ main' = "unwinding"
    /\ UNCHANGED <<launched, pc, queues, initCount, acceptVars, posted, stopVars>>

Launched ==
    /\ main = "launching" /\ launched = N
    /\ main' = "waiting"
    /\ UNCHANGED <<launched, pc, queues, initCount, acceptVars, posted, stopVars>>

\* Fault: run does not wait for all workers.
WaitForSome == initCount >= N - 1

\* while (concurrency_ != init_count)
AllIn == initCount = N

\* pick_io_service
NextIndex == IF index + 1 >= N THEN 0 ELSE index + 1

\* do_accept: a Connection is made for the next worker.
DoAccept ==
    /\ index' = NextIndex
    /\ given' = [given EXCEPT ![NextIndex] = @ + 1]

StartAccepting ==
    /\ main = "waiting" /\ AllIn
    /\ main' = "accepting"
    /\ DoAccept
    /\ UNCHANGED <<launched, pc, queues, initCount, posted, stopVars>>

Total(f) == LET sum[i \in 0 .. N] == IF i = 0 THEN 0 ELSE sum[i - 1] + f[i - 1] IN sum[N]

InAcceptLoop == main = "accepting" /\ stopping[Main] = -1 /\ Main \notin stopped

\* async_accept's handler: hands the connection to its worker, or deletes it,
\* and goes on with the next.
Accepted ==
    /\ InAcceptLoop /\ Total(given) < MaxAccepts
    /\ \E ok \in BOOLEAN : posted' = [posted EXCEPT ![index] = IF ok THEN @ + 1 ELSE @]
    /\ DoAccept
    /\ UNCHANGED <<main, launched, pc, queues, initCount, stopVars>>

-----------------------------------------------------------------------------
\* The workers.

\* get_cached_date_str_pool_[i] = ...; timer_queue_pool_[i] = &timer_queue
SetUp(w) ==
    /\ pc[w] = "starting"
    /\ pc' = [pc EXCEPT ![w] = "set_up"]
    /\ queues' = queues \cup {w}
    /\ UNCHANGED <<main, launched, initCount, acceptVars, posted, stopVars>>

\* Before the loop nothing catches an exception: it ends up in the future.
SetUpThrows(w) ==
    /\ pc[w] \in {"starting", "set_up"}
    /\ pc' = [pc EXCEPT ![w] = "threw"]
    /\ UNCHANGED <<main, launched, queues, initCount, acceptVars, posted, stopVars>>

\* Fault: init_count is not atomic, an increment may be lost.
CountInRaces(w) ==
    /\ pc[w] = "set_up"
    /\ pc' = [pc EXCEPT ![w] = "loop"]
    /\ initCount' \in {initCount, initCount + 1}
    /\ UNCHANGED <<main, launched, queues, acceptVars, posted, stopVars>>

\* init_count ++
CountIn(w) ==
    /\ pc[w] = "set_up"
    /\ pc' = [pc EXCEPT ![w] = "loop"]
    /\ initCount' = initCount + 1
    /\ UNCHANGED <<main, launched, queues, acceptVars, posted, stopVars>>

\* io_service::run takes the next handler.
RunHandler(w) ==
    /\ pc[w] = "loop" /\ w \notin stopped /\ posted[w] > 0
    /\ pc' = [pc EXCEPT ![w] = "handler"]
    /\ posted' = [posted EXCEPT ![w] = @ - 1]
    /\ UNCHANGED <<main, launched, queues, initCount, acceptVars, stopVars>>

\* Fault: an exception leaves the loop.
HandlerThrows(w) ==
    /\ pc[w] \in {"handler", "stopping"} /\ stopping[w] = -1
    /\ pc' = [pc EXCEPT ![w] = "threw"]
    /\ UNCHANGED <<main, launched, queues, initCount, acceptVars, posted, stopVars>>

\* The handler returns, or throws and run is called again.
HandlerEnds(w) ==
    /\ pc[w] \in {"handler", "stopping"} /\ stopping[w] = -1
    /\ pc' = [pc EXCEPT ![w] = "loop"]
    /\ UNCHANGED <<main, launched, queues, initCount, acceptVars, posted, stopVars>>

\* run returns 0, whatever is still posted.
WorkerExits(w) ==
    /\ pc[w] = "loop" /\ w \in stopped
    /\ pc' = [pc EXCEPT ![w] = "exited"]
    /\ UNCHANGED <<main, launched, queues, initCount, acceptVars, posted, stopVars>>

-----------------------------------------------------------------------------
\* stop

Signal ==
    /\ ~ signalled /\ main \notin {"returned", "unwinding"}
    /\ signalled' = TRUE
    /\ UNCHANGED <<main, launched, pc, queues, initCount, acceptVars, posted, stopping, stopped>>

\* A thread calls stop: the main thread for the signal, a worker in a handler.
CallStop(t) ==
    /\ stopping[t] = -1
    /\ IF t = Main THEN signalled /\ InAcceptLoop /\ UNCHANGED pc
       ELSE pc[t] = "handler" /\ pc' = [pc EXCEPT ![t] = "stopping"]
    /\ stopping' = [stopping EXCEPT ![t] = 0]
    /\ UNCHANGED <<main, launched, queues, initCount, acceptVars, posted, signalled, stopped>>

\* io_service_.stop(), then those of the pool in order.
Target(t) == IF stopping[t] = 0 THEN Main ELSE stopping[t] - 1

\* Fault: the loop ends one early.
StopNextEndsEarly(t) ==
    /\ stopping[t] \in 0 .. N
    /\ stopped' = stopped \cup {Target(t)}
    /\ stopping' = [stopping EXCEPT ![t] = IF @ = N - 1 THEN -1 ELSE @ + 1]
    /\ UNCHANGED <<main, launched, pc, queues, initCount, acceptVars, posted, signalled>>

StopNext(t) ==
    /\ stopping[t] \in 0 .. N
    /\ stopped' = stopped \cup {Target(t)}
    /\ stopping' = [stopping EXCEPT ![t] = IF @ = N THEN -1 ELSE @ + 1]
    /\ UNCHANGED <<main, launched, pc, queues, initCount, acceptVars, posted, signalled>>

\* Fault: run does not wait for its io_service thread and the workers.
ReturnAtOnce ==
    /\ main = "accepting" /\ Main \in stopped
    /\ main' = "returned"
    /\ UNCHANGED <<launched, pc, queues, initCount, acceptVars, posted, stopVars>>

\* io_service_.run() returns and is joined, the futures are waited for.
Return ==
    /\ main = "accepting" /\ Main \in stopped /\ stopping[Main] = -1
    /\ \A w \in Workers : pc[w] \in {"exited", "threw"}
    /\ main' = "returned"
    /\ UNCHANGED <<launched, pc, queues, initCount, acceptVars, posted, stopVars>>

-----------------------------------------------------------------------------
Starting == Launch \/ Launched \/ StartAccepting
Serve(w) == SetUp(w) \/ CountIn(w) \/ RunHandler(w) \/ HandlerEnds(w) \/ WorkerExits(w)

Next ==
    \/ Starting \/ LaunchFails \/ Accepted \/ Signal \/ Return
    \/ \E w \in Workers : Serve(w) \/ SetUpThrows(w)
    \/ \E t \in Workers \cup {Main} : CallStop(t) \/ StopNext(t)

\* Threads run and a signal that has come is handled; nobody has to connect.
Fairness ==
    /\ WF_vars(Starting) /\ WF_vars(Return)
    /\ \A w \in Workers : WF_vars(Serve(w))
    /\ \A t \in Workers \cup {Main} : WF_vars(StopNext(t))
    /\ WF_vars(CallStop(Main))

Spec == Init /\ [][Next]_vars /\ Fairness

-----------------------------------------------------------------------------
\* Properties

\* The type of the state.
TypeOK ==
    /\ main \in {"launching", "unwinding", "waiting", "accepting", "returned"}
    /\ launched \in 0 .. N
    /\ pc \in [Workers -> {"none", "starting", "set_up", "loop", "handler", "stopping",
                      "threw", "exited"}]
    /\ queues \subseteq Workers
    /\ initCount \in 0 .. N
    /\ index \in Workers
    /\ given \in [Workers -> Nat] /\ posted \in [Workers -> Nat]
    /\ signalled \in BOOLEAN
    /\ stopping \in [Workers \cup {Main} -> -1 .. N]
    /\ stopped \subseteq Workers \cup {Main}

\* A connection is made for a worker only once that worker has published its
\* timer queue and date function, which the connection keeps references to.
GivenToReady == \A w \in Workers : given[w] > 0 => w \in queues

\* Connections are spread evenly, whatever fails to be accepted.
Balanced == \A v, w \in Workers : given[v] <= given[w] + 1

\* When run returns, and with it what the handlers use may be destroyed, every
\* worker has left its last handler, and no call of stop is in progress.
ReturnsLast ==
    main = "returned" =>
        /\ \A w \in Workers : pc[w] \in {"exited", "threw"}
        /\ \A t \in Workers \cup {Main} : stopping[t] = -1

Failed == main = "unwinding" \/ \E w \in Workers : pc[w] = "threw"

\* The server comes up, unless a thread cannot be started or throws before it
\* has counted itself in; then run never returns.
ComesUp == <>(main = "accepting" \/ Failed)

\* A connection handed to a worker is started, also after a handler of that
\* worker has thrown, unless the server is stopped.
HandedIsStarted ==
    \A w \in Workers : posted[w] > 0 ~> (posted[w] = 0 \/ w \in stopped)

\* Once any thread has called stop, or a signal has come, run returns, even if
\* several stop at a time and one of them stops its own worker halfway.
StopReturns ==
    (signalled \/ \E t \in Workers : stopping[t] # -1) ~> (main = "returned" \/ Failed)
=============================================================================
