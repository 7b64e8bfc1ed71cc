---------------------------- MODULE CacheServer ----------------------------
(***************************************************************************)
(* The server program (cache_server.cc): worker threads that run the route *)
(* handlers on one shared cache, and the main thread, which waits for the  *)
(* workers (the futures Server::run holds) and then destroys the cache.    *)
(*                                                                         *)
(* Two history variables relate it to module Cache, where calls are atomic *)
(* and follow one another: overlapped, whether two calls that work on the  *)
(* map or the list were ever in progress together, and serial, the state   *)
(* of the cache at the last point between two of its calls (or iterations  *)
(* of its eviction loop) before that happened.                             *)
(***************************************************************************)
EXTENDS SharedCache

CONSTANT MaxRequests     \* bound: requests received

VARIABLES
    main,        \* what the main thread is doing
    stopped,     \* Server::stop has stopped the io_services
    received,    \* requests received
    answer,      \* the last answer a handler returned
    overlapped,
    serial

serverVars == <<main, stopped, received, answer>>
vars == <<implVars, pc, local, fault, serverVars, overlapped, serial>>

Request(op, k, v) == [op |-> op, key |-> k, val |-> v]

\* PUT /key/k/v, GET and DELETE /key/k, GET /memsize, HEAD /key/k, POST /shutdown
Requests ==
    {Request("put", k, v) : k \in Keys, v \in Payloads}
    \cup {Request(op, k, Null) : op \in {"get", "delete"}, k \in Keys}
    \cup {Request(op, Null, Null) : op \in {"memsize", "head", "shutdown"}}

Entry(op) ==
    CASE op = "put"     -> "set_check"
      [] op = "get"     -> "get_lookup"
      [] op = "delete"  -> "del_lookup"
      [] op = "memsize" -> "space_used"
      [] op = "head"    -> "returned"
      [] OTHER          -> "stopping"

\* A call that works on the map or the list is in progress, or its handler
\* still uses what it returned.
InCall(w) == pc[w] \notin {"ready", "exited"} /\ local[w].op \in {"put", "get", "delete"}

Contents ==
    [data    |-> [k \in Keys |-> IF data[k] = Null THEN Null ELSE heap[data[k]]],
     queue   |-> queue,
     orphans |-> orphans,
     memused |-> memused]

\* The contents as a state of module Cache.
At(contents, how, last) ==
    [data |-> contents.data, queue |-> contents.queue, orphans |-> contents.orphans,
     memused |-> contents.memused, pc |-> how, call |-> last]

NoAnswer == [op |-> "none", key |-> Null, status |-> 0, body |-> Null]

Init ==
    /\ data = [k \in Keys |-> Null]
    /\ heap = [b \in Buffers |-> Free]
    /\ queue = <<>>
    /\ orphans = <<>>
    /\ memused = 0
    /\ pc = [w \in Workers |-> "ready"]
    /\ local = [w \in Workers |-> Locals(NoRequest)]
    /\ fault = "none"
    /\ main = "serving"
    /\ stopped = FALSE
    /\ received = 0
    /\ answer = NoAnswer
    /\ overlapped = FALSE
    /\ serial = At(Contents, "idle", [op |-> "none", key |-> Null, val |-> Null, num |-> 0])

-----------------------------------------------------------------------------
\* What module Cache says of the call worker w has just finished a part of.

SerialCall(w) ==
    LET req == local[w] IN
    CASE req.op = "put" ->
            [op |-> "set", key |-> req.key, val |-> req.val,
             num |-> IF req.ret = 1 THEN 1 ELSE 0]
      [] req.op = "get" ->
            [op |-> "get", key |-> req.key,
             val |-> IF req.ret = Null THEN Null ELSE heap[req.ret],
             num |-> IF req.ret = Null THEN -1 ELSE AsUInt(req.sz)]
      [] req.op = "delete" ->
            [op |-> "del", key |-> req.key, val |-> Null, num |-> req.ret]
      [] OTHER ->
            [op |-> "space_used", key |-> Null, val |-> Null, num |-> req.ret]

\* serial follows worker w when it leaves the cache between two of its calls
\* or iterations.  A space_used inside another call is not between calls.
Follow(w) ==
    serial' =
        IF overlapped THEN serial
        ELSE IF fault' # "none" THEN [serial EXCEPT !.pc = fault']
        ELSE IF pc'[w] \in {"set_loop", "returned"} /\ \A v \in Workers \ {w} : ~ InCall(v)
             THEN At(Contents', IF pc'[w] = "set_loop" THEN "evicting" ELSE "idle", SerialCall(w)')
        ELSE serial

-----------------------------------------------------------------------------
\* Worker threads.

\* A request is routed to its handler, which calls the cache.
Receive(w) ==
    /\ ~ stopped /\ received < MaxRequests
    /\ received' = received + 1
    /\ \E req \in Requests :
          /\ Goto(w, "ready", Entry(req.op))
          /\ local' = [local EXCEPT ![w] = Locals(req)]
          /\ overlapped' = (overlapped \/ ( /\ req.op \in {"put", "get", "delete"}
                                            /\ \E v \in Workers : InCall(v) ))
    /\ UNCHANGED <<implVars, fault, main, stopped, answer, serial>>

Call(w) ==
    /\ CallStep(w)
    /\ Follow(w)
    /\ UNCHANGED <<serverVars, overlapped>>

Answer(w, status, body) ==
    /\ Goto(w, "returned", "ready")
    /\ answer' = [op |-> local[w].op, key |-> local[w].key, status |-> status, body |-> body]
    /\ local' = [local EXCEPT ![w] = Locals(NoRequest)]
    /\ UNCHANGED <<implVars, fault, main, stopped, received, overlapped, serial>>

AnswerPut(w) ==
    /\ local[w].op = "put"
    /\ Answer(w, IF local[w].ret = 0 THEN 200 ELSE 400, Null)

AnswerDelete(w) ==
    /\ local[w].op = "delete"
    /\ Answer(w, IF local[w].ret = 0 THEN 200 ELSE 404, Null)

\* os << static_cast<const char*>(v), with the pointer get returned.
AnswerGet(w) ==
    /\ local[w].op = "get"
    /\ IF local[w].ret = Null THEN Answer(w, 200, Null)
       ELSE \/ heap[local[w].ret] # Free /\ Answer(w, 200, heap[local[w].ret])
            \/ /\ pc[w] = "returned" /\ heap[local[w].ret] = Free
               /\ Crash("stale_read")
               /\ UNCHANGED <<serverVars, overlapped, serial>>

AnswerMemsize(w) == local[w].op = "memsize" /\ Answer(w, 200, local[w].ret)

AnswerHead(w) == local[w].op = "head" /\ Answer(w, 200, Null)

\* Fault: stop waits for the other workers, inside the handler.
ShutdownWaits(w) ==
    /\ \A v \in Workers \ {w} : pc[v] = "exited"
    /\ Goto(w, "stopping", "returned")
    /\ stopped' = TRUE
    /\ UNCHANGED <<implVars, local, fault, main, received, answer, overlapped, serial>>

\* app.stop() inside the handler.
Shutdown(w) ==
    /\ Goto(w, "stopping", "returned")
    /\ stopped' = TRUE
    /\ UNCHANGED <<implVars, local, fault, main, received, answer, overlapped, serial>>

AnswerShutdown(w) == local[w].op = "shutdown" /\ Answer(w, 200, Null)

\* io_service::run returns 0 and the worker leaves its loop.
Exit(w) ==
    /\ stopped
    /\ Goto(w, "ready", "exited")
    /\ UNCHANGED <<implVars, local, fault, serverVars, overlapped, serial>>

Handle(w) ==
    \/ Call(w)
    \/ AnswerPut(w) \/ AnswerDelete(w) \/ AnswerGet(w)
    \/ AnswerMemsize(w) \/ AnswerHead(w)
    \/ Shutdown(w) \/ AnswerShutdown(w)

-----------------------------------------------------------------------------
\* The main thread.

\* SIGINT or SIGTERM.
Signal ==
    /\ main = "serving" /\ ~ stopped
    /\ stopped' = TRUE
    /\ UNCHANGED <<implVars, pc, local, fault, main, received, answer, overlapped, serial>>

Track(how) ==
    serial' = IF overlapped THEN serial ELSE At(Contents', how, serial.call)

\* run returns once the futures of all workers are ready; main returns.
Destroy ==
    /\ main = "serving" /\ stopped
    /\ \A w \in Workers : pc[w] = "exited"
    /\ main' = "destroying"
    /\ UNCHANGED <<implVars, pc, local, fault, stopped, received, answer, overlapped>>
    /\ Track("destroying")

\* free(data_[kvpair.first]); evictor_queue.rem(kvpair.first)
FreeEntry(k) ==
    /\ main = "destroying"
    /\ data[k] # Null
    /\ UNCHANGED <<pc, local, serverVars, overlapped>>
    /\ \/ /\ heap[data[k]] = Free
          /\ fault' = "double_free"
          /\ UNCHANGED <<implVars, serial>>
       \/ /\ heap[data[k]] # Free /\ queue = <<>>
          /\ fault' = "segfault"
          /\ UNCHANGED implVars
          /\ serial' = IF overlapped THEN serial ELSE [serial EXCEPT !.pc = "segfault"]
       \/ /\ heap[data[k]] # Free /\ queue # <<>>
          /\ heap' = [heap EXCEPT ![data[k]] = Free]
          /\ data' = [data EXCEPT ![k] = Null]
          /\ queue' = Rem(queue, k)
          /\ UNCHANGED <<orphans, memused, fault>>
          /\ Track("destroying")

MainExit ==
    /\ main = "destroying"
    /\ \A k \in Keys : data[k] = Null
    /\ main' = "exited"
    /\ UNCHANGED <<implVars, pc, local, fault, stopped, received, answer, overlapped>>
    /\ Track("destroyed")

Main == Destroy \/ (\E k \in Keys : FreeEntry(k)) \/ MainExit

-----------------------------------------------------------------------------
Next ==
    /\ fault = "none"
    /\ \/ \E w \in Workers : Receive(w) \/ Handle(w) \/ Exit(w)
       \/ Signal
       \/ Main

\* Threads keep running; no request has to come.
Fairness ==
    /\ \A w \in Workers : WF_vars(fault = "none" /\ (Handle(w) \/ Exit(w)))
    /\ WF_vars(fault = "none" /\ Main)

Spec == Init /\ [][Next]_vars /\ Fairness

-----------------------------------------------------------------------------
\* Properties

\* The type of the state.
TypeOK ==
    /\ data \in [Keys -> Buffers \cup {Null}]
    /\ heap \in [Buffers -> Payloads \cup {Free}]
    /\ memused \in UInt
    /\ fault \in Faults
    /\ main \in {"serving", "destroying", "exited"}
    /\ \A w \in Workers : local[w].used \in UInt /\ local[w].sz \in SInt

AtomicCache == INSTANCE Cache WITH
    data <- serial.data, queue <- serial.queue, orphans <- serial.orphans,
    memused <- serial.memused, pc <- serial.pc, call <- serial.call

\* As long as no two calls overlap, the statements of cache.cc, run by whichever
\* worker, have the effect module Cache gives each call: what it shows of the
\* cache is true of the server under sequential requests, up to and including
\* the destruction of the cache after the workers have ended.
CallsAreAtomic == AtomicCache!Init /\ [][AtomicCache!Next]_(AtomicCache!vars)

\* Without overlapping calls no value is freed twice, and the handler of GET
\* streams a live value.
FaultsNeedOverlap ==
    fault \in {"double_free", "stale_read"} => overlapped

\* What GET /memsize answers while one other call is in progress may exceed
\* maxmem_, but by no more than a value that fits in it.
MemsizeBounded ==
    ~ overlapped /\ answer.op = "memsize" =>
        \/ answer.body <= MaxMem
        \/ \E p \in Payloads : SizeOf[p] <= MaxMem /\ answer.body <= MaxMem + SizeOf[p]

\* No buffer is lost: as long as no two calls overlapped, every allocated one
\* is some key's or about to be freed by the worker in the cache.
NoLeak ==
    ~ overlapped /\ (\A w \in Workers : ~ InCall(w)) /\ fault = "none" =>
        \A b \in Buffers : heap[b] # Free => \E k \in Keys : data[k] = b

\* Once stopped, by POST /shutdown or by a signal, the program exits, if no
\* calls overlapped: every handler in progress ends, the workers leave, the
\* cache is destroyed.
StopEnds == stopped ~> (main = "exited" \/ fault # "none" \/ overlapped)

\* Whatever overlapped, the only thing that can keep a stopped server from
\* exiting is a set that never gets out of its eviction loop.
StuckOnlyEvicting ==
    <>stopped =>
        \/ <>(main = "exited" \/ fault # "none")
        \/ <>[](memused > MaxMem /\ \E w \in Workers : local[w].op = "put")
=============================================================================
