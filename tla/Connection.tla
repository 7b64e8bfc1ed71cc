----------------------------- MODULE Connection -----------------------------
(***************************************************************************)
(* The connections of one worker of the server (Connection in crow.h):     *)
(* one read and one write in flight, a deadline in the worker's timer      *)
(* queue while a read is pending, and  delete this  when neither is.       *)
(*                                                                         *)
(* The worker runs, one after the other, the handlers of the operations    *)
(* that have completed (ready, in that order).  Operations complete at any *)
(* time once started, as asio promises, and the peers send, stop sending   *)
(* and reset at any time.  What a peer sends is a sequence of tokens, each *)
(* of them a request, part of one, or text that does not parse.            *)
(*                                                                         *)
(* A request is numbered by its position on its connection and its answer  *)
(* carries that number, 0 for the answer "100 Continue" and for a response *)
(* nothing has been put into.                                              *)
(***************************************************************************)
EXTENDS TimerQueue, FiniteSets

CONSTANT Budgets    \* bound: how often each peer may act, connecting and then sending tokens;
                    \* a run starts with one of these functions on Conns

ASSUME BudgetsAssumption == Budgets \subseteq [Conns -> Nat]

VARIABLES
    conn,    \* the Connection objects
    net,     \* their sockets: the peer, what is on its way, operations pending
    ready,   \* completed operations, in the order their handlers will run
    busy,    \* the read handler in progress and what it has yet to parse
    fault

rest == <<ready, busy, fault>>
vars == <<timerVars, conn, net, rest>>

Tokens == {"get", "close", "nohost", "upgrade", "expect", "body", "bad"}
Requests == {"get", "close", "nohost", "upgrade", "body"}

Idle == [conn |-> Null, todo |-> <<>>, ok |-> TRUE]
Empty == [by |-> 0, completed |-> FALSE]
Done(op, c, ok, data) == [op |-> op, conn |-> c, ok |-> ok, data |-> data]
Write(by) == [by |-> by, torn |-> FALSE]

Init ==
    /\ TimerInit
    /\ conn = [c \in Conns |->
        [obj |-> "none", open |-> TRUE, reading |-> FALSE, writing |-> FALSE,
         closing |-> FALSE, parsing |-> "message", count |-> 0, res |-> Empty, threw |-> FALSE]]
    /\ \E budget \in Budgets : net = [c \in Conns |->
        [peer |-> "none", left |-> budget[c], inbox |-> <<>>, awaiting |-> FALSE, hasty |-> FALSE,
         read |-> FALSE, writes |-> <<>>, answers |-> <<>>]]
    /\ ready = <<>>
    /\ busy = Idle
    /\ fault = "none"

-----------------------------------------------------------------------------
\* The peers and the operating system.

\* do_accept's handler: the worker's io_service is posted p->start.
Accept(c) ==
    /\ conn[c].obj = "none" /\ net[c].left > 0
    /\ conn' = [conn EXCEPT ![c].obj = "alive"]
    /\ net' = [net EXCEPT ![c].peer = "connected", ![c].left = @ - 1]
    /\ ready' = Append(ready, Done("start", c, TRUE, <<>>))
    /\ UNCHANGED <<timerVars, busy, fault>>

\* The peer is hasty if it does not wait for the answer to what it sent last.
Send(c, t) ==
    /\ net[c].peer = "connected" /\ net[c].left > 0
    /\ net' = [net EXCEPT
        ![c].left = @ - 1,
        ![c].inbox = Append(@, t),
        ![c].awaiting = TRUE,
        ![c].hasty = @ \/ net[c].awaiting]
    /\ UNCHANGED <<timerVars, conn, rest>>

\* It closes its side, or resets the connection, which discards what is on its way.
Leave(c) ==
    /\ \/ /\ net[c].peer = "connected"
          /\ net' = [net EXCEPT ![c].peer = "finished"]
       \/ /\ net[c].peer \in {"connected", "finished"}
          /\ net' = [net EXCEPT ![c].peer = "reset", ![c].inbox = <<>>]
    /\ UNCHANGED <<timerVars, conn, rest>>

\* async_read_some completes, with what has come, or with an error.
ReadCompletes(c) ==
    /\ net[c].read
    /\ IF conn[c].open /\ net[c].inbox # <<>>
       THEN ready' = Append(ready, Done("read", c, TRUE, net[c].inbox))
       ELSE /\ ~ conn[c].open \/ net[c].peer \in {"finished", "reset"}
            /\ ready' = Append(ready, Done("read", c, FALSE, <<>>))
    /\ net' = [net EXCEPT ![c].read = FALSE, ![c].inbox = <<>>]
    /\ UNCHANGED <<timerVars, conn, busy, fault>>

WithoutWrite(c, i) ==
    SubSeq(net[c].writes, 1, i - 1) \o SubSeq(net[c].writes, i + 1, Len(net[c].writes))

\* A write completes once the peer has taken all of it: it has its answer.
WriteCompletes(c, i) ==
    /\ i \in 1..Len(net[c].writes)
    /\ conn[c].open /\ net[c].peer # "reset"
    /\ net' = [net EXCEPT
        ![c].writes = WithoutWrite(c, i),
        ![c].answers = Append(@, net[c].writes[i]),
        ![c].awaiting = FALSE]
    /\ ready' = Append(ready, Done("write", c, TRUE, <<>>))
    /\ UNCHANGED <<timerVars, conn, busy, fault>>

WriteFails(c, i) ==
    /\ i \in 1..Len(net[c].writes)
    /\ ~ conn[c].open \/ net[c].peer = "reset"
    /\ net' = [net EXCEPT ![c].writes = WithoutWrite(c, i)]
    /\ ready' = Append(ready, Done("write", c, FALSE, <<>>))
    /\ UNCHANGED <<timerVars, conn, busy, fault>>

Ticking == \E i \in 1..Len(ready) : ready[i].op = "tick"

\* Time passes and the worker's deadline_timer runs out.
Elapse ==
    /\ ~ Ticking
    /\ Age
    /\ ready' = Append(ready, Done("tick", Null, TRUE, <<>>))
    /\ UNCHANGED <<conn, net, busy, fault>>

-----------------------------------------------------------------------------
\* What the handlers of a connection do; r is its record as they leave it.

\* Fault: a write in flight is not waited for.
DestroyAfterRead(r) ==
    IF ~ r.reading THEN [r EXCEPT !.obj = "deleted", !.open = FALSE] ELSE r

\* check_destroy
CheckDestroy(r) ==
    IF ~ r.reading /\ ~ r.writing THEN [r EXCEPT !.obj = "deleted", !.open = FALSE] ELSE r

Put(c, r) == conn' = [conn EXCEPT ![c] = r]

\* Memory that writes in flight refer to is overwritten; "100 Continue" is static.
TornWrites(c) ==
    [i \in 1..Len(net[c].writes) |->
        [net[c].writes[i] EXCEPT !.torn = net[c].writes[i].by # 0]]

\* The next completed operation is one of op.
Takes(op) ==
    /\ busy = Idle
    /\ ready # <<>> /\ Head(ready).op = op
    /\ ready' = Tail(ready)

OfLiving(op) == Takes(op) /\ conn[Head(ready).conn].obj = "alive" /\ fault' = fault

\* A handler runs on a Connection that has deleted itself.
UseAfterDelete(op) ==
    /\ Takes(op)
    /\ conn[Head(ready).conn].obj = "deleted"
    /\ fault' = "use_after_delete"
    /\ UNCHANGED <<timerVars, conn, net, busy>>

\* Fault: the deadline is called off and not set anew.
ReadMoreUnguarded(c, r) ==
    /\ CancelTimer(c)
    /\ Put(c, [r EXCEPT !.reading = TRUE])
    /\ net' = [net EXCEPT ![c].read = TRUE]

\* start_deadline and do_read
ReadMore(c, r) ==
    /\ StartTimer(c)
    /\ Put(c, [r EXCEPT !.reading = TRUE])
    /\ net' = [net EXCEPT ![c].read = TRUE]

\* start
Start ==
    LET c == Head(ready).conn IN
    /\ OfLiving("start")
    /\ ReadMore(c, conn[c])
    /\ UNCHANGED busy

\* The read handler's end after an error.
ReadError(c) ==
    /\ CancelTimer(c)
    /\ Put(c, CheckDestroy([conn[c] EXCEPT !.open = FALSE, !.reading = FALSE]))
    /\ UNCHANGED net

\* do_read's handler, up to parser_.feed.
Read ==
    LET c == Head(ready).conn IN
    /\ OfLiving("read")
    /\ IF Head(ready).ok
       THEN /\ busy' = [conn |-> c, todo |-> Head(ready).data, ok |-> TRUE]
            /\ UNCHANGED <<timerVars, conn, net>>
       ELSE ReadError(c) /\ UNCHANGED busy

\* do_read's handler, after parser_.feed.
ReadEnd ==
    LET c == busy.conn IN
    /\ busy # Idle /\ busy.todo = <<>>
    /\ busy' = Idle
    /\ UNCHANGED <<ready, fault>>
    /\ CASE ~ busy.ok \/ ~ conn[c].open -> ReadError(c)
         [] busy.ok /\ conn[c].open /\ conn[c].closing ->
              /\ CancelTimer(c)
              /\ Put(c, CheckDestroy([conn[c] EXCEPT !.reading = FALSE]))
              /\ UNCHANGED net
         [] OTHER -> ReadMore(c, conn[c])

\* Fault: the response is not cleared.
KeepsResponse(c) == [conn[c] EXCEPT !.writing = FALSE]

\* is_writing = false; res.clear()
AfterWrite(c) == [conn[c] EXCEPT !.writing = FALSE, !.res = Empty]

\* Fault: nothing is done after an error.
WrittenIfOk(r, ok) ==
    IF ok /\ r.closing THEN CheckDestroy([r EXCEPT !.open = FALSE]) ELSE r

\* The rest of do_write's handler: the last response closes the connection.
Written(r, ok) ==
    IF ok /\ ~ r.closing THEN r ELSE CheckDestroy([r EXCEPT !.open = @ /\ ~ ok])

\* do_write's handler.
WriteEnd ==
    LET c == Head(ready).conn
        r == Written(AfterWrite(c), Head(ready).ok) IN
    /\ OfLiving("write")
    /\ Put(c, r)
    /\ net' = [net EXCEPT ![c].writes = TornWrites(c)]
    /\ IF r.obj = "deleted" THEN CancelTimer(c) ELSE UNCHANGED timerVars
    /\ UNCHANGED busy

\* The tick handler: process calls the callbacks that are due, which close.
TimerFires ==
    /\ Takes("tick")
    /\ \E n \in 0..Len(dq) :
        /\ DueCount(n)
        /\ Pop(n)
        /\ IF \E c \in Fired(n) : conn[c].obj = "deleted"
           THEN fault' = "use_after_delete" /\ UNCHANGED conn
           ELSE /\ conn' = [c \in Conns |->
                              IF c \in Fired(n) THEN [conn[c] EXCEPT !.open = FALSE] ELSE conn[c]]
                /\ UNCHANGED fault
    /\ UNCHANGED <<net, busy>>

-----------------------------------------------------------------------------
\* What parser_.feed makes of the next token.

Parses(t) ==
    /\ busy # Idle /\ busy.todo # <<>> /\ Head(busy.todo) = t
    /\ conn[busy.conn].parsing = (IF t = "body" THEN "body" ELSE "message")

Consume == busy' = [busy EXCEPT !.todo = Tail(@)]

\* feed returns false: the text does not parse, or follows the last request
\* the connection said it would send.
ParseFails ==
    /\ busy # Idle /\ busy.todo # <<>>
    /\ Head(busy.todo) = "bad" \/ ~ Parses(Head(busy.todo))
    /\ busy' = [busy EXCEPT !.todo = <<>>, !.ok = FALSE]
    /\ UNCHANGED <<timerVars, conn, net, ready, fault>>

\* do_write, of the answer to request by; older writes in flight become torn.
StartWrite(c, by, writes) == net' = [net EXCEPT ![c].writes = Append(writes, Write(by))]

\* handle_header: the header of a request that expects 100-continue.
HandleHeader ==
    LET c == busy.conn IN
    /\ Parses("expect")
    /\ Put(c, [conn[c] EXCEPT !.writing = TRUE, !.parsing = "body"])
    /\ StartWrite(c, 0, net[c].writes)
    /\ Consume
    /\ UNCHANGED <<timerVars, ready, fault>>

\* remote_endpoint, called for the log, throws: the exception leaves the read
\* handler, which has cancelled the deadline and starts no other read.
Throw(c, r) ==
    /\ Put(c, [r EXCEPT !.threw = TRUE])
    /\ busy' = Idle
    /\ UNCHANGED net

\* handle, up to complete_request.  A response that is still completed, because
\* its write has not ended, is sent again and the request's handler is not called.
Handle(t) ==
    LET c == busy.conn
        n == conn[c].count + 1
        r == [conn[c] EXCEPT
                !.count = n, !.parsing = IF t = "close" THEN "dead" ELSE "message",
                !.closing = @ \/ t = "close"]
        res == CASE t = "nohost" -> [by |-> n, completed |-> FALSE]
                 [] t # "nohost" /\ conn[c].res.completed -> conn[c].res
                 [] OTHER -> [by |-> n, completed |-> TRUE]
    IN  /\ t \in Requests \ {"upgrade"} /\ Parses(t)
        /\ CancelTimer(c)
        /\ IF ~ conn[c].open \/ net[c].peer = "reset" THEN Throw(c, r)
           ELSE /\ Put(c, [r EXCEPT !.res = res, !.writing = TRUE])
                /\ StartWrite(c, res.by, TornWrites(c))
                /\ Consume
        /\ UNCHANGED <<ready, fault>>

\* handle, of a request to upgrade: handle_upgrade completes the response with
\* 404, which is not written.  The parser does not look at what follows.
HandleUpgrade ==
    LET c == busy.conn IN
    /\ Parses("upgrade")
    /\ CancelTimer(c)
    /\ Put(c, [conn[c] EXCEPT !.count = @ + 1, !.closing = TRUE,
                              !.res = [by |-> conn[c].count + 1, completed |-> TRUE]])
    /\ busy' = [busy EXCEPT !.todo = <<>>, !.ok = Len(busy.todo) = 1]
    /\ UNCHANGED <<net, ready, fault>>

-----------------------------------------------------------------------------
Worker ==
    \/ Start \/ Read \/ ReadEnd \/ WriteEnd \/ TimerFires
    \/ \E op \in {"start", "read", "write"} : UseAfterDelete(op)
    \/ ParseFails \/ HandleHeader \/ HandleUpgrade
    \/ \E t \in Requests : Handle(t)

Kernel(c) == ReadCompletes(c) \/ \E i \in 1..Len(net[c].writes) : WriteFails(c, i)

Next ==
    /\ fault = "none"
    /\ \/ Worker
       \/ Elapse
       \/ \E c \in Conns :
            \/ Accept(c) \/ Leave(c) \/ Kernel(c)
            \/ \E t \in Tokens : Send(c, t)
            \/ \E i \in 1..Len(net[c].writes) : WriteCompletes(c, i)

\* The worker runs its handlers, time passes, and operations that have data, or
\* have failed, complete.  Peers need not send, nor read what is written to them.
Fairness ==
    /\ WF_vars(fault = "none" /\ Worker)
    /\ WF_vars(fault = "none" /\ Elapse)
    /\ \A c \in Conns : WF_vars(fault = "none" /\ Kernel(c))

Spec == Init /\ [][Next]_vars /\ Fairness

-----------------------------------------------------------------------------
\* Properties

\* The type of the state.
TypeOK ==
    /\ step \in UInt /\ key \in [Conns -> UInt \cup {Null}]
    /\ \A i \in 1..Len(dq) : dq[i].age \in 0..Tick /\ dq[i].owner \in Conns \cup {Null}
    /\ \A c \in Conns :
        /\ conn[c].obj \in {"none", "alive", "deleted"}
        /\ conn[c].parsing \in {"message", "body", "dead"}
        /\ net[c].peer \in {"none", "connected", "finished", "reset"}
        /\ {net[c].inbox[i] : i \in 1..Len(net[c].inbox)} \subseteq Tokens
    /\ busy.conn \in Conns \cup {Null}
    /\ fault \in {"none", "use_after_delete"}

\* A connection deletes itself only when nothing will call it back, neither a
\* read nor a write nor its deadline, if its peer waits for its answers.
DeletesWhenDone ==
    \A c \in Conns : conn[c].obj = "deleted" =>
        /\ AgeOf(c) = Null
        /\ ~ net[c].hasty =>
            /\ ~ net[c].read /\ net[c].writes = <<>>
            /\ \A i \in 1..Len(ready) : ready[i].conn # c

\* How many of the first n answers to c are not "100 Continue".
Answered(c, n) == Cardinality({i \in 1..n : net[c].answers[i].by # 0})

\* A peer that waits for its answers gets one to each request, the request's
\* own, in order and whole.
AnswersInOrder ==
    \A c \in Conns : ~ net[c].hasty =>
        \A i \in 1..Len(net[c].answers) :
            net[c].answers[i].by # 0 => net[c].answers[i] = Write(Answered(c, i))

\* As long as a read may keep a connection alive, a deadline will close it.
ReadsHaveDeadlines ==
    \A c \in Conns : net[c].read /\ conn[c].open => AgeOf(c) # Null

\* Handlers set and cancel the deadline of their own connection only, and each
\* one that runs out calls back once.
ImplementsDeadlines == ADeadlines!Spec

\* Its read ended with an error before the handler of its last write ran.
Forgotten(c) == ~ conn[c].open /\ ~ conn[c].reading /\ ~ conn[c].writing

\* Its last response waits for a peer that does not read; no deadline runs.
Blocked(c) == conn[c].closing /\ conn[c].open /\ net[c].writes # <<>>

\* Every connection is deleted in the end, unless remote_endpoint threw, it was
\* forgotten, or its peer never takes the last response.
Reaped ==
    \A c \in Conns :
        <>[](conn[c].obj = "alive" /\ fault = "none") =>
            <>[](conn[c].threw \/ Forgotten(c) \/ Blocked(c))
=============================================================================
