# A verification project for the RESTful memory cache

TLA+ models of the cache and its evictor queue, of the server around it with the
parts of Crow it runs on, of the client library and of the programs that load the
server; TLC configurations that check them on small instances; and TLAPS proofs of
the most important invariants for every instance. Line numbers refer to `src/`.

## 1. The system

| Part | Source | State | Operations |
|---|---|---|---|
| `Cache::Impl` | `cache.cc`, `cache.hh` | `data_` (map from keys to malloc'ed values), `memused_` (uint32), `evictor_queue`, `maxmem_` | `set`, `get`, `del`, `space_used`, destructor |
| Evictor queue | `h_depen/queue.hh` | `head` and a singly linked list of (key, int size) nodes | `enqueue`, `rem`, `pushback`, `ret_size`, `dequeue`, `display` |
| Cache server | `cache_server.cc` | one `Cache`, one Crow app | routes `PUT /key/k/v`, `GET|HEAD|DELETE /key/k`, `GET /memsize`, `POST /shutdown` |
| Crow: server | `h_depen/crow.h` 9237-9480 | acceptor, one io_service and one thread per worker, timer queues | `run`, `stop`, `do_accept`, `pick_io_service` |
| Crow: connection | `h_depen/crow.h` 8815-9231 | socket, parser, request, response, write buffers, `is_reading`, `is_writing`, deadline timer | `start`, `do_read`, `handle`, `complete_request`, `do_write`, `check_destroy` |
| Crow: timer queue | `h_depen/crow.h` 5661-5724 | a deque of timers, `step_` | `add`, `cancel`, `process` |
| Crow: routing | `h_depen/crow.h` 8032-8556 | rules, a trie of path patterns | `add`, `validate`, `find`, `handle` |
| Crow: HTTP parser | `h_depen/crow.h` 1260-2717, 7043-7156 | parser state, counters, marks into the piece being parsed, header under construction | `http_parser_execute`, `feed`, the callbacks |
| Client library | `testing_client.cc` | curl handle, a map from keys to strings handed out | the interface of `cache.hh` over HTTP |
| Workloads | `cache_ETC.cc`, `cache_load.cc`, `cache_resptimer.cc`, `cache_respsize.cc` | counters, tables of keys | loops of client calls |
| Tests | `cache_client_test.cc` | - | Catch tests of the client against a server |

A client program calls the client library, which sends one HTTP request per call. Crow's
accept loop hands each connection to a worker thread in turn; that worker reads, parses,
routes and runs the handler, which calls the one shared `Cache` directly. `cache_server.cc:127`
asks for several worker threads, and no lock guards the cache.
`Cache::Impl` calls the queue in every operation: `set` removes the key's old node and
enqueues a new one, `get` moves the key's node to the tail, `del` and the eviction loop
remove nodes, the destructor removes them all.

### What is hard, and what makes each part correct

* **Cache and queue.** Three structures have to agree: the map, the list and the counter.
  Correct means: the list indexes the map (one node per stored key, of its value's size), the
  counter is the sum of the list, it is within `maxmem_` between calls, a `set` that
  succeeds has stored its value, the least recently used values go first, and
  `set` returns. The hard spot is `pushback` (`queue.hh:65-87`), whose comment admits
  that the head's case was not thought through: it writes through an uninitialised pointer
  and cuts all other nodes off the list. Everything that follows such a call is part of the
  model.
* **Integers.** Sizes are `uint32_t` outside the queue and `int` in it; the counter wraps.
* **Server threads.** The statements of concurrent calls interleave without a lock; `get`
  returns a pointer that another call may free while the handler streams it.
* **Connections.** One object is shared by a read, a write and a timer callback, and deletes
  itself when both reading and writing are over.
* **Timers.** Keys are int offsets from a moving base and outlive their timers.
* **Start and routing.** Workers publish pointers into their own stacks before connections are
  made for them; the trie is compressed in place, and the first rule must win all the same.
* **Parsing.** A request comes in pieces cut anywhere; marks point into a buffer that is reused.
* **Shutdown.** A handler stops the workers while requests, its own included, are in flight.
* **Client.** Return codes do not say what the server answered; pointers handed out are
  deleted only for the last get of each key.

The full list is `hazards` in `PROJECT.json`, each at its line.

## 2. The modules

| Module | Models | Extends |
|---|---|---|
| `MachineInts` | `uint32_t`, `int` and the conversions between them | |
| `QueueOps` | the methods of `Queue` as operators on the sequence of nodes reachable from `head` | `MachineInts` |
| `Cache` | `Cache::Impl` under sequential calls | `QueueOps` |
| `LRUCache` | what `cache.hh` promises: a bounded LRU store with atomic calls | |
| `CacheLRU` | the refinement mapping from `Cache` to `LRUCache` | `Cache` |
| `EvictorQueue` | what the cache relies on from `Queue`: a state machine over `QueueOps` | `QueueOps` |
| `EvictorList` | `Queue` on its linked list, with the refinement mapping to `EvictorQueue` | `MachineInts` |
| `SharedCache` | `Cache::Impl` statement by statement, run by several threads | `QueueOps` |
| `CacheServer` | the server program around it: handlers, workers, stop, the main thread; the refinement mapping to `Cache` | `SharedCache` |
| `CacheClient` | the client library over a transfer that fails, and `Cache` (by `INSTANCE`) as the server | `MachineInts` |
| `Deadlines` | what a connection expects of a timer queue: one deadline of its own | |
| `TimerQueue` | `dumb_timer_queue`, with the refinement mapping to `Deadlines` | `MachineInts` |
| `Connection` | the connections of one worker, their sockets and peers, and their timer queue | `TimerQueue` |
| `CrowServer` | `Server`: start, accept loop, workers, stop | |
| `Router` | rules, trie, `add`, `validate` | |
| `RouterFind` | compression of the trie, `find`, `handle` | `Router` |
| `HttpParser` | `http_parser_execute` and `HTTPParser` | |
| `Workloads` | the counters and the table of `cache_ETC.cc` and `cache_load.cc` | |
| `QueueOpsProofs`, `CacheProofs`, `EvictorListProofs`, `CacheServerProofs`, `CacheClientProofs` (with `Workloads`), `ConnectionProofs` (with `TimerQueue`), `CrowServerProofs` (with `Router`), `HttpParserProofs` | lemmas and theorems | the module each is named for |
| `MCCache`, `MCEvictorList`, `MCCacheServer`, `MCCacheServerClaims`, `MCCacheClient`, `MCConnection`, `MCCrowServer`, `MCRouter`, `MCHttpParser`, `MCWorkloads` | small instances | |

### Cache

`data`, `queue`, `memused` are `data_`, the chain from `evictor_queue.head` and `memused_`.
`orphans` are the nodes `pushback` has cut off; no code reads them, they are there to say
where bytes went. `call` is the last call with its result, `pc` what the thread is doing.

A call is one step: nothing else runs in the cache meanwhile (with one worker, or in the
client of a single-threaded program). Two loops are not one step, because whether and where
they end is the question: the eviction loop of `set` (`Evict`, `SetReturn`) and the
destructor's (`FreeEntry`, `DestroyReturn`). `data_[key]` inserts a null pointer when the
key is absent; the code tests for it and erases it again, so an absent key and a key with
a null pointer are both `Null`.

Undefined behaviour: `curr->next` with `head == NULL` ends in `"segfault"`. The write through
the unset `prev` (`queue.hh:82`) has two outcomes: it hits memory the cache does not own or
the allocator's (`"corrupted"`, final), or it changes nothing that matters and the call goes on with
the chain cut to the head (`GetHit`). That a hit on one of the list's own nodes is the
second case is not assumed: `EvictorList` lets `prev` be any node and is checked
to give the same chain.

A key that is the head's and the only node takes the branch of line 76, so only a lookup of the least
recently used of *several* keys does damage. `README_HW5.md` reports that the server
"segfaults after a while" for reasons its authors did not know; the shortest path in the
model is two `set`s, a `get` of the older key, its `del`, and then a `del` of the other.

### Evictor list

`EvictorList` has a heap of nodes at reusable addresses. `Curr`, `Prev` and `Last` are where
the walks of the code stop; `Relink` is its three writes in order. `delete curr->value` is
folded into freeing the node, since the node owns its string. The guard of
`Enqueue` (the key is not in the chain) is the cache's discipline: `set` calls `rem` before `enqueue`, and
`QueueIndexesData` shows it is kept. `dequeue` and `ret_size` are not called by any program; they are
modelled because they are methods of the class. `display` only prints.

### Shared cache and server

`SharedCache` has one action per statement of `set`, `get` and `del`. `memused_ += size` is a
load and a store. `del` is a routine called by a handler or by the eviction loop, so `victim` is its
argument and `DelReturn` returns to either. Values live in buffers
with reusable addresses, so that a double free and a read of a freed value can be told.
An access to the map and a call on the list are single steps. In the build
they are not, and two threads inside them at a time may also corrupt them; such executions are left
out. That is harmless for what the runs say: the counterexamples are executions of the program
all the same, and the properties that are claimed to hold either end with the first overlap or
(`StuckOnlyEvicting`) speak of this granularity only.

`CacheServer` adds what the workers run around the calls: a request arrives, its handler calls the
cache, and then answers from what the call returned. A stop comes from `POST /shutdown` (inside a handler) or a signal; a
stopped worker leaves when its handler is done; `Server::run` ends by waiting for the futures of
its workers, and then `main` destroys the cache. `overlapped` and `serial` are history variables:
`serial` is the cache's state whenever the one call in progress is between two steps of `Cache`, and
it is frozen at the first overlap.

### Client

A call of `CacheClient` is three steps or more: `Ask` builds the request, the server (`Cache`, with its eviction loop) executes it or
answers that no route fits, and a `Return...` action makes of the answer what the function of `testing_client.cc` does.
In between a transfer may be lost before the server has the request or after it has executed it; the client cannot tell which.
`maybe` is a history variable: the values a get of each key may still find, given what the server
has answered and what it may have executed. Documented by the module, and not what a reader of the interface expects: `set` returns
0 on any answer, also on a 400; `get` of an absent key returns a pointer to the text `NULL` with a size, not a null pointer
(`cache_server.cc:110` sends it as the value, where `testing_client.cc:82` says `NULL`); an answer that is not JSON, because the value holds a quotation mark, is
a null pointer; a question mark in a value cuts it off. `shutdown_server` and `ret_header` are calls of their own.

### Timer queue and connection

`TimerQueue` is the deque with an age per entry instead of a time, and int keys that are offsets from `step_`, both modulo 2^32 (`2 * SignBit`).
`Connection` composes it with the connections of one worker. `conn` is the object (`is_reading`, `is_writing`, `close_connection_`, the response under construction, the parser's phase),
`net` what the operating system knows of it, `ready` the completed operations in the order their handlers will run, `busy` the read handler in progress, which parses
one token per step. Peers send, stop sending, reset, and may or may not wait for an answer before they send more (`hasty`).
`async_write` copies the vector of buffers, not the memory it points at, so a response put together while a write is in flight makes that write `torn`.
`Handle` throws where `remote_endpoint` does. What the model says of a `hasty` peer is deliberately little: a pipelined request is answered with the response before it, its handler never called
(`res.completed_` is still set), and two writes can be in flight, after which the object may be used when it has been deleted.

### Crow server

The main thread in `run` with the thread that runs `io_service_`, and the workers; `stopping[t]` is how many io_services the call of `stop` in thread `t` has stopped.
A thread may fail to start and a worker may throw before it has counted itself in. A connection is one handler here; `Connection` has the rest.

### Router

`nodes` is the trie (`nodes_`), whose children are character sequences, so that `Validate` can merge chains as `optimizeNode` does; slash patterns enter their URL without the slash as a redirection. `Way` is the loop of `Trie::add`, a recursive function.
`Validate` compresses by the constant operator `Optimize`, which the run gives `OptimizeNode` of `RouterFind`. There `Find` follows every alternative.
The reference definition, `Expected`, matches the list of rules one by one and knows no trie. Found while writing it: a redirection goes before all rules, whenever they were added.

### HTTP parser

A message's text is a sequence of symbols, some of them a piece of a word, so that a cut inside `Content-Length` happens. `Byte` is an iteration of the loop of `http_parser_execute` (`Consumed`), with one operator per state, and `PieceEnds` may end the piece before any symbol: it
makes the callbacks for what is marked (`Flushed`) and sets the marks of the next piece (`Resumed`).
After the head of a request to upgrade `http_parser_execute` returns at once, ready for the next message (`returned`). If its piece goes on, the rest is dropped and `feed` returns false (`RestDropped`); if it ends there, the next piece is parsed. So what follows such a request is handled or not, as the cut has it.
The parser is fed as long as `feed` returns true. A connection may stop sooner, as `Connection::handle` does after a request to upgrade over HTTP/1.1, but it goes on over HTTP/1.0 with `keep-alive` and for `h2c`.
The reference, `Request`, is written from the lines that were sent, and states the oddities of the code as they are: a header with an empty value is dropped unless it is the last, a line without a colon becomes part of the next name,
all trailers but the last become headers, the limit on a head counts the trailers of the message before it, and a folded `Connection: close` is not recognised.

### Workloads

Both programs are counters. A request is the counter it takes from and, in `cache_load.cc`, the index of its key; `phase = "crashed"` is an access past the table.

## 3. What is checked

| Run | Instance | Distinct states | Properties |
|---|---|---|---|
| `cache` | 3 keys, values of 1, 1, 2, 3 and 6 bytes, `maxmem_` 5, 2^31 scaled to 8 | 536,158 | `QueueIndexesData`, `Accounting`, `CapacityRespected`, `SegfaultNeedsOrphans`, `SetStores`, `SetReturns`, `ImplementsLRU` |
| `cache_wide` | 2 keys, values of 1, 3, 5 and 6 bytes, `maxmem_` 6, 2^31 scaled to 4, at most 3 orphans explored further | 488,912 | `TypeOK`, `AccountingModulo` |
| `evictor_list` | 4 addresses, 3 keys, sizes 1 and 2 with 2^31 scaled to 2, addresses symmetric | 66,564 | `ChainSound`, `ImplementsEvictorQueue` |
| `server` | 2 workers, 2 keys, values of 1, 2 and 4 bytes, `maxmem_` 3, 4 requests, not explored beyond the first overlap | 912,864 | `FaultsNeedOverlap`, `MemsizeBounded`, `NoLeak`, `CallsAreAtomic`, `StopEnds` |
| `server_overlap` | 2 workers, 1 key, one value, 3 requests, every overlap | 182,875 | `StuckOnlyEvicting` |
| `client` | 2 keys, values of 1, 2, 4 and 7 bytes and one that fits no route, `maxmem_` 5, 4 calls | 331,227 | `StringsKept`, `ReadsWrites`, `CallsReturn` |
| `connection` | one peer that acts four times, or two that act two times and once; 2^31 scaled to 8 | 1,563,617 | `DeletesWhenDone`, `AnswersInOrder`, `ReadsHaveDeadlines`, `KeysFindTimers`, `KeysAreOwn`, `ImplementsDeadlines`, `Reaped` |
| `crow_server` | 3 workers, 7 calls of `do_accept` | 88,730 | `GivenToReady`, `ReturnsLast`, `ComesUp`, `HandedIsStarted`, `StopReturns` |
| `router` | up to 3 of 10 rules with any of 2 methods, every URL of up to 4 characters | 22,710 | `AnswersLikeRules`, `ConflictsRefused` |
| `http_parser` | a message with up to 3 of 15 kinds of header lines, with and without trailers, in HTTP/1.1 and 1.0, and a second one; every cut | 1,204,648 | `AssertsHold`, `HandledAsSent` |
| `workloads` | arguments 0 to 2 and 0 to 30, a table of 7 keys | 4,233 | `EtcWithinPlan`, `EtcAllButOne`, `TableSuffices`, `KeysMadeUp` |
| `server_claim_PointerIsToValue` | as `server_overlap` | - | `PointerIsToValue`, violated |

What they say:

* `QueueIndexesData`: list and map stay in step, also after the list has been cut.
* `Accounting` / `AccountingModulo`: the counter is the sum of the nodes in the chain and of the orphans: exactly
  below 2^31, modulo 2^32 above. `CapacityRespected`: between calls it is within `maxmem_` and never less
  than the bytes really held.
* `SetStores`: a set that returned 0 has stored its value, until nodes are cut off.
* `SegfaultNeedsOrphans`: what it takes to dereference a NULL head.
* `SetReturns`: the eviction loop ends.
* `ImplementsLRU`: until the first lookup of the least recently used of several keys, every call has the effect and the result of
  `LRUCache`. In the mapping a `set` takes effect when it stores its value, so while the loop runs the abstract store
  is already the suffix of the chain that fits. After the lookup the abstract specification promises nothing (`Break`).
* `ChainSound`, `ImplementsEvictorQueue`: the list always ends, holds only allocated nodes, and
  does what `QueueOps` says, for every value of the unset `prev`.
* `CallsAreAtomic`: until two calls overlap, the statements of `cache.cc`, whichever worker runs them, refine `Cache`, including the
  destruction after the workers have ended; so what is shown of `Cache` holds of the server under sequential requests.
  `FaultsNeedOverlap`, `NoLeak`: no double free, stale read or lost buffer without an overlap.
  `MemsizeBounded`: `GET /memsize` in the middle of a call may exceed `maxmem_`, by at most one value.
* `StopEnds`: a stopped server exits if no calls overlapped; `StuckOnlyEvicting`: whatever overlapped, only an eviction loop that never ends
  can keep it from exiting.

* `ReadsWrites`: whatever transfers failed before, a get of the client finds a value that may be current, or none. `StringsKept`: the strings it hands out stay valid and are freed once.
  `CallsReturn`: every call ends, also when the server dies in it.
* `DeletesWhenDone`: nothing calls back a connection that has deleted itself. `AnswersInOrder`: each request gets its own answer, whole. Both are for peers that wait for their answers.
* `ReadsHaveDeadlines`, `KeysFindTimers`, `KeysAreOwn`, `ImplementsDeadlines`: a read cannot wait for ever, a key finds its timer, a stale key finds nobody else's,
  and together: the moving, wrapping offsets are one deadline per connection.
* `Reaped`: which connections are never deleted: those for which `remote_endpoint` threw, those forgotten because their last write succeeded after the read had failed, and those that wait for
  a peer to take the last response, for which no deadline runs.
* `GivenToReady`, `ComesUp`: no connection is made for a worker that is not ready, and the server comes up unless a thread could not be started or threw, in which case it spins.
  `HandedIsStarted`: a handler that throws does not lose the connections posted to its worker. `StopReturns`, `ReturnsLast`: however many threads stop the server at a time, `run` returns, and after all handlers.
* `AnswersLikeRules`, `ConflictsRefused`: the trie, merged or not, answers as the list of rules does, and refuses exactly the rules nothing could tell apart and, when it is validated, a pattern that does not begin with a character.
* `HandledAsSent`, `AssertsHold`: whatever the cut, the parser hands on the requests that were sent, refuses the others, and none of its assertions fails. `HandledAsSent` says where the cut does make a difference: `feed` fails after a request to upgrade whose piece goes on, and only there may it fail before a request that would have been accepted.
* `EtcWithinPlan`, `EtcAllButOne`: the ETC mix is made but for one request, although its total is one behind. `TableSuffices`, `KeysMadeUp`: which arguments overrun the load generator's table, and when it uses a key it has not made up.

The type invariants of `EvictorList`, `CacheServer`, `CacheClient`, `Router` and `HttpParser` document their state and are not among the runs' properties. Types are proved of every component: as `TypeCorrect` of `Cache`, `Connection`, `CrowServer` and `HttpParser`, as `RouterTypeCorrect`, and as part of the inductive invariants of the others.

### Disagreements with the documentation

One run finds an execution that refutes a comment: `server_claim_PointerIsToValue`. `cache.hh:44` says that `get` retrieves a pointer to the value; the handler streams it
after `get` has returned (`cache_server.cc:108`), and a DELETE on another worker may have freed it.

Other places where a comment says more than the code does are not runs of their own; the properties above hold of what the code does:
`space_used` also counts values that are gone (`Accounting`, against `cache.hh:54`); a `set` that returned 0 may have been evicted by its own loop, once nodes are cut off (`SetStores`, against `cache.cc:31`);
with a `maxmem_` of 2^31 or more the counter wraps past it (`AccountingModulo`, against `cache.hh:39`); overlapping PUTs of one key can leave an eviction loop that spins and a server that never exits (`StuckOnlyEvicting`, against `README_HW5.md:19`);
and the client's `get` of an absent key is the text `NULL` (above).

### Bounds

Three keys give a head, a middle and a tail, which is every case of the list's code; with two, a node that is neither cannot exist.
Sizes are chosen so that one to three values fit, one may have to evict two, equal sizes and different ones occur, and one is too large for `maxmem_`.
2^31 is `SignBit`, a power of two just above `maxmem_` or below it, so that narrowing and wrapping happen when `maxmem_` allows them and not otherwise.
Below it the states are finite without a bound, because `OrphansFit`. Above it orphans may pile up; `MaxOrphans` stops the exploration there.
`Addrs` and `Buffers` bound what is allocated at a time; three buffers are as many values as two keys and the value being stored, or three requests, can hold.
`MaxRequests` bounds the requests of the server; four are enough to store two values, cut one off and destroy the cache, and three to reach every fault with an overlap.
Client: four calls are enough to set, to overwrite or delete over a failing transfer, and to look up twice; `SignBit` is 4, below `maxmem_`, so that `stoi` throws.
Connection: a peer acts four times (it connects and sends three tokens of seven kinds), which is a request, its successor and one that overtakes; two peers are what it takes for a key to find another's entry. `Tick` is 1: an entry is due or not. `SignBit` 8 makes 16 keys, more than the timers such a run sets; when a key may be misread is the bound of `KeysAreOwnInTime`.
Crow server: three workers are the least in which stop can be called by two at a time with a third still serving; seven connections wrap the round robin twice.
Router: the ten patterns share prefixes, overlap in every kind of parameter, conflict, and one begins with a parameter; three rules give a chain with a branch in it, before and behind a merge. The two methods are alike to the code, so the run takes them as symmetric.
Parser: three header lines put one of every kind before, between and behind the others; `MaxHeader` 40 is passed by the longest of them. The second message finds whatever the first has left behind.
Workloads: a table of 7 and sizes of 0 to 30 are on both sides of the size that overruns it, as 1000 and the arguments in the source are.

### Deadlock and fairness

`CHECK_DEADLOCK FALSE` in every run: a cache that has been destroyed and a process that has died or exited have no further step.
`Cache` assumes that a thread inside `set` keeps running, `CacheServer` that every worker with something to do and the main thread do: they are
operating system threads, no lock or queue can hold one up, and no wait depends on another thread except `run`'s on its workers. Nothing is assumed about requests or signals.
`CacheClient`: the server works, curl reports a transfer to a server that is gone as failed, and the client runs; transfers to a server that is up need not fail.
`Connection`: the worker runs its handlers, the tick comes, and the operating system completes a read that has data and any operation that failed; peers need not send, and need not take what is written to them.
`CrowServer`: threads run, a call of `stop` goes on, a signal that has come is handled; nobody needs to connect.
`Router`, `HttpParser` and `Workloads` have safety properties only.

## 4. What is proved

`CacheProofs` proves, for every set of keys and payloads, every `SizeOf` and every `SignBit > 0`:

* `TypeCorrect`: `Spec => []TypeOK`, for every `maxmem_`.
* `AccountingModuloHolds`, for every `maxmem_`: the counter is the bytes of the nodes modulo 2^32. Signed sizes wrap there, so the sums are compared by `Congruent`.
* With `MaxMem < SignBit` (a `maxmem_` below 2^31): `AccountingHolds`, `QueueIndexesDataHolds`, `EntriesChargedHolds`, `OrphansFitHolds`,
  `SegfaultNeedsOrphansHolds`, `SetStoresHolds`, `GetSizeRightHolds`, `CleanShutdownHolds`, `EvictionNeverSegfaultsHolds`, `ImplementsLRUHolds`,
  for the properties the run `cache` checks, and, for a finite set of keys (the sum of what is held needs one), `CapacityRespectedHolds`.

None of these is inductive by itself; `IInv` is. Its parts, and why each is needed:

* `StoredFit`: every stored value is at most `maxmem_`, so below 2^31 it goes through the queue unchanged;
* `ChainIsCharges`: every node of the chain carries a stored key and its value's size, no key twice; with it `rem` and the eviction loop find what they look for;
* `ChargesKept`: every stored value has a node, in the chain or cut off;
* `Accounting` and `SizesNatural`: the counter is the sum of the nodes' sizes, none of which is negative, so subtracting one never wraps;
* `IdleFits`, `OrphansFit`: between calls the counter is within `maxmem_`; what `pushback` cuts off was counted then, so orphans never exceed `maxmem_`;
* `NewestLast`: while the loop runs, the value just stored is the last of the chain, so the loop, which stops once the rest fits, never reaches it unless orphans take up the room;
* the properties themselves.

The step has one lemma per action (`StoreStep`, `EvictStep`, `GetHitStep`, `ForgetStep`, ...). They rest on
lemmas of `QueueOpsProofs` about `Rem`, `Pushback`, `SizeIn` and `Bytes`. `Bytes` is a recursive function; its value on
an empty chain, a concatenation and a chain without one of its nodes are derived from its unfolding
by the least number principle (lemma `LeastNumber`, from the well-foundedness of `<` on the naturals), which stands in for induction.

`ImplementsLRUHolds` reads the chain as the sequence of entries its nodes belong to (`View`): the view weighs what the chain is charged (`ViewWeighs`), and what the eviction loop leaves of the chain (`Left`) is `Fitting` of the view (`FittingView`).
Appending a node, taking one out and looking one up commute with `View`; an iteration of the loop leaves `Left` as it is (`LeftTail`), because it takes out the head of a chain that does not fit. Each call between two states then is the call of `LRUCache`, and `IInv` excludes the segfaults;
a `get` of the head of a longer chain is `Break`.

`EvictorListProofs`, for any finite set of addresses and any keys and sizes: `ChainSoundHolds` and `ImplementsEvictorQueueHolds`. The invariant (`Linked`) is that some sequence of distinct allocated addresses leads from `head` to `NULL`.
`Path` is shown to be that sequence (`PathExists`, `PathUnique`), and each method a change of it: `TakesOut` for `rem` and `dequeue`, `MovesBack` for `pushback`, `CutsOff` for `pushback` of the head, where the stray write
may hit any allocated node: `head->next = NULL` comes after it, so the chain is the head alone, and the nodes off the chain may point anywhere. The nodes lost are counted by a bijection with the tail of the queue.

`CacheServerProofs`, for any number of workers, keys, payloads and buffers: `FaultsNeedOverlapHolds`, `NoLeakHolds`, `CallsAreAtomicHolds` and, with `MaxMem < SignBit`, `MemsizeBoundedHolds`. They all hold until two calls overlap, which is what the models of
the code make of an unlocked `unordered_map` and counter. The invariant is in three layers:

* `IInv`: which statements a worker can be at in which call (`Shape`), and, as long as calls have not overlapped, that every buffer has one key and only the worker in the cache holds a pointer to a freed one (`Memory`);
* `Agree`: the worker in the cache has done to the map, the chain, the nodes cut off, the counter and its locals what its place in the code says, compared with the sequential cache (`Follows`), and between calls the two are equal (`Rests`). Every statement then is a step of `Cache` or none, which is `CallsAreAtomic`;
* `SerialInv`: the invariant of `CacheProofs`, true of the sequential cache by that refinement (its lemmas are used through an instance of the module). With `Agree` it bounds the counter between two statements (`CounterWithin`), and so what `GET /memsize` answers.

`CacheClientProofs`, for any keys, values and payloads and any transfers that fail: `StringsKeptHolds`, `ReadsWritesHolds`, and `ServerIsCache`: whatever is lost on the way, what reaches the server is a behaviour of `Cache`. The invariant says of each key which values may be the server's (`Known`), by how far a request
in flight has got (`SetDone`, `DelDone`, `GetDone`), and which strings the client owns (`Owned`).

Its second part is about the programs that call the library, `Workloads`: `EtcWithinPlanHolds`, `EtcAllButOneHolds`, `TableSufficesHolds`, `KeysMadeUpHolds`, for every argument and every size of the table. The invariant ties the counters to the number of requests left:
the total the requests are drawn from is one behind the sum of the counters, which is why none of them goes below zero and why one request is missing in the end.

`ConnectionProofs`: of `TimerQueue`, for any set of connections, timeout and width of the ints: `TimersFound`, a connection's key finds its entry and entries are in the order they run out; `TimersRefine`,
every step of the queue is one of `Deadlines`, under `[]KeysAreOwn`. That hypothesis cannot be proved, because it is not true of the code for ever: a key that is kept past its timer while 2^32 others are started finds another's entry.
What is proved instead is that nothing else can break it. `KeysAreOwnInTime`: in every state in which no key has been kept while `2 * SignBit` timers were started (`GivenUpInTime`), `KeysAreOwn` holds, however often `step_` has wrapped; and `GuardedInTime` draws from that bound what the theorems below draw from `KeysAreOwn`.
Two history variables count the timers started, in all and before each connection's last (`Counting`); the invariant is that a key is as far behind the next one, modulo the width, as timers were started since (`KeyTells`).

Of `Connection`: the state keeps its type, a connection has at most one reader, each step of a connection uses its timer queue as `TimerQueue` assumes (so `KeysAreRight`), and, under `[]KeysAreOwn`, `DeadlinesImplemented` and
`ReadsAreGuarded`: a read that is pending on an open connection has a deadline, for any number of connections. The invariant that carries the last one (`Guarded`) also says that a deleted connection has no deadline and that a read handler in progress belongs to a connection that lives.
`AnswersInOrderHolds` and, under `[]KeysAreOwn`, `DeletesWhenDoneHolds` are about peers that wait for their answers. Their invariant (`Orderly`) says for each connection of such a peer that at most one piece of a request is on its way to it (`OneToken`: in its inbox, in a completed read or being parsed, and then no response is),
what the connection's flags tell of it (`ReadingTells`, `WritingTells`), and that its count of requests is that of the answers (`Counted`).

`CrowServerProofs`, for any number of workers: `TypeCorrect`, `GivenToReadyHolds`, `BalancedHolds`, `ReturnsLastHolds`. The invariant: `init_count` is the number of workers that have counted themselves in, by the cardinality of their set (`CountInv`),
which makes `init_count == N` mean that all are ready (`ReadyInv`); launched threads are those with an index below `launched` (`LaunchInv`); calls of `stop` are made by threads that run (`StopInv`); the round robin has given workers 1 to
`roundrobin_index_` one connection more than the others (`RoundInv`).

Its second part is about `Router`, for any patterns, any rules in any order and whatever `Optimize` makes of a trie: `ConflictsRefusedHolds` and `RouterTypeCorrect`. The only assumption on the patterns is that their symbols are characters or parameters (`PatternsAssumption`).
The invariant (`RouterInv`) is that, while rules may be added, every node can be labelled with the way down to it (`Tree`): no two nodes with one way (`Shape`), a child for a symbol exactly where a way goes on with its label (`Linked`), a rule exactly at the ways that a rule or a redirection claims (`Marked`),
and at the head only what some pattern begins with (`Rooted`). `AddSymbolTree` is the step of `Trie::add` for one symbol, `WayTree` its loop, and `AddTree` says that `add` throws exactly if the way is taken. `Way` is recursive: `WayExists` and `WayUnfold` show its unfolding, and `WayTree` is an induction over the pattern, both by the least number principle.

`HttpParserProofs`, for any texts, well formed or not, any cuts and any limit on a head: `TypeCorrect` and `AssertsHoldHolds`. A mark of the piece in progress belongs to the state the parser is in (`MarksFit`), so at most one callback is due when a piece ends and a piece that begins sets the mark its state needs.
Where a state counts or matches, the counter and the match are what the code before it has left (`Ready`): a length is a number in the chunk states and not zero where a body begins, and what a value has been matched as is longer than a name or no match at all (`Matched`), and the chunk states are only entered with the flag `chunked`, which is why chunks are never read of another body and a state never sees a bare `Connection`.
`nread` is at most `MaxHeader` in a parser that has not failed and 0 where a chunk size begins. There is one lemma per parser state (`StartReqStep` to `ChunkDataDoneStep`), each saying that a symbol leads to a parser of that kind (`Stepped`); `StepFacts` puts them together.

Its second part is `CutsMatterAtUpgradesHolds`: once its marks are flushed, a parser is the one that would have been fed one symbol at a time, whatever the cuts, so a header, URL or body that is cut anywhere is put together as if it had come whole. Texts that are refused or pass the limit are no exception.
The one exception is the place right after the head of a request to upgrade, where `feed` fails unless the piece ends.
The invariant (`TextInv`) adds to the one above that a parser keeps its texts as sequences of symbols (`Whole`) and that one in the middle of a text has its mark (`GoesOn`). The argument: at most one mark is set (`OneMark`); what a callback makes of a text in two pieces is what it makes of the whole (`Pieces`);
two parsers that differ in how much of a text they have already reported take the same step of the machine and are equal when it reports the rest (`CutLoud` for URLs, names and values, `CutBody` for bodies); in every other state no mark is set (`CutFacts` has the cases).
It assumes of the texts only that they are sequences of symbols and that the marker for "no mark" is not one (`TextAssumption`), which the run `http_parser` evaluates for its own: for the fold in `Text` it would take an induction.

Only model-checked: liveness, which is out of the prover's reach; `KeysAreOwn` without a bound; `AnswersLikeRules`, whose operators (`RouterFind`: compression and lookup) are recursive;
and `HandledAsSent`, which compares the parser's work with a fold over the whole text and would need an induction over that text. Of what it says, that the cuts make no difference, except after a request to upgrade, is proved.

## 5. What is not modelled, and the plan

Not modelled for good: Crow's JSON, mustache, query strings, websockets, middleware, logging and utilities, and Catch (third-party code that parses and prints, and that the cache server does not use or that only tests use);
of the HTTP parser responses, absolute URLs, CONNECT and HTTP/0.9; the experiments `cache_resptimer.cc` and `cache_respsize.cc` (measurements);
`cache_client_test.cc` (tests); and `tests&old_stuff` (superseded code). Most lines of the repository are in these: two copies of Catch alone are 28,000 of its 44,000 lines of code, and of `crow.h` most is JSON, base64, SHA-1, utilities and templates
that hold no state. The parts that do, and that the cache server runs on, are modelled.

Left for later:

1. `Connection` composed with `CrowServer`: a connection in progress when its worker is stopped, whose object is never deleted.
2. Responses that a handler completes later, which Crow supports and the cache server does not use.
