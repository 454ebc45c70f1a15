# TLA+ models of the queues, workers and connections of `stuff`

The repository is a collection of C++ libraries. This directory models the part
of it in which several threads, coroutines, processes or machines share work
and can fail in the middle of it: the thread queues, the message queue over
http and etcd, the spool directory, the three work queues kept in MySQL tables,
the http/2 connection, service discovery with its balancer, and the cache that
is refreshed by coroutines. Everything is checked with TLC on small instances,
and nearly all of the safety properties are proved with TLAPS for every instance.

## The system

| Part | State | Operations | Interacts with |
|---|---|---|---|
| `threads/SafeQueue.hpp`, `Group.hpp` | list, counters, stop flag, linger deadline | insert, worker loop, handle with retry, stop, join | under every component below |
| `threads/OrderedWorker.hpp`, `MapReduce.hpp` | two queues, next serial, next to join | insert, work, join in order | two `SafeQueueThread`s in a `Group` |
| `mq/Client.hpp`, `mq/Server.hpp` | client queue; server queue, `m_Active`, `m_Running`; hashes in etcd | insert, put, process, shutdown | `SafeQueueThread`, http, `etcd/` |
| `etcd/` | the keys in etcd | get, compare-and-put | used by mq and sd |
| `threads/DiskQueue.hpp`, `mysql/Upload.hpp`, `mysql/Once.hpp` | files in a directory, `transaction_log` | push, cleanup, list, apply once, remove, truncate | file system, MySQL |
| `mysql/TaskQueue.hpp` | rows of `task_queue` | get, update, done | MySQL row locks, several workers |
| `mysql/Workflow.hpp` | rows of `workflow` with strands | get, update, done | MySQL row locks and snapshots |
| `mysql/MessageQueue.hpp` | `mq_producer`, `mq_data`, `mq_consumer` | insert, select, update | MySQL, the user's transactions |
| `asio_http/v2/` | streams, pending requests, windows, output queues of both ends | call, read, write, parse, window update, fail | asio coroutines, one TCP connection |
| `sd/Notify.hpp`, `sd/Balancer.hpp` (`Engine`) | lease, value, flags; list of peers | put, refresh, update, stop; poll | etcd |
| `sd/Balancer.hpp` (`ByWeight`, `PeerInfo`, `Breaker`) | peers, weights, budgets, position, breakers | update, random, add | `Engine`, callers in several threads |
| `threads/Coro.hpp`, `cache/LRU.hpp` | entries with age; waiters by key, list of refreshes | get, put, schedule, refresh, notify | asio coroutines |
| `threads/Pipeline.hpp` | priority queue | step | SafeQueue |
| `asio_tnt/`, `asio_http/v1/`, `kafka/` | connections, requests in flight | connect, send, reply, timeout | network |
| `cache/` (others), `container/` | lists and maps | get, put, evict, cleanup | their callers |

Everything else (parsers, formats, hashes, archives, bindings of libraries and
services, scripts, vendored code) is sequential or pure I/O and is not
modelled; `PROJECT.json` lists every part with the reason, and the hazards of
the code at their lines.

What is hard in this code, and what makes each part correct:

- *Thread queues.* Notifications race waits, `idle()` compares two counters
  read at different moments, handlers throw. Correct: every item is in one
  place, handed out once, counted once; linger is kept; shutdown ends.
- *Ordered worker.* Results arrive in any order. Correct: they are joined in
  order, and `MapReduce` returns only a complete result.
- *Message queue.* Timeouts on two hops, retries beside the original request,
  crashes between etcd and the queue. Correct: no duplicates inside the etcd
  window; a 200 means queued, up to the gap that the code has.
- *Spool and upload.* Crashes between COMMIT and remove, ambiguous COMMITs, two
  consumers. Correct: applied once, in order, never lost.
- *Tables as queues.* Concurrent transactions with row locks, snapshots and gap
  locks. Correct: a task is given to one worker, finished tasks stay finished,
  everything is finished some day; positions count what was consumed.
- *http/2.* Two coroutines at each end, windows counted twice, a connection that
  fails between a read and its handler. Correct: both ends agree on the windows,
  bodies arrive whole, every promise is set exactly once.
- *Service discovery.* Puts and leases whose answers are lost, updates during a
  put, values that do not parse. Correct: what is refreshed is what was asked
  for, updates arrive, who is gone is forgotten, up to the gaps named below.
- *Balancer.* Weights change while budgets are spent, breakers close between two
  updates. Correct: nobody is starved, closed breakers open again.
- *Coroutine cache.* Gets join refreshes that began earlier, entries expire, are
  evicted or replaced meanwhile. Correct: values are fresh, reads do not go
  back, Gets return.

## Modules

| Module | Models | State and actions |
|---|---|---|
| `SafeQueue` | `SafeQueue`, `SafeQueueThread`, `Group::wait` | variables have the names of the members; `pc` says where each worker is; an action is one critical section or one atomic access |
| `OrderedPipe` | the abstract specification of an ordering stage | `Enter`, `Emit` |
| `OrderedWorker` | `OrderedWorker`, and `MapReduce` as its driver | loop steps of `SafeQueueThread` without the condition variable, `Work`, `Join`; implements `OrderedPipe` |
| `MQ` | client, servers, etcd | a record per request whose `stage` is the next step of the coroutine between two yields; `late` holds etcd transactions nobody waits for |
| `Upload` | `DiskQueue` with `Upload::Consumer` in `Once::transaction` | one action per file or SQL operation; files are numbers in the order of their names |
| `TaskTable` | what the tables of `TaskQueue` and `Workflow` have in common | the rows and workers, and the properties stated of both |
| `TaskQueue`, `Workflow` | `Manager::get`, `update`, `done` | rows as functions, `lock` the row locks, `stale` for "not updated for an hour" |
| `Http2Output` | `v2/Output.hpp`: the frames that budget and window allow | functions on the output of one end |
| `Http2` | client and server of one connection, on `Http2Output` | an action is what one coroutine does between two awaits; `wire` holds the bytes under way as frames |
| `Registration` | what `Notify`, etcd and `Engine` keep of a service | the variables of `Discovery`, and what `Notify` promises of them |
| `Discovery` | `Notify` with etcd, and `Engine::read_i`, `start`, `stop` | `pc` is the etcd call a service waits for; leases and late puts are etcd's |
| `Balancer` | `ByWeight`, `PeerInfo`, `Breaker` | one action per call under `Engine::m_Mutex`; clocks as "a second has passed since" |
| `LRU`, `CoroCache` | the cache as functions; `CacheAdapter`, `KeyUpdater`, `Waiter` | an action is what a coroutine does between two suspensions |
| `MessageQueue` | `Producer::insert`, `Consumer::select`, `update` | `rowLock`, `gapLock`, `snapshot`, rows not yet committed in `added` |
| `*Proofs` | | inductive invariants and theorems: about the module of that name, `TaskTableProofs` about `TaskQueue` and `Workflow`, `NetworkProofs` about `Http2` and `Discovery`, `CoroCacheProofs` also about `LRU` |
| `MC*` | | instances for TLC |

Variables marked *history* in a module record what happened (how an item ended,
how often a hash was queued) and guard nothing. Each mutant definition ("Mutant
of ...") is a plausible mistake in the definition below it; with it in place
TLC finds the property it belongs to violated. Mutants are not part of any
specification.

MySQL, etcd, curl, the file system and the clock are external and modelled by
the behaviour the code relies on: `FOR UPDATE SKIP LOCKED`, gap locks and
deadlock detection, `ON UPDATE CURRENT_TIMESTAMP` and `ROW_COUNT()` that see
only changed columns (`mysql/Client.hpp` connects without `CLIENT_FOUND_ROWS`),
the compare-and-put of etcd, the atomic rename. A COMMIT or an etcd transaction
whose answer is lost may have been done or not.

## Runs

| Run | States | Question and answer |
|---|---|---|
| `safe_queue` | 123 thousand | `Accounting`, `OneOwner`, `LingerHolds`, `Termination`, `ItemsAreServed` hold for every mix of retry and linger. `Termination` fails with an untimed wait: `exiting()` and `wait()` take the mutex separately, and the 500 ms of `wait_for` are what saves a worker from a missed stop. Deadlock is checked. |
| `mq` | 610 thousand | Two scenarios: several messages to one server, and one message that is retried to two. `AtMostOnce` holds while a hash is inside the window of `etcd_limit`; after eviction a late retry can be queued again. `AckedIsQueued` names the only gap: an etcd commit whose coroutine was lost. `CleanStop`: a server that stops within its linger has finished its requests and tasks, and waits for nothing else. `Delivered`: retries end, unless the head is a request the server refuses for good. |
| `ordered_worker` | 12 thousand | `InOrder` (implements `OrderedPipe`), `CompleteResult`, `MapReduceReturns`, `EarlierTasksJoin`: one exception stops exactly the tasks behind it, and `MapReduce` then polls for ever |
| `upload` | 103 thousand | `AppliedOnce`, `QueuedOrApplied`, `AppliedInOrder`, `Drained` with two producers (also of the same name), two consumers, crashes, broken commits, cleanup and truncation |
| `task_queue` | 167 thousand | `GrantedOnce` with one exception that the code has: resuming under the same worker name does not touch `updated`; `FinishedStays`, `TasksFinish` |
| `workflow` | 65 thousand | `OncePerHour`, which is `GrantedOnce` without the exception (the test of `ROW_COUNT()`), and `TasksFinish` unless a started task lost its worker: its own strand keeps it from being resumed |
| `workflow_strand` | violation | `StrandExclusive` fails: two `get()` calls read the taken strands before either commits, and start two tasks of one strand. `mysql/test.cpp:476` says the second cannot run. |
| `message_queue` | 41 thousand | `PositionIsLast`, `NoDuplicates` (unless the user's transaction had read before `insert()`), `ConsumedOnce` and `TasksArrive` (unless the user goes on with the same `Consumer` after a failure), `InsertsEnd` once the queue's row exists |
| `http2` | 324 thousand | `FlowControl`: the receiver's windows always cover what is under way, so its asserts hold. `ResponseMatches`: no promise is set twice (`PromiseSetOnce`), though both coroutines may call `fail()`, and bodies arrive whole. `PrefaceFirst`. `Answered`: every call gets a response or an error, unless the client aborts: when the write coroutine calls `fail()` while a completed read waits in the executor, the response finds its stream gone and the assert in `Client.hpp:142` fails. TLC reaches that state. |
| `discovery` | 202 thousand | `RefreshedIsPublished`: a service that only refreshes its lease has its present value in etcd, unless the lease was lost or a put that had been given up came late. `UpdateArrives`: the engine ends up with the value asked for, except after a lost lease (it is kept and used for ever), after such a late put, or while a value that is no JSON blocks every read. `GoneIsForgotten`: a service that stopped or died disappears from the engine's list. Except for an unreadable value of another service, which would need two services, all these exceptions occur in the run. |
| `balancer` | 334 thousand | `NotStarved`: a listed peer with an open breaker is returned again and again if its weight covers `m_Step`. Without that condition it fails: behind a closed breaker the running minimum starts again, `m_Step` ends above the weight of an earlier peer, and each update cuts its savings. `BreakerReopens`: the test in `random()` opens a closed breaker. |
| `coro_cache` | 310 thousand | `Fresh`: a Get returns a value younger than the deadline, or one whose refresh was slow. `MonotonicReads`: a later Get of a key returns nothing older, unless the user's `Put` raced a handler. `GetsReturn`, unless a handler threw: its entry stays in `m_List` and no refresh is ever spawned again. All exceptions occur in the run. |

### Bounds

- `MaxItems`, `MaxInserts`, `Size`, `Tasks`, `Names`: two or three, so that
  there is always one object in work, one behind it, and one that arrives late.
- `Workers`, `Producers`, `Consumers`, `Servers`: two (three workers in
  `task_queue`, one to start a task, one to resume it and one to take it
  again); `message_queue` has one consumer, since consumers share nothing.
- `MaxFaults`, `MaxFailures`, `MaxThrows`: one to three crashes, timeouts or errors of any kind at
  any step, enough for a fault during the recovery from another.
- `QueueLimit = 0` and `EtcdLimit = 1` put the limits of the server within
  reach; `Slots = 2` lets a retry run beside the request it repeats.
- `http2`: two requests with bodies longer than the window of 4, frames of 2 or
  3, one or two streams at a time, one failure; a body stalls, is topped up, and
  a second stream uses the window of the connection meanwhile.
- `discovery`: one service with one update, two faults and one late put; services
  share nothing but the engine's read, which the unreadable value stands for.
- `balancer`: three peers, the middle one flaky, four lists, `Period = 1`. A
  breaker in the middle gives the large `m_Step`, at the end of the list the zero.
- `coro_cache`: three Gets, two keys in a cache of one entry, times before, at
  90% of and at the deadline, one change of the source, one put, one throw.
- The scenarios of `mq` keep the two-server case small: one message, two faults.
- The theorems have no bounds.

### Fairness

Threads and coroutines that can run do run, timed waits end, clients and workers come back and
time passes (weak fairness). Inserting, stopping, crashing and throwing are
never required, and faults are finitely many because they are bounded. Row
locks may be taken by others again and again; InnoDB grants waiting requests in
order, hence strong fairness for `done()` and for the producers of
`MessageQueue`. Nothing in InnoDB keeps two first inserts from being each
other's deadlock victim for ever; `InsertsEnd` therefore speaks of the time
after the first one has committed.

`Http2` and `CoroCache` assume weak fairness of every coroutine step; the user's
calls, the source and faults are free. `Discovery` assumes that each service's
coroutine goes on, that leases nobody refreshes expire, and that the engine
polls. `Balancer` assumes that seconds go by and that calls without a session
keep coming: with sticky calls alone and `m_Step = 0` one peer would get all.

`CHECK_DEADLOCK FALSE` stands where the system may really stop: all work done,
or all processes shut down.

## Proofs

`SafeQueueProofs`. `IInv` adds to `TypeOK`, `Accounting`, `OneOwner` and
`LingerHolds` what each place in the program knows: which workers hold an item
(`Control`), what the first value read by `idle()` still says about the counters
(it can only be too old, so an equal pair means that everything was finished),
and what `m_Stop` and the deadline imply (`Stopping`). `LingerHolds` is not
inductive by itself: a worker leaves on the strength of a value it read two
steps before. Theorems: `TypeCorrect`, `AccountingHolds`, `OneOwnerHolds`,
`LingerPromise`.

`OrderedWorkerProofs`. Every serial below `m_Serial` is in one place (`Backlog`,
`OnePlace`), and the joiner's hand, `m_NextJoin` and the output agree (`Turn`);
a serial whose joiner threw is known to be lost (`Lost`), which is why nothing
is joined after it; `Polling` ties `sCount` to `m_NextJoin`. Theorems: `Refinement` (each step of `OrderedWorker` is a
step of `OrderedPipe` or a stutter) and `MapReduceComplete`.

`UploadProofs`. `LogKey` says that no two open transactions have the same key and
none has a committed one; `LogComplete` that what is in the log was applied and, unless truncated, the
reverse;
`Progress` what a consumer knows at each place. Theorems: `UploadedOnce`,
`NothingLost`. `Pass` adds, for each consumer, that the rest of its list is sorted
and that a listed file which is no longer in it has been applied; that a file
leaves the list only after its commit is `Progress`. Theorem: `InOrderHolds`. For
this the sorted listing is stated as a set with one element, the increasing
enumeration of the directory, and not by a sorting operator.

`TaskTableProofs`. `GrantedOnce` of `TaskQueue` depends on the row that
`SELECT ... FOR UPDATE` found some steps earlier: `Locks` says that it is still as
it was found, `Once` that a row which can be given out has not been given out this
hour. In `Workflow` a transaction that `get()` left open after an error holds its
row as well, and its UPDATE is committed by the next BEGIN (`FlowLocks`).
Theorems: `GrantedOnceHolds` and `FinishedStaysHolds` of `TaskQueue`,
`OncePerHourHolds` and `FlowFinishedKept` of `Workflow`.

`MQProofs`. `Fresh`: the list of hashes that a transaction (of a request, or one
nobody waits for any more) compares with does not hold its own hash. `Stored`: a
committed hash is in etcd until it is evicted, the reverse, and a 200 is only given
for a committed one. With both, a second commit of a hash fails its comparison, so
a hash that was not evicted has one request that has put it in the queue, or will
(`Single`). `Awaiting` ties a client to its request, `Counted` `m_Running` to the
requests inside `process()`, and `Stopping` says that nobody enters a server that
stops. Theorems: `AtMostOnceHolds`, `AckedIsQueuedHolds`, `CleanStopHolds`.

`MessageQueueProofs`. `Locks`: only the holder of the row of `mq_producer`, or of
the gap where the first row will be once nobody else has it, has uncommitted rows.
`Pending`: these continue the committed ones without a hole up to `sPosition`,
which is what makes `PositionIsLast` inductive. `Unique`: what `is_exists()` saw is
all there is, as long as no transaction had its snapshot before. `Progress`: what a
`Consumer` object is past and has not committed it works on, or has skipped.
Theorems: `PositionIsLastHolds`, `NoDuplicatesHolds`, `ConsumedOnceHolds`.

`CoroCacheProofs`. Lemmas say what `Remove`, `Put` and `Get` of the LRU do to its
list: one element for each key, the others as they were, never more than the size.
`Listed` and `OneCoro` describe the updater: `m_List` is the newest `WaitData`
in order, those without a value, and one `Coro()` works on the first of them.
`Order` is the argument for `MonotonicReads`: for every key that no `Put` raced,
what was returned or waits to be returned is not newer than the cached value, the
cached one not newer than what a handler has read, and that not newer than the
source. `Waiting` keeps for each suspended Get the time and the value it was
called with. Theorems: `FreshHolds`, `MonotonicReadsHolds`, `CacheHolds`.

`NetworkProofs`, `Http2`. `Places`: a request that `Manager::async` was called
with is in one place at most (kept by the Manager, on its way to the Peer, in
`m_Pending`, in `m_Streams`, or answered), and none of them holds it twice.
`PromiseSetOnce` says nothing of where the requests are, so it needs all of this to
be inductive: `fail()` and `process_message` set the promises of what they find.
`Greeting`: as long as the server waits for the preface it has sent nothing, so the
client has read nothing and the Manager has passed no request on; the client's
Output then holds what is left of preface and SETTINGS and nothing else, and the
preface is on the wire with the first write that took anything, also one that was
cut. Theorems: `PromiseSetOnceHolds`, `PrefaceFirstHolds`.

`NetworkProofs`, `Discovery`. `SdControlOf`: a Notify refreshes only while no put is
under way, and puts under the lease it has, if it has one. `SdAnsweredOf`: a put that
was answered well is what etcd has, unless its lease is gone or an earlier put came
late; this bridges the time between etcd's step and the return of the call, where
`RefreshedIsPublished` says nothing yet. For the leases, `SdExclusive` follows what a
service holds, what its key hangs on and what its late puts carry. Theorems:
`RefreshedIsPublishedHolds`; `LeasesHold` (no key outlives its lease, no two services
ever use the same one) and `GoneIsOrphanedHolds` (the key of a service that is gone
hangs on a lease that nobody refreshes), the safety half of `GoneIsForgotten`.

The assumptions are the named `ASSUME`s of the modules: finite sets of tasks, names
and producers, natural numbers as bounds and sizes, and a `Nobody` that is no worker
(`WorkersAssumption`) or producer (`ProducersAssumption`). TLC evaluates them in
every run. The inductive invariants were checked with TLC before they were proved.

Only model-checked: all liveness properties (fairness and `ENABLED` are beyond the
prover), which is all that is stated of `Balancer`; `FlowControl` and,
but for `PromiseSetOnce`, `ResponseMatches` of `Http2`, whose windows and bodies are sums over the frames on
the wire, so that their invariants need induction over sequences, which the
installed provers cannot do.

## Not modelled, and the plan

The next steps are the parts named below that have state of their own: the reply
waiter of `asio_tnt/`, `container/RequestQueue.hpp`, and `Transform` of `kafka/`.

Not modelled: `threads/Pipeline.hpp` (its queue is that of `SafeQueue`),
`MapReduce`, `Cron` and `Sleep` of `Coro.hpp`, `sd/NotifyWeight.hpp` (numbers
only), `asio_tnt/` (request and reply by id, as in http/2), http/1.1, the other
caches and `container/` (sequential, or one lock), `kafka/` (librdkafka does the
work). Most of the repository's lines are parsers, formats, bindings, generated
and vendored code (`llhttp.c` and `backward.hpp` alone are a third of it), which
have no behaviour a model checker would add to their tests.

Left out of the modelled parts: the text of requests, JSON, URLs and SQL; the
`size()` of `DiskQueue` and its stop flag; `SafeQueue::try_get`; the `idle`
callback of `SafeQueueThread`; HPACK, CONTINUATION frames and routing of http/2;
handlers of `KeyUpdater` that never suspend (they erase the map node that
`Schedule` still refers to); the smoothing of latency, weight and success rate
in `PeerInfo`, of which only the outcome is kept; `Config::extra` of `TaskQueue`; spaces and task
prefixes of `Workflow`.
