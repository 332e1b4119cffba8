# mtaio in TLA+

TLA+ modules, TLC configurations and TLAPS proofs for
[mtaio](../src/README.md), a Python framework of asynchronous building blocks:
queues, caches, channels, event emitters, limiters, pipelines and protocol
clients on one asyncio event loop.

One fact shapes every model here. asyncio runs one task at a time and changes
task only at an `await` that really suspends. So an **action is the code that
one task runs between two such points**. An `await` on a free lock, on a
coroutine that does not suspend, or on `put()` of a queue with room is not such a
point; an `await` on a future, a contended lock, a full buffer, a sleep or a
user's callback is. Cancellation (`task.cancel()`, also how every timeout works)
arrives at these points and nowhere else.

## 1. Inventory

| Component (under `src/mtaio/`) | State | Operations | Talks to |
|---|---|---|---|
| `core/primitives.py` `AsyncQueue`, `PriorityQueue`, `LIFOQueue` | `_queue`, `_getters`, `_putters`, `_unfinished_tasks`, `_finished` | put, get, task_done, join, `_wakeup_next_waiter` | tasks of the user; futures |
| `core/primitives.py` `Latch` | `_count`, condition | count_down, wait with a deadline | tasks of the user |
| `core/executor.py` `TaskExecutor` | `_active_tasks`, semaphore | run, gather, map, create_task, cancel_all | tasks it creates |
| `cache/ttl.py` `TTLCache` and its LRU, LFU, FIFO subclasses | `_cache`, `_access_order`, `_stats`, `_cleanup_task`, `_closed` | set, get, delete, touch, clear, `*_many`, start, stop, the cleanup loop | eviction callback |
| `cache/distributed.py` server, client, `DistributedCache` | store, peers, one stream per client | get, set, delete, sync, replicate | TCP peers |
| `events/channel.py` `Channel`, `Subscriber` | `_subscribers`, `_topics`, `_closed`, a bounded queue per subscriber | subscribe, unsubscribe, publish, broadcast, close, receive | each other, under one lock |
| `events/channel.py` `TopicChannel`, `Publisher`, `PublisherBatch` | groups, batch | subscribe, publish, flush | Channel |
| `events/emitter.py` `EventEmitter` | listener lists by name, hooks, count, lock | on, once, remove, emit, wait_for, suppress_events, pipe, filter, map, buffer, emit_after, emit_periodic, shutdown | listeners and hooks |
| `resources/limiter.py` | tokens, windows, semaphores | acquire, release, limit | tasks of the user |
| `resources/timeout.py` | deadline, timer handle, task | run, context, group, scheduler | event loop timers |
| `decorators/control.py` | failures and breaker state, tokens, cached results, batches | with_retry, with_rate_limit, with_circuit_breaker, with_fallback, with_cache, with_bulk_operations | the wrapped function |
| `decorators/adapters.py` | one future | CallbackAdapter and others | callbacks, threads |
| `data/pipeline.py` | stages, queues | setup, process, stream, cleanup | stages |
| `data/stream.py` | state of operators | map, filter, window, broadcast, merge | iterators |
| `data/observable.py` | observers, batch of changes | add, remove, notify, batch | observers |
| `logging/logger.py` | a queue and a task per handler | emit, start, stop | sinks |
| `protocols/mqtt.py` | connection, message id, two loops | connect, publish, subscribe, disconnect | a broker |
| `protocols/asgi.py`, `protocols/mail.py`, `monitoring/`, `optimization/` | | | see section 8 |

### What is hard, and what makes each component correct

**Queues.** Putters and getters wait on futures that somebody else resolves, and
any of them can be cancelled before or after. `_wakeup_next_waiter` wakes one task
per operation and moves the item itself, so an item can enter the queue from a
consumer's `get()` and leave it from a producer's `put()`. Correct means: within
`maxsize`; nobody waits for what is there; every item delivered once and in
order; `join()` waits for all work.

**TTLCache.** Everything runs under one lock, but `_remove` awaits the user's
callback inside it, so every operation that removes something can be suspended or
cancelled half-way. Two indexes and a counter must still agree, room made must
still be there, and the cleanup loop must not remove what was renewed.

**Channel.** `publish`, `unsubscribe` and `close` keep the lock while a full buffer
makes them wait; `_closed` is tested before the lock is taken. Correct means:
everyone subscribed when a message was published gets it, in order; the limit
holds; after `close()` everybody has an end marker; the lock comes back.

**EventEmitter.** `emit()` holds a lock while listeners run, from copies of the
lists; registration and removal take no lock. Correct means: each listener runs
once per emission and in priority order; `once` is once over all emissions;
`wait_for` neither misses its event nor leaks its handler; emissions end.

**Control of calls and tasks.** Limiters: never more than the rate between any two
moments. Circuit breaker: at most `failure_threshold` failing runs, and closed again
after the function recovers. Bulk operations: each item given to one successful
flush. Gates (semaphores, `gather`, `Latch`): never more than the limit, no slot and
no notification lost to a task that is cancelled or times out. Timeouts: the deadline
of the task is that of its innermost block, and an overdue block ends. Retries: the
attempts of one call do not overlap. Owners of tasks: no task is lost sight of.

**Services.** Distributed cache: a response belongs to its request, and reads see the
writes sent before them. Pipeline and publisher batches: every item passed on once and
in order, through stages that fail. Logger: what was accepted before the end marker
reaches the disk in order. Observables: observers see an unbroken chain of changes.
MQTT: packets stay framed however the bytes arrive. Streams: each operator is applied
once. The hazards, each at its line, are in `PROJECT.json`.

## 2. Modules and how they correspond to the code

### AsyncQueue

Variables are the fields of `AsyncQueue`; `pc` says where each task is suspended,
`slot` what item it holds there. A future is named by the task that awaits it: a
task awaits at most one, which `OneFuturePerTask` checks rather than assumes.
A future of a cancelled task is `Done` and *stays in its list*, since
`except Exception` (lines 93, 126) does not catch `CancelledError`.
`Wakeup` is `_wakeup_next_waiter`, with its three outcomes as three alternatives.
It is part of the action of its caller (`Insert`, `GetNow`). `PutResume` is a
`put()` whose future was resolved: its `while self.full()` test runs again, so
it inserts or parks anew. The subclasses differ in the index that `_get()`
takes (`NextIndex`); `priority` is their order, `count` the field `_count`. What the
queue shares a name for with the channel carries it: `QueueInit`, `QueueNext`,
`ChannelSpec`, `BufferFull` and so on.

`owed`, `taken` (and `count` for the classes without one) are history. `TaskDone`
is called by a consumer once per item it received. `qsize`, `empty` and `full` are
pure, and the item itself is never looked at.

### TTLCache

`cache` and `keys` together are the ordered dict `_cache`, `order` is
`_access_order`, `items` is `_stats.items`. `op` is the operation suspended in
`on_evicted`; while it is there it holds `_lock`, so all other actions on the
cache have `op = None` as guard. `RemoveItem` is `_remove` up to its callback.
`CallbackDone` runs the rest of whatever was suspended, `CallbackCancelled` drops
it. The model has a callback in every removal: a run without one is the same run
with nothing between the two actions. Time is kept as ages: `age` since
`created_at`, `idle` since `last_accessed`, which is all the code's comparisons
read. `cleaner` is `_cleanup_task`: `start()` creates it only if the field is None,
`stop()` cancels it wherever it is and clears the field after awaiting it
(`StopReturn`), and nothing ever resets `_closed`, so the loop of a later
`start()` exits at once (`CleanupExit`).
`ttl` 0 stands for None as well: the code's `ttl or self.default_ttl` treats the
two alike.

### Channel

A call of subscribe, unsubscribe, publish or close is a record. What precedes
`async with self._lock` happens in `Subscribe`, `Publish`, `Unsubscribe`, `Close`;
the rest in `Run`, immediately if the lock is free and nobody is in line, otherwise
when `Granted` reaches the call. asyncio.Lock is fair, hence the sequence
`waiting`. `SendAll` is the loop over subscribers with `_send_to_subscriber`: a
`WeakSet` has no order, so it serves any set of subscribers with room before it
stops at one that is full; `op` is then the suspended holder and `RoomFound` its
resumption. `by` is the subscriber whose own task makes the call, which is what a
consumer that publishes from its `async for` body does; such a task does not
receive meanwhile. `broadcast()` is `publish()` for all topics.
`joined`, `promised`, `got` and `aborted` are history.

### EventEmitter

`lists` are `_listeners` by event name and `"*"`, `count` is the listener count,
`hooks` says whether the keys of `_hooks` are still there (`shutdown()` clears
them). `op` is the emission that holds `_lock`: the listeners it has still to
call, copied when it got the lock, and the one that is suspended. What runs
between two suspensions is one step of the loop at a time (`CallNext`, `Finish`);
other tasks act only while a listener is suspended or the lock is free, which the
conjunct in `Next` says. Any listener may set `event.propagate` to False, whether it
returns or raises (`Through`). A `relay` is a listener that emits on the same emitter, the
shortest form of pipes in a cycle: its emission enters the line for the lock that
its own caller holds. `wait` is the handler `wait_for()` registers with priority
MONITOR, `suppress` the one of `suppress_events()`.
`WaitTimeout` is possible after the future was set, when the timer fires before
the waiter has run: the handler is then removed for a second time, and the
counter goes down a second time.

### Control of calls and tasks

Each of these is a component with variables of its own; `MCControl` runs them.

* **CircuitBreaker** is the breaker with callers that `with_retry` drives. The lock is
  held over the wrapped function, so `breakerLine` is a line of callers and at most
  its granted head is in `func`. Times are ages: `sinceFailure` is `now -
  last_failure_time`, where `now` was read when the call got the lock, not when it
  failed (`elapsed` keeps the difference). A half-open call fails at once
  (`Trial`), because `with asyncio.timeout(...)` raises.
* **RateLimiters** has the token bucket of `resources/limiter.py`, the limiter of
  `decorators/control.py` and the windowed limiter. None suspends between reading
  the clock and its last assignment, so `acquire()` is one step. A token has `Unit`
  parts, which makes a fractional rate an integer.
* **BulkOperations**: a call takes the lock three times, for the append, for the test
  whether a flush is due and for the flush; only the third suspends under it.
* **TimeoutContexts**: nested `TimeoutContext` blocks of one task, the timer handle of
  each and the task that a timer creates. An exception unwinds without suspension, so
  `raising` disables everything but the exits of the blocks.
* **TaskOwners**: `TaskExecutor`, `TimeoutManager` and `TimeoutGroup`, which keep a set
  of tasks, with the monitor that cancels those that run too long.
* **Retries**: `TimeoutScheduler.schedule()` and `async_retry()`. An attempt that is
  cancelled at its timeout may take its time to end, and may end with a value.
* **Gates**: `ConcurrencyLimiter`, `ResourceLimiter`, `gather()` and `map()` with their
  limit, and `Latch`. `slots` and `waiters` are those of asyncio's semaphore or
  condition; `granted` is a task that was woken and has not run.

### Services

`MCServices` runs these.

* **DistributedCache**: nodes with their handlers, clients with one connection each,
  and the facade that keeps a client per node and writes to every replica. A message
  travels whole; `inbox` and `outbox` are the two directions of a connection. A
  connection that was lost is never replaced, as in the code. **CacheSession** is the
  abstract specification: a connection is a session whose writes take effect one by
  one in the order they were sent and whose GET is answered with the value its key has
  once all of them have. `Sessions == INSTANCE CacheSession WITH ...` is the refinement
  mapping: what is still in the connection is `posted` or `asked`, and the answer
  exists from the moment the node has written it.
* **Logger**: a handler's queue, its processor task and the rotation of its files. A
  record is a number, a level and a size. `_handle()` gives the formatter a dict
  (`logger.py:160-170`, `231-241`), and `logging.Formatter`, the default, raises on every
  one: such a handler takes its records from the queue and writes none of them.
  `DictFormatters` are the handlers whose formatter takes a dict; for these a failure is
  a choice. What `LogKept` says of files is about them, what it says of the end marker
  about all handlers.
* **MQTT**: connection, handshake, receive and ping loops, with the bytes of a packet as
  records so that a segment may end anywhere. `task` says where each task is
  suspended. `IdSpace` stands for 65536 and `Base` for 128.
* **Observable**: setters assign first and then line up for the notification lock
  (`turn`), and the asynchronous observer may change a cell itself.
* **Pipeline** and **BufferedPipeline**: `process()` through stages that filter, batch,
  fail or are cancelled; and `stream()` with a worker and a queue per stage. The queue
  `stream()` reads is the one its last stage reads as well (`ReadResult`, `StageTakes`);
  what that stage puts out goes to a queue without a reader and is recorded in `results`.
* **PublisherBatch**: the messages collected by several tasks and the flushes of them
  through a channel whose `publish()` suspends and may raise. A message is a number, which
  is its data, and has a topic. `ChannelCall` is what `Publisher.publish()` makes of it: it
  hands `Channel.publish(data, topic)` the topic first and the data second
  (`channel.py:438-440` against `177-182`), so that the channel takes the one for the
  other. `late` and `repeated` are history: the messages added while somebody was in
  `flush()`, and whether a flush began during another one or was cancelled.

**Streams** is alone in `MCStreams`: `add_operator()` with its layering, seven kinds of
operators and consumers that stop early. `Described` is the reference: each operator
as a function of finite sequences, composed in order.

### MC modules

`MCAsyncQueue`, `MCTTLCache`, `MCChannel`, `MCEventEmitter` and `MCStreams` extend the
component and define the constants' values. `MCHandover` (the queue and the channel),
`MCControl` and `MCServices` extend
several components that share no state; the variable `part`, chosen at the
start, says which of them a behaviour runs, and the others stay in their initial states.
That is a union of state spaces, not a product. `TasksEnd` of `MCControl` joins a property
of two components.

## 3. Runs

| Run | Question | Instance |
|---|---|---|
| `handover` | queue: capacity, wakeups, exactly-once, accounting, order, progress of a blocked put; channel: limit, order, delivery, end markers, release of the lock | 2 producers, 2 consumers, 1 joiner, all three classes, maxsize 0, 1, 2; 3 puts. 2 subscribers, 1 topic, unlimited buffers or of size 1, limit 1 or 2, 2 messages, 1 cancellation |
| `queue_put_once` | is an item of a bounded queue delivered once? **No** | the queue of `handover` |
| `ttl` | indexes, size, statistics, validity of removals, LRU order, expired items go | 3 keys, max_size 1, 2, two times to live, three policies |
| `ttl_fifo` | does FIFO evict the oldest? **No** | same |
| `emitter` | order, once, wait_for, everyone called, emissions end | 1 name and the wildcard, 2 registrations of any kind, 2 emissions |
| `emitter_suppress` | does suppress_events() keep events from listeners? **No** | same |
| `control` | limits, deadlines, attempts and tasks of the seven control components; overdue blocks end | 3 callers, threshold 2, 2 attempts; 4 items in batches of 2; 3 nested blocks; 3 owned tasks; 4 tasks at a gate with 1, 2 or 4 slots |
| `services` | the cache refines its sessions; nothing is lost, repeated or reordered | 2 nodes, 3 connections, a client and a facade; 2 handlers, 4 records; 2 packets of 0 or 3 bytes; 3 changes; 2 stages; 4 messages for 2 topics in batches of 2 |
| `breaker_recovers` | does a breaker close again once the function works? **No** | the breaker of `control`, with fairness |
| `cache_answers` | does a GET return the value of its key? **No** | the cache of `services` with 2 keys and one cancelled GET |
| `stream_ends` | does the loop over `BufferedPipeline.stream()` end with the processed results? **No** | the buffered pipeline of `services`, with fairness |
| `stream_operators` | is every operator applied once? **No** | 5 values, up to 3 operators out of 9 |

### What the properties say

*Queue.* `Capacity` and `NoLostWakeup` hold for every class and size although one
wakeup per operation looks too few: whoever is woken calls the wakeup again
when it runs, and while it has not run nobody else's situation has worsened.
`ExactlyOnce` (an item is queued or was taken, once), `WorkAccounted` (the counter
covers queued, handed over and received items) and `ServedInOrder` are stated for
unbounded queues, because finding 1 breaks all three on bounded ones.
`BlockedPutIsServed` is liveness: a parked put leaves its future if consumers
keep getting.

*TTLCache.* `IndexesAgree` (the two indexes and the counter) and `DecisionsHold` are
about the moments at which an operation is suspended in its callback or was
cancelled there: the room that set() made is still there and its key still absent,
and what the cleanup loop has yet to remove is still expired. `EvictsLeastRecent`
excepts an item that replaced another one, as `set()` does not move an existing key. `ExpiredRemoved` is liveness of the cleanup loop.

*Channel.* `ReachesMembers` fixes the audience when `publish()` is *called* and
asks about it when the call is over, whatever ran in between; it excepts those
that an unsubscribe already in line removes first. `CloseReachesAll` includes the
subscribe() that passed its test of `_closed` and then had to wait: it is still
ahead of close() in the fair lock's line. `LockReleased` is liveness with the exact
exception the code has: a holder may wait forever for a subscriber that is in a
call of the channel itself or has read its end marker.

*EventEmitter.* `InOrder` and `EveryoneCalled` must survive removals under the
emission's feet, `OnceRunsOnce` overlapping emissions, `WaitersListen` the race of
timeout and event. `EmitEnds` has the exact exception of the listener that emits on
its own emitter.

*Control.* `Trips` counts failures over all callers, retries and cancellations.
`RateHeld` compares what was granted between any two moments with the rate; for the
decorator's limiter only intervals without a refusal qualify, because each refusal adds
the same elapsed time again (`control.py:181`), and the windowed limiter may exceed its
limit at the one moment when a request leaves the window. `ItemsKept` says an added
item is in the batch or was flushed, once. `DeadlinesNest` must hold through exits by
error and cancellation in any order. `OverdueBlocksEnd` is liveness, with the exact
exception of two blocks that time out together: their two calls of `cancel()` raise
one `CancelledError`, and the inner block turns it into its own error. `TasksEnd` joins
`OwnedTasksEnd`, with the exceptions the code has (tasks created while `cancel_all()`
waits are forgotten uncancelled), and `AttemptsApart`. `GatesAdmit` is the conservation of
slots under cancellation at every point of the handover.

*Services.* `SessionSpec` is the refinement; node crashes, lost connections and cancelled
writes are in it, a cancelled GET is not (that is finding 5). `LogKept` excepts nothing
that was queued before the first end marker. `PacketsFramed`: a short read ends the
connection and never shifts the frames. `ChangesChain` excepts cells with a change whose
announcement was cancelled or cut short. `BatchedOnce` excepts stages used by two calls
at once. `PublishedInOrder` is about flushes of several tasks that overlap, fail and are
cancelled. It excepts the messages added while somebody was in `flush()` (`late`), which
the code does clear unsent when that flush returns (`channel.py:600`), and those that were
given up because the channel refused them or one before them (`dropped`); every other
message stays in the batch until it reached the channel, before all later ones. That
none reaches it twice is claimed only if no flush overlaps another or is cancelled. The
calls it speaks of are those with topic and data exchanged: whether the message reaches the
subscribers of its topic it does not say, and in the code it does not.

*`BufferedPipeline`.* That the loop over `stream()` ends with what the last stage put out
is `StreamDelivers`, and false. What does hold is `BufferedOnce`: the queues lose and reorder no item
although the reader and the last stage compete for one of them. It is proved
and in no run.

### Bounds, and why they are enough

* `MaxPuts` 3 with two producers: one item queued, one parked and one woken exist
  at once on a queue of size 1; priorities 0 and 1 give equal and different ranks.
  `MaxParked` 2 lets a dead future precede a live one. `MaxOwed` 2 lets a consumer
  hold items while another one waits.
* Three keys on one or two slots: an eviction always has a choice and a third key
  can be set meanwhile. Items live for 1 (the default) or 2 and `MaxAge` is 3, so an
  item is fresh, at its limit, or expired, and an older item may outlive a younger
  one. `MaxCount` 1 tells accessed from not accessed.
  `MaxStops` 2 lets two stop() calls overlap with a start().
* Two subscribers are enough for one full and one free buffer and for two calls in
  line behind the holder; two messages for order. One unsubscribe() per subscriber,
  one cancelled call.
* Three callers at a breaker with threshold 2: the third is in line when the second one
  trips it. Its ages count to one above the timeout. A tick is worth a third of
  a token, so a bucket may hold parts of one. Three blocks give an
  inner, a middle and an outer deadline in every order. Four tasks at two slots: two
  inside, one woken and one waiting.
* Two nodes and two replicas, a facade and a direct client: one key has two writers
  on different connections. The cache is checked with one key because requests for
  different keys only share the order of their connection, which the violation run
  covers with two. Packets of 0 and 3 bytes have, with `Base` 2,
  lengths of one and of two digits.
* Four messages in batches of two: a flush of two, one message added during it, and one
  more for a second flush that overlaps the first.
* The second of the two log handlers has a level above that of all records and no formatter for
  dicts: what such a handler does with a record is covered by the theorem alone.
* Four records on files of size 1 with two backups push the oldest out. Three changes of
  one cell by three tasks are a chain with a middle.
* Two registrations give every pair of kinds, priorities and names, two
  emissions overlap. Listener priorities are NORMAL (3) and MONITOR (6); HIGHEST (5) is
  given to suppressing handlers by the code.

Deadlock checking is off in all runs: clients may stop making calls, and a
behaviour ends when the bounds are used up.

## 4. Fairness

* *The event loop runs what is ready*: weak fairness of every resumption whose
  future is resolved (`PutResume`, `GetResume`, `Granted`, `RoomFound`, `Step`). asyncio's
  ready queue is FIFO, nothing in it is skipped.
* *asyncio.Lock is fair*: in Channel and EventEmitter the line is explicit. In
  TTLCache it is not, so `CleanupRound` gets strong fairness: the loop waits in
  line with everyone else and gets the lock however often others take it.
* *Sleeps and callbacks end*: weak fairness of `CleanupWake`, `CallbackDone` and
  `ListenerReturns`. A callback or listener that never returns stops its component;
  that the lock is held over it is in the code and in the models.
* *Timers fire and their handler tasks run*: weak fairness of `TimerFires`,
  `HandleTimeout`, `Deliver` and of the unwinding of a raised exception. The body of a
  block needs no fairness: a cancellation reaches it wherever it waits.
* *A breaker that is used*: callers keep calling and the function returns or raises
  (`breaker_recovers` only), and the clock goes on.
* *A buffered stream*: a stage's task that can go on does, `process()` comes back, and the
  reader asks for the next result or closes the stream (`BufferFairness`, `stream_ends`
  only). Nothing else is assumed to happen: neither that a stage raises nor that the
  items end.
* *Clients*: consumers keep getting and acknowledging (`GetNow`, `TaskDone`) and
  subscribers keep receiving (`Receive`), as a backpressured producer must assume. There
  is no fairness for puts, subscriptions, removals, cancellations or timeouts.

## 5. Findings

1. **A bounded queue delivers an item more than once** (`queue_put_once`).
   `_wakeup_next_waiter` appends the parked item itself (`primitives.py:167`) and
   resolves the future; the resumed `put()` leaves its loop and puts the item again
   (`:97`), or, if the queue has filled up, parks and has it put again. The
   insertion at line 167 is not counted in `_unfinished_tasks`. The shortest
   trace: put, put (parks), get.
2. **FIFO eviction is LRU** (`ttl_fifo`). The FIFO branch reads `_access_order`
   (`ttl.py:330`), which `get()` reorders whatever the policy (`:207`). Shortest
   trace: set a, set b, get a, set c evicts b.
3. **suppress_events() does not suppress** (`emitter_suppress`). The handler stops the
   propagation only for listeners after it: a wildcard runs after all listeners of the
   name, MONITOR listeners run before HIGHEST.

4. **A circuit breaker never closes again** (`breaker_recovers`). The half-open call
   uses `with asyncio.timeout(...)` (`control.py:281`), which is an asynchronous context
   manager only. The TypeError counts as a failure of the trial call, the function is
   not run, and the breaker opens again.
5. **A GET returns another key's value** (`cache_answers`). A cancelled GET leaves its
   response in the stream (`distributed.py:505`), and the next GET of that client
   reads it.
6. **A buffered stream does not end, and yields what was not processed** (`stream_ends`).
   `stream()` reads `_queues[-1]` (`pipeline.py:440`), the queue of the last stage. Of
   the two only one gets the end marker: if it is `stream()`, it waits for the stage
   (`:450`), which waits for the marker; if it is the stage, `stream()` waits for it
   (`:442`). It ends only if the last stage raised. The example of the class
   (`:335-339`) and the docstring (`:407`) have it end with the processed results.
7. **Operators are applied more than once** (`stream_operators`). `add_operator()` wraps
   the stream, which applies its operators when iterated, and copies them to the new
   stream as well (`stream.py:147`).

Seen while modelling, in the models where the code is modelled, without a run of
their own:

* `ResourceLimiter(rate=...)` passes a `window` that its `RateLimiter` does not take.
* The facade's `get()` passes coroutines to `asyncio.wait()`, which raises on current Pythons;
  two first calls of a facade for one node both connect (`distributed.py:573`), and the
  connection stored first is forgotten open; a lost connection is never replaced.
* `TopicChannel.subscribe()` returns a subscriber connected to nothing.
* MQTT: nothing resets `_stopping` for a second `connect()` (`mqtt.py:377`) and the message
  id takes the value 0 after 65535 (`:531`), which the protocol forbids.
* `gather()` without a limit raises the task's own error, its docstring says
  ExecutionError.
* `on_change` callbacks are held by weak references alone (`observable.py:301`).
* `Publisher.publish()` exchanges topic and data (`ChannelCall`, `channel.py:438-440`): after
  `batch.publish("Hello")` (the example at `:478-480`) the message goes to the subscribers of
  a topic "Hello", against the docstring (`:425-428`). The example of the class,
  `publisher.publish("topic", "Hello, World!")` (`:379`), gives its arguments the other way
  round and so reaches the right topic. Data that has no hash makes the lookup raise.
* A message added during a `flush()` is cleared unsent when it returns (`channel.py:600`).
* The default formatter of the log handlers raises on every record (`logger.py:160-170`,
  `231-241`): without a formatter of its own a handler writes nothing but errors.
* A failing `setup()` of a pipeline leaves the stages already set up without cleanup.
* `AsyncLogger.close()` awaits while it iterates over the list of handlers
  (`logger.py:436`): one removed meanwhile makes it skip another.
* A `CallbackAdapter` called from another thread does not wake the event loop.

## 6. What is proved

Every theorem holds for all values of the constants that satisfy the `ASSUME`s of the
module, which say no more than the types of the parameters, that sets of tasks are
finite where they are counted, and that the markers (`None`, `Nothing`, `EndMark`, ...) are
none of the things they stand beside. Nothing is assumed about the scheduler, and the
bounds of the model checker (`MaxPuts`, `MaxConns`, ...) are arbitrary numbers. TLC
evaluates all of these assumptions in the runs.

In each module the argument is the same: an inductive invariant, the lemma that it
holds initially, one lemma per action (or per helper that several actions share) that
it is kept, `Inductive`, and one theorem per property. What differs is why the property
is not inductive by itself.

| Module | Theorems | Inductive invariant |
|---|---|---|
| `AsyncQueueProofs` | `QueueTypeOK`, `Capacity`, `NoLostWakeup`, `OneFuturePerTask`, `ExactlyOnce`, `WorkAccounted`, `ServedInOrder` | `IInv` |
| `TTLCacheProofs` | `TypeOK`, `IndexesAgree`, `DecisionsHold`, `EvictsLeastRecent` | `CacheInv` |
| `ChannelProofs` | `ChannelTypeOK`, `MembersKept`, `StreamInOrder`, `ReachesMembers`, `CloseReachesAll` | `ChannelInv` |
| `EventEmitterProofs` | `TypeOK`, `OnceRunsOnce`, `InOrder`, `WaitersListen`, `EveryoneCalled` | `EmitterInv` |
| `ControlProofs` | `Trips`, `RateHeld`, `ItemsKept`, `DeadlinesNest`, `GatesAdmit`, and of `MCControl` `TypeOK`, `TasksEnd` | one per component, `ControlInv` |
| `NetworkProofs` | `SessionSpec`, `CacheTypeOK`, `PacketsFramed`, `MqttTypeOK` | `CacheInv`, `SessionInv`, `MqttInv` |
| `ServicesProofs` | `PublishedInOrder`, `BatchedOnce`, `BufferedOnce`, `ChangesChain`, `LogKept`, and of `MCServices` `TypeOK`, `BatchedOnce`, `PublishedInOrder`, `PacketsFramed` and the others | one per component, `ServicesInv` |

`SequenceLemmas` holds what these share: appending, removing, inserting and cutting
sequences, their ranges, injectivity and sizes. No recursion over sequences is used
in what is proved: `RemoveFirst`, `Recent`, `InDictOrder` and the like are given by
the positions they keep.

*Queue.* `NoLostWakeup` is almost inductive by itself: a caller of the wakeup has
changed the queue by at most one item, so if live getters remain after one was served
the queue had at most that one item (`WakeupRoom`). `QueueTypeOK` is not: `PutResume` inserts
`slot[t]`, which has to be an item (`SlotHeld`); and `WakePutter` sets the `pc` of the task
it finds in the list, so keeping `SlotHeld` needs `OneFuturePerTask`: that task waits in
put() and nowhere else. That survives `CancelTask` because cancelling marks every future of
the task. `WorkInv` is about unbounded queues: no put ever waits there, so items enter
in the order of their counts, `_get()` removes one of them, and whoever has been handed
an item and not run yet still counts in `_unfinished_tasks`.

*TTLCache.* An operation suspended in its callback disables all but its own
continuation, but not the passing of time, nor stop(). `DecisionInv` says what the
continuation relies on: the room that set() made and the absence of its key, that the
rest of a cleanup is expired, and that only the loop that is suspended is in it.
`RecencyInv` orders the keys of an LRU cache by their idle times, except after a
replacing set().

*Channel.* A call is put in line, granted the lock and may send, all in one step, so
the invariant is stated for a holder, a line and a registry given as parameters
(`Facts`) and carried over each of the three in turn. The parts that took thought:
behind a close() only unsubscribe() calls are in line (`Line`); who is promised a message
stays registered until it is sent, because an unsubscribe() ahead of it removes him from the
promise (`LinePromises`); a subscriber with an end marker is sent no message, because the
channel is closed by then (`Streams`).

*EventEmitter.* What the emission that holds the lock has called and has to call form one
chain in the order of `Earlier`, and every listener registered since its start is in one of
the two (`Emission`); who completed is in neither list again (`Once`); a future is
pending exactly as long as its handler is registered (`Waits`).

*Control.* `Trips` needs that a closed breaker lets one call at a time into the function,
so that every failure it counted is one of those seen; `RateHeld` that for each past moment
the tokens left plus those granted since are bounded (`BucketAccounts`), or that the
timestamps of the window are those of the grants (`WindowCounts`); `ItemsKept` that nothing is
appended while the function runs; `DeadlinesNest` that each block remembers the deadline of the
block around it; `OwnedTasksEnd` that what is active was found by `cancel_all()` or is late;
`AttemptsApart` that the attempts alive are the last ones of their calls; `GatesAdmit` the
count of slots free, given and held, together with who is in line (`GateInv`).

*Services.* `PublishedInOrder` needs that the batch and what each flush has still to publish
ascend, and that a flush neither clears nor overtakes a message that is not late unless that
is settled (it reached the channel or was dropped) or still in the flush's own list
(`BatchSound`, `FlushSound`); that nothing is published twice needs that the only flush there is
has none of the published messages left (`CallsOnce`).
`BatchedOnce` needs that what is in process_batch() is all the stage holds; `BufferedOnce` that at most
one thing is on its way from each stage to the next and that no item is behind an end
marker (`BufferInv`); `ChangesChain` that the changes an observer has dealt with, followed by
those in line for the lock, form a chain (`Announced`); `LogKept` that what a handler was to
write before the first end marker is still ahead of it in the queue (`DueSound`), and
that the files, each later one older, hold the newest of what was written (`FilesSound`).

*Distributed cache.* `CacheKeepsSessions` is the refinement: each action of the cache maps to
an action of `CacheSession` or a stutter (`SessionsStep`), whatever connections are lost, nodes
crash and caches are closed in between. Its hypotheses are that no GET is cancelled and
that each client has one task; several tasks may share a `DistributedCache`. Without
the first the code hands out answers to other calls (finding 5), and two tasks that read
one stream would take each other's. `CacheInv` says that requests travel only on connections that
are up, that whoever reads does so from the connection of its client, and that a
`DistributedCache` that is suspended in connecting has reached connections of its own.
`SessionInv` adds what the mapping needs: a GET is the last request of its connection and its
task reads; there is at most one answer on the wire, while nobody reads, and the task
it is for is awake. So a write through a connection never finds a GET before it
(`NobodyAsks`), and an answer is never behind another one.

*MQTT.* `PacketsFramed` says that the packets handled are a prefix of those sent. The bytes
not yet read, buffered or in transit, are one stream (`MqttStream`), and it is framed:
the stream after the packets handled is the packets still to come, one after another
(`Framed`). A task that is inside a packet faces what is left of it (`Faces`): the rest of its
length, such that the value read so far plus the multiplier times the number those
digits stand for is the length of the body, or the body. So reading the digits undoes
`EncodeLength` although the reader never sees the number, and a `readexactly(n)` that has `n`
bytes takes the body and leaves a framed stream, wherever the buffer ends. Moving
bytes from the network to the buffer does not change the stream. That one task reads is
part of the invariant (`MqttRoles`): connect() reads only while the loop does not, the
loop runs only while connected or being stopped, and once `_stopping` is set nothing is
claimed of the stream behind the packet that is being handled. A reset loses the buffer;
from then on nothing but an empty body can be read, and nothing is claimed of the stream.
That `EncodeLength` has a value at each number, and that its sequences have their digits, is shown by a
least counterexample (`DigitsExist`, `EncodeLengthIs`). `MqttAssumption` asks for a base of at
least two, for lengths the function is defined for, and that the tasks are different.

`MCControl` and `MCServices` run one component per behaviour. Their theorems combine the
invariants of the components: a step is one of one component, and the others keep
theirs because their variables do not change.

Only model-checked is liveness (`BlockedPutIsServed`, `ExpiredRemoved`, `LockReleased`,
`EmitEnds`, `OverdueBlocksEnd`, and the refutations of `Recovers` and `StreamDelivers`): the
prover has no ENABLED. Every invariant, every action property and the refinement that
a passing run checks is stated by a theorem.

## 7. What is left

Modelled is everything the first plan listed but `TopicChannel`, which delivers nothing.
`Streams` has no theorem: its operators are folds over the items, and what a fold computes for
every input takes an induction over data, which none of the provers here can do.

Abstract specifications still worth stating: the TTL cache implements a map of bounded
size whose entries may vanish; the channel implements one sequence per subscriber.

## 8. Not modelled

* *Within the modelled components.* TTLCache: hit, miss, eviction and expiration counters;
  what a callback does if it calls the cache again (it blocks forever on the lock).
  Channel: subscribers that are garbage collected out of the `WeakSet`; `TopicChannel`.
  EventEmitter: one callback registered twice, hooks that suspend, and the derived
  emitters (pipe to another emitter, filter, map, buffer, emit_after, emit_periodic,
  replay). AsyncQueue: priorities of items that do not compare. Timeouts: the function
  `timeout()`, which ignores its argument and times out at once. Decorators: fallback and
  the result cache. Adapters: those of iterators, contexts and callbacks.
  DistributedCache: the facade's `get()`, how long an entry lives, and short reads:
  `reader.read(n)` (`distributed.py:271-276`, `492-497`) may return less than the message it
  waits for, which the code does not notice and the model, whose messages travel whole,
  does not have. Streams: chain, merge and broadcast. Logger: what a formatted record
  looks like, and the JSON handler. Publisher: which subscribers a call with topic and
  data exchanged reaches. MQTT: contents of
  packets, topics, keep-alive intervals.
* *Not planned*: `asgi.py` (parsing and routing, no concurrency of its own), `mail.py` (imaplib
  and smtplib in threads), `monitoring/` (sampling of OS counters), `optimization/`
  (floating point), `exceptions.py`, `typing.py` (declarations).

## 9. Running

    tlc -config MCHandover.cfg MCHandover      # and likewise for the others
    tlapm AsyncQueueProofs.tla

Definitions marked "Mutant of" in the modules are wrong variants of the definition
that follows them. Each is a plausible bug, and putting it in the definition's place
makes the property named in `PROJECT.json` fail; they are not used otherwise.
