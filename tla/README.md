# A TLA+ model of soup's concurrency

soup is a JavaScript runtime, bundler, package manager and test runner in Rust. Its
own source is under `src/src/`. All of its multi-threaded parts (the bundler, the HTTP
client thread, the package installer, the type checker, asynchronous file operations)
stand on one crate, `src/src/threading`: a futex mutex and condition variable, what is
built from them, lock-free queues, and a work-stealing thread pool. That crate is
modelled here, action by action. Four protocols above it are modelled too: the way back
into a JavaScript VM from other threads and its teardown, the hot-reload hand-off of the
dev server, the coordinator of parallel test workers, and the Redis client. The rest of
the system is inventoried below, with the order in which later modules would take it up.

Contents: [inventory](#inventory), [plan](#plan), [modules](#modules-and-the-code),
[runs](#runs), [fairness](#fairness), [proofs](#proofs), [findings](#findings),
[what is left out](#what-is-left-out).

## Inventory

### The threading layer (modelled)

| Part (file) | State | Operations | Hard because | Correct when |
|---|---|---|---|---|
| `Mutex.rs` | one word: unlocked, locked, contended; sleepers in the kernel | lock (fast path, slow path), unlock | the unlocker wakes somebody only if the word said *contended*, and lockers overwrite the word | one holder; no sleeper is forgotten; somebody always gets in |
| `Condition.rs` | a word of two counts (waiters, signals); an epoch word | wait, timed_wait, signal, broadcast | a signal may come between unlock and futex wait; a time-out may meet a signal already reserved | no signal lost or used twice; the counts are exact |
| `WaitGroup.rs` | a counter, a mutex, a condition | add, finish, wait | the owner frees the group when wait() returns, with finishers still inside finish() | no access after the free; wait() returns |
| `Semaphore.rs` | permits, a mutex, a condition | wait, post | one signal per post, handed on by takers | no permit beside a sleeper |
| `RwLock.rs` | a word of a bit and two counts, a mutex, a semaphore | lock, unlock, lock_shared, unlock_shared | readers come in without the mutex; the last one hands over through the semaphore | one writer or many readers; a claimed writer gets in |
| `ResetEvent.rs` | one word of three values | wait, set | set() between the exchange and the futex wait | wait() returns after set(), and only then |
| `channel.rs` | a bounded buffer, a mutex, two conditions | write_item(s), read_item | two kinds of waiters, one signal per item | nobody sleeps beside an item or a free place |
| `unbounded_queue.rs` | front, back, links in the items | push, push_batch, pop, pop_batch | between the swap of the back and the link the list is broken; an item belongs to the caller when pop returns it | FIFO; no write into an item that was returned; all is delivered |
| `signal_ring.rs` | slots, a word of two wrapping indices | enqueue (in signal handlers), dequeue | a slot is claimed first and written later; indices wrap | bounded FIFO |
| `ThreadPool.rs`, `Event` | one word: epoch and state | wait, notify, shutdown, wake_all | notify() wakes only if the state was WAITING; idle tasks need the epoch | no notification past sleepers; shutdown reaches everybody |
| `ThreadPool.rs`, `node::Queue` | a tagged stack pointer, a cache | push, try_acquire_consumer, pop, release_consumer | lists and flag bits share a word; nodes are reused | exact chain; one consumer |
| `ThreadPool.rs`, `node::Buffer` | a ring per worker with wrapping indices | push with overflow, pop, consume, steal | a thief copies before it claims; owner and thieves claim at one end | each node once; *nothing to steal* is true |
| `ThreadPool.rs`, the pool | the Sync word (idle, spawned, notified, state), limit, list of workers | schedule, warm, limit_threads, allow_threads, notify, wait, pop, steal, shutdown, unregister, join | the waking role is passed through the word; threads may be refused; drop meets workers everywhere | tasks run, threads are woken or started when needed, drop returns |
| `io_thread_pool.rs` | a reference count, a mutex, static memory | acquire, release | the count decides without the mutex | nobody uses memory that is being written |
| `Futex.rs` | none (the kernel's) | wait, wake | spurious returns, time-outs | external: an action of each user |
| `work_pool.rs`, `guarded.rs` | a pool behind a once-cell, a value behind a mutex | wrappers | - | not modelled: nothing beyond the parts they wrap |

How they interact: the condition unlocks and relocks the mutex; the wait group, the
semaphore and the channel use both; the reader-writer lock uses the mutex and the
semaphore. The pool sleeps in its Event, keeps tasks in one global `node::Queue` and a
`Buffer` and an overflow `Queue` per worker, and joins through one Event per worker. The
io pool owns a ThreadPool. The queues connect threads to the event loops above them.

### Protocols above it (modelled in part)

| Part | State | Operations | Hard because | Correct when |
|---|---|---|---|---|
| `jsc/VmHandle.rs`, `jsc/event_loop.rs`, teardown in `jsc/VirtualMachine.rs` | a state, a count of tickets, a count of threads inside, the queues of posted tasks | issue, clone and drop a ticket; enter, post, wake through a handle; tick; stop; close_and_wait | the JS thread sleeps for the last ticket while threads drop, post and enter; a weak poster may come at the instant of the close | nothing touches a VM that is gone; no sleep through the return it waits for; the teardown ends |
| `runtime/bake/dev_server/`: `watcher_atomics.rs`, `hot_reload_event.rs`, and their callers | three event slots, one atomic word, what each side remembers | acquire, append, submit (watcher); run, process, recycle, bundle, drop (JS) | the sides agree on a slot through one byte; a bundle holds events back; the server may be dropped with events out | a slot has one user; a submitted event runs; events are freed once |
| `runtime/cli/test/parallel/` | a range of files per slot, the file in flight, processes, pipes | hand-out, steal, ready, file_done, exit, end of the pipe, reap, respawn, scale-up, bail, abort | workers die at any point, with frames left in the pipe; slots outlive processes | every file is counted exactly once; a crash signal stops the run; the run ends |
| `runtime/valkey_jsc/` | queue, in-flight commands, plans of transactions, write buffer, connection, timers | send, connect, close; open, handshake, data, writable, close, timers | JavaScript runs in the middle of on_data(); connections end at any point; partial writes | a command is answered by its own reply or rejected, once; the loop is kept alive meanwhile |

### The rest of the system (not modelled yet)

| Part (`src/src/...`) | State and operations | Hard behaviours | Correct when |
|---|---|---|---|
| `event_loop` | deferred tasks, the Mini and SpawnSync loops | registration while iterating, nested loops | each registered task runs; no sleep with tasks queued |
| `io` | keep-alive counts, FilePoll registrations, PipeReader/PipeWriter | callbacks that close what they are called from, short writes | a poll is (un)registered once; bytes in order; no callback after close |
| `runtime/timer` | a heap of timers | timers cancelled or re-armed by callbacks, equal times | due order; a cancelled timer does not fire |
| `http` | HTTPThread queues, connections, h2 streams, session cache | cross-thread abort, shutdown, stream limits, window accounting | one answer per request; windows do not go negative |
| `sql_jsc`, `sql` | request queue per connection | pipelining, errors in mid-queue, close | answers match requests |
| `watcher` | the watch list, deferred evictions | file-watch thread beside the main thread | no event for an index that was evicted |
| `spawn` | process life cycle, reference counts | exit beside close, waiter thread | exit reported once |
| `install` | network, extract and script queues | thread completions beside the main loop, limits | each package task completes once; scripts in dependency order |
| `runtime/shell` | state machines of commands and pipelines | completions while starting | each node finishes once |
| `runtime/bake`, the incremental graph | graphs of files and edges | a change while bundling | stale edges are removed, fresh ones kept |
| `collections` | HiveArray, LinearFifo | slot reuse, wrap | as their reference containers |
| `bundler`, `sema`, `lint`, parsers, printers, CSS, resolver | pure computation on large trees | - | out of TLC's reach at a useful size |
| `sys`, `bun_alloc`, `ptr`, `bun_core`, engine bindings | system calls, memory, glue | - | no protocol of their own |

## Plan

1. *Done.* The threading layer, with abstract specifications `Ownership`, `CondVar`, `Fifo`
   and `TokenEvent`.
2. *Done.* The return to a VM and its teardown, the hot-reload hand-off, the test
   coordinator and the Redis client.
3. *Done.* Proofs for the mutex, the condition, the wait group, the semaphore, the
   reader-writer lock, the reset event, the channel, the three queues, the pool with its
   spare thread, its event and its rings, the return to a VM, the hot-reload hand-off and the
   test coordinator.
4. The proof that is left: `CommandsExact` (see [Proofs](#proofs)).
5. Timers (the heap's order against a reference order, cancelling while firing); the HTTP
   thread's queues and abort path; the SQL request queues; the watcher's deferred eviction;
   the process life cycle; subscriptions of the Redis client.

Parts that share no state are checked together by a suite module: a behaviour picks one
part in its initial state and leaves the others as they were made. The suites are
`Primitives` (mutex, reader-writer lock, semaphore, reset event, channel), `Sleepers`
(condition, pool event), `Queues` (the three queues and the wait group), `Pool` (Sync word,
rings) and `Services` (all four protocols); the pool under fairness has
a run of its own (`MCThreadPool`). A suite EXTENDS the part whose properties are or will be proved and INSTANCEs
the others, so that run and theorem name the same definition.

## Modules and the code

One action is one atomic access, one futex call or one step under a lock. Locals that
are not read again are reset, which merges states and hides nothing. `PROJECT.json`
gives the lines of every definition. A definition introduced by *Slip:* is a deliberate
mistake that a property must catch; no specification uses it.

- **Ownership**, **CondVar**, **Fifo**, **TokenEvent**: what users may rely on. `Ownership`
  gives a lock to one thread at a time. `CondVar` counts
  grants: a wake grants no more than blocked threads can use, each return uses one, and
  a time-out happens only when no grant is there. `Fifo` is a sequence whose consumer
  may be handed a prefix, possibly empty. `TokenEvent` has one token and a closed flag.
- **Mutex**: `state`, each thread's place, the threads parked on the word. `TryLockX86` is
  the bit-test-and-set path, `TryLockWeak` the exchange that may fail for no reason.
  `FutexWait` compares and parks in one step, as the kernel does. `X86` is a set so that
  the run has both paths; a build has one. Refines `Ownership`.
- **Condition**: the two counts, the epoch, each thread's last loads. Signallers may or may
  not hold the mutex. Time-outs and early returns may happen at any time. Refines `CondVar`.
- **WaitGroup**: over `Ownership` and `CondVar`, with an owner that frees the group after
  wait(). Running tasks may add tasks.
- **Semaphore**, **RwLock**, **ResetEvent**, **Channel**. A thread of `RwLock` is a reader or a
  writer in turn.
- **UnboundedQueue** (two producers with runs of one or two items, one consumer with pop
  and pop_batch), **SignalRing**, **NodeQueue**. Items may be pushed
  again after they were returned. What each holds is a history variable that no step of
  the code reads (in `NodeQueue` it also tells which nodes a caller may push): `items` and `cut` (how much of it pop_batch() has cut off and is
  walking through), `pending` (claimed signals, written or not), `pushed` and `batch` (the
  stack, and what a consumer took from it). An action appends or removes where the code's
  operation takes effect, and the invariants relate the sequences to the memory.
- **NodeBuffer**: two workers, each owner of its ring
  and thief of the other's, and one queue that stands for the pool's and the overflow
  queues. Indices are modulo `IndexMod` and start just below the wrap.
- **PoolEvent**: the word as epoch and state; wait() with its idle-task drain and timed
  first sleep; notify, shutdown and wake_all from other threads. Refines `TokenEvent`.
- **ThreadPool**: the Sync word and everything that reads it. It uses `TokenEvent` for the
  idle event (`PoolEvent` implements it), a set for the global queue with its consumer
  bit, and a set for each worker's ring with its overflow queue. Loads and exchanges of
  `notify_slow` are separate steps, because the limit and the queues are read in between;
  the retry loop of `wait` has nothing in between and is one step. `keepsSpare` is chosen
  initially and never changes, like the field.
- **IoThreadPool**: the count, the mutex, and which initialisation the static memory holds.
- **VmHandle**: `Holders` get tickets, `Weak` threads only have a handle. A decrement, the look
  at the state after it and the notify are three steps, because the JS thread may run in
  between; notify() waits for the lock that the JS thread has between its checks and its
  sleep. The plugin requests are a queue of their own, since close_and_wait() releases them
  but does not look for them before it sleeps.
- **WatcherAtomics**: `next_event` and the watcher's `current_event` and `pending_event` are the
  code's; `held`, `announced`, `queued`, `running` say which slot a thread is at. `dirty`, a
  history variable, is what changed and has not been processed since.
- **TestCoordinator**: one record for the coordinator, one per worker process. The handlers
  are compositions of operators that take the coordinator and give the one after. A range is
  the sequence of its files. `Growth` and `Cost` stand for the recorded sizes and times. Files
  are cut by number, by time (`partition` of `Timings.rs`), or kept in the first range with
  heavy files apart, as the three kinds of runs do.
- **ValkeyClient**: one record for the client, built the same way. A frame on `wire` says which
  command it belongs to, so a reply that settles another command is seen (`mixed up`). A
  handler that writes may get any part of its buffer out. `Pump` is the rest of a turn of
  on_data() after the reply's promise was settled: between the two, JavaScript may call in.
- **PrimitivesProofs** (mutex, semaphore, reader-writer lock, reset event and channel),
  **QueuesProofs** (the queues and the wait group), **SleepersProofs** (condition),
  **PoolEventProofs**, **PoolProofs** (the rings), **ThreadPoolProofs**, **VmHandleProofs**,
  **ServicesProofs** (hot reload): theorems.
- **MCThreadPool**: the pool's steps under fairness, without limits, warm() and refusals.
  **MCThreadPoolSpare**: the symmetry and the constraint of one run, see below.

## Runs

| Run | Shows | Bounds | Distinct states |
|---|---|---|---|
| `primitives` | `MutualExclusion`, `NoLostWakeup`, `RefinesLock` (mutex), `RwLockIInv`, `NobodyStranded`, `WaitersServed` (all) | 3 + 2 threads, one with the weak path; 3 permits; a channel of 2 | 50 thousand |
| `sleepers` | `WordExact`, `NoLostSignal`, `SignalsDelivered`, `RefinesCondVar` (condition); `IInv`, `IdleTaskAnnounced`, `NotificationTaken`, `ShutdownReleases`, `RefinesToken` (event) | 2 waiters, 1 waker or notifier, 1 poster of idle tasks, 2 wakes that move the epoch, 1 wake_all | 366 thousand |
| `queues` | `NoUseAfterFree` (wait group), `NoWriteAfterReturn`, `EmptyOnlyBehindAPush`, `ChainsExact`, `RefinesFifo`, `Delivered` | 2 producers, 2 consumers of the node queue, 3 nodes, runs of 2, a ring of 2 with indices modulo 4; 3 tasks of a wait group | 134 thousand |
| `pool` | `CountsExact`, `OneWaking`, `NoStrandedTask` (the Sync word); `EveryNodeOnce`, `NoneMeansEmpty` (the rings) | 2 workers, 1 scheduler, 2 tasks, both spare modes, limits 1 and 2, warm(1), refused threads, drop; 2 rings of 2, 3 nodes, lists of up to 3, 3 positions across the wrap | 2.2 million |
| `thread_pool` | `SpareThreadKept`, `TasksRun`, `DropReturns` | 2 workers, 1 scheduler, 2 tasks, both spare modes, drop; no limits, warm() or refusals | 123 thousand |
| `services` | `TeardownIInv`, `NoSleepThroughReturn`, `TeardownEnds` (VM); `HandOffSafe`, `OrphanHasTask`, `EventsRun` (hot reload); `FilesExact`, `PanicStops`, `RunEnds` (tests); `CommandsExact`, `CommandsSettle` (Redis) | 2 holders, 1 weak poster; 2 sources of changes; 2 slots, 3 files, 2 of them heavy, `--bail=2`, all three modes; 3 commands (one that may be pipelined, one not, a transaction), 3 sets of options, 2 failures, 1 retry | 378 thousand |
| `io_pool_reinit`, `thread_pool_join`, `thread_pool_spare`, `hot_reload`, `test_waiting`, `redis_plans` | expected violations, see [findings](#findings) | the smallest instances that show them | - |

Why these bounds are enough to be interesting:

- *Mutex*: with three threads there is a holder, a sleeper and a third that overwrites the
  word between an unlock and its wake, the case for which *contended* must be restored.
- *Condition*: two waiters and two wakes give a signal that can go to either, a time-out
  against a reserved signal, and an epoch that moves between load and futex wait.
- *Primitives*, *Queues*: `WaitersServed` and `Delivered` are the conjunctions of what each part
  promises those who wait.
- *Wait group*: the fast path needs a count above one, the slow path the last task, and a
  task may add others while it runs.
- *Queues*: with two producers one can stop inside the gap while the other pushes behind
  it; three nodes make reuse of a returned node possible; the ring is full at two, and
  its indices wrap twice around the slots.
- *Node buffer*: rings of two overflow with three nodes, and head and tail cross the wrap.
  `MaxLap` stops an owner before a whole lap of the index, 2^32 pushes in the code.
- *Thread pool*: with two workers one can be waking while the other sleeps, runs, starts,
  is refused or leaves. Ring capacity 1 makes consume() leave tasks in the queue.
  `thread_pool_spare` needs four workers: one that stops before its exchange, two that
  run tasks beside it, and one that is not started. Its state space is cut down by
  symmetry, by a constraint that lets one thread at a time be in the middle of a call (two
  more may have stopped before an exchange), and by callbacks that do not return. The
  constraint only leaves states out, so the trace is one of the pool's.
- Epoch bounds (`MaxWakes`, `MaxEpoch`) make each wake a new epoch; the code's epochs wrap
  after 2^32 and 2^30 wakes, which the models do not reach.
- *VM handle*: two holders and a weak poster let the last ticket, the last poster and a post
  race the sleeper; a holder may clone its ticket for the other. The tickets of a real VM
  are many, and only the last matters.
- *Hot reload*: with two sources an event can be held by a bundle while a second is pending
  and a third is being filled: all three slots are out.
- *Test coordinator*: two slots give a victim and a thief, three files a range to cut; each
  worker may exit, crash, be refused or garble its pipe at any point. `IdleDeaths` keeps
  workers from dying *between files* in runs that keep heavy files apart, the one case that
  does not end (see [findings](#findings)); `test_waiting` has it on. With two slots a thief
  has one possible victim, so the comparison of costs in `Victim` does not decide.
- *Redis*: the three commands cover each kind of queueing; two failures let a retry fail
  too, and one retry makes the client give up. The options are those of the default client
  with a database and an idle limit, one over TLS without pipelining, and one that neither
  queues nor reconnects. `UnitBreaks` keeps TLS sessions from breaking under a transaction,
  the one case that leaves a plan behind; `redis_plans` has it on.

Deadlock is checked in `sleepers`. The other systems may stop: a wait group is
freed once, an event is set once, every waiter of a semaphore may block with nobody left
who wants to post more than `MaxPermits`, a pool, a VM and a server are dropped once, a test
run ends, and commands run out.

Properties worth a remark:

- `EmptyOnlyBehindAPush`: pop() may call a queue empty that has items, but only while
  the producer of the first of them is between its swap and its store.
- `NoneMeansEmpty`: a steal that finds nothing looked at an empty ring at that instant. It
  holds although head and tail are read one after the other.
- `NoStrandedTask` is about settled states, in which every worker sleeps or runs a
  callback and no call into the pool is under way: then some worker runs. It does not say
  that every waiting task has a worker: a worker turned away from a contended queue
  (`ThreadPool.rs` 1767) may sleep although the first consumer left a task there. That task
  waits for the end of a callback, and a comment on pop (line 1428) allows such answers.
- `SpareThreadKept` is the promise about threads: while tasks wait and every worker runs a
  callback, the pool has all the threads it is allowed (`WaitingTaskGetsThread`), if it is one that keeps
  a spare thread awake. Pools without one are started for tasks that wait for each other,
  and there the same formula fails (see [findings](#findings)).
- `TeardownIInv` is inductive: the counts are the number of threads that hold a ticket
  or are inside, from Closed on no ticket is out, after the gate nobody inside may touch the
  VM, and when it is gone nothing is queued. `NoSleepThroughReturn` says that the one-second
  time-out of close_and_wait() is only a backstop.
- `FilesExact` says that each file is in exactly one place: one range, one slot's `inflight`,
  or counted. Neither a late frame nor a steal from a dead slot breaks it.
- `CommandsExact` relates promises to queues: what is pending is held once and nothing else
  is, the plans are those of the transactions held, and `poll_ref` is on while a promise waits.
- `RwLockIInv` is the inductive invariant of the lock; `Exclusion` is its second conjunct.

## Fairness

Weak fairness of each thread's steps inside a call: the operating system runs every
runnable thread. Nothing obliges a thread to begin a call, a futex to return early or to
time out, or the owner to drop the pool. In particular:

- `Mutex`: a thread in lock() or unlock() keeps running and a holder eventually unlocks.
  `Progress` is for the group: lock() is not fair to a particular thread.
- `Condition`, `Semaphore`, `RwLock`, `Channel`, `WaitGroup`: threads inside calls keep
  running, and readers and writers leave. `WriterGetsIn` starts at the claim, since the
  mutex before it is not fair.
- `VmHandle`: jobs end, threads go on, and a notifier gets the lock (strong fairness, since the
  JS thread takes and leaves it in its loop). Nothing is assumed of the time-out.
- `WatcherAtomics`: the watcher releases what it holds; the event loop gets to a task that is
  queued again and again (strong fairness of `Run` and `BundleDone`, which other callbacks may
  disable in between). No change and no request has to happen.
- `TestCoordinator`: the event loop handles what has arrived, and a worker that has a file
  finishes it, dies, or is killed. Weak fairness of one of these steps is enough, since
  each process takes finitely many. No worker has to crash, and the run need not scale up.
- `ValkeyClient`: dials end, the server answers what it has got, and the loop runs what is
  queued, writable or due. Failures, time-outs and calls from JavaScript need not happen.
- The queues: producers finish a push that has begun, and consumers keep polling, as
  event loops and workers do.
- `ThreadPool`: callbacks return, a thread asked for is started or refused, and workers
  keep running. `TasksRun` asks for at least one live worker, because a pool whose every
  thread is refused cannot run anything. With
  none the code may end the process (line 984), which the model leaves out.

## Proofs

Proved with TLAPS for every value of the constants, under the assumptions named in the
modules: the sets of threads are disjoint from each other and from the null values, a
channel has at least one place, and sets whose members are counted (threads of the
reader-writer lock, waiters of the semaphore, callers of the channel and the condition,
workers of the pool, threads around a VM, tasks of a wait group) are finite.
Each argument rests on an inductive invariant that TLC had checked on a small instance
before it was proved.

- `PrimitivesProofs`, of the mutex: `MutexIInv`, `MutexExclusion`, `MutexNoLostWakeup`,
  `MutexRefinesLock`, under `MutexAssumption`, for any set of threads and any mixture of fast paths. Mutual
  exclusion is not inductive alone: `HolderLocks` (the word is not UNLOCKED while a thread is inside) is what stops a
  second swap. `NoLostWakeup` needs `TypeOK`'s equation between `parked` and the program
  counters. With exclusion the CHOOSE in the refinement mapping has one candidate, so
  each step acquires, releases or stutters.
- `QueuesProofs`, of the wait group: `WaitGroupIInv`, `WaitGroupNoUseAfterFree`. `CountExact` says that the
  counter is the number of tasks finish() has not taken off, as a cardinality (hence the
  lemmas that add or remove one element); `MutexHeld` says where the mutex is held;
  `ZeroMeansQuiet` says that once the owner has read zero under the mutex every finisher
  is past its unlock: the fast path leaves the count above zero, and the slow path
  publishes zero with the mutex held.
- `PoolEventProofs`: `EventIInv`, `EventNoLostWakeup`, `EventRefinesToken`. `NoLostWakeup`:
  while workers are parked the word is WAITING, or a wake is under way, or a worker is
  back from the futex and will leave the word at WAITING. `LocalsRead` ties each thread's
  loaded word to its label, and `ShutdownWakes` covers the final wake of all. A worker's
  step through the loop is proved once (`DispatchKeeps`, `DispatchMoves`) and cited by
  each action that ends in it.
  `EventIdleTaskAnnounced` adds `IdleIInv`: the epoch never goes back, so a worker about to sleep beside a task in its idle queue has
  loaded an older epoch, and the futex refuses it, or the task's pusher has yet to move the
  epoch.
- `PrimitivesProofs`, of the reader-writer lock: `RwLockInvariant` (`RwLockIInv`). The three fields of the word are the
  numbers of threads at the labels that add to them, so each step is a lemma on
  cardinalities; the mutex has one holder, so at most one writer drains, and the only
  permit there can be is the one the last reader owes it.
- `PrimitivesProofs`, of the others: `PrimitivesNobodyStranded` (`NobodyStranded`), a part at a time. Semaphore: where the mutex
  is held and who carries a signal. Reset event: the word is past the exchange while
  somebody sleeps. Channel: `Covered`, which counts. Either every blocked reader
  has its signal, or there are as many signals and readers on the way as items, and the
  same for writers and free places. The property itself, *somebody* is on the way, is not
  inductive, because that reader takes one item and may leave another.
- `QueuesProofs`, of the queues: `QueueInvariant`, `QueueEmptyOnlyBehindAPush`, `NodesChainsExact`,
  `QueuesNoWriteAfterReturn`, `QueuesRefineFifo`, for any number of nodes, producers and
  consumers, any length of a run or a list, and any ring whose slots divide the range of its
  indices and are at most half of it, which is what `CAPACITY_IS_VALID` asserts. The
  invariants tie the history sequences to the memory.
  *unbounded_queue.rs*: `ItemsLinked` says that neighbours in `items` are linked, or that
  exactly one producer is about to link them (`LinksAt`); `EndsExact` says what `front` and `back`
  are, `ConsumerKnows` what a consumer in the middle of pop() or pop_batch() has loaded;
  `OnePlace` keeps items apart from the free nodes and from the producers' chains. A producer
  that has not linked yet is thereby to write into an item that is still in the queue, which is
  `NoWriteAfterReturn`, and an empty `front` with items left has a producer behind it. A
  swap of `back` is a push of `Fifo`, and a return of the consumer takes a prefix of `items`.
  *node::Queue*: `pushed` and `batch` are the lists that start at the stack's pointer and at the
  cache (`Leads`). A producer's list ends in the pointer that it loaded (`ListsLinked`), so
  its compare-exchange makes one list of two; a stack that was taken and refilled with the
  same node on top does no harm, since only that pointer matters.
  *signal_ring.rs*: the i-th pending signal has the index `head + i - 1`, modulo `IndexMod`. Two
  pending signals never have one slot (`PositionsApart`, from lemmas on remainders), each is
  in its slot or with the one producer or the consumer that is to write or has taken it
  (`SlotsExact`), so a claim finds its slot free, a store meets nobody, and the move of the
  head returns the oldest signal.
- `SleepersProofs`: `ConditionWordExact`, `ConditionNoLostSignal`, `ConditionRefinesCondVar`.
  `CallsApart` says who is in which call, and the word is exact as a cardinality.
  `SignalsCovered` matches every signal of the word: with a waiter that is awake, with a waker
  that has reserved it and not yet moved the epoch, or with a parked waiter and a futex wake
  still to come. The wake-ups of several wakers are counted as one set of pairs.
  `NoneSinceLoad` is what a waiter needs that goes back to sleep: if the epoch is still the
  one it loaded, nothing was reserved and announced since. The refinement maps grants
  to signals, and each step of wait, time-out, signal and broadcast to one of `CondVar` or to
  none.
- `ThreadPoolProofs`: `PoolInvariant` (`PoolIInv`), `PoolCountsExact`, `PoolOneWaking`,
  `PoolNoStrandedTask`. `spawned` and `idle` are cardinalities of sets of workers, spawns
  under way and refused ones included. At most one worker has the waking role, and until the
  shutdown the state in the word is Waking exactly while one has it.
  `NoStrandedTask` follows from two parts that are inductive with the rest: `QueueAttended`
  (while a task is queued the word is notified, or a worker will pop again, or a scheduler is
  still to notify) and `NotificationHeard` (a notification in the word is not left to
  workers that all sleep). Both go through refused threads, changes of the limit and the
  shutdown.
  `PoolSpareThreadKept` (`SpareThreadKept`) adds `SpareIInv`, which holds until the shutdown. `SpareLocals`: in this mode
  notify() never looks at the queues, a waking worker has passed its role on before it runs a
  task, and only workers in wait() are counted idle. `SignalHeard`: while the word is Signaled some worker is to wake, to start, or to look
  for a task. `TaskSeen`: while a task waits and the word is Pending, somebody is still to notify, or a
  worker is idle, or the pool is full. The waking role therefore ends only where a worker is counted idle or
  no thread is left to start, which is not so for pools that end it because
  has_waiting_task() said no. The theorem has three hypotheses. `Limits = {}`: nobody calls limit_threads() or
  allow_threads(); in the code only the type checker does (`sema/driver/lib.rs`), and its
  pools keep no spare thread. `~MayRefuse`: the system starts the threads that are asked
  for, since a thread that was refused is asked for again only by the next call into the
  pool. The tasks are finite in number.
- `PoolProofs`: `BufferInvariant` (`ring!IInv`), `EveryNodeInOnePlace`, `NoneFromEmpty`, for
  any number of workers and nodes, any capacity above one that divides the range of the
  indices, any lists, and runs in which a tail and what it may yet reserve (a list, a steal)
  stay within one lap of the index. Over a whole lap the claims are false, in the code
  too: a compare-exchange cannot tell a head from the one 2^32 later.
  An index is followed by its distance from the start (`Lap`), which does not wrap.
  `LocalsExact` says what a local copy of an index still tells: a head seen is at most
  the head, and a push has room before the head it saw. `CopiesExact` is what steal() rests
  on: a thief's copies are the victim's nodes as long as the victim's head is where the thief saw it,
  because the victim overwrites no slot from that head on. So the exchange that moves the head
  makes the copies the thief's own, and one that fails leaves them worthless. The same goes
  for the half that an overflow takes off its own ring. `HeldOnce` and `Partition`
  say that rings, lists and hands, the queue, and the nodes at rest divide the nodes; the
  part of a thief's ring behind its tail belongs to it only once the head is moved.
  A step of a worker is proved against that worker, and `OneMoves` carries the rest of the
  invariant to all others: the thieves that look at its ring, and those whose ring it takes from.
  `NoneMeansEmpty` follows: if the victim's tail equals the head that was read before
  it, the head cannot have moved past it, so the ring is empty when the tail is read.
- `VmHandleProofs`: `VmTeardown` (`TeardownIInv`), `VmNoSleepThroughReturn`. The counts of
  tickets and of threads inside are cardinalities. The second theorem has one part for each
  of the three things the JS thread may wait for: a thread lowers the count and then looks
  at the state, the JS thread sets the state and then looks at the count, so one of them
  sees the other.
- `ServicesProofs`, of the hot reload: `HotReloadIInv` (`HandOffIInv`), `HotReloadHandOff`,
  `HotReloadFreedOnce`. `OnePlace` says that an announced event is queued, running or kept for
  the bundle, one of them at a time; `WatcherKnows`, that what the watcher remembers
  covers what the JS thread may still be at, which is why a slot it takes is free;
  `ProcessedEmpty` and `Dropped` cover the recycled slot and the server's end.

- `ServicesProofs`, of the test coordinator: `FilesOfRunExact` (`FilesExact`), `CrashStopsRun`
  (`PanicStops`), for any number of slots and files and any costs. The handlers are
  compositions of operators that take the coordinator and give the one after, so each
  operator has a lemma that says which fields it changes (`Changes`) and that it keeps
  `EachOnce`: no file in two places, none lost. Taking from a range, the halves of a steal, counting
  and dropping are a lemma each on the positions in the ranges. That holds of every operator
  but the hand-out of a file, which loses the one in flight if there is one. `OneAtATime` is the protocol that
  excludes it until the run is stopped: a worker says *ready* before it has run a file, at most one command or one
  answer is under way, a slot that waits for a heavy file has an idle worker with nothing
  under way, and a slot that was sent a signal or is to be reaped is one whose pipe is done.
  This is what a worker breaks that dies while its slot waits, so `FilesOfRunExact` has the hypothesis
  `~IdleDeaths`; the run `test_waiting` shows that it is needed. `CrashStopsRun` needs no more than the
  types. That the first ranges divide the files is proved for the three ways of cutting
  them; the cut by time is a recursive function of the slots, and its proof looks at the least
  slot for which the claim fails (the library's theorem on least elements is about sets).

Only model-checked: every liveness property (fairness and ENABLED are beyond the prover),
and `CommandsExact` of the Redis client: it states the plans as the concatenation of what
every transaction held comes to, by folds over queues, and what those return for every
queue is induction over data. The same goes for the contents of the queues, which are
history variables and not functions that follow links.

## Findings

Each is a run that is expected to fail, with the trace that TLC prints.

- `thread_pool_join` (code bug, `ThreadPool.rs` 1151): the comment at 1116 says that the pool
  lives until the last worker's `join_event.notify()`. The worker lowers `spawned` to zero
  first, and a joiner that reads the word between the two does not wait: the worker then
  reads `join_event` of a pool that may be freed.
- `thread_pool_spare` (code bug, `ThreadPool.rs` 960): pools without spare threads are for
  tasks that wait for each other, and a test (`sema/driver/compile/threads.rs` 314) fails with
  "a task has no thread" where a task waits while a thread could be started. A waking
  thread loads the word (918), asks for waiting tasks (930) and exchanges the word (960). A
  task that is scheduled in between "only sets `notified`, and leaves the rest to the
  waking thread" (925), which is to see that the word has changed. But a worker about to wait may have taken the
  notification again, and the word is as it was. In the trace three tasks come while the
  first worker is at its exchange; two warm workers, not yet counted idle, take two
  of them and both notifications; the third task stays in a ring. The exchange succeeds with
  the old answer and sets Pending, every worker is in a callback, and the fourth is not
  started until the next call into the pool. With limits the property fails in a second way:
  a waking thread that has read the old limit can complete after allow_threads()
  (273, 932, 952) has left the work to it.
- `io_pool_reinit` (`io_thread_pool.rs` 23, 56): "no other thread is reading THREAD_POOL". An
  acquirer that loses the race for the mutex is not counted (the code calls this *a latent
  under-count*); after the releases the count is zero with a user left, and the next
  acquire() writes the pool anew. A debug build stops earlier, at the assertion of
  release() (line 77), when the count goes from one to zero.
- `hot_reload` (code bug, `watcher_atomics.rs` 281): "submitting the event if it contains new
  files" (178). A pending event that has not run is replaced by a newer one, and its files go
  into no event that the server is told of. They are processed only if the watcher later
  takes the same slot again, so a saved edit may not be bundled until another file changes.
- `test_waiting` (code bug, `Coordinator.rs` 714): the comment at 1502 says that drive() exits
  when no live worker remains. `waits_for_heavy_file_to_end` survives the process that waited:
  its successor is given a file before it is ready and a second one when it is, the first
  is never counted, and drive() waits with no worker left.
- `redis_plans` (code bug, `valkey.rs` 616): "One plan per `Meta::TRANSACTION_UNIT` entry in
  `in_flight` and `queue`" (257). When a TLS session breaks under a transaction its command
  is rejected and its plan kept; after the retry the next transaction is settled by the
  wrong reply.

## What is left out

- Weak memory: steps interleave on one memory. Acquire, Release and Relaxed are not told
  apart.
- A weak exchange that fails for no reason, where the retry reloads and changes nothing:
  it is a stuttering step. Where it takes another path (`Mutex`, `UnboundedQueue`) it is an
  action.
- The Darwin and Windows back ends, the owner check of the debug mutex, thread names,
  stack sizes, statistics, and the `each`, `CountedTask` and `Batch` helpers, which use
  the wait group and the queue as any caller does.
- Idle tasks at the level of `ThreadPool`: they are in `PoolEvent`. The order of tasks in a
  ring: they are a set in `ThreadPool`, and a sequence in `NodeBuffer`.
- Closing a channel and waiting for a reset event with a time-out: no caller does.
- Counter overflow of the Sync word's 14-bit fields, the wait group's and the lock's
  counts: out of reach for the number of threads the callers ask for.
- In `VmHandle`: what tasks do, keep-alive counts of the loop, termination requests to the
  engine, and the debug list of outstanding tickets.
- In `WatcherAtomics`: the files' contents and the incremental graph; which route a bundle is
  for; sockets of the browser.
- In `TestCoordinator`: runs of several programs (`parts`), the memory `reservation`, the choice
  among light files beside heavy ones, randomised order, `goes_on_after_crash`, output, reports
  and coverage.
- In `ValkeyClient`: subscriptions, disposed module graphs, finalisation of the JavaScript
  object, the reply parser and the delays between retries.
