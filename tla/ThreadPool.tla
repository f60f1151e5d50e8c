----------------------------- MODULE ThreadPool -----------------------------
(***************************************************************************)
(* ThreadPool.rs: workers that take tasks from a global queue, their own   *)
(* buffers and each other's, and the Sync word that decides who is woken,  *)
(* who is spawned and who sleeps.                                          *)
(*                                                                         *)
(* The idle event is the abstract TokenEvent (PoolEvent implements it).  A *)
(* worker's ring and its overflow queue are one set of tasks; NodeBuffer   *)
(* and NodeQueue have the detail.  A load and a compare-exchange in a      *)
(* retry loop with nothing read in between are one step.                   *)
(***************************************************************************)
EXTENDS Naturals, Sequences, FiniteSets

CONSTANTS Workers,      \* threads the pool may spawn: max_threads
          Schedulers,   \* threads outside the pool that schedule tasks
          Tasks,
          Capacity,     \* of a worker's ring
          SpareModes,   \* values of keeps_spare_thread_awake, set when a pool is made
          Limits,       \* values for limit_threads() and allow_threads()
          WarmTo,       \* the argument of warm(); 0: it is not called
          MayRefuse,    \* the OS may refuse a thread
          MayDrop,      \* the owner may drop the pool
          Owner, None

ASSUME ThreadPoolAssumption ==
    /\ Workers \cap Schedulers = {}
    /\ Owner \notin Workers \cup Schedulers
    /\ None \notin Workers \cup Schedulers \cup Tasks \cup {Owner}
    /\ IsFiniteSet(Workers) /\ Workers # {}
    /\ Capacity \in Nat \ {0}
    /\ {MayRefuse, MayDrop} \cup SpareModes \subseteq BOOLEAN
    /\ WarmTo \in 0 .. Cardinality(Workers)
    /\ Limits \subseteq 1 .. Cardinality(Workers)

VARIABLES keepsSpare, \* keeps_spare_thread_awake
          sync,       \* the Sync word
          allowed,    \* allowed_threads
          queue,      \* the pool's run_queue
          holder,     \* who holds its IS_CONSUMING bit
          threads,    \* the list of registered workers
          inside, token, closed,    \* idle_event
          buf,        \* the tasks in each worker's ring
          fresh,      \* tasks not scheduled yet
          done,       \* tasks that have run
          pc,
          isWaking, isIdle,         \* each worker's flags
          task,       \* the task a worker has popped
          got,        \* tasks taken off a queue or a ring, not published yet
          target,     \* whom a worker steals from next
          left,       \* how many more it tries
          snap,       \* the Sync word loaded by notify_slow
          wake,       \* its can_wake
          spawn,      \* its can_spawn
          scan,       \* workers has_waiting_task() has yet to look at
          ret,        \* where a notify() returns to
          joinToken,  \* the pool's join_event has a notification
          release     \* workers whose own join_event has one

notifyVars == <<snap, wake, spawn, scan, ret>>
eventVars  == <<inside, token, closed>>
taskVars   == <<queue, holder, buf, fresh, done>>
popVars    == <<task, got, target, left>>
joinVars   == <<joinToken, release>>
vars == <<sync, allowed, threads, pc, isWaking, isIdle, notifyVars, eventVars, taskVars, popVars,
          joinVars, keepsSpare>>

event == INSTANCE TokenEvent WITH Waiters <- Workers

Threads == Workers \cup Schedulers

NoSync == [idle |-> 0, spawned |-> 0, notified |-> FALSE, state |-> "Pending"]

Init == /\ keepsSpare \in SpareModes
        /\ sync = NoSync
        /\ allowed = Cardinality(Workers)
        /\ queue = {} /\ holder = None
        /\ threads = <<>>
        /\ event!TokenInit
        /\ buf = [w \in Workers |-> {}]
        /\ fresh = Tasks /\ done = {}
        /\ pc = [t \in Threads \cup {Owner} |-> IF t \in Workers THEN "unborn" ELSE "out"]
        /\ isWaking = [t \in Threads |-> FALSE]
        /\ isIdle = [w \in Workers |-> FALSE]
        /\ task = [w \in Workers |-> None]
        /\ got = [w \in Workers |-> {}]
        /\ target = [w \in Workers |-> None]
        /\ left = [w \in Workers |-> 0]
        /\ snap = [t \in Threads |-> NoSync]
        /\ wake = [t \in Threads |-> FALSE]
        /\ spawn = [t \in Threads |-> FALSE]
        /\ scan = [t \in Threads |-> <<>>]
        /\ ret = [t \in Threads |-> "out"]
        /\ joinToken = FALSE /\ release = {}

Goto(t, label) == pc' = [pc EXCEPT ![t] = label]

\* Other threads may borrow the pool until its owner begins to drop it.
Shared == pc[Owner] = "out"

-----------------------------------------------------------------------------
(* schedule(), and schedule_inside_thread_pool() from a task's callback *)

Schedule(s) == /\ pc[s] = "out" /\ Shared
               /\ \E batch \in SUBSET fresh :
                    /\ batch # {}
                    /\ queue' = queue \cup batch
                    /\ fresh' = fresh \ batch
               /\ Goto(s, "notify")
               /\ ret' = [ret EXCEPT ![s] = "out"]
               /\ UNCHANGED <<sync, allowed, threads, isWaking, isIdle, snap, wake, spawn, scan,
                              eventVars, holder, buf, done, popVars, joinVars, keepsSpare>>

ScheduleInside(w) == /\ pc[w] = "run"
                     /\ \E t \in fresh : /\ buf' = [buf EXCEPT ![w] = @ \cup {t}]
                                         /\ fresh' = fresh \ {t}
                     /\ Goto(w, "notify")
                     /\ ret' = [ret EXCEPT ![w] = "run"]
                     /\ UNCHANGED <<sync, allowed, threads, isWaking, isIdle, snap, wake, spawn,
                                    scan, eventVars, queue, holder, done, popVars, joinVars, keepsSpare>>

(* limit_threads() and allow_threads() *)

\* Its callers only lower the limit with it.
LimitThreads(s) == /\ pc[s] = "out" /\ Shared
                   /\ allowed' \in {n \in Limits : n < allowed}
                   /\ UNCHANGED <<sync, threads, pc, isWaking, isIdle, notifyVars, eventVars,
                                  taskVars, popVars, joinVars, keepsSpare>>

AllowThreads(s) == /\ pc[s] = "out" /\ Shared
                   /\ \E n \in Limits : allowed < n /\ allowed' = n
                   /\ Goto(s, "scanqueue")
                   /\ ret' = [ret EXCEPT ![s] = "out"]
                   /\ UNCHANGED <<sync, threads, isWaking, isIdle, snap, wake, spawn, scan,
                                  eventVars, taskVars, popVars, joinVars, keepsSpare>>

(* warm(): returns at the first thread the OS refuses *)

Warm(s) == /\ pc[s] \in {"out", "warm"} /\ Shared
           /\ IF sync.spawned < WarmTo
              THEN /\ sync' = [sync EXCEPT !.spawned = @ + 1]
                   /\ Goto(s, "spawn")
                   /\ ret' = [ret EXCEPT ![s] = "warm"]
              ELSE /\ pc[s] = "warm"
                   /\ Goto(s, "out")
                   /\ ret' = [ret EXCEPT ![s] = "out"]
                   /\ UNCHANGED sync
           /\ UNCHANGED <<allowed, threads, isWaking, isIdle, snap, wake, spawn, scan,
                          eventVars, taskVars, popVars, joinVars, keepsSpare>>

-----------------------------------------------------------------------------
(* has_waiting_task(), called by allow_threads() and by a waking thread's notify_slow() *)

Scanned(t, found) == /\ wake' = [wake EXCEPT ![t] = found]
                     /\ scan' = [scan EXCEPT ![t] = <<>>]
                     /\ Goto(t, IF isWaking[t] THEN "limit" ELSE IF found THEN "slow" ELSE "out")

ScanQueue(t) == /\ pc[t] = "scanqueue"
                /\ IF queue # {} \/ holder # None
                   THEN Scanned(t, TRUE)
                   ELSE IF threads = <<>>
                   THEN Scanned(t, FALSE)
                   ELSE /\ scan' = [scan EXCEPT ![t] = threads]
                        /\ Goto(t, "scanthread")
                        /\ UNCHANGED wake
                /\ UNCHANGED <<sync, allowed, threads, isWaking, isIdle, snap, spawn, ret,
                               eventVars, taskVars, popVars, joinVars, keepsSpare>>

ScanThread(t) == /\ pc[t] = "scanthread"
                 /\ IF buf[Head(scan[t])] # {}
                    THEN Scanned(t, TRUE)
                    ELSE IF Len(scan[t]) = 1
                    THEN Scanned(t, FALSE)
                    ELSE scan' = [scan EXCEPT ![t] = Tail(@)] /\ UNCHANGED <<pc, wake>>
                 /\ UNCHANGED <<sync, allowed, threads, isWaking, isIdle, snap, spawn, ret,
                                eventVars, taskVars, popVars, joinVars, keepsSpare>>

-----------------------------------------------------------------------------
(* notify() and notify_slow() *)

\* notify() is over; a worker that called it is not the waking one any more.
Forget(t) == /\ isWaking' = [isWaking EXCEPT ![t] = FALSE]
             /\ snap' = [snap EXCEPT ![t] = NoSync]
             /\ wake' = [wake EXCEPT ![t] = FALSE]
             /\ spawn' = [spawn EXCEPT ![t] = FALSE]

Leave(t) == /\ Goto(t, ret[t])
            /\ Forget(t)
            /\ UNCHANGED <<scan, ret>>

NotifyFast(t) == /\ pc[t] = "notify"
                 /\ IF ~isWaking[t] /\ sync.notified
                    THEN Leave(t)
                    ELSE Goto(t, "slow") /\ UNCHANGED <<isWaking, notifyVars>>
                 /\ UNCHANGED <<sync, allowed, threads, isIdle, eventVars, taskVars, popVars,
                                joinVars, keepsSpare>>

MustScan(t) == isWaking[t] /\ ~keepsSpare /\ ~sync.notified

\* Slip: no spare thread is kept, and nobody looks whether one is needed.
CanWakeToldOnly(t) == IF isWaking[t] THEN sync.notified ELSE sync.state = "Pending"

CanWake(t) == IF isWaking[t] THEN keepsSpare \/ sync.notified ELSE sync.state = "Pending"

SlowLoad(t) ==
    /\ pc[t] = "slow"
    /\ IF sync.state = "Shutdown"
       THEN Leave(t)
       ELSE /\ snap' = [snap EXCEPT ![t] = sync]
            /\ wake' = [wake EXCEPT ![t] = CanWake(t)]
            /\ Goto(t, IF MustScan(t) THEN "scanqueue" ELSE "limit")
            /\ UNCHANGED <<isWaking, spawn, scan, ret>>
    /\ UNCHANGED <<sync, allowed, threads, isIdle, eventVars, taskVars, popVars, joinVars,
                   keepsSpare>>

SlowLimit(t) ==
    /\ pc[t] = "limit"
    /\ LET canSpawn == snap[t].spawned < allowed
           nothing  == /\ ~(wake[t] /\ (snap[t].idle > 0 \/ canSpawn))
                       /\ ~isWaking[t] /\ snap[t].notified
       IN IF nothing
          THEN Leave(t)
          ELSE /\ spawn' = [spawn EXCEPT ![t] = canSpawn]
               /\ Goto(t, "cas")
               /\ UNCHANGED <<isWaking, snap, wake, scan, ret>>
    /\ UNCHANGED <<sync, allowed, threads, isIdle, eventVars, taskVars, popVars, joinVars,
                   keepsSpare>>

\* The three updates of the word.
ToWake(t)  == [snap[t] EXCEPT !.notified = TRUE, !.state = "Signaled"]
ToSpawn(t) == [ToWake(t) EXCEPT !.spawned = @ + 1]

ToPass(t) == [snap[t] EXCEPT !.notified = ~isWaking[t] \/ wake[t],
                             !.state = IF isWaking[t] THEN "Pending" ELSE @]

\* Slip: the waking state is kept when there is nobody to pass it on to.
SlowCasKeepsWaking(t) ==
    /\ pc[t] = "cas"
    /\ IF sync # snap[t]
       THEN Goto(t, "slow") /\ UNCHANGED <<sync, isWaking, notifyVars>>
       ELSE IF wake[t] /\ sync.idle > 0
       THEN sync' = ToWake(t) /\ Goto(t, "signal") /\ UNCHANGED <<isWaking, notifyVars>>
       ELSE IF wake[t] /\ spawn[t]
       THEN sync' = ToSpawn(t) /\ Goto(t, "spawn") /\ UNCHANGED <<isWaking, notifyVars>>
       ELSE sync' = [sync EXCEPT !.notified = TRUE] /\ Leave(t)
    /\ UNCHANGED <<allowed, threads, isIdle, eventVars, taskVars, popVars, joinVars,
                   keepsSpare>>

SlowCas(t) ==
    /\ pc[t] = "cas"
    /\ IF sync # snap[t]
       THEN Goto(t, "slow") /\ UNCHANGED <<sync, isWaking, notifyVars>>
       ELSE IF wake[t] /\ sync.idle > 0
       THEN sync' = ToWake(t) /\ Goto(t, "signal") /\ UNCHANGED <<isWaking, notifyVars>>
       ELSE IF wake[t] /\ spawn[t]
       THEN sync' = ToSpawn(t) /\ Goto(t, "spawn") /\ UNCHANGED <<isWaking, notifyVars>>
       ELSE sync' = ToPass(t) /\ Leave(t)
    /\ UNCHANGED <<allowed, threads, isIdle, eventVars, taskVars, popVars, joinVars,
                   keepsSpare>>

\* Slip: the token is not posted.
SignalNobody(t) == /\ pc[t] = "signal"
                   /\ Leave(t)
                   /\ UNCHANGED <<sync, allowed, threads, isIdle, eventVars, taskVars,
                                  popVars, joinVars, keepsSpare>>

\* idle_event.notify(), a no-op on a closed event.
Signal(t) == /\ pc[t] = "signal"
             /\ IF closed THEN UNCHANGED eventVars ELSE event!Notify
             /\ Leave(t)
             /\ UNCHANGED <<sync, allowed, threads, isIdle, taskVars, popVars, joinVars,
                            keepsSpare>>

\* The new thread starts in Thread::run().
Spawn(t) == /\ pc[t] = "spawn"
            /\ \E w \in Workers :
                 /\ pc[w] = "unborn"
                 /\ pc' = [pc EXCEPT ![t] = ret[t], ![w] = "register"]
            /\ Forget(t)
            /\ UNCHANGED <<sync, allowed, threads, isIdle, scan, ret, eventVars, taskVars,
                           popVars, joinVars, keepsSpare>>

\* Slip: the thread that was refused stays counted.
SpawnFailsCounted(t) == /\ pc[t] = "spawn" /\ MayRefuse
                        /\ pc' = [pc EXCEPT ![t] = IF t \in Workers THEN ret[t] ELSE "out"]
                        /\ Forget(t)
                        /\ UNCHANGED <<sync, allowed, threads, isIdle, scan, ret, eventVars, taskVars,
                                       popVars, joinVars, keepsSpare>>

\* The OS refuses the thread: unregister(None).  The caller's borrow, or its own
\* count in spawned, keeps this from being the last thread of a pool shut down.
SpawnFails(t) == /\ pc[t] = "spawn" /\ MayRefuse
                 /\ sync' = [sync EXCEPT !.spawned = @ - 1]
                 /\ pc' = [pc EXCEPT ![t] = IF t \in Workers THEN ret[t] ELSE "out"]
                 /\ Forget(t)
                 /\ UNCHANGED <<allowed, threads, isIdle, scan, ret, eventVars, taskVars,
                                popVars, joinVars, keepsSpare>>

-----------------------------------------------------------------------------
(* Thread::run() and wait() *)

Register(w) == /\ pc[w] = "register"
               /\ threads' = <<w>> \o threads
               /\ Goto(w, "wait")
               /\ UNCHANGED <<sync, allowed, isWaking, isIdle, notifyVars, eventVars, taskVars,
                              popVars, joinVars, keepsSpare>>

WaitConsume(w) ==
    /\ pc[w] = "wait" /\ sync.state # "Shutdown" /\ sync.notified
    /\ sync' = [sync EXCEPT !.notified = FALSE,
                            !.idle = IF isIdle[w] THEN @ - 1 ELSE @,
                            !.state = IF @ = "Signaled" THEN "Waking" ELSE @]
    /\ isWaking' = [isWaking EXCEPT ![w] = @ \/ sync.state = "Signaled"]
    /\ isIdle' = [isIdle EXCEPT ![w] = FALSE]
    /\ Goto(w, "pop")
    /\ UNCHANGED <<allowed, threads, notifyVars, eventVars, taskVars, popVars, joinVars,
                   keepsSpare>>

\* Counted in, it goes to sleep without another look at the word.
WaitIdle(w) ==
    /\ pc[w] = "wait" /\ sync.state # "Shutdown" /\ ~sync.notified /\ ~isIdle[w]
    /\ sync' = [sync EXCEPT !.idle = @ + 1,
                            !.state = IF isWaking[w] THEN "Pending" ELSE @]
    /\ isWaking' = [isWaking EXCEPT ![w] = FALSE]
    /\ isIdle' = [isIdle EXCEPT ![w] = TRUE]
    /\ Goto(w, "sleep")
    /\ UNCHANGED <<allowed, threads, notifyVars, eventVars, taskVars, popVars, joinVars,
                   keepsSpare>>

\* Back from a sleep with no notification to take.
WaitSleep(w) ==
    /\ pc[w] = "wait" /\ sync.state # "Shutdown" /\ ~sync.notified /\ isIdle[w]
    /\ Goto(w, "sleep")
    /\ UNCHANGED <<sync, allowed, threads, isWaking, isIdle, notifyVars, eventVars, taskVars,
                   popVars, joinVars, keepsSpare>>

SleepEnter(w) ==
    /\ pc[w] = "sleep"
    /\ IF closed THEN Goto(w, "wait") /\ UNCHANGED eventVars
                 ELSE Goto(w, "asleep") /\ event!Come(w)
    /\ UNCHANGED <<sync, allowed, threads, isWaking, isIdle, notifyVars, taskVars, popVars,
                   joinVars, keepsSpare>>

SleepLeave(w) ==
    /\ pc[w] = "asleep"
    /\ event!Take(w) \/ event!TurnedAway(w)
    /\ Goto(w, "wait")
    /\ UNCHANGED <<sync, allowed, threads, isWaking, isIdle, notifyVars, taskVars, popVars,
                   joinVars, keepsSpare>>

-----------------------------------------------------------------------------
(* Thread::pop() *)

\* With a task in hand, a worker that moved more to its ring, or is waking, notifies.
Popped(w, pushed) == /\ Goto(w, IF pushed \/ isWaking[w] THEN "notify" ELSE "run")
                     /\ ret' = [ret EXCEPT ![w] = "run"]

\* A ring that the worker's overflow queue refilled counts as pushed.
PopRing(w) ==
    /\ pc[w] = "pop"
    /\ IF buf[w] = {}
       THEN Goto(w, "popqueue") /\ UNCHANGED <<buf, task, ret>>
       ELSE /\ \E t \in buf[w] : /\ buf' = [buf EXCEPT ![w] = @ \ {t}]
                                 /\ task' = [task EXCEPT ![w] = t]
            /\ \E refilled \in {FALSE, buf'[w] # {}} : Popped(w, refilled)
    /\ UNCHANGED <<sync, allowed, threads, isWaking, isIdle, snap, wake, spawn, scan, eventVars,
                   queue, holder, fresh, done, got, target, left, joinVars, keepsSpare>>

\* consume(&run_queue): a queue that is empty or has a consumer is passed over.
PopQueue(w) ==
    /\ pc[w] = "popqueue"
    /\ IF queue # {} /\ holder = None
       THEN holder' = w /\ Goto(w, "grab") /\ UNCHANGED left
       ELSE /\ left' = [left EXCEPT ![w] = sync.spawned]
            /\ Goto(w, "steal")
            /\ UNCHANGED holder
    /\ UNCHANGED <<sync, allowed, threads, isWaking, isIdle, notifyVars, eventVars,
                   queue, buf, fresh, done, task, got, target, joinVars, keepsSpare>>

\* Tasks up to a full ring and one more.
Grab(w) ==
    /\ pc[w] = "grab"
    /\ \E batch \in SUBSET queue :
         /\ batch = queue \/ Cardinality(batch) = Capacity + 1
         /\ Cardinality(batch) <= Capacity + 1
         /\ queue' = queue \ batch
         /\ got' = [got EXCEPT ![w] = batch]
    /\ Goto(w, "publish")
    /\ UNCHANGED <<sync, allowed, threads, isWaking, isIdle, notifyVars, eventVars,
                   holder, buf, fresh, done, task, target, left, joinVars, keepsSpare>>

\* One is returned, the rest go to the ring, and the queue's consumer is released.
Publish(w) ==
    /\ pc[w] = "publish"
    /\ \E t \in got[w] : /\ task' = [task EXCEPT ![w] = t]
                         /\ buf' = [buf EXCEPT ![w] = got[w] \ {t}]
    /\ holder' = IF holder = w THEN None ELSE holder
    /\ got' = [got EXCEPT ![w] = {}]
    /\ Popped(w, Cardinality(got[w]) > 1)
    /\ UNCHANGED <<sync, allowed, threads, isWaking, isIdle, snap, wake, spawn, scan, eventVars,
                   queue, fresh, done, target, left, joinVars, keepsSpare>>

Index(w) == CHOOSE i \in 1 .. Len(threads) : threads[i] = w
NextOf(w) == IF Index(w) = Len(threads) THEN None ELSE threads[Index(w) + 1]

\* One round of the stealing loop: what consume() takes of the target's overflow
\* queue, or half of its ring, is no more than a full ring and one.
Steal(w) ==
    /\ pc[w] = "steal" /\ left[w] > 0
    /\ LET v == IF target[w] = None THEN threads[1] ELSE target[w]
       IN /\ target' = [target EXCEPT ![w] = NextOf(v)]
          /\ IF v = w \/ buf[v] = {}
             THEN left' = [left EXCEPT ![w] = @ - 1] /\ UNCHANGED <<pc, buf, got>>
             ELSE /\ \E batch \in SUBSET buf[v] :
                       /\ batch # {} /\ Cardinality(batch) <= Capacity + 1
                       /\ buf' = [buf EXCEPT ![v] = @ \ batch]
                       /\ got' = [got EXCEPT ![w] = batch]
                  /\ left' = [left EXCEPT ![w] = 0]
                  /\ Goto(w, "publish")
    /\ UNCHANGED <<sync, allowed, threads, isWaking, isIdle, notifyVars, eventVars,
                   queue, holder, fresh, done, task, joinVars, keepsSpare>>

\* Nothing found; a worker that is the waking one stays so in wait().
PopNone(w) ==
    /\ pc[w] = "steal" /\ left[w] = 0
    /\ Goto(w, "wait")
    /\ UNCHANGED <<sync, allowed, threads, isWaking, isIdle, notifyVars, eventVars, taskVars,
                   popVars, joinVars, keepsSpare>>

\* The callback returns.
RunTask(w) ==
    /\ pc[w] = "run"
    /\ done' = done \cup {task[w]}
    /\ task' = [task EXCEPT ![w] = None]
    /\ Goto(w, "pop")
    /\ UNCHANGED <<sync, allowed, threads, isWaking, isIdle, notifyVars, eventVars,
                   queue, holder, buf, fresh, got, target, left, joinVars, keepsSpare>>

-----------------------------------------------------------------------------
(* Drop: shutdown() and join() by the owner, unregister() by each worker *)

Shutdown ==
    /\ pc[Owner] = "out" /\ MayDrop
    /\ \A s \in Schedulers : pc[s] = "out"
    /\ sync' = [sync EXCEPT !.notified = TRUE, !.state = "Shutdown", !.idle = 0]
    /\ Goto(Owner, IF sync.idle > 0 THEN "close" ELSE "join")
    /\ UNCHANGED <<allowed, threads, isWaking, isIdle, notifyVars, eventVars, taskVars, popVars,
                   joinVars, keepsSpare>>

CloseEvent ==
    /\ pc[Owner] = "close"
    /\ event!Close
    /\ Goto(Owner, "join")
    /\ UNCHANGED <<sync, allowed, threads, isWaking, isIdle, notifyVars, taskVars, popVars,
                   joinVars, keepsSpare>>

\* Wait unless the last worker has gone already.
Join ==
    /\ pc[Owner] = "join"
    /\ Goto(Owner, IF sync.spawned = 0 THEN "first" ELSE "joinwait")
    /\ UNCHANGED <<sync, allowed, threads, isWaking, isIdle, notifyVars, eventVars, taskVars,
                   popVars, joinVars, keepsSpare>>

JoinWait ==
    /\ pc[Owner] = "joinwait" /\ joinToken
    /\ joinToken' = FALSE
    /\ Goto(Owner, "first")
    /\ UNCHANGED <<sync, allowed, threads, isWaking, isIdle, notifyVars, eventVars, taskVars,
                   popVars, release, keepsSpare>>

\* The first registered worker is released; then the pool's memory is gone.
ReleaseFirst ==
    /\ pc[Owner] = "first"
    /\ release' = release \cup (IF threads = <<>> THEN {} ELSE {threads[1]})
    /\ Goto(Owner, "freed")
    /\ UNCHANGED <<sync, allowed, threads, isWaking, isIdle, notifyVars, eventVars, taskVars,
                   popVars, joinToken, keepsSpare>>

\* wait() returns Err(Shutdown): the worker leaves run().
Exit(w) ==
    /\ pc[w] = "wait" /\ sync.state = "Shutdown"
    /\ Goto(w, "unregister")
    /\ UNCHANGED <<sync, allowed, threads, isWaking, isIdle, notifyVars, eventVars, taskVars,
                   popVars, joinVars, keepsSpare>>

\* Slip: off by one, the last worker does not tell the joiner.
UnregisterQuietly(w) ==
    /\ pc[w] = "unregister"
    /\ sync' = [sync EXCEPT !.spawned = @ - 1]
    /\ Goto(w, IF sync.spawned = 0 THEN "joinnotify" ELSE "held")
    /\ UNCHANGED <<allowed, threads, isWaking, isIdle, notifyVars, eventVars, taskVars, popVars,
                   joinVars, keepsSpare>>

Unregister(w) ==
    /\ pc[w] = "unregister"
    /\ sync' = [sync EXCEPT !.spawned = @ - 1]
    /\ Goto(w, IF sync.spawned = 1 THEN "joinnotify" ELSE "held")
    /\ UNCHANGED <<allowed, threads, isWaking, isIdle, notifyVars, eventVars, taskVars, popVars,
                   joinVars, keepsSpare>>

\* The last one wakes the joiner.
JoinNotify(w) ==
    /\ pc[w] = "joinnotify"
    /\ joinToken' = TRUE
    /\ Goto(w, "held")
    /\ UNCHANGED <<sync, allowed, threads, isWaking, isIdle, notifyVars, eventVars, taskVars,
                   popVars, release, keepsSpare>>

\* Each worker waits to be released and releases the next, off its own link.
Released(w) ==
    /\ pc[w] = "held" /\ w \in release
    /\ release' = (release \ {w}) \cup ({NextOf(w)} \ {None})
    /\ Goto(w, "gone")
    /\ UNCHANGED <<sync, allowed, threads, isWaking, isIdle, notifyVars, eventVars, taskVars,
                   popVars, joinToken, keepsSpare>>

-----------------------------------------------------------------------------
Notify(t) == \/ NotifyFast(t) \/ SlowLoad(t) \/ SlowLimit(t) \/ SlowCas(t)
             \/ Signal(t) \/ Spawn(t) \/ ScanQueue(t) \/ ScanThread(t)

Work(w) == \/ Register(w) \/ WaitConsume(w) \/ WaitIdle(w) \/ WaitSleep(w)
           \/ SleepEnter(w) \/ SleepLeave(w)
           \/ PopRing(w) \/ PopQueue(w) \/ Grab(w) \/ Publish(w) \/ Steal(w) \/ PopNone(w)
           \/ RunTask(w)

Retire(w) == Exit(w) \/ Unregister(w) \/ JoinNotify(w) \/ Released(w)

Drop == CloseEvent \/ Join \/ JoinWait \/ ReleaseFirst

Next == \/ \E t \in Threads : Notify(t) \/ SpawnFails(t)
        \/ \E w \in Workers : Work(w) \/ Retire(w) \/ ScheduleInside(w)
        \/ \E s \in Schedulers : Schedule(s) \/ LimitThreads(s) \/ AllowThreads(s) \/ Warm(s)
        \/ Shutdown \/ Drop

Spec == Init /\ [][Next]_vars

\* Calls go on, tasks return, and spawning a thread succeeds or fails.
Fairness == /\ \A t \in Threads : WF_vars(Notify(t) \/ SpawnFails(t))
            /\ \A w \in Workers : WF_vars(Work(w) \/ Retire(w))
            /\ \A s \in Schedulers : WF_vars(pc[s] = "warm" /\ Warm(s))
            /\ WF_vars(Drop)

-----------------------------------------------------------------------------
Alive == {w \in Workers : pc[w] \notin {"unborn", "joinnotify", "held", "gone"}}

SyncWords == [idle: 0 .. Cardinality(Workers), spawned: 0 .. Cardinality(Workers),
              notified: BOOLEAN, state: {"Pending", "Signaled", "Waking", "Shutdown"}]

\* The Sync word's fields stay in range, a queue's consumer is inside consume(), and
\* the idle event holds the workers that sleep.
TypeOK == /\ sync \in SyncWords
          /\ queue \subseteq Tasks /\ done \subseteq Tasks /\ fresh \subseteq Tasks
          /\ buf \in [Workers -> SUBSET Tasks]
          /\ got \in [Workers -> SUBSET Tasks]
          /\ holder = None \/ pc[holder] \in {"grab", "publish"}
          /\ inside = {w \in Workers : pc[w] = "asleep"}
          /\ \A t \in Threads : isWaking[t] => t \in Workers

\* The counts in the Sync word are the number of workers asleep or about to be, and
\* of workers started or being started, through failed spawns and shutdown.
CountsExact ==
    /\ TypeOK
    /\ sync.spawned = Cardinality(Alive) + Cardinality({t \in Threads : pc[t] = "spawn"})
    /\ sync.state # "Shutdown" => sync.idle = Cardinality({w \in Workers : isIdle[w]})

\* A thread that has the waking role, until it has passed it on.
Waking == {w \in Workers : isWaking[w] /\ pc[w] \notin {"signal", "spawn"}}

\* The debug_assert!s of wait() and notify_slow() hold, and the role is never lost:
\* while the word says that a thread is waking exactly one is.
OneWaking ==
    /\ Cardinality(Waking) <= 1
    /\ sync.state # "Shutdown" => (sync.state = "Waking" <=> Waking # {})

Waiting == queue \cup UNION {buf[w] : w \in Workers}

\* Nobody is in the middle of pop() or of a call into the pool: every worker runs a
\* callback or sleeps with no token to wake it.
Settled == /\ Shared /\ ~token
           /\ \A s \in Schedulers : pc[s] = "out"
           /\ \A w \in Workers : pc[w] \in {"unborn", "run", "asleep"}

\* While a task waits, not every worker of the pool sleeps.
NoStrandedTask ==
    Settled /\ Waiting # {} /\ Alive # {} => \E w \in Workers : pc[w] = "run"

InNotify == {"notify", "slow", "scanqueue", "scanthread", "limit", "cas", "signal", "spawn"}
Popping  == {"pop", "popqueue", "grab", "publish"}
Retiring == {"unregister", "joinnotify", "held", "gone"}
WorkerLabels == {"unborn", "register", "wait", "sleep", "asleep", "steal", "run"}
                  \cup Popping \cup InNotify \cup Retiring
Labels == WorkerLabels \cup {"out", "warm", "close", "join", "joinwait", "first", "freed"}

Registered == {threads[i] : i \in DOMAIN threads}

\* The variables that TypeOK leaves out.
LocalsOK == /\ allowed \in 0 .. Cardinality(Workers)
            /\ threads \in Seq(Workers)
            /\ holder \in Workers \cup {None}
            /\ token \in BOOLEAN /\ closed \in BOOLEAN
            /\ pc \in [Threads \cup {Owner} -> Labels]
            /\ isWaking \in [Threads -> BOOLEAN] /\ isIdle \in [Workers -> BOOLEAN]
            /\ task \in [Workers -> Tasks \cup {None}]
            /\ target \in [Workers -> Registered \cup {None}]
            /\ snap \in [Threads -> SyncWords]
            /\ wake \in [Threads -> BOOLEAN] /\ spawn \in [Threads -> BOOLEAN]
            /\ ret \in [Threads -> {"out", "run", "warm"}]

\* What holds of a worker where it stands: notify() returns it to the callback it is
\* about to run; the waking one is awake and not counted idle, one that sleeps is; and
\* only a worker that is about to look at its own ring again has tasks in it.
WorkerPlaced(w) ==
    /\ pc[w] \in WorkerLabels
    /\ pc[w] \in InNotify => ret[w] = "run"
    /\ pc[w] \in InNotify \cup {"run"} => task[w] \in Tasks
    /\ pc[w] \notin {"unborn", "register"} => w \in Registered
    /\ isWaking[w] => pc[w] \notin {"unborn", "register", "sleep", "asleep"} /\ ~isIdle[w]
    /\ pc[w] \in {"scanqueue", "scanthread"} => isWaking[w]
    /\ pc[w] \in {"sleep", "asleep"} => isIdle[w]
    /\ buf[w] # {} => pc[w] \in InNotify \cup {"pop", "run"}

\* What notify_slow() has computed where it acts on it.
SlowLocals(t) ==
    /\ snap[t].state # "Shutdown"
    /\ pc[t] = "cas" /\ spawn[t] => snap[t].spawned < Cardinality(Workers)
    /\ pc[t] \in {"limit", "cas"} /\ ~isWaking[t] => (wake[t] <=> snap[t].state = "Pending")

\* Shutdown is what the owner does, last, and a signal is a notification.
StateExact ==
    /\ Shared <=> sync.state # "Shutdown"
    /\ sync.state # "Shutdown" => ~closed /\ \A w \in Workers : pc[w] \notin Retiring
    /\ sync.state = "Signaled" => sync.notified

\* While the queue has tasks somebody will look at it: a worker that will pop again, a
\* notification that a worker must take first, or a scheduler that will leave one.
QueueAttended ==
    sync.state # "Shutdown" /\ queue # {} =>
        \/ sync.notified
        \/ \E w \in Workers : pc[w] \in Popping \cup InNotify \cup {"run"}
        \/ \E s \in Schedulers : \/ pc[s] \in {"notify", "slow", "cas"}
                                 \/ pc[s] = "limit" /\ ~snap[s].notified

\* A notification is not left to workers that all sleep.
NotificationHeard ==
    sync.state # "Shutdown" /\ sync.notified /\ Alive # {} =>
        \/ token
        \/ \E t \in Threads : pc[t] = "signal"
        \/ \E w \in Alive : pc[w] \notin {"sleep", "asleep"}

\* The inductive strengthening of CountsExact, OneWaking and NoStrandedTask.
PoolIInv == /\ LocalsOK /\ CountsExact /\ OneWaking /\ StateExact
            /\ \A w \in Workers : WorkerPlaced(w)
            /\ \A t \in Threads : SlowLocals(t)
            /\ QueueAttended /\ NotificationHeard
            /\ IsFiniteSet({t \in Threads : pc[t] = "spawn"})

\* While tasks wait and every worker there is runs a callback, the pool has as many
\* workers as it is allowed.
WaitingTaskGetsThread ==
    Settled /\ Waiting # {} /\ (\A w \in Alive : pc[w] = "run") => sync.spawned >= allowed

\* Pools whose spare thread stays awake keep that promise.  The limit is only used with
\* pools that have none, and a thread that is refused is not tried again.
SpareThreadKept == keepsSpare => WaitingTaskGetsThread

Full == sync.spawned = Cardinality(Workers)

\* t is in notify() and has not found that a notification was posted already.
Announcing(t) == \/ pc[t] \in {"notify", "slow"}
                 \/ pc[t] \in {"limit", "cas"} /\ ~snap[t].notified

\* A signal is on its way to a worker that has not looked at the word yet.
SignalHeard ==
    sync.state = "Signaled" => \/ token
                               \/ \E t \in Threads : pc[t] \in {"signal", "spawn"}
                               \/ \E w \in Workers : pc[w] \in {"register", "wait"}

\* The waking role ends with a worker that counts itself idle, or in a full pool; so
\* does a call that finds nobody waking.  From then on a task that waits has one of the
\* two, or a call into the pool that will see it.
TaskSeen ==
    sync.state = "Pending" =>
        /\ sync.notified => Full
        /\ Waiting # {} => \/ Full
                           \/ \E w \in Workers : isIdle[w]
                           \/ \E t \in Threads : Announcing(t)

\* A waking thread is not out of notify() before it has passed its role on, and the pool's
\* limit is the number of its workers.
SpareLocals ==
    /\ allowed = Cardinality(Workers)
    /\ \A t \in Threads :
          /\ pc[t] \notin {"scanqueue", "scanthread"}
          /\ pc[t] \in {"limit", "cas"} /\ isWaking[t] => wake[t]
          /\ pc[t] = "cas" /\ ~spawn[t] => snap[t].spawned = Cardinality(Workers)
    /\ \A w \in Workers : /\ isWaking[w] => pc[w] # "run"
                          /\ isIdle[w] => pc[w] \in {"wait", "sleep", "asleep"}

\* What SpareThreadKept needs besides PoolIInv.
SpareIInv == keepsSpare /\ sync.state # "Shutdown" => SpareLocals /\ SignalHeard /\ TaskSeen

\* A scheduled task runs, once the pool has a worker and unless it is dropped.
TasksRun == \A t \in Tasks : (t \notin fresh /\ Alive # {}) ~> (t \in done \/ ~Shared)

\* Dropping the pool ends every worker and returns.
DropReturns == ~Shared ~> (pc[Owner] = "freed" /\ \A w \in Workers : pc[w] \in {"unborn", "gone"})

\* The pool is not touched once join() has returned: a worker is by then waiting for
\* its own join_event, or done.
NoUseAfterFree ==
    pc[Owner] = "freed" => \A w \in Workers : pc[w] \in {"unborn", "held", "gone"}
=============================================================================
