-------------------------- MODULE ThreadPoolProofs --------------------------
(***************************************************************************)
(* The Sync word of ThreadPool.rs counts exactly, has one waking thread,   *)
(* and no task waits in a pool whose workers all sleep: for any number of  *)
(* workers, schedulers and tasks.  A pool that keeps a spare thread awake  *)
(* starts threads while tasks wait.                                        *)
(*                                                                         *)
(* The actions come in four groups, by who takes the step: a thread in     *)
(* notify(), a worker, a caller from outside the pool, the owner.  Each    *)
(* part of PoolIInv has one lemma per group.                               *)
(***************************************************************************)
EXTENDS ThreadPool, FiniteSetTheorems, TLAPS

-----------------------------------------------------------------------------
(* Types *)

LEMMA WorkersCount == Cardinality(Workers) \in Nat
BY ThreadPoolAssumption, FS_CardinalityType

LEMMA NoSyncTyped == NoSync \in SyncWords /\ NoSync.state = "Pending"
BY WorkersCount DEF NoSync, SyncWords

\* The list of workers only grows, and following it leads to registered workers.
LEMMA RegisterAdds ==
    ASSUME threads \in Seq(Workers), NEW w \in Workers, threads' = <<w>> \o threads
    PROVE  threads' \in Seq(Workers) /\ Registered' = Registered \cup {w}
<1>1. /\ threads' \in Seq(Workers) /\ Len(threads') = Len(threads) + 1
      /\ threads'[1] = w
      /\ \A i \in 1 .. Len(threads) : threads'[i + 1] = threads[i]
      /\ \A i \in 2 .. Len(threads) + 1 : threads'[i] = threads[i - 1]
      /\ DOMAIN threads = 1 .. Len(threads) /\ DOMAIN threads' = 1 .. Len(threads) + 1
      /\ Len(threads) \in Nat
  OBVIOUS
<1>2. Registered' \subseteq Registered \cup {w}
  <2>1. ASSUME NEW i \in 1 .. Len(threads) + 1 PROVE threads'[i] \in Registered \cup {w}
    <3>1. CASE i = 1
      BY <1>1, <3>1
    <3>2. CASE i # 1
      <4>1. i \in 2 .. Len(threads) + 1 /\ i - 1 \in 1 .. Len(threads)
        BY <1>1, <2>1, <3>2
      <4> QED
        BY <1>1, <4>1 DEF Registered
    <3> QED
      BY <3>1, <3>2
  <2> QED
    BY <1>1, <2>1 DEF Registered
<1>3. Registered \cup {w} \subseteq Registered'
  <2>1. ASSUME NEW i \in 1 .. Len(threads) PROVE threads[i] \in Registered'
    <3>1. i + 1 \in 1 .. Len(threads) + 1 /\ threads'[i + 1] = threads[i]
      BY <1>1, <2>1
    <3> QED
      BY <1>1, <3>1 DEF Registered
  <2>2. w \in Registered'
    BY <1>1 DEF Registered
  <2> QED
    BY <1>1, <2>1, <2>2 DEF Registered
<1> QED
  BY <1>1, <1>2, <1>3

LEMMA NextRegistered ==
    ASSUME threads \in Seq(Workers), NEW v \in Registered
    PROVE  v \in Workers /\ threads[1] \in Registered /\ NextOf(v) \in Registered \cup {None}
<1>1. DOMAIN threads = 1 .. Len(threads) /\ Len(threads) \in Nat
  OBVIOUS
<1>2. PICK i \in 1 .. Len(threads) : threads[i] = v
  BY <1>1 DEF Registered
<1>3. Index(v) \in 1 .. Len(threads)
  BY <1>2 DEF Index
<1>4. Index(v) # Len(threads) => Index(v) + 1 \in 1 .. Len(threads)
  BY <1>1, <1>3
<1>5. threads[1] \in Registered
  BY <1>1, <1>2 DEF Registered
<1> QED
  BY <1>1, <1>2, <1>4, <1>5 DEF NextOf, Registered

LEMMA NotifyLocals ==
    ASSUME LocalsOK, TypeOK, NEW t \in Threads, Notify(t) \/ SpawnFails(t)
    PROVE  LocalsOK'
<1>1. pc' \in [Threads \cup {Owner} -> Labels]
  BY DEF LocalsOK, Notify, SpawnFails, Spawn, NotifyFast, SlowLoad, SlowLimit, SlowCas,
         Signal, ScanQueue, ScanThread, Scanned, Leave, Goto, Labels, WorkerLabels, InNotify
<1>2. isWaking' \in [Threads -> BOOLEAN]
  BY DEF LocalsOK, Notify, SpawnFails, Spawn, NotifyFast, SlowLoad, SlowLimit, SlowCas,
         Signal, ScanQueue, ScanThread, Leave, Forget
<1>3. snap' \in [Threads -> SyncWords]
  BY NoSyncTyped, ZenonT(30) DEF LocalsOK, TypeOK, Notify, SpawnFails, Spawn, NotifyFast, SlowLoad,
     SlowLimit, SlowCas, Signal, ScanQueue, ScanThread, Leave, Forget, notifyVars
<1>4. spawn' \in [Threads -> BOOLEAN]
  <2>1. CASE SlowLimit(t)
    <3>1. (snap[t].spawned < allowed) \in BOOLEAN
      OBVIOUS
    <3>2. \E b \in BOOLEAN : spawn' = [spawn EXCEPT ![t] = b]
      BY <2>1, <3>1 DEF SlowLimit, Leave, Forget
    <3> QED
      BY <3>2 DEF LocalsOK
  <2>2. CASE ~SlowLimit(t)
    BY <2>2 DEF LocalsOK, Notify, SpawnFails, Spawn, NotifyFast, SlowLoad, SlowCas, Signal,
       ScanQueue, ScanThread, Leave, Forget, notifyVars
  <2> QED
    BY <2>1, <2>2
<1>5. wake' \in [Threads -> BOOLEAN]
  BY DEF LocalsOK, TypeOK, SyncWords, Notify, SpawnFails, Spawn, NotifyFast, SlowLoad, CanWake,
         SlowLimit, SlowCas, Signal, ScanQueue, ScanThread, Scanned, Leave, Forget,
         notifyVars
<1>6. ret' = ret
  BY DEF Notify, SpawnFails, Spawn, NotifyFast, SlowLoad, SlowLimit, SlowCas, Signal,
         ScanQueue, ScanThread, Leave, notifyVars
<1>7. /\ UNCHANGED <<allowed, threads, holder, isIdle, task, target>>
      /\ token' \in BOOLEAN /\ closed' \in BOOLEAN
  BY DEF LocalsOK, Notify, SpawnFails, Spawn, NotifyFast, SlowLoad, SlowLimit, SlowCas,
         Signal, ScanQueue, ScanThread, taskVars, popVars, eventVars, event!Notify
<1> QED
  BY <1>1, <1>2, <1>3, <1>4, <1>5, <1>6, <1>7 DEF LocalsOK, Registered

LEMMA WorkLocals ==
    ASSUME LocalsOK, TypeOK, NEW w \in Workers, WorkerPlaced(w),
           Work(w) \/ Retire(w) \/ ScheduleInside(w)
    PROVE  LocalsOK'
<1>0. w \in Threads
  BY DEF Threads
<1>1. pc' \in [Threads \cup {Owner} -> Labels]
  BY DEF LocalsOK, Work, Retire, ScheduleInside, Register, WaitConsume, WaitIdle, WaitSleep,
         SleepEnter, SleepLeave, PopRing, PopQueue, Grab, Publish, Steal, PopNone, RunTask,
         Exit, Unregister, JoinNotify, Released, Goto, Popped, Labels, WorkerLabels,
         InNotify, Popping, Retiring
<1>2. isWaking' \in [Threads -> BOOLEAN] /\ isIdle' \in [Workers -> BOOLEAN]
  BY <1>0 DEF LocalsOK, Work, Retire, ScheduleInside, Register, WaitConsume, WaitIdle,
     WaitSleep, SleepEnter, SleepLeave, PopRing, PopQueue, Grab, Publish, Steal, PopNone,
     RunTask, Exit, Unregister, JoinNotify, Released
<1>3. UNCHANGED <<allowed, snap, wake, spawn>> /\ ret' \in [Threads -> {"out", "run", "warm"}]
  BY <1>0 DEF LocalsOK, Work, Retire, ScheduleInside, Register, WaitConsume, WaitIdle,
     WaitSleep, SleepEnter, SleepLeave, PopRing, PopQueue, Grab, Publish, Steal, PopNone,
     RunTask, Exit, Unregister, JoinNotify, Released, Popped, notifyVars
<1>4. task' \in [Workers -> Tasks \cup {None}]
  <2>1. buf[w] \subseteq Tasks /\ got[w] \subseteq Tasks
    BY DEF TypeOK
  <2>2. task' = task \/ \E x \in Tasks \cup {None} : task' = [task EXCEPT ![w] = x]
    BY <2>1 DEF Work, Retire, ScheduleInside, Register, WaitConsume, WaitIdle, WaitSleep,
       SleepEnter, SleepLeave, PopRing, PopQueue, Grab, Publish, Steal, PopNone, RunTask,
       Exit, Unregister, JoinNotify, Released, popVars
  <2> QED
    BY <2>2 DEF LocalsOK
<1>8. holder' \in Workers \cup {None}
  BY DEF LocalsOK, TypeOK, Work, Retire, ScheduleInside, Register, WaitConsume, WaitIdle,
         WaitSleep, SleepEnter, SleepLeave, PopRing, PopQueue, Grab, Publish, Steal,
         PopNone, RunTask, Exit, Unregister, JoinNotify, Released, taskVars, popVars
<1>7. token' \in BOOLEAN /\ closed' \in BOOLEAN
  BY DEF LocalsOK, TypeOK, Work, Retire, ScheduleInside, Register, WaitConsume, WaitIdle,
         WaitSleep, SleepEnter, SleepLeave, PopRing, PopQueue, Grab, Publish, Steal,
         PopNone, RunTask, Exit, Unregister, JoinNotify, Released, taskVars, popVars,
         eventVars, event!Come, event!Take, event!TurnedAway
<1>5. threads' \in Seq(Workers) /\ Registered \subseteq Registered'
  <2>1. CASE Register(w)
    BY <2>1, RegisterAdds DEF Register, LocalsOK
  <2>2. CASE ~Register(w)
    <3>1. threads' = threads
      BY <2>2 DEF Work, Retire, ScheduleInside, WaitConsume, WaitIdle, WaitSleep,
         SleepEnter, SleepLeave, PopRing, PopQueue, Grab, Publish, Steal, PopNone, RunTask,
         Exit, Unregister, JoinNotify, Released
    <3> QED
      BY <3>1 DEF LocalsOK, Registered
  <2> QED
    BY <2>1, <2>2
<1>6. target' \in [Workers -> Registered \cup {None}]
  <2>1. CASE Steal(w)
    <3>1. w \in Registered
      BY <2>1 DEF Steal, WorkerPlaced
    <3>2. \A v \in Registered : NextOf(v) \in Registered \cup {None}
      BY NextRegistered DEF LocalsOK
    <3>3. threads[1] \in Registered
      BY <3>1, NextRegistered DEF LocalsOK
    <3> QED
      BY <2>1, <3>2, <3>3 DEF Steal, LocalsOK
  <2>2. CASE ~Steal(w)
    BY <2>2 DEF LocalsOK, Work, Retire, ScheduleInside, Register, WaitConsume, WaitIdle,
       WaitSleep, SleepEnter, SleepLeave, PopRing, PopQueue, Grab, Publish, PopNone,
       RunTask, Exit, Unregister, JoinNotify, Released, popVars
  <2> QED
    BY <2>1, <2>2
<1> QED
  BY <1>1, <1>2, <1>3, <1>4, <1>5, <1>6, <1>7, <1>8 DEF LocalsOK

LEMMA CallLocals ==
    ASSUME LocalsOK, NEW s \in Schedulers,
           Schedule(s) \/ LimitThreads(s) \/ AllowThreads(s) \/ Warm(s)
    PROVE  LocalsOK'
<1>1. s \in Threads
  BY DEF Threads
<1>2. pc' \in [Threads \cup {Owner} -> Labels] /\ ret' \in [Threads -> {"out", "run", "warm"}]
  BY <1>1 DEF LocalsOK, Schedule, LimitThreads, AllowThreads, Warm, Goto, notifyVars,
     Labels, WorkerLabels, InNotify
<1>3. allowed' \in 0 .. Cardinality(Workers)
  BY ThreadPoolAssumption, WorkersCount DEF LocalsOK, Schedule, LimitThreads, AllowThreads,
     Warm
<1> QED
  BY <1>2, <1>3 DEF LocalsOK, Schedule, LimitThreads, AllowThreads, Warm, Registered,
     notifyVars, eventVars, taskVars, popVars

LEMMA OwnerLocals ==
    ASSUME LocalsOK, Shutdown \/ Drop PROVE LocalsOK'
<1>1. pc' \in [Threads \cup {Owner} -> Labels]
  BY DEF LocalsOK, Shutdown, Drop, CloseEvent, Join, JoinWait, ReleaseFirst, Goto, Labels
<1>2. token' \in BOOLEAN /\ closed' \in BOOLEAN
  BY DEF LocalsOK, Shutdown, Drop, CloseEvent, Join, JoinWait, ReleaseFirst, eventVars,
         event!Close
<1> QED
  BY <1>1, <1>2 DEF LocalsOK, Shutdown, Drop, CloseEvent, Join, JoinWait, ReleaseFirst,
     Registered, notifyVars, eventVars, taskVars, popVars

-----------------------------------------------------------------------------
(* What the steps of one thread leave alone *)

\* A step of notify() changes its own thread's locals; spawn() starts another.
LEMMA NotifyAlone ==
    ASSUME LocalsOK, NEW t \in Threads, Notify(t) \/ SpawnFails(t)
    PROVE  /\ \A u \in (Threads \cup {Owner}) \ {t} :
                 \/ pc'[u] = pc[u]
                 \/ Spawn(t) /\ u \in Workers /\ pc[u] = "unborn" /\ pc'[u] = "register"
           /\ \A u \in Threads \ {t} : /\ isWaking'[u] = isWaking[u] /\ snap'[u] = snap[u]
                                       /\ wake'[u] = wake[u] /\ spawn'[u] = spawn[u]
           /\ UNCHANGED <<threads, isIdle, ret, inside, closed, queue, holder, buf, fresh, done,
                          task, got>>
<1>1. \A u \in (Threads \cup {Owner}) \ {t} :
         \/ pc'[u] = pc[u]
         \/ Spawn(t) /\ u \in Workers /\ pc[u] = "unborn" /\ pc'[u] = "register"
  BY DEF LocalsOK, Notify, SpawnFails, Spawn, NotifyFast, SlowLoad, SlowLimit, SlowCas,
         Signal, ScanQueue, ScanThread, Scanned, Leave, Goto
<1>2. \A u \in Threads \ {t} : /\ isWaking'[u] = isWaking[u] /\ snap'[u] = snap[u]
                               /\ wake'[u] = wake[u] /\ spawn'[u] = spawn[u]
  BY DEF LocalsOK, Notify, SpawnFails, Spawn, NotifyFast, SlowLoad, SlowLimit, SlowCas,
         Signal, ScanQueue, ScanThread, Scanned, Leave, Forget, notifyVars
<1>3. UNCHANGED <<threads, isIdle, ret, inside, closed, queue, holder, buf, fresh, done, task, got>>
  BY DEF Notify, SpawnFails, Spawn, NotifyFast, SlowLoad, SlowLimit, SlowCas, Signal,
         event!Notify, ScanQueue, ScanThread, Leave, notifyVars, eventVars, taskVars,
         popVars
<1> QED
  BY <1>1, <1>2, <1>3

\* A worker changes its own locals, and takes tasks from others' rings.
LEMMA WorkerAlone ==
    ASSUME LocalsOK, TypeOK, NEW w \in Workers, Work(w) \/ Retire(w) \/ ScheduleInside(w)
    PROVE  /\ \A u \in (Threads \cup {Owner}) \ {w} : pc'[u] = pc[u]
           /\ \A u \in Threads \ {w} : isWaking'[u] = isWaking[u] /\ ret'[u] = ret[u]
           /\ \A u \in Workers \ {w} : /\ isIdle'[u] = isIdle[u] /\ task'[u] = task[u]
                                       /\ buf'[u] \subseteq buf[u]
           /\ UNCHANGED <<snap, wake, spawn, closed>>
<1>0. w \in Threads
  BY DEF Threads
<1>1. \A u \in (Threads \cup {Owner}) \ {w} : pc'[u] = pc[u]
  BY DEF LocalsOK, Work, Retire, ScheduleInside, Register, WaitConsume, WaitIdle, WaitSleep,
         SleepEnter, SleepLeave, PopRing, PopQueue, Grab, Publish, Steal, PopNone, RunTask,
         Exit, Unregister, JoinNotify, Released, Goto, Popped
<1>2. \A u \in Threads \ {w} : isWaking'[u] = isWaking[u] /\ ret'[u] = ret[u]
  BY DEF LocalsOK, Work, Retire, ScheduleInside, Register, WaitConsume, WaitIdle, WaitSleep,
         SleepEnter, SleepLeave, PopRing, PopQueue, Grab, Publish, Steal, PopNone, RunTask,
         Exit, Unregister, JoinNotify, Released, Popped, notifyVars
<1>3. \A u \in Workers \ {w} : isIdle'[u] = isIdle[u] /\ task'[u] = task[u]
  BY DEF LocalsOK, Work, Retire, ScheduleInside, Register, WaitConsume, WaitIdle, WaitSleep,
         SleepEnter, SleepLeave, PopRing, PopQueue, Grab, Publish, Steal, PopNone, RunTask,
         Exit, Unregister, JoinNotify, Released, taskVars, popVars
<1>5. \A u \in Workers \ {w} : buf'[u] \subseteq buf[u]
  <2>1. CASE Steal(w)
    <3>1. buf' = buf \/ \E v, batch : buf' = [buf EXCEPT ![v] = @ \ batch]
      BY <2>1 DEF Steal
    <3> QED
      BY <3>1 DEF TypeOK
  <2>2. CASE ~Steal(w)
    <3>1. buf' = buf \/ \E x : buf' = [buf EXCEPT ![w] = x]
      BY <2>2 DEF Work, Retire, ScheduleInside, Register, WaitConsume, WaitIdle, WaitSleep,
         SleepEnter, SleepLeave, PopRing, PopQueue, Grab, Publish, PopNone, RunTask, Exit,
         Unregister, JoinNotify, Released, taskVars
    <3> QED
      BY <3>1 DEF TypeOK
  <2> QED
    BY <2>1, <2>2
<1>4. UNCHANGED <<snap, wake, spawn, closed>>
  BY DEF Work, Retire, ScheduleInside, Register, WaitConsume, WaitIdle, WaitSleep,
         SleepEnter, SleepLeave, PopRing, PopQueue, Grab, Publish, Steal, PopNone, RunTask,
         Exit, Unregister, JoinNotify, Released, notifyVars, eventVars, event!Come,
         event!Take, event!TurnedAway
<1> QED
  BY <1>1, <1>2, <1>3, <1>4, <1>5

\* A call from outside the pool changes its caller, the limit, the queue and the count.
LEMMA CallerAlone ==
    ASSUME LocalsOK, NEW s \in Schedulers,
           Schedule(s) \/ LimitThreads(s) \/ AllowThreads(s) \/ Warm(s)
    PROVE  /\ \A u \in (Threads \cup {Owner}) \ {s} : pc'[u] = pc[u]
           /\ \A u \in Threads \ {s} : ret'[u] = ret[u]
           /\ pc[s] \in {"out", "warm"}
           /\ pc'[s] \in {"out", "warm", "notify", "scanqueue", "spawn"}
           /\ UNCHANGED <<isWaking, snap, wake, spawn, threads, isIdle, eventVars, holder, buf,
                          done, task, got>>
<1>1. s \in Threads
  BY DEF Threads
<1>2. /\ \A u \in (Threads \cup {Owner}) \ {s} : pc'[u] = pc[u]
      /\ \A u \in Threads \ {s} : ret'[u] = ret[u]
      /\ pc[s] \in {"out", "warm"}
      /\ pc'[s] \in {"out", "warm", "notify", "scanqueue", "spawn"}
  BY <1>1 DEF LocalsOK, Schedule, LimitThreads, AllowThreads, Warm, Goto, notifyVars
<1> QED
  BY <1>2 DEF Schedule, LimitThreads, AllowThreads, Warm, notifyVars, taskVars, popVars

LEMMA OwnerAlone ==
    ASSUME LocalsOK, TypeOK, Shutdown \/ Drop
    PROVE  /\ \A u \in Threads : pc'[u] = pc[u]
           /\ pc[Owner] # "out" \/ (Shutdown /\ sync'.state = "Shutdown")
           /\ pc'[Owner] # "out"
           /\ UNCHANGED <<threads, isWaking, isIdle, notifyVars, inside, taskVars, popVars>>
<1>1. Owner \notin Threads
  BY ThreadPoolAssumption DEF Threads
<1>2. \A u \in Threads : pc'[u] = pc[u]
  BY <1>1 DEF LocalsOK, Shutdown, Drop, CloseEvent, Join, JoinWait, ReleaseFirst, Goto
<1>3. pc'[Owner] # "out"
  BY DEF LocalsOK, Shutdown, Drop, CloseEvent, Join, JoinWait, ReleaseFirst, Goto
<1>4. pc[Owner] # "out" \/ (Shutdown /\ sync'.state = "Shutdown")
  BY DEF TypeOK, SyncWords, Shutdown, Drop, CloseEvent, Join, JoinWait, ReleaseFirst
<1>5. UNCHANGED <<threads, isWaking, isIdle, notifyVars, inside, taskVars, popVars>>
  BY DEF Shutdown, Drop, CloseEvent, Join, JoinWait, ReleaseFirst, eventVars, event!Close
<1> QED
  BY <1>2, <1>3, <1>4, <1>5

-----------------------------------------------------------------------------
(* TypeOK *)

\* TypeOK but for the word.
Places == /\ queue \subseteq Tasks /\ done \subseteq Tasks /\ fresh \subseteq Tasks
          /\ buf \in [Workers -> SUBSET Tasks]
          /\ got \in [Workers -> SUBSET Tasks]
          /\ holder = None \/ pc[holder] \in {"grab", "publish"}
          /\ inside = {w \in Workers : pc[w] = "asleep"}
          /\ \A t \in Threads : isWaking[t] => t \in Workers

LEMMA NotifyPlaces ==
    ASSUME LocalsOK, TypeOK, NEW t \in Threads, Notify(t) \/ SpawnFails(t)
    PROVE  Places'
<1>1. pc[t] \in InNotify
  BY DEF Notify, SpawnFails, Spawn, NotifyFast, SlowLoad, SlowLimit, SlowCas, Signal,
         ScanQueue, ScanThread, InNotify
<1>2. pc'[t] \in InNotify \cup {"out", "run", "warm"}
  BY DEF LocalsOK, Notify, SpawnFails, Spawn, NotifyFast, SlowLoad, SlowLimit, SlowCas,
         Signal, ScanQueue, ScanThread, Scanned, Leave, Goto, InNotify
<1>3. isWaking'[t] => isWaking[t]
  BY DEF LocalsOK, Notify, SpawnFails, Spawn, NotifyFast, SlowLoad, SlowLimit, SlowCas,
         Signal, ScanQueue, ScanThread, Leave, Forget
<1>4. {w \in Workers : pc[w] = "asleep"}' = {w \in Workers : pc[w] = "asleep"}
  BY <1>1, <1>2, NotifyAlone DEF InNotify, Threads
<1>5. holder' = None \/ pc'[holder'] \in {"grab", "publish"}
  BY <1>1, <1>2, NotifyAlone DEF LocalsOK, TypeOK, InNotify, Threads
<1>6. \A u \in Threads : isWaking'[u] => u \in Workers
  BY <1>3, NotifyAlone DEF TypeOK
<1> QED
  BY <1>4, <1>5, <1>6, NotifyAlone DEF TypeOK, Places

LEMMA WorkerPlaces ==
    ASSUME LocalsOK, TypeOK, NEW w \in Workers, WorkerPlaced(w),
           Work(w) \/ Retire(w) \/ ScheduleInside(w)
    PROVE  Places'
<1>0. w \in Threads /\ None \notin Workers
  BY ThreadPoolAssumption DEF Threads
<1>1. queue' \subseteq Tasks /\ fresh' \subseteq Tasks
  BY DEF TypeOK, Work, Retire, ScheduleInside, Register, WaitConsume, WaitIdle, WaitSleep,
         SleepEnter, SleepLeave, PopRing, PopQueue, Grab, Publish, Steal, PopNone, RunTask,
         Exit, Unregister, JoinNotify, Released, taskVars
<1>2. done' \subseteq Tasks
  BY DEF TypeOK, WorkerPlaced, Work, Retire, ScheduleInside, Register, WaitConsume,
         WaitIdle, WaitSleep, SleepEnter, SleepLeave, PopRing, PopQueue, Grab, Publish,
         Steal, PopNone, RunTask, Exit, Unregister, JoinNotify, Released, taskVars
<1>3. buf' \in [Workers -> SUBSET Tasks] /\ got' \in [Workers -> SUBSET Tasks]
  <2>1. CASE Steal(w)
    <3>1. w \in Registered
      BY <2>1 DEF Steal, WorkerPlaced
    <3>2. threads[1] \in Workers /\ target[w] \in Workers \cup {None}
      BY <3>1, NextRegistered DEF LocalsOK
    <3>3. \/ UNCHANGED <<buf, got>>
          \/ \E v \in Workers : \E batch \in SUBSET buf[v] :
                /\ buf' = [buf EXCEPT ![v] = @ \ batch]
                /\ got' = [got EXCEPT ![w] = batch]
      BY <2>1, <3>2 DEF Steal
    <3> QED
      BY <3>3 DEF TypeOK
  <2>2. CASE Publish(w) \/ PopRing(w) \/ ScheduleInside(w)
    <3>1. buf' = buf \/ \E x \in SUBSET Tasks : buf' = [buf EXCEPT ![w] = x]
      BY <2>2 DEF Publish, PopRing, ScheduleInside, TypeOK
    <3>2. got' = got \/ got' = [got EXCEPT ![w] = {}]
      BY <2>2 DEF Publish, PopRing, ScheduleInside, popVars
    <3> QED
      BY <3>1, <3>2 DEF TypeOK
  <2>3. CASE Grab(w)
    BY <2>3 DEF Grab, TypeOK
  <2>4. CASE ~(Steal(w) \/ Publish(w) \/ PopRing(w) \/ ScheduleInside(w) \/ Grab(w))
    BY <2>4 DEF TypeOK, Work, Retire, Register, WaitConsume, WaitIdle, WaitSleep,
       SleepEnter, SleepLeave, PopQueue, PopNone, RunTask, Exit, Unregister, JoinNotify,
       Released, taskVars, popVars
  <2> QED
    BY <2>1, <2>2, <2>3, <2>4
<1>4. holder' = None \/ pc'[holder'] \in {"grab", "publish"}
  <2>1. \/ holder' = holder /\ holder # w
        \/ holder' = holder /\ pc'[w] \in {"grab", "publish"}
        \/ holder' = w /\ pc'[w] = "grab"
        \/ holder' = None
    BY <1>0 DEF LocalsOK, TypeOK, Work, Retire, ScheduleInside, Register, WaitConsume,
       WaitIdle, WaitSleep, SleepEnter, SleepLeave, PopRing, PopQueue, Grab, Publish, Steal,
       PopNone, RunTask, Exit, Unregister, JoinNotify, Released, Goto, Popped, taskVars
  <2> QED
    BY <2>1, WorkerAlone DEF LocalsOK, TypeOK, Threads
<1>5. inside' = {u \in Workers : pc'[u] = "asleep"}
  <2>1. CASE SleepEnter(w) \/ SleepLeave(w)
    <3>1. \/ inside' = inside \cup {w} /\ pc'[w] = "asleep"
          \/ inside' = inside \ {w} /\ pc'[w] # "asleep"
          \/ inside' = inside /\ pc'[w] # "asleep" /\ pc[w] # "asleep"
      BY <1>0, <2>1 DEF LocalsOK, SleepEnter, SleepLeave, Goto, eventVars, event!Come,
         event!Take, event!TurnedAway
    <3> QED
      BY <3>1, WorkerAlone DEF TypeOK, Threads
  <2>2. CASE ~(SleepEnter(w) \/ SleepLeave(w))
    <3>1. inside' = inside /\ pc[w] # "asleep"
      BY <2>2 DEF Work, Retire, ScheduleInside, Register, WaitConsume, WaitIdle, WaitSleep,
         PopRing, PopQueue, Grab, Publish, Steal, PopNone, RunTask, Exit, Unregister,
         JoinNotify, Released, eventVars
    <3>2. pc'[w] # "asleep"
      BY <1>0, <2>2 DEF LocalsOK, Work, Retire, ScheduleInside, Register, WaitConsume,
         WaitIdle, WaitSleep, PopRing, PopQueue, Grab, Publish, Steal, PopNone, RunTask,
         Exit, Unregister, JoinNotify, Released, Goto, Popped
    <3> QED
      BY <3>1, <3>2, WorkerAlone DEF TypeOK, Threads
  <2> QED
    BY <2>1, <2>2
<1>6. \A u \in Threads : isWaking'[u] => u \in Workers
  BY WorkerAlone DEF TypeOK
<1> QED
  BY <1>1, <1>2, <1>3, <1>4, <1>5, <1>6 DEF Places

LEMMA CallerPlaces ==
    ASSUME LocalsOK, TypeOK, NEW s \in Schedulers,
           Schedule(s) \/ LimitThreads(s) \/ AllowThreads(s) \/ Warm(s)
    PROVE  Places'
<1>1. s \notin Workers /\ s \in Threads
  BY ThreadPoolAssumption DEF Threads
<1>2. queue' \subseteq Tasks /\ fresh' \subseteq Tasks
  BY DEF TypeOK, Schedule, LimitThreads, AllowThreads, Warm, taskVars
<1>3. \A u \in Workers : pc'[u] = pc[u]
  BY <1>1, CallerAlone DEF Threads
<1>4. holder' = None \/ pc'[holder'] \in {"grab", "publish"}
  BY <1>3, CallerAlone DEF LocalsOK, TypeOK
<1>5. inside' = {u \in Workers : pc'[u] = "asleep"}
  BY <1>3, CallerAlone DEF TypeOK, eventVars
<1> QED
  BY <1>2, <1>4, <1>5, CallerAlone DEF TypeOK, Places

LEMMA OwnerPlaces ==
    ASSUME LocalsOK, TypeOK, Shutdown \/ Drop
    PROVE  Places'
<1>1. \A u \in Workers : pc'[u] = pc[u]
  BY OwnerAlone DEF Threads
<1>2. holder' = None \/ pc'[holder'] \in {"grab", "publish"}
  BY <1>1, OwnerAlone DEF LocalsOK, TypeOK, taskVars
<1>3. inside' = {u \in Workers : pc'[u] = "asleep"}
  BY <1>1, OwnerAlone DEF TypeOK
<1> QED
  BY <1>2, <1>3, OwnerAlone DEF TypeOK, Places, taskVars, popVars

-----------------------------------------------------------------------------
(* Where the workers stand, and notify_slow()'s locals *)

\* What WorkerPlaced says of a worker survives the steps of others.
LEMMA PlacedFrame ==
    ASSUME NEW w, WorkerPlaced(w), Registered \subseteq Registered',
           pc'[w] = pc[w], ret'[w] = ret[w], task'[w] = task[w],
           isWaking'[w] = isWaking[w], isIdle'[w] = isIdle[w], buf'[w] \subseteq buf[w]
    PROVE  WorkerPlaced(w)'
BY DEF WorkerPlaced

\* A worker that calls notify() stays in it or returns to its callback.
LEMMA NotifyStays ==
    ASSUME LocalsOK, TypeOK, NEW t \in Workers, WorkerPlaced(t), Notify(t) \/ SpawnFails(t)
    PROVE  pc'[t] \in InNotify \cup {"run"} /\ t \in Alive'
<1>1. t \in Threads /\ t \in DOMAIN pc
  BY DEF LocalsOK, Threads
<1>2. pc[t] \in InNotify
  BY DEF Notify, SpawnFails, Spawn, NotifyFast, SlowLoad, SlowLimit, SlowCas, Signal,
         ScanQueue, ScanThread, InNotify
<1>3. ret[t] = "run"
  BY <1>2 DEF WorkerPlaced
<1>4. pc'[t] \in InNotify \cup {"run"}
  BY <1>1, <1>3 DEF WorkerPlaced, LocalsOK, Notify, SpawnFails, Spawn, NotifyFast, SlowLoad,
     SlowLimit, SlowCas, Signal, ScanQueue, ScanThread, Scanned, Leave, Goto, InNotify
<1> QED
  BY <1>4 DEF Alive, InNotify

LEMMA NotifyPlaced ==
    ASSUME LocalsOK, TypeOK, \A w \in Workers : WorkerPlaced(w),
           NEW t \in Threads, Notify(t) \/ SpawnFails(t)
    PROVE  \A w \in Workers : WorkerPlaced(w)'
<1>0. Registered' = Registered
  BY NotifyAlone DEF Registered
<1>1. ASSUME NEW w \in Workers, w # t PROVE WorkerPlaced(w)'
  <2>1. CASE pc'[w] = pc[w]
    BY <1>0, <1>1, <2>1, PlacedFrame, NotifyAlone DEF Threads
  <2>2. CASE pc[w] = "unborn" /\ pc'[w] = "register"
    BY <1>0, <1>1, <2>2, NotifyAlone DEF WorkerPlaced, WorkerLabels, InNotify, Threads
  <2> QED
    BY <1>1, <2>1, <2>2, NotifyAlone DEF Threads
<1>2. ASSUME t \in Workers PROVE WorkerPlaced(t)'
  <2>1. pc[t] \in InNotify
    BY DEF Notify, SpawnFails, Spawn, NotifyFast, SlowLoad, SlowLimit, SlowCas, Signal,
           ScanQueue, ScanThread, InNotify
  <2>2. WorkerPlaced(t)
    BY <1>2
  <2>3. ret[t] = "run" /\ task[t] \in Tasks /\ t \in Registered
    BY <2>1, <2>2 DEF WorkerPlaced, InNotify
  <2>4. pc'[t] \in InNotify \cup {"run"}
    BY <1>2, <2>2, NotifyStays
  <2>5. isWaking'[t] => isWaking[t]
    BY DEF LocalsOK, Notify, SpawnFails, Spawn, NotifyFast, SlowLoad, SlowLimit, SlowCas,
           Signal, ScanQueue, ScanThread, Leave, Forget
  <2>6. pc'[t] \in {"scanqueue", "scanthread"} => isWaking'[t]
    BY <2>2, <2>3 DEF WorkerPlaced, LocalsOK, Notify, SpawnFails, Spawn, NotifyFast,
       SlowLoad, SlowLimit, SlowCas, Signal, ScanQueue, ScanThread, Scanned, Leave, Goto,
       MustScan
  <2> QED
    BY <1>0, <2>1, <2>2, <2>3, <2>4, <2>5, <2>6, NotifyAlone DEF WorkerPlaced, InNotify,
       WorkerLabels
<1> QED
  BY <1>1, <1>2

LEMMA WorkPlaced ==
    ASSUME LocalsOK, TypeOK, \A v \in Workers : WorkerPlaced(v),
           NEW w \in Workers, Work(w) \/ Retire(w) \/ ScheduleInside(w)
    PROVE  \A v \in Workers : WorkerPlaced(v)'
<1>0. w \in Threads /\ WorkerPlaced(w) /\ w \in DOMAIN pc /\ w \in DOMAIN ret
  BY DEF Threads, LocalsOK
<1>1. /\ threads' \in Seq(Workers) /\ Registered \subseteq Registered'
      /\ Register(w) => w \in Registered'
  <2>1. CASE Register(w)
    BY <2>1, RegisterAdds DEF Register, LocalsOK
  <2>2. CASE ~Register(w)
    <3>1. threads' = threads
      BY <2>2 DEF Work, Retire, ScheduleInside, WaitConsume, WaitIdle, WaitSleep,
         SleepEnter, SleepLeave, PopRing, PopQueue, Grab, Publish, Steal, PopNone, RunTask,
         Exit, Unregister, JoinNotify, Released
    <3> QED
      BY <2>2, <3>1 DEF LocalsOK, Registered
  <2> QED
    BY <2>1, <2>2
<1>2. ASSUME NEW v \in Workers, v # w PROVE WorkerPlaced(v)'
  BY <1>1, <1>2, PlacedFrame, WorkerAlone DEF Threads
<1>3. WorkerPlaced(w)'
  <2>1. CASE Register(w) \/ WaitConsume(w) \/ WaitIdle(w) \/ WaitSleep(w)
    <3>1. UNCHANGED <<buf, task, ret>>
      BY <2>1 DEF Register, WaitConsume, WaitIdle, WaitSleep, taskVars, popVars, notifyVars
    <3>2. CASE Register(w)
      <4>1. pc'[w] = "wait" /\ pc[w] = "register" /\ UNCHANGED <<isWaking, isIdle>>
        BY <1>0, <3>2 DEF Register, Goto
      <4> QED
        BY <1>0, <1>1, <3>1, <3>2, <4>1 DEF WorkerPlaced, InNotify, WorkerLabels
    <3>3. CASE WaitConsume(w)
      <4>1. pc'[w] = "pop" /\ pc[w] = "wait" /\ isIdle'[w] = FALSE
        BY <1>0, <3>3 DEF WaitConsume, Goto, LocalsOK
      <4> QED
        BY <1>0, <1>1, <3>1, <4>1 DEF WorkerPlaced, InNotify, WorkerLabels, Popping
    <3>4. CASE WaitIdle(w)
      <4>1. pc'[w] = "sleep" /\ pc[w] = "wait" /\ isIdle'[w] = TRUE /\ isWaking'[w] = FALSE
        BY <1>0, <3>4 DEF WaitIdle, Goto, LocalsOK
      <4> QED
        BY <1>0, <1>1, <3>1, <4>1 DEF WorkerPlaced, InNotify, WorkerLabels
    <3>5. CASE WaitSleep(w)
      <4>1. pc'[w] = "sleep" /\ pc[w] = "wait" /\ isIdle[w] /\ UNCHANGED <<isWaking, isIdle>>
        BY <1>0, <3>5 DEF WaitSleep, Goto
      <4> QED
        BY <1>0, <1>1, <3>1, <4>1 DEF WorkerPlaced, InNotify, WorkerLabels
    <3> QED
      BY <2>1, <3>2, <3>3, <3>4, <3>5
  <2>2. CASE SleepEnter(w) \/ SleepLeave(w) \/ PopQueue(w) \/ Grab(w) \/ Steal(w) \/ PopNone(w)
             \/ Retire(w)
    <3>1. UNCHANGED <<task, ret, isWaking, isIdle>>
      BY <2>2 DEF SleepEnter, SleepLeave, PopQueue, Grab, Steal, PopNone, Retire, Exit,
         Unregister, JoinNotify, Released, popVars, notifyVars
    <3>2. buf[w] = {} /\ buf'[w] = {}
      <4>1. pc[w] \notin InNotify \cup {"pop", "run"}
        BY <2>2 DEF SleepEnter, SleepLeave, PopQueue, Grab, Steal, PopNone, Retire, Exit,
           Unregister, JoinNotify, Released, InNotify
      <4>2. buf[w] = {}
        BY <1>0, <4>1 DEF WorkerPlaced
      <4>3. buf' = buf \/ \E v, batch : buf' = [buf EXCEPT ![v] = @ \ batch]
        BY <2>2 DEF SleepEnter, SleepLeave, PopQueue, Grab, Steal, PopNone, Retire, Exit,
           Unregister, JoinNotify, Released, taskVars
      <4> QED
        BY <4>2, <4>3 DEF TypeOK
    <3>3. /\ pc[w] \in WorkerLabels \ ({"unborn", "register"} \cup InNotify)
          /\ pc'[w] \in WorkerLabels \ ({"unborn", "register", "run"} \cup InNotify)
          /\ pc'[w] = "asleep" => pc[w] = "sleep"
          /\ pc'[w] # "sleep"  \/ pc[w] = "sleep"
          /\ isWaking[w] => pc'[w] # "asleep"
      BY <1>0, <2>2 DEF WorkerPlaced, SleepEnter, SleepLeave, PopQueue, Grab, Steal,
         PopNone, Retire, Exit, Unregister, JoinNotify, Released, Goto, InNotify,
         WorkerLabels, Popping, Retiring
    <3> QED
      BY <1>0, <1>1, <3>1, <3>2, <3>3 DEF WorkerPlaced, InNotify, Popping
  <2>3. CASE PopRing(w) \/ Publish(w)
    <3>1. UNCHANGED <<isWaking, isIdle>> /\ pc[w] \in {"pop", "publish"}
      BY <2>3 DEF PopRing, Publish
    <3>2. \/ pc'[w] = "popqueue" /\ buf'[w] = {}
          \/ pc'[w] \in {"notify", "run"} /\ task'[w] \in Tasks /\ ret'[w] = "run"
      BY <1>0, <2>3 DEF PopRing, Publish, Popped, Goto, LocalsOK, TypeOK
    <3> QED
      BY <1>0, <1>1, <3>1, <3>2 DEF WorkerPlaced, InNotify, WorkerLabels, Popping
  <2>4. CASE RunTask(w) \/ ScheduleInside(w)
    <3>1. UNCHANGED <<isWaking, isIdle>> /\ pc[w] = "run"
      BY <2>4 DEF RunTask, ScheduleInside
    <3>2. \/ pc'[w] = "pop"
          \/ pc'[w] = "notify" /\ task' = task /\ ret'[w] = "run"
      BY <1>0, <2>4 DEF RunTask, ScheduleInside, Goto, LocalsOK, popVars
    <3> QED
      BY <1>0, <1>1, <3>1, <3>2 DEF WorkerPlaced, InNotify, WorkerLabels, Popping
  <2> QED
    BY <2>1, <2>2, <2>3, <2>4 DEF Work
<1> QED
  BY <1>2, <1>3

LEMMA CallPlaced ==
    ASSUME LocalsOK, TypeOK, \A v \in Workers : WorkerPlaced(v), NEW s \in Schedulers,
           Schedule(s) \/ LimitThreads(s) \/ AllowThreads(s) \/ Warm(s)
    PROVE  \A v \in Workers : WorkerPlaced(v)'
<1>1. s \notin Workers
  BY ThreadPoolAssumption
<1> QED
  BY <1>1, CallerAlone, PlacedFrame DEF Threads, Registered

LEMMA OwnerPlaced ==
    ASSUME LocalsOK, TypeOK, \A v \in Workers : WorkerPlaced(v), Shutdown \/ Drop
    PROVE  \A v \in Workers : WorkerPlaced(v)'
BY OwnerAlone, PlacedFrame DEF Threads, Registered, notifyVars, taskVars, popVars

LEMMA NotifySlow ==
    ASSUME LocalsOK, TypeOK, \A u \in Threads : SlowLocals(u),
           NEW t \in Threads, Notify(t) \/ SpawnFails(t)
    PROVE  \A u \in Threads : SlowLocals(u)'
<1>1. ASSUME NEW u \in Threads, u # t PROVE SlowLocals(u)'
  <2>1. /\ pc'[u] = pc[u] \/ pc'[u] = "register"
        /\ snap'[u] = snap[u] /\ spawn'[u] = spawn[u]
        /\ wake'[u] = wake[u] /\ isWaking'[u] = isWaking[u]
    BY <1>1, NotifyAlone DEF Threads
  <2> QED
    BY <1>1, <2>1 DEF SlowLocals
<1>2. SlowLocals(t)'
  <2>0. SlowLocals(t) /\ t \in DOMAIN pc
    BY DEF LocalsOK
  <2>1. CASE SlowLoad(t) /\ sync.state # "Shutdown"
    <3>1. /\ snap'[t] = sync /\ isWaking' = isWaking
          /\ pc'[t] \in {"scanqueue", "limit"}
          /\ wake'[t] = IF isWaking[t] THEN keepsSpare \/ sync.notified ELSE sync.state = "Pending"
      BY <2>0, <2>1 DEF SlowLoad, CanWake, Goto, LocalsOK
    <3> QED
      BY <2>1, <3>1 DEF SlowLocals
  <2>2. CASE SlowLimit(t) /\ pc'[t] = "cas"
    <3>0. ret[t] # "cas"
      BY DEF LocalsOK
    <3>1. /\ snap' = snap /\ wake' = wake /\ isWaking' = isWaking
          /\ spawn'[t] = (snap[t].spawned < allowed) /\ pc[t] = "limit"
      BY <2>0, <2>2, <3>0 DEF SlowLimit, Leave, Goto, LocalsOK
    <3>2. snap[t].spawned \in Nat /\ allowed \in 0 .. Cardinality(Workers)
      BY WorkersCount DEF LocalsOK, SyncWords
    <3>3. snap[t].spawned < allowed => snap[t].spawned < Cardinality(Workers)
      BY <3>2, WorkersCount
    <3>4. snap'[t] = snap[t] /\ wake'[t] = wake[t] /\ isWaking'[t] = isWaking[t]
      BY <3>1
    <3>5. spawn'[t] => snap[t].spawned < Cardinality(Workers)
      BY <3>1, <3>3
    <3> QED
      BY <2>0, <2>2, <3>1, <3>4, <3>5 DEF SlowLocals
  <2>3. CASE ScanQueue(t) \/ ScanThread(t)
    <3>1. /\ snap' = snap /\ isWaking' = isWaking
          /\ pc'[t] # "cas" /\ (pc'[t] = "limit" => isWaking[t])
      BY <2>0, <2>3 DEF ScanQueue, ScanThread, Scanned, Goto
    <3> QED
      BY <2>0, <3>1 DEF SlowLocals
  <2>4. CASE ~(SlowLoad(t) /\ sync.state # "Shutdown") /\ ~(SlowLimit(t) /\ pc'[t] = "cas")
             /\ ~(ScanQueue(t) \/ ScanThread(t))
    <3>1. snap'[t] = snap[t] \/ snap'[t] = NoSync
      BY <2>4 DEF LocalsOK, Notify, SpawnFails, Spawn, NotifyFast, SlowLoad, SlowLimit,
         SlowCas, Signal, Leave, Forget, Goto, notifyVars
    <3>2. pc'[t] \notin {"limit", "cas"}
      BY <2>0, <2>4 DEF LocalsOK, Notify, SpawnFails, Spawn, NotifyFast, SlowLoad,
         SlowLimit, SlowCas, Signal, Leave, Goto
    <3> QED
      BY <2>0, <3>1, <3>2, NoSyncTyped DEF SlowLocals
  <2> QED
    BY <2>1, <2>2, <2>3, <2>4
<1> QED
  BY <1>1, <1>2

LEMMA WorkSlow ==
    ASSUME LocalsOK, TypeOK, \A u \in Threads : SlowLocals(u),
           NEW w \in Workers, Work(w) \/ Retire(w) \/ ScheduleInside(w)
    PROVE  \A u \in Threads : SlowLocals(u)'
<1>1. pc'[w] \notin {"limit", "cas"}
  BY DEF LocalsOK, Threads, Work, Retire, ScheduleInside, Register, WaitConsume, WaitIdle,
         WaitSleep, SleepEnter, SleepLeave, PopRing, PopQueue, Grab, Publish, Steal,
         PopNone, RunTask, Exit, Unregister, JoinNotify, Released, Goto, Popped
<1> QED
  BY <1>1, WorkerAlone DEF SlowLocals, Threads

LEMMA CallSlow ==
    ASSUME LocalsOK, TypeOK, \A u \in Threads : SlowLocals(u), NEW s \in Schedulers,
           Schedule(s) \/ LimitThreads(s) \/ AllowThreads(s) \/ Warm(s)
    PROVE  \A u \in Threads : SlowLocals(u)'
BY CallerAlone DEF SlowLocals, Threads

LEMMA OwnerSlow ==
    ASSUME LocalsOK, TypeOK, \A u \in Threads : SlowLocals(u), Shutdown \/ Drop
    PROVE  \A u \in Threads : SlowLocals(u)'
BY OwnerAlone DEF SlowLocals, notifyVars

-----------------------------------------------------------------------------
(* Counting *)

Spawners == {t \in Threads : pc[t] = "spawn"}
Idle     == {w \in Workers : isIdle[w]}
NotAlive   == {"unborn", "joinnotify", "held", "gone"}

LEMMA SetsFinite ==
    /\ IsFiniteSet(Alive) /\ Cardinality(Alive) \in Nat
    /\ IsFiniteSet(Idle) /\ Cardinality(Idle) \in 0 .. Cardinality(Workers)
<1>1. Alive \subseteq Workers /\ Idle \subseteq Workers
  BY DEF Alive, Idle
<1>2. IsFiniteSet(Alive) /\ IsFiniteSet(Idle) /\ Cardinality(Idle) <= Cardinality(Workers)
  BY <1>1, FS_Subset, ThreadPoolAssumption
<1> QED
  BY <1>2, FS_CardinalityType, WorkersCount

\* A step that starts and ends nobody.
LEMMA SameAlive ==
    ASSUME NEW t \in Threads, \A u \in Threads \ {t} : pc'[u] = pc[u],
           t \in Workers => (pc[t] \in NotAlive <=> pc'[t] \in NotAlive)
    PROVE  Alive' = Alive
BY DEF Alive, NotAlive, Threads

LEMMA SameSpawners ==
    ASSUME NEW t \in Threads, \A u \in Threads \ {t} : pc'[u] = pc[u],
           pc[t] = "spawn" <=> pc'[t] = "spawn"
    PROVE  Spawners' = Spawners
BY DEF Spawners

\* The word's counts, as PoolIInv has them.
WordCounts == /\ sync \in SyncWords
              /\ IsFiniteSet(Spawners)
              /\ sync.spawned = Cardinality(Alive) + Cardinality(Spawners)
              /\ sync.state # "Shutdown" => sync.idle = Cardinality(Idle)

LEMMA SameCounts ==
    ASSUME WordCounts, Alive' = Alive, Spawners' = Spawners, Idle' = Idle,
           sync' \in SyncWords, sync'.spawned = sync.spawned, sync'.idle = sync.idle,
           sync.state = "Shutdown" => sync'.state = "Shutdown"
    PROVE  WordCounts'
BY DEF WordCounts

\* notify_slow()'s compare-exchange, where it succeeds.
LEMMA SlowCasCounts ==
    ASSUME LocalsOK, WordCounts, NEW t \in Threads, SlowLocals(t), SlowCas(t),
           t \in Workers => WorkerPlaced(t)
    PROVE  WordCounts'
<1>0. /\ t \in DOMAIN pc /\ pc[t] = "cas" /\ ret[t] \in {"out", "run", "warm"}
      /\ isWaking[t] \in BOOLEAN /\ wake[t] \in BOOLEAN
  BY DEF LocalsOK, SlowCas
<1>1. \A u \in Threads \ {t} : pc'[u] = pc[u]
  BY DEF LocalsOK, SlowCas, Leave, Goto
<1>2. pc'[t] \in {"slow", "signal", "spawn", "out", "run", "warm"}
  BY <1>0 DEF LocalsOK, SlowCas, Leave, Goto
<1>3. Alive' = Alive
  BY <1>0, <1>1, <1>2, SameAlive DEF NotAlive
<1>4. Idle' = Idle
  BY DEF SlowCas, Idle
<1>5. CASE pc'[t] # "spawn"
  <2>1. Spawners' = Spawners
    BY <1>0, <1>1, <1>5, SameSpawners
  <2>2. /\ sync' = sync \/ (sync = snap[t] /\ (sync' = ToWake(t) \/ sync' = ToPass(t)))
    BY <1>0, <1>5 DEF LocalsOK, SlowCas, Goto
  <2>3. /\ sync' \in SyncWords /\ sync'.spawned = sync.spawned /\ sync'.idle = sync.idle
        /\ sync.state = "Shutdown" => sync'.state = "Shutdown"
    BY <1>0, <2>2, ZenonT(30) DEF WordCounts, SyncWords, SlowLocals, ToWake, ToPass
  <2> QED
    BY <1>3, <1>4, <2>1, <2>3, SameCounts
\* It counts the thread that it is about to spawn.
<1>6. CASE pc'[t] = "spawn"
  <2>1. sync = snap[t] /\ spawn[t] /\ sync' = ToSpawn(t)
    BY <1>0, <1>6 DEF LocalsOK, SlowCas, Leave, Goto
  <2>2. sync.spawned < Cardinality(Workers)
    BY <1>0, <2>1 DEF SlowLocals
  <2>3. /\ sync' \in SyncWords /\ sync'.spawned = sync.spawned + 1 /\ sync'.idle = sync.idle
        /\ sync.state # "Shutdown"
    <3>1. snap[t].spawned + 1 \in 0 .. Cardinality(Workers)
      BY <2>1, <2>2, WorkersCount DEF WordCounts, SyncWords
    <3>2. snap[t] \in SyncWords /\ snap[t].state # "Shutdown"
      BY DEF LocalsOK, SlowLocals
    <3> QED
      BY <2>1, <3>1, <3>2 DEF SyncWords, ToSpawn, ToWake
  <2>4. t \notin Spawners /\ Spawners' = Spawners \cup {t}
    BY <1>0, <1>1, <1>6 DEF Spawners
  <2>5. IsFiniteSet(Spawners') /\ Cardinality(Spawners') = Cardinality(Spawners) + 1
        /\ Cardinality(Spawners) \in Nat
    BY <2>4, FS_AddElement, FS_CardinalityType DEF WordCounts
  <2> QED
    BY <1>3, <1>4, <2>3, <2>5, SetsFinite DEF WordCounts
<1> QED
  BY <1>5, <1>6

\* The new thread takes the place of the one that spawned it in the count.
LEMMA SpawnCounts ==
    ASSUME LocalsOK, WordCounts, NEW t \in Threads, Spawn(t)
    PROVE  WordCounts'
<1>1. PICK w \in Workers : pc[w] = "unborn" /\ pc' = [pc EXCEPT ![t] = ret[t], ![w] = "register"]
  BY DEF Spawn
<1>2. /\ pc[t] = "spawn" /\ t # w /\ w \in Threads /\ ret[t] \in {"out", "run", "warm"}
      /\ UNCHANGED <<sync, isIdle>>
  BY <1>1 DEF Spawn, LocalsOK, Threads
<1>3. /\ pc'[t] = ret[t] /\ pc'[w] = "register"
      /\ \A u \in Threads \ {t, w} : pc'[u] = pc[u]
  BY <1>1, <1>2 DEF LocalsOK
<1>4. w \notin Alive /\ Alive' = Alive \cup {w}
  BY <1>1, <1>2, <1>3 DEF Alive, Threads
<1>5. t \in Spawners /\ Spawners' = Spawners \ {t}
  BY <1>1, <1>2, <1>3 DEF Spawners
<1>6. Cardinality(Alive') = Cardinality(Alive) + 1
  BY <1>4, SetsFinite, FS_AddElement
<1>7. IsFiniteSet(Spawners') /\ Cardinality(Spawners') = Cardinality(Spawners) - 1
  BY <1>5, FS_RemoveElement DEF WordCounts
<1>8. Cardinality(Spawners) \in Nat /\ Cardinality(Alive) \in Nat
  BY SetsFinite, FS_CardinalityType DEF WordCounts
<1> QED
  BY <1>2, <1>6, <1>7, <1>8 DEF WordCounts, Idle

\* unregister() of a thread that the OS refused.
LEMMA SpawnFailsCounts ==
    ASSUME LocalsOK, WordCounts, NEW t \in Threads, SpawnFails(t)
    PROVE  WordCounts'
<1>1. /\ pc[t] = "spawn" /\ t \in DOMAIN pc /\ isIdle' = isIdle
      /\ pc'[t] \in {"out", "run", "warm"}
      /\ \A u \in Threads \ {t} : pc'[u] = pc[u]
      /\ sync' = [sync EXCEPT !.spawned = @ - 1]
  BY DEF SpawnFails, LocalsOK
<1>2. Alive' = Alive
  BY <1>1, SameAlive DEF NotAlive
<1>3. t \in Spawners /\ Spawners' = Spawners \ {t}
  BY <1>1 DEF Spawners
<1>4. IsFiniteSet(Spawners') /\ Cardinality(Spawners') = Cardinality(Spawners) - 1
  BY <1>3, FS_RemoveElement DEF WordCounts
<1>5. Cardinality(Spawners) \in Nat /\ Cardinality(Spawners') \in Nat /\ Cardinality(Alive) \in Nat
  BY <1>4, SetsFinite, FS_CardinalityType DEF WordCounts
<1>6. sync.spawned >= 1 /\ sync.spawned \in Nat /\ sync.spawned <= Cardinality(Workers)
  BY <1>4, <1>5, WorkersCount DEF WordCounts, SyncWords
<1>7. /\ sync' \in SyncWords /\ sync'.spawned = sync.spawned - 1
      /\ sync'.idle = sync.idle /\ sync'.state = sync.state
  BY <1>1, <1>6, WorkersCount DEF WordCounts, SyncWords
<1> QED
  BY <1>1, <1>2, <1>4, <1>5, <1>7 DEF WordCounts, Idle

LEMMA NotifyCounts ==
    ASSUME LocalsOK, WordCounts, NEW t \in Threads, SlowLocals(t), Notify(t) \/ SpawnFails(t),
           t \in Workers => WorkerPlaced(t)
    PROVE  WordCounts'
<1>1. CASE SlowCas(t)
  BY <1>1, SlowCasCounts
<1>2. CASE Spawn(t)
  BY <1>2, SpawnCounts
<1>3. CASE SpawnFails(t)
  BY <1>3, SpawnFailsCounts
<1>4. CASE \/ NotifyFast(t) \/ SlowLoad(t) \/ SlowLimit(t) \/ Signal(t)
           \/ ScanQueue(t) \/ ScanThread(t)
  <2>1. /\ pc[t] \in {"notify", "slow", "limit", "signal", "scanqueue", "scanthread"}
        /\ UNCHANGED <<sync, isIdle>> /\ ~Spawn(t)
    BY <1>4 DEF NotifyFast, SlowLoad, SlowLimit, Signal, ScanQueue, ScanThread, Spawn
  <2>2. pc'[t] \in {"slow", "scanqueue", "scanthread", "limit", "cas", "out", "run", "warm"}
    BY <1>4 DEF LocalsOK, NotifyFast, SlowLoad, SlowLimit, Signal, ScanQueue, ScanThread,
       Scanned, Leave, Goto
  <2>3. \A u \in Threads \ {t} : pc'[u] = pc[u]
    BY <2>1, NotifyAlone
  <2>4. Alive' = Alive /\ Spawners' = Spawners
    BY <2>1, <2>2, <2>3, SameAlive, SameSpawners DEF NotAlive
  <2> QED
    BY <2>1, <2>4, SameCounts DEF WordCounts, Idle
<1> QED
  BY <1>1, <1>2, <1>3, <1>4 DEF Notify

LEMMA WorkCounts ==
    ASSUME LocalsOK, TypeOK, WordCounts, NEW w \in Workers, WorkerPlaced(w),
           Work(w) \/ Retire(w) \/ ScheduleInside(w)
    PROVE  WordCounts'
<1>0. /\ w \in Threads /\ w \in DOMAIN pc
      /\ \A u \in Threads \ {w} : pc'[u] = pc[u]
      /\ isIdle \in [Workers -> BOOLEAN]
  BY WorkerAlone DEF LocalsOK, Threads
<1>1. pc[w] # "spawn" /\ pc'[w] # "spawn"
  BY <1>0 DEF Work, Retire, ScheduleInside, Register, WaitConsume, WaitIdle, WaitSleep,
     SleepEnter, SleepLeave, PopRing, PopQueue, Grab, Publish, Steal, PopNone, RunTask,
     Exit, Unregister, JoinNotify, Released, Goto, Popped, LocalsOK
<1>2. Spawners' = Spawners
  BY <1>0, <1>1, SameSpawners
<1>3. CASE Unregister(w)
  <2>1. /\ pc[w] = "unregister" /\ pc'[w] \in {"joinnotify", "held"} /\ isIdle' = isIdle
        /\ sync' = [sync EXCEPT !.spawned = @ - 1]
    BY <1>0, <1>3 DEF Unregister, Goto, LocalsOK
  <2>2. w \in Alive /\ Alive' = Alive \ {w}
    BY <1>0, <2>1 DEF Alive, Threads
  <2>3. Cardinality(Alive') = Cardinality(Alive) - 1 /\ IsFiniteSet(Alive')
    BY <2>2, SetsFinite, FS_RemoveElement, FS_Subset
  <2>4. Cardinality(Alive') \in Nat /\ Cardinality(Alive) \in Nat /\ Cardinality(Spawners) \in Nat
    BY <2>3, SetsFinite, FS_CardinalityType DEF WordCounts
  <2>5. sync.spawned >= 1 /\ sync.spawned \in Nat /\ sync.spawned <= Cardinality(Workers)
    BY <2>3, <2>4, WorkersCount DEF WordCounts, SyncWords
  <2>6. /\ sync' \in SyncWords /\ sync'.spawned = sync.spawned - 1
        /\ sync'.idle = sync.idle /\ sync'.state = sync.state
    BY <2>1, <2>5, WorkersCount DEF WordCounts, SyncWords
  <2> QED
    BY <1>2, <2>1, <2>3, <2>4, <2>6 DEF WordCounts, Idle
<1>4. CASE ~Unregister(w)
  <2>1. pc[w] \in NotAlive <=> pc'[w] \in NotAlive
    BY <1>0, <1>4 DEF Work, Retire, ScheduleInside, Register, WaitConsume, WaitIdle,
       WaitSleep, SleepEnter, SleepLeave, PopRing, PopQueue, Grab, Publish, Steal, PopNone,
       RunTask, Exit, JoinNotify, Released, Goto, Popped, LocalsOK, NotAlive
  <2>2. Alive' = Alive
    BY <1>0, <2>1, SameAlive
  <2>3. CASE WaitConsume(w) /\ isIdle[w]
    <3>1. /\ sync' = [sync EXCEPT !.notified = FALSE, !.idle = @ - 1,
                                  !.state = IF @ = "Signaled" THEN "Waking" ELSE @]
          /\ isIdle' = [isIdle EXCEPT ![w] = FALSE] /\ sync.state # "Shutdown"
      BY <2>3 DEF WaitConsume
    <3>2. w \in Idle /\ Idle' = Idle \ {w}
      BY <1>0, <2>3, <3>1 DEF Idle
    <3>3. Cardinality(Idle') = Cardinality(Idle) - 1 /\ IsFiniteSet(Idle')
      BY <3>2, SetsFinite, FS_RemoveElement, FS_Subset
    <3>4. sync.idle = Cardinality(Idle) /\ Cardinality(Idle') \in Nat /\ Cardinality(Idle) \in Nat
          /\ sync.idle <= Cardinality(Workers)
      BY <3>1, <3>3, SetsFinite, FS_CardinalityType, WorkersCount DEF WordCounts
    <3>5. sync' \in SyncWords /\ sync'.spawned = sync.spawned /\ sync'.idle = sync.idle - 1
      <4>1. sync.idle - 1 \in 0 .. Cardinality(Workers)
        BY <3>3, <3>4, WorkersCount
      <4>2. sync \in SyncWords
        BY DEF WordCounts
      <4> QED
        BY <3>1, <4>1, <4>2 DEF SyncWords
    <3> QED
      BY <1>2, <2>2, <3>3, <3>4, <3>5 DEF WordCounts
  <2>4. CASE WaitConsume(w) /\ ~isIdle[w]
    <3>1. /\ sync' = [sync EXCEPT !.notified = FALSE, !.idle = @,
                                  !.state = IF @ = "Signaled" THEN "Waking" ELSE @]
          /\ isIdle' = [isIdle EXCEPT ![w] = FALSE] /\ sync.state # "Shutdown"
      BY <2>4 DEF WaitConsume
    <3>2. Idle' = Idle
      BY <1>0, <2>4, <3>1 DEF Idle
    <3>3. sync' \in SyncWords /\ sync'.spawned = sync.spawned /\ sync'.idle = sync.idle
      BY <3>1 DEF WordCounts, SyncWords
    <3> QED
      BY <1>2, <2>2, <3>1, <3>2, <3>3, SameCounts
  <2>5. CASE WaitIdle(w)
    <3>1. /\ sync' = [sync EXCEPT !.idle = @ + 1, !.state = IF isWaking[w] THEN "Pending" ELSE @]
          /\ isIdle' = [isIdle EXCEPT ![w] = TRUE] /\ sync.state # "Shutdown" /\ ~isIdle[w]
      BY <2>5 DEF WaitIdle
    <3>2. w \notin Idle /\ Idle' = Idle \cup {w}
      BY <1>0, <2>5, <3>1 DEF Idle
    <3>3. Cardinality(Idle') = Cardinality(Idle) + 1
      BY <3>2, SetsFinite, FS_AddElement
    <3>4. Idle' \subseteq Workers /\ sync.idle = Cardinality(Idle) /\ Cardinality(Idle) \in Nat
      BY <3>1, SetsFinite, WorkersCount DEF WordCounts, Idle
    <3>5. Cardinality(Idle') <= Cardinality(Workers)
      BY <3>4, FS_Subset, ThreadPoolAssumption
    <3>6. sync' \in SyncWords /\ sync'.spawned = sync.spawned /\ sync'.idle = sync.idle + 1
      <4>1. sync.idle + 1 \in 0 .. Cardinality(Workers)
        BY <3>3, <3>4, <3>5, WorkersCount
      <4>2. sync \in SyncWords
        BY DEF WordCounts
      <4> QED
        BY <3>1, <4>1, <4>2 DEF SyncWords
    <3> QED
      BY <1>2, <2>2, <3>3, <3>4, <3>6 DEF WordCounts
  <2>6. CASE ~WaitConsume(w) /\ ~WaitIdle(w)
    <3>1. UNCHANGED <<sync, isIdle>>
      BY <1>4, <2>6 DEF Work, Retire, ScheduleInside, Register, WaitSleep, SleepEnter,
         SleepLeave, PopRing, PopQueue, Grab, Publish, Steal, PopNone, RunTask, Exit,
         JoinNotify, Released
    <3> QED
      BY <1>2, <2>2, <3>1, SameCounts DEF WordCounts, Idle
  <2> QED
    BY <2>3, <2>4, <2>5, <2>6
<1> QED
  BY <1>3, <1>4

LEMMA CallCounts ==
    ASSUME LocalsOK, TypeOK, WordCounts, NEW s \in Schedulers,
           Schedule(s) \/ LimitThreads(s) \/ AllowThreads(s) \/ Warm(s)
    PROVE  WordCounts'
<1>0. /\ s \in Threads /\ s \notin Workers /\ s \in DOMAIN pc
      /\ \A u \in Threads \ {s} : pc'[u] = pc[u]
      /\ pc[s] \in {"out", "warm"} /\ isIdle' = isIdle
  BY CallerAlone, ThreadPoolAssumption DEF LocalsOK, Threads
<1>1. Alive' = Alive /\ Idle' = Idle
  BY <1>0, SameAlive DEF Idle
<1>2. CASE pc'[s] = "spawn"
  <2>1. sync' = [sync EXCEPT !.spawned = @ + 1] /\ sync.spawned < WarmTo
    BY <1>0, <1>2 DEF Schedule, LimitThreads, AllowThreads, Warm, Goto, LocalsOK
  <2>2. s \notin Spawners /\ Spawners' = Spawners \cup {s}
    BY <1>0, <1>2 DEF Spawners
  <2>3. IsFiniteSet(Spawners') /\ Cardinality(Spawners') = Cardinality(Spawners) + 1
        /\ Cardinality(Spawners) \in Nat
    BY <2>2, FS_AddElement, FS_CardinalityType DEF WordCounts
  <2>4. /\ sync' \in SyncWords /\ sync'.spawned = sync.spawned + 1
        /\ sync'.idle = sync.idle /\ sync'.state = sync.state
    BY <2>1, WorkersCount, ThreadPoolAssumption DEF WordCounts, SyncWords
  <2> QED
    BY <1>1, <2>3, <2>4, SetsFinite DEF WordCounts
<1>3. CASE pc'[s] # "spawn"
  <2>1. sync' = sync
    BY <1>0, <1>3 DEF Schedule, LimitThreads, AllowThreads, Warm, Goto, LocalsOK
  <2>2. Spawners' = Spawners
    BY <1>0, <1>3, SameSpawners
  <2> QED
    BY <1>1, <2>1, <2>2, SameCounts DEF WordCounts
<1> QED
  BY <1>2, <1>3

LEMMA OwnerCounts ==
    ASSUME LocalsOK, TypeOK, WordCounts, Shutdown \/ Drop
    PROVE  WordCounts'
<1>1. Alive' = Alive /\ Spawners' = Spawners /\ Idle' = Idle
  BY OwnerAlone DEF Alive, Spawners, Idle, Threads
<1>2. \/ sync' = sync
      \/ sync' = [sync EXCEPT !.notified = TRUE, !.state = "Shutdown", !.idle = 0]
  BY DEF Shutdown, Drop, CloseEvent, Join, JoinWait, ReleaseFirst
<1>3. CASE sync' = sync
  BY <1>1, <1>3 DEF WordCounts
<1>4. CASE sync' = [sync EXCEPT !.notified = TRUE, !.state = "Shutdown", !.idle = 0]
  <2>1. 0 \in 0 .. Cardinality(Workers) /\ sync \in SyncWords
    BY WorkersCount DEF WordCounts
  <2>2. sync' \in SyncWords /\ sync'.spawned = sync.spawned /\ sync'.state = "Shutdown"
    BY <1>4, <2>1 DEF SyncWords
  <2> QED
    BY <1>1, <2>2 DEF WordCounts
<1> QED
  BY <1>2, <1>3, <1>4

-----------------------------------------------------------------------------
(* The waking role *)

\* OneWaking without the cardinality.
Role == /\ \A u, v \in Waking : u = v
        /\ sync.state # "Shutdown" => (sync.state = "Waking" <=> Waking # {})

LEMMA RoleIsOneWaking == Role <=> OneWaking
<1>1. IsFiniteSet(Waking)
  <2>1. Waking \subseteq Workers
    BY DEF Waking
  <2> QED
    BY <2>1, FS_Subset, ThreadPoolAssumption
<1>2. ASSUME \A u, v \in Waking : u = v PROVE Cardinality(Waking) <= 1
  <2>1. CASE Waking = {}
    BY <2>1, FS_EmptySet
  <2>2. CASE Waking # {}
    <3>1. PICK u : Waking = {u}
      BY <1>2, <2>2
    <3>2. Cardinality(Waking) = 1
      BY <3>1, FS_Singleton
    <3> QED
      BY <3>2
  <2> QED
    BY <2>1, <2>2
<1>3. ASSUME Cardinality(Waking) <= 1 PROVE \A u, v \in Waking : u = v
  <2>1. Cardinality(Waking) \in Nat
    BY <1>1, FS_CardinalityType
  <2>2. CASE Cardinality(Waking) = 0
    BY <1>1, <2>2, FS_EmptySet
  <2>3. CASE Cardinality(Waking) = 1
    BY <1>1, <2>3, FS_Singleton
  <2> QED
    BY <1>3, <2>1, <2>2, <2>3
<1> QED
  BY <1>2, <1>3 DEF Role, OneWaking

LEMMA NotifyRole ==
    ASSUME LocalsOK, TypeOK, Role, NEW t \in Threads, SlowLocals(t), Notify(t) \/ SpawnFails(t)
    PROVE  Role'
<1>0. t \in DOMAIN pc /\ isWaking[t] \in BOOLEAN /\ wake[t] \in BOOLEAN
      /\ ret[t] \in {"out", "run", "warm"}
  BY DEF LocalsOK
<1>1. \A u \in Workers \ {t} : u \in Waking' <=> u \in Waking
  BY NotifyAlone DEF Waking, Threads
\* t keeps its place, or gives the role away with the compare-exchange, or finds the
\* pool shut down.
<1>2. t \in Waking' => t \in Waking
  BY <1>0 DEF Waking, LocalsOK, Notify, SpawnFails, Spawn, NotifyFast, SlowLoad, SlowLimit,
     SlowCas, Signal, ScanQueue, ScanThread, Leave, Forget, Goto
<1>3. CASE SlowCas(t) /\ sync = snap[t]
  <2>1. pc[t] = "cas" /\ sync \in SyncWords /\ sync.state # "Shutdown"
    BY <1>3 DEF SlowCas, SlowLocals, TypeOK
  <2>2. t \notin Waking'
    BY <1>0, <1>3 DEF SlowCas, Leave, Forget, Goto, Waking, LocalsOK
  <2>3. sync' = ToWake(t) \/ sync' = ToSpawn(t) \/ sync' = ToPass(t)
    BY <1>3 DEF SlowCas
  <2>4. CASE isWaking[t]
    <3>1. t \in Workers /\ t \in Waking
      BY <2>1, <2>4 DEF TypeOK, Waking
    <3>2. Waking = {t}
      BY <3>1 DEF Role
    <3>3. Waking' = {}
      BY <1>1, <2>2, <3>2 DEF Waking
    <3>4. sync'.state # "Waking"
      BY <1>0, <1>3, <2>1, <2>3, <2>4 DEF ToWake, ToSpawn, ToPass, SyncWords
    <3> QED
      BY <3>3, <3>4 DEF Role
  <2>5. CASE ~isWaking[t]
    <3>1. t \notin Waking
      BY <2>5 DEF Waking
    <3>2. Waking' = Waking
      BY <1>1, <2>2, <3>1 DEF Waking
    <3>3. CASE sync' = ToPass(t)
      <4>1. sync'.state = sync.state
        BY <1>0, <1>3, <2>1, <2>5, <3>3 DEF ToPass, SyncWords
      <4> QED
        BY <3>2, <4>1 DEF Role
    <3>4. CASE sync' # ToPass(t)
      <4>1. wake[t]
        BY <1>3, <3>4 DEF SlowCas
      <4>2. sync.state = "Pending"
        BY <1>3, <2>1, <2>5, <4>1 DEF SlowLocals
      <4>3. Waking = {}
        BY <4>2 DEF Role
      <4>4. sync'.state = "Signaled"
        BY <1>3, <2>1, <2>3, <3>4 DEF ToWake, ToSpawn, SyncWords
      <4> QED
        BY <3>2, <4>3, <4>4 DEF Role
    <3> QED
      BY <3>3, <3>4
  <2> QED
    BY <2>4, <2>5
<1>4. CASE ~(SlowCas(t) /\ sync = snap[t])
  <2>1. sync'.state = sync.state
    BY <1>4 DEF TypeOK, SyncWords, Notify, SpawnFails, Spawn, NotifyFast, SlowLoad,
       SlowLimit, SlowCas, Signal, ScanQueue, ScanThread
  <2>2. t \in Waking => t \in Waking' \/ sync.state = "Shutdown"
    BY <1>0, <1>4 DEF Waking, LocalsOK, Notify, SpawnFails, Spawn, NotifyFast, SlowLoad,
       SlowLimit, SlowCas, Signal, ScanQueue, ScanThread, Scanned, Leave, Forget, Goto
  <2>3. Waking' \subseteq Waking /\ (Waking' = Waking \/ sync.state = "Shutdown")
    BY <1>1, <1>2, <2>2 DEF Waking
  <2> QED
    BY <2>1, <2>3 DEF Role
<1> QED
  BY <1>3, <1>4

LEMMA WorkRole ==
    ASSUME LocalsOK, TypeOK, Role, NEW w \in Workers, WorkerPlaced(w),
           Work(w) \/ Retire(w) \/ ScheduleInside(w)
    PROVE  Role'
<1>0. w \in Threads /\ w \in DOMAIN pc /\ w \in DOMAIN isWaking /\ isWaking[w] \in BOOLEAN
  BY DEF LocalsOK, Threads
<1>1. \A u \in Workers \ {w} : u \in Waking' <=> u \in Waking
  BY WorkerAlone DEF Waking, Threads
<1>2. pc[w] \notin {"signal", "spawn"} /\ pc'[w] \notin {"signal", "spawn"}
  BY <1>0 DEF Work, Retire, ScheduleInside, Register, WaitConsume, WaitIdle, WaitSleep,
     SleepEnter, SleepLeave, PopRing, PopQueue, Grab, Publish, Steal, PopNone, RunTask,
     Exit, Unregister, JoinNotify, Released, Goto, Popped, LocalsOK
\* A signal makes its taker the waking one; there was none.
<1>3. CASE WaitConsume(w) /\ sync.state = "Signaled"
  <2>1. isWaking'[w] /\ sync'.state = "Waking"
    BY <1>0, <1>3 DEF WaitConsume, TypeOK, SyncWords, LocalsOK
  <2>2. Waking = {}
    BY <1>3 DEF Role
  <2>3. Waking' = {w}
    BY <1>1, <1>2, <2>1, <2>2 DEF Waking
  <2> QED
    BY <2>1, <2>3 DEF Role
\* The waking one goes to sleep.
<1>4. CASE WaitIdle(w) /\ isWaking[w]
  <2>1. ~isWaking'[w] /\ sync'.state = "Pending"
    BY <1>0, <1>4 DEF WaitIdle, TypeOK, SyncWords, LocalsOK
  <2>2. Waking = {w}
    BY <1>2, <1>4 DEF Role, Waking
  <2>3. Waking' = {}
    BY <1>1, <2>1, <2>2 DEF Waking
  <2> QED
    BY <2>1, <2>3 DEF Role
<1>5. CASE ~(WaitConsume(w) /\ sync.state = "Signaled") /\ ~(WaitIdle(w) /\ isWaking[w])
  <2>1. sync'.state = sync.state
    BY <1>5 DEF TypeOK, SyncWords, Work, Retire, ScheduleInside, Register, WaitConsume,
       WaitIdle, WaitSleep, SleepEnter, SleepLeave, PopRing, PopQueue, Grab, Publish, Steal,
       PopNone, RunTask, Exit, Unregister, JoinNotify, Released
  <2>2. isWaking'[w] = isWaking[w]
    BY <1>0, <1>5 DEF LocalsOK, Work, Retire, ScheduleInside, Register, WaitConsume,
       WaitIdle, WaitSleep, SleepEnter, SleepLeave, PopRing, PopQueue, Grab, Publish, Steal,
       PopNone, RunTask, Exit, Unregister, JoinNotify, Released
  <2>3. Waking' = Waking
    BY <1>1, <1>2, <2>2 DEF Waking
  <2> QED
    BY <2>1, <2>3 DEF Role
<1> QED
  BY <1>3, <1>4, <1>5

LEMMA CallRole ==
    ASSUME LocalsOK, TypeOK, Role, NEW s \in Schedulers,
           Schedule(s) \/ LimitThreads(s) \/ AllowThreads(s) \/ Warm(s)
    PROVE  Role'
<1>1. s \notin Workers
  BY ThreadPoolAssumption
<1>2. Waking' = Waking
  BY <1>1, CallerAlone DEF Waking, Threads
<1>3. sync'.state = sync.state
  BY DEF Schedule, LimitThreads, AllowThreads, Warm, TypeOK, SyncWords
<1> QED
  BY <1>2, <1>3 DEF Role

LEMMA OwnerRole ==
    ASSUME LocalsOK, TypeOK, Role, Shutdown \/ Drop
    PROVE  Role'
<1>1. Waking' = Waking
  BY OwnerAlone DEF Waking, Threads
<1>2. sync' = sync \/ sync'.state = "Shutdown"
  BY DEF Shutdown, Drop, CloseEvent, Join, JoinWait, ReleaseFirst, TypeOK, SyncWords
<1> QED
  BY <1>1, <1>2 DEF Role

-----------------------------------------------------------------------------
LEMMA NotifyState ==
    ASSUME LocalsOK, TypeOK, StateExact, NEW t \in Threads, SlowLocals(t),
           t \in Workers => WorkerPlaced(t), Notify(t) \/ SpawnFails(t)
    PROVE  StateExact' /\ (sync'.state = "Shutdown" <=> sync.state = "Shutdown")
<1>0. t \in DOMAIN pc /\ isWaking[t] \in BOOLEAN /\ wake[t] \in BOOLEAN /\ sync \in SyncWords
  BY DEF LocalsOK, TypeOK
<1>1. /\ sync'.state = "Shutdown" <=> sync.state = "Shutdown"
      /\ sync'.state = "Signaled" => sync'.notified
  <2>1. CASE SlowCas(t) /\ sync = snap[t]
    <3>1. sync' = ToWake(t) \/ sync' = ToSpawn(t) \/ sync' = ToPass(t)
      BY <2>1 DEF SlowCas
    <3>2. sync.state # "Shutdown"
      BY <2>1 DEF SlowLocals
    <3>3. sync'.state # "Shutdown"
      BY <1>0, <2>1, <3>1, <3>2 DEF ToWake, ToSpawn, ToPass, SyncWords
    <3>4. sync'.state = "Signaled" => sync'.notified
      BY <1>0, <2>1, <3>1 DEF ToWake, ToSpawn, ToPass, SyncWords, StateExact
    <3> QED
      BY <3>2, <3>3, <3>4
  <2>2. CASE ~(SlowCas(t) /\ sync = snap[t])
    <3>1. sync'.state = sync.state /\ sync'.notified = sync.notified
      BY <2>2 DEF TypeOK, SyncWords, Notify, SpawnFails, Spawn, NotifyFast, SlowLoad,
         SlowLimit, SlowCas, Signal, ScanQueue, ScanThread
    <3> QED
      BY <3>1 DEF StateExact
  <2> QED
    BY <2>1, <2>2
<1>2. pc'[t] \notin Retiring
  BY <1>0 DEF LocalsOK, Notify, SpawnFails, Spawn, NotifyFast, SlowLoad, SlowLimit, SlowCas,
     Signal, ScanQueue, ScanThread, Scanned, Leave, Goto, Retiring
<1>3. \A w \in Workers : pc'[w] \in Retiring => pc[w] \in Retiring
  BY <1>2, NotifyAlone DEF Threads, Retiring
<1>4. pc'[Owner] = pc[Owner] /\ closed' = closed
  BY NotifyAlone, ThreadPoolAssumption DEF Threads
<1> QED
  BY <1>1, <1>3, <1>4 DEF StateExact, Shared

LEMMA WorkState ==
    ASSUME LocalsOK, TypeOK, StateExact, NEW w \in Workers,
           Work(w) \/ Retire(w) \/ ScheduleInside(w)
    PROVE  StateExact' /\ (sync'.state = "Shutdown" <=> sync.state = "Shutdown")
<1>0. w \in Threads /\ w \in DOMAIN pc /\ isWaking[w] \in BOOLEAN /\ sync \in SyncWords
  BY DEF LocalsOK, TypeOK, Threads
<1>1. sync'.state = "Shutdown" <=> sync.state = "Shutdown"
  BY <1>0 DEF SyncWords, Work, Retire, ScheduleInside, Register, WaitConsume, WaitIdle,
     WaitSleep, SleepEnter, SleepLeave, PopRing, PopQueue, Grab, Publish, Steal, PopNone,
     RunTask, Exit, Unregister, JoinNotify, Released
<1>2. sync'.state = "Signaled" => sync'.notified
  BY <1>0 DEF StateExact, SyncWords, Work, Retire, ScheduleInside, Register, WaitConsume,
     WaitIdle, WaitSleep, SleepEnter, SleepLeave, PopRing, PopQueue, Grab, Publish, Steal,
     PopNone, RunTask, Exit, Unregister, JoinNotify, Released
<1>3. pc'[w] \in Retiring => sync.state = "Shutdown" \/ pc[w] \in Retiring
  BY <1>0 DEF LocalsOK, Work, Retire, ScheduleInside, Register, WaitConsume, WaitIdle,
     WaitSleep, SleepEnter, SleepLeave, PopRing, PopQueue, Grab, Publish, Steal, PopNone,
     RunTask, Exit, Unregister, JoinNotify, Released, Goto, Popped, Retiring
<1>4. pc'[Owner] = pc[Owner] /\ closed' = closed
  BY WorkerAlone, ThreadPoolAssumption DEF Threads
<1> QED
  BY <1>1, <1>2, <1>3, <1>4, WorkerAlone DEF StateExact, Shared, Threads

LEMMA CallState ==
    ASSUME LocalsOK, TypeOK, StateExact, NEW s \in Schedulers,
           Schedule(s) \/ LimitThreads(s) \/ AllowThreads(s) \/ Warm(s)
    PROVE  StateExact' /\ sync'.state = sync.state /\ sync'.notified = sync.notified
<1>1. s \notin Workers /\ s # Owner
  BY ThreadPoolAssumption
<1>2. sync'.state = sync.state /\ sync'.notified = sync.notified
  BY DEF Schedule, LimitThreads, AllowThreads, Warm, TypeOK, SyncWords
<1> QED
  BY <1>1, <1>2, CallerAlone DEF StateExact, Shared, Threads, eventVars

LEMMA OwnerState ==
    ASSUME LocalsOK, TypeOK, StateExact, Shutdown \/ Drop
    PROVE  StateExact' /\ sync'.state = "Shutdown"
<1>1. sync' = sync \/ (sync'.state = "Shutdown" /\ sync'.notified)
  BY DEF Shutdown, Drop, CloseEvent, Join, JoinWait, ReleaseFirst, TypeOK, SyncWords
<1>2. sync'.state = "Shutdown"
  BY <1>1, OwnerAlone DEF StateExact, Shared
<1> QED
  BY <1>1, <1>2, OwnerAlone DEF StateExact, Shared

-----------------------------------------------------------------------------
(* Nobody sleeps on a task *)

LEMMA NotifyAttended ==
    ASSUME LocalsOK, TypeOK, QueueAttended, StateExact, NEW t \in Threads, SlowLocals(t),
           t \in Workers => WorkerPlaced(t), Notify(t) \/ SpawnFails(t)
    PROVE  QueueAttended'
<1>0. queue' = queue /\ (sync'.state = "Shutdown" <=> sync.state = "Shutdown")
  BY NotifyAlone, NotifyState
<1>1. CASE t \in Workers
  BY <1>1, NotifyStays DEF QueueAttended
<1>2. CASE t \notin Workers
  <2>0. /\ t \in Schedulers /\ t \in DOMAIN pc /\ isWaking[t] = FALSE /\ sync \in SyncWords
        /\ wake[t] \in BOOLEAN /\ ret[t] \in {"out", "run", "warm"}
    BY <1>2 DEF Threads, TypeOK, LocalsOK
  <2>1. \A w \in Workers : pc[w] \in Popping \cup InNotify \cup {"run"} => pc'[w] = pc[w]
    BY <1>2, NotifyAlone DEF Threads, Popping, InNotify
  <2>2. \A s \in Schedulers \ {t} : pc'[s] = pc[s] /\ snap'[s] = snap[s]
    BY NotifyAlone, ThreadPoolAssumption DEF Threads
  <2>3. CASE SlowCas(t) /\ sync = snap[t]
    <3>1. sync' = ToWake(t) \/ sync' = ToSpawn(t) \/ sync' = ToPass(t)
      BY <2>3 DEF SlowCas
    <3>2. sync'.notified = TRUE
      BY <2>0, <2>3, <3>1 DEF ToWake, ToSpawn, ToPass, SyncWords
    <3> QED
      BY <3>2 DEF QueueAttended
  <2>4. CASE ~(SlowCas(t) /\ sync = snap[t])
    <3>1. sync'.notified = sync.notified
      BY <2>4 DEF TypeOK, SyncWords, Notify, SpawnFails, Spawn, NotifyFast, SlowLoad,
         SlowLimit, SlowCas, Signal, ScanQueue, ScanThread
    \* It attends to the queue until the word has a notification.
    <3>2. pc[t] \in {"notify", "slow", "cas"} \/ (pc[t] = "limit" /\ ~snap[t].notified)
             => \/ sync.notified \/ sync.state = "Shutdown"
                \/ pc'[t] \in {"notify", "slow", "cas"} \/ (pc'[t] = "limit" /\ ~snap'[t].notified)
      <4>1. CASE NotifyFast(t)
        BY <2>0, <4>1 DEF NotifyFast, Leave, Goto
      <4>2. CASE SlowLoad(t)
        <5>1. ~MustScan(t)
          BY <2>0 DEF MustScan
        <5> QED
          BY <2>0, <4>2, <5>1 DEF SlowLoad, Leave, Goto, LocalsOK
      <4>3. CASE SlowLimit(t)
        BY <2>0, <4>3 DEF SlowLimit, Leave, Goto
      <4>4. CASE SlowCas(t)
        BY <2>0, <2>4, <4>4 DEF SlowCas, Goto
      <4>5. CASE Signal(t) \/ Spawn(t) \/ SpawnFails(t) \/ ScanQueue(t) \/ ScanThread(t)
        BY <4>5 DEF Signal, Spawn, SpawnFails, ScanQueue, ScanThread
      <4> QED
        BY <4>1, <4>2, <4>3, <4>4, <4>5 DEF Notify
    <3> QED
      BY <1>0, <2>0, <2>1, <2>2, <3>1, <3>2 DEF QueueAttended
  <2> QED
    BY <2>3, <2>4
<1> QED
  BY <1>1, <1>2

LEMMA WorkAttended ==
    ASSUME LocalsOK, TypeOK, QueueAttended, StateExact, NEW w \in Workers,
           Work(w) \/ Retire(w) \/ ScheduleInside(w)
    PROVE  QueueAttended'
<1>0. w \in Threads /\ w \in DOMAIN pc /\ sync \in SyncWords
  BY DEF LocalsOK, TypeOK, Threads
<1>1. CASE pc'[w] \in Popping \cup InNotify \cup {"run"}
  BY <1>1 DEF QueueAttended
<1>2. CASE pc'[w] \notin Popping \cup InNotify \cup {"run"}
  <2>1. CASE Retire(w)
    <3>1. sync.state = "Shutdown"
      BY <2>1 DEF Retire, Exit, Unregister, JoinNotify, Released, StateExact, Retiring
    <3> QED
      BY <3>1, WorkState DEF QueueAttended
  <2>2. CASE ~Retire(w)
    <3>1. Register(w) \/ WaitIdle(w) \/ WaitSleep(w) \/ SleepEnter(w) \/ SleepLeave(w)
            \/ PopQueue(w) \/ PopNone(w) \/ Steal(w)
      BY <1>0, <1>2, <2>2 DEF LocalsOK, Work, ScheduleInside, WaitConsume, PopRing, Grab,
         Publish, RunTask, Goto, Popped, Popping, InNotify
    <3>2. queue' = queue /\ sync'.notified = sync.notified
      BY <1>0, <3>1 DEF Register, WaitIdle, WaitSleep, SleepEnter, SleepLeave, PopQueue,
         PopNone, Steal, taskVars, SyncWords
    <3>3. /\ \A v \in Workers \ {w} : pc'[v] = pc[v]
          /\ \A s \in Schedulers : pc'[s] = pc[s] /\ snap'[s] = snap[s]
      BY WorkerAlone, ThreadPoolAssumption DEF Threads
    \* A worker that passes the queue over leaves it to the one that consumes it.
    <3>4. pc[w] \in Popping \cup InNotify \cup {"run"} /\ queue # {} =>
             \E v \in Workers \ {w} : pc[v] \in Popping
      <4>1. CASE PopQueue(w)
        <5>1. queue # {} => holder # None
          BY <1>0, <1>2, <4>1 DEF PopQueue, Goto, Popping
        <5>2. holder # None => holder \in Workers \ {w} /\ pc[holder] \in Popping
          BY <4>1 DEF PopQueue, LocalsOK, TypeOK, Popping
        <5> QED
          BY <5>1, <5>2
      <4>2. CASE ~PopQueue(w)
        BY <3>1, <4>2 DEF Register, WaitIdle, WaitSleep, SleepEnter, SleepLeave, PopNone,
           Steal, Popping, InNotify
      <4> QED
        BY <4>1, <4>2
    <3> QED
      BY <3>2, <3>3, <3>4, WorkState DEF QueueAttended
  <2> QED
    BY <2>1, <2>2
<1> QED
  BY <1>1, <1>2

LEMMA CallAttended ==
    ASSUME LocalsOK, TypeOK, QueueAttended, StateExact, NEW s \in Schedulers,
           Schedule(s) \/ LimitThreads(s) \/ AllowThreads(s) \/ Warm(s)
    PROVE  QueueAttended'
<1>0. s \notin Workers /\ s \in DOMAIN pc
  BY ThreadPoolAssumption DEF LocalsOK, Threads
<1>1. CASE Schedule(s)
  <2>1. pc'[s] = "notify"
    BY <1>0, <1>1 DEF Schedule, Goto
  <2> QED
    BY <2>1 DEF QueueAttended
<1>2. CASE ~Schedule(s)
  <2>1. queue' = queue
    BY <1>2 DEF LimitThreads, AllowThreads, Warm, taskVars
  <2>2. /\ \A w \in Workers : pc'[w] = pc[w]
        /\ \A u \in Schedulers \ {s} : pc'[u] = pc[u]
        /\ snap' = snap /\ pc[s] \in {"out", "warm"}
    BY <1>0, CallerAlone DEF Threads
  <2> QED
    BY <2>1, <2>2, CallState DEF QueueAttended
<1> QED
  BY <1>1, <1>2

-----------------------------------------------------------------------------
\* With no idle worker in the word, nobody sleeps.
LEMMA NoneIdle ==
    ASSUME WordCounts, \A w \in Workers : WorkerPlaced(w), sync.state # "Shutdown", sync.idle = 0
    PROVE  \A w \in Workers : pc[w] \notin {"sleep", "asleep"}
<1>1. Idle = {}
  BY SetsFinite, FS_EmptySet DEF WordCounts
<1> QED
  BY <1>1 DEF Idle, WorkerPlaced

LEMMA NotifyHeard ==
    ASSUME LocalsOK, TypeOK, WordCounts, Role, StateExact, NotificationHeard,
           \A w \in Workers : WorkerPlaced(w),
           NEW t \in Threads, SlowLocals(t), Notify(t) \/ SpawnFails(t)
    PROVE  NotificationHeard'
<1>0. SUFFICES ASSUME sync'.state # "Shutdown", sync'.notified, Alive' # {}
               PROVE  \/ token' \/ \E u \in Threads : pc'[u] = "signal"
                      \/ \E w \in Alive' : pc'[w] \notin {"sleep", "asleep"}
  BY DEF NotificationHeard
<1>1. sync.state # "Shutdown" /\ ~closed
  BY <1>0, NotifyState DEF StateExact
<1>2. CASE t \in Workers
  BY <1>2, NotifyStays DEF InNotify
<1>3. CASE Spawn(t)
  <2>1. PICK w \in Workers : pc[w] = "unborn" /\ pc' = [pc EXCEPT ![t] = ret[t], ![w] = "register"]
    BY <1>3 DEF Spawn
  <2>2. w \in Alive' /\ pc'[w] = "register"
    BY <2>1 DEF LocalsOK, Threads, Alive
  <2> QED
    BY <2>2
<1>4. CASE t \notin Workers /\ ~Spawn(t)
  <2>0. /\ t \in Schedulers /\ t \in DOMAIN pc /\ isWaking[t] = FALSE /\ sync \in SyncWords
        /\ wake[t] \in BOOLEAN
    BY <1>4 DEF Threads, TypeOK, LocalsOK
  <2>1. (\A u \in Threads \ {t} : pc'[u] = pc[u]) /\ \A w \in Workers : pc'[w] = pc[w]
    BY <1>4, NotifyAlone DEF Threads
  <2>2. Alive' = Alive
    BY <2>1 DEF Alive
  <2>3. CASE Signal(t)
    BY <1>1, <2>3 DEF Signal, event!Notify
  <2>4. CASE SlowCas(t) /\ sync = snap[t]
    <3>0. pc[t] = "cas"
      BY <2>4 DEF SlowCas
    <3>1. CASE wake[t] /\ sync.idle > 0
      <4>1. pc'[t] = "signal"
        BY <2>0, <2>4, <3>1 DEF SlowCas, Goto
      <4> QED
        BY <4>1
    <3>2. CASE wake[t] /\ ~(sync.idle > 0)
      <4>1. sync.idle = 0
        BY <3>2, WorkersCount DEF WordCounts, SyncWords
      <4> QED
        BY <1>0, <1>1, <2>1, <2>2, <4>1, NoneIdle DEF Alive
    \* Somebody else is signaled or waking.
    <3>3. CASE ~wake[t]
      <4>1. sync.state \in {"Signaled", "Waking"}
        BY <1>1, <2>0, <2>4, <3>0, <3>3 DEF SlowLocals, SyncWords
      <4>2. token' = token
        BY <2>4 DEF SlowCas, eventVars
      <4>3. CASE sync.state = "Signaled"
        BY <1>0, <1>1, <2>1, <2>2, <3>0, <4>2, <4>3 DEF StateExact, NotificationHeard, Alive
      <4>4. CASE sync.state = "Waking"
        <5>1. PICK w \in Workers : isWaking[w]
          BY <1>1, <4>4 DEF Role, Waking
        <5>2. pc[w] \notin {"unborn", "sleep", "asleep"} /\ pc[w] \notin Retiring
          BY <1>1, <5>1 DEF WorkerPlaced, StateExact
        <5> QED
          BY <2>1, <5>2 DEF Alive, Retiring
      <4> QED
        BY <4>1, <4>3, <4>4
    <3> QED
      BY <2>0, <3>1, <3>2, <3>3
  <2>5. CASE ~Signal(t) /\ ~(SlowCas(t) /\ sync = snap[t])
    <3>1. /\ sync'.notified = sync.notified /\ token' = token /\ pc[t] # "signal"
      BY <1>4, <2>0, <2>5 DEF TypeOK, SyncWords, Notify, SpawnFails, NotifyFast, SlowLoad,
         SlowLimit, SlowCas, ScanQueue, ScanThread, eventVars
    <3> QED
      BY <1>0, <1>1, <2>1, <2>2, <3>1 DEF NotificationHeard, Alive
  <2> QED
    BY <2>3, <2>4, <2>5
<1> QED
  BY <1>2, <1>3, <1>4

LEMMA WorkHeard ==
    ASSUME LocalsOK, TypeOK, StateExact, NotificationHeard, NEW w \in Workers,
           Work(w) \/ Retire(w) \/ ScheduleInside(w)
    PROVE  NotificationHeard'
<1>0. w \in Threads /\ w \in DOMAIN pc /\ sync \in SyncWords
  BY DEF LocalsOK, TypeOK, Threads
<1>1. CASE Retire(w)
  <2>1. sync.state = "Shutdown"
    BY <1>1 DEF Retire, Exit, Unregister, JoinNotify, Released, StateExact, Retiring
  <2> QED
    BY <2>1, WorkState DEF NotificationHeard
<1>2. CASE WaitIdle(w) \/ WaitSleep(w)
  <2>1. ~sync'.notified
    BY <1>0, <1>2 DEF WaitIdle, WaitSleep, SyncWords
  <2> QED
    BY <2>1 DEF NotificationHeard
<1>3. CASE SleepEnter(w) /\ pc'[w] = "asleep"
  <2>1. /\ pc[w] = "sleep" /\ sync' = sync /\ token' = token
    BY <1>0, <1>3 DEF SleepEnter, Goto, event!Come
  <2>2. \A u \in Threads \ {w} : pc'[u] = pc[u]
    BY WorkerAlone
  <2>3. Alive' = Alive
    BY <1>0, <1>3, <2>1, <2>2, SameAlive DEF NotAlive
  <2> QED
    BY <1>0, <1>3, <2>1, <2>2, <2>3 DEF NotificationHeard, Alive, Threads
<1>4. CASE ~Retire(w) /\ ~WaitIdle(w) /\ ~WaitSleep(w) /\ ~(SleepEnter(w) /\ pc'[w] = "asleep")
  <2>1. pc'[w] \notin {"sleep", "asleep"} \cup NotAlive
    BY <1>0, <1>4 DEF LocalsOK, Work, ScheduleInside, Register, WaitConsume, SleepEnter,
       SleepLeave, PopRing, PopQueue, Grab, Publish, Steal, PopNone, RunTask, Goto, Popped,
       NotAlive
  <2> QED
    BY <2>1 DEF NotificationHeard, Alive, NotAlive
<1> QED
  BY <1>1, <1>2, <1>3, <1>4

LEMMA CallHeard ==
    ASSUME LocalsOK, TypeOK, StateExact, NotificationHeard, NEW s \in Schedulers,
           Schedule(s) \/ LimitThreads(s) \/ AllowThreads(s) \/ Warm(s)
    PROVE  NotificationHeard'
<1>1. s \notin Workers /\ s \in Threads
  BY ThreadPoolAssumption DEF Threads
<1>2. Alive' = Alive
  BY <1>1, CallerAlone, SameAlive
<1>3. \A w \in Alive : pc'[w] = pc[w]
  BY <1>1, CallerAlone DEF Alive, Threads
<1> QED
  BY <1>2, <1>3, CallerAlone, CallState, ZenonT(30) DEF NotificationHeard, eventVars

-----------------------------------------------------------------------------
(* The inductive invariant *)

\* PoolIInv in the parts that the lemmas use.
LEMMA Parts ==
    PoolIInv <=> /\ LocalsOK /\ TypeOK /\ WordCounts /\ Role /\ StateExact
                 /\ \A w \in Workers : WorkerPlaced(w)
                 /\ \A t \in Threads : SlowLocals(t)
                 /\ QueueAttended /\ NotificationHeard
BY RoleIsOneWaking DEF PoolIInv, CountsExact, WordCounts, Spawners, Idle, TypeOK

LEMMA RoleNext == Role' => OneWaking'
BY RoleIsOneWaking, PTL

LEMMA InitIInv == Init => PoolIInv
<1> SUFFICES ASSUME Init PROVE PoolIInv
  OBVIOUS
<1>0. Owner \notin Workers /\ Workers \subseteq Threads
  BY ThreadPoolAssumption DEF Threads
<1>1. LocalsOK
  <2>1. Registered = {}
    BY DEF Init, Registered
  <2>2. pc \in [Threads \cup {Owner} -> Labels]
    BY DEF Init, Labels, WorkerLabels
  <2>3. allowed \in 0 .. Cardinality(Workers) /\ threads \in Seq(Workers)
    BY WorkersCount DEF Init
  <2>4. snap \in [Threads -> SyncWords]
    BY NoSyncTyped DEF Init
  <2> QED
    BY <2>1, <2>2, <2>3, <2>4 DEF Init, LocalsOK, event!TokenInit
<1>2. \A w \in Workers : pc[w] = "unborn"
  BY <1>0 DEF Init
<1>3. \A t \in Threads : pc[t] \in {"unborn", "out"}
  BY DEF Init
<1>4. TypeOK
  BY <1>2, NoSyncTyped DEF Init, TypeOK, event!TokenInit
<1>5. Alive = {} /\ Spawners = {} /\ Idle = {} /\ Waking = {}
  BY <1>0, <1>2, <1>3 DEF Alive, Spawners, Idle, Waking, Init
<1>6. WordCounts
  BY <1>4, <1>5, FS_EmptySet DEF Init, NoSync, WordCounts, TypeOK
<1>7. Role
  BY <1>5 DEF Init, NoSync, Role
<1>8. StateExact
  BY <1>0, <1>2, ThreadPoolAssumption DEF Init, NoSync, StateExact, Shared, Retiring,
     event!TokenInit
<1>9. \A w \in Workers : WorkerPlaced(w)
  BY <1>0, <1>2 DEF Init, WorkerPlaced, WorkerLabels, InNotify
<1>10. \A t \in Threads : SlowLocals(t)
  BY <1>3, NoSyncTyped DEF Init, SlowLocals
<1>11. QueueAttended /\ NotificationHeard
  BY <1>5 DEF Init, QueueAttended, NotificationHeard
<1> QED
  BY <1>1, <1>4, <1>6, <1>7, <1>8, <1>9, <1>10, <1>11, Parts

LEMMA StepIInv == PoolIInv /\ [Next]_vars => PoolIInv'
<1> SUFFICES ASSUME PoolIInv, [Next]_vars PROVE PoolIInv'
  OBVIOUS
<1>0. /\ LocalsOK /\ TypeOK /\ WordCounts /\ Role /\ StateExact
      /\ \A w \in Workers : WorkerPlaced(w)
      /\ \A t \in Threads : SlowLocals(t)
      /\ QueueAttended /\ NotificationHeard
  BY Parts
<1>parts. ASSUME /\ LocalsOK' /\ Places' /\ WordCounts' /\ Role' /\ StateExact'
                 /\ \A w \in Workers : WorkerPlaced(w)'
                 /\ \A t \in Threads : SlowLocals(t)'
                 /\ QueueAttended' /\ NotificationHeard'
          PROVE  PoolIInv'
  <2>1. TypeOK'
    BY <1>parts DEF WordCounts, Places, TypeOK
  <2>2. OneWaking'
    BY <1>parts, RoleNext
  <2> QED
    BY <1>parts, <2>1, <2>2 DEF PoolIInv, CountsExact, WordCounts, Spawners, Idle
<1>1. ASSUME NEW t \in Threads, Notify(t) \/ SpawnFails(t) PROVE PoolIInv'
  BY <1>0, <1>1, <1>parts, NotifyLocals, NotifyPlaces, NotifyCounts, NotifyRole,
     NotifyState, NotifyPlaced, NotifySlow, NotifyAttended, NotifyHeard
<1>2. ASSUME NEW w \in Workers, Work(w) \/ Retire(w) \/ ScheduleInside(w) PROVE PoolIInv'
  BY <1>0, <1>2, <1>parts, WorkLocals, WorkerPlaces, WorkCounts, WorkRole, WorkState,
     WorkPlaced, WorkSlow, WorkAttended, WorkHeard
<1>3. ASSUME NEW s \in Schedulers, Schedule(s) \/ LimitThreads(s) \/ AllowThreads(s) \/ Warm(s)
      PROVE  PoolIInv'
  BY <1>0, <1>3, <1>parts, CallLocals, CallerPlaces, CallCounts, CallRole, CallState,
     CallPlaced, CallSlow, CallAttended, CallHeard
<1>4. ASSUME Shutdown \/ Drop PROVE PoolIInv'
  <2>1. sync'.state = "Shutdown"
    BY <1>0, <1>4, OwnerState
  <2>2. QueueAttended' /\ NotificationHeard'
    BY <2>1 DEF QueueAttended, NotificationHeard
  <2> QED
    BY <1>0, <1>4, <1>parts, <2>2, OwnerLocals, OwnerPlaces, OwnerCounts, OwnerRole,
       OwnerState, OwnerPlaced, OwnerSlow
<1>5. CASE UNCHANGED vars
  <2>1. /\ UNCHANGED <<sync, allowed, threads, pc, isWaking, isIdle>>
        /\ UNCHANGED <<snap, wake, spawn, scan, ret>> /\ UNCHANGED <<inside, token, closed>>
        /\ UNCHANGED <<queue, holder, buf, fresh, done>> /\ UNCHANGED <<task, got, target, left>>
    BY <1>5 DEF vars, notifyVars, eventVars, taskVars, popVars
  <2>2. LocalsOK' /\ Places'
    BY <1>0, <2>1 DEF LocalsOK, Registered, Places, TypeOK
  <2>3. WordCounts' /\ Role'
    BY <1>0, <2>1 DEF WordCounts, Spawners, Alive, Idle, Role, Waking
  <2>4. StateExact' /\ QueueAttended' /\ NotificationHeard'
    BY <1>0, <2>1 DEF StateExact, Shared, QueueAttended, NotificationHeard, Alive
  <2>5. \A w \in Workers : WorkerPlaced(w)'
    BY <1>0, <2>1 DEF WorkerPlaced, Registered
  <2>6. \A t \in Threads : SlowLocals(t)'
    BY <1>0, <2>1 DEF SlowLocals
  <2> QED
    BY <1>parts, <2>2, <2>3, <2>4, <2>5, <2>6
<1> QED
  BY <1>1, <1>2, <1>3, <1>4, <1>5 DEF Next

\* The inductive invariant itself: the word, the threads and the queue agree.
THEOREM PoolInvariant == Spec => []PoolIInv
BY InitIInv, StepIInv, PTL DEF Spec

\* For any number of workers, schedulers and tasks, through refused threads, changes of
\* the limit and shutdown: the counts in the Sync word are exact.
THEOREM PoolCountsExact == Spec => []CountsExact
<1>1. PoolIInv => CountsExact
  BY DEF PoolIInv
<1> QED
  BY <1>1, PoolInvariant, PTL

\* At most one worker is waking, and the word says so as long as one is.
THEOREM PoolOneWaking == Spec => []OneWaking
<1>1. PoolIInv => OneWaking
  BY DEF PoolIInv
<1> QED
  BY <1>1, PoolInvariant, PTL

\* While a task waits, not every worker of the pool sleeps.
THEOREM PoolNoStrandedTask == Spec => []NoStrandedTask
<1>1. PoolIInv => NoStrandedTask
  <2>1. SUFFICES ASSUME PoolIInv, Settled, Waiting # {}, Alive # {}
                 PROVE  \E w \in Workers : pc[w] = "run"
    BY DEF NoStrandedTask
  <2>2. /\ \A w \in Workers : WorkerPlaced(w)
        /\ StateExact /\ QueueAttended /\ NotificationHeard
    BY <2>1 DEF PoolIInv
  <2>3. /\ sync.state # "Shutdown" /\ ~token
        /\ \A s \in Schedulers : pc[s] = "out"
        /\ \A w \in Workers : pc[w] \in {"unborn", "run", "asleep"}
    BY <2>1, <2>2 DEF Settled, StateExact
  \* A ring with tasks is that of a worker that runs.
  <2>4. CASE \E w \in Workers : buf[w] # {}
    BY <2>2, <2>3, <2>4 DEF WorkerPlaced, InNotify
  \* With tasks in the queue nobody is left to attend to them but a worker that runs or
  \* the notification; and that is heard.
  <2>5. CASE queue # {}
    <3>1. CASE sync.notified
      <4>1. \A t \in Threads : pc[t] # "signal"
        BY <2>3 DEF Threads
      <4>2. PICK w \in Alive : pc[w] \notin {"sleep", "asleep"}
        BY <2>1, <2>2, <2>3, <3>1, <4>1 DEF NotificationHeard
      <4> QED
        BY <2>3, <4>2 DEF Alive
    <3>2. CASE ~sync.notified
      BY <2>2, <2>3, <2>5, <3>2 DEF QueueAttended, Popping, InNotify
    <3> QED
      BY <3>1, <3>2
  <2> QED
    BY <2>1, <2>4, <2>5 DEF Waiting
<1> QED
  BY <1>1, PoolInvariant, PTL

-----------------------------------------------------------------------------
(* A pool that keeps a spare thread awake *)

\* A step of notify() that is not the compare-exchange leaves the word alone.
LEMMA NotifyWord ==
    ASSUME NEW t \in Threads, Notify(t), ~(SlowCas(t) /\ sync = snap[t])
    PROVE  sync' = sync
BY DEF Notify, Spawn, NotifyFast, SlowLoad, SlowLimit, SlowCas, Signal, ScanQueue, ScanThread

\* A waking thread has its can_wake without a look at the tasks.
LEMMA NotifySpareLocals ==
    ASSUME LocalsOK, TypeOK, keepsSpare, SpareLocals, NEW t \in Threads,
           t \in Workers => WorkerPlaced(t), Notify(t)
    PROVE  SpareLocals'
<1>0. /\ t \in DOMAIN pc /\ isWaking[t] \in BOOLEAN /\ ret[t] \in {"out", "run", "warm"}
      /\ t \in DOMAIN isWaking /\ t \in DOMAIN spawn /\ t \in DOMAIN wake /\ t \in DOMAIN snap
  BY DEF LocalsOK
<1>1. allowed' = allowed
  BY DEF Notify, Spawn, NotifyFast, SlowLoad, SlowLimit, SlowCas, Signal, ScanQueue, ScanThread
<1>2. /\ pc[t] \notin {"scanqueue", "scanthread"}
      /\ pc[t] \in {"limit", "cas"} /\ isWaking[t] => wake[t]
  BY DEF SpareLocals
<1>3. pc'[t] \notin {"scanqueue", "scanthread"}
  BY <1>0, <1>2 DEF MustScan, Notify, Spawn, NotifyFast, SlowLoad, SlowLimit, SlowCas, Signal,
     ScanQueue, ScanThread, Leave, Goto, LocalsOK
<1>4. pc'[t] \in {"limit", "cas"} =>
         \/ SlowLoad(t) /\ sync.state # "Shutdown"
         \/ SlowLimit(t) /\ pc'[t] = "cas" /\ pc[t] = "limit"
  BY <1>0, <1>2 DEF Notify, Spawn, NotifyFast, SlowLoad, SlowLimit, SlowCas, Signal,
     ScanQueue, ScanThread, Leave, Goto, LocalsOK
<1>5. pc'[t] \in {"limit", "cas"} /\ isWaking'[t] => wake'[t]
  <2>1. CASE SlowLoad(t) /\ sync.state # "Shutdown"
    BY <1>0, <2>1 DEF SlowLoad, CanWake
  <2>2. CASE SlowLimit(t) /\ pc'[t] = "cas" /\ pc[t] = "limit"
    <3>1. isWaking' = isWaking /\ wake' = wake
      BY <1>0, <2>2 DEF SlowLimit, Leave, Goto, LocalsOK
    <3> QED
      BY <1>2, <2>2, <3>1
  <2> QED
    BY <1>4, <2>1, <2>2
<1>6. pc'[t] = "cas" /\ ~spawn'[t] => snap'[t].spawned = Cardinality(Workers)
  <2>1. CASE SlowLimit(t) /\ pc'[t] = "cas" /\ pc[t] = "limit"
    <3>1. spawn'[t] = (snap[t].spawned < allowed) /\ snap' = snap
      BY <1>0, <2>1 DEF SlowLimit, Leave, Goto, LocalsOK
    <3>2. snap[t].spawned \in 0 .. Cardinality(Workers) /\ allowed = Cardinality(Workers)
      BY DEF LocalsOK, SyncWords, SpareLocals
    <3>3. snap[t].spawned < allowed \/ snap[t].spawned = Cardinality(Workers)
      BY <3>2, WorkersCount
    <3>4. snap'[t] = snap[t]
      BY <3>1
    <3> QED
      BY <3>1, <3>3, <3>4
  <2>2. CASE SlowLoad(t) /\ sync.state # "Shutdown"
    BY <1>0, <2>2 DEF SlowLoad, Goto, LocalsOK
  <2> QED
    BY <1>4, <2>1, <2>2
<1>7. ASSUME NEW u \in Threads
      PROVE  /\ pc'[u] \notin {"scanqueue", "scanthread"}
             /\ pc'[u] \in {"limit", "cas"} /\ isWaking'[u] => wake'[u]
             /\ pc'[u] = "cas" /\ ~spawn'[u] => snap'[u].spawned = Cardinality(Workers)
  <2>1. CASE u = t
    BY <1>3, <1>5, <1>6, <2>1
  <2>2. CASE u # t
    <3>1. /\ pc'[u] = pc[u] \/ pc'[u] = "register"
          /\ isWaking'[u] = isWaking[u] /\ wake'[u] = wake[u] /\ spawn'[u] = spawn[u]
          /\ snap'[u] = snap[u]
      BY <2>2, NotifyAlone
    <3> QED
      BY <3>1 DEF SpareLocals
  <2> QED
    BY <2>1, <2>2
<1>8. ASSUME NEW w \in Workers
      PROVE  /\ isWaking'[w] => pc'[w] # "run"
             /\ isIdle'[w] => pc'[w] \in {"wait", "sleep", "asleep"}
  <2>1. CASE w = t
    <3>1. isWaking'[t] => pc'[t] # "run"
      BY <1>0 DEF Notify, Spawn, NotifyFast, SlowLoad, SlowLimit, SlowCas, Signal,
         ScanQueue, ScanThread, Scanned, Leave, Forget, Goto, LocalsOK
    <3>2. pc[t] \notin {"wait", "sleep", "asleep"}
      BY DEF Notify, Spawn, NotifyFast, SlowLoad, SlowLimit, SlowCas, Signal, ScanQueue,
         ScanThread
    <3>3. ~isIdle[t] /\ isIdle' = isIdle
      BY <2>1, <3>2, NotifyAlone DEF SpareLocals
    <3> QED
      BY <2>1, <3>1, <3>3
  <2>2. CASE w # t
    <3>1. /\ pc'[w] = pc[w] \/ (pc[w] = "unborn" /\ pc'[w] = "register")
          /\ isWaking'[w] = isWaking[w] /\ isIdle' = isIdle
      BY <2>2, NotifyAlone DEF Threads
    <3>2. /\ isWaking[w] => pc[w] # "run"
          /\ isIdle[w] => pc[w] \in {"wait", "sleep", "asleep"}
      BY DEF SpareLocals
    <3> QED
      BY <3>1, <3>2
  <2> QED
    BY <2>1, <2>2
<1> QED
  BY <1>1, <1>7, <1>8 DEF SpareLocals

\* The word is Signaled by a thread that is about to post the token or start a worker.
LEMMA NotifySignalHeard ==
    ASSUME LocalsOK, TypeOK, SignalHeard, ~closed, NEW t \in Threads, Notify(t)
    PROVE  SignalHeard'
<1>0. t \in DOMAIN pc /\ isWaking[t] \in BOOLEAN /\ wake[t] \in BOOLEAN /\ sync \in SyncWords
  BY DEF LocalsOK, TypeOK
<1>1. ASSUME sync.state = "Signaled", token' = token,
             pc[t] \notin {"signal", "spawn", "register", "wait"}
      PROVE  SignalHeard'
  <2>1. \A u \in Threads : pc[u] \in {"signal", "spawn", "register", "wait"} => pc'[u] = pc[u]
    BY <1>1, NotifyAlone
  <2> QED
    BY <1>1, <2>1 DEF SignalHeard, Threads
<1>2. CASE SlowCas(t) /\ sync = snap[t]
  <2>1. CASE pc'[t] \in {"signal", "spawn"}
    BY <2>1 DEF SignalHeard
  <2>2. CASE pc'[t] \notin {"signal", "spawn"}
    <3>1. sync' = ToPass(t) /\ token' = token /\ pc[t] = "cas"
      BY <1>0, <1>2, <2>2 DEF SlowCas, Goto, eventVars
    <3>2. sync'.state = "Signaled" => sync.state = "Signaled"
      BY <1>0, <1>2, <3>1 DEF ToPass, SyncWords
    <3> QED
      BY <1>1, <3>1, <3>2 DEF SignalHeard
  <2> QED
    BY <2>1, <2>2
<1>3. CASE ~(SlowCas(t) /\ sync = snap[t])
  <2>1. CASE Signal(t)
    BY <2>1 DEF Signal, event!Notify, SignalHeard
  <2>2. CASE Spawn(t)
    <3>1. PICK w \in Workers : pc[w] = "unborn" /\ pc' = [pc EXCEPT ![t] = ret[t], ![w] = "register"]
      BY <2>2 DEF Spawn
    <3>2. pc'[w] = "register"
      BY <3>1 DEF LocalsOK, Threads
    <3> QED
      BY <3>2 DEF SignalHeard
  <2>3. CASE ~Signal(t) /\ ~Spawn(t)
    <3>1. token' = token /\ pc[t] \notin {"signal", "spawn", "register", "wait"}
      BY <2>3 DEF Notify, NotifyFast, SlowLoad, SlowLimit, SlowCas, ScanQueue, ScanThread,
         eventVars
    <3> QED
      BY <1>1, <1>3, <3>1, NotifyWord DEF SignalHeard
  <2> QED
    BY <2>1, <2>2, <2>3
<1> QED
  BY <1>2, <1>3

\* With can_wake set, only a full pool with nobody idle ends the waking role.
LEMMA NotifyTaskSeen ==
    ASSUME LocalsOK, TypeOK, keepsSpare, SpareLocals, TaskSeen, NEW t \in Threads,
           SlowLocals(t), sync.state # "Shutdown", Notify(t)
    PROVE  TaskSeen'
<1>0. /\ t \in DOMAIN pc /\ isWaking[t] \in BOOLEAN /\ wake[t] \in BOOLEAN /\ sync \in SyncWords
      /\ snap[t] \in SyncWords
  BY DEF LocalsOK, TypeOK
<1>1. CASE SlowCas(t) /\ sync = snap[t]
  <2>1. SUFFICES ASSUME sync'.state = "Pending" PROVE Full'
    BY DEF TaskSeen
  <2>2. pc[t] = "cas"
    BY <1>1 DEF SlowCas
  <2>3. \/ sync' = ToWake(t) \/ sync' = ToSpawn(t)
        \/ sync' = ToPass(t) /\ ~(wake[t] /\ spawn[t])
    BY <1>1 DEF SlowCas
  <2>4. sync' = ToPass(t) /\ ~(wake[t] /\ spawn[t])
    BY <1>0, <2>1, <2>3 DEF ToWake, ToSpawn, SyncWords
  <2>5. ~isWaking[t] => snap[t].state = "Pending"
    BY <1>0, <2>1, <2>4 DEF ToPass, SyncWords
  <2>6. wake[t]
    BY <2>2, <2>5 DEF SpareLocals, SlowLocals
  <2>7. snap[t].spawned = Cardinality(Workers)
    BY <2>2, <2>4, <2>6 DEF SpareLocals
  <2>8. sync'.spawned = snap[t].spawned
    BY <1>0, <2>4 DEF ToPass, SyncWords
  <2> QED
    BY <2>7, <2>8 DEF Full
<1>2. CASE ~(SlowCas(t) /\ sync = snap[t])
  <2>1. sync' = sync
    BY <1>2, NotifyWord
  <2>2. isIdle' = isIdle /\ Waiting' = Waiting
    BY NotifyAlone DEF Waiting
  <2>3. ASSUME NEW u \in Threads, Announcing(u), u # t PROVE Announcing(u)'
    <3>1. pc'[u] = pc[u] /\ snap'[u] = snap[u]
      BY <2>3, NotifyAlone DEF Announcing
    <3> QED
      BY <2>3, <3>1 DEF Announcing
  <2>4. Announcing(t) => Announcing(t)' \/ sync.notified
    <3>1. CASE NotifyFast(t)
      BY <1>0, <3>1 DEF NotifyFast, Leave, Goto, Announcing
    <3>2. CASE SlowLoad(t)
      <4>1. pc'[t] = "limit" /\ snap'[t] = sync
        BY <1>0, <3>2 DEF SlowLoad, Goto, MustScan, LocalsOK
      <4> QED
        BY <4>1 DEF Announcing
    <3>3. CASE SlowLimit(t)
      BY <1>0, <3>3 DEF SlowLimit, Leave, Goto, Announcing
    <3>4. CASE SlowCas(t)
      BY <1>0, <1>2, <3>4 DEF SlowCas, Goto, Announcing
    <3>5. CASE Signal(t) \/ Spawn(t) \/ ScanQueue(t) \/ ScanThread(t)
      BY <3>5 DEF Signal, Spawn, ScanQueue, ScanThread, Announcing
    <3> QED
      BY <3>1, <3>2, <3>3, <3>4, <3>5 DEF Notify
  <2>5. Full' = Full
    BY <2>1 DEF Full
  <2> QED
    BY <2>1, <2>2, <2>3, <2>4, <2>5 DEF TaskSeen
<1> QED
  BY <1>1, <1>2

LEMMA WorkSpareLocals ==
    ASSUME LocalsOK, TypeOK, StateExact, sync.state # "Shutdown", SpareLocals,
           NEW w \in Workers, Work(w) \/ Retire(w) \/ ScheduleInside(w)
    PROVE  SpareLocals'
<1>0. w \in Threads /\ w \in DOMAIN pc /\ w \in DOMAIN isIdle /\ isWaking[w] \in BOOLEAN
  BY DEF LocalsOK, Threads
<1>1. Work(w) \/ Exit(w) \/ ScheduleInside(w)
  BY DEF Retire, Unregister, JoinNotify, Released, StateExact, Retiring
<1>2. ~Exit(w)
  BY DEF Exit
<1>3. allowed' = allowed /\ pc'[w] \notin {"scanqueue", "scanthread", "limit", "cas"}
  BY <1>0, <1>1, <1>2 DEF LocalsOK, Work, ScheduleInside, Register, WaitConsume, WaitIdle,
     WaitSleep, SleepEnter, SleepLeave, PopRing, PopQueue, Grab, Publish, Steal, PopNone,
     RunTask, Goto, Popped
<1>4. isWaking'[w] => pc'[w] # "run"
  BY <1>0, <1>1, <1>2 DEF LocalsOK, Work, ScheduleInside, Register, WaitConsume, WaitIdle,
     WaitSleep, SleepEnter, SleepLeave, PopRing, PopQueue, Grab, Publish, Steal, PopNone,
     RunTask, Goto, Popped
<1>5. isIdle'[w] => pc'[w] \in {"wait", "sleep", "asleep"}
  <2>1. isIdle[w] => pc[w] \in {"wait", "sleep", "asleep"}
    BY DEF SpareLocals
  <2>2. CASE WaitConsume(w) \/ WaitIdle(w) \/ WaitSleep(w) \/ SleepEnter(w) \/ SleepLeave(w)
    BY <1>0, <2>2 DEF LocalsOK, WaitConsume, WaitIdle, WaitSleep, SleepEnter, SleepLeave, Goto
  <2>3. CASE ~(WaitConsume(w) \/ WaitIdle(w) \/ WaitSleep(w) \/ SleepEnter(w) \/ SleepLeave(w))
    BY <1>0, <1>1, <1>2, <2>1, <2>3 DEF Work, ScheduleInside, Register, PopRing, PopQueue,
       Grab, Publish, Steal, PopNone, RunTask
  <2> QED
    BY <2>2, <2>3
<1>6. ASSUME NEW u \in Threads, u # w
      PROVE  /\ pc'[u] = pc[u] /\ isWaking'[u] = isWaking[u]
             /\ u \in Workers => isIdle'[u] = isIdle[u]
  BY <1>6, WorkerAlone
<1> QED
  BY <1>3, <1>4, <1>5, <1>6, WorkerAlone DEF SpareLocals, Threads

LEMMA WorkSignalHeard ==
    ASSUME LocalsOK, TypeOK, StateExact, sync.state # "Shutdown", SignalHeard,
           NEW w \in Workers, Work(w) \/ Retire(w) \/ ScheduleInside(w)
    PROVE  SignalHeard'
<1>0. w \in Threads /\ w \in DOMAIN pc /\ sync \in SyncWords
  BY DEF LocalsOK, TypeOK, Threads
<1>1. SUFFICES ASSUME sync'.state = "Signaled" PROVE SignalHeard'
  BY DEF SignalHeard
<1>2. Work(w) \/ ScheduleInside(w)
  BY DEF Retire, Exit, Unregister, JoinNotify, Released, StateExact, Retiring
<1>3. sync.state = "Signaled" /\ ~WaitConsume(w)
  BY <1>0, <1>1, <1>2 DEF SyncWords, Work, ScheduleInside, Register, WaitConsume, WaitIdle,
     WaitSleep, SleepEnter, SleepLeave, PopRing, PopQueue, Grab, Publish, Steal, PopNone,
     RunTask
<1>4. sync.notified
  BY <1>3 DEF StateExact
<1>5. CASE pc'[w] \in {"register", "wait"}
  BY <1>5 DEF SignalHeard
<1>6. CASE pc'[w] \notin {"register", "wait"}
  <2>1. pc[w] \notin {"register", "wait", "signal", "spawn"} /\ token' = token
    BY <1>0, <1>2, <1>3, <1>4, <1>6 DEF LocalsOK, Work, ScheduleInside, Register, WaitConsume,
       WaitIdle, WaitSleep, SleepEnter, SleepLeave, PopRing, PopQueue, Grab, Publish, Steal,
       PopNone, RunTask, Goto, eventVars, event!Come
  <2>2. \A u \in Threads : pc[u] \in {"signal", "spawn", "register", "wait"} => pc'[u] = pc[u]
    BY <2>1, WorkerAlone
  <2> QED
    BY <1>3, <2>1, <2>2 DEF SignalHeard, Threads
<1> QED
  BY <1>5, <1>6

\* A worker that moves no more than one task has it in hand.
LEMMA PublishOne ==
    ASSUME IsFiniteSet(Tasks), TypeOK, NEW w \in Workers, Publish(w), pc'[w] # "notify",
           LocalsOK
    PROVE  buf'[w] = {}
<1>1. w \in DOMAIN pc /\ w \in DOMAIN buf
  BY DEF LocalsOK, TypeOK, Threads
<1>2. ~(Cardinality(got[w]) > 1)
  BY <1>1 DEF Publish, Popped, Goto
<1>3. IsFiniteSet(got[w])
  BY FS_Subset DEF TypeOK
<1>4. PICK t \in got[w] : buf' = [buf EXCEPT ![w] = got[w] \ {t}]
  BY DEF Publish
<1>5. Cardinality(got[w]) = 1
  <2>1. Cardinality(got[w]) \in Nat
    BY <1>3, FS_CardinalityType
  <2>2. Cardinality(got[w]) # 0
    BY <1>3, <1>4, FS_EmptySet
  <2> QED
    BY <1>2, <2>1, <2>2
<1>6. PICK u : got[w] = {u}
  BY <1>3, <1>5, FS_Singleton
<1> QED
  BY <1>1, <1>4, <1>6

\* Where tasks are added, their worker notifies next.
LEMMA WorkTaskSeen ==
    ASSUME LocalsOK, TypeOK, StateExact, IsFiniteSet(Tasks), sync.state # "Shutdown", TaskSeen,
           NEW w \in Workers, Work(w) \/ Retire(w) \/ ScheduleInside(w)
    PROVE  TaskSeen'
<1>0. /\ w \in Threads /\ w \in DOMAIN pc /\ w \in DOMAIN isIdle /\ w \in DOMAIN buf
      /\ sync \in SyncWords
  BY DEF LocalsOK, TypeOK, Threads
<1>2. Work(w) \/ ScheduleInside(w)
  BY DEF Retire, Exit, Unregister, JoinNotify, Released, StateExact, Retiring
<1>3. CASE pc'[w] = "notify" /\ sync' = sync
  <2>1. Full' = Full
    BY <1>3 DEF Full
  <2> QED
    BY <1>0, <1>3, <2>1 DEF TaskSeen, Announcing
<1>4. CASE WaitIdle(w)
  <2>1. isIdle'[w] /\ ~sync'.notified
    BY <1>0, <1>4 DEF WaitIdle, SyncWords
  <2> QED
    BY <2>1 DEF TaskSeen
<1>5. CASE WaitConsume(w)
  <2>1. /\ ~sync'.notified /\ sync'.spawned = sync.spawned /\ sync.notified
        /\ sync'.state = "Pending" => sync.state = "Pending"
    BY <1>0, <1>5 DEF WaitConsume, SyncWords
  <2> QED
    BY <2>1 DEF TaskSeen, Full
<1>6. CASE /\ ~(pc'[w] = "notify" /\ sync' = sync) /\ ~WaitIdle(w) /\ ~WaitConsume(w)
  <2>1. sync' = sync
    BY <1>2, <1>6 DEF Work, ScheduleInside, Register, WaitSleep, SleepEnter, SleepLeave, PopRing,
       PopQueue, Grab, Publish, Steal, PopNone, RunTask
  <2>2. pc'[w] # "notify" /\ ~ScheduleInside(w)
    BY <1>0, <1>6, <2>1 DEF ScheduleInside, Goto, LocalsOK
  <2>3. isIdle' = isIdle /\ queue' \subseteq queue
    BY <1>2, <1>6, <2>2 DEF Work, Register, WaitSleep, SleepEnter, SleepLeave, PopRing,
       PopQueue, Grab, Publish, Steal, PopNone, RunTask, taskVars
  <2>4. buf'[w] \subseteq buf[w]
    <3>1. CASE Publish(w)
      BY <2>2, <3>1, PublishOne
    <3>2. CASE Steal(w)
      <4>1. buf' = buf \/ \E v, batch : buf' = [buf EXCEPT ![v] = @ \ batch]
        BY <3>2 DEF Steal
      <4> QED
        BY <4>1 DEF TypeOK
    <3>3. CASE ~Publish(w) /\ ~Steal(w)
      BY <1>0, <1>2, <1>6, <2>2, <3>3 DEF Work, Register, WaitSleep, SleepEnter, SleepLeave,
         PopRing, PopQueue, Grab, PopNone, RunTask, taskVars
    <3> QED
      BY <3>1, <3>2, <3>3
  <2>5. \A v \in Workers : buf'[v] \subseteq buf[v]
    BY <2>4, WorkerAlone
  <2>6. Waiting' \subseteq Waiting
    BY <2>3, <2>5 DEF Waiting
  <2>7. pc[w] \notin {"notify", "slow", "limit", "cas"}
    BY <1>2, <2>2 DEF Work, Register, WaitConsume, WaitIdle, WaitSleep, SleepEnter,
       SleepLeave, PopRing, PopQueue, Grab, Publish, Steal, PopNone, RunTask
  <2>8. \A u \in Threads : Announcing(u) => pc'[u] = pc[u] /\ snap'[u] = snap[u]
    BY <2>7, WorkerAlone DEF Announcing
  <2>9. ASSUME NEW u \in Threads, Announcing(u) PROVE Announcing(u)'
    BY <2>8, <2>9 DEF Announcing
  <2>10. Full' = Full
    BY <2>1 DEF Full
  <2> QED
    BY <2>1, <2>3, <2>6, <2>9, <2>10 DEF TaskSeen
<1> QED
  BY <1>3, <1>4, <1>5, <1>6

LEMMA CallSpare ==
    ASSUME LocalsOK, TypeOK, WordCounts, Limits = {}, SpareLocals, SignalHeard, TaskSeen,
           NEW s \in Schedulers, Schedule(s) \/ LimitThreads(s) \/ AllowThreads(s) \/ Warm(s)
    PROVE  SpareLocals' /\ SignalHeard' /\ TaskSeen'
<1>0. /\ s \notin Workers /\ s \in Threads /\ s \in DOMAIN pc /\ sync \in SyncWords
      /\ WarmTo <= Cardinality(Workers) /\ WarmTo \in Nat
  BY ThreadPoolAssumption, WorkersCount DEF Threads, LocalsOK, TypeOK
<1>1. Schedule(s) \/ Warm(s)
  BY DEF LimitThreads, AllowThreads
<1>2. /\ \A u \in (Threads \cup {Owner}) \ {s} : pc'[u] = pc[u]
      /\ pc[s] \in {"out", "warm"}
      /\ UNCHANGED <<isWaking, snap, wake, spawn, isIdle, buf>>
      /\ token' = token
  BY CallerAlone DEF eventVars
<1>3. pc'[s] \in {"out", "warm", "notify", "spawn"} /\ allowed' = allowed
  BY <1>0, <1>1 DEF Schedule, Warm, Goto, LocalsOK
<1>4. SpareLocals'
  <2>1. \A w \in Workers : pc'[w] = pc[w]
    BY <1>0, <1>2 DEF Threads
  <2>2. \A t \in Threads : pc'[t] = pc[t] \/ pc'[t] \in {"out", "warm", "notify", "spawn"}
    BY <1>2, <1>3
  <2> QED
    BY <1>2, <1>3, <2>1, <2>2 DEF SpareLocals
<1>5. SignalHeard'
  <2>1. sync'.state = sync.state
    BY <1>0, <1>1 DEF Schedule, Warm, SyncWords
  <2>2. \A u \in Threads : pc[u] \in {"signal", "spawn", "register", "wait"} => pc'[u] = pc[u]
    BY <1>2
  <2> QED
    BY <1>2, <2>1, <2>2 DEF SignalHeard, Threads
<1>6. TaskSeen'
  <2>1. CASE Schedule(s)
    <3>1. pc'[s] = "notify" /\ sync' = sync
      BY <1>0, <2>1 DEF Schedule, Goto
    <3>2. Full' = Full
      BY <3>1 DEF Full
    <3> QED
      BY <1>0, <3>1, <3>2 DEF TaskSeen, Announcing
  <2>2. CASE Warm(s)
    <3>1. /\ sync' = sync \/ ~Full
          /\ sync'.state = sync.state /\ sync'.notified = sync.notified
          /\ queue' = queue
      BY <1>0, <2>2, WorkersCount DEF Warm, Full, SyncWords, taskVars
    <3>2. Full => Full'
      BY <3>1 DEF Full
    <3>3. ASSUME NEW u \in Threads, Announcing(u) PROVE Announcing(u)'
      BY <1>2, <3>3 DEF Announcing
    <3>4. Waiting' = Waiting
      BY <1>2, <3>1 DEF Waiting
    <3> QED
      BY <1>2, <3>1, <3>2, <3>3, <3>4 DEF TaskSeen
  <2> QED
    BY <1>1, <2>1, <2>2
<1> QED
  BY <1>4, <1>5, <1>6

\* keeps_spare_thread_awake is set when the pool is made.
LEMMA SpareModeKept == [Next]_vars => keepsSpare' = keepsSpare
<1> SUFFICES ASSUME [Next]_vars PROVE keepsSpare' = keepsSpare
  OBVIOUS
<1>1. ASSUME NEW t \in Threads, Notify(t) \/ SpawnFails(t) PROVE keepsSpare' = keepsSpare
  BY <1>1 DEF Notify, SpawnFails, Spawn, NotifyFast, SlowLoad, SlowLimit, SlowCas, Signal,
     ScanQueue, ScanThread
<1>2. ASSUME NEW w \in Workers, Work(w) \/ Retire(w) \/ ScheduleInside(w)
      PROVE keepsSpare' = keepsSpare
  BY <1>2 DEF Work, Retire, ScheduleInside, Register, WaitConsume, WaitIdle, WaitSleep,
     SleepEnter, SleepLeave, PopRing, PopQueue, Grab, Publish, Steal, PopNone, RunTask,
     Exit, Unregister, JoinNotify, Released
<1>3. ASSUME NEW s \in Schedulers, Schedule(s) \/ LimitThreads(s) \/ AllowThreads(s) \/ Warm(s)
      PROVE keepsSpare' = keepsSpare
  BY <1>3 DEF Schedule, LimitThreads, AllowThreads, Warm
<1>4. CASE Shutdown \/ Drop
  BY <1>4 DEF Shutdown, Drop, CloseEvent, Join, JoinWait, ReleaseFirst
<1>5. CASE UNCHANGED vars
  BY <1>5 DEF vars
<1> QED
  BY <1>1, <1>2, <1>3, <1>4, <1>5 DEF Next

LEMMA InitSpare == Init => SpareIInv
<1> SUFFICES ASSUME Init PROVE SpareLocals /\ SignalHeard /\ TaskSeen
  BY DEF SpareIInv
<1>1. \A t \in Threads : pc[t] \in {"unborn", "out"}
  BY DEF Init
<1>2. SpareLocals
  BY <1>1 DEF Init, SpareLocals, Threads
<1>3. sync.state = "Pending" /\ ~sync.notified /\ Waiting = {}
  BY DEF Init, NoSync, Waiting
<1> QED
  BY <1>2, <1>3 DEF SignalHeard, TaskSeen

\* SpareIInv is inductive beside PoolIInv.
LEMMA StepSpare ==
    ASSUME Limits = {}, ~MayRefuse, IsFiniteSet(Tasks)
    PROVE  PoolIInv /\ SpareIInv /\ [Next]_vars => SpareIInv'
<1> SUFFICES ASSUME PoolIInv, SpareIInv, [Next]_vars, keepsSpare', sync'.state # "Shutdown"
             PROVE  SpareLocals' /\ SignalHeard' /\ TaskSeen'
  BY DEF SpareIInv
<1>0. /\ LocalsOK /\ TypeOK /\ WordCounts /\ StateExact
      /\ \A w \in Workers : WorkerPlaced(w)
      /\ \A t \in Threads : SlowLocals(t)
  BY Parts
<1>1. ASSUME keepsSpare, sync.state # "Shutdown" PROVE SpareLocals /\ SignalHeard /\ TaskSeen
  BY <1>1 DEF SpareIInv
<1>2. keepsSpare
  BY SpareModeKept
<1>3. ASSUME NEW t \in Threads, Notify(t) \/ SpawnFails(t)
      PROVE  SpareLocals' /\ SignalHeard' /\ TaskSeen'
  <2>1. Notify(t)
    BY <1>3 DEF SpawnFails
  <2>2. sync.state # "Shutdown" /\ ~closed
    BY <1>0, <2>1, NotifyState DEF StateExact
  <2> QED
    BY <1>0, <1>1, <1>2, <2>1, <2>2, NotifySpareLocals, NotifySignalHeard, NotifyTaskSeen
<1>4. ASSUME NEW w \in Workers, Work(w) \/ Retire(w) \/ ScheduleInside(w)
      PROVE  SpareLocals' /\ SignalHeard' /\ TaskSeen'
  <2>1. sync.state # "Shutdown"
    BY <1>0, <1>4, WorkState
  <2> QED
    BY <1>0, <1>1, <1>2, <1>4, <2>1, WorkSpareLocals, WorkSignalHeard, WorkTaskSeen
<1>5. ASSUME NEW s \in Schedulers, Schedule(s) \/ LimitThreads(s) \/ AllowThreads(s) \/ Warm(s)
      PROVE  SpareLocals' /\ SignalHeard' /\ TaskSeen'
  <2>1. sync.state # "Shutdown"
    BY <1>0, <1>5, CallState
  <2> QED
    BY <1>0, <1>1, <1>2, <1>5, <2>1, CallSpare
<1>6. CASE Shutdown \/ Drop
  BY <1>0, <1>6, OwnerState
<1>7. CASE UNCHANGED vars
  <2>1. /\ UNCHANGED <<sync, allowed, pc, isWaking, isIdle>>
        /\ UNCHANGED <<snap, wake, spawn>> /\ token' = token
        /\ UNCHANGED <<queue, buf>>
    BY <1>7 DEF vars, notifyVars, eventVars, taskVars
  <2>2. SpareLocals /\ SignalHeard /\ TaskSeen
    BY <1>1, <1>2, <2>1
  <2> QED
    BY <2>1, <2>2 DEF SpareLocals, SignalHeard, TaskSeen, Full, Waiting, Announcing
<1> QED
  BY <1>3, <1>4, <1>5, <1>6, <1>7 DEF Next

\* ThreadPool.rs: in a pool that keeps a spare thread awake a task does not wait for a
\* thread that the pool could start: once every worker there is runs a callback the pool
\* has all its workers.  Nobody calls limit_threads() on such a pool; and a thread that the
\* OS refuses is not tried again, so none is refused.
THEOREM PoolSpareThreadKept ==
    ASSUME Limits = {}, ~MayRefuse, IsFiniteSet(Tasks)
    PROVE  Spec => []SpareThreadKept
<1>1. PoolIInv /\ SpareIInv => SpareThreadKept
  <2>1. SUFFICES ASSUME PoolIInv, SpareIInv, keepsSpare, Settled, Waiting # {},
                        \A w \in Alive : pc[w] = "run"
                 PROVE  sync.spawned >= allowed
    BY DEF SpareThreadKept, WaitingTaskGetsThread
  <2>2. /\ LocalsOK /\ WordCounts /\ Role /\ StateExact
        /\ \A w \in Workers : WorkerPlaced(w)
    BY <2>1, Parts
  <2>3. /\ sync.state # "Shutdown" /\ ~token
        /\ \A s \in Schedulers : pc[s] = "out"
        /\ \A w \in Workers : pc[w] \in {"unborn", "run"}
    BY <2>1, <2>2 DEF Settled, StateExact, Alive
  <2>4. SpareLocals /\ SignalHeard /\ TaskSeen
    BY <2>1, <2>3 DEF SpareIInv
  <2>5. \A t \in Threads : pc[t] \in {"unborn", "run", "out"}
    BY <2>3 DEF Threads
  <2>6. sync.state # "Waking"
    BY <2>2, <2>3, <2>4 DEF Role, Waking, WorkerPlaced, SpareLocals
  <2>7. sync.state # "Signaled"
    BY <2>3, <2>4, <2>5 DEF SignalHeard
  <2>8. sync.state = "Pending"
    BY <2>2, <2>3, <2>6, <2>7 DEF WordCounts, SyncWords
  <2>9. \A w \in Workers : ~isIdle[w]
    BY <2>3, <2>4 DEF SpareLocals
  <2>10. Full
    BY <2>1, <2>4, <2>5, <2>8, <2>9 DEF TaskSeen, Announcing
  <2> QED
    BY <2>4, <2>10, WorkersCount DEF Full, SpareLocals
<1>2. Spec => [](PoolIInv /\ SpareIInv)
  BY InitIInv, InitSpare, StepIInv, StepSpare, PTL DEF Spec
<1> QED
  BY <1>1, <1>2, PTL
=============================================================================
