----------------------------- MODULE Condition ------------------------------
(***************************************************************************)
(* The futex implementation of Condition.rs (FutexImpl): one word that     *)
(* packs a waiter count and a signal count, and an epoch word that         *)
(* sleepers compare.                                                       *)
(*                                                                         *)
(* Waiters call wait() or timed_wait() with the mutex held; Wakers call    *)
(* signal() or broadcast(), with the mutex or without it.  The mutex is    *)
(* the abstract Ownership.  One action is one atomic access or futex call. *)
(* A compare_exchange_weak that fails spuriously reloads the value it      *)
(* expected and changes nothing, so it is a stuttering step.               *)
(***************************************************************************)
EXTENDS Naturals, FiniteSets

CONSTANTS Waiters, Wakers, NoOwner,
          MaxWakes    \* bound: wake() calls that may bump the epoch

ConditionAssumption == /\ NoOwner \notin Waiters \cup Wakers
                       /\ Waiters \cap Wakers = {}
                       /\ IsFiniteSet(Waiters) /\ IsFiniteSet(Wakers)
                       /\ MaxWakes \in Nat

VARIABLES owner,      \* the mutex
          state,      \* [waiters, signals], the two halves of the word
          epoch,
          pc,
          seen,       \* each thread's last load of state
          observed,   \* each waiter's last load of epoch
          todo,       \* each waker: how many threads its wake() is about
          parked      \* threads asleep on the epoch

vars == <<owner, state, epoch, pc, seen, observed, todo, parked>>

Threads == Waiters \cup Wakers
Zero    == [waiters |-> 0, signals |-> 0]

mutex == INSTANCE Ownership

Goto(t, label) == pc' = [pc EXCEPT ![t] = label]
See(t, s)      == seen' = [seen EXCEPT ![t] = s]

Init == /\ owner = NoOwner
        /\ state = Zero
        /\ epoch = 0
        /\ pc = [t \in Threads |-> "out"]
        /\ seen = [t \in Threads |-> Zero]
        /\ observed = [t \in Waiters |-> 0]
        /\ todo = [t \in Wakers |-> 0]
        /\ parked = {}

-----------------------------------------------------------------------------
(* Callers: lock the mutex, and unlock it when done. *)

Enter(t) == /\ pc[t] = "out"
            /\ mutex!Acquire(t)
            /\ Goto(t, "locked")
            /\ UNCHANGED <<state, epoch, seen, observed, todo, parked>>

Leave(t) == /\ pc[t] = "locked"
            /\ mutex!Release(t)
            /\ Goto(t, "out")
            /\ UNCHANGED <<state, epoch, seen, observed, todo, parked>>

-----------------------------------------------------------------------------
(* wait() *)

\* The epoch is observed first ...
ObserveEpoch(t) == /\ t \in Waiters
                   /\ pc[t] = "locked"
                   /\ observed' = [observed EXCEPT ![t] = epoch]
                   /\ Goto(t, "add")
                   /\ UNCHANGED <<owner, state, epoch, seen, todo, parked>>

\* ... then the waiter counts itself in (fetch_add ONE_WAITER).
AddWaiter(t) == /\ pc[t] = "add"
                /\ state' = [state EXCEPT !.waiters = @ + 1]
                /\ See(t, state')
                /\ Goto(t, "unlock")
                /\ UNCHANGED <<owner, epoch, observed, todo, parked>>

UnlockMutex(t) == /\ pc[t] = "unlock"
                  /\ mutex!Release(t)
                  /\ Goto(t, "sleep")
                  /\ UNCHANGED <<state, epoch, seen, observed, todo, parked>>

\* futex_deadline.wait(&epoch, observed).
FutexWait(t) == /\ pc[t] = "sleep"
                /\ IF epoch = observed[t]
                   THEN Goto(t, "parked") /\ parked' = parked \cup {t}
                   ELSE Goto(t, "reload") /\ UNCHANGED parked
                /\ UNCHANGED <<owner, state, epoch, seen, observed, todo>>

SpuriousWake(t) == /\ t \in parked
                   /\ parked' = parked \ {t}
                   /\ Goto(t, "reload")
                   /\ UNCHANGED <<owner, state, epoch, seen, observed, todo>>

\* timed_wait(): the futex wait reports Timeout.
Timeout(t) == /\ t \in parked
              /\ parked' = parked \ {t}
              /\ Goto(t, "timeout")
              /\ UNCHANGED <<owner, state, epoch, seen, observed, todo>>

\* compare_exchange_weak(seen, new): on success go to label, else reload seen.
CompareExchange(t, new, label) ==
    IF state = seen[t]
    THEN state' = new /\ Goto(t, label) /\ UNCHANGED seen
    ELSE See(t, state) /\ UNCHANGED <<state, pc>>

Consumed(s)      == [waiters |-> s.waiters - 1, signals |-> s.signals - 1]
WithoutWaiter(s) == [s EXCEPT !.waiters = @ - 1]

\* On timeout, use a signal if there is one, otherwise take the waiter back.
LeaveOnTimeout(t) ==
    /\ pc[t] = "timeout"
    /\ CompareExchange(t, IF seen[t].signals # 0 THEN Consumed(seen[t])
                                                 ELSE WithoutWaiter(seen[t]),
                       "relock")
    /\ UNCHANGED <<owner, epoch, observed, todo, parked>>

\* After a wake-up the epoch is loaded before the state.
ReloadEpoch(t) == /\ pc[t] = "reload"
                  /\ observed' = [observed EXCEPT ![t] = epoch]
                  /\ Goto(t, "load")
                  /\ UNCHANGED <<owner, state, epoch, seen, todo, parked>>

LoadState(t) == /\ pc[t] = "load"
                /\ See(t, state)
                /\ Goto(t, "consume")
                /\ UNCHANGED <<owner, state, epoch, observed, todo, parked>>

\* Slip: take the waiter out and leave the signal behind.
ConsumeKeepsSignal(t) ==
    /\ pc[t] = "consume"
    /\ IF seen[t].signals = 0
       THEN Goto(t, "sleep") /\ UNCHANGED <<state, seen>>
       ELSE CompareExchange(t, WithoutWaiter(seen[t]), "relock")
    /\ UNCHANGED <<owner, epoch, observed, todo, parked>>

\* Use a signal and leave, or sleep again.
Consume(t) == /\ pc[t] = "consume"
              /\ IF seen[t].signals = 0
                 THEN Goto(t, "sleep") /\ UNCHANGED <<state, seen>>
                 ELSE CompareExchange(t, Consumed(seen[t]), "relock")
              /\ UNCHANGED <<owner, epoch, observed, todo, parked>>

\* The deferred mutex.lock() of both exits.
Relock(t) == /\ pc[t] = "relock"
             /\ mutex!Acquire(t)
             /\ Goto(t, "locked")
             /\ UNCHANGED <<state, epoch, seen, observed, todo, parked>>

-----------------------------------------------------------------------------
(* wake() *)

WakeLoad(t) == /\ t \in Wakers
               /\ pc[t] \in {"out", "locked"}
               /\ epoch < MaxWakes
               /\ See(t, state)
               /\ \E notify \in {"one", "all"} : Goto(t, notify)
               /\ UNCHANGED <<owner, state, epoch, observed, todo, parked>>

WakeReturns(t) == Goto(t, IF owner = t THEN "locked" ELSE "out")

\* Slip: signal without looking at how many waiters have a signal already.
WakeReserveBlindly(t) ==
    /\ pc[t] \in {"one", "all"}
    /\ state' = [state EXCEPT !.signals = @ + 1]
    /\ todo' = [todo EXCEPT ![t] = 1]
    /\ Goto(t, "bump")
    /\ UNCHANGED <<owner, epoch, seen, observed, parked>>

\* Reserve the waiters to wake by adding signals, at most one per waiter.
WakeReserve(t) ==
    LET wakeable == seen[t].waiters - seen[t].signals
        to_wake  == IF pc[t] = "one" THEN 1 ELSE wakeable
    IN  /\ pc[t] \in {"one", "all"}
        /\ IF wakeable = 0
           THEN WakeReturns(t) /\ UNCHANGED <<state, seen, todo>>
           ELSE /\ CompareExchange(t, [seen[t] EXCEPT !.signals = @ + to_wake], "bump")
                /\ todo' = [todo EXCEPT ![t] = to_wake]
        /\ UNCHANGED <<owner, epoch, observed, parked>>

\* Slip: the futex wake without the epoch change.
KeepEpoch(t) == /\ pc[t] = "bump"
                /\ Goto(t, "wake")
                /\ UNCHANGED <<owner, state, epoch, seen, observed, todo, parked>>

BumpEpoch(t) == /\ pc[t] = "bump"
                /\ epoch' = epoch + 1
                /\ Goto(t, "wake")
                /\ UNCHANGED <<owner, state, seen, observed, todo, parked>>

\* Futex::wake(&epoch, to_wake): wakes to_wake sleepers, or all there are.
FutexWake(t) ==
    /\ pc[t] = "wake"
    /\ \E W \in SUBSET parked :
          /\ \/ Cardinality(W) = todo[t]
             \/ Cardinality(W) < todo[t] /\ W = parked
          /\ parked' = parked \ W
          /\ pc' = [u \in Threads |->
                      IF u \in W THEN "reload"
                      ELSE IF u = t THEN (IF owner = t THEN "locked" ELSE "out")
                      ELSE pc[u]]
    /\ UNCHANGED <<owner, state, epoch, seen, observed, todo>>

\* The steps of a call that has begun.
Inside(t) == \/ AddWaiter(t) \/ UnlockMutex(t) \/ FutexWait(t)
             \/ LeaveOnTimeout(t) \/ ReloadEpoch(t) \/ LoadState(t) \/ Consume(t)
             \/ Relock(t) \/ WakeReserve(t) \/ BumpEpoch(t) \/ FutexWake(t)

Next == \E t \in Threads :
           \/ Enter(t) \/ Leave(t) \/ ObserveEpoch(t) \/ WakeLoad(t)
           \/ Inside(t) \/ SpuriousWake(t) \/ Timeout(t)

Spec == Init /\ [][Next]_vars

\* A thread inside wait() or wake() keeps running, and callers unlock the mutex.
Fairness == \A t \in Threads : WF_vars(Inside(t) \/ Leave(t))

FairSpec == Spec /\ Fairness

-----------------------------------------------------------------------------
Words == [waiters : 0 .. Cardinality(Waiters), signals : 0 .. Cardinality(Waiters)]

Labels == {"out", "locked", "add", "unlock", "sleep", "parked", "timeout",
           "reload", "load", "consume", "relock", "one", "all", "bump", "wake"}

\* Both halves of the word stay within their 16 bits (here: within the number of
\* waiters), in the word and in every copy that wait() and wake() work on.
TypeOK == /\ owner \in Threads \cup {NoOwner}
          /\ state \in Words
          /\ epoch \in Nat
          /\ pc \in [Threads -> Labels]
          /\ seen \in [Threads -> Words]
          /\ observed \in [Waiters -> Nat]
          /\ todo \in [Wakers -> 0 .. Cardinality(Waiters)]
          /\ parked = {t \in Threads : pc[t] = "parked"}

\* The threads whose fetch_add has counted them in.
Registered == {t \in Waiters : pc[t] \in {"unlock", "sleep", "parked", "timeout",
                                          "reload", "load", "consume"}}

\* The packed word never underflows and never promises a wake-up that nobody can
\* use: wake()'s comment, "the signals count is always less than or equal to the
\* waiters count", with the waiter count exact whatever timed out or was woken.
WordExact == /\ TypeOK
             /\ state.waiters = Cardinality(Registered)
             /\ state.signals <= state.waiters

\* The waiters that will look at the word before they sleep: the others are parked,
\* or on their way into the futex with the epoch as it is.
AwakeWaiters == {t \in Registered : pc[t] # "parked" /\ (pc[t] \in {"unlock", "sleep"}
                                                            => observed[t] # epoch)}

\* A granted wake-up cannot be slept through: while signals are outstanding some
\* waiter is awake or about to see that the epoch moved, or a wake() has yet to
\* bump the epoch or to issue its futex wake.
NoLostSignal ==
    state.signals > 0 =>
        AwakeWaiters # {} \/ \E t \in Wakers : pc[t] \in {"bump", "wake"}

\* wait() and wake() have their own labels, the copies of the word are as sound as the
\* word, and no waiter is ahead of the epoch.
CallsApart ==
    /\ \A t \in Waiters : pc[t] \notin {"one", "all", "bump", "wake"}
    /\ \A t \in Wakers : pc[t] \in {"out", "locked", "one", "all", "bump", "wake"}
    /\ \A t \in Threads : seen[t].signals <= seen[t].waiters
    /\ \A t \in Waiters : observed[t] <= epoch

\* The wake-ups reserved by the wakers at a label, a pair for each.
Reserved(label) == {g \in Wakers \X (1 .. Cardinality(Waiters)) :
                       pc[g[1]] = label /\ g[2] <= todo[g[1]]}

\* Every signal has somebody to use it: a waiter that is awake, one that will be when
\* the epoch moves, or a parked one and a futex wake that gets it.
SignalsCovered ==
    LET coming == Cardinality(AwakeWaiters) + Cardinality(Reserved("bump"))
    IN  /\ state.signals <= coming + Cardinality(Reserved("wake"))
        /\ state.signals <= coming + Cardinality(parked)

\* A waiter that has found no signal goes back to sleep: while the epoch has not moved
\* since, all signals are of wakers that have yet to move it.
NoneSinceLoad == \A t \in Waiters :
    pc[t] = "consume" /\ seen[t].signals = 0 /\ observed[t] = epoch
        => state.signals <= Cardinality(Reserved("bump"))

\* The inductive strengthening of WordExact and NoLostSignal.
IInv == WordExact /\ CallsApart /\ SignalsCovered /\ NoneSinceLoad

\* Every wake-up that wake() reserved ends a wait(): once the signals stop, none
\* of them stays unconsumed while threads sleep.
SignalsDelivered == (state.signals > 0) ~> (state.signals = 0)

abstract == INSTANCE CondVar WITH blocked <- Registered, credits <- state.signals

\* The two words and the futex behave like CondVar: one grant per waiter at most,
\* each Ok return uses one, a timeout only when there is none.
RefinesCondVar == abstract!Spec
=============================================================================
