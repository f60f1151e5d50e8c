--------------------------- MODULE SleepersProofs ---------------------------
(***************************************************************************)
(* The packed word of Condition.rs is exact and none of its signals is     *)
(* slept through, for any number of waiters and wakers.                    *)
(*                                                                         *)
(* Every signal is matched with somebody who will use it.  The wake-ups    *)
(* that wake() calls have reserved are counted as a set of pairs, so that  *)
(* a sum over wakers is the cardinality of a finite set.                   *)
(***************************************************************************)
EXTENDS Sleepers, FiniteSetTheorems, TLAPS

-----------------------------------------------------------------------------
(* Counting *)

\* FiniteSets as Condition sees it is FiniteSets.
LEMMA ConditionCounts ==
    ASSUME NEW S
    PROVE  /\ condition!Cardinality(S) = Cardinality(S)
           /\ condition!IsFiniteSet(S) <=> IsFiniteSet(S)
  <1>1. condition!Cardinality(S) = Cardinality(S)
    BY DEF condition!Cardinality, Cardinality
  <1>2. condition!IsFiniteSet(S) <=> IsFiniteSet(S)
    BY DEF condition!IsFiniteSet, IsFiniteSet
  <1> QED
    BY <1>1, <1>2

\* The constants of Condition.
LEMMA ConditionConstants ==
    /\ IsFiniteSet(Waiters) /\ IsFiniteSet(Notifiers)
    /\ Waiters \cap Notifiers = {} /\ NoOwner \notin Waiters \cup Notifiers
    /\ MaxWakes \in Nat
    /\ Cardinality(Waiters) \in Nat
    /\ condition!Cardinality(Waiters) = Cardinality(Waiters)
  <1>1. /\ IsFiniteSet(Waiters) /\ IsFiniteSet(Notifiers)
        /\ Waiters \cap Notifiers = {} /\ NoOwner \notin Waiters \cup Notifiers
        /\ MaxWakes \in Nat
    BY SleepersAssumption, ConditionCounts DEF condition!ConditionAssumption
  <1> QED
    BY <1>1, FS_CardinalityType, ConditionCounts

\* A set without one of its elements, and a set that grows.
LEMMA CountGrows ==
    ASSUME NEW S, NEW T, NEW x, IsFiniteSet(T), S \ {x} \subseteq T
    PROVE  IsFiniteSet(S) /\ Cardinality(S) \in Nat /\ Cardinality(T) \in Nat
           /\ Cardinality(S) - 1 <= Cardinality(T)
           /\ (x \in T => Cardinality(S) <= Cardinality(T))
           /\ (x \in T /\ x \notin S => Cardinality(S) + 1 <= Cardinality(T))
  <1>1. IsFiniteSet(T \cup {x}) /\ S \subseteq T \cup {x}
    BY FS_AddElement
  <1>2. IsFiniteSet(S) /\ Cardinality(S) \in Nat /\ Cardinality(T) \in Nat
    BY <1>1, FS_Subset, FS_CardinalityType
  <1>3. Cardinality(S) <= Cardinality(T \cup {x}) /\ Cardinality(T \cup {x}) <= Cardinality(T) + 1
    BY <1>1, <1>2, FS_Subset, FS_AddElement
  <1>4. Cardinality(S) - 1 <= Cardinality(T)
    BY <1>1, <1>2, <1>3, FS_CardinalityType
  <1>5. ASSUME x \in T PROVE Cardinality(S) <= Cardinality(T)
    <2>1. S \subseteq T
      BY <1>5
    <2> QED
      BY <2>1, FS_Subset
  <1>6. ASSUME x \in T, x \notin S PROVE Cardinality(S) + 1 <= Cardinality(T)
    <2>1. S \subseteq T \ {x}
      BY <1>6
    <2>2. IsFiniteSet(T \ {x}) /\ Cardinality(T \ {x}) = Cardinality(T) - 1
      BY <1>6, FS_RemoveElement
    <2>3. Cardinality(S) <= Cardinality(T) - 1
      BY <2>1, <2>2, FS_Subset
    <2> QED
      BY <1>2, <2>3
  <1> QED
    BY <1>2, <1>4, <1>5, <1>6

\* One entry for each of the k wake-ups of t.
Grant(t, k) == {t} \X (1 .. k)

LEMMA GrantCount ==
    ASSUME NEW t, NEW k \in Nat
    PROVE  IsFiniteSet(Grant(t, k)) /\ Cardinality(Grant(t, k)) = k
  <1>1. IsFiniteSet(1 .. k) /\ Cardinality(1 .. k) = k
    BY FS_Interval
  <1>2. IsFiniteSet({t}) /\ Cardinality({t}) = 1
    BY FS_Singleton
  <1> QED
    BY <1>1, <1>2, FS_Product DEF Grant

\* A set gains or loses what is not, or is, in it.
LEMMA CountParts ==
    ASSUME NEW S, NEW G, IsFiniteSet(S), IsFiniteSet(G), S \cap G = {}
    PROVE  IsFiniteSet(S \cup G) /\ Cardinality(S \cup G) = Cardinality(S) + Cardinality(G)
  BY FS_Union, FS_EmptySet, FS_CardinalityType

NRegistered == Cardinality(condition!Registered)
NAwake      == Cardinality(condition!AwakeWaiters)
NBump       == Cardinality(condition!Reserved("bump"))
NWake       == Cardinality(condition!Reserved("wake"))
NParked     == Cardinality(sleeping)

\* The parts of condition!IInv that count.
Exact   == wakeups.waiters = NRegistered /\ wakeups.signals <= wakeups.waiters
Covered == /\ wakeups.signals <= NAwake + NBump + NWake
           /\ wakeups.signals <= NAwake + NBump + NParked
NoneNew == \A t \in Waiters :
    condPc[t] = "consume" /\ seen[t].signals = 0 /\ observed[t] = epoch => wakeups.signals <= NBump

CondInv == condition!TypeOK /\ condition!CallsApart /\ Exact /\ Covered /\ NoneNew

LEMMA CondInvIsIInv == CondInv <=> condition!IInv
  BY ConditionCounts
  DEF CondInv, Exact, Covered, NoneNew, condition!IInv, condition!WordExact,
      condition!SignalsCovered, condition!NoneSinceLoad,
      NRegistered, NAwake, NBump, NWake, NParked

\* The sets that are counted are finite.
LEMMA CondFinite ==
    ASSUME condition!TypeOK
    PROVE  /\ IsFiniteSet(condition!Registered) /\ IsFiniteSet(condition!AwakeWaiters)
           /\ IsFiniteSet(condition!Reserved("bump")) /\ IsFiniteSet(condition!Reserved("wake"))
           /\ IsFiniteSet(sleeping)
           /\ NRegistered \in 0 .. Cardinality(Waiters)
           /\ NAwake \in Nat /\ NBump \in Nat /\ NWake \in Nat /\ NParked \in Nat
  <1>1. /\ condition!Registered \subseteq Waiters /\ condition!AwakeWaiters \subseteq Waiters
        /\ sleeping \subseteq Waiters \cup Notifiers
    BY DEF condition!Registered, condition!AwakeWaiters, condition!TypeOK, condition!Threads
  <1>2. \A l : condition!Reserved(l) \subseteq Notifiers \X (1 .. Cardinality(Waiters))
    BY ConditionConstants DEF condition!Reserved
  <1>3. IsFiniteSet(Notifiers \X (1 .. Cardinality(Waiters)))
    <2>1. IsFiniteSet(1 .. Cardinality(Waiters))
      BY ConditionConstants, FS_Interval
    <2> QED
      BY <2>1, ConditionConstants, FS_Product
  <1>4. IsFiniteSet(Waiters \cup Notifiers)
    BY ConditionConstants, FS_Union
  <1>5. /\ IsFiniteSet(condition!Registered) /\ IsFiniteSet(condition!AwakeWaiters)
        /\ IsFiniteSet(condition!Reserved("bump")) /\ IsFiniteSet(condition!Reserved("wake"))
        /\ IsFiniteSet(sleeping)
    BY <1>1, <1>2, <1>3, <1>4, ConditionConstants, FS_Subset
  <1>6. NRegistered <= Cardinality(Waiters)
    BY <1>1, ConditionConstants, FS_Subset DEF NRegistered
  <1> QED
    BY <1>5, <1>6, FS_CardinalityType, ConditionConstants
    DEF NRegistered, NAwake, NBump, NWake, NParked

\* Nobody waits, nobody has been signalled.
LEMMA CondInit ==
    ASSUME condition!Init
    PROVE  CondInv
  <1>1. /\ condition!Registered = {} /\ sleeping = {}
        /\ condition!AwakeWaiters = {}
    BY DEF condition!Init, condition!Registered, condition!AwakeWaiters, condition!Threads
  <1>2. NRegistered = 0
    BY <1>1, FS_EmptySet DEF NRegistered
  <1>3. condition!TypeOK
    BY <1>1, ConditionConstants
    DEF condition!Init, condition!TypeOK, condition!Words, condition!Labels, condition!Threads,
        condition!Zero
  <1> QED
    BY <1>2, <1>3, CondFinite DEF condition!Init, CondInv, Exact, Covered, NoneNew,
        condition!CallsApart, condition!Threads, condition!Zero

-----------------------------------------------------------------------------
(* The shape of the state *)

\* What the counts take for granted.
Shape == condition!TypeOK /\ condition!CallsApart

LEMMA CallShape ==
    ASSUME CondInv, NEW t \in condition!Threads, condition!Enter(t) \/ condition!Leave(t)
    PROVE  Shape'
  BY ConditionConstants
  DEF CondInv, Shape, condition!Enter, condition!Leave, condition!TypeOK, condition!CallsApart,
      condition!Labels, condition!Threads, condition!Goto, condition!mutex!Acquire,
      condition!mutex!Release, condition!mutex!Hand

LEMMA WaitShape ==
    ASSUME CondInv, NEW t \in condition!Threads,
           \/ condition!ObserveEpoch(t) \/ condition!UnlockMutex(t)
           \/ condition!FutexWait(t) \/ condition!SpuriousWake(t) \/ condition!Timeout(t)
           \/ condition!ReloadEpoch(t) \/ condition!LoadState(t) \/ condition!Relock(t)
    PROVE  Shape'
  BY ConditionConstants
  DEF CondInv, Exact, Shape, condition!ObserveEpoch, condition!UnlockMutex, condition!FutexWait,
      condition!SpuriousWake, condition!Timeout, condition!ReloadEpoch, condition!LoadState,
      condition!Relock, condition!See,
      condition!TypeOK, condition!CallsApart,
      condition!Labels, condition!Threads, condition!Goto, condition!mutex!Acquire,
      condition!mutex!Release, condition!mutex!Hand

\* The waiter count has room for one more while a waiter is not counted.
LEMMA AddShape ==
    ASSUME CondInv, NEW t \in condition!Threads, condition!AddWaiter(t)
    PROVE  Shape' /\ Exact' /\ wakeups'.waiters = wakeups.waiters + 1
           /\ wakeups'.signals = wakeups.signals
  <1>0. condition!TypeOK /\ t \in Waiters /\ t \notin condition!Registered
    BY DEF CondInv, condition!AddWaiter, condition!CallsApart, condition!Threads,
           condition!Registered
  <1>1. condition!Registered' = condition!Registered \cup {t}
    BY <1>0 DEF CondInv, condition!AddWaiter, condition!Registered, condition!TypeOK,
                condition!Goto,
                condition!Threads
  <1>2. NRegistered' = NRegistered + 1
    BY <1>0, <1>1, CondFinite, FS_AddElement DEF NRegistered
  <1>3. NRegistered' \in 0 .. Cardinality(Waiters)
    <2>1. condition!Registered' \subseteq Waiters
      BY DEF condition!Registered
    <2>2. Cardinality(condition!Registered') <= Cardinality(Waiters)
      BY <2>1, ConditionConstants, FS_Subset
    <2> QED
      BY <1>0, <1>2, <2>2, CondFinite DEF NRegistered
  <1>4. /\ wakeups'.waiters = wakeups.waiters + 1 /\ wakeups'.signals = wakeups.signals
        /\ wakeups' = [waiters |-> wakeups.waiters + 1, signals |-> wakeups.signals]
    BY <1>0 DEF condition!AddWaiter, condition!TypeOK, condition!Words
  <1>5. wakeups' \in condition!Words /\ Exact'
    BY <1>0, <1>2, <1>3, <1>4, ConditionConstants
    DEF CondInv, Exact, condition!Words, condition!TypeOK
  <1> QED
    BY <1>0, <1>4, <1>5, ConditionConstants
    DEF CondInv, Exact, Shape, condition!AddWaiter, condition!See, condition!TypeOK,
        condition!CallsApart, condition!Labels, condition!Threads, condition!Goto

\* A waiter that leaves takes itself off the word, and a signal if there is one.
Retires(t) ==
    /\ t \in condition!Registered /\ wakeups = seen[t]
    /\ condition!Goto(t, "relock") /\ UNCHANGED <<owner, epoch, seen, observed, todo, sleeping>>
    /\ condPc[t] # "parked"
    /\ wakeups' = IF wakeups.signals # 0 THEN condition!Consumed(wakeups)
                                         ELSE condition!WithoutWaiter(wakeups)

\* A compare-exchange that fails is a new load of the word.
Rereads(t) ==
    /\ condition!See(t, wakeups)
    /\ UNCHANGED <<wakeups, owner, epoch, condPc, observed, todo, sleeping>>

LEMMA LeavingCases ==
    ASSUME CondInv, NEW t \in condition!Threads, condition!LeaveOnTimeout(t) \/ condition!Consume(t)
    PROVE  /\ t \in condition!Registered /\ condPc[t] \in {"timeout", "consume"}
           /\ \/ Retires(t)
              \/ Rereads(t)
              \/ /\ condPc[t] = "consume" /\ seen[t].signals = 0 /\ condition!Goto(t, "sleep")
                 /\ UNCHANGED <<wakeups, seen, owner, epoch, observed, todo, sleeping>>
  BY DEF CondInv, Retires, Rereads, condition!LeaveOnTimeout, condition!Consume,
         condition!CallsApart,
         condition!CompareExchange, condition!Registered, condition!Threads

LEMMA RetireShape ==
    ASSUME CondInv, NEW t \in condition!Threads, Retires(t)
    PROVE  /\ Shape' /\ Exact' /\ t \in Waiters
           /\ wakeups'.signals = IF wakeups.signals # 0 THEN wakeups.signals - 1 ELSE 0
  <1>0. condition!TypeOK /\ t \in Waiters /\ t \in condition!Registered
    BY DEF CondInv, Retires, condition!Registered
  <1>1. condition!Registered' = condition!Registered \ {t}
    BY <1>0 DEF Retires, condition!Registered, condition!TypeOK, condition!Goto,
                condition!Threads
  <1>2. NRegistered' = NRegistered - 1 /\ NRegistered > 0
    BY <1>0, <1>1, CondFinite, FS_RemoveElement, FS_EmptySet, SMTT(30) DEF NRegistered
  <1>3. /\ wakeups'.waiters = wakeups.waiters - 1
        /\ wakeups'.signals = IF wakeups.signals # 0 THEN wakeups.signals - 1 ELSE 0
        /\ wakeups' = [waiters |-> wakeups'.waiters, signals |-> wakeups'.signals]
    BY <1>0 DEF Retires, condition!Consumed, condition!WithoutWaiter, condition!TypeOK,
                condition!Words
  <1>4. /\ wakeups.waiters \in 0 .. Cardinality(Waiters) /\ wakeups.waiters > 0
        /\ wakeups.signals \in 0 .. Cardinality(Waiters) /\ wakeups.signals <= wakeups.waiters
        /\ Cardinality(Waiters) \in Nat
    BY <1>0, <1>2, ConditionConstants DEF CondInv, Exact, condition!TypeOK, condition!Words
  <1>5. /\ wakeups'.waiters \in 0 .. Cardinality(Waiters)
        /\ wakeups'.signals \in 0 .. Cardinality(Waiters)
        /\ wakeups'.signals <= wakeups'.waiters
    BY <1>3, <1>4
  <1>6. wakeups' \in condition!Words
    BY <1>3, <1>5, ConditionConstants DEF condition!Words
  <1>7. Exact'
    BY <1>2, <1>3, <1>5 DEF CondInv, Exact
  <1>8. Shape'
    BY <1>0, <1>6, ConditionConstants
    DEF CondInv, Shape, Retires, condition!TypeOK, condition!CallsApart, condition!Labels,
        condition!Threads, condition!Goto
  <1> QED
    BY <1>0, <1>3, <1>7, <1>8

LEMMA LeaveShape ==
    ASSUME CondInv, NEW t \in condition!Threads, condition!LeaveOnTimeout(t) \/ condition!Consume(t)
    PROVE  Shape'
  <1>1. CASE Rereads(t)
    BY <1>1 DEF CondInv, Exact, Shape, Rereads, condition!TypeOK, condition!CallsApart,
                condition!See,
                condition!Threads
  <1>2. CASE /\ condPc[t] = "consume" /\ seen[t].signals = 0 /\ condition!Goto(t, "sleep")
             /\ UNCHANGED <<wakeups, seen, owner, epoch, observed, todo, sleeping>>
    BY <1>2 DEF CondInv, Shape, condition!TypeOK, condition!CallsApart, condition!Goto,
                condition!Threads, condition!Labels
  <1> QED
    BY <1>1, <1>2, LeavingCases, RetireShape

\* A wake() that reserves k wake-ups.
Reserves(t, k) ==
    /\ t \in Notifiers /\ condPc[t] \in {"one", "all"} /\ wakeups = seen[t]
    /\ k \in 1 .. wakeups.waiters - wakeups.signals
    /\ k = 1 \/ k = wakeups.waiters - wakeups.signals
    /\ wakeups' = [wakeups EXCEPT !.signals = @ + k]
    /\ condition!Goto(t, "bump") /\ todo' = [todo EXCEPT ![t] = k]
    /\ UNCHANGED <<owner, epoch, seen, observed, sleeping>>

LEMMA ReservingCases ==
    ASSUME CondInv, NEW t \in condition!Threads, condition!WakeReserve(t)
    PROVE  /\ t \in Notifiers /\ condPc[t] \in {"one", "all"}
           /\ \/ \E x \in {"locked", "out"} :
                    /\ condition!Goto(t, x)
                    /\ UNCHANGED <<wakeups, seen, todo, owner, epoch, observed, sleeping>>
              \/ \E k \in 1 .. Cardinality(Waiters) :
                    /\ condition!See(t, wakeups) /\ todo' = [todo EXCEPT ![t] = k]
                    /\ UNCHANGED <<wakeups, owner, epoch, condPc, observed, sleeping>>
              \/ \E k \in 1 .. Cardinality(Waiters) : Reserves(t, k)
  <1> DEFINE wakeable == seen[t].waiters - seen[t].signals
             to_wake  == IF condPc[t] = "one" THEN 1 ELSE wakeable
  <1>1. t \in Notifiers /\ condPc[t] \in {"one", "all"}
    BY DEF CondInv, condition!WakeReserve, condition!CallsApart, condition!Threads
  <1>2. wakeable \in 0 .. Cardinality(Waiters) /\ Cardinality(Waiters) \in Nat
    BY ConditionConstants
    DEF CondInv, condition!TypeOK, condition!CallsApart, condition!Words, condition!Threads
  <1>3. CASE wakeable = 0
    BY <1>1, <1>3 DEF condition!WakeReserve, condition!WakeReturns
  <1>4. CASE wakeable # 0
    <2>1. to_wake \in 1 .. Cardinality(Waiters) /\ to_wake \in 1 .. wakeable
      BY <1>2, <1>4
    <2>2. CASE wakeups = seen[t]
      <3>1. Reserves(t, to_wake)
        BY <1>1, <1>4, <2>1, <2>2 DEF Reserves, condition!WakeReserve, condition!CompareExchange
      <3> QED
        BY <1>1, <2>1, <3>1
    <2>3. CASE wakeups # seen[t]
      <3>1. /\ condition!See(t, wakeups) /\ todo' = [todo EXCEPT ![t] = to_wake]
            /\ UNCHANGED <<wakeups, owner, epoch, condPc, observed, sleeping>>
        BY <1>4, <2>3 DEF condition!WakeReserve, condition!CompareExchange
      <3> QED
        BY <1>1, <2>1, <3>1
    <2> QED
      BY <2>2, <2>3
  <1> QED
    BY <1>2, <1>3, <1>4

LEMMA ReserveShape ==
    ASSUME CondInv, NEW t \in condition!Threads, NEW k \in 1 .. Cardinality(Waiters), Reserves(t, k)
    PROVE  /\ Shape' /\ wakeups'.signals = wakeups.signals + k
           /\ wakeups'.waiters = wakeups.waiters /\ wakeups'.signals <= wakeups'.waiters
  <1>1. /\ wakeups.waiters \in 0 .. Cardinality(Waiters)
        /\ wakeups.signals \in 0 .. Cardinality(Waiters)
        /\ wakeups' = [waiters |-> wakeups.waiters, signals |-> wakeups.signals + k]
        /\ wakeups'.waiters = wakeups.waiters /\ wakeups'.signals = wakeups.signals + k
        /\ Cardinality(Waiters) \in Nat
    BY ConditionConstants DEF CondInv, Reserves, condition!TypeOK, condition!Words
  <1>2. wakeups.signals + k \in 0 .. Cardinality(Waiters) /\ wakeups.signals + k <= wakeups.waiters
    BY <1>1 DEF Reserves
  <1>3. wakeups' \in condition!Words
    BY <1>1, <1>2, ConditionConstants DEF condition!Words
  <1> QED
    BY <1>1, <1>2, <1>3, ConditionConstants
    DEF CondInv, Shape, Reserves, condition!TypeOK, condition!CallsApart, condition!Labels,
        condition!Threads, condition!Goto

LEMMA WakeShape ==
    ASSUME CondInv, NEW t \in condition!Threads,
           \/ condition!WakeLoad(t) \/ condition!WakeReserve(t) \/ condition!BumpEpoch(t)
           \/ condition!FutexWake(t)
    PROVE  Shape'
  <1>1. CASE condition!WakeLoad(t)
    BY <1>1, ConditionConstants
    DEF CondInv, Exact, Shape, condition!WakeLoad, condition!See, condition!TypeOK,
        condition!CallsApart, condition!Labels, condition!Threads, condition!Goto
  <1>2. CASE condition!WakeReserve(t)
    <2>1. CASE \E x \in {"locked", "out"} :
                    /\ condition!Goto(t, x)
                    /\ UNCHANGED <<wakeups, seen, todo, owner, epoch, observed, sleeping>>
      BY <1>2, <2>1, ReservingCases, ZenonT(30)
      DEF CondInv, Shape, condition!TypeOK, condition!CallsApart, condition!Labels,
          condition!Threads, condition!Goto
    <2>2. CASE \E k \in 1 .. Cardinality(Waiters) :
                    /\ condition!See(t, wakeups) /\ todo' = [todo EXCEPT ![t] = k]
                    /\ UNCHANGED <<wakeups, owner, epoch, condPc, observed, sleeping>>
      BY <1>2, <2>2, ReservingCases, ConditionConstants
      DEF CondInv, Exact, Shape, condition!TypeOK, condition!CallsApart, condition!Threads,
          condition!See
    <2> QED
      BY <1>2, <2>1, <2>2, ReservingCases, ReserveShape
  <1>3. CASE condition!BumpEpoch(t)
    BY <1>3, ConditionConstants
    DEF CondInv, Shape, condition!BumpEpoch, condition!TypeOK, condition!CallsApart,
        condition!Labels, condition!Threads, condition!Goto
  <1>4. CASE condition!FutexWake(t)
    <2>1. PICK W \in SUBSET sleeping :
             /\ sleeping' = sleeping \ W
             /\ condPc' = [u \in condition!Threads |->
                      IF u \in W THEN "reload"
                      ELSE IF u = t THEN (IF owner = t THEN "locked" ELSE "out")
                      ELSE condPc[u]]
             /\ condPc[t] = "wake"
             /\ UNCHANGED <<owner, wakeups, epoch, seen, observed, todo>>
      BY <1>4 DEF condition!FutexWake
    <2>2. \A u \in sleeping : u \in Waiters /\ u # t
      BY <2>1 DEF CondInv, condition!TypeOK, condition!CallsApart, condition!Threads
    <2> QED
      BY <2>1, <2>2, ConditionConstants
      DEF CondInv, Shape, condition!TypeOK, condition!CallsApart, condition!Labels,
          condition!Threads
  <1> QED
    BY <1>1, <1>2, <1>3, <1>4

-----------------------------------------------------------------------------
(* The counts *)

\* A step that takes no waker to or from the bump and the futex wake.
LEMMA ReservedSame ==
    ASSUME \A u \in Notifiers :
              condPc[u] \in {"bump", "wake"} \/ condPc'[u] \in {"bump", "wake"}
                  => condPc'[u] = condPc[u] /\ todo'[u] = todo[u]
    PROVE  NBump' = NBump /\ NWake' = NWake
  <1>1. condition!Reserved("bump")' = condition!Reserved("bump")
    BY DEF condition!Reserved
  <1>2. condition!Reserved("wake")' = condition!Reserved("wake")
    BY DEF condition!Reserved
  <1> QED
    BY <1>1, <1>2 DEF NBump, NWake

\* The wakers at a label, one more or one less of them.
LEMMA ReservedMore ==
    ASSUME CondInv, NEW t \in Notifiers, NEW l \in {"bump", "wake"}, condPc[t] # l, condPc'[t] = l,
           todo'[t] \in 0 .. Cardinality(Waiters),
           \A u \in Notifiers \ {t} : condPc'[u] = condPc[u] /\ todo'[u] = todo[u]
    PROVE  Cardinality(condition!Reserved(l))' = Cardinality(condition!Reserved(l)) + todo'[t]
  <1>0. condition!TypeOK /\ Cardinality(Waiters) \in Nat
    BY ConditionConstants DEF CondInv
  <1>1. condition!Reserved(l)' = condition!Reserved(l) \cup Grant(t, todo'[t])
    BY <1>0, ConditionConstants DEF condition!Reserved, Grant
  <1>2. condition!Reserved(l) \cap Grant(t, todo'[t]) = {}
    BY DEF condition!Reserved, Grant
  <1>3. IsFiniteSet(condition!Reserved(l))
    BY <1>0, CondFinite
  <1>4. IsFiniteSet(Grant(t, todo'[t])) /\ Cardinality(Grant(t, todo'[t])) = todo'[t]
    BY <1>0, GrantCount
  <1>5. Cardinality(condition!Reserved(l) \cup Grant(t, todo'[t]))
            = Cardinality(condition!Reserved(l)) + Cardinality(Grant(t, todo'[t]))
    BY <1>2, <1>3, <1>4, CountParts
  <1> QED
    BY <1>1, <1>4, <1>5

LEMMA ReservedLess ==
    ASSUME CondInv, NEW t \in Notifiers, NEW l \in {"bump", "wake"}, condPc[t] = l, condPc'[t] # l,
           \A u \in Notifiers \ {t} : condPc'[u] = condPc[u] /\ todo'[u] = todo[u]
    PROVE  /\ Cardinality(condition!Reserved(l))' = Cardinality(condition!Reserved(l)) - todo[t]
           /\ Cardinality(condition!Reserved(l))' \in Nat /\ todo[t] \in Nat
  <1>0. condition!TypeOK /\ Cardinality(Waiters) \in Nat /\ todo[t] \in 0 .. Cardinality(Waiters)
    BY ConditionConstants DEF CondInv, condition!TypeOK
  <1> DEFINE R == condition!Reserved(l) \ Grant(t, todo[t])
  <1>1. condition!Reserved(l)' = R
    BY <1>0, ConditionConstants DEF condition!Reserved, Grant
  <1>2. condition!Reserved(l) = R \cup Grant(t, todo[t]) /\ R \cap Grant(t, todo[t]) = {}
    BY <1>0, ConditionConstants DEF condition!Reserved, Grant
  <1>3. IsFiniteSet(condition!Reserved(l))
    BY <1>0, CondFinite
  <1>4. IsFiniteSet(Grant(t, todo[t])) /\ Cardinality(Grant(t, todo[t])) = todo[t]
    BY <1>0, GrantCount
  <1>5. IsFiniteSet(R) /\ Cardinality(R) \in Nat
    BY <1>3, FS_Difference, FS_CardinalityType
  <1>6. Cardinality(condition!Reserved(l)) = Cardinality(R) + todo[t]
    BY <1>2, <1>4, <1>5, CountParts
  <1> QED
    BY <1>0, <1>1, <1>5, <1>6

\* And so in the next state.
LEMMA CondFiniteNext ==
    (condition!TypeOK =>
        /\ IsFiniteSet(condition!AwakeWaiters) /\ IsFiniteSet(sleeping)
        /\ NAwake \in Nat /\ NBump \in Nat /\ NWake \in Nat /\ NParked \in Nat)'
  <1>1. condition!TypeOK =>
           /\ IsFiniteSet(condition!AwakeWaiters) /\ IsFiniteSet(sleeping)
           /\ NAwake \in Nat /\ NBump \in Nat /\ NWake \in Nat /\ NParked \in Nat
    BY CondFinite
  <1> QED
    BY <1>1, PTL

\* The counts after the step.
Counted == Exact /\ Covered /\ NoneNew

\* A waiter moves and the word stays: who was awake is, or is parked no more.
LEMMA WaiterCounted ==
    ASSUME CondInv, Shape', NEW t \in Waiters, NEW x, condition!Goto(t, x),
           UNCHANGED <<wakeups, epoch, todo>>,
           condition!Registered' = condition!Registered,
           \A u \in Waiters \ {t} : seen'[u] = seen[u] /\ observed'[u] = observed[u],
           x = "consume" /\ seen'[t].signals = 0 => wakeups.signals = 0,
           \/ /\ condition!AwakeWaiters \subseteq condition!AwakeWaiters'
              /\ sleeping \subseteq sleeping'
           \/ /\ condition!AwakeWaiters' = condition!AwakeWaiters \cup {t}
              /\ t \notin condition!AwakeWaiters /\ sleeping' = sleeping \ {t}
           \/ /\ condition!AwakeWaiters' = condition!AwakeWaiters \ {t}
              /\ sleeping' = sleeping /\ wakeups.signals <= NBump
    PROVE  Counted'
  <1>0. condition!TypeOK /\ condition!TypeOK' /\ Exact /\ Covered /\ NoneNew
    BY DEF CondInv, Shape
  <1>1. NBump' = NBump /\ NWake' = NWake
    BY ReservedSame, ConditionConstants DEF CondInv, condition!Goto, condition!TypeOK,
                              condition!Threads
  <1>2. wakeups.signals \in Nat
    BY <1>0, ConditionConstants DEF condition!TypeOK, condition!Words
  <1>3. Exact'
    BY <1>0 DEF Exact, NRegistered
  <1>4. NoneNew'
    <2>1. \A u \in Waiters \ {t} : condPc'[u] = condPc[u]
      BY <1>0 DEF condition!Goto, condition!TypeOK, condition!Threads
    <2>2. condPc'[t] = x
      BY <1>0 DEF condition!Goto, condition!TypeOK, condition!Threads
    <2>3. NBump \in Nat
      BY <1>0, CondFinite
    <2> QED
      BY <1>0, <1>1, <1>2, <2>1, <2>2, <2>3 DEF NoneNew
  <1>5. /\ NAwake \in Nat /\ NBump \in Nat /\ NWake \in Nat /\ NParked \in Nat
        /\ IsFiniteSet(sleeping) /\ IsFiniteSet(condition!AwakeWaiters)
    BY <1>0, CondFinite
  <1>6. /\ IsFiniteSet(sleeping') /\ IsFiniteSet(condition!AwakeWaiters')
        /\ NAwake' \in Nat /\ NParked' \in Nat
    BY <1>0, CondFiniteNext
  <1>7. CASE /\ condition!AwakeWaiters \subseteq condition!AwakeWaiters'
             /\ sleeping \subseteq sleeping'
    <2>1. NAwake <= NAwake' /\ NParked <= NParked'
      BY <1>6, <1>7, FS_Subset DEF NAwake, NParked
    <2> QED
      BY <1>0, <1>1, <1>2, <1>3, <1>4, <1>5, <1>6, <2>1 DEF Counted, Covered
  <1>8. CASE /\ condition!AwakeWaiters' = condition!AwakeWaiters \cup {t}
             /\ t \notin condition!AwakeWaiters /\ sleeping' = sleeping \ {t}
    <2>1. NAwake' = NAwake + 1
      BY <1>5, <1>8, FS_AddElement DEF NAwake
    <2>2. NParked' = NParked \/ NParked' = NParked - 1
      BY <1>5, <1>8, FS_RemoveElement DEF NParked
    <2> QED
      BY <1>0, <1>1, <1>2, <1>3, <1>4, <1>5, <1>6, <2>1, <2>2 DEF Counted, Covered
  <1>9. CASE /\ condition!AwakeWaiters' = condition!AwakeWaiters \ {t}
             /\ sleeping' = sleeping /\ wakeups.signals <= NBump
    BY <1>1, <1>2, <1>3, <1>4, <1>5, <1>6, <1>9 DEF Counted, Covered
  <1> QED
    BY <1>7, <1>8, <1>9

\* The steps of wait() that leave the word alone.
LEMMA WaitCounted ==
    ASSUME CondInv, Shape', NEW t \in condition!Threads,
           \/ condition!ObserveEpoch(t) \/ condition!UnlockMutex(t)
           \/ condition!FutexWait(t) \/ condition!SpuriousWake(t) \/ condition!Timeout(t)
           \/ condition!ReloadEpoch(t) \/ condition!LoadState(t) \/ condition!Relock(t)
    PROVE  Counted'
  <1>0. /\ condition!TypeOK /\ t \in Waiters
        /\ condition!TypeOK'
    BY DEF CondInv, Shape, condition!ObserveEpoch, condition!UnlockMutex, condition!FutexWait,
           condition!SpuriousWake, condition!Timeout, condition!ReloadEpoch, condition!LoadState,
           condition!Relock, condition!TypeOK, condition!CallsApart, condition!Threads
  <1>1. CASE condition!ObserveEpoch(t)
    <2>1. /\ condition!Registered' = condition!Registered
          /\ condition!AwakeWaiters' = condition!AwakeWaiters
      BY <1>0, <1>1 DEF condition!ObserveEpoch, condition!Goto, condition!TypeOK,
                        condition!Threads,
                      condition!Registered, condition!AwakeWaiters
    <2>2. /\ condition!Goto(t, "add") /\ UNCHANGED <<wakeups, epoch, todo, sleeping>>
          /\ \A u \in Waiters \ {t} : seen'[u] = seen[u] /\ observed'[u] = observed[u]
      BY <1>0, <1>1 DEF condition!ObserveEpoch, condition!TypeOK, condition!Threads,
                        condition!See
    <2> QED
      BY <1>0, <2>1, <2>2, WaiterCounted
  <1>2. CASE condition!Relock(t)
    <2>1. /\ condition!Registered' = condition!Registered
          /\ condition!AwakeWaiters' = condition!AwakeWaiters
      BY <1>0, <1>2 DEF condition!Relock, condition!Goto, condition!TypeOK, condition!Threads,
                      condition!Registered, condition!AwakeWaiters
    <2>2. /\ condition!Goto(t, "locked") /\ UNCHANGED <<wakeups, epoch, todo, sleeping>>
          /\ \A u \in Waiters \ {t} : seen'[u] = seen[u] /\ observed'[u] = observed[u]
      BY <1>0, <1>2 DEF condition!Relock, condition!TypeOK, condition!Threads, condition!See
    <2> QED
      BY <1>0, <2>1, <2>2, WaiterCounted
  <1>3. CASE condition!UnlockMutex(t)
    <2>1. /\ condition!Registered' = condition!Registered
          /\ condition!AwakeWaiters' = condition!AwakeWaiters
      BY <1>0, <1>3 DEF condition!UnlockMutex, condition!Goto, condition!TypeOK,
                        condition!Threads,
                      condition!Registered, condition!AwakeWaiters
    <2>2. /\ condition!Goto(t, "sleep") /\ UNCHANGED <<wakeups, epoch, todo, sleeping>>
          /\ \A u \in Waiters \ {t} : seen'[u] = seen[u] /\ observed'[u] = observed[u]
      BY <1>0, <1>3 DEF condition!UnlockMutex, condition!TypeOK, condition!Threads,
                        condition!See
    <2> QED
      BY <1>0, <2>1, <2>2, WaiterCounted
  <1>4. CASE condition!ReloadEpoch(t)
    <2>1. /\ condition!Registered' = condition!Registered
          /\ condition!AwakeWaiters' = condition!AwakeWaiters
      BY <1>0, <1>4 DEF condition!ReloadEpoch, condition!Goto, condition!TypeOK,
                        condition!Threads,
                      condition!Registered, condition!AwakeWaiters
    <2>2. /\ condition!Goto(t, "load") /\ UNCHANGED <<wakeups, epoch, todo, sleeping>>
          /\ \A u \in Waiters \ {t} : seen'[u] = seen[u] /\ observed'[u] = observed[u]
      BY <1>0, <1>4 DEF condition!ReloadEpoch, condition!TypeOK, condition!Threads,
                        condition!See
    <2> QED
      BY <1>0, <2>1, <2>2, WaiterCounted
  <1>5. CASE condition!LoadState(t)
    <2>1. /\ condition!Registered' = condition!Registered
          /\ condition!AwakeWaiters' = condition!AwakeWaiters
      BY <1>0, <1>5 DEF condition!LoadState, condition!Goto, condition!TypeOK,
                        condition!Threads,
                      condition!Registered, condition!AwakeWaiters
    <2>2. /\ condition!Goto(t, "consume") /\ UNCHANGED <<wakeups, epoch, todo, sleeping>>
          /\ \A u \in Waiters \ {t} : seen'[u] = seen[u] /\ observed'[u] = observed[u]
      BY <1>0, <1>5 DEF condition!LoadState, condition!TypeOK, condition!Threads, condition!See
    <2>3. seen'[t] = wakeups
      BY <1>0, <1>5 DEF condition!LoadState, condition!TypeOK, condition!Threads, condition!See
    <2> QED
      BY <1>0, <2>1, <2>2, <2>3, WaiterCounted
  <1>6. CASE condition!FutexWait(t)
    <2>1. condition!Registered' = condition!Registered
      BY <1>0, <1>6 DEF condition!FutexWait, condition!Goto, condition!TypeOK,
                        condition!Threads,
                        condition!Registered
    <2>2. UNCHANGED <<wakeups, epoch, todo, seen, observed>>
      BY <1>6 DEF condition!FutexWait
    <2>3. CASE epoch = observed[t]
      <3>1. condition!Goto(t, "parked") /\ sleeping' = sleeping \cup {t}
        BY <1>6, <2>3 DEF condition!FutexWait
      <3>2. condition!AwakeWaiters \subseteq condition!AwakeWaiters'
        BY <1>0, <1>6, <2>1, <2>2, <2>3, <3>1 DEF condition!FutexWait, condition!Goto,
              condition!TypeOK, condition!Threads, condition!AwakeWaiters
      <3> QED
        BY <1>0, <2>1, <2>2, <3>1, <3>2, WaiterCounted
    <2>4. CASE epoch # observed[t]
      <3>1. condition!Goto(t, "reload") /\ sleeping' = sleeping
        BY <1>6, <2>4 DEF condition!FutexWait
      <3>2. condition!AwakeWaiters \subseteq condition!AwakeWaiters'
        BY <1>0, <1>6, <2>1, <2>2, <2>4, <3>1 DEF condition!FutexWait, condition!Goto,
              condition!TypeOK, condition!Threads, condition!AwakeWaiters
      <3> QED
        BY <1>0, <2>1, <2>2, <3>1, <3>2, WaiterCounted
    <2> QED
      BY <2>3, <2>4
  <1>7. CASE condition!SpuriousWake(t) \/ condition!Timeout(t)
    <2>1. PICK x \in {"reload", "timeout"} :
             /\ condition!Goto(t, x) /\ t \in sleeping /\ sleeping' = sleeping \ {t}
             /\ UNCHANGED <<wakeups, epoch, todo, seen, observed>>
      BY <1>7 DEF condition!SpuriousWake, condition!Timeout
    <2>2. /\ condition!Registered' = condition!Registered
          /\ condition!AwakeWaiters' = condition!AwakeWaiters \cup {t}
          /\ t \notin condition!AwakeWaiters
      BY <1>0, <2>1 DEF condition!Goto, condition!TypeOK, condition!Threads,
                        condition!Registered, condition!AwakeWaiters
    <2> QED
      BY <1>0, <2>1, <2>2, WaiterCounted
  <1> QED
    BY <1>1, <1>2, <1>3, <1>4, <1>5, <1>6, <1>7

\* A waiter that finds no signal, reloads the word, or leaves with a signal or without.
LEMMA LeaveCounted ==
    ASSUME CondInv, Shape', NEW t \in condition!Threads,
           condition!LeaveOnTimeout(t) \/ condition!Consume(t)
    PROVE  Counted'
  <1>0. /\ condition!TypeOK /\ condition!TypeOK' /\ t \in Waiters
        /\ t \in condition!Registered /\ condPc[t] \in {"timeout", "consume"}
    BY LeavingCases DEF CondInv, Shape, condition!Registered
  <1>1. CASE /\ condPc[t] = "consume" /\ seen[t].signals = 0 /\ condition!Goto(t, "sleep")
             /\ UNCHANGED <<wakeups, seen, owner, epoch, observed, todo, sleeping>>
    <2>1. condition!Registered' = condition!Registered
      BY <1>0, <1>1 DEF condition!Goto, condition!TypeOK, condition!Threads,
                        condition!Registered
    <2>2. CASE observed[t] = epoch
      <3>1. wakeups.signals <= NBump
        BY <1>0, <1>1, <2>2 DEF CondInv, NoneNew
      <3>2. condition!AwakeWaiters' = condition!AwakeWaiters \ {t}
        BY <1>0, <1>1, <2>1, <2>2 DEF condition!Goto, condition!TypeOK, condition!Threads,
                                      condition!AwakeWaiters
      <3> QED
        BY <1>0, <1>1, <2>1, <3>1, <3>2, WaiterCounted
    <2>3. CASE observed[t] # epoch
      <3>1. condition!AwakeWaiters' = condition!AwakeWaiters
        BY <1>0, <1>1, <2>1, <2>3 DEF condition!Goto, condition!TypeOK, condition!Threads,
                                      condition!AwakeWaiters
      <3> QED
        BY <1>0, <1>1, <2>1, <3>1, WaiterCounted
    <2> QED
      BY <2>2, <2>3
  <1>2. CASE Rereads(t)
    <2>1. /\ condition!Registered' = condition!Registered
          /\ condition!AwakeWaiters' = condition!AwakeWaiters
      BY <1>0, <1>2 DEF Rereads, condition!Registered, condition!AwakeWaiters
    <2>2. condition!Goto(t, condPc[t])
      BY <1>0, <1>2 DEF Rereads, condition!Goto, condition!TypeOK
    <2>3. /\ seen'[t] = wakeups
          /\ \A u \in Waiters \ {t} : seen'[u] = seen[u]
      BY <1>0, <1>2 DEF Rereads, condition!See, condition!TypeOK, condition!Threads
    <2> QED
      BY <1>0, <1>2, <2>1, <2>2, <2>3, WaiterCounted DEF Rereads
  <1>3. CASE Retires(t)
    <2>1. condition!AwakeWaiters' = condition!AwakeWaiters \ {t} /\ t \in condition!AwakeWaiters
      BY <1>0, <1>3 DEF Retires, condition!Goto, condition!TypeOK, condition!Threads,
                        condition!Registered, condition!AwakeWaiters
    <2>2. NAwake' = NAwake - 1
      BY <1>0, <2>1, CondFinite, FS_RemoveElement DEF NAwake
    <2>3. NBump' = NBump /\ NWake' = NWake /\ NParked' = NParked
      BY <1>0, <1>3, ReservedSame, ConditionConstants
      DEF Retires, condition!Goto, condition!TypeOK, condition!Threads, NParked
    <2>4. wakeups'.signals = IF wakeups.signals # 0 THEN wakeups.signals - 1 ELSE 0
      BY <1>3, RetireShape
    <2>5. /\ wakeups.signals \in Nat /\ NAwake \in Nat /\ NBump \in Nat /\ NWake \in Nat
          /\ NParked \in Nat /\ NAwake' \in Nat
      BY <1>0, CondFinite, CondFiniteNext, ConditionConstants DEF condition!TypeOK,
                              condition!Words
    <2>6. Covered'
      BY <2>2, <2>3, <2>4, <2>5 DEF CondInv, Covered
    <2>7. \A u \in Waiters : condPc'[u] = "consume" => condPc[u] = "consume"
      BY <1>0, <1>3 DEF Retires, condition!Goto, condition!TypeOK, condition!Threads
    <2>8. NoneNew'
      BY <1>3, <2>3, <2>4, <2>5, <2>7 DEF CondInv, NoneNew, Retires
    <2> QED
      BY <1>3, <2>6, <2>8, RetireShape DEF Counted
  <1> QED
    BY <1>1, <1>2, <1>3, LeavingCases

\* A waiter counts itself in.
LEMMA AddCounted ==
    ASSUME CondInv, Shape', NEW t \in condition!Threads, condition!AddWaiter(t)
    PROVE  Counted'
  <1>0. condition!TypeOK /\ condition!TypeOK' /\ t \in Waiters
    BY DEF CondInv, Shape, condition!AddWaiter, condition!CallsApart, condition!Threads
  <1>1. condition!AwakeWaiters \subseteq condition!AwakeWaiters'
    BY <1>0 DEF condition!AddWaiter, condition!Goto, condition!TypeOK, condition!Threads,
                condition!Registered, condition!AwakeWaiters
  <1>2. NAwake <= NAwake'
    BY <1>0, <1>1, CondFiniteNext, FS_Subset DEF NAwake
  <1>3. NBump' = NBump /\ NWake' = NWake /\ NParked' = NParked
    BY <1>0, ReservedSame, ConditionConstants
    DEF condition!AddWaiter, condition!Goto, condition!TypeOK, condition!Threads, NParked
  <1>4. /\ wakeups.signals \in Nat /\ NAwake \in Nat /\ NBump \in Nat /\ NWake \in Nat
        /\ NParked \in Nat /\ NAwake' \in Nat
    BY <1>0, CondFinite, CondFiniteNext, ConditionConstants DEF condition!TypeOK,
                              condition!Words
  <1>5. wakeups'.signals = wakeups.signals /\ Exact'
    BY AddShape
  <1>6. Covered'
    BY <1>2, <1>3, <1>4, <1>5 DEF CondInv, Covered
  <1>7. \A u \in Waiters : condPc'[u] = "consume" =>
           condPc[u] = "consume" /\ seen'[u] = seen[u]
    BY <1>0 DEF condition!AddWaiter, condition!See, condition!Goto, condition!TypeOK,
                condition!Threads
  <1>8. NoneNew'
    BY <1>3, <1>5, <1>7 DEF CondInv, NoneNew, condition!AddWaiter
  <1> QED
    BY <1>5, <1>6, <1>8 DEF Counted

\* A step that is of no waiter inside wait() and of no waker past its reservation.
LEMMA StillCounted ==
    ASSUME CondInv, UNCHANGED <<wakeups, epoch, observed, sleeping>>,
           condition!Registered' = condition!Registered,
           \A u \in condition!Registered : condPc'[u] = condPc[u] /\ seen'[u] = seen[u],
           \A u \in Notifiers :
              condPc[u] \in {"bump", "wake"} \/ condPc'[u] \in {"bump", "wake"}
                  => condPc'[u] = condPc[u] /\ todo'[u] = todo[u]
    PROVE  Counted'
  <1>1. NBump' = NBump /\ NWake' = NWake
    BY ReservedSame
  <1>2. condition!AwakeWaiters' = condition!AwakeWaiters
    BY DEF condition!AwakeWaiters
  <1>3. NRegistered' = NRegistered /\ NAwake' = NAwake /\ NParked' = NParked
    BY <1>2 DEF NRegistered, NAwake, NParked
  <1>4. \A u \in Waiters : condPc'[u] = "consume" => condPc[u] = "consume" /\ seen'[u] = seen[u]
    <2>1. \A u \in Waiters : condPc'[u] = "consume" => u \in condition!Registered'
      BY DEF condition!Registered
    <2> QED
      BY <2>1
  <1> QED
    BY <1>1, <1>3, <1>4 DEF CondInv, Counted, Exact, Covered, NoneNew

LEMMA CallCounted ==
    ASSUME CondInv, Shape', NEW t \in condition!Threads,
           condition!Enter(t) \/ condition!Leave(t) \/ condition!WakeLoad(t)
    PROVE  Counted'
  <1>0. condition!TypeOK
    BY DEF CondInv
  <1>1. UNCHANGED <<wakeups, epoch, observed, sleeping, todo>>
    BY DEF condition!Enter, condition!Leave, condition!WakeLoad
  <1>2. /\ condPc[t] \in {"out", "locked"}
        /\ \A u \in condition!Threads \ {t} : condPc'[u] = condPc[u] /\ seen'[u] = seen[u]
        /\ condPc'[t] \in {"out", "locked", "one", "all"}
    BY <1>0 DEF condition!Enter, condition!Leave, condition!WakeLoad, condition!Goto,
                condition!See,
                condition!TypeOK
  <1>3. condition!Registered' = condition!Registered /\ t \notin condition!Registered
    BY <1>2 DEF condition!Registered, condition!Threads
  <1>4. \A u \in condition!Registered : condPc'[u] = condPc[u] /\ seen'[u] = seen[u]
    BY <1>2, <1>3 DEF condition!Registered, condition!Threads
  <1>5. \A u \in Notifiers :
              condPc[u] \in {"bump", "wake"} \/ condPc'[u] \in {"bump", "wake"}
                  => condPc'[u] = condPc[u] /\ todo'[u] = todo[u]
    BY <1>1, <1>2 DEF condition!Threads
  <1> QED
    BY <1>1, <1>3, <1>4, <1>5, StillCounted

\* wake() adds as many signals as it has wake-ups to issue.
LEMMA ReserveCounted ==
    ASSUME CondInv, Shape', NEW t \in condition!Threads, condition!WakeReserve(t)
    PROVE  Counted'
  <1>0. /\ condition!TypeOK /\ condition!TypeOK' /\ t \in Notifiers /\ t \notin Waiters
        /\ t \notin condition!Registered /\ condPc[t] \in {"one", "all"}
    BY ReservingCases, ConditionConstants DEF CondInv, Shape, condition!Registered
  <1>1. CASE \E x \in {"locked", "out"} :
                /\ condition!Goto(t, x)
                /\ UNCHANGED <<wakeups, seen, todo, owner, epoch, observed, sleeping>>
    <2>1. condition!Registered' = condition!Registered
      BY <1>0, <1>1 DEF condition!Registered, condition!Goto, condition!TypeOK,
                        condition!Threads
    <2>2. \A u \in condition!Registered : condPc'[u] = condPc[u]
      BY <1>0, <1>1 DEF condition!Registered, condition!Goto, condition!TypeOK,
                        condition!Threads
    <2>3. \A u \in Notifiers :
              condPc[u] \in {"bump", "wake"} \/ condPc'[u] \in {"bump", "wake"}
                  => condPc'[u] = condPc[u]
      BY <1>0, <1>1 DEF condition!Goto, condition!TypeOK, condition!Threads
    <2> QED
      BY <1>1, <2>1, <2>2, <2>3, StillCounted
  <1>2. CASE \E k \in 1 .. Cardinality(Waiters) :
                /\ condition!See(t, wakeups) /\ todo' = [todo EXCEPT ![t] = k]
                /\ UNCHANGED <<wakeups, owner, epoch, condPc, observed, sleeping>>
    <2>1. condition!Registered' = condition!Registered
      BY <1>2 DEF condition!Registered
    <2>2. \A u \in condition!Registered : seen'[u] = seen[u]
      BY <1>0, <1>2 DEF condition!Registered, condition!See, condition!TypeOK, condition!Threads
    <2>3. \A u \in Notifiers : condPc[u] \in {"bump", "wake"} => todo'[u] = todo[u]
      BY <1>0, <1>2 DEF condition!TypeOK, condition!Threads
    <2> QED
      BY <1>2, <2>1, <2>2, <2>3, StillCounted
  <1>3. CASE \E k \in 1 .. Cardinality(Waiters) : Reserves(t, k)
    <2>1. PICK k \in 1 .. Cardinality(Waiters) : Reserves(t, k)
      BY <1>3
    <2>2. /\ condPc'[t] = "bump" /\ todo'[t] = k
          /\ \A u \in condition!Threads \ {t} : condPc'[u] = condPc[u]
          /\ \A u \in Notifiers \ {t} : todo'[u] = todo[u]
      BY <1>0, <2>1 DEF Reserves, condition!Goto, condition!TypeOK
    <2>3. NBump' = NBump + k
      BY <1>0, <2>2, ReservedMore, ConditionConstants DEF condition!Threads, NBump
    <2>4. NWake' = NWake
      <3>1. condition!Reserved("wake")' = condition!Reserved("wake")
        BY <1>0, <2>2 DEF condition!Reserved, condition!Threads
      <3> QED
        BY <3>1 DEF NWake
    <2>5. /\ condition!Registered' = condition!Registered
          /\ condition!AwakeWaiters' = condition!AwakeWaiters
      BY <1>0, <2>1, <2>2 DEF Reserves, condition!Registered, condition!AwakeWaiters,
                              condition!Threads
    <2>6. NRegistered' = NRegistered /\ NAwake' = NAwake /\ NParked' = NParked
      BY <2>1, <2>5 DEF Reserves, NRegistered, NAwake, NParked
    <2>7. /\ wakeups.signals \in Nat /\ NAwake \in Nat /\ NBump \in Nat /\ NWake \in Nat
          /\ NParked \in Nat /\ k \in Nat
      BY <1>0, CondFinite, ConditionConstants DEF condition!TypeOK, condition!Words
    <2>8. wakeups'.signals = wakeups.signals + k /\ Exact'
      BY <2>1, <2>6, ReserveShape DEF CondInv, Exact
    <2>9. Covered'
      BY <2>3, <2>4, <2>6, <2>7, <2>8 DEF CondInv, Covered
    <2>10. \A u \in Waiters : condPc'[u] = condPc[u]
      BY <1>0, <2>2 DEF condition!Threads
    <2>11. NoneNew'
      BY <2>1, <2>3, <2>7, <2>8, <2>10 DEF CondInv, NoneNew, Reserves
    <2> QED
      BY <2>8, <2>9, <2>11 DEF Counted
  <1> QED
    BY <1>1, <1>2, <1>3, ReservingCases

\* The new epoch: whoever was about to sleep on the old one is awake.
LEMMA BumpCounted ==
    ASSUME CondInv, Shape', NEW t \in condition!Threads, condition!BumpEpoch(t)
    PROVE  Counted'
  <1>0. /\ condition!TypeOK /\ condition!TypeOK' /\ t \in Notifiers /\ t \notin Waiters
    BY ConditionConstants DEF CondInv, Shape, condition!BumpEpoch, condition!CallsApart,
                              condition!Threads
  <1>1. /\ condPc[t] = "bump" /\ condPc'[t] = "wake" /\ epoch' = epoch + 1
        /\ UNCHANGED <<wakeups, seen, observed, todo, sleeping>>
        /\ \A u \in condition!Threads \ {t} : condPc'[u] = condPc[u]
    BY <1>0 DEF condition!BumpEpoch, condition!Goto, condition!TypeOK
  <1>2. todo[t] \in 0 .. Cardinality(Waiters) /\ epoch \in Nat
        /\ \A u \in Waiters : observed[u] \in Nat /\ observed[u] <= epoch
    BY <1>0, ConditionConstants DEF CondInv, condition!TypeOK, condition!CallsApart
  <1>3. \A u \in Waiters : observed'[u] # epoch'
    BY <1>1, <1>2
  <1>4. NBump' = NBump - todo[t] /\ NBump' \in Nat
    BY <1>0, <1>1, ReservedLess DEF condition!Threads, NBump
  <1>5. NWake' = NWake + todo[t]
    BY <1>0, <1>1, <1>2, ReservedMore DEF condition!Threads, NWake
  <1>6. condition!Registered' = condition!Registered
    BY <1>0, <1>1 DEF condition!Registered, condition!Threads
  <1>7. condition!AwakeWaiters' = {u \in condition!Registered : condPc[u] # "parked"}
    BY <1>0, <1>1, <1>3, <1>6 DEF condition!AwakeWaiters, condition!Registered,
                              condition!Threads
  <1>8. NAwake <= NAwake'
    <2>1. condition!AwakeWaiters \subseteq condition!AwakeWaiters'
      BY <1>7 DEF condition!AwakeWaiters
    <2> QED
      BY <1>0, <2>1, CondFiniteNext, FS_Subset DEF NAwake
  <1>9. NRegistered <= NAwake' + NParked
    <2>1. condition!Registered \subseteq condition!AwakeWaiters' \cup sleeping
      BY <1>0, <1>7 DEF condition!Registered, condition!TypeOK, condition!Threads
    <2>2. /\ IsFiniteSet(condition!AwakeWaiters' \cup sleeping)
          /\ Cardinality(condition!AwakeWaiters' \cup sleeping)
                = NAwake' + NParked - Cardinality(condition!AwakeWaiters' \cap sleeping)
      BY <1>0, CondFinite, CondFiniteNext, FS_Union DEF NAwake, NParked
    <2>3. Cardinality(condition!AwakeWaiters' \cap sleeping) \in Nat
      BY <1>0, CondFinite, FS_Intersection, FS_CardinalityType
    <2>4. NRegistered <= Cardinality(condition!AwakeWaiters' \cup sleeping)
      BY <2>1, <2>2, FS_Subset DEF NRegistered
    <2> QED
      BY <1>0, <2>2, <2>3, <2>4, CondFinite, CondFiniteNext
  <1>10. /\ wakeups.signals \in Nat /\ wakeups.waiters \in Nat /\ NAwake \in Nat /\ NBump \in Nat
         /\ NWake \in Nat /\ NParked \in Nat /\ NAwake' \in Nat /\ todo[t] \in Nat
         /\ NParked' = NParked /\ NRegistered' = NRegistered
    <2>1. wakeups.signals \in Nat /\ wakeups.waiters \in Nat /\ todo[t] \in Nat
      BY <1>0, <1>2, ConditionConstants DEF condition!TypeOK, condition!Words
    <2>2. NParked' = NParked /\ NRegistered' = NRegistered
      BY <1>1, <1>6 DEF NParked, NRegistered
    <2> QED
      BY <1>0, <2>1, <2>2, CondFinite, CondFiniteNext
  <1>11. Covered'
    BY <1>1, <1>4, <1>5, <1>8, <1>9, <1>10 DEF CondInv, Exact, Covered
  <1>12. Exact' /\ NoneNew'
    BY <1>1, <1>3, <1>10 DEF CondInv, Exact, NoneNew
  <1> QED
    BY <1>11, <1>12 DEF Counted

\* The futex wake: as many as were reserved wake up, or all that are parked.
LEMMA FutexWakeCounted ==
    ASSUME CondInv, Shape', NEW t \in condition!Threads, condition!FutexWake(t)
    PROVE  Counted'
  <1>0. /\ condition!TypeOK /\ condition!TypeOK' /\ t \in Notifiers /\ t \notin Waiters
        /\ condPc[t] = "wake"
    BY ConditionConstants DEF CondInv, Shape, condition!FutexWake, condition!CallsApart,
                              condition!Threads
  <1>1. PICK W \in SUBSET sleeping :
           /\ \/ condition!Cardinality(W) = todo[t]
              \/ condition!Cardinality(W) < todo[t] /\ W = sleeping
           /\ sleeping' = sleeping \ W
           /\ condPc' = [u \in condition!Threads |->
                    IF u \in W THEN "reload"
                    ELSE IF u = t THEN (IF owner = t THEN "locked" ELSE "out")
                    ELSE condPc[u]]
           /\ UNCHANGED <<owner, wakeups, epoch, seen, observed, todo>>
    BY DEF condition!FutexWake
  <1>2. W \subseteq Waiters /\ \A u \in W : condPc[u] = "parked" /\ condPc'[u] = "reload"
    BY <1>0, <1>1, ConditionConstants DEF CondInv, condition!TypeOK, condition!CallsApart,
                              condition!Threads
  <1>3. /\ \A u \in condition!Threads \ (W \cup {t}) : condPc'[u] = condPc[u]
        /\ condPc'[t] \in {"locked", "out"}
    BY <1>0, <1>1, <1>2 DEF condition!Threads
  <1>4. condition!Registered' = condition!Registered
    BY <1>0, <1>2, <1>3 DEF condition!Registered, condition!Threads
  <1>5. /\ condition!AwakeWaiters' = condition!AwakeWaiters \cup W
        /\ condition!AwakeWaiters \cap W = {}
    BY <1>0, <1>1, <1>2, <1>3, <1>4 DEF condition!AwakeWaiters, condition!Registered,
                              condition!Threads
  <1>6. IsFiniteSet(W) /\ Cardinality(W) \in Nat
    BY <1>0, CondFinite, FS_Subset, FS_CardinalityType
  <1>7. NAwake' = NAwake + Cardinality(W)
    BY <1>0, <1>5, <1>6, CondFinite, CountParts DEF NAwake
  <1>8. NParked = NParked' + Cardinality(W)
    <2>1. sleeping = sleeping' \cup W /\ sleeping' \cap W = {}
      BY <1>1
    <2> QED
      BY <1>0, <1>6, <2>1, CondFiniteNext, CountParts DEF NParked
  <1>9. \A u \in Notifiers \ {t} : condPc'[u] = condPc[u] /\ todo'[u] = todo[u]
    BY <1>1, <1>2, <1>3, ConditionConstants DEF condition!Threads
  <1>10. NWake' = NWake - todo[t] /\ NWake' \in Nat /\ todo[t] \in Nat
    BY <1>0, <1>3, <1>9, ReservedLess DEF NWake
  <1>11. NBump' = NBump
    <2>1. condition!Reserved("bump")' = condition!Reserved("bump")
      BY <1>0, <1>3, <1>9 DEF condition!Reserved
    <2> QED
      BY <2>1 DEF NBump
  <1>12. /\ wakeups.signals \in Nat /\ NAwake \in Nat /\ NBump \in Nat /\ NWake \in Nat
         /\ NParked \in Nat /\ NParked' \in Nat /\ NRegistered' = NRegistered
         /\ W = sleeping => NParked = Cardinality(W)
    <2>1. wakeups.signals \in Nat
      BY <1>0, ConditionConstants DEF condition!TypeOK, condition!Words
    <2>2. NRegistered' = NRegistered /\ (W = sleeping => NParked = Cardinality(W))
      BY <1>4 DEF NParked, NRegistered
    <2> QED
      BY <1>0, <2>1, <2>2, CondFinite, CondFiniteNext
  <1>13. Cardinality(W) = todo[t] \/ (Cardinality(W) < todo[t] /\ W = sleeping)
    <2>1. condition!Cardinality(W) = Cardinality(W)
      BY ConditionCounts
    <2> QED
      BY <1>1, <2>1
  <1>14. Covered'
    BY <1>1, <1>13, <1>6, <1>7, <1>8, <1>10, <1>11, <1>12 DEF CondInv, Covered
  <1>15. \A u \in Waiters : condPc'[u] = "consume" => condPc[u] = "consume"
    BY <1>0, <1>2, <1>3 DEF condition!Threads
  <1>16. Exact' /\ NoneNew'
    BY <1>1, <1>11, <1>12, <1>15 DEF CondInv, Exact, NoneNew
  <1> QED
    BY <1>14, <1>16 DEF Counted

-----------------------------------------------------------------------------
(* Condition.rs *)

LEMMA CondStep ==
    ASSUME CondInv, condition!Next
    PROVE  CondInv'
  <1>1. PICK t \in condition!Threads :
           \/ condition!Enter(t) \/ condition!Leave(t) \/ condition!ObserveEpoch(t)
           \/ condition!WakeLoad(t) \/ condition!Inside(t)
           \/ condition!SpuriousWake(t) \/ condition!Timeout(t)
    BY DEF condition!Next
  <1>2. Shape'
    BY <1>1, CallShape, WaitShape, AddShape, LeaveShape, WakeShape DEF condition!Inside
  <1>3. Counted'
    BY <1>1, <1>2, CallCounted, WaitCounted, AddCounted, LeaveCounted, ReserveCounted,
       BumpCounted, FutexWakeCounted DEF condition!Inside
  <1> QED
    BY <1>2, <1>3 DEF CondInv, Shape, Counted

\* The pool's event leaves the condition alone.
LEMMA CondIdle ==
    ASSUME CondInv, UNCHANGED conditionVars
    PROVE  CondInv'
  <1>1. Counted'
    BY StillCounted DEF conditionVars, condition!Registered
  <1>2. condition!TypeOK' /\ condition!CallsApart'
    BY DEF CondInv, conditionVars, condition!TypeOK, condition!CallsApart
  <1> QED
    BY <1>1, <1>2 DEF CondInv, Counted

\* A signal that is covered is one that somebody is on the way to.
LEMMA CoveredIsHeard ==
    ASSUME CondInv
    PROVE  NoLostSignal
  <1>0. condition!TypeOK
    BY DEF CondInv
  <1>1. /\ NBump > 0 => \E t \in Notifiers : condPc[t] \in {"bump", "wake"}
        /\ NWake > 0 => \E t \in Notifiers : condPc[t] \in {"bump", "wake"}
    <2>1. /\ NBump = 0 <=> condition!Reserved("bump") = {}
          /\ NWake = 0 <=> condition!Reserved("wake") = {}
      BY <1>0, CondFinite, FS_EmptySet DEF NBump, NWake
    <2>2. \A l \in {"bump", "wake"} : condition!Reserved(l) # {} =>
             \E t \in Notifiers : condPc[t] \in {"bump", "wake"}
      BY DEF condition!Reserved
    <2> QED
      BY <2>1, <2>2
  <1>2. NAwake > 0 => condition!AwakeWaiters # {}
    BY <1>0, CondFinite, FS_EmptySet DEF NAwake
  <1>3. wakeups.signals \in Nat
    BY <1>0, ConditionConstants DEF condition!TypeOK, condition!Words
  <1>4. NAwake \in Nat /\ NBump \in Nat /\ NWake \in Nat
    BY <1>0, CondFinite
  <1> QED
    BY <1>1, <1>2, <1>3, <1>4 DEF CondInv, Covered, NoLostSignal, condition!NoLostSignal

LEMMA CondAlways == SpecBoth => []CondInv
  <1>1. InitBoth => CondInv
    BY CondInit DEF InitBoth
  <1>2. CondInv /\ [NextBoth]_allVars => CondInv'
    BY CondStep, CondIdle DEF NextBoth, UseEvent, UseCondition, allVars, conditionVars
  <1> QED
    BY <1>1, <1>2, PTL DEF SpecBoth

\* Condition.rs: the packed word is exact, for any number of waiters and wakers.
THEOREM ConditionWordExact == SpecBoth => []WordExact
  <1>1. CondInv => WordExact
    BY CondInvIsIInv DEF condition!IInv, WordExact
  <1> QED
    BY <1>1, CondAlways, PTL

\* Condition.rs: a granted wake-up cannot be slept through.
THEOREM ConditionNoLostSignal == SpecBoth => []NoLostSignal
  <1>1. CondInv => NoLostSignal
    BY CoveredIsHeard
  <1> QED
    BY <1>1, CondAlways, PTL

-----------------------------------------------------------------------------
(* The refinement: the registered waiters are the blocked ones of CondVar and  *)
(* the signals its grants.                                                     *)

\* What CondVar can still grant.
LEMMA AbstractWakeable ==
    ASSUME CondInv
    PROVE  condition!abstract!Wakeable = wakeups.waiters - wakeups.signals
  <1>1. condition!abstract!Cardinality(condition!Registered) = NRegistered
    BY DEF condition!abstract!Cardinality, Cardinality, NRegistered
  <1> QED
    BY <1>1 DEF CondInv, Exact, condition!abstract!Wakeable

\* A step that registers or retires nobody and grants nothing is a stutter.
CondStutter == condition!Registered' = condition!Registered /\ wakeups' = wakeups

LEMMA CallStutters ==
    ASSUME CondInv, NEW t \in condition!Threads,
           \/ condition!Enter(t) \/ condition!Leave(t) \/ condition!WakeLoad(t)
           \/ condition!BumpEpoch(t)
    PROVE  CondStutter
  BY ConditionConstants
  DEF CondInv, CondStutter, condition!Enter, condition!Leave, condition!WakeLoad,
      condition!BumpEpoch, condition!Goto, condition!TypeOK, condition!CallsApart,
      condition!Threads, condition!Registered

LEMMA WaitStutters ==
    ASSUME CondInv, NEW t \in condition!Threads,
           \/ condition!ObserveEpoch(t) \/ condition!UnlockMutex(t)
           \/ condition!FutexWait(t) \/ condition!SpuriousWake(t) \/ condition!Timeout(t)
           \/ condition!ReloadEpoch(t) \/ condition!LoadState(t) \/ condition!Relock(t)
    PROVE  CondStutter
  BY DEF CondInv, CondStutter, condition!ObserveEpoch, condition!UnlockMutex,
         condition!FutexWait,
         condition!SpuriousWake, condition!Timeout, condition!ReloadEpoch, condition!LoadState,
         condition!Relock, condition!Goto, condition!TypeOK, condition!CallsApart,
         condition!Threads, condition!Registered

LEMMA FutexWakeStutters ==
    ASSUME CondInv, NEW t \in condition!Threads, condition!FutexWake(t)
    PROVE  CondStutter
  <1>1. PICK W \in SUBSET sleeping :
           /\ condPc' = [u \in condition!Threads |->
                    IF u \in W THEN "reload"
                    ELSE IF u = t THEN (IF owner = t THEN "locked" ELSE "out")
                    ELSE condPc[u]]
           /\ condPc[t] = "wake" /\ wakeups' = wakeups
    BY DEF condition!FutexWake
  <1> QED
    BY <1>1 DEF CondInv, CondStutter, condition!TypeOK, condition!CallsApart, condition!Threads,
                condition!Registered

LEMMA AddRefines ==
    ASSUME CondInv, NEW t \in condition!Threads, condition!AddWaiter(t)
    PROVE  condition!abstract!Wait(t)
  <1>1. t \notin condition!Registered /\ condition!Registered' = condition!Registered \cup {t}
    BY DEF CondInv, condition!AddWaiter, condition!CallsApart, condition!TypeOK, condition!Goto,
           condition!Threads, condition!Registered
  <1> QED
    BY <1>1, AddShape DEF condition!abstract!Wait

LEMMA LeaveRefines ==
    ASSUME CondInv, NEW t \in condition!Threads,
           condition!LeaveOnTimeout(t) \/ condition!Consume(t)
    PROVE  condition!abstract!Return(t) \/ condition!abstract!TimedOut(t) \/ CondStutter
  <1>1. CASE Retires(t)
    <2>1. t \in condition!Registered /\ condition!Registered' = condition!Registered \ {t}
      BY <1>1 DEF CondInv, Retires, condition!TypeOK, condition!Goto, condition!Threads,
                  condition!Registered
    <2>2. wakeups.signals \in Nat
      BY ConditionConstants DEF CondInv, condition!TypeOK, condition!Words
    <2> QED
      BY <1>1, <2>1, <2>2, RetireShape DEF condition!abstract!Return,
                              condition!abstract!TimedOut
  <1>2. CASE ~Retires(t)
    BY <1>2, LeavingCases
    DEF CondInv, CondStutter, Rereads, condition!Goto, condition!TypeOK, condition!Threads,
        condition!Registered
  <1> QED
    BY <1>1, <1>2

LEMMA ReserveRefines ==
    ASSUME CondInv, NEW t \in condition!Threads, condition!WakeReserve(t)
    PROVE  condition!abstract!Signal \/ condition!abstract!Broadcast \/ CondStutter
  <1>1. condition!Registered' = condition!Registered
    BY ReservingCases, ConditionConstants
    DEF CondInv, Reserves, condition!Goto, condition!TypeOK, condition!Threads,
        condition!Registered
  <1>2. CASE wakeups' = wakeups
    BY <1>1, <1>2 DEF CondStutter
  <1>3. CASE wakeups' # wakeups
    <2>1. PICK k \in 1 .. Cardinality(Waiters) : Reserves(t, k)
      BY <1>3, ReservingCases
    <2>2. wakeups'.signals = wakeups.signals + k
      BY <2>1, ReserveShape
    <2>3. k \in 1 .. condition!abstract!Wakeable /\ (k = 1 \/ k = condition!abstract!Wakeable)
      BY <2>1, AbstractWakeable DEF Reserves
    <2>4. condition!abstract!Wakeable \in Int
      BY AbstractWakeable, ConditionConstants DEF CondInv, condition!TypeOK, condition!Words
    <2> QED
      BY <1>1, <2>2, <2>3, <2>4 DEF condition!abstract!Signal, condition!abstract!Broadcast
  <1> QED
    BY <1>2, <1>3

\* The two words and the futex of Condition.rs implement the abstract condition variable:
\* one grant per waiter at most, each Ok return uses one, a timeout only without one.
THEOREM ConditionRefinesCondVar == SpecBoth => RefinesCondVar
  <1>1. InitBoth => condition!abstract!Init
    BY DEF InitBoth, condition!Init, condition!abstract!Init, condition!Registered,
           condition!Threads, condition!Zero
  <1>2. ASSUME CondInv, condition!Next
        PROVE  [condition!abstract!Next]_<<condition!Registered, wakeups.signals>>
    <2>1. PICK t \in condition!Threads :
             \/ condition!Enter(t) \/ condition!Leave(t) \/ condition!ObserveEpoch(t)
             \/ condition!WakeLoad(t) \/ condition!Inside(t)
             \/ condition!SpuriousWake(t) \/ condition!Timeout(t)
      BY <1>2 DEF condition!Next
    <2>2. \/ condition!abstract!Wait(t) \/ condition!abstract!Return(t)
          \/ condition!abstract!TimedOut(t) \/ condition!abstract!Signal
          \/ condition!abstract!Broadcast \/ CondStutter
      BY <1>2, <2>1, CallStutters, WaitStutters, FutexWakeStutters, AddRefines, LeaveRefines,
         ReserveRefines DEF condition!Inside
    <2> QED
      BY <2>2 DEF condition!abstract!Next, CondStutter
  <1>3. CondInv /\ [NextBoth]_allVars
            => [condition!abstract!Next]_<<condition!Registered, wakeups.signals>>
    <2>1. UNCHANGED conditionVars => UNCHANGED <<condition!Registered, wakeups.signals>>
      BY DEF conditionVars, condition!Registered
    <2> QED
      BY <1>2, <2>1 DEF NextBoth, UseEvent, UseCondition, allVars, conditionVars
  <1> QED
    BY <1>1, <1>3, CondAlways, PTL
    DEF SpecBoth, RefinesCondVar, condition!RefinesCondVar, condition!abstract!Spec
=============================================================================
