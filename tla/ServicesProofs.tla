--------------------------- MODULE ServicesProofs ---------------------------
(***************************************************************************)
(* Of the services: the watcher and the JS thread of the dev server never  *)
(* have the same event, and the events that outlive the DevServer are      *)
(* freed once; every file of a parallel test run is in one place, and a    *)
(* crash signal stops the run.                                             *)
(***************************************************************************)
EXTENDS Services, Integers, Sequences, FiniteSetTheorems, WellFoundedInduction, TLAPS

USE DEF hot!Slots, hot!WAITING, hot!DONE, hot!HotReloadAssumption

LEMMA HotInit == hot!HotReloadAssumption /\ hot!Init => hot!HandOffIInv
  <1> SUFFICES ASSUME hot!HotReloadAssumption, hot!Init PROVE hot!HandOffIInv
    OBVIOUS
  <1> USE DEF hot!Init
  <1>1. hot!TypeOK
    BY DEF hot!TypeOK, hot!AtEvent
  <1>2. hot!Active = {} /\ hot!Newest = None
    BY DEF hot!Active, hot!AtEvent, hot!Newest
  <1> QED
    BY <1>1, <1>2 DEF hot!HandOffIInv, hot!OnePlace, hot!WatcherKnows, hot!ProcessedEmpty, hot!Dropped, hot!AtEvent

\* The watcher's steps.  It takes a slot that it does not take for the server's, and what
\* it does not take for the server's is not the server's.
LEMMA WatcherKeepsIInv ==
    ASSUME hot!HotReloadAssumption, hot!HandOffIInv, hot!Watcher
    PROVE  hot!HandOffIInv'
  <1> USE DEF hot!HandOffIInv, hot!TypeOK, hot!AtEvent, hot!Active, hot!watcherVars, hot!serverVars
  <1>acquire. CASE hot!Acquire
    <2>1. \E i \in hot!Available : \A j \in hot!Available : i <= j
      <3>1. \E i \in hot!Slots : i \in hot!Available
        BY DEF hot!Available
      <3> QED
        BY <3>1 DEF hot!Available
    <2>2. held' \in hot!Available
      BY <1>acquire, <2>1 DEF hot!Acquire
    <2> QED
      BY <1>acquire, <2>2 DEF hot!Acquire, hot!Available, hot!OnePlace, hot!WatcherKnows, hot!Newest, hot!ProcessedEmpty, hot!Dropped
  <1>append. ASSUME NEW f \in Sources, hot!Append(f) PROVE hot!HandOffIInv'
    <2>1. hot!TypeOK' /\ hot!OnePlace' /\ hot!WatcherKnows' /\ hot!Dropped'
      BY <1>append DEF hot!Append, hot!OnePlace, hot!WatcherKnows, hot!Newest, hot!Dropped
    <2>2. held \notin hot!Active \cup {hot!Newest}
      BY <1>append DEF hot!Append, hot!OnePlace, hot!WatcherKnows, hot!Newest
    <2>3. hot!ProcessedEmpty'
      BY <1>append, <2>2 DEF hot!Append, hot!Newest, hot!ProcessedEmpty
    <2> QED
      BY <2>1, <2>3
  <1>release. CASE hot!Release
    <2>empty. CASE files[held] = {}
      BY <1>release, <2>empty DEF hot!Release, hot!OnePlace, hot!WatcherKnows, hot!Newest, hot!ProcessedEmpty, hot!Dropped
    <2>submit. CASE files[held] # {}
      <3>1. /\ held # None /\ held' = None /\ next_event' = held /\ hot!Submitted(next_event)
            /\ UNCHANGED <<files, hot!serverVars, atomics>>
        BY <1>release, <2>submit DEF hot!Release
      <3>2. hot!TypeOK' /\ hot!ProcessedEmpty' /\ hot!Dropped'
        BY <3>1 DEF hot!Submitted, hot!ProcessedEmpty, hot!Dropped
      <3>3. hot!OnePlace'
        BY <3>1 DEF hot!Submitted, hot!OnePlace, hot!WatcherKnows, hot!Dropped
      <3>4. hot!WatcherKnows'
        BY <3>1 DEF hot!Submitted, hot!OnePlace, hot!WatcherKnows, hot!Newest
      <3> QED
        BY <3>2, <3>3, <3>4
    <2> QED
      BY <2>empty, <2>submit
  <1>schedule. CASE hot!Schedule
    BY <1>schedule DEF hot!Schedule, hot!OnePlace, hot!WatcherKnows, hot!Newest, hot!ProcessedEmpty, hot!Dropped
  <1> QED
    BY <1>acquire, <1>append, <1>release, <1>schedule DEF hot!Watcher

\* The JS thread's steps: it passes its one event from place to place, and takes the next
\* only from next_event.
LEMMA ServerKeepsIInv ==
    ASSUME hot!HotReloadAssumption, hot!HandOffIInv, hot!JSThread \/ hot!RequestBundle \/ hot!Drop
    PROVE  hot!HandOffIInv'
  <1> USE DEF hot!HandOffIInv, hot!TypeOK, hot!AtEvent, hot!Active, hot!watcherVars, hot!serverVars, hot!Begin
  <1>run. CASE hot!Run
    BY <1>run DEF hot!Run, hot!OnePlace, hot!WatcherKnows, hot!Newest, hot!ProcessedEmpty, hot!Dropped
  <1>process. CASE hot!Process
    <2>1. hot!TypeOK' /\ hot!OnePlace' /\ hot!WatcherKnows' /\ hot!Dropped'
      BY <1>process DEF hot!Process, hot!OnePlace, hot!WatcherKnows, hot!Newest, hot!Dropped
    <2>2. hot!ProcessedEmpty'
      BY <1>process DEF hot!Process, hot!ProcessedEmpty, hot!OnePlace
    <2> QED
      BY <2>1, <2>2
  <1>recycle. CASE hot!Recycle
    BY <1>recycle DEF hot!Recycle, hot!OnePlace, hot!WatcherKnows, hot!Newest, hot!ProcessedEmpty, hot!Dropped
  <1>finish. CASE hot!Finish
    BY <1>finish DEF hot!Finish, hot!OnePlace, hot!WatcherKnows, hot!Newest, hot!ProcessedEmpty, hot!Dropped
  <1>start. CASE hot!Start
    BY <1>start DEF hot!Start, hot!OnePlace, hot!WatcherKnows, hot!Newest, hot!ProcessedEmpty, hot!Dropped
  <1>bundle. CASE hot!BundleDone
    <2>1. /\ step = "idle" /\ bundling /\ bundling' = FALSE /\ reload_event' = None
          /\ UNCHANGED <<next_event, files, hot!watcherVars, queued, atomics>>
      BY <1>bundle DEF hot!BundleDone
    <2>2. atomics = "owned"
      BY <2>1 DEF hot!Dropped
    <2>waited. CASE reload_event # None
      <3>1. running' = reload_event /\ step' = "process" /\ queued = None
        BY <1>bundle, <2>waited DEF hot!BundleDone, hot!OnePlace
      <3>2. hot!Active' = hot!Active /\ hot!TypeOK'
        BY <2>1, <2>waited, <3>1, ZenonT(30)
      <3> QED
        BY <2>1, <2>2, <3>1, <3>2 DEF hot!OnePlace, hot!WatcherKnows, hot!Newest, hot!ProcessedEmpty, hot!Dropped
    <2>none. CASE reload_event = None
      <3>1. step' \in {"idle", "start"} /\ running' = running
        BY <1>bundle, <2>none DEF hot!BundleDone
      <3>2. hot!Active' = hot!Active /\ hot!TypeOK'
        BY <2>1, <2>none, <3>1
      <3> QED
        BY <2>1, <2>2, <2>none, <3>1, <3>2 DEF hot!OnePlace, hot!WatcherKnows, hot!Newest, hot!ProcessedEmpty, hot!Dropped
    <2> QED
      BY <2>waited, <2>none
  <1>request. CASE hot!RequestBundle
    BY <1>request DEF hot!RequestBundle, hot!OnePlace, hot!WatcherKnows, hot!Newest, hot!ProcessedEmpty, hot!Dropped
  <1>drop. CASE hot!Drop
    BY <1>drop DEF hot!Drop, hot!OnePlace, hot!WatcherKnows, hot!Newest, hot!ProcessedEmpty, hot!Dropped
  <1> QED
    BY <1>run, <1>process, <1>recycle, <1>finish, <1>start, <1>bundle, <1>request, <1>drop
       DEF hot!JSThread, hot!Steps

LEMMA HotStep ==
    ASSUME hot!HotReloadAssumption, hot!HandOffIInv, [hot!Next]_hotVars
    PROVE  hot!HandOffIInv'
  <1>stutter. CASE UNCHANGED hotVars
    <2>1. /\ UNCHANGED <<next_event, files, atomics>>
          /\ UNCHANGED <<current_event, pending_event, held, announced>>
          /\ UNCHANGED <<queued, reload_event, running, step, bundling>>
      BY <1>stutter DEF hotVars
    <2> QED
      BY <2>1 DEF hot!HandOffIInv, hot!TypeOK, hot!AtEvent, hot!Active, hot!OnePlace, hot!WatcherKnows,
                  hot!Newest, hot!ProcessedEmpty, hot!Dropped
  <1> QED
    BY <1>stutter, WatcherKeepsIInv, ServerKeepsIInv DEF hot!Next

\* A step of another service leaves the events alone.
LEMMA StepHot == [NextAll]_allVars => [hot!Next]_hotVars
  BY DEF NextAll, allVars, Use

\* An event is in one place, the watcher knows in which, and what was processed is empty.
THEOREM HotReloadIInv == SpecAll => []hot!HandOffIInv
  <1>1. hot!HotReloadAssumption
    BY ServicesAssumption
  <1>2. InitAll => hot!HandOffIInv
    BY <1>1, HotInit DEF InitAll
  <1>3. hot!HandOffIInv /\ [NextAll]_allVars => hot!HandOffIInv'
    BY <1>1, HotStep, StepHot
  <1> QED
    BY <1>2, <1>3, PTL DEF SpecAll

\* The two threads of watcher_atomics.rs never have the same slot, the sentinels are true,
\* and unreachable!() is not reached.
THEOREM HotReloadHandOff == SpecAll => []HandOffSafe
  <1>1. hot!HandOffIInv => HandOffSafe
    <2> SUFFICES ASSUME hot!HandOffIInv PROVE hot!HandOffSafe
      BY DEF HandOffSafe
    <2>1. hot!TypeOK /\ hot!OnePlace /\ hot!WatcherKnows /\ hot!ProcessedEmpty
      BY DEF hot!HandOffIInv
    \* Active is within what the watcher knows to be the server's.
    <2>2. ASSUME held \in 0 .. 2 PROVE held \notin hot!ServerSlots
      <3>1. held # None /\ announced = None /\ held \notin {current_event, pending_event}
        BY <2>1, <2>2, ServicesAssumption DEF hot!WatcherKnows
      <3>2. held \notin hot!Active
        <4>1. CASE next_event = 255
          BY <2>1, <4>1 DEF hot!OnePlace
        <4>2. CASE next_event = 254
          BY <2>1, <3>1, <4>2 DEF hot!WatcherKnows, hot!Newest
        <4>3. CASE next_event \in 0 .. 2
          BY <2>1, <3>1, <4>3 DEF hot!WatcherKnows
        <4> QED
          BY <2>1, <4>1, <4>2, <4>3 DEF hot!TypeOK
      <3>3. held # next_event
        BY <2>1, <2>2, <3>1 DEF hot!WatcherKnows
      <3> QED
        BY <3>1, <3>2, <3>3 DEF hot!Active, hot!AtEvent, hot!ServerSlots
    <2>3. next_event = 255 =>
             step \in {"idle", "start"} /\ queued = None /\ reload_event = None
      BY <2>1 DEF hot!TypeOK, hot!OnePlace, hot!Active, hot!AtEvent
    <2>4. step # "panic"
      BY <2>1 DEF hot!TypeOK, hot!AtEvent
    <2> QED
      BY <2>1, <2>2, <2>3, <2>4 DEF hot!ProcessedEmpty, hot!HandOffSafe
  <1> QED
    BY <1>1, HotReloadIInv, PTL

\* When the DevServer is dropped, its atomics are freed at once or by the task that is
\* queued, and not by both.
THEOREM HotReloadFreedOnce == SpecAll => []OrphanHasTask
  <1>1. hot!HandOffIInv => OrphanHasTask
    BY DEF hot!HandOffIInv, hot!Dropped, OrphanHasTask, hot!OrphanHasTask
  <1> QED
    BY <1>1, HotReloadIInv, PTL

-----------------------------------------------------------------------------
(* The test coordinator: numbers *)

\* The instance has the operators of the standard module under names of its own.
LEMMA CardinalityIs == \A S : tests!Cardinality(S) = Cardinality(S)
<1> SUFFICES ASSUME NEW S PROVE tests!Cardinality(S) = Cardinality(S)
  OBVIOUS
<1> QED
  BY DEF tests!Cardinality, Cardinality, tests!IsFiniteSet, IsFiniteSet

\* Every set of natural numbers that is not empty has a least one.
LEMMA LeastNumber ==
    ASSUME NEW S, S \subseteq Nat, S # {}
    PROVE  \E n \in S : \A m \in S : n <= m
<1> DEFINE R == {p \in Nat \X Nat : p[1] < p[2]}
<1>1. IsWellFoundedOn(R, Nat)
  BY NatLessThanWellFounded DEF OpToRel
<1>2. PICK n \in S : \A m \in S : ~(<<m, n>> \in R)
  <2> HIDE DEF R
  <2> QED
    BY <1>1, WFMin
<1>3. \A m \in S : n <= m
  <2>1. TAKE m \in S
  <2>2. <<m, n>> \in Nat \X Nat /\ <<m, n>>[1] = m /\ <<m, n>>[2] = n
    OBVIOUS
  <2>3. ~(m < n)
    BY <1>2, <2>2
  <2> QED
    BY <2>3
<1> QED
  BY <1>3

LEMMA FirstIsLeast ==
    ASSUME NEW S, S \subseteq Nat, S # {}
    PROVE  tests!First(S) \in S /\ \A m \in S : tests!First(S) <= m
  BY LeastNumber DEF tests!First

\* Induction, with a set for what is proved.
LEMMA UpTo ==
    ASSUME NEW k \in Nat, NEW S, 0 \in S, \A n \in 0..(k - 1) : n \in S => n + 1 \in S
    PROVE  \A n \in 0..k : n \in S
<1> DEFINE Bad == {n \in 0..k : n \notin S}
<1> SUFFICES ASSUME Bad # {} PROVE FALSE
  OBVIOUS
<1>1. PICK n \in Bad : \A m \in Bad : n <= m
  <2>1. Bad \subseteq Nat
    OBVIOUS
  <2> HIDE DEF Bad
  <2> QED
    BY <2>1, LeastNumber
<1>2. n # 0 /\ n \in 0..k /\ n \notin S
  BY <1>1
<1>3. n - 1 \in 0..(k - 1) /\ ~(n <= n - 1)
  BY <1>2
<1>4. n - 1 \in S
  BY <1>1, <1>3
<1>5. (n - 1) + 1 \in S
  BY <1>3, <1>4
<1> QED
  BY <1>2, <1>5

\* One of finitely many numbers is the greatest.
LEMMA GreatestExists ==
    ASSUME NEW k \in Nat, NEW S, S \subseteq 1..k, S # {}, NEW f, \A n \in S : f[n] \in Nat
    PROVE  \E n \in S : \A m \in S : f[m] <= f[n]
<1> DEFINE Greatest(n, m) == m \in S /\ \A l \in S : l <= n => f[l] <= f[m]
           Good == {n \in 0..k : (\E m \in S : m <= n) => \E m \in S : m <= n /\ Greatest(n, m)}
<1>1. \A m \in S : m \in Nat /\ m >= 1 /\ m <= k /\ f[m] \in Nat
  OBVIOUS
<1>2. 0 \in Good
  BY <1>1
<1>3. ASSUME NEW n \in 0..(k - 1), n \in Good
      PROVE  n + 1 \in Good
  <2> SUFFICES ASSUME \E m \in S : m <= n + 1
               PROVE  \E m \in S : m <= n + 1 /\ Greatest(n + 1, m)
    OBVIOUS
  <2>1. \A l \in S : l <= n + 1 <=> l <= n \/ l = n + 1
    BY <1>1
  <2>2. CASE n + 1 \notin S
    BY <1>3, <2>1, <2>2
  <2>3. CASE n + 1 \in S /\ ~\E m \in S : m <= n
    <3>1. Greatest(n + 1, n + 1)
      BY <1>1, <2>1, <2>3
    <3> QED
      BY <2>3, <3>1
  <2>4. CASE n + 1 \in S /\ \E m \in S : m <= n
    <3>1. PICK m \in S : m <= n /\ Greatest(n, m)
      BY <1>3, <2>4
    <3>2. CASE f[m] <= f[n + 1]
      <4>1. Greatest(n + 1, n + 1)
        BY <1>1, <2>1, <2>4, <3>1, <3>2
      <4> QED
        BY <2>4, <4>1
    <3>3. CASE ~(f[m] <= f[n + 1])
      <4>1. Greatest(n + 1, m) /\ m <= n + 1
        BY <1>1, <2>1, <2>4, <3>1, <3>3
      <4> QED
        BY <4>1
    <3> QED
      BY <3>2, <3>3
  <2> QED
    BY <2>2, <2>3, <2>4
<1>4. k \in Good
  <2> HIDE DEF Good
  <2> QED
    BY <1>2, <1>3, UpTo
<1> QED
  BY <1>1, <1>4

-----------------------------------------------------------------------------
(* The first ranges *)

LEMMA CutByTimeIs ==
    ASSUME K \in Nat
    PROVE  tests!CutByTime = [i \in 0..K |-> IF i = 0 THEN 0 ELSE tests!NextCut(tests!CutByTime[i - 1], i)]
<1> DEFINE Upto(k, g) == g = [i \in 0..k |-> IF i = 0 THEN 0 ELSE tests!NextCut(g[i - 1], i)]
           Good == {k \in 0..K : \E g : Upto(k, g)}
<1>1. 0 \in Good
  <2> DEFINE h == [i \in 0..0 |-> 0]
  <2>1. \A i \in 0..0 : h[i] = IF i = 0 THEN 0 ELSE tests!NextCut(h[i - 1], i)
    OBVIOUS
  <2>2. h = [i \in 0..0 |-> h[i]]
    OBVIOUS
  <2>3. Upto(0, h)
    <3> HIDE DEF h
    <3> QED
      BY <2>1, <2>2, Zenon DEF Upto
  <2> HIDE DEF Upto
  <2> QED
    BY <2>3
<1>2. ASSUME NEW k \in 0..(K - 1), k \in Good
      PROVE  k + 1 \in Good
  <2>1. PICK g : Upto(k, g)
    BY <1>2
  <2> DEFINE h == [i \in 0..(k + 1) |-> IF i = k + 1 THEN tests!NextCut(g[k], i) ELSE g[i]]
  <2>2. \A i \in 0..k : g[i] = IF i = 0 THEN 0 ELSE tests!NextCut(g[i - 1], i)
    BY <2>1
  <2> HIDE DEF Upto
  <2>3. ASSUME NEW i \in 0..(k + 1)
        PROVE  h[i] = IF i = 0 THEN 0 ELSE tests!NextCut(h[i - 1], i)
    <3>1. CASE i = k + 1
      <4>1. i - 1 = k /\ i - 1 \in 0..(k + 1) /\ i - 1 # k + 1 /\ i # 0
        BY <3>1
      <4>2. h[i - 1] = g[k]
        BY <4>1
      <4> QED
        BY <3>1, <4>1, <4>2
    <3>2. CASE i # k + 1 /\ i # 0
      <4>1. i \in 0..k /\ i - 1 \in 0..k /\ i - 1 # k + 1 /\ i - 1 \in 0..(k + 1)
        BY <3>2
      <4>2. h[i - 1] = g[i - 1] /\ h[i] = g[i]
        BY <3>2, <4>1
      <4> QED
        BY <2>2, <3>2, <4>1, <4>2
    <3>3. CASE i = 0
      <4>1. i \in 0..k /\ i # k + 1
        BY <3>3
      <4> QED
        BY <2>2, <3>3, <4>1
    <3> QED
      BY <3>1, <3>2, <3>3
  <2>4. Upto(k + 1, h)
    <3>1. h = [i \in 0..(k + 1) |-> h[i]]
      OBVIOUS
    <3> HIDE DEF h
    <3> QED
      BY <2>3, <3>1, Zenon DEF Upto
  <2> QED
    BY <2>4
<1>3. \E g : Upto(K, g)
  <2>1. K \in Good
    <3> HIDE DEF Good
    <3> QED
      BY <1>1, <1>2, UpTo
  <2> QED
    BY <2>1
<1> QED
  BY <1>3, Zenon DEF tests!CutByTime

LEMMA NextCutBounds ==
    ASSUME tests!TestCoordinatorAssumption, NEW i \in 1..K, NEW lo \in Nat, lo + (K - i + 1) <= N
    PROVE  tests!NextCut(lo, i) \in Nat /\ lo < tests!NextCut(lo, i) /\ tests!NextCut(lo, i) + (K - i) <= N
<1> USE DEF tests!TestCoordinatorAssumption
<1>1. CASE i = K
  BY <1>1 DEF tests!NextCut
<1>2. CASE i # K
  <2> DEFINE more(hi) == /\ 2 * tests!Cost((lo + 1)..hi) + tests!Cost({hi + 1}) <= 2 * (tests!Cost((lo + 1)..N) \div (K - i + 1))
                         /\ N - hi > K - i
             S == {hi \in (lo + 1)..N : ~more(hi)}
  <2>1. tests!NextCut(lo, i) = tests!First(S)
    BY <1>2, Zenon DEF tests!NextCut
  <2>2. N - (K - i) \in (lo + 1)..N /\ ~(N - (N - (K - i)) > K - i)
    OBVIOUS
  <2>3. N - (K - i) \in S
    BY <2>2
  <2>4. S \subseteq (lo + 1)..N
    OBVIOUS
  <2>5. S \subseteq Nat
    BY <2>4
  <2> HIDE DEF S
  <2>6. tests!First(S) \in S /\ tests!First(S) <= N - (K - i)
    BY <2>3, <2>5, FirstIsLeast
  <2>7. tests!First(S) \in (lo + 1)..N
    BY <2>4, <2>6
  <2> QED
    BY <2>1, <2>6, <2>7
<1> QED
  BY <1>1, <1>2

LEMMA CutsByTimeAscend ==
    ASSUME tests!TestCoordinatorAssumption
    PROVE  /\ \A i \in 0..K : tests!CutByTime[i] \in Nat
           /\ \A i \in 1..K : tests!CutByTime[i - 1] < tests!CutByTime[i]
           /\ tests!CutByTime[0] = 0 /\ tests!CutByTime[K] = N
<1> USE DEF tests!TestCoordinatorAssumption
<1> DEFINE Good == {i \in 0..K : tests!CutByTime[i] \in Nat /\ tests!CutByTime[i] + (K - i) <= N}
<1>1. /\ tests!CutByTime[0] = 0
      /\ \A i \in 1..K : tests!CutByTime[i] = tests!NextCut(tests!CutByTime[i - 1], i)
  <2>1. \A i \in 0..K : tests!CutByTime[i] = IF i = 0 THEN 0 ELSE tests!NextCut(tests!CutByTime[i - 1], i)
    BY CutByTimeIs, Zenon
  <2> QED
    BY <2>1
<1>2. 0 \in Good
  BY <1>1
<1>3. ASSUME NEW i \in 0..(K - 1), i \in Good
      PROVE  i + 1 \in Good
  <2>1. i + 1 \in 1..K /\ (i + 1) - 1 = i /\ tests!CutByTime[i] + (K - (i + 1) + 1) <= N
    BY <1>3
  <2>2. tests!CutByTime[i + 1] = tests!NextCut(tests!CutByTime[i], i + 1)
    BY <1>1, <2>1
  <2> QED
    BY <1>3, <2>1, <2>2, NextCutBounds
<1>4. \A i \in 0..K : i \in Good
  <2> HIDE DEF Good
  <2> QED
    BY <1>2, <1>3, UpTo
<1>5. ASSUME NEW i \in 1..K
      PROVE  tests!CutByTime[i - 1] < tests!CutByTime[i]
  <2>1. i - 1 \in 0..K /\ i - 1 \in Good /\ (K - (i - 1)) = K - i + 1
    BY <1>4
  <2>2. tests!CutByTime[i - 1] \in Nat /\ tests!CutByTime[i - 1] + (K - i + 1) <= N
    BY <2>1
  <2> QED
    BY <1>1, <2>2, NextCutBounds
<1>6. tests!CutByTime[K] = N
  <2>1. K \in 1..K
    OBVIOUS
  <2> QED
    BY <1>1, <2>1 DEF tests!NextCut
<1> QED
  BY <1>1, <1>4, <1>5, <1>6

\* Integers are divided with a remainder.
LEMMA Division ==
    ASSUME NEW a \in Int, NEW d \in Nat \ {0}
    PROVE  /\ a \div d \in Int /\ d * (a \div d) \in Int
           /\ d * (a \div d) <= a /\ a < d * (a \div d) + d
  <1>1. a \div d \in Int /\ a % d \in 0..(d - 1)
    OBVIOUS
  <1>2. a = (d * (a \div d)) + (a % d)
    OBVIOUS
  <1> QED
    BY <1>1, <1>2

LEMMA QuotientsAscend ==
    ASSUME NEW a \in Int, NEW b \in Int, NEW d \in Nat \ {0}, a <= b
    PROVE  a \div d <= b \div d
<1>1. PICK p \in Int, q \in Int : p = a \div d /\ q = b \div d
  BY Division
<1>2. d * p <= a /\ b < d * q + d /\ d * p \in Int /\ d * q \in Int
  BY <1>1, Division
<1>3. SUFFICES ASSUME ~(p <= q) PROVE FALSE
  BY <1>1
<1>4. d * q + d <= d * p
  <2>1. PICK e \in Nat : p = q + 1 + e
    <3>1. p - q - 1 \in Nat /\ p = q + 1 + (p - q - 1)
      BY <1>3
    <3> QED
      BY <3>1
  <2>2. d * p = d * q + d + d * e
    BY <2>1
  <2>3. d * e \in Nat
    OBVIOUS
  <2> QED
    BY <1>2, <2>2, <2>3
<1> QED
  BY <1>2, <1>4

LEMMA QuotientOfProduct ==
    ASSUME NEW n \in Nat, NEW d \in Nat \ {0}
    PROVE  (d * n) \div d = n /\ (0 * n) \div d = 0
<1>1. ASSUME NEW m \in Nat, NEW q \in Int, d * q <= d * m, d * m < d * q + d
      PROVE  q = m
  <2>1. d * (m - q) = d * m - d * q /\ d * m \in Int /\ d * q \in Int /\ m - q \in Int
    OBVIOUS
  <2>2. 0 <= d * (m - q) /\ d * (m - q) < d
    BY <1>1, <2>1
  <2>3. CASE m - q >= 1
    <3>1. PICK e \in Nat : m - q = 1 + e
      <4>1. m - q - 1 \in Nat /\ m - q = 1 + (m - q - 1)
        BY <2>3
      <4> QED
        BY <4>1
    <3>2. d * (1 + e) = d + d * e /\ d * e \in Nat
      OBVIOUS
    <3> QED
      BY <2>2, <3>1, <3>2
  <2>4. CASE m - q <= -1
    <3>1. PICK e \in Nat : m - q = -1 - e
      <4>1. -1 - (m - q) \in Nat /\ m - q = -1 - (-1 - (m - q))
        BY <2>4
      <4> QED
        BY <4>1
    <3>2. d * (-1 - e) = -d - d * e /\ d * e \in Nat
      OBVIOUS
    <3> QED
      BY <2>2, <3>1, <3>2
  <2> QED
    BY <2>1, <2>3, <2>4
<1>2. d * n \in Int /\ 0 * n = 0 /\ d * 0 = 0
  OBVIOUS
<1>3. (d * n) \div d = n
  BY <1>1, <1>2, Division
<1>4. 0 \div d = 0
  BY <1>1, <1>2, Division
<1> QED
  BY <1>2, <1>3, <1>4

\* The cuts of the initial ranges go up from 0 to N, in each of the modes.
LEMMA CutsAscend ==
    ASSUME tests!TestCoordinatorAssumption, NEW mode \in tests!Modes
    PROVE  /\ \A i \in 0..K : tests!Cut(mode, i) \in Nat
           /\ \A i \in 1..K : tests!Cut(mode, i - 1) <= tests!Cut(mode, i)
           /\ tests!Cut(mode, 0) = 0 /\ tests!Cut(mode, K) = N
<1> USE DEF tests!TestCoordinatorAssumption
<1>1. CASE mode = "number"
  <2>1. ASSUME NEW i \in 0..K
        PROVE  tests!Cut(mode, i) \in Nat /\ tests!Cut(mode, i) = (i * N) \div K
    <3>1. i * N \in Int /\ 0 <= i * N
      OBVIOUS
    <3>2. 0 \div K <= (i * N) \div K /\ (i * N) \div K \in Int
      BY <3>1, QuotientsAscend, Division
    <3>3. 0 \div K = 0
      BY QuotientOfProduct
    <3> QED
      BY <1>1, <3>2, <3>3 DEF tests!Cut
  <2>2. ASSUME NEW i \in 1..K
        PROVE  tests!Cut(mode, i - 1) <= tests!Cut(mode, i)
    <3>1. (i - 1) * N \in Int /\ i * N \in Int /\ i * N = (i - 1) * N + N
      OBVIOUS
    <3>2. i - 1 \in 0..K /\ i \in 0..K
      OBVIOUS
    <3>3. (i - 1) * N <= i * N
      BY <3>1
    <3>4. ((i - 1) * N) \div K <= (i * N) \div K
      BY <3>1, <3>3, QuotientsAscend
    <3>5. tests!Cut(mode, i - 1) = ((i - 1) * N) \div K /\ tests!Cut(mode, i) = (i * N) \div K
      BY <2>1, <3>2
    <3> QED
      BY <3>4, <3>5
  <2>3. tests!Cut(mode, 0) = 0 /\ tests!Cut(mode, K) = N
    <3>1. 0 \in 0..K /\ K \in 0..K
      OBVIOUS
    <3> QED
      BY <2>1, <3>1, QuotientOfProduct
  <2> QED
    BY <2>1, <2>2, <2>3
<1>2. CASE mode = "time"
  BY <1>2, CutsByTimeAscend DEF tests!Cut
<1>3. CASE mode = "apart"
  BY <1>3 DEF tests!Cut
<1> QED
  BY <1>1, <1>2, <1>3 DEF tests!Modes

\* A file is in the one range between whose cuts it lies.
LEMMA InitialRanges ==
    ASSUME tests!TestCoordinatorAssumption, NEW mode \in tests!Modes
    PROVE  /\ \A i \in tests!Slots : tests!InitialRange(mode, i) \in Seq(tests!Files)
           /\ \A i, j \in tests!Slots : \A n \in DOMAIN tests!InitialRange(mode, i), m \in DOMAIN tests!InitialRange(mode, j) :
                 tests!InitialRange(mode, i)[n] = tests!InitialRange(mode, j)[m] => i = j /\ n = m
           /\ \A f \in tests!Files : \E i \in tests!Slots : \E n \in DOMAIN tests!InitialRange(mode, i) :
                 tests!InitialRange(mode, i)[n] = f
<1> USE DEF tests!TestCoordinatorAssumption, tests!Slots, tests!Files
<1> DEFINE cut(i) == tests!Cut(mode, i)
<1>1. /\ \A i \in 0..K : cut(i) \in Nat
      /\ \A i \in 1..K : cut(i - 1) <= cut(i)
      /\ cut(0) = 0 /\ cut(K) = N
  BY CutsAscend
<1> HIDE DEF cut
<1>2. ASSUME NEW j \in 0..K
      PROVE  \A i \in 0..K : i <= j => cut(i) <= cut(j)
  <2> DEFINE Good == {i \in 0..j : cut(j - i) <= cut(j)}
  <2>1. 0 \in Good
    BY <1>1
  <2>2. ASSUME NEW i \in 0..(j - 1), i \in Good
        PROVE  i + 1 \in Good
    <3>1. j - i \in 1..K /\ (j - i) - 1 = j - (i + 1) /\ j - (i + 1) \in 0..K /\ i + 1 \in 0..j
      OBVIOUS
    <3>2. cut(j - (i + 1)) <= cut(j - i) /\ cut(j - i) <= cut(j)
      BY <1>1, <2>2, <3>1
    <3> QED
      BY <1>1, <3>1, <3>2
  <2>3. \A i \in 0..j : i \in Good
    <3>1. j \in Nat
      OBVIOUS
    <3> HIDE DEF Good
    <3> QED
      BY <2>1, <2>2, <3>1, UpTo
  <2>4. ASSUME NEW i \in 0..K, i <= j
        PROVE  cut(i) <= cut(j)
    <3>1. j - i \in 0..j /\ j - (j - i) = i
      BY <2>4
    <3> QED
      BY <2>3, <3>1
  <2> QED
    BY <2>4
<1>3. ASSUME NEW i \in tests!Slots
      PROVE  /\ i \in 0..K /\ i - 1 \in 0..K
             /\ cut(i) \in Nat /\ cut(i - 1) \in Nat /\ cut(i - 1) <= cut(i) /\ cut(i) <= N
             /\ tests!InitialRange(mode, i) = [n \in 1..(cut(i) - cut(i - 1)) |-> cut(i - 1) + n]
  <2>1. i \in 0..K /\ i - 1 \in 0..K /\ K \in 0..K
    OBVIOUS
  <2> QED
    BY <1>1, <1>2, <2>1 DEF tests!InitialRange, cut
<1>4. ASSUME NEW i \in tests!Slots
      PROVE  tests!InitialRange(mode, i) \in Seq(tests!Files)
  <2>1. PICK k \in Nat : k = cut(i) - cut(i - 1)
    BY <1>3
  <2>2. \A n \in 1..k : cut(i - 1) + n \in tests!Files
    BY <1>3, <2>1
  <2>3. [n \in 1..k |-> cut(i - 1) + n] \in Seq(tests!Files)
    BY <2>2
  <2> QED
    BY <1>3, <2>1, <2>3
<1>5. ASSUME NEW i \in tests!Slots, NEW n \in DOMAIN tests!InitialRange(mode, i)
      PROVE  /\ tests!InitialRange(mode, i)[n] = cut(i - 1) + n /\ n \in Nat
             /\ cut(i - 1) < cut(i - 1) + n /\ cut(i - 1) + n <= cut(i)
  BY <1>3
<1>6. ASSUME NEW i \in tests!Slots, NEW j \in tests!Slots, i < j,
             NEW n \in DOMAIN tests!InitialRange(mode, i), NEW m \in DOMAIN tests!InitialRange(mode, j)
      PROVE  tests!InitialRange(mode, i)[n] # tests!InitialRange(mode, j)[m]
  <2>1. i <= j - 1
    BY <1>6
  <2>2. cut(i) <= cut(j - 1)
    BY <1>2, <1>3, <2>1
  <2>3. cut(i) \in Nat /\ cut(j - 1) \in Nat /\ n \in Nat /\ m \in Nat
    BY <1>3, <1>5
  <2>4. tests!InitialRange(mode, i)[n] = cut(i - 1) + n /\ cut(i - 1) + n <= cut(i)
    BY <1>5
  <2>5. tests!InitialRange(mode, j)[m] = cut(j - 1) + m /\ cut(j - 1) < cut(j - 1) + m
    BY <1>5
  <2> HIDE DEF cut
  <2>6. cut(i - 1) \in Nat
    BY <1>3
  <2> QED
    BY <2>2, <2>3, <2>4, <2>5, <2>6
<1>7. ASSUME NEW i \in tests!Slots, NEW j \in tests!Slots,
             NEW n \in DOMAIN tests!InitialRange(mode, i), NEW m \in DOMAIN tests!InitialRange(mode, j),
             tests!InitialRange(mode, i)[n] = tests!InitialRange(mode, j)[m]
      PROVE  i = j /\ n = m
  <2>1. i = j
    <3>1. ~(i < j) /\ ~(j < i)
      BY <1>6, <1>7
    <3> QED
      BY <3>1
  <2>2. cut(i - 1) + n = cut(i - 1) + m /\ n \in Nat /\ m \in Nat /\ cut(i - 1) \in Nat
    BY <1>3, <1>5, <1>7, <2>1
  <2> QED
    BY <2>1, <2>2
<1>8. ASSUME NEW f \in tests!Files
      PROVE  \E i \in tests!Slots : \E n \in DOMAIN tests!InitialRange(mode, i) : tests!InitialRange(mode, i)[n] = f
  <2> DEFINE S == {i \in 1..K : f <= cut(i)}
  <2>1. K \in S /\ S \subseteq Nat
    BY <1>1
  <2>2. PICK i \in S : \A j \in S : i <= j
    <3> HIDE DEF S
    <3> QED
      BY <2>1, LeastNumber
  <2>3. i \in tests!Slots /\ f <= cut(i)
    BY <2>2
  <2>4. cut(i - 1) < f
    <3>1. CASE i = 1
      BY <1>1, <3>1
    <3>2. CASE i # 1
      <4>1. i - 1 \in 1..K /\ ~(i <= i - 1)
        BY <2>3, <3>2
      <4>2. ~(f <= cut(i - 1))
        BY <2>2, <4>1
      <4> QED
        BY <1>3, <2>3, <4>2
    <3> QED
      BY <3>1, <3>2
  <2>5. f - cut(i - 1) \in 1..(cut(i) - cut(i - 1)) /\ cut(i - 1) + (f - cut(i - 1)) = f
    BY <1>3, <2>3, <2>4
  <2> QED
    BY <1>3, <2>3, <2>5
<1> QED
  BY <1>4, <1>7, <1>8

-----------------------------------------------------------------------------
(* What the handlers are made of *)

\* d is b but for the fields S.
Changes(b, d, S) == tests!Shape(d) /\ \A x \in tests!Fields \ S : d[x] = b[x]

InFields ==
    /\ "mode" \in tests!Fields /\ "range" \in tests!Fields /\ "inflight" \in tests!Fields /\ "alive" \in tests!Fields
    /\ "exit" \in tests!Fields /\ "done" \in tests!Fields /\ "reap" \in tests!Fields /\ "ready" \in tests!Fields
    /\ "failures" \in tests!Fields /\ "waits" \in tests!Fields /\ "commands" \in tests!Fields
    /\ "signalled" \in tests!Fields /\ "files_done" \in tests!Fields /\ "counted" \in tests!Fields
    /\ "fail" \in tests!Fields /\ "stop" \in tests!Fields /\ "spawned" \in tests!Fields /\ "live" \in tests!Fields
    /\ "over" \in tests!Fields

LEMMA FieldsAre == InFields
  BY DEF InFields, tests!Fields

LEMMA SendIs ==
    ASSUME NEW b, tests!Typed(b), NEW i \in tests!Slots, NEW command \in tests!Files \cup {None}, NEW d, d = tests!Send(b, i, command)
    PROVE  /\ tests!Typed(d) /\ Changes(b, d, {"commands"})
           /\ d.commands = [b.commands EXCEPT ![i] = Append(@, command)]
<1>1. Changes(b, d, {"commands"}) /\ d.commands = [b.commands EXCEPT ![i] = Append(@, command)]
  BY FieldsAre DEF tests!Typed, InFields, tests!Shape, Changes, tests!Send
<1>2. d.commands \in [tests!Slots -> Seq(tests!Files \cup {None})]
  BY <1>1 DEF tests!Typed
<1> QED
  BY <1>1, <1>2, FieldsAre DEF tests!Typed, InFields, Changes

LEMMA DispatchIs ==
    ASSUME NEW b, tests!Typed(b), NEW i \in tests!Slots, NEW f \in tests!Files, NEW d, d = tests!Dispatch(b, i, f)
    PROVE  /\ tests!Typed(d) /\ Changes(b, d, {"commands", "inflight"})
           /\ d.commands = [b.commands EXCEPT ![i] = Append(@, f)]
           /\ d.inflight = [b.inflight EXCEPT ![i] = f]
<1>1. /\ Changes(b, d, {"commands", "inflight"})
      /\ d.commands = [b.commands EXCEPT ![i] = Append(@, f)]
      /\ d.inflight = [b.inflight EXCEPT ![i] = f]
  BY FieldsAre DEF tests!Typed, InFields, tests!Shape, Changes, tests!Dispatch, tests!Send
<1>2. d.commands \in [tests!Slots -> Seq(tests!Files \cup {None})] /\ d.inflight \in [tests!Slots -> tests!Files \cup {None}]
  BY <1>1 DEF tests!Typed
<1> QED
  BY <1>1, <1>2, FieldsAre DEF tests!Typed, InFields, Changes

LEMMA CountIs ==
    ASSUME NEW b, tests!Typed(b), NEW f \in tests!Files, NEW failed, NEW d, d = tests!Count(b, f, failed)
    PROVE  /\ tests!Typed(d) /\ Changes(b, d, {"files_done", "counted", "fail"})
           /\ d.files_done = b.files_done + 1 /\ d.counted = b.counted \cup {f}
<1>1. /\ Changes(b, d, {"files_done", "counted", "fail"})
      /\ d.files_done = b.files_done + 1 /\ d.counted = b.counted \cup {f}
      /\ d.fail \in {b.fail, b.fail + 1}
  BY FieldsAre DEF tests!Typed, InFields, tests!Shape, Changes, tests!Count
<1>2. d.files_done \in Nat /\ d.fail \in Nat /\ d.counted \subseteq tests!Files
  BY <1>1 DEF tests!Typed
<1> QED
  BY <1>1, <1>2, FieldsAre DEF tests!Typed, InFields, Changes

LEMMA BailOutIs ==
    ASSUME NEW b, tests!Typed(b), NEW d, d = tests!BailOut(b)
    PROVE  /\ tests!Typed(d) /\ Changes(b, d, {"stop", "commands"})
           /\ d = b \/ (b.stop = "none" /\ d.stop = "bail")
<1> DEFINE told == [i \in tests!Slots |-> IF b.alive[i] /\ b.inflight[i] = None
                                          THEN Append(b.commands[i], None) ELSE b.commands[i]]
<1>1. /\ Changes(b, d, {"stop", "commands"})
      /\ d = b \/ (b.stop = "none" /\ d.stop = "bail" /\ d.commands = told)
  BY FieldsAre DEF tests!Typed, InFields, tests!Shape, Changes, tests!BailOut
<1>2. told \in [tests!Slots -> Seq(tests!Files \cup {None})]
  BY DEF tests!Typed
<1> HIDE DEF told
<1> QED
  BY <1>1, <1>2, FieldsAre DEF tests!Typed, InFields, Changes

-----------------------------------------------------------------------------
(* Where the files are *)

\* Ranges and what is in flight, as functions of their own: no file twice.
LEMMA Removed ==
    ASSUME NEW S, NEW s \in Seq(S), NEW n \in 1..Len(s)
    PROVE  /\ tests!RemoveAt(s, n) \in Seq(S) /\ Len(tests!RemoveAt(s, n)) = Len(s) - 1
           /\ \A m \in 1..(Len(s) - 1) : tests!RemoveAt(s, n)[m] = IF m < n THEN s[m] ELSE s[m + 1]
<1>1. SubSeq(s, 1, n - 1) \in Seq(S) /\ Len(SubSeq(s, 1, n - 1)) = n - 1
      /\ \A m \in 1..(n - 1) : SubSeq(s, 1, n - 1)[m] = s[m]
  OBVIOUS
<1>2. SubSeq(s, n + 1, Len(s)) \in Seq(S) /\ Len(SubSeq(s, n + 1, Len(s))) = Len(s) - n
      /\ \A m \in 1..(Len(s) - n) : SubSeq(s, n + 1, Len(s))[m] = s[m + n]
  OBVIOUS
<1> DEFINE a == SubSeq(s, 1, n - 1)
           b == SubSeq(s, n + 1, Len(s))
<1> HIDE DEF a, b
<1>3. /\ a \in Seq(S) /\ b \in Seq(S) /\ tests!RemoveAt(s, n) = a \o b
      /\ Len(a) = n - 1 /\ Len(b) = Len(s) - n /\ Len(s) \in Nat /\ n \in Nat
  BY <1>1, <1>2 DEF tests!RemoveAt, a, b
<1>4. a \o b \in Seq(S) /\ Len(a \o b) = Len(s) - 1
  BY <1>3
<1>5. ASSUME NEW m \in 1..(Len(s) - 1)
      PROVE  (a \o b)[m] = IF m < n THEN s[m] ELSE s[m + 1]
  <2>1. CASE m < n
    <3>1. m \in 1..(n - 1) /\ (a \o b)[m] = a[m]
      BY <1>3, <2>1
    <3> QED
      BY <1>1, <2>1, <3>1 DEF a
  <2>2. CASE ~(m < n)
    <3>1. m - (n - 1) \in 1..(Len(s) - n) /\ (m - (n - 1)) + n = m + 1
      BY <1>3, <2>2
    <3>2. (a \o b)[m] = b[m - (n - 1)]
      BY <1>3, <2>2, <3>1
    <3> QED
      BY <1>2, <2>2, <3>1, <3>2 DEF b
  <2> QED
    BY <2>1, <2>2
<1> QED
  BY <1>3, <1>4, <1>5

LEMMA RemovedFrom ==
    \A S : \A s \in Seq(S) : \A n \in 1..Len(s) :
        /\ Len(tests!RemoveAt(s, n)) = Len(s) - 1
        /\ \A m \in 1..(Len(s) - 1) : tests!RemoveAt(s, n)[m] = IF m < n THEN s[m] ELSE s[m + 1]
<1> TAKE S
<1> TAKE s \in Seq(S)
<1> TAKE n \in 1..Len(s)
<1> QED
  BY Removed

\* A slot that has no file in flight takes one from a range.
LEMMA TakenOnce ==
    ASSUME NEW b, tests!Typed(b), tests!Exact(b), None \notin tests!Files, NEW d, tests!Typed(d),
           NEW i \in tests!Slots, NEW v \in tests!Slots, NEW n \in 1..Len(b.range[v]),
           b.inflight[i] = None, d.inflight = [b.inflight EXCEPT ![i] = b.range[v][n]],
           d.range = [b.range EXCEPT ![v] = tests!RemoveAt(@, n)],
           d.counted = b.counted, d.files_done = b.files_done
    PROVE  tests!Exact(d)
<1> DEFINE f == b.range[v][n]
<1>1. b.range[v] \in Seq(tests!Files) /\ f \in tests!Files /\ f # None
  BY DEF tests!Typed
<1>2. /\ b.range \in [tests!Slots -> Seq(tests!Files)] /\ d.range \in [tests!Slots -> Seq(tests!Files)]
      /\ d.range[v] = tests!RemoveAt(b.range[v], n)
      /\ \A j \in tests!Slots : j # v => d.range[j] = b.range[j]
  BY DEF tests!Typed
<1>a. /\ Len(d.range[v]) = Len(b.range[v]) - 1
      /\ \A m \in 1..(Len(b.range[v]) - 1) : d.range[v][m] = IF m < n THEN b.range[v][m] ELSE b.range[v][m + 1]
  <2>1. b.range[v] \in Seq(tests!Files) /\ n \in 1..Len(b.range[v])
    BY <1>1
  <2>3. /\ Len(tests!RemoveAt(b.range[v], n)) = Len(b.range[v]) - 1
        /\ \A m \in 1..(Len(b.range[v]) - 1) :
             tests!RemoveAt(b.range[v], n)[m] = IF m < n THEN b.range[v][m] ELSE b.range[v][m + 1]
    BY <2>1, RemovedFrom, Zenon
  <2> QED
    BY <1>2, <2>3, Zenon
<1>3. \A j \in tests!Slots : /\ Len(b.range[j]) \in Nat /\ Len(d.range[j]) \in Nat
                             /\ DOMAIN d.range[j] = 1..Len(d.range[j]) /\ DOMAIN b.range[j] = 1..Len(b.range[j])
  BY <1>2
<1> DEFINE from(j, m) == IF j = v /\ ~(m < n) THEN m + 1 ELSE m
\* Position m of range j of d was position from(j, m) of b.
<1>4. ASSUME NEW j \in tests!Slots, NEW m \in DOMAIN d.range[j]
      PROVE  /\ from(j, m) \in DOMAIN b.range[j] /\ d.range[j][m] = b.range[j][from(j, m)]
             /\ ~(j = v /\ from(j, m) = n)
  <2>1. CASE j # v
    BY <1>2, <2>1
  <2>2. CASE j = v
    <3>1. m \in 1..(Len(b.range[v]) - 1) /\ m \in Int /\ n \in Int
      BY <1>3, <1>a, <2>2
    <3>2. d.range[j][m] = b.range[j][from(j, m)]
      BY <1>a, <2>2, <3>1
    <3>3. from(j, m) \in 1..Len(b.range[j]) /\ from(j, m) # n
      BY <1>3, <2>2, <3>1
    <3> QED
      BY <1>3, <2>2, <3>2, <3>3
  <2> QED
    BY <2>1, <2>2
<1>5. ASSUME NEW j \in tests!Slots, NEW m \in DOMAIN b.range[j], ~(j = v /\ m = n)
      PROVE  \E l \in DOMAIN d.range[j] : d.range[j][l] = b.range[j][m]
  <2>1. CASE j = v /\ m > n
    <3>1. m \in 1..Len(b.range[v]) /\ n \in Int /\ m \in Int
      BY <1>3, <2>1
    <3>2. m - 1 \in 1..(Len(b.range[v]) - 1) /\ ~(m - 1 < n) /\ (m - 1) + 1 = m
      BY <1>3, <2>1, <3>1
    <3>3. m - 1 \in DOMAIN d.range[j] /\ d.range[j][m - 1] = b.range[j][m]
      BY <1>3, <1>a, <2>1, <3>2
    <3> QED
      BY <3>3
  <2>2. CASE ~(j = v /\ m > n)
    <3>1. CASE j # v
      BY <1>2, <3>1
    <3>2. CASE j = v
      <4>1. m \in 1..Len(b.range[v]) /\ n \in Int /\ m \in Int /\ m < n
        BY <1>3, <1>5, <2>2, <3>2
      <4>2. m \in 1..(Len(b.range[v]) - 1)
        BY <1>3, <4>1
      <4>3. m \in DOMAIN d.range[j] /\ d.range[j][m] = b.range[j][m]
        BY <1>3, <1>a, <3>2, <4>1, <4>2
      <4> QED
        BY <4>3
    <3> QED
      BY <3>1, <3>2
  <2> QED
    BY <2>1, <2>2
<1>6. ASSUME NEW j \in tests!Slots, NEW k \in tests!Slots, NEW m \in DOMAIN d.range[j], NEW l \in DOMAIN d.range[k],
             d.range[j][m] = d.range[k][l]
      PROVE  j = k /\ m = l
  <2>1. j = k /\ from(j, m) = from(k, l)
    <3>1. b.range[j][from(j, m)] = b.range[k][from(k, l)]
      BY <1>4, <1>6
    <3> HIDE DEF from
    <3> QED
      BY <1>4, <3>1 DEF tests!Exact, tests!EachOnce
  <2>2. m \in Int /\ l \in Int /\ n \in Int
    BY <1>3
  <2> QED
    BY <2>1, <2>2
<1>7. \A g \in tests!Files : tests!Queued(d, g) <=> tests!Queued(b, g) /\ g # f
  <2>1. ASSUME NEW g \in tests!Files, tests!Queued(d, g) PROVE tests!Queued(b, g) /\ g # f
    <3>0. PICK j \in tests!Slots : \E m \in DOMAIN d.range[j] : d.range[j][m] = g
      BY <2>1 DEF tests!Queued
    <3>1. PICK m \in DOMAIN d.range[j] : d.range[j][m] = g
      BY <3>0
    <3>2. n \in DOMAIN b.range[v]
      BY <1>3
    <3>3. g # f
      BY <1>4, <3>1, <3>2 DEF tests!Exact, tests!EachOnce
    <3> QED
      BY <1>4, <3>1, <3>3 DEF tests!Queued
  <2>2. ASSUME NEW g \in tests!Files, tests!Queued(b, g), g # f PROVE tests!Queued(d, g)
    <3>0. PICK j \in tests!Slots : \E m \in DOMAIN b.range[j] : b.range[j][m] = g
      BY <2>2 DEF tests!Queued
    <3>1. PICK m \in DOMAIN b.range[j] : b.range[j][m] = g
      BY <3>0
    <3> QED
      BY <1>5, <2>2, <3>1 DEF tests!Queued
  <2> QED
    BY <2>1, <2>2
<1>8. tests!Queued(b, f)
  BY <1>3 DEF tests!Queued
<1> HIDE DEF f
<1>9. \A j \in tests!Slots : d.inflight[j] = IF j = i THEN f ELSE b.inflight[j]
  BY DEF tests!Typed, f
<1>10. ~tests!InFlight(b, f) /\ f \notin b.counted
  BY <1>1, <1>8 DEF tests!Exact, tests!EachOnce
<1>11. \A g \in tests!Files : tests!InFlight(d, g) <=> tests!InFlight(b, g) \/ g = f
  <2>1. \A g \in tests!Files : g # None
    OBVIOUS
  <2> QED
    BY <1>9, <2>1 DEF tests!InFlight
<1>12. \A j, k \in tests!Slots : d.inflight[j] = d.inflight[k] => j = k \/ d.inflight[j] = None
  BY <1>9, <1>10 DEF tests!Exact, tests!EachOnce, tests!InFlight
<1>13. \A g \in tests!Files : /\ tests!Queued(d, g) \/ tests!InFlight(d, g) \/ g \in d.counted
                              /\ ~(tests!Queued(d, g) /\ tests!InFlight(d, g))
                              /\ ~(tests!Queued(d, g) /\ g \in d.counted)
                              /\ ~(tests!InFlight(d, g) /\ g \in d.counted)
  BY <1>7, <1>8, <1>10, <1>11 DEF tests!Exact, tests!EachOnce
<1> QED
  BY <1>6, <1>12, <1>13 DEF tests!Exact, tests!EachOnce

LEMMA FinitelyManyFiles ==
    ASSUME N \in Nat, NEW S, S \subseteq tests!Files
    PROVE  IsFiniteSet(S)
<1>1. IsFiniteSet(tests!Files)
  BY FS_Interval DEF tests!Files
<1> QED
  BY <1>1, FS_Subset

\* The back half of one range became another that was empty.
Halved(b, d, i, v, mid) ==
    /\ b.range \in [tests!Slots -> Seq(tests!Files)] /\ d.range \in [tests!Slots -> Seq(tests!Files)]
    /\ Len(b.range[i]) = 0 /\ Len(d.range[v]) = mid /\ Len(b.range[v]) = mid + Len(d.range[i])
    /\ \A m \in 1..mid : d.range[v][m] = b.range[v][m]
    /\ \A m \in 1..Len(d.range[i]) : d.range[i][m] = b.range[v][m + mid]
    /\ \A j \in tests!Slots \ {v, i} : d.range[j] = b.range[j]
    /\ d.inflight = b.inflight /\ d.counted = b.counted /\ d.files_done = b.files_done

LEMMA HalvedOnce ==
    ASSUME NEW b, tests!Exact(b), NEW d, NEW i \in tests!Slots, NEW v \in tests!Slots, i # v, NEW mid \in Nat,
           Halved(b, d, i, v, mid)
    PROVE  tests!Exact(d)
<1> USE DEF Halved
<1>2. \A j \in tests!Slots : /\ Len(b.range[j]) \in Nat /\ Len(d.range[j]) \in Nat
                             /\ DOMAIN d.range[j] = 1..Len(d.range[j]) /\ DOMAIN b.range[j] = 1..Len(b.range[j])
  OBVIOUS
<1> DEFINE slot(j) == IF j = i THEN v ELSE j
           from(j, m) == IF j = i THEN m + mid ELSE m
\* Position m of range j of d was position from(j, m) of range slot(j) of b.
<1>5. ASSUME NEW j \in tests!Slots, NEW m \in DOMAIN d.range[j]
      PROVE  /\ slot(j) \in tests!Slots /\ from(j, m) \in DOMAIN b.range[slot(j)]
             /\ d.range[j][m] = b.range[slot(j)][from(j, m)]
             /\ m \in Nat /\ (j = i => from(j, m) > mid) /\ (j = v => from(j, m) <= mid)
  <2>1. m \in 1..Len(d.range[j]) /\ m \in Nat
    BY <1>2
  <2>2. CASE j # v /\ j # i
    BY <2>1, <2>2
  <2>3. CASE j = v
    BY <1>2, <2>1, <2>3
  <2>4. CASE j = i
    BY <1>2, <2>1, <2>4
  <2> QED
    BY <2>2, <2>3, <2>4
<1>6. ASSUME NEW j \in tests!Slots, NEW m \in DOMAIN b.range[j]
      PROVE  \E k \in tests!Slots : \E l \in DOMAIN d.range[k] : d.range[k][l] = b.range[j][m]
  <2>1. m \in 1..Len(b.range[j]) /\ m \in Nat
    BY <1>2
  <2>2. CASE j # v /\ j # i
    BY <2>2
  <2>3. CASE j = i
    BY <2>1, <2>3
  <2>4. CASE j = v /\ m <= mid
    <3>1. m \in 1..mid
      BY <2>1, <2>4
    <3>2. m \in DOMAIN d.range[v] /\ d.range[v][m] = b.range[j][m]
      BY <1>2, <2>4, <3>1
    <3> QED
      BY <3>2
  <2>5. CASE j = v /\ m > mid
    <3>1. m - mid \in 1..Len(d.range[i]) /\ (m - mid) + mid = m
      BY <1>2, <2>1, <2>5
    <3>2. m - mid \in DOMAIN d.range[i] /\ d.range[i][m - mid] = b.range[j][m]
      BY <1>2, <2>5, <3>1
    <3> QED
      BY <3>2
  <2> QED
    BY <2>1, <2>2, <2>3, <2>4, <2>5
<1>7. ASSUME NEW j \in tests!Slots, NEW k \in tests!Slots, NEW m \in DOMAIN d.range[j], NEW l \in DOMAIN d.range[k],
             d.range[j][m] = d.range[k][l]
      PROVE  j = k /\ m = l
  <2>1. slot(j) = slot(k) /\ from(j, m) = from(k, l)
    <3>1. b.range[slot(j)][from(j, m)] = b.range[slot(k)][from(k, l)]
      BY <1>5, <1>7
    <3>2. /\ slot(j) \in tests!Slots /\ from(j, m) \in DOMAIN b.range[slot(j)]
          /\ slot(k) \in tests!Slots /\ from(k, l) \in DOMAIN b.range[slot(k)]
      BY <1>5
    <3> HIDE DEF slot, from
    <3>3. \A u, w \in tests!Slots : \A p \in DOMAIN b.range[u], q \in DOMAIN b.range[w] :
            b.range[u][p] = b.range[w][q] => u = w /\ p = q
      BY DEF tests!Exact, tests!EachOnce
    <3> QED
      BY <3>1, <3>2, <3>3
  <2>2. m \in Nat /\ (j = i => from(j, m) > mid) /\ (j = v => from(j, m) <= mid)
    BY <1>5
  <2>a. l \in Nat /\ (k = i => from(k, l) > mid) /\ (k = v => from(k, l) <= mid)
    BY <1>5
  <2>3. j = k
    BY <2>1, <2>2, <2>a
  <2> QED
    BY <2>1, <2>2, <2>3, <2>a
<1>8. \A f \in tests!Files : tests!Queued(d, f) <=> tests!Queued(b, f)
  <2>1. ASSUME NEW f \in tests!Files, tests!Queued(d, f) PROVE tests!Queued(b, f)
    <3>1. PICK j \in tests!Slots : \E m \in DOMAIN d.range[j] : d.range[j][m] = f
      BY <2>1 DEF tests!Queued
    <3>2. PICK m \in DOMAIN d.range[j] : d.range[j][m] = f
      BY <3>1
    <3>3. slot(j) \in tests!Slots /\ from(j, m) \in DOMAIN b.range[slot(j)] /\ b.range[slot(j)][from(j, m)] = f
      BY <1>5, <3>2
    <3> QED
      BY <3>3 DEF tests!Queued
  <2>2. ASSUME NEW f \in tests!Files, tests!Queued(b, f) PROVE tests!Queued(d, f)
    <3>1. PICK j \in tests!Slots : \E m \in DOMAIN b.range[j] : b.range[j][m] = f
      BY <2>2 DEF tests!Queued
    <3>2. PICK m \in DOMAIN b.range[j] : b.range[j][m] = f
      BY <3>1
    <3>3. PICK k \in tests!Slots : \E l \in DOMAIN d.range[k] : d.range[k][l] = b.range[j][m]
      BY <1>6
    <3> QED
      BY <3>2, <3>3 DEF tests!Queued
  <2> QED
    BY <2>1, <2>2
<1>9. \A f \in tests!Files : tests!InFlight(d, f) <=> tests!InFlight(b, f)
  BY DEF tests!InFlight
<1> QED
  BY <1>7, <1>8, <1>9 DEF tests!Exact, tests!EachOnce

LEMMA StolenOnce ==
    ASSUME NEW b, tests!Typed(b), tests!Exact(b), NEW d, tests!Typed(d),
           NEW i \in tests!Slots, NEW v \in tests!Slots, i # v, b.range[i] = << >>, NEW mid \in 0..Len(b.range[v]),
           d.range = [b.range EXCEPT ![v] = SubSeq(b.range[v], 1, mid),
                                     ![i] = SubSeq(b.range[v], mid + 1, Len(b.range[v]))],
           d.inflight = b.inflight, d.counted = b.counted, d.files_done = b.files_done
    PROVE  tests!Exact(d)
<1>1. /\ b.range \in [tests!Slots -> Seq(tests!Files)] /\ d.range \in [tests!Slots -> Seq(tests!Files)]
      /\ d.range[v] = SubSeq(b.range[v], 1, mid)
      /\ d.range[i] = SubSeq(b.range[v], mid + 1, Len(b.range[v]))
      /\ \A j \in tests!Slots \ {v, i} : d.range[j] = b.range[j]
  BY DEF tests!Typed
<1>2. \A s \in Seq(tests!Files) : mid \in 0..Len(s) =>
          /\ Len(SubSeq(s, 1, mid)) = mid /\ Len(SubSeq(s, mid + 1, Len(s))) = Len(s) - mid
          /\ \A m \in 1..mid : SubSeq(s, 1, mid)[m] = s[m]
          /\ \A m \in 1..(Len(s) - mid) : SubSeq(s, mid + 1, Len(s))[m] = s[m + mid]
  <2> SUFFICES ASSUME NEW s \in Seq(tests!Files), mid \in 0..Len(s)
               PROVE  /\ Len(SubSeq(s, 1, mid)) = mid /\ Len(SubSeq(s, mid + 1, Len(s))) = Len(s) - mid
                      /\ \A m \in 1..mid : SubSeq(s, 1, mid)[m] = s[m]
                      /\ \A m \in 1..(Len(s) - mid) : SubSeq(s, mid + 1, Len(s))[m] = s[m + mid]
    OBVIOUS
  <2>1. Len(SubSeq(s, 1, mid)) = mid /\ \A m \in 1..mid : SubSeq(s, 1, mid)[m] = s[m]
    OBVIOUS
  <2>2. Len(SubSeq(s, mid + 1, Len(s))) = Len(s) - mid
    OBVIOUS
  <2>3. \A m \in 1..(Len(s) - mid) : SubSeq(s, mid + 1, Len(s))[m] = s[m + mid]
    OBVIOUS
  <2> QED
    BY <2>1, <2>2, <2>3
<1>3. mid \in 0..Len(b.range[v]) /\ b.range[v] \in Seq(tests!Files) /\ Len(b.range[v]) \in Nat
  BY <1>1
<1>4. /\ Len(d.range[v]) = mid /\ Len(d.range[i]) = Len(b.range[v]) - mid
      /\ \A m \in 1..mid : d.range[v][m] = b.range[v][m]
      /\ \A m \in 1..(Len(b.range[v]) - mid) : d.range[i][m] = b.range[v][m + mid]
  <2>1. /\ Len(SubSeq(b.range[v], 1, mid)) = mid
        /\ Len(SubSeq(b.range[v], mid + 1, Len(b.range[v]))) = Len(b.range[v]) - mid
        /\ \A m \in 1..mid : SubSeq(b.range[v], 1, mid)[m] = b.range[v][m]
        /\ \A m \in 1..(Len(b.range[v]) - mid) :
             SubSeq(b.range[v], mid + 1, Len(b.range[v]))[m] = b.range[v][m + mid]
    BY <1>2, <1>3, Zenon
  <2> QED
    BY <1>1, <2>1, Zenon
<1>5. mid \in Nat /\ Len(b.range[v]) = mid + Len(d.range[i]) /\ Len(b.range[i]) = 0
  BY <1>3, <1>4
<1>6. \A m \in 1..Len(d.range[i]) : d.range[i][m] = b.range[v][m + mid]
  BY <1>4, Zenon
<1>7. Halved(b, d, i, v, mid)
  BY <1>1, <1>4, <1>5, <1>6 DEF Halved
<1> QED
  BY <1>5, <1>7, HalvedOnce

\* A file that was in flight is counted.
LEMMA CountedOnce ==
    ASSUME NEW b, tests!Typed(b), tests!Exact(b), None \notin tests!Files, N \in Nat, NEW d,
           NEW i \in tests!Slots, NEW f \in tests!Files, b.inflight[i] = f,
           d.inflight = [b.inflight EXCEPT ![i] = None], d.range = b.range,
           d.counted = b.counted \cup {f}, d.files_done = b.files_done + 1
    PROVE  tests!Exact(d)
<1>1. \A j \in tests!Slots : d.inflight[j] = IF j = i THEN None ELSE b.inflight[j]
  BY DEF tests!Typed
<1>2. tests!InFlight(b, f) /\ f \notin b.counted /\ f # None
  BY DEF tests!Exact, tests!EachOnce, tests!InFlight
<1>3. d.files_done = Cardinality(d.counted)
  <2>1. IsFiniteSet(b.counted)
    BY FinitelyManyFiles DEF tests!Typed
  <2>2. b.files_done = Cardinality(b.counted)
    BY CardinalityIs DEF tests!Exact
  <2> QED
    BY <1>2, <2>1, <2>2, FS_AddElement
<1>4. \A g \in tests!Files : tests!InFlight(d, g) <=> tests!InFlight(b, g) /\ g # f
  <2>1. \A j \in tests!Slots : b.inflight[j] = f => j = i
    BY <1>2 DEF tests!Exact, tests!EachOnce
  <2> QED
    BY <1>1, <2>1 DEF tests!InFlight
<1>5. \A g \in tests!Files : tests!Queued(d, g) <=> tests!Queued(b, g)
  BY DEF tests!Queued
<1>6. \A j, k \in tests!Slots : d.inflight[j] = d.inflight[k] => j = k \/ d.inflight[j] = None
  BY <1>1 DEF tests!Exact, tests!EachOnce
<1>7. \A g \in tests!Files : /\ tests!Queued(d, g) \/ tests!InFlight(d, g) \/ g \in d.counted
                             /\ ~(tests!Queued(d, g) /\ tests!InFlight(d, g))
                             /\ ~(tests!Queued(d, g) /\ g \in d.counted)
                             /\ ~(tests!InFlight(d, g) /\ g \in d.counted)
  BY <1>2, <1>4, <1>5 DEF tests!Exact, tests!EachOnce
<1> QED
  BY <1>3, <1>6, <1>7, CardinalityIs DEF tests!Exact, tests!EachOnce

\* Every file that was in a range is counted.
LEMMA DroppedOnce ==
    ASSUME NEW b, tests!Typed(b), tests!Exact(b), N \in Nat, NEW d,
           d.range = [i \in tests!Slots |-> << >>], d.inflight = b.inflight,
           d.counted = b.counted \cup {f \in tests!Files : tests!Queued(b, f)},
           d.files_done = b.files_done + Cardinality({f \in tests!Files : tests!Queued(b, f)})
    PROVE  tests!Exact(d)
<1> DEFINE waiting == {f \in tests!Files : tests!Queued(b, f)}
<1>1. IsFiniteSet(b.counted) /\ IsFiniteSet(waiting)
  BY FinitelyManyFiles DEF tests!Typed
<1>2. waiting \cap b.counted = {}
  BY DEF tests!Exact, tests!EachOnce
<1>3. d.files_done = Cardinality(d.counted)
  <2> HIDE DEF waiting
  <2>1. /\ Cardinality(b.counted \cup waiting)
             = Cardinality(b.counted) + Cardinality(waiting) - Cardinality(b.counted \cap waiting)
        /\ Cardinality({}) = 0 /\ Cardinality(b.counted) \in Nat /\ Cardinality(waiting) \in Nat
    BY <1>1, FS_Union, FS_EmptySet, FS_CardinalityType
  <2>2. b.counted \cap waiting = {}
    BY <1>2
  <2>3. d.counted = b.counted \cup waiting /\ d.files_done = b.files_done + Cardinality(waiting)
    BY DEF waiting
  <2>4. b.files_done = Cardinality(b.counted)
    BY CardinalityIs DEF tests!Exact
  <2>5. d.files_done = Cardinality(b.counted) + Cardinality(waiting)
    BY <2>3, <2>4, Zenon
  <2>6. Cardinality(d.counted) = Cardinality(b.counted) + Cardinality(waiting)
    <3>1. Cardinality(b.counted \cap waiting) = 0
      BY <2>1, <2>2
    <3>2. Cardinality(b.counted \cup waiting) = Cardinality(b.counted) + Cardinality(waiting)
      BY <2>1, <3>1
    <3> QED
      BY <2>3, <3>2, Zenon
  <2> QED
    BY <2>5, <2>6
<1>4. \A j \in tests!Slots : DOMAIN d.range[j] = {}
  OBVIOUS
<1>5. \A f \in tests!Files : ~tests!Queued(d, f)
  BY <1>4 DEF tests!Queued
<1>6. \A f \in tests!Files : tests!InFlight(d, f) <=> tests!InFlight(b, f)
  BY DEF tests!InFlight
<1>7. \A f \in tests!Files : /\ tests!InFlight(d, f) \/ f \in d.counted
                             /\ ~(tests!InFlight(d, f) /\ f \in d.counted)
  BY <1>6 DEF tests!Exact, tests!EachOnce
<1> QED
  BY <1>3, <1>4, <1>5, <1>7, CardinalityIs DEF tests!Exact, tests!EachOnce

LEMMA CandidatesIn ==
    ASSUME NEW b, NEW range \in Seq(tests!Files)
    PROVE  tests!Candidates(b, range) \subseteq 1..Len(range) /\ (b.mode # "apart" => tests!Candidates(b, range) = 1..Len(range))
<1>1. DOMAIN range = 1..Len(range)
  OBVIOUS
<1> QED
  BY <1>1 DEF tests!Candidates

LEMMA LeftIsNat ==
    ASSUME N \in Nat, NEW b, tests!Typed(b), NEW i \in tests!Slots
    PROVE  tests!Left(b, i) \in Nat
<1>1. b.range[i] \in Seq(tests!Files)
  BY DEF tests!Typed
<1>2. tests!Range(b.range[i]) \subseteq tests!Files
  BY <1>1 DEF tests!Range
<1>3. ASSUME NEW fs, fs \subseteq tests!Files
      PROVE  tests!Cost(fs) \in Nat
  <2>1. Cardinality(fs) \in Nat /\ Cardinality(fs \cap Slow) \in Nat
    <3>1. IsFiniteSet(fs) /\ IsFiniteSet(fs \cap Slow)
      BY <1>3, FinitelyManyFiles
    <3> QED
      BY <3>1, FS_CardinalityType
  <2> QED
    BY <2>1, CardinalityIs DEF tests!Cost
<1> QED
  BY <1>1, <1>2, <1>3 DEF tests!Left

LEMMA VictimIn ==
    ASSUME tests!TestCoordinatorAssumption, NEW b, tests!Typed(b), tests!HasUndispatched(b)
    PROVE  tests!Victim(b) \in tests!Slots /\ b.range[tests!Victim(b)] # << >>
<1> USE DEF tests!TestCoordinatorAssumption
<1> DEFINE others == {v \in tests!Slots : b.range[v] # << >>}
           most == {v \in others : \A i \in others \ {v} : tests!Left(b, i) <= tests!Left(b, v)}
           left == [v \in tests!Slots |-> tests!Left(b, v)]
<1>1. others \subseteq 1..K /\ others # {} /\ \A v \in others : left[v] \in Nat
  BY LeftIsNat DEF tests!Slots, tests!HasUndispatched
<1>2. PICK v \in others : \A i \in others : left[i] <= left[v]
  <2> HIDE DEF others, left
  <2> QED
    BY <1>1, GreatestExists
<1>3. most # {} /\ most \subseteq Nat
  BY <1>1, <1>2
<1>4. tests!First(most) \in most
  <2> HIDE DEF most
  <2> QED
    BY <1>3, FirstIsLeast
<1>5. tests!Victim(b) = tests!First(most)
  BY DEF tests!Victim
<1> QED
  BY <1>4, <1>5

\* d is b after slot i was given a file, told to shut down or made to wait.
Given(b, d, i) ==
    /\ tests!Typed(d) /\ Changes(b, d, {"range", "inflight", "commands", "waits"})
    /\ \A j \in tests!Slots \ {i} : /\ d.inflight[j] = b.inflight[j] /\ d.commands[j] = b.commands[j]
                                    /\ d.waits[j] = b.waits[j]
    /\ \/ /\ d.waits[i] = b.waits[i]
          /\ \E command \in tests!Files \cup {None} : d.commands[i] = Append(b.commands[i], command)
       \/ /\ b.mode = "apart" /\ d.waits[i]
          /\ d.inflight[i] = b.inflight[i] /\ d.commands[i] = b.commands[i]

LEMMA ChangesCompose ==
    ASSUME NEW b, NEW d, NEW e, NEW S, NEW T, NEW U, Changes(b, d, S), Changes(d, e, T), S \cup T \subseteq U
    PROVE  Changes(b, e, U)
  BY DEF Changes

LEMMA TakeFromIs ==
    ASSUME None \notin tests!Files, NEW b, tests!Typed(b), NEW i \in tests!Slots, NEW v \in tests!Slots,
           b.mode # "apart" => b.range[v] # << >>, NEW d, d = tests!TakeFrom(b, i, v)
    PROVE  Given(b, d, i) /\ (tests!Exact(b) /\ b.inflight[i] = None => tests!Exact(d))
<1> DEFINE open == tests!Candidates(b, b.range[v])
           next == tests!First(open)
<1>1. b.range[v] \in Seq(tests!Files) /\ b.range \in [tests!Slots -> Seq(tests!Files)] /\ b.waits \in [tests!Slots -> BOOLEAN]
  BY DEF tests!Typed
<1>2. open \subseteq 1..Len(b.range[v]) /\ (b.mode # "apart" => open # {})
  <2>1. open \subseteq 1..Len(b.range[v]) /\ (b.mode # "apart" => open = 1..Len(b.range[v]))
    BY <1>1, CandidatesIn
  <2>2. b.range[v] # << >> => 1 \in 1..Len(b.range[v])
    BY <1>1
  <2> QED
    BY <2>1, <2>2
<1> HIDE DEF open
<1>3. CASE open = {}
  <2>1. d = [b EXCEPT !.waits[i] = TRUE]
    BY <1>3, Zenon DEF tests!TakeFrom, open
  <2>2. Changes(b, d, {"waits"}) /\ d.waits = [b.waits EXCEPT ![i] = TRUE]
    BY <2>1, FieldsAre DEF tests!Typed, InFields, tests!Shape, Changes
  <2>3. d.waits \in [tests!Slots -> BOOLEAN] /\ d.waits[i] /\ \A j \in tests!Slots \ {i} : d.waits[j] = b.waits[j]
    BY <1>1, <2>2
  <2>4. tests!Typed(d)
    BY <2>2, <2>3, FieldsAre DEF tests!Typed, InFields, Changes
  <2>5. Changes(b, d, {"range", "inflight", "commands", "waits"})
    BY <2>2 DEF Changes
  <2>6. d.inflight = b.inflight /\ d.commands = b.commands /\ d.range = b.range
        /\ d.counted = b.counted /\ d.files_done = b.files_done
    BY <2>2, FieldsAre DEF InFields, Changes
  <2>7. tests!Exact(b) => tests!Exact(d)
    BY <2>6 DEF tests!Exact, tests!EachOnce, tests!Queued, tests!InFlight
  <2> QED
    BY <1>2, <1>3, <2>3, <2>4, <2>5, <2>6, <2>7 DEF Given
<1>4. CASE open # {}
  <2>1. next \in 1..Len(b.range[v])
    <3>1. open \subseteq Nat
      BY <1>2
    <3> QED
      BY <1>2, <1>4, <3>1, FirstIsLeast
  <2> HIDE DEF next
  <2> DEFINE e == [b EXCEPT !.range[v] = tests!RemoveAt(@, next)]
  <2>2. d = tests!Dispatch(e, i, b.range[v][next])
    BY <1>4, Zenon DEF tests!TakeFrom, open, next
  <2>3. Changes(b, e, {"range"}) /\ e.range = [b.range EXCEPT ![v] = tests!RemoveAt(@, next)]
    BY FieldsAre DEF tests!Typed, InFields, tests!Shape, Changes
  <2> HIDE DEF e
  <2>4. \A s \in Seq(tests!Files) : next \in 1..Len(s) => tests!RemoveAt(s, next) \in Seq(tests!Files)
    BY Removed
  <2>5. e.range \in [tests!Slots -> Seq(tests!Files)]
    BY <1>1, <2>1, <2>3, <2>4
  <2>6. tests!Typed(e)
    BY <2>3, <2>5, FieldsAre DEF tests!Typed, InFields, Changes
  <2>7. PICK f \in tests!Files : f = b.range[v][next]
    BY <1>1, <2>1
  <2>8. /\ tests!Typed(d) /\ Changes(e, d, {"commands", "inflight"})
        /\ d.commands = [e.commands EXCEPT ![i] = Append(@, f)]
        /\ d.inflight = [e.inflight EXCEPT ![i] = f]
    <3>1. d = tests!Dispatch(e, i, f)
      BY <2>2, <2>7, Zenon
    <3> QED
      BY <2>6, <3>1, DispatchIs
  <2>9. Changes(b, d, {"range", "inflight", "commands", "waits"})
    BY <2>3, <2>8 DEF Changes
  <2>10. /\ e.commands = b.commands /\ e.inflight = b.inflight /\ d.range = e.range
         /\ d.waits = b.waits /\ d.counted = b.counted /\ d.files_done = b.files_done
    BY <2>3, <2>8, FieldsAre DEF InFields, Changes
  <2>11. /\ d.commands[i] = Append(b.commands[i], f)
         /\ \A j \in tests!Slots \ {i} : d.inflight[j] = b.inflight[j] /\ d.commands[j] = b.commands[j]
    <3>1. b.commands \in [tests!Slots -> Seq(tests!Files \cup {None})] /\ b.inflight \in [tests!Slots -> tests!Files \cup {None}]
      BY DEF tests!Typed
    <3> QED
      BY <2>8, <2>10, <3>1
  <2>12. tests!Exact(b) /\ b.inflight[i] = None => tests!Exact(d)
    BY <2>1, <2>3, <2>7, <2>8, <2>10, TakenOnce
  <2> QED
    BY <2>7, <2>8, <2>9, <2>10, <2>11, <2>12 DEF Given
<1> QED
  BY <1>3, <1>4

\* A handler that leaves the files where they are keeps them counted exactly.
LEMMA ExactKept ==
    ASSUME NEW b, tests!Exact(b), NEW d, d.range = b.range, d.inflight = b.inflight,
           d.counted = b.counted, d.files_done = b.files_done
    PROVE  tests!Exact(d)
  BY DEF tests!Exact, tests!EachOnce, tests!Queued, tests!InFlight

LEMMA ShutdownIs ==
    ASSUME NEW b, tests!Typed(b), NEW i \in tests!Slots, NEW d, d = tests!Shutdown(b, i)
    PROVE  Given(b, d, i) /\ (tests!Exact(b) => tests!Exact(d))
<1>1. d = tests!Send(b, i, None)
  BY DEF tests!Shutdown
<1>2. /\ tests!Typed(d) /\ Changes(b, d, {"commands"})
      /\ d.commands = [b.commands EXCEPT ![i] = Append(@, None)]
  BY <1>1, SendIs
<1>3. b.commands \in [tests!Slots -> Seq(tests!Files \cup {None})]
  BY DEF tests!Typed
<1>4. /\ d.range = b.range /\ d.inflight = b.inflight /\ d.counted = b.counted
      /\ d.files_done = b.files_done /\ d.waits = b.waits
  BY <1>2, FieldsAre DEF InFields, Changes
<1>5. Changes(b, d, {"range", "inflight", "commands", "waits"})
  BY <1>2 DEF Changes
<1>6. /\ d.commands[i] = Append(b.commands[i], None)
      /\ \A j \in tests!Slots \ {i} : d.commands[j] = b.commands[j]
  BY <1>2, <1>3
<1> QED
  BY <1>2, <1>4, <1>5, <1>6, ExactKept DEF Given

LEMMA StealBackHalfIs ==
    ASSUME None \notin tests!Files, NEW b, tests!Typed(b), NEW i \in tests!Slots, NEW v \in tests!Slots,
           b.range[i] = << >>, b.range[v] # << >>, NEW d, d = tests!StealBackHalf(b, i, v)
    PROVE  Given(b, d, i) /\ (tests!Exact(b) /\ b.inflight[i] = None => tests!Exact(d))
<1> DEFINE range == b.range[v]
           mid == Len(range) \div 2
           e == [b EXCEPT !.range[v] = SubSeq(range, 1, mid),
                          !.range[i] = SubSeq(range, mid + 1, Len(range))]
<1>1. d = tests!TakeFrom(e, i, i)
  BY Zenon DEF tests!StealBackHalf
<1>2. b.range[v] \in Seq(tests!Files) /\ Len(range) \in Nat \ {0} /\ i # v /\ b.range \in [tests!Slots -> Seq(tests!Files)]
  BY DEF tests!Typed
<1>3. mid \in Nat /\ mid < Len(range) /\ mid \in 0..Len(range)
  <2>1. PICK n \in Nat \ {0} : n = Len(range)
    BY <1>2
  <2>2. PICK q \in Int : q = n \div 2
    BY Division
  <2>3. 2 * q <= n /\ n < 2 * q + 2
    BY <2>2, Division
  <2>4. q \in Nat /\ q < n /\ q \in 0..n
    BY <2>3
  <2>5. mid = q
    BY <2>1, <2>2, Zenon
  <2> HIDE DEF mid
  <2> QED
    BY <2>1, <2>4, <2>5
<1> HIDE DEF mid
<1>4. /\ Changes(b, e, {"range"})
      /\ e.range = [b.range EXCEPT ![v] = SubSeq(b.range[v], 1, mid),
                                   ![i] = SubSeq(b.range[v], mid + 1, Len(b.range[v]))]
  BY FieldsAre DEF tests!Typed, InFields, tests!Shape, Changes
<1> HIDE DEF e
<1>5. /\ SubSeq(b.range[v], 1, mid) \in Seq(tests!Files)
      /\ SubSeq(b.range[v], mid + 1, Len(b.range[v])) \in Seq(tests!Files)
      /\ Len(SubSeq(b.range[v], mid + 1, Len(b.range[v]))) = Len(b.range[v]) - mid
  <2>1. \A s \in Seq(tests!Files) : mid \in 0..Len(s) =>
          /\ SubSeq(s, 1, mid) \in Seq(tests!Files) /\ SubSeq(s, mid + 1, Len(s)) \in Seq(tests!Files)
          /\ Len(SubSeq(s, mid + 1, Len(s))) = Len(s) - mid
    BY <1>3
  <2> QED
    BY <1>2, <1>3, <2>1
<1>6. /\ e.range \in [tests!Slots -> Seq(tests!Files)]
      /\ e.range[i] = SubSeq(b.range[v], mid + 1, Len(b.range[v]))
  BY <1>2, <1>4, <1>5
<1>7. Len(e.range[i]) # 0
  BY <1>2, <1>3, <1>5, <1>6
<1>8. e.range[i] # << >>
  BY <1>7
<1>9. tests!Typed(e)
  BY <1>4, <1>6, FieldsAre DEF tests!Typed, InFields, Changes
<1>10. /\ e.mode = b.mode /\ e.inflight = b.inflight /\ e.counted = b.counted
       /\ e.files_done = b.files_done /\ e.waits = b.waits /\ e.commands = b.commands
  BY <1>4, FieldsAre DEF InFields, Changes
<1>11. tests!Exact(b) => tests!Exact(e)
  BY <1>2, <1>3, <1>4, <1>9, <1>10, StolenOnce
<1>12. Given(e, d, i) /\ (tests!Exact(e) /\ e.inflight[i] = None => tests!Exact(d))
  BY <1>1, <1>8, <1>9, TakeFromIs
<1>13. Changes(b, d, {"range", "inflight", "commands", "waits"})
  BY <1>4, <1>12 DEF Given, Changes
<1> QED
  BY <1>10, <1>11, <1>12, <1>13 DEF Given

LEMMA AssignWorkIs ==
    ASSUME tests!TestCoordinatorAssumption, NEW b, tests!Typed(b), NEW i \in tests!Slots, NEW d, d = tests!AssignWork(b, i)
    PROVE  Given(b, d, i) /\ (tests!Exact(b) /\ (b.inflight[i] = None \/ b.stop # "none") => tests!Exact(d))
<1>1. None \notin tests!Files
  BY DEF tests!TestCoordinatorAssumption
<1>2. CASE b.stop # "none"
  BY <1>2, ShutdownIs DEF tests!AssignWork
<1>3. CASE b.stop = "none" /\ b.range[i] # << >>
  BY <1>1, <1>3, TakeFromIs DEF tests!AssignWork
<1>4. CASE b.stop = "none" /\ b.range[i] = << >> /\ ~tests!HasUndispatched(b)
  BY <1>4, ShutdownIs DEF tests!AssignWork
<1>5. CASE b.stop = "none" /\ b.range[i] = << >> /\ tests!HasUndispatched(b)
  <2>1. tests!Victim(b) \in tests!Slots /\ b.range[tests!Victim(b)] # << >>
    BY <1>5, VictimIn
  <2>2. d = tests!StealBackHalf(b, i, tests!Victim(b)) \/ d = tests!TakeFrom(b, i, tests!Victim(b))
    BY <1>5 DEF tests!AssignWork
  <2> QED
    BY <1>1, <1>5, <2>1, <2>2, StealBackHalfIs, TakeFromIs
<1> QED
  BY <1>2, <1>3, <1>4, <1>5

LEMMA AbortQueuedIs ==
    ASSUME N \in Nat, NEW b, tests!Typed(b), NEW d, d = tests!AbortQueued(b)
    PROVE  /\ tests!Typed(d) /\ Changes(b, d, {"range", "files_done", "counted", "fail"})
           /\ tests!Exact(b) => tests!Exact(d)
<1> DEFINE waiting == UNION {tests!Range(b.range[i]) : i \in tests!Slots}
<1>1. waiting = {f \in tests!Files : tests!Queued(b, f)}
  <2>1. \A i \in tests!Slots : tests!Range(b.range[i]) \subseteq tests!Files
    BY DEF tests!Typed, tests!Range
  <2>2. \A f : f \in waiting <=> \E i \in tests!Slots : f \in tests!Range(b.range[i])
    OBVIOUS
  <2>3. \A f, i : f \in tests!Range(b.range[i]) <=> \E n \in DOMAIN b.range[i] : b.range[i][n] = f
    BY DEF tests!Range
  <2>4. \A f : f \in waiting <=> f \in tests!Files /\ tests!Queued(b, f)
    BY <2>1, <2>2, <2>3 DEF tests!Queued
  <2> QED
    BY <2>4
<1>2. waiting \subseteq tests!Files /\ Cardinality(waiting) \in Nat
  <2>1. waiting \subseteq tests!Files
    BY <1>1
  <2> HIDE DEF waiting
  <2> QED
    BY <2>1, FinitelyManyFiles, FS_CardinalityType
<1>3. /\ Changes(b, d, {"range", "files_done", "counted", "fail"})
      /\ d.range = [i \in tests!Slots |-> << >>] /\ d.counted = b.counted \cup waiting
      /\ d.files_done = b.files_done + Cardinality(waiting) /\ d.fail = b.fail + Cardinality(waiting)
  BY FieldsAre, CardinalityIs DEF tests!Typed, InFields, tests!Shape, Changes, tests!AbortQueued
<1> HIDE DEF waiting
<1>4. /\ d.range \in [tests!Slots -> Seq(tests!Files)] /\ d.counted \subseteq tests!Files
      /\ d.files_done \in Nat /\ d.fail \in Nat
  BY <1>2, <1>3 DEF tests!Typed
<1>5. tests!Typed(d)
  BY <1>3, <1>4, FieldsAre DEF tests!Typed, InFields, Changes
<1>6. d.inflight = b.inflight
  BY <1>3, FieldsAre DEF InFields, Changes
<1>7. tests!Exact(b) => tests!Exact(d)
  BY <1>1, <1>3, <1>6, DroppedOnce
<1> QED
  BY <1>3, <1>5, <1>7

LEMMA TerminateIs ==
    ASSUME N \in Nat, NEW b, tests!Typed(b), NEW d, d = tests!TerminateAfterPanic(b)
    PROVE  /\ tests!Typed(d) /\ d.stop = "panic" /\ (tests!Exact(b) => tests!Exact(d))
           /\ Changes(b, d, {"range", "files_done", "counted", "fail", "signalled", "stop"})
<1> DEFINE e == [b EXCEPT !.signalled = @ \cup {i \in tests!Slots : b.alive[i]}, !.stop = "panic"]
<1>1. /\ Changes(b, e, {"signalled", "stop"}) /\ e.stop = "panic"
      /\ e.signalled = b.signalled \cup {i \in tests!Slots : b.alive[i]}
  BY FieldsAre DEF tests!Typed, InFields, tests!Shape, Changes
<1>2. d = e \/ d = tests!AbortQueued(e)
  BY Zenon DEF tests!TerminateAfterPanic
<1> HIDE DEF e
<1>3. e.signalled \subseteq tests!Slots
  BY <1>1 DEF tests!Typed
<1>4. tests!Typed(e)
  BY <1>1, <1>3, FieldsAre DEF tests!Typed, InFields, Changes
<1>5. tests!Exact(b) => tests!Exact(e)
  <2>1. /\ e.range = b.range /\ e.inflight = b.inflight
        /\ e.counted = b.counted /\ e.files_done = b.files_done
    BY <1>1, FieldsAre DEF InFields, Changes
  <2> QED
    BY <2>1, ExactKept
<1>6. CASE d = e
  BY <1>1, <1>4, <1>5, <1>6 DEF Changes
<1>7. CASE d = tests!AbortQueued(e)
  <2>1. /\ tests!Typed(d) /\ Changes(e, d, {"range", "files_done", "counted", "fail"})
        /\ tests!Exact(e) => tests!Exact(d)
    BY <1>4, <1>7, AbortQueuedIs
  <2>2. d.stop = e.stop
    BY <2>1, FieldsAre DEF InFields, Changes
  <2>3. Changes(b, d, {"range", "files_done", "counted", "fail", "signalled", "stop"})
    BY <1>1, <2>1 DEF Changes
  <2> QED
    BY <1>1, <1>5, <2>1, <2>2, <2>3
<1> QED
  BY <1>2, <1>6, <1>7

\* d is b after the end of the process in slot i.
SettledAs(b, d, i) ==
    /\ tests!Typed(d) /\ (tests!Exact(b) => tests!Exact(d))
    /\ Changes(b, d, {"live", "reap", "exit", "inflight", "done", "commands", "signalled",
                      "files_done", "counted", "fail", "stop", "failures", "range"})
    /\ d.reap = [b.reap EXCEPT ![i] = FALSE] /\ d.exit = [b.exit EXCEPT ![i] = None]
    /\ d.inflight = [b.inflight EXCEPT ![i] = None] /\ d.done = [b.done EXCEPT ![i] = FALSE]
    /\ d.stop = "none" => /\ b.stop = "none" /\ d.signalled = b.signalled \ {i}
                          /\ d.commands = [b.commands EXCEPT ![i] = << >>]
    /\ b.stop = "panic" \/ b.exit[i] = "panic" => d.stop = "panic"

LEMMA SettleIs ==
    ASSUME N \in Nat, None \notin tests!Files, NEW b, tests!Typed(b), NEW i \in tests!Slots, NEW d, d = tests!Settle(b, i)
    PROVE  SettledAs(b, d, i)
<1> DEFINE f == b.inflight[i]
           panicked == b.exit[i] = "panic"
           left == [b EXCEPT !.live = @ - 1, !.reap[i] = FALSE, !.exit[i] = None,
                             !.inflight[i] = None, !.done[i] = FALSE,
                             !.commands[i] = << >>, !.signalled = @ \ {i}]
           startup == f = None /\ ~b.ready[i]
           again == [left EXCEPT !.failures[i] = @ + 1]
           settled == IF f # None
                      THEN (IF b.stop = "panic" /\ ~panicked THEN tests!Count(left, f, TRUE)
                            ELSE tests!BailOut(tests!Count(left, f, TRUE)))
                      ELSE IF startup THEN again ELSE left
           Left7 == {"live", "reap", "exit", "inflight", "done", "commands", "signalled"}
<1>1. d = IF panicked /\ (f # None \/ startup \/ b.stop # "panic")
          THEN tests!TerminateAfterPanic(settled) ELSE settled
  BY Zenon DEF tests!Settle
<1>2. /\ Changes(b, left, Left7)
      /\ left.live = b.live - 1 /\ left.signalled = b.signalled \ {i}
      /\ left.reap = [b.reap EXCEPT ![i] = FALSE] /\ left.exit = [b.exit EXCEPT ![i] = None]
      /\ left.inflight = [b.inflight EXCEPT ![i] = None] /\ left.done = [b.done EXCEPT ![i] = FALSE]
      /\ left.commands = [b.commands EXCEPT ![i] = << >>]
  BY FieldsAre DEF tests!Typed, InFields, tests!Shape, Changes
<1>3. /\ left.live \in Int /\ left.signalled \subseteq tests!Slots
      /\ left.reap \in [tests!Slots -> BOOLEAN] /\ left.exit \in [tests!Slots -> {None, "exit", "panic"}]
      /\ left.inflight \in [tests!Slots -> tests!Files \cup {None}] /\ left.done \in [tests!Slots -> BOOLEAN]
      /\ left.commands \in [tests!Slots -> Seq(tests!Files \cup {None})]
  BY <1>2 DEF tests!Typed
<1> HIDE DEF left
<1>4. tests!Typed(left)
  BY <1>2, <1>3, FieldsAre DEF tests!Typed, InFields, Changes
<1>5. /\ left.range = b.range /\ left.counted = b.counted /\ left.files_done = b.files_done
      /\ left.stop = b.stop /\ left.failures = b.failures
  BY <1>2, FieldsAre DEF InFields, Changes
<1> DEFINE Kept(e) == /\ tests!Typed(e) /\ (tests!Exact(b) => tests!Exact(e))
                      /\ e.stop # "none" \/ (e.stop = b.stop /\ e.commands = left.commands)
                      /\ b.stop # "none" => e.stop = b.stop
                      /\ Changes(left, e, {"files_done", "counted", "fail", "stop", "failures", "commands"})
<1>6. ASSUME f # None PROVE Kept(settled)
  <2>1. f \in tests!Files
    BY <1>6 DEF tests!Typed
  <2> DEFINE e == tests!Count(left, f, TRUE)
  <2>2. /\ tests!Typed(e) /\ Changes(left, e, {"files_done", "counted", "fail"})
        /\ e.files_done = left.files_done + 1 /\ e.counted = left.counted \cup {f}
    <3>1. \A failed : e = tests!Count(left, f, failed) =>
             /\ tests!Typed(e) /\ Changes(left, e, {"files_done", "counted", "fail"})
             /\ e.files_done = left.files_done + 1 /\ e.counted = left.counted \cup {f}
      <4> HIDE DEF e, f
      <4> QED
        BY <1>4, <2>1, CountIs
    <3> QED
      BY <3>1, Zenon
  <2> HIDE DEF e
  <2>3. e.inflight = left.inflight /\ e.range = left.range /\ e.stop = left.stop /\ e.commands = left.commands
    BY <2>2, FieldsAre DEF InFields, Changes
  <2>4. tests!Exact(b) => tests!Exact(e)
    BY <1>2, <1>5, <2>1, <2>2, <2>3, CountedOnce
  <2>5. settled = e \/ settled = tests!BailOut(e)
    BY <1>6, Zenon DEF e
  <2> HIDE DEF settled
  <2>6. CASE settled = e
    BY <1>5, <2>2, <2>3, <2>4, <2>6 DEF Changes
  <2>7. CASE settled = tests!BailOut(e)
    <3>1. /\ tests!Typed(settled) /\ Changes(e, settled, {"stop", "commands"})
          /\ settled = e \/ (e.stop = "none" /\ settled.stop = "bail")
      BY <2>2, <2>7, BailOutIs
    <3>2. tests!Exact(e) => tests!Exact(settled)
      <4>1. /\ settled.range = e.range /\ settled.inflight = e.inflight
            /\ settled.counted = e.counted /\ settled.files_done = e.files_done
        BY <3>1, FieldsAre DEF InFields, Changes
      <4> QED
        BY <4>1, ExactKept
    <3>3. Changes(left, settled, {"files_done", "counted", "fail", "stop", "failures", "commands"})
      BY <2>2, <3>1 DEF Changes
    <3> QED
      BY <1>5, <2>3, <2>4, <3>1, <3>2, <3>3
  <2> QED
    BY <2>5, <2>6, <2>7
<1>7. ASSUME f = None PROVE Kept(settled)
  <2>1. /\ Changes(left, again, {"failures"}) /\ again.failures = [left.failures EXCEPT ![i] = @ + 1]
    BY <1>4, FieldsAre DEF tests!Typed, InFields, tests!Shape, Changes
  <2> HIDE DEF again
  <2>2. again.failures \in [tests!Slots -> Nat]
    <3>1. left.failures \in [tests!Slots -> Nat]
      BY <1>4 DEF tests!Typed
    <3> HIDE DEF Kept, settled, startup, panicked, f
    <3> QED
      BY <2>1, <3>1
  <2>3. tests!Typed(again)
    BY <1>4, <2>1, <2>2, FieldsAre DEF tests!Typed, InFields, Changes
  <2>4. left.inflight = b.inflight
    <3>1. b.inflight \in [tests!Slots -> tests!Files \cup {None}] /\ b.inflight[i] = None
      BY <1>7 DEF tests!Typed
    <3> HIDE DEF Kept, settled, startup, panicked, again, f
    <3> QED
      BY <1>2, <3>1
  <2>5. /\ again.range = left.range /\ again.inflight = left.inflight /\ again.counted = left.counted
        /\ again.files_done = left.files_done /\ again.stop = left.stop /\ again.commands = left.commands
    BY <2>1, FieldsAre DEF InFields, Changes
  <2>6. tests!Exact(b) => tests!Exact(left) /\ tests!Exact(again)
    BY <1>5, <2>4, <2>5, ExactKept
  <2>7. Kept(left) /\ Kept(again)
    BY <1>4, <1>5, <2>1, <2>3, <2>5, <2>6 DEF Changes, tests!Typed
  <2>8. settled = left \/ settled = again
    BY <1>7, Zenon
  <2> HIDE DEF settled, Kept
  <2> QED
    BY <2>7, <2>8
<1>8. Kept(settled)
  <2> HIDE DEF Kept, settled, f
  <2> QED
    BY <1>6, <1>7
<1> HIDE DEF settled, panicked, startup, f
<1>9. /\ settled.reap = left.reap /\ settled.exit = left.exit /\ settled.inflight = left.inflight
      /\ settled.done = left.done /\ settled.signalled = left.signalled
  BY <1>8, FieldsAre DEF InFields, Changes
<1>10. Changes(b, settled, {"live", "reap", "exit", "inflight", "done", "commands", "signalled",
                            "files_done", "counted", "fail", "stop", "failures", "range"})
  BY <1>2, <1>8 DEF Changes
<1>11. CASE d = settled /\ ~(panicked /\ b.stop # "panic")
  <2>1. b.stop = "panic" \/ b.exit[i] = "panic" => b.stop = "panic"
    BY <1>11 DEF panicked
  <2> QED
    BY <1>2, <1>8, <1>9, <1>10, <1>11, <2>1 DEF SettledAs
<1>12. CASE d = tests!TerminateAfterPanic(settled)
  <2>1. /\ tests!Typed(d) /\ d.stop = "panic" /\ (tests!Exact(settled) => tests!Exact(d))
        /\ Changes(settled, d, {"range", "files_done", "counted", "fail", "signalled", "stop"})
    BY <1>8, <1>12, TerminateIs
  <2>2. /\ d.reap = settled.reap /\ d.exit = settled.exit /\ d.inflight = settled.inflight
        /\ d.done = settled.done
    BY <2>1, FieldsAre DEF InFields, Changes
  <2>3. Changes(b, d, {"live", "reap", "exit", "inflight", "done", "commands", "signalled",
                       "files_done", "counted", "fail", "stop", "failures", "range"})
    BY <1>10, <2>1 DEF Changes
  <2> QED
    BY <1>2, <1>8, <1>9, <2>1, <2>2, <2>3 DEF SettledAs
<1> QED
  BY <1>1, <1>11, <1>12

LEMMA StartedIs ==
    ASSUME NEW b, tests!Typed(b), NEW i \in tests!Slots, NEW d, d = tests!Started(b, i)
    PROVE  /\ tests!Typed(d) /\ Changes(b, d, {"alive", "live"}) /\ d.alive = [b.alive EXCEPT ![i] = TRUE]
           /\ tests!Exact(b) => tests!Exact(d)
<1>1. /\ Changes(b, d, {"alive", "live"}) /\ d.alive = [b.alive EXCEPT ![i] = TRUE] /\ d.live = b.live + 1
  BY FieldsAre DEF tests!Typed, InFields, tests!Shape, Changes, tests!Started
<1>2. d.alive \in [tests!Slots -> BOOLEAN] /\ d.live \in Int
  BY <1>1 DEF tests!Typed
<1>3. tests!Typed(d)
  BY <1>1, <1>2, FieldsAre DEF tests!Typed, InFields, Changes
<1>4. /\ d.range = b.range /\ d.inflight = b.inflight
      /\ d.counted = b.counted /\ d.files_done = b.files_done
  BY <1>1, FieldsAre DEF InFields, Changes
<1> QED
  BY <1>1, <1>3, <1>4, ExactKept

-----------------------------------------------------------------------------
(* The steps *)

LEMMA TailOfOne ==
    ASSUME NEW S, NEW s \in Seq(S), Len(s) = 1
    PROVE  Tail(s) = << >>
<1>1. Tail(s) \in Seq(S) /\ Len(Tail(s)) = 0
  OBVIOUS
<1>2. \A t \in Seq(S) : Len(t) = 0 => t = << >>
  OBVIOUS
<1> QED
  BY <1>1, <1>2, Zenon

ProcsOK == /\ procs \in [tests!Slots -> tests!ProcType]
           /\ \A i \in tests!Slots : /\ procs[i].at = "running" => procs[i].file # None
                                     /\ procs[i].at = "exited"  => procs[i].status # None

LEMMA DecodeIs ==
    ASSUME ProcsOK, NEW i \in tests!Slots, NEW kind, tests!Decode(i, kind)
    PROVE  /\ ProcsOK' /\ ~coord.over /\ ~coord.done[i]
           /\ procs[i].frames \in Seq(tests!FrameType) /\ procs[i].frames # << >>
           /\ Head(procs[i].frames) \in tests!FrameType /\ Head(procs[i].frames).kind = kind
           /\ procs'[i].frames = Tail(procs[i].frames) /\ procs'[i].at = procs[i].at
           /\ \A j \in tests!Slots \ {i} : procs'[j] = procs[j]
<1>1. /\ procs[i] \in tests!ProcType /\ procs[i].frames \in Seq(tests!FrameType) /\ procs[i].frames # << >>
      /\ procs' = [procs EXCEPT ![i].frames = Tail(@)]
  BY DEF ProcsOK, tests!ProcType, tests!Decode
<1>2. Head(procs[i].frames) \in tests!FrameType /\ Tail(procs[i].frames) \in Seq(tests!FrameType)
  BY <1>1
<1>3. /\ procs'[i].frames = Tail(procs[i].frames) /\ procs'[i].at = procs[i].at
      /\ procs'[i].file = procs[i].file /\ procs'[i].status = procs[i].status
      /\ procs'[i] \in tests!ProcType
  BY <1>1, <1>2 DEF ProcsOK, tests!ProcType
<1>4. /\ \A j \in tests!Slots \ {i} : procs'[j] = procs[j]
      /\ procs' \in [tests!Slots -> tests!ProcType]
  BY <1>1, <1>3 DEF ProcsOK
<1>5. ProcsOK'
  BY <1>3, <1>4 DEF ProcsOK
<1> QED
  BY <1>1, <1>2, <1>3, <1>4, <1>5 DEF tests!Decode, tests!Driving, tests!Frame

\* What OneAtATime says of slot i is as it was.
SlotKept(i) ==
    /\ procs'[i] = procs[i] /\ coord'.mode = coord.mode /\ coord'.spawned = coord.spawned
    /\ coord'.inflight[i] = coord.inflight[i] /\ coord'.commands[i] = coord.commands[i]
    /\ coord'.waits[i] = coord.waits[i] /\ coord'.done[i] = coord.done[i]
    /\ coord'.reap[i] = coord.reap[i] /\ (i \in coord'.signalled <=> i \in coord.signalled)

LEMMA OneAtATimeKept ==
    ASSUME NEW i \in tests!Slots, tests!OneAtATime(i), SlotKept(i)
    PROVE  tests!OneAtATime(i)'
  BY DEF tests!OneAtATime, SlotKept

LEMMA GivenOneAtATime ==
    ASSUME NEW i \in tests!Slots, NEW b, tests!Typed(b), Given(b, coord', i),
           procs'[i].frames = << >>, procs'[i].at \notin {"none", "starting", "running"},
           b.mode = "apart" => procs'[i].at = "idle",
           b.inflight[i] = None, b.commands[i] = << >>, ~b.waits[i], ~b.done[i],
           i \notin b.signalled, ~b.reap[i], ~(i > b.spawned)
    PROVE  tests!OneAtATime(i)'
<1>1. /\ coord'.mode = b.mode /\ coord'.spawned = b.spawned /\ coord'.done = b.done
      /\ coord'.reap = b.reap /\ coord'.signalled = b.signalled
  BY FieldsAre DEF Given, InFields, Changes
<1>2. CASE coord'.waits[i] = b.waits[i] /\ \E command \in tests!Files \cup {None} : coord'.commands[i] = Append(b.commands[i], command)
  <2>1. Len(coord'.commands[i]) = 1 /\ ~coord'.waits[i]
    BY <1>2
  <2> QED
    BY <1>1, <2>1 DEF tests!OneAtATime
<1>3. CASE /\ b.mode = "apart" /\ coord'.waits[i]
           /\ coord'.inflight[i] = b.inflight[i] /\ coord'.commands[i] = b.commands[i]
  <2>1. Len(coord'.commands[i]) = 0
    BY <1>3
  <2> QED
    BY <1>1, <1>3, <2>1 DEF tests!OneAtATime
<1> QED
  BY <1>2, <1>3 DEF Given

\* Every file exactly once, and the files counted.
FilesOK(b) == b.files_done = Cardinality(b.counted) /\ (~b.over => tests!EachOnce(b))

LEMMA ExactIsFilesOK ==
    ASSUME NEW b
    PROVE  /\ tests!Exact(b) => FilesOK(b)
           /\ FilesOK(b) /\ ~b.over => tests!Exact(b)
  BY CardinalityIs DEF tests!Exact, FilesOK

LEMMA FilesIInvIs ==
    tests!FilesIInv <=> /\ tests!Typed(coord) /\ ProcsOK /\ FilesOK(coord)
                        /\ ~coord.over /\ coord.stop = "none" => \A i \in tests!Slots : tests!OneAtATime(i)
  BY CardinalityIs DEF tests!FilesIInv, tests!TypeOK, ProcsOK, FilesOK

\* What is proved of a step: types are kept, and the rest where it was so before.
StepOK == tests!Typed(coord') /\ ProcsOK' /\ (tests!FilesIInv => tests!FilesIInv')

LEMMA OnReadyKeeps ==
    ASSUME tests!TestCoordinatorAssumption, tests!Typed(coord), ProcsOK, NEW i \in tests!Slots, tests!OnReady(i)
    PROVE  StepOK
<1> DEFINE b == [coord EXCEPT !.ready[i] = TRUE, !.failures[i] = 0]
<1>1. tests!Decode(i, "ready") /\ coord' = tests!AssignWork(b, i)
  BY Zenon DEF tests!OnReady
<1>2. ~coord.over
  BY <1>1 DEF tests!Decode, tests!Driving
<1>3. /\ Changes(coord, b, {"ready", "failures"})
      /\ b.ready = [coord.ready EXCEPT ![i] = TRUE] /\ b.failures = [coord.failures EXCEPT ![i] = 0]
  BY <1>2, FieldsAre DEF tests!Typed, InFields, tests!Shape, Changes
<1> HIDE DEF b
<1>4. b.ready \in [tests!Slots -> BOOLEAN] /\ b.failures \in [tests!Slots -> Nat]
  BY <1>2, <1>3 DEF tests!Typed
<1>5. tests!Typed(b)
  BY <1>2, <1>3, <1>4, FieldsAre DEF tests!Typed, InFields, Changes
<1>6. /\ b.range = coord.range /\ b.inflight = coord.inflight /\ b.counted = coord.counted
      /\ b.files_done = coord.files_done /\ b.stop = coord.stop /\ b.over = coord.over
      /\ b.mode = coord.mode /\ b.spawned = coord.spawned /\ b.done = coord.done /\ b.reap = coord.reap
      /\ b.signalled = coord.signalled /\ b.commands = coord.commands /\ b.waits = coord.waits
  BY <1>3, FieldsAre DEF InFields, Changes
<1>7. Given(b, coord', i) /\ (tests!Exact(b) /\ (b.inflight[i] = None \/ b.stop # "none") => tests!Exact(coord'))
  BY <1>1, <1>5, AssignWorkIs
<1>8. /\ coord'.stop = coord.stop /\ coord'.over = coord.over /\ coord'.mode = coord.mode
      /\ coord'.spawned = coord.spawned /\ coord'.done = coord.done /\ coord'.reap = coord.reap
      /\ coord'.signalled = coord.signalled
  BY <1>6, <1>7, FieldsAre DEF Given, InFields, Changes
<1>9. /\ ProcsOK' /\ ~coord.done[i]
      /\ procs[i].frames \in Seq(tests!FrameType) /\ procs[i].frames # << >>
      /\ Head(procs[i].frames).kind = "ready"
      /\ procs'[i].frames = Tail(procs[i].frames) /\ procs'[i].at = procs[i].at
      /\ \A j \in tests!Slots \ {i} : procs'[j] = procs[j]
  BY <1>1, <1>2, DecodeIs
<1> SUFFICES ASSUME tests!FilesIInv PROVE tests!FilesIInv'
  BY <1>7, <1>9 DEF StepOK, Given
<1>exact. /\ tests!Typed(coord) /\ ProcsOK /\ tests!Exact(coord) /\ ~coord.over
          /\ coord.stop = "none" => \A j \in tests!Slots : tests!OneAtATime(j)
  BY <1>2, FilesIInvIs, ExactIsFilesOK
<1>10. coord.stop = "none" => coord.inflight[i] = None
  BY <1>exact, <1>9 DEF tests!OneAtATime
<1>11. tests!Exact(coord')
  BY <1>exact, <1>6, <1>7, <1>10, ExactKept
<1>12. ASSUME coord.stop = "none" PROVE tests!OneAtATime(i)'
  <2>1. tests!OneAtATime(i)
    BY <1>exact, <1>12
  <2>2. procs'[i].frames = << >>
    <3>1. Len(procs[i].frames) = 1
      BY <1>9, <2>1 DEF tests!OneAtATime
    <3> QED
      BY <1>9, <3>1, TailOfOne
  <2>3. /\ procs'[i].at \notin {"none", "starting", "running"}
        /\ b.mode = "apart" => procs'[i].at = "idle"
    BY <1>6, <1>9, <2>1 DEF tests!OneAtATime
  <2>4. /\ b.inflight[i] = None /\ b.commands[i] = << >> /\ ~b.waits[i] /\ ~b.done[i]
        /\ i \notin b.signalled /\ ~b.reap[i] /\ ~(i > b.spawned)
    BY <1>6, <1>9, <2>1 DEF tests!OneAtATime
  <2> QED
    BY <1>5, <1>7, <2>2, <2>3, <2>4, GivenOneAtATime
<1>13. ASSUME coord.stop = "none", NEW j \in tests!Slots, j # i PROVE tests!OneAtATime(j)'
  <2>1. SlotKept(j)
    BY <1>6, <1>7, <1>8, <1>9, <1>13 DEF SlotKept, Given
  <2> QED
    BY <1>exact, <1>13, <2>1, OneAtATimeKept
<1>14. tests!Typed(coord') /\ FilesOK(coord')
  BY <1>7, <1>11, ExactIsFilesOK DEF Given
<1> QED
  BY <1>8, <1>9, <1>12, <1>13, <1>14, FilesIInvIs, CardinalityIs DEF tests!FilesIInv, tests!TypeOK, ProcsOK, FilesOK

\* Slots other than i are as they were, but for what OneAtATime does not speak of.
LEMMA FilesIInvAfter ==
    ASSUME tests!FilesIInv, NEW i \in tests!Slots, tests!Typed(coord'), ProcsOK', FilesOK(coord'),
           ~coord'.over => ~coord.over, coord'.stop = "none" => coord.stop = "none",
           coord'.stop = "none" /\ ~coord'.over /\ tests!OneAtATime(i) => tests!OneAtATime(i)',
           coord'.stop = "none" /\ ~coord'.over => \A j \in tests!Slots \ {i} : SlotKept(j)
    PROVE  tests!FilesIInv'
<1>1. ASSUME coord'.stop = "none", ~coord'.over, NEW j \in tests!Slots
      PROVE  tests!OneAtATime(j)'
  <2>1. tests!OneAtATime(j)
    BY <1>1, FilesIInvIs
  <2>2. CASE j = i
    BY <1>1, <2>1, <2>2
  <2>3. CASE j # i
    BY <1>1, <2>1, <2>3, OneAtATimeKept
  <2> QED
    BY <2>2, <2>3
<1> QED
  BY <1>1, CardinalityIs DEF tests!FilesIInv, tests!TypeOK, ProcsOK, FilesOK

LEMMA OnFileDoneKeeps ==
    ASSUME tests!TestCoordinatorAssumption, tests!Typed(coord), ProcsOK, NEW i \in tests!Slots, tests!OnFileDone(i)
    PROVE  StepOK
<1> DEFINE f == tests!Frame(i).file
           freed == [coord EXCEPT !.inflight[i] = None]
           counted == tests!Count(freed, f, tests!Frame(i).failed)
           bailed == tests!BailOut(counted)
<1>1. /\ tests!Decode(i, "file_done")
      /\ coord' = IF coord.inflight[i] # f THEN coord
                  ELSE IF coord.alive[i] THEN tests!AssignWork(bailed, i) ELSE bailed
  BY Zenon DEF tests!OnFileDone
<1>2. ~coord.over
  BY <1>1 DEF tests!Decode, tests!Driving
<1>exact. /\ tests!FilesIInv => tests!Exact(coord)
          /\ tests!FilesIInv /\ coord.stop = "none" => \A j \in tests!Slots : tests!OneAtATime(j)
  BY <1>2, FilesIInvIs, ExactIsFilesOK
<1>3. /\ ProcsOK' /\ ~coord.done[i]
      /\ procs[i].frames \in Seq(tests!FrameType) /\ procs[i].frames # << >>
      /\ Head(procs[i].frames) \in tests!FrameType /\ Head(procs[i].frames).kind = "file_done"
      /\ procs'[i].frames = Tail(procs[i].frames) /\ procs'[i].at = procs[i].at
      /\ \A j \in tests!Slots \ {i} : procs'[j] = procs[j]
  BY <1>1, <1>2, DecodeIs
<1>4. f \in tests!Files
  BY <1>3 DEF tests!FrameType, tests!Frame
\* What the protocol has said of slot i.
<1>5. ASSUME tests!FilesIInv, coord.stop = "none"
      PROVE  /\ procs'[i].frames = << >> /\ procs'[i].at \notin {"none", "starting", "running"}
             /\ coord.mode = "apart" => procs'[i].at = "idle"
             /\ coord.commands[i] = << >> /\ ~coord.waits[i] /\ ~coord.done[i]
             /\ i \notin coord.signalled /\ ~coord.reap[i] /\ ~(i > coord.spawned)
  <2>1. tests!OneAtATime(i)
    BY <1>5, <1>exact
  <2>2. Len(procs[i].frames) = 1
    BY <1>3, <2>1 DEF tests!OneAtATime
  <2>3. procs'[i].frames = << >>
    BY <1>3, <2>2, TailOfOne
  <2>4. /\ procs'[i].at \notin {"none", "starting", "running"}
        /\ coord.mode = "apart" => procs'[i].at = "idle"
    BY <1>3, <2>1 DEF tests!OneAtATime
  <2>5. /\ coord.commands[i] = << >> /\ ~coord.waits[i] /\ ~coord.done[i]
        /\ i \notin coord.signalled /\ ~coord.reap[i] /\ ~(i > coord.spawned)
    BY <1>3, <2>1 DEF tests!OneAtATime
  <2> QED
    BY <2>3, <2>4, <2>5
<1>6. CASE coord.inflight[i] # f
  <2>1. coord' = coord
    BY <1>1, <1>6
  <2> SUFFICES ASSUME tests!FilesIInv PROVE tests!FilesIInv'
    BY <1>3, <2>1 DEF StepOK
  <2>2. ASSUME coord.stop = "none" PROVE tests!OneAtATime(i)'
    <3>1. Len(coord.commands[i]) = 0
      BY <1>5, <2>2
    <3> QED
      BY <1>5, <2>1, <2>2, <3>1 DEF tests!OneAtATime
  <2>3. \A j \in tests!Slots \ {i} : SlotKept(j)
    BY <1>3, <2>1 DEF SlotKept
  <2>4. tests!Typed(coord') /\ FilesOK(coord')
    BY <1>exact, <2>1, ExactIsFilesOK
  <2> QED
    BY <1>2, <1>3, <2>1, <2>2, <2>3, <2>4, FilesIInvAfter
<1>7. CASE coord.inflight[i] = f
  <2>1. Changes(coord, freed, {"inflight"}) /\ freed.inflight = [coord.inflight EXCEPT ![i] = None]
    BY <1>2, FieldsAre DEF tests!Typed, InFields, tests!Shape, Changes
  <2>2. freed.inflight \in [tests!Slots -> tests!Files \cup {None}]
    BY <1>2, <2>1 DEF tests!Typed
  <2> HIDE DEF freed
  <2>3. tests!Typed(freed)
    BY <1>2, <2>1, <2>2, FieldsAre DEF tests!Typed, InFields, Changes
  <2>4. /\ tests!Typed(counted) /\ Changes(freed, counted, {"files_done", "counted", "fail"})
        /\ counted.files_done = freed.files_done + 1 /\ counted.counted = freed.counted \cup {f}
    <3>1. PICK failed : failed = tests!Frame(i).failed
      OBVIOUS
    <3>2. counted = tests!Count(freed, f, failed)
      BY <3>1, Zenon
    <3> HIDE DEF counted, f
    <3> QED
      BY <1>4, <2>3, <3>2, CountIs
  <2> HIDE DEF counted
  <2>5. tests!FilesIInv => tests!Exact(counted)
    <3>1. /\ counted.inflight = [coord.inflight EXCEPT ![i] = None] /\ counted.range = coord.range
          /\ counted.counted = coord.counted \cup {f} /\ counted.files_done = coord.files_done + 1
      BY <2>1, <2>4, FieldsAre DEF InFields, Changes
    <3> QED
      BY <1>exact, <1>4, <1>7, <3>1, CountedOnce DEF tests!TestCoordinatorAssumption
  <2>6. /\ tests!Typed(bailed) /\ Changes(counted, bailed, {"stop", "commands"})
        /\ bailed = counted \/ (counted.stop = "none" /\ bailed.stop = "bail")
    BY <2>4, BailOutIs
  <2> HIDE DEF bailed
  <2>7. tests!FilesIInv => tests!Exact(bailed)
    <3>1. /\ bailed.range = counted.range /\ bailed.inflight = counted.inflight
          /\ bailed.counted = counted.counted /\ bailed.files_done = counted.files_done
      BY <2>6, FieldsAre DEF InFields, Changes
    <3> QED
      BY <2>5, <3>1, ExactKept
  <2>8. Changes(coord, bailed, {"inflight", "files_done", "counted", "fail", "stop", "commands"})
    BY <2>1, <2>4, <2>6 DEF Changes
  <2>9. /\ bailed.over = coord.over /\ bailed.mode = coord.mode
        /\ bailed.spawned = coord.spawned /\ bailed.done = coord.done /\ bailed.reap = coord.reap
        /\ bailed.signalled = coord.signalled /\ bailed.waits = coord.waits
    BY <2>8, FieldsAre DEF InFields, Changes
  <2>10. /\ bailed.inflight = [coord.inflight EXCEPT ![i] = None]
         /\ bailed.stop = "none" => coord.stop = "none" /\ bailed.commands = coord.commands
    <3>1. counted.stop = coord.stop /\ counted.commands = coord.commands
      BY <2>1, <2>4, FieldsAre DEF InFields, Changes
    <3>2. bailed.inflight = freed.inflight
      BY <2>4, <2>6, FieldsAre DEF InFields, Changes
    <3> QED
      BY <2>1, <2>6, <3>1, <3>2
  <2>11. bailed.inflight[i] = None /\ \A j \in tests!Slots \ {i} : bailed.inflight[j] = coord.inflight[j]
    BY <1>2, <2>10 DEF tests!Typed
  <2>12. CASE coord' = tests!AssignWork(bailed, i)
    <3>1. Given(bailed, coord', i) /\ (tests!Exact(bailed) => tests!Exact(coord'))
      BY <2>6, <2>11, <2>12, AssignWorkIs
    <3> SUFFICES ASSUME tests!FilesIInv PROVE tests!FilesIInv'
      BY <1>3, <3>1 DEF StepOK, Given
    <3>2. /\ coord'.stop = bailed.stop /\ coord'.over = coord.over /\ coord'.mode = coord.mode
          /\ coord'.spawned = coord.spawned /\ coord'.done = coord.done /\ coord'.reap = coord.reap
          /\ coord'.signalled = coord.signalled
      BY <2>9, <3>1, FieldsAre DEF Given, InFields, Changes
    <3>3. ASSUME coord'.stop = "none" PROVE tests!OneAtATime(i)'
      BY <1>5, <2>6, <2>9, <2>10, <2>11, <3>1, <3>2, <3>3, GivenOneAtATime
    <3>4. coord'.stop = "none" => \A j \in tests!Slots \ {i} : SlotKept(j)
      BY <1>3, <2>9, <2>10, <2>11, <3>1, <3>2 DEF SlotKept, Given
    <3>5. tests!Typed(coord') /\ FilesOK(coord')
      BY <2>7, <3>1, ExactIsFilesOK DEF Given
    <3> QED
      BY <1>2, <1>3, <2>10, <3>2, <3>3, <3>4, <3>5, FilesIInvAfter
  <2>13. CASE coord' = bailed
    <3> SUFFICES ASSUME tests!FilesIInv PROVE tests!FilesIInv'
      BY <1>3, <2>6, <2>13 DEF StepOK
    <3>1. ASSUME coord'.stop = "none" PROVE tests!OneAtATime(i)'
      <4>1. Len(coord.commands[i]) = 0
        BY <1>5, <2>10, <2>13, <3>1
      <4> QED
        BY <1>5, <2>9, <2>10, <2>11, <2>13, <3>1, <4>1 DEF tests!OneAtATime
    <3>2. coord'.stop = "none" => \A j \in tests!Slots \ {i} : SlotKept(j)
      BY <1>3, <2>9, <2>10, <2>11, <2>13 DEF SlotKept
    <3>3. tests!Typed(coord') /\ FilesOK(coord')
      BY <2>6, <2>7, <2>13, ExactIsFilesOK
    <3> QED
      BY <1>2, <1>3, <2>10, <2>13, <3>1, <3>2, <3>3, FilesIInvAfter
  <2> QED
    BY <1>1, <1>7, <2>12, <2>13
<1> QED
  BY <1>6, <1>7

LEMMA AssignWaitingKeeps ==
    ASSUME tests!TestCoordinatorAssumption, tests!Typed(coord), ProcsOK, NEW i \in tests!Slots, tests!AssignWaiting(i)
    PROVE  StepOK
<1> DEFINE b == [coord EXCEPT !.waits[i] = FALSE]
<1>1. /\ coord' = tests!AssignWork(b, i) /\ procs' = procs /\ ~coord.over /\ coord.waits[i]
  BY Zenon DEF tests!AssignWaiting, tests!Driving
<1>2. ~coord.over
  BY <1>1
<1>3. Changes(coord, b, {"waits"}) /\ b.waits = [coord.waits EXCEPT ![i] = FALSE]
  BY <1>2, FieldsAre DEF tests!Typed, InFields, tests!Shape, Changes
<1> HIDE DEF b
<1>4. /\ b.waits \in [tests!Slots -> BOOLEAN] /\ ~b.waits[i]
      /\ \A j \in tests!Slots \ {i} : b.waits[j] = coord.waits[j]
  BY <1>2, <1>3 DEF tests!Typed
<1>5. tests!Typed(b)
  BY <1>2, <1>3, <1>4, FieldsAre DEF tests!Typed, InFields, Changes
<1>6. /\ b.range = coord.range /\ b.inflight = coord.inflight /\ b.counted = coord.counted
      /\ b.files_done = coord.files_done /\ b.stop = coord.stop /\ b.over = coord.over
      /\ b.mode = coord.mode /\ b.spawned = coord.spawned /\ b.done = coord.done /\ b.reap = coord.reap
      /\ b.signalled = coord.signalled /\ b.commands = coord.commands
  BY <1>3, FieldsAre DEF InFields, Changes
<1>8. /\ Given(b, coord', i)
      /\ tests!Exact(b) /\ (b.inflight[i] = None \/ b.stop # "none") => tests!Exact(coord')
  BY <1>1, <1>5, AssignWorkIs
<1>9. /\ coord'.stop = coord.stop /\ coord'.over = coord.over /\ coord'.mode = coord.mode
      /\ coord'.spawned = coord.spawned /\ coord'.done = coord.done /\ coord'.reap = coord.reap
      /\ coord'.signalled = coord.signalled
  BY <1>6, <1>8, FieldsAre DEF Given, InFields, Changes
<1> SUFFICES ASSUME tests!FilesIInv PROVE tests!FilesIInv'
  BY <1>1, <1>8 DEF StepOK, Given, ProcsOK
<1>exact. /\ tests!Typed(coord) /\ ProcsOK /\ tests!Exact(coord) /\ ~coord.over
          /\ coord.stop = "none" => \A j \in tests!Slots : tests!OneAtATime(j)
  BY <1>2, FilesIInvIs, ExactIsFilesOK
<1>7. ASSUME coord.stop = "none"
      PROVE  /\ procs[i].frames = << >> /\ procs[i].at = "idle" /\ coord.inflight[i] = None
             /\ coord.commands[i] = << >> /\ ~coord.done[i]
             /\ i \notin coord.signalled /\ ~coord.reap[i] /\ ~(i > coord.spawned)
  <2>1. tests!OneAtATime(i)
    BY <1>exact, <1>7
  <2> QED
    BY <1>1, <2>1 DEF tests!OneAtATime
<1>10. ASSUME coord.stop = "none" PROVE tests!OneAtATime(i)'
  BY <1>1, <1>4, <1>5, <1>6, <1>7, <1>8, <1>10, GivenOneAtATime
<1>11. \A j \in tests!Slots \ {i} : SlotKept(j)
  BY <1>1, <1>4, <1>6, <1>8, <1>9 DEF SlotKept, Given
<1>12. tests!Exact(coord')
  <2>1. tests!Exact(b)
    BY <1>exact, <1>6, ExactKept
  <2> QED
    BY <1>6, <1>7, <1>8, <2>1
<1>13. tests!Typed(coord') /\ FilesOK(coord') /\ ProcsOK'
  BY <1>1, <1>exact, <1>8, <1>12, ExactIsFilesOK DEF Given, ProcsOK
<1> QED
  BY <1>1, <1>9, <1>10, <1>11, <1>13, FilesIInvAfter

LEMMA OnCorruptKeeps ==
    ASSUME tests!TestCoordinatorAssumption, tests!Typed(coord), ProcsOK, NEW i \in tests!Slots, tests!OnCorrupt(i)
    PROVE  StepOK
<1>1. /\ tests!Decode(i, "corrupt")
      /\ coord' = [coord EXCEPT !.done[i] = TRUE, !.signalled = @ \cup {i},
                                !.reap[i] = coord.exit[i] # None]
  BY DEF tests!OnCorrupt
<1>2. ~coord.over
  BY <1>1 DEF tests!Decode, tests!Driving
<1>3. /\ ProcsOK' /\ ~coord.done[i]
      /\ procs[i].frames # << >> /\ procs'[i].at = procs[i].at
      /\ \A j \in tests!Slots \ {i} : procs'[j] = procs[j]
  BY <1>1, <1>2, DecodeIs
<1>4. /\ Changes(coord, coord', {"done", "signalled", "reap"})
      /\ coord'.done = [coord.done EXCEPT ![i] = TRUE] /\ coord'.signalled = coord.signalled \cup {i}
      /\ coord'.reap = [coord.reap EXCEPT ![i] = coord.exit[i] # None]
  BY <1>1, <1>2, FieldsAre DEF tests!Typed, InFields, tests!Shape, Changes
<1>5. /\ coord'.done \in [tests!Slots -> BOOLEAN] /\ coord'.reap \in [tests!Slots -> BOOLEAN]
      /\ coord'.signalled \subseteq tests!Slots /\ coord'.done[i]
      /\ \A j \in tests!Slots \ {i} : coord'.done[j] = coord.done[j] /\ coord'.reap[j] = coord.reap[j]
  BY <1>2, <1>4 DEF tests!Typed
<1>6. tests!Typed(coord')
  BY <1>2, <1>4, <1>5, FieldsAre DEF tests!Typed, InFields, Changes
<1> SUFFICES ASSUME tests!FilesIInv PROVE tests!FilesIInv'
  BY <1>3, <1>6 DEF StepOK
<1>exact. /\ tests!Typed(coord) /\ ProcsOK /\ tests!Exact(coord) /\ ~coord.over
  BY <1>2, FilesIInvIs, ExactIsFilesOK
<1>7. /\ coord'.range = coord.range /\ coord'.inflight = coord.inflight /\ coord'.counted = coord.counted
      /\ coord'.files_done = coord.files_done /\ coord'.stop = coord.stop /\ coord'.mode = coord.mode
      /\ coord'.spawned = coord.spawned /\ coord'.commands = coord.commands /\ coord'.waits = coord.waits
  BY <1>4, FieldsAre DEF InFields, Changes
<1>8. tests!OneAtATime(i) => tests!OneAtATime(i)'
  BY <1>3, <1>5, <1>7 DEF tests!OneAtATime
<1>9. \A j \in tests!Slots \ {i} : SlotKept(j)
  BY <1>3, <1>4, <1>5, <1>7 DEF SlotKept
<1>10. FilesOK(coord')
  BY <1>exact, <1>7, ExactKept, ExactIsFilesOK
<1> QED
  BY <1>exact, <1>3, <1>6, <1>7, <1>8, <1>9, <1>10, FilesIInvAfter

LEMMA OnWorkerExitKeeps ==
    ASSUME tests!TestCoordinatorAssumption, tests!Typed(coord), ProcsOK, NEW i \in tests!Slots, tests!OnWorkerExit(i)
    PROVE  StepOK
<1>1. /\ ~coord.over /\ procs[i].at = "exited" /\ procs' = procs
      /\ coord' = [coord EXCEPT !.alive[i] = FALSE, !.exit[i] = procs[i].status,
                                !.reap[i] = coord.done[i]]
  BY DEF tests!OnWorkerExit, tests!Driving
<1>2. ~coord.over
  BY <1>1
<1>3. /\ Changes(coord, coord', {"alive", "exit", "reap"})
      /\ coord'.alive = [coord.alive EXCEPT ![i] = FALSE]
      /\ coord'.exit = [coord.exit EXCEPT ![i] = procs[i].status]
      /\ coord'.reap = [coord.reap EXCEPT ![i] = coord.done[i]]
  BY <1>1, <1>2, FieldsAre DEF tests!Typed, InFields, tests!Shape, Changes
<1>4. procs[i].status \in {None, "exit", "panic"}
  BY <1>2 DEF ProcsOK, tests!ProcType
<1>5. /\ coord'.alive \in [tests!Slots -> BOOLEAN] /\ coord'.reap \in [tests!Slots -> BOOLEAN]
      /\ coord'.exit \in [tests!Slots -> {None, "exit", "panic"}] /\ coord'.reap[i] = coord.done[i]
      /\ \A j \in tests!Slots \ {i} : coord'.reap[j] = coord.reap[j]
  BY <1>2, <1>3, <1>4 DEF tests!Typed
<1>6. tests!Typed(coord')
  BY <1>2, <1>3, <1>5, FieldsAre DEF tests!Typed, InFields, Changes
<1> SUFFICES ASSUME tests!FilesIInv PROVE tests!FilesIInv'
  BY <1>1, <1>6 DEF StepOK, ProcsOK
<1>exact. /\ tests!Typed(coord) /\ ProcsOK /\ tests!Exact(coord)
  BY <1>2, FilesIInvIs, ExactIsFilesOK
<1>7. /\ coord'.range = coord.range /\ coord'.inflight = coord.inflight /\ coord'.counted = coord.counted
      /\ coord'.files_done = coord.files_done /\ coord'.stop = coord.stop /\ coord'.mode = coord.mode
      /\ coord'.spawned = coord.spawned /\ coord'.commands = coord.commands /\ coord'.waits = coord.waits
      /\ coord'.done = coord.done /\ coord'.signalled = coord.signalled
  BY <1>3, FieldsAre DEF InFields, Changes
<1>8. tests!OneAtATime(i) => tests!OneAtATime(i)'
  BY <1>1, <1>5, <1>7 DEF tests!OneAtATime
<1>9. \A j \in tests!Slots \ {i} : SlotKept(j)
  BY <1>1, <1>5, <1>7 DEF SlotKept
<1>10. FilesOK(coord') /\ ProcsOK'
  BY <1>1, <1>exact, <1>7, ExactKept, ExactIsFilesOK DEF ProcsOK
<1> QED
  BY <1>1, <1>6, <1>7, <1>8, <1>9, <1>10, FilesIInvAfter

LEMMA OnChannelDoneKeeps ==
    ASSUME tests!TestCoordinatorAssumption, tests!Typed(coord), ProcsOK, NEW i \in tests!Slots, tests!OnChannelDone(i)
    PROVE  StepOK
<1>1. /\ ~coord.over /\ procs[i].at = "exited" /\ procs' = procs /\ ~coord.done[i]
      /\ coord' = [coord EXCEPT !.done[i] = TRUE, !.reap[i] = coord.exit[i] # None]
  BY DEF tests!OnChannelDone, tests!Driving
<1>2. ~coord.over
  BY <1>1
<1>3. /\ Changes(coord, coord', {"done", "reap"})
      /\ coord'.done = [coord.done EXCEPT ![i] = TRUE]
      /\ coord'.reap = [coord.reap EXCEPT ![i] = coord.exit[i] # None]
  BY <1>1, <1>2, FieldsAre DEF tests!Typed, InFields, tests!Shape, Changes
<1>4. /\ coord'.done \in [tests!Slots -> BOOLEAN] /\ coord'.reap \in [tests!Slots -> BOOLEAN] /\ coord'.done[i]
      /\ \A j \in tests!Slots \ {i} : coord'.done[j] = coord.done[j] /\ coord'.reap[j] = coord.reap[j]
  BY <1>2, <1>3 DEF tests!Typed
<1>5. tests!Typed(coord')
  BY <1>2, <1>3, <1>4, FieldsAre DEF tests!Typed, InFields, Changes
<1> SUFFICES ASSUME tests!FilesIInv PROVE tests!FilesIInv'
  BY <1>1, <1>5 DEF StepOK, ProcsOK
<1>exact. /\ tests!Typed(coord) /\ ProcsOK /\ tests!Exact(coord)
  BY <1>2, FilesIInvIs, ExactIsFilesOK
<1>6. /\ coord'.range = coord.range /\ coord'.inflight = coord.inflight /\ coord'.counted = coord.counted
      /\ coord'.files_done = coord.files_done /\ coord'.stop = coord.stop /\ coord'.mode = coord.mode
      /\ coord'.spawned = coord.spawned /\ coord'.commands = coord.commands /\ coord'.waits = coord.waits
      /\ coord'.signalled = coord.signalled
  BY <1>3, FieldsAre DEF InFields, Changes
<1>7. tests!OneAtATime(i) => tests!OneAtATime(i)'
  BY <1>1, <1>4, <1>6 DEF tests!OneAtATime
<1>8. \A j \in tests!Slots \ {i} : SlotKept(j)
  BY <1>1, <1>4, <1>6 DEF SlotKept
<1>9. FilesOK(coord') /\ ProcsOK'
  BY <1>1, <1>exact, <1>6, ExactKept, ExactIsFilesOK DEF ProcsOK
<1> QED
  BY <1>1, <1>5, <1>6, <1>7, <1>8, <1>9, FilesIInvAfter

LEMMA NewProcesses ==
    /\ << >> \in Seq(tests!FrameType) /\ tests!NewProcess \in tests!ProcType /\ tests!NoProcess \in tests!ProcType
    /\ tests!NewProcess.at = "starting" /\ tests!NewProcess.frames = << >>
    /\ tests!NoProcess.at = "none" /\ tests!NoProcess.frames = << >>
<1>1. << >> \in Seq(tests!FrameType)
  OBVIOUS
<1>2. tests!NewProcess = [at |-> "starting", file |-> None, frames |-> << >>, status |-> None]
  BY DEF tests!NewProcess, tests!NoProcess
<1>3. tests!NewProcess \in tests!ProcType /\ tests!NoProcess \in tests!ProcType
  BY <1>1, <1>2 DEF tests!NoProcess, tests!ProcType
<1> QED
  BY <1>1, <1>2, <1>3 DEF tests!NoProcess

LEMMA ReapKeeps ==
    ASSUME tests!TestCoordinatorAssumption, tests!Typed(coord), ProcsOK, NEW i \in tests!Slots, tests!Reap(i)
    PROVE  StepOK
<1> DEFINE settled == tests!Settle(coord, i)
           unready == [settled EXCEPT !.ready[i] = FALSE]
<1>1. /\ ~coord.over /\ coord.reap[i]
      /\ \/ /\ settled.stop = "none"
            /\ coord' = tests!Started(unready, i) /\ procs' = [procs EXCEPT ![i] = tests!NewProcess]
         \/ /\ coord' = settled \/ coord' = tests!AbortQueued(settled)
            /\ procs' = [procs EXCEPT ![i] = tests!NoProcess]
  <2>1. CASE /\ settled.stop = "none"
             /\ coord' = tests!Started([settled EXCEPT !.ready[i] = FALSE], i)
             /\ procs' = [procs EXCEPT ![i] = tests!NewProcess]
    BY <2>1 DEF tests!Reap, tests!Driving
  <2>2. CASE /\ coord' = settled \/ coord' = tests!AbortQueued(settled)
             /\ procs' = [procs EXCEPT ![i] = tests!NoProcess]
    BY <2>2 DEF tests!Reap, tests!Driving
  <2> QED
    BY <2>1, <2>2 DEF tests!Reap
<1>2. tests!FilesIInv => tests!Exact(coord)
  BY <1>1, FilesIInvIs, ExactIsFilesOK
<1>3. SettledAs(coord, settled, i)
  BY <1>2, SettleIs DEF tests!TestCoordinatorAssumption
<1> HIDE DEF settled
<1>4. /\ tests!Typed(settled) /\ (tests!FilesIInv => tests!Exact(settled))
      /\ settled.reap = [coord.reap EXCEPT ![i] = FALSE] /\ settled.done = [coord.done EXCEPT ![i] = FALSE]
      /\ settled.inflight = [coord.inflight EXCEPT ![i] = None]
      /\ settled.stop = "none" => /\ coord.stop = "none" /\ settled.signalled = coord.signalled \ {i}
                                  /\ settled.commands = [coord.commands EXCEPT ![i] = << >>]
  BY <1>2, <1>3 DEF SettledAs
<1>5. /\ settled.over = coord.over /\ settled.mode = coord.mode /\ settled.waits = coord.waits
      /\ settled.spawned = coord.spawned
  BY <1>3, FieldsAre DEF SettledAs, InFields, Changes
<1>6. /\ settled.reap[i] = FALSE /\ settled.done[i] = FALSE /\ settled.inflight[i] = None
      /\ \A j \in tests!Slots \ {i} : /\ settled.reap[j] = coord.reap[j] /\ settled.done[j] = coord.done[j]
                                      /\ settled.inflight[j] = coord.inflight[j]
      /\ settled.stop = "none" => /\ settled.commands[i] = << >>
                                  /\ \A j \in tests!Slots \ {i} : settled.commands[j] = coord.commands[j]
  <2>1. /\ coord.reap \in [tests!Slots -> BOOLEAN] /\ coord.done \in [tests!Slots -> BOOLEAN]
        /\ coord.inflight \in [tests!Slots -> tests!Files \cup {None}]
        /\ coord.commands \in [tests!Slots -> Seq(tests!Files \cup {None})]
    BY DEF tests!Typed
  <2> QED
    BY <1>4, <2>1
<1>7. tests!OneAtATime(i) => ~(i > coord.spawned) /\ ~coord.waits[i]
  BY <1>1 DEF tests!OneAtATime
<1>8. /\ << >> \in Seq(tests!FrameType) /\ tests!NewProcess \in tests!ProcType /\ tests!NoProcess \in tests!ProcType
      /\ tests!NewProcess.at = "starting" /\ tests!NewProcess.frames = << >>
      /\ tests!NoProcess.at = "none" /\ tests!NoProcess.frames = << >>
  BY NewProcesses
<1>9. \A j \in tests!Slots \ {i} : procs'[j] = procs[j]
  BY <1>1, <1>2 DEF ProcsOK
<1>10. procs'[i] \in {tests!NewProcess, tests!NoProcess} /\ ProcsOK'
  BY <1>1, <1>2, <1>8 DEF ProcsOK
<1>11. CASE /\ settled.stop = "none"
            /\ coord' = tests!Started(unready, i) /\ procs' = [procs EXCEPT ![i] = tests!NewProcess]
  <2>1. Changes(settled, unready, {"ready"}) /\ unready.ready = [settled.ready EXCEPT ![i] = FALSE]
    BY <1>4, FieldsAre DEF tests!Typed, InFields, tests!Shape, Changes
  <2> HIDE DEF unready
  <2>2. unready.ready \in [tests!Slots -> BOOLEAN]
    BY <1>4, <2>1 DEF tests!Typed
  <2>3. tests!Typed(unready)
    BY <1>4, <2>1, <2>2, FieldsAre DEF tests!Typed, InFields, Changes
  <2>4. /\ tests!Typed(coord') /\ Changes(unready, coord', {"alive", "live"})
        /\ tests!Exact(unready) => tests!Exact(coord')
    BY <1>11, <2>3, StartedIs
  <2> SUFFICES ASSUME tests!FilesIInv PROVE tests!FilesIInv'
    BY <1>10, <2>4 DEF StepOK
  <2>5. Changes(settled, coord', {"ready", "alive", "live"})
    BY <2>1, <2>4 DEF Changes
  <2>6. /\ coord'.inflight = settled.inflight /\ coord'.stop = settled.stop
        /\ coord'.mode = settled.mode /\ coord'.spawned = settled.spawned /\ coord'.commands = settled.commands
        /\ coord'.waits = settled.waits /\ coord'.done = settled.done /\ coord'.signalled = settled.signalled
        /\ coord'.reap = settled.reap
    BY <2>5, FieldsAre DEF InFields, Changes
  <2>7. tests!Exact(unready)
    <3>1. /\ unready.range = settled.range /\ unready.inflight = settled.inflight
          /\ unready.counted = settled.counted /\ unready.files_done = settled.files_done
      BY <2>1, FieldsAre DEF InFields, Changes
    <3> QED
      BY <1>4, <3>1, ExactKept
  <2>8. procs'[i] = tests!NewProcess
    BY <1>2, <1>11 DEF ProcsOK
  <2>9. ASSUME tests!OneAtATime(i) PROVE tests!OneAtATime(i)'
    <3>1. Len(coord'.commands[i]) = 0 /\ coord'.commands[i] = << >>
      BY <1>6, <1>11, <2>6
    <3> QED
      BY <1>4, <1>5, <1>6, <1>7, <1>8, <1>11, <2>6, <2>8, <2>9, <3>1 DEF tests!OneAtATime
  <2>10. \A j \in tests!Slots \ {i} : SlotKept(j)
    BY <1>4, <1>5, <1>6, <1>9, <1>11, <2>6 DEF SlotKept
  <2>11. FilesOK(coord')
    BY <2>4, <2>7, ExactIsFilesOK
  <2> QED
    BY <1>1, <1>4, <1>10, <1>11, <2>4, <2>9, <2>10, <2>11, FilesIInvAfter
<1>12. CASE /\ coord' = settled \/ coord' = tests!AbortQueued(settled)
            /\ procs' = [procs EXCEPT ![i] = tests!NoProcess]
  <2>1. /\ tests!Typed(coord') /\ (tests!Exact(settled) => tests!Exact(coord'))
        /\ Changes(settled, coord', {"range", "files_done", "counted", "fail"})
    <3>1. CASE coord' = settled
      BY <1>4, <3>1 DEF Changes, tests!Typed
    <3>2. CASE coord' = tests!AbortQueued(settled)
      BY <1>4, <3>2, AbortQueuedIs DEF tests!TestCoordinatorAssumption
    <3> QED
      BY <1>12, <3>1, <3>2
  <2>2. /\ coord'.inflight = settled.inflight /\ coord'.stop = settled.stop
        /\ coord'.mode = settled.mode /\ coord'.spawned = settled.spawned /\ coord'.commands = settled.commands
        /\ coord'.waits = settled.waits /\ coord'.done = settled.done /\ coord'.signalled = settled.signalled
        /\ coord'.reap = settled.reap
    BY <2>1, FieldsAre DEF InFields, Changes
  <2> SUFFICES ASSUME tests!FilesIInv PROVE tests!FilesIInv'
    BY <1>10, <2>1 DEF StepOK
  <2>3. procs'[i] = tests!NoProcess
    BY <1>2, <1>12 DEF ProcsOK
  <2>4. ASSUME coord'.stop = "none", tests!OneAtATime(i) PROVE tests!OneAtATime(i)'
    <3>1. Len(coord'.commands[i]) = 0 /\ coord'.commands[i] = << >>
      BY <1>6, <2>2, <2>4
    <3> QED
      BY <1>4, <1>5, <1>6, <1>7, <1>8, <2>2, <2>3, <2>4, <3>1 DEF tests!OneAtATime
  <2>5. coord'.stop = "none" => \A j \in tests!Slots \ {i} : SlotKept(j)
    BY <1>4, <1>5, <1>6, <1>9, <2>2 DEF SlotKept
  <2>6. FilesOK(coord')
    BY <1>4, <2>1, ExactIsFilesOK
  <2> QED
    BY <1>1, <1>4, <1>10, <2>1, <2>2, <2>4, <2>5, <2>6, FilesIInvAfter
<1> QED
  BY <1>1, <1>11, <1>12

\* What a worker process does in slot i, where the coordinator changes at most what was sent to it.
LEMMA WorkerKeeps ==
    ASSUME tests!Typed(coord), ProcsOK, NEW i \in tests!Slots, NEW p \in tests!ProcType, procs' = [procs EXCEPT ![i] = p],
           p.at = "running" => p.file # None, p.at = "exited" => p.status # None,
           coord' = coord,
           procs'[i] = p /\ tests!OneAtATime(i) => tests!OneAtATime(i)'
    PROVE  StepOK
<1>2. /\ procs' \in [tests!Slots -> tests!ProcType] /\ procs'[i] = p
      /\ \A j \in tests!Slots \ {i} : procs'[j] = procs[j]
  BY DEF ProcsOK
<1>3. ProcsOK'
  BY <1>2 DEF ProcsOK
<1>4. \A j \in tests!Slots \ {i} : SlotKept(j)
  BY <1>2 DEF SlotKept
<1>5. tests!FilesIInv => FilesOK(coord')
  BY FilesIInvIs
<1>6. ASSUME tests!FilesIInv PROVE tests!FilesIInv'
  BY <1>2, <1>3, <1>4, <1>5, <1>6, FilesIInvAfter
<1> QED
  BY <1>3, <1>6 DEF StepOK

LEMMA FrameAppended ==
    ASSUME NEW s \in Seq(tests!FrameType), NEW r \in tests!FrameType
    PROVE  /\ Append(s, r) \in Seq(tests!FrameType) /\ Append(s, r) # << >>
           /\ Len(Append(s, r)) = Len(s) + 1
           /\ s = << >> => Head(Append(s, r)) = r /\ Len(Append(s, r)) = 1
           /\ s # << >> => Head(Append(s, r)) = Head(s)
<1>1. Append(s, r) \in Seq(tests!FrameType) /\ Len(Append(s, r)) = Len(s) + 1 /\ Len(s) \in Nat
  OBVIOUS
<1>2. CASE s = << >>
  BY <1>1, <1>2
<1>3. CASE s # << >>
  <2>1. Len(s) > 0
    BY <1>3
  <2> QED
    BY <1>1, <1>3, <2>1
<1> QED
  BY <1>1, <1>2, <1>3

LEMMA FramesAre ==
    /\ [kind |-> "ready"] \in tests!FrameType /\ [kind |-> "corrupt"] \in tests!FrameType
    /\ \A f \in tests!Files, failed \in BOOLEAN :
         [kind |-> "file_done", file |-> f, failed |-> failed] \in tests!FrameType
  BY DEF tests!FrameType

LEMMA ReadyKeeps ==
    ASSUME tests!Typed(coord), ProcsOK, NEW i \in tests!Slots, tests!Ready(i)
    PROVE  StepOK
<1> DEFINE r == [kind |-> "ready"]
           p == [procs[i] EXCEPT !.at = "idle", !.frames = Append(@, r)]
<1>1. procs[i] \in tests!ProcType /\ procs[i].frames \in Seq(tests!FrameType)
  BY DEF ProcsOK, tests!ProcType
<1>2. r \in tests!FrameType /\ r.kind = "ready"
  BY FramesAre
<1> HIDE DEF r
<1>3. /\ Append(procs[i].frames, r) \in Seq(tests!FrameType) /\ Append(procs[i].frames, r) # << >>
      /\ procs[i].frames = << >> => /\ Head(Append(procs[i].frames, r)) = r
                                    /\ Len(Append(procs[i].frames, r)) = 1
  BY <1>1, <1>2, FrameAppended
<1>4. p \in tests!ProcType /\ p.at = "idle" /\ p.frames = Append(procs[i].frames, r)
  BY <1>1, <1>3 DEF tests!ProcType
<1>5. procs' = [procs EXCEPT ![i] = p] /\ procs[i].at = "starting" /\ coord' = coord
  BY DEF tests!Ready, r
<1> HIDE DEF p
<1>6. ASSUME procs'[i] = p, tests!OneAtATime(i) PROVE tests!OneAtATime(i)'
  BY <1>2, <1>3, <1>4, <1>5, <1>6 DEF tests!OneAtATime
<1> QED
  BY <1>4, <1>5, <1>6, WorkerKeeps

LEMMA FileDoneKeeps ==
    ASSUME tests!Typed(coord), ProcsOK, NEW i \in tests!Slots, tests!FileDone(i)
    PROVE  StepOK
<1>1. /\ procs[i] \in tests!ProcType /\ procs[i].frames \in Seq(tests!FrameType)
      /\ procs[i].at = "running" /\ procs[i].file \in tests!Files /\ coord' = coord
  BY DEF ProcsOK, tests!ProcType, tests!FileDone
<1>2. PICK failed \in BOOLEAN :
        procs' = [procs EXCEPT ![i].at = "idle", ![i].file = None,
                      ![i].frames = Append(@, [kind |-> "file_done", file |-> procs[i].file,
                                               failed |-> failed])]
  BY DEF tests!FileDone
<1> DEFINE r == [kind |-> "file_done", file |-> procs[i].file, failed |-> failed]
           p == [procs[i] EXCEPT !.at = "idle", !.file = None, !.frames = Append(@, r)]
<1>3. procs' = [procs EXCEPT ![i] = p]
  BY <1>2
<1>4. r \in tests!FrameType /\ r.kind = "file_done"
  BY <1>1, FramesAre
<1> HIDE DEF r
<1>5. /\ Append(procs[i].frames, r) \in Seq(tests!FrameType) /\ Append(procs[i].frames, r) # << >>
      /\ procs[i].frames = << >> => /\ Head(Append(procs[i].frames, r)) = r
                                    /\ Len(Append(procs[i].frames, r)) = 1
      /\ procs[i].frames # << >> => Head(Append(procs[i].frames, r)) = Head(procs[i].frames)
  BY <1>1, <1>4, FrameAppended
<1>6. p \in tests!ProcType /\ p.at = "idle" /\ p.frames = Append(procs[i].frames, r)
  BY <1>1, <1>5 DEF tests!ProcType
<1> HIDE DEF p
<1>7. ASSUME procs'[i] = p, tests!OneAtATime(i) PROVE tests!OneAtATime(i)'
  BY <1>1, <1>4, <1>5, <1>6, <1>7 DEF tests!OneAtATime
<1> QED
  BY <1>1, <1>3, <1>6, <1>7, WorkerKeeps

LEMMA GarbleKeeps ==
    ASSUME tests!Typed(coord), ProcsOK, NEW i \in tests!Slots, tests!Garble(i)
    PROVE  StepOK
<1> DEFINE r == [kind |-> "corrupt"]
           p == [procs[i] EXCEPT !.frames = Append(@, r)]
<1>1. /\ procs[i] \in tests!ProcType /\ procs[i].frames \in Seq(tests!FrameType)
      /\ procs[i].at = "running" => procs[i].file # None
  BY DEF ProcsOK, tests!ProcType
<1>2. r \in tests!FrameType /\ r.kind = "corrupt"
  BY FramesAre
<1> HIDE DEF r
<1>3. /\ Append(procs[i].frames, r) \in Seq(tests!FrameType) /\ Append(procs[i].frames, r) # << >>
      /\ procs[i].frames = << >> => /\ Head(Append(procs[i].frames, r)) = r
                                    /\ Len(Append(procs[i].frames, r)) = 1
  BY <1>1, <1>2, FrameAppended
<1>4. p \in tests!ProcType /\ p.at = procs[i].at /\ p.file = procs[i].file /\ p.frames = Append(procs[i].frames, r)
  BY <1>1, <1>3 DEF tests!ProcType
<1>5. /\ procs' = [procs EXCEPT ![i] = p] /\ procs[i].at = "running" /\ procs[i].frames = << >>
      /\ coord' = coord
  BY DEF tests!Garble, r
<1> HIDE DEF p
<1>6. ASSUME procs'[i] = p, tests!OneAtATime(i) PROVE tests!OneAtATime(i)'
  BY <1>2, <1>3, <1>4, <1>5, <1>6 DEF tests!OneAtATime
<1> QED
  BY <1>1, <1>4, <1>5, <1>6, WorkerKeeps

\* A process that exits; one between files waits for no heavy file.
LEMMA ExitKeeps ==
    ASSUME tests!TestCoordinatorAssumption, tests!Typed(coord), ProcsOK, NEW i \in tests!Slots, tests!Running(i), NEW status \in {"exit", "panic"},
           procs' = [procs EXCEPT ![i].at = "exited", ![i].file = None, ![i].status = status],
           coord' = coord
    PROVE  /\ tests!Typed(coord') /\ ProcsOK'
           /\ (procs[i].at = "idle" /\ coord.mode = "apart" => i \in coord.signalled) => StepOK
<1> DEFINE p == [procs[i] EXCEPT !.at = "exited", !.file = None, !.status = status]
<1>1. procs[i] \in tests!ProcType /\ procs[i].at \in {"starting", "idle", "running"}
  BY DEF ProcsOK, tests!ProcType, tests!Running
<1>2. p \in tests!ProcType /\ p.at = "exited" /\ p.frames = procs[i].frames /\ p.status = status
  BY <1>1 DEF tests!ProcType
<1>3. procs' = [procs EXCEPT ![i] = p] /\ p.status # None
  BY <1>2 DEF tests!TestCoordinatorAssumption
<1> HIDE DEF p
<1>4. tests!Typed(coord') /\ ProcsOK'
  <2>1. procs' \in [tests!Slots -> tests!ProcType] /\ procs'[i] = p
        /\ \A j \in tests!Slots \ {i} : procs'[j] = procs[j]
    <3>1. procs \in [tests!Slots -> tests!ProcType] /\ p \in tests!ProcType
      BY <1>2 DEF ProcsOK
    <3>2. procs' = [procs EXCEPT ![i] = p]
      BY <1>3
    <3> QED
      BY <3>1, <3>2
  <2>2. ProcsOK'
    BY <1>2, <1>3, <2>1 DEF ProcsOK
  <2> QED
    BY <2>2
<1>5. ASSUME procs[i].at = "idle" /\ coord.mode = "apart" => i \in coord.signalled PROVE StepOK
  <2>1. ASSUME procs'[i] = p, tests!OneAtATime(i) PROVE tests!OneAtATime(i)'
    BY <1>1, <1>2, <1>5, <2>1 DEF tests!OneAtATime
  <2> QED
    BY <1>2, <1>3, <2>1, WorkerKeeps
<1> QED
  BY <1>4, <1>5

LEMMA CommandKeeps ==
    ASSUME tests!TestCoordinatorAssumption, tests!Typed(coord), ProcsOK, NEW i \in tests!Slots, tests!Command(i)
    PROVE  StepOK
<1> DEFINE command == Head(coord.commands[i])
           p == [procs[i] EXCEPT !.file = command,
                                 !.at = IF command = None THEN "exited" ELSE "running",
                                 !.status = IF command = None THEN "exit" ELSE None]
<1>1. /\ procs[i].at = "idle" /\ coord.commands[i] # << >>
      /\ procs' = [procs EXCEPT ![i] = p] /\ coord' = [coord EXCEPT !.commands[i] = Tail(@)]
  BY DEF tests!Command
<1>3. /\ coord.commands[i] \in Seq(tests!Files \cup {None}) /\ command \in tests!Files \cup {None}
      /\ Tail(coord.commands[i]) \in Seq(tests!Files \cup {None})
  BY <1>1 DEF tests!Typed
<1> HIDE DEF command
<1>4. /\ p \in tests!ProcType /\ p.frames = procs[i].frames
      /\ p.at = IF command = None THEN "exited" ELSE "running"
      /\ p.file = command /\ p.status = IF command = None THEN "exit" ELSE None
  BY <1>3 DEF ProcsOK, tests!ProcType
<1>5. /\ Changes(coord, coord', {"commands"})
      /\ coord'.commands = [coord.commands EXCEPT ![i] = Tail(@)]
  BY <1>1, FieldsAre DEF tests!Typed, InFields, tests!Shape, Changes
<1>6. /\ coord'.commands \in [tests!Slots -> Seq(tests!Files \cup {None})]
      /\ coord'.commands[i] = Tail(coord.commands[i])
      /\ \A j \in tests!Slots \ {i} : coord'.commands[j] = coord.commands[j]
  BY <1>3, <1>5 DEF tests!Typed
<1>7. tests!Typed(coord')
  BY <1>5, <1>6, FieldsAre DEF tests!Typed, InFields, Changes
<1>8. /\ coord'.range = coord.range /\ coord'.inflight = coord.inflight /\ coord'.counted = coord.counted
      /\ coord'.files_done = coord.files_done /\ coord'.stop = coord.stop /\ coord'.mode = coord.mode
      /\ coord'.spawned = coord.spawned /\ coord'.waits = coord.waits /\ coord'.over = coord.over
      /\ coord'.signalled = coord.signalled /\ coord'.done = coord.done /\ coord'.reap = coord.reap
  BY <1>5, FieldsAre DEF InFields, Changes
<1>9. /\ procs' \in [tests!Slots -> tests!ProcType] /\ procs'[i] = p
      /\ \A j \in tests!Slots \ {i} : procs'[j] = procs[j]
  BY <1>1, <1>4 DEF ProcsOK
<1> HIDE DEF p
<1>10. ProcsOK'
  BY <1>4, <1>9 DEF ProcsOK, tests!TestCoordinatorAssumption
<1> SUFFICES ASSUME tests!FilesIInv PROVE tests!FilesIInv'
  BY <1>7, <1>10 DEF StepOK
<1>11. FilesOK(coord')
  BY <1>8, FilesIInvIs DEF FilesOK, tests!EachOnce, tests!Queued, tests!InFlight
<1>12. ASSUME tests!OneAtATime(i) PROVE tests!OneAtATime(i)'
  <2>1. ~coord.done[i] => coord'.commands[i] = << >> /\ Len(coord'.commands[i]) = 0
    <3>1. ~coord.done[i] => Len(coord.commands[i]) = 1
      <4>1. \A s \in Seq(tests!Files \cup {None}) : s # << >> => Len(s) \in Nat /\ Len(s) # 0
        OBVIOUS
      <4>2. Len(coord.commands[i]) \in Nat /\ Len(coord.commands[i]) # 0
        BY <1>1, <1>3, <4>1
      <4>3. ~coord.done[i] => Len(coord.commands[i]) <= 1
        BY <1>12 DEF tests!OneAtATime
      <4>4. \A l \in Nat : l # 0 /\ l <= 1 => l = 1
        OBVIOUS
      <4> QED
        BY <4>2, <4>3, <4>4, Zenon
    <3>2. Len(coord.commands[i]) = 1 => Tail(coord.commands[i]) = << >>
      BY <1>3, TailOfOne
    <3> QED
      BY <1>6, <3>1, <3>2
  <2> QED
    BY <1>1, <1>4, <1>8, <1>9, <1>12, <2>1 DEF tests!OneAtATime
<1>13. \A j \in tests!Slots \ {i} : SlotKept(j)
  BY <1>6, <1>8, <1>9 DEF SlotKept
<1> QED
  BY <1>7, <1>8, <1>10, <1>11, <1>12, <1>13, FilesIInvAfter

LEMMA BeginKeeps ==
    ASSUME tests!TestCoordinatorAssumption, tests!Typed(coord), ProcsOK, tests!Begin
    PROVE  StepOK
<1>1. tests!Typed(coord) /\ ProcsOK /\ coord.spawned = 0 /\ ~coord.over
  BY DEF tests!Begin
<1>2. 1 \in tests!Slots
  BY DEF tests!TestCoordinatorAssumption, tests!Slots
<1>3. CASE /\ coord' = [tests!Started(coord, 1) EXCEPT !.spawned = 1]
           /\ procs' = [procs EXCEPT ![1] = tests!NewProcess]
  <2> DEFINE started == tests!Started(coord, 1)
  <2>1. /\ tests!Typed(started) /\ Changes(coord, started, {"alive", "live"})
        /\ tests!Exact(coord) => tests!Exact(started)
    BY <1>1, <1>2, StartedIs
  <2>2. coord' = [started EXCEPT !.spawned = 1]
    BY <1>3
  <2> HIDE DEF started
  <2>3. Changes(started, coord', {"spawned"}) /\ coord'.spawned = 1 /\ coord'.spawned \in Nat
    BY <2>1, <2>2, FieldsAre DEF tests!Typed, InFields, tests!Shape, Changes
  <2>4. tests!Typed(coord')
    BY <2>1, <2>3, FieldsAre DEF tests!Typed, InFields, Changes
  <2>6. Changes(coord, coord', {"alive", "live", "spawned"})
    BY <2>1, <2>3 DEF Changes
  <2>7. /\ coord'.inflight = coord.inflight /\ coord'.stop = coord.stop /\ coord'.over = coord.over
        /\ coord'.mode = coord.mode /\ coord'.commands = coord.commands
        /\ coord'.waits = coord.waits /\ coord'.done = coord.done /\ coord'.signalled = coord.signalled
        /\ coord'.reap = coord.reap
    BY <2>6, FieldsAre DEF InFields, Changes
  <2>8. /\ ProcsOK' /\ procs'[1] = tests!NewProcess
        /\ \A j \in tests!Slots \ {1} : procs'[j] = procs[j]
    BY <1>1, <1>2, <1>3, NewProcesses DEF ProcsOK
  <2> SUFFICES ASSUME tests!FilesIInv PROVE tests!FilesIInv'
    BY <2>4, <2>8 DEF StepOK
  <2>5. tests!Exact(coord')
    <3>1. /\ coord'.range = started.range /\ coord'.inflight = started.inflight
          /\ coord'.counted = started.counted /\ coord'.files_done = started.files_done
      BY <2>3, FieldsAre DEF InFields, Changes
    <3> QED
      BY <1>1, <2>1, <3>1, FilesIInvIs, ExactIsFilesOK, ExactKept
  <2>9. ASSUME coord.stop = "none", NEW j \in tests!Slots PROVE tests!OneAtATime(j)'
    <3>1. tests!OneAtATime(j) /\ j > 0 /\ procs[j].at = "none" /\ procs[j].frames = << >>
      <4>1. tests!OneAtATime(j) /\ j > 0
        BY <1>1, <2>9, FilesIInvIs DEF tests!Slots
      <4> QED
        BY <1>1, <4>1 DEF tests!OneAtATime
    <3>2. Len(coord.commands[j]) = 0
      BY <3>1 DEF tests!OneAtATime
    <3>3. CASE j = 1
      BY <2>3, <2>7, <2>8, <3>1, <3>2, <3>3, NewProcesses DEF tests!OneAtATime
    <3>4. CASE j # 1
      BY <2>3, <2>7, <2>8, <3>1, <3>2, <3>4 DEF tests!OneAtATime
    <3> QED
      BY <3>3, <3>4
  <2> QED
    BY <2>4, <2>5, <2>7, <2>8, <2>9 DEF tests!FilesIInv, tests!TypeOK, ProcsOK, tests!Exact
<1>4. CASE coord' = [coord EXCEPT !.over = TRUE] /\ procs' = procs
  <2>1. Changes(coord, coord', {"over"}) /\ coord'.over
    BY <1>1, <1>4, FieldsAre DEF tests!Typed, InFields, tests!Shape, Changes
  <2>2. tests!Typed(coord')
    BY <1>1, <2>1, FieldsAre DEF tests!Typed, InFields, Changes
  <2>3. coord'.counted = coord.counted /\ coord'.files_done = coord.files_done
    BY <2>1, FieldsAre DEF InFields, Changes
  <2>4. ProcsOK'
    BY <1>1, <1>4 DEF ProcsOK
  <2> QED
    BY <2>1, <2>2, <2>3, <2>4, FilesIInvIs DEF tests!FilesIInv, tests!TypeOK, ProcsOK, FilesOK, StepOK
<1> QED
  BY <1>3, <1>4 DEF tests!Begin

LEMMA ScaleUpKeeps ==
    ASSUME tests!TestCoordinatorAssumption, tests!Typed(coord), ProcsOK, NEW n \in tests!Slots, tests!ScaleUp(n)
    PROVE  StepOK
<1> DEFINE new == (coord.spawned + 1)..(coord.spawned + n)
           alive == [i \in tests!Slots |-> coord.alive[i] \/ i \in new]
<1>1. /\ ~coord.over /\ coord.stop = "none"
      /\ coord' = [coord EXCEPT !.alive = alive, !.spawned = @ + n, !.live = @ + n]
      /\ procs' = [i \in tests!Slots |-> IF i \in new THEN tests!NewProcess ELSE procs[i]]
  BY DEF tests!ScaleUp, tests!Driving
<1>2. tests!Typed(coord) /\ ProcsOK /\ n \in Nat
  BY DEF tests!Slots
<1>3. alive \in [tests!Slots -> BOOLEAN]
  BY <1>2 DEF tests!Typed
<1> HIDE DEF alive
<1>4. /\ Changes(coord, coord', {"alive", "spawned", "live"}) /\ coord'.alive = alive
      /\ coord'.spawned = coord.spawned + n /\ coord'.live = coord.live + n
  BY <1>1, <1>2, FieldsAre DEF tests!Typed, InFields, tests!Shape, Changes
<1>5. coord.spawned \in Nat /\ coord'.spawned \in Nat /\ coord'.live \in Int
  BY <1>2, <1>4 DEF tests!Typed
<1>6. tests!Typed(coord')
  BY <1>2, <1>3, <1>4, <1>5, FieldsAre DEF tests!Typed, InFields, Changes
<1>7. /\ coord'.inflight = coord.inflight /\ coord'.stop = coord.stop /\ coord'.over = coord.over
      /\ coord'.mode = coord.mode /\ coord'.commands = coord.commands
      /\ coord'.waits = coord.waits /\ coord'.done = coord.done /\ coord'.signalled = coord.signalled
      /\ coord'.reap = coord.reap /\ coord'.range = coord.range
      /\ coord'.counted = coord.counted /\ coord'.files_done = coord.files_done
  BY <1>4, FieldsAre DEF InFields, Changes
<1>9. ProcsOK'
  BY <1>1, <1>2, NewProcesses DEF ProcsOK
<1> SUFFICES ASSUME tests!FilesIInv PROVE tests!FilesIInv'
  BY <1>6, <1>9 DEF StepOK
<1>8. tests!Exact(coord')
  BY <1>1, <1>7, FilesIInvIs, ExactIsFilesOK, ExactKept
<1>10. ASSUME NEW j \in tests!Slots PROVE tests!OneAtATime(j)'
  <2>1. tests!OneAtATime(j) /\ j \in Nat
    BY <1>1, FilesIInvIs DEF tests!Slots
  <2>2. CASE j \in new
    <3>1. procs'[j] = tests!NewProcess /\ j > coord.spawned /\ ~(j > coord'.spawned)
      BY <1>1, <1>2, <1>4, <1>5, <2>2
    <3>2. procs[j].at = "none"
      BY <2>1, <3>1 DEF tests!OneAtATime
    <3>3. Len(coord.commands[j]) = 0
      BY <2>1, <3>2 DEF tests!OneAtATime
    <3> QED
      BY <1>7, <2>1, <3>1, <3>2, <3>3, NewProcesses DEF tests!OneAtATime
  <2>3. CASE j \notin new
    <3>1. procs'[j] = procs[j] /\ (j > coord'.spawned => j > coord.spawned)
      BY <1>1, <1>2, <1>4, <1>5, <2>1, <2>3
    <3> QED
      BY <1>7, <2>1, <3>1 DEF tests!OneAtATime
  <2> QED
    BY <2>2, <2>3
<1> QED
  BY <1>6, <1>8, <1>9, <1>10 DEF tests!FilesIInv, tests!TypeOK, ProcsOK, tests!Exact

LEMMA InterruptKeeps ==
    ASSUME tests!TestCoordinatorAssumption, tests!Typed(coord), ProcsOK, tests!Interrupt
    PROVE  StepOK
<1> DEFINE runners == {i \in tests!Slots : coord.inflight[i] # None}
           theirs == {coord.inflight[i] : i \in runners}
<1>1. /\ ~coord.over
      /\ coord' = [coord EXCEPT !.over = TRUE, !.files_done = @ + Cardinality(runners),
                                !.fail = @ + Cardinality(runners), !.counted = @ \cup theirs]
      /\ procs' = [i \in tests!Slots |-> tests!NoProcess]
  BY CardinalityIs DEF tests!Interrupt, tests!Driving
<1>3. IsFiniteSet(runners) /\ Cardinality(runners) \in Nat
  <2>1. IsFiniteSet(tests!Slots) /\ runners \subseteq tests!Slots
    BY FS_Interval DEF tests!TestCoordinatorAssumption, tests!Slots
  <2> HIDE DEF runners
  <2> QED
    BY <2>1, FS_Subset, FS_CardinalityType
<1>4. theirs \subseteq tests!Files
  BY DEF tests!Typed
<1>7. /\ Changes(coord, coord', {"over", "files_done", "fail", "counted"}) /\ coord'.over
      /\ coord'.files_done = coord.files_done + Cardinality(runners)
      /\ coord'.fail = coord.fail + Cardinality(runners) /\ coord'.counted = coord.counted \cup theirs
  BY <1>1, FieldsAre DEF tests!Typed, InFields, tests!Shape, Changes
<1>8. coord'.files_done \in Nat /\ coord'.fail \in Nat /\ coord'.counted \subseteq tests!Files
  BY <1>3, <1>4, <1>7 DEF tests!Typed
<1>9. tests!Typed(coord')
  BY <1>7, <1>8, FieldsAre DEF tests!Typed, InFields, Changes
<1>11. ProcsOK'
  BY <1>1, NewProcesses DEF ProcsOK
<1> SUFFICES ASSUME tests!FilesIInv PROVE tests!FilesIInv'
  BY <1>9, <1>11 DEF StepOK
<1>2. tests!Exact(coord)
  BY <1>1, FilesIInvIs, ExactIsFilesOK
<1>12. theirs \cap coord.counted = {}
  <2>1. \A f \in theirs : tests!InFlight(coord, f)
    BY DEF tests!InFlight
  <2> QED
    BY <1>2, <1>4, <2>1 DEF tests!Exact, tests!EachOnce
<1>5. Cardinality(theirs) = Cardinality(runners)
  <2> DEFINE at == [i \in runners |-> coord.inflight[i]]
  <2>1. \A i, j \in runners : at[i] = at[j] => i = j
    BY <1>2 DEF tests!Exact, tests!EachOnce
  <2>2. at \in [runners -> theirs] /\ \A f \in theirs : \E i \in runners : at[i] = f
    OBVIOUS
  <2>3. at \in Bijection(runners, theirs)
    <3> HIDE DEF at, runners, theirs
    <3> QED
      BY <2>1, <2>2 DEF Bijection, Injection, Surjection, IsInjective
  <2>4. ExistsBijection(runners, theirs)
    <3> HIDE DEF at, runners, theirs
    <3> QED
      BY <2>3 DEF ExistsBijection
  <2> HIDE DEF runners, theirs
  <2> QED
    BY <1>3, <2>4, FS_Bijection
<1> HIDE DEF runners, theirs
<1>6. Cardinality(coord.counted \cup theirs) = Cardinality(coord.counted) + Cardinality(runners)
  <2>1. IsFiniteSet(coord.counted) /\ IsFiniteSet(theirs)
    BY <1>4, FinitelyManyFiles DEF tests!Typed, tests!TestCoordinatorAssumption
  <2>2. /\ Cardinality(coord.counted \cup theirs)
             = Cardinality(coord.counted) + Cardinality(theirs) - Cardinality(coord.counted \cap theirs)
        /\ Cardinality({}) = 0 /\ Cardinality(coord.counted) \in Nat
    BY <2>1, FS_Union, FS_EmptySet, FS_CardinalityType
  <2>3. coord.counted \cap theirs = {}
    BY <1>12
  <2>4. Cardinality(coord.counted \cap theirs) = 0
    BY <2>2, <2>3
  <2> QED
    BY <1>3, <1>5, <2>2, <2>4
<1>10. coord'.files_done = Cardinality(coord'.counted)
  BY <1>2, <1>6, <1>7, CardinalityIs DEF tests!Exact
<1> QED
  BY <1>7, <1>9, <1>10, <1>11, CardinalityIs DEF tests!FilesIInv, tests!TypeOK, ProcsOK

LEMMA InitKeeps ==
    ASSUME tests!TestCoordinatorAssumption, tests!Init
    PROVE  tests!FilesIInv
<1>1. PICK mode \in tests!Modes :
         coord = [mode       |-> mode,
                  range      |-> [i \in tests!Slots |-> tests!InitialRange(mode, i)],
                  inflight   |-> [i \in tests!Slots |-> None],
                  alive      |-> [i \in tests!Slots |-> FALSE],
                  exit       |-> [i \in tests!Slots |-> None],
                  done       |-> [i \in tests!Slots |-> FALSE],
                  reap       |-> [i \in tests!Slots |-> FALSE],
                  ready      |-> [i \in tests!Slots |-> FALSE],
                  failures   |-> [i \in tests!Slots |-> 0],
                  waits      |-> [i \in tests!Slots |-> FALSE],
                  commands   |-> [i \in tests!Slots |-> << >>],
                  signalled  |-> {},
                  files_done |-> 0,
                  counted    |-> {},
                  fail       |-> 0,
                  stop       |-> "none",
                  spawned    |-> 0,
                  live       |-> 0,
                  over       |-> FALSE]
  BY DEF tests!Init
<1> DEFINE range == [i \in tests!Slots |-> tests!InitialRange(mode, i)]
<1>2. /\ \A i \in tests!Slots : tests!InitialRange(mode, i) \in Seq(tests!Files)
      /\ \A i, j \in tests!Slots : \A n \in DOMAIN tests!InitialRange(mode, i), m \in DOMAIN tests!InitialRange(mode, j) :
            tests!InitialRange(mode, i)[n] = tests!InitialRange(mode, j)[m] => i = j /\ n = m
      /\ \A f \in tests!Files : \E i \in tests!Slots : \E n \in DOMAIN tests!InitialRange(mode, i) :
            tests!InitialRange(mode, i)[n] = f
  BY InitialRanges
<1>3. /\ range \in [tests!Slots -> Seq(tests!Files)] /\ \A i \in tests!Slots : range[i] = tests!InitialRange(mode, i)
      /\ [i \in tests!Slots |-> << >>] \in [tests!Slots -> Seq(tests!Files \cup {None})]
      /\ [i \in tests!Slots |-> None] \in [tests!Slots -> tests!Files \cup {None}]
      /\ [i \in tests!Slots |-> None] \in [tests!Slots -> {None, "exit", "panic"}]
      /\ [i \in tests!Slots |-> FALSE] \in [tests!Slots -> BOOLEAN]
      /\ [i \in tests!Slots |-> 0] \in [tests!Slots -> Nat]
  BY <1>2
<1> HIDE DEF range
<1>4. /\ coord.range = range /\ coord.mode = mode /\ coord.stop = "none" /\ coord.over = FALSE
      /\ coord.inflight = [i \in tests!Slots |-> None] /\ coord.commands = [i \in tests!Slots |-> << >>]
      /\ coord.exit = [i \in tests!Slots |-> None] /\ coord.alive = [i \in tests!Slots |-> FALSE]
      /\ coord.ready = [i \in tests!Slots |-> FALSE] /\ coord.done = [i \in tests!Slots |-> FALSE]
      /\ coord.reap = [i \in tests!Slots |-> FALSE] /\ coord.waits = [i \in tests!Slots |-> FALSE]
      /\ coord.failures = [i \in tests!Slots |-> 0] /\ coord.signalled = {} /\ coord.counted = {}
      /\ coord.files_done = 0 /\ coord.fail = 0 /\ coord.spawned = 0 /\ coord.live = 0
  BY <1>1 DEF range
<1>5. tests!Shape(coord)
  BY <1>1 DEF tests!Shape, tests!Fields
<1>6. tests!Typed(coord)
  <2>1. /\ coord.range \in [tests!Slots -> Seq(tests!Files)] /\ coord.inflight \in [tests!Slots -> tests!Files \cup {None}]
        /\ coord.commands \in [tests!Slots -> Seq(tests!Files \cup {None})]
        /\ coord.exit \in [tests!Slots -> {None, "exit", "panic"}] /\ coord.failures \in [tests!Slots -> Nat]
    BY <1>3, <1>4, Zenon
  <2>2. /\ coord.alive \in [tests!Slots -> BOOLEAN] /\ coord.ready \in [tests!Slots -> BOOLEAN]
        /\ coord.done \in [tests!Slots -> BOOLEAN] /\ coord.reap \in [tests!Slots -> BOOLEAN]
        /\ coord.waits \in [tests!Slots -> BOOLEAN]
    BY <1>3, <1>4, Zenon
  <2>3. /\ coord.mode \in tests!Modes /\ coord.stop \in {"none", "bail", "panic"}
        /\ coord.signalled \subseteq tests!Slots /\ coord.counted \subseteq tests!Files
        /\ coord.files_done \in Nat /\ coord.fail \in Nat /\ coord.spawned \in Nat /\ coord.live \in Int
    BY <1>4
  <2>4. coord.over \in BOOLEAN
    BY <1>4, Zenon
  <2> QED
    BY <1>5, <2>1, <2>2, <2>3, <2>4, Zenon DEF tests!Typed
<1>7. procs = [i \in tests!Slots |-> tests!NoProcess] /\ ProcsOK
  BY NewProcesses DEF tests!Init, ProcsOK
<1>8. coord.files_done = Cardinality(coord.counted)
  BY <1>4, FS_EmptySet
<1>9. tests!EachOnce(coord)
  <2>1. \A i, j \in tests!Slots : \A n \in DOMAIN range[i], m \in DOMAIN range[j] :
          range[i][n] = range[j][m] => i = j /\ n = m
    BY <1>2, <1>3
  <2>2. \A f \in tests!Files : tests!Queued(coord, f)
    BY <1>2, <1>3, <1>4 DEF tests!Queued
  <2>3. \A i \in tests!Slots : coord.inflight[i] = None
    BY <1>4
  <2>4. \A f \in tests!Files : ~tests!InFlight(coord, f)
    BY <2>3 DEF tests!InFlight, tests!TestCoordinatorAssumption
  <2> QED
    BY <1>4, <2>1, <2>2, <2>3, <2>4 DEF tests!EachOnce
<1>10. ASSUME NEW i \in tests!Slots PROVE tests!OneAtATime(i)
  <2>1. /\ procs[i] = tests!NoProcess /\ Len(coord.commands[i]) = 0 /\ coord.commands[i] = << >>
        /\ coord.inflight[i] = None /\ ~coord.waits[i] /\ ~coord.done[i] /\ ~coord.reap[i]
    BY <1>4, <1>7
  <2> QED
    BY <1>4, <2>1, NewProcesses DEF tests!OneAtATime
<1> QED
  BY <1>6, <1>7, <1>8, <1>9, <1>10, CardinalityIs DEF tests!FilesIInv, tests!TypeOK, ProcsOK

\* What every step keeps, whatever dies; where no worker dies unasked between files with
\* heavy files kept apart, it keeps all of the invariant.
LEMMA StepKeeps ==
    ASSUME tests!TestCoordinatorAssumption, tests!TypeOK, [tests!Next]_testsVars
    PROVE  /\ tests!TypeOK'
           /\ ~IdleDeaths /\ tests!FilesIInv => tests!FilesIInv'
<1>0. tests!Typed(coord) /\ ProcsOK /\ (tests!Typed(coord') /\ ProcsOK' => tests!TypeOK')
      /\ (StepOK => tests!TypeOK' /\ (tests!FilesIInv => tests!FilesIInv'))
  BY DEF tests!TypeOK, ProcsOK, StepOK
<1>1. CASE tests!Begin
  BY <1>0, <1>1, BeginKeeps
<1>2. ASSUME NEW i \in tests!Slots,
             \/ tests!OnReady(i) \/ tests!OnFileDone(i) \/ tests!OnCorrupt(i)
             \/ tests!OnWorkerExit(i) \/ tests!OnChannelDone(i) \/ tests!Reap(i) \/ tests!AssignWaiting(i)
      PROVE  StepOK
  BY <1>0, <1>2, OnReadyKeeps, OnFileDoneKeeps, OnCorruptKeeps, OnWorkerExitKeeps,
     OnChannelDoneKeeps, ReapKeeps, AssignWaitingKeeps
<1>3. ASSUME NEW i \in tests!Slots, tests!Ready(i) \/ tests!Command(i) \/ tests!FileDone(i) \/ tests!Garble(i)
      PROVE  StepOK
  BY <1>0, <1>3, ReadyKeeps, CommandKeeps, FileDoneKeeps, GarbleKeeps
<1>4. ASSUME NEW i \in tests!Slots, tests!Killed(i) PROVE StepOK
  BY <1>0, <1>4, ExitKeeps DEF tests!Killed
<1>5. ASSUME NEW i \in tests!Slots, tests!Die(i)
      PROVE  tests!Typed(coord') /\ ProcsOK' /\ (~IdleDeaths => StepOK)
  BY <1>0, <1>5, ExitKeeps DEF tests!Die
<1>6. ASSUME NEW n \in tests!Slots, tests!ScaleUp(n) PROVE StepOK
  BY <1>0, <1>6, ScaleUpKeeps
<1>7. CASE tests!Interrupt
  BY <1>0, <1>7, InterruptKeeps
<1>8. CASE UNCHANGED testsVars
  BY <1>8 DEF testsVars, tests!FilesIInv, tests!TypeOK, tests!OneAtATime
<1> QED
  BY <1>0, <1>1, <1>2, <1>3, <1>4, <1>5, <1>6, <1>7, <1>8 DEF tests!Next, tests!Step

\* A range holds no more files than there are.
LEMMA RangesAreShort ==
    ASSUME tests!TestCoordinatorAssumption, tests!Typed(coord), tests!EachOnce(coord), NEW i \in tests!Slots
    PROVE  DOMAIN coord.range[i] \subseteq tests!Files
<1> DEFINE s == coord.range[i]
<1>1. s \in Seq(tests!Files) /\ Len(s) \in Nat /\ DOMAIN s = 1..Len(s)
  BY DEF tests!Typed
<1>2. \A n, m \in 1..Len(s) : s[n] = s[m] => n = m
  BY <1>1 DEF tests!EachOnce
<1> HIDE DEF s
<1>3. s \in [1..Len(s) -> tests!Files]
  BY <1>1
<1>4. s \in Injection(1..Len(s), tests!Files)
  BY <1>2, <1>3 DEF Injection, IsInjective
<1>5. IsFiniteSet(tests!Files) /\ Cardinality(tests!Files) = N
  BY FS_Interval DEF tests!Files, tests!TestCoordinatorAssumption
<1>6. Cardinality(1..Len(s)) <= N /\ Cardinality(1..Len(s)) = Len(s)
  <2>1. Cardinality(1..Len(s)) <= Cardinality(tests!Files)
    BY <1>4, <1>5, FS_Injection
  <2>2. Cardinality(1..Len(s)) = Len(s)
    BY <1>1, FS_Interval
  <2> QED
    BY <1>5, <2>1, <2>2
<1> QED
  BY <1>1, <1>6 DEF s, tests!Files, tests!TestCoordinatorAssumption

LEMMA FilesAreExact ==
    ASSUME tests!TestCoordinatorAssumption, tests!FilesIInv
    PROVE  tests!FilesExact
<1> DEFINE waiting(f) == {at \in tests!Slots \X tests!Files : /\ at[2] <= Len(coord.range[at[1]])
                                                              /\ coord.range[at[1]][at[2]] = f}
           runners(f) == {i \in tests!Slots : coord.inflight[i] = f}
<1>1. tests!Typed(coord) /\ coord.files_done = Cardinality(coord.counted)
  BY FilesIInvIs DEF FilesOK
<1>2. ASSUME ~coord.over, NEW f \in tests!Files
      PROVE  Cardinality(waiting(f)) + Cardinality(runners(f))
                 + (IF f \in coord.counted THEN 1 ELSE 0) = 1
  <2>1. tests!EachOnce(coord)
    BY <1>2, FilesIInvIs DEF FilesOK
  <2>2. \A at \in tests!Slots \X tests!Files :
          at \in waiting(f) <=> at[2] \in DOMAIN coord.range[at[1]] /\ coord.range[at[1]][at[2]] = f
    <3>1. \A i \in tests!Slots : DOMAIN coord.range[i] = 1..Len(coord.range[i]) /\ Len(coord.range[i]) \in Nat
      BY <1>1 DEF tests!Typed
    <3>2. \A n \in tests!Files : n \in Nat /\ n >= 1
      BY DEF tests!Files
    <3> QED
      BY <3>1, <3>2
  <2>3. Cardinality(waiting(f)) = IF tests!Queued(coord, f) THEN 1 ELSE 0
    <3>1. CASE tests!Queued(coord, f)
      <4>1. PICK i \in tests!Slots : \E n \in DOMAIN coord.range[i] : coord.range[i][n] = f
        BY <3>1 DEF tests!Queued
      <4>2. PICK n \in DOMAIN coord.range[i] : coord.range[i][n] = f
        BY <4>1
      <4>3. <<i, n>> \in tests!Slots \X tests!Files
        BY <2>1, <1>1, RangesAreShort
      <4>4. <<i, n>> \in waiting(f)
        BY <2>2, <4>2, <4>3
      <4>5. \A at \in waiting(f) : at = <<i, n>>
        <5>1. TAKE at \in waiting(f)
        <5>2. at \in tests!Slots \X tests!Files /\ at[1] \in tests!Slots /\ at[2] \in DOMAIN coord.range[at[1]] /\ coord.range[at[1]][at[2]] = f
          BY <2>2
        <5>3. at[1] = i /\ at[2] = n
          BY <2>1, <4>2, <5>2 DEF tests!EachOnce
        <5> QED
          BY <5>2, <5>3
      <4>6. waiting(f) = {<<i, n>>}
        BY <4>4, <4>5
      <4> QED
        BY <3>1, <4>6, FS_Singleton
    <3>2. CASE ~tests!Queued(coord, f)
      <4>1. waiting(f) = {}
        BY <2>2, <3>2 DEF tests!Queued
      <4> QED
        BY <3>2, <4>1, FS_EmptySet
    <3> QED
      BY <3>1, <3>2
  <2>4. Cardinality(runners(f)) = IF tests!InFlight(coord, f) THEN 1 ELSE 0
    <3>1. CASE tests!InFlight(coord, f)
      <4>1. PICK i \in tests!Slots : coord.inflight[i] = f
        BY <3>1 DEF tests!InFlight
      <4>2. f # None
        BY DEF tests!TestCoordinatorAssumption
      <4>3. runners(f) = {i}
        BY <2>1, <4>1, <4>2 DEF tests!EachOnce
      <4> QED
        BY <3>1, <4>3, FS_Singleton
    <3>2. CASE ~tests!InFlight(coord, f)
      <4>1. runners(f) = {}
        BY <3>2 DEF tests!InFlight
      <4> QED
        BY <3>2, <4>1, FS_EmptySet
    <3> QED
      BY <3>1, <3>2
  <2>5. /\ tests!Queued(coord, f) \/ tests!InFlight(coord, f) \/ f \in coord.counted
        /\ ~(tests!Queued(coord, f) /\ tests!InFlight(coord, f))
        /\ ~(tests!Queued(coord, f) /\ f \in coord.counted)
        /\ ~(tests!InFlight(coord, f) /\ f \in coord.counted)
    BY <2>1 DEF tests!EachOnce
  <2> HIDE DEF waiting, runners
  <2> QED
    BY <2>3, <2>4, <2>5
<1> QED
  BY <1>1, <1>2, CardinalityIs DEF tests!FilesExact

\* What a step may not do, as PanicStops has it.
PanicKept == /\ \A i \in tests!Slots : coord.exit[i] = "panic" /\ coord'.exit[i] = None
                                          => coord'.stop = "panic"
             /\ coord.stop = "panic" => coord'.stop = "panic"

LEMMA PanicKeptWhere ==
    ASSUME tests!TestCoordinatorAssumption, coord'.exit = coord.exit,
           coord.stop = "panic" => coord'.stop = "panic"
    PROVE  PanicKept
  BY DEF PanicKept, tests!TestCoordinatorAssumption

\* The handlers that leave the fates of the workers and the reason to stop alone.
LEMMA ExitAndStopKept ==
    ASSUME tests!Typed(coord), NEW S, Changes(coord, coord', S), "exit" \notin S, "stop" \notin S
    PROVE  coord'.exit = coord.exit /\ coord'.stop = coord.stop
  BY FieldsAre DEF InFields, Changes

LEMMA FrameHandlersKeepPanic ==
    ASSUME tests!TestCoordinatorAssumption, tests!Typed(coord), ProcsOK, NEW i \in tests!Slots,
           tests!OnReady(i) \/ tests!OnFileDone(i)
    PROVE  PanicKept
<1>1. CASE tests!OnReady(i)
  <2> DEFINE b == [coord EXCEPT !.ready[i] = TRUE, !.failures[i] = 0]
  <2>1. coord' = tests!AssignWork(b, i)
    BY <1>1, Zenon DEF tests!OnReady
  <2>2. Changes(coord, b, {"ready", "failures"})
        /\ b.ready = [coord.ready EXCEPT ![i] = TRUE] /\ b.failures = [coord.failures EXCEPT ![i] = 0]
    BY FieldsAre DEF tests!Typed, InFields, tests!Shape, Changes
  <2> HIDE DEF b
  <2>3. b.ready \in [tests!Slots -> BOOLEAN] /\ b.failures \in [tests!Slots -> Nat]
    BY <2>2 DEF tests!Typed
  <2>4. tests!Typed(b)
    BY <2>2, <2>3, FieldsAre DEF tests!Typed, InFields, Changes
  <2>5. Changes(b, coord', {"range", "inflight", "commands", "waits"})
    BY <2>1, <2>4, AssignWorkIs DEF Given
  <2>6. coord'.exit = coord.exit /\ coord'.stop = coord.stop
    BY <2>2, <2>5, FieldsAre DEF InFields, Changes
  <2> QED
    BY <2>6, PanicKeptWhere
<1>2. CASE tests!OnFileDone(i)
  <2> DEFINE f == tests!Frame(i).file
             freed == [coord EXCEPT !.inflight[i] = None]
             counted == tests!Count(freed, f, tests!Frame(i).failed)
             bailed == tests!BailOut(counted)
  <2>1. /\ tests!Decode(i, "file_done")
        /\ coord' = IF coord.inflight[i] # f THEN coord
                    ELSE IF coord.alive[i] THEN tests!AssignWork(bailed, i) ELSE bailed
    BY <1>2, Zenon DEF tests!OnFileDone
  <2>2. f \in tests!Files
    BY <2>1, DecodeIs DEF tests!FrameType, tests!Frame
  <2> HIDE DEF f
  <2>3. CASE coord' = coord
    BY <2>3, PanicKeptWhere
  <2>4. CASE coord' = IF coord.alive[i] THEN tests!AssignWork(bailed, i) ELSE bailed
    <3>1. Changes(coord, freed, {"inflight"}) /\ freed.inflight = [coord.inflight EXCEPT ![i] = None]
      BY FieldsAre DEF tests!Typed, InFields, tests!Shape, Changes
    <3>2. freed.inflight \in [tests!Slots -> tests!Files \cup {None}]
      BY <3>1 DEF tests!Typed
    <3> HIDE DEF freed
    <3>3. tests!Typed(freed)
      BY <3>1, <3>2, FieldsAre DEF tests!Typed, InFields, Changes
    <3>4. tests!Typed(counted) /\ Changes(freed, counted, {"files_done", "counted", "fail"})
      <4>1. \A failed : counted = tests!Count(freed, f, failed) =>
                tests!Typed(counted) /\ Changes(freed, counted, {"files_done", "counted", "fail"})
        <5> HIDE DEF counted
        <5> QED
          BY <2>2, <3>3, CountIs
      <4> QED
        BY <4>1, Zenon
    <3> HIDE DEF counted
    <3>5. /\ tests!Typed(bailed) /\ Changes(counted, bailed, {"stop", "commands"})
          /\ bailed = counted \/ (counted.stop = "none" /\ bailed.stop = "bail")
      BY <3>4, BailOutIs
    <3> HIDE DEF bailed
    <3>6. coord' = bailed \/ Changes(bailed, coord', {"range", "inflight", "commands", "waits"})
      BY <2>4, <3>5, AssignWorkIs DEF Given
    <3>7. /\ coord'.exit = bailed.exit /\ coord'.stop = bailed.stop /\ bailed.exit = counted.exit
          /\ counted.exit = coord.exit /\ counted.stop = coord.stop
      BY <3>1, <3>4, <3>5, <3>6, FieldsAre DEF InFields, Changes
    <3> QED
      BY <3>5, <3>7, PanicKeptWhere
  <2> QED
    BY <2>1, <2>3, <2>4
<1> QED
  BY <1>1, <1>2

LEMMA ReapKeepsPanic ==
    ASSUME tests!TestCoordinatorAssumption, tests!Typed(coord), NEW i \in tests!Slots, tests!Reap(i)
    PROVE  PanicKept
<1> DEFINE settled == tests!Settle(coord, i)
           unready == [settled EXCEPT !.ready[i] = FALSE]
<1>1. \/ coord' = tests!Started(unready, i)
      \/ coord' = settled \/ coord' = tests!AbortQueued(settled)
  BY Zenon DEF tests!Reap
<1>2. SettledAs(coord, settled, i)
  BY SettleIs DEF tests!TestCoordinatorAssumption
<1> HIDE DEF settled
<1>3. /\ tests!Typed(settled) /\ settled.exit = [coord.exit EXCEPT ![i] = None]
      /\ coord.stop = "panic" \/ coord.exit[i] = "panic" => settled.stop = "panic"
  BY <1>2 DEF SettledAs
<1>4. /\ Changes(settled, unready, {"ready"}) /\ unready.ready = [settled.ready EXCEPT ![i] = FALSE]
  BY <1>3, FieldsAre DEF tests!Typed, InFields, tests!Shape, Changes
<1> HIDE DEF unready
<1>5. unready.ready \in [tests!Slots -> BOOLEAN]
  BY <1>3, <1>4 DEF tests!Typed
<1>6. tests!Typed(unready)
  BY <1>3, <1>4, <1>5, FieldsAre DEF tests!Typed, InFields, Changes
<1>7. coord'.exit = settled.exit /\ coord'.stop = settled.stop
  <2>1. CASE coord' = tests!Started(unready, i)
    <3>1. Changes(unready, coord', {"alive", "live"})
      BY <1>6, <2>1, StartedIs
    <3> QED
      BY <1>4, <3>1, FieldsAre DEF InFields, Changes
  <2>2. CASE coord' = tests!AbortQueued(settled)
    <3>1. Changes(settled, coord', {"range", "files_done", "counted", "fail"})
      BY <1>3, <2>2, AbortQueuedIs DEF tests!TestCoordinatorAssumption
    <3> QED
      BY <3>1, FieldsAre DEF InFields, Changes
  <2> QED
    BY <1>1, <2>1, <2>2
<1>8. \A j \in tests!Slots : coord.exit[j] = "panic" /\ coord'.exit[j] = None => j = i
  BY <1>3, <1>7 DEF tests!Typed, tests!TestCoordinatorAssumption
<1> QED
  BY <1>3, <1>7, <1>8 DEF PanicKept

LEMMA StepKeepsPanic ==
    ASSUME tests!TestCoordinatorAssumption, tests!TypeOK, tests!Next
    PROVE  PanicKept
<1>0. tests!Typed(coord) /\ ProcsOK
  BY DEF tests!TypeOK, ProcsOK
<1>1. CASE tests!Begin
  <2>1. CASE coord' = [tests!Started(coord, 1) EXCEPT !.spawned = 1]
    <3>1. 1 \in tests!Slots
      BY DEF tests!TestCoordinatorAssumption, tests!Slots
    <3> DEFINE started == tests!Started(coord, 1)
    <3>2. tests!Typed(started) /\ Changes(coord, started, {"alive", "live"})
      BY <1>0, <3>1, StartedIs
    <3>3. coord' = [started EXCEPT !.spawned = 1]
      BY <2>1
    <3> HIDE DEF started
    <3>4. Changes(started, coord', {"spawned"})
      BY <3>2, <3>3, FieldsAre DEF tests!Typed, InFields, tests!Shape, Changes
    <3>5. Changes(coord, coord', {"alive", "live", "spawned"})
      BY <3>2, <3>4 DEF Changes
    <3> QED
      BY <1>0, <3>5, ExitAndStopKept, PanicKeptWhere
  <2>2. CASE coord' = [coord EXCEPT !.over = TRUE]
    <3>1. Changes(coord, coord', {"over"})
      BY <1>0, <2>2, FieldsAre DEF tests!Typed, InFields, tests!Shape, Changes
    <3> QED
      BY <1>0, <3>1, ExitAndStopKept, PanicKeptWhere
  <2> QED
    BY <1>1, <2>1, <2>2 DEF tests!Begin
<1>2. ASSUME NEW i \in tests!Slots, tests!OnReady(i) \/ tests!OnFileDone(i) PROVE PanicKept
  BY <1>0, <1>2, FrameHandlersKeepPanic
<1>3. ASSUME NEW i \in tests!Slots, tests!OnCorrupt(i) \/ tests!OnChannelDone(i) PROVE PanicKept
  <2>1. Changes(coord, coord', {"done", "signalled", "reap"})
    BY <1>0, <1>3, FieldsAre DEF tests!OnCorrupt, tests!OnChannelDone, tests!Typed, InFields, tests!Shape, Changes
  <2> QED
    BY <1>0, <2>1, ExitAndStopKept, PanicKeptWhere
\* An exit that is told: the process has a status, and it is not taken back.
<1>4. ASSUME NEW i \in tests!Slots, tests!OnWorkerExit(i) PROVE PanicKept
  <2>1. /\ procs[i].status # None
        /\ coord' = [coord EXCEPT !.alive[i] = FALSE, !.exit[i] = procs[i].status,
                                  !.reap[i] = coord.done[i]]
    BY <1>0, <1>4 DEF tests!OnWorkerExit, ProcsOK
  <2>2. /\ Changes(coord, coord', {"alive", "exit", "reap"})
        /\ coord'.exit = [coord.exit EXCEPT ![i] = procs[i].status]
    BY <1>0, <2>1, FieldsAre DEF tests!Typed, InFields, tests!Shape, Changes
  <2>3. coord'.stop = coord.stop
    BY <2>2, FieldsAre DEF InFields, Changes
  <2>4. \A j \in tests!Slots : coord.exit[j] = "panic" => coord'.exit[j] # None
    BY <1>0, <2>1, <2>2 DEF tests!Typed, tests!TestCoordinatorAssumption
  <2> QED
    BY <2>3, <2>4 DEF PanicKept
<1>5. ASSUME NEW i \in tests!Slots, tests!Reap(i) PROVE PanicKept
  BY <1>0, <1>5, ReapKeepsPanic
<1>6. ASSUME NEW i \in tests!Slots, tests!AssignWaiting(i) PROVE PanicKept
  <2> DEFINE b == [coord EXCEPT !.waits[i] = FALSE]
  <2>1. coord' = tests!AssignWork(b, i)
    BY <1>6, Zenon DEF tests!AssignWaiting
  <2>2. Changes(coord, b, {"waits"}) /\ b.waits = [coord.waits EXCEPT ![i] = FALSE]
    BY <1>0, FieldsAre DEF tests!Typed, InFields, tests!Shape, Changes
  <2> HIDE DEF b
  <2>3. b.waits \in [tests!Slots -> BOOLEAN]
    BY <1>0, <2>2 DEF tests!Typed
  <2>4. tests!Typed(b)
    BY <1>0, <2>2, <2>3, FieldsAre DEF tests!Typed, InFields, Changes
  <2>5. Changes(b, coord', {"range", "inflight", "commands", "waits"})
    BY <2>1, <2>4, AssignWorkIs DEF Given
  <2>6. Changes(coord, coord', {"range", "inflight", "commands", "waits"})
    BY <2>2, <2>5 DEF Changes
  <2> QED
    BY <1>0, <2>6, ExitAndStopKept, PanicKeptWhere
<1>7. ASSUME NEW i \in tests!Slots, tests!Command(i) PROVE PanicKept
  <2>1. Changes(coord, coord', {"commands"})
    BY <1>0, <1>7, FieldsAre DEF tests!Command, tests!Typed, InFields, tests!Shape, Changes
  <2> QED
    BY <1>0, <2>1, ExitAndStopKept, PanicKeptWhere
<1>8. ASSUME NEW i \in tests!Slots, tests!Ready(i) \/ tests!FileDone(i) \/ tests!Killed(i) \/ tests!Garble(i) \/ tests!Die(i)
      PROVE  PanicKept
  <2>1. coord' = coord
    BY <1>8 DEF tests!Ready, tests!FileDone, tests!Killed, tests!Garble, tests!Die
  <2> QED
    BY <2>1, PanicKeptWhere
<1>9. ASSUME NEW n \in tests!Slots, tests!ScaleUp(n) PROVE PanicKept
  <2> DEFINE alive == [i \in tests!Slots |-> coord.alive[i] \/ i \in (coord.spawned + 1)..(coord.spawned + n)]
  <2>1. coord' = [coord EXCEPT !.alive = alive, !.spawned = @ + n, !.live = @ + n]
    BY <1>9 DEF tests!ScaleUp
  <2> HIDE DEF alive
  <2>2. Changes(coord, coord', {"alive", "spawned", "live"})
    BY <1>0, <2>1, FieldsAre DEF tests!Typed, InFields, tests!Shape, Changes
  <2> QED
    BY <1>0, <2>2, ExitAndStopKept, PanicKeptWhere
<1>10. CASE tests!Interrupt
  <2> DEFINE runners == Cardinality({i \in tests!Slots : coord.inflight[i] # None})
             theirs == {coord.inflight[i] : i \in {i \in tests!Slots : coord.inflight[i] # None}}
  <2>1. coord' = [coord EXCEPT !.over = TRUE, !.files_done = @ + runners, !.fail = @ + runners,
                               !.counted = @ \cup theirs]
    BY <1>10, CardinalityIs DEF tests!Interrupt
  <2> HIDE DEF runners, theirs
  <2>2. Changes(coord, coord', {"over", "files_done", "fail", "counted"})
    BY <1>0, <2>1, FieldsAre DEF tests!Typed, InFields, tests!Shape, Changes
  <2> QED
    BY <1>0, <2>2, ExitAndStopKept, PanicKeptWhere
<1> QED
  BY <1>1, <1>2, <1>3, <1>4, <1>5, <1>6, <1>7, <1>8, <1>9, <1>10 DEF tests!Next, tests!Step

\* A step of another service leaves the test run alone.
LEMMA StepTests == [NextAll]_allVars => [tests!Next]_testsVars
<1> SUFFICES ASSUME [NextAll]_allVars PROVE [tests!Next]_testsVars
  OBVIOUS
<1> QED
  BY DEF NextAll, allVars, Use

LEMMA InitTests == InitAll => tests!Init
  BY DEF InitAll

\* No file of a parallel test run is lost, run twice or counted twice, however its workers
\* die, except for one that dies between files while heavy files are kept apart: what that
\* one waits for it can be given after its end.
THEOREM FilesOfRunExact ==
    ASSUME ~IdleDeaths
    PROVE  SpecAll => []FilesExact
<1>1. tests!TestCoordinatorAssumption
  BY ServicesAssumption
<1>2. InitAll => tests!FilesIInv
  BY <1>1, InitTests, InitKeeps
<1>3. tests!FilesIInv /\ [NextAll]_allVars => tests!FilesIInv'
  BY <1>1, StepTests, StepKeeps DEF tests!FilesIInv, testsVars
<1>4. tests!FilesIInv => FilesExact
  BY <1>1, FilesAreExact DEF FilesExact
<1> QED
  BY <1>2, <1>3, <1>4, PTL DEF SpecAll

\* A worker that died of a crash signal is not reaped without the run being stopped for it,
\* and nothing takes that back: neither --bail nor what other workers do.
THEOREM CrashStopsRun == SpecAll => PanicStops
<1>1. tests!TestCoordinatorAssumption
  BY ServicesAssumption
<1>2. InitAll => tests!TypeOK
  BY <1>1, InitTests, InitKeeps DEF tests!FilesIInv
<1>3. tests!TypeOK /\ [NextAll]_allVars => tests!TypeOK'
  BY <1>1, StepTests, StepKeeps DEF testsVars
<1>4. tests!TypeOK /\ [NextAll]_allVars => [PanicKept]_testsVars
  BY <1>1, StepTests, StepKeepsPanic DEF testsVars
<1>5. PanicStops <=> [][PanicKept]_testsVars
  BY PTL DEF PanicStops, tests!PanicStops, PanicKept, testsVars, tests!vars
<1> QED
  BY <1>2, <1>3, <1>4, <1>5, PTL DEF SpecAll
=============================================================================
