---------------------------- MODULE QueuesProofs ----------------------------
(***************************************************************************)
(* The queues keep what was pushed, in its order, for any number of nodes, *)
(* producers and consumers, any ring and any index width.  Each has an     *)
(* inductive invariant (IInv of its module) that ties its memory to the    *)
(* history variable that holds its contents: the links between items for   *)
(* unbounded_queue.rs, the stack and the cache for node::Queue, the slots  *)
(* between head and tail for signal_ring.rs.  The WaitGroup that runs with *)
(* them comes first: no finish_raw() touches it once its owner may have    *)
(* freed it, for any number of tasks.                                      *)
(***************************************************************************)
EXTENDS Queues, FiniteSetTheorems, SequenceTheorems, TLAPS

(* WaitGroup *)

\* The outstanding tasks can be counted.
LEMMA CountedFinite ==
    ASSUME WaitGroupAssumption
    PROVE  IsFiniteSet(Counted) /\ Cardinality(Counted) \in Nat
  <1>1. Counted \subseteq Tasks
    BY DEF Counted
  <1>2. IsFiniteSet(Counted)
    BY <1>1, FS_Subset DEF WaitGroupAssumption
  <1> QED
    BY <1>2, FS_CardinalityType

\* One more task, one more counted.
LEMMA CountOneMore ==
    ASSUME WaitGroupAssumption, NEW u, CountExact, u \notin Counted, Counted' = Counted \cup {u},
           raw_count' = raw_count + 1
    PROVE  CountExact' /\ raw_count' \in Nat
  <1>1. Cardinality(Counted \cup {u}) = Cardinality(Counted) + 1
    BY CountedFinite, FS_AddElement
  <1>2. raw_count = Cardinality(Counted) /\ Cardinality(Counted) \in Nat
    BY CountedFinite DEF CountExact
  <1>3. Cardinality(Counted') = raw_count'
    BY <1>1, <1>2
  <1> QED
    BY <1>2, <1>3 DEF CountExact

\* One task less, one less counted; the count was not zero.
LEMMA CountOneLess ==
    ASSUME WaitGroupAssumption, NEW u, CountExact, u \in Counted, Counted' = Counted \ {u},
           raw_count' = raw_count - 1
    PROVE  CountExact' /\ raw_count' \in Nat
  <1>1. /\ IsFiniteSet(Counted \ {u})
        /\ Cardinality(Counted \ {u}) = Cardinality(Counted) - 1
    BY CountedFinite, FS_RemoveElement
  <1>2. Cardinality(Counted \ {u}) \in Nat
    BY <1>1, FS_CardinalityType
  <1>3. Cardinality(Counted') = raw_count'
    BY <1>1 DEF CountExact
  <1> QED
    BY <1>2, <1>3 DEF CountExact

\* Nobody else is counted or taken off the count.
LEMMA CountSame ==
    ASSUME CountExact, Counted' = Counted, raw_count' = raw_count
    PROVE  CountExact'
  BY DEF CountExact

\* What the owner reads as zero is that nobody is counted.
LEMMA ZeroIsEmpty ==
    ASSUME WaitGroupAssumption, CountExact, ~(raw_count > 0)
    PROVE  Counted = {}
  <1>1. Cardinality(Counted) = 0
    BY CountedFinite DEF CountExact
  <1> QED
    BY <1>1, CountedFinite, FS_EmptySet

LEMMA InitIInv == WaitGroupAssumption /\ Init => IInv
  <1> SUFFICES ASSUME WaitGroupAssumption, Init PROVE IInv
    OBVIOUS
  <1> USE DEF WaitGroupAssumption
  <1>1. TypeOK
    BY FS_EmptySet DEF Init, TypeOK, Threads, TaskLabels, OwnerLabels
  <1>2. CountExact
    <2>1. Counted = {}
      BY DEF Init, Counted, Threads
    <2> QED
      BY <2>1, FS_EmptySet DEF Init, CountExact
  <1>3. MutexHeld
    BY DEF Init, MutexHeld, Threads
  <1>4. ZeroMeansQuiet
    BY DEF Init, ZeroMeansQuiet, Threads
  <1> QED
    BY <1>1, <1>2, <1>3, <1>4 DEF IInv

\* Every step of a task, of the owner or of an add_one() keeps the invariant.
LEMMA StepIInv == WaitGroupAssumption /\ IInv /\ [Next]_vars => IInv'
  <1> SUFFICES ASSUME WaitGroupAssumption, IInv, [Next]_vars PROVE IInv'
    OBVIOUS
  <1> USE DEF WaitGroupAssumption
  <1> USE DEF IInv
  <1> DEFINE Rest == MutexHeld' /\ ZeroMeansQuiet'
  <1>add. ASSUME NEW t \in Threads, NEW u \in Tasks, Add(t, u) PROVE IInv'
    <2>count. CountExact' /\ raw_count' \in Nat
      <3>1. u \notin Counted /\ Counted' = Counted \cup {u}
        BY <1>add DEF Add, Goto, Counted, TypeOK, Threads
      <3> QED
        BY <1>add, <3>1, CountOneMore DEF Add
    <2>types. TypeOK'
      BY <1>add, <2>count DEF Add, Goto, TypeOK, Threads, TaskLabels
    <2>rest. Rest
      BY <1>add DEF Add, Goto, TypeOK, Threads, TaskLabels, MutexHeld, ZeroMeansQuiet
    <2> QED
      BY <2>count, <2>types, <2>rest
  <1>load. ASSUME NEW t \in Tasks, FinishLoad(t) PROVE IInv'
    <2>count. CountExact'
      <3>1. Counted' = Counted
        BY <1>load DEF FinishLoad, LoadCount, Goto, Counted, TypeOK, Threads
      <3> QED
        BY <1>load, <3>1, CountSame DEF FinishLoad
    <2>types. TypeOK'
      BY <1>load DEF FinishLoad, LoadCount, Goto, TypeOK, Threads, TaskLabels
    <2>rest. Rest
      BY <1>load DEF FinishLoad, Goto, TypeOK, Threads, MutexHeld, ZeroMeansQuiet
    <2> QED
      BY <2>count, <2>types, <2>rest
  <1>fast. ASSUME NEW t \in Tasks, FinishFast(t) PROVE IInv'
    <2>same. CASE raw_count = old[t]
      <3>count. CountExact' /\ raw_count' \in Nat
        <4>1. t \in Counted /\ Counted' = Counted \ {t}
          BY <1>fast, <2>same DEF FinishFast, Goto, Counted, TypeOK, Threads
        <4> QED
          BY <1>fast, <2>same, <4>1, CountOneLess DEF FinishFast
      <3>types. TypeOK'
        BY <1>fast, <2>same, <3>count DEF FinishFast, Goto, TypeOK, Threads, TaskLabels
      <3>rest. Rest
        BY <1>fast, <2>same DEF FinishFast, Goto, TypeOK, Threads, MutexHeld, ZeroMeansQuiet
      <3> QED
        BY <3>count, <3>types, <3>rest
    <2>moved. CASE raw_count # old[t]
      <3>count. CountExact'
        <4>1. Counted' = Counted
          BY <1>fast, <2>moved DEF FinishFast, Goto, Counted, TypeOK, Threads
        <4> QED
          BY <1>fast, <2>moved, <4>1, CountSame DEF FinishFast
      <3>types. TypeOK'
        BY <1>fast, <2>moved DEF FinishFast, LoadCount, Goto, TypeOK, Threads, TaskLabels
      <3>rest. Rest
        BY <1>fast, <2>moved DEF FinishFast, Goto, TypeOK, Threads, MutexHeld, ZeroMeansQuiet
      <3> QED
        BY <3>count, <3>types, <3>rest
    <2> QED
      BY <2>same, <2>moved
  <1>lock. ASSUME NEW t \in Tasks, FinishLock(t) PROVE IInv'
    <2>count. CountExact'
      <3>1. Counted' = Counted
        BY <1>lock DEF FinishLock, Goto, Counted, TypeOK, Threads
      <3> QED
        BY <1>lock, <3>1, CountSame DEF FinishLock
    <2>types. TypeOK'
      BY <1>lock DEF FinishLock, mutex!Acquire, mutex!Hand, Goto, TypeOK, Threads, TaskLabels
    <2>rest. Rest
      BY <1>lock DEF FinishLock, mutex!Acquire, mutex!Hand, Goto, TypeOK, Threads, MutexHeld, ZeroMeansQuiet
    <2> QED
      BY <2>count, <2>types, <2>rest
  <1>sub. ASSUME NEW t \in Tasks, FinishSub(t) PROVE IInv'
    <2>count. CountExact' /\ raw_count' \in Nat
      <3>1. t \in Counted /\ Counted' = Counted \ {t}
        BY <1>sub DEF FinishSub, Goto, Counted, TypeOK, Threads
      <3> QED
        BY <1>sub, <3>1, CountOneLess DEF FinishSub
    <2>types. TypeOK'
      BY <1>sub, <2>count DEF FinishSub, Goto, TypeOK, Threads, TaskLabels
    <2>rest. Rest
      BY <1>sub DEF FinishSub, Goto, TypeOK, Threads, MutexHeld, ZeroMeansQuiet
    <2> QED
      BY <2>count, <2>types, <2>rest
  <1>signal. ASSUME NEW t \in Tasks, FinishSignal(t) PROVE IInv'
    <2>count. CountExact'
      <3>1. Counted' = Counted
        BY <1>signal DEF FinishSignal, Goto, Counted, TypeOK, Threads
      <3> QED
        BY <1>signal, <3>1, CountSame DEF FinishSignal
    <2>types. TypeOK'
      <3>1. blocked' = blocked /\ credits' \in Nat
        BY <1>signal DEF FinishSignal, cond!Signal, TypeOK
      <3> QED
        BY <1>signal, <3>1 DEF FinishSignal, Goto, TypeOK, Threads, TaskLabels
    <2>rest. Rest
      BY <1>signal DEF FinishSignal, Goto, TypeOK, Threads, MutexHeld, ZeroMeansQuiet
    <2> QED
      BY <2>count, <2>types, <2>rest
  <1>unlock. ASSUME NEW t \in Tasks, FinishUnlock(t) PROVE IInv'
    <2>count. CountExact'
      <3>1. Counted' = Counted
        BY <1>unlock DEF FinishUnlock, Goto, Counted, TypeOK, Threads
      <3> QED
        BY <1>unlock, <3>1, CountSame DEF FinishUnlock
    <2>types. TypeOK'
      BY <1>unlock DEF FinishUnlock, mutex!Release, mutex!Hand, Goto, TypeOK, Threads, TaskLabels
    <2>rest. Rest
      BY <1>unlock DEF FinishUnlock, mutex!Release, mutex!Hand, Goto, TypeOK, Threads, MutexHeld, ZeroMeansQuiet
    <2> QED
      BY <2>count, <2>types, <2>rest
  <1>wait. ASSUME Wait PROVE IInv'
    <2>count. CountExact'
      <3>1. Counted' = Counted /\ raw_count' = raw_count
        BY <1>wait DEF Wait, WaitLock, WaitCheck, WaitBlock, WaitWoken, WaitUnlock, Goto, Counted,
                    TypeOK, Threads
      <3> QED
        BY <3>1, CountSame
    <2>lock. CASE WaitLock
      BY <2>count, <2>lock DEF WaitLock, mutex!Acquire, mutex!Hand, Goto, TypeOK, Threads, OwnerLabels, MutexHeld,
                        ZeroMeansQuiet
    <2>check. CASE WaitCheck
      <3>1. ~(raw_count > 0) => \A t \in Tasks : pc[t] \in {"new", "done"}
        <4> SUFFICES ASSUME ~(raw_count > 0), NEW t \in Tasks PROVE pc[t] \in {"new", "done"}
          OBVIOUS
        <4>1. t \notin Counted
          BY ZeroIsEmpty
        <4>2. owner = Owner
          BY <2>check DEF WaitCheck, MutexHeld
        <4>3. pc[t] \notin {"sub", "signal", "unlock"}
          BY <4>2 DEF MutexHeld
        <4> QED
          BY <4>1, <4>3 DEF Counted, TypeOK, TaskLabels
      <3>2. TypeOK' /\ MutexHeld'
        BY <2>check DEF WaitCheck, Goto, TypeOK, Threads, OwnerLabels, MutexHeld
      <3>3. ZeroMeansQuiet'
        BY <2>check, <3>1 DEF WaitCheck, Goto, TypeOK, Threads, ZeroMeansQuiet
      <3> QED
        BY <2>count, <3>2, <3>3
    <2>block. CASE WaitBlock
      <3>1. blocked' \subseteq {Owner} /\ credits' \in Nat
        BY <2>block DEF WaitBlock, cond!Wait, TypeOK
      <3>2. TypeOK' /\ Rest
        BY <2>block, <3>1 DEF WaitBlock, mutex!Release, mutex!Hand, Goto, TypeOK, Threads, OwnerLabels, MutexHeld,
                          ZeroMeansQuiet
      <3> QED
        BY <2>count, <3>2
    <2>woken. CASE WaitWoken
      <3>1. blocked' \subseteq {Owner} /\ credits' \in Nat
        BY <2>woken DEF WaitWoken, cond!Return, TypeOK
      <3>2. TypeOK' /\ Rest
        BY <2>woken, <3>1 DEF WaitWoken, Goto, TypeOK, Threads, OwnerLabels, MutexHeld, ZeroMeansQuiet
      <3> QED
        BY <2>count, <3>2
    <2>unlock. CASE WaitUnlock
      BY <2>count, <2>unlock DEF WaitUnlock, mutex!Release, mutex!Hand, Goto, TypeOK, Threads, OwnerLabels, MutexHeld,
                        ZeroMeansQuiet
    <2> QED
      BY <1>wait, <2>lock, <2>check, <2>block, <2>woken, <2>unlock DEF Wait
  <1>stutter. CASE UNCHANGED vars
    <2>1. Counted' = Counted
      BY <1>stutter DEF vars, Counted
    <2> QED
      BY <1>stutter, <2>1, CountSame DEF vars, TypeOK, MutexHeld, ZeroMeansQuiet
  <1> QED
    BY <1>add, <1>load, <1>fast, <1>lock, <1>sub, <1>signal, <1>unlock, <1>wait, <1>stutter DEF Next, Finish

\* The counter, the mutex and the owner's progress stay in step (IInv), for every
\* set of tasks.
THEOREM WaitGroupIInv ==
    ASSUME WaitGroupAssumption PROVE Spec => []IInv
  BY InitIInv, StepIInv, PTL DEF Spec

\* wait() returns only when every finish_raw() is past its last access to the group:
\* the owner may free it.
THEOREM WaitGroupNoUseAfterFree ==
    ASSUME WaitGroupAssumption PROVE Spec => []NoUseAfterFree
  <1>1. IInv => NoUseAfterFree
    BY DEF IInv, ZeroMeansQuiet, NoUseAfterFree
  <1> QED
    BY <1>1, WaitGroupIInv, PTL

-----------------------------------------------------------------------------
(* Indices that wrap *)

\* Integers are divided with a remainder.
LEMMA Quotient ==
    ASSUME NEW a \in Int, NEW c \in Nat \ {0}
    PROVE  \E q \in Int, r \in 0 .. c - 1 : a = (c * q) + r /\ r = (a % c)
  <1>1. a \div c \in Int /\ a % c \in 0 .. c - 1
    OBVIOUS
  <1>2. a = (c * (a \div c)) + (a % c)
    OBVIOUS
  <1> QED BY <1>1, <1>2

\* A multiple of c that is closer to 0 than c is 0.
LEMMA Multiple ==
    ASSUME NEW c \in Nat \ {0}, NEW d \in Int, c * d < c, -c < c * d
    PROVE  d = 0
  OBVIOUS

\* Numbers that are close and have the same remainder are equal.
LEMMA Slots ==
    ASSUME NEW c \in Nat \ {0}, NEW x \in Int, NEW y \in Int, x % c = y % c, x - y < c, -c < x - y
    PROVE  x = y
  <1>1. PICK q \in Int, r \in 0 .. c - 1 : x = (c * q) + r /\ r = (x % c)
    BY Quotient
  <1>2. PICK s \in Int, t \in 0 .. c - 1 : y = (c * s) + t /\ t = (y % c)
    BY Quotient
  <1>3. c * (q - s) = x - y
    BY <1>1, <1>2
  <1>4. q - s = 0
    BY <1>3, Multiple
  <1> QED
    BY <1>3, <1>4

\* The remainder does not see multiples.
LEMMA Shift ==
    ASSUME NEW c \in Nat \ {0}, NEW x \in Int, NEW k \in Int
    PROVE  (x + (c * k)) % c = x % c
  <1>1. PICK q \in Int, r \in 0 .. c - 1 : x = (c * q) + r /\ r = (x % c)
    BY Quotient
  <1>2. x + (c * k) = (c * (q + k)) + r
    BY <1>1
  <1>3. \A s \in Int : ((c * s) + r) % c = r
    OBVIOUS
  <1>4. ((c * (q + k)) + r) % c = r
    BY <1>3
  <1> QED
    BY <1>1, <1>2, <1>4

\* A sum of two indices wraps at most once.
LEMMA Wrap ==
    ASSUME NEW m \in Nat \ {0}, NEW x \in 0 .. (2 * m) - 1
    PROVE  x % m = IF x < m THEN x ELSE x - m
  OBVIOUS

\* A difference of two indices wraps at most once.
LEMMA WrapBack ==
    ASSUME NEW m \in Nat \ {0}, NEW x \in 1 - m .. m - 1
    PROVE  x % m = IF x < 0 THEN x + m ELSE x
  OBVIOUS

-----------------------------------------------------------------------------
(* unbounded_queue.rs: its invariant *)

\* A sequence without its first n elements.
LEMMA Rest ==
    ASSUME NEW S, NEW s \in Seq(S), NEW n \in 0 .. Len(s), NEW t, t = SubSeq(s, n + 1, Len(s))
    PROVE  /\ t \in Seq(S) /\ Len(t) = Len(s) - n
           /\ \A i \in 1 .. Len(t) : t[i] = s[i + n]
  OBVIOUS

\* A sequence behind another.
LEMMA Joined ==
    ASSUME NEW S, NEW s \in Seq(S), NEW u \in Seq(S), NEW t, t = s \o u
    PROVE  /\ t \in Seq(S) /\ Len(t) = Len(s) + Len(u)
           /\ \A i \in 1 .. Len(t) : t[i] = IF i <= Len(s) THEN s[i] ELSE u[i - Len(s)]
  OBVIOUS

\* What the constants of unbounded_queue.rs are.
LEMMA QueueConstants == Null \notin Nodes /\ MaxRun \in Nat \ {0}
  BY QueuesAssumption DEF QueuesAssumption, queue!QueueAssumption

\* A run is a sequence of at most MaxRun items.
LEMMA RunIsSeq ==
    ASSUME NEW S, NEW s
    PROVE  s \in queue!BoundedSeq(S, MaxRun) <=> s \in Seq(S) /\ Len(s) <= MaxRun
  BY QueueConstants DEF queue!BoundedSeq, queue!SeqOf

\* The chains of the producers.
LEMMA Chains ==
    ASSUME queue!TypeOK, NEW p \in Producers
    PROVE  /\ chain[p] \in Seq(Nodes) /\ Len(chain[p]) \in Nat
           /\ queuePc[p] # "idle" => Len(chain[p]) >= 1
  <1>1. chain[p] \in Seq(Nodes)
    BY RunIsSeq DEF queue!TypeOK
  <1>2. queuePc[p] # "idle" => chain[p] # <<>>
    BY DEF queue!TypeOK
  <1> QED
    BY <1>1, <1>2

\* What Chain(p) does.
LEMMA ChainIs ==
    ASSUME queue!TypeOK, NEW p \in Producers, queue!Chain(p)
    PROVE  \E s \in Seq(free) :
              /\ Len(s) \in 1 .. MaxRun
              /\ \A i, j \in DOMAIN s : s[i] = s[j] => i = j
              /\ chain' = [chain EXCEPT ![p] = s]
              /\ free' = free \ {s[i] : i \in DOMAIN s}
              /\ next' \in [Nodes -> queue!Pointers]
              /\ \A n \in Nodes : (\A i \in DOMAIN s : s[i] # n) => next'[n] = next[n]
              /\ \A i \in DOMAIN s : next'[s[i]] = IF i = Len(s) THEN Null ELSE s[i + 1]
  <1>1. PICK s \in queue!Runs :
            /\ free' = free \ queue!ToSet(s) /\ chain' = [chain EXCEPT ![p] = s]
            /\ next' = [n \in Nodes |->
                          IF \E i \in 1 .. Len(s) : s[i] = n
                          THEN LET i == CHOOSE j \in 1 .. Len(s) : s[j] = n
                               IN  IF i = Len(s) THEN Null ELSE s[i + 1]
                          ELSE next[n]]
    BY DEF queue!Chain
  <1>2. s \in Seq(free) /\ Len(s) <= MaxRun /\ s # <<>>
    BY RunIsSeq DEF queue!Runs
  <1>3. \A i, j \in DOMAIN s : s[i] = s[j] => i = j
    BY DEF queue!Runs, queue!IsInjective
  <1>4. queue!ToSet(s) = {s[i] : i \in DOMAIN s}
    BY DEF queue!ToSet
  <1>5. DOMAIN s = 1 .. Len(s) /\ free \subseteq Nodes /\ \A i \in 1 .. Len(s) : s[i] \in Nodes
    BY <1>2 DEF queue!TypeOK
  <1>6. \A n \in Nodes : (\A i \in DOMAIN s : s[i] # n) => next'[n] = next[n]
    BY <1>1, <1>5
  <1>7. ASSUME NEW i \in 1 .. Len(s)
        PROVE  next'[s[i]] = IF i = Len(s) THEN Null ELSE s[i + 1]
    <2>1. (CHOOSE j \in 1 .. Len(s) : s[j] = s[i]) = i
      BY <1>3, <1>5
    <2> QED
      BY <1>1, <1>5, <2>1
  <1>8. next' \in [Nodes -> queue!Pointers]
    <2>1. ASSUME NEW n \in Nodes PROVE next'[n] \in queue!Pointers
      <3>1. CASE \A i \in DOMAIN s : s[i] # n
        BY <1>6, <3>1 DEF queue!TypeOK
      <3>2. CASE \E i \in DOMAIN s : s[i] = n
        <4>1. PICK i \in 1 .. Len(s) : s[i] = n
          BY <1>5, <3>2
        <4>2. next'[n] = IF i = Len(s) THEN Null ELSE s[i + 1]
          BY <1>7, <4>1
        <4>3. Len(s) \in Nat /\ (i # Len(s) => i + 1 \in 1 .. Len(s))
          BY <1>2
        <4> QED
          BY <1>5, <4>2, <4>3 DEF queue!Pointers
      <3> QED
        BY <3>1, <3>2
    <2> QED
      BY <1>1, <2>1
  <1>9. Len(s) \in 1 .. MaxRun
    BY <1>2, QueueConstants
  <1>10. free' = free \ {s[i] : i \in DOMAIN s}
    BY <1>1, <1>4
  <1> s \in Seq(free)
    BY <1>2
  <1> WITNESS s \in Seq(free)
  <1> QED
    BY <1>1, <1>3, <1>5, <1>6, <1>7, <1>8, <1>9, <1>10

\* Elements of a sequence are at the positions up to its length.
LEMMA QueueShape ==
    ASSUME queue!TypeOK
    PROVE  /\ items \in Seq(Nodes) /\ Len(items) \in Nat /\ DOMAIN items = 1 .. Len(items)
           /\ \A i \in 1 .. Len(items) : items[i] \in Nodes /\ items[i] # Null
           /\ next \in [Nodes -> Nodes \cup {Null}]
           /\ chain \in [Producers -> queue!BoundedSeq(Nodes, MaxRun)]
           /\ queuePc \in [Producers -> {"idle", "swap", "link"}]
           /\ queueOld \in [Producers -> Nodes \cup {Null}]
           /\ free \subseteq Nodes
  BY QueueConstants DEF queue!TypeOK, queue!Pointers

\* What pop_batch() has walked over is part of what it cut off.
LEMMA Walked ==
    ASSUME queue!EndsExact, queue!ConsumerKnows, queue!TypeOK, at = "walk"
    PROVE  Len(taken) \in 1 .. cut /\ cut \in 1 .. Len(items)
  <1>1. cut > 0 /\ Len(taken) \in 1 .. cut
    BY DEF queue!ConsumerKnows
  <1>2. cut \in 0 .. Len(items)
    BY DEF queue!EndsExact
  <1> QED
    BY <1>1, <1>2, QueueShape

\* push_batch() links the items of its run, which nobody else can reach.
LEMMA ChainKeeps ==
    ASSUME queue!IInv, NEW p \in Producers, queue!Chain(p)
    PROVE  queue!IInv'
  <1>0. /\ queue!TypeOK /\ queue!OnePlace /\ queue!ChainLinked /\ queue!ItemsLinked
        /\ queue!EndsExact /\ queue!ConsumerKnows
    BY DEF queue!IInv
  <1>1. PICK s \in Seq(free) :
              /\ Len(s) \in 1 .. MaxRun
              /\ \A i, j \in DOMAIN s : s[i] = s[j] => i = j
              /\ chain' = [chain EXCEPT ![p] = s]
              /\ free' = free \ {s[i] : i \in DOMAIN s}
              /\ next' \in [Nodes -> queue!Pointers]
              /\ \A n \in Nodes : (\A i \in DOMAIN s : s[i] # n) => next'[n] = next[n]
              /\ \A i \in DOMAIN s : next'[s[i]] = IF i = Len(s) THEN Null ELSE s[i + 1]
    BY <1>0, ChainIs
  <1>2. /\ queuePc[p] = "idle" /\ queuePc' = [queuePc EXCEPT ![p] = "swap"]
        /\ UNCHANGED <<front, back, queueOld, at, first, cursor, last, taken, out, items, cut>>
    BY DEF queue!Chain, queue!consumer, queue!history
  <1>3. DOMAIN s = 1 .. Len(s) /\ \A i \in 1 .. Len(s) : s[i] \in free
    BY <1>1
  <1>4. \A n \in Nodes \ free : next'[n] = next[n] /\ n \notin free'
    BY <1>1, <1>3
  <1>5. \A i \in 1 .. Len(items) : items[i] \notin free /\ next'[items[i]] = next[items[i]]
    BY <1>0, <1>4, QueueShape DEF queue!OnePlace
  <1>6. \A q \in Producers \ {p} : chain'[q] = chain[q] /\ queuePc'[q] = queuePc[q]
    BY <1>0, <1>1, <1>2, QueueShape
  <1>7. chain'[p] = s /\ queuePc'[p] = "swap"
    BY <1>0, <1>1, <1>2, QueueShape
  <1>type. queue!TypeOK'
    <2>1. s \in queue!BoundedSeq(Nodes, MaxRun)
      <3>1. s \in Seq(Nodes)
        BY <1>0, <1>1, <1>3, QueueShape
      <3> QED
        BY <1>1, <3>1, RunIsSeq, QueueConstants
    <2>2. chain' \in [Producers -> queue!BoundedSeq(Nodes, MaxRun)]
      BY <1>0, <1>1, <2>1, QueueShape
    <2>3. \A q \in Producers : queuePc'[q] # "idle" => chain'[q] # <<>>
      BY <1>0, <1>1, <1>6, <1>7 DEF queue!TypeOK
    <2>4. queuePc' \in [Producers -> {"idle", "swap", "link"}]
      BY <1>0, <1>2, QueueShape
    <2>5. next' \in [Nodes -> queue!Pointers] /\ free' \subseteq Nodes
      BY <1>0, <1>1, QueueShape
    <2> QED
      BY <1>0, <1>2, <2>2, <2>3, <2>4, <2>5 DEF queue!TypeOK
  <1>place. queue!OnePlace'
    <2>1. \A i \in 1 .. Len(s) : /\ s[i] \in free /\ s[i] \notin free'
                                 /\ \A j \in DOMAIN items : items[j] # s[i]
      BY <1>0, <1>1, <1>3, <1>5, QueueShape
    <2>2. \A q \in Producers \ {p} : queuePc[q] = "swap" =>
              \A j \in DOMAIN chain[q] : chain[q][j] \notin free /\ chain[q][j] \in Nodes
      BY <1>0, Chains DEF queue!OnePlace
    <2>3. \A i \in DOMAIN items' : items'[i] \notin free'
      BY <1>0, <1>2, <1>4, <1>5, QueueShape
    <2>4. ASSUME NEW q \in Producers, queuePc'[q] = "swap", q # p
          PROVE  /\ \A i, j \in DOMAIN chain'[q] : chain'[q][i] = chain'[q][j] => i = j
                 /\ \A i \in DOMAIN chain'[q] :
                      /\ chain'[q][i] \notin free'
                      /\ \A j \in DOMAIN items : items[j] # chain'[q][i]
                      /\ \A r \in Producers \ {q} : queuePc'[r] = "swap" =>
                            \A j \in DOMAIN chain'[r] : chain'[r][j] # chain'[q][i]
      BY <1>0, <1>3, <1>4, <1>6, <1>7, <2>1, <2>2, <2>4 DEF queue!OnePlace
    <2>5. /\ \A i, j \in DOMAIN chain'[p] : chain'[p][i] = chain'[p][j] => i = j
          /\ \A i \in DOMAIN chain'[p] :
                /\ chain'[p][i] \notin free'
                /\ \A j \in DOMAIN items : items[j] # chain'[p][i]
                /\ \A r \in Producers \ {p} : queuePc'[r] = "swap" =>
                      \A j \in DOMAIN chain'[r] : chain'[r][j] # chain'[p][i]
      BY <1>1, <1>3, <1>6, <1>7, <2>1, <2>2
    <2> QED
      BY <1>0, <1>2, <2>3, <2>4, <2>5 DEF queue!OnePlace
  <1>linked. queue!ChainLinked'
    <2>1. ASSUME NEW q \in Producers \ {p}, queuePc[q] = "swap", NEW i \in DOMAIN chain[q]
          PROVE  next'[chain[q][i]] = next[chain[q][i]]
      BY <1>0, <1>4, <2>1, Chains DEF queue!OnePlace
    <2> QED
      BY <1>0, <1>1, <1>6, <1>7, <2>1 DEF queue!ChainLinked
  <1>links. \A q \in Producers, i \in DOMAIN items : queue!LinksAt(q, i)' <=> queue!LinksAt(q, i)
    BY <1>0, <1>2, <1>5, <1>6, <1>7, QueueShape DEF queue!LinksAt
  <1>items. queue!ItemsLinked'
    <2>1. \A q \in Producers : queuePc'[q] = "link" <=> queuePc[q] = "link"
      BY <1>2, <1>6, <1>7
    <2> QED
      BY <1>0, <1>2, <1>5, <1>links, <2>1, QueueShape DEF queue!ItemsLinked, queue!Ends
  <1>ends. queue!EndsExact'
    <2>1. queue!Linking(Null)' = queue!Linking(Null)
      BY <1>2, <1>6, <1>7 DEF queue!Linking
    <2> QED
      BY <1>0, <1>2, <2>1 DEF queue!EndsExact
  <1>knows. queue!ConsumerKnows'
    <2>1. at # "idle" => next'[first] = next[first]
      BY <1>0, <1>5, QueueShape DEF queue!ConsumerKnows
    <2>2. at = "walk" => \A i \in 1 .. Len(taken) - 1 : next'[items[i]] = next[items[i]]
      BY <1>0, <1>5, Walked, QueueShape
    <2> QED
      BY <1>0, <1>2, <2>1, <2>2 DEF queue!ConsumerKnows
  <1> QED
    BY <1>type, <1>place, <1>linked, <1>items, <1>ends, <1>knows DEF queue!IInv

\* The swap of back gives the chain its place behind the other items.
LEMMA SwapBackKeeps ==
    ASSUME queue!IInv, NEW p \in Producers, queue!SwapBack(p)
    PROVE  queue!IInv'
  <1> DEFINE c == chain[p]
  <1>0. /\ queue!TypeOK /\ queue!OnePlace /\ queue!ChainLinked /\ queue!ItemsLinked
        /\ queue!EndsExact /\ queue!ConsumerKnows
    BY DEF queue!IInv
  <1>1. /\ queuePc[p] = "swap" /\ queuePc' = [queuePc EXCEPT ![p] = "link"]
        /\ queueOld' = [queueOld EXCEPT ![p] = back] /\ items' = items \o c
        /\ UNCHANGED <<front, next, free, chain, at, first, cursor, last, taken, out, cut>>
    BY DEF queue!SwapBack, queue!consumer
  <1>2. PICK k \in Nat : k >= 1 /\ k = Len(c) /\ DOMAIN c = 1 .. k
    BY <1>0, <1>1, Chains
  <1>3. PICK m \in Nat : m = Len(items) /\ DOMAIN items = 1 .. m /\ cut \in 0 .. m
    BY <1>0, QueueShape DEF queue!EndsExact
  <1>4. back' = c[k] /\ Head(c) = c[1] /\ c \in Seq(Nodes)
    BY <1>0, <1>1, <1>2, Chains DEF queue!SwapBack, queue!Last
  <1>5. /\ items' \in Seq(Nodes) /\ Len(items') = m + k /\ DOMAIN items' = 1 .. (m + k)
        /\ \A i \in 1 .. m : items'[i] = items[i]
        /\ \A i \in 1 .. (m + k) : i > m => i - m \in 1 .. k /\ items'[i] = c[i - m]
    <2>1. /\ items' \in Seq(Nodes) /\ Len(items') = m + k
          /\ \A i \in 1 .. Len(items') : items'[i] = IF i <= m THEN items[i] ELSE c[i - m]
      BY <1>0, <1>1, <1>2, <1>3, <1>4, Joined, QueueShape
    <2> QED
      BY <1>2, <1>3, <2>1
  <1>6. \A q \in Producers \ {p} : queueOld'[q] = queueOld[q] /\ queuePc'[q] = queuePc[q]
    BY <1>0, <1>1, QueueShape
  <1>7. queueOld'[p] = back /\ queuePc'[p] = "link"
    BY <1>0, <1>1, QueueShape
  <1>8. \A i \in 1 .. m, j \in 1 .. k : items[i] # c[j]
    BY <1>0, <1>1, <1>2, <1>3 DEF queue!OnePlace
  <1>type. queue!TypeOK'
    <2>1. back \in queue!Pointers /\ back' \in queue!Pointers
      BY <1>0, <1>2, <1>4 DEF queue!TypeOK, queue!Pointers
    <2>2. /\ queuePc' \in [Producers -> {"idle", "swap", "link"}]
          /\ queueOld' \in [Producers -> queue!Pointers]
      BY <1>0, <1>1, <2>1 DEF queue!TypeOK
    <2>3. \A q \in Producers : queuePc'[q] # "idle" => chain'[q] # <<>>
      BY <1>0, <1>1, <1>6, <1>7 DEF queue!TypeOK
    <2> QED
      BY <1>0, <1>1, <1>5, <2>1, <2>2, <2>3 DEF queue!TypeOK
  <1>place. queue!OnePlace'
    <2>1. \A i, j \in 1 .. (m + k) : items'[i] = items'[j] => i = j
      <3>1. \A i, j \in 1 .. m : items[i] = items[j] => i = j
        BY <1>0, <1>3 DEF queue!OnePlace
      <3>2. \A i, j \in 1 .. k : c[i] = c[j] => i = j
        BY <1>0, <1>1, <1>2 DEF queue!OnePlace
      <3> QED
        BY <1>2, <1>3, <1>5, <1>8, <3>1, <3>2, SMTT(30)
    <2>2. \A i \in 1 .. (m + k) : items'[i] \notin free
      <3>1. \A i \in 1 .. m : items[i] \notin free
        BY <1>0, <1>3 DEF queue!OnePlace
      <3>2. \A i \in 1 .. k : c[i] \notin free
        BY <1>0, <1>1, <1>2 DEF queue!OnePlace
      <3> QED
        BY <1>2, <1>3, <1>5, <3>1, <3>2
    <2>3. ASSUME NEW q \in Producers \ {p}, queuePc[q] = "swap", NEW i \in DOMAIN chain[q]
          PROVE  \A j \in 1 .. (m + k) : items'[j] # chain[q][i]
      <3>1. \A j \in 1 .. m : items[j] # chain[q][i]
        BY <1>0, <1>3, <2>3 DEF queue!OnePlace
      <3>2. \A j \in 1 .. k : c[j] # chain[q][i]
        BY <1>0, <1>1, <1>2, <2>3 DEF queue!OnePlace
      <3> QED
        BY <1>2, <1>3, <1>5, <3>1, <3>2
    <2> QED
      BY <1>0, <1>1, <1>5, <1>6, <1>7, <2>1, <2>2, <2>3, SMTT(30) DEF queue!OnePlace
  <1>linked. queue!ChainLinked'
    BY <1>0, <1>1, <1>6, <1>7 DEF queue!ChainLinked
  <1>last. m # cut => back = items[m] /\ next[items[m]] = Null /\ m \in 1 .. m
    BY <1>0, <1>3 DEF queue!EndsExact, queue!ItemsLinked, queue!Ends
  <1>links. \A q \in Producers \ {p}, i \in 1 .. m : queue!LinksAt(q, i) => queue!LinksAt(q, i)'
    BY <1>1, <1>3, <1>5, <1>6 DEF queue!LinksAt
  <1>mine. queue!LinksAt(p, m + 1)'
    <2>1. items'[m + 1] = c[1]
      BY <1>2, <1>3, <1>5
    <2>2. m = cut => back = Null
      BY <1>0, <1>3 DEF queue!EndsExact
    <2>3. m # cut => m + 1 > 1 /\ m + 1 # cut + 1 /\ items'[m] = items[m]
      BY <1>3, <1>5
    <2> QED
      BY <1>1, <1>3, <1>4, <1>7, <1>last, <2>1, <2>2, <2>3 DEF queue!LinksAt
  <1>items. queue!ItemsLinked'
    <2>1. ASSUME NEW i \in 1 .. (m + k)
          PROVE  IF i \in queue!Ends' THEN next[items'[i]] = Null
                 ELSE \/ next[items'[i]] = items'[i + 1]
                      \/ next[items'[i]] = Null /\ \E q \in Producers : queue!LinksAt(q, i + 1)'
      <3>0. queue!Ends' = {cut, m + k}
        BY <1>1, <1>5 DEF queue!Ends
      <3>1. CASE i = cut
        <4>1. i \in 1 .. m
          BY <1>3, <3>1
        <4> QED
          BY <1>0, <1>3, <1>5, <3>0, <3>1, <4>1 DEF queue!ItemsLinked, queue!Ends
      <3>2. CASE i < m /\ i # cut
        <4>1. \/ next[items[i]] = items[i + 1]
              \/ next[items[i]] = Null /\ \E q \in Producers : queue!LinksAt(q, i + 1)
          BY <1>0, <1>3, <3>2 DEF queue!ItemsLinked, queue!Ends
        <4>2. i \in 1 .. m /\ i + 1 \in 1 .. m /\ i # m + k
          BY <1>2, <1>3, <3>2
        <4>3. \A q \in Producers : queue!LinksAt(q, i + 1) => q # p
          BY <1>1 DEF queue!LinksAt
        <4> QED
          BY <1>5, <1>links, <3>0, <3>2, <4>1, <4>2, <4>3
      <3>3. CASE i = m /\ i # cut
        BY <1>2, <1>3, <1>5, <1>last, <1>mine, <3>0, <3>3
      <3>4. CASE i > m
        <4>1. next[c[i - m]] = IF i - m = k THEN Null ELSE c[i - m + 1]
          BY <1>0, <1>1, <1>2, <1>5, <3>4 DEF queue!ChainLinked
        <4>2. items'[i] = c[i - m] /\ (i # m + k => items'[i + 1] = c[i - m + 1])
          <5>1. i # m + k => i + 1 \in 1 .. (m + k) /\ i + 1 > m /\ (i + 1) - m = i - m + 1
            BY <1>2, <1>3, <3>4
          <5> QED
            BY <1>5, <3>4, <5>1
        <4>3. i \in queue!Ends' <=> i - m = k
          BY <1>2, <1>3, <3>0, <3>4
        <4>4. i - m = k <=> i = m + k
          BY <1>2, <1>3
        <4> QED
          BY <4>1, <4>2, <4>3, <4>4
      <3> QED
        BY <1>3, <3>1, <3>2, <3>3, <3>4
    <2>2. ASSUME NEW q \in Producers, queuePc'[q] = "link"
          PROVE  \E i \in 1 .. (m + k) : queue!LinksAt(q, i)'
      <3>1. CASE q = p
        <4>1. m + 1 \in 1 .. (m + k)
          BY <1>2, <1>3
        <4> QED
          BY <1>mine, <3>1, <4>1
      <3>2. CASE q # p
        <4>1. PICK i \in 1 .. m : queue!LinksAt(q, i)
          BY <1>0, <1>3, <1>6, <2>2, <3>2 DEF queue!ItemsLinked
        <4>2. i \in 1 .. (m + k)
          BY <1>2, <1>3
        <4> QED
          BY <1>links, <3>2, <4>1, <4>2
      <3> QED
        BY <3>1, <3>2
    <2>3. ASSUME NEW q \in Producers \ {p}, queuePc[q] = "link" PROVE queueOld[q] # back
      <3>1. PICK i \in 1 .. m : queue!LinksAt(q, i)
        BY <1>0, <1>3, <2>3 DEF queue!ItemsLinked
      <3>2. i = cut + 1 => m # cut /\ queueOld[q] = Null
        BY <1>3, <3>1 DEF queue!LinksAt
      <3>3. i # cut + 1 => i - 1 \in 1 .. m /\ i - 1 # m /\ queueOld[q] = items[i - 1]
        BY <1>3, <3>1 DEF queue!LinksAt
      <3>4. m # cut => back = items[m] /\ back # Null /\ m \in 1 .. m
        BY <1>0, <1>3, <1>last, QueueShape
      <3>5. m = cut => back = Null
        BY <1>0, <1>3 DEF queue!EndsExact
      <3>6. \A a, b \in 1 .. m : (items[a] = items[b] => a = b) /\ items[a] # Null
        BY <1>0, <1>3, QueueShape DEF queue!OnePlace
      <3> QED
        BY <3>2, <3>3, <3>4, <3>5, <3>6
    <2>4. \A q, r \in Producers : queuePc'[q] = "link" /\ queuePc'[r] = "link"
                                     /\ queueOld'[q] = queueOld'[r] => q = r
      BY <1>0, <1>6, <1>7, <2>3 DEF queue!ItemsLinked
    <2> QED
      BY <1>1, <1>5, <2>1, <2>2, <2>4 DEF queue!ItemsLinked
  <1>ends. queue!EndsExact'
    <2>1. cut' \in 0 .. Len(items') /\ Len(items') # cut'
      BY <1>1, <1>2, <1>3, <1>5
    <2>2. back' = items'[Len(items')]
      <3>1. m + k \in 1 .. (m + k) /\ m + k > m /\ (m + k) - m = k
        BY <1>2, <1>3
      <3> QED
        BY <1>4, <1>5, <3>1
    <2>3. m # cut => queue!Linking(Null)' = queue!Linking(Null)
      <3>1. m # cut => back # Null
        BY <1>0, <1>3, <1>last, QueueShape
      <3> QED
        BY <1>1, <1>6, <1>7, <3>1 DEF queue!Linking
    <2>4. m = cut => front = Null /\ p \in queue!Linking(Null)' /\ at \in {"idle", "walk"}
      <3>1. m = cut => at \in {"idle", "walk"}
        BY <1>0, <1>3 DEF queue!ConsumerKnows
      <3> QED
        BY <1>0, <1>3, <1>7, <3>1 DEF queue!EndsExact, queue!Linking
    <2>5. m # cut => cut + 1 \in 1 .. m
      BY <1>3
    <2> QED
      BY <1>0, <1>1, <1>3, <1>5, <2>1, <2>2, <2>3, <2>4, <2>5 DEF queue!EndsExact
  <1>knows. queue!ConsumerKnows'
    <2>1. at # "idle" => 1 \in 1 .. m
      BY <1>0, <1>3 DEF queue!ConsumerKnows
    <2>2. at = "walk" => /\ Len(taken) \in 1 .. cut /\ cut \in 1 .. m
                         /\ taken = SubSeq(items, 1, Len(taken))
      BY <1>0, <1>3, Walked DEF queue!ConsumerKnows
    <2>3. at = "walk" => SubSeq(items', 1, Len(taken)) = SubSeq(items, 1, Len(taken))
      <3>1. at = "walk" => Len(taken) \in Nat /\ Len(taken) <= m
        BY <1>3, <2>2
      <3> QED
        BY <1>3, <1>5, <3>1
    <2>4. at = "walk" => \A i \in 1 .. Len(taken) : items'[i] = items[i]
      BY <1>3, <1>5, <2>2
    <2>5. at # "idle" => Len(items') > 0 /\ first = items'[1]
      BY <1>0, <1>2, <1>3, <1>5, <2>1 DEF queue!ConsumerKnows
    <2>6. at = "walk" => last = items'[cut] /\ cursor = items'[Len(taken)]
      BY <1>0, <1>3, <1>5, <2>2 DEF queue!ConsumerKnows
    <2>7. at = "walk" => \A i \in 1 .. Len(taken) - 1 : next[items'[i]] # Null
      <3>1. at = "walk" => \A i \in 1 .. Len(taken) - 1 : i \in 1 .. Len(taken)
        BY <1>3, <2>2
      <3> QED
        BY <1>0, <2>4, <3>1 DEF queue!ConsumerKnows
    <2> QED
      BY <1>0, <1>1, <2>2, <2>3, <2>5, <2>6, <2>7 DEF queue!ConsumerKnows
  <1> QED
    BY <1>type, <1>place, <1>linked, <1>items, <1>ends, <1>knows DEF queue!IInv

\* A producer links its chain to the item before it, where it has no other link.
LEMMA LinkInKeeps ==
    ASSUME queue!IInv, NEW p \in Producers, queue!LinkIn(p)
    PROVE  queue!IInv'
  <1>0. /\ queue!TypeOK /\ queue!OnePlace /\ queue!ChainLinked /\ queue!ItemsLinked
        /\ queue!EndsExact /\ queue!ConsumerKnows
    BY DEF queue!IInv
  <1>1. /\ queuePc[p] = "link" /\ queuePc' = [queuePc EXCEPT ![p] = "idle"]
        /\ queueOld' = [queueOld EXCEPT ![p] = Null] /\ chain' = [chain EXCEPT ![p] = <<>>]
        /\ UNCHANGED <<back, free, at, first, cursor, last, taken, out, items, cut>>
    BY DEF queue!LinkIn, queue!consumer, queue!history
  <1>2. PICK m \in Nat : /\ m = Len(items) /\ DOMAIN items = 1 .. m /\ cut \in 0 .. m
                         /\ \A i \in 1 .. m : items[i] \in Nodes /\ items[i] # Null
                         /\ \A i, j \in 1 .. m : items[i] = items[j] => i = j
    BY <1>0, QueueShape DEF queue!EndsExact, queue!OnePlace
  <1>3. PICK i \in 1 .. m : queue!LinksAt(p, i)
    BY <1>0, <1>1, <1>2 DEF queue!ItemsLinked
  <1>4. \A q \in Producers \ {p} : /\ queueOld'[q] = queueOld[q] /\ queuePc'[q] = queuePc[q]
                                   /\ chain'[q] = chain[q]
    BY <1>0, <1>1, QueueShape
  <1>5. queuePc'[p] = "idle"
    BY <1>0, <1>1, QueueShape
  <1>6. /\ i = cut + 1 => queueOld[p] = Null
        /\ i # cut + 1 => i - 1 \in 1 .. m /\ queueOld[p] = items[i - 1] /\ next[items[i - 1]] = Null
    BY <1>2, <1>3 DEF queue!LinksAt
  <1>7. Head(chain[p]) = items[i]
    BY <1>3 DEF queue!LinksAt
  <1>8. /\ i = cut + 1 => front' = items[i] /\ next' = next
        /\ i # cut + 1 => next' = [next EXCEPT ![items[i - 1]] = items[i]] /\ front' = front
    BY <1>2, <1>6, <1>7 DEF queue!LinkIn
  <1>9. /\ next' \in [Nodes -> Nodes \cup {Null}]
        /\ \A n \in Nodes : next'[n] # next[n] =>
              i # cut + 1 /\ n = items[i - 1] /\ next[n] = Null /\ next'[n] = items[i]
    BY <1>0, <1>2, <1>6, <1>8, QueueShape
  <1>10. \A j \in 1 .. m : queue!LinksAt(p, j) => j = i
    BY <1>2, <1>7 DEF queue!LinksAt
  <1>type. queue!TypeOK'
    <2>1. chain' \in [Producers -> queue!BoundedSeq(Nodes, MaxRun)]
      <3>1. <<>> \in queue!BoundedSeq(Nodes, MaxRun)
        <4>1. <<>> \in Seq(Nodes) /\ Len(<<>>) = 0
          OBVIOUS
        <4>2. <<>> \in Seq(Nodes) /\ Len(<<>>) <= MaxRun
          BY <4>1, QueueConstants
        <4> QED
          BY <4>2, RunIsSeq
      <3> QED
        BY <1>0, <1>1, <3>1, QueueShape
    <2>2. /\ queuePc' \in [Producers -> {"idle", "swap", "link"}]
          /\ queueOld' \in [Producers -> queue!Pointers]
      BY <1>0, <1>1 DEF queue!TypeOK, queue!Pointers
    <2>3. front' \in queue!Pointers /\ next' \in [Nodes -> queue!Pointers]
      BY <1>0, <1>2, <1>8, <1>9 DEF queue!TypeOK, queue!Pointers
    <2>4. \A q \in Producers : queuePc'[q] # "idle" => chain'[q] # <<>>
      BY <1>0, <1>4, <1>5 DEF queue!TypeOK
    <2> QED
      BY <1>0, <1>1, <2>1, <2>2, <2>3, <2>4 DEF queue!TypeOK
  <1>place. queue!OnePlace'
    BY <1>0, <1>1, <1>4, <1>5 DEF queue!OnePlace
  <1>linked. queue!ChainLinked'
    <2>1. ASSUME NEW q \in Producers, queuePc[q] = "swap", NEW j \in DOMAIN chain[q]
          PROVE  next'[chain[q][j]] = next[chain[q][j]]
      <3>1. chain[q][j] \in Nodes
        BY <1>0, Chains
      <3>2. \A l \in 1 .. m : items[l] # chain[q][j]
        BY <1>0, <1>2, <2>1 DEF queue!OnePlace
      <3> QED
        BY <1>6, <1>9, <3>1, <3>2
    <2> QED
      BY <1>0, <1>1, <1>4, <1>5, <2>1 DEF queue!ChainLinked
  <1>links. \A q \in Producers \ {p}, j \in 1 .. m : queue!LinksAt(q, j) => queue!LinksAt(q, j)'
    <2> SUFFICES ASSUME NEW q \in Producers \ {p}, NEW j \in 1 .. m, queue!LinksAt(q, j)
                 PROVE  queue!LinksAt(q, j)'
      OBVIOUS
    <2>1. queuePc[q] = "link" /\ queueOld[q] # queueOld[p]
      BY <1>0, <1>1 DEF queue!LinksAt, queue!ItemsLinked
    <2>2. j # cut + 1 => j - 1 \in 1 .. m /\ queueOld[q] = items[j - 1]
      BY <1>2 DEF queue!LinksAt
    <2>3. j # cut + 1 => next'[items[j - 1]] = next[items[j - 1]]
      BY <1>2, <1>6, <1>9, <2>1, <2>2
    <2> QED
      BY <1>1, <1>2, <1>4, <2>3 DEF queue!LinksAt
  <1>items. queue!ItemsLinked'
    <2>1. ASSUME NEW j \in 1 .. m
          PROVE  IF j \in queue!Ends' THEN next'[items[j]] = Null
                 ELSE \/ next'[items[j]] = items[j + 1]
                      \/ next'[items[j]] = Null /\ \E q \in Producers : queue!LinksAt(q, j + 1)'
      <3>0. queue!Ends' = {cut, m} /\ queue!Ends = {cut, m}
        BY <1>1, <1>2 DEF queue!Ends
      <3>1. CASE i # cut + 1 /\ j = i - 1
        <4>1. next'[items[j]] = items[i] /\ j # cut /\ j # m /\ j + 1 = i
          BY <1>0, <1>2, <1>6, <1>8, <3>1, QueueShape
        <4> QED
          BY <3>0, <4>1
      <3>2. CASE i = cut + 1 \/ j # i - 1
        <4>1. next'[items[j]] = next[items[j]]
          BY <1>2, <1>6, <1>9, <3>2
        <4>2. IF j \in {cut, m} THEN next[items[j]] = Null
              ELSE \/ next[items[j]] = items[j + 1]
                   \/ next[items[j]] = Null /\ \E q \in Producers : queue!LinksAt(q, j + 1)
          BY <1>0, <1>2, <3>0 DEF queue!ItemsLinked
        <4>3. j \notin {cut, m} => j + 1 \in 1 .. m /\ j + 1 # i
          BY <1>2, <3>2
        <4>4. j \notin {cut, m} => \A q \in Producers : (queue!LinksAt(q, j + 1) => queue!LinksAt(q, j + 1)')
          BY <1>10, <1>links, <4>3
        <4> QED
          BY <3>0, <4>1, <4>2, <4>4
      <3> QED
        BY <3>1, <3>2
    <2>2. ASSUME NEW q \in Producers, queuePc'[q] = "link"
          PROVE  \E j \in 1 .. m : queue!LinksAt(q, j)'
      <3>1. q # p /\ queuePc[q] = "link"
        BY <1>4, <1>5, <2>2
      <3>2. PICK j \in 1 .. m : queue!LinksAt(q, j)
        BY <1>0, <1>2, <3>1 DEF queue!ItemsLinked
      <3> QED
        BY <1>links, <3>1, <3>2
    <2>3. \A q, r \in Producers : queuePc'[q] = "link" /\ queuePc'[r] = "link"
                                     /\ queueOld'[q] = queueOld'[r] => q = r
      BY <1>0, <1>4, <1>5 DEF queue!ItemsLinked
    <2> QED
      BY <1>1, <1>2, <2>1, <2>2, <2>3 DEF queue!ItemsLinked
  <1>ends. queue!EndsExact'
    <2>1. CASE i = cut + 1
      <3>1. queue!Linking(Null)' = {}
        <4>1. \A q \in Producers : queuePc[q] = "link" /\ queueOld[q] = Null => q = p
          BY <1>0, <1>1, <1>6, <2>1 DEF queue!ItemsLinked
        <4> QED
          BY <1>4, <1>5, <4>1 DEF queue!Linking
      <3>2. p \in queue!Linking(Null)
        BY <1>1, <1>6, <2>1 DEF queue!Linking
      <3>3. front' = items[cut + 1] /\ m # cut
        BY <1>2, <1>8, <2>1
      <3>4. at \in {"idle", "walk"}
        BY <1>0, <3>2 DEF queue!EndsExact
      <3> QED
        BY <1>0, <1>1, <1>2, <3>1, <3>3, <3>4 DEF queue!EndsExact
    <2>2. CASE i # cut + 1
      <3>1. queue!Linking(Null)' = queue!Linking(Null)
        BY <1>1, <1>2, <1>4, <1>5, <1>6, <2>2 DEF queue!Linking
      <3> QED
        BY <1>0, <1>1, <1>8, <2>2, <3>1 DEF queue!EndsExact
    <2> QED
      BY <2>1, <2>2
  <1>knows. queue!ConsumerKnows'
    <2>1. at # "idle" => first \in Nodes /\ first = items[1] /\ m > 0
      BY <1>0, <1>2 DEF queue!ConsumerKnows
    <2>2. at # "idle" /\ next[first] # Null => next'[first] = next[first]
      BY <1>9, <2>1
    <2>3. at = "cas" => cursor \in {Null, next'[first]}
      BY <1>0, <2>2 DEF queue!ConsumerKnows
    <2>4. at = "restore" => cursor = next'[first]
      BY <1>0, <2>2 DEF queue!ConsumerKnows, queue!TypeOK
    <2>5. at \in {"next", "cas"} => front' = first
      <3>1. at \in {"next", "cas"} => queue!Linking(Null) = {}
        BY <1>0 DEF queue!EndsExact
      <3>2. i = cut + 1 => p \in queue!Linking(Null)
        BY <1>1, <1>6 DEF queue!Linking
      <3> QED
        BY <1>0, <1>8, <3>1, <3>2 DEF queue!ConsumerKnows
    <2>6. at = "walk" => \A j \in 1 .. Len(taken) - 1 : next'[items[j]] # Null
      <3>1. at = "walk" => Len(taken) \in 1 .. cut
        BY <1>0, Walked
      <3>2. at = "walk" => \A j \in 1 .. Len(taken) - 1 : j \in 1 .. m
        BY <1>2, <3>1
      <3>3. \A j \in 1 .. m : next[items[j]] # Null => next'[items[j]] # Null
        BY <1>2, <1>9
      <3> QED
        BY <1>0, <3>2, <3>3 DEF queue!ConsumerKnows
    <2> QED
      BY <1>0, <1>1, <2>3, <2>4, <2>5, <2>6 DEF queue!ConsumerKnows
  <1> QED
    BY <1>type, <1>place, <1>linked, <1>items, <1>ends, <1>knows DEF queue!IInv

\* The consumer's call returns the first n items: nobody is to write into them.
LEMMA ReturnKeeps ==
    ASSUME queue!IInv, NEW n \in 0 .. Len(items), NEW run, run = SubSeq(items, 1, n),
           queue!Return(run), cut \in {0, n}, UNCHANGED <<next, queuePc, chain, queueOld>>,
           \A p \in Producers, i \in DOMAIN items :
               queue!LinksAt(p, i) => i > n + 1 \/ (i = n + 1 /\ cut = n),
           IF n = Len(items) THEN back' = Null /\ front' = Null
           ELSE back' = back /\ \/ front' = items[n + 1] /\ queue!Linking(Null) = {}
                                \/ front' = Null /\ queue!Linking(Null) # {}
    PROVE  queue!IInv'
  <1>0. /\ queue!TypeOK /\ queue!OnePlace /\ queue!ChainLinked /\ queue!ItemsLinked
        /\ queue!EndsExact /\ queue!ConsumerKnows
    BY DEF queue!IInv
  <1>1. /\ out' = run /\ free' = free \cup queue!ToSet(run) /\ at' = "idle" /\ cut' = 0
        /\ first' = Null /\ cursor' = Null /\ last' = Null /\ taken' = <<>>
    BY DEF queue!Return
  <1>2. PICK m \in Nat : /\ m = Len(items) /\ DOMAIN items = 1 .. m /\ n \in 0 .. m
                         /\ \A i \in 1 .. m : items[i] \in Nodes /\ items[i] # Null
                         /\ \A i, j \in 1 .. m : items[i] = items[j] => i = j
                         /\ \A i \in 1 .. m : items[i] \notin free
    BY <1>0, QueueShape DEF queue!OnePlace
  <1>3. run \in Seq(Nodes) /\ Len(run) = n /\ \A i \in 1 .. n : run[i] = items[i]
    BY <1>0, <1>2, QueueShape
  <1>4. queue!ToSet(run) = {items[i] : i \in 1 .. n}
    <2>1. DOMAIN run = 1 .. n
      BY <1>2, <1>3
    <2> QED
      BY <1>3, <2>1 DEF queue!ToSet
  <1>5. PICK l \in Nat : l = m - n
    BY <1>2
  <1>6. /\ items' \in Seq(Nodes) /\ Len(items') = l /\ DOMAIN items' = 1 .. l
        /\ \A i \in 1 .. l : i + n \in 1 .. m /\ items'[i] = items[i + n]
    <2>1. items' = SubSeq(items, n + 1, Len(items))
      BY <1>3 DEF queue!Return
    <2>2. /\ items' \in Seq(Nodes) /\ Len(items') = Len(items) - n
          /\ \A i \in 1 .. Len(items') : items'[i] = items[i + n]
      BY <1>0, <2>1, Rest, QueueShape
    <2> QED
      BY <1>2, <1>5, <2>2
  <1>type. queue!TypeOK'
    <2>1. queue!ToSet(run) \subseteq Nodes
      BY <1>2, <1>4
    <2>2. queue!ToSet(taken') = {}
      BY <1>1 DEF queue!ToSet
    <2>3. front' \in queue!Pointers /\ back' \in queue!Pointers
      BY <1>0, <1>2 DEF queue!TypeOK, queue!Pointers
    <2> QED
      BY <1>0, <1>1, <1>6, <2>1, <2>2, <2>3 DEF queue!TypeOK, queue!Pointers
  <1>place. queue!OnePlace'
    <2>1. \A i, j \in 1 .. l : items'[i] = items'[j] => i = j
      BY <1>2, <1>6
    <2>2. \A i \in 1 .. l : items'[i] \notin free'
      <3>1. \A i \in 1 .. l, j \in 1 .. n : i + n \in 1 .. m /\ j \in 1 .. m /\ i + n # j
        BY <1>2, <1>6
      <3>2. \A i \in 1 .. l : items'[i] \notin free /\ \A j \in 1 .. n : items'[i] # items[j]
        BY <1>2, <1>6, <3>1, SMTT(30)
      <3> QED
        BY <1>1, <1>4, <3>2
    <2>3. ASSUME NEW p \in Producers, queuePc[p] = "swap", NEW i \in DOMAIN chain[p]
          PROVE  chain[p][i] \notin free' /\ \A j \in 1 .. l : items'[j] # chain[p][i]
      <3>1. chain[p][i] \notin free /\ \A j \in 1 .. m : items[j] # chain[p][i]
        BY <1>0, <1>2, <2>3 DEF queue!OnePlace
      <3>2. \A j \in 1 .. n : j \in 1 .. m
        BY <1>2
      <3> QED
        BY <1>1, <1>4, <1>6, <3>1, <3>2
    <2> QED
      BY <1>0, <1>6, <2>1, <2>2, <2>3 DEF queue!OnePlace
  <1>linked. queue!ChainLinked'
    BY <1>0 DEF queue!ChainLinked
  <1>links. ASSUME NEW p \in Producers, NEW i \in 1 .. m, queue!LinksAt(p, i)
            PROVE  i - n \in 1 .. l /\ queue!LinksAt(p, i - n)'
    <2>1. i > n + 1 \/ (i = n + 1 /\ cut = n)
      BY <1>2, <1>links
    <2>2. i - n \in 1 .. l /\ items'[i - n] = items[i]
      BY <1>2, <1>5, <1>6, <2>1
    <2>3. CASE i = n + 1 /\ cut = n
      BY <1>1, <1>2, <1>links, <2>2, <2>3 DEF queue!LinksAt
    <2>4. CASE i > n + 1
      <3>1. i # cut + 1 /\ i - n > 1 /\ i - n # 0 + 1
        BY <1>2, <2>4
      <3>2. queueOld[p] = items[i - 1] /\ next[items[i - 1]] = Null
        BY <1>links, <3>1 DEF queue!LinksAt
      <3>3. items'[i - n - 1] = items[i - 1]
        BY <1>2, <1>5, <1>6, <2>4
      <3> QED
        BY <1>1, <1>links, <2>2, <3>1, <3>2, <3>3 DEF queue!LinksAt
    <2> QED
      BY <2>1, <2>2, <2>3, <2>4
  <1>items. queue!ItemsLinked'
    <2>1. ASSUME NEW i \in 1 .. l
          PROVE  IF i \in queue!Ends' THEN next[items'[i]] = Null
                 ELSE \/ next[items'[i]] = items'[i + 1]
                      \/ next[items'[i]] = Null /\ \E q \in Producers : queue!LinksAt(q, i + 1)'
      <3>0. queue!Ends' = {0, l} /\ queue!Ends = {cut, m} /\ i + n \in 1 .. m /\ i # 0
        BY <1>1, <1>2, <1>6 DEF queue!Ends
      <3>1. CASE i = l
        <4>1. i + n = m
          BY <1>2, <1>5, <3>1
        <4> QED
          BY <1>0, <1>2, <1>6, <3>0, <3>1, <4>1 DEF queue!ItemsLinked
      <3>2. CASE i # l
        <4>1. i + n \notin {cut, m} /\ i + 1 \in 1 .. l /\ (i + n) + 1 \in 1 .. m
              /\ (i + 1) + n = (i + n) + 1 /\ ((i + n) + 1) - n = i + 1
          BY <1>2, <1>5, <3>2
        <4>2. \/ next[items[i + n]] = items[(i + n) + 1]
              \/ next[items[i + n]] = Null /\ \E q \in Producers : queue!LinksAt(q, (i + n) + 1)
          BY <1>0, <1>2, <3>0, <4>1 DEF queue!ItemsLinked
        <4>3. items'[i] = items[i + n] /\ items'[i + 1] = items[(i + n) + 1]
          BY <1>6, <4>1
        <4>4. \A q \in Producers : queue!LinksAt(q, (i + n) + 1) => queue!LinksAt(q, i + 1)'
          BY <1>links, <4>1
        <4> QED
          BY <3>0, <3>2, <4>2, <4>3, <4>4
      <3> QED
        BY <3>1, <3>2
    <2>2. ASSUME NEW q \in Producers, queuePc[q] = "link"
          PROVE  \E i \in 1 .. l : queue!LinksAt(q, i)'
      <3>1. PICK i \in 1 .. m : queue!LinksAt(q, i)
        BY <1>0, <1>2, <2>2 DEF queue!ItemsLinked
      <3> QED
        BY <1>links, <3>1
    <2> QED
      BY <1>0, <1>6, <2>1, <2>2 DEF queue!ItemsLinked
  <1>ends. queue!EndsExact'
    <2>1. queue!Linking(Null)' = queue!Linking(Null)
      BY DEF queue!Linking
    <2>2. CASE l = 0
      <3>1. n = Len(items) /\ back' = Null /\ front' = Null
        BY <1>2, <1>5, <2>2
      <3>2. queue!Linking(Null) = {}
        <4>1. ASSUME NEW q \in Producers, queuePc[q] = "link" PROVE FALSE
          <5>1. PICK i \in 1 .. m : queue!LinksAt(q, i)
            BY <1>0, <1>2, <4>1 DEF queue!ItemsLinked
          <5> QED
            BY <1>links, <2>2, <5>1
        <4> QED
          BY <4>1 DEF queue!Linking
      <3> QED
        BY <1>1, <1>6, <2>1, <2>2, <3>1, <3>2 DEF queue!EndsExact
    <2>3. CASE l # 0
      <3>1. n # Len(items) /\ 1 \in 1 .. l /\ l \in 1 .. l /\ 1 + n = n + 1 /\ l + n = m
        BY <1>2, <1>5, <2>3
      <3>2. back' = items[m]
        <4>1. Len(items) # cut
          BY <1>2, <3>1
        <4> QED
          BY <1>0, <1>2, <3>1, <4>1 DEF queue!EndsExact
      <3>3. items'[1] = items[n + 1] /\ items'[l] = items[m]
        BY <1>6, <3>1
      <3> QED
        BY <1>1, <1>6, <2>1, <2>3, <3>1, <3>2, <3>3 DEF queue!EndsExact
    <2> QED
      BY <2>2, <2>3
  <1>knows. queue!ConsumerKnows'
    BY <1>1 DEF queue!ConsumerKnows
  <1> QED
    BY <1>type, <1>place, <1>linked, <1>items, <1>ends, <1>knows DEF queue!IInv

\* While the consumer has cut off nothing and nobody is to store front, nobody is to link
\* before the second item.
LEMMA NoLinkFirst ==
    ASSUME queue!TypeOK, cut = 0, queue!Linking(Null) = {},
           NEW p \in Producers, NEW i \in DOMAIN items, queue!LinksAt(p, i)
    PROVE  i > 1
  <1>1. i \in Nat /\ i >= 1
    BY QueueShape
  <1>2. i = cut + 1 => p \in queue!Linking(Null)
    BY DEF queue!LinksAt, queue!Linking
  <1> QED
    BY <1>1, <1>2

\* A step of the consumer inside pop() or pop_batch().
LEMMA ContinueKeeps ==
    ASSUME queue!IInv, UNCHANGED <<back, next, free, queuePc, chain, queueOld, items, cut, out>>,
           front' \in queue!Pointers, first' \in queue!Pointers, cursor' \in queue!Pointers,
           last' \in queue!Pointers, queue!ToSet(taken') \subseteq Nodes, first' # Null,
           at' \in {"next", "cas", "clear", "spin", "restore", "back", "walk"},
           at' \in {"restore", "walk"} => cursor' # Null, at' = "walk" => last' # Null,
           queue!EndsExact', queue!ConsumerKnows'
    PROVE  queue!IInv'
  <1>0. /\ queue!TypeOK /\ queue!OnePlace /\ queue!ChainLinked /\ queue!ItemsLinked
    BY DEF queue!IInv
  <1>1. queue!TypeOK'
    BY <1>0 DEF queue!TypeOK
  <1>2. queue!OnePlace'
    BY <1>0 DEF queue!OnePlace
  <1>3. queue!ChainLinked'
    BY <1>0 DEF queue!ChainLinked
  <1>4. queue!ItemsLinked'
    <2>1. \A p \in Producers, i \in DOMAIN items : queue!LinksAt(p, i)' <=> queue!LinksAt(p, i)
      BY DEF queue!LinksAt
    <2>2. \A p \in Producers : \A i : queue!LinksAt(p, i)' <=> queue!LinksAt(p, i)
      BY DEF queue!LinksAt
    <2> QED
      BY <1>0, <2>2 DEF queue!ItemsLinked, queue!Ends
  <1> QED
    BY <1>1, <1>2, <1>3, <1>4 DEF queue!IInv

\* A load of pop(), or a compare-exchange that fails.
LEMMA PopLoads ==
    ASSUME queue!IInv,
           \/ queue!PopFront /\ front # Null
           \/ queue!PopNext
           \/ queue!PopCas /\ cursor = Null
           \/ queue!PopCasFails
           \/ queue!PopClear /\ back # first
           \/ queue!PopSpin
           \/ queue!BatchFront /\ front # Null
    PROVE  queue!IInv'
  <1>0. /\ queue!TypeOK /\ queue!OnePlace /\ queue!ChainLinked /\ queue!ItemsLinked
        /\ queue!EndsExact /\ queue!ConsumerKnows
    BY DEF queue!IInv
  <1> USE DEF queue!Continue, queue!producer, queue!history
  <1>1. /\ Len(items) \in Nat /\ cut \in Nat /\ (Len(items) > 0 => items[1] \in Nodes /\ items[1] # Null)
        /\ next \in [Nodes -> queue!Pointers] /\ Null \in queue!Pointers
        /\ front \in queue!Pointers /\ first \in queue!Pointers /\ cursor \in queue!Pointers
        /\ last \in queue!Pointers /\ queue!ToSet(taken) \subseteq Nodes
        /\ at # "idle" => first \in Nodes /\ first # Null
    BY <1>0, QueueShape DEF queue!EndsExact, queue!TypeOK, queue!Pointers
  <1>2. at # "walk" => cut = 0
    BY <1>0, <1>1 DEF queue!ConsumerKnows
  <1>3. UNCHANGED <<back, next, free, queuePc, chain, queueOld, items, cut, out>>
    BY DEF queue!PopFront, queue!PopNext, queue!PopCas, queue!PopCasFails, queue!PopClear,
           queue!PopSpin, queue!BatchFront
  <1>4. queue!Linking(Null)' = queue!Linking(Null)
    BY <1>3 DEF queue!Linking
  <1>5. at = "idle" /\ front # Null => /\ front = items[cut + 1] /\ cut + 1 = 1 /\ cut = 0
                                      /\ Len(items) # cut /\ Len(items) > 0
                                      /\ queue!Linking(Null) = {}
    <2>1. at = "idle" /\ front # Null => /\ front = items[cut + 1] /\ Len(items) # cut
                                        /\ queue!Linking(Null) = {}
      BY <1>0 DEF queue!EndsExact
    <2> QED
      BY <1>1, <1>2, <2>1
  <1>front. CASE queue!PopFront /\ front # Null
    <2>1. at = "idle" /\ at' = "next" /\ first' = front /\ UNCHANGED <<front, cursor, last, taken>>
      BY <1>front DEF queue!PopFront
    <2>2. queue!EndsExact'
      BY <1>0, <1>3, <1>4, <1>5, <1>front, <2>1 DEF queue!EndsExact
    <2>3. queue!ConsumerKnows'
      BY <1>1, <1>3, <1>5, <1>front, <2>1 DEF queue!ConsumerKnows
    <2> QED
      BY <1>1, <1>3, <1>front, <2>1, <2>2, <2>3, ContinueKeeps
  <1>next. CASE queue!PopNext
    <2>1. at = "next" /\ at' = "cas" /\ cursor' = next[first] /\ UNCHANGED <<front, first, last, taken>>
      BY <1>next DEF queue!PopNext
    <2>2. queue!EndsExact'
      BY <1>0, <1>3, <1>4, <2>1 DEF queue!EndsExact
    <2>3. queue!ConsumerKnows'
      BY <1>0, <1>1, <1>2, <1>3, <2>1 DEF queue!ConsumerKnows
    <2> QED
      BY <1>1, <1>3, <2>1, <2>2, <2>3, ContinueKeeps
  <1>cas. CASE queue!PopCas /\ cursor = Null
    <2>1. at = "cas" /\ at' = "clear" /\ front' = Null /\ UNCHANGED <<first, cursor, last, taken>>
      BY <1>cas DEF queue!PopCas
    <2>2. queue!EndsExact'
      BY <1>0, <1>3, <1>4, <2>1 DEF queue!EndsExact
    <2>3. queue!ConsumerKnows'
      BY <1>0, <1>1, <1>2, <1>3, <2>1 DEF queue!ConsumerKnows
    <2> QED
      BY <1>1, <1>3, <2>1, <2>2, <2>3, ContinueKeeps
  <1>fails. CASE queue!PopCasFails
    <2>1. at = "cas" /\ at' = "next" /\ UNCHANGED <<front, first, cursor, last, taken>>
      BY <1>fails DEF queue!PopCasFails
    <2>2. queue!EndsExact'
      BY <1>0, <1>3, <1>4, <2>1 DEF queue!EndsExact
    <2>3. queue!ConsumerKnows'
      BY <1>0, <1>1, <1>2, <1>3, <2>1 DEF queue!ConsumerKnows
    <2> QED
      BY <1>1, <1>3, <2>1, <2>2, <2>3, ContinueKeeps
  <1>clear. CASE queue!PopClear /\ back # first
    <2>1. at = "clear" /\ at' = "spin" /\ UNCHANGED <<front, first, cursor, last, taken>>
      BY <1>clear DEF queue!PopClear
    <2>2. queue!EndsExact'
      BY <1>0, <1>3, <1>4, <2>1 DEF queue!EndsExact
    <2>3. queue!ConsumerKnows'
      BY <1>0, <1>1, <1>2, <1>3, <2>1 DEF queue!ConsumerKnows
    <2> QED
      BY <1>1, <1>3, <2>1, <2>2, <2>3, ContinueKeeps
  <1>spin. CASE queue!PopSpin
    <2>1. /\ at = "spin" /\ at' = "restore" /\ next[first] # Null /\ cursor' = next[first]
          /\ UNCHANGED <<front, first, last, taken>>
      BY <1>spin DEF queue!PopSpin
    <2>2. queue!EndsExact'
      BY <1>0, <1>3, <1>4, <2>1 DEF queue!EndsExact
    <2>3. queue!ConsumerKnows'
      BY <1>0, <1>1, <1>2, <1>3, <2>1 DEF queue!ConsumerKnows
    <2> QED
      BY <1>1, <1>3, <2>1, <2>2, <2>3, ContinueKeeps
  <1>batch. CASE queue!BatchFront /\ front # Null
    <2>1. /\ at = "idle" /\ at' = "back" /\ first' = front /\ front' = Null
          /\ UNCHANGED <<cursor, last, taken>>
      BY <1>batch DEF queue!BatchFront
    <2>2. queue!EndsExact'
      BY <1>0, <1>3, <1>4, <1>5, <1>batch, <2>1 DEF queue!EndsExact
    <2>3. queue!ConsumerKnows'
      BY <1>1, <1>3, <1>5, <1>batch, <2>1 DEF queue!ConsumerKnows
    <2> QED
      BY <1>1, <1>3, <1>batch, <2>1, <2>2, <2>3, ContinueKeeps
  <1> QED
    BY <1>front, <1>next, <1>cas, <1>fails, <1>clear, <1>spin, <1>batch

\* pop_batch() cuts off all there is: nobody is to link before it.
LEMMA BatchBackKeeps ==
    ASSUME queue!IInv, queue!BatchBack
    PROVE  queue!IInv'
  <1>0. /\ queue!TypeOK /\ queue!OnePlace /\ queue!ChainLinked /\ queue!ItemsLinked
        /\ queue!EndsExact /\ queue!ConsumerKnows
    BY DEF queue!IInv
  <1>1. /\ at = "back" /\ at' = "walk" /\ last' = back /\ back' = Null /\ cursor' = first
        /\ taken' = <<first>> /\ cut' = Len(items)
        /\ UNCHANGED <<front, next, free, queuePc, chain, queueOld, first, out, items>>
    BY DEF queue!BatchBack, queue!producer
  <1>2. PICK m \in Nat : m = Len(items) /\ DOMAIN items = 1 .. m
    BY <1>0, QueueShape
  <1>zero. cut = 0 /\ m > 0
    <2>1. m > 0 /\ ~(cut > 0) /\ cut \in 0 .. m
      BY <1>0, <1>1, <1>2 DEF queue!ConsumerKnows, queue!EndsExact
    <2> QED
      BY <1>2, <2>1
  <1>3. back = items[m] /\ front = Null /\ queue!Linking(Null) = {} /\ first = items[1]
    BY <1>0, <1>1, <1>2, <1>zero DEF queue!EndsExact, queue!ConsumerKnows
  <1>4. items[1] \in Nodes /\ items[1] # Null /\ items[m] \in Nodes /\ items[m] # Null
    BY <1>0, <1>2, <1>zero, QueueShape
  <1>type. queue!TypeOK'
    <2>1. queue!ToSet(taken') = {items[1]}
      BY <1>1, <1>3 DEF queue!ToSet
    <2> QED
      BY <1>0, <1>1, <1>3, <1>4, <2>1 DEF queue!TypeOK, queue!Pointers
  <1>links. ASSUME NEW p \in Producers, NEW i \in 1 .. m, queue!LinksAt(p, i)
            PROVE  queue!LinksAt(p, i)'
    <2>1. i > 1
      BY <1>0, <1>2, <1>zero, <1>3, <1>links, NoLinkFirst
    <2>2. i # cut + 1 /\ i # m + 1
      BY <1>2, <1>zero, <2>1
    <2> QED
      BY <1>1, <1>2, <1>zero, <1>links, <2>2 DEF queue!LinksAt
  <1>items. queue!ItemsLinked'
    <2>1. ASSUME NEW i \in 1 .. m
          PROVE  IF i \in queue!Ends' THEN next[items[i]] = Null
                 ELSE \/ next[items[i]] = items[i + 1]
                      \/ next[items[i]] = Null /\ \E p \in Producers : queue!LinksAt(p, i + 1)'
      <3>1. (i \in queue!Ends' <=> i = m) /\ (i \in queue!Ends <=> i = m)
        BY <1>1, <1>2, <1>zero DEF queue!Ends
      <3>2. i # m => i + 1 \in 1 .. m
        BY <1>2, <1>zero
      <3> QED
        BY <1>0, <1>2, <1>zero, <1>links, <3>1, <3>2 DEF queue!ItemsLinked
    <2>2. \A p \in Producers : queuePc[p] = "link" => \E i \in 1 .. m : queue!LinksAt(p, i)'
      BY <1>0, <1>2, <1>zero, <1>links DEF queue!ItemsLinked
    <2> QED
      BY <1>0, <1>1, <1>2, <1>zero, <2>1, <2>2 DEF queue!ItemsLinked
  <1>ends. queue!EndsExact'
    <2>1. queue!Linking(Null)' = queue!Linking(Null)
      BY <1>1 DEF queue!Linking
    <2> QED
      BY <1>1, <1>2, <1>zero, <1>3, <2>1 DEF queue!EndsExact
  <1>knows. queue!ConsumerKnows'
    <2>1. Len(taken') = 1 /\ taken' = SubSeq(items, 1, 1)
      BY <1>0, <1>1, <1>2, <1>zero, <1>3, QueueShape
    <2>2. \A i \in 1 .. Len(taken') - 1 : next[items[i]] # Null
      BY <2>1
    <2>3. Len(taken') \in 1 .. m /\ m > 0
      BY <1>2, <1>zero, <2>1
    <2> QED
      BY <1>1, <1>2, <1>zero, <1>3, <2>1, <2>2, <2>3 DEF queue!ConsumerKnows
  <1> QED
    BY <1>0, <1>1, <1>type, <1>items, <1>ends, <1>knows
    DEF queue!IInv, queue!OnePlace, queue!ChainLinked

\* pop_batch() walks to the next item that it has cut off.
LEMMA BatchWalkKeeps ==
    ASSUME queue!IInv, queue!BatchWalk, cursor # last
    PROVE  queue!IInv'
  <1>0. /\ queue!TypeOK /\ queue!OnePlace /\ queue!ChainLinked /\ queue!ItemsLinked
        /\ queue!EndsExact /\ queue!ConsumerKnows
    BY DEF queue!IInv
  <1>1. /\ at = "walk" /\ at' = "walk" /\ next[cursor] # Null /\ cursor' = next[cursor]
        /\ taken' = Append(taken, next[cursor])
        /\ UNCHANGED <<front, back, next, free, queuePc, chain, queueOld, first, last, out, items, cut>>
    BY DEF queue!BatchWalk, queue!Continue, queue!producer, queue!history
  <1>2. PICK m \in Nat : m = Len(items) /\ DOMAIN items = 1 .. m
    BY <1>0, QueueShape
  <1>3. PICK k \in 1 .. cut : k = Len(taken)
    BY <1>0, <1>1, Walked
  <1>4. cut \in 1 .. m /\ cursor = items[k] /\ last = items[cut] /\ taken = SubSeq(items, 1, k)
    BY <1>0, <1>1, <1>2, <1>3, Walked DEF queue!ConsumerKnows
  <1>5. k \in 1 .. m /\ k + 1 \in 1 .. cut /\ k + 1 \in 1 .. m /\ k # cut /\ k # m
    <2>1. k # cut
      BY <1>4
    <2> QED
      BY <1>2, <1>3, <1>4, <2>1
  <1>6. next[cursor] = items[k + 1]
    BY <1>0, <1>1, <1>2, <1>4, <1>5 DEF queue!ItemsLinked, queue!Ends
  <1>7. items[k + 1] \in Nodes /\ items[k + 1] # Null
    BY <1>0, <1>2, <1>5, QueueShape
  <1>8. taken' = SubSeq(items, 1, k + 1) /\ Len(taken') = k + 1
    BY <1>0, <1>1, <1>2, <1>4, <1>5, <1>6, QueueShape
  <1>type. queue!ToSet(taken') \subseteq Nodes
    BY <1>0, <1>2, <1>5, <1>8, QueueShape DEF queue!ToSet
  <1>ends. queue!EndsExact'
    BY <1>0, <1>1 DEF queue!EndsExact, queue!Linking
  <1>knows. queue!ConsumerKnows'
    <2>1. \A i \in 1 .. Len(taken') - 1 : next[items[i]] # Null
      <3>1. \A i \in 1 .. k - 1 : next[items[i]] # Null
        BY <1>0, <1>1, <1>3 DEF queue!ConsumerKnows
      <3>2. \A i \in 1 .. Len(taken') - 1 : i \in 1 .. k - 1 \/ i = k
        BY <1>3, <1>5, <1>8
      <3> QED
        BY <1>1, <1>4, <3>1, <3>2
    <2>2. Len(taken') \in 1 .. cut /\ cursor' = items[Len(taken')]
          /\ taken' = SubSeq(items, 1, Len(taken'))
      BY <1>1, <1>5, <1>6, <1>8
    <2>3. Len(items) > 0 /\ first = items[1] /\ cut > 0
      BY <1>0, <1>1 DEF queue!ConsumerKnows
    <2> QED
      BY <1>1, <1>4, <2>1, <2>2, <2>3 DEF queue!ConsumerKnows
  <1>pointers. /\ front' \in queue!Pointers /\ first' \in queue!Pointers /\ last' \in queue!Pointers
               /\ cursor' \in queue!Pointers /\ first' # Null /\ cursor' # Null /\ last' # Null
    BY <1>0, <1>1, <1>6, <1>7 DEF queue!TypeOK, queue!Pointers
  <1> QED
    BY <1>1, <1>type, <1>ends, <1>knows, <1>pointers, ContinueKeeps

\* The items that a call of the consumer returns are the first of the queue, and no
\* producer is to write into them.
LEMMA ReturnsFirst ==
    ASSUME queue!IInv,
           \/ queue!PopFront /\ front = Null
           \/ queue!BatchFront /\ front = Null
           \/ queue!PopCas /\ cursor # Null
           \/ queue!PopClear /\ back = first
           \/ queue!PopRestore
           \/ queue!BatchWalk /\ cursor = last
    PROVE  /\ queue!IInv'
           /\ \E n \in 0 .. Len(items) : /\ out' = SubSeq(items, 1, n)
                                         /\ items' = SubSeq(items, n + 1, Len(items))
  <1>0. /\ queue!TypeOK /\ queue!OnePlace /\ queue!ChainLinked /\ queue!ItemsLinked
        /\ queue!EndsExact /\ queue!ConsumerKnows
    BY DEF queue!IInv
  <1>1. PICK m \in Nat : m = Len(items) /\ DOMAIN items = 1 .. m /\ cut \in 0 .. m
    BY <1>0, QueueShape DEF queue!EndsExact
  <1>2. at # "walk" => cut = 0
    BY <1>0, <1>1 DEF queue!ConsumerKnows
  <1>3. UNCHANGED <<next, queuePc, chain, queueOld>>
    BY DEF queue!PopFront, queue!PopCas, queue!PopClear, queue!PopRestore, queue!BatchFront,
           queue!BatchWalk, queue!producer
  <1>return. ASSUME NEW n \in 0 .. m, NEW run, run = SubSeq(items, 1, n), queue!Return(run),
                    cut \in {0, n},
                    \A p \in Producers, i \in DOMAIN items :
                        queue!LinksAt(p, i) => i > n + 1 \/ (i = n + 1 /\ cut = n),
                    IF n = m THEN back' = Null /\ front' = Null
                    ELSE back' = back /\ \/ front' = items[n + 1] /\ queue!Linking(Null) = {}
                                         \/ front' = Null /\ queue!Linking(Null) # {}
             PROVE  /\ queue!IInv'
                    /\ \E k \in 0 .. Len(items) : /\ out' = SubSeq(items, 1, k)
                                                  /\ items' = SubSeq(items, k + 1, Len(items))
    <2>1. queue!IInv'
      BY <1>1, <1>3, <1>return, ReturnKeeps
    <2>2. Len(run) = n
      BY <1>0, <1>1, <1>return, QueueShape
    <2>3. out' = SubSeq(items, 1, n) /\ items' = SubSeq(items, n + 1, Len(items))
      BY <1>return, <2>2 DEF queue!Return
    <2> QED
      BY <1>1, <2>1, <2>3
  <1>nothing. CASE (queue!PopFront \/ queue!BatchFront) /\ front = Null
    <2>1. queue!Return(<<>>) /\ at = "idle" /\ front' = Null /\ back' = back
      BY <1>nothing DEF queue!PopFront, queue!BatchFront
    <2>2. <<>> = SubSeq(items, 1, 0) /\ cut = 0 /\ 0 \in 0 .. m
      BY <1>0, <1>1, <1>2, <2>1, QueueShape
    <2>3. \A p \in Producers, i \in DOMAIN items : i > 0 + 1 \/ (i = 0 + 1 /\ cut = 0)
      BY <1>1, <2>2
    <2>4. m = 0 => back = Null
      BY <1>0, <1>1, <2>2 DEF queue!EndsExact
    <2>5. m # 0 => queue!Linking(Null) # {}
      <3>1. m # 0 => cut + 1 \in 1 .. m /\ m # cut
        BY <1>1, <2>2
      <3> QED
        BY <1>0, <1>1, <1>nothing, <2>1, <3>1, QueueShape DEF queue!EndsExact
    <2> QED
      BY <1>return, <2>1, <2>2, <2>3, <2>4, <2>5
  <1>first. CASE (queue!PopCas /\ cursor # Null) \/ queue!PopRestore
    <2>1. queue!Return(<<first>>) /\ at \in {"cas", "restore"} /\ front' = cursor /\ back' = back
      BY <1>first DEF queue!PopCas, queue!PopRestore
    <2>2. cursor = next[first] /\ cursor # Null /\ first = items[1] /\ m > 0 /\ cut = 0
      BY <1>0, <1>1, <1>2, <1>first, <2>1 DEF queue!ConsumerKnows, queue!TypeOK, queue!PopCas, queue!PopRestore
    <2>3. queue!Linking(Null) = {}
      BY <1>0, <2>1 DEF queue!EndsExact
    <2>4. m # 1 /\ 1 \in 1 .. m /\ cursor = items[1 + 1]
      <3>1. 1 \in 1 .. m /\ 1 # cut
        BY <1>1, <2>2
      <3> QED
        BY <1>0, <1>1, <2>2, <3>1 DEF queue!ItemsLinked, queue!Ends
    <2>5. ASSUME NEW p \in Producers, NEW i \in DOMAIN items, queue!LinksAt(p, i) PROVE i > 1 + 1
      <3>1. i > 1
        BY <1>0, <2>2, <2>3, <2>5, NoLinkFirst
      <3>2. i # cut + 1
        BY <1>1, <2>2, <3>1
      <3>3. next[items[i - 1]] = Null
        BY <2>5, <3>2 DEF queue!LinksAt
      <3>4. i - 1 # 1
        BY <2>2, <3>3
      <3> QED
        BY <1>1, <3>1, <3>4
    <2>6. <<first>> = SubSeq(items, 1, 1) /\ 1 \in 0 .. m
      BY <1>0, <1>1, <2>2, QueueShape
    <2> QED
      BY <1>return, <2>1, <2>2, <2>3, <2>4, <2>5, <2>6
  <1>only. CASE queue!PopClear /\ back = first
    <2>1. queue!Return(<<first>>) /\ at = "clear" /\ front' = front /\ back' = Null
      BY <1>only DEF queue!PopClear
    <2>2. first = items[1] /\ m > 0 /\ cut = 0
      BY <1>0, <1>1, <1>2, <2>1 DEF queue!ConsumerKnows
    <2>3. front = Null /\ queue!Linking(Null) = {} /\ back = items[m]
      BY <1>0, <1>1, <2>1, <2>2 DEF queue!EndsExact
    <2>4. m = 1
      <3>1. 1 \in 1 .. m /\ m \in 1 .. m
        BY <1>1, <2>2
      <3> QED
        BY <1>0, <1>1, <1>only, <2>2, <2>3, <3>1 DEF queue!OnePlace
    <2>5. ASSUME NEW p \in Producers, NEW i \in DOMAIN items, queue!LinksAt(p, i) PROVE FALSE
      <3>1. i > 1
        BY <1>0, <2>2, <2>3, <2>5, NoLinkFirst
      <3> QED
        BY <1>1, <2>4, <3>1
    <2>6. <<first>> = SubSeq(items, 1, 1) /\ 1 \in 0 .. m
      BY <1>0, <1>1, <2>2, QueueShape
    <2> QED
      BY <1>return, <2>1, <2>2, <2>3, <2>4, <2>5, <2>6
  <1>batch. CASE queue!BatchWalk /\ cursor = last
    <2>1. queue!Return(taken) /\ at = "walk" /\ front' = front /\ back' = back
      BY <1>batch DEF queue!BatchWalk
    <2>2. PICK k \in 1 .. cut : k = Len(taken)
      BY <1>0, <2>1, Walked
    <2>3. cut \in 1 .. m /\ cursor = items[k] /\ last = items[cut] /\ taken = SubSeq(items, 1, k)
      BY <1>0, <1>1, <2>1, <2>2, Walked DEF queue!ConsumerKnows
    <2>4. k = cut
      <3>1. k \in 1 .. m
        BY <1>1, <2>2, <2>3
      <3> QED
        BY <1>0, <1>1, <1>batch, <2>3, <3>1 DEF queue!OnePlace
    <2>5. ASSUME NEW p \in Producers, NEW i \in DOMAIN items, queue!LinksAt(p, i), i # cut + 1
          PROVE  i > cut + 1
      <3>1. i > 1 /\ next[items[i - 1]] = Null
        BY <2>5 DEF queue!LinksAt
      <3>2. \A j \in 1 .. k - 1 : next[items[j]] # Null
        BY <1>0, <2>1, <2>2 DEF queue!ConsumerKnows
      <3>3. i - 1 \notin 1 .. k - 1
        BY <3>1, <3>2
      <3> QED
        BY <1>1, <2>3, <2>4, <2>5, <3>1, <3>3
    <2>6. IF cut = m THEN back' = Null /\ front' = Null
          ELSE back' = back /\ \/ front' = items[cut + 1] /\ queue!Linking(Null) = {}
                               \/ front' = Null /\ queue!Linking(Null) # {}
      <3>1. cut # m => cut + 1 \in 1 .. m
        BY <1>1
      <3> QED
        BY <1>0, <1>1, <2>1, <3>1, QueueShape DEF queue!EndsExact
    <2>7. cut \in 0 .. m
      BY <1>1
    <2> QED
      BY <1>return, <2>1, <2>3, <2>4, <2>5, <2>6, <2>7
  <1> QED
    BY <1>nothing, <1>first, <1>only, <1>batch

\* A new queue.
LEMMA QueueInit == queue!Init => queue!IInv
  <1> SUFFICES ASSUME queue!Init PROVE queue!IInv
    OBVIOUS
  <1>1. <<>> \in queue!BoundedSeq(Nodes, MaxRun) /\ <<>> \in Seq(Nodes)
    <2>1. <<>> \in Seq(Nodes) /\ Len(<<>>) <= MaxRun
      BY QueueConstants
    <2> QED
      BY <2>1, RunIsSeq
  <1>2. queue!ToSet(taken) = {} /\ queue!ToSet(out) = {}
    BY DEF queue!Init, queue!ToSet
  <1>3. queue!TypeOK
    BY <1>1, <1>2 DEF queue!Init, queue!TypeOK, queue!Pointers
  <1>4. Len(items) = 0 /\ DOMAIN items = {}
    BY DEF queue!Init
  <1>5. queue!OnePlace /\ queue!ChainLinked
    BY <1>4 DEF queue!Init, queue!OnePlace, queue!ChainLinked
  <1>6. queue!ItemsLinked
    BY <1>4 DEF queue!Init, queue!ItemsLinked
  <1>7. queue!Linking(Null) = {}
    BY DEF queue!Init, queue!Linking
  <1>8. queue!EndsExact /\ queue!ConsumerKnows
    BY <1>4, <1>7 DEF queue!Init, queue!EndsExact, queue!ConsumerKnows
  <1> QED
    BY <1>3, <1>5, <1>6, <1>8 DEF queue!IInv

\* A step by which a call of the consumer returns.
Returns == \/ queue!PopFront /\ front = Null
           \/ queue!BatchFront /\ front = Null
           \/ queue!PopCas /\ cursor # Null
           \/ queue!PopClear /\ back = first
           \/ queue!PopRestore
           \/ queue!BatchWalk /\ cursor = last

\* A step within a call.
Loads == \/ queue!PopFront /\ front # Null
         \/ queue!PopNext
         \/ queue!PopCas /\ cursor = Null
         \/ queue!PopCasFails
         \/ queue!PopClear /\ back # first
         \/ queue!PopSpin
         \/ queue!BatchFront /\ front # Null

\* Every step of the queue is of one of these kinds.
LEMMA QueueSteps ==
    ASSUME queue!Next
    PROVE  \/ \E p \in Producers : queue!Chain(p) \/ queue!SwapBack(p) \/ queue!LinkIn(p)
           \/ Loads
           \/ queue!BatchBack
           \/ queue!BatchWalk /\ cursor # last
           \/ Returns
  BY DEF queue!Next, queue!Push, queue!Pop, Loads, Returns

\* Every step of the queue keeps its invariant.
LEMMA QueueStep == queue!IInv /\ queue!Next => queue!IInv'
  <1> SUFFICES ASSUME queue!IInv, queue!Next PROVE queue!IInv'
    OBVIOUS
  <1>1. ASSUME NEW p \in Producers, queue!Chain(p) \/ queue!SwapBack(p) \/ queue!LinkIn(p)
        PROVE  queue!IInv'
    BY <1>1, ChainKeeps, SwapBackKeeps, LinkInKeeps
  <1>2. CASE Loads
    BY <1>2, PopLoads DEF Loads
  <1>3. CASE queue!BatchBack
    BY <1>3, BatchBackKeeps
  <1>4. CASE queue!BatchWalk /\ cursor # last
    BY <1>4, BatchWalkKeeps
  <1>5. CASE Returns
    BY <1>5, ReturnsFirst DEF Returns
  <1> QED
    BY <1>1, <1>2, <1>3, <1>4, <1>5, QueueSteps

\* A step elsewhere is none of the queue.
LEMMA QueueIdle == queue!IInv /\ UNCHANGED queueVars => queue!IInv'
  BY DEF queueVars, queue!IInv, queue!TypeOK, queue!OnePlace, queue!ChainLinked, queue!ItemsLinked,
         queue!EndsExact, queue!ConsumerKnows, queue!LinksAt, queue!Ends, queue!Linking

\* The queue, in use or not.
LEMMA QueueNext == queue!IInv /\ [NextAll]_allVars => queue!IInv'
  <1> SUFFICES ASSUME queue!IInv, [NextAll]_allVars PROVE queue!IInv'
    OBVIOUS
  <1>1. CASE UNCHANGED queueVars
    BY <1>1, QueueIdle
  <1>2. CASE queue!Next
    BY <1>2, QueueStep
  <1> QED
    BY <1>1, <1>2 DEF NextAll, Use, allVars

\* unbounded_queue.rs: the links between the items, the ends and what the consumer holds stay in
\* step (IInv), for every interleaving of push_batch(), pop() and pop_batch().
THEOREM QueueInvariant == SpecAll => []queue!IInv
  <1>1. InitAll => queue!IInv
    BY QueueInit DEF InitAll
  <1> QED
    BY <1>1, QueueNext, PTL DEF SpecAll

\* unbounded_queue.rs: pop() and pop_batch() call a queue empty that is not only while the
\* producer of the first item is between its swap and its store.
THEOREM QueueEmptyOnlyBehindAPush == SpecAll => []EmptyOnlyBehindAPush
  <1>1. queue!IInv => EmptyOnlyBehindAPush
    <2> SUFFICES ASSUME queue!IInv, at = "idle", front = Null, back # Null
                 PROVE  queue!Linking(Null) # {}
      BY DEF EmptyOnlyBehindAPush, queue!EmptyOnlyBehindAPush
    <2>1. queue!TypeOK /\ queue!EndsExact /\ queue!ConsumerKnows
      BY DEF queue!IInv
    <2>2. PICK m \in Nat : /\ m = Len(items) /\ cut \in 0 .. m
                           /\ \A i \in 1 .. m : items[i] # Null
      BY <2>1, QueueShape DEF queue!EndsExact
    <2>3. m # cut
      BY <2>1, <2>2 DEF queue!EndsExact
    <2>4. cut + 1 \in 1 .. m
      BY <2>2, <2>3
    <2> QED
      BY <2>1, <2>2, <2>3, <2>4 DEF queue!EndsExact
  <1> QED
    BY <1>1, QueueInvariant, PTL

\* A producer is to link behind the last item of the queue in front of its run, or behind none.
LEMMA QueueWrites == queue!IInv => queue!NoWriteAfterReturn
  <1> SUFFICES ASSUME queue!IInv, NEW p \in Producers, queuePc[p] = "link" PROVE queueOld[p] \notin free
    BY DEF queue!NoWriteAfterReturn
  <1>1. queue!TypeOK /\ queue!OnePlace /\ queue!ItemsLinked
    BY DEF queue!IInv
  <1>2. PICK m \in Nat : DOMAIN items = 1 .. m
    BY <1>1, QueueShape
  <1>3. PICK i \in 1 .. m : queue!LinksAt(p, i)
    BY <1>1, <1>2 DEF queue!ItemsLinked
  <1>4. CASE i = cut + 1
    BY <1>1, <1>3, <1>4, QueueConstants, QueueShape DEF queue!LinksAt
  <1>5. CASE i # cut + 1
    <2>1. i - 1 \in 1 .. m /\ queueOld[p] = items[i - 1]
      BY <1>3, <1>5 DEF queue!LinksAt
    <2> QED
      BY <1>1, <1>2, <2>1 DEF queue!OnePlace
  <1> QED
    BY <1>4, <1>5

-----------------------------------------------------------------------------
(* The refinement *)

\* The swap of back is where a run enters the queue.
LEMMA SwapBackPushes ==
    ASSUME queue!IInv, NEW p \in Producers, queue!SwapBack(p)
    PROVE  queue!fifo!Next
  <1>1. queue!TypeOK /\ queuePc[p] = "swap"
    BY DEF queue!IInv, queue!SwapBack
  <1>2. chain[p] \in queue!fifo!BoundedSeq(Nodes, MaxRun) /\ chain[p] # <<>>
    <2>1. chain[p] \in queue!BoundedSeq(Nodes, MaxRun) /\ chain[p] # <<>>
      BY <1>1 DEF queue!TypeOK
    <2>2. \A s : s \in queue!fifo!BoundedSeq(Nodes, MaxRun) <=> s \in queue!BoundedSeq(Nodes, MaxRun)
      BY QueueConstants DEF queue!fifo!BoundedSeq, queue!fifo!SeqOf, queue!BoundedSeq, queue!SeqOf
    <2> QED
      BY <2>1, <2>2
  <1>3. queue!fifo!Push(chain[p])
    BY DEF queue!SwapBack, queue!consumer, queue!fifo!Push
  <1> QED
    BY <1>2, <1>3 DEF queue!fifo!Next

\* A return takes the items that it hands out from the front.
LEMMA ReturnTakes ==
    ASSUME queue!IInv, Returns
    PROVE  queue!fifo!Next
  BY ReturnsFirst DEF Returns, queue!fifo!Next, queue!fifo!Take

\* The other steps neither add nor take.
LEMMA QueueRefines == queue!IInv /\ queue!Next => [queue!fifo!Next]_<<items, out>>
  <1> SUFFICES ASSUME queue!IInv, queue!Next, ~queue!fifo!Next PROVE UNCHANGED <<items, out>>
    OBVIOUS
  <1>1. CASE \E p \in Producers : queue!Chain(p) \/ queue!LinkIn(p)
    BY <1>1 DEF queue!Chain, queue!LinkIn, queue!consumer, queue!history
  <1>2. CASE Loads \/ queue!BatchBack
    BY <1>2 DEF Loads, queue!PopFront, queue!PopNext, queue!PopCas, queue!PopCasFails, queue!PopClear,
       queue!PopSpin, queue!BatchFront, queue!BatchBack, queue!Continue, queue!history
  <1>3. CASE queue!BatchWalk /\ cursor # last
    BY <1>3 DEF queue!BatchWalk, queue!Continue, queue!history
  <1> QED
    BY <1>1, <1>2, <1>3, QueueSteps, SwapBackPushes, ReturnTakes

\* unbounded_queue.rs: nothing is lost, duplicated or reordered.
LEMMA QueueFifo == SpecAll => queue!RefinesFifo
  <1>1. InitAll => queue!fifo!Init
    BY DEF InitAll, queue!Init, queue!fifo!Init
  <1>2. queue!IInv /\ [NextAll]_allVars => [queue!fifo!Next]_<<items, out>>
    BY QueueRefines DEF NextAll, Use, allVars, queueVars
  <1> QED
    BY <1>1, <1>2, QueueInvariant, PTL DEF SpecAll, queue!RefinesFifo, queue!fifo!Spec

-----------------------------------------------------------------------------
(* node::Queue *)

\* What the constants of node::Queue are.
LEMMA NodesConstants == Null \notin Nodes /\ MaxList \in Nat \ {0}
  BY QueuesAssumption DEF QueuesAssumption, nodes!NodeQueueAssumption

\* A sequence without its first element.
LEMMA TailIs ==
    ASSUME NEW S, NEW s \in Seq(S), s # <<>>
    PROVE  \E m \in Nat : /\ DOMAIN s = 1 .. (m + 1) /\ Len(s) = m + 1 /\ s[1] \in S
                          /\ Tail(s) \in Seq(S) /\ DOMAIN Tail(s) = 1 .. m /\ Len(Tail(s)) = m
                          /\ \A i \in 1 .. m : Tail(s)[i] = s[i + 1]
  <1>1. Len(s) >= 1 /\ Len(s) \in Nat
    OBVIOUS
  <1>2. PICK m \in Nat : Len(s) = m + 1
    BY <1>1
  <1> WITNESS m \in Nat
  <1>3. DOMAIN s = 1 .. (m + 1) /\ s[1] \in S
    BY <1>2
  <1>4. Tail(s) \in Seq(S) /\ Len(Tail(s)) = m /\ \A i \in 1 .. m : Tail(s)[i] = s[i + 1]
    BY <1>2
  <1>5. DOMAIN Tail(s) = 1 .. m
    BY <1>4
  <1> QED
    BY <1>2, <1>3, <1>4, <1>5

\* The chain from a node's link on is the chain without the node.
LEMMA TailLeads ==
    ASSUME NEW s \in Seq(Nodes), s # <<>>, NEW ptr, nodes!Leads(ptr, s, Null),
           nodes!Distinct(s)
    PROVE  /\ Tail(s) \in Seq(Nodes) /\ ptr = s[1] /\ s[1] \in Nodes
           /\ nodes!Leads(nodeNext[ptr], Tail(s), Null)
           /\ nodes!Distinct(Tail(s))
           /\ nodes!Elements(Tail(s)) \subseteq nodes!Elements(s)
  <1>1. PICK m \in Nat : /\ DOMAIN s = 1 .. (m + 1) /\ Len(s) = m + 1 /\ s[1] \in Nodes
                         /\ Tail(s) \in Seq(Nodes) /\ DOMAIN Tail(s) = 1 .. m /\ Len(Tail(s)) = m
                         /\ \A i \in 1 .. m : Tail(s)[i] = s[i + 1]
    BY TailIs
  <1>len. Len(Tail(s)) = m
    BY <1>1
  <1>2. ptr = s[1] /\ \A i \in 1 .. (m + 1) : nodeNext[s[i]] = IF i = m + 1 THEN Null ELSE s[i + 1]
    BY <1>1 DEF nodes!Leads
  <1>3. \A i \in 1 .. m : i + 1 \in 1 .. (m + 1) /\ (i # m => i + 1 \in 1 .. m) /\ (i + 1 = m + 1 <=> i = m)
    OBVIOUS
  <1>4. \A i \in 1 .. m : nodeNext[Tail(s)[i]] = IF i = m THEN Null ELSE Tail(s)[i + 1]
    BY <1>1, <1>2, <1>3
  <1>5. nodeNext[ptr] = IF Tail(s) = <<>> THEN Null ELSE Tail(s)[1]
    <2>1. CASE m = 0
      <3>1. Tail(s) = <<>>
        BY <1>1, <2>1
      <3> QED
        BY <1>2, <2>1, <3>1
    <2>2. CASE m # 0
      <3>1. 1 \in 1 .. m /\ 1 \in 1 .. (m + 1) /\ 1 # m + 1
        BY <2>2
      <3>2. Tail(s) # <<>>
        <4>1. Len(<<>>) = 0
          OBVIOUS
        <4> QED
          BY <1>len, <2>2, <4>1, Zenon
      <3> QED
        BY <1>1, <1>2, <3>1, <3>2
    <2> QED
      BY <2>1, <2>2
  <1>6. nodes!Leads(nodeNext[ptr], Tail(s), Null)
    BY <1>1, <1>4, <1>5 DEF nodes!Leads
  <1>7. nodes!Distinct(Tail(s))
    <2>1. \A i, j \in 1 .. m : s[i + 1] = s[j + 1] => i = j
      BY <1>1, <1>3 DEF nodes!Distinct
    <2> QED
      BY <1>1, <2>1 DEF nodes!Distinct
  <1>8. nodes!Elements(Tail(s)) \subseteq nodes!Elements(s)
    BY <1>1, <1>3 DEF nodes!Elements
  <1> QED
    BY <1>1, <1>2, <1>6, <1>7, <1>8

\* Disjointness is a matter of elements.
LEMMA ApartIs ==
    ASSUME NEW s, NEW t
    PROVE  nodes!Apart(s, t) <=> nodes!Elements(s) \cap nodes!Elements(t) = {}
  BY DEF nodes!Apart, nodes!Elements

\* A chain from null has no nodes.
LEMMA NullLeads ==
    ASSUME NEW s \in Seq(Nodes), NEW ptr, nodes!Leads(ptr, s, Null)
    PROVE  /\ ptr = Null <=> s = <<>>
           /\ s # <<>> => ptr = s[1] /\ s[1] \in Nodes
  <1>1. s # <<>> => s[1] \in Nodes
    BY TailIs
  <1> QED
    BY <1>1, NodesConstants DEF nodes!Leads

\* No nodes.
LEMMA NoneLead == nodes!Leads(Null, <<>>, Null) /\ nodes!Distinct(<<>>) /\ nodes!Elements(<<>>) = {}
  BY DEF nodes!Leads, nodes!Distinct, nodes!Elements

\* The producers' part, when a consumer moves nodes about.
LEMMA ListsKeep ==
    ASSUME nodes!ListsLinked, UNCHANGED <<nodeNext, list, snap>>,
           nodes!Elements(pushed') \subseteq nodes!queued,
           nodes!Elements(batch') \subseteq nodes!queued
    PROVE  nodes!ListsLinked'
  <1> SUFFICES ASSUME NEW p \in Producers, list[p] # <<>>
               PROVE  /\ nodes!Leads(list[p][1], list[p], snap[p].ptr)'
                      /\ nodes!Distinct(list[p])'
                      /\ nodes!Apart(list[p], pushed)' /\ nodes!Apart(list[p], batch)'
                      /\ \A q \in Producers \ {p} : nodes!Apart(list[p], list[q])'
    BY DEF nodes!ListsLinked
  <1>1. /\ nodes!Leads(list[p][1], list[p], snap[p].ptr)
        /\ nodes!Distinct(list[p]) /\ nodes!Apart(list[p], pushed) /\ nodes!Apart(list[p], batch)
        /\ \A q \in Producers \ {p} : nodes!Apart(list[p], list[q])
    BY DEF nodes!ListsLinked
  <1>2. nodes!Leads(list[p][1], list[p], snap[p].ptr)'
    BY <1>1 DEF nodes!Leads
  <1>3. nodes!Distinct(list[p])' /\ \A q \in Producers \ {p} : nodes!Apart(list[p], list[q])'
    BY <1>1 DEF nodes!Distinct, nodes!Apart
  <1>4. nodes!Elements(list[p]) \cap nodes!queued = {}
    BY <1>1, ApartIs DEF nodes!queued
  <1>5. nodes!Apart(list[p], pushed)' /\ nodes!Apart(list[p], batch)'
    BY <1>4 DEF nodes!Apart, nodes!Elements
  <1> QED
    BY <1>2, <1>3, <1>5

\* The elements of a sequence.
LEMMA ElementsAre ==
    ASSUME NEW S, NEW s \in Seq(S)
    PROVE  nodes!Elements(s) \subseteq S /\ \A i \in DOMAIN s : s[i] \in S
  <1>1. DOMAIN s = 1 .. Len(s) /\ \A i \in 1 .. Len(s) : s[i] \in S
    OBVIOUS
  <1> QED
    BY <1>1 DEF nodes!Elements

\* The caller's list belongs to nobody else.
LEMMA BeginKeeps ==
    ASSUME nodes!IInv, NEW p \in Producers, nodes!Begin(p)
    PROVE  nodes!IInv'
  <1>0. nodes!TypeOK /\ nodes!ConsumersExclude /\ nodes!ChainsExact /\ nodes!ListsLinked /\ nodes!CacheKnown
    BY DEF nodes!IInv
  <1>k. PICK k \in 1 .. MaxList : \E l \in [1 .. k -> nodes!Free] :
              /\ \A i, j \in 1 .. k : i # j => l[i] # l[j]
              /\ list' = [list EXCEPT ![p] = l]
              /\ nodeNext' = [n \in Nodes |->
                            IF \E i \in 1 .. k - 1 : l[i] = n
                            THEN l[(CHOOSE i \in 1 .. k - 1 : l[i] = n) + 1]
                            ELSE IF n = l[k] THEN stack.ptr ELSE nodeNext[n]]
    BY DEF nodes!Begin
  <1>1. PICK l \in [1 .. k -> nodes!Free] :
              /\ \A i, j \in 1 .. k : i # j => l[i] # l[j]
              /\ list' = [list EXCEPT ![p] = l]
              /\ nodeNext' = [n \in Nodes |->
                            IF \E i \in 1 .. k - 1 : l[i] = n
                            THEN l[(CHOOSE i \in 1 .. k - 1 : l[i] = n) + 1]
                            ELSE IF n = l[k] THEN stack.ptr ELSE nodeNext[n]]
    BY <1>k
  <1>2. /\ list[p] = <<>> /\ snap' = [snap EXCEPT ![p] = stack]
        /\ UNCHANGED <<stack, cache, inside, cur, nodePc, pushed, batch>>
    BY DEF nodes!Begin, nodes!history
  <1>3. k \in Nat /\ k >= 1 /\ k \in 1 .. k /\ DOMAIN l = 1 .. k /\ \A i \in 1 .. k : l[i] \in nodes!Free
    BY <1>1, NodesConstants
  <1>4. nodes!Free \subseteq Nodes
    BY DEF nodes!Free
  <1>5. l \in Seq(Nodes) /\ Len(l) = k /\ l # <<>>
    <2>1. l \in [1 .. k -> Nodes]
      BY <1>3, <1>4
    <2>2. l \in Seq(Nodes)
      BY <1>3, <2>1
    <2>3. Len(l) = k
      BY <1>3, <2>2
    <2> QED
      BY <1>3, <2>2, <2>3
  <1>6. \A n \in Nodes \ nodes!Elements(l) : nodeNext'[n] = nodeNext[n]
    <2>1. \A i \in 1 .. k - 1 : i \in 1 .. k
      BY <1>3
    <2> QED
      BY <1>1, <1>3, <2>1 DEF nodes!Elements
  <1>7. \A i \in 1 .. k : nodeNext'[l[i]] = IF i = k THEN stack.ptr ELSE l[i + 1]
    <2> SUFFICES ASSUME NEW i \in 1 .. k PROVE nodeNext'[l[i]] = IF i = k THEN stack.ptr ELSE l[i + 1]
      OBVIOUS
    <2>1. \A j \in 1 .. k - 1 : j \in 1 .. k /\ j # k
      BY <1>3
    <2>2. i # k => i \in 1 .. k - 1
      BY <1>3
    <2>3. CASE i = k
      <3>1. ~ \E j \in 1 .. k - 1 : l[j] = l[i]
        BY <1>1, <2>1, <2>3
      <3> QED
        BY <1>1, <1>3, <1>4, <2>3, <3>1
    <2>4. CASE i # k
      <3>1. (CHOOSE j \in 1 .. k - 1 : l[j] = l[i]) = i
        BY <1>1, <2>1, <2>2, <2>4
      <3> QED
        BY <1>1, <1>3, <1>4, <2>2, <2>4, <3>1
    <2> QED
      BY <2>3, <2>4
  <1>8. list'[p] = l /\ snap'[p] = stack /\ \A q \in Producers \ {p} : list'[q] = list[q] /\ snap'[q] = snap[q]
    BY <1>0, <1>1, <1>2 DEF nodes!TypeOK
  <1>9. /\ nodes!Elements(l) \cap nodes!queued = {}
        /\ \A q \in Producers : nodes!Elements(l) \cap nodes!Elements(list[q]) = {}
    BY <1>3 DEF nodes!Free, nodes!InHand, nodes!Elements
  <1>type. nodes!TypeOK'
    <2>1. stack.ptr \in Nodes \cup {Null}
      BY <1>0 DEF nodes!TypeOK, nodes!Words
    <2>2. nodeNext' \in [Nodes -> Nodes \cup {Null}]
      <3> SUFFICES ASSUME NEW n \in Nodes PROVE nodeNext'[n] \in Nodes \cup {Null}
        BY <1>1
      <3>1. CASE n \notin nodes!Elements(l)
        BY <1>0, <1>6, <3>1 DEF nodes!TypeOK
      <3>2. CASE n \in nodes!Elements(l)
        <4>1. PICK i \in 1 .. k : n = l[i]
          BY <1>3, <3>2 DEF nodes!Elements
        <4>2. i # k => i + 1 \in 1 .. k
          BY <1>3
        <4> QED
          BY <1>3, <1>4, <1>7, <2>1, <4>1, <4>2
      <3> QED
        BY <3>1, <3>2
    <2>3. list' \in [Producers -> Seq(Nodes)] /\ snap' \in [Producers -> nodes!Words]
      BY <1>0, <1>1, <1>2, <1>5 DEF nodes!TypeOK
    <2> QED
      BY <1>0, <1>2, <2>2, <2>3 DEF nodes!TypeOK
  <1>chains. nodes!ChainsExact'
    <2>1. \A i \in DOMAIN pushed : nodeNext'[pushed[i]] = nodeNext[pushed[i]]
      <3>1. \A i \in DOMAIN pushed : pushed[i] \in Nodes /\ pushed[i] \notin nodes!Elements(l)
        <4>1. pushed \in Seq(Nodes)
          BY <1>0 DEF nodes!TypeOK
        <4>2. \A i \in DOMAIN pushed : pushed[i] \in Nodes
          BY <4>1, ElementsAre
        <4> QED
          BY <1>9, <4>2 DEF nodes!queued, nodes!Elements
      <3> QED
        BY <1>6, <3>1
    <2>2. \A i \in DOMAIN batch : nodeNext'[batch[i]] = nodeNext[batch[i]]
      <3>1. \A i \in DOMAIN batch : batch[i] \in Nodes /\ batch[i] \notin nodes!Elements(l)
        <4>1. batch \in Seq(Nodes)
          BY <1>0 DEF nodes!TypeOK
        <4>2. \A i \in DOMAIN batch : batch[i] \in Nodes
          BY <4>1, ElementsAre
        <4> QED
          BY <1>9, <4>2 DEF nodes!queued, nodes!Elements
      <3> QED
        BY <1>6, <3>1
    <2>3. nodes!Leads(stack.ptr, pushed, Null)' /\ nodes!Leads(nodes!Cached, batch, Null)'
      BY <1>0, <1>2, <2>1, <2>2 DEF nodes!ChainsExact, nodes!Leads, nodes!Cached
    <2> QED
      BY <1>0, <1>2, <2>3 DEF nodes!ChainsExact, nodes!Distinct, nodes!Apart
  <1>lists. nodes!ListsLinked'
    <2>1. nodes!Leads(l[1], l, stack.ptr)'
      BY <1>2, <1>3, <1>5, <1>7 DEF nodes!Leads
    <2>2. nodes!Distinct(l)
      BY <1>1, <1>3 DEF nodes!Distinct
    <2>3. nodes!Apart(l, pushed) /\ nodes!Apart(l, batch)
      BY <1>9, ApartIs DEF nodes!queued
    <2>4. \A q \in Producers : nodes!Apart(l, list[q]) /\ nodes!Apart(list[q], l)
      BY <1>9 DEF nodes!Apart, nodes!Elements
    <2>5. ASSUME NEW q \in Producers \ {p}, list[q] # <<>>
          PROVE  nodes!Leads(list[q][1], list[q], snap[q].ptr)'
      <3>1. \A i \in DOMAIN list[q] : list[q][i] \in Nodes
        BY <1>0 DEF nodes!TypeOK
      <3>2. \A i \in DOMAIN list[q] : list[q][i] \notin nodes!Elements(l)
        BY <1>9 DEF nodes!Elements
      <3>3. \A i \in DOMAIN list[q] : nodeNext'[list[q][i]] = nodeNext[list[q][i]]
        BY <1>6, <3>1, <3>2
      <3> QED
        BY <1>0, <1>8, <2>5, <3>3 DEF nodes!ListsLinked, nodes!Leads
    <2> QED
      BY <1>0, <1>2, <1>8, <2>1, <2>2, <2>3, <2>4, <2>5
      DEF nodes!ListsLinked, nodes!Distinct, nodes!Apart
  <1>known. nodes!ConsumersExclude' /\ nodes!CacheKnown'
    BY <1>0, <1>2 DEF nodes!ConsumersExclude, nodes!CacheKnown
  <1> QED
    BY <1>type, <1>chains, <1>lists, <1>known DEF nodes!IInv

\* What a producer is about to push.
LEMMA ListIs ==
    ASSUME nodes!TypeOK, nodes!ListsLinked, NEW p \in Producers, list[p] # <<>>
    PROVE  \E k \in Nat : /\ k >= 1 /\ Len(list[p]) = k /\ DOMAIN list[p] = 1 .. k
                          /\ list[p] \in Seq(Nodes) /\ list[p][1] \in Nodes
                          /\ \A i \in 1 .. k : /\ list[p][i] \in Nodes
                                               /\ nodeNext[list[p][i]] = IF i = k THEN snap[p].ptr
                                                                         ELSE list[p][i + 1]
  <1>1. list[p] \in Seq(Nodes)
    BY DEF nodes!TypeOK
  <1>2. PICK m \in Nat : DOMAIN list[p] = 1 .. (m + 1) /\ Len(list[p]) = m + 1 /\ list[p][1] \in Nodes
    BY <1>1, TailIs
  <1>3. \A i \in 1 .. (m + 1) : list[p][i] \in Nodes
    BY <1>1, <1>2, ElementsAre
  <1>4. \A i \in 1 .. (m + 1) : nodeNext[list[p][i]] = IF i = m + 1 THEN snap[p].ptr ELSE list[p][i + 1]
    BY <1>2 DEF nodes!ListsLinked, nodes!Leads
  <1> WITNESS m + 1 \in Nat
  <1> QED
    BY <1>1, <1>2, <1>3, <1>4

\* The compare-exchange of a push puts its list on the stack.
LEMMA PushKeeps ==
    ASSUME nodes!IInv, NEW p \in Producers, nodes!Push(p), stack = snap[p]
    PROVE  nodes!IInv'
  <1>0. nodes!TypeOK /\ nodes!ConsumersExclude /\ nodes!ChainsExact /\ nodes!ListsLinked /\ nodes!CacheKnown
    BY DEF nodes!IInv
  <1> DEFINE l == list[p]
  <1>1. /\ l # <<>> /\ stack' = [stack EXCEPT !.ptr = l[1]] /\ pushed' = l \o pushed
        /\ list' = [list EXCEPT ![p] = <<>>] /\ snap' = [snap EXCEPT ![p] = nodes!Empty]
        /\ UNCHANGED <<nodeNext, cache, inside, cur, nodePc, batch>>
    BY DEF nodes!Push
  <1>2. PICK k \in Nat : /\ k >= 1 /\ Len(l) = k /\ DOMAIN l = 1 .. k /\ l \in Seq(Nodes) /\ l[1] \in Nodes
                         /\ \A i \in 1 .. k : /\ l[i] \in Nodes
                                              /\ nodeNext[l[i]] = IF i = k THEN stack.ptr ELSE l[i + 1]
    BY <1>0, <1>1, ListIs
  <1> HIDE DEF l
  <1>seq. pushed \in Seq(Nodes)
    BY <1>0 DEF nodes!TypeOK
  <1>3. PICK m \in Nat : m = Len(pushed) /\ DOMAIN pushed = 1 .. m
    BY <1>seq
  <1>4. /\ pushed' \in Seq(Nodes) /\ Len(pushed') = k + m /\ DOMAIN pushed' = 1 .. (k + m)
        /\ \A i \in 1 .. k : pushed'[i] = l[i]
        /\ \A i \in 1 .. (k + m) : i > k => i - k \in 1 .. m /\ pushed'[i] = pushed[i - k]
    <2>0. pushed' = l \o pushed /\ l \in Seq(Nodes)
      BY <1>1, <1>2
    <2>1. /\ pushed' \in Seq(Nodes) /\ Len(pushed') = k + m
          /\ \A i \in 1 .. Len(pushed') : pushed'[i] = IF i <= k THEN l[i] ELSE pushed[i - k]
      <3>1. /\ pushed' \in Seq(Nodes) /\ Len(pushed') = Len(l) + Len(pushed)
            /\ \A i \in 1 .. Len(pushed') : pushed'[i] = IF i <= Len(l) THEN l[i] ELSE pushed[i - Len(l)]
        BY <1>seq, <2>0
      <3> QED
        BY <1>2, <1>3, <3>1
    <2> QED
      BY <1>2, <1>3, <2>1
  <1>5. list'[p] = <<>> /\ \A q \in Producers \ {p} : list'[q] = list[q] /\ snap'[q] = snap[q]
    BY <1>0, <1>1 DEF nodes!TypeOK
  <1>6. stack' \in nodes!Words /\ stack'.ptr = l[1] /\ stack'.cached = stack.cached /\ stack'.consuming = stack.consuming
    BY <1>0, <1>1, <1>2 DEF nodes!TypeOK, nodes!Words
  <1>7. l[1] # Null
    BY <1>2, NodesConstants
  <1>8. /\ nodes!Distinct(l) /\ nodes!Apart(l, pushed) /\ nodes!Apart(l, batch)
        /\ \A q \in Producers \ {p} : nodes!Apart(l, list[q]) /\ nodes!Apart(list[q], l)
    BY <1>0, <1>1 DEF nodes!ListsLinked, nodes!Apart, l
  <1>9. \A i \in 1 .. (k + m) : (\E j \in 1 .. k : pushed'[i] = l[j]) \/ (\E j \in 1 .. m : pushed'[i] = pushed[j])
    BY <1>2, <1>3, <1>4
  <1>type. nodes!TypeOK'
    <2>1. nodes!Empty \in nodes!Words /\ <<>> \in Seq(Nodes)
      BY DEF nodes!Empty, nodes!Words
    <2>2. list' \in [Producers -> Seq(Nodes)] /\ snap' \in [Producers -> nodes!Words]
      BY <1>0, <1>1, <2>1 DEF nodes!TypeOK
    <2> QED
      BY <1>0, <1>1, <1>4, <1>6, <1>7, <2>2 DEF nodes!TypeOK
  <1>chains. nodes!ChainsExact'
    <2>1. nodes!Leads(stack.ptr, pushed, Null) /\ nodes!Leads(nodes!Cached, batch, Null)
          /\ nodes!Distinct(pushed) /\ nodes!Distinct(batch) /\ nodes!Apart(pushed, batch)
      BY <1>0 DEF nodes!ChainsExact
    <2>2. \A i \in 1 .. m : nodeNext[pushed[i]] = IF i = m THEN Null ELSE pushed[i + 1]
      BY <1>3, <2>1 DEF nodes!Leads
    <2>3. stack.ptr = IF m = 0 THEN Null ELSE pushed[1]
      <3>1. m = 0 <=> pushed = <<>>
        BY <1>3, <1>seq
      <3> QED
        BY <2>1, <3>1 DEF nodes!Leads
    <2>4. ASSUME NEW i \in 1 .. (k + m)
          PROVE  nodeNext[pushed'[i]] = IF i = k + m THEN Null ELSE pushed'[i + 1]
      <3>1. CASE i < k
        <4>1. i \in 1 .. k /\ i + 1 \in 1 .. k /\ i # k /\ i # k + m
          BY <1>2, <3>1
        <4> QED
          BY <1>2, <1>4, <4>1
      <3>2. CASE i = k
        <4>1. i \in 1 .. k
          BY <1>2, <3>2
        <4>2. nodeNext[pushed'[i]] = stack.ptr
          BY <1>2, <1>4, <3>2, <4>1
        <4>3. m = 0 => i = k + m
          BY <3>2
        <4>4. m # 0 => /\ i # k + m /\ i + 1 \in 1 .. (k + m) /\ i + 1 > k /\ (i + 1) - k = 1
          BY <1>2, <1>3, <3>2
        <4> QED
          BY <1>4, <2>3, <4>2, <4>3, <4>4
      <3>3. CASE i > k
        <4>1. /\ i - k \in 1 .. m /\ (i = k + m <=> i - k = m)
              /\ i # k + m => /\ i + 1 \in 1 .. (k + m) /\ i + 1 > k
                              /\ (i + 1) - k = (i - k) + 1
          BY <1>2, <1>3, <3>3
        <4> QED
          BY <1>4, <2>2, <3>3, <4>1
      <3> QED
        BY <1>2, <3>1, <3>2, <3>3
    <2>5. pushed' # <<>> /\ pushed'[1] = l[1]
      <3>1. k + m # 0 /\ 1 \in 1 .. k
        BY <1>2
      <3> QED
        BY <1>4, <3>1
    <2>6. nodes!Leads(stack.ptr, pushed, Null)'
      BY <1>1, <1>4, <1>6, <2>4, <2>5 DEF nodes!Leads
    <2>7. nodes!Leads(nodes!Cached, batch, Null)'
      BY <1>1, <2>1 DEF nodes!Leads, nodes!Cached
    <2>8. nodes!Distinct(pushed)'
      <3>1. \A i, j \in 1 .. k : l[i] = l[j] => i = j
        BY <1>2, <1>8 DEF nodes!Distinct
      <3>2. \A i, j \in 1 .. m : pushed[i] = pushed[j] => i = j
        BY <1>3, <2>1 DEF nodes!Distinct
      <3>3. \A i \in 1 .. k, j \in 1 .. m : l[i] # pushed[j]
        BY <1>2, <1>3, <1>8 DEF nodes!Apart
      <3>4. ASSUME NEW i \in 1 .. (k + m), NEW j \in 1 .. (k + m), pushed'[i] = pushed'[j] PROVE i = j
        <4>1. CASE i <= k /\ j <= k
          <5>1. i \in 1 .. k /\ j \in 1 .. k
            BY <1>2, <4>1
          <5> QED
            BY <1>4, <3>1, <3>4, <5>1
        <4>2. CASE i > k /\ j > k
          <5>1. i - k = j - k
            BY <1>4, <3>2, <3>4, <4>2
          <5> QED
            BY <1>2, <5>1
        <4>3. CASE i <= k /\ j > k
          <5>1. i \in 1 .. k /\ j - k \in 1 .. m
            BY <1>2, <1>4, <4>3
          <5> QED
            BY <1>4, <3>3, <3>4, <4>3, <5>1
        <4>4. CASE i > k /\ j <= k
          <5>1. j \in 1 .. k /\ i - k \in 1 .. m
            BY <1>2, <1>4, <4>4
          <5> QED
            BY <1>4, <3>3, <3>4, <4>4, <5>1
        <4> QED
          BY <1>2, <4>1, <4>2, <4>3, <4>4
      <3> QED
        BY <1>4, <3>4 DEF nodes!Distinct
    <2>9. nodes!Apart(pushed, batch)'
      BY <1>1, <1>2, <1>3, <1>4, <1>8, <1>9, <2>1 DEF nodes!Apart
    <2> QED
      BY <1>1, <1>6, <1>7, <2>1, <2>6, <2>7, <2>8, <2>9 DEF nodes!ChainsExact, nodes!Distinct
  <1>lists. nodes!ListsLinked'
    <2> SUFFICES ASSUME NEW q \in Producers, list'[q] # <<>>
                 PROVE  /\ nodes!Leads(list[q][1], list[q], snap[q].ptr)'
                        /\ nodes!Distinct(list[q])' /\ nodes!Apart(list[q], pushed)' /\ nodes!Apart(list[q], batch)'
                        /\ \A r \in Producers \ {q} : nodes!Apart(list[q], list[r])'
      BY DEF nodes!ListsLinked
    <2>1. q # p /\ list'[q] = list[q] /\ snap'[q] = snap[q]
      BY <1>5
    <2>2. /\ nodes!Leads(list[q][1], list[q], snap[q].ptr)
          /\ nodes!Distinct(list[q]) /\ nodes!Apart(list[q], pushed) /\ nodes!Apart(list[q], batch)
          /\ \A r \in Producers \ {q} : nodes!Apart(list[q], list[r])
      BY <1>0, <2>1 DEF nodes!ListsLinked
    <2>3. nodes!Apart(list[q], pushed)'
      <3>1. \A i \in DOMAIN list[q], j \in 1 .. k : list[q][i] # l[j]
        BY <1>2, <1>8, <2>1 DEF nodes!Apart
      <3>2. \A i \in DOMAIN list[q], j \in 1 .. m : list[q][i] # pushed[j]
        BY <1>3, <2>2 DEF nodes!Apart
      <3>3. \A i \in DOMAIN list[q], j \in 1 .. (k + m) : list[q][i] # pushed'[j]
        BY <1>9, <3>1, <3>2
      <3> QED
        BY <1>4, <2>1, <3>3 DEF nodes!Apart
    <2>4. nodes!Leads(list[q][1], list[q], snap[q].ptr)' /\ nodes!Distinct(list[q])' /\ nodes!Apart(list[q], batch)'
      BY <1>1, <2>1, <2>2 DEF nodes!Leads, nodes!Distinct, nodes!Apart
    <2>5. \A r \in Producers \ {q} : nodes!Apart(list[q], list[r])'
      BY <1>5, <2>1, <2>2 DEF nodes!Apart
    <2> QED
      BY <2>3, <2>4, <2>5
  <1>known. nodes!ConsumersExclude' /\ nodes!CacheKnown'
    BY <1>0, <1>1, <1>6 DEF nodes!ConsumersExclude, nodes!CacheKnown
  <1> QED
    BY <1>type, <1>chains, <1>lists, <1>known DEF nodes!IInv

\* The tail's link follows the stack that the producer has seen.
LEMMA RelinkKeeps ==
    ASSUME nodes!IInv, NEW p \in Producers, nodes!Push(p), stack # snap[p]
    PROVE  nodes!IInv'
  <1>0. nodes!TypeOK /\ nodes!ConsumersExclude /\ nodes!ChainsExact /\ nodes!ListsLinked /\ nodes!CacheKnown
    BY DEF nodes!IInv
  <1> DEFINE l == list[p]
  <1>1. /\ l # <<>> /\ snap' = [snap EXCEPT ![p] = stack]
        /\ nodeNext' = [nodeNext EXCEPT ![l[Len(l)]] = stack.ptr]
        /\ UNCHANGED <<stack, list, cache, inside, cur, nodePc, pushed, batch>>
    BY DEF nodes!Push, nodes!Last
  <1>2. PICK k \in Nat : /\ k >= 1 /\ Len(l) = k /\ DOMAIN l = 1 .. k /\ l \in Seq(Nodes) /\ l[1] \in Nodes
                         /\ \A i \in 1 .. k : /\ l[i] \in Nodes
                                              /\ nodeNext[l[i]] = IF i = k THEN snap[p].ptr ELSE l[i + 1]
    BY <1>0, <1>1, ListIs
  <1>8. /\ nodes!Distinct(l) /\ nodes!Apart(l, pushed) /\ nodes!Apart(l, batch)
        /\ \A q \in Producers \ {p} : nodes!Apart(l, list[q]) /\ nodes!Apart(list[q], l)
    BY <1>0, <1>1 DEF nodes!ListsLinked, nodes!Apart, l
  <1> HIDE DEF l
  <1>3. k \in 1 .. k /\ l[k] \in Nodes /\ stack.ptr \in Nodes \cup {Null} /\ nodeNext \in [Nodes -> Nodes \cup {Null}]
    BY <1>0, <1>2 DEF nodes!TypeOK, nodes!Words
  <1>4. nodeNext' = [nodeNext EXCEPT ![l[k]] = stack.ptr]
    BY <1>1, <1>2
  <1>5. \A n \in Nodes : n # l[k] => nodeNext'[n] = nodeNext[n]
    BY <1>3, <1>4
  <1>6. \A q \in Producers \ {p} : snap'[q] = snap[q]
    BY <1>0, <1>1 DEF nodes!TypeOK
  <1>type. nodes!TypeOK'
    BY <1>0, <1>1, <1>3, <1>4 DEF nodes!TypeOK
  <1>chains. nodes!ChainsExact'
    <2>1. \A i \in DOMAIN pushed : nodeNext'[pushed[i]] = nodeNext[pushed[i]]
      <3>1. \A i \in DOMAIN pushed : pushed[i] \in Nodes
        BY <1>0, ElementsAre DEF nodes!TypeOK
      <3> QED
        BY <1>2, <1>3, <1>5, <1>8, <3>1 DEF nodes!Apart
    <2>2. \A i \in DOMAIN batch : nodeNext'[batch[i]] = nodeNext[batch[i]]
      <3>1. \A i \in DOMAIN batch : batch[i] \in Nodes
        BY <1>0, ElementsAre DEF nodes!TypeOK
      <3> QED
        BY <1>2, <1>3, <1>5, <1>8, <3>1 DEF nodes!Apart
    <2>3. nodes!Leads(stack.ptr, pushed, Null)' /\ nodes!Leads(nodes!Cached, batch, Null)'
      BY <1>0, <1>1, <2>1, <2>2 DEF nodes!ChainsExact, nodes!Leads, nodes!Cached
    <2> QED
      BY <1>0, <1>1, <2>3 DEF nodes!ChainsExact, nodes!Distinct, nodes!Apart
  <1>lists. nodes!ListsLinked'
    <2>1. nodes!Leads(list[p][1], list[p], stack.ptr)'
      <3>1. \A i \in 1 .. k : i # k => l[i] # l[k]
        BY <1>2, <1>3, <1>8 DEF nodes!Distinct
      <3>2. \A i \in 1 .. k : nodeNext'[l[i]] = IF i = k THEN stack.ptr ELSE l[i + 1]
        BY <1>2, <1>3, <1>4, <1>5, <3>1
      <3> QED
        BY <1>1, <1>2, <3>2 DEF nodes!Leads, l
    <2>2. snap'[p].ptr = stack'.ptr
      BY <1>0, <1>1 DEF nodes!TypeOK
    <2>3. ASSUME NEW q \in Producers \ {p}, list[q] # <<>>
          PROVE  nodes!Leads(list[q][1], list[q], snap[q].ptr)'
      <3>1. \A i \in DOMAIN list[q] : list[q][i] \in Nodes
        BY <1>0, ElementsAre DEF nodes!TypeOK
      <3>2. \A i \in DOMAIN list[q] : nodeNext'[list[q][i]] = nodeNext[list[q][i]]
        BY <1>2, <1>3, <1>5, <1>8, <3>1 DEF nodes!Apart
      <3> QED
        BY <1>0, <1>1, <1>6, <2>3, <3>2 DEF nodes!ListsLinked, nodes!Leads
    <2>4. nodes!Leads(list[p][1], list[p], snap[p].ptr)'
      BY <1>1, <2>1, <2>2 DEF l
    <2> QED
      BY <1>0, <1>1, <2>3, <2>4 DEF nodes!ListsLinked, nodes!Distinct, nodes!Apart
  <1>known. nodes!ConsumersExclude' /\ nodes!CacheKnown'
    BY <1>0, <1>1 DEF nodes!ConsumersExclude, nodes!CacheKnown
  <1> QED
    BY <1>type, <1>chains, <1>lists, <1>known DEF nodes!IInv

\* A consumer is alone, and the cache is what it holds.
LEMMA ConsumerAlone ==
    ASSUME nodes!IInv, NEW c \in Consumers, nodePc[c] # "out"
    PROVE  /\ c \in inside /\ \A d \in Consumers : nodePc[d] # "out" => d = c
           /\ stack.consuming /\ stack.cached /\ nodes!Cached = cur
  BY DEF nodes!IInv, nodes!TypeOK, nodes!ConsumersExclude, nodes!CacheKnown, nodes!Cached

\* A step within a Consumer moves nodes from the stack to the cache, or out of it.
LEMMA ConsumerKeeps ==
    ASSUME nodes!IInv, NEW c \in Consumers, nodePc[c] # "out",
           NEW label \in {"more", "swap", "none", "release"},
           nodePc' = [nodePc EXCEPT ![c] = label],
           UNCHANGED <<nodeNext, list, snap, inside>>,
           stack' \in nodes!Words, stack'.cached, stack'.consuming,
           cache' \in Nodes \cup {Null}, cur' \in Nodes \cup {Null},
           pushed' \in Seq(Nodes), batch' \in Seq(Nodes),
           nodes!Elements(pushed') \subseteq nodes!queued,
           nodes!Elements(batch') \subseteq nodes!queued,
           nodes!Leads(stack.ptr, pushed, Null)', nodes!Leads(cur, batch, Null)',
           nodes!Distinct(pushed)', nodes!Distinct(batch)', nodes!Apart(pushed, batch)',
           label = "swap" => stack'.ptr # Null,
           label \in {"swap", "none"} => cur' = Null,
           label = "release" => cache' = cur'
    PROVE  nodes!IInv'
  <1>0. nodes!TypeOK /\ nodes!ConsumersExclude /\ nodes!ChainsExact /\ nodes!ListsLinked /\ nodes!CacheKnown
    BY DEF nodes!IInv
  <1>1. c \in inside /\ \A d \in Consumers : nodePc[d] # "out" => d = c
    BY ConsumerAlone
  <1>2. nodePc'[c] = label /\ \A d \in Consumers \ {c} : nodePc'[d] = nodePc[d] /\ nodePc[d] = "out"
    BY <1>0, <1>1 DEF nodes!TypeOK
  <1>3. nodePc' \in [Consumers -> {"out", "pop", "more", "swap", "none", "release"}]
    BY <1>0 DEF nodes!TypeOK
  <1>4. inside' = {d \in Consumers : nodePc'[d] # "out"}
    BY <1>0, <1>1, <1>2 DEF nodes!TypeOK
  <1>5. \A d \in Consumers : nodePc'[d] = "swap" => stack'.ptr # Null
    BY <1>2
  <1>type. nodes!TypeOK'
    BY <1>0, <1>3, <1>4, <1>5 DEF nodes!TypeOK
  <1>exclude. nodes!ConsumersExclude'
    BY <1>0, <1>1 DEF nodes!ConsumersExclude
  <1>chains. nodes!ChainsExact'
    <2>1. nodes!Cached' = cur'
      BY <1>1 DEF nodes!Cached
    <2>2. nodes!Leads(nodes!Cached, batch, Null)'
      BY <2>1 DEF nodes!Leads
    <2> QED
      BY <2>2 DEF nodes!ChainsExact
  <1>known. nodes!CacheKnown'
    BY <1>1, <1>2 DEF nodes!CacheKnown
  <1>lists. nodes!ListsLinked'
    BY <1>0, ListsKeep
  <1> QED
    BY <1>type, <1>exclude, <1>chains, <1>known, <1>lists DEF nodes!IInv

\* A pop takes the first node of the cache, after it looked, or of the stack.
LEMMA PopKeeps ==
    ASSUME nodes!IInv, NEW c \in Consumers,
           nodes!PopCache(c) \/ nodes!PopLook(c) \/ nodes!PopSwap(c) \/ nodes!Release(c)
    PROVE  nodes!IInv'
  <1>0. nodes!TypeOK /\ nodes!ChainsExact /\ nodes!CacheKnown
    BY DEF nodes!IInv
  <1>1. nodePc[c] # "out"
    BY DEF nodes!PopCache, nodes!PopLook, nodes!PopSwap, nodes!Release
  <1>2. stack.consuming /\ stack.cached /\ nodes!Cached = cur
    BY <1>1, ConsumerAlone
  <1>3. /\ pushed \in Seq(Nodes) /\ batch \in Seq(Nodes)
        /\ stack \in nodes!Words /\ cur \in Nodes \cup {Null} /\ cache \in Nodes \cup {Null}
        /\ nodeNext \in [Nodes -> Nodes \cup {Null}]
    BY <1>0 DEF nodes!TypeOK
  <1>4. /\ nodes!Leads(stack.ptr, pushed, Null) /\ nodes!Leads(cur, batch, Null)
        /\ nodes!Distinct(pushed) /\ nodes!Distinct(batch) /\ nodes!Apart(pushed, batch)
    BY <1>0, <1>2 DEF nodes!ChainsExact
  <1>5. nodes!Elements(pushed) \subseteq nodes!queued /\ nodes!Elements(batch) \subseteq nodes!queued
    BY DEF nodes!queued
  <1>cache. CASE nodes!PopCache(c)
    <2>1. /\ cur # Null /\ cur' = nodeNext[cur] /\ batch' = Tail(batch)
          /\ nodePc' = [nodePc EXCEPT ![c] = "more"]
          /\ UNCHANGED <<stack, cache, nodeNext, list, snap, inside, pushed>>
      BY <1>cache DEF nodes!PopCache
    <2>2. batch # <<>>
      BY <1>3, <1>4, <2>1, NullLeads
    <2>3. /\ Tail(batch) \in Seq(Nodes) /\ cur \in Nodes
          /\ nodes!Leads(nodeNext[cur], Tail(batch), Null) /\ nodes!Distinct(Tail(batch))
          /\ nodes!Elements(Tail(batch)) \subseteq nodes!Elements(batch)
      BY <1>3, <1>4, <2>2, TailLeads
    <2>4. nodes!Apart(pushed, Tail(batch))
      BY <1>4, <2>3, ApartIs
    <2>5. cur' \in Nodes \cup {Null}
      BY <1>3, <2>1, <2>3
    <2>6. nodes!Leads(stack.ptr, pushed, Null)' /\ nodes!Leads(cur, batch, Null)'
      BY <1>4, <2>1, <2>3 DEF nodes!Leads
    <2>7. nodes!Distinct(pushed)' /\ nodes!Distinct(batch)' /\ nodes!Apart(pushed, batch)'
      BY <1>4, <2>1, <2>3, <2>4 DEF nodes!Distinct, nodes!Apart
    <2>8. nodes!Elements(pushed') \subseteq nodes!queued /\ nodes!Elements(batch') \subseteq nodes!queued
      BY <1>5, <2>1, <2>3
    <2> QED
      BY <1>1, <1>2, <1>3, <2>1, <2>3, <2>5, <2>6, <2>7, <2>8, ConsumerKeeps
  <1>look. CASE nodes!PopLook(c)
    <2> DEFINE label == IF stack.ptr = Null THEN "none" ELSE "swap"
    <2>1. /\ cur = Null /\ nodePc' = [nodePc EXCEPT ![c] = label]
          /\ UNCHANGED <<stack, cache, nodeNext, list, snap, inside, cur, pushed, batch>>
      BY <1>look DEF nodes!PopLook, nodes!history
    <2>2. label \in {"swap", "none"} /\ (label = "swap" => stack.ptr # Null)
      OBVIOUS
    <2> HIDE DEF label
    <2>3. nodes!Leads(stack.ptr, pushed, Null)' /\ nodes!Leads(cur, batch, Null)'
      BY <1>4, <2>1 DEF nodes!Leads
    <2>4. nodes!Distinct(pushed)' /\ nodes!Distinct(batch)' /\ nodes!Apart(pushed, batch)'
      BY <1>4, <2>1 DEF nodes!Distinct, nodes!Apart
    <2>5. nodes!Elements(pushed') \subseteq nodes!queued /\ nodes!Elements(batch') \subseteq nodes!queued
      BY <1>5, <2>1
    <2> QED
      BY <1>1, <1>2, <1>3, <2>1, <2>2, <2>3, <2>4, <2>5, ConsumerKeeps
  <1>swap. CASE nodes!PopSwap(c)
    <2>1. /\ nodePc[c] = "swap" /\ stack' = [ptr |-> Null, cached |-> TRUE, consuming |-> TRUE]
          /\ cur' = nodeNext[stack.ptr] /\ batch' = Tail(pushed) /\ pushed' = <<>>
          /\ nodePc' = [nodePc EXCEPT ![c] = "more"]
          /\ UNCHANGED <<cache, nodeNext, list, snap, inside>>
      BY <1>swap DEF nodes!PopSwap
    <2>2. pushed # <<>>
      <3>1. stack.ptr # Null
        BY <1>0, <2>1 DEF nodes!TypeOK
      <3> QED
        BY <1>3, <1>4, <3>1, NullLeads
    <2>3. /\ Tail(pushed) \in Seq(Nodes) /\ stack.ptr \in Nodes
          /\ nodes!Leads(nodeNext[stack.ptr], Tail(pushed), Null) /\ nodes!Distinct(Tail(pushed))
          /\ nodes!Elements(Tail(pushed)) \subseteq nodes!Elements(pushed)
      BY <1>3, <1>4, <2>2, TailLeads
    <2>4. /\ cur' \in Nodes \cup {Null} /\ stack' \in nodes!Words
          /\ stack'.ptr = Null /\ stack'.cached /\ stack'.consuming /\ pushed' \in Seq(Nodes)
      BY <1>3, <2>1, <2>3 DEF nodes!Words
    <2>5. nodes!Leads(stack.ptr, pushed, Null)'
      BY <2>1, <2>4 DEF nodes!Leads
    <2>6. nodes!Leads(cur, batch, Null)'
      BY <2>1, <2>3 DEF nodes!Leads
    <2>7. nodes!Distinct(pushed)' /\ nodes!Distinct(batch)' /\ nodes!Apart(pushed, batch)'
      BY <2>1, <2>3 DEF nodes!Distinct, nodes!Apart
    <2>8. nodes!Elements(pushed') \subseteq nodes!queued /\ nodes!Elements(batch') \subseteq nodes!queued
      BY <1>5, <2>1, <2>3, NoneLead
    <2> QED
      BY <1>1, <1>3, <2>1, <2>3, <2>4, <2>5, <2>6, <2>7, <2>8, ConsumerKeeps
  <1>release. CASE nodes!Release(c)
    <2>1. /\ cache' = cur /\ nodePc' = [nodePc EXCEPT ![c] = "release"]
          /\ UNCHANGED <<stack, nodeNext, list, snap, inside, cur, pushed, batch>>
      BY <1>release DEF nodes!Release, nodes!history
    <2>3. nodes!Leads(stack.ptr, pushed, Null)' /\ nodes!Leads(cur, batch, Null)'
      BY <1>4, <2>1 DEF nodes!Leads
    <2>4. nodes!Distinct(pushed)' /\ nodes!Distinct(batch)' /\ nodes!Apart(pushed, batch)'
      BY <1>4, <2>1 DEF nodes!Distinct, nodes!Apart
    <2>5. nodes!Elements(pushed') \subseteq nodes!queued /\ nodes!Elements(batch') \subseteq nodes!queued
      BY <1>5, <2>1
    <2> QED
      BY <1>1, <1>2, <1>3, <2>1, <2>3, <2>4, <2>5, ConsumerKeeps
  <1> QED
    BY <1>cache, <1>look, <1>swap, <1>release

\* try_acquire_consumer() takes the stack over if there is no cache.
LEMMA AcquireKeeps ==
    ASSUME nodes!IInv, NEW c \in Consumers, nodes!Acquire(c)
    PROVE  nodes!IInv'
  <1>0. nodes!TypeOK /\ nodes!ConsumersExclude /\ nodes!ChainsExact /\ nodes!ListsLinked /\ nodes!CacheKnown
    BY DEF nodes!IInv
  <1>1. /\ nodePc[c] = "out" /\ ~stack.consuming
        /\ stack' = [ptr |-> IF stack.cached THEN stack.ptr ELSE Null, cached |-> TRUE, consuming |-> TRUE]
        /\ cur' = IF cache # Null THEN cache ELSE stack.ptr
        /\ inside' = inside \cup {c} /\ nodePc' = [nodePc EXCEPT ![c] = "pop"]
        /\ IF stack.cached THEN UNCHANGED <<pushed, batch>> ELSE batch' = pushed /\ pushed' = <<>>
        /\ UNCHANGED <<cache, nodeNext, list, snap>>
    BY DEF nodes!Acquire, nodes!MayConsume, nodes!history
  <1>2. inside = {} /\ (stack.cached <=> cache # Null) /\ nodes!Cached = cache
    BY <1>0, <1>1 DEF nodes!ConsumersExclude, nodes!CacheKnown, nodes!Cached
  <1>3. pushed \in Seq(Nodes) /\ batch \in Seq(Nodes) /\ stack \in nodes!Words /\ cache \in Nodes \cup {Null}
    BY <1>0 DEF nodes!TypeOK
  <1>4. /\ nodes!Leads(stack.ptr, pushed, Null) /\ nodes!Leads(cache, batch, Null)
        /\ nodes!Distinct(pushed) /\ nodes!Distinct(batch) /\ nodes!Apart(pushed, batch)
    BY <1>0, <1>2 DEF nodes!ChainsExact
  <1>5. nodes!Elements(pushed) \subseteq nodes!queued /\ nodes!Elements(batch) \subseteq nodes!queued
    BY DEF nodes!queued
  <1>6. inside' = {c} /\ nodePc'[c] = "pop" /\ \A d \in Consumers \ {c} : nodePc'[d] = "out"
    BY <1>0, <1>1, <1>2 DEF nodes!TypeOK
  <1>7. stack' \in nodes!Words /\ stack'.cached /\ stack'.consuming /\ cur' \in Nodes \cup {Null}
    BY <1>1, <1>3 DEF nodes!Words
  <1>8. /\ pushed' \in Seq(Nodes) /\ batch' \in Seq(Nodes)
        /\ nodes!Elements(pushed') \subseteq nodes!queued /\ nodes!Elements(batch') \subseteq nodes!queued
        /\ nodes!Distinct(pushed)' /\ nodes!Distinct(batch)' /\ nodes!Apart(pushed, batch)'
        /\ nodes!Leads(stack.ptr, pushed, Null)' /\ nodes!Leads(cur, batch, Null)'
    <2>1. CASE stack.cached
      <3>1. pushed' = pushed /\ batch' = batch /\ cur' = cache /\ stack'.ptr = stack.ptr
        BY <1>1, <1>2, <2>1
      <3> QED
        BY <1>1, <1>3, <1>4, <1>5, <3>1 DEF nodes!Distinct, nodes!Apart, nodes!Leads
    <2>2. CASE ~stack.cached
      <3>1. pushed' = <<>> /\ batch' = pushed /\ cur' = stack.ptr /\ stack'.ptr = Null
        BY <1>1, <1>2, <2>2
      <3>2. nodes!Elements(pushed') \subseteq nodes!queued
        BY <3>1, NoneLead
      <3>3. nodes!Distinct(pushed)' /\ nodes!Distinct(batch)' /\ nodes!Apart(pushed, batch)'
        BY <1>4, <3>1 DEF nodes!Distinct, nodes!Apart
      <3>4. nodes!Leads(stack.ptr, pushed, Null)' /\ nodes!Leads(cur, batch, Null)'
        BY <1>1, <1>4, <3>1 DEF nodes!Leads
      <3>5. pushed' \in Seq(Nodes)
        BY <3>1
      <3> QED
        BY <1>3, <1>5, <3>1, <3>2, <3>3, <3>4, <3>5
    <2> QED
      BY <2>1, <2>2
  <1>type. nodes!TypeOK'
    BY <1>0, <1>1, <1>6, <1>7, <1>8 DEF nodes!TypeOK
  <1>chains. nodes!ChainsExact'
    <2>1. nodes!Cached' = cur'
      BY <1>6 DEF nodes!Cached
    <2>2. nodes!Leads(nodes!Cached, batch, Null)'
      BY <1>8, <2>1 DEF nodes!Leads
    <2> QED
      BY <1>7, <1>8, <2>2 DEF nodes!ChainsExact
  <1>lists. nodes!ListsLinked'
    BY <1>0, <1>1, <1>8, ListsKeep
  <1>known. nodes!ConsumersExclude' /\ nodes!CacheKnown'
    BY <1>6, <1>7 DEF nodes!ConsumersExclude, nodes!CacheKnown
  <1> QED
    BY <1>type, <1>chains, <1>lists, <1>known DEF nodes!IInv

\* The consumer leaves with the flag that tells whether it leaves a cache.
LEMMA ReleaseSubKeeps ==
    ASSUME nodes!IInv, NEW c \in Consumers, nodes!ReleaseSub(c)
    PROVE  nodes!IInv'
  <1>0. nodes!TypeOK /\ nodes!ConsumersExclude /\ nodes!ChainsExact /\ nodes!ListsLinked /\ nodes!CacheKnown
    BY DEF nodes!IInv
  <1>1. /\ nodePc[c] = "release" /\ nodePc' = [nodePc EXCEPT ![c] = "out"]
        /\ stack' = [stack EXCEPT !.consuming = FALSE, !.cached = (cur # Null)]
        /\ cur' = Null /\ inside' = inside \ {c}
        /\ UNCHANGED <<cache, nodeNext, list, snap, pushed, batch>>
    BY DEF nodes!ReleaseSub, nodes!KeepsCache, nodes!history
  <1>2. /\ c \in inside /\ \A d \in Consumers : nodePc[d] # "out" => d = c
        /\ nodes!Cached = cur
    BY <1>1, ConsumerAlone
  <1>3. cache = cur
    BY <1>0, <1>1 DEF nodes!CacheKnown
  <1>4. inside' = {} /\ \A d \in Consumers : nodePc'[d] = "out"
    BY <1>0, <1>1, <1>2 DEF nodes!TypeOK, nodes!ConsumersExclude
  <1>5. /\ stack' \in nodes!Words /\ stack'.ptr = stack.ptr
        /\ stack'.consuming = FALSE /\ stack'.cached = (cur # Null)
    BY <1>0, <1>1 DEF nodes!TypeOK, nodes!Words
  <1>type. nodes!TypeOK'
    BY <1>0, <1>1, <1>4, <1>5 DEF nodes!TypeOK
  <1>chains. nodes!ChainsExact'
    <2>1. nodes!Cached' = cur /\ nodes!Leads(cur, batch, Null) /\ nodes!Leads(stack.ptr, pushed, Null)
      BY <1>0, <1>1, <1>2, <1>3, <1>4 DEF nodes!Cached, nodes!ChainsExact
    <2>2. nodes!Leads(nodes!Cached, batch, Null)' /\ nodes!Leads(stack.ptr, pushed, Null)'
      BY <1>1, <1>5, <2>1 DEF nodes!Leads
    <2>3. cur = Null => batch = <<>>
      BY <1>0, <2>1, NullLeads DEF nodes!TypeOK
    <2>4. stack.ptr = Null => pushed = <<>>
      BY <1>0, <2>1, NullLeads DEF nodes!TypeOK
    <2> QED
      BY <1>0, <1>1, <1>5, <2>2, <2>3, <2>4 DEF nodes!ChainsExact, nodes!Distinct, nodes!Apart
  <1>lists. nodes!ListsLinked'
    BY <1>0, <1>1, ListsKeep DEF nodes!queued
  <1>known. nodes!ConsumersExclude' /\ nodes!CacheKnown'
    BY <1>1, <1>3, <1>4, <1>5 DEF nodes!ConsumersExclude, nodes!CacheKnown
  <1> QED
    BY <1>type, <1>chains, <1>lists, <1>known DEF nodes!IInv

\* Every step of node::Queue keeps its invariant.
LEMMA NodesStep == nodes!IInv /\ nodes!Next => nodes!IInv'
  BY BeginKeeps, PushKeeps, RelinkKeeps, AcquireKeeps, PopKeeps, ReleaseSubKeeps
  DEF nodes!Next, nodes!Consume

\* A step elsewhere is none of node::Queue.
LEMMA NodesIdle == nodes!IInv /\ UNCHANGED nodeVars => nodes!IInv'
  BY DEF nodeVars, nodes!IInv, nodes!TypeOK, nodes!ConsumersExclude, nodes!ChainsExact, nodes!ListsLinked,
         nodes!CacheKnown, nodes!Cached, nodes!Leads, nodes!Apart, nodes!Distinct

\* A new node::Queue.
LEMMA NodesInit == nodes!Init => nodes!IInv
  <1> SUFFICES ASSUME nodes!Init PROVE nodes!IInv
    OBVIOUS
  <1>1. nodes!TypeOK
    BY DEF nodes!Init, nodes!TypeOK, nodes!Empty, nodes!Words
  <1>2. inside = {} /\ stack.ptr = Null /\ ~stack.cached /\ ~stack.consuming
    BY DEF nodes!Init, nodes!Empty
  <1>3. nodes!ConsumersExclude /\ nodes!CacheKnown
    BY <1>2 DEF nodes!Init, nodes!ConsumersExclude, nodes!CacheKnown
  <1>4. nodes!ChainsExact
    BY <1>2, NoneLead DEF nodes!Init, nodes!ChainsExact, nodes!Cached, nodes!Apart
  <1>5. nodes!ListsLinked
    BY DEF nodes!Init, nodes!ListsLinked
  <1> QED
    BY <1>1, <1>3, <1>4, <1>5 DEF nodes!IInv

\* node::Queue keeps its invariant.
LEMMA NodesAlways == SpecAll => []nodes!IInv
  <1>1. InitAll => nodes!IInv
    BY NodesInit DEF InitAll
  <1>2. nodes!IInv /\ [NextAll]_allVars => nodes!IInv'
    BY NodesStep, NodesIdle DEF NextAll, Use, allVars
  <1> QED
    BY <1>1, <1>2, PTL DEF SpecAll

\* node::Queue: one consumer at a time; the stack and the cache are chains with exactly the
\* nodes pushed and not popped, and Err(Empty) is the truth.
THEOREM NodesChainsExact == SpecAll => []ChainsExact
  <1>1. nodes!IInv => ChainsExact
    BY DEF nodes!IInv, ChainsExact
  <1> QED
    BY <1>1, NodesAlways, PTL

-----------------------------------------------------------------------------
(* signal_ring.rs *)

\* What the constants of signal_ring.rs are; the slots divide the indices.
LEMMA RingConstants ==
    /\ Capacity \in Nat \ {0} /\ IndexMod \in Nat \ {0} /\ 2 * Capacity <= IndexMod
    /\ 0 \notin Signals
    /\ \E k \in Int : IndexMod = Capacity * k
  <1>1. /\ Capacity \in Nat \ {0} /\ IndexMod \in Nat /\ 2 * Capacity <= IndexMod
        /\ IndexMod % Capacity = 0 /\ 0 \notin Signals
    BY QueuesAssumption DEF QueuesAssumption, ring!RingAssumption
  <1>2. PICK q \in Int, r \in 0 .. Capacity - 1 : IndexMod = (Capacity * q) + r /\ r = (IndexMod % Capacity)
    BY <1>1, Quotient
  <1>3. IndexMod = Capacity * q
    BY <1>1, <1>2
  <1> QED
    BY <1>1, <1>3

\* An index and its slot are in range, and the next index is one position on.
LEMMA IndexRange ==
    ASSUME NEW x \in Int
    PROVE  x % IndexMod \in ring!Indices /\ ring!Slot(x) \in 0 .. Capacity - 1
  <1>1. x % IndexMod \in 0 .. IndexMod - 1 /\ x % Capacity \in 0 .. Capacity - 1
    BY RingConstants
  <1> QED
    BY <1>1 DEF ring!Indices, ring!Slot

\* Different pending signals have different slots.
LEMMA PositionsApart ==
    ASSUME head \in ring!Indices, NEW i \in 1 .. Capacity, NEW j \in 1 .. Capacity,
           ring!Slot(ring!Position(i)) = ring!Slot(ring!Position(j))
    PROVE  i = j
  <1>1. PICK k \in Int : IndexMod = Capacity * k
    BY RingConstants
  <1>2. ASSUME NEW n \in 1 .. Capacity
        PROVE  ring!Slot(ring!Position(n)) = (head + (n - 1)) % Capacity
    <2>1. head + (n - 1) \in 0 .. (2 * IndexMod) - 1
      BY RingConstants DEF ring!Indices
    <2>2. ring!Position(n) = IF head + (n - 1) < IndexMod THEN head + (n - 1) ELSE (head + (n - 1)) - IndexMod
      BY <2>1, RingConstants, Wrap DEF ring!Position
    <2>3. (head + (n - 1)) - IndexMod = (head + (n - 1)) + (Capacity * (-k)) /\ -k \in Int
      BY <1>1, RingConstants, <2>1
    <2>4. ((head + (n - 1)) + (Capacity * (-k))) % Capacity = (head + (n - 1)) % Capacity
      <3>1. head + (n - 1) \in Int /\ -k \in Int
        BY <2>1, <2>3
      <3>2. \A c \in Nat \ {0} : ((head + (n - 1)) + (c * (-k))) % c = (head + (n - 1)) % c
        BY <3>1, Shift, Zenon
      <3> QED
        BY <3>2, RingConstants
    <2> QED
      BY <2>2, <2>3, <2>4 DEF ring!Slot
  <1>3. (head + (i - 1)) % Capacity = (head + (j - 1)) % Capacity
    BY <1>2
  <1>4. /\ head + (i - 1) \in Int /\ head + (j - 1) \in Int
        /\ (head + (i - 1)) - (head + (j - 1)) < Capacity
        /\ -Capacity < (head + (i - 1)) - (head + (j - 1))
    BY RingConstants DEF ring!Indices
  <1>5. head + (i - 1) = head + (j - 1)
    BY <1>3, <1>4, RingConstants, Slots
  <1> QED
    BY <1>5, RingConstants DEF ring!Indices

\* A position is an index, and has a slot.
LEMMA PositionRange ==
    ASSUME head \in ring!Indices, NEW i \in Nat
    PROVE  ring!Position(i) \in ring!Indices /\ ring!Slot(ring!Position(i)) \in 0 .. Capacity - 1
  <1>1. head + (i - 1) \in Int
    BY DEF ring!Indices
  <1>2. ring!Position(i) \in ring!Indices
    BY <1>1, IndexRange DEF ring!Position
  <1>3. ring!Position(i) \in Int
    BY <1>2 DEF ring!Indices
  <1> QED
    BY <1>2, <1>3, IndexRange

\* The position of the signal at the head is head.
LEMMA PositionFirst ==
    ASSUME head \in ring!Indices
    PROVE  ring!Position(1) = head
  BY RingConstants, Wrap DEF ring!Position, ring!Indices

\* What a producer may claim.
LEMMA RoomIs ==
    ASSUME head \in ring!Indices, NEW n \in 0 .. Capacity, tail = (head + n) % IndexMod
    PROVE  /\ ring!Used(<<head, tail>>) = n
           /\ ring!Position(n + 1) = tail
           /\ ring!Next1(tail) = (head + (n + 1)) % IndexMod
           /\ n < Capacity => (tail = head <=> n = 0)
  <1>0. Capacity \in Nat \ {0} /\ IndexMod \in Nat \ {0} /\ 2 * Capacity <= IndexMod /\ head \in 0 .. IndexMod - 1
    BY RingConstants DEF ring!Indices
  <1>1. head + n \in 0 .. (2 * IndexMod) - 1
    BY <1>0
  <1>2. tail = IF head + n < IndexMod THEN head + n ELSE (head + n) - IndexMod
    BY <1>0, <1>1, Wrap
  <1>3. tail - head \in 1 - IndexMod .. IndexMod - 1
    BY <1>0, <1>2
  <1>4. (tail - head) % IndexMod = IF tail - head < 0 THEN (tail - head) + IndexMod ELSE tail - head
    BY <1>0, <1>3, WrapBack
  <1>5. (tail - head) % IndexMod = n
    BY <1>0, <1>2, <1>4
  <1>6. tail + 1 \in 0 .. (2 * IndexMod) - 1 /\ head + (n + 1) \in 0 .. (2 * IndexMod) - 1
    BY <1>0, <1>2
  <1>7. /\ (tail + 1) % IndexMod = IF tail + 1 < IndexMod THEN tail + 1 ELSE (tail + 1) - IndexMod
        /\ (head + (n + 1)) % IndexMod = IF head + (n + 1) < IndexMod THEN head + (n + 1)
                                         ELSE (head + (n + 1)) - IndexMod
    BY <1>0, <1>6, Wrap
  <1>8. (tail + 1) % IndexMod = (head + (n + 1)) % IndexMod
    BY <1>0, <1>2, <1>7
  <1>9. (n + 1) - 1 = n
    OBVIOUS
  <1>10. tail = head <=> n = 0
    BY <1>0, <1>2
  <1> QED
    BY <1>5, <1>8, <1>9, <1>10 DEF ring!Used, ring!Position, ring!Next1

\* When head moves, every other position moves up.
LEMMA HeadMoves ==
    ASSUME head \in ring!Indices, NEW n \in 1 .. Capacity, head' = ring!Next1(head)
    PROVE  /\ head' \in ring!Indices
           /\ (head + n) % IndexMod = (head' + (n - 1)) % IndexMod
           /\ ring!Position(n)' = ring!Position(n + 1)
  <1>0. Capacity \in Nat \ {0} /\ IndexMod \in Nat \ {0} /\ 2 * Capacity <= IndexMod /\ head \in 0 .. IndexMod - 1
    BY RingConstants DEF ring!Indices
  <1>1. head + 1 \in 0 .. (2 * IndexMod) - 1 /\ head + n \in 0 .. (2 * IndexMod) - 1
    BY <1>0
  <1>2. head' = (head + 1) % IndexMod
    BY DEF ring!Next1
  <1>3. head' = IF head + 1 < IndexMod THEN head + 1 ELSE (head + 1) - IndexMod
    BY <1>0, <1>1, <1>2, Wrap
  <1>4. (head + n) % IndexMod = IF head + n < IndexMod THEN head + n ELSE (head + n) - IndexMod
    BY <1>0, <1>1, Wrap
  <1>5. head' + (n - 1) \in 0 .. (2 * IndexMod) - 1
    BY <1>0, <1>3
  <1>6. (head' + (n - 1)) % IndexMod
        = IF head' + (n - 1) < IndexMod THEN head' + (n - 1) ELSE (head' + (n - 1)) - IndexMod
    BY <1>0, <1>5, Wrap
  <1>7. (head + n) % IndexMod = (head' + (n - 1)) % IndexMod
    BY <1>0, <1>3, <1>4, <1>6
  <1>8. (n + 1) - 1 = n
    OBVIOUS
  <1>9. head' \in ring!Indices
    BY <1>0, <1>3 DEF ring!Indices
  <1> QED
    BY <1>7, <1>8, <1>9 DEF ring!Position

\* The types of the ring.
LEMMA RingShape ==
    ASSUME ring!TypeOK
    PROVE  /\ pending \in Seq(Signals) /\ Len(pending) \in Nat /\ DOMAIN pending = 1 .. Len(pending)
           /\ \A i \in 1 .. Len(pending) : pending[i] \in Signals /\ pending[i] # 0
           /\ head \in ring!Indices /\ tail \in ring!Indices /\ <<head, tail>> \in ring!Indices \X ring!Indices
           /\ slots \in [0 .. Capacity - 1 -> Signals \cup {0}]
           /\ ringPc \in [Producers -> {"idle", "claim", "store"}]
           /\ signal \in [Producers -> Signals \cup {0}]
           /\ seen \in [Producers -> ring!Indices \X ring!Indices]
  BY RingConstants DEF ring!TypeOK

\* The pair of a producer that is not in enqueue().
LEMMA ZeroIndex == <<0, 0>> \in ring!Indices \X ring!Indices
  BY RingConstants DEF ring!Indices

\* The pending signals are no more than the slots.
LEMMA PendingIs ==
    ASSUME ring!TypeOK, ring!IndicesExact
    PROVE  \E n \in 0 .. Capacity :
              /\ n = Len(pending) /\ DOMAIN pending = 1 .. n /\ tail = (head + n) % IndexMod
              /\ n \in Nat /\ Capacity \in Nat /\ Capacity > 0
              /\ \A i \in 1 .. n : i \in 1 .. Capacity /\ i \in Nat
  <1>1. PICK n \in Nat : n = Len(pending) /\ DOMAIN pending = 1 .. n
    BY RingShape
  <1>2. Capacity \in Nat /\ Capacity > 0
    BY RingConstants
  <1>3. n <= Capacity /\ tail = (head + n) % IndexMod
    BY <1>1 DEF ring!IndicesExact
  <1>4. n \in 0 .. Capacity /\ \A i \in 1 .. n : i \in 1 .. Capacity /\ i \in Nat
    BY <1>2, <1>3
  <1> QED
    BY <1>1, <1>2, <1>3, <1>4

\* A producer that neither claims nor stores.
LEMMA EnqueueKeeps ==
    ASSUME ring!IInv, NEW p \in Producers, ringPc[p] # "store",
           NEW label \in {"idle", "claim"}, NEW s \in Signals \cup {0}, label # "idle" => s # 0,
           NEW x \in ring!Indices \X ring!Indices,
           ringPc' = [ringPc EXCEPT ![p] = label],
           signal' = [signal EXCEPT ![p] = s],
           seen' = [seen EXCEPT ![p] = x],
           UNCHANGED <<slots, head, tail, ringAt, ringTaken, held, ringOut, pending>>
    PROVE  ring!IInv'
  <1>0. ring!TypeOK /\ ring!IndicesExact /\ ring!SlotsExact /\ ring!ConsumerKnows
    BY DEF ring!IInv
  <1>1. /\ ringPc'[p] = label /\ signal'[p] = s /\ seen'[p] = x
        /\ \A q \in Producers \ {p} : ringPc'[q] = ringPc[q] /\ signal'[q] = signal[q] /\ seen'[q] = seen[q]
    BY <1>0, RingShape
  <1>2. \A q \in Producers : ringPc'[q] = "store" <=> ringPc[q] = "store"
    BY <1>1
  <1>3. \A q \in Producers, i \in 1 .. Len(pending) : ring!Storing(q, i)' <=> ring!Storing(q, i)
    BY <1>1, <1>2 DEF ring!Storing, ring!Position
  <1>type. ring!TypeOK'
    BY <1>0, <1>1 DEF ring!TypeOK
  <1>indices. ring!IndicesExact'
    BY <1>0 DEF ring!IndicesExact
  <1>slots. ring!SlotsExact'
    BY <1>0, <1>1, <1>2, <1>3 DEF ring!SlotsExact, ring!Position
  <1>knows. ring!ConsumerKnows'
    BY <1>0, <1>1, <1>2 DEF ring!ConsumerKnows
  <1> QED
    BY <1>type, <1>indices, <1>slots, <1>knows DEF ring!IInv

\* A claim takes the next slot, which is free.
LEMMA ClaimKeeps ==
    ASSUME ring!IInv, NEW p \in Producers, ring!Claim(p), <<head, tail>> = seen[p]
    PROVE  ring!IInv'
  <1>0. ring!TypeOK /\ ring!IndicesExact /\ ring!SlotsExact /\ ring!ConsumerKnows
    BY DEF ring!IInv
  <1>1. /\ ringPc[p] = "claim" /\ ring!Used(<<head, tail>>) < Capacity
        /\ tail' = ring!Next1(tail) /\ pending' = Append(pending, signal[p])
        /\ ringPc' = [ringPc EXCEPT ![p] = "store"]
        /\ UNCHANGED <<slots, head, seen, signal, ringAt, ringTaken, held, ringOut>>
    BY DEF ring!Claim, ring!consumer
  <1>2. PICK n \in 0 .. Capacity :
              /\ n = Len(pending) /\ DOMAIN pending = 1 .. n /\ tail = (head + n) % IndexMod
              /\ n \in Nat /\ Capacity \in Nat /\ Capacity > 0
              /\ \A i \in 1 .. n : i \in 1 .. Capacity /\ i \in Nat
    BY <1>0, PendingIs
  <1>room. /\ ring!Used(<<head, tail>>) = n /\ ring!Position(n + 1) = tail
           /\ ring!Next1(tail) = (head + (n + 1)) % IndexMod
    BY <1>0, <1>2, RoomIs, RingShape
  <1>3. /\ n + 1 \in 1 .. Capacity /\ n \in Nat /\ ring!Position(n + 1) = tail
        /\ tail' = (head + (n + 1)) % IndexMod
    BY <1>1, <1>2, <1>room
  <1>4. signal[p] \in Signals /\ signal[p] # 0
    BY <1>0, <1>1, RingShape DEF ring!TypeOK
  <1>5. /\ pending' \in Seq(Signals) /\ Len(pending') = n + 1
        /\ \A i \in 1 .. n : pending'[i] = pending[i]
        /\ pending'[n + 1] = signal[p]
    BY <1>0, <1>1, <1>2, <1>3, <1>4, RingShape
  <1>6. \A i \in 1 .. (n + 1) : i \in 1 .. Capacity /\ (i \in 1 .. n \/ i = n + 1)
    BY <1>2, <1>3
  <1>7. \A i \in 1 .. (n + 1) : ring!Position(i)' = ring!Position(i)
    BY <1>1 DEF ring!Position
  <1>8. /\ ringPc'[p] = "store" /\ \A q \in Producers \ {p} : ringPc'[q] = ringPc[q]
        /\ seen[p][2] = tail
    BY <1>0, <1>1, RingShape
  <1>9. slots[ring!Slot(tail)] = 0
    <2>1. ring!Slot(tail) \in 0 .. Capacity - 1
      BY <1>0, <1>3, PositionRange, RingShape
    <2>2. \A i \in 1 .. n : ring!Slot(ring!Position(i)) # ring!Slot(tail)
      <3>1. \A i \in 1 .. n : i # n + 1 /\ i \in 1 .. Capacity
        BY <1>2, <1>3
      <3> QED
        BY <1>0, <1>3, <3>1, PositionsApart, RingShape
    <2> QED
      BY <1>0, <1>2, <2>1, <2>2 DEF ring!SlotsExact
  <1>10. \A q \in Producers, i \in 1 .. n : ring!Storing(q, i) => ring!Storing(q, i)' /\ q # p
    BY <1>1, <1>5, <1>6, <1>7, <1>8 DEF ring!Storing, ring!Slot
  <1>11. ring!Storing(p, n + 1)'
    BY <1>1, <1>3, <1>5, <1>7, <1>8, <1>9 DEF ring!Storing, ring!Slot
  <1>12. n + 1 \in 1 .. (n + 1) /\ \A i \in 1 .. n : i \in 1 .. (n + 1)
    BY <1>3
  <1>type. ring!TypeOK'
    <2>1. tail' \in ring!Indices
      <3>1. head + (n + 1) \in Int
        BY <1>0, <1>3, RingShape, RingConstants DEF ring!Indices
      <3> QED
        BY <1>3, <3>1, IndexRange
    <2>2. ringPc' \in [Producers -> {"idle", "claim", "store"}]
      BY <1>0, <1>1, RingShape
    <2>3. \A q \in Producers : ringPc'[q] # "idle" => signal'[q] # 0
      BY <1>0, <1>1, <1>4, <1>8 DEF ring!TypeOK
    <2> QED
      BY <1>0, <1>1, <1>5, <2>1, <2>2, <2>3 DEF ring!TypeOK
  <1>indices. ring!IndicesExact'
    BY <1>1, <1>3, <1>5 DEF ring!IndicesExact
  <1>slots. ring!SlotsExact'
    <2>1. ASSUME NEW i \in 1 .. (n + 1)
          PROVE  \/ slots'[ring!Slot(ring!Position(i))'] = pending'[i]
                 \/ \E q \in Producers : ring!Storing(q, i)'
                 \/ i = 1 /\ ringAt' = "move"
      <3>1. CASE i \in 1 .. n
        <4>1. \/ slots[ring!Slot(ring!Position(i))] = pending[i]
              \/ \E q \in Producers : ring!Storing(q, i)
              \/ i = 1 /\ ringAt = "move"
          BY <1>0, <1>2, <3>1 DEF ring!SlotsExact
        <4>2. ring!Slot(ring!Position(i))' = ring!Slot(ring!Position(i))
          BY <1>7 DEF ring!Slot
        <4> QED
          BY <1>1, <1>5, <1>10, <3>1, <4>1, <4>2
      <3> QED
        BY <1>6, <1>11, <3>1
    <2>2. ASSUME NEW j \in 0 .. Capacity - 1, slots'[j] # 0
          PROVE  \E i \in 1 .. (n + 1) : ring!Slot(ring!Position(i))' = j
      <3>1. PICK i \in 1 .. n : ring!Slot(ring!Position(i)) = j
        BY <1>0, <1>1, <1>2, <2>2 DEF ring!SlotsExact
      <3> QED
        BY <1>7, <1>12, <3>1 DEF ring!Slot
    <2>3. ASSUME NEW q \in Producers, ringPc'[q] = "store"
          PROVE  \E i \in 1 .. (n + 1) : ring!Storing(q, i)'
      <3>1. q # p => \E i \in 1 .. n : ring!Storing(q, i)
        BY <1>0, <1>2, <1>8, <2>3 DEF ring!SlotsExact
      <3> QED
        BY <1>10, <1>11, <1>12, <3>1
    <2>4. ASSUME NEW q \in Producers \ {p}, ringPc[q] = "store" PROVE seen[q][2] # tail
      <3>1. PICK i \in 1 .. n : ring!Storing(q, i)
        BY <1>0, <1>2, <2>4 DEF ring!SlotsExact
      <3>2. seen[q][2] = ring!Position(i) /\ i # n + 1 /\ i \in 1 .. Capacity
        BY <1>2, <1>3, <3>1 DEF ring!Storing
      <3> QED
        BY <1>0, <1>3, <3>2, PositionsApart, RingShape
    <2>5. \A q, r \in Producers :
            ringPc'[q] = "store" /\ ringPc'[r] = "store" /\ seen'[q][2] = seen'[r][2] => q = r
      BY <1>0, <1>1, <1>8, <2>4 DEF ring!SlotsExact
    <2> QED
      BY <1>5, <2>1, <2>2, <2>3, <2>5 DEF ring!SlotsExact
  <1>knows. ring!ConsumerKnows'
    <2>1. ringAt # "idle" => Len(pending') > 0 /\ n > 0
      BY <1>0, <1>2, <1>5 DEF ring!ConsumerKnows
    <2>2. n > 0 => pending'[1] = pending[1] /\ 1 \in 1 .. Capacity /\ 1 # n + 1
      BY <1>2, <1>5, RingConstants
    <2>3. n > 0 => tail # head
      BY <1>0, <1>3, <2>2, PositionFirst, PositionsApart, RingShape
    <2>4. ring!Slot(head)' = ring!Slot(head)
      BY <1>1 DEF ring!Slot
    <2> QED
      BY <1>0, <1>1, <1>8, <2>1, <2>2, <2>3, <2>4 DEF ring!ConsumerKnows
  <1> QED
    BY <1>type, <1>indices, <1>slots, <1>knows DEF ring!IInv

\* A store fills the slot that the producer claimed.
LEMMA StoreKeeps ==
    ASSUME ring!IInv, NEW p \in Producers, ring!Store(p)
    PROVE  ring!IInv'
  <1>0. ring!TypeOK /\ ring!IndicesExact /\ ring!SlotsExact /\ ring!ConsumerKnows
    BY DEF ring!IInv
  <1>1. /\ ringPc[p] = "store" /\ slots' = [slots EXCEPT ![ring!Slot(seen[p][2])] = signal[p]]
        /\ ringPc' = [ringPc EXCEPT ![p] = "idle"] /\ signal' = [signal EXCEPT ![p] = 0]
        /\ seen' = [seen EXCEPT ![p] = <<0, 0>>]
        /\ UNCHANGED <<head, tail, ringAt, ringTaken, held, ringOut, pending>>
    BY DEF ring!Store, ring!Leave, ring!consumer
  <1>2. PICK n \in 0 .. Capacity :
              /\ n = Len(pending) /\ DOMAIN pending = 1 .. n /\ tail = (head + n) % IndexMod
              /\ n \in Nat /\ Capacity \in Nat /\ Capacity > 0
              /\ \A i \in 1 .. n : i \in 1 .. Capacity /\ i \in Nat
    BY <1>0, PendingIs
  <1>3. PICK k \in 1 .. n : ring!Storing(p, k)
    BY <1>0, <1>1, <1>2 DEF ring!SlotsExact
  <1>4. seen[p][2] = ring!Position(k) /\ signal[p] = pending[k] /\ k \in 1 .. Capacity
    BY <1>2, <1>3 DEF ring!Storing
  <1> DEFINE place(i) == ring!Slot(ring!Position(i))
  <1>5. \A i \in 1 .. n : place(i) \in 0 .. Capacity - 1 /\ (place(i) = place(k) => i = k)
    <2>1. \A i \in 1 .. n : i \in Nat /\ i \in 1 .. Capacity
      BY <1>2
    <2> QED
      BY <1>0, <1>4, <2>1, PositionsApart, PositionRange, RingShape DEF place
  <1>6. \A i \in Nat : ring!Position(i)' = ring!Position(i) /\ place(i)' = place(i)
    BY <1>1 DEF ring!Position, ring!Slot
  <1> HIDE DEF place
  <1>7. slots' = [slots EXCEPT ![place(k)] = pending[k]]
    BY <1>1, <1>4 DEF place
  <1>8. /\ slots'[place(k)] = pending[k] /\ \A j \in 0 .. Capacity - 1 : j # place(k) => slots'[j] = slots[j]
    BY <1>0, <1>5, <1>7, RingShape
  <1>9. /\ ringPc'[p] = "idle"
        /\ \A q \in Producers \ {p} : ringPc'[q] = ringPc[q] /\ signal'[q] = signal[q] /\ seen'[q] = seen[q]
    BY <1>0, <1>1, RingShape
  <1>10. ASSUME NEW q \in Producers \ {p}, NEW i \in 1 .. n, ring!Storing(q, i)
         PROVE  ring!Storing(q, i)'
    <2>1. ringPc[q] = "store" /\ seen[q][2] = ring!Position(i) /\ signal[q] = pending[i] /\ slots[place(i)] = 0
      BY <1>10 DEF ring!Storing, place
    <2>2. i # k
      BY <1>0, <1>1, <1>4, <2>1 DEF ring!SlotsExact
    <2>3. slots'[place(i)] = 0
      BY <1>5, <1>8, <2>1, <2>2
    <2>4. i \in Nat
      BY <1>2
    <2> QED
      BY <1>1, <1>6, <1>9, <2>1, <2>3, <2>4 DEF ring!Storing, place
  <1>type. ring!TypeOK'
    <2>1. /\ slots' \in [0 .. Capacity - 1 -> Signals \cup {0}]
          /\ ringPc' \in [Producers -> {"idle", "claim", "store"}]
          /\ signal' \in [Producers -> Signals \cup {0}]
          /\ seen' \in [Producers -> ring!Indices \X ring!Indices]
      BY <1>0, <1>1, RingShape, ZeroIndex
    <2>2. \A q \in Producers : ringPc'[q] # "idle" => signal'[q] # 0
      BY <1>0, <1>9 DEF ring!TypeOK
    <2> QED
      BY <1>0, <1>1, <2>1, <2>2 DEF ring!TypeOK
  <1>indices. ring!IndicesExact'
    BY <1>0, <1>1 DEF ring!IndicesExact
  <1>slots. ring!SlotsExact'
    <2>1. ASSUME NEW i \in 1 .. n
          PROVE  \/ slots'[place(i)] = pending[i]
                 \/ \E q \in Producers : ring!Storing(q, i)'
                 \/ i = 1 /\ ringAt = "move"
      <3>1. CASE i = k
        BY <1>8, <3>1
      <3>2. CASE i # k
        <4>1. \/ slots[place(i)] = pending[i]
              \/ \E q \in Producers : ring!Storing(q, i)
              \/ i = 1 /\ ringAt = "move"
          BY <1>0, <1>2 DEF ring!SlotsExact, place
        <4>2. slots'[place(i)] = slots[place(i)]
          BY <1>5, <1>8, <3>2
        <4>3. \A q \in Producers : ring!Storing(q, i) => q # p
          <5>1. ring!Storing(p, i) => place(i) = place(k)
            BY <1>4 DEF ring!Storing, place
          <5> QED
            BY <1>5, <3>2, <5>1
        <4> QED
          BY <1>10, <4>1, <4>2, <4>3
      <3> QED
        BY <3>1, <3>2
    <2>2. ASSUME NEW j \in 0 .. Capacity - 1, slots'[j] # 0
          PROVE  \E i \in 1 .. n : place(i) = j
      <3>1. CASE j = place(k)
        BY <3>1
      <3>2. CASE j # place(k)
        BY <1>0, <1>2, <1>8, <2>2, <3>2 DEF ring!SlotsExact, place
      <3> QED
        BY <3>1, <3>2
    <2>3. \A q \in Producers : ringPc'[q] = "store" => \E i \in 1 .. n : ring!Storing(q, i)'
      BY <1>0, <1>2, <1>9, <1>10 DEF ring!SlotsExact
    <2>4. \A q, r \in Producers :
            ringPc'[q] = "store" /\ ringPc'[r] = "store" /\ seen'[q][2] = seen'[r][2] => q = r
      BY <1>0, <1>9 DEF ring!SlotsExact
    <2>5. \A i \in 1 .. n : place(i)' = place(i)
      BY <1>2, <1>6
    <2> QED
      BY <1>1, <1>2, <2>1, <2>2, <2>3, <2>4, <2>5 DEF ring!SlotsExact, place
  <1>knows. ring!ConsumerKnows'
    <2>1. ringAt = "move" => seen[p][2] # head
      BY <1>0, <1>1 DEF ring!ConsumerKnows
    <2>2. ringAt = "move" => k # 1
      BY <1>0, <1>4, <2>1, PositionFirst, RingShape
    <2>3. ringAt = "move" => slots'[ring!Slot(head)] = 0
      <3>1. ring!Slot(head) = place(1)
        BY <1>0, PositionFirst, RingShape DEF place
      <3>2. 1 \in 1 .. n
        BY <1>2, <1>3
      <3>3. ringAt = "move" => place(1) \in 0 .. Capacity - 1 /\ place(1) # place(k)
        BY <1>5, <2>2, <3>2
      <3> QED
        BY <1>0, <1>8, <3>1, <3>3 DEF ring!ConsumerKnows
    <2>4. ring!Slot(head)' = ring!Slot(head)
      BY <1>1 DEF ring!Slot
    <2> QED
      BY <1>0, <1>1, <1>9, <2>3, <2>4 DEF ring!ConsumerKnows
  <1> QED
    BY <1>type, <1>indices, <1>slots, <1>knows DEF ring!IInv

\* A step of the consumer that leaves the ring as it is.
LEMMA DequeueKeeps ==
    ASSUME ring!IInv, UNCHANGED <<slots, head, tail, ringPc, signal, seen, pending>>,
           ringTaken' \in Signals \cup {0}, held' \in ring!Indices \X ring!Indices,
           ringOut' \in {<<>>} \cup {<<s>> : s \in Signals},
           \/ ringAt' = "idle" /\ ringAt # "move"
           \/ ringAt' = "swap" /\ ringAt # "move" /\ held'[1] = head /\ Len(pending) > 0
           \/ ringAt = "move" /\ ringAt' = "move" /\ held'[1] = head /\ UNCHANGED ringTaken
    PROVE  ring!IInv'
  <1>0. ring!TypeOK /\ ring!IndicesExact /\ ring!SlotsExact /\ ring!ConsumerKnows
    BY DEF ring!IInv
  <1>type. ring!TypeOK'
    BY <1>0 DEF ring!TypeOK
  <1>indices. ring!IndicesExact'
    BY <1>0 DEF ring!IndicesExact
  <1>1. \A i \in 1 .. Len(pending) : ring!Position(i)' = ring!Position(i)
    BY DEF ring!Position
  <1>2. \A p \in Producers, i \in 1 .. Len(pending) : ring!Storing(p, i)' <=> ring!Storing(p, i)
    BY <1>1 DEF ring!Storing, ring!Slot
  <1>slots. ring!SlotsExact'
    BY <1>0, <1>1, <1>2 DEF ring!SlotsExact, ring!Slot
  <1>knows. ring!ConsumerKnows'
    BY <1>0 DEF ring!ConsumerKnows, ring!Slot
  <1> QED
    BY <1>type, <1>indices, <1>slots, <1>knows DEF ring!IInv

\* A load of dequeue(), or one of its calls that finds nothing.
LEMMA ConsumerLoads ==
    ASSUME ring!IInv,
           \/ ring!DequeueLoad
           \/ ring!SwapSlot /\ slots[ring!Slot(held[1])] = 0
           \/ ring!MoveHead /\ <<head, tail>> # held
    PROVE  /\ ring!IInv'
           /\ UNCHANGED pending /\ (ringOut' = <<>> \/ UNCHANGED ringOut)
  <1>0. ring!TypeOK /\ ring!IndicesExact /\ ring!SlotsExact /\ ring!ConsumerKnows
    BY DEF ring!IInv
  <1>1. PICK n \in 0 .. Capacity :
              /\ n = Len(pending) /\ DOMAIN pending = 1 .. n /\ tail = (head + n) % IndexMod
              /\ n \in Nat /\ Capacity \in Nat /\ Capacity > 0
              /\ \A i \in 1 .. n : i \in 1 .. Capacity /\ i \in Nat
    BY <1>0, PendingIs
  <1>2. 0 \in Signals \cup {0} /\ <<>> \in {<<>>} \cup {<<s>> : s \in Signals}
    OBVIOUS
  <1>load. CASE ring!DequeueLoad
    <2>1. ringAt = "idle" /\ UNCHANGED <<slots, head, tail, ringPc, signal, seen, pending>>
      BY <1>load DEF ring!DequeueLoad, ring!producers
    <2>2. CASE head = tail
      <3>1. ringAt' = "idle" /\ ringTaken' = 0 /\ held' = <<0, 0>> /\ ringOut' = <<>>
        BY <1>load, <2>2 DEF ring!DequeueLoad, ring!Return
      <3> QED
        BY <1>2, <2>1, <3>1, ZeroIndex, DequeueKeeps
    <2>3. CASE head # tail
      <3>1. ringAt' = "swap" /\ held' = <<head, tail>> /\ UNCHANGED <<ringTaken, ringOut>>
        BY <1>load, <2>3 DEF ring!DequeueLoad
      <3>2. n # 0
        <4>1. n = 0 => ring!Position(0 + 1) = tail
          BY <1>0, <1>1, RoomIs, RingShape
        <4>2. ring!Position(0 + 1) = head
          BY <1>0, PositionFirst, RingShape
        <4> QED
          BY <2>3, <4>1, <4>2
      <3>3. Len(pending) > 0
        BY <1>1, <3>2
      <3>4. held' \in ring!Indices \X ring!Indices /\ held'[1] = head
        BY <1>0, <3>1, RingShape
      <3>5. ringTaken' \in Signals \cup {0} /\ ringOut' \in {<<>>} \cup {<<s>> : s \in Signals}
        BY <1>0, <3>1 DEF ring!TypeOK
      <3>6. ringAt # "move" /\ ringAt' = "swap"
        BY <2>1, <3>1
      <3> QED
        BY <2>1, <3>1, <3>3, <3>4, <3>5, <3>6, DequeueKeeps
    <2> QED
      BY <2>2, <2>3
  <1>swap. CASE ring!SwapSlot /\ slots[ring!Slot(held[1])] = 0
    <2>1. /\ ringAt = "swap" /\ slots' = [slots EXCEPT ![ring!Slot(held[1])] = 0]
          /\ ringAt' = "idle" /\ ringTaken' = 0 /\ held' = <<0, 0>> /\ ringOut' = <<>>
          /\ UNCHANGED <<head, tail, ringPc, signal, seen, pending>>
      BY <1>swap DEF ring!SwapSlot, ring!Return, ring!producers
    <2>2. slots' = slots
      BY <1>0, <1>swap, <2>1, RingShape
    <2> QED
      BY <1>2, <2>1, <2>2, ZeroIndex, DequeueKeeps
  <1>move. CASE ring!MoveHead /\ <<head, tail>> # held
    <2>1. /\ ringAt = "move" /\ ringAt' = "move" /\ held' = <<head, tail>>
          /\ UNCHANGED <<slots, head, tail, ringPc, signal, seen, pending, ringTaken, ringOut>>
      BY <1>move DEF ring!MoveHead, ring!producers
    <2>2. held' \in ring!Indices \X ring!Indices /\ held'[1] = head
      BY <1>0, <2>1, RingShape
    <2>3. ringTaken' \in Signals \cup {0} /\ ringOut' \in {<<>>} \cup {<<s>> : s \in Signals}
      BY <1>0, <2>1 DEF ring!TypeOK
    <2> QED
      BY <2>1, <2>2, <2>3, DequeueKeeps
  <1> QED
    BY <1>load, <1>swap, <1>move

\* The swap takes the first pending signal out of its slot.
LEMMA SwapKeeps ==
    ASSUME ring!IInv, ring!SwapSlot, slots[ring!Slot(held[1])] # 0
    PROVE  ring!IInv'
  <1>0. ring!TypeOK /\ ring!IndicesExact /\ ring!SlotsExact /\ ring!ConsumerKnows
    BY DEF ring!IInv
  <1>1. /\ ringAt = "swap" /\ held[1] = head /\ slots' = [slots EXCEPT ![ring!Slot(head)] = 0]
        /\ ringAt' = "move" /\ ringTaken' = slots[ring!Slot(head)]
        /\ UNCHANGED <<head, tail, ringPc, signal, seen, pending, held, ringOut>>
    BY <1>0 DEF ring!SwapSlot, ring!producers, ring!ConsumerKnows
  <1>2. PICK n \in 0 .. Capacity :
              /\ n = Len(pending) /\ DOMAIN pending = 1 .. n /\ tail = (head + n) % IndexMod
              /\ n \in Nat /\ Capacity \in Nat /\ Capacity > 0
              /\ \A i \in 1 .. n : i \in 1 .. Capacity /\ i \in Nat
    BY <1>0, PendingIs
  <1>3. n > 0 /\ 1 \in 1 .. n
    BY <1>0, <1>1, <1>2 DEF ring!ConsumerKnows
  <1> DEFINE place(i) == ring!Slot(ring!Position(i))
  <1>4. \A i \in 1 .. n : place(i) \in 0 .. Capacity - 1 /\ (place(i) = place(1) => i = 1)
    BY <1>0, <1>2, <1>3, PositionsApart, PositionRange, RingShape
  <1>5. \A i \in Nat : ring!Position(i)' = ring!Position(i) /\ place(i)' = place(i)
    BY <1>1 DEF ring!Position, ring!Slot
  <1>6. place(1) = ring!Slot(head) /\ ring!Position(1) = head
    BY <1>0, PositionFirst, RingShape
  <1> HIDE DEF place
  <1>7. slots'[place(1)] = 0 /\ \A j \in 0 .. Capacity - 1 : j # place(1) => slots'[j] = slots[j]
    BY <1>0, <1>1, <1>3, <1>4, <1>6, RingShape
  <1>8. slots[place(1)] # 0
    BY <1>1, <1>6
  <1>9. ringTaken' = pending[1]
    <2>1. ~ \E p \in Producers : ring!Storing(p, 1)
      BY <1>8 DEF ring!Storing, place
    <2>2. slots[place(1)] = pending[1]
      BY <1>0, <1>1, <1>2, <1>3, <2>1 DEF ring!SlotsExact, place
    <2> QED
      BY <1>1, <1>6, <2>2
  <1>10. pending[1] \in Signals /\ pending[1] # 0
    BY <1>0, <1>2, <1>3, RingShape
  <1>11. ASSUME NEW p \in Producers, NEW i \in 1 .. n, ring!Storing(p, i)
         PROVE  ring!Storing(p, i)' /\ i # 1
    <2>1. ringPc[p] = "store" /\ seen[p][2] = ring!Position(i) /\ signal[p] = pending[i] /\ slots[place(i)] = 0
      BY <1>11 DEF ring!Storing, place
    <2>2. i # 1
      BY <1>8, <2>1
    <2>3. slots'[place(i)] = 0
      BY <1>4, <1>7, <2>1, <2>2
    <2>4. i \in Nat
      BY <1>2
    <2> QED
      BY <1>1, <1>5, <2>1, <2>2, <2>3, <2>4 DEF ring!Storing, place
  <1>type. ring!TypeOK'
    <2>1. slots' \in [0 .. Capacity - 1 -> Signals \cup {0}]
      BY <1>0, <1>1, RingShape
    <2> QED
      BY <1>0, <1>1, <1>9, <1>10, <2>1 DEF ring!TypeOK
  <1>indices. ring!IndicesExact'
    BY <1>0, <1>1 DEF ring!IndicesExact
  <1>slots. ring!SlotsExact'
    <2>1. ASSUME NEW i \in 1 .. n
          PROVE  \/ slots'[place(i)] = pending[i]
                 \/ \E p \in Producers : ring!Storing(p, i)'
                 \/ i = 1 /\ ringAt' = "move"
      <3>1. CASE i = 1
        BY <1>1, <3>1
      <3>2. CASE i # 1
        <4>1. slots[place(i)] = pending[i] \/ \E p \in Producers : ring!Storing(p, i)
          BY <1>0, <1>2, <3>2 DEF ring!SlotsExact, place
        <4>2. slots'[place(i)] = slots[place(i)]
          BY <1>4, <1>7, <3>2
        <4> QED
          BY <1>11, <4>1, <4>2
      <3> QED
        BY <3>1, <3>2
    <2>2. ASSUME NEW j \in 0 .. Capacity - 1, slots'[j] # 0
          PROVE  \E i \in 1 .. n : place(i) = j
      <3>1. slots[j] # 0
        BY <1>7, <2>2
      <3> QED
        BY <1>0, <1>2, <3>1 DEF ring!SlotsExact, place
    <2>3. \A p \in Producers : ringPc[p] = "store" => \E i \in 1 .. n : ring!Storing(p, i)'
      BY <1>0, <1>2, <1>11 DEF ring!SlotsExact
    <2>4. \A i \in 1 .. n : place(i)' = place(i)
      BY <1>2, <1>5
    <2>5. \A p, q \in Producers :
            ringPc[p] = "store" /\ ringPc[q] = "store" /\ seen[p][2] = seen[q][2] => p = q
      BY <1>0 DEF ring!SlotsExact
    <2> QED
      BY <1>1, <1>2, <2>1, <2>2, <2>3, <2>4, <2>5 DEF ring!SlotsExact, place
  <1>knows. ring!ConsumerKnows'
    <2>1. ASSUME NEW p \in Producers, ringPc[p] = "store" PROVE seen[p][2] # head
      <3>1. PICK i \in 1 .. n : ring!Storing(p, i)
        BY <1>0, <1>2, <2>1 DEF ring!SlotsExact
      <3>2. i # 1 /\ seen[p][2] = ring!Position(i)
        BY <1>11, <3>1 DEF ring!Storing
      <3>3. place(i) # place(1)
        BY <1>4, <3>2
      <3> QED
        BY <1>6, <3>2, <3>3 DEF place
    <2>2. slots'[ring!Slot(head)] = 0
      BY <1>6, <1>7
    <2>3. ring!Slot(head)' = ring!Slot(head)
      BY <1>1 DEF ring!Slot
    <2> QED
      BY <1>1, <1>2, <1>3, <1>9, <2>1, <2>2, <2>3 DEF ring!ConsumerKnows
  <1> QED
    BY <1>type, <1>indices, <1>slots, <1>knows DEF ring!IInv

\* The compare-exchange of head returns the first pending signal.
LEMMA MoveKeeps ==
    ASSUME ring!IInv, ring!MoveHead, <<head, tail>> = held
    PROVE  /\ ring!IInv'
           /\ Len(pending) > 0 /\ ringOut' = <<pending[1]>> /\ pending' = Tail(pending)
  <1>0. ring!TypeOK /\ ring!IndicesExact /\ ring!SlotsExact /\ ring!ConsumerKnows
    BY DEF ring!IInv
  <1>1. /\ ringAt = "move" /\ head' = ring!Next1(head) /\ pending' = Tail(pending)
        /\ ringAt' = "idle" /\ ringTaken' = 0 /\ held' = <<0, 0>> /\ ringOut' = <<ringTaken>>
        /\ UNCHANGED <<slots, tail, ringPc, signal, seen>>
    BY <1>0 DEF ring!MoveHead, ring!Return, ring!producers, ring!ConsumerKnows
  <1>2. PICK n \in 0 .. Capacity :
              /\ n = Len(pending) /\ DOMAIN pending = 1 .. n /\ tail = (head + n) % IndexMod
              /\ n \in Nat /\ Capacity \in Nat /\ Capacity > 0
              /\ \A i \in 1 .. n : i \in 1 .. Capacity /\ i \in Nat
    BY <1>0, PendingIs
  <1>3. n > 0 /\ 1 \in 1 .. n /\ pending # <<>>
    <2>1. n > 0
      BY <1>0, <1>1, <1>2 DEF ring!ConsumerKnows
    <2>2. pending # <<>>
      BY <1>2, <2>1
    <2> QED
      BY <1>2, <2>1, <2>2
  <1>4. PICK m \in Nat : /\ n = m + 1
                         /\ pending' \in Seq(Signals) /\ DOMAIN pending' = 1 .. m /\ Len(pending') = m
                         /\ \A i \in 1 .. m : pending'[i] = pending[i + 1]
    <2>1. pending \in Seq(Signals)
      BY <1>0, RingShape
    <2>2. PICK m \in Nat : /\ Len(pending) = m + 1
                           /\ Tail(pending) \in Seq(Signals) /\ DOMAIN Tail(pending) = 1 .. m
                           /\ Len(Tail(pending)) = m
                           /\ \A i \in 1 .. m : Tail(pending)[i] = pending[i + 1]
      BY <1>3, <2>1, TailIs
    <2> QED
      BY <1>1, <1>2, <2>2
  <1>5. \A i \in 1 .. m : i \in 1 .. Capacity /\ i + 1 \in 1 .. n /\ i + 1 # 1 /\ i \in 1 .. n
    BY <1>2, <1>4
  <1>6. head' \in ring!Indices /\ \A i \in 1 .. Capacity : ring!Position(i)' = ring!Position(i + 1)
    <2>1. \A i \in 1 .. Capacity : head' \in ring!Indices /\ ring!Position(i)' = ring!Position(i + 1)
      BY <1>0, <1>1, HeadMoves, RingShape
    <2>2. 1 \in 1 .. Capacity
      BY <1>2
    <2> QED
      BY <2>1, <2>2
  <1>7. tail = (head' + m) % IndexMod
    <2>1. (head + n) % IndexMod = (head' + (n - 1)) % IndexMod
      BY <1>0, <1>1, <1>2, <1>3, HeadMoves, RingShape
    <2>2. n - 1 = m
      BY <1>4
    <2> QED
      BY <1>2, <2>1, <2>2
  <1>8. ring!Position(1) = head /\ slots[ring!Slot(head)] = 0 /\ ringTaken = pending[1]
        /\ \A p \in Producers : ringPc[p] = "store" => seen[p][2] # head
    BY <1>0, <1>1, PositionFirst, RingShape DEF ring!ConsumerKnows
  <1>9. pending[1] \in Signals
    BY <1>0, <1>2, <1>3, RingShape
  <1>10. \A p \in Producers, i \in 1 .. m : ring!Storing(p, i + 1) => ring!Storing(p, i)'
    BY <1>1, <1>4, <1>5, <1>6 DEF ring!Storing, ring!Slot
  <1>11. \A i \in 1 .. n : i # 1 => \E j \in 1 .. m : i = j + 1
    <2> SUFFICES ASSUME NEW i \in 1 .. n, i # 1 PROVE \E j \in 1 .. m : i = j + 1
      OBVIOUS
    <2>1. i - 1 \in 1 .. m /\ i = (i - 1) + 1
      BY <1>2, <1>4
    <2> QED
      BY <2>1
  <1>type. ring!TypeOK'
    <2>1. ringOut' \in {<<>>} \cup {<<s>> : s \in Signals}
      BY <1>1, <1>8, <1>9
    <2> QED
      BY <1>0, <1>1, <1>4, <1>6, <2>1, ZeroIndex DEF ring!TypeOK
  <1>indices. ring!IndicesExact'
    <2>1. m <= Capacity
      BY <1>2, <1>4
    <2> QED
      BY <1>1, <1>4, <1>7, <2>1 DEF ring!IndicesExact
  <1>slots. ring!SlotsExact'
    <2>1. ASSUME NEW i \in 1 .. m
          PROVE  \/ slots[ring!Slot(ring!Position(i)')] = pending'[i]
                 \/ \E p \in Producers : ring!Storing(p, i)'
      <3>1. \/ slots[ring!Slot(ring!Position(i + 1))] = pending[i + 1]
            \/ \E p \in Producers : ring!Storing(p, i + 1)
        BY <1>0, <1>2, <1>5 DEF ring!SlotsExact
      <3> QED
        BY <1>4, <1>5, <1>6, <1>10, <3>1
    <2>2. ASSUME NEW j \in 0 .. Capacity - 1, slots[j] # 0
          PROVE  \E i \in 1 .. m : ring!Slot(ring!Position(i)') = j
      <3>1. PICK i \in 1 .. n : ring!Slot(ring!Position(i)) = j
        BY <1>0, <1>2, <2>2 DEF ring!SlotsExact
      <3>2. i # 1
        BY <1>8, <2>2, <3>1
      <3>3. PICK k \in 1 .. m : i = k + 1
        BY <1>11, <3>2
      <3> QED
        BY <1>5, <1>6, <3>1, <3>3
    <2>3. ASSUME NEW p \in Producers, ringPc[p] = "store"
          PROVE  \E i \in 1 .. m : ring!Storing(p, i)'
      <3>1. PICK i \in 1 .. n : ring!Storing(p, i)
        BY <1>0, <1>2, <2>3 DEF ring!SlotsExact
      <3>2. i # 1
        BY <1>8, <2>3, <3>1 DEF ring!Storing
      <3>3. PICK k \in 1 .. m : i = k + 1
        BY <1>11, <3>2
      <3> QED
        BY <1>10, <3>1, <3>3
    <2>4. \A p, q \in Producers :
            ringPc[p] = "store" /\ ringPc[q] = "store" /\ seen[p][2] = seen[q][2] => p = q
      BY <1>0 DEF ring!SlotsExact
    <2> QED
      BY <1>1, <1>4, <2>1, <2>2, <2>3, <2>4 DEF ring!SlotsExact, ring!Slot
  <1>knows. ring!ConsumerKnows'
    BY <1>1 DEF ring!ConsumerKnows
  <1>result. Len(pending) > 0 /\ ringOut' = <<pending[1]>>
    BY <1>1, <1>2, <1>3, <1>8
  <1> QED
    BY <1>1, <1>type, <1>indices, <1>slots, <1>knows, <1>result DEF ring!IInv

\* A new ring.
LEMMA RingInit == ring!Init => ring!IInv
  <1> SUFFICES ASSUME ring!Init PROVE ring!IInv
    OBVIOUS
  <1>1. 0 \in ring!Indices /\ <<0, 0>> \in ring!Indices \X ring!Indices
    BY RingConstants DEF ring!Indices
  <1>2. ring!TypeOK
    BY <1>1 DEF ring!Init, ring!TypeOK
  <1>3. Len(pending) = 0 /\ 1 .. Len(pending) = {}
    BY DEF ring!Init
  <1>4. ring!IndicesExact
    <2>1. head = 0 /\ tail = 0 /\ 0 <= Capacity
      BY RingConstants DEF ring!Init
    <2>2. 0 % IndexMod = 0
      BY RingConstants
    <2> QED
      BY <1>3, <2>1, <2>2 DEF ring!IndicesExact
  <1>5. ring!SlotsExact /\ ring!ConsumerKnows
    BY <1>3 DEF ring!Init, ring!SlotsExact, ring!ConsumerKnows
  <1> QED
    BY <1>2, <1>4, <1>5 DEF ring!IInv

\* A producer's step that neither claims nor stores.
Tries(p) == \/ ring!EnqueueLoad(p)
            \/ ring!Reject(p)
            \/ ring!Claim(p) /\ <<head, tail>> # seen[p]

\* Such a step leaves the ring as it is.
LEMMA TriesKeep ==
    ASSUME ring!IInv, NEW p \in Producers, Tries(p)
    PROVE  ring!IInv' /\ UNCHANGED <<pending, ringOut>>
  <1>0. ring!TypeOK
    BY DEF ring!IInv
  <1>1. /\ signal \in [Producers -> Signals \cup {0}] /\ seen \in [Producers -> ring!Indices \X ring!Indices]
        /\ ringPc \in [Producers -> {"idle", "claim", "store"}]
        /\ <<head, tail>> \in ring!Indices \X ring!Indices
        /\ \A s \in Signals : s # 0
        /\ ringPc[p] # "idle" => signal[p] # 0
    BY <1>0, RingShape, RingConstants DEF ring!TypeOK
  <1>load. CASE ring!EnqueueLoad(p)
    <2>1. PICK s \in Signals : signal' = [signal EXCEPT ![p] = s]
      BY <1>load DEF ring!EnqueueLoad
    <2>2. /\ ringPc[p] = "idle" /\ ringPc' = [ringPc EXCEPT ![p] = "claim"]
          /\ seen' = [seen EXCEPT ![p] = <<head, tail>>]
          /\ UNCHANGED <<slots, head, tail, ringAt, ringTaken, held, ringOut, pending>>
      BY <1>load DEF ring!EnqueueLoad, ring!consumer
    <2>3. ring!IInv'
      BY <1>1, <2>1, <2>2, EnqueueKeeps
    <2> QED
      BY <2>2, <2>3
  <1>reject. CASE ring!Reject(p)
    <2>1. /\ ringPc[p] = "claim" /\ ringPc' = [ringPc EXCEPT ![p] = "idle"]
          /\ signal' = [signal EXCEPT ![p] = 0] /\ seen' = [seen EXCEPT ![p] = <<0, 0>>]
          /\ UNCHANGED <<slots, head, tail, ringAt, ringTaken, held, ringOut, pending>>
      BY <1>reject DEF ring!Reject, ring!Leave, ring!consumer
    <2>2. ring!IInv'
      BY <2>1, ZeroIndex, EnqueueKeeps
    <2> QED
      BY <2>1, <2>2
  <1>claim. CASE ring!Claim(p) /\ <<head, tail>> # seen[p]
    <2>1. /\ ringPc[p] = "claim" /\ UNCHANGED <<ringPc, signal>>
          /\ seen' = [seen EXCEPT ![p] = <<head, tail>>]
          /\ UNCHANGED <<slots, head, tail, ringAt, ringTaken, held, ringOut, pending>>
      BY <1>claim DEF ring!Claim, ring!consumer
    <2>2. ringPc' = [ringPc EXCEPT ![p] = "claim"] /\ signal' = [signal EXCEPT ![p] = signal[p]]
      BY <1>1, <2>1
    <2>3. signal[p] \in Signals \cup {0} /\ signal[p] # 0
      BY <1>1, <2>1
    <2>4. PICK x \in ring!Indices \X ring!Indices : seen' = [seen EXCEPT ![p] = x]
      BY <1>1, <2>1
    <2>5. PICK s \in Signals \cup {0} : s # 0 /\ signal' = [signal EXCEPT ![p] = s]
      BY <2>2, <2>3
    <2>6. ring!IInv'
      BY <2>1, <2>2, <2>4, <2>5, EnqueueKeeps
    <2> QED
      BY <2>1, <2>6
  <1> QED
    BY <1>load, <1>reject, <1>claim DEF Tries

\* A step of the consumer that returns nothing yet, or nothing at all.
Looks == \/ ring!DequeueLoad
         \/ ring!SwapSlot /\ slots[ring!Slot(held[1])] = 0
         \/ ring!MoveHead /\ <<head, tail>> # held

\* Every step of the ring is of one of these kinds.
LEMMA RingSteps ==
    ASSUME ring!Next
    PROVE  \/ \E p \in Producers : \/ Tries(p)
                                   \/ ring!Claim(p) /\ <<head, tail>> = seen[p]
                                   \/ ring!Store(p)
           \/ Looks
           \/ ring!SwapSlot /\ slots[ring!Slot(held[1])] # 0
           \/ ring!MoveHead /\ <<head, tail>> = held
  BY DEF ring!Next, ring!Enqueue, ring!Dequeue, Tries, Looks

\* Every step of the ring keeps its invariant.
LEMMA RingStep == ring!IInv /\ ring!Next => ring!IInv'
  <1> SUFFICES ASSUME ring!IInv, ring!Next PROVE ring!IInv'
    OBVIOUS
  <1>1. Looks => ring!IInv'
    BY ConsumerLoads DEF Looks
  <1> QED
    BY <1>1, RingSteps, TriesKeep, ClaimKeeps, StoreKeeps, SwapKeeps, MoveKeeps

\* A step elsewhere is none of the ring.
LEMMA RingIdle == ring!IInv /\ UNCHANGED ringVars => ring!IInv'
  BY DEF ringVars, ring!IInv, ring!TypeOK, ring!IndicesExact, ring!SlotsExact, ring!ConsumerKnows,
         ring!Storing, ring!Position, ring!Slot

\* The ring keeps its invariant.
LEMMA RingAlways == SpecAll => []ring!IInv
  <1>1. InitAll => ring!IInv
    BY RingInit DEF InitAll
  <1>2. ring!IInv /\ [NextAll]_allVars => ring!IInv'
    BY RingStep, RingIdle DEF NextAll, Use, allVars
  <1> QED
    BY <1>1, <1>2, PTL DEF SpecAll

\* A claim is a push of its signal.
LEMMA ClaimPushes ==
    ASSUME ring!IInv, NEW p \in Producers, ring!Claim(p), <<head, tail>> = seen[p]
    PROVE  ring!fifo!Next
  <1>0. ring!TypeOK
    BY DEF ring!IInv
  <1>1. ringPc[p] = "claim" /\ pending' = Append(pending, signal[p]) /\ UNCHANGED ringOut
    BY DEF ring!Claim, ring!consumer
  <1>2. signal[p] \in Signals /\ pending \in Seq(Signals)
    BY <1>0, <1>1 DEF ring!TypeOK
  <1>3. <<signal[p]>> \in ring!fifo!BoundedSeq(Signals, 1) /\ <<signal[p]>> # <<>>
    <2>1. <<signal[p]>> \in [1 .. 1 -> Signals] /\ 1 \in 0 .. 1
      BY <1>2
    <2> QED
      BY <2>1 DEF ring!fifo!BoundedSeq, ring!fifo!SeqOf
  <1>4. pending' = pending \o <<signal[p]>>
    BY <1>1, <1>2
  <1>5. ring!fifo!Push(<<signal[p]>>)
    BY <1>1, <1>4 DEF ring!fifo!Push
  <1> QED
    BY <1>3, <1>5 DEF ring!fifo!Next

\* The head's move takes the oldest signal.
LEMMA MoveTakes ==
    ASSUME ring!IInv, ring!MoveHead, <<head, tail>> = held
    PROVE  ring!fifo!Next
  <1>1. pending \in Seq(Signals)
    BY RingShape DEF ring!IInv
  <1>2. Len(pending) > 0 /\ ringOut' = <<pending[1]>> /\ pending' = Tail(pending)
    BY MoveKeeps
  <1>3. PICK m \in Nat : m = Len(pending) /\ DOMAIN pending = 1 .. m /\ m > 0
    BY <1>1, <1>2
  <1>4. SubSeq(pending, 1, 1) = <<pending[1]>>
    <2>1. \A i \in 1 .. 1 : pending[i] \in Signals
      <3>1. 1 \in 1 .. m
        BY <1>3
      <3> QED
        BY <1>1, <1>3, <3>1
    <2>2. /\ SubSeq(pending, 1, 1) \in Seq(Signals)
          /\ Len(SubSeq(pending, 1, 1)) = 1
          /\ SubSeq(pending, 1, 1)[1] = pending[1]
      BY <2>1, SubSeqProperties
    <2> DEFINE run == SubSeq(pending, 1, 1)
    <2> HIDE DEF run
    <2>3. run \in Seq(Signals) /\ Len(run) = 1 /\ run[1] = pending[1]
      BY <2>2 DEF run
    <2>4. run = <<pending[1]>>
      BY <2>3
    <2> QED
      BY <2>4 DEF run
  <1>5. SubSeq(pending, 2, m) = Tail(pending)
    BY <1>1, <1>3
  <1>6. ring!fifo!Take(1)
    BY <1>2, <1>3, <1>4, <1>5 DEF ring!fifo!Take
  <1>7. 1 \in 0 .. Len(pending)
    BY <1>3
  <1> QED
    BY <1>6, <1>7 DEF ring!fifo!Next

\* A call that finds nothing takes nothing.
LEMMA LooksTake ==
    ASSUME ring!IInv, Looks
    PROVE  ring!fifo!Next \/ UNCHANGED <<pending, ringOut>>
  <1>1. UNCHANGED pending /\ (ringOut' = <<>> \/ UNCHANGED ringOut)
    BY ConsumerLoads DEF Looks
  <1>2. ASSUME ringOut' = <<>> PROVE ring!fifo!Next
    <2>1. pending \in Seq(Signals)
      BY RingShape DEF ring!IInv
    <2>2. PICK m \in Nat : m = Len(pending) /\ DOMAIN pending = 1 .. m
      BY <2>1
    <2>3. SubSeq(pending, 1, 0) = <<>> /\ SubSeq(pending, 1, m) = pending
      BY <2>1, <2>2
    <2>4. ring!fifo!Take(0)
      BY <1>1, <1>2, <2>2, <2>3 DEF ring!fifo!Take
    <2>5. 0 \in 0 .. Len(pending)
      BY <2>2
    <2> QED
      BY <2>4, <2>5 DEF ring!fifo!Next
  <1> QED
    BY <1>1, <1>2

\* The other steps neither add nor take.
LEMMA RingRefines == ring!IInv /\ ring!Next => [ring!fifo!Next]_<<pending, ringOut>>
  <1> SUFFICES ASSUME ring!IInv, ring!Next, ~ring!fifo!Next PROVE UNCHANGED <<pending, ringOut>>
    OBVIOUS
  <1>1. ASSUME NEW p \in Producers, ring!Store(p) PROVE UNCHANGED <<pending, ringOut>>
    BY <1>1 DEF ring!Store, ring!consumer
  <1>2. ring!SwapSlot /\ slots[ring!Slot(held[1])] # 0 => UNCHANGED <<pending, ringOut>>
    BY DEF ring!SwapSlot
  <1> QED
    BY <1>1, <1>2, RingSteps, TriesKeep, ClaimPushes, MoveTakes, LooksTake

\* signal_ring.rs: nothing is lost, duplicated or reordered.
LEMMA RingFifo == SpecAll => ring!RefinesFifo
  <1>1. InitAll => ring!fifo!Init
    BY DEF InitAll, ring!Init, ring!fifo!Init
  <1>2. ring!IInv /\ [NextAll]_allVars => [ring!fifo!Next]_<<pending, ringOut>>
    BY RingRefines DEF NextAll, Use, allVars, ringVars
  <1> QED
    BY <1>1, <1>2, RingAlways, PTL DEF SpecAll, ring!RefinesFifo, ring!fifo!Spec

-----------------------------------------------------------------------------
(* All of them *)

\* The group, in use or not.
LEMMA GroupAlways == SpecAll => []IInv
  <1>1. WaitGroupAssumption
    BY QueuesAssumption DEF QueuesAssumption
  <1>2. InitAll => IInv
    BY <1>1, InitIInv DEF InitAll
  <1>3. IInv /\ [NextAll]_allVars => IInv'
    BY <1>1, StepIInv DEF NextAll, Use, allVars
  <1> QED
    BY <1>2, <1>3, PTL DEF SpecAll

\* unbounded_queue.rs: no producer writes its link into a node that the consumer has
\* returned.  In all three: no consumer follows a null pointer, and dequeue() never
\* returns the 0 of a slot claimed and not written.
THEOREM QueuesNoWriteAfterReturn == SpecAll => []NoWriteAfterReturn
  <1>1. IInv /\ queue!IInv /\ nodes!IInv /\ ring!IInv => NoWriteAfterReturn
    BY QueueWrites DEF NoWriteAfterReturn, IInv, queue!IInv, nodes!IInv, ring!IInv
  <1> QED
    BY <1>1, GroupAlways, QueueInvariant, NodesAlways, RingAlways, PTL

\* unbounded_queue.rs, signal_ring.rs: they are first-in first-out queues, through
\* push_batch(), pop() and pop_batch() and through full rings and wrapped indices.
THEOREM QueuesRefineFifo == SpecAll => RefinesFifo
  BY QueueFifo, RingFifo DEF RefinesFifo
=============================================================================
