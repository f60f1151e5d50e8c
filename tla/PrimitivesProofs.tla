-------------------------- MODULE PrimitivesProofs --------------------------
(***************************************************************************)
(* The invariants of Mutex.rs, RwLock.rs, Semaphore.rs, ResetEvent.rs and  *)
(* channel.rs for any number of threads: each primitive's inductive        *)
(* invariant is kept by its own steps, and the steps of the others leave   *)
(* it alone; and the mutex, with both its fast paths, refines Ownership.   *)
(***************************************************************************)
EXTENDS Primitives, FiniteSetTheorems, SequenceTheorems, TLAPS

-----------------------------------------------------------------------------
(* The mutex, by itself *)

USE DEF UNLOCKED, LOCKED, CONTENDED

\* A mutex that nobody has locked.
LEMMA InitIInv == Init => IInv
  BY DEF Init, IInv, TypeOK, Labels, MutualExclusion, HolderLocks, NoLostWakeup

\* Every step of the mutex keeps its invariant.
LEMMA StepIInv ==
  ASSUME MutexAssumption PROVE IInv /\ [Next]_vars => IInv'
<1> SUFFICES ASSUME IInv, [Next]_vars PROVE IInv'
  OBVIOUS
<1> USE DEF IInv, TypeOK, Labels, Goto
<1>stutter. CASE UNCHANGED vars
  BY <1>stutter DEF vars, MutualExclusion, HolderLocks, NoLostWakeup
<1>try. ASSUME NEW t \in Threads, TryLock(t) PROVE IInv'
  BY <1>try, MutexAssumption
     DEF TryLock, TryLockX86, TryLockWeak, MutualExclusion, HolderLocks, NoLostWakeup
<1>slow. ASSUME NEW t \in Threads, LockSlow(t) PROVE IInv'
  BY <1>slow DEF LockSlow, MutualExclusion, HolderLocks, NoLostWakeup
<1>wait. ASSUME NEW t \in Threads, FutexWait(t) PROVE IInv'
  BY <1>wait DEF FutexWait, MutualExclusion, HolderLocks, NoLostWakeup
<1>swap. ASSUME NEW t \in Threads, Swap(t) PROVE IInv'
  BY <1>swap DEF Swap, MutualExclusion, HolderLocks, NoLostWakeup
<1>spurious. ASSUME NEW t \in Threads, SpuriousWake(t) PROVE IInv'
  BY <1>spurious DEF SpuriousWake, MutualExclusion, HolderLocks, NoLostWakeup
<1>unlock. ASSUME NEW t \in Threads, Unlock(t) PROVE IInv'
  BY <1>unlock DEF Unlock, MutualExclusion, HolderLocks, NoLostWakeup
<1>wake. ASSUME NEW t \in Threads, FutexWake(t) PROVE IInv'
  BY <1>wake DEF FutexWake, MutualExclusion, HolderLocks, NoLostWakeup
<1> QED
  BY <1>try, <1>slow, <1>wait, <1>swap, <1>spurious, <1>unlock, <1>wake, <1>stutter
     DEF Next, Step

\* The inductive invariant holds in every reachable state.
THEOREM MutexIInv ==
  ASSUME MutexAssumption PROVE Spec => []IInv
  BY InitIInv, StepIInv, PTL DEF Spec

\* Mutual exclusion of Mutex.rs.
THEOREM MutexExclusion ==
  ASSUME MutexAssumption PROVE Spec => []MutualExclusion
<1>1. IInv => MutualExclusion
  BY DEF IInv
<1>2. QED
  BY <1>1, MutexIInv, PTL

\* No thread asleep on the word of Mutex.rs is forgotten.
THEOREM MutexNoLostWakeup ==
  ASSUME MutexAssumption PROVE Spec => []NoLostWakeup
<1>1. IInv => NoLostWakeup
  BY DEF IInv
<1>2. QED
  BY <1>1, MutexIInv, PTL

(* The refinement.  With mutual exclusion the CHOOSE of Owner is the only      *)
(* thread inside, so the mapping is determined by pc.                          *)

\* The thread that holds the mutex is its abstract owner.
LEMMA OwnerIs ==
  ASSUME IInv, NEW t \in Threads, pc[t] = "held"
  PROVE  Owner = t
<1>1. \A u \in Threads : pc[u] = "held" => u = t
  BY DEF IInv, MutualExclusion
<1>2. QED
  BY <1>1 DEF Owner

\* Nobody owns a mutex that nobody holds.
LEMMA OwnerNone ==
  ASSUME \A t \in Threads : pc[t] # "held"
  PROVE  Owner = NoOwner
  BY DEF Owner

\* The same of the owner after a step.
LEMMA OwnerIsPrime ==
  ASSUME IInv', NEW t \in Threads, pc'[t] = "held"
  PROVE  Owner' = t
<1>1. \A u \in Threads : pc'[u] = "held" => u = t
  BY DEF IInv, MutualExclusion
<1>2. QED
  BY <1>1 DEF Owner

\* The same of a mutex that nobody holds after a step.
LEMMA OwnerNonePrime ==
  ASSUME \A t \in Threads : pc'[t] # "held"
  PROVE  Owner' = NoOwner
  BY DEF Owner

\* A step that no thread enters or leaves the critical section with.
LEMMA OwnerStutters ==
  ASSUME IInv, IInv', \A t \in Threads : pc'[t] = "held" <=> pc[t] = "held"
  PROVE  UNCHANGED Owner
<1>1. CASE \E t \in Threads : pc[t] = "held"
  <2> PICK t \in Threads : pc[t] = "held"
    BY <1>1
  <2> QED
    BY OwnerIs, OwnerIsPrime
<1>2. CASE \A t \in Threads : pc[t] # "held"
  BY <1>2, OwnerNone, OwnerNonePrime
<1>3. QED
  BY <1>1, <1>2

\* A step with which t enters: the word was UNLOCKED, so nobody was inside.
LEMMA OwnerAcquires ==
  ASSUME IInv, IInv', NEW t \in Threads, state = UNLOCKED,
         pc'[t] = "held"
  PROVE  AbstractLock!HandOver
<1>empty. \A u \in Threads : pc[u] # "held"
  BY DEF IInv, HolderLocks
<1> QED
  BY <1>empty, OwnerNone, OwnerIsPrime DEF AbstractLock!HandOver, AbstractLock!Hand

\* The step with which the holder leaves.
LEMMA OwnerReleases ==
  ASSUME IInv, NEW t \in Threads, Unlock(t)
  PROVE  AbstractLock!HandOver
<1>left. \A u \in Threads : pc'[u] # "held"
  BY DEF Unlock, Goto, IInv, TypeOK, MutualExclusion
<1> QED
  BY <1>left, OwnerIs, OwnerNonePrime DEF Unlock, AbstractLock!HandOver, AbstractLock!Hand

\* Mutex.rs implements the abstract lock.
THEOREM MutexRefinesLock ==
  ASSUME MutexAssumption PROVE Spec => RefinesLock
<1>init. Init => Owner = NoOwner
  BY DEF Init, Owner
<1>step. IInv /\ IInv' /\ [Next]_vars => [AbstractLock!HandOver]_Owner
  <2> SUFFICES ASSUME IInv, IInv', [Next]_vars
               PROVE  AbstractLock!HandOver \/ UNCHANGED Owner
    OBVIOUS
  <2> USE DEF Goto
  <2>pc. pc \in [Threads -> Labels]
    BY DEF IInv, TypeOK
  <2>stutter. CASE UNCHANGED vars
    BY <2>stutter, OwnerStutters DEF vars
  <2>try. ASSUME NEW t \in Threads, TryLock(t)
          PROVE  AbstractLock!HandOver \/ UNCHANGED Owner
    <3>got. CASE pc' = [pc EXCEPT ![t] = "held"]
      BY <2>pc, <2>try, <3>got, OwnerAcquires DEF TryLock, TryLockX86, TryLockWeak
    <3>slow. CASE pc' = [pc EXCEPT ![t] = "slow"]
      BY <2>pc, <2>try, <3>slow, OwnerStutters DEF TryLock
    <3> QED
      BY <2>try, <3>got, <3>slow DEF TryLock, TryLockX86, TryLockWeak
  <2>swap. ASSUME NEW t \in Threads, Swap(t)
           PROVE  AbstractLock!HandOver \/ UNCHANGED Owner
    <3>got. CASE state = UNLOCKED
      BY <2>pc, <2>swap, <3>got, OwnerAcquires DEF Swap
    <3>again. CASE state # UNLOCKED
      BY <2>pc, <2>swap, <3>again, OwnerStutters DEF Swap
    <3> QED
      BY <3>got, <3>again
  <2>quiet. ASSUME NEW t \in Threads,
                   LockSlow(t) \/ FutexWait(t) \/ SpuriousWake(t) \/ FutexWake(t)
            PROVE  UNCHANGED Owner
    <3> \A u \in Threads : pc'[u] = "held" <=> pc[u] = "held"
      BY <2>pc, <2>quiet DEF LockSlow, FutexWait, SpuriousWake, FutexWake, IInv, TypeOK
    <3> QED
      BY OwnerStutters
  <2> QED
    BY <2>try, <2>swap, OwnerReleases, <2>quiet, <2>stutter DEF Next, Step
<1> QED
  BY <1>init, <1>step, MutexIInv, PTL DEF Spec, RefinesLock, AbstractLock!Exclusive

HIDE DEF UNLOCKED, LOCKED, CONTENDED

-----------------------------------------------------------------------------
(* Counting the threads of the reader-writer lock *)

\* How many threads are at one of the labels of RawRwLock's calls.
Count(labels) == Cardinality(lock!At(labels))

\* FiniteSets as RwLock sees it is FiniteSets.
LEMMA LockCounts ==
    ASSUME NEW S
    PROVE  lock!Cardinality(S) = Cardinality(S) /\ (lock!IsFiniteSet(S) <=> IsFiniteSet(S))
  <1>1. lock!Cardinality(S) = Cardinality(S)
    BY DEF lock!Cardinality, Cardinality
  <1>2. lock!IsFiniteSet(S) <=> IsFiniteSet(S)
    BY DEF lock!IsFiniteSet, IsFiniteSet
  <1> QED
    BY <1>1, <1>2

\* Threads at some labels can be counted, and the count is zero when nobody is there.
LEMMA CountFinite ==
    ASSUME NEW L
    PROVE  /\ IsFiniteSet(lock!At(L)) /\ Count(L) \in Nat
           /\ Count(L) = 0 <=> lock!At(L) = {}
  <1>1. lock!At(L) \subseteq Threads
    BY DEF lock!At
  <1>2. IsFiniteSet(Threads)
    BY PrimitivesAssumption, LockCounts DEF PrimitivesAssumption, lock!RwLockAssumption
  <1>3. IsFiniteSet(lock!At(L))
    BY <1>1, <1>2, FS_Subset
  <1> QED
    BY <1>3, FS_CardinalityType, FS_EmptySet DEF Count

\* The count is zero just when no thread is at the labels.
LEMMA CountZero ==
    ASSUME NEW L
    PROVE  Count(L) = 0 <=> \A t \in Threads : lockPc[t] \notin L
  BY CountFinite DEF lock!At

\* A thread that moves leaves the count of where it was and enters that of where it goes.
LEMMA CountMove ==
    ASSUME NEW L, NEW t \in Threads, NEW x,
           lockPc \in [Threads -> lock!Labels], lock!Goto(t, x)
    PROVE  Count(L)' = Count(L) + (IF x \in L THEN 1 ELSE 0)
                                - (IF lockPc[t] \in L THEN 1 ELSE 0)
  <1> DEFINE S == lock!At(L)
             T == {u \in Threads : lockPc'[u] \in L}
  <1>0. Count(L)' = Cardinality(T) /\ Count(L) = Cardinality(S)
    BY DEF Count, lock!At
  <1>1. IsFiniteSet(S) /\ Cardinality(S) \in Nat
    BY CountFinite DEF Count
  <1>2. CASE x \in L /\ lockPc[t] \notin L
    <2>1. T = S \cup {t} /\ t \notin S
      BY <1>2 DEF lock!At, lock!Goto
    <2>2. Cardinality(T) = Cardinality(S) + 1
      BY <1>1, <2>1, FS_AddElement
    <2> QED
      BY <1>0, <1>1, <1>2, <2>2
  <1>3. CASE x \notin L /\ lockPc[t] \in L
    <2>1. T = S \ {t} /\ t \in S
      BY <1>3 DEF lock!At, lock!Goto
    <2>2. Cardinality(T) = Cardinality(S) - 1
      BY <1>1, <2>1, FS_RemoveElement
    <2> QED
      BY <1>0, <1>1, <1>3, <2>2
  <1>4. CASE x \in L <=> lockPc[t] \in L
    <2>1. T = S
      BY <1>4 DEF lock!At, lock!Goto
    <2>2. Cardinality(T) = Cardinality(S)
      BY <2>1
    <2> QED
      BY <1>0, <1>1, <1>4, <2>2
  <1> QED
    BY <1>2, <1>3, <1>4

-----------------------------------------------------------------------------
(* The reader-writer lock *)

NClaimed   == Count({"drain", "writing"})
NAnnounced == Count({"wlock", "claim"})
NReaders   == Count({"runlock", "reading"})
NPosting   == Count({"post"})
NDraining  == Count({"drain"})

\* lock!WordExact and lock!PermitIsOwed as counts of threads.
Numbers == /\ writing = NClaimed
           /\ writers = NAnnounced
           /\ readers = NReaders
           /\ permits + NPosting <= NDraining

\* lock!Draining with its posts counted.
Owed == /\ \A t \in Threads : lockPc[t] = "writing" => readers = 0
        /\ \A t \in Threads : lockPc[t] = "drain" =>
              /\ readers = 0 => permits + NPosting = 1
              /\ readers # 0 => permits + NPosting = 0

LockInv == lock!TypeOK /\ lock!Exclusion /\ lock!MutexHeld /\ Numbers /\ Owed

\* It is the inductive invariant that RwLock states.
LEMMA LockInvIsIInv == LockInv <=> RwLockIInv
  <1>1. Numbers <=> lock!WordExact /\ lock!PermitIsOwed
    BY LockCounts DEF Numbers, Count, NClaimed, NAnnounced, NReaders, NPosting, NDraining,
                       lock!WordExact, lock!PermitIsOwed
  <1>2. Owed <=> lock!Draining
    BY LockCounts DEF Owed, Count, NPosting, lock!Draining
  <1> QED
    BY <1>1, <1>2 DEF LockInv, RwLockIInv, lock!IInv

\* The counts after a thread has moved.
LEMMA LockMoved ==
    ASSUME NEW t \in Threads, NEW x, lock!TypeOK, lock!Goto(t, x)
    PROVE  /\ NClaimed \in Nat /\ NAnnounced \in Nat /\ NReaders \in Nat
           /\ NPosting \in Nat /\ NDraining \in Nat
           /\ NClaimed' = NClaimed + (IF x \in {"drain", "writing"} THEN 1 ELSE 0)
                                   - (IF lockPc[t] \in {"drain", "writing"} THEN 1 ELSE 0)
           /\ NAnnounced' = NAnnounced + (IF x \in {"wlock", "claim"} THEN 1 ELSE 0)
                                       - (IF lockPc[t] \in {"wlock", "claim"} THEN 1 ELSE 0)
           /\ NReaders' = NReaders + (IF x \in {"runlock", "reading"} THEN 1 ELSE 0)
                                   - (IF lockPc[t] \in {"runlock", "reading"} THEN 1 ELSE 0)
           /\ NPosting' = NPosting + (IF x = "post" THEN 1 ELSE 0)
                                   - (IF lockPc[t] = "post" THEN 1 ELSE 0)
           /\ NDraining' = NDraining + (IF x = "drain" THEN 1 ELSE 0)
                                     - (IF lockPc[t] = "drain" THEN 1 ELSE 0)
  <1>1. /\ NClaimed \in Nat /\ NAnnounced \in Nat /\ NReaders \in Nat
        /\ NPosting \in Nat /\ NDraining \in Nat
    BY CountFinite DEF NClaimed, NAnnounced, NReaders, NPosting, NDraining
  <1>2. lockPc \in [Threads -> lock!Labels]
    BY DEF lock!TypeOK
  <1>3. NClaimed' = NClaimed + (IF x \in {"drain", "writing"} THEN 1 ELSE 0)
                             - (IF lockPc[t] \in {"drain", "writing"} THEN 1 ELSE 0)
    BY <1>2, CountMove DEF NClaimed
  <1>4. NAnnounced' = NAnnounced + (IF x \in {"wlock", "claim"} THEN 1 ELSE 0)
                                 - (IF lockPc[t] \in {"wlock", "claim"} THEN 1 ELSE 0)
    BY <1>2, CountMove DEF NAnnounced
  <1>5. NReaders' = NReaders + (IF x \in {"runlock", "reading"} THEN 1 ELSE 0)
                             - (IF lockPc[t] \in {"runlock", "reading"} THEN 1 ELSE 0)
    BY <1>2, CountMove DEF NReaders
  <1>6. NPosting' = NPosting + (IF x \in {"post"} THEN 1 ELSE 0)
                             - (IF lockPc[t] \in {"post"} THEN 1 ELSE 0)
    BY <1>2, CountMove DEF NPosting
  <1>7. NDraining' = NDraining + (IF x \in {"drain"} THEN 1 ELSE 0)
                               - (IF lockPc[t] \in {"drain"} THEN 1 ELSE 0)
    BY <1>2, CountMove DEF NDraining
  <1> QED
    BY <1>1, <1>3, <1>4, <1>5, <1>6, <1>7

\* What the numbers say of single threads: a count that is zero is of nobody.
LEMMA LockCounted ==
    ASSUME LockInv
    PROVE  /\ \A t \in Threads : lockPc[t] \in {"drain", "writing"} => writing > 0
           /\ \A t \in Threads : lockPc[t] \in {"wlock", "claim"} => writers > 0
           /\ \A t \in Threads : lockPc[t] \in {"runlock", "reading"} => readers > 0
           /\ \A t \in Threads : lockPc[t] = "post" => NPosting > 0
           /\ \A t \in Threads : lockPc[t] = "drain" => NDraining > 0
           /\ writing > 0 => \E t \in Threads : lockPc[t] \in {"drain", "writing"}
           /\ NDraining > 0 => \E t \in Threads : lockPc[t] = "drain"
  <1>1. NClaimed > 0 <=> \E t \in Threads : lockPc[t] \in {"drain", "writing"}
    BY CountFinite, CountZero DEF NClaimed
  <1>2. NAnnounced > 0 <=> \E t \in Threads : lockPc[t] \in {"wlock", "claim"}
    BY CountFinite, CountZero DEF NAnnounced
  <1>3. NReaders > 0 <=> \E t \in Threads : lockPc[t] \in {"runlock", "reading"}
    BY CountFinite, CountZero DEF NReaders
  <1>4. NPosting > 0 <=> \E t \in Threads : lockPc[t] \in {"post"}
    BY CountFinite, CountZero DEF NPosting
  <1>5. NDraining > 0 <=> \E t \in Threads : lockPc[t] \in {"drain"}
    BY CountFinite, CountZero DEF NDraining
  <1> QED
    BY <1>1, <1>2, <1>3, <1>4, <1>5 DEF LockInv, Numbers

\* A step of a writer keeps the word exact.
LEMMA WriterNumbers ==
    ASSUME NEW t \in Threads, LockInv,
           \/ lock!Announce(t) \/ lock!WriterMutex(t) \/ lock!Claim(t)
           \/ lock!Drained(t) \/ lock!ClearWriting(t) \/ lock!WriterUnlock(t)
    PROVE  Numbers'
  <1>0. lock!TypeOK /\ Numbers
    BY DEF LockInv
  <1>1. CASE lock!Announce(t)
    <2>1. lockPc[t] = "out" /\ lock!Goto(t, "wlock")
      BY <1>1 DEF lock!Announce
    <2> QED
      BY <1>0, <1>1, <2>1, LockMoved DEF Numbers, lock!Announce
  <1>2. CASE lock!WriterMutex(t)
    <2>1. lockPc[t] = "wlock" /\ lock!Goto(t, "claim")
      BY <1>2 DEF lock!WriterMutex
    <2> QED
      BY <1>0, <1>2, <2>1, LockMoved DEF Numbers, lock!WriterMutex
  <1>3. CASE lock!Claim(t)
    <2>1. CASE readers # 0
      <3>1. lockPc[t] = "claim" /\ lock!Goto(t, "drain")
        BY <1>3, <2>1 DEF lock!Claim
      <3> QED
        BY <1>0, <1>3, <3>1, LockMoved DEF Numbers, lock!Claim, lock!TypeOK
    <2>2. CASE readers = 0
      <3>1. lockPc[t] = "claim" /\ lock!Goto(t, "writing")
        BY <1>3, <2>2 DEF lock!Claim
      <3> QED
        BY <1>0, <1>3, <3>1, LockMoved DEF Numbers, lock!Claim
    <2> QED
      BY <2>1, <2>2
  <1>4. CASE lock!Drained(t)
    <2>1. lockPc[t] = "drain" /\ lock!Goto(t, "writing")
      BY <1>4 DEF lock!Drained
    <2> QED
      BY <1>0, <1>4, <2>1, LockMoved DEF Numbers, lock!Drained, lock!TypeOK
  <1>5. CASE lock!ClearWriting(t)
    <2>1. lockPc[t] = "writing" /\ lock!Goto(t, "wunlock")
      BY <1>5 DEF lock!ClearWriting
    <2>2. writing = 1
      BY <2>1, LockCounted DEF LockInv, lock!TypeOK
    <2> QED
      BY <1>0, <1>5, <2>1, <2>2, LockMoved DEF Numbers, lock!ClearWriting
  <1>6. CASE lock!WriterUnlock(t)
    <2>1. lockPc[t] = "wunlock" /\ lock!Goto(t, "out")
      BY <1>6 DEF lock!WriterUnlock
    <2> QED
      BY <1>0, <1>6, <2>1, LockMoved DEF Numbers, lock!WriterUnlock
  <1> QED
    BY <1>1, <1>2, <1>3, <1>4, <1>5, <1>6

\* A step of a reader keeps the word exact.
LEMMA ReaderNumbers ==
    ASSUME NEW t \in Threads, LockInv,
           \/ lock!ReaderLoad(t) \/ lock!ReaderFast(t) \/ lock!ReaderMutex(t)
           \/ lock!ReaderAdd(t) \/ lock!ReaderUnlock(t) \/ lock!ReaderLeave(t) \/ lock!Post(t)
    PROVE  Numbers'
  <1>0. lock!TypeOK /\ Numbers
    BY DEF LockInv
  <1>1. CASE lock!ReaderLoad(t)
    <2>1. lockPc[t] = "out" /\ lock!Goto(t, "rtry")
      BY <1>1 DEF lock!ReaderLoad
    <2> QED
      BY <1>0, <1>1, <2>1, LockMoved DEF Numbers, lock!ReaderLoad
  <1>2. CASE lock!ReaderFast(t)
    <2>1. CASE lock!Word = seen[t]
      <3>1. /\ lockPc[t] = "rtry" /\ lock!Goto(t, "reading")
            /\ readers' = readers + 1
        BY <1>2, <2>1 DEF lock!ReaderFast
      <3> QED
        BY <1>0, <1>2, <3>1, LockMoved DEF Numbers, lock!ReaderFast
    <2>2. CASE lock!Word # seen[t]
      <3>1. UNCHANGED <<lockPc, readers, writing, writers, permits>>
        BY <1>2, <2>2 DEF lock!ReaderFast
      <3> QED
        BY <1>0, <3>1 DEF Numbers, Count, lock!At,
                         NClaimed, NAnnounced, NReaders, NPosting, NDraining
    <2> QED
      BY <2>1, <2>2
  <1>3. CASE lock!ReaderMutex(t)
    <2>1. lockPc[t] = "rtry" /\ lock!Goto(t, "radd")
      BY <1>3 DEF lock!ReaderMutex
    <2> QED
      BY <1>0, <1>3, <2>1, LockMoved DEF Numbers, lock!ReaderMutex
  <1>4. CASE lock!ReaderAdd(t)
    <2>1. lockPc[t] = "radd" /\ lock!Goto(t, "runlock")
      BY <1>4 DEF lock!ReaderAdd
    <2> QED
      BY <1>0, <1>4, <2>1, LockMoved DEF Numbers, lock!ReaderAdd
  <1>5. CASE lock!ReaderUnlock(t)
    <2>1. lockPc[t] = "runlock" /\ lock!Goto(t, "reading")
      BY <1>5 DEF lock!ReaderUnlock
    <2> QED
      BY <1>0, <1>5, <2>1, LockMoved DEF Numbers, lock!ReaderUnlock
  <1>6. CASE lock!ReaderLeave(t)
    <2>1. CASE readers = 1 /\ writing # 0
      <3>1. lockPc[t] = "reading" /\ lock!Goto(t, "post")
        BY <1>6, <2>1 DEF lock!ReaderLeave
      <3>2. PICK u \in Threads : lockPc[u] \in {"drain", "writing"}
        BY <2>1, LockCounted DEF LockInv, lock!TypeOK
      <3>3. lockPc[u] = "drain" /\ permits + NPosting = 0
        BY <2>1, <3>2 DEF LockInv, Owed
      <3>4. NDraining > 0
        BY <3>3, LockCounted
      <3> QED
        BY <1>0, <1>6, <3>1, <3>3, <3>4, LockMoved, SMTT(30) DEF Numbers, lock!ReaderLeave, lock!TypeOK
    <2>2. CASE ~(readers = 1 /\ writing # 0)
      <3>1. lockPc[t] = "reading" /\ lock!Goto(t, "out")
        BY <1>6, <2>2 DEF lock!ReaderLeave
      <3> QED
        BY <1>0, <1>6, <3>1, LockMoved DEF Numbers, lock!ReaderLeave
    <2> QED
      BY <2>1, <2>2
  <1>7. CASE lock!Post(t)
    <2>1. lockPc[t] = "post" /\ lock!Goto(t, "out")
      BY <1>7 DEF lock!Post
    <2> QED
      BY <1>0, <1>7, <2>1, LockMoved DEF Numbers, lock!Post, lock!TypeOK
  <1> QED
    BY <1>1, <1>2, <1>3, <1>4, <1>5, <1>6, <1>7

\* The actions of a writer, and those of a reader.
WriterStep(t) == \/ lock!Announce(t) \/ lock!WriterMutex(t) \/ lock!Claim(t)
                 \/ lock!Drained(t) \/ lock!ClearWriting(t) \/ lock!WriterUnlock(t)

ReaderStep(t) == \/ lock!ReaderLoad(t) \/ lock!ReaderFast(t) \/ lock!ReaderMutex(t)
                 \/ lock!ReaderAdd(t) \/ lock!ReaderUnlock(t) \/ lock!ReaderLeave(t)
                 \/ lock!Post(t)

\* A thread that holds the mutex is the only one past it.
LEMMA LockHolder ==
    ASSUME LockInv, NEW t \in Threads, NEW u \in Threads,
           lockPc[t] \in {"claim", "drain", "writing", "wunlock", "radd", "runlock"},
           lockPc[u] \in {"claim", "drain", "writing", "wunlock", "radd", "runlock"}
    PROVE  t = u
  BY DEF LockInv, lock!MutexHeld

\* The fields stay in their range: a step that takes one from a count finds it there.
LEMMA WriterType ==
    ASSUME NEW t \in Threads, LockInv, WriterStep(t)
    PROVE  lock!TypeOK'
  <1>1. lockPc[t] = "claim" => writers > 0 /\ writing = 0
    BY LockCounted, LockHolder DEF LockInv, lock!TypeOK
  <1> QED
    BY <1>1 DEF WriterStep, LockInv, lock!TypeOK, lock!Labels, lock!Goto, lock!Announce,
                lock!WriterMutex, lock!Claim, lock!Drained, lock!ClearWriting, lock!WriterUnlock,
                lock!mutex!Acquire, lock!mutex!Release, lock!mutex!Hand

\* A reader's step keeps the types of the lock.
LEMMA ReaderType ==
    ASSUME NEW t \in Threads, LockInv, ReaderStep(t)
    PROVE  lock!TypeOK'
  <1>1. lockPc[t] = "reading" => readers > 0
    BY LockCounted DEF LockInv, lock!TypeOK
  <1> QED
    BY <1>1 DEF ReaderStep, LockInv, lock!TypeOK, lock!Labels, lock!Goto, lock!ReaderLoad,
                lock!ReaderFast, lock!ReaderMutex, lock!ReaderAdd, lock!ReaderUnlock,
                lock!ReaderLeave, lock!Post, lock!Word, lock!Forget,
                lock!mutex!Acquire, lock!mutex!Release, lock!mutex!Hand

\* The mutex changes hands where a call takes it or gives it back.
LEMMA LockMutex ==
    ASSUME NEW t \in Threads, LockInv, WriterStep(t) \/ ReaderStep(t)
    PROVE  lock!MutexHeld'
  <1>1. NoOwner \notin Threads
    BY PrimitivesAssumption DEF PrimitivesAssumption, lock!RwLockAssumption
  <1>2. CASE WriterStep(t)
    BY <1>1, <1>2 DEF WriterStep, LockInv, lock!MutexHeld, lock!TypeOK, lock!Labels, lock!Goto,
                lock!Announce, lock!WriterMutex, lock!Claim, lock!Drained, lock!ClearWriting,
                lock!WriterUnlock, lock!mutex!Acquire, lock!mutex!Release, lock!mutex!Hand
  <1>3. CASE ReaderStep(t)
    BY <1>1, <1>3 DEF ReaderStep, LockInv, lock!MutexHeld, lock!TypeOK, lock!Labels, lock!Goto,
                lock!ReaderLoad, lock!ReaderFast, lock!ReaderMutex, lock!ReaderAdd,
                lock!ReaderUnlock, lock!ReaderLeave, lock!Post, lock!Word, lock!Forget,
                lock!mutex!Acquire, lock!mutex!Release, lock!mutex!Hand
  <1> QED
    BY <1>2, <1>3

\* A writer comes in when no reader is inside, and owes nothing to anybody.
LEMMA WriterOwed ==
    ASSUME NEW t \in Threads, LockInv, WriterStep(t)
    PROVE  lock!Exclusion' /\ Owed'
  <1>1. lockPc[t] = "claim" => /\ \A u \in Threads \ {t} : lockPc[u] \notin {"drain", "writing"}
                               /\ NDraining = 0
    BY LockHolder, LockCounted, CountFinite DEF NDraining
  <1>2. lockPc[t] = "claim" => permits = 0 /\ NPosting = 0
    BY <1>1, CountFinite DEF LockInv, Numbers, NPosting, lock!TypeOK
  <1>3. lockPc[t] \in {"claim", "drain"} /\ readers = 0
           => \A u \in Threads : lockPc[u] \notin {"reading", "runlock"}
    BY LockCounted
  <1>4. lockPc[t] = "drain" /\ permits > 0 => readers = 0
    BY CountFinite DEF LockInv, Owed, NPosting, lock!TypeOK
  <1>5. NPosting' = NPosting
    BY LockMoved DEF WriterStep, LockInv, lock!Announce, lock!WriterMutex, lock!Claim,
                     lock!Drained, lock!ClearWriting, lock!WriterUnlock
  <1>6. lockPc[t] \in {"claim", "drain"} =>
           \A u \in Threads \ {t} : lockPc[u] \notin {"drain", "writing"}
    BY LockHolder
  <1>7. lock!Exclusion'
    BY <1>3, <1>4, <1>6 DEF WriterStep, LockInv, lock!Exclusion, lock!TypeOK, lock!Labels,
                lock!Goto, lock!Announce, lock!WriterMutex, lock!Claim, lock!Drained,
                lock!ClearWriting, lock!WriterUnlock
  <1>8. Owed'
    BY <1>2, <1>4, <1>5, <1>6 DEF WriterStep, LockInv, Owed, lock!TypeOK, lock!Labels,
                lock!Goto, lock!Announce, lock!WriterMutex, lock!Claim, lock!Drained,
                lock!ClearWriting, lock!WriterUnlock
  <1> QED
    BY <1>7, <1>8

\* A reader comes in when nobody has claimed the lock, and the last one to leave
\* posts to the writer that has.
LEMMA ReaderOwed ==
    ASSUME NEW t \in Threads, LockInv, ReaderStep(t)
    PROVE  lock!Exclusion' /\ Owed'
  <1>0. NPosting \in Nat
    BY CountFinite DEF NPosting
  <1>1. writing = 0 => \A u \in Threads : lockPc[u] \notin {"drain", "writing"}
    BY LockCounted
  <1>2. lockPc[t] \in {"radd", "runlock"} =>
           \A u \in Threads : lockPc[u] \notin {"drain", "writing"}
    BY LockHolder
  <1>3. CASE lock!ReaderLoad(t) \/ lock!ReaderFast(t) \/ lock!ReaderMutex(t)
    <2>1. CASE UNCHANGED lockPc
      <3>1. NPosting' = NPosting /\ UNCHANGED <<readers, permits>>
        BY <1>3, <2>1 DEF NPosting, Count, lock!At, lock!ReaderLoad, lock!ReaderFast,
                          lock!ReaderMutex, lock!Goto, LockInv, lock!TypeOK, lock!Labels
      <3> QED
        BY <2>1, <3>1 DEF LockInv, lock!Exclusion, Owed
    <2>2. CASE ~UNCHANGED lockPc
      <3>1. NPosting' = NPosting
        BY <1>3, <2>2, LockMoved DEF LockInv, lock!ReaderLoad, lock!ReaderFast, lock!ReaderMutex
      <3> QED
        BY <1>1, <1>3, <2>2, <3>1
        DEF LockInv, lock!Exclusion, Owed, lock!TypeOK, lock!Labels, lock!Goto, lock!ReaderLoad,
            lock!ReaderFast, lock!ReaderMutex, lock!MayEnter, lock!Word
    <2> QED
      BY <2>1, <2>2
  <1>4. CASE lock!ReaderAdd(t) \/ lock!ReaderUnlock(t)
    BY <1>2, <1>4 DEF LockInv, lock!Exclusion, Owed, lock!TypeOK, lock!Labels, lock!Goto,
                      lock!ReaderAdd, lock!ReaderUnlock
  <1>5. CASE lock!ReaderLeave(t)
    <2>1. readers > 0 /\ \A u \in Threads : lockPc[u] # "writing"
      BY <1>5, LockCounted DEF LockInv, Owed, lock!ReaderLeave
    <2>2. CASE readers = 1 /\ writing # 0
      <3>1. NPosting' = NPosting + 1
        BY <1>0, <1>5, <2>2, LockMoved DEF LockInv, lock!ReaderLeave
      <3> QED
        BY <1>0, <1>5, <2>1, <2>2, <3>1 DEF LockInv, lock!Exclusion, Owed, lock!TypeOK,
                lock!Labels, lock!Goto, lock!ReaderLeave
    <2>3. CASE ~(readers = 1 /\ writing # 0)
      <3>1. NPosting' = NPosting
        BY <1>0, <1>5, <2>3, LockMoved DEF LockInv, lock!ReaderLeave
      <3> QED
        BY <1>0, <1>1, <1>5, <2>1, <2>3, <3>1 DEF LockInv, lock!Exclusion, Owed, lock!TypeOK,
                lock!Labels, lock!Goto, lock!ReaderLeave
    <2> QED
      BY <2>2, <2>3
  <1>6. CASE lock!Post(t)
    <2>1. NPosting' = NPosting - 1
      BY <1>0, <1>6, LockMoved DEF LockInv, lock!Post
    <2> QED
      BY <1>0, <1>6, <2>1 DEF LockInv, lock!Exclusion, Owed, lock!TypeOK, lock!Labels,
                              lock!Goto, lock!Post
  <1> QED
    BY <1>3, <1>4, <1>5, <1>6 DEF ReaderStep

\* The other primitives leave the lock alone.
LEMMA LockIdle ==
    ASSUME LockInv, UNCHANGED lockVars
    PROVE  LockInv'
  <1>1. /\ NClaimed' = NClaimed /\ NAnnounced' = NAnnounced /\ NReaders' = NReaders
        /\ NPosting' = NPosting /\ NDraining' = NDraining
    BY DEF lockVars, NClaimed, NAnnounced, NReaders, NPosting, NDraining, Count, lock!At
  <1> QED
    BY <1>1 DEF LockInv, lockVars, Numbers, Owed, lock!TypeOK, lock!Exclusion, lock!MutexHeld

\* Every step of the reader-writer lock keeps its invariant.
LEMMA LockStep ==
    ASSUME LockInv, lock!Next
    PROVE  LockInv'
  <1>1. PICK t \in Threads : WriterStep(t) \/ ReaderStep(t)
    BY DEF lock!Next, lock!Inside, WriterStep, ReaderStep
  <1>2. CASE WriterStep(t)
    BY <1>2, WriterNumbers, WriterType, LockMutex, WriterOwed DEF WriterStep, LockInv
  <1>3. CASE ReaderStep(t)
    BY <1>3, ReaderNumbers, ReaderType, LockMutex, ReaderOwed DEF ReaderStep, LockInv
  <1> QED
    BY <1>1, <1>2, <1>3

\* A new reader-writer lock.
LEMMA LockInit ==
    ASSUME lock!Init
    PROVE  LockInv
  <1>1. /\ NClaimed = 0 /\ NAnnounced = 0 /\ NReaders = 0 /\ NPosting = 0 /\ NDraining = 0
    BY CountZero DEF lock!Init, NClaimed, NAnnounced, NReaders, NPosting, NDraining
  <1>2. NoOwner \notin Threads
    BY PrimitivesAssumption DEF PrimitivesAssumption, lock!RwLockAssumption
  <1> QED
    BY <1>1, <1>2 DEF LockInv, lock!Init, Numbers, Owed, lock!TypeOK, lock!Exclusion,
                      lock!MutexHeld, lock!Labels

\* RwLock.rs: one writer or many readers, the word exact, the mutex with writers and
\* slow readers, and no permit of the semaphore but the one owed to a draining writer.
THEOREM RwLockInvariant == SpecAll => []RwLockIInv
  <1>1. InitAll => LockInv
    BY LockInit DEF InitAll
  <1>2. LockInv /\ [NextAll]_allVars => LockInv'
    BY LockIdle, LockStep DEF NextAll, Use, allVars
  <1>3. LockInv => RwLockIInv
    BY LockInvIsIInv
  <1> QED
    BY <1>1, <1>2, <1>3, PTL DEF SpecAll

-----------------------------------------------------------------------------
(* ResetEvent.rs *)

\* A new event.
LEMMA EventInit ==
    ASSUME event!Init
    PROVE  event!IInv
  BY DEF event!Init, event!IInv, event!TypeOK, event!PastTheCas, event!ReturnsOnlyWhenSet,
         event!NoSleepThroughSet, event!Callers, event!UNSET, event!WAITING, event!IS_SET

\* Every step of the event keeps its invariant.
LEMMA EventStep ==
    ASSUME event!IInv, event!Next
    PROVE  event!IInv'
  <1> USE DEF event!IInv, event!TypeOK, event!PastTheCas, event!ReturnsOnlyWhenSet,
              event!NoSleepThroughSet, event!Callers, event!UNSET, event!WAITING, event!IS_SET,
              event!Goto
  <1>0. Threads \cap Others = {}
    BY PrimitivesAssumption DEF PrimitivesAssumption, event!ResetEventAssumption
  <1>load. ASSUME NEW t \in event!Callers, event!WaitLoad(t) PROVE event!IInv'
    BY <1>0, <1>load DEF event!WaitLoad
  <1>cas. ASSUME NEW t \in event!Callers, event!WaitCas(t) PROVE event!IInv'
    BY <1>0, <1>cas DEF event!WaitCas
  <1>wait. ASSUME NEW t \in event!Callers, event!FutexWait(t) PROVE event!IInv'
    BY <1>0, <1>wait DEF event!FutexWait
  <1>recheck. ASSUME NEW t \in event!Callers, event!Recheck(t) PROVE event!IInv'
    BY <1>0, <1>recheck DEF event!Recheck
  <1>spurious. ASSUME NEW t \in event!Callers, event!SpuriousWake(t) PROVE event!IInv'
    BY <1>0, <1>spurious DEF event!SpuriousWake
  <1>look. ASSUME NEW t \in event!Callers, event!SetLoad(t) PROVE event!IInv'
    BY <1>0, <1>look DEF event!SetLoad
  <1>swap. ASSUME NEW t \in event!Callers, event!SetSwap(t) PROVE event!IInv'
    BY <1>0, <1>swap DEF event!SetSwap
  <1>wake. ASSUME NEW t \in event!Callers, event!SetWake(t) PROVE event!IInv'
    BY <1>0, <1>wake DEF event!SetWake
  <1> QED
    BY <1>load, <1>cas, <1>wait, <1>recheck, <1>spurious, <1>look, <1>swap, <1>wake
    DEF event!Next, event!Step

\* A step of another primitive is none of the event.
LEMMA EventIdle ==
    ASSUME event!IInv, UNCHANGED eventVars
    PROVE  event!IInv'
  BY DEF eventVars, event!IInv, event!TypeOK, event!PastTheCas, event!ReturnsOnlyWhenSet,
         event!NoSleepThroughSet

-----------------------------------------------------------------------------
(* Semaphore.rs *)

\* FiniteSets as Semaphore and its condition see it is FiniteSets.
LEMMA SemCounts ==
    ASSUME NEW S
    PROVE  /\ sem!Cardinality(S) = Cardinality(S)
           /\ sem!cond!Cardinality(S) = Cardinality(S)
           /\ sem!IsFiniteSet(S) <=> IsFiniteSet(S)
  <1>1. sem!Cardinality(S) = Cardinality(S)
    BY DEF sem!Cardinality, Cardinality
  <1>2. sem!cond!Cardinality(S) = Cardinality(S)
    BY DEF sem!cond!Cardinality, Cardinality
  <1>3. sem!IsFiniteSet(S) <=> IsFiniteSet(S)
    BY DEF sem!IsFiniteSet, IsFiniteSet
  <1> QED
    BY <1>1, <1>2, <1>3

\* A new semaphore.
LEMMA SemInit ==
    ASSUME sem!Init
    PROVE  sem!IInv
  <1>1. NoOwner \notin Threads \cup Others /\ MaxPermits \in Nat
    BY PrimitivesAssumption DEF PrimitivesAssumption, sem!SemaphoreAssumption
  <1>2. sem!Cardinality({}) = 0
    BY SemCounts, FS_EmptySet
  <1> QED
    BY <1>1, <1>2 DEF sem!Init, sem!IInv, sem!TypeOK, sem!MutexHeld, sem!NoStrandedPermit,
                      sem!Callers

\* The blocked threads can be counted, one by one as they come and go.
LEMMA SemBlocked ==
    ASSUME sem!IInv
    PROVE  /\ sem!Cardinality(blocked) \in Nat
           /\ sem!cond!Wakeable = sem!Cardinality(blocked) - credits
           /\ sem!Cardinality(blocked) = 0 <=> blocked = {}
           /\ \A t : t \notin blocked =>
                 sem!Cardinality(blocked \cup {t}) = sem!Cardinality(blocked) + 1
           /\ \A t \in blocked :
                 sem!Cardinality(blocked \ {t}) = sem!Cardinality(blocked) - 1
  <1>1. blocked \subseteq Threads
    BY DEF sem!IInv, sem!TypeOK
  <1>2. IsFiniteSet(Threads)
    BY PrimitivesAssumption, SemCounts DEF PrimitivesAssumption, sem!SemaphoreAssumption
  <1>3. IsFiniteSet(blocked)
    BY <1>1, <1>2, FS_Subset
  <1>4. Cardinality(blocked) \in Nat /\ (Cardinality(blocked) = 0 <=> blocked = {})
    BY <1>3, FS_CardinalityType, FS_EmptySet
  <1>5. \A t : t \notin blocked => Cardinality(blocked \cup {t}) = Cardinality(blocked) + 1
    BY <1>3, FS_AddElement
  <1>6. \A t \in blocked : Cardinality(blocked \ {t}) = Cardinality(blocked) - 1
    BY <1>3, FS_RemoveElement
  <1> QED
    BY <1>4, <1>5, <1>6, SemCounts DEF sem!cond!Wakeable

\* Every step of the semaphore keeps its invariant.
LEMMA SemStep ==
    ASSUME sem!IInv, sem!Next
    PROVE  sem!IInv'
  <1> USE DEF sem!IInv, sem!TypeOK, sem!MutexHeld, sem!NoStrandedPermit, sem!Callers, sem!Goto
  <1>0. NoOwner \notin Threads \cup Others /\ MaxPermits \in Nat /\ Threads \cap Others = {}
    BY PrimitivesAssumption DEF PrimitivesAssumption, sem!SemaphoreAssumption
  <1>acquire. ASSUME NEW t \in sem!Callers, sem!Acquire(t) PROVE sem!IInv'
    BY <1>0, <1>acquire DEF sem!Acquire, sem!mutex!Acquire, sem!mutex!Hand
  <1>drop. ASSUME NEW t \in sem!Callers, sem!Drop(t) PROVE sem!IInv'
    BY <1>0, <1>drop DEF sem!Drop, sem!mutex!Release, sem!mutex!Hand
  <1>block. ASSUME NEW t \in sem!Callers, sem!Block(t) PROVE sem!IInv'
    BY <1>0, <1>block, SemBlocked DEF sem!Block, sem!cond!Wait, sem!mutex!Release, sem!mutex!Hand
  <1>woken. ASSUME NEW t \in sem!Callers, sem!Woken(t) PROVE sem!IInv'
    BY <1>0, <1>woken, SemBlocked DEF sem!Woken, sem!cond!Return
  <1>take. ASSUME NEW t \in sem!Callers, sem!Take(t) PROVE sem!IInv'
    <2>1. blocked' = blocked
      BY <1>take DEF sem!Take, sem!cond!Signal
    <2>2. credits' \in 0 .. sem!Cardinality(blocked)
      BY <1>take, SemBlocked DEF sem!Take, sem!cond!Signal
    <2>3. semPermits' > 0 /\ blocked # {} => credits' > 0
      <3>1. SUFFICES ASSUME semPermits' > 0, blocked # {} PROVE credits' > 0
        OBVIOUS
      <3>2. sem!cond!Signal
        BY <1>take, <3>1 DEF sem!Take
      <3>3. sem!Cardinality(blocked) \in Nat \ {0} /\ credits \in Nat
        BY <3>1, SemBlocked
      <3>4. sem!cond!Wakeable = sem!Cardinality(blocked) - credits
        BY SemBlocked
      <3> QED
        BY <3>2, <3>3, <3>4 DEF sem!cond!Signal
    <2>4. sem!TypeOK'
      <3>1. semPermits' \in 0 .. MaxPermits
        BY <1>0, <1>take DEF sem!Take
      <3>2. /\ semPc' \in [Threads \cup Others ->
                             {"out", "relock", "check", "add", "blocked", "drop"}]
            /\ blocked = {u \in Threads : semPc'[u] = "blocked"}
        BY <1>take DEF sem!Take
      <3>3. semOwner' = semOwner
        BY <1>take DEF sem!Take
      <3> QED
        BY <2>1, <2>2, <3>1, <3>2, <3>3
    <2>5. sem!MutexHeld'
      BY <1>0, <1>take DEF sem!Take
    <2>6. sem!NoStrandedPermit'
      BY <2>1, <2>3
    <2> QED
      BY <2>4, <2>5, <2>6
  <1>post. ASSUME NEW t \in sem!Callers, sem!Post(t) PROVE sem!IInv'
    BY <1>0, <1>post, SemBlocked DEF sem!Post, sem!cond!Signal
  <1> QED
    BY <1>acquire, <1>drop, <1>block, <1>woken, <1>take, <1>post DEF sem!Next, sem!Step

\* A step of another primitive is none of the semaphore.
LEMMA SemIdle ==
    ASSUME sem!IInv, UNCHANGED semVars
    PROVE  sem!IInv'
  BY DEF semVars, sem!IInv, sem!TypeOK, sem!MutexHeld, sem!NoStrandedPermit, sem!Callers

-----------------------------------------------------------------------------
(* channel.rs *)

\* FiniteSets as Channel and its conditions see it is FiniteSets.
LEMMA ChannelCounts ==
    ASSUME NEW S
    PROVE  /\ channel!Cardinality(S) = Cardinality(S)
           /\ channel!putters!Cardinality(S) = Cardinality(S)
           /\ channel!getters!Cardinality(S) = Cardinality(S)
           /\ channel!IsFiniteSet(S) <=> IsFiniteSet(S)
  <1>1. channel!Cardinality(S) = Cardinality(S)
    BY DEF channel!Cardinality, Cardinality
  <1>2. channel!putters!Cardinality(S) = Cardinality(S)
    BY DEF channel!putters!Cardinality, Cardinality
  <1>3. channel!getters!Cardinality(S) = Cardinality(S)
    BY DEF channel!getters!Cardinality, Cardinality
  <1>4. channel!IsFiniteSet(S) <=> IsFiniteSet(S)
    BY DEF channel!IsFiniteSet, IsFiniteSet
  <1> QED
    BY <1>1, <1>2, <1>3, <1>4

\* The labels of a call.
CallLabels == {"out", "relock", "inside", "blocked", "drop"}

\* The callers of a group at some labels.
CallersAt(group, labels) == {t \in group : bufferPc[t] \in labels}

\* They can be counted, and the count is zero when nobody is there.
LEMMA CallersFinite ==
    ASSUME NEW L, NEW G \in {Threads, Others}
    PROVE  /\ IsFiniteSet(CallersAt(G, L)) /\ Cardinality(CallersAt(G, L)) \in Nat
           /\ Cardinality(CallersAt(G, L)) = 0 <=> CallersAt(G, L) = {}
  <1>1. CallersAt(G, L) \subseteq G
    BY DEF CallersAt
  <1>2. IsFiniteSet(G)
    BY PrimitivesAssumption, ChannelCounts DEF PrimitivesAssumption, channel!ChannelAssumption
  <1>3. IsFiniteSet(CallersAt(G, L))
    BY <1>1, <1>2, FS_Subset
  <1> QED
    BY <1>3, FS_CardinalityType, FS_EmptySet

\* A caller that moves leaves the count of where it was and enters that of where it goes.
LEMMA CallersMove ==
    ASSUME NEW L, NEW G \in {Threads, Others}, NEW t \in channel!Callers, NEW x,
           bufferPc \in [channel!Callers -> CallLabels], channel!Goto(t, x)
    PROVE  Cardinality(CallersAt(G, L))' = Cardinality(CallersAt(G, L))
                                + (IF t \in G /\ x \in L THEN 1 ELSE 0)
                                - (IF t \in G /\ bufferPc[t] \in L THEN 1 ELSE 0)
  <1> DEFINE S == CallersAt(G, L)
             T == {u \in G : bufferPc'[u] \in L}
  <1>0. Cardinality(CallersAt(G, L))' = Cardinality(T)
    BY DEF CallersAt
  <1>1. IsFiniteSet(S) /\ Cardinality(S) \in Nat
    BY CallersFinite
  <1>2. CASE t \in G /\ x \in L /\ bufferPc[t] \notin L
    <2>1. T = S \cup {t} /\ t \notin S
      BY <1>2 DEF CallersAt, channel!Goto, channel!Callers
    <2>2. Cardinality(T) = Cardinality(S) + 1
      BY <1>1, <2>1, FS_AddElement
    <2> QED
      BY <1>0, <1>1, <1>2, <2>2
  <1>3. CASE t \in G /\ x \notin L /\ bufferPc[t] \in L
    <2>1. T = S \ {t} /\ t \in S
      BY <1>3 DEF CallersAt, channel!Goto, channel!Callers
    <2>2. Cardinality(T) = Cardinality(S) - 1
      BY <1>1, <2>1, FS_RemoveElement
    <2> QED
      BY <1>0, <1>1, <1>3, <2>2
  <1>4. CASE t \notin G \/ (x \in L <=> bufferPc[t] \in L)
    <2>1. T = S
      BY <1>4 DEF CallersAt, channel!Goto, channel!Callers
    <2>2. Cardinality(T) = Cardinality(S)
      BY <2>1
    <2> QED
      BY <1>0, <1>1, <1>4, <2>2
  <1> QED
    BY <1>2, <1>3, <1>4

NGetting      == Cardinality(CallersAt(Others, {"blocked"}))
NPutting      == Cardinality(CallersAt(Threads, {"blocked"}))
NAwakeReaders == Cardinality(CallersAt(Others, {"relock", "inside"}))
NAwakeWriters == Cardinality(CallersAt(Threads, {"relock", "inside"}))

\* channel!IInv as counts of threads.
ChannelType == /\ buffer \in Seq(Threads) /\ Len(buffer) <= Capacity
               /\ bufferOwner \in Threads \cup Others \cup {NoOwner}
               /\ putting = CallersAt(Threads, {"blocked"})
               /\ getting = CallersAt(Others, {"blocked"})
               /\ bufferPc \in [channel!Callers -> CallLabels]
               /\ out \in {<<>>} \cup {<<w>> : w \in Threads}

ChannelNumbers == /\ putCredits \in 0 .. NPutting
                  /\ getCredits \in 0 .. NGetting
                  /\ getCredits = NGetting \/ Len(buffer) <= getCredits + NAwakeReaders
                  /\ putCredits = NPutting \/ Capacity <= Len(buffer) + putCredits + NAwakeWriters

ChannelInv == ChannelType /\ ChannelNumbers

\* The channel's invariant, in two parts.
LEMMA ChannelInvIsIInv == ChannelInv <=> channel!IInv
  <1>0. Capacity \in Nat
    BY PrimitivesAssumption DEF PrimitivesAssumption, channel!ChannelAssumption
  <1>1. /\ buffer \in UNION {[1 .. n -> Threads] : n \in 0 .. Capacity}
        <=> buffer \in Seq(Threads) /\ Len(buffer) <= Capacity
    BY <1>0, SMTT(30)
  <1>2. ChannelType /\ putCredits \in 0 .. NPutting /\ getCredits \in 0 .. NGetting
           <=> channel!TypeOK
    BY <1>1, ChannelCounts DEF ChannelType, NPutting, NGetting, CallLabels, CallersAt,
             channel!TypeOK, channel!Callers
  <1>3. channel!TypeOK => (ChannelNumbers <=> putCredits \in 0 .. NPutting
                              /\ getCredits \in 0 .. NGetting /\ channel!Covered)
    BY ChannelCounts DEF ChannelNumbers, NPutting, NGetting, NAwakeReaders, NAwakeWriters,
            CallersAt, channel!Covered, channel!Awake, channel!TypeOK
  <1> QED
    BY <1>2, <1>3 DEF ChannelInv, ChannelNumbers, channel!IInv

\* The counts before and after a caller has moved.
LEMMA ChannelMoved ==
    ASSUME NEW t \in channel!Callers, NEW x, ChannelType, channel!Goto(t, x)
    PROVE  /\ NGetting' = NGetting + (IF t \in Others /\ x = "blocked" THEN 1 ELSE 0)
                                   - (IF t \in Others /\ bufferPc[t] = "blocked" THEN 1 ELSE 0)
           /\ NPutting' = NPutting + (IF t \in Threads /\ x = "blocked" THEN 1 ELSE 0)
                                   - (IF t \in Threads /\ bufferPc[t] = "blocked" THEN 1 ELSE 0)
           /\ NAwakeReaders' = NAwakeReaders
                    + (IF t \in Others /\ x \in {"relock", "inside"} THEN 1 ELSE 0)
                    - (IF t \in Others /\ bufferPc[t] \in {"relock", "inside"} THEN 1 ELSE 0)
           /\ NAwakeWriters' = NAwakeWriters
                    + (IF t \in Threads /\ x \in {"relock", "inside"} THEN 1 ELSE 0)
                    - (IF t \in Threads /\ bufferPc[t] \in {"relock", "inside"} THEN 1 ELSE 0)
  <1>0. bufferPc \in [channel!Callers -> CallLabels]
    BY DEF ChannelType
  <1>1. NGetting' = NGetting + (IF t \in Others /\ x \in {"blocked"} THEN 1 ELSE 0)
                             - (IF t \in Others /\ bufferPc[t] \in {"blocked"} THEN 1 ELSE 0)
    BY <1>0, CallersMove DEF NGetting
  <1>2. NPutting' = NPutting + (IF t \in Threads /\ x \in {"blocked"} THEN 1 ELSE 0)
                             - (IF t \in Threads /\ bufferPc[t] \in {"blocked"} THEN 1 ELSE 0)
    BY <1>0, CallersMove DEF NPutting
  <1>3. NAwakeReaders' = NAwakeReaders
             + (IF t \in Others /\ x \in {"relock", "inside"} THEN 1 ELSE 0)
             - (IF t \in Others /\ bufferPc[t] \in {"relock", "inside"} THEN 1 ELSE 0)
    BY <1>0, CallersMove DEF NAwakeReaders
  <1>4. NAwakeWriters' = NAwakeWriters
             + (IF t \in Threads /\ x \in {"relock", "inside"} THEN 1 ELSE 0)
             - (IF t \in Threads /\ bufferPc[t] \in {"relock", "inside"} THEN 1 ELSE 0)
    BY <1>0, CallersMove DEF NAwakeWriters
  <1> QED
    BY <1>1, <1>2, <1>3, <1>4

\* The counts are numbers, and what a condition can still signal is a difference of two.
LEMMA ChannelNat ==
    /\ NGetting \in Nat /\ NPutting \in Nat /\ NAwakeReaders \in Nat /\ NAwakeWriters \in Nat
    /\ ChannelType => /\ channel!getters!Wakeable = NGetting - getCredits
                      /\ channel!putters!Wakeable = NPutting - putCredits
  BY CallersFinite, ChannelCounts
  DEF NGetting, NPutting, NAwakeReaders, NAwakeWriters, ChannelType,
      channel!getters!Wakeable, channel!putters!Wakeable

\* The counts of awake threads are numbers after a step too.
LEMMA ChannelNatNext == (NAwakeReaders \in Nat /\ NAwakeWriters \in Nat)'
  <1>1. NAwakeReaders \in Nat /\ NAwakeWriters \in Nat
    BY ChannelNat
  <1> QED
    BY <1>1, PTL

\* The constants of the channel.
LEMMA ChannelConstants ==
    /\ NoOwner \notin Threads \cup Others /\ Threads \cap Others = {}
    /\ Capacity \in Nat \ {0} /\ channel!Callers = Threads \cup Others
  BY PrimitivesAssumption DEF PrimitivesAssumption, channel!ChannelAssumption, channel!Callers

\* Every step of the channel keeps its types.
LEMMA ChannelKeepsType ==
    ASSUME ChannelType, NEW t \in channel!Callers, channel!Step(t)
    PROVE  ChannelType'
  <1> USE ChannelConstants DEF ChannelType, CallLabels, CallersAt, channel!Goto
  <1>acquire. CASE channel!Acquire(t)
    BY <1>acquire DEF channel!Acquire, channel!conditions, channel!mutex!Acquire, channel!mutex!Hand
  <1>drop. CASE channel!Drop(t)
    BY <1>drop DEF channel!Drop, channel!conditions, channel!mutex!Release, channel!mutex!Hand
  <1>woken. CASE channel!Woken(t)
    BY <1>woken DEF channel!Woken, channel!putters!Return, channel!getters!Return
  <1>write. CASE channel!Write(t)
    <2>1. buffer' \in Seq(Threads) /\ Len(buffer') = Len(buffer) + 1
      BY <1>write DEF channel!Write
    <2>2. Len(buffer') <= Capacity
      BY <1>write, <2>1 DEF channel!Write
    <2> QED
      BY <1>write, <2>1, <2>2 DEF channel!Write, channel!getters!Signal
  <1>full. CASE channel!WriteBlocks(t)
    BY <1>full DEF channel!WriteBlocks, channel!putters!Wait,
                   channel!mutex!Release, channel!mutex!Hand
  <1>read. CASE channel!Read(t)
    <2>1. /\ buffer' \in Seq(Threads) /\ Len(buffer') = Len(buffer) - 1
          /\ Head(buffer) \in Threads
      BY <1>read, HeadTailProperties DEF channel!Read
    <2>2. Len(buffer') <= Capacity
      BY <2>1
    <2> QED
      BY <1>read, <2>1, <2>2 DEF channel!Read, channel!putters!Signal
  <1>empty. CASE channel!ReadBlocks(t)
    BY <1>empty DEF channel!ReadBlocks, channel!getters!Wait,
                    channel!mutex!Release, channel!mutex!Hand
  <1> QED
    BY <1>acquire, <1>drop, <1>woken, <1>write, <1>full, <1>read, <1>empty DEF channel!Step

\* Every step of the channel keeps the rest of its invariant.
LEMMA ChannelKeepsNumbers ==
    ASSUME ChannelInv, NEW t \in channel!Callers, channel!Step(t)
    PROVE  ChannelNumbers'
  <1>0. ChannelType /\ Len(buffer) \in Nat
    BY DEF ChannelInv, ChannelType
  <1> USE <1>0, ChannelConstants, ChannelNat DEF ChannelInv, ChannelNumbers
  <1>acquire. CASE channel!Acquire(t)
    <2>1. /\ channel!Goto(t, "inside") /\ bufferPc[t] \in {"out", "relock"}
          /\ UNCHANGED <<buffer, putCredits, getCredits>>
      BY <1>acquire DEF channel!Acquire, channel!conditions
    <2>2. /\ NPutting' = NPutting /\ NAwakeWriters' >= NAwakeWriters
          /\ NGetting' = NGetting /\ NAwakeReaders' >= NAwakeReaders
      BY <2>1, ChannelMoved
    <2> QED
      BY <2>1, <2>2, ChannelNatNext
  <1>drop. CASE channel!Drop(t)
    <2>1. /\ channel!Goto(t, "out") /\ bufferPc[t] = "drop"
          /\ UNCHANGED <<buffer, putCredits, getCredits>>
      BY <1>drop DEF channel!Drop, channel!conditions
    <2>2. /\ NPutting' = NPutting /\ NAwakeWriters' = NAwakeWriters
          /\ NGetting' = NGetting /\ NAwakeReaders' = NAwakeReaders
      BY <2>1, ChannelMoved, SMTT(30)
    <2> QED
      BY <2>1, <2>2
  <1>woken. CASE channel!Woken(t)
    <2>1. channel!Goto(t, "relock") /\ bufferPc[t] = "blocked" /\ buffer' = buffer
      BY <1>woken DEF channel!Woken
    <2>2. CASE channel!putters!Return(t) /\ UNCHANGED <<getting, getCredits>>
      <3>1. t \in Threads /\ t \notin Others
        BY <2>2 DEF channel!putters!Return, ChannelType, CallersAt
      <3>2. /\ NPutting' = NPutting - 1 /\ NAwakeWriters' = NAwakeWriters + 1
            /\ NGetting' = NGetting /\ NAwakeReaders' = NAwakeReaders
        BY <2>1, <3>1, ChannelMoved
      <3> QED
        BY <2>1, <2>2, <3>2 DEF channel!putters!Return
    <2>3. CASE channel!getters!Return(t) /\ UNCHANGED <<putting, putCredits>>
      <3>1. t \in Others /\ t \notin Threads
        BY <2>3 DEF channel!getters!Return, ChannelType, CallersAt
      <3>2. /\ NGetting' = NGetting - 1 /\ NAwakeReaders' = NAwakeReaders + 1
            /\ NPutting' = NPutting /\ NAwakeWriters' = NAwakeWriters
        BY <2>1, <3>1, ChannelMoved
      <3> QED
        BY <2>1, <2>3, <3>2 DEF channel!getters!Return
    <2> QED
      BY <1>woken, <2>2, <2>3 DEF channel!Woken
  <1>write. CASE channel!Write(t)
    <2>1. Len(buffer') = Len(buffer) + 1
      BY <1>write DEF channel!Write, ChannelType
    <2>2. /\ channel!Goto(t, "drop") /\ bufferPc[t] = "inside"
          /\ t \in Threads /\ t \notin Others
      BY <1>write DEF channel!Write
    <2>3. /\ NAwakeWriters' = NAwakeWriters - 1 /\ NPutting' = NPutting
          /\ NAwakeReaders' = NAwakeReaders /\ NGetting' = NGetting
      BY <2>2, ChannelMoved
    <2> QED
      BY <1>write, <2>1, <2>3 DEF channel!Write, channel!getters!Signal
  <1>full. CASE channel!WriteBlocks(t)
    <2>1. /\ NAwakeWriters' = NAwakeWriters - 1 /\ NPutting' = NPutting + 1
          /\ NAwakeReaders' = NAwakeReaders /\ NGetting' = NGetting
      BY <1>full, ChannelMoved DEF channel!WriteBlocks
    <2>2. NAwakeWriters' \in Nat
      BY ChannelNatNext
    <2> QED
      BY <1>full, <2>1, <2>2 DEF channel!WriteBlocks, channel!putters!Wait
  <1>read. CASE channel!Read(t)
    <2>1. Len(buffer') = Len(buffer) - 1
      BY <1>read, HeadTailProperties DEF channel!Read, ChannelType
    <2>2. /\ channel!Goto(t, "drop") /\ bufferPc[t] = "inside"
          /\ t \in Others /\ t \notin Threads
      BY <1>read DEF channel!Read
    <2>3. /\ NAwakeReaders' = NAwakeReaders - 1 /\ NGetting' = NGetting
          /\ NAwakeWriters' = NAwakeWriters /\ NPutting' = NPutting
      BY <2>2, ChannelMoved, SMTT(30)
    <2> QED
      BY <1>read, <2>1, <2>3 DEF channel!Read, channel!putters!Signal
  <1>empty. CASE channel!ReadBlocks(t)
    <2>1. /\ NAwakeReaders' = NAwakeReaders - 1 /\ NGetting' = NGetting + 1
          /\ NAwakeWriters' = NAwakeWriters /\ NPutting' = NPutting
      BY <1>empty, ChannelMoved DEF channel!ReadBlocks
    <2>2. NAwakeReaders' \in Nat /\ Len(buffer) = 0
      BY <1>empty, ChannelNatNext DEF channel!ReadBlocks
    <2> QED
      BY <1>empty, <2>1, <2>2 DEF channel!ReadBlocks, channel!getters!Wait
  <1> QED
    BY <1>acquire, <1>drop, <1>woken, <1>write, <1>full, <1>read, <1>empty DEF channel!Step

\* A new channel.
LEMMA ChannelInit ==
    ASSUME channel!Init
    PROVE  ChannelInv
  <1>1. /\ CallersAt(Others, {"blocked"}) = {} /\ CallersAt(Threads, {"blocked"}) = {}
    BY DEF channel!Init, CallersAt, channel!Callers
  <1>2. NGetting = 0 /\ NPutting = 0
    BY <1>1, FS_EmptySet DEF NGetting, NPutting
  <1>3. ChannelType
    BY <1>1, ChannelConstants DEF channel!Init, ChannelType, CallLabels
  <1> QED
    BY <1>2, <1>3, ChannelNat, ChannelConstants DEF channel!Init, ChannelInv, ChannelNumbers

\* A step of another primitive is none of the channel.
LEMMA ChannelIdle ==
    ASSUME ChannelInv, UNCHANGED channelVars
    PROVE  ChannelInv'
  BY DEF ChannelInv, ChannelType, ChannelNumbers, channelVars, channel!Callers, CallersAt,
         NGetting, NPutting, NAwakeReaders, NAwakeWriters

\* Every step of the channel keeps its invariant.
LEMMA ChannelStep ==
    ASSUME ChannelInv, channel!Next
    PROVE  ChannelInv'
  BY ChannelKeepsType, ChannelKeepsNumbers DEF ChannelInv, channel!Next

\* Nobody is stranded where there are as many on the way as there is to take.
LEMMA ChannelServes ==
    ASSUME ChannelInv
    PROVE  channel!NoStrandedItem /\ channel!NoStrandedPlace
  <1>1. /\ getting = CallersAt(Others, {"blocked"}) /\ putting = CallersAt(Threads, {"blocked"})
        /\ channel!Awake(Others) = CallersAt(Others, {"relock", "inside"})
        /\ channel!Awake(Threads) = CallersAt(Threads, {"relock", "inside"})
    BY DEF ChannelInv, ChannelType, CallersAt, channel!Awake
  <1>2. /\ getting # {} => NGetting > 0
        /\ putting # {} => NPutting > 0
    BY <1>1, CallersFinite DEF NGetting, NPutting
  <1>3. /\ NAwakeReaders > 0 => channel!Awake(Others) # {}
        /\ NAwakeWriters > 0 => channel!Awake(Threads) # {}
    BY <1>1, CallersFinite DEF NAwakeReaders, NAwakeWriters
  <1>4. buffer # <<>> => Len(buffer) > 0
    BY DEF ChannelInv, ChannelType
  <1> QED
    BY <1>2, <1>3, <1>4, ChannelNat, ChannelConstants
    DEF ChannelInv, ChannelType, ChannelNumbers, channel!NoStrandedItem, channel!NoStrandedPlace

-----------------------------------------------------------------------------
(* All of them *)

\* The steps of one primitive leave the others alone.
StrandedInv == IInv /\ sem!IInv /\ event!IInv /\ ChannelInv

\* Every step of any primitive keeps all their invariants.
LEMMA StrandedStep ==
    ASSUME StrandedInv, [NextAll]_allVars
    PROVE  StrandedInv'
  <1>1. MutexAssumption
    BY PrimitivesAssumption DEF PrimitivesAssumption
  <1>2. IInv'
    <2>1. [Next]_vars
      BY DEF NextAll, Use, allVars
    <2> QED
      BY <1>1, <2>1, StepIInv DEF StrandedInv
  <1>3. sem!IInv'
    <2>1. sem!Next \/ UNCHANGED semVars
      BY DEF NextAll, Use, allVars
    <2> QED
      BY <2>1, SemStep, SemIdle DEF StrandedInv
  <1>4. event!IInv'
    <2>1. event!Next \/ UNCHANGED eventVars
      BY DEF NextAll, Use, allVars
    <2> QED
      BY <2>1, EventStep, EventIdle DEF StrandedInv
  <1>5. ChannelInv'
    <2>1. channel!Next \/ UNCHANGED channelVars
      BY DEF NextAll, Use, allVars
    <2> QED
      BY <2>1, ChannelStep, ChannelIdle DEF StrandedInv
  <1> QED
    BY <1>2, <1>3, <1>4, <1>5 DEF StrandedInv

\* Semaphore.rs, ResetEvent.rs, channel.rs: no permit, item or free place is left beside
\* sleepers with nobody on the way to it, and nobody sleeps through set().
THEOREM PrimitivesNobodyStranded == SpecAll => []NobodyStranded
  <1>1. InitAll => StrandedInv
    BY InitIInv, SemInit, EventInit, ChannelInit DEF InitAll, StrandedInv
  <1>2. StrandedInv /\ [NextAll]_allVars => StrandedInv'
    BY StrandedStep
  <1>3. StrandedInv => NobodyStranded
    BY ChannelInvIsIInv, ChannelServes
    DEF StrandedInv, NobodyStranded, IInv, sem!IInv, event!IInv, channel!IInv
  <1> QED
    BY <1>1, <1>2, <1>3, PTL DEF SpecAll
=============================================================================
