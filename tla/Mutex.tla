------------------------------- MODULE Mutex --------------------------------
(***************************************************************************)
(* The futex implementation of Mutex.rs (FutexImpl): a 32-bit word with    *)
(* three values and the threads parked on its address.                     *)
(*                                                                         *)
(* One action is one atomic access to the word or one futex call.  Memory  *)
(* is sequentially consistent.                                             *)
(***************************************************************************)
EXTENDS Naturals

CONSTANTS Threads,   \* the threads that share the mutex
          NoOwner,   \* not a thread
          X86        \* those whose try_lock is the x86 one; a build has all or none

MutexAssumption == NoOwner \notin Threads /\ X86 \subseteq Threads

VARIABLES state,     \* the word
          pc,        \* where each thread is in lock() or unlock()
          parked     \* the threads asleep in FUTEX_WAIT on the word

vars == <<state, pc, parked>>

UNLOCKED  == 0
LOCKED    == 1
CONTENDED == 3       \* contains the LOCKED bit

Goto(t, label) == pc' = [pc EXCEPT ![t] = label]

Init == /\ state = UNLOCKED
        /\ pc = [t \in Threads |-> "out"]
        /\ parked = {}

-----------------------------------------------------------------------------
(* lock() *)

\* try_lock with `lock bts`: sets the LOCKED bit and leaves CONTENDED alone.
TryLockX86(t) ==
    /\ t \in X86
    /\ state' = IF state = UNLOCKED THEN LOCKED ELSE state
    /\ Goto(t, IF state = UNLOCKED THEN "held" ELSE "slow")

\* try_lock with compare_exchange_weak, which may also fail on an unlocked word.
TryLockWeak(t) ==
    /\ t \notin X86
    /\ \/ /\ state = UNLOCKED
          /\ state' = LOCKED
          /\ Goto(t, "held")
       \/ /\ state' = state
          /\ Goto(t, "slow")

TryLock(t) == /\ pc[t] = "out"
              /\ TryLockX86(t) \/ TryLockWeak(t)
              /\ UNCHANGED parked

\* lock_slow looks at the word before it swaps.
LockSlow(t) == /\ pc[t] = "slow"
               /\ Goto(t, IF state = CONTENDED THEN "wait" ELSE "swap")
               /\ UNCHANGED <<state, parked>>

\* Futex::wait_forever(&state, CONTENDED): compares and sleeps in one step.
FutexWait(t) == /\ pc[t] = "wait"
                /\ IF state = CONTENDED
                   THEN Goto(t, "parked") /\ parked' = parked \cup {t}
                   ELSE Goto(t, "swap") /\ UNCHANGED parked
                /\ UNCHANGED state

\* Slip: taking the lock as LOCKED after having slept.
SwapLosesContended(t) ==
    /\ pc[t] = "swap"
    /\ state' = IF state = UNLOCKED THEN LOCKED ELSE CONTENDED
    /\ Goto(t, IF state = UNLOCKED THEN "held" ELSE "wait")
    /\ UNCHANGED parked

\* Slip: taking a return from the futex wait for the lock itself.
SwapTrustsWake(t) == /\ pc[t] = "swap"
                     /\ state' = CONTENDED
                     /\ Goto(t, "held")
                     /\ UNCHANGED parked

\* The loop of lock_slow: take the lock as CONTENDED, or sleep again.
Swap(t) == /\ pc[t] = "swap"
           /\ state' = CONTENDED
           /\ Goto(t, IF state = UNLOCKED THEN "held" ELSE "wait")
           /\ UNCHANGED parked

\* FUTEX_WAIT may return without a wake.
SpuriousWake(t) == /\ t \in parked
                   /\ parked' = parked \ {t}
                   /\ Goto(t, "swap")
                   /\ UNCHANGED state

-----------------------------------------------------------------------------
(* unlock_raw() *)

Unlock(t) == /\ pc[t] = "held"
             /\ state' = UNLOCKED
             /\ Goto(t, IF state = CONTENDED THEN "wake" ELSE "out")
             /\ UNCHANGED parked

\* Futex::wake_raw(state_ptr, 1).
FutexWake(t) ==
    /\ pc[t] = "wake"
    /\ \/ /\ parked = {}
          /\ Goto(t, "out")
          /\ UNCHANGED parked
       \/ \E w \in parked :
             /\ parked' = parked \ {w}
             /\ pc' = [pc EXCEPT ![t] = "out", ![w] = "swap"]
    /\ UNCHANGED state

Step(t) == \/ TryLock(t) \/ LockSlow(t) \/ FutexWait(t) \/ Swap(t)
           \/ Unlock(t) \/ FutexWake(t)

Next == \E t \in Threads : Step(t) \/ SpuriousWake(t)

\* Threads that are inside lock() or unlock(), or hold the lock, keep running.
Fairness == \A t \in Threads : WF_vars(pc[t] # "out" /\ Step(t))

Spec == Init /\ [][Next]_vars

FairSpec == Spec /\ Fairness

-----------------------------------------------------------------------------
Labels == {"out", "slow", "wait", "parked", "swap", "held", "wake"}

\* The word has one of the three values that FutexImpl names, and the kernel's
\* queue is the threads inside the futex wait of lock_slow().
TypeOK == /\ state \in {UNLOCKED, LOCKED, CONTENDED}
          /\ pc \in [Threads -> Labels]
          /\ parked = {t \in Threads : pc[t] = "parked"}

\* lock() never returns in two threads at once, whichever of try_lock, the
\* swap loop and the futex wakes got them there.
MutualExclusion == \A t, u \in Threads : pc[t] = "held" /\ pc[u] = "held" => t = u

\* No lost wake-up: a thread asleep on the word is never forgotten.  Either the
\* holder will see CONTENDED when it unlocks, or a futex wake is on its way, or
\* another waiter is awake and will put CONTENDED back before it sleeps or holds
\* the lock (the reason why lock_slow swaps in CONTENDED and not LOCKED).
NoLostWakeup ==
    parked # {} => \/ state = CONTENDED
                   \/ \E t \in Threads : pc[t] \in {"wake", "swap", "wait"}

\* Some thread gets the mutex whenever a thread wants it: the futex protocol
\* does not leave everyone asleep.  (lock() is not fair, so this says nothing
\* about a particular thread.)
Progress == (\E t \in Threads : pc[t] \in {"slow", "wait", "parked", "swap"})
               ~> (\E t \in Threads : pc[t] = "held")

\* The refinement mapping: the owner is the thread that lock() has returned to.
Owner == IF \E t \in Threads : pc[t] = "held"
         THEN CHOOSE t \in Threads : pc[t] = "held"
         ELSE NoOwner

AbstractLock == INSTANCE Ownership WITH owner <- Owner

\* Every step of the futex implementation is a step of the abstract lock or
\* leaves its owner alone: no hand-over without an unlock, no unlock by another.
RefinesLock == AbstractLock!Exclusive

\* The inductive strengthening of MutualExclusion and NoLostWakeup: the word is
\* not UNLOCKED while a thread is inside.
HolderLocks == \A t \in Threads : pc[t] = "held" => state # UNLOCKED

IInv == TypeOK /\ MutualExclusion /\ HolderLocks /\ NoLostWakeup
=============================================================================
