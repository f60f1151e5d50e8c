----------------------------- MODULE WaitGroup ------------------------------
(***************************************************************************)
(* WaitGroup.rs: a counter of outstanding tasks, with the Mutex and the    *)
(* Condition that its owner waits on.  The owner frees the group as soon   *)
(* as wait() returns, so a finisher must be done with it by then.          *)
(*                                                                         *)
(* The mutex is the abstract Ownership, the condition the abstract CondVar.*)
(***************************************************************************)
EXTENDS Naturals, FiniteSets

CONSTANTS Tasks,
          Owner,       \* the thread that adds tasks, waits and frees
          NoOwner      \* the mutex is free

WaitGroupAssumption == /\ Owner \notin Tasks
                       /\ NoOwner \notin Tasks \cup {Owner}
                       /\ IsFiniteSet(Tasks)

VARIABLES raw_count,
          owner,            \* the mutex
          blocked, credits, \* the condition
          pc,               \* where every task, and the owner, is
          old               \* each task's last load of raw_count

vars == <<raw_count, owner, blocked, credits, pc, old>>

Threads == Tasks \cup {Owner}

mutex == INSTANCE Ownership
cond  == INSTANCE CondVar

Goto(t, label) == pc' = [pc EXCEPT ![t] = label]

Init == /\ raw_count = 0
        /\ owner = NoOwner
        /\ blocked = {} /\ credits = 0
        /\ pc = [t \in Threads |-> IF t = Owner THEN "adding" ELSE "new"]
        /\ old = [t \in Tasks |-> 0]

-----------------------------------------------------------------------------
\* add_one() for a task u, by the owner before it waits or by a running task.
Add(t, u) == /\ pc[t] \in {"adding", "running"}
             /\ u \in Tasks /\ pc[u] = "new"
             /\ raw_count' = raw_count + 1
             /\ Goto(u, "running")
             /\ UNCHANGED <<owner, blocked, credits, old>>

(* finish_raw() *)

LoadCount(t) == old' = [old EXCEPT ![t] = raw_count]

FinishLoad(t) == /\ pc[t] = "running"
                 /\ LoadCount(t)
                 /\ Goto(t, IF raw_count > 1 THEN "cas" ELSE "lock")
                 /\ UNCHANGED <<raw_count, owner, blocked, credits>>

\* The lock-free path, for as long as others are outstanding.
FinishFast(t) == /\ pc[t] = "cas"
                 /\ IF raw_count = old[t]
                    THEN /\ raw_count' = raw_count - 1
                         /\ Goto(t, "done")
                         /\ UNCHANGED old
                    ELSE /\ LoadCount(t)
                         /\ Goto(t, IF raw_count > 1 THEN "cas" ELSE "lock")
                         /\ UNCHANGED raw_count
                 /\ UNCHANGED <<owner, blocked, credits>>

FinishLock(t) == /\ pc[t] = "lock"
                 /\ mutex!Acquire(t)
                 /\ Goto(t, "sub")
                 /\ UNCHANGED <<raw_count, blocked, credits, old>>

\* Slip: unlock before the signal.
FinishSubUnlocks(t) == /\ pc[t] = "sub"
                       /\ raw_count' = raw_count - 1
                       /\ mutex!Release(t)
                       /\ Goto(t, "signal")
                       /\ UNCHANGED <<blocked, credits, old>>

FinishSub(t) == /\ pc[t] = "sub"
                /\ raw_count' = raw_count - 1
                /\ Goto(t, "signal")
                /\ UNCHANGED <<owner, blocked, credits, old>>

FinishSignal(t) == /\ pc[t] = "signal"
                   /\ cond!Signal
                   /\ Goto(t, "unlock")
                   /\ UNCHANGED <<raw_count, owner, old>>

FinishUnlock(t) == /\ pc[t] = "unlock"
                   /\ mutex!Release(t)
                   /\ Goto(t, "done")
                   /\ UNCHANGED <<raw_count, blocked, credits, old>>

(* wait() *)

WaitLock == /\ pc[Owner] \in {"adding", "relock"}
            /\ mutex!Acquire(Owner)
            /\ Goto(Owner, "check")
            /\ UNCHANGED <<raw_count, blocked, credits, old>>

WaitCheck == /\ pc[Owner] = "check"
             /\ Goto(Owner, IF raw_count > 0 THEN "wait" ELSE "leave")
             /\ UNCHANGED <<raw_count, owner, blocked, credits, old>>

\* cond.wait(&mutex): counted in and unlocked in one step.
WaitBlock == /\ pc[Owner] = "wait"
             /\ cond!Wait(Owner)
             /\ mutex!Release(Owner)
             /\ Goto(Owner, "blocked")
             /\ UNCHANGED <<raw_count, old>>

WaitWoken == /\ pc[Owner] = "blocked"
             /\ cond!Return(Owner)
             /\ Goto(Owner, "relock")
             /\ UNCHANGED <<raw_count, owner, old>>

\* The unlock, after which the owner frees the group.
WaitUnlock == /\ pc[Owner] = "leave"
              /\ mutex!Release(Owner)
              /\ Goto(Owner, "freed")
              /\ UNCHANGED <<raw_count, blocked, credits, old>>

-----------------------------------------------------------------------------
Finish(t) == \/ FinishLoad(t) \/ FinishFast(t) \/ FinishLock(t)
             \/ FinishSub(t) \/ FinishSignal(t) \/ FinishUnlock(t)

Wait == WaitLock \/ WaitCheck \/ WaitBlock \/ WaitWoken \/ WaitUnlock

Next == \/ Wait
        \/ \E t \in Tasks : Finish(t)
        \/ \E t \in Threads, u \in Tasks : Add(t, u)

Spec == Init /\ [][Next]_vars

\* Tasks that run finish, and a call of wait() goes on.  Nothing is assumed of the
\* mutex: those that contend for it leave for good or block.
Fairness == WF_vars(Wait) /\ \A t \in Tasks : WF_vars(Finish(t))

FairSpec == Spec /\ Fairness

-----------------------------------------------------------------------------
TaskLabels  == {"new", "running", "cas", "lock", "sub", "signal", "unlock", "done"}
OwnerLabels == {"adding", "check", "wait", "blocked", "relock", "leave", "freed"}

\* The count does not go below zero, and only the owner ever blocks.
TypeOK == /\ raw_count \in Nat
          /\ owner \in Threads \cup {NoOwner}
          /\ blocked \subseteq {Owner}
          /\ credits \in Nat
          /\ pc \in [Threads -> TaskLabels \cup OwnerLabels]
          /\ \A t \in Tasks : pc[t] \in TaskLabels
          /\ pc[Owner] \in OwnerLabels
          /\ old \in [Tasks -> Nat]

\* Tasks that are counted: finish_raw has not taken them off raw_count yet.
Counted == {t \in Tasks : pc[t] \in {"running", "cas", "lock", "sub"}}

\* The group is not touched after wait() has returned (and the owner may have
\* freed it): by then every finish_raw is past its last access, the unlock.
NoUseAfterFree == pc[Owner] = "freed" => \A t \in Tasks : pc[t] \in {"new", "done"}

\* wait() does return: no finisher leaves the owner asleep on a finished group.
WaitReturns == pc[Owner] = "check" ~> pc[Owner] = "freed"

\* raw_count is the number of tasks that finish_raw() has yet to take off it.
CountExact == raw_count = Cardinality(Counted)

\* The mutex is held just where lock() and cond.wait() say.
MutexHeld ==
    /\ \A t \in Tasks : pc[t] \in {"sub", "signal", "unlock"} <=> owner = t
    /\ pc[Owner] \in {"check", "wait", "leave"} <=> owner = Owner

\* The fast path leaves a count above zero; the slow path publishes zero locked.
ZeroMeansQuiet ==
    pc[Owner] \in {"leave", "freed"} => \A t \in Tasks : pc[t] \in {"new", "done"}

\* The inductive strengthening of NoUseAfterFree: the count that wait() reads as zero
\* under the mutex means that every finish_raw() is past its unlock.
IInv == TypeOK /\ CountExact /\ MutexHeld /\ ZeroMeansQuiet
=============================================================================
