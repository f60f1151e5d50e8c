----------------------------- MODULE Semaphore ------------------------------
(***************************************************************************)
(* Semaphore.rs: permits guarded by a mutex, and a condition for threads   *)
(* that find none.  The mutex is an abstract Ownership, the condition the  *)
(* abstract CondVar.                                                       *)
(***************************************************************************)
EXTENDS Naturals, FiniteSets

CONSTANTS Waiters, Posters, NoOwner,
          MaxPermits     \* bound: posts not yet consumed

SemaphoreAssumption == /\ NoOwner \notin Waiters \cup Posters
                       /\ Waiters \cap Posters = {}
                       /\ IsFiniteSet(Waiters)
                       /\ MaxPermits \in Nat

VARIABLES permits, owner, blocked, credits, pc

vars == <<permits, owner, blocked, credits, pc>>

Callers == Waiters \cup Posters

mutex == INSTANCE Ownership WITH Threads <- Callers
cond  == INSTANCE CondVar WITH Threads <- Callers

Goto(t, label) == pc' = [pc EXCEPT ![t] = label]

Init == /\ permits = 0
        /\ owner = NoOwner
        /\ blocked = {} /\ credits = 0
        /\ pc = [t \in Callers |-> "out"]

-----------------------------------------------------------------------------
Acquire(t) == /\ pc[t] \in {"out", "relock"}
              /\ t \in Posters => permits < MaxPermits
              /\ mutex!Acquire(t)
              /\ Goto(t, IF t \in Waiters THEN "check" ELSE "add")
              /\ UNCHANGED <<permits, blocked, credits>>

Drop(t) == /\ pc[t] = "drop"
           /\ mutex!Release(t)
           /\ Goto(t, "out")
           /\ UNCHANGED <<permits, blocked, credits>>

(* wait() *)

\* No permit: cond.wait_guarded().
Block(t) == /\ pc[t] = "check" /\ permits = 0
            /\ cond!Wait(t)
            /\ mutex!Release(t)
            /\ Goto(t, "blocked")
            /\ UNCHANGED permits

Woken(t) == /\ pc[t] = "blocked"
            /\ cond!Return(t)
            /\ Goto(t, "relock")
            /\ UNCHANGED <<permits, owner>>

\* Consume one permit, and pass the wake-up on if more are left.
Take(t) == /\ pc[t] = "check" /\ permits > 0
           /\ permits' = permits - 1
           /\ IF permits' > 0 THEN cond!Signal ELSE UNCHANGED <<blocked, credits>>
           /\ Goto(t, "drop")
           /\ UNCHANGED owner

(* post() *)

\* Slip: no signal.
PostWithoutSignal(t) == /\ pc[t] = "add"
                        /\ permits' = permits + 1
                        /\ Goto(t, "drop")
                        /\ UNCHANGED <<owner, blocked, credits>>

Post(t) == /\ pc[t] = "add"
           /\ permits' = permits + 1
           /\ cond!Signal
           /\ Goto(t, "drop")
           /\ UNCHANGED owner

Step(t) == Acquire(t) \/ Drop(t) \/ Block(t) \/ Woken(t) \/ Take(t) \/ Post(t)

Next == \E t \in Callers : Step(t)

Spec == Init /\ [][Next]_vars

\* Threads inside wait() or post() keep running.
Inside(t) == pc[t] # "out" /\ Step(t)

FairSpec == Spec /\ \A t \in Callers : WF_vars(Inside(t))

-----------------------------------------------------------------------------
\* wait() takes no permit that is not there (the subtraction would wrap), and the
\* condition's queue is the threads in wait_guarded().
TypeOK == /\ permits \in 0 .. MaxPermits
          /\ owner \in Callers \cup {NoOwner}
          /\ blocked = {t \in Waiters : pc[t] = "blocked"}
          /\ credits \in 0 .. Cardinality(blocked)
          /\ pc \in [Callers -> {"out", "relock", "check", "add", "blocked", "drop"}]

\* No permit is stranded: while one is there and threads are blocked, a thread is
\* on its way that will take it or leave none of them asleep.
NoStrandedPermit ==
    permits > 0 /\ blocked # {} =>
        credits > 0 \/ \E t \in Waiters : pc[t] \in {"relock", "check"}

\* The mutex is held by its owner alone, a post() that has it finds room for its
\* permit, and only wait() checks, sleeps and locks again.
MutexHeld ==
    /\ \A t \in Callers : owner = t <=> pc[t] \in {"check", "add", "drop"}
    /\ \A t \in Callers : pc[t] = "add" => t \in Posters /\ permits < MaxPermits
    /\ \A t \in Callers : pc[t] \in {"check", "blocked", "relock"} => t \in Waiters

\* The inductive strengthening of NoStrandedPermit.
IInv == TypeOK /\ MutexHeld /\ NoStrandedPermit

\* A permit and a blocked waiter find each other.
PermitsReachWaiters ==
    (permits > 0 /\ \E t \in Waiters : pc[t] = "blocked")
       ~> (permits = 0 \/ \A t \in Waiters : pc[t] # "blocked")
=============================================================================
