----------------------------- MODULE Primitives -----------------------------
(***************************************************************************)
(* The blocking primitives side by side: Mutex.rs, RwLock.rs,              *)
(* Semaphore.rs, ResetEvent.rs and channel.rs.  They share no state, so a  *)
(* behaviour uses one of them and leaves the others as they were made,     *)
(* where nobody is in a call and no fairness condition binds.              *)
(***************************************************************************)
EXTENDS Mutex

CONSTANTS Others,   \* those that post, set and read, beside the threads
          MaxPermits, Capacity

VARIABLES part,      \* the primitive in use
          writing, writers, readers, owner, permits, lockPc, seen,
          semPermits, semOwner, blocked, credits, semPc,
          flag, waiting, eventPc,
          buffer, bufferOwner, putting, putCredits, getting, getCredits, bufferPc, out

lock == INSTANCE RwLock WITH pc <- lockPc
sem == INSTANCE Semaphore WITH Waiters <- Threads, Posters <- Others,
          permits <- semPermits, owner <- semOwner, pc <- semPc
event == INSTANCE ResetEvent WITH Waiters <- Threads, Setters <- Others,
          state <- flag, parked <- waiting, pc <- eventPc
channel == INSTANCE Channel WITH Writers <- Threads, Readers <- Others,
          owner <- bufferOwner, pc <- bufferPc

ASSUME PrimitivesAssumption ==
    /\ MutexAssumption
    /\ lock!RwLockAssumption /\ sem!SemaphoreAssumption
    /\ event!ResetEventAssumption /\ channel!ChannelAssumption

lockVars    == <<writing, writers, readers, owner, permits, lockPc, seen>>
semVars     == <<semPermits, semOwner, blocked, credits, semPc>>
eventVars   == <<flag, waiting, eventPc>>
channelVars == <<buffer, bufferOwner, putting, putCredits, getting, getCredits, bufferPc, out>>
allVars == <<part, vars, lockVars, semVars, eventVars, channelVars>>

InitAll == /\ part \in {"mutex", "lock", "sem", "event", "channel"}
           /\ Init /\ lock!Init /\ sem!Init /\ event!Init /\ channel!Init

\* The primitive p is in use; the others keep their state.
Use(p) == /\ part = p /\ UNCHANGED part
          /\ p # "mutex"   => UNCHANGED vars
          /\ p # "lock"    => UNCHANGED lockVars
          /\ p # "sem"     => UNCHANGED semVars
          /\ p # "event"   => UNCHANGED eventVars
          /\ p # "channel" => UNCHANGED channelVars

NextAll == \/ Use("mutex")   /\ Next
           \/ Use("lock")    /\ lock!Next
           \/ Use("sem")     /\ sem!Next
           \/ Use("event")   /\ event!Next
           \/ Use("channel") /\ channel!Next

SpecAll == InitAll /\ [][NextAll]_allVars

\* What t does inside a call of the primitive in use, holding a lock included.
Run(t) == \/ Use("mutex")   /\ t \in Threads /\ pc[t] # "out" /\ Step(t)
          \/ Use("lock")    /\ t \in Threads /\ lock!Inside(t)
          \/ Use("sem")     /\ sem!Inside(t)
          \/ Use("event")   /\ event!Inside(t)
          \/ Use("channel") /\ channel!Inside(t)

\* A thread inside a call keeps running, whichever primitive the call is of.
FairAll == /\ SpecAll
           /\ \A t \in Threads \cup Others : WF_allVars(Run(t))

-----------------------------------------------------------------------------
\* Semaphore.rs, ResetEvent.rs, channel.rs: no permit, item or free place is left
\* beside sleepers with nobody on the way to it, nobody sleeps through set(), and
\* wait() returns only when the event is set.
NobodyStranded ==
    /\ TypeOK /\ sem!TypeOK /\ event!TypeOK /\ channel!TypeOK
    /\ sem!NoStrandedPermit
    /\ event!ReturnsOnlyWhenSet /\ event!NoSleepThroughSet
    /\ channel!NoStrandedItem /\ channel!NoStrandedPlace

\* RwLock.rs: one writer or many readers, with what makes it inductive: the word is
\* exact, the mutex is held by writers and slow readers, and a permit of the
\* semaphore is owed to the writer that drains.
RwLockIInv == lock!IInv

\* Whoever sleeps in a primitive is served: of those that want the mutex somebody gets
\* it; a writer that has claimed the reader-writer lock gets in; a permit and a blocked
\* waiter find each other; set() ends every wait(), also one about to sleep; a blocked
\* reader or writer of a channel is served once there are items or room.
WaitersServed == /\ Progress
                 /\ lock!WriterGetsIn
                 /\ sem!PermitsReachWaiters
                 /\ event!SetReleasesAll
                 /\ channel!Served
=============================================================================
