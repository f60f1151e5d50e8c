----------------------------- MODULE Ownership ------------------------------
(***************************************************************************)
(* What Mutex.rs promises its callers: the right to be inside is handed    *)
(* from the mutex to a thread by lock() and back by that thread's unlock().*)
(***************************************************************************)
CONSTANTS Threads, NoOwner

VARIABLE owner       \* NoOwner: the right is with the mutex

Hand(from, to) == owner = from /\ owner' = to

Acquire(t) == Hand(NoOwner, t)

Release(t) == Hand(t, NoOwner)

HandOver == \E t \in Threads : Hand(NoOwner, t) \/ Hand(t, NoOwner)

Exclusive == owner = NoOwner /\ [][HandOver]_owner
=============================================================================
