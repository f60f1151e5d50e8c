---------------------------- MODULE IoThreadPool ----------------------------
(***************************************************************************)
(* io_thread_pool.rs: the process-wide pool of file-reading threads, made  *)
(* by the first user and shared by reference count.  The static memory of  *)
(* the pool is written in place; a user keeps a pointer to it from         *)
(* acquire() to release().  The mutex is the abstract Ownership.           *)
(***************************************************************************)
EXTENDS Naturals

CONSTANTS Users, NoOwner,
          Generations,  \* bound: initialisations told apart
          CountMod      \* REF_COUNT is a number modulo CountMod (2^64)

VARIABLES refCount,
          pool,        \* which initialisation the static memory holds, 0: none
          owner,       \* MUTEX
          pc,
          seen,        \* each user's last load of REF_COUNT
          using        \* the initialisation that each user was handed

vars == <<refCount, pool, owner, pc, seen, using>>

mutex == INSTANCE Ownership WITH Threads <- Users

Goto(u, label) == pc' = [pc EXCEPT ![u] = label]

Init == /\ refCount = 0 /\ pool = 0
        /\ owner = NoOwner
        /\ pc = [u \in Users |-> "out"]
        /\ seen = [u \in Users |-> 0]
        /\ using = [u \in Users |-> 0]

-----------------------------------------------------------------------------
(* acquire() *)

AcquireLoad(u) == /\ pc[u] = "out"
                  /\ seen' = [seen EXCEPT ![u] = refCount]
                  /\ Goto(u, IF refCount = 0 THEN "lock" ELSE "cas")
                  /\ UNCHANGED <<refCount, pool, owner, using>>

AcquireFast(u) ==
    /\ pc[u] = "cas"
    /\ IF refCount = seen[u]
       THEN /\ refCount' = (refCount + 1) % CountMod
            /\ using' = [using EXCEPT ![u] = pool]
            /\ Goto(u, "using")
            /\ UNCHANGED seen
       ELSE /\ seen' = [seen EXCEPT ![u] = refCount]
            /\ Goto(u, IF refCount = 0 THEN "lock" ELSE "cas")
            /\ UNCHANGED <<refCount, using>>
    /\ UNCHANGED <<pool, owner>>

Lock(u) == /\ pc[u] = "lock"
           /\ mutex!Acquire(u)
           /\ Goto(u, "locked")
           /\ UNCHANGED <<refCount, pool, seen, using>>

\* Under the mutex: initialise, or find that another user just did.  The latter
\* does not count itself.
Recheck(u) == /\ pc[u] = "locked"
              /\ IF refCount = 0
                 THEN Goto(u, "init") /\ UNCHANGED using
                 ELSE Goto(u, "unlock") /\ using' = [using EXCEPT ![u] = pool]
              /\ UNCHANGED <<refCount, pool, owner, seen>>

InitPool(u) == /\ pc[u] = "init"
               /\ pool' = (pool % Generations) + 1
               /\ Goto(u, "publish")
               /\ UNCHANGED <<refCount, owner, seen, using>>

PublishCount(u) == /\ pc[u] = "publish"
                   /\ refCount' = 2
                   /\ using' = [using EXCEPT ![u] = pool]
                   /\ Goto(u, "unlock")
                   /\ UNCHANGED <<pool, owner, seen>>

Unlock(u) == /\ pc[u] = "unlock"
             /\ mutex!Release(u)
             /\ Goto(u, "using")
             /\ UNCHANGED <<refCount, pool, seen, using>>

(* release(), without the debug assertion on the count *)

Release(u) == /\ pc[u] = "using"
              /\ refCount' = (refCount + CountMod - 1) % CountMod
              /\ using' = [using EXCEPT ![u] = 0]
              /\ Goto(u, "out")
              /\ UNCHANGED <<pool, owner, seen>>

-----------------------------------------------------------------------------
Next == \E u \in Users : \/ AcquireLoad(u) \/ AcquireFast(u) \/ Lock(u)
                         \/ Recheck(u) \/ InitPool(u) \/ PublishCount(u)
                         \/ Unlock(u) \/ Release(u)

Spec == Init /\ [][Next]_vars

-----------------------------------------------------------------------------
\* The comment on the initialisation: "we hold MUTEX and REF_COUNT == 0, so no
\* other thread is reading THREAD_POOL".
InitialisedWhileUnused ==
    [][pool' # pool => \A u \in Users : using[u] = 0]_vars
=============================================================================
