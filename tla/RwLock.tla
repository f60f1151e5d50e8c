------------------------------- MODULE RwLock -------------------------------
(***************************************************************************)
(* RwLock.rs (RawRwLock): one word with the writing bit, the count of      *)
(* announced writers and the count of readers; a mutex for writers and     *)
(* slow readers; a semaphore that the last reader posts to a writer.       *)
(*                                                                         *)
(* The mutex is an abstract Ownership, the semaphore a count of permits.   *)
(* A thread is a writer in one call and a reader in another.  A weak       *)
(* compare-exchange that fails spuriously is a stuttering step.            *)
(***************************************************************************)
EXTENDS Naturals, FiniteSets

CONSTANTS Threads, NoOwner

RwLockAssumption == NoOwner \notin Threads /\ IsFiniteSet(Threads)

VARIABLES writing,    \* the IS_WRITING bit, as the number it adds to the word
          writers,    \* WRITER_MASK
          readers,    \* READER_MASK
          owner,      \* the mutex
          permits,    \* the semaphore
          pc,
          seen        \* each reader's last load of the word

vars == <<writing, writers, readers, owner, permits, pc, seen>>

Word == <<writing, writers, readers>>

mutex == INSTANCE Ownership

Goto(t, label) == pc' = [pc EXCEPT ![t] = label]

Init == /\ writing = 0 /\ writers = 0 /\ readers = 0
        /\ owner = NoOwner
        /\ permits = 0
        /\ pc = [t \in Threads |-> "out"]
        /\ seen = [t \in Threads |-> <<0, 0, 0>>]

-----------------------------------------------------------------------------
(* lock() *)

Announce(t) == /\ pc[t] = "out"
               /\ writers' = writers + 1
               /\ Goto(t, "wlock")
               /\ UNCHANGED <<writing, readers, owner, permits, seen>>

WriterMutex(t) == /\ pc[t] = "wlock"
                  /\ mutex!Acquire(t)
                  /\ Goto(t, "claim")
                  /\ UNCHANGED <<writing, writers, readers, permits, seen>>

\* fetch_add(IS_WRITING - WRITER), then wait for the readers that are inside.
Claim(t) == /\ pc[t] = "claim"
            /\ writing' = writing + 1
            /\ writers' = writers - 1
            /\ Goto(t, IF readers # 0 THEN "drain" ELSE "writing")
            /\ UNCHANGED <<readers, owner, permits, seen>>

\* semaphore.wait().
Drained(t) == /\ pc[t] = "drain"
              /\ permits > 0
              /\ permits' = permits - 1
              /\ Goto(t, "writing")
              /\ UNCHANGED <<writing, writers, readers, owner, seen>>

(* unlock() *)

ClearWriting(t) == /\ pc[t] = "writing"
                   /\ writing' = 0
                   /\ Goto(t, "wunlock")
                   /\ UNCHANGED <<writers, readers, owner, permits, seen>>

WriterUnlock(t) == /\ pc[t] = "wunlock"
                   /\ mutex!Release(t)
                   /\ Goto(t, "out")
                   /\ UNCHANGED <<writing, writers, readers, permits, seen>>

-----------------------------------------------------------------------------
(* lock_shared() *)

ReaderLoad(t) == /\ pc[t] = "out"
                 /\ seen' = [seen EXCEPT ![t] = Word]
                 /\ Goto(t, "rtry")
                 /\ UNCHANGED <<writing, writers, readers, owner, permits>>

MayEnter(word) == word[1] = 0 /\ word[2] = 0

\* The loaded word is not used any more.
Forget(t) == seen' = [seen EXCEPT ![t] = <<0, 0, 0>>]

\* The compare-exchange loop.
ReaderFast(t) == /\ pc[t] = "rtry" /\ MayEnter(seen[t])
                 /\ IF Word = seen[t]
                    THEN readers' = readers + 1 /\ Goto(t, "reading") /\ Forget(t)
                    ELSE seen' = [seen EXCEPT ![t] = Word] /\ UNCHANGED <<readers, pc>>
                 /\ UNCHANGED <<writing, writers, owner, permits>>

\* A writer is there or announced: queue up at the mutex.
ReaderMutex(t) == /\ pc[t] = "rtry" /\ ~MayEnter(seen[t])
                  /\ mutex!Acquire(t)
                  /\ Goto(t, "radd")
                  /\ Forget(t)
                  /\ UNCHANGED <<writing, writers, readers, permits>>

ReaderAdd(t) == /\ pc[t] = "radd"
                /\ readers' = readers + 1
                /\ Goto(t, "runlock")
                /\ UNCHANGED <<writing, writers, owner, permits, seen>>

ReaderUnlock(t) == /\ pc[t] = "runlock"
                   /\ mutex!Release(t)
                   /\ Goto(t, "reading")
                   /\ UNCHANGED <<writing, writers, readers, permits, seen>>

(* unlock_shared() *)

\* Slip: the last reader posts even if no writer waits for it.
ReaderLeavePosts(t) == /\ pc[t] = "reading"
                       /\ readers' = readers - 1
                       /\ Goto(t, IF readers = 1 THEN "post" ELSE "out")
                       /\ UNCHANGED <<writing, writers, owner, permits, seen>>

ReaderLeave(t) == /\ pc[t] = "reading"
                  /\ readers' = readers - 1
                  /\ Goto(t, IF readers = 1 /\ writing # 0 THEN "post" ELSE "out")
                  /\ UNCHANGED <<writing, writers, owner, permits, seen>>

\* semaphore.post().
Post(t) == /\ pc[t] = "post"
           /\ permits' = permits + 1
           /\ Goto(t, "out")
           /\ UNCHANGED <<writing, writers, readers, owner, seen>>

-----------------------------------------------------------------------------
Inside(t) == \/ WriterMutex(t) \/ Claim(t) \/ Drained(t)
             \/ ClearWriting(t) \/ WriterUnlock(t)
             \/ ReaderFast(t) \/ ReaderMutex(t) \/ ReaderAdd(t) \/ ReaderUnlock(t)
             \/ ReaderLeave(t) \/ Post(t)

Next == \E t \in Threads : Announce(t) \/ ReaderLoad(t) \/ Inside(t)

Spec == Init /\ [][Next]_vars

\* Threads keep running once inside a call, and release what they hold.
FairSpec == Spec /\ \A t \in Threads : WF_vars(Inside(t))

-----------------------------------------------------------------------------
Labels == {"out", "wlock", "claim", "drain", "writing", "wunlock",
           "rtry", "radd", "runlock", "reading", "post"}

\* The fields of the word do not go below zero (a borrow would reach the next field).
TypeOK == /\ writing \in 0 .. 1
          /\ writers \in Nat /\ readers \in Nat /\ permits \in Nat
          /\ owner \in Threads \cup {NoOwner}
          /\ pc \in [Threads -> Labels]
          /\ seen \in [Threads -> Nat \X Nat \X Nat]

At(labels) == {t \in Threads : pc[t] \in labels}

\* One writer or many readers: nobody reads or writes beside a writer, on the
\* fast path, on the slow path or through a wake-up of the semaphore.
Exclusion == \A t, u \in Threads :
    pc[t] \in {"writing"} /\ pc[u] \in {"writing", "reading"} => t = u

\* The semaphore carries no stale permit: a permit, or a post about to happen, is
\* for the writer that is waiting for it, and there is just one.
PermitIsOwed == permits + Cardinality(At({"post"})) <= Cardinality(At({"drain"}))

\* The word is exact: every announcement is taken back when its writer claims, as
\* the test raw_internal_state wants after one lock() and unlock().
WordExact == /\ writing = Cardinality(At({"drain", "writing"}))
             /\ writers = Cardinality(At({"wlock", "claim"}))
             /\ readers = Cardinality(At({"runlock", "reading"}))

\* A writer that has claimed the lock gets in: readers leave, no new ones come,
\* and the last one posts.
WriterGetsIn == \A t \in Threads : pc[t] = "drain" ~> pc[t] = "writing"

\* Writers from lock() to unlock(), and readers on the slow path, hold the mutex.
MutexHeld == \A t \in Threads :
    owner = t <=> pc[t] \in {"claim", "drain", "writing", "wunlock", "radd", "runlock"}

\* A draining writer is owed exactly one permit once the readers are gone, and a
\* writing one has no readers.
Draining ==
    /\ \A t \in Threads : pc[t] = "writing" => readers = 0
    /\ \A t \in Threads : pc[t] = "drain" =>
          (readers = 0 => permits + Cardinality(At({"post"})) = 1)
          /\ (readers # 0 => permits + Cardinality(At({"post"})) = 0)

\* The inductive strengthening of Exclusion.
IInv == TypeOK /\ Exclusion /\ WordExact /\ MutexHeld /\ PermitIsOwed /\ Draining
=============================================================================
