----------------------------- MODULE ResetEvent -----------------------------
(***************************************************************************)
(* ResetEvent.rs: an event that is set once and that threads wait for.     *)
(* One action is one atomic access or one futex call.  wait() is called    *)
(* without a timeout, as every caller does.                                *)
(***************************************************************************)
EXTENDS Naturals

CONSTANTS Waiters, Setters

ResetEventAssumption == Waiters \cap Setters = {}

VARIABLES state, pc, parked

vars == <<state, pc, parked>>

Callers == Waiters \cup Setters

UNSET   == 0
WAITING == 1
IS_SET  == 2

Goto(t, label) == pc' = [pc EXCEPT ![t] = label]

Init == /\ state = UNSET
        /\ pc = [t \in Callers |-> "out"]
        /\ parked = {}

-----------------------------------------------------------------------------
(* wait() *)

\* is_set(), which the slow path repeats as its first load.
WaitLoad(t) == /\ t \in Waiters
               /\ pc[t] \in {"out", "load"}
               /\ Goto(t, CASE state = IS_SET  -> "returned"
                            [] pc[t] = "out"   -> "load"
                            [] state = UNSET   -> "cas"
                            [] state = WAITING -> "sleep")
               /\ UNCHANGED <<state, parked>>

\* UNSET -> WAITING; a failed exchange tells what the state is.
WaitCas(t) == /\ pc[t] = "cas"
              /\ state' = IF state = UNSET THEN WAITING ELSE state
              /\ Goto(t, IF state = IS_SET THEN "returned" ELSE "sleep")
              /\ UNCHANGED parked

FutexWait(t) == /\ pc[t] = "sleep"
                /\ IF state = WAITING
                   THEN Goto(t, "parked") /\ parked' = parked \cup {t}
                   ELSE Goto(t, "recheck") /\ UNCHANGED parked
                /\ UNCHANGED state

SpuriousWake(t) == /\ t \in parked
                   /\ parked' = parked \ {t}
                   /\ Goto(t, "recheck")
                   /\ UNCHANGED state

\* The load after every futex wait.
Recheck(t) == /\ pc[t] = "recheck"
              /\ Goto(t, IF state = WAITING THEN "sleep" ELSE "returned")
              /\ UNCHANGED <<state, parked>>

(* set() *)

SetLoad(t) == /\ t \in Setters
              /\ pc[t] = "out"
              /\ Goto(t, IF state = IS_SET THEN "returned" ELSE "swap")
              /\ UNCHANGED <<state, parked>>

SetSwap(t) == /\ pc[t] = "swap"
              /\ state' = IS_SET
              /\ Goto(t, IF state = WAITING THEN "wake" ELSE "returned")
              /\ UNCHANGED parked

\* Futex::wake(&state, u32::MAX).
SetWake(t) == /\ pc[t] = "wake"
              /\ parked' = {}
              /\ pc' = [u \in Callers |-> IF u = t THEN "returned"
                                          ELSE IF u \in parked THEN "recheck"
                                          ELSE pc[u]]
              /\ UNCHANGED state

Step(t) == \/ WaitLoad(t) \/ WaitCas(t) \/ FutexWait(t) \/ Recheck(t)
           \/ SetLoad(t) \/ SetSwap(t) \/ SetWake(t)

Next == \E t \in Callers : Step(t) \/ SpuriousWake(t)

Spec == Init /\ [][Next]_vars

\* A thread inside wait() or set() keeps running.
Inside(t) == pc[t] # "out" /\ Step(t)

FairSpec == Spec /\ \A t \in Callers : WF_vars(Inside(t))

-----------------------------------------------------------------------------
\* The word has one of its three values, and only waiters sleep on it.
TypeOK == /\ state \in {UNSET, WAITING, IS_SET}
          /\ pc \in [Callers -> {"out", "load", "cas", "sleep", "parked", "recheck",
                                 "swap", "wake", "returned"}]
          /\ parked = {t \in Waiters : pc[t] = "parked"}

\* wait() returns only after set(), as its last debug_assert says.
ReturnsOnlyWhenSet == \A t \in Waiters : pc[t] = "returned" => state = IS_SET

\* No waiter sleeps through set(): whoever is asleep once the event is set has a
\* futex wake of everyone coming.
NoSleepThroughSet ==
    state = IS_SET /\ parked # {} => \E t \in Setters : pc[t] = "wake"

\* wait() and set() have their own labels, and a waiter that has been as far as the
\* futex has left the word WAITING or found it so: it is not UNSET again.
PastTheCas ==
    /\ \A t \in Waiters : pc[t] \notin {"swap", "wake"}
    /\ \A t \in Setters : pc[t] \in {"out", "swap", "wake", "returned"}
    /\ \A t \in Waiters : pc[t] \in {"sleep", "parked", "recheck"} => state # UNSET

\* The inductive strengthening of ReturnsOnlyWhenSet and NoSleepThroughSet.
IInv == TypeOK /\ PastTheCas /\ ReturnsOnlyWhenSet /\ NoSleepThroughSet

\* set() ends every wait().
SetReleasesAll == \A t \in Waiters :
    (state = IS_SET /\ pc[t] # "out") ~> (pc[t] = "returned")
=============================================================================
