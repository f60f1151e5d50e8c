------------------------------ MODULE CondVar -------------------------------
(***************************************************************************)
(* What Condition.rs promises: the threads blocked in wait() and how many  *)
(* of them have been granted a wake-up.  A wake() grants only what blocked *)
(* threads can use, a wait() that returns Ok uses up one grant, and a      *)
(* wait() times out only when no grant is there for it.                    *)
(***************************************************************************)
EXTENDS Naturals, FiniteSets

CONSTANT Threads

VARIABLES blocked,   \* threads inside wait()
          credits    \* wake-ups granted and not used yet

Init == blocked = {} /\ credits = 0

Wait(t) == /\ t \notin blocked
           /\ blocked' = blocked \cup {t}
           /\ UNCHANGED credits

Wakeable == Cardinality(blocked) - credits

\* signal() has no effect when every blocked thread has its grant already.
Signal == /\ credits' = IF Wakeable = 0 THEN credits ELSE credits + 1
          /\ UNCHANGED blocked

Broadcast == /\ credits' = credits + Wakeable
             /\ UNCHANGED blocked

Return(t) == /\ t \in blocked /\ credits > 0
             /\ blocked' = blocked \ {t}
             /\ credits' = credits - 1

TimedOut(t) == /\ t \in blocked /\ credits = 0
               /\ blocked' = blocked \ {t}
               /\ UNCHANGED credits

Next == \/ Signal \/ Broadcast
        \/ \E t \in Threads : Wait(t) \/ Return(t) \/ TimedOut(t)

Spec == Init /\ [][Next]_<<blocked, credits>>
=============================================================================
