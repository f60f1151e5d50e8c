------------------------------ MODULE Sleepers ------------------------------
(***************************************************************************)
(* The two protocols that park threads on a futex behind a packed word,    *)
(* side by side: the Event of ThreadPool.rs and the condition variable of  *)
(* Condition.rs.  They share no state, so a behaviour uses one of them and *)
(* leaves the other as it was made.                                        *)
(***************************************************************************)
EXTENDS PoolEvent

CONSTANTS NoOwner, MaxWakes

VARIABLES part,      \* the protocol in use
          owner, wakeups, epoch, condPc, seen, observed, todo, sleeping

condition == INSTANCE Condition WITH Wakers <- Notifiers, state <- wakeups,
                 pc <- condPc, parked <- sleeping

ASSUME SleepersAssumption == condition!ConditionAssumption

conditionVars == <<owner, wakeups, epoch, condPc, seen, observed, todo, sleeping>>
allVars == <<part, vars, conditionVars>>

InitBoth == part \in {"event", "condition"} /\ Init /\ condition!Init

UseEvent     == part = "event" /\ UNCHANGED <<part, conditionVars>>
UseCondition == part = "condition" /\ UNCHANGED <<part, state, parked, idle, pc, word, phase, left>>

NextBoth == \/ UseEvent /\ Next
            \/ UseCondition /\ condition!Next

SpecBoth == InitBoth /\ [][NextBoth]_allVars

\* What thread t does once its call has begun, and the unlock of its mutex.
Goes(t) == \/ UseEvent /\ t \in Waiters /\ Run(t)
           \/ UseEvent /\ t \in Notifiers /\ Post(t)
           \/ UseEvent /\ t \in Pushers /\ Announce(t)
           \/ UseCondition /\ t \in Waiters \cup Notifiers /\ (condition!Inside(t) \/ condition!Leave(t))

FairBoth == /\ SpecBoth
            /\ \A t \in Waiters \cup Notifiers \cup Pushers : WF_allVars(Goes(t))

-----------------------------------------------------------------------------
\* Condition.rs: the packed word is exact.
WordExact == condition!WordExact

\* Condition.rs: a granted wake-up cannot be slept through.
NoLostSignal == condition!NoLostSignal

\* Condition.rs: every reserved wake-up ends a wait().
SignalsDelivered == condition!SignalsDelivered

\* Condition.rs: the word and the futex behave like the abstract condition variable.
RefinesCondVar == condition!RefinesCondVar
=============================================================================
