------------------------- MODULE MCThreadPoolSpare --------------------------
(***************************************************************************)
(* A pool without spare threads in which four workers could be started,    *)
(* three of them by warm().  The state space of four workers is too large  *)
(* for TLC, so the run looks at a part of it: one thread at a time is in   *)
(* the middle of a call, but for the two that may have stopped before      *)
(* their compare-exchange of the Sync word, and no callback returns.       *)
(* Every state it reaches is a state of ThreadPool.                        *)
(***************************************************************************)
EXTENDS ThreadPool, TLC

Alike == Permutations(Workers) \cup Permutations(Tasks)

Resting == {"unborn", "out", "warm", "register", "wait", "asleep", "run", "cas"}

OneAtATime == /\ Cardinality({t \in Threads : pc[t] \notin Resting}) <= 1
              /\ Cardinality({t \in Threads : pc[t] = "cas"}) <= 2
              /\ done = {}
=============================================================================
