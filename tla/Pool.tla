-------------------------------- MODULE Pool --------------------------------
(***************************************************************************)
(* The thread pool at two levels of detail, side by side: ThreadPool.tla   *)
(* with the Sync word and whole rings, NodeBuffer.tla with the rings' own  *)
(* loads, stores and compare-exchanges.  A behaviour uses one of them.     *)
(***************************************************************************)
EXTENDS ThreadPool, TLC

CONSTANTS Owners, Nodes, RingCapacity, IndexMod, Start, MaxLap, MaxList

VARIABLES part,      \* what is in use
          head, tail, array, nodes, consumer, unscheduled, ringPc,
          list, h, t, victim, want, hand

ring == INSTANCE NodeBuffer WITH Workers <- Owners, Capacity <- RingCapacity, Null <- None,
            queue <- nodes, pc <- ringPc

ASSUME PoolAssumption == ring!NodeBufferAssumption

ringVars == <<head, tail, array, nodes, consumer, unscheduled, ringPc,
              list, h, t, victim, want, hand>>
allVars  == <<part, vars, ringVars>>

InitBoth == /\ part \in {"pool", "ring"}
            /\ Init /\ (part = "ring" => ~keepsSpare)
            /\ ring!Init

NextBoth == \/ part = "pool" /\ Next /\ UNCHANGED <<part, ringVars>>
            \/ part = "ring" /\ ring!Next /\ UNCHANGED <<part, vars>>

SpecBoth == InitBoth /\ [][NextBoth]_allVars

\* The workers of NodeBuffer are alike, and so are the nodes.
Symmetry == Permutations(Owners) \cup Permutations(Nodes)

-----------------------------------------------------------------------------
\* node::Buffer: no task is lost and none runs twice, and the rings keep their bounds.
EveryNodeOnce == ring!EveryNodeOnce

\* node::Buffer: steal() returns None only if the victim's ring is empty.
NoneMeansEmpty == ring!NoneMeansEmpty
=============================================================================
