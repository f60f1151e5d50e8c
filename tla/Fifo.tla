-------------------------------- MODULE Fifo --------------------------------
(***************************************************************************)
(* A first-in first-out queue whose consumer is handed a run of items from *)
(* its front, and may be handed nothing.                                   *)
(***************************************************************************)
EXTENDS Naturals, Sequences, SequencesExt

CONSTANTS Items,
          MaxRun      \* the longest run of items that one push appends

VARIABLES queue,
          out         \* what the consumer's last call returned

Init == queue = <<>> /\ out = <<>>

Push(run) == queue' = queue \o run /\ UNCHANGED out

Take(n) == /\ out' = SubSeq(queue, 1, n)
           /\ queue' = SubSeq(queue, n + 1, Len(queue))

Next == \/ \E run \in BoundedSeq(Items, MaxRun) : run # <<>> /\ Push(run)
        \/ \E n \in 0 .. Len(queue) : Take(n)

Spec == Init /\ [][Next]_<<queue, out>>
=============================================================================
