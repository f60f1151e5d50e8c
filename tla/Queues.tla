------------------------------- MODULE Queues -------------------------------
(***************************************************************************)
(* By what threads hand work to each other, side by side: the lock-free    *)
(* queues (unbounded_queue.rs, signal_ring.rs and node::Queue of           *)
(* ThreadPool.rs), and the WaitGroup by which the end of it is awaited.    *)
(* They share no state, so a behaviour uses one of them and leaves the     *)
(* others as they were made, where no fairness condition binds.            *)
(***************************************************************************)
EXTENDS WaitGroup

CONSTANTS Producers, Consumers,
          Nodes, Null, MaxRun, MaxList,
          Signals, Capacity, IndexMod

VARIABLES part,      \* what is in use
          front, back, next, free, queuePc, chain, queueOld,
          at, first, cursor, last, taken, out, items, cut,
          slots, head, tail, ringPc, signal, seen, ringAt, ringTaken, held, ringOut, pending,
          stack, cache, nodeNext, list, snap, inside, cur, nodePc, pushed, batch

queue == INSTANCE UnboundedQueue WITH pc <- queuePc, old <- queueOld
ring  == INSTANCE SignalRing WITH pc <- ringPc, at <- ringAt, taken <- ringTaken, out <- ringOut
nodes == INSTANCE NodeQueue WITH next <- nodeNext, pc <- nodePc

ASSUME QueuesAssumption ==
    /\ WaitGroupAssumption
    /\ queue!QueueAssumption /\ ring!RingAssumption /\ nodes!NodeQueueAssumption

queueVars == <<front, back, next, free, queuePc, chain, queueOld, at, first, cursor, last, taken, out,
               items, cut>>
ringVars  == <<slots, head, tail, ringPc, signal, seen, ringAt, ringTaken, held, ringOut, pending>>
nodeVars  == <<stack, cache, nodeNext, list, snap, inside, cur, nodePc, pushed, batch>>
allVars == <<part, vars, queueVars, ringVars, nodeVars>>

InitAll == /\ part \in {"group", "queue", "ring", "nodes"}
           /\ Init /\ queue!Init /\ ring!Init /\ nodes!Init

\* p is in use; the others keep their state.
Use(p) == /\ part = p /\ UNCHANGED part
          /\ p # "group" => UNCHANGED vars
          /\ p # "queue" => UNCHANGED queueVars
          /\ p # "ring"  => UNCHANGED ringVars
          /\ p # "nodes" => UNCHANGED nodeVars

NextAll == \/ Use("group") /\ Next
           \/ Use("queue") /\ queue!Next
           \/ Use("ring")  /\ ring!Next
           \/ Use("nodes") /\ nodes!Next

SpecAll == InitAll /\ [][NextAll]_allVars

FairAll == /\ SpecAll
           /\ queue!Fairness /\ ring!Fairness /\ nodes!Fairness
           /\ WF_allVars(Use("group") /\ Wait)
           /\ \A t \in Tasks : WF_allVars(Use("group") /\ Finish(t))

-----------------------------------------------------------------------------
\* unbounded_queue.rs: a producer writes its link into a node that the consumer has
\* not returned.  (In all three: pointers that a consumer follows without a test are
\* not null, and dequeue() never returns the 0 of a slot claimed and not written.)
NoWriteAfterReturn == /\ TypeOK /\ queue!TypeOK /\ ring!TypeOK /\ nodes!TypeOK
                      /\ queue!NoWriteAfterReturn

\* unbounded_queue.rs: pop() calls a queue empty that is not only while the producer
\* of the first item is between its swap and its store.
EmptyOnlyBehindAPush == queue!EmptyOnlyBehindAPush

\* unbounded_queue.rs, signal_ring.rs: nothing is lost, duplicated or reordered, by
\* push_batch(), pop() and pop_batch(), or by claims across full rings and wrapped
\* indices.
RefinesFifo == queue!RefinesFifo /\ ring!RefinesFifo

\* node::Queue: one consumer at a time; the stack and the cache are chains with exactly
\* the nodes pushed and not popped, and Err(Empty) is the truth.
ChainsExact == nodes!ConsumersExclude /\ nodes!ChainsExact

\* In all three queues, what was pushed comes out to a consumer that keeps polling; and
\* wait() returns, no finisher leaving the owner of the group asleep.
Delivered == queue!Delivered /\ ring!Drained /\ nodes!Popped /\ WaitReturns
=============================================================================
