----------------------------- MODULE SignalRing -----------------------------
(***************************************************************************)
(* signal_ring.rs: the ring of pending signal numbers.  Signal handlers on *)
(* any thread, also nested ones, are the producers; a producer claims a    *)
(* slot by moving the tail and stores its signal afterwards.  Indices are  *)
(* machine words that wrap (u16 in the code, IndexMod here).               *)
(***************************************************************************)
EXTENDS Integers, Sequences, FiniteSets

CONSTANTS Producers, Signals,
          Capacity,    \* slots
          IndexMod     \* an index is a number modulo IndexMod

\* CAPACITY_IS_VALID: a power of two no larger than half the index range.
RingAssumption == /\ Capacity \in Nat \ {0}
                  /\ IndexMod \in Nat
                  /\ 2 * Capacity <= IndexMod
                  /\ IndexMod % Capacity = 0
                  /\ 0 \notin Signals

VARIABLES slots,       \* 0 while free, or claimed and not yet written
          head, tail,  \* the two halves of the state word
          pc, signal, seen,        \* producers: where, what, the last load
          at, taken, held,         \* the consumer: where, the signal, last load
          out,         \* what the last dequeue() returned
          pending      \* history: the signals whose slots are claimed, in claiming order

producers == <<pc, signal, seen>>
consumer  == <<at, taken, held, out>>
vars == <<slots, head, tail, producers, consumer, pending>>

Slot(index) == index % Capacity
Used(pair)  == (pair[2] - pair[1]) % IndexMod
Next1(index) == (index + 1) % IndexMod

Init == /\ slots = [i \in 0 .. Capacity - 1 |-> 0]
        /\ head = 0 /\ tail = 0
        /\ pc = [p \in Producers |-> "idle"]
        /\ signal = [p \in Producers |-> 0]
        /\ seen = [p \in Producers |-> <<0, 0>>]
        /\ at = "idle" /\ taken = 0 /\ held = <<0, 0>>
        /\ out = <<>> /\ pending = <<>>

-----------------------------------------------------------------------------
(* enqueue() *)

EnqueueLoad(p) == /\ pc[p] = "idle"
                  /\ \E s \in Signals : signal' = [signal EXCEPT ![p] = s]
                  /\ seen' = [seen EXCEPT ![p] = <<head, tail>>]
                  /\ pc' = [pc EXCEPT ![p] = "claim"]
                  /\ UNCHANGED <<slots, head, tail, consumer, pending>>

\* The call ends, and its locals with it.
Leave(p) == /\ pc' = [pc EXCEPT ![p] = "idle"]
            /\ signal' = [signal EXCEPT ![p] = 0]
            /\ seen' = [seen EXCEPT ![p] = <<0, 0>>]

\* Returns false: the ring was full when the pair was loaded.
Reject(p) == /\ pc[p] = "claim"
             /\ Used(seen[p]) >= Capacity
             /\ Leave(p)
             /\ UNCHANGED <<slots, head, tail, consumer, pending>>

\* The compare-exchange of the pair: claim the slot at tail, or reload.
Claim(p) ==
    /\ pc[p] = "claim"
    /\ Used(seen[p]) < Capacity
    /\ IF <<head, tail>> = seen[p]
       THEN /\ tail' = Next1(tail) /\ pending' = Append(pending, signal[p])
            /\ pc' = [pc EXCEPT ![p] = "store"] /\ UNCHANGED seen
       ELSE seen' = [seen EXCEPT ![p] = <<head, tail>>] /\ UNCHANGED <<tail, pc, pending>>
    /\ UNCHANGED <<slots, head, signal, consumer>>

Store(p) == /\ pc[p] = "store"
            /\ slots' = [slots EXCEPT ![Slot(seen[p][2])] = signal[p]]
            /\ Leave(p)
            /\ UNCHANGED <<head, tail, consumer, pending>>

-----------------------------------------------------------------------------
(* dequeue() *)

Return(signals) == at' = "idle" /\ taken' = 0 /\ held' = <<0, 0>> /\ out' = signals

DequeueLoad == /\ at = "idle"
               /\ IF head = tail
                  THEN Return(<<>>)
                  ELSE at' = "swap" /\ held' = <<head, tail>> /\ UNCHANGED <<taken, out>>
               /\ UNCHANGED <<slots, head, tail, producers, pending>>

\* Take the oldest signal out of its slot; 0 means that it is still to come.
SwapSlot == /\ at = "swap"
            /\ slots' = [slots EXCEPT ![Slot(held[1])] = 0]
            /\ IF slots[Slot(held[1])] = 0
               THEN Return(<<>>)
               ELSE at' = "move" /\ taken' = slots[Slot(held[1])] /\ UNCHANGED <<held, out>>
            /\ UNCHANGED <<head, tail, producers, pending>>

\* Slip: store the pair that was loaded before the swap.
MoveHeadStores == /\ at = "move"
                  /\ head' = Next1(held[1])
                  /\ tail' = held[2]
                  /\ Return(<<taken>>)
                  /\ pending' = Tail(pending)
                  /\ UNCHANGED <<slots, producers>>

\* Move head with a compare-exchange that keeps whatever tail has become.
MoveHead == /\ at = "move"
            /\ IF <<head, tail>> = held
               THEN head' = Next1(held[1]) /\ pending' = Tail(pending) /\ Return(<<taken>>)
               ELSE held' = <<head, tail>> /\ UNCHANGED <<head, at, taken, out, pending>>
            /\ UNCHANGED <<slots, tail, producers>>

-----------------------------------------------------------------------------
Enqueue(p) == Reject(p) \/ Claim(p) \/ Store(p)
Dequeue    == DequeueLoad \/ SwapSlot \/ MoveHead

Next == Dequeue \/ \E p \in Producers : EnqueueLoad(p) \/ Enqueue(p)

Spec == Init /\ [][Next]_vars

\* A producer in enqueue() goes on, and the consumer keeps calling dequeue().
\* Its compare-exchange of head cannot lose for ever: a full ring stops the tail.
Fairness == /\ WF_vars(Dequeue)
            /\ \A p \in Producers : WF_vars(Enqueue(p))

FairSpec == Spec /\ Fairness

-----------------------------------------------------------------------------
Indices == 0 .. IndexMod - 1

\* dequeue() returns signal numbers and never the 0 of a slot that is claimed and
\* not written yet.
TypeOK == /\ slots \in [0 .. Capacity - 1 -> Signals \cup {0}]
          /\ head \in Indices /\ tail \in Indices
          /\ pc \in [Producers -> {"idle", "claim", "store"}]
          /\ signal \in [Producers -> Signals \cup {0}]
          /\ \A p \in Producers : pc[p] # "idle" => signal[p] # 0
          /\ seen \in [Producers -> Indices \X Indices]
          /\ at \in {"idle", "swap", "move"}
          /\ taken \in Signals \cup {0}
          /\ at = "move" => taken # 0
          /\ held \in Indices \X Indices
          /\ out \in {<<>>} \cup {<<s>> : s \in Signals}
          /\ pending \in Seq(Signals)

\* The index of the i-th pending signal.
Position(i) == (head + (i - 1)) % IndexMod

\* head and tail delimit the pending signals.
IndicesExact == Len(pending) <= Capacity /\ tail = (head + Len(pending)) % IndexMod

\* The slot at index i is claimed for the i-th pending signal and not written yet.
Storing(p, i) == /\ pc[p] = "store" /\ seen[p][2] = Position(i) /\ signal[p] = pending[i]
                 /\ slots[Slot(Position(i))] = 0

\* A pending signal is in its slot, or in the hands of the one producer that will write
\* it there, or of the consumer; the other slots are free.
SlotsExact ==
    /\ \A i \in 1 .. Len(pending) : \/ slots[Slot(Position(i))] = pending[i]
                                    \/ \E p \in Producers : Storing(p, i)
                                    \/ i = 1 /\ at = "move"
    /\ \A j \in 0 .. Capacity - 1 : slots[j] # 0 => \E i \in 1 .. Len(pending) : Slot(Position(i)) = j
    /\ \A p \in Producers : pc[p] = "store" => \E i \in 1 .. Len(pending) : Storing(p, i)
    /\ \A p, q \in Producers :
          pc[p] = "store" /\ pc[q] = "store" /\ seen[p][2] = seen[q][2] => p = q

\* The consumer alone moves head.
ConsumerKnows ==
    /\ at # "idle" => held[1] = head /\ Len(pending) > 0
    /\ at = "move" => /\ taken = pending[1] /\ slots[Slot(head)] = 0
                      /\ \A p \in Producers : pc[p] = "store" => seen[p][2] # head

IInv == TypeOK /\ IndicesExact /\ SlotsExact /\ ConsumerKnows

fifo == INSTANCE Fifo WITH Items <- Signals, MaxRun <- 1, queue <- pending

\* Every signal that enqueue() accepted is dequeued once, in claiming order.
RefinesFifo == fifo!Spec

\* A consumer that keeps polling empties every slot: a handler that stopped
\* between its claim and its store delays the ring but does not wedge it.
Drained == \A i \in 0 .. Capacity - 1 : slots[i] # 0 ~> slots[i] = 0
=============================================================================
