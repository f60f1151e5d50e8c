----------------------------- MODULE NodeBuffer -----------------------------
(***************************************************************************)
(* node::Buffer of ThreadPool.rs: each worker has a ring that it alone     *)
(* pushes to, and from which it pops while other workers steal.  The       *)
(* pool's queue and the overflow queues are one queue, and that is what    *)
(* module NodeQueue promises: a set with one consumer at a time.  Indices  *)
(* wrap; a run starts just below the wrap and goes less than a full lap    *)
(* (2^32 pushes in the code).                                              *)
(***************************************************************************)
EXTENDS Integers, Sequences, FiniteSets

CONSTANTS Workers, Nodes,
          Capacity,   \* CAPACITY, 256 in the code
          IndexMod,   \* 2^32 in the code
          Start,      \* where head and tail start
          MaxLap,     \* bound: how far a tail goes before its owner takes no more
          MaxList,    \* bound: nodes pushed in one call
          Null

NodeBufferAssumption ==
    /\ Capacity \in Nat /\ Capacity > 1 /\ IndexMod \in Nat
    /\ IndexMod % Capacity = 0
    /\ Start \in 0 .. IndexMod - 1 /\ MaxList \in Nat \ {0}
    /\ MaxLap \in Nat /\ MaxLap + MaxList < IndexMod /\ MaxLap + Capacity < IndexMod
    /\ Null \notin Nodes /\ Null \notin Workers

VARIABLES head, tail, array,
          queue,      \* nodes outside the rings
          consumer,   \* who holds its Consumer
          unscheduled,\* nodes nobody has pushed since they last ran
          pc,
          list,       \* the list in hand of a push
          h, t,       \* local copies of a head, and of the own tail as it grows
          victim,     \* whom a worker steals from
          want,       \* how many nodes it tries to steal
          hand        \* the node a consume() will return

rings == <<head, tail, array>>
locals == <<list, h, t, victim, want, hand>>
vars == <<rings, queue, consumer, unscheduled, pc, locals>>

\* wrapping_add, wrapping_sub and the slot of an index
Plus(i, k) == (i + k) % IndexMod
Minus(i, j) == (i - j) % IndexMod
Slot(i) == i % Capacity

Init == /\ head = [w \in Workers |-> Start] /\ tail = head
        /\ array = [w \in Workers |-> [s \in 0 .. Capacity - 1 |-> Null]]
        /\ queue = {} /\ consumer = Null /\ unscheduled = Nodes
        /\ pc = [w \in Workers |-> "run"]
        /\ list = [w \in Workers |-> <<>>]
        /\ h = [w \in Workers |-> 0] /\ t = h /\ want = h
        /\ victim = [w \in Workers |-> Null] /\ hand = victim

\* A tail that is not yet far enough to stop.
Fresh(w) == Minus(tail[w], Start) <= MaxLap

Goto(w, label) == pc' = [pc EXCEPT ![w] = label]

\* The call returns: its locals are gone.
Return(w, label) == /\ Goto(w, label)
                    /\ list' = [list EXCEPT ![w] = <<>>]
                    /\ h' = [h EXCEPT ![w] = 0] /\ t' = [t EXCEPT ![w] = 0]
                    /\ want' = [want EXCEPT ![w] = 0]
                    /\ victim' = [victim EXCEPT ![w] = Null]
                    /\ hand' = [hand EXCEPT ![w] = Null]

-----------------------------------------------------------------------------
\* schedule(), from any thread, goes past the rings.
Schedule == /\ \E batch \in SUBSET unscheduled :
                 /\ batch # {} /\ Cardinality(batch) <= MaxList
                 /\ queue' = queue \cup batch
                 /\ unscheduled' = unscheduled \ batch
            /\ UNCHANGED <<rings, consumer, pc, locals>>

(* push(): the callback of a task schedules a list *)

PushLoad(w) == /\ pc[w] = "run" /\ Fresh(w)
               /\ \E k \in 1 .. MaxList : \E l \in [1 .. k -> unscheduled] :
                    /\ \A i, j \in 1 .. k : i # j => l[i] # l[j]
                    /\ list' = [list EXCEPT ![w] = l]
                    /\ unscheduled' = unscheduled \ {l[i] : i \in 1 .. k}
               /\ h' = [h EXCEPT ![w] = head[w]] /\ t' = [t EXCEPT ![w] = tail[w]]
               /\ Goto(w, "push")
               /\ UNCHANGED <<rings, queue, consumer, victim, want, hand>>

HasRoom(w) == Minus(t[w], h[w]) < Capacity

PushStore(w) == /\ pc[w] = "push" /\ list[w] # <<>> /\ HasRoom(w)
                /\ array' = [array EXCEPT ![w][Slot(t[w])] = list[w][1]]
                /\ t' = [t EXCEPT ![w] = Plus(@, 1)]
                /\ list' = [list EXCEPT ![w] = Tail(@)]
                /\ UNCHANGED <<head, tail, queue, consumer, unscheduled, pc, h, victim, want, hand>>

\* tail is stored once the list or the room is used up; what is left is tried again.
PushPublish(w) == /\ pc[w] = "push" /\ t[w] # tail[w]
                  /\ list[w] = <<>> \/ ~HasRoom(w)
                  /\ tail' = [tail EXCEPT ![w] = t[w]]
                  /\ IF list[w] = <<>>
                     THEN Return(w, "run")
                     ELSE Goto(w, "reload") /\ UNCHANGED locals
                  /\ UNCHANGED <<head, array, queue, consumer, unscheduled>>

PushReload(w) == /\ pc[w] = "reload"
                 /\ h' = [h EXCEPT ![w] = head[w]]
                 /\ Goto(w, "push")
                 /\ UNCHANGED <<rings, queue, consumer, unscheduled, list, t, victim, want, hand>>

Slots(w, from, k) == [i \in 1 .. k |-> array[w][Slot(from + i - 1)]]

\* Full: claim the older half and add it before the list (Err(Overflow)).
Overflow(w) ==
    /\ pc[w] = "push" /\ t[w] = tail[w] /\ list[w] # <<>> /\ ~HasRoom(w)
    /\ IF head[w] = h[w]
       THEN /\ head' = [head EXCEPT ![w] = Plus(h[w], Capacity \div 2)]
            /\ list' = [list EXCEPT ![w] = Slots(w, h[w], Capacity \div 2) \o @]
            /\ Goto(w, "spill")
            /\ UNCHANGED h
       ELSE /\ h' = [h EXCEPT ![w] = head[w]]
            /\ UNCHANGED <<head, list, pc>>
    /\ UNCHANGED <<tail, array, queue, consumer, unscheduled, t, victim, want, hand>>

\* schedule_impl() pushes the overflow on the queue.
Spill(w) == /\ pc[w] = "spill"
            /\ queue' = queue \cup {list[w][i] : i \in DOMAIN list[w]}
            /\ Return(w, "run")
            /\ UNCHANGED <<rings, consumer, unscheduled>>

-----------------------------------------------------------------------------
(* pop() *)

\* A node that is returned is run, and may be scheduled again.
Run(n) == unscheduled' = unscheduled \cup {n}

PopLoad(w) == /\ pc[w] = "run"
              /\ h' = [h EXCEPT ![w] = head[w]]
              /\ Goto(w, "pop")
              /\ UNCHANGED <<rings, queue, consumer, unscheduled, list, t, victim, want, hand>>

\* Slip: head is stored without a look at what thieves did.
PopStores(w) == /\ pc[w] = "pop" /\ h[w] # tail[w]
                /\ head' = [head EXCEPT ![w] = Plus(h[w], 1)]
                /\ Run(array[w][Slot(h[w])])
                /\ Return(w, "run")
                /\ UNCHANGED <<tail, array, queue, consumer>>

PopClaim(w) == /\ pc[w] = "pop" /\ h[w] # tail[w]
               /\ IF head[w] = h[w]
                  THEN /\ head' = [head EXCEPT ![w] = Plus(h[w], 1)]
                       /\ Run(array[w][Slot(h[w])])
                       /\ Return(w, "run")
                  ELSE /\ h' = [h EXCEPT ![w] = head[w]]
                       /\ UNCHANGED <<head, unscheduled, pc, list, t, victim, want, hand>>
               /\ UNCHANGED <<tail, array, queue, consumer>>

\* None: Thread::pop() looks in the queues and then at the other threads.
PopNone(w) == /\ pc[w] = "pop" /\ h[w] = tail[w]
              /\ Return(w, "seek")
              /\ UNCHANGED <<rings, queue, consumer, unscheduled>>

-----------------------------------------------------------------------------
(* consume() *)

ConsumeAcquire(w) == /\ pc[w] = "seek" /\ Fresh(w) /\ consumer = Null /\ queue # {}
                     /\ consumer' = w
                     /\ t' = [t EXCEPT ![w] = tail[w]]
                     /\ Goto(w, "consume")
                     /\ UNCHANGED <<rings, queue, unscheduled, list, h, victim, want, hand>>

Pushed(w) == Minus(t[w], tail[w])

ConsumeStore(w) == /\ pc[w] = "consume" /\ Pushed(w) < Capacity
                   /\ \E n \in queue :
                        /\ queue' = queue \ {n}
                        /\ array' = [array EXCEPT ![w][Slot(t[w])] = n]
                   /\ t' = [t EXCEPT ![w] = Plus(@, 1)]
                   /\ UNCHANGED <<head, tail, consumer, unscheduled, pc, list, h, victim, want, hand>>

ConsumeStop(w) == /\ pc[w] = "consume"
                  /\ Pushed(w) = Capacity \/ queue = {}
                  /\ Goto(w, "extra")
                  /\ UNCHANGED <<rings, queue, consumer, unscheduled, locals>>

\* One more node, which is the one to return.
ConsumeExtra(w) == /\ pc[w] = "extra"
                   /\ \E n \in queue : /\ queue' = queue \ {n}
                                       /\ hand' = [hand EXCEPT ![w] = n]
                   /\ Goto(w, "consumed")
                   /\ UNCHANGED <<rings, consumer, unscheduled, list, h, t, victim, want>>

\* No more: the last one stored is the one to return.
ConsumeLast(w) == /\ pc[w] = "extra" /\ queue = {} /\ Pushed(w) > 0
                  /\ t' = [t EXCEPT ![w] = Minus(@, 1)]
                  /\ hand' = [hand EXCEPT ![w] = array[w][Slot(t[w] - 1)]]
                  /\ Goto(w, "consumed")
                  /\ UNCHANGED <<rings, queue, consumer, unscheduled, list, h, victim, want>>

ConsumePublish(w) == /\ pc[w] = "consumed"
                     /\ tail' = [tail EXCEPT ![w] = t[w]]
                     /\ consumer' = Null
                     /\ Run(hand[w])
                     /\ Return(w, "run")
                     /\ UNCHANGED <<head, array, queue>>

-----------------------------------------------------------------------------
(* steal() *)

\* Thread::pop() tries the other threads in turn.
StealFrom(w, v) == /\ pc[w] = "seek" /\ Fresh(w) /\ v # w
                   /\ victim' = [victim EXCEPT ![w] = v]
                   /\ Goto(w, "head")
                   /\ UNCHANGED <<rings, queue, consumer, unscheduled, list, h, t, want, hand>>

StealHead(w) == /\ pc[w] = "head"
                /\ h' = [h EXCEPT ![w] = head[victim[w]]]
                /\ t' = [t EXCEPT ![w] = tail[w]]
                /\ Goto(w, "tail")
                /\ UNCHANGED <<rings, queue, consumer, unscheduled, list, victim, want, hand>>

\* Slip: half, rounded down.
HalfDown(k) == k \div 2

StealSize(k) == k - k \div 2

Seen(w) == Minus(tail[victim[w]], h[w])

\* More than CAPACITY: the head is out of date.
Fits(w) == Seen(w) <= Capacity

StealTail(w) ==
    /\ pc[w] = "tail"
    /\ \/ ~Fits(w) /\ Goto(w, "head") /\ UNCHANGED locals
       \/ Fits(w) /\ StealSize(Seen(w)) = 0 /\ Return(w, "seek")
       \/ /\ Fits(w) /\ StealSize(Seen(w)) > 0
          /\ want' = [want EXCEPT ![w] = StealSize(Seen(w))]
          /\ Goto(w, "copy")
          /\ UNCHANGED <<list, h, t, victim, hand>>
    /\ UNCHANGED <<rings, queue, consumer, unscheduled>>

Copied(w) == Minus(t[w], tail[w])

StealCopy(w) == /\ pc[w] = "copy" /\ Copied(w) < want[w]
                /\ array' = [array EXCEPT ![w][Slot(t[w])] =
                               array[victim[w]][Slot(h[w] + Copied(w))]]
                /\ t' = [t EXCEPT ![w] = Plus(@, 1)]
                /\ UNCHANGED <<head, tail, queue, consumer, unscheduled, pc, list, h, victim, want, hand>>

\* The copies count only if the head of the victim is where it was.
StealClaim(w) == /\ pc[w] = "copy" /\ Copied(w) = want[w]
                 /\ IF head[victim[w]] = h[w]
                    THEN /\ head' = [head EXCEPT ![victim[w]] = Plus(h[w], want[w])]
                         /\ Goto(w, "stolen")
                    ELSE Goto(w, "head") /\ UNCHANGED head
                 /\ UNCHANGED <<tail, array, queue, consumer, unscheduled, locals>>

\* The last copy is returned, the others are in the ring.
StealPublish(w) == /\ pc[w] = "stolen"
                   /\ tail' = [tail EXCEPT ![w] = Minus(t[w], 1)]
                   /\ Run(array[w][Slot(t[w] - 1)])
                   /\ Return(w, "run")
                   /\ UNCHANGED <<head, array, queue, consumer>>

\* Nothing anywhere: the thread sleeps and looks again.
Woken(w) == /\ pc[w] = "seek"
            /\ Goto(w, "run")
            /\ UNCHANGED <<rings, queue, consumer, unscheduled, locals>>

-----------------------------------------------------------------------------
Step(w) == \/ PushLoad(w) \/ PushStore(w) \/ PushPublish(w) \/ PushReload(w)
           \/ Overflow(w) \/ Spill(w)
           \/ PopLoad(w) \/ PopClaim(w) \/ PopNone(w)
           \/ ConsumeAcquire(w) \/ ConsumeStore(w) \/ ConsumeStop(w)
           \/ ConsumeExtra(w) \/ ConsumeLast(w) \/ ConsumePublish(w)
           \/ (\E v \in Workers : StealFrom(w, v))
           \/ StealHead(w) \/ StealTail(w) \/ StealCopy(w)
           \/ StealClaim(w) \/ StealPublish(w) \/ Woken(w)

Next == Schedule \/ \E w \in Workers : Step(w)

Spec == Init /\ [][Next]_vars

-----------------------------------------------------------------------------
Size(w) == Minus(tail[w], head[w])

\* Where the nodes of w's ring end that are w's alone and not yet published.
End(w) == IF pc[w] \in {"push", "consume", "extra", "consumed", "stolen"} THEN t[w] ELSE tail[w]

\* The places that a node is in.
Places(n) == (IF n \in unscheduled THEN {<<"unscheduled", Null, 0>>} ELSE {})
             \cup (IF n \in queue THEN {<<"queue", Null, 0>>} ELSE {})
             \cup {<<"hand", w, 0>> : w \in {v \in Workers : hand[v] = n}}
             \cup (UNION {{<<"list", w, i>> : i \in {j \in DOMAIN list[w] : list[w][j] = n}}
                          : w \in Workers})
             \cup (UNION {{<<"ring", w, k>> : k \in {j \in 0 .. Minus(End(w), head[w]) - 1 :
                                                      array[w][Slot(head[w] + j)] = n}}
                          : w \in Workers})

\* The debug_asserts: a ring never has more than CAPACITY nodes, and the ring of a
\* thread that consumes or steals is empty.
RingBounds == \A w \in Workers :
                /\ Size(w) <= Capacity
                /\ pc[w] \in {"seek", "consume", "extra", "consumed", "head", "tail", "copy", "stolen"}
                   => Size(w) = 0
                /\ pc[w] \in {"pop", "push"} => Minus(tail[w], h[w]) <= Capacity

\* No task is lost and none runs twice: at every instant a node is in one place and one
\* only, whatever thieves, the owner and an overflow do to one ring at a time.
EveryNodeOnce == RingBounds /\ \A n \in Nodes : Cardinality(Places(n)) = 1

\* steal() returns None only if the victim's ring is empty at that instant: a thread
\* that finds nothing anywhere may sleep.
NoneMeansEmpty == [][\A w \in Workers : pc[w] = "tail" /\ pc'[w] = "seek" => Size(victim[w]) = 0]_vars

-----------------------------------------------------------------------------
(* The inductive invariant *)

Indices == 0 .. IndexMod - 1

Labels == {"run", "push", "reload", "spill", "pop", "seek", "consume", "extra", "consumed",
           "head", "tail", "copy", "stolen"}

TypeOK == /\ head \in [Workers -> Indices] /\ tail \in [Workers -> Indices]
          /\ array \in [Workers -> [0 .. Capacity - 1 -> Nodes \cup {Null}]]
          /\ queue \subseteq Nodes /\ unscheduled \subseteq Nodes
          /\ consumer \in Workers \cup {Null}
          /\ pc \in [Workers -> Labels]
          /\ list \in [Workers -> Seq(Nodes)]
          /\ h \in [Workers -> Indices] /\ t \in [Workers -> Indices]
          /\ victim \in [Workers -> Workers \cup {Null}]
          /\ want \in [Workers -> 0 .. Capacity]
          /\ hand \in [Workers -> Nodes \cup {Null}]

\* How far an index has gone, and what a ring has there.
Lap(i) == Minus(i, Start)

Cell(w, d) == array[w][Slot(Start + d)]

\* What a local copy of an index still says of it.
LocalsExact(w) ==
    /\ Lap(head[w]) <= Lap(tail[w]) /\ Lap(tail[w]) <= Lap(head[w]) + Capacity
    /\ pc[w] = "push" => /\ Lap(h[w]) <= Lap(head[w])
                         /\ Lap(tail[w]) <= Lap(t[w]) /\ Lap(t[w]) <= Lap(h[w]) + Capacity
    /\ pc[w] = "reload" => t[w] = tail[w]
    /\ pc[w] \in {"push", "reload"} => Lap(t[w]) + Len(list[w]) <= MaxLap + MaxList
    /\ pc[w] \notin {"push", "reload", "spill"} => list[w] = <<>>
    /\ pc[w] = "pop" => Lap(h[w]) <= Lap(head[w]) /\ Lap(tail[w]) <= Lap(h[w]) + Capacity
    /\ pc[w] \in {"seek", "consume", "extra", "consumed", "head", "tail", "copy", "stolen"}
       => head[w] = tail[w]
    /\ pc[w] \in {"consume", "head", "tail", "copy"} => Lap(tail[w]) <= MaxLap
    /\ pc[w] \in {"consume", "extra", "consumed", "copy", "stolen"}
       => Lap(tail[w]) <= Lap(t[w]) /\ Lap(t[w]) <= Lap(tail[w]) + Capacity
    /\ pc[w] = "stolen" => t[w] # tail[w]
    /\ pc[w] = "consumed" <=> hand[w] # Null

\* A thief's copies are the victim's nodes as long as the victim's head has not moved:
\* the victim writes only where its ring, seen from that head, has room.
CopiesExact(w) ==
    /\ pc[w] \in {"head", "tail", "copy"} => victim[w] \in Workers \ {w}
    /\ pc[w] \in {"tail", "copy"} => Lap(h[w]) <= Lap(head[victim[w]])
    /\ pc[w] = "tail" => t[w] = tail[w]
    /\ pc[w] = "copy" =>
         /\ 0 < want[w] /\ Lap(t[w]) <= Lap(tail[w]) + want[w]
         /\ head[victim[w]] = h[w] =>
              /\ Lap(h[w]) + want[w] <= Lap(tail[victim[w]])
              /\ \A k \in 0 .. Lap(t[w]) - Lap(tail[w]) - 1 :
                    Cell(w, Lap(tail[w]) + k) = Cell(victim[w], Lap(h[w]) + k)

\* The nodes that only w has.
Live(w) == Lap(head[w]) .. Lap(End(w)) - 1

InRing(w) == {Cell(w, d) : d \in Live(w)}

InList(w) == {list[w][i] : i \in DOMAIN list[w]}

Held(w) == InRing(w) \cup InList(w) \cup ({hand[w]} \ {Null})

HeldOnce(w) ==
    /\ Held(w) \subseteq Nodes
    /\ \A d, e \in Live(w) : Cell(w, d) = Cell(w, e) => d = e
    /\ \A i, j \in DOMAIN list[w] : list[w][i] = list[w][j] => i = j
    /\ InRing(w) \cap InList(w) = {} /\ hand[w] \notin InRing(w)

Partition == /\ queue \cap unscheduled = {}
             /\ \A w \in Workers : Held(w) \cap (queue \cup unscheduled) = {}
             /\ \A v, w \in Workers : v # w => Held(v) \cap Held(w) = {}
             /\ Nodes = queue \cup unscheduled \cup UNION {Held(w) : w \in Workers}

IInv == /\ TypeOK /\ Partition
        /\ \A w \in Workers : LocalsExact(w) /\ CopiesExact(w) /\ HeldOnce(w)
=============================================================================
