----------------------------- MODULE PoolProofs -----------------------------
(***************************************************************************)
(* node::Buffer keeps every node in one place and one only, whatever the   *)
(* capacity of the rings, the width of their indices and the number of     *)
(* workers; and steal() returns None only when the victim has nothing.     *)
(*                                                                         *)
(* An index is followed by its distance from where the run started, which  *)
(* does not wrap (ring!Lap).  The invariant says what each local copy of   *)
(* an index still tells about it, that a thief's copies are the victim's   *)
(* nodes as long as the victim's head is where the thief saw it, and that  *)
(* the rings, the lists in hand, the queue and the nodes at rest divide    *)
(* the nodes among them.  A step of one worker is checked against itself;  *)
(* OneMoves carries the rest of the invariant over for all others.         *)
(***************************************************************************)
EXTENDS Pool, FiniteSetTheorems, TLAPS

(* Indices that wrap *)

\* Integers are divided with a remainder.
LEMMA Quotient ==
    ASSUME NEW a \in Int, NEW c \in Nat \ {0}
    PROVE  \E q \in Int, r \in 0 .. c - 1 : a = (c * q) + r /\ r = (a % c)
  <1>1. a \div c \in Int /\ a % c \in 0 .. c - 1
    OBVIOUS
  <1>2. a = (c * (a \div c)) + (a % c)
    OBVIOUS
  <1> QED BY <1>1, <1>2

\* A multiple of c that is closer to 0 than c is 0.
LEMMA Multiple ==
    ASSUME NEW c \in Nat \ {0}, NEW d \in Int, c * d < c, -c < c * d
    PROVE  d = 0
  OBVIOUS

\* Numbers that are close and have the same remainder are equal.
LEMMA SameRemainder ==
    ASSUME NEW c \in Nat \ {0}, NEW x \in Int, NEW y \in Int, x % c = y % c, x - y < c, -c < x - y
    PROVE  x = y
  <1>1. PICK q \in Int, r \in 0 .. c - 1 : x = (c * q) + r /\ r = (x % c)
    BY Quotient
  <1>2. PICK k \in Int, s \in 0 .. c - 1 : y = (c * k) + s /\ s = (y % c)
    BY Quotient
  <1>3. c * (q - k) = x - y
    BY <1>1, <1>2
  <1>4. q - k = 0
    BY <1>3, Multiple
  <1> QED
    BY <1>3, <1>4

\* The remainder does not see multiples.
LEMMA Shift ==
    ASSUME NEW c \in Nat \ {0}, NEW x \in Int, NEW k \in Int
    PROVE  (x + (c * k)) % c = x % c
  <1>1. PICK q \in Int, r \in 0 .. c - 1 : x = (c * q) + r /\ r = (x % c)
    BY Quotient
  <1>2. x + (c * k) = (c * (q + k)) + r
    BY <1>1
  <1>3. \A s \in Int, y \in 0 .. c - 1 : ((c * s) + y) % c = y
    OBVIOUS
  <1>4. ((c * (q + k)) + r) % c = r
    BY <1>3
  <1> QED
    BY <1>1, <1>2, <1>4

\* A sum of two indices, or a difference of two, wraps at most once.
LEMMA WrapOnce ==
    ASSUME NEW m \in Nat \ {0}, NEW x \in 1 - m .. (2 * m) - 1
    PROVE  x % m = IF x < 0 THEN x + m ELSE IF x < m THEN x ELSE x - m
  OBVIOUS

\* What the constants of node::Buffer are; the slots divide the indices.
LEMMA BufferConstants ==
    /\ RingCapacity \in Nat \ {0} /\ RingCapacity > 1 /\ IndexMod \in Nat \ {0}
    /\ Start \in 0 .. IndexMod - 1 /\ MaxList \in Nat \ {0} /\ MaxLap \in Nat
    /\ MaxLap + MaxList < IndexMod /\ MaxLap + RingCapacity < IndexMod
    /\ None \notin Nodes /\ None \notin Owners
    /\ \E k \in Int : IndexMod = RingCapacity * k
  <1>1. /\ RingCapacity \in Nat /\ RingCapacity > 1 /\ IndexMod \in Nat /\ IndexMod % RingCapacity = 0
        /\ Start \in 0 .. IndexMod - 1 /\ MaxList \in Nat \ {0}
        /\ MaxLap \in Nat /\ MaxLap + MaxList < IndexMod /\ MaxLap + RingCapacity < IndexMod
        /\ None \notin Nodes /\ None \notin Owners
    BY PoolAssumption DEF PoolAssumption, ring!NodeBufferAssumption
  <1>2. RingCapacity \in Nat \ {0} /\ IndexMod \in Nat \ {0}
    BY <1>1
  <1>3. PICK q \in Int, r \in 0 .. RingCapacity - 1 :
            IndexMod = (RingCapacity * q) + r /\ r = (IndexMod % RingCapacity)
    BY <1>2, Quotient
  <1>4. IndexMod = RingCapacity * q
    BY <1>1, <1>3
  <1> QED
    BY <1>1, <1>2, <1>4

\* The same for the indices of a ring.
LEMMA IndexWraps ==
    ASSUME NEW x \in Int, 1 - IndexMod <= x, x < 2 * IndexMod
    PROVE  x % IndexMod = IF x < 0 THEN x + IndexMod ELSE IF x < IndexMod THEN x ELSE x - IndexMod
  <1>1. IndexMod \in Nat \ {0}
    BY BufferConstants
  <1>2. x \in 1 - IndexMod .. (2 * IndexMod) - 1
    BY <1>1
  <1> QED
    BY <1>1, <1>2, WrapOnce

\* How far an index is, as a difference that wraps at most once.
LEMMA LapIs ==
    ASSUME NEW i \in ring!Indices
    PROVE  /\ ring!Lap(i) \in ring!Indices /\ ring!Lap(i) \in Nat /\ ring!Lap(i) < IndexMod
           /\ ring!Lap(i) = IF i < Start THEN (i - Start) + IndexMod ELSE i - Start
  <1>1. IndexMod \in Nat \ {0} /\ i \in 0 .. IndexMod - 1 /\ Start \in 0 .. IndexMod - 1
    BY BufferConstants DEF ring!Indices
  <1>2. i - Start \in Int /\ 1 - IndexMod <= i - Start /\ i - Start < 2 * IndexMod
    BY <1>1
  <1>3. (i - Start) % IndexMod = IF i - Start < 0 THEN (i - Start) + IndexMod ELSE i - Start
    BY <1>1, <1>2, IndexWraps
  <1> QED
    BY <1>1, <1>3 DEF ring!Lap, ring!Minus, ring!Indices

\* Two indices that are equally far are the same.
LEMMA LapTells ==
    ASSUME NEW i \in ring!Indices, NEW j \in ring!Indices, ring!Lap(i) = ring!Lap(j)
    PROVE  i = j
  BY LapIs, BufferConstants DEF ring!Indices

\* An index that is moved on by less than a lap is so much farther.
LEMMA LapPlus ==
    ASSUME NEW i \in ring!Indices, NEW k \in Nat, ring!Lap(i) + k < IndexMod
    PROVE  ring!Plus(i, k) \in ring!Indices /\ ring!Lap(ring!Plus(i, k)) = ring!Lap(i) + k
  <1>1. IndexMod \in Nat \ {0} /\ i \in 0 .. IndexMod - 1 /\ Start \in 0 .. IndexMod - 1
    BY BufferConstants DEF ring!Indices
  <1>2. i + k \in Int /\ 1 - IndexMod <= i + k /\ i + k < 2 * IndexMod
    BY <1>1, LapIs
  <1>3. PICK p : p = ring!Plus(i, k)
    OBVIOUS
  <1>4. p = IF i + k < IndexMod THEN i + k ELSE (i + k) - IndexMod
    BY <1>1, <1>2, <1>3, IndexWraps DEF ring!Plus
  <1>5. p \in ring!Indices
    BY <1>1, <1>2, <1>4 DEF ring!Indices
  <1>6. ring!Lap(p) = ring!Lap(i) + k
    BY <1>1, <1>4, <1>5, LapIs
  <1> QED
    BY <1>3, <1>5, <1>6

\* The difference of two indices is how much farther the first is.
LEMMA LapMinus ==
    ASSUME NEW i \in ring!Indices, NEW j \in ring!Indices, ring!Lap(j) <= ring!Lap(i)
    PROVE  ring!Minus(i, j) = ring!Lap(i) - ring!Lap(j)
  <1>1. IndexMod \in Nat \ {0} /\ i \in 0 .. IndexMod - 1 /\ j \in 0 .. IndexMod - 1 /\ Start \in 0 .. IndexMod - 1
    BY BufferConstants DEF ring!Indices
  <1>2. i - j \in Int /\ 1 - IndexMod <= i - j /\ i - j < 2 * IndexMod
    BY <1>1
  <1>3. (i - j) % IndexMod = IF i - j < 0 THEN (i - j) + IndexMod ELSE i - j
    BY <1>1, <1>2, IndexWraps
  <1> QED
    BY <1>1, <1>3, LapIs DEF ring!Minus

\* One back.
LEMMA LapBack ==
    ASSUME NEW i \in ring!Indices, ring!Lap(i) > 0
    PROVE  ring!Minus(i, 1) \in ring!Indices /\ ring!Lap(ring!Minus(i, 1)) = ring!Lap(i) - 1
  <1>1. IndexMod \in Nat \ {0} /\ i \in 0 .. IndexMod - 1 /\ Start \in 0 .. IndexMod - 1
    BY BufferConstants DEF ring!Indices
  <1>2. i - 1 \in Int /\ 1 - IndexMod <= i - 1 /\ i - 1 < 2 * IndexMod
    BY <1>1, LapIs
  <1>3. PICK p : p = ring!Minus(i, 1)
    OBVIOUS
  <1>4. p = IF i - 1 < 0 THEN (i - 1) + IndexMod ELSE i - 1
    BY <1>1, <1>2, <1>3, IndexWraps DEF ring!Minus
  <1>5. p \in ring!Indices
    BY <1>1, <1>4 DEF ring!Indices
  <1>6. ring!Lap(p) = ring!Lap(i) - 1
    BY <1>1, <1>4, <1>5, LapIs
  <1> QED
    BY <1>3, <1>5, <1>6

\* The slot of an index depends on how far it is.
LEMMA SlotOfLap ==
    ASSUME NEW i \in ring!Indices, NEW k \in Int
    PROVE  ring!Slot(i + k) = ring!Slot(Start + (ring!Lap(i) + k))
  <1>1. /\ i \in Int /\ Start \in Int /\ IndexMod \in Nat \ {0} /\ RingCapacity \in Nat \ {0}
    BY BufferConstants DEF ring!Indices
  <1>2. PICK m \in Int : IndexMod = RingCapacity * m
    BY BufferConstants
  <1>3. PICK d \in Int : d = ring!Lap(i) /\ (d = i - Start \/ d = (i - Start) + IndexMod)
    BY <1>1, LapIs
  <1>4. CASE d = i - Start
    <2>1. Start + (d + k) = i + k
      BY <1>1, <1>3, <1>4
    <2> QED
      BY <1>3, <2>1
  <1>5. CASE d = (i - Start) + IndexMod
    <2>1. Start + (d + k) = (i + k) + (RingCapacity * m)
      BY <1>1, <1>2, <1>5
    <2>2. i + k \in Int
      BY <1>1
    <2>3. ((i + k) + (RingCapacity * m)) % RingCapacity = (i + k) % RingCapacity
      BY <1>1, <1>2, <2>2, Shift
    <2> QED
      BY <1>3, <2>1, <2>3 DEF ring!Slot
  <1> QED
    BY <1>3, <1>4, <1>5

\* Distances that are close have different slots.
LEMMA SlotsApart ==
    ASSUME NEW d \in Int, NEW e \in Int, d - e < RingCapacity, -RingCapacity < d - e, d # e
    PROVE  ring!Slot(Start + d) # ring!Slot(Start + e)
  <1>1. SUFFICES ASSUME ring!Slot(Start + d) = ring!Slot(Start + e) PROVE FALSE
    OBVIOUS
  <1>2. RingCapacity \in Nat \ {0} /\ Start \in Int
    BY BufferConstants
  <1>3. /\ Start + d \in Int /\ Start + e \in Int
        /\ (Start + d) - (Start + e) < RingCapacity /\ -RingCapacity < (Start + d) - (Start + e)
        /\ (Start + d) % RingCapacity = (Start + e) % RingCapacity
    BY <1>1, <1>2 DEF ring!Slot
  <1>4. Start + d = Start + e
    BY <1>2, <1>3, SameRemainder
  <1> QED
    BY <1>2, <1>4

\* Every distance has a slot.
LEMMA SlotRange ==
    ASSUME NEW d \in Int
    PROVE  ring!Slot(Start + d) \in 0 .. RingCapacity - 1
  <1>1. RingCapacity \in Nat \ {0} /\ Start + d \in Int
    BY BufferConstants
  <1> QED
    BY <1>1 DEF ring!Slot

-----------------------------------------------------------------------------
(* Cells, and what a step does to them *)

\* A store in a ring changes one cell, as far as cells that are close are concerned.
LEMMA Stored ==
    ASSUME ring!TypeOK, NEW w \in Owners, NEW d \in Int, NEW x \in Nodes \cup {None},
           array' = [array EXCEPT ![w][ring!Slot(Start + d)] = x]
    PROVE  /\ array' \in [Owners -> [0 .. RingCapacity - 1 -> Nodes \cup {None}]]
           /\ ring!Cell(w, d)' = x
           /\ \A e \in Int : e # d /\ d - e < RingCapacity /\ e - d < RingCapacity
                             => ring!Cell(w, e)' = ring!Cell(w, e)
           /\ \A v \in Owners \ {w} : array'[v] = array[v]
  <1>1. array \in [Owners -> [0 .. RingCapacity - 1 -> Nodes \cup {None}]]
    BY DEF ring!TypeOK
  <1>2. PICK s \in 0 .. RingCapacity - 1 : s = ring!Slot(Start + d)
    BY SlotRange
  <1>3. array' = [array EXCEPT ![w][s] = x]
    BY <1>2
  <1>4. PICK row \in [0 .. RingCapacity - 1 -> Nodes \cup {None}] : row = [array[w] EXCEPT ![s] = x]
    BY <1>1
  <1>5. row[s] = x /\ \A r \in 0 .. RingCapacity - 1 : r # s => row[r] = array[w][r]
    BY <1>1, <1>4
  <1>6. array' = [array EXCEPT ![w] = row]
    BY <1>1, <1>3, <1>4
  <1>7. /\ array' \in [Owners -> [0 .. RingCapacity - 1 -> Nodes \cup {None}]]
        /\ array'[w][s] = x /\ \A v \in Owners \ {w} : array'[v] = array[v]
        /\ \A r \in 0 .. RingCapacity - 1 : r # s => array'[w][r] = array[w][r]
    BY <1>1, <1>5, <1>6
  <1>8. ASSUME NEW e \in Int, e # d, d - e < RingCapacity, e - d < RingCapacity
        PROVE  ring!Cell(w, e)' = ring!Cell(w, e)
    <2>1. RingCapacity \in Nat \ {0}
      BY BufferConstants
    <2>2. d - e < RingCapacity /\ -RingCapacity < d - e
      BY <1>8, <2>1
    <2>3. ring!Slot(Start + e) \in 0 .. RingCapacity - 1 /\ ring!Slot(Start + e) # s
      BY <1>2, <1>8, <2>2, SlotRange, SlotsApart
    <2> QED
      BY <1>7, <2>3 DEF ring!Cell
  <1>9. ring!Cell(w, d)' = x
    BY <1>2, <1>7 DEF ring!Cell
  <1> QED
    BY <1>7, <1>8, <1>9

\* What v has is untouched by a step.
Same(v) == /\ head'[v] = head[v] /\ tail'[v] = tail[v] /\ array'[v] = array[v]
           /\ ringPc'[v] = ringPc[v] /\ list'[v] = list[v] /\ h'[v] = h[v] /\ t'[v] = t[v]
           /\ victim'[v] = victim[v] /\ want'[v] = want[v] /\ hand'[v] = hand[v]

\* A worker that is untouched keeps what it has.
LEMMA SameKeeps ==
    ASSUME NEW v \in Owners, Same(v)
    PROVE  /\ ring!LocalsExact(v) => ring!LocalsExact(v)'
           /\ ring!HeldOnce(v) => ring!HeldOnce(v)'
           /\ ring!Held(v)' = ring!Held(v)
  <1>1. ring!LocalsExact(v) => ring!LocalsExact(v)'
    BY DEF Same, ring!LocalsExact
  <1>2. ring!Live(v)' = ring!Live(v)
    BY DEF Same, ring!Live, ring!End
  <1>3. ring!InRing(v)' = ring!InRing(v) /\ \A d : ring!Cell(v, d)' = ring!Cell(v, d)
    BY <1>2 DEF Same, ring!InRing, ring!Cell
  <1>4. ring!InList(v)' = ring!InList(v)
    BY DEF Same, ring!InList
  <1>5. ring!Held(v)' = ring!Held(v)
    BY <1>3, <1>4 DEF Same, ring!Held
  <1>6. ring!HeldOnce(v) => ring!HeldOnce(v)'
    BY <1>2, <1>3, <1>4, <1>5 DEF Same, ring!HeldOnce
  <1> QED
    BY <1>1, <1>5, <1>6

\* A ring that only goes on: what a thief may have read is still there.
Forward(v) == /\ ring!Lap(head[v]) <= ring!Lap(head'[v]) /\ ring!Lap(tail[v]) <= ring!Lap(tail'[v])
              /\ head'[v] = head[v] =>
                   \A d \in ring!Lap(head[v]) .. ring!Lap(tail[v]) - 1 : ring!Cell(v, d)' = ring!Cell(v, d)

\* The distances of a worker's indices.
LEMMA Laps ==
    ASSUME ring!TypeOK, NEW w \in Owners
    PROVE  /\ head[w] \in ring!Indices /\ ring!Lap(head[w]) \in Nat /\ ring!Lap(head[w]) < IndexMod
           /\ tail[w] \in ring!Indices /\ ring!Lap(tail[w]) \in Nat /\ ring!Lap(tail[w]) < IndexMod
           /\ h[w] \in ring!Indices /\ ring!Lap(h[w]) \in Nat /\ ring!Lap(h[w]) < IndexMod
           /\ t[w] \in ring!Indices /\ ring!Lap(t[w]) \in Nat /\ ring!Lap(t[w]) < IndexMod
           /\ want[w] \in 0 .. RingCapacity
  <1>1. /\ head[w] \in ring!Indices /\ tail[w] \in ring!Indices
        /\ h[w] \in ring!Indices /\ t[w] \in ring!Indices /\ want[w] \in 0 .. RingCapacity
    BY DEF ring!TypeOK
  <1> QED
    BY <1>1, LapIs

\* The same four distances, to be named in a proof.
LEMMA LapValues ==
    ASSUME ring!TypeOK, NEW w \in Owners
    PROVE  \E a \in Nat, b \in Nat, c \in Nat, d \in Nat :
             a = ring!Lap(head[w]) /\ b = ring!Lap(tail[w]) /\ c = ring!Lap(h[w]) /\ d = ring!Lap(t[w])
  BY Laps, Zenon

\* The same after a step.
LEMMA LapsNext ==
    ASSUME ring!TypeOK', NEW w \in Owners
    PROVE  /\ head'[w] \in ring!Indices /\ ring!Lap(head'[w]) \in Nat
           /\ tail'[w] \in ring!Indices /\ ring!Lap(tail'[w]) \in Nat
           /\ h'[w] \in ring!Indices /\ ring!Lap(h'[w]) \in Nat
           /\ t'[w] \in ring!Indices /\ ring!Lap(t'[w]) \in Nat
  <1>1. /\ head'[w] \in ring!Indices /\ tail'[w] \in ring!Indices
        /\ h'[w] \in ring!Indices /\ t'[w] \in ring!Indices
    BY DEF ring!TypeOK
  <1> QED
    BY <1>1, LapIs

\* A thief's copies stay exact while its victim goes on.
LEMMA CopiesStay ==
    ASSUME ring!TypeOK, ring!TypeOK', NEW v \in Owners, Same(v), ring!CopiesExact(v), ring!LocalsExact(v),
           \A u \in Owners : ring!Lap(head[u]) <= ring!Lap(tail[u]) /\ Forward(u)
    PROVE  ring!CopiesExact(v)'
  <1>1. CASE ringPc[v] \notin {"head", "tail", "copy"}
    BY <1>1 DEF Same, ring!CopiesExact
  <1>2. CASE ringPc[v] \in {"head", "tail", "copy"}
    <2>1. PICK u \in Owners \ {v} : victim[v] = u
      BY <1>2 DEF ring!CopiesExact
    <2>2. ring!Lap(h[v]) <= ring!Lap(head[u]) => ring!Lap(h'[v]) <= ring!Lap(head'[u])
      BY Laps, LapsNext DEF Same, Forward
    <2>3. ASSUME ringPc[v] = "copy", head'[u] = h[v]
          PROVE  /\ ring!Lap(h[v]) + want[v] <= ring!Lap(tail'[u])
                 /\ \A k \in 0 .. ring!Lap(t[v]) - ring!Lap(tail[v]) - 1 :
                      ring!Cell(v, ring!Lap(tail[v]) + k)' = ring!Cell(u, ring!Lap(h[v]) + k)'
      <3>1. ring!Lap(h[v]) <= ring!Lap(head[u])
        BY <2>1, <2>3 DEF ring!CopiesExact
      <3>2. ring!Lap(head[u]) = ring!Lap(h[v])
        BY <2>3, <3>1, Laps, LapsNext DEF Forward
      <3>3. head[u] = h[v]
        BY <3>2, Laps, LapTells
      <3>4. /\ 0 < want[v] /\ ring!Lap(t[v]) <= ring!Lap(tail[v]) + want[v]
            /\ ring!Lap(h[v]) + want[v] <= ring!Lap(tail[u])
            /\ \A k \in 0 .. ring!Lap(t[v]) - ring!Lap(tail[v]) - 1 :
                 ring!Cell(v, ring!Lap(tail[v]) + k) = ring!Cell(u, ring!Lap(h[v]) + k)
        BY <2>1, <2>3, <3>3 DEF ring!CopiesExact
      <3>5. ring!Lap(tail[u]) <= ring!Lap(tail'[u])
        BY DEF Forward
      <3>6. \A d \in ring!Lap(head[u]) .. ring!Lap(tail[u]) - 1 : ring!Cell(u, d)' = ring!Cell(u, d)
        BY <2>3, <3>3 DEF Forward
      <3>7. ASSUME NEW k \in 0 .. ring!Lap(t[v]) - ring!Lap(tail[v]) - 1
            PROVE  ring!Cell(v, ring!Lap(tail[v]) + k)' = ring!Cell(u, ring!Lap(h[v]) + k)'
        <4>1. tail'[v] = tail[v] /\ h'[v] = h[v] /\ array'[v] = array[v]
          BY DEF Same
        <4>2. PICK a \in Int, e \in Int : a = ring!Lap(tail[v]) + k /\ e = ring!Lap(h[v]) + k
          BY Laps
        <4>3. e \in ring!Lap(head[u]) .. ring!Lap(tail[u]) - 1
          BY <3>2, <3>4, <4>2, Laps
        <4>4. ring!Cell(v, a)' = ring!Cell(v, a) /\ ring!Cell(u, e)' = ring!Cell(u, e)
          BY <3>6, <4>1, <4>3 DEF ring!Cell
        <4>5. ring!Cell(v, a) = ring!Cell(u, e)
          BY <3>4, <4>2
        <4> QED
          BY <4>1, <4>2, <4>4, <4>5
      <3>8. ring!Lap(h[v]) + want[v] <= ring!Lap(tail'[u])
        BY <3>4, <3>5, Laps, LapsNext
      <3> QED
        BY <3>7, <3>8
    <2> QED
      BY <1>2, <2>1, <2>2, <2>3 DEF Same, ring!CopiesExact
  <1> QED
    BY <1>1, <1>2

\* A ring that is untouched goes on.
LEMMA SameForward ==
    ASSUME ring!TypeOK, NEW v \in Owners, Same(v)
    PROVE  Forward(v)
  <1>1. head'[v] = head[v] /\ tail'[v] = tail[v] /\ array'[v] = array[v]
    BY DEF Same
  <1>2. \A d : ring!Cell(v, d)' = ring!Cell(v, d)
    BY <1>1 DEF ring!Cell
  <1> QED
    BY <1>1, <1>2, Laps DEF Forward

\* When the nodes of one worker, the queue and the nodes at rest change hands among
\* themselves, the invariant holds if it holds of that worker.
LEMMA OneMoves ==
    ASSUME ring!IInv, ring!TypeOK', NEW w \in Owners, \A v \in Owners \ {w} : Same(v),
           Forward(w), ring!LocalsExact(w)', ring!CopiesExact(w)', ring!HeldOnce(w)',
           (ring!Held(w)' \cup nodes' \cup unscheduled') = ring!Held(w) \cup nodes \cup unscheduled,
           ring!Held(w)' \cap (nodes' \cup unscheduled') = {}, nodes' \cap unscheduled' = {}
    PROVE  ring!IInv'
  <1>1. /\ ring!TypeOK /\ ring!Partition
        /\ \A v \in Owners : ring!LocalsExact(v) /\ ring!CopiesExact(v) /\ ring!HeldOnce(v)
    BY DEF ring!IInv
  <1>2. \A u \in Owners : Forward(u)
    BY <1>1, SameForward
  <1>3. \A u \in Owners : ring!Lap(head[u]) <= ring!Lap(tail[u])
    BY <1>1 DEF ring!LocalsExact
  <1>4. ASSUME NEW v \in Owners
        PROVE  ring!LocalsExact(v)' /\ ring!CopiesExact(v)' /\ ring!HeldOnce(v)'
    <2>1. CASE v = w
      BY <2>1
    <2>2. CASE v # w
      BY <1>1, <1>2, <1>3, <2>2, SameKeeps, CopiesStay
    <2> QED
      BY <2>1, <2>2
  <1>5. \A v \in Owners \ {w} : ring!Held(v)' = ring!Held(v)
    BY SameKeeps
  <1>6. /\ nodes \cap unscheduled = {}
        /\ \A v \in Owners : ring!Held(v) \cap (nodes \cup unscheduled) = {}
        /\ \A v, u \in Owners : v # u => ring!Held(v) \cap ring!Held(u) = {}
        /\ Nodes = nodes \cup unscheduled \cup UNION {ring!Held(v) : v \in Owners}
    BY <1>1 DEF ring!Partition
  <1>7. \A v \in Owners : ring!Held(v)' \cap (nodes' \cup unscheduled') = {}
    BY <1>5, <1>6
  <1>8. \A v, u \in Owners : v # u => ring!Held(v)' \cap ring!Held(u)' = {}
    <2>1. \A v \in Owners : v # w => ring!Held(v)' \cap ring!Held(w)' = {}
      BY <1>5, <1>6
    <2> QED
      BY <1>5, <1>6, <2>1
  <1>9. Nodes = (nodes' \cup unscheduled') \cup UNION {ring!Held(v)' : v \in Owners}
    <2>1. UNION {ring!Held(v) : v \in Owners}
          = ring!Held(w) \cup UNION {ring!Held(v) : v \in Owners \ {w}}
      OBVIOUS
    <2>2. UNION {ring!Held(v)' : v \in Owners}
          = ring!Held(w)' \cup UNION {ring!Held(v)' : v \in Owners \ {w}}
      OBVIOUS
    <2>3. UNION {ring!Held(v)' : v \in Owners \ {w}} = UNION {ring!Held(v) : v \in Owners \ {w}}
      BY <1>5
    <2> QED
      BY <1>6, <2>1, <2>2, <2>3
  <1>10. ring!Partition'
    BY <1>7, <1>8, <1>9 DEF ring!Partition
  <1> QED
    BY <1>4, <1>10 DEF ring!IInv

\* What a worker that takes part in a step has, and a step that moves no node of it.
LEMMA WorkerHas ==
    ASSUME ring!IInv, NEW w \in Owners
    PROVE  /\ ring!TypeOK /\ ring!LocalsExact(w) /\ ring!CopiesExact(w) /\ ring!HeldOnce(w)
           /\ ring!Held(w) \cap (nodes \cup unscheduled) = {} /\ nodes \cap unscheduled = {}
           /\ ring!Lap(head[w]) <= ring!Lap(tail[w]) /\ ring!Lap(tail[w]) <= ring!Lap(head[w]) + RingCapacity
  BY DEF ring!IInv, ring!Partition, ring!LocalsExact

\* A step of a worker that moves no node need only keep its own local copies exact.
LEMMA NoneMoves ==
    ASSUME ring!IInv, ring!TypeOK', NEW w \in Owners, \A v \in Owners \ {w} : Same(v),
           nodes' = nodes, unscheduled' = unscheduled, head'[w] = head[w], array'[w] = array[w],
           list'[w] = list[w], hand'[w] = hand[w], ring!End(w)' = ring!End(w),
           ring!Lap(tail[w]) <= ring!Lap(tail'[w]), ring!LocalsExact(w)', ring!CopiesExact(w)'
    PROVE  ring!IInv'
  <1>1. ring!Live(w)' = ring!Live(w) /\ \A d : ring!Cell(w, d)' = ring!Cell(w, d)
    BY DEF ring!Live, ring!Cell
  <1>2. ring!InRing(w)' = ring!InRing(w) /\ ring!InList(w)' = ring!InList(w)
    BY <1>1 DEF ring!InRing, ring!InList
  <1>3. ring!Held(w)' = ring!Held(w)
    BY <1>2 DEF ring!Held
  <1>4. ring!HeldOnce(w)'
    BY <1>1, <1>2, <1>3, WorkerHas DEF ring!HeldOnce
  <1>5. Forward(w)
    BY <1>1, WorkerHas, Laps DEF Forward
  <1> QED
    BY <1>3, <1>4, <1>5, WorkerHas, OneMoves

-----------------------------------------------------------------------------
(* Steps that move no node *)

\* The value to which a call's locals are reset.
LEMMA Zero == 0 \in ring!Indices /\ 0 \in 0 .. RingCapacity
  BY BufferConstants DEF ring!Indices

\* What Goto() and Return() do.
LEMMA GotoIs ==
    ASSUME ring!TypeOK, NEW w \in Owners, NEW l \in ring!Labels, ring!Goto(w, l)
    PROVE  /\ ringPc' \in [Owners -> ring!Labels] /\ ringPc'[w] = l
           /\ \A v \in Owners \ {w} : ringPc'[v] = ringPc[v]
  BY DEF ring!TypeOK, ring!Goto

\* What Return() does to the worker and to the others.
LEMMA ReturnIs ==
    ASSUME ring!TypeOK, NEW w \in Owners, NEW l \in ring!Labels, ring!Return(w, l)
    PROVE  /\ ringPc' \in [Owners -> ring!Labels] /\ list' \in [Owners -> Seq(Nodes)]
           /\ h' \in [Owners -> ring!Indices] /\ t' \in [Owners -> ring!Indices]
           /\ want' \in [Owners -> 0 .. RingCapacity] /\ victim' \in [Owners -> Owners \cup {None}]
           /\ hand' \in [Owners -> Nodes \cup {None}]
           /\ ringPc'[w] = l /\ list'[w] = <<>> /\ hand'[w] = None
           /\ \A v \in Owners \ {w} :
                /\ ringPc'[v] = ringPc[v] /\ list'[v] = list[v] /\ h'[v] = h[v] /\ t'[v] = t[v]
                /\ want'[v] = want[v] /\ victim'[v] = victim[v] /\ hand'[v] = hand[v]
  <1>1. ringPc' \in [Owners -> ring!Labels] /\ ringPc'[w] = l
        /\ \A v \in Owners \ {w} : ringPc'[v] = ringPc[v]
    BY GotoIs DEF ring!Return
  <1>2. list' \in [Owners -> Seq(Nodes)] /\ list'[w] = <<>> /\ \A v \in Owners \ {w} : list'[v] = list[v]
    BY DEF ring!TypeOK, ring!Return
  <1>3. /\ h' \in [Owners -> ring!Indices] /\ t' \in [Owners -> ring!Indices]
        /\ want' \in [Owners -> 0 .. RingCapacity]
        /\ \A v \in Owners \ {w} : h'[v] = h[v] /\ t'[v] = t[v] /\ want'[v] = want[v]
    BY Zero DEF ring!TypeOK, ring!Return
  <1>4. /\ victim' \in [Owners -> Owners \cup {None}] /\ hand' \in [Owners -> Nodes \cup {None}]
        /\ hand'[w] = None
        /\ \A v \in Owners \ {w} : victim'[v] = victim[v] /\ hand'[v] = hand[v]
    BY DEF ring!TypeOK, ring!Return
  <1> QED
    BY <1>1, <1>2, <1>3, <1>4

\* A push that did not fit looks at the head again.
LEMMA PushReloadKeeps ==
    ASSUME ring!IInv, NEW w \in Owners, ring!PushReload(w)
    PROVE  ring!IInv'
  <1>1. ring!TypeOK /\ ring!LocalsExact(w) /\ ring!CopiesExact(w)
    BY WorkerHas
  <1>2. ring!TypeOK'
    BY <1>1, Zero DEF ring!TypeOK, ring!Labels, ring!PushReload, ring!Goto, ring!rings, ring!locals
  <1>3. \A v \in Owners \ {w} : Same(v)
    BY <1>1 DEF ring!TypeOK, Same, ring!PushReload, ring!Goto, ring!rings, ring!locals
  <1>4. /\ nodes' = nodes /\ unscheduled' = unscheduled /\ head'[w] = head[w] /\ array'[w] = array[w]
        /\ hand'[w] = hand[w]
        /\ ringPc[w] = "reload" /\ ringPc'[w] = "push" /\ h'[w] = head[w]
        /\ tail'[w] = tail[w] /\ t'[w] = t[w] /\ list'[w] = list[w]
    BY <1>1 DEF ring!TypeOK, ring!PushReload, ring!Goto, ring!rings, ring!locals
  <1>5. ring!LocalsExact(w)'
    BY <1>1, <1>4, Laps DEF ring!LocalsExact
  <1>6. ring!CopiesExact(w)'
    BY <1>1, <1>4 DEF ring!CopiesExact
  <1>7. ring!End(w)' = ring!End(w)
    BY <1>1, <1>4 DEF ring!LocalsExact, ring!End
  <1>8. ring!Lap(tail[w]) <= ring!Lap(tail'[w])
    BY <1>1, <1>4, Laps
  <1> QED
    BY <1>2, <1>3, <1>4, <1>5, <1>6, <1>7, <1>8, NoneMoves

\* pop() looks at the head.
LEMMA PopLoadKeeps ==
    ASSUME ring!IInv, NEW w \in Owners, ring!PopLoad(w)
    PROVE  ring!IInv'
  <1>1. ring!TypeOK /\ ring!LocalsExact(w) /\ ring!CopiesExact(w)
    BY WorkerHas
  <1>2. ring!TypeOK'
    BY <1>1, Zero DEF ring!TypeOK, ring!Labels, ring!PopLoad, ring!Goto, ring!rings, ring!locals
  <1>3. \A v \in Owners \ {w} : Same(v)
    BY <1>1 DEF ring!TypeOK, Same, ring!PopLoad, ring!Goto, ring!rings, ring!locals
  <1>4. /\ nodes' = nodes /\ unscheduled' = unscheduled /\ head'[w] = head[w] /\ array'[w] = array[w]
        /\ hand'[w] = hand[w]
        /\ ringPc[w] = "run" /\ ringPc'[w] = "pop" /\ h'[w] = head[w]
        /\ tail'[w] = tail[w] /\ t'[w] = t[w] /\ list'[w] = list[w]
    BY <1>1 DEF ring!TypeOK, ring!PopLoad, ring!Goto, ring!rings, ring!locals
  <1>5. ring!LocalsExact(w)'
    BY <1>1, <1>4, Laps DEF ring!LocalsExact
  <1>6. ring!CopiesExact(w)'
    BY <1>1, <1>4 DEF ring!CopiesExact
  <1>7. ring!End(w)' = ring!End(w)
    BY <1>1, <1>4 DEF ring!LocalsExact, ring!End
  <1>8. ring!Lap(tail[w]) <= ring!Lap(tail'[w])
    BY <1>1, <1>4, Laps
  <1> QED
    BY <1>2, <1>3, <1>4, <1>5, <1>6, <1>7, <1>8, NoneMoves

\* consume() has filled the ring or emptied the queue.
LEMMA ConsumeStopKeeps ==
    ASSUME ring!IInv, NEW w \in Owners, ring!ConsumeStop(w)
    PROVE  ring!IInv'
  <1>1. ring!TypeOK /\ ring!LocalsExact(w) /\ ring!CopiesExact(w)
    BY WorkerHas
  <1>2. ring!TypeOK'
    BY <1>1, Zero DEF ring!TypeOK, ring!Labels, ring!ConsumeStop, ring!Goto, ring!rings, ring!locals
  <1>3. \A v \in Owners \ {w} : Same(v)
    BY <1>1 DEF ring!TypeOK, Same, ring!ConsumeStop, ring!Goto, ring!rings, ring!locals
  <1>4. /\ nodes' = nodes /\ unscheduled' = unscheduled /\ head'[w] = head[w] /\ array'[w] = array[w]
        /\ hand'[w] = hand[w]
        /\ ringPc[w] = "consume" /\ ringPc'[w] = "extra" /\ h'[w] = h[w]
        /\ tail'[w] = tail[w] /\ t'[w] = t[w] /\ list'[w] = list[w]
    BY <1>1 DEF ring!TypeOK, ring!ConsumeStop, ring!Goto, ring!rings, ring!locals
  <1>5. ring!LocalsExact(w)'
    BY <1>1, <1>4, Laps DEF ring!LocalsExact
  <1>6. ring!CopiesExact(w)'
    BY <1>1, <1>4 DEF ring!CopiesExact
  <1>7. ring!End(w)' = ring!End(w)
    BY <1>1, <1>4 DEF ring!LocalsExact, ring!End
  <1>8. ring!Lap(tail[w]) <= ring!Lap(tail'[w])
    BY <1>1, <1>4, Laps
  <1> QED
    BY <1>2, <1>3, <1>4, <1>5, <1>6, <1>7, <1>8, NoneMoves

\* consume() begins where the tail is.
LEMMA ConsumeAcquireKeeps ==
    ASSUME ring!IInv, NEW w \in Owners, ring!ConsumeAcquire(w)
    PROVE  ring!IInv'
  <1>1. ring!TypeOK /\ ring!LocalsExact(w) /\ ring!CopiesExact(w)
    BY WorkerHas
  <1>2. ring!TypeOK'
    BY <1>1, Zero
    DEF ring!TypeOK, ring!Labels, ring!ConsumeAcquire, ring!Fresh, ring!Lap, ring!Goto, ring!rings, ring!locals
  <1>3. \A v \in Owners \ {w} : Same(v)
    BY <1>1 DEF ring!TypeOK, Same, ring!ConsumeAcquire, ring!Fresh, ring!Lap, ring!Goto, ring!rings, ring!locals
  <1>4. /\ nodes' = nodes /\ unscheduled' = unscheduled /\ head'[w] = head[w] /\ array'[w] = array[w]
        /\ hand'[w] = hand[w]
        /\ ringPc[w] = "seek" /\ ringPc'[w] = "consume" /\ h'[w] = h[w]
        /\ tail'[w] = tail[w] /\ t'[w] = tail[w] /\ list'[w] = list[w]
        /\ ring!Lap(tail[w]) <= MaxLap
    BY <1>1 DEF ring!TypeOK, ring!ConsumeAcquire, ring!Fresh, ring!Lap, ring!Goto, ring!rings, ring!locals
  <1>5. ring!LocalsExact(w)'
    BY <1>1, <1>4, Laps, BufferConstants DEF ring!LocalsExact
  <1>6. ring!CopiesExact(w)'
    BY <1>1, <1>4 DEF ring!CopiesExact
  <1>7. ring!End(w)' = ring!End(w)
    BY <1>1, <1>4 DEF ring!LocalsExact, ring!End
  <1>8. ring!Lap(tail[w]) <= ring!Lap(tail'[w])
    BY <1>1, <1>4, Laps
  <1> QED
    BY <1>2, <1>3, <1>4, <1>5, <1>6, <1>7, <1>8, NoneMoves

\* steal() of a victim.
LEMMA StealFromKeeps ==
    ASSUME ring!IInv, NEW w \in Owners, NEW u \in Owners, ring!StealFrom(w, u)
    PROVE  ring!IInv'
  <1>1. ring!TypeOK /\ ring!LocalsExact(w) /\ ring!CopiesExact(w)
    BY WorkerHas
  <1>2. ring!TypeOK'
    BY <1>1, Zero DEF ring!TypeOK, ring!Labels, ring!StealFrom, ring!Fresh, ring!Lap, ring!Goto, ring!rings, ring!locals
  <1>3. \A v \in Owners \ {w} : Same(v)
    BY <1>1 DEF ring!TypeOK, Same, ring!StealFrom, ring!Fresh, ring!Lap, ring!Goto, ring!rings, ring!locals
  <1>4. /\ nodes' = nodes /\ unscheduled' = unscheduled /\ head'[w] = head[w] /\ array'[w] = array[w]
        /\ hand'[w] = hand[w]
        /\ ringPc[w] = "seek" /\ ringPc'[w] = "head" /\ h'[w] = h[w]
        /\ tail'[w] = tail[w] /\ t'[w] = t[w] /\ list'[w] = list[w]
        /\ ring!Lap(tail[w]) <= MaxLap /\ victim'[w] \in Owners \ {w}
    BY <1>1 DEF ring!TypeOK, ring!StealFrom, ring!Fresh, ring!Lap, ring!Goto, ring!rings, ring!locals
  <1>5. ring!LocalsExact(w)'
    BY <1>1, <1>4, Laps DEF ring!LocalsExact
  <1>6. ring!CopiesExact(w)'
    BY <1>1, <1>4 DEF ring!CopiesExact
  <1>7. ring!End(w)' = ring!End(w)
    BY <1>1, <1>4 DEF ring!LocalsExact, ring!End
  <1>8. ring!Lap(tail[w]) <= ring!Lap(tail'[w])
    BY <1>1, <1>4, Laps
  <1> QED
    BY <1>2, <1>3, <1>4, <1>5, <1>6, <1>7, <1>8, NoneMoves

\* steal() looks at the victim's head.
LEMMA StealHeadKeeps ==
    ASSUME ring!IInv, NEW w \in Owners, ring!StealHead(w)
    PROVE  ring!IInv'
  <1>1. ring!TypeOK /\ ring!LocalsExact(w) /\ ring!CopiesExact(w)
    BY WorkerHas
  <1>2. ring!TypeOK'
    <2>1. victim[w] \in Owners
      BY <1>1 DEF ring!CopiesExact, ring!StealHead
    <2>2. head[victim[w]] \in ring!Indices /\ tail[w] \in ring!Indices
      BY <1>1, <2>1, Laps
    <2> QED
      BY <1>1, <2>2 DEF ring!TypeOK, ring!Labels, ring!StealHead, ring!Goto, ring!rings, ring!locals
  <1>3. \A v \in Owners \ {w} : Same(v)
    BY <1>1 DEF ring!TypeOK, Same, ring!StealHead, ring!Goto, ring!rings, ring!locals
  <1>4. /\ nodes' = nodes /\ unscheduled' = unscheduled /\ head'[w] = head[w] /\ array'[w] = array[w]
        /\ hand'[w] = hand[w]
        /\ ringPc[w] = "head" /\ ringPc'[w] = "tail" /\ h'[w] = head[victim[w]] /\ head' = head
        /\ tail'[w] = tail[w] /\ t'[w] = tail[w] /\ list'[w] = list[w] /\ victim'[w] = victim[w]
    BY <1>1 DEF ring!TypeOK, ring!StealHead, ring!Goto, ring!rings, ring!locals
  <1>5. ring!LocalsExact(w)'
    BY <1>1, <1>4, Laps DEF ring!LocalsExact
  <1>6. ring!CopiesExact(w)'
    BY <1>1, <1>4, Laps DEF ring!CopiesExact
  <1>7. ring!End(w)' = ring!End(w)
    BY <1>1, <1>4 DEF ring!LocalsExact, ring!End
  <1>8. ring!Lap(tail[w]) <= ring!Lap(tail'[w])
    BY <1>1, <1>4, Laps
  <1> QED
    BY <1>2, <1>3, <1>4, <1>5, <1>6, <1>7, <1>8, NoneMoves

\* A worker that found nothing is woken.
LEMMA WokenKeeps ==
    ASSUME ring!IInv, NEW w \in Owners, ring!Woken(w)
    PROVE  ring!IInv'
  <1>1. ring!TypeOK /\ ring!LocalsExact(w) /\ ring!CopiesExact(w)
    BY WorkerHas
  <1>2. ring!TypeOK'
    BY <1>1, Zero DEF ring!TypeOK, ring!Labels, ring!Woken, ring!Goto, ring!rings, ring!locals
  <1>3. \A v \in Owners \ {w} : Same(v)
    BY <1>1 DEF ring!TypeOK, Same, ring!Woken, ring!Goto, ring!rings, ring!locals
  <1>4. /\ nodes' = nodes /\ unscheduled' = unscheduled /\ head'[w] = head[w] /\ array'[w] = array[w]
        /\ hand'[w] = hand[w]
        /\ ringPc[w] = "seek" /\ ringPc'[w] = "run" /\ h'[w] = h[w]
        /\ tail'[w] = tail[w] /\ t'[w] = t[w] /\ list'[w] = list[w]
    BY <1>1 DEF ring!TypeOK, ring!Woken, ring!Goto, ring!rings, ring!locals
  <1>5. ring!LocalsExact(w)'
    BY <1>1, <1>4, Laps DEF ring!LocalsExact
  <1>6. ring!CopiesExact(w)'
    BY <1>1, <1>4 DEF ring!CopiesExact
  <1>7. ring!End(w)' = ring!End(w)
    BY <1>1, <1>4 DEF ring!LocalsExact, ring!End
  <1>8. ring!Lap(tail[w]) <= ring!Lap(tail'[w])
    BY <1>1, <1>4, Laps
  <1> QED
    BY <1>2, <1>3, <1>4, <1>5, <1>6, <1>7, <1>8, NoneMoves

\* pop() finds the ring empty.
LEMMA PopNoneKeeps ==
    ASSUME ring!IInv, NEW w \in Owners, ring!PopNone(w)
    PROVE  ring!IInv'
  <1>1. ring!TypeOK /\ ring!LocalsExact(w) /\ ring!CopiesExact(w)
    BY WorkerHas
  <1>2. ring!TypeOK'
    BY <1>1, Zero DEF ring!TypeOK, ring!Labels, ring!PopNone, ring!Return, ring!Goto, ring!rings, ring!locals
  <1>3. \A v \in Owners \ {w} : Same(v)
    BY <1>1 DEF ring!TypeOK, Same, ring!PopNone, ring!Return, ring!Goto, ring!rings, ring!locals
  <1>4. /\ nodes' = nodes /\ unscheduled' = unscheduled /\ head'[w] = head[w] /\ array'[w] = array[w]
        /\ hand'[w] = None /\ hand[w] = None
        /\ ringPc[w] = "pop" /\ ringPc'[w] = "seek" /\ h[w] = tail[w]
        /\ tail'[w] = tail[w] /\ list'[w] = <<>> /\ list[w] = <<>>
    BY <1>1 DEF ring!TypeOK, ring!LocalsExact, ring!PopNone, ring!Return, ring!Goto, ring!rings, ring!locals
  <1>5. ring!LocalsExact(w)'
    BY <1>1, <1>4, Laps, LapTells DEF ring!LocalsExact
  <1>6. ring!CopiesExact(w)'
    BY <1>1, <1>4 DEF ring!CopiesExact
  <1>7. ring!End(w)' = ring!End(w)
    BY <1>1, <1>4 DEF ring!LocalsExact, ring!End
  <1>8. ring!Lap(tail[w]) <= ring!Lap(tail'[w])
    BY <1>1, <1>4, Laps
  <1> QED
    BY <1>2, <1>3, <1>4, <1>5, <1>6, <1>7, <1>8, NoneMoves

\* push() publishes what it has stored.
LEMMA PushPublishKeeps ==
    ASSUME ring!IInv, NEW w \in Owners, ring!PushPublish(w)
    PROVE  ring!IInv'
  <1>1. ring!TypeOK /\ ring!LocalsExact(w) /\ ring!CopiesExact(w)
    BY WorkerHas
  <1>2. ring!TypeOK'
    <2>1. "run" \in ring!Labels /\ "reload" \in ring!Labels
      BY DEF ring!Labels
    <2>2. tail' \in [Owners -> ring!Indices]
      BY <1>1 DEF ring!TypeOK, ring!PushPublish
    <2>3. CASE ring!Return(w, "run")
      BY <1>1, <2>1, <2>2, <2>3, ReturnIs DEF ring!TypeOK, ring!PushPublish
    <2>4. CASE ring!Goto(w, "reload") /\ UNCHANGED ring!locals
      BY <1>1, <2>1, <2>2, <2>4, GotoIs DEF ring!TypeOK, ring!PushPublish, ring!locals
    <2> QED
      BY <2>3, <2>4 DEF ring!PushPublish
  <1>3. \A v \in Owners \ {w} : Same(v)
    BY <1>1 DEF ring!TypeOK, Same, ring!PushPublish, ring!Return, ring!Goto, ring!locals
  <1>4. /\ nodes' = nodes /\ unscheduled' = unscheduled /\ head'[w] = head[w] /\ array'[w] = array[w]
        /\ ringPc[w] = "push" /\ tail'[w] = t[w]
    BY <1>1 DEF ring!TypeOK, ring!PushPublish
  <1>5. \/ list[w] = <<>> /\ ringPc'[w] = "run" /\ list'[w] = <<>> /\ hand'[w] = None
        \/ ringPc'[w] = "reload" /\ list'[w] = list[w] /\ t'[w] = t[w] /\ hand'[w] = hand[w]
    BY <1>1 DEF ring!TypeOK, ring!PushPublish, ring!Return, ring!Goto, ring!locals
  <1>6. /\ ring!Lap(h[w]) <= ring!Lap(head[w]) /\ ring!Lap(head[w]) <= ring!Lap(tail[w])
        /\ ring!Lap(tail[w]) <= ring!Lap(t[w]) /\ ring!Lap(t[w]) <= ring!Lap(h[w]) + RingCapacity
        /\ ring!Lap(t[w]) + Len(list[w]) <= MaxLap + MaxList /\ hand[w] = None
    BY <1>1, <1>4 DEF ring!LocalsExact
  <1>7. ring!Lap(head[w]) <= ring!Lap(t[w]) /\ ring!Lap(t[w]) <= ring!Lap(head[w]) + RingCapacity
    BY <1>1, <1>6, Laps, BufferConstants
  <1>8. list'[w] = list[w] /\ hand'[w] = hand[w]
    BY <1>5, <1>6
  <1>9. ring!LocalsExact(w)'
    BY <1>4, <1>5, <1>6, <1>7, <1>8 DEF ring!LocalsExact
  <1>10. ring!CopiesExact(w)'
    BY <1>5 DEF ring!CopiesExact
  <1>11. ring!End(w)' = ring!End(w)
    BY <1>4, <1>5 DEF ring!End
  <1>12. ring!Lap(tail[w]) <= ring!Lap(tail'[w])
    BY <1>4, <1>6
  <1> QED
    BY <1>2, <1>3, <1>4, <1>8, <1>9, <1>10, <1>11, <1>12, NoneMoves

\* What a thief that looks at its victim's tail sees.
LEMMA SeenIs ==
    ASSUME ring!IInv, NEW w \in Owners, ringPc[w] = "tail"
    PROVE  /\ victim[w] \in Owners \ {w} /\ t[w] = tail[w] /\ head[w] = tail[w]
           /\ ring!Lap(tail[w]) <= MaxLap
           /\ ring!Lap(h[w]) <= ring!Lap(head[victim[w]])
           /\ ring!Lap(head[victim[w]]) <= ring!Lap(tail[victim[w]])
           /\ ring!Seen(w) \in Nat
           /\ ring!Seen(w) = ring!Lap(tail[victim[w]]) - ring!Lap(h[w])
  <1>1. ring!TypeOK /\ ring!LocalsExact(w) /\ ring!CopiesExact(w)
    BY WorkerHas
  <1>2. PICK v \in Owners \ {w} : v = victim[w]
    BY <1>1 DEF ring!CopiesExact
  <1>3. /\ t[w] = tail[w] /\ head[w] = tail[w] /\ ring!Lap(tail[w]) <= MaxLap
        /\ ring!Lap(h[w]) <= ring!Lap(head[v])
    BY <1>1, <1>2 DEF ring!CopiesExact, ring!LocalsExact
  <1>4. ring!Lap(head[v]) <= ring!Lap(tail[v])
    BY WorkerHas
  <1>5. ring!Minus(tail[v], h[w]) = ring!Lap(tail[v]) - ring!Lap(h[w])
    BY <1>1, <1>3, <1>4, Laps, LapMinus
  <1> QED
    BY <1>1, <1>2, <1>3, <1>4, <1>5, Laps DEF ring!Seen

\* A thief takes half, rounded up.
LEMMA HalfIs ==
    ASSUME NEW k \in Nat
    PROVE  ring!StealSize(k) \in 0 .. k /\ (ring!StealSize(k) = 0 => k = 0)
  BY DEF ring!StealSize

\* steal() looks at the victim's tail.
LEMMA StealTailKeeps ==
    ASSUME ring!IInv, NEW w \in Owners, ring!StealTail(w)
    PROVE  ring!IInv'
  <1>1. ring!TypeOK /\ ring!LocalsExact(w) /\ ring!CopiesExact(w)
    BY WorkerHas
  <1>2. ringPc[w] = "tail" /\ list[w] = <<>> /\ hand[w] = None
    BY <1>1 DEF ring!StealTail, ring!LocalsExact
  <1>3. PICK v \in Owners \ {w} : v = victim[w]
    BY <1>2, SeenIs
  <1>4. PICK n \in Nat : n = ring!StealSize(ring!Seen(w)) /\ n <= ring!Seen(w)
    BY <1>2, SeenIs, HalfIs
  <1>5. ring!Fits(w) => n \in 0 .. RingCapacity
    BY <1>2, <1>4, SeenIs, BufferConstants DEF ring!Fits
  <1>6. ring!TypeOK'
    <2>1. "head" \in ring!Labels /\ "seek" \in ring!Labels /\ "copy" \in ring!Labels
      BY DEF ring!Labels
    <2>2. UNCHANGED <<head, tail, array, nodes, consumer, unscheduled>>
      BY DEF ring!StealTail, ring!rings
    <2>3. CASE ring!Goto(w, "head") /\ UNCHANGED ring!locals
      BY <1>1, <2>1, <2>2, <2>3, GotoIs DEF ring!TypeOK, ring!locals
    <2>4. CASE ring!Return(w, "seek")
      BY <1>1, <2>1, <2>2, <2>4, ReturnIs DEF ring!TypeOK
    <2>5. CASE ring!Fits(w) /\ want' = [want EXCEPT ![w] = ring!StealSize(ring!Seen(w))]
               /\ ring!Goto(w, "copy") /\ UNCHANGED <<list, h, t, victim, hand>>
      <3>1. want' \in [Owners -> 0 .. RingCapacity]
        BY <1>1, <1>4, <1>5, <2>5 DEF ring!TypeOK
      <3> QED
        BY <1>1, <2>1, <2>2, <2>5, <3>1, GotoIs DEF ring!TypeOK
    <2> QED
      BY <2>3, <2>4, <2>5 DEF ring!StealTail
  <1>7. \A u \in Owners \ {w} : Same(u)
    BY <1>1 DEF ring!TypeOK, Same, ring!StealTail, ring!Return, ring!Goto, ring!rings, ring!locals
  <1>8. /\ nodes' = nodes /\ unscheduled' = unscheduled /\ head' = head /\ tail' = tail /\ array' = array
        /\ list'[w] = <<>> /\ hand'[w] = None
    BY <1>1, <1>2 DEF ring!TypeOK, ring!StealTail, ring!Return, ring!Goto, ring!rings, ring!locals
  <1>9. \/ ringPc'[w] = "head" /\ victim'[w] = v
        \/ ringPc'[w] = "seek"
        \/ /\ ringPc'[w] = "copy" /\ victim'[w] = v /\ h'[w] = h[w] /\ t'[w] = t[w] /\ want'[w] = n /\ n > 0
           /\ n <= RingCapacity
    BY <1>1, <1>3, <1>4, <1>5, Zero DEF ring!TypeOK, ring!StealTail, ring!Return, ring!Goto, ring!locals
  <1>10. ring!LocalsExact(w)'
    <2>1. ring!Lap(tail[w]) <= ring!Lap(tail[w]) + RingCapacity
      BY <1>1, Laps, BufferConstants
    <2> QED
      BY <1>1, <1>2, <1>8, <1>9, <2>1, SeenIs DEF ring!LocalsExact
  <1>11. ring!CopiesExact(w)'
    <2>1. CASE ringPc'[w] # "copy"
      BY <1>3, <1>9, <2>1 DEF ring!CopiesExact
    <2>2. CASE ringPc'[w] = "copy"
      <3>1. /\ ringPc'[w] = "copy" /\ victim'[w] = v /\ h'[w] = h[w] /\ t'[w] = tail[w] /\ want'[w] = n
            /\ 0 < n /\ n <= ring!Lap(tail[v]) - ring!Lap(h[w]) /\ ring!Lap(h[w]) <= ring!Lap(head[v])
        BY <1>2, <1>3, <1>4, <1>9, <2>2, SeenIs
      <3>2. ring!Lap(tail[w]) <= ring!Lap(tail[w]) + n /\ ring!Lap(h[w]) + n <= ring!Lap(tail[v])
        BY <1>1, <3>1, Laps
      <3>3. 0 .. ring!Lap(tail[w]) - ring!Lap(tail[w]) - 1 = {}
        BY <1>1, Laps
      <3> QED
        BY <1>8, <3>1, <3>2, <3>3 DEF ring!CopiesExact
    <2> QED
      BY <2>1, <2>2
  <1>12. ring!End(w)' = ring!End(w)
    BY <1>2, <1>8, <1>9 DEF ring!End
  <1>13. ring!Lap(tail[w]) <= ring!Lap(tail'[w])
    BY <1>1, <1>8, Laps
  <1> QED
    BY <1>2, <1>6, <1>7, <1>8, <1>10, <1>11, <1>12, <1>13, NoneMoves

-----------------------------------------------------------------------------
(* Steps that move a node *)

\* One more cell, with a node that the ring did not have; one cell less.
LEMMA RingGrows ==
    ASSUME NEW w \in Owners, ring!HeldOnce(w), NEW d \in Int, NEW x,
           ring!Live(w)' = ring!Live(w) \cup {d}, d \notin ring!Live(w), ring!Cell(w, d)' = x,
           \A e \in ring!Live(w) : ring!Cell(w, e)' = ring!Cell(w, e), x \notin ring!InRing(w)
    PROVE  /\ ring!InRing(w)' = ring!InRing(w) \cup {x}
           /\ \A e, f \in ring!Live(w)' : ring!Cell(w, e)' = ring!Cell(w, f)' => e = f
  <1>1. ring!InRing(w)' = ring!InRing(w) \cup {x}
    BY DEF ring!InRing
  <1>2. \A e \in ring!Live(w) : ring!Cell(w, e)' # x
    BY DEF ring!InRing
  <1>3. \A e, f \in ring!Live(w) : ring!Cell(w, e) = ring!Cell(w, f) => e = f
    BY DEF ring!HeldOnce
  <1>4. \A e, f \in ring!Live(w) : ring!Cell(w, e)' = ring!Cell(w, f)' => e = f
    BY <1>3
  <1> QED
    BY <1>1, <1>2, <1>4

\* A ring that loses the node at one end keeps the others.
LEMMA RingShrinks ==
    ASSUME NEW w \in Owners, ring!HeldOnce(w), NEW d \in ring!Live(w), NEW x, x = ring!Cell(w, d),
           ring!Live(w)' = ring!Live(w) \ {d},
           \A e \in ring!Live(w) : ring!Cell(w, e)' = ring!Cell(w, e)
    PROVE  /\ ring!InRing(w)' = ring!InRing(w) \ {x} /\ x \in ring!InRing(w)
           /\ \A e, f \in ring!Live(w)' : ring!Cell(w, e)' = ring!Cell(w, f)' => e = f
  <1>1. \A e, f \in ring!Live(w) : ring!Cell(w, e) = ring!Cell(w, f) => e = f
    BY DEF ring!HeldOnce
  <1>2. ring!InRing(w)' = {ring!Cell(w, e) : e \in ring!Live(w) \ {d}}
    BY DEF ring!InRing
  <1>3. ring!InRing(w) = {ring!Cell(w, e) : e \in ring!Live(w)}
    BY DEF ring!InRing
  <1>4. \A e \in ring!Live(w) \ {d} : ring!Cell(w, e) # x
    BY <1>1
  <1>5. ring!InRing(w)' = ring!InRing(w) \ {x} /\ x \in ring!InRing(w)
    BY <1>2, <1>3, <1>4
  <1>6. \A e, f \in ring!Live(w)' : ring!Cell(w, e)' = ring!Cell(w, f)' => e = f
    BY <1>1
  <1> QED
    BY <1>5, <1>6

\* What a worker has outside a push and outside the end of a consume().
LEMMA RingOnly ==
    ASSUME NEW w \in Owners, list[w] = <<>>, hand[w] = None
    PROVE  ring!Held(w) = ring!InRing(w) /\ ring!InList(w) = {}
  <1>1. ring!InList(w) = {}
    BY DEF ring!InList
  <1> QED
    BY <1>1 DEF ring!Held

\* What a worker holds are nodes; an empty hand is not one.
LEMMA HandFree ==
    ASSUME ring!IInv, NEW w \in Owners
    PROVE  /\ None \notin ring!Held(w) /\ ring!Held(w) \subseteq Nodes
           /\ ring!InRing(w) \subseteq ring!Held(w) /\ ring!InList(w) \subseteq ring!Held(w)
           /\ None \notin ring!InRing(w) /\ None \notin ring!InList(w)
  <1>1. ring!Held(w) \subseteq Nodes
    BY WorkerHas DEF ring!HeldOnce
  <1> QED
    BY <1>1, BufferConstants DEF ring!Held

\* schedule() from outside.
LEMMA ScheduleKeeps ==
    ASSUME ring!IInv, ring!Schedule
    PROVE  ring!IInv'
  <1>1. PICK X \in SUBSET unscheduled : nodes' = nodes \cup X /\ unscheduled' = unscheduled \ X
    BY DEF ring!Schedule
  <1>2. UNCHANGED <<head, tail, array, consumer, ringPc, list, h, t, victim, want, hand>>
    BY DEF ring!Schedule, ring!rings, ring!locals
  <1>3. ring!TypeOK'
    BY <1>1, <1>2 DEF ring!IInv, ring!TypeOK
  <1>4. \A v \in Owners : Same(v)
    BY <1>2 DEF Same
  <1>5. /\ ring!TypeOK /\ ring!Partition
        /\ \A v \in Owners : ring!LocalsExact(v) /\ ring!CopiesExact(v) /\ ring!HeldOnce(v)
    BY DEF ring!IInv
  <1>6. \A v \in Owners : /\ ring!LocalsExact(v)' /\ ring!HeldOnce(v)' /\ ring!Held(v)' = ring!Held(v)
                         /\ Forward(v) /\ ring!Lap(head[v]) <= ring!Lap(tail[v])
    BY <1>4, <1>5, SameKeeps, SameForward, WorkerHas
  <1>7. \A v \in Owners : ring!CopiesExact(v)'
    BY <1>3, <1>4, <1>5, <1>6, CopiesStay
  <1>8. ring!Partition'
    <2>1. /\ nodes' \cap unscheduled' = {}
          /\ (nodes' \cup unscheduled') = nodes \cup unscheduled
      BY <1>1, <1>5 DEF ring!Partition
    <2>2. UNION {ring!Held(v)' : v \in Owners} = UNION {ring!Held(v) : v \in Owners}
      BY <1>6
    <2> QED
      BY <1>5, <1>6, <2>1, <2>2 DEF ring!Partition
  <1> QED
    BY <1>3, <1>6, <1>7, <1>8 DEF ring!IInv

\* push() takes the list that a task schedules.
LEMMA PushLoadKeeps ==
    ASSUME ring!IInv, NEW w \in Owners, ring!PushLoad(w)
    PROVE  ring!IInv'
  <1>1. ring!TypeOK /\ ring!LocalsExact(w) /\ ring!CopiesExact(w) /\ ring!HeldOnce(w)
    BY WorkerHas
  <1>2. PICK k \in 1 .. MaxList : \E l \in [1 .. k -> unscheduled] :
          /\ \A i, j \in 1 .. k : i # j => l[i] # l[j]
          /\ list' = [list EXCEPT ![w] = l]
          /\ unscheduled' = unscheduled \ {l[i] : i \in 1 .. k}
    BY DEF ring!PushLoad
  <1>3. PICK l \in [1 .. k -> unscheduled] :
          /\ \A i, j \in 1 .. k : i # j => l[i] # l[j]
          /\ list' = [list EXCEPT ![w] = l]
          /\ unscheduled' = unscheduled \ {l[i] : i \in 1 .. k}
    BY <1>2
  <1>4. /\ k \in Nat /\ k <= MaxList /\ l \in Seq(Nodes) /\ DOMAIN l = 1 .. k /\ Len(l) = k
    <2>1. k \in Nat /\ k <= MaxList
      BY BufferConstants
    <2>2. l \in [1 .. k -> Nodes] /\ DOMAIN l = 1 .. k
      BY <1>1, <1>3 DEF ring!TypeOK
    <2>3. l \in Seq(Nodes)
      BY <2>1, <2>2
    <2>4. Len(l) = k
      BY <2>1, <2>2, <2>3
    <2> QED
      BY <2>1, <2>2, <2>3, <2>4
  <1>5. "push" \in ring!Labels /\ ring!Goto(w, "push")
    BY DEF ring!Labels, ring!PushLoad
  <1>6. ring!TypeOK'
    <2>1. list' \in [Owners -> Seq(Nodes)] /\ unscheduled' \subseteq Nodes
      BY <1>1, <1>3, <1>4 DEF ring!TypeOK
    <2> QED
      BY <1>1, <1>5, <2>1, GotoIs DEF ring!TypeOK, ring!PushLoad, ring!rings
  <1>7. /\ \A v \in Owners \ {w} : Same(v)
        /\ head'[w] = head[w] /\ tail'[w] = tail[w] /\ array'[w] = array[w] /\ hand'[w] = hand[w]
        /\ nodes' = nodes /\ list'[w] = l /\ h'[w] = head[w] /\ t'[w] = tail[w]
        /\ ringPc[w] = "run" /\ ringPc'[w] = "push"
    BY <1>1, <1>3, <1>5, GotoIs DEF ring!TypeOK, Same, ring!PushLoad, ring!rings
  <1>8. list[w] = <<>> /\ hand[w] = None
    BY <1>1, <1>7 DEF ring!LocalsExact
  <1>9. ring!Lap(tail[w]) <= MaxLap
    BY DEF ring!PushLoad, ring!Fresh, ring!Lap
  <1>10. ring!LocalsExact(w)'
    <2>1. ring!Lap(tail[w]) + k <= MaxLap + MaxList
      BY <1>1, <1>4, <1>9, Laps, BufferConstants
    <2>2. ring!Lap(head[w]) <= ring!Lap(head[w])
      BY <1>1, Laps
    <2> QED
      BY <1>1, <1>4, <1>7, <1>8, <2>1, <2>2, Laps DEF ring!LocalsExact
  <1>11. ring!CopiesExact(w)'
    BY <1>7 DEF ring!CopiesExact
  <1>12. ring!Live(w)' = ring!Live(w) /\ \A d : ring!Cell(w, d)' = ring!Cell(w, d)
    BY <1>7 DEF ring!Live, ring!End, ring!Cell
  <1>13. Forward(w)
    BY <1>1, <1>7, <1>12, Laps DEF Forward
  <1>14. ring!InRing(w)' = ring!InRing(w)
    BY <1>12 DEF ring!InRing
  <1>15. PICK X : X = {l[i] : i \in 1 .. k}
    OBVIOUS
  <1>16. ring!InList(w)' = X
    BY <1>4, <1>7, <1>15 DEF ring!InList
  <1>17. X \subseteq unscheduled /\ unscheduled' = unscheduled \ X
    BY <1>3, <1>15
  <1>18. ring!Held(w) = ring!InRing(w) /\ ring!Held(w)' = ring!InRing(w) \cup X
    BY <1>7, <1>8, <1>14, <1>16, RingOnly DEF ring!Held
  <1>19. ring!Held(w) \cap (nodes \cup unscheduled) = {} /\ nodes \cap unscheduled = {}
    BY WorkerHas
  <1>20. ring!HeldOnce(w)'
    <2>1. ring!Held(w)' \subseteq Nodes
      BY <1>1, <1>17, <1>18 DEF ring!TypeOK, ring!HeldOnce
    <2>2. \A i, j \in DOMAIN list'[w] : list'[w][i] = list'[w][j] => i = j
      BY <1>3, <1>4, <1>7
    <2>3. ring!InRing(w)' \cap ring!InList(w)' = {} /\ hand'[w] \notin ring!InRing(w)'
      BY <1>7, <1>8, <1>14, <1>16, <1>17, <1>18, <1>19, HandFree
    <2>4. \A d, e \in ring!Live(w)' : ring!Cell(w, d)' = ring!Cell(w, e)' => d = e
      BY <1>1, <1>12 DEF ring!HeldOnce
    <2> QED
      BY <2>1, <2>2, <2>3, <2>4 DEF ring!HeldOnce
  <1> QED
    BY <1>6, <1>7, <1>10, <1>11, <1>13, <1>17, <1>18, <1>19, <1>20, OneMoves

\* The nodes in a list, and a list with each node once.
Members(s) == {s[i] : i \in DOMAIN s}

Once(s) == \A i, j \in DOMAIN s : s[i] = s[j] => i = j

\* A list without its first node.
LEMMA TailOfList ==
    ASSUME NEW S, NEW s \in Seq(S), s # <<>>, NEW r, r = Tail(s), Once(s)
    PROVE  /\ r \in Seq(S) /\ Len(r) = Len(s) - 1 /\ Len(s) \in Nat \ {0} /\ s[1] \in S
           /\ Members(r) = Members(s) \ {s[1]} /\ s[1] \in Members(s) /\ Once(r)
  <1>1. PICK m \in Nat : m = Len(s) /\ DOMAIN s = 1 .. m
    OBVIOUS
  <1>2. m > 0 /\ s[1] \in S
    BY <1>1
  <1>3. r \in Seq(S) /\ Len(r) = m - 1 /\ DOMAIN r = 1 .. m - 1 /\ \A i \in 1 .. m - 1 : r[i] = s[i + 1]
    BY <1>1, <1>2
  <1>4. \A i, j \in 1 .. m : s[i] = s[j] => i = j
    BY <1>1 DEF Once
  <1>5. {r[i] : i \in DOMAIN r} = {s[i] : i \in DOMAIN s} \ {s[1]}
    <2>1. ASSUME NEW i \in 1 .. m - 1 PROVE r[i] \in {s[j] : j \in 1 .. m} \ {s[1]}
      <3>1. i + 1 \in 1 .. m /\ i + 1 # 1 /\ 1 \in 1 .. m
        BY <1>2
      <3>2. r[i] = s[i + 1] /\ s[i + 1] # s[1]
        BY <1>3, <1>4, <3>1
      <3> QED
        BY <3>1, <3>2
    <2>2. ASSUME NEW j \in 1 .. m, s[j] # s[1] PROVE s[j] \in {r[i] : i \in 1 .. m - 1}
      <3>1. j # 1
        BY <2>2
      <3>2. j - 1 \in 1 .. m - 1 /\ (j - 1) + 1 = j
        BY <3>1
      <3>3. r[j - 1] = s[j]
        BY <1>3, <3>2
      <3> QED
        BY <3>2, <3>3
    <2>3. {r[i] : i \in 1 .. m - 1} \subseteq {s[j] : j \in 1 .. m} \ {s[1]}
      BY <2>1
    <2>4. {s[j] : j \in 1 .. m} \ {s[1]} \subseteq {r[i] : i \in 1 .. m - 1}
      BY <2>2
    <2>5. DOMAIN s = 1 .. m /\ DOMAIN r = 1 .. m - 1
      BY <1>1, <1>3
    <2> QED
      BY <2>3, <2>4, <2>5
  <1>6. \A i, j \in DOMAIN r : r[i] = r[j] => i = j
    <2>1. ASSUME NEW i \in 1 .. m - 1, NEW j \in 1 .. m - 1, r[i] = r[j] PROVE i = j
      <3>1. i + 1 \in 1 .. m /\ j + 1 \in 1 .. m /\ s[i + 1] = s[j + 1]
        BY <1>3, <2>1
      <3>2. i + 1 = j + 1
        BY <1>4, <3>1
      <3> QED
        BY <3>2
    <2> QED
      BY <1>3, <2>1
  <1>7. s[1] \in {s[i] : i \in DOMAIN s}
    BY <1>1, <1>2
  <1>8. Len(s) \in Nat \ {0} /\ Len(r) = Len(s) - 1
    BY <1>1, <1>2, <1>3
  <1>9. r \in Seq(S) /\ s[1] \in S
    BY <1>2, <1>3
  <1> QED
    BY <1>5, <1>6, <1>7, <1>8, <1>9 DEF Members, Once

\* A store at the end of a ring that has room.
LEMMA StoreAtEnd ==
    ASSUME ring!TypeOK, NEW w \in Owners, NEW x \in Nodes \cup {None},
           ring!Lap(head[w]) <= ring!Lap(t[w]), ring!Lap(t[w]) < ring!Lap(head[w]) + RingCapacity,
           array' = [array EXCEPT ![w][ring!Slot(t[w])] = x]
    PROVE  /\ array' \in [Owners -> [0 .. RingCapacity - 1 -> Nodes \cup {None}]]
           /\ \A v \in Owners \ {w} : array'[v] = array[v]
           /\ \E d \in Nat : d = ring!Lap(t[w]) /\ ring!Cell(w, d)' = x
           /\ \A e \in ring!Lap(head[w]) .. ring!Lap(t[w]) - 1 : ring!Cell(w, e)' = ring!Cell(w, e)
  <1>1. PICK i \in ring!Indices, d \in Nat : i = t[w] /\ d = ring!Lap(i)
    BY Laps
  <1>2. i + 0 = i /\ d + 0 = d /\ RingCapacity \in Nat \ {0}
    BY BufferConstants DEF ring!Indices
  <1>3. ring!Slot(i) = ring!Slot(Start + d)
    <2>1. ring!Slot(i + 0) = ring!Slot(Start + (d + 0))
      BY <1>1, SlotOfLap
    <2> QED
      BY <1>2, <2>1
  <1>4. array' = [array EXCEPT ![w][ring!Slot(Start + d)] = x]
    BY <1>1, <1>3
  <1>5. /\ array' \in [Owners -> [0 .. RingCapacity - 1 -> Nodes \cup {None}]]
        /\ ring!Cell(w, d)' = x
        /\ \A e \in Int : e # d /\ d - e < RingCapacity /\ e - d < RingCapacity
                          => ring!Cell(w, e)' = ring!Cell(w, e)
        /\ \A v \in Owners \ {w} : array'[v] = array[v]
    <2>1. d \in Int
      OBVIOUS
    <2> QED
      BY <1>4, <2>1, Stored
  <1>6. \A e \in ring!Lap(head[w]) .. d - 1 : e \in Int /\ e # d /\ d - e < RingCapacity /\ e - d < RingCapacity
    BY <1>1, <1>2, Laps
  <1> QED
    BY <1>1, <1>5, <1>6

\* push() stores a node.
LEMMA PushStoreKeeps ==
    ASSUME ring!IInv, NEW w \in Owners, ring!PushStore(w)
    PROVE  ring!IInv'
  <1>1. ring!TypeOK /\ ring!LocalsExact(w) /\ ring!CopiesExact(w) /\ ring!HeldOnce(w)
    BY WorkerHas
  <1>2. ringPc[w] = "push" /\ list[w] # <<>>
    BY DEF ring!PushStore
  <1>3. /\ ring!Lap(h[w]) <= ring!Lap(head[w]) /\ ring!Lap(head[w]) <= ring!Lap(tail[w])
        /\ ring!Lap(tail[w]) <= ring!Lap(t[w]) /\ ring!Lap(t[w]) <= ring!Lap(h[w]) + RingCapacity
        /\ ring!Lap(t[w]) + Len(list[w]) <= MaxLap + MaxList /\ hand[w] = None
    BY <1>1, <1>2 DEF ring!LocalsExact
  <1>4. PICK x, l : x = list[w][1] /\ l = Tail(list[w])
    OBVIOUS
  <1>5. /\ l \in Seq(Nodes) /\ Len(l) = Len(list[w]) - 1 /\ Len(list[w]) \in Nat \ {0} /\ x \in Nodes
        /\ Members(l) = ring!InList(w) \ {x} /\ x \in ring!InList(w) /\ Once(l)
    <2>1. PICK s \in Seq(Nodes) : s = list[w]
      BY <1>1 DEF ring!TypeOK
    <2>2. s # <<>> /\ l = Tail(s) /\ Once(s)
      BY <1>1, <1>2, <1>4, <2>1 DEF ring!HeldOnce, Once
    <2>3. /\ l \in Seq(Nodes) /\ Len(l) = Len(s) - 1 /\ Len(s) \in Nat \ {0} /\ s[1] \in Nodes
          /\ Members(l) = Members(s) \ {s[1]} /\ s[1] \in Members(s) /\ Once(l)
      BY <2>2, TailOfList
    <2> QED
      BY <1>4, <2>1, <2>3 DEF ring!InList, Members
  <1>6. ring!Lap(t[w]) < ring!Lap(h[w]) + RingCapacity
    <2>1. ring!Lap(h[w]) <= ring!Lap(t[w])
      BY <1>1, <1>3, Laps
    <2>2. ring!Lap(t[w]) - ring!Lap(h[w]) < RingCapacity
      BY <1>1, <2>1, Laps, LapMinus DEF ring!PushStore, ring!HasRoom
    <2> QED
      BY <1>1, <2>2, Laps, BufferConstants
  <1>7. /\ ring!Lap(head[w]) <= ring!Lap(t[w]) /\ ring!Lap(t[w]) < ring!Lap(head[w]) + RingCapacity
        /\ ring!Lap(t[w]) + 1 <= ring!Lap(h[w]) + RingCapacity /\ ring!Lap(t[w]) + 1 < IndexMod
        /\ (ring!Lap(t[w]) + 1) + Len(l) <= MaxLap + MaxList
        /\ ring!Lap(tail[w]) <= ring!Lap(t[w]) + 1
    <2> PICK k \in Nat : k = Len(l) /\ Len(list[w]) = k + 1
      BY <1>5
    <2>1. PICK a \in Nat, b \in Nat, c \in Nat, d \in Nat :
            a = ring!Lap(head[w]) /\ b = ring!Lap(tail[w]) /\ c = ring!Lap(h[w]) /\ d = ring!Lap(t[w])
      BY <1>1, LapValues
    <2>2. c <= a /\ a <= b /\ b <= d /\ d < c + RingCapacity /\ d + (k + 1) <= MaxLap + MaxList
      BY <1>3, <1>6, <2>1
    <2>3. a <= d /\ d < a + RingCapacity /\ d + 1 <= c + RingCapacity /\ (d + 1) + k <= MaxLap + MaxList /\ b <= d + 1
      BY <2>2, BufferConstants
    <2>4. d + 1 < IndexMod
      BY <2>3, BufferConstants
    <2> QED
      BY <2>1, <2>3, <2>4
  <1>8. array' = [array EXCEPT ![w][ring!Slot(t[w])] = x]
    BY <1>4 DEF ring!PushStore
  <1>9. /\ array' \in [Owners -> [0 .. RingCapacity - 1 -> Nodes \cup {None}]]
        /\ \A v \in Owners \ {w} : array'[v] = array[v]
        /\ \E d \in Nat : d = ring!Lap(t[w]) /\ ring!Cell(w, d)' = x
        /\ \A e \in ring!Lap(head[w]) .. ring!Lap(t[w]) - 1 : ring!Cell(w, e)' = ring!Cell(w, e)
    <2>1. x \in Nodes \cup {None}
      BY <1>5
    <2> QED
      BY <1>1, <1>7, <1>8, <2>1, StoreAtEnd
  <1>10. PICK d \in Nat : d = ring!Lap(t[w]) /\ ring!Cell(w, d)' = x
    BY <1>9
  <1>11. ring!Plus(t[w], 1) \in ring!Indices /\ ring!Lap(ring!Plus(t[w], 1)) = ring!Lap(t[w]) + 1
    BY <1>1, <1>7, Laps, LapPlus
  <1>12. ring!TypeOK'
    <2>1. list' \in [Owners -> Seq(Nodes)] /\ t' \in [Owners -> ring!Indices]
      BY <1>1, <1>4, <1>5, <1>11 DEF ring!TypeOK, ring!PushStore
    <2> QED
      BY <1>1, <1>9, <2>1 DEF ring!TypeOK, ring!PushStore
  <1>13. /\ \A v \in Owners \ {w} : Same(v)
         /\ head'[w] = head[w] /\ tail'[w] = tail[w] /\ hand'[w] = hand[w] /\ h'[w] = h[w]
         /\ ringPc'[w] = "push" /\ list'[w] = l /\ t'[w] = ring!Plus(t[w], 1)
         /\ nodes' = nodes /\ unscheduled' = unscheduled
    BY <1>1, <1>2, <1>4, <1>9 DEF ring!TypeOK, Same, ring!PushStore
  <1>14. ring!Lap(t'[w]) = d + 1
    BY <1>10, <1>11, <1>13
  <1>15. ring!LocalsExact(w)'
    BY <1>1, <1>3, <1>7, <1>10, <1>13, <1>14 DEF ring!LocalsExact
  <1>16. ring!CopiesExact(w)'
    BY <1>13 DEF ring!CopiesExact
  <1>17. /\ ring!Live(w) = ring!Lap(head[w]) .. d - 1 /\ d \notin ring!Live(w)
         /\ ring!Live(w)' = ring!Live(w) \cup {d}
    <2>1. ring!Live(w) = ring!Lap(head[w]) .. d - 1
      BY <1>2, <1>10 DEF ring!Live, ring!End
    <2>2. ring!Live(w)' = ring!Lap(head[w]) .. (d + 1) - 1
      BY <1>13, <1>14 DEF ring!Live, ring!End
    <2> QED
      BY <1>1, <1>7, <1>10, <2>1, <2>2, Laps
  <1>18. \A e \in ring!Live(w) : ring!Cell(w, e)' = ring!Cell(w, e)
    BY <1>9, <1>10, <1>17
  <1>19. x \notin ring!InRing(w)
    BY <1>1, <1>5 DEF ring!HeldOnce
  <1>20. /\ ring!InRing(w)' = ring!InRing(w) \cup {x}
         /\ \A e, f \in ring!Live(w)' : ring!Cell(w, e)' = ring!Cell(w, f)' => e = f
    <2>1. d \in Int /\ ring!Cell(w, d)' = x
      BY <1>10
    <2> QED
      BY <1>1, <2>1, <1>17, <1>18, <1>19, RingGrows
  <1>21. ring!InList(w)' = ring!InList(w) \ {x}
    BY <1>5, <1>13 DEF ring!InList, Members
  <1>22. ring!Held(w)' = ring!Held(w)
    BY <1>3, <1>5, <1>13, <1>20, <1>21 DEF ring!Held
  <1>23. ring!HeldOnce(w)'
    <2>1. ring!InRing(w)' \cap ring!InList(w)' = {} /\ hand'[w] \notin ring!InRing(w)'
      BY <1>1, <1>3, <1>5, <1>13, <1>20, <1>21, BufferConstants DEF ring!HeldOnce
    <2>2. ring!Held(w)' \subseteq Nodes
      BY <1>1, <1>22 DEF ring!HeldOnce
    <2>3. \A i, j \in DOMAIN list'[w] : list'[w][i] = list'[w][j] => i = j
      BY <1>5, <1>13 DEF Once
    <2> QED
      BY <1>20, <2>1, <2>2, <2>3 DEF ring!HeldOnce
  <1>24. Forward(w)
    <2>1. \A e \in ring!Lap(head[w]) .. ring!Lap(tail[w]) - 1 : e \in ring!Live(w)
      BY <1>1, <1>3, <1>10, <1>17, Laps
    <2> QED
      BY <1>1, <1>13, <1>18, <2>1, Laps DEF Forward
  <1> QED
    BY <1>12, <1>13, <1>15, <1>16, <1>22, <1>23, <1>24, WorkerHas, OneMoves

\* A list before another.
Before(s, u) == s \o u

\* A list before another that has none of its nodes.
LEMMA JoinOfLists ==
    ASSUME NEW S, NEW s \in Seq(S), NEW u \in Seq(S), NEW r, r = Before(s, u), Once(s), Once(u),
           Members(s) \cap Members(u) = {}
    PROVE  /\ r \in Seq(S) /\ Members(r) = Members(s) \cup Members(u) /\ Once(r)
  <1>1. PICK m \in Nat : m = Len(s) /\ DOMAIN s = 1 .. m
    OBVIOUS
  <1>2. PICK k \in Nat : k = Len(u) /\ DOMAIN u = 1 .. k
    OBVIOUS
  <1>3. /\ r \in Seq(S) /\ DOMAIN r = 1 .. m + k
        /\ \A i \in 1 .. m + k : r[i] = IF i <= m THEN s[i] ELSE u[i - m]
    BY <1>1, <1>2 DEF Before
  <1>4. /\ Members(r) = {r[i] : i \in 1 .. m + k} /\ Members(s) = {s[i] : i \in 1 .. m}
        /\ Members(u) = {u[i] : i \in 1 .. k}
    BY <1>1, <1>2, <1>3 DEF Members
  <1>5. ASSUME NEW i \in 1 .. m + k
        PROVE  \/ i \in 1 .. m /\ r[i] = s[i] /\ r[i] \in Members(s)
               \/ i - m \in 1 .. k /\ r[i] = u[i - m] /\ r[i] \in Members(u)
    <2>1. CASE i <= m
      BY <1>3, <1>4, <2>1
    <2>2. CASE ~(i <= m)
      <3>1. i - m \in 1 .. k /\ r[i] = u[i - m]
        BY <1>3, <2>2
      <3> QED
        BY <1>4, <3>1
    <2> QED
      BY <2>1, <2>2
  <1>6. \A i \in 1 .. m : s[i] \in Members(r)
    <2>1. ASSUME NEW i \in 1 .. m PROVE s[i] \in Members(r)
      <3>1. i \in 1 .. m + k /\ i <= m
        OBVIOUS
      <3> QED
        BY <1>3, <1>4, <3>1
    <2> QED
      BY <2>1
  <1>7. \A i \in 1 .. k : u[i] \in Members(r)
    <2>1. ASSUME NEW i \in 1 .. k PROVE u[i] \in Members(r)
      <3>1. m + i \in 1 .. m + k /\ ~(m + i <= m) /\ (m + i) - m = i
        OBVIOUS
      <3>2. r[m + i] = u[i]
        BY <1>3, <3>1
      <3> QED
        BY <1>4, <3>1, <3>2
    <2> QED
      BY <2>1
  <1>8. Members(r) = Members(s) \cup Members(u)
    <2>1. Members(r) \subseteq Members(s) \cup Members(u)
      BY <1>4, <1>5
    <2>2. Members(s) \subseteq Members(r) /\ Members(u) \subseteq Members(r)
      BY <1>4, <1>6, <1>7
    <2> QED
      BY <2>1, <2>2
  <1>9. ASSUME NEW i \in 1 .. m + k, NEW j \in 1 .. m + k, r[i] = r[j]
        PROVE  i = j
    <2>1. \A a, b \in 1 .. m : s[a] = s[b] => a = b
      BY <1>1 DEF Once
    <2>2. \A a, b \in 1 .. k : u[a] = u[b] => a = b
      BY <1>2 DEF Once
    <2>3. CASE i \in 1 .. m /\ r[i] = s[i] /\ r[i] \in Members(s)
      BY <1>5, <1>9, <2>1, <2>3
    <2>4. CASE i - m \in 1 .. k /\ r[i] = u[i - m] /\ r[i] \in Members(u)
      <3>1. j - m \in 1 .. k /\ r[j] = u[j - m]
        BY <1>5, <1>9, <2>4
      <3>2. i - m = j - m
        BY <1>9, <2>2, <2>4, <3>1
      <3> QED
        BY <3>2
    <2> QED
      BY <1>5, <2>3, <2>4
  <1>10. Once(r)
    BY <1>3, <1>9 DEF Once
  <1> QED
    BY <1>3, <1>8, <1>10

\* What is at an index of a worker's ring.
LEMMA CellAt ==
    ASSUME NEW w \in Owners, NEW i \in ring!Indices, NEW k \in Int
    PROVE  /\ array[w][ring!Slot(i + k)] = ring!Cell(w, ring!Lap(i) + k)
           /\ array[w][ring!Slot(i)] = ring!Cell(w, ring!Lap(i))
  <1>1. ring!Slot(i + k) = ring!Slot(Start + (ring!Lap(i) + k))
    BY SlotOfLap
  <1>2. ring!Slot(i + 0) = ring!Slot(Start + (ring!Lap(i) + 0))
    BY SlotOfLap
  <1>3. i + 0 = i /\ ring!Lap(i) + 0 = ring!Lap(i)
    BY LapIs DEF ring!Indices
  <1> QED
    BY <1>1, <1>2, <1>3 DEF ring!Cell

\* The older part of a ring, as a list.
LEMMA SlotsOfRing ==
    ASSUME NEW w \in Owners, ring!HeldOnce(w), NEW p \in ring!Indices, NEW n \in Nat, NEW a \in Nat, NEW b \in Nat,
           a = ring!Lap(p), ring!Live(w) = a .. b - 1, a + n <= b, NEW f, f = ring!Slots(w, p, n)
    PROVE  /\ f \in Seq(Nodes) /\ Once(f)
           /\ ring!InRing(w) = Members(f) \cup {ring!Cell(w, d) : d \in a + n .. b - 1}
           /\ Members(f) \cap {ring!Cell(w, d) : d \in a + n .. b - 1} = {}
  <1>1. \A d, e \in a .. b - 1 : ring!Cell(w, d) = ring!Cell(w, e) => d = e
    BY DEF ring!HeldOnce
  <1>2. ring!InRing(w) = {ring!Cell(w, d) : d \in a .. b - 1}
    BY DEF ring!InRing
  <1>3. ring!InRing(w) \subseteq Nodes
    BY DEF ring!HeldOnce, ring!Held
  <1>4. ASSUME NEW q \in 1 .. n
        PROVE  /\ a + (q - 1) \in a .. b - 1 /\ f[q] = ring!Cell(w, a + (q - 1)) /\ f[q] \in Nodes
    <2>1. q - 1 \in Int /\ p + q - 1 = p + (q - 1) /\ a + (q - 1) \in a .. b - 1
      BY DEF ring!Indices
    <2>2. f[q] = array[w][ring!Slot(p + q - 1)]
      <3>1. f = [j \in 1 .. n |-> array[w][ring!Slot(p + j - 1)]]
        BY DEF ring!Slots
      <3> QED
        BY <3>1, Zenon
    <2>3. f[q] = ring!Cell(w, a + (q - 1))
      BY <2>1, <2>2, CellAt
    <2> QED
      BY <1>2, <1>3, <2>1, <2>3
  <1>5. DOMAIN f = 1 .. n /\ f = [q \in 1 .. n |-> f[q]]
    BY DEF ring!Slots
  <1>6. f \in Seq(Nodes)
    BY <1>4, <1>5
  <1>7. Once(f)
    <2>1. ASSUME NEW j \in 1 .. n, NEW q \in 1 .. n, f[j] = f[q] PROVE j = q
      <3>1. a + (j - 1) = a + (q - 1)
        BY <1>1, <1>4, <2>1
      <3> QED
        BY <3>1
    <2> QED
      BY <1>5, <2>1 DEF Once
  <1>8. Members(f) = {ring!Cell(w, d) : d \in a .. (a + n) - 1}
    <2>1. Members(f) = {f[q] : q \in 1 .. n}
      BY <1>5 DEF Members
    <2>2. \A q \in 1 .. n : f[q] \in {ring!Cell(w, d) : d \in a .. (a + n) - 1}
      BY <1>4
    <2>3. ASSUME NEW d \in a .. (a + n) - 1 PROVE ring!Cell(w, d) \in {f[q] : q \in 1 .. n}
      <3>1. (d - a) + 1 \in 1 .. n /\ a + (((d - a) + 1) - 1) = d
        OBVIOUS
      <3> QED
        BY <1>4, <3>1
    <2> QED
      BY <2>1, <2>2, <2>3
  <1>9. a .. b - 1 = (a .. (a + n) - 1) \cup (a + n .. b - 1) /\ (a .. (a + n) - 1) \cap (a + n .. b - 1) = {}
    OBVIOUS
  <1>10. ring!InRing(w) = Members(f) \cup {ring!Cell(w, d) : d \in a + n .. b - 1}
    BY <1>2, <1>8, <1>9
  <1>11. Members(f) \cap {ring!Cell(w, d) : d \in a + n .. b - 1} = {}
    BY <1>1, <1>8, <1>9
  <1> QED
    BY <1>6, <1>7, <1>10, <1>11

\* push() finds the ring full: it claims the older half, or looks at the head again.
LEMMA OverflowKeeps ==
    ASSUME ring!IInv, NEW w \in Owners, ring!Overflow(w)
    PROVE  ring!IInv'
  <1>1. ring!TypeOK /\ ring!LocalsExact(w) /\ ring!CopiesExact(w) /\ ring!HeldOnce(w)
    BY WorkerHas
  <1>2. ringPc[w] = "push" /\ t[w] = tail[w] /\ ~ring!HasRoom(w)
    BY DEF ring!Overflow
  <1>3. /\ ring!Lap(h[w]) <= ring!Lap(head[w]) /\ ring!Lap(head[w]) <= ring!Lap(tail[w])
        /\ ring!Lap(tail[w]) <= ring!Lap(h[w]) + RingCapacity
        /\ ring!Lap(t[w]) + Len(list[w]) <= MaxLap + MaxList /\ hand[w] = None
    BY <1>1, <1>2 DEF ring!LocalsExact
  <1>4. UNCHANGED <<tail, array, nodes, consumer, unscheduled, t, victim, want, hand>>
    BY DEF ring!Overflow
  <1>5. CASE head[w] # h[w]
    <2>1. h' = [h EXCEPT ![w] = head[w]] /\ UNCHANGED <<head, list, ringPc>>
      BY <1>5 DEF ring!Overflow
    <2>2. ring!TypeOK'
      BY <1>1, <1>4, <2>1 DEF ring!TypeOK
    <2>3. \A v \in Owners \ {w} : Same(v)
      BY <1>1, <1>4, <2>1 DEF ring!TypeOK, Same
    <2>4. h'[w] = head[w]
      BY <1>1, <2>1 DEF ring!TypeOK
    <2>5. ring!LocalsExact(w)'
      <3>1. ring!Lap(head[w]) <= ring!Lap(head[w]) /\ ring!Lap(tail[w]) <= ring!Lap(head[w]) + RingCapacity
        BY <1>1, WorkerHas, Laps
      <3> QED
        BY <1>1, <1>2, <1>4, <2>1, <2>4, <3>1 DEF ring!LocalsExact
    <2>6. ring!CopiesExact(w)'
      BY <1>2, <2>1 DEF ring!CopiesExact
    <2>7. ring!End(w)' = ring!End(w) /\ ring!Lap(tail[w]) <= ring!Lap(tail'[w])
      BY <1>1, <1>4, <2>1, Laps DEF ring!End
    <2> QED
      BY <1>4, <2>1, <2>2, <2>3, <2>5, <2>6, <2>7, NoneMoves
  <1>6. CASE head[w] = h[w]
    <2>1. PICK n \in Nat : n = RingCapacity \div 2 /\ 0 < n /\ n < RingCapacity
      BY BufferConstants
    <2>2. PICK a \in Nat : a = ring!Lap(h[w]) /\ a = ring!Lap(head[w]) /\ ring!Lap(tail[w]) = a + RingCapacity
      <3>1. ring!Minus(t[w], h[w]) = ring!Lap(t[w]) - ring!Lap(h[w])
        BY <1>1, <1>2, <1>3, <1>6, Laps, LapMinus
      <3>2. ~(ring!Lap(tail[w]) - ring!Lap(h[w]) < RingCapacity)
        BY <1>2, <3>1 DEF ring!HasRoom
      <3>3. PICK a \in Nat, b \in Nat, c \in Nat, d \in Nat :
              a = ring!Lap(head[w]) /\ b = ring!Lap(tail[w]) /\ c = ring!Lap(h[w]) /\ d = ring!Lap(t[w])
        BY <1>1, LapValues
      <3>4. a = c /\ a <= b /\ b <= c + RingCapacity /\ ~(b - c < RingCapacity)
        BY <1>3, <1>6, <3>2, <3>3
      <3>5. b = a + RingCapacity
        BY <3>4, BufferConstants
      <3> QED
        BY <3>3, <3>4, <3>5
    <2>3. PICK b \in Nat : b = ring!Lap(tail[w]) /\ b = a + RingCapacity /\ b < IndexMod
      BY <1>1, <2>2, Laps
    <2>4. ring!Plus(h[w], n) \in ring!Indices /\ ring!Lap(ring!Plus(h[w], n)) = a + n
      <3>1. PICK p \in ring!Indices : p = h[w]
        BY <1>1, Laps
      <3>2. a + n < b
        BY <2>1, <2>3, BufferConstants
      <3>3. a + n < IndexMod
        BY <2>3, <3>2, BufferConstants
      <3>4. ring!Lap(p) = a
        BY <2>2, <3>1
      <3> QED
        BY <3>1, <3>3, <3>4, LapPlus
    <2>5. PICK f : f = ring!Slots(w, h[w], n)
      OBVIOUS
    <2>6. ring!Live(w) = a .. b - 1
      BY <1>2, <2>2, <2>3 DEF ring!Live, ring!End
    <2>7. a + n <= b
      BY <2>1, <2>3, BufferConstants
    <2>8. /\ f \in Seq(Nodes) /\ Once(f)
          /\ ring!InRing(w) = Members(f) \cup {ring!Cell(w, d) : d \in a + n .. b - 1}
          /\ Members(f) \cap {ring!Cell(w, d) : d \in a + n .. b - 1} = {}
      <3>1. PICK p \in ring!Indices : p = h[w]
        BY <1>1, Laps
      <3>2. a = ring!Lap(p) /\ f = ring!Slots(w, p, n)
        BY <2>2, <2>5, <3>1
      <3> QED
        BY <1>1, <2>6, <2>7, <3>2, SlotsOfRing, SMTT(30)
    <2>9. PICK s \in Seq(Nodes) : s = list[w]
      BY <1>1 DEF ring!TypeOK
    <2>10. Members(s) = ring!InList(w) /\ Once(s)
      BY <1>1, <2>9 DEF Members, Once, ring!InList, ring!HeldOnce
    <2>11. Members(f) \cap Members(s) = {}
      BY <1>1, <2>8, <2>10 DEF ring!HeldOnce
    <2>12. PICK l \in Seq(Nodes) :
              l = Before(f, s) /\ Members(l) = Members(f) \cup Members(s) /\ Once(l)
      BY <2>8, <2>10, <2>11, JoinOfLists
    <2>13. head' = [head EXCEPT ![w] = ring!Plus(h[w], n)] /\ list' = [list EXCEPT ![w] = l] /\ h' = h
      BY <1>1, <1>6, <2>1, <2>5, <2>9, <2>12 DEF ring!Overflow, ring!TypeOK, Before
    <2>14. "spill" \in ring!Labels /\ ring!Goto(w, "spill")
      BY <1>6 DEF ring!Overflow, ring!Labels
    <2>15. ring!TypeOK'
      <3>1. head' \in [Owners -> ring!Indices] /\ list' \in [Owners -> Seq(Nodes)]
        BY <1>1, <2>4, <2>12, <2>13 DEF ring!TypeOK
      <3> QED
        BY <1>1, <1>4, <2>13, <2>14, <3>1, GotoIs DEF ring!TypeOK
    <2>16. /\ \A v \in Owners \ {w} : Same(v)
           /\ head'[w] = ring!Plus(h[w], n) /\ list'[w] = l /\ ringPc'[w] = "spill"
      BY <1>1, <1>4, <2>13, <2>14, GotoIs DEF ring!TypeOK, Same
    <2>17. ring!LocalsExact(w)'
      <3>1. a + n <= b /\ b <= (a + n) + RingCapacity
        BY <2>1, <2>3, <2>7, BufferConstants
      <3> QED
        BY <1>3, <1>4, <2>3, <2>4, <2>16, <3>1 DEF ring!LocalsExact
    <2>18. ring!CopiesExact(w)'
      BY <2>16 DEF ring!CopiesExact
    <2>19. ring!Live(w)' = a + n .. b - 1
      BY <1>4, <2>3, <2>4, <2>16 DEF ring!Live, ring!End
    <2>20. \A d : ring!Cell(w, d)' = ring!Cell(w, d)
      BY <1>4 DEF ring!Cell
    <2>21. ring!InRing(w)' = {ring!Cell(w, d) : d \in a + n .. b - 1}
      BY <2>19, <2>20 DEF ring!InRing
    <2>22. ring!InList(w)' = Members(l)
      BY <2>16 DEF ring!InList, Members
    <2>23. ring!Held(w)' = ring!Held(w)
      BY <1>4, <2>8, <2>10, <2>12, <2>21, <2>22 DEF ring!Held
    <2>24. ring!HeldOnce(w)'
      <3>1. \A d, e \in a .. b - 1 : ring!Cell(w, d) = ring!Cell(w, e) => d = e
        BY <1>1, <2>6 DEF ring!HeldOnce
      <3>2. \A d \in a + n .. b - 1 : d \in a .. b - 1
        BY <2>1
      <3>3. \A d, e \in ring!Live(w)' : ring!Cell(w, d)' = ring!Cell(w, e)' => d = e
        BY <2>19, <2>20, <3>1, <3>2
      <3>4. \A i, j \in DOMAIN list'[w] : list'[w][i] = list'[w][j] => i = j
        BY <2>12, <2>16 DEF Once
      <3>5. ring!InRing(w)' \cap ring!InList(w)' = {}
        BY <1>1, <2>8, <2>10, <2>12, <2>21, <2>22 DEF ring!HeldOnce
      <3>6. hand'[w] \notin ring!InRing(w)'
        BY <1>1, <1>4, <2>8, <2>21 DEF ring!HeldOnce
      <3>7. ring!Held(w)' \subseteq Nodes
        BY <1>1, <2>23 DEF ring!HeldOnce
      <3> QED
        BY <3>3, <3>4, <3>5, <3>6, <3>7 DEF ring!HeldOnce
    <2>25. Forward(w)
      <3>1. a <= a + n /\ b <= b /\ a # a + n
        BY <2>1
      <3>2. ring!Lap(head[w]) <= ring!Lap(head'[w]) /\ ring!Lap(tail[w]) <= ring!Lap(tail'[w])
        BY <1>4, <2>2, <2>3, <2>4, <2>16, <3>1
      <3>3. head'[w] # head[w]
        BY <2>2, <2>4, <2>16, <3>1
      <3> QED
        BY <3>2, <3>3 DEF Forward
    <2> QED
      BY <1>4, <2>15, <2>16, <2>17, <2>18, <2>23, <2>24, <2>25, WorkerHas, OneMoves
  <1> QED
    BY <1>5, <1>6

\* What overflowed goes on the queue.
LEMMA SpillKeeps ==
    ASSUME ring!IInv, NEW w \in Owners, ring!Spill(w)
    PROVE  ring!IInv'
  <1>1. ring!TypeOK /\ ring!LocalsExact(w) /\ ring!CopiesExact(w) /\ ring!HeldOnce(w)
    BY WorkerHas
  <1>2. /\ ringPc[w] = "spill" /\ nodes' = nodes \cup ring!InList(w) /\ ring!Return(w, "run")
        /\ UNCHANGED <<head, tail, array, consumer, unscheduled>>
    BY DEF ring!Spill, ring!rings, ring!InList
  <1>3. "run" \in ring!Labels
    BY DEF ring!Labels
  <1>4. ring!TypeOK'
    <2>1. nodes' \subseteq Nodes
      BY <1>1, <1>2, HandFree DEF ring!TypeOK
    <2> QED
      BY <1>1, <1>2, <1>3, <2>1, ReturnIs DEF ring!TypeOK
  <1>5. /\ \A v \in Owners \ {w} : Same(v)
        /\ ringPc'[w] = "run" /\ list'[w] = <<>> /\ hand'[w] = None
    BY <1>1, <1>2, <1>3, ReturnIs DEF Same
  <1>6. hand[w] = None
    BY <1>1, <1>2 DEF ring!LocalsExact
  <1>7. ring!LocalsExact(w)'
    BY <1>1, <1>2, <1>5 DEF ring!LocalsExact
  <1>8. ring!CopiesExact(w)'
    BY <1>5 DEF ring!CopiesExact
  <1>9. ring!Live(w)' = ring!Live(w) /\ \A d : ring!Cell(w, d)' = ring!Cell(w, d)
    BY <1>2, <1>5 DEF ring!Live, ring!End, ring!Cell
  <1>10. ring!InRing(w)' = ring!InRing(w) /\ ring!InList(w)' = {}
    BY <1>5, <1>9 DEF ring!InRing, ring!InList
  <1>11. ring!Held(w)' = ring!InRing(w) /\ ring!Held(w) = ring!InRing(w) \cup ring!InList(w)
    BY <1>5, <1>6, <1>10 DEF ring!Held
  <1>12. ring!HeldOnce(w)'
    <2>1. \A d, e \in ring!Live(w)' : ring!Cell(w, d)' = ring!Cell(w, e)' => d = e
      BY <1>1, <1>9 DEF ring!HeldOnce
    <2>2. \A i, j \in DOMAIN list'[w] : list'[w][i] = list'[w][j] => i = j
      BY <1>5
    <2>3. ring!Held(w)' \subseteq Nodes /\ hand'[w] \notin ring!InRing(w)'
      BY <1>5, <1>10, <1>11, HandFree
    <2> QED
      BY <1>10, <2>1, <2>2, <2>3 DEF ring!HeldOnce
  <1>13. Forward(w)
    BY <1>1, <1>2, <1>9, Laps DEF Forward
  <1>14. /\ ring!Held(w) \cap (nodes \cup unscheduled) = {} /\ nodes \cap unscheduled = {}
         /\ ring!InRing(w) \cap ring!InList(w) = {}
    BY WorkerHas DEF ring!HeldOnce
  <1>15. /\ (ring!Held(w)' \cup nodes' \cup unscheduled') = ring!Held(w) \cup nodes \cup unscheduled
         /\ ring!Held(w)' \cap (nodes' \cup unscheduled') = {} /\ nodes' \cap unscheduled' = {}
    BY <1>2, <1>11, <1>14
  <1> QED
    BY <1>4, <1>5, <1>7, <1>8, <1>12, <1>13, <1>15, OneMoves

\* A node that leaves one end of a worker's ring is in it once.
LEMMA LiveCell ==
    ASSUME ring!IInv, NEW w \in Owners, NEW d \in ring!Live(w), NEW x, x = ring!Cell(w, d)
    PROVE  x \in Nodes /\ x \in ring!InRing(w)
  <1>1. x \in ring!InRing(w)
    BY DEF ring!InRing
  <1> QED
    BY <1>1, HandFree

\* A ring that only loses a node keeps the rest.
LEMMA LosesOne ==
    ASSUME ring!IInv, NEW w \in Owners, NEW x, x \in ring!InRing(w),
           ring!InRing(w)' = ring!InRing(w) \ {x},
           \A e, f \in ring!Live(w)' : ring!Cell(w, e)' = ring!Cell(w, f)' => e = f,
           list[w] = <<>>, list'[w] = <<>>, hand[w] = None, hand'[w] = None
    PROVE  /\ ring!HeldOnce(w)' /\ ring!Held(w)' = ring!Held(w) \ {x} /\ x \in ring!Held(w)
  <1>1. ring!Held(w) = ring!InRing(w) /\ ring!InList(w)' = {}
    BY RingOnly DEF ring!InList
  <1>2. ring!Held(w)' = ring!InRing(w)'
    BY <1>1 DEF ring!Held
  <1>3. ring!HeldOnce(w)'
    BY <1>1, <1>2, HandFree DEF ring!HeldOnce
  <1> QED
    BY <1>1, <1>2, <1>3

\* pop() claims the oldest node, or looks at the head again.
LEMMA PopClaimKeeps ==
    ASSUME ring!IInv, NEW w \in Owners, ring!PopClaim(w)
    PROVE  ring!IInv'
  <1>1. ring!TypeOK /\ ring!LocalsExact(w) /\ ring!CopiesExact(w) /\ ring!HeldOnce(w)
    BY WorkerHas
  <1>2. ringPc[w] = "pop" /\ h[w] # tail[w] /\ UNCHANGED <<tail, array, nodes, consumer>>
    BY DEF ring!PopClaim
  <1>3. /\ ring!Lap(h[w]) <= ring!Lap(head[w]) /\ ring!Lap(head[w]) <= ring!Lap(tail[w])
        /\ ring!Lap(tail[w]) <= ring!Lap(h[w]) + RingCapacity
        /\ list[w] = <<>> /\ hand[w] = None
    BY <1>1, <1>2 DEF ring!LocalsExact
  <1>4. CASE head[w] # h[w]
    <2>1. /\ h' = [h EXCEPT ![w] = head[w]]
          /\ UNCHANGED <<head, unscheduled, ringPc, list, t, victim, want, hand>>
      BY <1>4 DEF ring!PopClaim
    <2>2. ring!TypeOK'
      BY <1>1, <1>2, <2>1 DEF ring!TypeOK
    <2>3. \A v \in Owners \ {w} : Same(v)
      BY <1>1, <1>2, <2>1 DEF ring!TypeOK, Same
    <2>4. h'[w] = head[w]
      BY <1>1, <2>1 DEF ring!TypeOK
    <2>5. ring!LocalsExact(w)'
      <3>1. ring!Lap(head[w]) <= ring!Lap(head[w]) /\ ring!Lap(tail[w]) <= ring!Lap(head[w]) + RingCapacity
        BY <1>1, WorkerHas, Laps
      <3> QED
        BY <1>1, <1>2, <2>1, <2>4, <3>1 DEF ring!LocalsExact
    <2>6. ring!CopiesExact(w)'
      BY <1>2, <2>1 DEF ring!CopiesExact
    <2>7. ring!End(w)' = ring!End(w) /\ ring!Lap(tail[w]) <= ring!Lap(tail'[w])
      BY <1>1, <1>2, <2>1, Laps DEF ring!End
    <2> QED
      BY <1>2, <2>1, <2>2, <2>3, <2>5, <2>6, <2>7, NoneMoves
  <1>5. CASE head[w] = h[w]
    <2>1. PICK a \in Nat, b \in Nat : a = ring!Lap(head[w]) /\ b = ring!Lap(tail[w]) /\ a < b /\ b < IndexMod
                                      /\ b <= a + RingCapacity
      <3>1. ring!Lap(head[w]) # ring!Lap(tail[w])
        BY <1>1, <1>2, <1>5, Laps, LapTells
      <3> QED
        BY <1>1, <1>3, <1>5, <3>1, Laps, BufferConstants
    <2>2. ring!Plus(h[w], 1) \in ring!Indices /\ ring!Lap(ring!Plus(h[w], 1)) = a + 1
      <3>1. PICK p \in ring!Indices : p = h[w]
        BY <1>1, Laps
      <3>2. ring!Lap(p) + 1 < IndexMod /\ ring!Lap(p) = a
        BY <1>5, <2>1, <3>1, BufferConstants
      <3> QED
        BY <3>1, <3>2, LapPlus
    <2>3. PICK x : x = array[w][ring!Slot(h[w])]
      OBVIOUS
    <2>4. x = ring!Cell(w, a)
      BY <1>1, <1>5, <2>1, <2>3, Laps, CellAt
    <2>5. ring!Live(w) = a .. b - 1 /\ a \in ring!Live(w)
      BY <1>2, <2>1 DEF ring!Live, ring!End
    <2>6. x \in Nodes /\ x \in ring!InRing(w)
      BY <2>4, <2>5, LiveCell
    <2>7. "run" \in ring!Labels /\ ring!Return(w, "run") /\ unscheduled' = unscheduled \cup {x}
          /\ head' = [head EXCEPT ![w] = ring!Plus(h[w], 1)]
      BY <1>5, <2>3 DEF ring!Labels, ring!PopClaim, ring!Run
    <2>8. ring!TypeOK'
      <3>1. head' \in [Owners -> ring!Indices] /\ unscheduled' \subseteq Nodes
        BY <1>1, <2>2, <2>6, <2>7 DEF ring!TypeOK
      <3> QED
        BY <1>1, <1>2, <2>7, <3>1, ReturnIs DEF ring!TypeOK
    <2>9. /\ \A v \in Owners \ {w} : Same(v)
          /\ head'[w] = ring!Plus(h[w], 1) /\ ringPc'[w] = "run" /\ list'[w] = <<>> /\ hand'[w] = None
      BY <1>1, <1>2, <2>7, ReturnIs DEF ring!TypeOK, Same
    <2>10. ring!LocalsExact(w)'
      <3>1. a + 1 <= b /\ b <= (a + 1) + RingCapacity
        BY <2>1, BufferConstants
      <3> QED
        BY <1>2, <2>1, <2>2, <2>9, <3>1 DEF ring!LocalsExact
    <2>11. ring!CopiesExact(w)'
      BY <2>9 DEF ring!CopiesExact
    <2>12. ring!Live(w)' = ring!Live(w) \ {a}
      <3>1. ring!Live(w)' = a + 1 .. b - 1
        BY <1>2, <2>1, <2>2, <2>9 DEF ring!Live, ring!End
      <3> QED
        BY <2>1, <2>5, <3>1
    <2>13. \A e : ring!Cell(w, e)' = ring!Cell(w, e)
      BY <1>2 DEF ring!Cell
    <2>14. /\ ring!InRing(w)' = ring!InRing(w) \ {x}
           /\ \A e, f \in ring!Live(w)' : ring!Cell(w, e)' = ring!Cell(w, f)' => e = f
      BY <1>1, <2>4, <2>5, <2>12, <2>13, RingShrinks
    <2>15. ring!HeldOnce(w)' /\ ring!Held(w)' = ring!Held(w) \ {x} /\ x \in ring!Held(w)
      BY <1>3, <2>6, <2>9, <2>14, LosesOne
    <2>16. Forward(w)
      <3>1. a <= a + 1 /\ b <= b /\ a # a + 1
        BY <2>1
      <3>2. head'[w] # head[w]
        BY <2>1, <2>2, <2>9, <3>1
      <3> QED
        BY <1>2, <2>1, <2>2, <2>9, <3>1, <3>2 DEF Forward
    <2>17. ring!Held(w) \cap (nodes \cup unscheduled) = {} /\ nodes \cap unscheduled = {}
      BY WorkerHas
    <2>18. /\ (ring!Held(w)' \cup nodes' \cup unscheduled') = ring!Held(w) \cup nodes \cup unscheduled
           /\ ring!Held(w)' \cap (nodes' \cup unscheduled') = {} /\ nodes' \cap unscheduled' = {}
      BY <1>2, <2>7, <2>15, <2>17
    <2> QED
      BY <2>8, <2>9, <2>10, <2>11, <2>15, <2>16, <2>18, OneMoves
  <1> QED
    BY <1>4, <1>5

\* What a consume() or a steal() in progress has: the ring is what it is putting there.
LEMMA TakingHas ==
    ASSUME ring!IInv, NEW w \in Owners, ringPc[w] \in {"consume", "extra", "consumed", "copy", "stolen"}
    PROVE  /\ list[w] = <<>> /\ head[w] = tail[w] /\ (ringPc[w] # "consumed" => hand[w] = None)
           /\ ring!Lap(tail[w]) <= ring!Lap(t[w]) /\ ring!Lap(t[w]) <= ring!Lap(tail[w]) + RingCapacity
           /\ ring!Minus(t[w], tail[w]) = ring!Lap(t[w]) - ring!Lap(tail[w])
           /\ ringPc[w] # "copy" => ring!Live(w) = ring!Lap(tail[w]) .. ring!Lap(t[w]) - 1
           /\ ringPc[w] = "copy" => ring!Live(w) = {}
  <1>1. ring!TypeOK /\ ring!LocalsExact(w)
    BY WorkerHas
  <1>2. /\ list[w] = <<>> /\ head[w] = tail[w] /\ (ringPc[w] # "consumed" => hand[w] = None)
        /\ ring!Lap(tail[w]) <= ring!Lap(t[w]) /\ ring!Lap(t[w]) <= ring!Lap(tail[w]) + RingCapacity
    BY <1>1 DEF ring!LocalsExact
  <1>3. ring!Minus(t[w], tail[w]) = ring!Lap(t[w]) - ring!Lap(tail[w])
    BY <1>1, <1>2, Laps, LapMinus
  <1>4. ringPc[w] # "copy" => ring!Live(w) = ring!Lap(tail[w]) .. ring!Lap(t[w]) - 1
    BY <1>2 DEF ring!Live, ring!End
  <1>5. ringPc[w] = "copy" => ring!Live(w) = {}
    <2>1. ringPc[w] = "copy" => ring!Live(w) = ring!Lap(tail[w]) .. ring!Lap(tail[w]) - 1
      BY <1>2 DEF ring!Live, ring!End
    <2> QED
      BY <1>1, <2>1, Laps
  <1> QED
    BY <1>2, <1>3, <1>4, <1>5

\* consume() puts a node of the queue into the ring.
LEMMA ConsumeStoreKeeps ==
    ASSUME ring!IInv, NEW w \in Owners, ring!ConsumeStore(w)
    PROVE  ring!IInv'
  <1>1. ring!TypeOK /\ ring!LocalsExact(w) /\ ring!CopiesExact(w) /\ ring!HeldOnce(w)
    BY WorkerHas
  <1>2. /\ ringPc[w] = "consume" /\ UNCHANGED <<head, tail, consumer, unscheduled, ringPc, list, h, victim, want, hand>>
        /\ t' = [t EXCEPT ![w] = ring!Plus(@, 1)] /\ ring!Minus(t[w], tail[w]) < RingCapacity
    BY DEF ring!ConsumeStore, ring!Pushed
  <1>3. PICK x \in nodes : nodes' = nodes \ {x} /\ array' = [array EXCEPT ![w][ring!Slot(t[w])] = x]
    BY DEF ring!ConsumeStore
  <1>4. x \in Nodes /\ x \notin ring!Held(w) /\ x \notin unscheduled
    BY <1>1, <1>3, WorkerHas DEF ring!TypeOK
  <1>5. /\ list[w] = <<>> /\ head[w] = tail[w] /\ hand[w] = None /\ ring!Lap(tail[w]) <= MaxLap
        /\ ring!Lap(tail[w]) <= ring!Lap(t[w]) /\ ring!Lap(t[w]) < ring!Lap(head[w]) + RingCapacity
        /\ ring!Live(w) = ring!Lap(tail[w]) .. ring!Lap(t[w]) - 1
    <2>1. ring!Lap(tail[w]) <= MaxLap
      BY <1>1, <1>2 DEF ring!LocalsExact
    <2> QED
      BY <1>1, <1>2, <2>1, TakingHas, Laps, BufferConstants
  <1>6. PICK a \in Nat, d \in Nat : /\ a = ring!Lap(tail[w]) /\ a = ring!Lap(head[w]) /\ d = ring!Lap(t[w])
                                   /\ a <= d /\ d < a + RingCapacity /\ d + 1 < IndexMod
    BY <1>1, <1>5, Laps, BufferConstants
  <1>7. /\ array' \in [Owners -> [0 .. RingCapacity - 1 -> Nodes \cup {None}]]
        /\ \A v \in Owners \ {w} : array'[v] = array[v]
        /\ \A e \in ring!Lap(head[w]) .. ring!Lap(t[w]) - 1 : ring!Cell(w, e)' = ring!Cell(w, e)
        /\ \E f \in Nat : f = ring!Lap(t[w]) /\ ring!Cell(w, f)' = x
    <2>1. /\ x \in Nodes \cup {None} /\ array' = [array EXCEPT ![w][ring!Slot(t[w])] = x]
          /\ ring!Lap(head[w]) <= ring!Lap(t[w]) /\ ring!Lap(t[w]) < ring!Lap(head[w]) + RingCapacity
      BY <1>3, <1>4, <1>5
    <2> QED
      BY <1>1, <2>1, StoreAtEnd
  <1>8. ring!Plus(t[w], 1) \in ring!Indices /\ ring!Lap(ring!Plus(t[w], 1)) = d + 1
    BY <1>1, <1>6, Laps, LapPlus
  <1>9. ring!TypeOK'
    <2>1. t' \in [Owners -> ring!Indices] /\ nodes' \subseteq Nodes
      BY <1>1, <1>2, <1>3, <1>8 DEF ring!TypeOK
    <2> QED
      BY <1>1, <1>2, <1>7, <2>1 DEF ring!TypeOK
  <1>10. (\A v \in Owners \ {w} : Same(v)) /\ t'[w] = ring!Plus(t[w], 1)
    BY <1>1, <1>2, <1>7 DEF ring!TypeOK, Same
  <1>11. ring!LocalsExact(w)'
    <2>1. a <= d + 1 /\ d + 1 <= a + RingCapacity
      BY <1>6, BufferConstants
    <2> QED
      BY <1>1, <1>2, <1>5, <1>6, <1>8, <1>10, <2>1 DEF ring!LocalsExact
  <1>12. ring!CopiesExact(w)'
    BY <1>2 DEF ring!CopiesExact
  <1>13. ring!Live(w) = a .. d - 1 /\ d \notin ring!Live(w) /\ ring!Live(w)' = ring!Live(w) \cup {d}
    <2>1. ring!Live(w)' = a .. (d + 1) - 1
      BY <1>2, <1>6, <1>8, <1>10 DEF ring!Live, ring!End
    <2> QED
      BY <1>5, <1>6, <2>1
  <1>14. d \in Int /\ ring!Cell(w, d)' = x /\ \A e \in ring!Live(w) : ring!Cell(w, e)' = ring!Cell(w, e)
    BY <1>6, <1>7, <1>13
  <1>15. ring!Held(w) = ring!InRing(w) /\ x \notin ring!InRing(w)
    BY <1>4, <1>5, RingOnly
  <1>16. /\ ring!InRing(w)' = ring!InRing(w) \cup {x}
         /\ \A e, f \in ring!Live(w)' : ring!Cell(w, e)' = ring!Cell(w, f)' => e = f
    BY <1>1, <1>13, <1>14, <1>15, RingGrows
  <1>17. ring!InList(w)' = {} /\ hand'[w] = None /\ list'[w] = <<>>
    BY <1>2, <1>5 DEF ring!InList
  <1>18. ring!Held(w)' = ring!Held(w) \cup {x}
    BY <1>15, <1>16, <1>17 DEF ring!Held
  <1>19. ring!HeldOnce(w)'
    BY <1>4, <1>15, <1>16, <1>17, <1>18, HandFree, BufferConstants DEF ring!HeldOnce
  <1>20. Forward(w)
    <2>1. ring!Lap(head[w]) .. ring!Lap(tail[w]) - 1 = {}
      BY <1>6
    <2> QED
      BY <1>1, <1>2, <2>1, Laps DEF Forward
  <1>21. ring!Held(w) \cap (nodes \cup unscheduled) = {} /\ nodes \cap unscheduled = {}
    BY WorkerHas
  <1>22. /\ (ring!Held(w)' \cup nodes' \cup unscheduled') = ring!Held(w) \cup nodes \cup unscheduled
         /\ ring!Held(w)' \cap (nodes' \cup unscheduled') = {} /\ nodes' \cap unscheduled' = {}
    BY <1>2, <1>3, <1>4, <1>18, <1>21
  <1> QED
    BY <1>9, <1>10, <1>11, <1>12, <1>19, <1>20, <1>22, OneMoves

\* consume() takes one more node, to return it.
LEMMA ConsumeExtraKeeps ==
    ASSUME ring!IInv, NEW w \in Owners, ring!ConsumeExtra(w)
    PROVE  ring!IInv'
  <1>1. ring!TypeOK /\ ring!LocalsExact(w) /\ ring!CopiesExact(w) /\ ring!HeldOnce(w)
    BY WorkerHas
  <1>2. /\ ringPc[w] = "extra" /\ ring!Goto(w, "consumed") /\ "consumed" \in ring!Labels
        /\ UNCHANGED <<head, tail, array, consumer, unscheduled, list, h, t, victim, want>>
    BY DEF ring!ConsumeExtra, ring!rings, ring!Labels
  <1>3. PICK x \in nodes : nodes' = nodes \ {x} /\ hand' = [hand EXCEPT ![w] = x]
    BY DEF ring!ConsumeExtra
  <1>4. x \in Nodes /\ x \notin ring!Held(w) /\ x \notin unscheduled
    BY <1>1, <1>3, WorkerHas DEF ring!TypeOK
  <1>5. list[w] = <<>> /\ head[w] = tail[w] /\ hand[w] = None
    BY <1>2, TakingHas
  <1>6. ring!TypeOK'
    <2>1. hand' \in [Owners -> Nodes \cup {None}] /\ nodes' \subseteq Nodes
      BY <1>1, <1>3, <1>4 DEF ring!TypeOK
    <2> QED
      BY <1>1, <1>2, <2>1, GotoIs DEF ring!TypeOK
  <1>7. (\A v \in Owners \ {w} : Same(v)) /\ hand'[w] = x /\ ringPc'[w] = "consumed"
    BY <1>1, <1>2, <1>3, GotoIs DEF ring!TypeOK, Same
  <1>8. ring!LocalsExact(w)'
    BY <1>1, <1>2, <1>4, <1>7, BufferConstants DEF ring!LocalsExact
  <1>9. ring!CopiesExact(w)'
    BY <1>7 DEF ring!CopiesExact
  <1>10. ring!Live(w)' = ring!Live(w) /\ \A d : ring!Cell(w, d)' = ring!Cell(w, d)
    BY <1>2, <1>7 DEF ring!Live, ring!End, ring!Cell
  <1>11. ring!InRing(w)' = ring!InRing(w) /\ ring!InList(w)' = {}
    BY <1>2, <1>5, <1>10 DEF ring!InRing, ring!InList
  <1>12. ring!Held(w) = ring!InRing(w)
    BY <1>5, RingOnly
  <1>13. ring!Held(w)' = ring!Held(w) \cup {x}
    BY <1>4, <1>7, <1>11, <1>12, BufferConstants DEF ring!Held
  <1>14. ring!HeldOnce(w)'
    <2>1. \A d, e \in ring!Live(w)' : ring!Cell(w, d)' = ring!Cell(w, e)' => d = e
      BY <1>1, <1>10 DEF ring!HeldOnce
    <2>2. \A i, j \in DOMAIN list'[w] : list'[w][i] = list'[w][j] => i = j
      BY <1>2, <1>5
    <2> QED
      BY <1>4, <1>7, <1>11, <1>12, <1>13, <2>1, <2>2, HandFree DEF ring!HeldOnce
  <1>15. Forward(w)
    BY <1>1, <1>2, <1>10, Laps DEF Forward
  <1>16. ring!Held(w) \cap (nodes \cup unscheduled) = {} /\ nodes \cap unscheduled = {}
    BY WorkerHas
  <1>17. /\ (ring!Held(w)' \cup nodes' \cup unscheduled') = ring!Held(w) \cup nodes \cup unscheduled
         /\ ring!Held(w)' \cap (nodes' \cup unscheduled') = {} /\ nodes' \cap unscheduled' = {}
    BY <1>2, <1>3, <1>4, <1>13, <1>16
  <1> QED
    BY <1>6, <1>7, <1>8, <1>9, <1>14, <1>15, <1>17, OneMoves

\* What is last in the ring of a consume() or of a thief that has claimed.
LEMMA LastTaken ==
    ASSUME ring!IInv, NEW w \in Owners, ringPc[w] \in {"extra", "stolen"}, t[w] # tail[w]
    PROVE  \E a \in Nat, d \in Nat, x \in Nodes :
             /\ a = ring!Lap(tail[w]) /\ a = ring!Lap(head[w]) /\ a <= d /\ d < a + RingCapacity
             /\ ring!Live(w) = a .. d /\ ring!Minus(t[w], 1) \in ring!Indices
             /\ ring!Lap(ring!Minus(t[w], 1)) = d
             /\ x = array[w][ring!Slot(t[w] - 1)] /\ x = ring!Cell(w, d) /\ x \in ring!InRing(w)
  <1>1. ring!TypeOK
    BY WorkerHas
  <1>2. /\ head[w] = tail[w]
        /\ ring!Lap(tail[w]) <= ring!Lap(t[w]) /\ ring!Lap(t[w]) <= ring!Lap(tail[w]) + RingCapacity
        /\ ring!Live(w) = ring!Lap(tail[w]) .. ring!Lap(t[w]) - 1
    BY TakingHas
  <1>3. ring!Lap(t[w]) # ring!Lap(tail[w])
    BY <1>1, Laps, LapTells
  <1>4. PICK a \in Nat, d \in Nat : a = ring!Lap(tail[w]) /\ d = ring!Lap(t[w]) - 1 /\ a <= d /\ d < a + RingCapacity
    BY <1>1, <1>2, <1>3, Laps, BufferConstants
  <1>5. ring!Lap(t[w]) > 0 /\ t[w] \in ring!Indices /\ ring!Lap(t[w]) + (-1) = d
    BY <1>1, <1>4, Laps
  <1>6. ring!Minus(t[w], 1) \in ring!Indices /\ ring!Lap(ring!Minus(t[w], 1)) = d
    BY <1>4, <1>5, LapBack
  <1>7. PICK x : x = array[w][ring!Slot(t[w] - 1)]
    OBVIOUS
  <1>8. x = ring!Cell(w, d)
    <2>1. t[w] + (-1) = t[w] - 1
      BY <1>5 DEF ring!Indices
    <2>2. array[w][ring!Slot(t[w] + (-1))] = ring!Cell(w, ring!Lap(t[w]) + (-1))
      BY <1>5, CellAt
    <2> QED
      BY <1>5, <1>7, <2>1, <2>2
  <1>9. ring!Live(w) = a .. d /\ d \in ring!Live(w)
    BY <1>1, <1>2, <1>4, Laps
  <1>10. x \in Nodes /\ x \in ring!InRing(w)
    BY <1>8, <1>9, LiveCell
  <1> QED
    BY <1>2, <1>4, <1>6, <1>7, <1>8, <1>9, <1>10

\* consume() takes the last node out of the ring again, to return it.
LEMMA ConsumeLastKeeps ==
    ASSUME ring!IInv, NEW w \in Owners, ring!ConsumeLast(w)
    PROVE  ring!IInv'
  <1>1. ring!TypeOK /\ ring!LocalsExact(w) /\ ring!CopiesExact(w) /\ ring!HeldOnce(w)
    BY WorkerHas
  <1>2. /\ ringPc[w] = "extra" /\ ring!Goto(w, "consumed") /\ "consumed" \in ring!Labels
        /\ UNCHANGED <<head, tail, array, nodes, consumer, unscheduled, list, h, victim, want>>
        /\ t' = [t EXCEPT ![w] = ring!Minus(@, 1)] /\ ring!Minus(t[w], tail[w]) > 0
    BY DEF ring!ConsumeLast, ring!rings, ring!Labels, ring!Pushed
  <1>3. t[w] # tail[w]
    BY <1>1, <1>2, TakingHas, Laps
  <1>4. PICK a \in Nat, d \in Nat, x \in Nodes :
             /\ a = ring!Lap(tail[w]) /\ a = ring!Lap(head[w]) /\ a <= d /\ d < a + RingCapacity
             /\ ring!Live(w) = a .. d /\ ring!Minus(t[w], 1) \in ring!Indices
             /\ ring!Lap(ring!Minus(t[w], 1)) = d
             /\ x = array[w][ring!Slot(t[w] - 1)] /\ x = ring!Cell(w, d) /\ x \in ring!InRing(w)
    BY <1>2, <1>3, LastTaken
  <1>5. hand' = [hand EXCEPT ![w] = x]
    BY <1>4 DEF ring!ConsumeLast
  <1>6. list[w] = <<>> /\ head[w] = tail[w] /\ hand[w] = None
    BY <1>2, TakingHas
  <1>7. ring!TypeOK'
    <2>1. hand' \in [Owners -> Nodes \cup {None}] /\ t' \in [Owners -> ring!Indices]
      BY <1>1, <1>2, <1>4, <1>5 DEF ring!TypeOK
    <2> QED
      BY <1>1, <1>2, <2>1, GotoIs DEF ring!TypeOK
  <1>8. /\ \A v \in Owners \ {w} : Same(v)
        /\ hand'[w] = x /\ ringPc'[w] = "consumed" /\ t'[w] = ring!Minus(t[w], 1)
    BY <1>1, <1>2, <1>5, GotoIs DEF ring!TypeOK, Same
  <1>9. ring!LocalsExact(w)'
    <2>1. a <= d /\ d <= a + RingCapacity
      BY <1>4, BufferConstants
    <2> QED
      BY <1>1, <1>2, <1>4, <1>8, <2>1, BufferConstants DEF ring!LocalsExact
  <1>10. ring!CopiesExact(w)'
    BY <1>8 DEF ring!CopiesExact
  <1>11. d \in ring!Live(w) /\ ring!Live(w)' = ring!Live(w) \ {d}
    <2>1. ring!Live(w)' = a .. d - 1
      BY <1>2, <1>4, <1>8 DEF ring!Live, ring!End
    <2> QED
      BY <1>4, <2>1
  <1>12. \A e : ring!Cell(w, e)' = ring!Cell(w, e)
    BY <1>2 DEF ring!Cell
  <1>13. /\ ring!InRing(w)' = ring!InRing(w) \ {x}
         /\ \A e, f \in ring!Live(w)' : ring!Cell(w, e)' = ring!Cell(w, f)' => e = f
    BY <1>1, <1>4, <1>11, <1>12, RingShrinks
  <1>14. ring!InList(w)' = {} /\ list'[w] = <<>>
    BY <1>2, <1>6 DEF ring!InList
  <1>15. ring!Held(w) = ring!InRing(w)
    BY <1>6, RingOnly
  <1>16. ring!Held(w)' = ring!Held(w)
    BY <1>4, <1>8, <1>13, <1>14, <1>15, BufferConstants DEF ring!Held
  <1>17. ring!HeldOnce(w)'
    BY <1>1, <1>8, <1>13, <1>14, <1>16 DEF ring!HeldOnce
  <1>18. Forward(w)
    BY <1>1, <1>2, <1>12, Laps DEF Forward
  <1> QED
    BY <1>2, <1>7, <1>8, <1>9, <1>10, <1>16, <1>17, <1>18, WorkerHas, OneMoves

\* consume() publishes the tail and returns its node, which is run.
LEMMA ConsumePublishKeeps ==
    ASSUME ring!IInv, NEW w \in Owners, ring!ConsumePublish(w)
    PROVE  ring!IInv'
  <1>1. ring!TypeOK /\ ring!LocalsExact(w) /\ ring!CopiesExact(w) /\ ring!HeldOnce(w)
    BY WorkerHas
  <1>2. /\ ringPc[w] = "consumed" /\ ring!Return(w, "run") /\ "run" \in ring!Labels
        /\ UNCHANGED <<head, array, nodes>> /\ tail' = [tail EXCEPT ![w] = t[w]] /\ consumer' = None
    BY DEF ring!ConsumePublish, ring!Labels
  <1>3. PICK x : x = hand[w]
    OBVIOUS
  <1>4. x \in Nodes /\ unscheduled' = unscheduled \cup {x}
    BY <1>1, <1>2, <1>3 DEF ring!LocalsExact, ring!TypeOK, ring!ConsumePublish, ring!Run
  <1>5. /\ list[w] = <<>> /\ head[w] = tail[w]
        /\ ring!Lap(tail[w]) <= ring!Lap(t[w]) /\ ring!Lap(t[w]) <= ring!Lap(tail[w]) + RingCapacity
        /\ ring!Live(w) = ring!Lap(tail[w]) .. ring!Lap(t[w]) - 1
    BY <1>2, TakingHas
  <1>6. ring!TypeOK'
    <2>1. tail' \in [Owners -> ring!Indices] /\ unscheduled' \subseteq Nodes
      BY <1>1, <1>2, <1>4 DEF ring!TypeOK
    <2> QED
      BY <1>1, <1>2, <2>1, ReturnIs DEF ring!TypeOK
  <1>7. /\ \A v \in Owners \ {w} : Same(v)
        /\ tail'[w] = t[w] /\ ringPc'[w] = "run" /\ list'[w] = <<>> /\ hand'[w] = None
    BY <1>1, <1>2, ReturnIs DEF ring!TypeOK, Same
  <1>8. ring!LocalsExact(w)'
    BY <1>2, <1>5, <1>7 DEF ring!LocalsExact
  <1>9. ring!CopiesExact(w)'
    BY <1>7 DEF ring!CopiesExact
  <1>10. ring!Live(w)' = ring!Live(w) /\ \A d : ring!Cell(w, d)' = ring!Cell(w, d)
    BY <1>2, <1>5, <1>7 DEF ring!Live, ring!End, ring!Cell
  <1>11. ring!InRing(w)' = ring!InRing(w) /\ ring!InList(w)' = {} /\ ring!InList(w) = {}
    BY <1>5, <1>7, <1>10 DEF ring!InRing, ring!InList
  <1>12. ring!Held(w) = ring!InRing(w) \cup {x} /\ ring!Held(w)' = ring!InRing(w) /\ x \notin ring!InRing(w)
    BY <1>1, <1>3, <1>4, <1>7, <1>11, BufferConstants DEF ring!Held, ring!HeldOnce
  <1>13. ring!HeldOnce(w)'
    <2>1. \A d, e \in ring!Live(w)' : ring!Cell(w, d)' = ring!Cell(w, e)' => d = e
      BY <1>1, <1>10 DEF ring!HeldOnce
    <2> QED
      BY <1>7, <1>11, <1>12, <2>1, HandFree DEF ring!HeldOnce
  <1>14. Forward(w)
    BY <1>1, <1>2, <1>5, <1>7, <1>10, Laps DEF Forward
  <1>15. ring!Held(w) \cap (nodes \cup unscheduled) = {} /\ nodes \cap unscheduled = {}
    BY WorkerHas
  <1>16. /\ (ring!Held(w)' \cup nodes' \cup unscheduled') = ring!Held(w) \cup nodes \cup unscheduled
         /\ ring!Held(w)' \cap (nodes' \cup unscheduled') = {} /\ nodes' \cap unscheduled' = {}
    BY <1>2, <1>4, <1>12, <1>15
  <1> QED
    BY <1>6, <1>7, <1>8, <1>9, <1>13, <1>14, <1>16, OneMoves

\* A thief that has claimed publishes what it keeps; the last node is run.
LEMMA StealPublishKeeps ==
    ASSUME ring!IInv, NEW w \in Owners, ring!StealPublish(w)
    PROVE  ring!IInv'
  <1>1. ring!TypeOK /\ ring!LocalsExact(w) /\ ring!CopiesExact(w) /\ ring!HeldOnce(w)
    BY WorkerHas
  <1>2. /\ ringPc[w] = "stolen" /\ ring!Return(w, "run") /\ "run" \in ring!Labels
        /\ UNCHANGED <<head, array, nodes, consumer>> /\ tail' = [tail EXCEPT ![w] = ring!Minus(t[w], 1)]
    BY DEF ring!StealPublish, ring!Labels
  <1>3. t[w] # tail[w]
    BY <1>1, <1>2 DEF ring!LocalsExact
  <1>4. PICK a \in Nat, d \in Nat, x \in Nodes :
             /\ a = ring!Lap(tail[w]) /\ a = ring!Lap(head[w]) /\ a <= d /\ d < a + RingCapacity
             /\ ring!Live(w) = a .. d /\ ring!Minus(t[w], 1) \in ring!Indices
             /\ ring!Lap(ring!Minus(t[w], 1)) = d
             /\ x = array[w][ring!Slot(t[w] - 1)] /\ x = ring!Cell(w, d) /\ x \in ring!InRing(w)
    BY <1>2, <1>3, LastTaken
  <1>5. unscheduled' = unscheduled \cup {x}
    BY <1>4 DEF ring!StealPublish, ring!Run
  <1>6. list[w] = <<>> /\ head[w] = tail[w] /\ hand[w] = None
    BY <1>2, TakingHas
  <1>7. ring!TypeOK'
    <2>1. tail' \in [Owners -> ring!Indices] /\ unscheduled' \subseteq Nodes
      BY <1>1, <1>2, <1>4, <1>5 DEF ring!TypeOK
    <2> QED
      BY <1>1, <1>2, <2>1, ReturnIs DEF ring!TypeOK
  <1>8. /\ \A v \in Owners \ {w} : Same(v)
        /\ tail'[w] = ring!Minus(t[w], 1) /\ ringPc'[w] = "run" /\ list'[w] = <<>> /\ hand'[w] = None
    BY <1>1, <1>2, ReturnIs DEF ring!TypeOK, Same
  <1>9. ring!LocalsExact(w)'
    <2>1. a <= d /\ d <= a + RingCapacity
      BY <1>4, BufferConstants
    <2> QED
      BY <1>2, <1>4, <1>8, <2>1 DEF ring!LocalsExact
  <1>10. ring!CopiesExact(w)'
    BY <1>8 DEF ring!CopiesExact
  <1>11. d \in ring!Live(w) /\ ring!Live(w)' = ring!Live(w) \ {d}
    <2>1. ring!Live(w)' = a .. d - 1
      BY <1>2, <1>4, <1>8 DEF ring!Live, ring!End
    <2> QED
      BY <1>4, <2>1
  <1>12. \A e : ring!Cell(w, e)' = ring!Cell(w, e)
    BY <1>2 DEF ring!Cell
  <1>13. /\ ring!InRing(w)' = ring!InRing(w) \ {x}
         /\ \A e, f \in ring!Live(w)' : ring!Cell(w, e)' = ring!Cell(w, f)' => e = f
    BY <1>1, <1>4, <1>11, <1>12, RingShrinks
  <1>14. ring!HeldOnce(w)' /\ ring!Held(w)' = ring!Held(w) \ {x} /\ x \in ring!Held(w)
    BY <1>4, <1>6, <1>8, <1>13, LosesOne
  <1>15. Forward(w)
    BY <1>1, <1>2, <1>4, <1>8, <1>12, Laps DEF Forward
  <1>16. ring!Held(w) \cap (nodes \cup unscheduled) = {} /\ nodes \cap unscheduled = {}
    BY WorkerHas
  <1>17. /\ (ring!Held(w)' \cup nodes' \cup unscheduled') = ring!Held(w) \cup nodes \cup unscheduled
         /\ ring!Held(w)' \cap (nodes' \cup unscheduled') = {} /\ nodes' \cap unscheduled' = {}
    BY <1>2, <1>5, <1>14, <1>16
  <1> QED
    BY <1>7, <1>8, <1>9, <1>10, <1>14, <1>15, <1>17, OneMoves

\* steal() copies a node, which need not be there any more.
LEMMA StealCopyKeeps ==
    ASSUME ring!IInv, NEW w \in Owners, ring!StealCopy(w)
    PROVE  ring!IInv'
  <1>1. ring!TypeOK /\ ring!LocalsExact(w) /\ ring!CopiesExact(w) /\ ring!HeldOnce(w)
    BY WorkerHas
  <1>2. /\ ringPc[w] = "copy" /\ ring!Copied(w) < want[w] /\ t' = [t EXCEPT ![w] = ring!Plus(@, 1)]
        /\ UNCHANGED <<head, tail, nodes, consumer, unscheduled, ringPc, list, h, victim, want, hand>>
    BY DEF ring!StealCopy
  <1>3. PICK v \in Owners \ {w} : v = victim[w]
    BY <1>1, <1>2 DEF ring!CopiesExact
  <1>4. /\ list[w] = <<>> /\ head[w] = tail[w] /\ hand[w] = None /\ ring!Live(w) = {}
        /\ ring!Lap(tail[w]) <= ring!Lap(t[w]) /\ ring!Copied(w) = ring!Lap(t[w]) - ring!Lap(tail[w])
    BY <1>2, TakingHas DEF ring!Copied
  <1>5. /\ ring!Lap(tail[w]) <= MaxLap /\ ring!Lap(h[w]) <= ring!Lap(head[v])
        /\ head[v] = h[w] =>
              /\ ring!Lap(h[w]) + want[w] <= ring!Lap(tail[v])
              /\ \A k \in 0 .. ring!Lap(t[w]) - ring!Lap(tail[w]) - 1 :
                    ring!Cell(w, ring!Lap(tail[w]) + k) = ring!Cell(v, ring!Lap(h[w]) + k)
    BY <1>1, <1>2, <1>3 DEF ring!CopiesExact, ring!LocalsExact
  <1>6. PICK a \in Nat, d \in Nat, b \in Nat, n \in 0 .. RingCapacity :
          /\ a = ring!Lap(tail[w]) /\ a = ring!Lap(head[w]) /\ d = ring!Lap(t[w]) /\ b = ring!Lap(h[w])
          /\ n = want[w] /\ a <= d /\ d < a + n /\ d < a + RingCapacity /\ d + 1 < IndexMod
    <2>1. PICK n \in 0 .. RingCapacity : n = want[w]
      BY <1>1, Laps
    <2>2. PICK a \in Nat, o \in Nat, b \in Nat, d \in Nat :
            a = ring!Lap(head[w]) /\ o = ring!Lap(tail[w]) /\ b = ring!Lap(h[w]) /\ d = ring!Lap(t[w])
      BY <1>1, LapValues
    <2>3. o = a /\ a <= MaxLap /\ a <= d /\ d - a < n
      BY <1>2, <1>4, <1>5, <2>1, <2>2
    <2>4. d < a + n /\ d < a + RingCapacity /\ d + 1 < IndexMod
      BY <2>3, BufferConstants
    <2> QED
      BY <2>1, <2>2, <2>3, <2>4
  <1>7. PICK c \in Nat : c = ring!Copied(w) /\ d = a + c
    BY <1>4, <1>6
  <1>8. PICK x : x = array[v][ring!Slot(h[w] + c)]
    OBVIOUS
  <1>9. array' = [array EXCEPT ![w][ring!Slot(t[w])] = x]
    BY <1>3, <1>7, <1>8 DEF ring!StealCopy
  <1>10. x = ring!Cell(v, b + c)
    BY <1>1, <1>6, <1>8, Laps, CellAt
  <1>11. x \in Nodes \cup {None}
    <2>1. ring!Slot(Start + (b + c)) \in 0 .. RingCapacity - 1
      BY SlotRange
    <2>2. array[v] \in [0 .. RingCapacity - 1 -> Nodes \cup {None}]
      BY <1>1 DEF ring!TypeOK
    <2> QED
      BY <1>10, <2>1, <2>2 DEF ring!Cell
  <1>12. ring!Lap(head[w]) <= ring!Lap(t[w]) /\ ring!Lap(t[w]) < ring!Lap(head[w]) + RingCapacity
    BY <1>6
  <1>13. /\ array' \in [Owners -> [0 .. RingCapacity - 1 -> Nodes \cup {None}]]
         /\ \A u \in Owners \ {w} : array'[u] = array[u]
         /\ \E f \in Nat : f = ring!Lap(t[w]) /\ ring!Cell(w, f)' = x
         /\ \A e \in ring!Lap(head[w]) .. ring!Lap(t[w]) - 1 : ring!Cell(w, e)' = ring!Cell(w, e)
    BY <1>1, <1>9, <1>11, <1>12, StoreAtEnd
  <1>14. /\ \A e \in a .. d - 1 : ring!Cell(w, e)' = ring!Cell(w, e)
         /\ ring!Cell(w, d)' = x
    BY <1>6, <1>13
  <1>15. ring!Plus(t[w], 1) \in ring!Indices /\ ring!Lap(ring!Plus(t[w], 1)) = d + 1
    BY <1>1, <1>6, Laps, LapPlus
  <1>16. ring!TypeOK'
    <2>1. t' \in [Owners -> ring!Indices]
      BY <1>1, <1>2, <1>15 DEF ring!TypeOK
    <2> QED
      BY <1>1, <1>2, <1>13, <2>1 DEF ring!TypeOK
  <1>17. (\A u \in Owners \ {w} : Same(u)) /\ t'[w] = ring!Plus(t[w], 1)
    BY <1>1, <1>2, <1>13 DEF ring!TypeOK, Same
  <1>18. ring!LocalsExact(w)'
    <2>1. a <= d + 1 /\ d + 1 <= a + RingCapacity
      BY <1>6, BufferConstants
    <2> QED
      BY <1>1, <1>2, <1>6, <1>15, <1>17, <2>1 DEF ring!LocalsExact
  <1>19. ring!CopiesExact(w)'
    <2>1. ring!Lap(t'[w]) = d + 1 /\ victim'[w] = v /\ h'[w] = h[w] /\ want'[w] = n /\ tail'[w] = tail[w]
          /\ head'[v] = head[v] /\ tail'[v] = tail[v] /\ 0 < n /\ d + 1 <= a + n
      BY <1>2, <1>3, <1>6, <1>15, <1>17
    <2>2. ASSUME head[v] = h[w], NEW k \in 0 .. (d + 1) - a - 1
          PROVE  ring!Cell(w, a + k)' = ring!Cell(v, b + k)'
      <3>1. ring!Cell(v, b + k)' = ring!Cell(v, b + k)
        BY <1>13 DEF ring!Cell
      <3>2. CASE k = c
        <4>1. a + k = d
          BY <1>7, <3>2
        <4> QED
          BY <1>10, <1>14, <3>1, <3>2, <4>1
      <3>3. CASE k # c
        <4>1. k \in 0 .. d - a - 1 /\ a + k \in a .. d - 1
          BY <1>6, <1>7, <3>3
        <4>2. ring!Cell(w, a + k) = ring!Cell(v, b + k)
          BY <1>5, <1>6, <2>2, <4>1
        <4> QED
          BY <1>14, <3>1, <4>1, <4>2
      <3> QED
        BY <3>2, <3>3
    <2>3. ring!Lap(h'[w]) <= ring!Lap(head'[v])
      BY <1>5, <2>1
    <2>4. head'[v] = h'[w] =>
              /\ ring!Lap(h'[w]) + n <= ring!Lap(tail'[v])
              /\ \A k \in 0 .. ring!Lap(t'[w]) - ring!Lap(tail'[w]) - 1 :
                    ring!Cell(w, a + k)' = ring!Cell(v, b + k)'
      BY <1>5, <1>6, <2>1, <2>2
    <2>5. a = ring!Lap(tail'[w]) /\ b = ring!Lap(h'[w])
      BY <1>6, <2>1
    <2> QED
      BY <1>2, <1>6, <2>1, <2>3, <2>4, <2>5 DEF ring!CopiesExact
  <1>20. ring!Live(w)' = {}
    <2>1. ring!Live(w)' = a .. a - 1
      BY <1>2, <1>6 DEF ring!Live, ring!End
    <2> QED
      BY <2>1
  <1>21. ring!InRing(w) = {} /\ ring!InRing(w)' = {} /\ ring!InList(w) = {} /\ ring!InList(w)' = {}
         /\ list'[w] = <<>> /\ hand'[w] = None
    BY <1>2, <1>4, <1>20 DEF ring!InRing, ring!InList
  <1>22. ring!Held(w) = {} /\ ring!Held(w)' = {}
    BY <1>4, <1>21 DEF ring!Held
  <1>23. ring!HeldOnce(w)'
    BY <1>20, <1>21, <1>22 DEF ring!HeldOnce
  <1>24. Forward(w)
    <2>1. ring!Lap(head[w]) .. ring!Lap(tail[w]) - 1 = {}
      BY <1>6
    <2> QED
      BY <1>1, <1>2, <2>1, Laps DEF Forward
  <1> QED
    BY <1>2, <1>16, <1>17, <1>18, <1>19, <1>22, <1>23, <1>24, WorkerHas, OneMoves

\* The nodes from b on in v's ring, and a part of w's ring that is a copy of them.
Stretch(v, b, n) == {ring!Cell(v, d) : d \in b .. b + n - 1}

Distinct(v, b, n) == \A d, e \in b .. b + n - 1 : ring!Cell(v, d) = ring!Cell(v, e) => d = e

CopyOf(w, a, v, b, n) == \A k \in 0 .. n - 1 : ring!Cell(w, a + k) = ring!Cell(v, b + k)

\* What a thief has copied and what its victim loses when it claims the copies.
LEMMA ClaimedNodes ==
    ASSUME ring!IInv, NEW w \in Owners, ringPc[w] = "copy", ring!Copied(w) = want[w],
           NEW v \in Owners \ {w}, v = victim[w], head[v] = h[w]
    PROVE  \E a \in Nat, b \in Nat, c \in Nat, m \in Nat, n \in 1 .. RingCapacity :
             /\ a = ring!Lap(tail[w]) /\ a + n = ring!Lap(t[w]) /\ n = want[w]
             /\ b = ring!Lap(head[v]) /\ c = ring!Lap(tail[v]) /\ b + n <= c /\ c < IndexMod
             /\ c <= b + RingCapacity /\ m = ring!Lap(ring!End(v)) /\ c <= m
             /\ CopyOf(w, a, v, b, n)
  <1>1. /\ ring!TypeOK /\ ring!LocalsExact(w) /\ ring!CopiesExact(w)
        /\ ring!LocalsExact(v) /\ ring!Lap(tail[v]) <= ring!Lap(head[v]) + RingCapacity
    BY WorkerHas
  <1>2. ring!Copied(w) = ring!Lap(t[w]) - ring!Lap(tail[w]) /\ ring!Lap(tail[w]) <= ring!Lap(t[w])
    BY TakingHas DEF ring!Copied
  <1>3. /\ 0 < want[w] /\ ring!Lap(h[w]) + want[w] <= ring!Lap(tail[v])
        /\ \A k \in 0 .. ring!Lap(t[w]) - ring!Lap(tail[w]) - 1 :
              ring!Cell(w, ring!Lap(tail[w]) + k) = ring!Cell(v, ring!Lap(h[w]) + k)
    BY <1>1 DEF ring!CopiesExact
  <1>4. PICK a \in Nat, b \in Nat, c \in Nat, n \in 1 .. RingCapacity :
             /\ a = ring!Lap(tail[w]) /\ a + n = ring!Lap(t[w]) /\ n = want[w] /\ n = ring!Lap(t[w]) - a
             /\ b = ring!Lap(head[v]) /\ c = ring!Lap(tail[v]) /\ b + n <= c /\ c < IndexMod
             /\ c <= b + RingCapacity
    <2>1. want[w] \in 1 .. RingCapacity
      BY <1>1, <1>3, Laps, BufferConstants
    <2>2. PICK n \in 1 .. RingCapacity : n = want[w]
      BY <2>1
    <2>3. PICK a \in Nat, b \in Nat, c \in Nat, d \in Nat :
            /\ a = ring!Lap(tail[w]) /\ b = ring!Lap(head[v]) /\ c = ring!Lap(tail[v]) /\ d = ring!Lap(t[w])
            /\ c < IndexMod
      BY <1>1, Laps
    <2>4. n = d - a /\ b + n <= c /\ c <= b + RingCapacity
      BY <1>1, <1>2, <1>3, <2>2, <2>3
    <2>5. a + n = d
      BY <2>4
    <2> QED
      BY <2>2, <2>3, <2>4, <2>5
  <1>5. PICK m \in Nat : m = ring!Lap(ring!End(v)) /\ c <= m
    <2>1. head[v] # tail[v]
      BY <1>4
    <2>2. ringPc[v] \in {"push"} \/ ring!End(v) = tail[v]
      BY <1>1, <2>1 DEF ring!LocalsExact, ring!End
    <2>3. ringPc[v] = "push" => ring!End(v) = t[v] /\ ring!Lap(tail[v]) <= ring!Lap(t[v])
      BY <1>1 DEF ring!LocalsExact, ring!End
    <2> QED
      BY <1>1, <1>4, <2>2, <2>3, Laps
  <1>6. CopyOf(w, a, v, b, n)
    BY <1>3, <1>4 DEF CopyOf
  <1> QED
    BY <1>4, <1>5, <1>6

\* n nodes from b on are in v's ring.
Claimable(v, b, c, m, n) == /\ b = ring!Lap(head[v]) /\ c = ring!Lap(tail[v]) /\ m = ring!Lap(ring!End(v))
                            /\ 0 < n /\ b + n <= c /\ c <= b + RingCapacity /\ c <= m

\* Nothing of v's moves but its head.
OnlyHead(v) == /\ tail'[v] = tail[v] /\ array'[v] = array[v] /\ ringPc'[v] = ringPc[v] /\ list'[v] = list[v]
               /\ h'[v] = h[v] /\ t'[v] = t[v] /\ victim'[v] = victim[v] /\ want'[v] = want[v]
               /\ hand'[v] = hand[v]

\* The victim after a claim.
LEMMA VictimKeeps ==
    ASSUME ring!IInv, NEW v \in Owners, NEW b \in Nat, NEW c \in Nat, NEW m \in Nat, NEW n \in Nat,
           Claimable(v, b, c, m, n), head'[v] \in ring!Indices, ring!Lap(head'[v]) = b + n, OnlyHead(v),
           NEW X, X = Stretch(v, b, n)
    PROVE  /\ ring!LocalsExact(v)' /\ ring!CopiesExact(v)' /\ ring!HeldOnce(v)' /\ Forward(v)
           /\ ring!Held(v)' = ring!Held(v) \ X /\ X \subseteq ring!Held(v) /\ X \subseteq ring!InRing(v)
  <1>1. ring!TypeOK /\ ring!LocalsExact(v) /\ ring!HeldOnce(v)
    BY WorkerHas
  <1>2. /\ tail'[v] = tail[v] /\ array'[v] = array[v] /\ ringPc'[v] = ringPc[v] /\ list'[v] = list[v]
        /\ h'[v] = h[v] /\ t'[v] = t[v] /\ hand'[v] = hand[v]
    BY DEF OnlyHead
  <1>3. /\ b = ring!Lap(head[v]) /\ c = ring!Lap(tail[v]) /\ m = ring!Lap(ring!End(v))
        /\ 0 < n /\ b + n <= c /\ c <= b + RingCapacity /\ c <= m
    BY DEF Claimable
  <1>4. ringPc[v] \in {"run", "push", "reload", "spill", "pop"}
    <2>1. head[v] # tail[v]
      BY <1>3
    <2>2. ringPc[v] \in ring!Labels
      BY <1>1 DEF ring!TypeOK
    <2> QED
      BY <1>1, <2>1, <2>2 DEF ring!LocalsExact, ring!Labels
  <1>5. ring!LocalsExact(v)'
    <2>1. b <= b + n /\ c <= (b + n) + RingCapacity
      BY <1>3, BufferConstants
    <2>2. ring!Lap(h[v]) <= b => ring!Lap(h[v]) <= b + n
      BY <1>1, Laps
    <2> QED
      BY <1>1, <1>2, <1>3, <1>4, <2>1, <2>2 DEF ring!LocalsExact
  <1>6. ring!CopiesExact(v)'
    BY <1>2, <1>4 DEF ring!CopiesExact
  <1>7. ring!Live(v) = b .. m - 1 /\ ring!Live(v)' = b + n .. m - 1
    <2>1. ring!End(v)' = ring!End(v)
      BY <1>2 DEF ring!End
    <2> QED
      BY <1>3, <2>1 DEF ring!Live
  <1>8. \A d : ring!Cell(v, d)' = ring!Cell(v, d)
    BY <1>2 DEF ring!Cell
  <1>9. \A d, e \in ring!Live(v) : ring!Cell(v, d) = ring!Cell(v, e) => d = e
    BY <1>1 DEF ring!HeldOnce
  <1>10. /\ b .. b + n - 1 \subseteq ring!Live(v) /\ ring!Live(v)' \subseteq ring!Live(v)
        /\ ring!Live(v) = ring!Live(v)' \cup (b .. b + n - 1)
        /\ \A d \in b .. b + n - 1 : d \notin ring!Live(v)'
    BY <1>3, <1>7
  <1>11. ring!InRing(v)' = {ring!Cell(v, d) : d \in ring!Live(v)'}
    BY <1>8 DEF ring!InRing
  <1>12. X \subseteq ring!InRing(v) /\ ring!InRing(v)' = ring!InRing(v) \ X
    <2>1. ring!InRing(v) = {ring!Cell(v, d) : d \in ring!Live(v)}
      BY DEF ring!InRing
    <2>2. X = {ring!Cell(v, d) : d \in b .. b + n - 1}
      BY DEF Stretch
    <2> QED
      BY <1>9, <1>10, <1>11, <2>1, <2>2
  <1>13. ring!InList(v)' = ring!InList(v)
    BY <1>2 DEF ring!InList
  <1>14. ring!Held(v)' = ring!Held(v) \ X
    <2>1. ring!InRing(v) \cap ring!InList(v) = {} /\ hand[v] \notin ring!InRing(v)
      BY <1>1 DEF ring!HeldOnce
    <2> QED
      BY <1>2, <1>12, <1>13, <2>1 DEF ring!Held
  <1>15. ring!HeldOnce(v)'
    <2>1. \A d, e \in ring!Live(v)' : ring!Cell(v, d)' = ring!Cell(v, e)' => d = e
      BY <1>8, <1>9, <1>10
    <2> QED
      BY <1>1, <1>2, <1>12, <1>13, <1>14, <2>1 DEF ring!HeldOnce
  <1>16. Forward(v)
    <2>1. b <= b + n /\ b # b + n
      BY <1>3
    <2>2. head'[v] # head[v]
      BY <1>3, <2>1
    <2> QED
      BY <1>1, <1>2, <1>3, <2>1, <2>2, Laps DEF Forward
  <1> QED
    BY <1>5, <1>6, <1>12, <1>14, <1>15, <1>16, HandFree

\* The thief after a claim.
LEMMA ThiefKeeps ==
    ASSUME ring!IInv, NEW w \in Owners, ringPc[w] = "copy", NEW a \in Nat, NEW n \in 1 .. RingCapacity,
           a = ring!Lap(tail[w]), a + n = ring!Lap(t[w]), NEW v \in Owners \ {w}, NEW b \in Nat,
           CopyOf(w, a, v, b, n), head'[w] = head[w], tail'[w] = tail[w], array'[w] = array[w], ringPc'[w] = "stolen",
           list'[w] = list[w], t'[w] = t[w], hand'[w] = hand[w],
           Stretch(v, b, n) \subseteq Nodes, Distinct(v, b, n)
    PROVE  /\ ring!LocalsExact(w)' /\ ring!CopiesExact(w)' /\ ring!HeldOnce(w)' /\ Forward(w)
           /\ ring!Held(w) = {} /\ ring!Held(w)' = Stretch(v, b, n)
  <1>1. ring!TypeOK /\ ring!LocalsExact(w)
    BY WorkerHas
  <1>2. /\ list[w] = <<>> /\ head[w] = tail[w] /\ hand[w] = None /\ ring!Live(w) = {}
        /\ ring!Lap(tail[w]) <= ring!Lap(t[w]) /\ ring!Lap(t[w]) <= ring!Lap(tail[w]) + RingCapacity
    BY TakingHas
  <1>3. ring!LocalsExact(w)'
    <2>1. a # a + n
      OBVIOUS
    <2>2. t[w] # tail[w]
      BY <2>1
    <2> QED
      BY <1>1, <1>2, <2>2, Laps, BufferConstants DEF ring!LocalsExact
  <1>4. ring!CopiesExact(w)'
    BY DEF ring!CopiesExact
  <1>5. ring!Live(w)' = a .. a + n - 1
    BY <1>2 DEF ring!Live, ring!End
  <1>6. \A d : ring!Cell(w, d)' = ring!Cell(w, d)
    BY DEF ring!Cell
  <1>7. \A d \in a .. a + n - 1 : /\ d - a \in 0 .. n - 1 /\ a + (d - a) = d
                                  /\ b + (d - a) \in b .. b + n - 1
    OBVIOUS
  <1>8. \A d \in a .. a + n - 1 : ring!Cell(w, d)' = ring!Cell(v, b + (d - a))
    BY <1>6, <1>7 DEF CopyOf
  <1>9. ring!InRing(w)' = Stretch(v, b, n)
    <2>1. ring!InRing(w)' = {ring!Cell(w, d)' : d \in a .. a + n - 1}
      BY <1>5 DEF ring!InRing
    <2>2. \A d \in a .. a + n - 1 : ring!Cell(w, d)' \in Stretch(v, b, n)
      BY <1>7, <1>8 DEF Stretch
    <2>3. \A e \in b .. b + n - 1 : a + (e - b) \in a .. a + n - 1 /\ b + ((a + (e - b)) - a) = e
      OBVIOUS
    <2>4. \A e \in b .. b + n - 1 : \E d \in a .. a + n - 1 : ring!Cell(w, d)' = ring!Cell(v, e)
      BY <1>8, <2>3
    <2> QED
      BY <2>1, <2>2, <2>4 DEF Stretch
  <1>10. ring!InList(w)' = {} /\ ring!InList(w) = {} /\ ring!InRing(w) = {}
    BY <1>2 DEF ring!InList, ring!InRing
  <1>11. ring!Held(w) = {} /\ ring!Held(w)' = Stretch(v, b, n)
    BY <1>2, <1>9, <1>10 DEF ring!Held
  <1>12. ring!HeldOnce(w)'
    <2>1. \A d, e \in ring!Live(w)' : ring!Cell(w, d)' = ring!Cell(w, e)' => d = e
      <3>1. ASSUME NEW d \in a .. a + n - 1, NEW e \in a .. a + n - 1, ring!Cell(w, d)' = ring!Cell(w, e)'
            PROVE  d = e
        <4>1. b + (d - a) = b + (e - a)
          BY <1>7, <1>8, <3>1 DEF Distinct
        <4> QED
          BY <4>1
      <3> QED
        BY <1>5, <3>1
    <2> QED
      BY <1>2, <1>9, <1>10, <1>11, <2>1, BufferConstants DEF ring!HeldOnce
  <1>13. Forward(w)
    BY <1>1, <1>6, Laps DEF Forward
  <1> QED
    BY <1>3, <1>4, <1>11, <1>12, <1>13

\* A claim that finds the head where it was.
LEMMA ClaimKeeps ==
    ASSUME ring!IInv, NEW w \in Owners, ringPc[w] = "copy", ring!Copied(w) = want[w],
           NEW v \in Owners \ {w}, v = victim[w], head[v] = h[w],
           head' = [head EXCEPT ![v] = ring!Plus(h[w], want[w])], ring!Goto(w, "stolen"),
           UNCHANGED <<tail, array, nodes, consumer, unscheduled, list, h, t, victim, want, hand>>
    PROVE  ring!IInv'
  <1>1. ring!TypeOK /\ "stolen" \in ring!Labels
    BY WorkerHas DEF ring!Labels
  <1>2. PICK a \in Nat, b \in Nat, c \in Nat, m \in Nat, n \in 1 .. RingCapacity :
             /\ a = ring!Lap(tail[w]) /\ a + n = ring!Lap(t[w]) /\ n = want[w]
             /\ b = ring!Lap(head[v]) /\ c = ring!Lap(tail[v]) /\ b + n <= c /\ c < IndexMod
             /\ c <= b + RingCapacity /\ m = ring!Lap(ring!End(v)) /\ c <= m
             /\ CopyOf(w, a, v, b, n)
    BY ClaimedNodes
  <1>3. PICK p \in ring!Indices : p = ring!Plus(h[w], want[w]) /\ ring!Lap(p) = b + n
    <2>1. PICK i \in ring!Indices : i = h[w] /\ ring!Lap(i) = b
      BY <1>1, <1>2, Laps
    <2>2. n \in Nat /\ ring!Lap(i) + n < IndexMod
      BY <1>2, <2>1, BufferConstants
    <2>3. ring!Plus(i, n) \in ring!Indices /\ ring!Lap(ring!Plus(i, n)) = ring!Lap(i) + n
      BY <2>2, LapPlus
    <2> QED
      BY <1>2, <2>1, <2>3
  <1>4. head' = [head EXCEPT ![v] = p]
    BY <1>3
  <1>5. ring!TypeOK'
    <2>1. head' \in [Owners -> ring!Indices]
      BY <1>1, <1>4 DEF ring!TypeOK
    <2> QED
      BY <1>1, <2>1, GotoIs DEF ring!TypeOK
  <1>6. /\ head'[v] = p /\ head'[w] = head[w] /\ ringPc'[w] = "stolen" /\ ringPc'[v] = ringPc[v]
        /\ \A u \in Owners \ {v, w} : Same(u)
    BY <1>1, <1>4, GotoIs DEF ring!TypeOK, Same
  <1>7. PICK X : X = Stretch(v, b, n)
    OBVIOUS
  <1>8. /\ ring!LocalsExact(v)' /\ ring!CopiesExact(v)' /\ ring!HeldOnce(v)' /\ Forward(v)
        /\ ring!Held(v)' = ring!Held(v) \ X /\ X \subseteq ring!Held(v) /\ X \subseteq ring!InRing(v)
    <2>1. n \in Nat /\ Claimable(v, b, c, m, n)
      BY <1>2 DEF Claimable
    <2>2. OnlyHead(v) /\ head'[v] \in ring!Indices /\ ring!Lap(head'[v]) = b + n
      BY <1>3, <1>6 DEF OnlyHead
    <2> QED
      BY <1>7, <2>1, <2>2, VictimKeeps
  <1>9. Distinct(v, b, n)
    <2>1. ring!Live(v) = b .. m - 1
      BY <1>2 DEF ring!Live
    <2>2. b + n <= m
      BY <1>2
    <2>3. b .. b + n - 1 \subseteq ring!Live(v)
      BY <2>1, <2>2
    <2> QED
      BY <2>3, WorkerHas DEF ring!HeldOnce, Distinct
  <1>10. X \subseteq Nodes
    BY <1>8, HandFree
  <1>11. /\ ring!LocalsExact(w)' /\ ring!CopiesExact(w)' /\ ring!HeldOnce(w)' /\ Forward(w)
         /\ ring!Held(w) = {} /\ ring!Held(w)' = X
    <2>1. /\ tail'[w] = tail[w] /\ array'[w] = array[w] /\ list'[w] = list[w]
          /\ t'[w] = t[w] /\ hand'[w] = hand[w]
      OBVIOUS
    <2>2. Stretch(v, b, n) \subseteq Nodes
      BY <1>7, <1>10
    <2> QED
      BY <1>2, <1>6, <1>7, <1>9, <2>1, <2>2, ThiefKeeps, SMTT(30)
  <1>12. \A u \in Owners : ring!Lap(head[u]) <= ring!Lap(tail[u]) /\ Forward(u)
    <2>1. ASSUME NEW u \in Owners \ {v, w} PROVE Forward(u)
      BY <1>1, <1>6, <2>1, Laps DEF Same, Forward, ring!Cell
    <2> QED
      BY <1>8, <1>11, <2>1, WorkerHas
  <1>13. \A u \in Owners : ring!LocalsExact(u)' /\ ring!CopiesExact(u)' /\ ring!HeldOnce(u)'
    <2>1. ASSUME NEW u \in Owners \ {v, w} PROVE ring!LocalsExact(u)' /\ ring!CopiesExact(u)' /\ ring!HeldOnce(u)'
      BY <1>1, <1>5, <1>6, <1>12, <2>1, WorkerHas, SameKeeps, CopiesStay
    <2> QED
      BY <1>8, <1>11, <2>1
  <1>14. \A u \in Owners \ {v, w} : ring!Held(u)' = ring!Held(u)
    BY <1>6, SameKeeps
  <1>15. ring!Partition'
    <2>1. /\ nodes \cap unscheduled = {}
          /\ \A u \in Owners : ring!Held(u) \cap (nodes \cup unscheduled) = {}
          /\ \A u, s \in Owners : u # s => ring!Held(u) \cap ring!Held(s) = {}
          /\ Nodes = nodes \cup unscheduled \cup UNION {ring!Held(u) : u \in Owners}
      BY DEF ring!IInv, ring!Partition
    <2>2. nodes' = nodes /\ unscheduled' = unscheduled
      OBVIOUS
    <2>3. \A u \in Owners : ring!Held(u)' \cap (nodes' \cup unscheduled') = {}
      BY <1>8, <1>11, <1>14, <2>1, <2>2
    <2>4. \A u, s \in Owners : u # s => ring!Held(u)' \cap ring!Held(s)' = {}
      <3>1. \A u \in Owners \ {v, w} : ring!Held(u)' \cap ring!Held(v)' = {} /\ ring!Held(u)' \cap ring!Held(w)' = {}
        BY <1>8, <1>11, <1>14, <2>1
      <3>2. ring!Held(v)' \cap ring!Held(w)' = {}
        BY <1>8, <1>11
      <3>3. \A u, s \in Owners \ {v, w} : u # s => ring!Held(u)' \cap ring!Held(s)' = {}
        BY <1>14, <2>1
      <3> QED
        BY <3>1, <3>2, <3>3
    <2>5. UNION {ring!Held(u)' : u \in Owners} = UNION {ring!Held(u) : u \in Owners}
      <3>1. PICK A, B : A = {ring!Held(u) : u \in Owners \ {v, w}} /\ B = {ring!Held(u)' : u \in Owners \ {v, w}}
        OBVIOUS
      <3>2. A = B
        BY <1>14, <3>1
      <3>3. UNION {ring!Held(u) : u \in Owners} = (UNION A) \cup ring!Held(v) \cup ring!Held(w)
        BY <3>1
      <3>4. UNION {ring!Held(u)' : u \in Owners} = (UNION B) \cup ring!Held(v)' \cup ring!Held(w)'
        BY <3>1
      <3> QED
        BY <1>8, <1>11, <3>2, <3>3, <3>4
    <2> QED
      BY <2>1, <2>2, <2>3, <2>4, <2>5 DEF ring!Partition
  <1> QED
    BY <1>5, <1>13, <1>15 DEF ring!IInv

\* steal() claims what it has copied: the nodes change hands, if the victim's head is
\* still where it was.
LEMMA StealClaimKeeps ==
    ASSUME ring!IInv, NEW w \in Owners, ring!StealClaim(w)
    PROVE  ring!IInv'
  <1>1. ring!TypeOK /\ ring!LocalsExact(w) /\ ring!CopiesExact(w) /\ ring!HeldOnce(w)
    BY WorkerHas
  <1>2. /\ ringPc[w] = "copy" /\ ring!Copied(w) = want[w]
        /\ UNCHANGED <<tail, array, nodes, consumer, unscheduled, list, h, t, victim, want, hand>>
    BY DEF ring!StealClaim, ring!locals
  <1>3. PICK v \in Owners \ {w} : v = victim[w]
    BY <1>1, <1>2 DEF ring!CopiesExact
  <1>4. /\ list[w] = <<>> /\ head[w] = tail[w] /\ hand[w] = None /\ ring!Live(w) = {}
        /\ ring!Lap(tail[w]) <= ring!Lap(t[w]) /\ ring!Copied(w) = ring!Lap(t[w]) - ring!Lap(tail[w])
    BY <1>2, TakingHas DEF ring!Copied
  <1>5. "head" \in ring!Labels /\ "stolen" \in ring!Labels
    BY DEF ring!Labels
  <1>6. CASE head[v] # h[w]
    <2>1. UNCHANGED head /\ ring!Goto(w, "head")
      BY <1>3, <1>6 DEF ring!StealClaim
    <2>2. ring!TypeOK'
      BY <1>1, <1>2, <1>5, <2>1, GotoIs DEF ring!TypeOK
    <2>3. (\A u \in Owners \ {w} : Same(u)) /\ ringPc'[w] = "head"
      BY <1>1, <1>2, <1>5, <2>1, GotoIs DEF Same
    <2>4. ring!LocalsExact(w)'
      BY <1>1, <1>2, <2>1, <2>3 DEF ring!LocalsExact
    <2>5. ring!CopiesExact(w)'
      BY <1>2, <1>3, <2>3 DEF ring!CopiesExact
    <2>6. ring!End(w)' = ring!End(w) /\ ring!Lap(tail[w]) <= ring!Lap(tail'[w])
      BY <1>1, <1>2, <2>3, Laps DEF ring!End
    <2> QED
      BY <1>2, <2>1, <2>2, <2>3, <2>4, <2>5, <2>6, NoneMoves
  <1>7. CASE head[v] = h[w]
    <2>1. head' = [head EXCEPT ![v] = ring!Plus(h[w], want[w])] /\ ring!Goto(w, "stolen")
      BY <1>3, <1>7 DEF ring!StealClaim
    <2> QED
      BY <1>2, <1>3, <1>7, <2>1, ClaimKeeps
  <1> QED
    BY <1>6, <1>7

-----------------------------------------------------------------------------
(* The invariant *)

\* At the start the rings are empty and all nodes are at rest.
LEMMA RingInit == ring!Init => ring!IInv
  <1>1. SUFFICES ASSUME ring!Init PROVE ring!IInv
    OBVIOUS
  <1>2. Start \in ring!Indices /\ 0 \in ring!Indices /\ 0 \in 0 .. RingCapacity /\ RingCapacity \in Nat
    BY BufferConstants, Zero DEF ring!Indices
  <1>3. ring!TypeOK
    <2>1. /\ head \in [Owners -> ring!Indices] /\ tail \in [Owners -> ring!Indices]
          /\ h \in [Owners -> ring!Indices] /\ t \in [Owners -> ring!Indices]
          /\ want \in [Owners -> 0 .. RingCapacity]
      BY <1>1, <1>2 DEF ring!Init
    <2>2. array \in [Owners -> [0 .. RingCapacity - 1 -> Nodes \cup {None}]]
      BY <1>1 DEF ring!Init
    <2>3. /\ nodes \subseteq Nodes /\ unscheduled \subseteq Nodes /\ consumer \in Owners \cup {None}
          /\ ringPc \in [Owners -> ring!Labels] /\ list \in [Owners -> Seq(Nodes)]
          /\ victim \in [Owners -> Owners \cup {None}] /\ hand \in [Owners -> Nodes \cup {None}]
      BY <1>1 DEF ring!Init, ring!Labels
    <2> QED
      BY <2>1, <2>2, <2>3 DEF ring!TypeOK
  <1>4. ASSUME NEW w \in Owners
        PROVE  /\ ring!LocalsExact(w) /\ ring!CopiesExact(w) /\ ring!HeldOnce(w) /\ ring!Held(w) = {}
    <2>1. /\ head[w] = Start /\ tail[w] = Start /\ ringPc[w] = "run" /\ list[w] = <<>> /\ hand[w] = None
      BY <1>1 DEF ring!Init
    <2>2. PICK a \in Nat : a = ring!Lap(Start)
      BY <1>2, LapIs
    <2>3. ring!Live(w) = {}
      <3>1. ring!Live(w) = a .. a - 1
        BY <2>1, <2>2 DEF ring!Live, ring!End
      <3> QED
        BY <3>1
    <2>4. ring!InRing(w) = {} /\ ring!InList(w) = {} /\ ring!Held(w) = {}
      BY <2>1, <2>3 DEF ring!InRing, ring!InList, ring!Held
    <2>5. ring!LocalsExact(w)
      BY <1>2, <2>1, <2>2 DEF ring!LocalsExact
    <2> QED
      BY <2>1, <2>3, <2>4, <2>5 DEF ring!CopiesExact, ring!HeldOnce
  <1>5. ring!Partition
    <2>1. nodes = {} /\ unscheduled = Nodes
      BY <1>1 DEF ring!Init
    <2> QED
      BY <1>4, <2>1 DEF ring!Partition
  <1> QED
    BY <1>3, <1>4, <1>5 DEF ring!IInv

\* Every step of a worker.
LEMMA RingStep ==
    ASSUME ring!IInv, NEW w \in Owners, ring!Step(w)
    PROVE  ring!IInv'
  <1>1. CASE ring!PushLoad(w)
    BY <1>1, PushLoadKeeps
  <1>2. CASE ring!PushStore(w)
    BY <1>2, PushStoreKeeps
  <1>3. CASE ring!PushPublish(w)
    BY <1>3, PushPublishKeeps
  <1>4. CASE ring!PushReload(w)
    BY <1>4, PushReloadKeeps
  <1>5. CASE ring!Overflow(w)
    BY <1>5, OverflowKeeps
  <1>6. CASE ring!Spill(w)
    BY <1>6, SpillKeeps
  <1>7. CASE ring!PopLoad(w)
    BY <1>7, PopLoadKeeps
  <1>8. CASE ring!PopClaim(w)
    BY <1>8, PopClaimKeeps
  <1>9. CASE ring!PopNone(w)
    BY <1>9, PopNoneKeeps
  <1>10. CASE ring!ConsumeAcquire(w)
    BY <1>10, ConsumeAcquireKeeps
  <1>11. CASE ring!ConsumeStore(w)
    BY <1>11, ConsumeStoreKeeps
  <1>12. CASE ring!ConsumeStop(w)
    BY <1>12, ConsumeStopKeeps
  <1>13. CASE ring!ConsumeExtra(w)
    BY <1>13, ConsumeExtraKeeps
  <1>14. CASE ring!ConsumeLast(w)
    BY <1>14, ConsumeLastKeeps
  <1>15. CASE ring!ConsumePublish(w)
    BY <1>15, ConsumePublishKeeps
  <1>16. CASE \E v \in Owners : ring!StealFrom(w, v)
    BY <1>16, StealFromKeeps
  <1>17. CASE ring!StealHead(w)
    BY <1>17, StealHeadKeeps
  <1>18. CASE ring!StealTail(w)
    BY <1>18, StealTailKeeps
  <1>19. CASE ring!StealCopy(w)
    BY <1>19, StealCopyKeeps
  <1>20. CASE ring!StealClaim(w)
    BY <1>20, StealClaimKeeps
  <1>21. CASE ring!StealPublish(w)
    BY <1>21, StealPublishKeeps
  <1>22. CASE ring!Woken(w)
    BY <1>22, WokenKeeps
  <1> QED
    BY <1>1, <1>2, <1>3, <1>4, <1>5, <1>6, <1>7, <1>8, <1>9, <1>10, <1>11, <1>12, <1>13, <1>14,
       <1>15, <1>16, <1>17, <1>18, <1>19, <1>20, <1>21, <1>22 DEF ring!Step

\* A step that leaves the rings alone.
LEMMA RingIdle ==
    ASSUME ring!IInv, UNCHANGED ringVars
    PROVE  ring!IInv'
  <1>1. ring!TypeOK'
    BY DEF ring!IInv, ring!TypeOK, ringVars
  <1>2. \A w \in Owners : Same(w)
    BY DEF Same, ringVars
  <1>3. ASSUME NEW w \in Owners
        PROVE  ring!LocalsExact(w)' /\ ring!CopiesExact(w)' /\ ring!HeldOnce(w)' /\ ring!Held(w)' = ring!Held(w)
    <2>1. \A u \in Owners : ring!Lap(head[u]) <= ring!Lap(tail[u]) /\ Forward(u)
      BY WorkerHas, Laps DEF Forward, ringVars, ring!Cell
    <2> QED
      BY <1>1, <1>2, <2>1, WorkerHas, SameKeeps, CopiesStay
  <1>4. ring!Partition'
    <2>1. UNION {ring!Held(w)' : w \in Owners} = UNION {ring!Held(w) : w \in Owners}
      BY <1>3
    <2> QED
      BY <1>3, <2>1 DEF ring!IInv, ring!Partition, ringVars
  <1> QED
    BY <1>1, <1>3, <1>4 DEF ring!IInv

\* The pool's own steps leave the rings alone; those of the rings keep the invariant.
LEMMA RingNext ==
    ASSUME ring!IInv, [NextBoth]_allVars
    PROVE  ring!IInv'
  <1>1. CASE UNCHANGED ringVars
    BY <1>1, RingIdle
  <1>2. CASE ring!Next
    BY <1>2, ScheduleKeeps, RingStep DEF ring!Next
  <1> QED
    BY <1>1, <1>2 DEF NextBoth, allVars

\* The rings, the lists in hand, the queue and the nodes at rest divide the nodes among
\* them, every local copy of an index is as good as its owner relies on, and a thief's
\* copies are what its claim needs them to be: whatever the interleaving of push(), pop(),
\* consume() and steal().
THEOREM BufferInvariant == SpecBoth => []ring!IInv
  <1>1. InitBoth => ring!IInv
    BY RingInit DEF InitBoth
  <1>2. ring!IInv /\ [NextBoth]_allVars => ring!IInv'
    BY RingNext
  <1> QED
    BY <1>1, <1>2, PTL DEF SpecBoth

-----------------------------------------------------------------------------
(* Every node in one place *)

\* Where a worker's ring ends, as seen from its head.
LEMMA EndIs ==
    ASSUME ring!IInv, NEW w \in Owners
    PROVE  \E a \in Nat, m \in Nat :
             /\ a = ring!Lap(head[w]) /\ m = ring!Lap(ring!End(w)) /\ a <= m
             /\ ring!Minus(ring!End(w), head[w]) = m - a /\ ring!Live(w) = a .. m - 1
  <1>1. ring!TypeOK /\ ring!LocalsExact(w) /\ ring!Lap(head[w]) <= ring!Lap(tail[w])
    BY WorkerHas
  <1>2. PICK e \in ring!Indices : e = ring!End(w)
    BY <1>1, Laps DEF ring!End
  <1>3. ring!Lap(tail[w]) <= ring!Lap(e)
    <2>1. ring!End(w) # tail[w] => ring!End(w) = t[w] /\ ring!Lap(tail[w]) <= ring!Lap(t[w])
      BY <1>1 DEF ring!LocalsExact, ring!End
    <2> QED
      BY <1>1, <1>2, <2>1, Laps
  <1>4. PICK a \in Nat, m \in Nat : a = ring!Lap(head[w]) /\ m = ring!Lap(e) /\ a <= m
    <2>1. ring!Lap(e) \in Nat
      BY LapIs
    <2> QED
      BY <1>1, <1>3, <2>1, Laps
  <1>5. ring!Minus(e, head[w]) = m - a
    BY <1>1, <1>4, Laps, LapMinus
  <1> QED
    BY <1>2, <1>4, <1>5 DEF ring!Live

\* Where a worker has a node: in its hand, in its list, in its ring.
HandAt(w, n) == IF hand[w] = n THEN {<<"hand", w, 0>>} ELSE {}

ListAt(w, n) == {<<"list", w, i>> : i \in {j \in DOMAIN list[w] : list[w][j] = n}}

RingAt(w, n) == {<<"ring", w, k>> : k \in {j \in 0 .. ring!Minus(ring!End(w), head[w]) - 1 :
                                                 array[w][ring!Slot(head[w] + j)] = n}}

PlacesAt(w, n) == HandAt(w, n) \cup ListAt(w, n) \cup RingAt(w, n)

\* The node is in the ring once, if at all.
LEMMA RingPlace ==
    ASSUME ring!IInv, NEW w \in Owners, NEW n
    PROVE  /\ n \notin ring!InRing(w) => RingAt(w, n) = {}
           /\ n \in ring!InRing(w) => \E k : RingAt(w, n) = {<<"ring", w, k>>}
  <1>1. PICK a \in Nat, m \in Nat :
             /\ a = ring!Lap(head[w]) /\ m = ring!Lap(ring!End(w)) /\ a <= m
             /\ ring!Minus(ring!End(w), head[w]) = m - a /\ ring!Live(w) = a .. m - 1
    BY EndIs
  <1>2. \A j \in 0 .. (m - a) - 1 : array[w][ring!Slot(head[w] + j)] = ring!Cell(w, a + j)
    <2>1. PICK i \in ring!Indices : i = head[w] /\ ring!Lap(i) = a
      BY <1>1, WorkerHas, Laps
    <2>2. ASSUME NEW j \in 0 .. (m - a) - 1
          PROVE  array[w][ring!Slot(i + j)] = ring!Cell(w, ring!Lap(i) + j)
      BY <2>2, CellAt
    <2> QED
      BY <2>1, <2>2
  <1>3. PICK J : J = {j \in 0 .. (m - a) - 1 : ring!Cell(w, a + j) = n}
    OBVIOUS
  <1>4. RingAt(w, n) = {<<"ring", w, k>> : k \in J}
    BY <1>1, <1>2, <1>3 DEF RingAt
  <1>5. n \in ring!InRing(w) <=> \E d \in a .. m - 1 : ring!Cell(w, d) = n
    BY <1>1 DEF ring!InRing
  <1>6. \A j \in 0 .. (m - a) - 1 : a + j \in a .. m - 1
    BY <1>1
  <1>7. CASE n \notin ring!InRing(w)
    <2>1. J = {}
      BY <1>3, <1>5, <1>6, <1>7
    <2> QED
      BY <1>4, <1>7, <2>1
  <1>8. CASE n \in ring!InRing(w)
    <2>1. PICK d \in a .. m - 1 : ring!Cell(w, d) = n
      BY <1>5, <1>8
    <2>2. d - a \in 0 .. (m - a) - 1 /\ a + (d - a) = d
      BY <1>1
    <2>3. \A j \in J : j = d - a
      <3>1. \A j \in J : j \in 0 .. (m - a) - 1 /\ ring!Cell(w, a + j) = ring!Cell(w, d)
        BY <1>3, <2>1
      <3>2. \A j \in J : a + j = d
        BY <1>1, <1>6, <3>1, WorkerHas DEF ring!HeldOnce
      <3> QED
        BY <3>1, <3>2
    <2>4. d - a \in J
      BY <1>3, <2>1, <2>2
    <2>5. J = {d - a}
      BY <2>3, <2>4
    <2>6. RingAt(w, n) = {<<"ring", w, d - a>>}
      BY <1>4, <2>5
    <2> QED
      BY <1>8, <2>6
  <1> QED
    BY <1>7, <1>8

\* The same of the list.
LEMMA ListPlace ==
    ASSUME ring!IInv, NEW w \in Owners, NEW n
    PROVE  /\ n \notin ring!InList(w) => ListAt(w, n) = {}
           /\ n \in ring!InList(w) => \E k : ListAt(w, n) = {<<"list", w, k>>}
  <1>1. PICK J : J = {j \in DOMAIN list[w] : list[w][j] = n}
    OBVIOUS
  <1>2. ListAt(w, n) = {<<"list", w, k>> : k \in J}
    BY <1>1 DEF ListAt
  <1>3. CASE n \notin ring!InList(w)
    <2>1. J = {}
      BY <1>1, <1>3 DEF ring!InList
    <2> QED
      BY <1>2, <1>3, <2>1
  <1>4. CASE n \in ring!InList(w)
    <2>1. PICK i \in DOMAIN list[w] : list[w][i] = n
      BY <1>4 DEF ring!InList
    <2>2. J = {i}
      BY <1>1, <2>1, WorkerHas DEF ring!HeldOnce
    <2>3. ListAt(w, n) = {<<"list", w, i>>}
      BY <1>2, <2>2
    <2> QED
      BY <1>4, <2>3
  <1> QED
    BY <1>3, <1>4

\* A worker that holds a node has it in one place, and one that does not in none.
LEMMA WorkerPlaces ==
    ASSUME ring!IInv, NEW w \in Owners, NEW n \in Nodes
    PROVE  /\ n \notin ring!Held(w) => PlacesAt(w, n) = {}
           /\ n \in ring!Held(w) => \E p : PlacesAt(w, n) = {p}
  <1>1. n # None
    BY BufferConstants
  <1>2. /\ ring!InRing(w) \cap ring!InList(w) = {} /\ hand[w] \notin ring!InRing(w)
        /\ (hand[w] # None => ring!InList(w) = {})
    <2>1. hand[w] # None => list[w] = <<>>
      BY WorkerHas DEF ring!LocalsExact
    <2> QED
      BY <2>1, WorkerHas DEF ring!HeldOnce, ring!InList
  <1>3. CASE n \notin ring!Held(w)
    <2>1. n \notin ring!InRing(w) /\ n \notin ring!InList(w) /\ hand[w] # n
      BY <1>1, <1>3 DEF ring!Held
    <2> QED
      BY <1>3, <2>1, RingPlace, ListPlace DEF PlacesAt, HandAt
  <1>4. CASE n \in ring!InRing(w)
    <2>1. n \in ring!Held(w) /\ n \notin ring!InList(w) /\ hand[w] # n
      BY <1>2, <1>4 DEF ring!Held
    <2>2. PICK k : RingAt(w, n) = {<<"ring", w, k>>}
      BY <1>4, RingPlace
    <2>3. PlacesAt(w, n) = {<<"ring", w, k>>}
      BY <2>1, <2>2, ListPlace DEF PlacesAt, HandAt
    <2> QED
      BY <2>1, <2>3
  <1>5. CASE n \in ring!InList(w)
    <2>1. n \in ring!Held(w) /\ n \notin ring!InRing(w) /\ hand[w] # n
      BY <1>1, <1>2, <1>5 DEF ring!Held
    <2>2. PICK k : ListAt(w, n) = {<<"list", w, k>>}
      BY <1>5, ListPlace
    <2>3. PlacesAt(w, n) = {<<"list", w, k>>}
      BY <2>1, <2>2, RingPlace DEF PlacesAt, HandAt
    <2> QED
      BY <2>1, <2>3
  <1>6. CASE hand[w] = n
    <2>1. n \in ring!Held(w) /\ n \notin ring!InRing(w) /\ n \notin ring!InList(w)
      BY <1>1, <1>2, <1>6 DEF ring!Held
    <2>2. PlacesAt(w, n) = {<<"hand", w, 0>>}
      BY <1>6, <2>1, RingPlace, ListPlace DEF PlacesAt, HandAt
    <2> QED
      BY <2>1, <2>2
  <1> QED
    BY <1>3, <1>4, <1>5, <1>6 DEF ring!Held

\* The places are those in the queue, at rest, and at each worker.
LEMMA PlacesAre ==
    ASSUME NEW n
    PROVE  ring!Places(n) = (IF n \in unscheduled THEN {<<"unscheduled", None, 0>>} ELSE {})
                            \cup (IF n \in nodes THEN {<<"queue", None, 0>>} ELSE {})
                            \cup UNION {PlacesAt(w, n) : w \in Owners}
  <1>1. PICK U, Q : /\ U = (IF n \in unscheduled THEN {<<"unscheduled", None, 0>>} ELSE {})
                    /\ Q = (IF n \in nodes THEN {<<"queue", None, 0>>} ELSE {})
    OBVIOUS
  <1>2. ASSUME NEW p
        PROVE  p \in ring!Places(n) <=> p \in U \cup Q \cup UNION {PlacesAt(w, n) : w \in Owners}
    <2>1. p \in ring!Places(n) <=> \/ p \in U \/ p \in Q
                                   \/ p \in {<<"hand", w, 0>> : w \in {v \in Owners : hand[v] = n}}
                                   \/ \E w \in Owners : p \in ListAt(w, n)
                                   \/ \E w \in Owners : p \in RingAt(w, n)
      BY <1>1 DEF ring!Places, ListAt, RingAt
    <2>2. p \in {<<"hand", w, 0>> : w \in {v \in Owners : hand[v] = n}} <=> \E w \in Owners : p \in HandAt(w, n)
      BY DEF HandAt
    <2>3. p \in UNION {PlacesAt(w, n) : w \in Owners} <=> \E w \in Owners : p \in PlacesAt(w, n)
      OBVIOUS
    <2>4. \A w : p \in PlacesAt(w, n) <=> p \in HandAt(w, n) \/ p \in ListAt(w, n) \/ p \in RingAt(w, n)
      BY DEF PlacesAt
    <2> QED
      BY <2>1, <2>2, <2>3, <2>4
  <1>3. ring!Places(n) = U \cup Q \cup UNION {PlacesAt(w, n) : w \in Owners}
    BY <1>2
  <1> QED
    BY <1>1, <1>3

\* Cardinality in the instance is that of the library.
LEMMA PlacesCount == ASSUME NEW S PROVE ring!Cardinality(S) = Cardinality(S)
  BY DEF ring!Cardinality, Cardinality

\* A node is in one place.
LEMMA OnePlace ==
    ASSUME ring!IInv, NEW n \in Nodes
    PROVE  ring!Cardinality(ring!Places(n)) = 1
  <1>1. /\ nodes \cap unscheduled = {}
        /\ \A w \in Owners : ring!Held(w) \cap (nodes \cup unscheduled) = {}
        /\ \A v, w \in Owners : v # w => ring!Held(v) \cap ring!Held(w) = {}
        /\ Nodes = nodes \cup unscheduled \cup UNION {ring!Held(w) : w \in Owners}
    BY DEF ring!IInv, ring!Partition
  <1>2. \E p : ring!Places(n) = {p}
    <2>1. CASE n \in nodes \cup unscheduled
      <3>1. \A w \in Owners : PlacesAt(w, n) = {}
        BY <1>1, <2>1, WorkerPlaces
      <3>2. UNION {PlacesAt(w, n) : w \in Owners} = {}
        BY <3>1
      <3>3. CASE n \in nodes
        <4>1. ring!Places(n) = {<<"queue", None, 0>>}
          BY <1>1, <3>2, <3>3, PlacesAre
        <4> QED
          BY <4>1
      <3>4. CASE n \in unscheduled
        <4>1. ring!Places(n) = {<<"unscheduled", None, 0>>}
          BY <1>1, <3>2, <3>4, PlacesAre
        <4> QED
          BY <4>1
      <3> QED
        BY <2>1, <3>3, <3>4
    <2>2. CASE n \notin nodes \cup unscheduled
      <3>1. PICK w \in Owners : n \in ring!Held(w)
        BY <1>1, <2>2
      <3>2. \A v \in Owners \ {w} : PlacesAt(v, n) = {}
        BY <1>1, <3>1, WorkerPlaces
      <3>3. PICK p : PlacesAt(w, n) = {p}
        BY <3>1, WorkerPlaces
      <3>4. UNION {PlacesAt(v, n) : v \in Owners} = PlacesAt(w, n)
        BY <3>2
      <3>5. ring!Places(n) = {p}
        BY <2>2, <3>3, <3>4, PlacesAre
      <3> QED
        BY <3>5
    <2> QED
      BY <2>1, <2>2
  <1>3. PICK p : ring!Places(n) = {p}
    BY <1>2
  <1>4. Cardinality({p}) = 1
    BY FS_Singleton
  <1> QED
    BY <1>3, <1>4, PlacesCount

\* The bounds that the debug_asserts state.
LEMMA BoundsHold == ring!IInv => ring!RingBounds
  <1>1. SUFFICES ASSUME ring!IInv, NEW w \in Owners
                 PROVE  /\ ring!Size(w) <= RingCapacity
                        /\ ringPc[w] \in {"seek", "consume", "extra", "consumed", "head", "tail", "copy", "stolen"}
                           => ring!Size(w) = 0
                        /\ ringPc[w] \in {"pop", "push"} => ring!Minus(tail[w], h[w]) <= RingCapacity
    BY DEF ring!RingBounds
  <1>2. ring!TypeOK /\ ring!LocalsExact(w)
    BY <1>1, WorkerHas
  <1>3. PICK a \in Nat, b \in Nat, c \in Nat :
          a = ring!Lap(head[w]) /\ b = ring!Lap(tail[w]) /\ c = ring!Lap(h[w]) /\ a <= b /\ b <= a + RingCapacity
    BY <1>1, <1>2, WorkerHas, Laps
  <1>4. ring!Size(w) = b - a
    BY <1>2, <1>3, Laps, LapMinus DEF ring!Size
  <1>5. ring!Size(w) <= RingCapacity
    BY <1>3, <1>4, BufferConstants
  <1>6. ASSUME ringPc[w] \in {"seek", "consume", "extra", "consumed", "head", "tail", "copy", "stolen"}
        PROVE  ring!Size(w) = 0
    <2>1. head[w] = tail[w]
      BY <1>2, <1>6 DEF ring!LocalsExact
    <2> QED
      BY <1>3, <1>4, <2>1
  <1>7. ASSUME ringPc[w] \in {"pop", "push"} PROVE ring!Minus(tail[w], h[w]) <= RingCapacity
    <2>1. c <= a
      BY <1>2, <1>3, <1>7 DEF ring!LocalsExact
    <2>2. ring!Minus(tail[w], h[w]) = b - c
      BY <1>2, <1>3, <2>1, Laps, LapMinus
    <2>3. CASE ringPc[w] = "pop"
      <3>1. b <= c + RingCapacity
        BY <1>2, <1>3, <2>3 DEF ring!LocalsExact
      <3> QED
        BY <2>2, <3>1, BufferConstants
    <2>4. CASE ringPc[w] = "push"
      <3>1. ring!Lap(tail[w]) <= ring!Lap(t[w]) /\ ring!Lap(t[w]) <= ring!Lap(h[w]) + RingCapacity
        BY <1>2, <2>4 DEF ring!LocalsExact
      <3>2. PICK d \in Nat : d = ring!Lap(t[w])
        BY <1>2, Laps
      <3> QED
        BY <1>3, <2>2, <3>1, <3>2, BufferConstants
    <2> QED
      BY <1>7, <2>3, <2>4
  <1> QED
    BY <1>5, <1>6, <1>7

\* No task is lost and none runs twice: every node is in one place and one only, and the
\* rings keep the bounds that push(), pop(), consume() and steal() assert.
THEOREM EveryNodeInOnePlace == SpecBoth => []EveryNodeOnce
  <1>1. ring!IInv => EveryNodeOnce
    BY BoundsHold, OnePlace DEF EveryNodeOnce, ring!EveryNodeOnce
  <1> QED
    BY <1>1, BufferInvariant, PTL

-----------------------------------------------------------------------------
(* steal() that returns None *)

\* Half of what the thief sees is nothing only if it sees nothing.
LEMMA NoneSeesEmpty ==
    ASSUME ring!IInv, NEW w \in Owners, ring!StealTail(w), ringPc'[w] = "seek"
    PROVE  ring!Size(victim[w]) = 0
  <1>1. ringPc[w] = "tail" /\ ring!TypeOK
    BY WorkerHas DEF ring!StealTail
  <1>2. ring!StealSize(ring!Seen(w)) = 0
    <2>1. \A l \in ring!Labels : ring!Goto(w, l) => ringPc'[w] = l
      BY <1>1, GotoIs
    <2>2. "head" \in ring!Labels /\ "copy" \in ring!Labels /\ "head" # "seek" /\ "copy" # "seek"
      BY DEF ring!Labels
    <2> QED
      BY <2>1, <2>2 DEF ring!StealTail
  <1>3. PICK v \in Owners : v = victim[w]
    BY <1>1, SeenIs
  <1>4. /\ ring!Lap(h[w]) <= ring!Lap(head[v]) /\ ring!Lap(head[v]) <= ring!Lap(tail[v])
        /\ ring!Seen(w) \in Nat /\ ring!Seen(w) = ring!Lap(tail[v]) - ring!Lap(h[w])
    BY <1>1, <1>3, SeenIs
  <1>5. ring!Seen(w) = 0
    <2>1. PICK k \in Nat : k = ring!Seen(w)
      BY <1>4
    <2>2. k - k \div 2 = 0
      BY <1>2, <2>1 DEF ring!StealSize
    <2>3. k = 0
      BY <2>2
    <2> QED
      BY <2>1, <2>3
  <1>6. ring!Lap(tail[v]) - ring!Lap(head[v]) = 0
    BY <1>1, <1>4, <1>5, Laps
  <1>7. ring!Size(v) = ring!Lap(tail[v]) - ring!Lap(head[v])
    BY <1>1, <1>4, Laps, LapMinus DEF ring!Size
  <1> QED
    BY <1>3, <1>6, <1>7

\* A step moves the program counter of its worker only.
LEMMA StepMoves ==
    ASSUME NEW w \in Owners, ring!Step(w)
    PROVE  ringPc' = ringPc \/ \E l : ring!Goto(w, l)
  <1>1. \A l : ring!Return(w, l) => ring!Goto(w, l)
    BY DEF ring!Return
  <1>2. ring!PushLoad(w) \/ ring!PushReload(w) \/ ring!PopLoad(w) \/ ring!ConsumeAcquire(w) \/ ring!ConsumeStop(w)
        \/ ring!ConsumeExtra(w) \/ ring!ConsumeLast(w) \/ ring!StealHead(w) \/ ring!StealClaim(w) \/ ring!Woken(w)
        \/ (\E v \in Owners : ring!StealFrom(w, v))
        => \E l : ring!Goto(w, l)
    BY DEF ring!PushLoad, ring!PushReload, ring!PopLoad, ring!ConsumeAcquire, ring!ConsumeStop, ring!ConsumeExtra,
           ring!ConsumeLast, ring!StealHead, ring!StealClaim, ring!Woken, ring!StealFrom
  <1>3. ring!PushPublish(w) \/ ring!Spill(w) \/ ring!PopNone(w) \/ ring!ConsumePublish(w) \/ ring!StealPublish(w)
        \/ ring!StealTail(w)
        => \E l : ring!Goto(w, l)
    BY <1>1 DEF ring!PushPublish, ring!Spill, ring!PopNone, ring!ConsumePublish, ring!StealPublish, ring!StealTail
  <1>4. ring!PushStore(w) \/ ring!ConsumeStore(w) \/ ring!StealCopy(w) => ringPc' = ringPc
    BY DEF ring!PushStore, ring!ConsumeStore, ring!StealCopy
  <1>5. ring!Overflow(w) \/ ring!PopClaim(w) => ringPc' = ringPc \/ \E l : ring!Goto(w, l)
    BY <1>1 DEF ring!Overflow, ring!PopClaim
  <1> QED
    BY <1>2, <1>3, <1>4, <1>5 DEF ring!Step

\* A thief that has looked at a head looks at the tail next.
LEMMA TailNext ==
    ASSUME NEW w \in Owners, ring!Step(w), ringPc[w] = "tail"
    PROVE  ring!StealTail(w)
  BY DEF ring!Step, ring!PushLoad, ring!PushStore, ring!PushPublish, ring!PushReload, ring!Overflow, ring!Spill,
         ring!PopLoad, ring!PopClaim, ring!PopNone, ring!ConsumeAcquire, ring!ConsumeStore, ring!ConsumeStop,
         ring!ConsumeExtra, ring!ConsumeLast, ring!ConsumePublish, ring!StealFrom, ring!StealHead, ring!StealCopy,
         ring!StealClaim, ring!StealPublish, ring!Woken

\* What makes a thief that has looked at a head give up is StealTail.
LEMMA OnlyStealTail ==
    ASSUME ring!IInv, [NextBoth]_allVars, NEW w \in Owners, ringPc[w] = "tail", ringPc'[w] = "seek"
    PROVE  ring!StealTail(w)
  <1>1. ring!TypeOK
    BY WorkerHas
  <1>2. ringPc' # ringPc
    OBVIOUS
  <1>3. ring!Next /\ ~ring!Schedule
    BY <1>2 DEF NextBoth, allVars, ringVars, ring!Schedule
  <1>4. PICK u \in Owners : ring!Step(u)
    BY <1>3 DEF ring!Next
  <1>5. PICK l : ring!Goto(u, l)
    BY <1>2, <1>4, StepMoves
  <1>6. u = w
    BY <1>1, <1>5 DEF ring!TypeOK, ring!Goto
  <1> QED
    BY <1>4, <1>6, TailNext

\* steal() returns None only if its victim's ring is empty at that instant.
THEOREM NoneFromEmpty == SpecBoth => NoneMeansEmpty
  <1>1. ring!IInv /\ [NextBoth]_allVars
        => [\A w \in Owners : ringPc[w] = "tail" /\ ringPc'[w] = "seek" => ring!Size(victim[w]) = 0]_(ring!vars)
    BY OnlyStealTail, NoneSeesEmpty
  <1> QED
    BY <1>1, BufferInvariant, PTL DEF SpecBoth, NoneMeansEmpty, ring!NoneMeansEmpty
=============================================================================
