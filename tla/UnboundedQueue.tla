--------------------------- MODULE UnboundedQueue ---------------------------
(***************************************************************************)
(* unbounded_queue.rs: the intrusive multi-producer, single-consumer       *)
(* queue.  A producer swaps the back of the queue and only then links its  *)
(* items in, so the list has gaps that the consumer must wait out.  The    *)
(* caller owns a node again as soon as a pop returns it.                   *)
(*                                                                         *)
(* One action is one atomic access.  With one consumer a compare-exchange  *)
(* of front can fail only spuriously.                                      *)
(***************************************************************************)
EXTENDS Naturals, Sequences, FiniteSets, SequencesExt

CONSTANTS Nodes, Producers, Null,
          MaxRun      \* bound: items in one push_batch

QueueAssumption == Null \notin Nodes /\ MaxRun \in Nat \ {0}

VARIABLES front, back,   \* the queue's two atomics
          next,          \* the link of every node
          free,          \* nodes that belong to the callers
          pc,            \* where each producer is in push_batch()
          chain,         \* the items each producer pushes, first to last
          old,           \* each producer: old_back
          at,            \* where the consumer is in pop() or pop_batch()
          first, cursor, last, taken,     \* the consumer's locals
          out,           \* what the last pop() or pop_batch() returned
          items,         \* history: the items that got their place at the back of the
                         \* queue and have not been returned, in this order
          cut            \* history: how many of them pop_batch() has cut off to walk

producer == <<pc, chain, old>>
consumer == <<at, first, cursor, last, taken, out>>
history  == <<items, cut>>
vars == <<front, back, next, free, producer, consumer, history>>

Init == /\ front = Null /\ back = Null
        /\ next = [n \in Nodes |-> Null]
        /\ free = Nodes
        /\ pc = [p \in Producers |-> "idle"]
        /\ chain = [p \in Producers |-> <<>>]
        /\ old = [p \in Producers |-> Null]
        /\ at = "idle"
        /\ first = Null /\ cursor = Null /\ last = Null /\ taken = <<>>
        /\ out = <<>>
        /\ items = <<>> /\ cut = 0

-----------------------------------------------------------------------------
(* push_batch(): the chain is the caller's until back is swapped. *)

Runs == {s \in BoundedSeq(free, MaxRun) : s # <<>> /\ IsInjective(s)}

Chain(p) == /\ pc[p] = "idle"
            /\ \E s \in Runs :
                  /\ chain' = [chain EXCEPT ![p] = s]
                  /\ free' = free \ ToSet(s)
                  /\ next' = [n \in Nodes |->
                                IF \E i \in 1 .. Len(s) : s[i] = n
                                THEN LET i == CHOOSE j \in 1 .. Len(s) : s[j] = n
                                     IN  IF i = Len(s) THEN Null ELSE s[i + 1]
                                ELSE next[n]]
            /\ pc' = [pc EXCEPT ![p] = "swap"]
            /\ UNCHANGED <<front, back, old, consumer, history>>

SwapBack(p) == /\ pc[p] = "swap"
               /\ old' = [old EXCEPT ![p] = back]
               /\ back' = Last(chain[p])
               /\ pc' = [pc EXCEPT ![p] = "link"]
               /\ items' = items \o chain[p]
               /\ UNCHANGED <<front, next, free, chain, consumer, cut>>

\* Publish: through the old back's link, or through front if there was none.
LinkIn(p) == /\ pc[p] = "link"
             /\ IF old[p] # Null
                THEN next' = [next EXCEPT ![old[p]] = Head(chain[p])] /\ UNCHANGED front
                ELSE front' = Head(chain[p]) /\ UNCHANGED next
             /\ pc' = [pc EXCEPT ![p] = "idle"]
             /\ chain' = [chain EXCEPT ![p] = <<>>]
             /\ old' = [old EXCEPT ![p] = Null]
             /\ UNCHANGED <<back, free, consumer, history>>

-----------------------------------------------------------------------------
(* pop() *)

\* A call returns: its items are the caller's, and the locals are gone.
Return(run) == /\ out' = run
               /\ free' = free \cup ToSet(run)
               /\ at' = "idle"
               /\ first' = Null /\ cursor' = Null /\ last' = Null /\ taken' = <<>>
               /\ items' = SubSeq(items, Len(run) + 1, Len(items))
               /\ cut' = 0

Continue(label) == at' = label /\ UNCHANGED <<free, out, history>>

PopFront == /\ at = "idle"
            /\ IF front = Null
               THEN Return(<<>>)
               ELSE Continue("next") /\ first' = front /\ UNCHANGED <<cursor, last, taken>>
            /\ UNCHANGED <<front, back, next, producer>>

PopNext == /\ at = "next"
           /\ cursor' = next[first]
           /\ Continue("cas")
           /\ UNCHANGED <<front, back, next, producer, first, last, taken>>

\* front: first -> its successor.
PopCas == /\ at = "cas"
          /\ front' = cursor
          /\ IF cursor # Null
             THEN Return(<<first>>)
             ELSE Continue("clear") /\ UNCHANGED <<first, cursor, last, taken>>
          /\ UNCHANGED <<back, next, producer>>

PopCasFails == /\ at = "cas"
               /\ Continue("next")
               /\ UNCHANGED <<front, back, next, producer, first, cursor, last, taken>>

\* Slip: leave without waiting for the producer that is behind first.
PopClearReturns == /\ at = "clear"
                   /\ back' = IF back = first THEN Null ELSE back
                   /\ Return(<<first>>)
                   /\ UNCHANGED <<front, next, producer>>

\* first looked like the only item: clear back, unless a producer got there.
PopClear == /\ at = "clear"
            /\ IF back = first
               THEN back' = Null /\ Return(<<first>>)
               ELSE Continue("spin") /\ UNCHANGED <<back, first, cursor, last, taken>>
            /\ UNCHANGED <<front, next, producer>>

\* Wait for that producer to link itself in ...
PopSpin == /\ at = "spin"
           /\ next[first] # Null
           /\ cursor' = next[first]
           /\ Continue("restore")
           /\ UNCHANGED <<front, back, next, producer, first, last, taken>>

\* Slip: the item stays linked behind first only.
PopRestoreForgets == /\ at = "restore"
                     /\ Return(<<first>>)
                     /\ UNCHANGED <<front, back, next, producer>>

\* ... and put its item at the front.
PopRestore == /\ at = "restore"
              /\ front' = cursor
              /\ Return(<<first>>)
              /\ UNCHANGED <<back, next, producer>>

-----------------------------------------------------------------------------
(* pop_batch() *)

BatchFront == /\ at = "idle"
              /\ front' = Null
              /\ IF front = Null
                 THEN Return(<<>>)
                 ELSE Continue("back") /\ first' = front /\ UNCHANGED <<cursor, last, taken>>
              /\ UNCHANGED <<back, next, producer>>

BatchBack == /\ at = "back"
             /\ last' = back
             /\ back' = Null
             /\ cursor' = first
             /\ taken' = <<first>>
             /\ cut' = Len(items)
             /\ at' = "walk" /\ UNCHANGED <<free, out, items>>
             /\ UNCHANGED <<front, next, producer, first>>

\* Count the items up to last, waiting for the links that are not there yet.
BatchWalk == /\ at = "walk"
             /\ IF cursor = last
                THEN Return(taken)
                ELSE /\ next[cursor] # Null
                     /\ cursor' = next[cursor]
                     /\ taken' = Append(taken, cursor')
                     /\ Continue("walk")
                     /\ UNCHANGED <<first, last>>
             /\ UNCHANGED <<front, back, next, producer>>

-----------------------------------------------------------------------------
Push(p) == SwapBack(p) \/ LinkIn(p)

Pop == \/ PopFront \/ PopNext \/ PopCas \/ PopClear \/ PopSpin \/ PopRestore
       \/ BatchFront \/ BatchBack \/ BatchWalk

Next == Pop \/ PopCasFails \/ \E p \in Producers : Chain(p) \/ Push(p)

Spec == Init /\ [][Next]_vars

\* A push that began ends, the consumer keeps calling pop() or pop_batch(), and
\* compare_exchange_weak does not fail spuriously for ever.
Fairness == /\ WF_vars(Pop) /\ SF_vars(PopCas)
            /\ \A p \in Producers : WF_vars(Push(p))

FairSpec == Spec /\ Fairness

-----------------------------------------------------------------------------
Pointers == Nodes \cup {Null}

\* The pointers that pop() and pop_batch() follow without a test for null are not
\* null where they do.
TypeOK == /\ front \in Pointers /\ back \in Pointers
          /\ next \in [Nodes -> Pointers]
          /\ free \subseteq Nodes
          /\ pc \in [Producers -> {"idle", "swap", "link"}]
          /\ chain \in [Producers -> BoundedSeq(Nodes, MaxRun)]
          /\ \A p \in Producers : pc[p] # "idle" => chain[p] # <<>>
          /\ old \in [Producers -> Pointers]
          /\ at \in {"idle", "next", "cas", "clear", "spin", "restore", "back", "walk"}
          /\ first \in Pointers /\ cursor \in Pointers /\ last \in Pointers
          /\ at # "idle" => first # Null
          /\ at \in {"restore", "walk"} => cursor # Null
          /\ at = "walk" => last # Null
          /\ ToSet(taken) \subseteq Nodes /\ ToSet(out) \subseteq Nodes
          /\ items \in Seq(Nodes)

\* The producers that are about to write their first item into n's link, or into front.
Linking(n) == {p \in Producers : pc[p] = "link" /\ old[p] = n}

fifo == INSTANCE Fifo WITH Items <- Nodes, queue <- items

\* Nothing is lost, duplicated or reordered: every call of the consumer returns a
\* run from the front of the queue, and every push appends its whole chain, with
\* the swap of back as its only visible step.
RefinesFifo == fifo!Spec

\* A producer writes its link into a node that the consumer has not returned: the
\* reason for the spins in pop() and pop_batch().
NoWriteAfterReturn == \A p \in Producers : pc[p] = "link" => old[p] \notin free

\* pop() and pop_batch() say "empty" (front is null) of a queue that is_empty()
\* denies to be empty (back is not) only while the producer of the first item is
\* between its swap and its store, and so has yet to wake the consumer.  (A push
\* that is complete may be hidden behind it.)
EmptyOnlyBehindAPush ==
    at = "idle" /\ front = Null /\ back # Null => Linking(Null) # {}

\* The strengthening.  A node has one place: with the callers, in the chain of a producer
\* before its swap, or in the queue.
OnePlace ==
    /\ \A i, j \in DOMAIN items : items[i] = items[j] => i = j
    /\ \A i \in DOMAIN items : items[i] \notin free
    /\ \A p \in Producers : pc[p] = "swap" =>
          /\ \A i, j \in DOMAIN chain[p] : chain[p][i] = chain[p][j] => i = j
          /\ \A i \in DOMAIN chain[p] :
                /\ chain[p][i] \notin free
                /\ \A j \in DOMAIN items : items[j] # chain[p][i]
                /\ \A q \in Producers \ {p} : pc[q] = "swap" =>
                      \A j \in DOMAIN chain[q] : chain[q][j] # chain[p][i]

\* A chain is linked before its swap.
ChainLinked ==
    \A p \in Producers : pc[p] = "swap" =>
        \A i \in DOMAIN chain[p] :
            next[chain[p][i]] = IF i = Len(chain[p]) THEN Null ELSE chain[p][i + 1]

\* The producer's first item has the i-th place in the queue, and its link is to go into
\* the item before it, or into front if there was none.
LinksAt(p, i) == /\ pc[p] = "link" /\ items[i] = Head(chain[p])
                 /\ IF i = cut + 1 THEN old[p] = Null
                    ELSE i > 1 /\ old[p] = items[i - 1] /\ next[items[i - 1]] = Null

Ends == {cut, Len(items)}

\* Every item has the next one as its link, or a producer will write it there; those cut
\* off and the others end with null.
ItemsLinked ==
    /\ \A i \in DOMAIN items :
          IF i \in Ends THEN next[items[i]] = Null
          ELSE \/ next[items[i]] = items[i + 1]
               \/ next[items[i]] = Null /\ \E p \in Producers : LinksAt(p, i + 1)
    /\ \A p \in Producers : pc[p] = "link" => \E i \in DOMAIN items : LinksAt(p, i)
    /\ \A p, q \in Producers : pc[p] = "link" /\ pc[q] = "link" /\ old[p] = old[q] => p = q

\* back is the last item, and front the first one that is not cut off, unless its producer
\* has still to store it or pop() has taken it out for the time being.
EndsExact ==
    /\ cut \in 0 .. Len(items)
    /\ back = IF Len(items) = cut THEN Null ELSE items[Len(items)]
    /\ IF Len(items) = cut \/ at \in {"clear", "spin", "restore", "back"} THEN front = Null
       ELSE \/ front = items[cut + 1]
            \/ front = Null /\ Linking(Null) # {}
    /\ Linking(Null) # {} => front = Null /\ at \in {"idle", "walk"}

\* What the consumer has loaded is still so.
ConsumerKnows ==
    /\ at # "idle" => Len(items) > 0 /\ first = items[1]
    /\ at \in {"next", "cas"} => front = first
    /\ at = "cas" => cursor \in {Null, next[first]}
    /\ at = "restore" => cursor = next[first]
    /\ cut > 0 <=> at = "walk"
    /\ at = "walk" => /\ last = items[cut]
                      /\ Len(taken) \in 1 .. cut
                      /\ taken = SubSeq(items, 1, Len(taken))
                      /\ cursor = items[Len(taken)]
                      /\ \A i \in 1 .. Len(taken) - 1 : next[items[i]] # Null

IInv == TypeOK /\ OnePlace /\ ChainLinked /\ ItemsLinked /\ EndsExact /\ ConsumerKnows

\* Every item pushed is returned to a consumer that keeps polling.
Delivered == \A n \in Nodes : Contains(items, n) ~> n \in free
=============================================================================
