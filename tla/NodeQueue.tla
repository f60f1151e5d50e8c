----------------------------- MODULE NodeQueue ------------------------------
(***************************************************************************)
(* node::Queue of ThreadPool.rs: producers push lists of nodes on a stack, *)
(* one consumer at a time takes the stack over as its cache.  The word has *)
(* the top of the stack, HAS_CACHE and IS_CONSUMING; a node is free to be  *)
(* pushed again as soon as it was popped.                                  *)
(***************************************************************************)
EXTENDS Naturals, Sequences, FiniteSets

CONSTANTS Nodes, Producers, Consumers,
          MaxList,    \* bound: nodes pushed in one call
          Null

NodeQueueAssumption == /\ Null \notin Nodes
                       /\ IsFiniteSet(Nodes)
                       /\ MaxList \in Nat \ {0}

VARIABLES stack,     \* [ptr, cached, consuming]
          cache,
          next,      \* each node's link
          list,      \* the list each producer is pushing
          snap,      \* its last load of stack
          inside,    \* consumers that hold a Consumer
          cur,       \* the Consumer's cache pointer
          pc,        \* of each consumer
          pushed,    \* history: the nodes on the stack, from its top
          batch      \* history: the nodes that a consumer took over and has not popped

history == <<pushed, batch>>
vars == <<stack, cache, next, list, snap, inside, cur, pc, history>>

Empty == [ptr |-> Null, cached |-> FALSE, consuming |-> FALSE]

Init == /\ stack = Empty
        /\ cache = Null
        /\ next = [n \in Nodes |-> Null]
        /\ list = [p \in Producers |-> <<>>]
        /\ snap = [p \in Producers |-> Empty]
        /\ inside = {}
        /\ cur = Null
        /\ pc = [c \in Consumers |-> "out"]
        /\ pushed = <<>> /\ batch = <<>>

Elements(s) == {s[i] : i \in DOMAIN s}

InHand == UNION {Elements(list[p]) : p \in Producers}
queued == Elements(pushed) \cup Elements(batch)

Free == Nodes \ (queued \cup InHand)

-----------------------------------------------------------------------------
(* push() *)

\* The caller's list, linked from its head to its tail.
Begin(p) == /\ list[p] = <<>>
            /\ \E k \in 1 .. MaxList : \E l \in [1 .. k -> Free] :
                 /\ \A i, j \in 1 .. k : i # j => l[i] # l[j]
                 /\ list' = [list EXCEPT ![p] = l]
                 /\ next' = [n \in Nodes |->
                               IF \E i \in 1 .. k - 1 : l[i] = n
                               THEN l[(CHOOSE i \in 1 .. k - 1 : l[i] = n) + 1]
                               ELSE IF n = l[k] THEN stack.ptr ELSE next[n]]
            /\ snap' = [snap EXCEPT ![p] = stack]
            /\ UNCHANGED <<stack, cache, inside, cur, pc, history>>

Last(p) == list[p][Len(list[p])]

\* The compare-exchange, or a new load and a new link for the tail.
Push(p) == /\ list[p] # <<>>
           /\ IF stack = snap[p]
              THEN /\ stack' = [stack EXCEPT !.ptr = list[p][1]]
                   /\ pushed' = list[p] \o pushed
                   /\ list' = [list EXCEPT ![p] = <<>>]
                   /\ snap' = [snap EXCEPT ![p] = Empty]
                   /\ UNCHANGED next
              ELSE /\ snap' = [snap EXCEPT ![p] = stack]
                   /\ next' = [next EXCEPT ![Last(p)] = stack.ptr]
                   /\ UNCHANGED <<stack, pushed, list>>
           /\ UNCHANGED <<cache, inside, cur, pc, batch>>

(* try_acquire_consumer(): what it does depends on the word alone *)

MayConsume == ~stack.consuming /\ (stack.cached \/ stack.ptr # Null)

Acquire(c) == /\ pc[c] = "out" /\ MayConsume
              /\ stack' = [ptr       |-> IF stack.cached THEN stack.ptr ELSE Null,
                           cached    |-> TRUE,
                           consuming |-> TRUE]
              /\ cur' = IF cache # Null THEN cache ELSE stack.ptr
              /\ inside' = inside \cup {c}
              /\ pc' = [pc EXCEPT ![c] = "pop"]
              /\ IF stack.cached THEN UNCHANGED history ELSE batch' = pushed /\ pushed' = <<>>
              /\ UNCHANGED <<cache, next, list, snap>>

(* Consumer::pop() *)

PopCache(c) == /\ pc[c] \in {"pop", "more"} /\ cur # Null
               /\ cur' = next[cur]
               /\ batch' = Tail(batch)
               /\ pc' = [pc EXCEPT ![c] = "more"]
               /\ UNCHANGED <<stack, cache, next, list, snap, inside, pushed>>

\* Nothing cached: look at the stack, and at nothing more if it is empty.
PopLook(c) == /\ pc[c] \in {"pop", "more"} /\ cur = Null
              /\ pc' = [pc EXCEPT ![c] = IF stack.ptr = Null THEN "none" ELSE "swap"]
              /\ UNCHANGED <<stack, cache, next, list, snap, inside, cur, history>>

\* Slip: the rest of the stack stays where it is.
PopSwapOne(c) == /\ pc[c] = "swap"
                 /\ stack' = [stack EXCEPT !.ptr = next[stack.ptr]]
                 /\ cur' = next[stack.ptr]
                 /\ batch' = Tail(pushed) /\ pushed' = Tail(pushed)
                 /\ pc' = [pc EXCEPT ![c] = "more"]
                 /\ UNCHANGED <<cache, next, list, snap, inside>>

PopSwap(c) == /\ pc[c] = "swap"
              /\ stack' = [ptr |-> Null, cached |-> TRUE, consuming |-> TRUE]
              /\ cur' = next[stack.ptr]
              /\ batch' = Tail(pushed) /\ pushed' = <<>>
              /\ pc' = [pc EXCEPT ![c] = "more"]
              /\ UNCHANGED <<cache, next, list, snap, inside>>

(* Drop: release_consumer(), after one pop or more *)

KeepsCache == cur # Null

Release(c) == /\ pc[c] \in {"more", "none"}
              /\ cache' = cur
              /\ pc' = [pc EXCEPT ![c] = "release"]
              /\ UNCHANGED <<stack, next, list, snap, inside, cur, history>>

ReleaseSub(c) == /\ pc[c] = "release"
                 /\ stack' = [stack EXCEPT !.consuming = FALSE, !.cached = KeepsCache]
                 /\ cur' = Null
                 /\ inside' = inside \ {c}
                 /\ pc' = [pc EXCEPT ![c] = "out"]
                 /\ UNCHANGED <<cache, next, list, snap, history>>

-----------------------------------------------------------------------------
Consume(c) == \/ PopCache(c) \/ PopLook(c) \/ PopSwap(c) \/ ReleaseSub(c)

Next == \/ \E p \in Producers : Begin(p) \/ Push(p)
        \/ \E c \in Consumers : Acquire(c) \/ Consume(c) \/ Release(c)

Spec == Init /\ [][Next]_vars

\* A call of push() goes on; a consumer pops until there is nothing, and another
\* one comes while there is something (a worker's pop(), or drain_idle_events()).
Fairness == /\ \A p \in Producers : WF_vars(Push(p))
            /\ \A c \in Consumers : WF_vars(Consume(c) \/ (pc[c] = "none" /\ Release(c)))
            /\ WF_vars(\E c \in Consumers : Acquire(c))

FairSpec == Spec /\ Fairness

-----------------------------------------------------------------------------
Words == [ptr: Nodes \cup {Null}, cached: BOOLEAN, consuming: BOOLEAN]

\* Consumer::pop() swaps only a stack that has a node to take: it follows the pointer
\* it gets without another look.
TypeOK == /\ stack \in Words
          /\ cache \in Nodes \cup {Null} /\ cur \in Nodes \cup {Null}
          /\ next \in [Nodes -> Nodes \cup {Null}]
          /\ list \in [Producers -> Seq(Nodes)]
          /\ snap \in [Producers -> Words]
          /\ pc \in [Consumers -> {"out", "pop", "more", "swap", "none", "release"}]
          /\ inside = {c \in Consumers : pc[c] # "out"}
          /\ \A c \in Consumers : pc[c] = "swap" => stack.ptr # Null
          /\ pushed \in Seq(Nodes) /\ batch \in Seq(Nodes)

\* At most one thread is a consumer: it alone reads and writes the plain cache field.
ConsumersExclude == /\ \A c, d \in inside : c = d
                    /\ stack.consuming <=> inside # {}

\* From ptr the links lead through the nodes of s, in this order, to last.
Leads(ptr, s, last) ==
    /\ ptr = IF s = <<>> THEN last ELSE s[1]
    /\ \A i \in DOMAIN s : next[s[i]] = IF i = Len(s) THEN last ELSE s[i + 1]

Cached == IF inside = {} THEN cache ELSE cur

Apart(s, t) == \A i \in DOMAIN s, j \in DOMAIN t : s[i] # t[j]
Distinct(s) == \A i, j \in DOMAIN s : s[i] = s[j] => i = j

\* No node is lost, none is there twice: the stack and the cache are two chains that
\* end, have no node in common, and have every node that was pushed and not popped;
\* is_empty() and Err(Empty) are the truth.
ChainsExact == /\ Leads(stack.ptr, pushed, Null) /\ Leads(Cached, batch, Null)
               /\ Distinct(pushed) /\ Distinct(batch) /\ Apart(pushed, batch)
               /\ ~stack.cached /\ stack.ptr = Null => pushed = <<>> /\ batch = <<>>

\* The strengthening.  The lists in the hands of producers share no node, and each one's
\* tail leads to what its producer saw on top of the stack ...
ListsLinked ==
    \A p \in Producers : list[p] # <<>> =>
        /\ Leads(list[p][1], list[p], snap[p].ptr)
        /\ Distinct(list[p]) /\ Apart(list[p], pushed) /\ Apart(list[p], batch)
        /\ \A q \in Producers \ {p} : Apart(list[p], list[q])

\* ... HAS_CACHE tells whether there is a cache, and stays set under a consumer.
CacheKnown ==
    /\ IF inside = {} THEN stack.cached <=> cache # Null ELSE stack.cached
    /\ \A c \in Consumers : /\ pc[c] \in {"swap", "none"} => cur = Null
                            /\ pc[c] = "release" => cache = cur

IInv == TypeOK /\ ConsumersExclude /\ ChainsExact /\ ListsLinked /\ CacheKnown

\* What was pushed is popped.
Popped == \A n \in Nodes : n \in queued ~> n \notin queued
=============================================================================
