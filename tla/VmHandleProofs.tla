--------------------------- MODULE VmHandleProofs ---------------------------
(***************************************************************************)
(* A VM is destroyed only after everything that left its thread has come   *)
(* back, and its thread does not sleep through the return, for any number  *)
(* of tickets and of weak posters.                                         *)
(***************************************************************************)
EXTENDS VmHandle, FiniteSetTheorems, TLAPS

\* Where a holder has a ticket, and where a weak poster is inside.
TicketLabels == {"job", "posted", "notify", "wake", "give"}
InsideLabels == {"entered", "push", "posted", "notify", "wake", "give"}

-----------------------------------------------------------------------------
(* Counting *)

LEMMA SetsFinite ==
    ASSUME VmHandleAssumption
    PROVE  /\ IsFiniteSet(Ticketed) /\ Cardinality(Ticketed) \in Nat
           /\ IsFiniteSet(Inside) /\ Cardinality(Inside) \in Nat
  <1>1. Ticketed \subseteq Holders /\ Inside \subseteq Weak
    BY DEF Ticketed, Inside
  <1>2. IsFiniteSet(Ticketed) /\ IsFiniteSet(Inside)
    BY <1>1, FS_Subset DEF VmHandleAssumption
  <1> QED
    BY <1>2, FS_CardinalityType

\* A zero that the JS thread reads means that nobody has a ticket, or that nobody is inside.
LEMMA ZeroIsEmpty ==
    ASSUME VmHandleAssumption, CountsExact
    PROVE  (tickets = 0 => Ticketed = {}) /\ (active = 0 => Inside = {})
  BY SetsFinite, FS_EmptySet DEF CountsExact

LEMMA CountsSame ==
    ASSUME CountsExact, Ticketed' = Ticketed, Inside' = Inside, UNCHANGED <<tickets, active>>
    PROVE  CountsExact'
  BY DEF CountsExact

\* A step of the JS thread moves no other thread.
LEMMA JSCounts ==
    ASSUME CountsExact, UNCHANGED <<pc, tickets, active>>
    PROVE  CountsExact'
  <1>1. Ticketed' = Ticketed /\ Inside' = Inside
    BY DEF Ticketed, Inside
  <1> QED
    BY <1>1, CountsSame

\* A step of t that neither returns nor obtains a ticket or the right to be inside.
LEMMA MoveCounts ==
    ASSUME VmHandleAssumption, TypeOK, CountsExact, NEW t \in Threads, NEW l, Goto(t, l),
           t \in Holders => (pc[t] \in TicketLabels <=> l \in TicketLabels),
           t \in Weak => (pc[t] \in InsideLabels <=> l \in InsideLabels),
           UNCHANGED <<tickets, active>>
    PROVE  CountsExact'
  <1>1. pc' = [pc EXCEPT ![t] = l] /\ pc \in [Threads -> HolderLabels \cup WeakLabels]
    BY DEF Goto, TypeOK
  <1>2. Ticketed' = Ticketed
    BY <1>1 DEF Ticketed, TicketLabels, Threads
  <1>3. Inside' = Inside
    BY <1>1 DEF Inside, InsideLabels, Threads
  <1> QED
    BY <1>2, <1>3, CountsSame

\* t obtains a ticket.
LEMMA TicketMore ==
    ASSUME VmHandleAssumption, TypeOK, CountsExact, NEW t \in Holders, pc[t] = "new",
           Goto(t, "job"), tickets' = tickets + 1, active' = active
    PROVE  CountsExact'
  <1>1. pc' = [pc EXCEPT ![t] = "job"] /\ pc \in [Threads -> HolderLabels \cup WeakLabels]
    BY DEF Goto, TypeOK
  <1>2. t \notin Ticketed /\ Ticketed' = Ticketed \cup {t}
    BY <1>1 DEF Ticketed, Threads
  <1>3. Inside' = Inside
    BY <1>1 DEF Inside, Threads, VmHandleAssumption
  <1>4. Cardinality(Ticketed \cup {t}) = Cardinality(Ticketed) + 1
    BY <1>2, SetsFinite, FS_AddElement
  <1> QED
    BY <1>2, <1>3, <1>4 DEF CountsExact

\* t enters.
LEMMA InsideMore ==
    ASSUME VmHandleAssumption, TypeOK, CountsExact, NEW t \in Weak, pc[t] = "new",
           Goto(t, "entered"), active' = active + 1, tickets' = tickets
    PROVE  CountsExact'
  <1>1. pc' = [pc EXCEPT ![t] = "entered"] /\ pc \in [Threads -> HolderLabels \cup WeakLabels]
    BY DEF Goto, TypeOK
  <1>2. t \notin Inside /\ Inside' = Inside \cup {t}
    BY <1>1 DEF Inside, Threads
  <1>3. Ticketed' = Ticketed
    BY <1>1 DEF Ticketed, Threads, VmHandleAssumption
  <1>4. Cardinality(Inside \cup {t}) = Cardinality(Inside) + 1
    BY <1>2, SetsFinite, FS_AddElement
  <1> QED
    BY <1>2, <1>3, <1>4 DEF CountsExact

\* Drop for Ticket and for Access.
LEMMA GiveCounts ==
    ASSUME VmHandleAssumption, TypeOK, CountsExact, NEW t \in Threads, Give(t)
    PROVE  CountsExact'
  <1>1. \E l \in {"last", "done"} : pc' = [pc EXCEPT ![t] = l]
    BY DEF Give, Goto
  <1> PICK l \in {"last", "done"} : pc' = [pc EXCEPT ![t] = l]
    BY <1>1
  <1>2. pc[t] = "give" /\ pc \in [Threads -> HolderLabels \cup WeakLabels]
    BY DEF Give, TypeOK
  <1>ticket. CASE t \in Holders
    <2>1. t \in Ticketed /\ Ticketed' = Ticketed \ {t}
      BY <1>2, <1>ticket DEF Ticketed, Threads
    <2>2. Inside' = Inside
      BY <1>2, <1>ticket DEF Inside, Threads, VmHandleAssumption
    <2>3. Cardinality(Ticketed \ {t}) = Cardinality(Ticketed) - 1
      BY <2>1, SetsFinite, FS_RemoveElement
    <2> QED
      BY <1>ticket, <2>1, <2>2, <2>3 DEF CountsExact, Give
  <1>access. CASE t \notin Holders
    <2>1. t \in Inside /\ Inside' = Inside \ {t}
      BY <1>2, <1>access DEF Inside, Threads
    <2>2. Ticketed' = Ticketed
      BY <1>2, <1>access DEF Ticketed, Threads
    <2>3. Cardinality(Inside \ {t}) = Cardinality(Inside) - 1
      BY <2>1, SetsFinite, FS_RemoveElement
    <2> QED
      BY <1>access, <2>1, <2>2, <2>3 DEF CountsExact, Give
  <1> QED
    BY <1>ticket, <1>access

-----------------------------------------------------------------------------
(* The inductive invariant *)

LEMMA InitIInv == VmHandleAssumption /\ Init => TeardownIInv
  <1> SUFFICES ASSUME VmHandleAssumption, Init PROVE TeardownIInv
    OBVIOUS
  <1>1. TypeOK
    BY DEF Init, TypeOK, Threads, HolderLabels, WeakLabels, Running, Queues
  <1>2. Ticketed = {} /\ Inside = {}
    BY DEF Init, Ticketed, Inside, Threads
  <1>3. CountsExact
    BY <1>2, FS_EmptySet DEF Init, CountsExact
  <1> QED
    BY <1>1, <1>3 DEF Init, TeardownIInv, StateExact, TicketsBack, GateShut, NothingLeftBehind,
                      Running, Waiting, Closing

\* What the other threads do keeps the invariant: from Closed on nobody comes by a ticket,
\* and whoever enters after the gate is refused.
LEMMA ThreadsKeepIInv ==
    ASSUME VmHandleAssumption, TeardownIInv, NEW t \in Threads,
           Thread(t) \/ Notify(t) \/ Enter(t) \/ Issue(t) \/ \E u \in Threads : Clone(t, u)
    PROVE  TeardownIInv'
  <1> USE DEF TeardownIInv
  <1> DEFINE Rest == StateExact' /\ TicketsBack' /\ GateShut' /\ NothingLeftBehind'
  <1>look. CASE Look(t)
    <2>1. CountsExact'
      BY <1>look, MoveCounts DEF Look, TicketLabels, InsideLabels, TypeOK, HolderLabels
    <2>2. TypeOK' /\ Rest
      BY <1>look DEF Look, Gate, Goto, TypeOK, HolderLabels, WeakLabels, Threads, StateExact,
                     TicketsBack, GateShut, NothingLeftBehind, Touching, Closing, Waiting, Running
    <2> QED
      BY <2>1, <2>2
  <1>post. CASE Post(t)
    <2>1. CountsExact'
      BY <1>post, MoveCounts DEF Post, TicketLabels, InsideLabels, Threads, VmHandleAssumption
    <2>2. TypeOK' /\ Rest
      BY <1>post DEF Post, Goto, TypeOK, HolderLabels, WeakLabels, Threads, Queues, StateExact,
                     TicketsBack, GateShut, NothingLeftBehind, Touching, Closing, Waiting, Running
    <2> QED
      BY <2>1, <2>2
  <1>deliver. CASE Deliver(t)
    <2>1. CountsExact'
      BY <1>deliver, MoveCounts DEF Deliver, TicketLabels, InsideLabels
    <2>2. TypeOK' /\ Rest
      BY <1>deliver DEF Deliver, Goto, TypeOK, HolderLabels, WeakLabels, Threads, StateExact,
                        TicketsBack, GateShut, NothingLeftBehind, Touching, Closing, Waiting, Running
    <2> QED
      BY <2>1, <2>2
  <1>wakeup. CASE Wakeup(t)
    <2>1. CountsExact'
      BY <1>wakeup, MoveCounts DEF Wakeup, TicketLabels, InsideLabels
    <2>2. TypeOK' /\ Rest
      BY <1>wakeup DEF Wakeup, Goto, TypeOK, HolderLabels, WeakLabels, Threads, StateExact,
                       TicketsBack, GateShut, NothingLeftBehind, Touching, Closing, Waiting, Running
    <2> QED
      BY <2>1, <2>2
  <1>abandon. CASE Abandon(t)
    <2>1. CountsExact'
      BY <1>abandon, MoveCounts DEF Abandon, TicketLabels, InsideLabels, VmHandleAssumption
    <2>2. TypeOK' /\ Rest
      BY <1>abandon DEF Abandon, Goto, TypeOK, HolderLabels, WeakLabels, Threads, StateExact,
                        TicketsBack, GateShut, NothingLeftBehind, Touching, Closing, Waiting, Running
    <2> QED
      BY <2>1, <2>2
  <1>give. CASE Give(t)
    <2>1. CountsExact'
      BY <1>give, GiveCounts
    <2>2. TypeOK' /\ Rest
      BY <1>give DEF Give, Goto, TypeOK, HolderLabels, WeakLabels, Threads, StateExact,
                     TicketsBack, GateShut, NothingLeftBehind, Touching, Closing, Waiting, Running
    <2> QED
      BY <2>1, <2>2
  <1>last. CASE Last(t)
    <2>1. CountsExact'
      BY <1>last, MoveCounts DEF Last, TicketLabels, InsideLabels
    <2>2. TypeOK' /\ Rest
      BY <1>last DEF Last, Goto, TypeOK, HolderLabels, WeakLabels, Threads, StateExact,
                     TicketsBack, GateShut, NothingLeftBehind, Touching, Closing, Waiting, Running
    <2> QED
      BY <2>1, <2>2
  <1>notify. CASE Notify(t)
    <2>1. CountsExact'
      BY <1>notify, MoveCounts DEF Notify, TicketLabels, InsideLabels
    <2>2. TypeOK' /\ Rest
      BY <1>notify DEF Notify, Locked, Goto, TypeOK, HolderLabels, WeakLabels, Threads, StateExact,
                       TicketsBack, GateShut, NothingLeftBehind, Touching, Closing, Waiting, Running
    <2> QED
      BY <2>1, <2>2
  <1>enter. CASE Enter(t)
    <2>1. CountsExact'
      BY <1>enter, InsideMore DEF Enter
    <2>2. TypeOK' /\ Rest
      BY <1>enter DEF Enter, Goto, TypeOK, HolderLabels, WeakLabels, Threads, VmHandleAssumption,
                      StateExact, TicketsBack, GateShut, NothingLeftBehind, Touching, Closing,
                      Waiting, Running
    <2> QED
      BY <2>1, <2>2
  <1>issue. CASE Issue(t)
    <2>1. CountsExact'
      BY <1>issue, TicketMore DEF Issue
    <2>2. TypeOK' /\ Rest
      BY <1>issue DEF Issue, Goto, TypeOK, HolderLabels, WeakLabels, Threads, VmHandleAssumption,
                      StateExact, TicketsBack, GateShut, NothingLeftBehind, Touching, Closing,
                      Waiting, Running
    <2> QED
      BY <2>1, <2>2
  <1>clone. ASSUME NEW u \in Threads, Clone(t, u) PROVE TeardownIInv'
    <2>1. CountsExact'
      BY <1>clone, TicketMore DEF Clone
    <2>2. TypeOK' /\ Rest
      BY <1>clone DEF Clone, Goto, TypeOK, HolderLabels, WeakLabels, Threads, VmHandleAssumption,
                      StateExact, TicketsBack, GateShut, NothingLeftBehind, Touching, Closing,
                      Waiting, Running
    <2> QED
      BY <2>1, <2>2
  <1> QED
    BY <1>look, <1>post, <1>deliver, <1>wakeup, <1>abandon, <1>give, <1>last, <1>notify, <1>enter,
       <1>issue, <1>clone DEF Thread

\* What the JS thread does keeps it: it goes to close only when it has read no tickets,
\* and past the gate only when it has read that nobody is inside.
LEMMA JSKeepsIInv ==
    ASSUME VmHandleAssumption, TeardownIInv,
           JSThread \/ OtherEvent \/ Teardown \/ Timeout \/ Stop
    PROVE  TeardownIInv'
  <1> USE DEF TeardownIInv
  <1>counts. CountsExact'
    <2>1. UNCHANGED <<pc, tickets, active>>
      BY DEF JSThread, JSGoto, OtherEvent, Teardown, Timeout, Stop, Tick, Woken, Drain, Service,
             CheckQueues, CheckTickets, Sleep, Close, CheckActive, Free
    <2> QED
      BY <2>1, JSCounts
  <1> USE DEF TypeOK, StateExact, TicketsBack, GateShut, NothingLeftBehind, JSGoto, NoTasks, Queues,
              Running, Waiting, Closing
  <1>loop. CASE Tick \/ Woken \/ OtherEvent \/ Teardown \/ Stop
    BY <1>loop, <1>counts DEF Tick, Woken, OtherEvent, Teardown, Stop
  <1>wait. CASE Drain \/ Service \/ CheckQueues \/ Timeout
    BY <1>wait, <1>counts DEF Drain, Service, CheckQueues, Timeout
  <1>tickets. CASE CheckTickets
    <2>1. tickets = 0 => \A t \in Holders : pc[t] \notin Touching \cup {"give"}
      BY ZeroIsEmpty DEF Ticketed, Touching, HolderLabels
    <2> QED
      BY <1>tickets, <1>counts, <2>1 DEF CheckTickets
  <1>sleep. CASE Sleep \/ Close
    BY <1>sleep, <1>counts DEF Sleep, Close
  <1>active. CASE CheckActive
    <2>1. active = 0 => \A t \in Weak : pc[t] \notin Touching
      BY ZeroIsEmpty DEF Inside, Touching, WeakLabels
    <2> QED
      BY <1>active, <1>counts, <2>1 DEF CheckActive
  <1>free. CASE Free
    BY <1>free, <1>counts DEF Free, Threads, Touching
  <1> QED
    BY <1>loop, <1>wait, <1>tickets, <1>sleep, <1>active, <1>free DEF JSThread

LEMMA StepIInv == VmHandleAssumption /\ TeardownIInv /\ [Next]_vars => TeardownIInv'
  <1> SUFFICES ASSUME VmHandleAssumption, TeardownIInv, [Next]_vars PROVE TeardownIInv'
    OBVIOUS
  <1>stutter. CASE UNCHANGED vars
    <2>1. CountsExact'
      BY <1>stutter, JSCounts DEF vars, TeardownIInv
    <2> QED
      BY <1>stutter, <2>1 DEF vars, TeardownIInv, TypeOK, StateExact, TicketsBack, GateShut,
                             NothingLeftBehind
  <1> QED
    BY <1>stutter, ThreadsKeepIInv, JSKeepsIInv DEF Next

\* Nothing touches a VM that is gone and nothing is left in its queues (VmHandle.rs), with
\* exact counts of tickets and of threads inside, for any sets of threads.
THEOREM VmTeardown ==
    ASSUME VmHandleAssumption PROVE Spec => []TeardownIInv
  BY InitIInv, StepIInv, PTL DEF Spec

-----------------------------------------------------------------------------
(* The Dekker of the last return and the sleep.  Each conjunct of              *)
(* NoSleepThroughReturn is kept on its own.                                    *)

TicketAwaited == js \in {"sleep", "asleep"} /\ tickets = 0 =>
                    \E t \in Holders : pc[t] \in {"last", "lastNotify"}
TaskAwaited   == js \in {"tickets", "sleep", "asleep"} /\ queue["tasks"] # {} =>
                    \E t \in Threads : pc[t] \in {"posted", "notify"}
PosterAwaited == js \in {"gateSleep", "gateAsleep"} /\ active = 0 =>
                    \E t \in Weak : pc[t] \in {"last", "lastNotify"}

\* The last holder looks at the state after its decrement, the JS thread at the count
\* after it has published Draining: one of them sees the other.
LEMMA TicketStep ==
    ASSUME VmHandleAssumption, TeardownIInv, TicketAwaited, [Next]_vars
    PROVE  TicketAwaited'
  <1> SUFFICES ASSUME js' \in {"sleep", "asleep"}, tickets' = 0
               PROVE  \E t \in Holders : pc'[t] \in {"last", "lastNotify"}
    BY DEF TicketAwaited
  <1> USE DEF TeardownIInv, TypeOK, Threads
  <1>nat. tickets \in Nat
    BY SetsFinite DEF CountsExact
  <1>give. CASE \E t \in Holders : Give(t) /\ tickets = 1
    BY <1>give DEF Give, Goto
  <1>other. CASE ~ \E t \in Holders : Give(t) /\ tickets = 1
    <2>1. js \in {"sleep", "asleep"} /\ tickets = 0
      <3>1. ASSUME NEW t \in Threads, Give(t) PROVE tickets = 0 /\ js' = js
        BY <1>nat, <1>other, <3>1 DEF Give
      <3>2. ASSUME NEW t \in Threads, Issue(t) \/ \E u \in Threads : Clone(t, u) PROVE FALSE
        BY <1>nat, <3>2 DEF Issue, Clone
      <3>3. CASE CheckTickets
        BY <3>3 DEF CheckTickets, JSGoto
      <3>4. ASSUME NEW t \in Threads, Notify(t) PROVE tickets' = tickets /\ js' \notin {"sleep", "asleep"}
        BY <3>4 DEF Notify, Locked
      <3>5. ASSUME NEW t \in Threads, Look(t) \/ Post(t) \/ Deliver(t) \/ Wakeup(t) \/ Abandon(t)
                                      \/ Last(t) \/ Enter(t)
            PROVE  UNCHANGED <<js, tickets>>
        BY <3>5 DEF Look, Post, Deliver, Wakeup, Abandon, Last, Enter
      <3>6. CASE (JSThread /\ ~CheckTickets) \/ OtherEvent \/ Teardown \/ Timeout \/ Stop
        BY <3>6 DEF JSThread, JSGoto, OtherEvent, Teardown, Timeout, Stop, Tick, Woken, Drain, Service,
                    CheckQueues, Sleep, Close, CheckActive, Free
      <3>7. CASE UNCHANGED vars
        BY <3>7 DEF vars
      <3> QED
        BY <3>1, <3>2, <3>3, <3>4, <3>5, <3>6, <3>7 DEF Next, Thread
    <2> PICK t \in Holders : pc[t] \in {"last", "lastNotify"}
      BY <2>1 DEF TicketAwaited
    <2>2. Draining
      BY <2>1 DEF StateExact, Waiting, Draining
    <2>3. ASSUME NEW u \in Threads, Thread(u) \/ Enter(u) \/ Issue(u)
          PROVE  pc'[t] \in {"last", "lastNotify"}
      BY <2>2, <2>3 DEF Thread, Look, Post, Deliver, Wakeup, Abandon, Give, Last, Enter, Issue, Goto
    <2>4. ASSUME NEW u \in Threads, Notify(u) PROVE pc'[t] \in {"last", "lastNotify"}
      BY <2>1, <2>4 DEF Notify, Locked, Goto
    <2>5. ASSUME NEW u \in Threads, NEW v \in Threads, Clone(u, v)
          PROVE  pc'[t] \in {"last", "lastNotify"}
      BY <2>5 DEF Clone, Goto
    <2>6. CASE JSThread \/ OtherEvent \/ Teardown \/ Timeout \/ Stop \/ UNCHANGED vars
      BY <2>6 DEF JSThread, JSGoto, OtherEvent, Teardown, Timeout, Stop, Tick, Woken, Drain, Service,
                  CheckQueues, CheckTickets, Sleep, Close, CheckActive, Free, vars
    <2> QED
      BY <2>3, <2>4, <2>5, <2>6 DEF Next
  <1> QED
    BY <1>give, <1>other

\* A task that is posted after service() has looked, or after the check of the queues, has
\* a poster that will notify: it sees Draining.
LEMMA TaskStep ==
    ASSUME VmHandleAssumption, TeardownIInv, TaskAwaited, [Next]_vars
    PROVE  TaskAwaited'
  <1> SUFFICES ASSUME js' \in {"tickets", "sleep", "asleep"}, queue'["tasks"] # {}
               PROVE  \E t \in Threads : pc'[t] \in {"posted", "notify"}
    BY DEF TaskAwaited
  <1> USE DEF TeardownIInv, TypeOK
  <1>post. ASSUME NEW t \in Threads, Post(t) PROVE \E u \in Threads : pc'[u] \in {"posted", "notify"}
    BY <1>post DEF Post, Goto
  <1>other. CASE ~ \E t \in Threads : Post(t)
    <2>1. js \in {"tickets", "sleep", "asleep"} /\ queue["tasks"] # {}
      <3>1. ASSUME NEW t \in Threads, Notify(t) PROVE queue' = queue /\ js' = js
        BY <3>1 DEF Notify, Locked
      <3>2. ASSUME NEW t \in Threads,
                   \/ Look(t) \/ Deliver(t) \/ Wakeup(t) \/ Abandon(t) \/ Give(t) \/ Last(t)
                   \/ Enter(t) \/ Issue(t) \/ \E u \in Threads : Clone(t, u)
            PROVE  UNCHANGED <<js, queue>>
        BY <3>2 DEF Look, Deliver, Wakeup, Abandon, Give, Last, Enter, Issue, Clone
      <3>3. CASE JSThread \/ OtherEvent \/ Teardown \/ Timeout \/ Stop
        BY <3>3 DEF JSThread, JSGoto, OtherEvent, Teardown, Timeout, Stop, Tick, Woken, Drain, Service,
                    CheckQueues, CheckTickets, Sleep, Close, CheckActive, Free, NoTasks, Queues
      <3>4. CASE UNCHANGED vars
        BY <3>4 DEF vars
      <3> QED
        BY <1>other, <3>1, <3>2, <3>3, <3>4 DEF Next, Thread
    <2> PICK t \in Threads : pc[t] \in {"posted", "notify"}
      BY <2>1 DEF TaskAwaited
    <2>2. Draining
      BY <2>1 DEF StateExact, Waiting, Draining
    <2>3. ASSUME NEW u \in Threads, Thread(u) \/ Enter(u) \/ Issue(u)
          PROVE  pc'[t] \in {"posted", "notify"}
      BY <2>2, <2>3 DEF Thread, Look, Post, Deliver, Wakeup, Abandon, Give, Last, Enter, Issue, Goto
    <2>4. ASSUME NEW u \in Threads, Notify(u) PROVE FALSE
      BY <2>1, <2>4 DEF Notify, Locked
    <2>5. ASSUME NEW u \in Threads, NEW v \in Threads, Clone(u, v)
          PROVE  pc'[t] \in {"posted", "notify"}
      BY <2>5 DEF Clone, Goto
    <2>6. CASE JSThread \/ OtherEvent \/ Teardown \/ Timeout \/ Stop \/ UNCHANGED vars
      BY <2>6 DEF JSThread, JSGoto, OtherEvent, Teardown, Timeout, Stop, Tick, Woken, Drain, Service,
                  CheckQueues, CheckTickets, Sleep, Close, CheckActive, Free, vars
    <2> QED
      BY <2>3, <2>4, <2>5, <2>6 DEF Next
  <1> QED
    BY <1>post, <1>other

\* The last weak poster looks at the state after its decrement, the JS thread at `active`
\* after it has published Closed.
LEMMA PosterStep ==
    ASSUME VmHandleAssumption, TeardownIInv, PosterAwaited, [Next]_vars
    PROVE  PosterAwaited'
  <1> SUFFICES ASSUME js' \in {"gateSleep", "gateAsleep"}, active' = 0
               PROVE  \E t \in Weak : pc'[t] \in {"last", "lastNotify"}
    BY DEF PosterAwaited
  <1> USE DEF TeardownIInv, TypeOK, Threads
  <1>nat. active \in Nat
    BY SetsFinite DEF CountsExact
  <1>give. CASE \E t \in Weak : Give(t) /\ active = 1
    BY <1>give DEF Give, Goto, VmHandleAssumption
  <1>other. CASE ~ \E t \in Weak : Give(t) /\ active = 1
    <2>1. js \in {"gateSleep", "gateAsleep"} /\ active = 0
      <3>1. ASSUME NEW t \in Threads, Give(t) PROVE active = 0 /\ js' = js
        BY <1>nat, <1>other, <3>1 DEF Give
      <3>2. ASSUME NEW t \in Threads, Enter(t) PROVE FALSE
        BY <1>nat, <3>2 DEF Enter
      <3>3. ASSUME NEW t \in Threads, Notify(t) PROVE FALSE
        BY <3>3 DEF Notify, Locked
      <3>4. ASSUME NEW t \in Threads,
                   \/ Look(t) \/ Post(t) \/ Deliver(t) \/ Wakeup(t) \/ Abandon(t) \/ Last(t)
                   \/ Issue(t) \/ \E u \in Threads : Clone(t, u)
            PROVE  UNCHANGED <<js, active>>
        BY <3>4 DEF Look, Post, Deliver, Wakeup, Abandon, Last, Issue, Clone
      <3>5. CASE JSThread \/ OtherEvent \/ Teardown \/ Timeout \/ Stop
        BY <3>5 DEF JSThread, JSGoto, OtherEvent, Teardown, Timeout, Stop, Tick, Woken, Drain, Service,
                    CheckQueues, CheckTickets, Sleep, Close, CheckActive, Free
      <3>6. CASE UNCHANGED vars
        BY <3>6 DEF vars
      <3> QED
        BY <3>1, <3>2, <3>3, <3>4, <3>5, <3>6 DEF Next, Thread
    <2> PICK t \in Weak : pc[t] \in {"last", "lastNotify"}
      BY <2>1 DEF PosterAwaited
    <2>2. state = "closed"
      BY <2>1 DEF StateExact, Closing
    <2>3. ASSUME NEW u \in Threads, Thread(u) \/ Enter(u) \/ Issue(u)
          PROVE  pc'[t] \in {"last", "lastNotify"}
      BY <2>2, <2>3 DEF Thread, Look, Post, Deliver, Wakeup, Abandon, Give, Last, Enter, Issue, Goto
    <2>4. ASSUME NEW u \in Threads, Notify(u) PROVE FALSE
      BY <2>1, <2>4 DEF Notify, Locked
    <2>5. ASSUME NEW u \in Threads, NEW v \in Threads, Clone(u, v)
          PROVE  pc'[t] \in {"last", "lastNotify"}
      BY <2>5 DEF Clone, Goto
    <2>6. CASE JSThread \/ OtherEvent \/ Teardown \/ Timeout \/ Stop \/ UNCHANGED vars
      BY <2>6 DEF JSThread, JSGoto, OtherEvent, Teardown, Timeout, Stop, Tick, Woken, Drain, Service,
                  CheckQueues, CheckTickets, Sleep, Close, CheckActive, Free, vars
    <2> QED
      BY <2>3, <2>4, <2>5, <2>6 DEF Next
  <1> QED
    BY <1>give, <1>other

\* close_and_wait() does not sleep through the last ticket, the last weak poster or a task
\* it should release: its one-second time-out is only a backstop.
THEOREM VmNoSleepThroughReturn ==
    ASSUME VmHandleAssumption PROVE Spec => []NoSleepThroughReturn
  <1>1. NoSleepThroughReturn <=> TicketAwaited /\ TaskAwaited /\ PosterAwaited
    BY DEF NoSleepThroughReturn, TicketAwaited, TaskAwaited, PosterAwaited
  <1>2. Init => TicketAwaited /\ TaskAwaited /\ PosterAwaited
    BY DEF Init, TicketAwaited, TaskAwaited, PosterAwaited
  <1>3. /\ TeardownIInv /\ TicketAwaited /\ TaskAwaited /\ PosterAwaited /\ [Next]_vars
        => (TicketAwaited /\ TaskAwaited /\ PosterAwaited)'
    BY TicketStep, TaskStep, PosterStep
  <1> QED
    BY <1>1, <1>2, <1>3, VmTeardown, PTL DEF Spec
=============================================================================
