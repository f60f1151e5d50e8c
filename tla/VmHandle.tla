------------------------------ MODULE VmHandle ------------------------------
(***************************************************************************)
(* The door out of a VM's thread: VmHandle.rs, with the posts, ticks and   *)
(* releases of event_loop.rs and the teardown of VirtualMachine.rs that    *)
(* close it.  Holders have a Ticket for work they do for the VM, weak      *)
(* posters only a VmHandle; the JS thread tears the VM down when the       *)
(* tickets are back and the weak posters are out.                          *)
(*                                                                         *)
(* One action is one atomic access, or what the JS thread does alone.      *)
(* notify() is one action, enabled when the JS thread is not between lock  *)
(* and wait: nothing else is done under `drained`.                         *)
(***************************************************************************)
EXTENDS Naturals, FiniteSets

CONSTANTS Holders, Weak   \* the threads that get a ticket, and a handle

VmHandleAssumption == /\ Holders \cap Weak = {}
                      /\ IsFiniteSet(Holders) /\ IsFiniteSet(Weak)

Threads == Holders \cup Weak

\* Where post() puts a task: the concurrent_tasks (of the regular loop and of the macro
\* loop, which it empties with its own), or the concurrent_plugin_requests, which
\* close_and_wait() does not look at.
Queues == {"tasks", "plugin"}

VARIABLES state, tickets, active,   \* Shared
          queue,     \* the tasks posted and not taken, by the thread that posted them
          wake,      \* the loop's wake-up is pending
          pc, js     \* where each thread, and the JS thread, is

vars == <<state, tickets, active, queue, wake, pc, js>>

Init == /\ state = "open"
        /\ tickets = 0 /\ active = 0
        /\ queue = [q \in Queues |-> {}]
        /\ wake = FALSE
        /\ pc = [t \in Threads |-> "new"]
        /\ js = "tick"

Draining == state \in {"draining", "closed"}     \* state >= Draining

Goto(t, label) == pc' = [pc EXCEPT ![t] = label]

-----------------------------------------------------------------------------
(* The other threads *)

\* Ticket::clone() for work that u takes over.
Clone(t, u) == /\ t \in Holders /\ pc[t] = "job"
               /\ u \in Holders /\ pc[u] = "new"
               /\ tickets' = tickets + 1
               /\ Goto(u, "job")
               /\ UNCHANGED <<state, active, queue, wake, js>>

\* VmHandle::enter().
Enter(t) == /\ t \in Weak /\ pc[t] = "new"
            /\ active' = active + 1
            /\ Goto(t, "entered")
            /\ UNCHANGED <<state, tickets, queue, wake, js>>

\* Slip: nobody is turned away.
GateOpen(t) == TRUE

\* Its load of the state: refused, or inside to post, to change a keep-alive or to wake.
Gate(t) == state # "closed"

Look(t) == /\ pc[t] = "entered"
           /\ IF Gate(t) THEN Goto(t, "push") \/ Goto(t, "wake") ELSE Goto(t, "give")
           /\ UNCHANGED <<state, tickets, active, queue, wake, js>>

\* deliver(): the push, ...
Post(t) == /\ pc[t] = IF t \in Holders THEN "job" ELSE "push"
           /\ \E q \in Queues : queue' = [queue EXCEPT ![q] = @ \cup {t}]
           /\ Goto(t, "posted")
           /\ UNCHANGED <<state, tickets, active, wake, js>>

\* Slip: only the loop is woken, as before the wait began.
WakeLoopOnly(t) == /\ pc[t] = "posted"
                   /\ Goto(t, "wake")
                   /\ UNCHANGED <<state, tickets, active, queue, wake, js>>

\* ... then whom to wake, ...
Deliver(t) == /\ pc[t] = "posted"
              /\ Goto(t, IF Draining THEN "notify" ELSE "wake")
              /\ UNCHANGED <<state, tickets, active, queue, wake, js>>

\* ... and the wake-up of the loop.
Wakeup(t) == /\ pc[t] = "wake"
             /\ wake' = TRUE
             /\ Goto(t, "give")
             /\ UNCHANGED <<state, tickets, active, queue, js>>

\* A job that posts nothing.
Abandon(t) == /\ t \in Holders /\ pc[t] = "job"
              /\ Goto(t, "give")
              /\ UNCHANGED <<state, tickets, active, queue, wake, js>>

\* Drop for Ticket, Drop for Access: the decrement, and for the last one a look at the state.
Give(t) == /\ pc[t] = "give"
           /\ IF t \in Holders
              THEN /\ tickets' = tickets - 1
                   /\ Goto(t, IF tickets = 1 THEN "last" ELSE "done")
                   /\ UNCHANGED active
              ELSE /\ active' = active - 1
                   /\ Goto(t, IF active = 1 THEN "last" ELSE "done")
                   /\ UNCHANGED tickets
           /\ UNCHANGED <<state, queue, wake, js>>

Last(t) == /\ pc[t] = "last"
           /\ Goto(t, IF (t \in Holders /\ Draining) \/ state = "closed"
                      THEN "lastNotify" ELSE "done")
           /\ UNCHANGED <<state, tickets, active, queue, wake, js>>

\* The JS thread has `drained` locked.
Locked == js \in {"tickets", "sleep", "close", "gate", "gateSleep"}

\* notify(): lock, notify_all, unlock.
Notify(t) == /\ pc[t] \in {"notify", "lastNotify"} /\ ~Locked
             /\ Goto(t, IF pc[t] = "notify" THEN "give" ELSE "done")
             /\ js' = CASE js = "asleep" -> "service"
                        [] js = "gateAsleep" -> "gate"
                        [] OTHER -> js
             /\ UNCHANGED <<state, tickets, active, queue, wake>>

\* stop(), from any thread.
Stop == /\ state = "open"
        /\ state' = "stopping"
        /\ UNCHANGED <<tickets, active, queue, wake, pc, js>>

-----------------------------------------------------------------------------
(* The JS thread *)

JSGoto(label) == js' = label /\ UNCHANGED pc

\* VirtualMachine::ticket(), also for work that a released completion starts.
Issue(t) == /\ js \in {"tick", "service"}
            /\ t \in Holders /\ pc[t] = "new"
            /\ tickets' = tickets + 1
            /\ Goto(t, "job")
            /\ UNCHANGED <<state, active, queue, wake, js>>

NoTasks == [q \in Queues |-> {}]

\* tick(): takes what was posted and runs it; then poll, which sleeps only when
\* has_pending_tasks() is false.
Tick == /\ js = "tick"
        /\ IF queue = NoTasks THEN JSGoto("poll") ELSE UNCHANGED <<js, pc>>
        /\ queue' = NoTasks
        /\ UNCHANGED <<state, tickets, active, wake>>

Woken == /\ js = "poll" /\ wake
         /\ wake' = FALSE
         /\ JSGoto("tick")
         /\ UNCHANGED <<state, tickets, active, queue>>

\* The poll returns for a timer or for I/O.
OtherEvent == /\ js = "poll"
              /\ JSGoto("tick")
              /\ UNCHANGED <<state, tickets, active, queue, wake>>

\* teardown(): forbid_script(), ...
Teardown == /\ js = "tick"
            /\ state' = IF state = "open" THEN "stopping" ELSE state
            /\ JSGoto("drain")
            /\ UNCHANGED <<tickets, active, queue, wake>>

\* ... and close_and_wait().
Drain == /\ js = "drain"
         /\ state' = "draining"
         /\ JSGoto("service")
         /\ UNCHANGED <<tickets, active, queue, wake>>

\* release_queued_work() on both loops.
Service == /\ js = "service"
           /\ queue' = NoTasks
           /\ JSGoto("lock")
           /\ UNCHANGED <<state, tickets, active, wake>>

CheckQueues == /\ js = "lock"
               /\ JSGoto(IF queue["tasks"] # {} THEN "service" ELSE "tickets")
               /\ UNCHANGED <<state, tickets, active, queue, wake>>

CheckTickets == /\ js = "tickets"
                /\ JSGoto(IF tickets = 0 THEN "close" ELSE "sleep")
                /\ UNCHANGED <<state, tickets, active, queue, wake>>

\* timed_wait_guarded() lets the lock go and sleeps in one step.
Sleep == /\ js \in {"sleep", "gateSleep"}
         /\ JSGoto(IF js = "sleep" THEN "asleep" ELSE "gateAsleep")
         /\ UNCHANGED <<state, tickets, active, queue, wake>>

Timeout == /\ js = "asleep"
           /\ JSGoto("service")
           /\ UNCHANGED <<state, tickets, active, queue, wake>>

Close == /\ js = "close"
         /\ state' = "closed"
         /\ JSGoto("closed")
         /\ UNCHANGED <<tickets, active, queue, wake>>

\* The wait for the weak posters: a look without the lock, then under it.
CheckActive == /\ js \in {"closed", "gate"}
               /\ JSGoto(IF active = 0 THEN "final"
                         ELSE IF js = "closed" THEN "gate" ELSE "gateSleep")
               /\ UNCHANGED <<state, tickets, active, queue, wake>>

\* Slip: no service() after the gate.
FreeAtOnce == /\ js = "final"
              /\ JSGoto("gone")
              /\ UNCHANGED <<state, tickets, active, queue, wake>>

\* The last service(); then the JSC VM, the loops and the VM are destroyed.
Free == /\ js = "final"
        /\ queue' = NoTasks
        /\ JSGoto("gone")
        /\ UNCHANGED <<state, tickets, active, wake>>

-----------------------------------------------------------------------------
Thread(t) == \/ Look(t) \/ Post(t) \/ Deliver(t) \/ Wakeup(t) \/ Abandon(t)
             \/ Give(t) \/ Last(t)

JSThread == \/ Tick \/ Woken \/ Drain \/ Service \/ CheckQueues \/ CheckTickets
            \/ Sleep \/ Close \/ CheckActive \/ Free

Next == \/ JSThread \/ OtherEvent \/ Teardown \/ Timeout \/ Stop
        \/ \E t \in Threads : Thread(t) \/ Notify(t) \/ Enter(t) \/ Issue(t)
        \/ \E t, u \in Threads : Clone(t, u)

Spec == Init /\ [][Next]_vars

\* Jobs end and threads go on; the notifiers get the lock, which the JS thread leaves
\* free whenever it sleeps.  Nothing is assumed of the time-out.  A thread takes a few
\* steps in all, so it is enough that some thread goes on.
Fairness == /\ WF_vars(JSThread)
            /\ WF_vars(\E t \in Threads : Thread(t))
            /\ SF_vars(\E t \in Threads : Notify(t))

-----------------------------------------------------------------------------
HolderLabels == {"new", "job", "posted", "notify", "wake", "give", "last", "lastNotify", "done"}
WeakLabels   == {"new", "entered", "push", "posted", "notify", "wake", "give", "last",
                 "lastNotify", "done"}
Running  == {"tick", "poll", "drain"}
Waiting  == {"service", "lock", "tickets", "sleep", "asleep", "close"}
Closing  == {"closed", "gate", "gateSleep", "gateAsleep", "final", "gone"}

Ticketed == {t \in Holders : pc[t] \in {"job", "posted", "notify", "wake", "give"}}
Inside   == {t \in Weak : pc[t] \in {"entered", "push", "posted", "notify", "wake", "give"}}

\* Every thread is at a label of its kind.
TypeOK == /\ state \in {"open", "stopping", "draining", "closed"}
          /\ pc \in [Threads -> HolderLabels \cup WeakLabels]
          /\ \A t \in Holders : pc[t] \in HolderLabels
          /\ \A t \in Weak : pc[t] \in WeakLabels
          /\ queue \in [Queues -> SUBSET Threads]
          /\ wake \in BOOLEAN
          /\ js \in Running \cup Waiting \cup Closing

\* The counters are what the teardown takes them for, ...
CountsExact == tickets = Cardinality(Ticketed) /\ active = Cardinality(Inside)

\* ... and the state goes with it.
StateExact == /\ js \in Running => state \in {"open", "stopping"}
              /\ js \in Waiting <=> state = "draining"
              /\ js \in Closing <=> state = "closed"

\* The labels at which a thread has the VM in its hands.
Touching == {"job", "push", "posted", "notify", "wake"}

\* "a VM is destroyed only after everything that left its thread has come back":
\* nobody touches it, and no task is left in its queues, when it is gone.
NothingLeftBehind == js = "gone" => /\ \A t \in Threads : pc[t] \notin Touching
                                    /\ queue = NoTasks

\* The strengthening: from Closed on no ticket is out, and after the gate nobody that
\* entered before Closed is inside.
TicketsBack == js \in {"close"} \cup Closing => \A t \in Holders : pc[t] \notin Touching \cup {"give"}
GateShut    == js \in {"final", "gone"} => \A t \in Weak : pc[t] \notin Touching

TeardownIInv == TypeOK /\ CountsExact /\ StateExact /\ TicketsBack /\ GateShut /\ NothingLeftBehind

\* Dekker: the JS thread does not sleep, or go to sleep after its checks, through the last
\* ticket, the last weak poster or a task that its service() should release, so the
\* time-out is a backstop.
NoSleepThroughReturn ==
    /\ js \in {"sleep", "asleep"} /\ tickets = 0 =>
          \E t \in Holders : pc[t] \in {"last", "lastNotify"}
    /\ js \in {"tickets", "sleep", "asleep"} /\ queue["tasks"] # {} =>
          \E t \in Threads : pc[t] \in {"posted", "notify"}
    /\ js \in {"gateSleep", "gateAsleep"} /\ active = 0 =>
          \E t \in Weak : pc[t] \in {"last", "lastNotify"}

\* A teardown ends, and what was posted is run or released: ever again the queues are
\* empty and the JS thread is in its loop or the VM is gone.
TeardownEnds == []<>(queue = NoTasks /\ js \in {"tick", "poll", "gone"})
=============================================================================
