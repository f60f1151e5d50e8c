----------------------------- MODULE PoolEvent ------------------------------
(***************************************************************************)
(* The Event of ThreadPool.rs: idle workers wait on it for a notification  *)
(* that one of them takes, for shutdown, and for tasks put in their own    *)
(* idle queue, which wake_all() announces by moving the word's epoch.      *)
(*                                                                         *)
(* One action per atomic access or futex call.  A word is <<epoch, state>>.*)
(***************************************************************************)
EXTENDS Naturals, FiniteSets

CONSTANTS Waiters,    \* the workers
          Notifiers,  \* threads that call notify() or shutdown()
          Pushers,    \* threads that call push_idle_task_to_each_thread()
          MaxEpoch    \* bound: calls of wake_all()

ASSUME PoolEventAssumption == /\ Waiters \cap Notifiers = {}
                              /\ Waiters \cap Pushers = {}
                              /\ Notifiers \cap Pushers = {}
                              /\ MaxEpoch \in Nat

VARIABLES state,      \* the atomic word
          parked,     \* workers asleep in the futex
          idle,       \* workers with tasks in their idle queue
          pc,
          word,       \* each thread's last load of state
          phase,      \* of a call of wait(): fresh, slept (acquire_with = WAITING), idle
          left        \* threads push_idle_task_to_each_thread has yet to reach

vars == <<state, parked, idle, pc, word, phase, left>>

States == {"EMPTY", "WAITING", "NOTIFIED", "SHUTDOWN"}
Words  == (0 .. MaxEpoch) \X States

Callers == Notifiers \cup Pushers

Epoch(w) == w[1]
Bits(w)  == w[2]

Goto(t, label) == pc' = [pc EXCEPT ![t] = label]

Load(t) == word' = [word EXCEPT ![t] = state]

\* The local is not read again.
NoWord == <<0, "EMPTY">>

Forget(t) == word' = [word EXCEPT ![t] = NoWord]

Init == /\ state = NoWord
        /\ parked = {} /\ idle = {}
        /\ pc = [t \in Waiters \cup Callers |-> "out"]
        /\ word = [t \in Waiters \cup Callers |-> NoWord]
        /\ phase = [w \in Waiters |-> "fresh"]
        /\ left = [c \in Pushers |-> {}]

-----------------------------------------------------------------------------
(* wait() *)

Return(w) == /\ Goto(w, "out")
             /\ Forget(w)
             /\ phase' = [phase EXCEPT ![w] = "fresh"]

\* What the loop does about each state.
Branch == [NOTIFIED |-> "consume", EMPTY |-> "arm", WAITING |-> "drain"]

\* The top of the loop, on the word just loaded.
Dispatch(w) == IF Bits(state) = "SHUTDOWN"
               THEN Return(w)
               ELSE /\ Load(w)
                    /\ Goto(w, Branch[Bits(state)])
                    /\ UNCHANGED phase

Enter(w) == /\ pc[w] = "out"
            /\ Dispatch(w)
            /\ UNCHANGED <<state, parked, idle, left>>

\* A notification is taken with EMPTY, or with WAITING by who has slept.
AcquireWith(w) == IF phase[w] = "fresh" THEN "EMPTY" ELSE "WAITING"

\* Slip: a notification is always taken with EMPTY.
ConsumeForgetsSleepers(w) ==
    /\ pc[w] = "consume"
    /\ IF state = word[w]
       THEN state' = <<Epoch(state), "EMPTY">> /\ Return(w)
       ELSE Dispatch(w) /\ UNCHANGED state
    /\ UNCHANGED <<parked, idle, left>>

\* Slip: a plain store instead of the compare-exchange.
ConsumeStores(w) ==
    /\ pc[w] = "consume"
    /\ state' = <<Epoch(state), AcquireWith(w)>>
    /\ Return(w)
    /\ UNCHANGED <<parked, idle, left>>

Consume(w) ==
    /\ pc[w] = "consume"
    /\ IF state = word[w]
       THEN state' = <<Epoch(state), AcquireWith(w)>> /\ Return(w)
       ELSE Dispatch(w) /\ UNCHANGED state
    /\ UNCHANGED <<parked, idle, left>>

Arm(w) == /\ pc[w] = "arm"
          /\ IF state = word[w]
             THEN /\ state' = <<Epoch(state), "WAITING">>
                  /\ Goto(w, "drain")
                  /\ UNCHANGED <<word, phase>>
             ELSE Dispatch(w) /\ UNCHANGED state
          /\ UNCHANGED <<parked, idle, left>>

Drain(w) == /\ pc[w] = "drain"
            /\ idle' = idle \ {w}
            /\ Goto(w, "sleep")
            /\ UNCHANGED <<state, parked, word, phase, left>>

\* Back from the futex, whatever it returned, the call is no longer fresh.
Slept(w) == phase' = [phase EXCEPT ![w] = IF @ = "fresh" THEN "slept" ELSE @]

FutexWait(w) == /\ pc[w] = "sleep"
                /\ IF state = <<Epoch(word[w]), "WAITING">>
                   THEN parked' = parked \cup {w} /\ Goto(w, "parked")
                   ELSE Goto(w, "woken") /\ UNCHANGED parked
                /\ Forget(w) /\ Slept(w)
                /\ UNCHANGED <<state, idle, left>>

\* The kernel may return early.
Spurious(w) == /\ w \in parked
               /\ parked' = parked \ {w}
               /\ Goto(w, "woken")
               /\ UNCHANGED <<state, idle, word, phase, left>>

\* Only a call that is not idle yet sleeps with a timeout (100 ms).
TimedOut(w) == /\ w \in parked /\ phase[w] # "idle"
               /\ parked' = parked \ {w}
               /\ phase' = [phase EXCEPT ![w] = "idle"]
               /\ Goto(w, "woken")
               /\ UNCHANGED <<state, idle, word, left>>

Reload(w) == /\ pc[w] = "woken"
             /\ Dispatch(w)
             /\ UNCHANGED <<state, parked, idle, left>>

-----------------------------------------------------------------------------
(* notify() *)

\* The top of the loop, on the word just loaded.
NotifyLook(c) == IF Bits(state) = "SHUTDOWN"
                 THEN Goto(c, "out") /\ Forget(c)
                 ELSE Goto(c, "notify") /\ Load(c)

NotifyLoad(c) == /\ pc[c] = "out"
                 /\ NotifyLook(c)
                 /\ UNCHANGED <<state, parked, idle, phase, left>>

\* Slip: no futex wake.
NotifyWithoutWake(c) ==
    /\ pc[c] = "notify"
    /\ IF state = word[c]
       THEN /\ state' = <<Epoch(state), "NOTIFIED">>
            /\ Goto(c, "out")
            /\ Forget(c)
       ELSE NotifyLook(c) /\ UNCHANGED state
    /\ UNCHANGED <<parked, idle, phase, left>>

NotifyCas(c) ==
    /\ pc[c] = "notify"
    /\ IF state = word[c]
       THEN /\ state' = <<Epoch(state), "NOTIFIED">>
            /\ Goto(c, IF Bits(state) = "WAITING" THEN "wake" ELSE "out")
            /\ Forget(c)
       ELSE NotifyLook(c) /\ UNCHANGED state
    /\ UNCHANGED <<parked, idle, phase, left>>

WakeOne(c) == /\ pc[c] = "wake"
              /\ IF parked = {}
                 THEN Goto(c, "out") /\ UNCHANGED parked
                 ELSE \E w \in parked :
                        /\ parked' = parked \ {w}
                        /\ pc' = [pc EXCEPT ![c] = "out", ![w] = "woken"]
              /\ UNCHANGED <<state, idle, word, phase, left>>

(* shutdown(), which the pool calls once *)

\* Slip: like notify(), wake only if the word said that somebody sleeps.
ShutdownWakesWaiting(c) ==
    /\ pc[c] = "out"
    /\ Bits(state) # "SHUTDOWN"
    /\ state' = <<Epoch(state), "SHUTDOWN">>
    /\ Goto(c, IF Bits(state) = "WAITING" THEN "wakeall" ELSE "out")
    /\ UNCHANGED <<parked, idle, word, phase, left>>

Shutdown(c) == /\ pc[c] = "out"
               /\ Bits(state) # "SHUTDOWN"
               /\ state' = <<Epoch(state), "SHUTDOWN">>
               /\ Goto(c, "wakeall")
               /\ UNCHANGED <<parked, idle, word, phase, left>>

(* push_idle_task_to_each_thread() and its wake_all() *)

PushBegin(c) == /\ pc[c] = "out" /\ Epoch(state) < MaxEpoch /\ Waiters # {}
                /\ Goto(c, "push")
                /\ left' = [left EXCEPT ![c] = Waiters]
                /\ UNCHANGED <<state, parked, idle, word, phase>>

PushIdle(c) == /\ pc[c] = "push"
               /\ \E w \in left[c] :
                    /\ idle' = idle \cup {w}
                    /\ left' = [left EXCEPT ![c] = @ \ {w}]
                    /\ Goto(c, IF left[c] = {w} THEN "bump" ELSE "push")
               /\ UNCHANGED <<state, parked, word, phase>>

\* Slip: the epoch stays.
BumpNothing(c) == /\ pc[c] = "bump" /\ Epoch(state) < MaxEpoch
                  /\ Goto(c, "wakeall")
                  /\ UNCHANGED <<state, parked, idle, word, phase, left>>

Bump(c) == /\ pc[c] = "bump" /\ Epoch(state) < MaxEpoch
           /\ state' = <<Epoch(state) + 1, Bits(state)>>
           /\ Goto(c, "wakeall")
           /\ UNCHANGED <<parked, idle, word, phase, left>>

WakeAll(c) == /\ pc[c] = "wakeall"
              /\ parked' = {}
              /\ pc' = [t \in DOMAIN pc |-> IF t = c THEN "out"
                                            ELSE IF t \in parked THEN "woken" ELSE pc[t]]
              /\ UNCHANGED <<state, idle, word, phase, left>>

-----------------------------------------------------------------------------
Run(w) == Consume(w) \/ Arm(w) \/ Drain(w) \/ FutexWait(w) \/ Reload(w)

Wait(w) == Enter(w) \/ Run(w) \/ Spurious(w) \/ TimedOut(w)

Post(c) == NotifyCas(c) \/ WakeOne(c) \/ WakeAll(c)

Announce(c) == PushIdle(c) \/ Bump(c) \/ WakeAll(c)

Next == \/ \E w \in Waiters : Wait(w)
        \/ \E c \in Notifiers : NotifyLoad(c) \/ Shutdown(c) \/ Post(c)
        \/ \E c \in Pushers : PushBegin(c) \/ Announce(c)

Spec == Init /\ [][Next]_vars

\* A call that has begun goes on; the futex returns early or times out only by
\* chance.
FairSpec == /\ Spec
            /\ \A w \in Waiters : WF_vars(Run(w))
            /\ \A c \in Notifiers : WF_vars(Post(c))
            /\ \A c \in Pushers : WF_vars(Announce(c))

-----------------------------------------------------------------------------
WaiterLabels == {"out", "consume", "arm", "drain", "sleep", "parked", "woken"}
CallerLabels == {"out", "notify", "wake", "push", "bump", "wakeall"}

\* The word is an epoch and a state, and the workers asleep in the kernel are those
\* that wait() put there.
TypeOK == /\ state \in Words
          /\ parked = {w \in Waiters : pc[w] = "parked"}
          /\ idle \subseteq Waiters
          /\ pc \in [Waiters \cup Callers -> WaiterLabels \cup CallerLabels]
          /\ \A w \in Waiters : pc[w] \in WaiterLabels
          /\ \A c \in Callers : pc[c] \in CallerLabels
          /\ word \in [Waiters \cup Callers -> Words]
          /\ phase \in [Waiters -> {"fresh", "slept", "idle"}]
          /\ left \in [Pushers -> SUBSET Waiters]

\* What a thread's locals say where it acts on them.
LocalsRead ==
    /\ \A w \in Waiters : /\ pc[w] = "consume" => Bits(word[w]) = "NOTIFIED"
                          /\ pc[w] = "arm" => Bits(word[w]) = "EMPTY"
                          /\ pc[w] \in {"parked", "woken"} => phase[w] # "fresh"
    /\ \A c \in Callers : pc[c] = "notify" => Bits(word[c]) # "SHUTDOWN"

\* A worker back from the futex, still in wait().
Back(w) == pc[w] # "parked" /\ phase[w] # "fresh"

WakePending == \E c \in Callers : pc[c] \in {"wake", "wakeall"}

\* While workers sleep the word tells the next notify() so, or a wake is on its
\* way, or a worker is awake that will leave the word at WAITING: a notification
\* cannot be posted past sleepers that all stay asleep.
NoLostWakeup ==
    parked # {} =>
        \/ Bits(state) = "WAITING"
        \/ WakePending
        \/ \E w \in Waiters : Back(w)

\* Nobody is left asleep on an event that was shut down.
ShutdownWakes ==
    Bits(state) = "SHUTDOWN" /\ parked # {} => \E c \in Callers : pc[c] = "wakeall"

\* The caller has pushed the worker's idle task and not moved the epoch yet.
Announcing(c, w) == \/ pc[c] = "bump"
                    \/ pc[c] = "push" /\ w \notin left[c]

\* A worker sleeps with an idle task only while the caller that pushed it has yet
\* to wake everybody.
IdleTaskAnnounced ==
    \A w \in parked \cap idle :
        \E c \in Pushers : pc[c] = "wakeall" \/ Announcing(c, w)

\* A task pushed between the look at the idle queue and the futex is announced still,
\* or the epoch has moved and the futex does not take the worker in.
IdleTaskSeen ==
    \A w \in Waiters :
        /\ Epoch(word[w]) <= Epoch(state)
        /\ w \in idle /\ pc[w] = "sleep" => \/ Epoch(word[w]) < Epoch(state)
                                            \/ \E c \in Pushers : Announcing(c, w)

\* The inductive strengthening of IdleTaskAnnounced.
IdleIInv == TypeOK /\ IdleTaskAnnounced /\ IdleTaskSeen

\* The inductive strengthening of NoLostWakeup.
IInv == TypeOK /\ LocalsRead /\ NoLostWakeup /\ ShutdownWakes

\* A notification is taken while there are workers in wait().
NotificationTaken ==
    (Bits(state) = "NOTIFIED" /\ parked # {})
       ~> (Bits(state) # "NOTIFIED" \/ parked = {})

\* shutdown() releases every worker.
ShutdownReleases ==
    \A w \in Waiters : (Bits(state) = "SHUTDOWN" /\ pc[w] # "out") ~> pc[w] = "out"

\* The refinement mapping.
token == INSTANCE TokenEvent WITH
            inside <- {w \in Waiters : pc[w] # "out"},
            token  <- Bits(state) = "NOTIFIED",
            closed <- Bits(state) = "SHUTDOWN"

\* Event is a one-token event: of the workers in wait() one returns per notification,
\* none without one before shutdown(), and all after it.
RefinesToken == token!TokenSpec
=============================================================================
