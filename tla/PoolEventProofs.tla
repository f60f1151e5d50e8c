-------------------------- MODULE PoolEventProofs ---------------------------
(* Proofs about the Event of ThreadPool.rs, for any number of threads. *)
EXTENDS PoolEvent, TLAPS

\* How far a worker in wait() has come.
Phases == {"fresh", "slept", "idle"}

LEMMA InitIInv == Init => IInv
BY PoolEventAssumption
   DEF Init, IInv, TypeOK, LocalsRead, NoLostWakeup, ShutdownWakes, Words, States,
       NoWord, Bits, WaiterLabels, CallerLabels, Callers

LEMMA Disjoint == Waiters \cap Callers = {}
BY PoolEventAssumption DEF Callers

LEMMA WordParts ==
    /\ NoWord \in Words
    /\ \A e \in 0 .. MaxEpoch, s \in States : <<e, s>> \in Words
                                              /\ Epoch(<<e, s>>) = e /\ Bits(<<e, s>>) = s
    /\ \A x \in Words : Epoch(x) \in 0 .. MaxEpoch /\ Bits(x) \in States
BY PoolEventAssumption DEF Words, States, NoWord, Epoch, Bits

\* A worker that is awake moves to another label where it is awake, with a word and
\* a phase of its own.
LEMMA WaiterMoves ==
    ASSUME TypeOK, NEW w \in Waiters, w \notin parked,
           NEW l \in WaiterLabels \ {"parked"}, NEW x \in Words, NEW ph \in Phases,
           pc' = [pc EXCEPT ![w] = l],
           word' = [word EXCEPT ![w] = x],
           phase' = [phase EXCEPT ![w] = ph],
           state' \in Words, parked' = parked, idle' \subseteq Waiters, left' = left
    PROVE  TypeOK'
<1>1. parked' = {v \in Waiters : pc'[v] = "parked"}
  BY DEF TypeOK
<1>2. pc' \in [Waiters \cup Callers -> WaiterLabels \cup CallerLabels]
  BY DEF TypeOK
<1>3. \A v \in Waiters : pc'[v] \in WaiterLabels
  BY DEF TypeOK
<1>4. \A c \in Callers : pc'[c] \in CallerLabels
  BY Disjoint DEF TypeOK
<1>5. word' \in [Waiters \cup Callers -> Words]
  BY DEF TypeOK
<1>6. phase' \in [Waiters -> {"fresh", "slept", "idle"}]
  BY DEF TypeOK, Phases
<1> QED
  BY <1>1, <1>2, <1>3, <1>4, <1>5, <1>6 DEF TypeOK

\* The loop head of wait(): where it goes, with which locals.
LEMMA DispatchMoves ==
    ASSUME TypeOK, NEW w \in Waiters, Dispatch(w)
    PROVE  \E l \in WaiterLabels \ {"parked", "sleep", "woken"}, x \in Words, ph \in Phases :
              /\ pc' = [pc EXCEPT ![w] = l]
              /\ word' = [word EXCEPT ![w] = x]
              /\ phase' = [phase EXCEPT ![w] = ph]
              /\ l = "consume" => Bits(x) = "NOTIFIED"
              /\ l = "arm" => Bits(x) = "EMPTY"
              /\ l = "out" => Bits(state) = "SHUTDOWN"
              /\ l # "out" => ph = phase[w]
<1>1. CASE Bits(state) = "SHUTDOWN"
  BY <1>1, WordParts DEF Dispatch, Return, Goto, Forget, WaiterLabels, Phases
<1>2. CASE Bits(state) # "SHUTDOWN"
  <2>1. phase' = [phase EXCEPT ![w] = phase[w]] /\ phase[w] \in Phases
    BY <1>2 DEF Dispatch, TypeOK, Phases
  <2>2. Bits(state) \in States /\ state \in Words
    BY WordParts DEF TypeOK
  <2>3. CASE Bits(state) = "NOTIFIED"
    <3>1. Branch[Bits(state)] = "consume"
      BY <2>3 DEF Branch
    <3>2. pc' = [pc EXCEPT ![w] = "consume"] /\ word' = [word EXCEPT ![w] = state]
      BY <1>2, <3>1 DEF Dispatch, Load, Goto
    <3>3. "consume" \in WaiterLabels \ {"parked", "sleep", "woken"}
      BY DEF WaiterLabels
    <3> QED
      BY <2>1, <2>2, <2>3, <3>2, <3>3
  <2>4. CASE Bits(state) = "EMPTY"
    <3>1. Branch[Bits(state)] = "arm"
      BY <2>4 DEF Branch
    <3>2. pc' = [pc EXCEPT ![w] = "arm"] /\ word' = [word EXCEPT ![w] = state]
      BY <1>2, <3>1 DEF Dispatch, Load, Goto
    <3>3. "arm" \in WaiterLabels \ {"parked", "sleep", "woken"}
      BY DEF WaiterLabels
    <3> QED
      BY <2>1, <2>2, <2>4, <3>2, <3>3
  <2>5. CASE Bits(state) = "WAITING"
    <3>1. Branch[Bits(state)] = "drain"
      BY <2>5 DEF Branch
    <3>2. pc' = [pc EXCEPT ![w] = "drain"] /\ word' = [word EXCEPT ![w] = state]
      BY <1>2, <3>1 DEF Dispatch, Load, Goto
    <3>3. "drain" \in WaiterLabels \ {"parked", "sleep", "woken"}
      BY DEF WaiterLabels
    <3> QED
      BY <2>1, <2>2, <2>5, <3>2, <3>3
  <2> QED
    BY <1>2, <2>2, <2>3, <2>4, <2>5 DEF States
<1> QED
  BY <1>1, <1>2

LEMMA DispatchKeeps ==
    ASSUME IInv, NEW w \in Waiters, w \notin parked, Dispatch(w),
           UNCHANGED <<state, parked, idle, left>>
    PROVE  IInv'
<1>0. TypeOK /\ LocalsRead /\ NoLostWakeup /\ ShutdownWakes
  BY DEF IInv
<1>1. PICK l \in WaiterLabels \ {"parked", "sleep", "woken"}, x \in Words, ph \in Phases :
              /\ pc' = [pc EXCEPT ![w] = l]
              /\ word' = [word EXCEPT ![w] = x]
              /\ phase' = [phase EXCEPT ![w] = ph]
              /\ l = "consume" => Bits(x) = "NOTIFIED"
              /\ l = "arm" => Bits(x) = "EMPTY"
              /\ l = "out" => Bits(state) = "SHUTDOWN"
              /\ l # "out" => ph = phase[w]
  BY <1>0, DispatchMoves
<1>2. TypeOK'
  BY <1>0, <1>1, WaiterMoves DEF TypeOK
<1>3. \A c \in Callers : pc'[c] = pc[c] /\ word'[c] = word[c]
  BY <1>0, <1>1, Disjoint DEF TypeOK
<1>4. \A v \in Waiters \ {w} : pc'[v] = pc[v] /\ word'[v] = word[v] /\ phase'[v] = phase[v]
  BY <1>0, <1>1 DEF TypeOK
<1>5. pc'[w] = l /\ word'[w] = x /\ phase'[w] = ph
  BY <1>0, <1>1 DEF TypeOK
<1>6. LocalsRead'
  BY <1>0, <1>1, <1>3, <1>4, <1>5 DEF LocalsRead
<1>7. NoLostWakeup'
  <2>1. SUFFICES ASSUME parked # {}, Bits(state) # "WAITING", ~WakePending
                 PROVE  \E v \in Waiters : Back(v)'
    BY <1>3 DEF NoLostWakeup, WakePending
  <2>2. PICK v \in Waiters : Back(v)
    BY <1>0, <2>1 DEF NoLostWakeup
  <2>3. l # "out"
    BY <1>0, <1>1, <2>1 DEF ShutdownWakes, WakePending
  <2>4. Back(v)'
    BY <1>1, <1>4, <1>5, <2>2, <2>3 DEF Back
  <2> QED
    BY <2>4
<1>8. ShutdownWakes'
  BY <1>0, <1>3 DEF ShutdownWakes
<1> QED
  BY <1>2, <1>6, <1>7, <1>8 DEF IInv

\* A caller moves, with a word of its own.
LEMMA CallerMoves ==
    ASSUME TypeOK, NEW c \in Callers, NEW l \in CallerLabels, NEW x \in Words,
           pc' = [pc EXCEPT ![c] = l],
           word' = [word EXCEPT ![c] = x],
           phase' = phase, state' \in Words, parked' = parked,
           idle' \subseteq Waiters, left' \in [Pushers -> SUBSET Waiters]
    PROVE  /\ TypeOK'
           /\ \A w \in Waiters : pc'[w] = pc[w] /\ word'[w] = word[w]
           /\ \A d \in Callers \ {c} : pc'[d] = pc[d] /\ word'[d] = word[d]
           /\ pc'[c] = l /\ word'[c] = x
<1>1. \A w \in Waiters : pc'[w] = pc[w] /\ word'[w] = word[w]
  BY Disjoint DEF TypeOK
<1>2. \A d \in Callers \ {c} : pc'[d] = pc[d] /\ word'[d] = word[d]
  BY DEF TypeOK
<1>3. pc'[c] = l /\ word'[c] = x
  BY DEF TypeOK
<1>4. pc' \in [Waiters \cup Callers -> WaiterLabels \cup CallerLabels]
  BY DEF TypeOK
<1>5. word' \in [Waiters \cup Callers -> Words]
  BY DEF TypeOK
<1>6. parked' = {v \in Waiters : pc'[v] = "parked"}
  BY <1>1 DEF TypeOK
<1> QED
  BY <1>1, <1>2, <1>3, <1>4, <1>5, <1>6 DEF TypeOK

LEMMA NextIInv == IInv /\ [Next]_vars => IInv'
<1> SUFFICES ASSUME IInv, [Next]_vars PROVE IInv'
  OBVIOUS
<1>0. TypeOK /\ LocalsRead /\ NoLostWakeup /\ ShutdownWakes
  BY DEF IInv
<1>1. ASSUME NEW w \in Waiters, Enter(w) PROVE IInv'
  BY <1>0, <1>1, DispatchKeeps DEF Enter, TypeOK
<1>2. ASSUME NEW w \in Waiters, Reload(w) PROVE IInv'
  BY <1>0, <1>2, DispatchKeeps DEF Reload, TypeOK
<1>3. ASSUME NEW w \in Waiters, Consume(w) PROVE IInv'
  <2>1. CASE state # word[w]
    BY <1>0, <1>3, <2>1, DispatchKeeps DEF Consume, TypeOK
  <2>2. CASE state = word[w]
    <3>1. Bits(state) = "NOTIFIED"
      BY <1>0, <1>3, <2>2 DEF Consume, LocalsRead
    <3>2. /\ pc' = [pc EXCEPT ![w] = "out"]
          /\ word' = [word EXCEPT ![w] = NoWord]
          /\ phase' = [phase EXCEPT ![w] = "fresh"]
          /\ state' = <<Epoch(state), AcquireWith(w)>>
          /\ UNCHANGED <<parked, idle, left>>
          /\ w \notin parked
      BY <1>0, <1>3, <2>2 DEF Consume, Return, Goto, Forget, TypeOK
    <3>3. AcquireWith(w) \in {"EMPTY", "WAITING"}
      BY DEF AcquireWith
    <3>4. state' \in Words /\ Bits(state') = AcquireWith(w)
      <4>1. Epoch(state) \in 0 .. MaxEpoch /\ AcquireWith(w) \in States
        BY <1>0, <3>3, WordParts DEF TypeOK, States
      <4> QED
        BY <3>2, <4>1, WordParts
    <3>5. TypeOK'
      BY <1>0, <3>2, <3>4, WaiterMoves, WordParts DEF TypeOK, WaiterLabels, Phases
    <3>6. \A c \in Callers : pc'[c] = pc[c] /\ word'[c] = word[c]
      BY <1>0, <3>2, Disjoint DEF TypeOK
    <3>7. \A v \in Waiters \ {w} : pc'[v] = pc[v] /\ word'[v] = word[v] /\ phase'[v] = phase[v]
      BY <1>0, <3>2 DEF TypeOK
    <3>8. pc'[w] = "out"
      BY <1>0, <3>2 DEF TypeOK
    <3>9. LocalsRead'
      BY <1>0, <3>6, <3>7, <3>8 DEF LocalsRead
    <3>10. NoLostWakeup'
      <4>1. CASE AcquireWith(w) = "WAITING"
        BY <3>4, <4>1 DEF NoLostWakeup
      <4>2. CASE AcquireWith(w) = "EMPTY"
        <5>1. phase[w] = "fresh"
          BY <4>2 DEF AcquireWith
        <5>2. \A v \in Waiters : Back(v) => Back(v)'
          BY <3>7, <5>1 DEF Back
        <5> QED
          BY <1>0, <3>1, <3>2, <3>6, <5>2 DEF NoLostWakeup, WakePending
      <4> QED
        BY <3>3, <4>1, <4>2
    <3>11. ShutdownWakes'
      BY <3>3, <3>4 DEF ShutdownWakes
    <3> QED
      BY <3>5, <3>9, <3>10, <3>11 DEF IInv
  <2> QED
    BY <2>1, <2>2
<1>4. ASSUME NEW w \in Waiters, Arm(w) PROVE IInv'
  <2>1. CASE state # word[w]
    BY <1>0, <1>4, <2>1, DispatchKeeps DEF Arm, TypeOK
  <2>2. CASE state = word[w]
    <3>2. /\ pc' = [pc EXCEPT ![w] = "drain"]
          /\ word' = [word EXCEPT ![w] = word[w]]
          /\ phase' = [phase EXCEPT ![w] = phase[w]]
          /\ state' = <<Epoch(state), "WAITING">>
          /\ UNCHANGED <<parked, idle, left, word, phase>>
          /\ w \notin parked
      BY <1>0, <1>4, <2>2 DEF Arm, Goto, TypeOK
    <3>3. state' \in Words /\ Bits(state') = "WAITING"
      BY <1>0, <3>2, WordParts DEF TypeOK, States
    <3>4. /\ word[w] \in Words /\ phase[w] \in Phases /\ idle' \subseteq Waiters
          /\ "drain" \in WaiterLabels \ {"parked"}
      BY <1>0, <3>2 DEF TypeOK, Phases, WaiterLabels
    <3>5. TypeOK'
      BY <1>0, <3>2, <3>3, <3>4, WaiterMoves, ZenonT(30)
    <3>6. LocalsRead'
      BY <1>0, <3>2, Disjoint DEF LocalsRead, TypeOK
    <3> QED
      BY <3>3, <3>5, <3>6 DEF IInv, NoLostWakeup, ShutdownWakes
  <2> QED
    BY <2>1, <2>2
<1>5. ASSUME NEW w \in Waiters, Drain(w) PROVE IInv'
  <2>1. /\ pc' = [pc EXCEPT ![w] = "sleep"]
        /\ word' = [word EXCEPT ![w] = word[w]]
        /\ phase' = [phase EXCEPT ![w] = phase[w]]
        /\ UNCHANGED <<state, parked, left, word, phase>>
        /\ idle' \subseteq Waiters
        /\ w \notin parked
    BY <1>0, <1>5 DEF Drain, Goto, TypeOK
  <2>2. /\ word[w] \in Words /\ phase[w] \in Phases /\ state' \in Words
        /\ "sleep" \in WaiterLabels \ {"parked"}
        /\ parked' = parked /\ left' = left
    BY <1>0, <2>1 DEF TypeOK, Phases, WaiterLabels
  <2>3. TypeOK'
    <3>1. /\ pc' = [pc EXCEPT ![w] = "sleep"]
          /\ word' = [word EXCEPT ![w] = word[w]]
          /\ phase' = [phase EXCEPT ![w] = phase[w]]
          /\ idle' \subseteq Waiters /\ w \notin parked
      BY <2>1
    <3> QED
      BY <1>0, <2>2, <3>1, WaiterMoves
  <2>4. LocalsRead'
    BY <1>0, <2>1, Disjoint DEF LocalsRead, TypeOK
  <2>5. \A c \in Callers : pc'[c] = pc[c]
    BY <1>0, <2>1, Disjoint DEF TypeOK
  <2>6. \A v \in Waiters : Back(v) => Back(v)'
    BY <1>0, <2>1 DEF Back, TypeOK
  <2> QED
    BY <1>0, <2>1, <2>3, <2>4, <2>5, <2>6 DEF IInv, NoLostWakeup, WakePending, ShutdownWakes
<1>6. ASSUME NEW w \in Waiters, FutexWait(w) PROVE IInv'
  <2> DEFINE ph == IF phase[w] = "fresh" THEN "slept" ELSE phase[w]
  <2>1. /\ word' = [word EXCEPT ![w] = NoWord]
        /\ phase' = [phase EXCEPT ![w] = ph]
        /\ UNCHANGED <<state, idle, left>>
        /\ w \notin parked
    BY <1>0, <1>6 DEF FutexWait, Forget, Slept, TypeOK
  <2>2. ph \in Phases /\ ph # "fresh"
    BY <1>0 DEF TypeOK, Phases
  <2> HIDE DEF ph
  <2>3. CASE state = <<Epoch(word[w]), "WAITING">>
    <3>1. pc' = [pc EXCEPT ![w] = "parked"] /\ parked' = parked \cup {w}
      BY <1>6, <2>3 DEF FutexWait, Goto
    <3>2. Bits(state) = "WAITING"
      BY <2>3 DEF Bits
    <3>3. parked' = {v \in Waiters : pc'[v] = "parked"}
      BY <1>0, <3>1 DEF TypeOK
    <3>4. TypeOK'
      <4>1. pc' \in [Waiters \cup Callers -> WaiterLabels \cup CallerLabels]
        BY <1>0, <3>1 DEF TypeOK, WaiterLabels
      <4>2. \A v \in Waiters : pc'[v] \in WaiterLabels
        BY <1>0, <3>1 DEF TypeOK, WaiterLabels
      <4>3. \A c \in Callers : pc'[c] \in CallerLabels
        BY <1>0, <3>1, Disjoint DEF TypeOK
      <4>4. word' \in [Waiters \cup Callers -> Words]
        BY <1>0, <2>1, WordParts DEF TypeOK
      <4>5. phase' \in [Waiters -> {"fresh", "slept", "idle"}]
        BY <1>0, <2>1, <2>2 DEF TypeOK, Phases
      <4> QED
        BY <1>0, <2>1, <3>3, <4>1, <4>2, <4>3, <4>4, <4>5 DEF TypeOK
    <3>5. LocalsRead'
      BY <1>0, <2>1, <2>2, <3>1, Disjoint DEF LocalsRead, TypeOK
    <3> QED
      BY <2>1, <3>2, <3>4, <3>5 DEF IInv, NoLostWakeup, ShutdownWakes
  <2>4. CASE state # <<Epoch(word[w]), "WAITING">>
    <3>1. pc' = [pc EXCEPT ![w] = "woken"] /\ parked' = parked
      BY <1>6, <2>4 DEF FutexWait, Goto
    <3>2. TypeOK'
      BY <1>0, <2>1, <2>2, <3>1, WaiterMoves, WordParts DEF TypeOK, WaiterLabels
    <3>3. LocalsRead'
      BY <1>0, <2>1, <2>2, <3>1, Disjoint DEF LocalsRead, TypeOK
    <3>4. \A c \in Callers : pc'[c] = pc[c]
      BY <1>0, <3>1, Disjoint DEF TypeOK
    <3>5. \A v \in Waiters : Back(v) => Back(v)'
      BY <1>0, <2>1, <2>2, <3>1 DEF Back, TypeOK
    <3> QED
      BY <1>0, <2>1, <3>1, <3>2, <3>3, <3>4, <3>5
         DEF IInv, NoLostWakeup, WakePending, ShutdownWakes
  <2> QED
    BY <2>3, <2>4
<1>7. ASSUME NEW w \in Waiters, Spurious(w) \/ TimedOut(w) PROVE IInv'
  <2>1. /\ pc' = [pc EXCEPT ![w] = "woken"]
        /\ parked' = parked \ {w}
        /\ w \in parked /\ pc[w] = "parked" /\ phase[w] # "fresh"
        /\ UNCHANGED <<state, idle, word, left>>
    BY <1>0, <1>7 DEF Spurious, TimedOut, Goto, TypeOK, LocalsRead
  <2>2. /\ phase' \in [Waiters -> {"fresh", "slept", "idle"}]
        /\ \A v \in Waiters \ {w} : phase'[v] = phase[v]
        /\ phase'[w] # "fresh"
    BY <1>0, <1>7, <2>1 DEF Spurious, TimedOut, TypeOK
  <2>3. TypeOK'
    BY <1>0, <2>1, <2>2, Disjoint DEF TypeOK, WaiterLabels
  <2>4. LocalsRead'
    BY <1>0, <2>1, <2>2, Disjoint DEF LocalsRead, TypeOK
  <2>5. \A c \in Callers : pc'[c] = pc[c]
    BY <1>0, <2>1, Disjoint DEF TypeOK
  <2>6. Back(w)'
    BY <1>0, <2>1, <2>2 DEF Back, TypeOK
  <2> QED
    BY <1>0, <2>1, <2>3, <2>4, <2>5, <2>6 DEF IInv, NoLostWakeup, ShutdownWakes
<1>8. ASSUME NEW c \in Callers, NotifyCas(c), state = word[c] PROVE IInv'
  <2> DEFINE l == IF Bits(state) = "WAITING" THEN "wake" ELSE "out"
  <2>1. /\ pc' = [pc EXCEPT ![c] = l]
        /\ word' = [word EXCEPT ![c] = NoWord]
        /\ state' = <<Epoch(state), "NOTIFIED">>
        /\ UNCHANGED <<parked, idle, phase, left>>
        /\ pc[c] = "notify"
    BY <1>8 DEF NotifyCas, Goto, Forget
  <2>2. state' \in Words /\ Bits(state') = "NOTIFIED"
    BY <1>0, <2>1, WordParts DEF TypeOK, States
  <2>3. l \in CallerLabels /\ l # "notify" /\ (l # "wake" => Bits(state) # "WAITING")
    BY DEF CallerLabels
  <2> HIDE DEF l
  <2>4. /\ TypeOK'
        /\ \A w \in Waiters : pc'[w] = pc[w] /\ word'[w] = word[w]
        /\ \A d \in Callers \ {c} : pc'[d] = pc[d] /\ word'[d] = word[d]
        /\ pc'[c] = l
    BY <1>0, <2>1, <2>2, <2>3, CallerMoves, WordParts DEF TypeOK
  <2>5. LocalsRead'
    BY <1>0, <2>1, <2>3, <2>4 DEF LocalsRead
  <2>6. \A w \in Waiters : Back(w) => Back(w)'
    BY <2>1, <2>4 DEF Back
  <2>7. WakePending => WakePending'
    BY <2>1, <2>4 DEF WakePending
  <2>8. NoLostWakeup'
    <3>1. CASE l = "wake"
      BY <2>4, <3>1 DEF NoLostWakeup, WakePending
    <3>2. CASE l # "wake"
      BY <1>0, <2>1, <2>3, <2>6, <2>7, <3>2 DEF NoLostWakeup
    <3> QED
      BY <3>1, <3>2
  <2> QED
    BY <2>2, <2>4, <2>5, <2>8 DEF IInv, ShutdownWakes
\* Loads and pushes: only the caller's locals change, and the idle queues.
<1>9. ASSUME NEW c \in Callers, NEW l \in CallerLabels, NEW x \in Words,
             pc' = [pc EXCEPT ![c] = l], word' = [word EXCEPT ![c] = x],
             pc[c] \notin {"wake", "wakeall"},
             l = "notify" => Bits(x) # "SHUTDOWN",
             UNCHANGED <<parked, phase>>,
             state' \in Words, Bits(state') = Bits(state),
             idle' \subseteq Waiters, left' \in [Pushers -> SUBSET Waiters]
      PROVE IInv'
  <2>1. /\ TypeOK'
        /\ \A w \in Waiters : pc'[w] = pc[w] /\ word'[w] = word[w]
        /\ \A d \in Callers \ {c} : pc'[d] = pc[d] /\ word'[d] = word[d]
        /\ pc'[c] = l /\ word'[c] = x
    BY <1>0, <1>9, CallerMoves DEF TypeOK
  <2>2. LocalsRead'
    BY <1>0, <1>9, <2>1 DEF LocalsRead
  <2>3. \A w \in Waiters : Back(w) => Back(w)'
    BY <1>9, <2>1 DEF Back
  <2>4. WakePending => WakePending'
    BY <1>9, <2>1 DEF WakePending
  <2>5. NoLostWakeup'
    BY <1>0, <1>9, <2>3, <2>4 DEF NoLostWakeup
  <2>6. ShutdownWakes'
    BY <1>0, <1>9, <2>1 DEF ShutdownWakes
  <2> QED
    BY <2>1, <2>2, <2>5, <2>6 DEF IInv
<1>10. ASSUME NEW c \in Callers, NotifyLook(c), pc[c] \notin {"wake", "wakeall"},
              UNCHANGED <<state, parked, idle, phase, left>>
       PROVE IInv'
  <2>1. CASE Bits(state) = "SHUTDOWN"
    <3>1. pc' = [pc EXCEPT ![c] = "out"] /\ word' = [word EXCEPT ![c] = NoWord]
      BY <1>10, <2>1 DEF NotifyLook, Goto, Forget
    <3> QED
      BY <1>0, <1>9, <1>10, <3>1, WordParts DEF TypeOK, CallerLabels
  <2>2. CASE Bits(state) # "SHUTDOWN"
    <3>1. pc' = [pc EXCEPT ![c] = "notify"] /\ word' = [word EXCEPT ![c] = state]
      BY <1>10, <2>2 DEF NotifyLook, Goto, Load
    <3> QED
      BY <1>0, <1>9, <1>10, <2>2, <3>1 DEF TypeOK, CallerLabels
  <2> QED
    BY <2>1, <2>2
<1>11. ASSUME NEW c \in Callers, NotifyCas(c), state # word[c] PROVE IInv'
  BY <1>10, <1>11 DEF NotifyCas
<1>12. ASSUME NEW c \in Notifiers, NotifyLoad(c) PROVE IInv'
  BY <1>10, <1>12 DEF NotifyLoad, Callers
<1>13. ASSUME NEW c \in Notifiers, Shutdown(c) PROVE IInv'
  <2>1. /\ pc' = [pc EXCEPT ![c] = "wakeall"]
        /\ word' = [word EXCEPT ![c] = word[c]]
        /\ state' = <<Epoch(state), "SHUTDOWN">>
        /\ UNCHANGED <<parked, idle, phase, left>>
        /\ c \in Callers /\ word[c] \in Words
    BY <1>0, <1>13 DEF Shutdown, Goto, TypeOK, Callers
  <2>2. state' \in Words
    BY <1>0, <2>1, WordParts DEF TypeOK, States
  <2>3. /\ TypeOK'
        /\ \A w \in Waiters : pc'[w] = pc[w] /\ word'[w] = word[w]
        /\ \A d \in Callers \ {c} : pc'[d] = pc[d] /\ word'[d] = word[d]
        /\ pc'[c] = "wakeall"
    BY <1>0, <2>1, <2>2, CallerMoves DEF TypeOK, CallerLabels
  <2>4. LocalsRead'
    BY <1>0, <2>1, <2>3 DEF LocalsRead
  <2> QED
    BY <2>1, <2>3, <2>4 DEF IInv, NoLostWakeup, WakePending, ShutdownWakes
<1>14. ASSUME NEW c \in Pushers, PushBegin(c) PROVE IInv'
  <2>1. /\ pc' = [pc EXCEPT ![c] = "push"]
        /\ word' = [word EXCEPT ![c] = word[c]]
        /\ c \in Callers /\ word[c] \in Words
    BY <1>0, <1>14 DEF PushBegin, Goto, TypeOK, Callers
  <2>2. left' \in [Pushers -> SUBSET Waiters]
    BY <1>0, <1>14 DEF PushBegin, TypeOK
  <2> QED
    BY <1>0, <1>9, <1>14, <2>1, <2>2 DEF PushBegin, TypeOK, CallerLabels
<1>15. ASSUME NEW c \in Pushers, PushIdle(c) PROVE IInv'
  <2>1. PICK w \in left[c] : /\ idle' = idle \cup {w}
                             /\ left' = [left EXCEPT ![c] = @ \ {w}]
                             /\ pc' = [pc EXCEPT ![c] = IF left[c] = {w} THEN "bump" ELSE "push"]
    BY <1>15 DEF PushIdle, Goto
  <2>2. /\ idle' \subseteq Waiters
        /\ left' \in [Pushers -> SUBSET Waiters]
        /\ word' = [word EXCEPT ![c] = word[c]]
        /\ c \in Callers /\ word[c] \in Words
    BY <1>0, <1>15, <2>1 DEF PushIdle, TypeOK, Callers
  <2> QED
    BY <1>0, <1>9, <1>15, <2>1, <2>2 DEF PushIdle, TypeOK, CallerLabels
<1>16. ASSUME NEW c \in Pushers, Bump(c) PROVE IInv'
  <2>1. /\ pc' = [pc EXCEPT ![c] = "wakeall"]
        /\ word' = [word EXCEPT ![c] = word[c]]
        /\ c \in Callers /\ word[c] \in Words
    BY <1>0, <1>16 DEF Bump, Goto, TypeOK, Callers
  <2>2. state' \in Words /\ Bits(state') = Bits(state)
    <3>1. Epoch(state) + 1 \in 0 .. MaxEpoch /\ Bits(state) \in States
      BY <1>0, <1>16, WordParts, PoolEventAssumption DEF Bump, TypeOK
    <3> QED
      BY <1>16, <3>1, WordParts DEF Bump
  <2> QED
    BY <1>0, <1>9, <1>16, <2>1, <2>2 DEF Bump, TypeOK, CallerLabels
<1>17. ASSUME NEW c \in Callers, WakeOne(c) PROVE IInv'
  <2>1. CASE parked = {}
    <3>1. pc' = [pc EXCEPT ![c] = "out"] /\ word' = [word EXCEPT ![c] = word[c]]
          /\ UNCHANGED <<state, parked, idle, word, phase, left>> /\ word[c] \in Words
      BY <1>0, <1>17, <2>1 DEF WakeOne, Goto, TypeOK
    <3>2. /\ TypeOK'
          /\ \A w \in Waiters : pc'[w] = pc[w]
          /\ \A d \in Callers \ {c} : pc'[d] = pc[d]
          /\ pc'[c] = "out"
      BY <1>0, <3>1, CallerMoves DEF TypeOK, CallerLabels
    <3>3. LocalsRead'
      BY <1>0, <3>1, <3>2 DEF LocalsRead
    <3> QED
      BY <2>1, <3>1, <3>2, <3>3 DEF IInv, NoLostWakeup, ShutdownWakes
  <2>2. CASE parked # {}
    <3>1. PICK w \in parked : /\ parked' = parked \ {w}
                              /\ pc' = [pc EXCEPT ![c] = "out", ![w] = "woken"]
      BY <1>17, <2>2 DEF WakeOne
    <3>2. /\ w \in Waiters /\ w # c /\ phase[w] # "fresh"
          /\ UNCHANGED <<state, idle, word, phase, left>>
          /\ pc[c] = "wake"
      BY <1>0, <1>17, <3>1, Disjoint DEF WakeOne, TypeOK, LocalsRead
    <3>3. /\ pc'[c] = "out" /\ pc'[w] = "woken"
          /\ \A t \in (Waiters \cup Callers) \ {c, w} : pc'[t] = pc[t]
          /\ pc' \in [Waiters \cup Callers -> WaiterLabels \cup CallerLabels]
      BY <1>0, <3>1, <3>2 DEF TypeOK, WaiterLabels
    <3>4. TypeOK'
      BY <1>0, <3>1, <3>2, <3>3, Disjoint DEF TypeOK, WaiterLabels, CallerLabels
    <3>5. LocalsRead'
      BY <1>0, <3>2, <3>3, Disjoint DEF LocalsRead
    <3>6. NoLostWakeup'
      BY <3>2, <3>3 DEF NoLostWakeup, Back
    <3>7. ShutdownWakes'
      BY <1>0, <3>1, <3>2, <3>3, Disjoint DEF ShutdownWakes
    <3> QED
      BY <3>4, <3>5, <3>6, <3>7 DEF IInv
  <2> QED
    BY <2>1, <2>2
<1>18. ASSUME NEW c \in Callers, WakeAll(c) PROVE IInv'
  <2>1. /\ parked' = {} /\ UNCHANGED <<state, idle, word, phase, left>>
        /\ DOMAIN pc = Waiters \cup Callers
    BY <1>0, <1>18 DEF WakeAll, TypeOK
  <2>2. /\ pc' \in [Waiters \cup Callers -> WaiterLabels \cup CallerLabels]
        /\ pc'[c] = "out"
        /\ \A w \in Waiters : pc'[w] = IF w \in parked THEN "woken" ELSE pc[w]
        /\ \A d \in Callers \ {c} : pc'[d] = pc[d]
    BY <1>0, <1>18, <2>1, Disjoint DEF WakeAll, TypeOK, WaiterLabels
  <2>3. TypeOK'
    BY <1>0, <2>1, <2>2 DEF TypeOK, WaiterLabels, CallerLabels
  <2>4. LocalsRead'
    BY <1>0, <2>1, <2>2 DEF LocalsRead, TypeOK
  <2> QED
    BY <2>1, <2>3, <2>4 DEF IInv, NoLostWakeup, ShutdownWakes
<1>19. CASE UNCHANGED vars
  BY <1>0, <1>19 DEF vars, IInv, TypeOK, LocalsRead, NoLostWakeup, WakePending, Back, ShutdownWakes
<1> QED
  BY <1>1, <1>2, <1>3, <1>4, <1>5, <1>6, <1>7, <1>8, <1>11, <1>12, <1>13, <1>14, <1>15,
     <1>16, <1>17, <1>18, <1>19
     DEF Next, Wait, Run, Post, Announce, Callers

\* For any number of workers and callers: a worker that sleeps is never one that the
\* next notify() forgets, and none sleeps through shutdown().
THEOREM EventNoLostWakeup == Spec => [](NoLostWakeup /\ ShutdownWakes)
<1>1. IInv => NoLostWakeup /\ ShutdownWakes
  BY DEF IInv
<1> QED
  BY <1>1, InitIInv, NextIInv, PTL DEF Spec

\* The inductive invariant itself.
THEOREM EventIInv == Spec => []IInv
BY InitIInv, NextIInv, PTL DEF Spec

-----------------------------------------------------------------------------
(* Idle tasks: no worker sleeps on one that nobody is about to announce. *)

\* Steps that push nothing, announce nothing and put nobody to sleep.
LEMMA IdleFrame ==
    ASSUME IdleTaskAnnounced, IdleTaskSeen,
           parked' \subseteq parked, idle' \subseteq idle, left' = left,
           Epoch(state') = Epoch(state),
           \A w \in Waiters : Epoch(word'[w]) <= Epoch(state),
           \A w \in Waiters : w \in idle' /\ pc'[w] = "sleep"
                                => pc[w] = "sleep" /\ word'[w] = word[w],
           \A c \in Pushers : pc'[c] = pc[c]
    PROVE  IdleTaskAnnounced' /\ IdleTaskSeen'
<1>1. \A c \in Pushers, w \in Waiters : Announcing(c, w) => Announcing(c, w)'
  BY DEF Announcing
<1>2. IdleTaskAnnounced'
  BY DEF IdleTaskAnnounced, Announcing
<1>3. IdleTaskSeen'
  BY <1>1 DEF IdleTaskSeen
<1> QED
  BY <1>2, <1>3

LEMMA InitIdle == Init => IdleIInv
<1> SUFFICES ASSUME Init PROVE IdleIInv
  OBVIOUS
<1>1. TypeOK
  BY InitIInv DEF IInv
<1>2. IdleTaskAnnounced /\ IdleTaskSeen
  BY DEF Init, IdleTaskAnnounced, IdleTaskSeen, NoWord, Epoch
<1> QED
  BY <1>1, <1>2 DEF IdleIInv

\* The loop head of wait() reads the word that is there.
LEMMA DispatchIdle ==
    ASSUME IdleIInv, NEW w \in Waiters, Dispatch(w),
           parked' = parked, idle' = idle, left' = left, state' = state
    PROVE  IdleTaskAnnounced' /\ IdleTaskSeen'
<1>0. TypeOK /\ IdleTaskAnnounced /\ IdleTaskSeen
  BY DEF IdleIInv
<1>1. PICK l \in WaiterLabels \ {"parked", "sleep", "woken"} : pc' = [pc EXCEPT ![w] = l]
  BY <1>0, DispatchMoves
<1>2. word' = [word EXCEPT ![w] = state] \/ word' = [word EXCEPT ![w] = NoWord]
  BY DEF Dispatch, Return, Load, Forget
<1>3. Epoch(state) \in Nat /\ 0 <= Epoch(state) /\ Epoch(NoWord) = 0
  BY <1>0, WordParts, PoolEventAssumption DEF TypeOK, NoWord, Epoch
<1>4. \A v \in Waiters : Epoch(word'[v]) <= Epoch(state)
  BY <1>0, <1>2, <1>3 DEF TypeOK, IdleTaskSeen
<1>5. \A v \in Waiters : v \in idle' /\ pc'[v] = "sleep" => pc[v] = "sleep" /\ word'[v] = word[v]
  BY <1>0, <1>1, <1>2 DEF TypeOK
<1>6. \A c \in Pushers : pc'[c] = pc[c]
  BY <1>0, <1>1, Disjoint DEF TypeOK, Callers
<1> QED
  BY <1>0, <1>4, <1>5, <1>6, IdleFrame

LEMMA WaitIdle ==
    ASSUME IdleIInv, NEW w \in Waiters, Wait(w)
    PROVE  IdleTaskAnnounced' /\ IdleTaskSeen'
<1>0. TypeOK /\ IdleTaskAnnounced /\ IdleTaskSeen
  BY DEF IdleIInv
<1>1. CASE Enter(w) \/ Reload(w)
  BY <1>1, DispatchIdle DEF Enter, Reload
<1>2. CASE (Consume(w) \/ Arm(w)) /\ state # word[w]
  BY <1>2, DispatchIdle DEF Consume, Arm
<1>3. Epoch(state) \in Nat /\ Epoch(NoWord) = 0 /\ 0 <= Epoch(state)
  BY <1>0, WordParts, PoolEventAssumption DEF TypeOK, NoWord, Epoch
\* The other steps leave every caller where it is.
<1>4. ASSUME NEW l, pc' = [pc EXCEPT ![w] = l], l # "sleep" \/ w \notin idle',
             word' = word \/ word' = [word EXCEPT ![w] = NoWord], pc[w] # "sleep" \/ l # "sleep",
             parked' \subseteq parked, idle' \subseteq idle, left' = left,
             Epoch(state') = Epoch(state)
      PROVE  IdleTaskAnnounced' /\ IdleTaskSeen'
  <2>1. \A v \in Waiters : Epoch(word'[v]) <= Epoch(state)
    BY <1>0, <1>3, <1>4 DEF TypeOK, IdleTaskSeen
  <2>2. \A v \in Waiters : v \in idle' /\ pc'[v] = "sleep" => pc[v] = "sleep" /\ word'[v] = word[v]
    BY <1>0, <1>4 DEF TypeOK
  <2>3. \A c \in Pushers : pc'[c] = pc[c]
    BY <1>0, <1>4, Disjoint DEF TypeOK, Callers
  <2> QED
    BY <1>0, <1>4, <2>1, <2>2, <2>3, IdleFrame
<1>5. CASE Consume(w) /\ state = word[w]
  <2>1. Epoch(state') = Epoch(state)
    BY <1>5 DEF Consume, Epoch
  <2> QED
    BY <1>4, <1>5, <2>1 DEF Consume, Return, Goto, Forget
<1>6. CASE Arm(w) /\ state = word[w]
  <2>1. Epoch(state') = Epoch(state)
    BY <1>6 DEF Arm, Epoch
  <2> QED
    BY <1>4, <1>6, <2>1 DEF Arm, Goto
<1>7. CASE Drain(w)
  BY <1>4, <1>7 DEF Drain, Goto
<1>8. CASE Spurious(w) \/ TimedOut(w)
  BY <1>4, <1>8 DEF Spurious, TimedOut, Goto
<1>9. CASE FutexWait(w) /\ state # <<Epoch(word[w]), "WAITING">>
  BY <1>4, <1>9 DEF FutexWait, Goto, Forget
\* The futex takes the worker in: the word has not moved since it was loaded, so that
\* the caller that pushed a task since is still on its way to the epoch.
<1>10. CASE FutexWait(w) /\ state = <<Epoch(word[w]), "WAITING">>
  <2>1. /\ pc' = [pc EXCEPT ![w] = "parked"] /\ word' = [word EXCEPT ![w] = NoWord]
        /\ parked' = parked \cup {w} /\ idle' = idle /\ left' = left /\ state' = state
        /\ pc[w] = "sleep"
    BY <1>10 DEF FutexWait, Goto, Forget
  <2>2. Epoch(word[w]) = Epoch(state)
    BY <1>10 DEF Epoch
  <2>3. w \in idle => \E c \in Pushers : Announcing(c, w)
    BY <1>0, <1>3, <2>1, <2>2 DEF IdleTaskSeen
  <2>4. \A c \in Pushers : pc'[c] = pc[c]
    BY <1>0, <2>1, Disjoint DEF TypeOK, Callers
  <2>5. \A c \in Pushers, v \in Waiters : Announcing(c, v) => Announcing(c, v)'
    BY <2>1, <2>4 DEF Announcing
  <2>6. IdleTaskAnnounced'
    <3>1. SUFFICES ASSUME NEW v \in parked' \cap idle'
                   PROVE  \E c \in Pushers : pc'[c] = "wakeall" \/ Announcing(c, v)'
      BY DEF IdleTaskAnnounced
    <3>2. CASE v = w
      BY <2>1, <2>3, <2>5, <3>1, <3>2
    <3>3. CASE v # w
      <4>1. v \in parked \cap idle /\ v \in Waiters
        BY <1>0, <2>1, <3>1, <3>3 DEF TypeOK
      <4> QED
        BY <1>0, <2>4, <2>5, <4>1 DEF IdleTaskAnnounced
    <3> QED
      BY <3>2, <3>3
  <2>7. IdleTaskSeen'
    <3>1. \A v \in Waiters : Epoch(word'[v]) <= Epoch(state')
      BY <1>0, <1>3, <2>1 DEF TypeOK, IdleTaskSeen
    <3>2. \A v \in Waiters : pc'[v] = "sleep" => pc[v] = "sleep" /\ word'[v] = word[v]
      BY <1>0, <2>1 DEF TypeOK
    <3> QED
      BY <1>0, <2>1, <2>5, <3>1, <3>2 DEF IdleTaskSeen
  <2> QED
    BY <2>6, <2>7
<1> QED
  BY <1>1, <1>2, <1>5, <1>6, <1>7, <1>8, <1>9, <1>10 DEF Wait, Run

LEMMA NotifierIdle ==
    ASSUME IdleIInv, NEW c \in Notifiers, NotifyLoad(c) \/ Shutdown(c) \/ NotifyCas(c) \/ WakeOne(c)
    PROVE  IdleTaskAnnounced' /\ IdleTaskSeen'
<1>0. TypeOK /\ IdleTaskAnnounced /\ IdleTaskSeen
  BY DEF IdleIInv
<1>1. \A p \in Pushers : p # c /\ p \in Waiters \cup Callers /\ p \notin Waiters
  BY PoolEventAssumption DEF Callers
<1>2. c \notin Waiters /\ c \in Callers
  BY PoolEventAssumption DEF Callers
<1>3. \A w \in Waiters : word'[w] = word[w]
  BY <1>0, <1>2 DEF NotifyLoad, NotifyLook, Shutdown, NotifyCas, WakeOne, Load, Forget, TypeOK
<1>4. Epoch(state') = Epoch(state)
  BY DEF NotifyLoad, NotifyLook, Shutdown, NotifyCas, WakeOne, Epoch
<1>5. parked' \subseteq parked /\ idle' = idle /\ left' = left
  BY DEF NotifyLoad, NotifyLook, Shutdown, NotifyCas, WakeOne
<1>6. /\ \A w \in Waiters : pc'[w] = "sleep" => pc[w] = "sleep"
      /\ \A p \in Pushers : pc'[p] = pc[p]
  <2>1. CASE ~WakeOne(c) \/ parked = {}
    <3>1. \E l : pc' = [pc EXCEPT ![c] = l]
      BY <2>1 DEF NotifyLoad, NotifyLook, Shutdown, NotifyCas, WakeOne, Goto
    <3> QED
      BY <1>0, <1>1, <1>2, <3>1 DEF TypeOK
  <2>2. CASE WakeOne(c) /\ parked # {}
    <3>1. PICK w \in parked : pc' = [pc EXCEPT ![c] = "out", ![w] = "woken"]
      BY <2>2 DEF WakeOne
    <3> QED
      BY <1>0, <1>1, <1>2, <3>1 DEF TypeOK
  <2> QED
    BY <2>1, <2>2
<1>7. \A w \in Waiters : Epoch(word'[w]) <= Epoch(state)
  BY <1>0, <1>3 DEF IdleTaskSeen
<1> QED
  BY <1>0, <1>3, <1>4, <1>5, <1>6, <1>7, IdleFrame

LEMMA WakeAllIdle ==
    ASSUME IdleIInv, NEW c \in Callers, WakeAll(c)
    PROVE  IdleTaskAnnounced' /\ IdleTaskSeen'
<1>0. TypeOK /\ IdleTaskSeen
  BY DEF IdleIInv
<1>1. parked' = {} /\ UNCHANGED <<state, idle, word, left>> /\ pc[c] = "wakeall"
  BY DEF WakeAll
<1>2. \A t \in Waiters \cup Callers :
         pc'[t] = IF t = c THEN "out" ELSE IF t \in parked THEN "woken" ELSE pc[t]
  BY <1>0 DEF WakeAll, TypeOK
<1>3. \A p \in Pushers, w \in Waiters : Announcing(p, w) => Announcing(p, w)'
  BY <1>0, <1>1, <1>2, Disjoint DEF Announcing, TypeOK, Callers
<1>4. \A w \in Waiters : pc'[w] = "sleep" => pc[w] = "sleep"
  BY <1>0, <1>2, Disjoint DEF TypeOK
<1>5. IdleTaskSeen'
  BY <1>0, <1>1, <1>3, <1>4 DEF IdleTaskSeen
<1> QED
  BY <1>1, <1>5 DEF IdleTaskAnnounced

LEMMA PusherIdle ==
    ASSUME IdleIInv, NEW c \in Pushers, PushBegin(c) \/ PushIdle(c) \/ Bump(c)
    PROVE  IdleTaskAnnounced' /\ IdleTaskSeen'
<1>0. TypeOK /\ IdleTaskAnnounced /\ IdleTaskSeen
  BY DEF IdleIInv
<1>1. /\ parked' = parked /\ word' = word
      /\ \A w \in Waiters : pc'[w] = pc[w]
      /\ \A p \in Pushers \ {c} : pc'[p] = pc[p] /\ left'[p] = left[p]
  <2>1. c \in Callers /\ c \notin Waiters
    BY PoolEventAssumption DEF Callers
  <2>2. parked' = parked /\ word' = word
    BY DEF PushBegin, PushIdle, Bump
  <2>3. \E l : pc' = [pc EXCEPT ![c] = l]
    BY DEF PushBegin, PushIdle, Bump, Goto
  <2>4. left' = left \/ \E x : left' = [left EXCEPT ![c] = x]
    BY DEF PushBegin, PushIdle, Bump
  <2> QED
    BY <1>0, <2>1, <2>2, <2>3, <2>4 DEF TypeOK, Callers
<1>2. Epoch(state) \in Nat /\ \A w \in Waiters : Epoch(word[w]) \in Nat
  BY <1>0, WordParts, PoolEventAssumption DEF TypeOK
<1>3. \A w \in Waiters, p \in Pushers \ {c} : Announcing(p, w) => Announcing(p, w)'
  BY <1>1 DEF Announcing
<1>4. CASE PushBegin(c)
  <2>1. pc[c] = "out" /\ idle' = idle /\ state' = state
    BY <1>4 DEF PushBegin
  <2>2. \A w \in Waiters, p \in Pushers : Announcing(p, w) => Announcing(p, w)'
    BY <1>3, <2>1 DEF Announcing
  <2>3. \A p \in Pushers : pc[p] = "wakeall" => pc'[p] = "wakeall"
    BY <1>1, <2>1
  <2>4. parked \subseteq Waiters
    BY <1>0 DEF TypeOK
  <2>5. IdleTaskAnnounced'
    BY <1>0, <1>1, <2>1, <2>2, <2>3, <2>4 DEF IdleTaskAnnounced
  <2>6. IdleTaskSeen'
    BY <1>0, <1>1, <2>1, <2>2 DEF IdleTaskSeen
  <2> QED
    BY <2>5, <2>6
\* The one whose task was pushed is announced by this caller.
<1>5. CASE PushIdle(c)
  <2>1. PICK v \in left[c] : /\ idle' = idle \cup {v}
                             /\ left' = [left EXCEPT ![c] = @ \ {v}]
                             /\ pc' = [pc EXCEPT ![c] = IF left[c] = {v} THEN "bump" ELSE "push"]
    BY <1>5 DEF PushIdle, Goto
  <2>2. /\ pc[c] = "push" /\ state' = state
        /\ left'[c] = left[c] \ {v}
        /\ pc'[c] \in {"bump", "push"}
    BY <1>0, <1>5, <2>1 DEF PushIdle, TypeOK, Callers
  <2>3. \A w \in Waiters : Announcing(c, w) => Announcing(c, w)'
    BY <2>2 DEF Announcing
  <2>4. Announcing(c, v)'
    BY <2>2 DEF Announcing
  <2>5. \A w \in Waiters, p \in Pushers : Announcing(p, w) => Announcing(p, w)'
    BY <1>3, <2>3
  <2>6. \A p \in Pushers : pc[p] = "wakeall" => pc'[p] = "wakeall"
    BY <1>1, <2>2
  <2>7. parked \subseteq Waiters
    BY <1>0 DEF TypeOK
  <2>8. IdleTaskAnnounced'
    BY <1>0, <1>1, <2>1, <2>4, <2>5, <2>6, <2>7 DEF IdleTaskAnnounced
  <2>9. IdleTaskSeen'
    BY <1>0, <1>1, <2>1, <2>2, <2>4, <2>5 DEF IdleTaskSeen
  <2> QED
    BY <2>8, <2>9
\* The epoch moves past every word that was loaded.
<1>6. CASE Bump(c)
  <2>1. /\ pc[c] = "bump" /\ idle' = idle
        /\ state' = <<Epoch(state) + 1, Bits(state)>>
        /\ pc' = [pc EXCEPT ![c] = "wakeall"]
    BY <1>6 DEF Bump, Goto
  <2>2. Epoch(state') = Epoch(state) + 1
    BY <2>1 DEF Epoch
  <2>3. pc'[c] = "wakeall"
    BY <1>0, <2>1 DEF TypeOK, Callers
  <2>4. IdleTaskAnnounced'
    BY <2>3 DEF IdleTaskAnnounced
  <2>5. \A w \in Waiters : Epoch(word'[w]) < Epoch(state')
    BY <1>0, <1>1, <1>2, <2>2 DEF IdleTaskSeen
  <2>6. \A w \in Waiters : Epoch(word'[w]) <= Epoch(state')
    BY <1>1, <1>2, <2>2, <2>5
  <2> QED
    BY <2>4, <2>5, <2>6 DEF IdleTaskSeen
<1> QED
  BY <1>4, <1>5, <1>6

LEMMA NextIdle == IInv /\ IdleIInv /\ [Next]_vars => IdleIInv'
<1> SUFFICES ASSUME IInv, IdleIInv, [Next]_vars PROVE IdleIInv'
  OBVIOUS
<1>1. TypeOK'
  BY NextIInv DEF IInv
<1>2. CASE UNCHANGED vars
  BY <1>2 DEF vars, IdleIInv, TypeOK, IdleTaskAnnounced, IdleTaskSeen, Announcing
<1>3. CASE Next
  <2>1. IdleTaskAnnounced' /\ IdleTaskSeen'
    BY <1>3, WaitIdle, NotifierIdle, WakeAllIdle, PusherIdle DEF Next, Post, Announce, Callers
  <2> QED
    BY <1>1, <2>1 DEF IdleIInv
<1> QED
  BY <1>2, <1>3

\* For any number of workers and callers: no worker sleeps on a task in its idle queue
\* that push_idle_task_to_each_thread() is not still about to announce.
THEOREM EventIdleTaskAnnounced == Spec => []IdleTaskAnnounced
<1>1. Init => IInv /\ IdleIInv
  BY InitIInv, InitIdle
<1>2. (IInv /\ IdleIInv) /\ [Next]_vars => (IInv /\ IdleIInv)'
  BY NextIInv, NextIdle
<1>3. IInv /\ IdleIInv => IdleTaskAnnounced
  BY DEF IdleIInv
<1> QED
  BY <1>1, <1>2, <1>3, PTL DEF Spec

-----------------------------------------------------------------------------
(* Refinement: every step is a step of TokenEvent, or none of it. *)

Inside == {w \in Waiters : pc[w] # "out"}

Token == Bits(state) = "NOTIFIED"

Closed == Bits(state) = "SHUTDOWN"

LEMMA DispatchRefines ==
    ASSUME TypeOK, NEW w \in Waiters, Dispatch(w), UNCHANGED state
    PROVE  /\ Token' = Token /\ Closed' = Closed
           /\ ~Closed => Inside' = Inside \cup {w}
           /\ Closed  => Inside' = Inside \ {w}
<1>1. PICK l \in WaiterLabels \ {"parked", "sleep", "woken"}, x \in Words, ph \in Phases :
              /\ pc' = [pc EXCEPT ![w] = l]
              /\ l = "out" => Bits(state) = "SHUTDOWN"
  BY DispatchMoves
<1>2. Closed => pc' = [pc EXCEPT ![w] = "out"]
  BY DEF Dispatch, Return, Goto, Closed
<1>3. ~Closed => Inside' = Inside \cup {w}
  BY <1>1 DEF Inside, TypeOK, Closed
<1>4. Closed => Inside' = Inside \ {w}
  BY <1>2 DEF Inside, TypeOK
<1> QED
  BY <1>3, <1>4 DEF Token, Closed

LEMMA NextRefines ==
    IInv /\ [Next]_vars => [token!TokenNext]_(token!tokenVars)
<1> SUFFICES ASSUME IInv, [Next]_vars
             PROVE  \/ token!TokenNext
                    \/ Inside' = Inside /\ Token' = Token /\ Closed' = Closed
  BY DEF token!tokenVars, Inside, Token, Closed
<1> USE DEF Inside, Token, Closed
<1>0. TypeOK /\ LocalsRead
  BY DEF IInv
<1>1. ASSUME NEW w \in Waiters, Enter(w)
      PROVE  token!Come(w) \/ (Inside' = Inside /\ Token' = Token /\ Closed' = Closed)
  BY <1>0, <1>1, DispatchRefines DEF Enter, token!Come
<1>2. ASSUME NEW w \in Waiters, pc[w] # "out", Dispatch(w), UNCHANGED state
      PROVE  token!TurnedAway(w) \/ (Inside' = Inside /\ Token' = Token /\ Closed' = Closed)
  BY <1>0, <1>2, DispatchRefines DEF token!TurnedAway
<1>3. ASSUME NEW w \in Waiters, Consume(w), state = word[w]
      PROVE  token!Take(w)
  <2>1. pc' = [pc EXCEPT ![w] = "out"] /\ state' = <<Epoch(state), AcquireWith(w)>> /\ pc[w] = "consume"
    BY <1>3 DEF Consume, Return, Goto
  <2>2. Bits(state) = "NOTIFIED"
    BY <1>0, <1>3, <2>1 DEF LocalsRead
  <2>3. Bits(state') \in {"EMPTY", "WAITING"}
    BY <2>1 DEF Bits, AcquireWith
  <2>4. Inside' = Inside \ {w} /\ w \in Inside
    BY <1>0, <2>1 DEF TypeOK
  <2> QED
    BY <2>2, <2>3, <2>4 DEF token!Take
<1>4. ASSUME NEW w \in Waiters, Arm(w), state = word[w]
      PROVE  Inside' = Inside /\ Token' = Token /\ Closed' = Closed
  <2>1. pc' = [pc EXCEPT ![w] = "drain"] /\ state' = <<Epoch(state), "WAITING">> /\ pc[w] = "arm"
    BY <1>4 DEF Arm, Goto
  <2>2. Bits(state) = "EMPTY" /\ Bits(state') = "WAITING"
    BY <1>0, <1>4, <2>1 DEF LocalsRead, Bits
  <2> QED
    BY <1>0, <2>1, <2>2 DEF TypeOK
<1>5. ASSUME NEW w \in Waiters, Drain(w) \/ FutexWait(w) \/ Spurious(w) \/ TimedOut(w)
      PROVE  Inside' = Inside /\ Token' = Token /\ Closed' = Closed
  BY <1>0, <1>5 DEF Drain, FutexWait, Spurious, TimedOut, Goto, TypeOK
<1>6. ASSUME NEW c \in Callers, NEW l, pc' = [pc EXCEPT ![c] = l]
      PROVE  Inside' = Inside
  BY <1>0, <1>6, Disjoint DEF TypeOK
<1>7. ASSUME NEW c \in Callers, NotifyLook(c), UNCHANGED state
      PROVE  Inside' = Inside /\ Token' = Token /\ Closed' = Closed
  BY <1>6, <1>7 DEF NotifyLook, Goto
<1>8. ASSUME NEW c \in Callers, NotifyCas(c), state = word[c]
      PROVE  token!Notify
  <2>1. state' = <<Epoch(state), "NOTIFIED">> /\ pc[c] = "notify" /\ Inside' = Inside
    BY <1>6, <1>8 DEF NotifyCas, Goto
  <2>2. Bits(state) # "SHUTDOWN" /\ Bits(state') = "NOTIFIED"
    BY <1>0, <1>8, <2>1 DEF LocalsRead, Bits
  <2> QED
    BY <2>1, <2>2 DEF token!Notify
<1>9. ASSUME NEW c \in Notifiers, Shutdown(c)
      PROVE  token!Close
  <2>1. state' = <<Epoch(state), "SHUTDOWN">> /\ Inside' = Inside
    BY <1>6, <1>9 DEF Shutdown, Goto, Callers
  <2>2. Bits(state') = "SHUTDOWN"
    BY <2>1 DEF Bits
  <2> QED
    BY <2>1, <2>2 DEF token!Close
<1>10. ASSUME NEW c \in Pushers, PushBegin(c) \/ PushIdle(c)
       PROVE  Inside' = Inside /\ Token' = Token /\ Closed' = Closed
  BY <1>6, <1>10 DEF PushBegin, PushIdle, Goto, Callers
<1>11. ASSUME NEW c \in Pushers, Bump(c)
       PROVE  Inside' = Inside /\ Token' = Token /\ Closed' = Closed
  <2>1. Inside' = Inside
    BY <1>6, <1>11 DEF Bump, Goto, Callers
  <2>2. Bits(state') = Bits(state)
    BY <1>11 DEF Bump, Bits
  <2> QED
    BY <2>1, <2>2
<1>12. ASSUME NEW c \in Callers, WakeOne(c) \/ WakeAll(c)
       PROVE  Inside' = Inside /\ Token' = Token /\ Closed' = Closed
  <2>1. \A w \in Waiters : pc'[w] # "out" <=> pc[w] # "out"
    BY <1>0, <1>12, Disjoint DEF WakeOne, WakeAll, Goto, TypeOK
  <2> QED
    BY <1>12, <2>1 DEF WakeOne, WakeAll
<1>13. CASE UNCHANGED vars
  BY <1>13 DEF vars
<1> QED
  BY <1>1, <1>2, <1>3, <1>4, <1>5, <1>7, <1>8, <1>9, <1>10, <1>11, <1>12, <1>13
     DEF Next, Wait, Run, Post, Announce, Callers, Reload, Consume, Arm, NotifyLoad, NotifyCas,
         token!TokenNext

\* The Event of ThreadPool.rs implements the one-token event.
THEOREM EventRefinesToken == Spec => RefinesToken
<1>1. Init => token!TokenInit
  BY DEF Init, token!TokenInit, NoWord, Bits
<1> QED
  BY <1>1, EventIInv, NextRefines, PTL DEF Spec, RefinesToken, token!TokenSpec
=============================================================================
