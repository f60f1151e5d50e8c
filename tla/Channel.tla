------------------------------ MODULE Channel -------------------------------
(***************************************************************************)
(* channel.rs: a bounded buffer behind a mutex, with one condition for     *)
(* writers and one for readers.  Writers call write_item(), so the slice   *)
(* that write_items() loops over has one item.  Nothing in the repository  *)
(* closes a channel.  The mutex is an abstract Ownership, the conditions   *)
(* abstract CondVars.                                                      *)
(***************************************************************************)
EXTENDS Naturals, Sequences, FiniteSets

CONSTANTS Writers, Readers, NoOwner,
          Capacity       \* of the StaticBuffer

ChannelAssumption == /\ NoOwner \notin Writers \cup Readers
                     /\ Writers \cap Readers = {}
                     /\ IsFiniteSet(Writers) /\ IsFiniteSet(Readers)
                     /\ Capacity \in Nat \ {0}

VARIABLES buffer,     \* the items, each named after its writer
          owner,
          putting, putCredits,     \* the condition `putters`
          getting, getCredits,     \* the condition `getters`
          pc,
          out         \* what the last read_item() returned

conditions == <<putting, putCredits, getting, getCredits>>
vars == <<buffer, owner, conditions, pc, out>>

Callers == Writers \cup Readers

mutex   == INSTANCE Ownership WITH Threads <- Callers
putters == INSTANCE CondVar WITH Threads <- Callers, blocked <- putting, credits <- putCredits
getters == INSTANCE CondVar WITH Threads <- Callers, blocked <- getting, credits <- getCredits

Goto(t, label) == pc' = [pc EXCEPT ![t] = label]

Init == /\ buffer = <<>> /\ out = <<>>
        /\ owner = NoOwner
        /\ putting = {} /\ putCredits = 0
        /\ getting = {} /\ getCredits = 0
        /\ pc = [t \in Callers |-> "out"]

-----------------------------------------------------------------------------
Acquire(t) == /\ pc[t] \in {"out", "relock"}
              /\ mutex!Acquire(t)
              /\ Goto(t, "inside")
              /\ UNCHANGED <<buffer, conditions, out>>

Drop(t) == /\ pc[t] = "drop"
           /\ mutex!Release(t)
           /\ Goto(t, "out")
           /\ UNCHANGED <<buffer, conditions, out>>

\* wait_guarded() returns.
Woken(t) == /\ pc[t] = "blocked"
            /\ \/ putters!Return(t) /\ UNCHANGED <<getting, getCredits>>
               \/ getters!Return(t) /\ UNCHANGED <<putting, putCredits>>
            /\ Goto(t, "relock")
            /\ UNCHANGED <<buffer, owner, out>>

(* write_items() *)

Write(t) == /\ t \in Writers /\ pc[t] = "inside" /\ Len(buffer) < Capacity
            /\ buffer' = Append(buffer, t)
            /\ getters!Signal
            /\ Goto(t, "drop")
            /\ UNCHANGED <<owner, putting, putCredits, out>>

\* The buffer is full.
WriteBlocks(t) == /\ t \in Writers /\ pc[t] = "inside" /\ Len(buffer) = Capacity
                  /\ putters!Wait(t)
                  /\ mutex!Release(t)
                  /\ Goto(t, "blocked")
                  /\ UNCHANGED <<buffer, getting, getCredits, out>>

(* read_item() *)

Read(t) == /\ t \in Readers /\ pc[t] = "inside" /\ buffer # <<>>
           /\ out' = <<Head(buffer)>>
           /\ buffer' = Tail(buffer)
           /\ putters!Signal
           /\ Goto(t, "drop")
           /\ UNCHANGED <<owner, getting, getCredits>>

ReadBlocks(t) == /\ t \in Readers /\ pc[t] = "inside" /\ buffer = <<>>
                 /\ getters!Wait(t)
                 /\ mutex!Release(t)
                 /\ Goto(t, "blocked")
                 /\ UNCHANGED <<buffer, putting, putCredits, out>>

-----------------------------------------------------------------------------
Step(t) == \/ Acquire(t) \/ Drop(t) \/ Woken(t)
           \/ Write(t) \/ WriteBlocks(t) \/ Read(t) \/ ReadBlocks(t)

Next == \E t \in Callers : Step(t)

Spec == Init /\ [][Next]_vars

\* A thread inside a call keeps running; callers may stop between calls.
Inside(t) == pc[t] # "out" /\ Step(t)

FairSpec == Spec /\ \A t \in Callers : WF_vars(Inside(t))

-----------------------------------------------------------------------------
\* The buffer never has more than its capacity, and each condition's queue is the
\* threads of its kind that are blocked.
TypeOK == /\ buffer \in UNION {[1 .. n -> Writers] : n \in 0 .. Capacity}
          /\ owner \in Callers \cup {NoOwner}
          /\ putting = {t \in Writers : pc[t] = "blocked"}
          /\ getting = {t \in Readers : pc[t] = "blocked"}
          /\ putCredits \in 0 .. Cardinality(putting)
          /\ getCredits \in 0 .. Cardinality(getting)
          /\ pc \in [Callers -> {"out", "relock", "inside", "blocked", "drop"}]
          /\ out \in {<<>>} \cup {<<w>> : w \in Writers}

\* Those of the group that have the buffer to look at yet.
Awake(group) == {t \in group : pc[t] \in {"relock", "inside"}}

\* One signal per item and one per place are enough: readers do not all sleep on
\* a buffer with items while nobody is on the way to take one.
NoStrandedItem ==
    buffer # <<>> /\ getting # {} => getCredits > 0 \/ Awake(Readers) # {}

\* The same for writers: a read_item() that frees a place wakes one of them.
NoStrandedPlace ==
    Len(buffer) < Capacity /\ putting # {} => putCredits > 0 \/ Awake(Writers) # {}

\* Why one signal is enough: either every blocked reader has been signalled, or there
\* are as many readers on the way as there are items; and so for writers and places.
Covered ==
    /\ \/ getCredits = Cardinality(getting)
       \/ Len(buffer) <= getCredits + Cardinality(Awake(Readers))
    /\ \/ putCredits = Cardinality(putting)
       \/ Capacity <= Len(buffer) + putCredits + Cardinality(Awake(Writers))

\* The inductive strengthening of NoStrandedItem and NoStrandedPlace.
IInv == TypeOK /\ Covered

\* Readers and writers do not wait for each other: a blocked reader is served once
\* there are items, a blocked writer once there is room.
Served == /\ (buffer # <<>> /\ getting # {}) ~> (buffer = <<>> \/ getting = {})
          /\ (Len(buffer) < Capacity /\ putting # {})
                ~> (Len(buffer) = Capacity \/ putting = {})
=============================================================================
