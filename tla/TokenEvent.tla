----------------------------- MODULE TokenEvent -----------------------------
(***************************************************************************)
(* What the pool's Event promises: notify() leaves one token, a wait()     *)
(* returns by taking it, and shutdown() lets every wait() return for good. *)
(***************************************************************************)
CONSTANT Waiters

VARIABLES inside,    \* the threads in wait()
          token,     \* a notification nobody has taken
          closed

tokenVars == <<inside, token, closed>>

TokenInit == inside = {} /\ token = FALSE /\ closed = FALSE

\* A closed event turns callers away at once.
Come(w) == /\ w \notin inside
           /\ ~closed
           /\ inside' = inside \cup {w}
           /\ UNCHANGED <<token, closed>>

Take(w) == /\ w \in inside /\ token
           /\ inside' = inside \ {w}
           /\ token' = FALSE
           /\ UNCHANGED closed

TurnedAway(w) == /\ w \in inside /\ closed
                 /\ inside' = inside \ {w}
                 /\ UNCHANGED <<token, closed>>

Notify == /\ ~closed
          /\ token' = TRUE
          /\ UNCHANGED <<inside, closed>>

\* Nobody can take what was left.
Close == /\ closed' = TRUE
         /\ token' = FALSE
         /\ UNCHANGED inside

TokenNext == \/ Notify \/ Close
             \/ \E w \in Waiters : Come(w) \/ Take(w) \/ TurnedAway(w)

TokenSpec == TokenInit /\ [][TokenNext]_tokenVars
=============================================================================
