---------------------------- MODULE MCThreadPool ----------------------------
(***************************************************************************)
(* A pool whose callers neither limit nor warm it, on a system that starts *)
(* every thread it is asked for: the steps of ThreadPool but for those     *)
(* three, under fairness.                                                  *)
(***************************************************************************)
EXTENDS ThreadPool

PlainNext == \/ \E t \in Threads : Notify(t)
             \/ \E w \in Workers : Work(w) \/ Retire(w) \/ ScheduleInside(w)
             \/ \E s \in Schedulers : Schedule(s)
             \/ Shutdown \/ Drop

FairSpec == Init /\ [][PlainNext]_vars /\ Fairness
=============================================================================
