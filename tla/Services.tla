------------------------------ MODULE Services ------------------------------
(***************************************************************************)
(* The hand-offs between threads and processes above the primitives, side  *)
(* by side: the handles by which work comes back to its VM (VmHandle.rs),  *)
(* the hot-reload events of the dev server (watcher_atomics.rs), the       *)
(* coordinator of `bun test --parallel` (Coordinator.rs) and the Redis     *)
(* client (valkey.rs and js_valkey.rs).  They share no state, so a         *)
(* behaviour uses one of them and leaves the others as they were made,     *)
(* where no fairness condition binds.                                      *)
(***************************************************************************)
EXTENDS VmHandle

CONSTANTS Sources, None,
          K, N, Heavy, Heaviest, Slow, Bail, IdleDeaths,
          Plain, Alone, Units, Options, MaxRetries, MaxDrops, UnitBreaks

VARIABLES part,      \* the service in use
          next_event, files, current_event, pending_event, held, announced,
          queued, reload_event, running, step, bundling, atomics, dirty,
          coord, procs,
          c, wire, outcome, drops

hot   == INSTANCE WatcherAtomics
tests == INSTANCE TestCoordinator
redis == INSTANCE ValkeyClient

ASSUME ServicesAssumption == /\ VmHandleAssumption
                             /\ hot!HotReloadAssumption
                             /\ tests!TestCoordinatorAssumption
                             /\ redis!ValkeyAssumption

hotVars   == <<next_event, files, current_event, pending_event, held, announced,
               queued, reload_event, running, step, bundling, atomics, dirty>>
testsVars == <<coord, procs>>
redisVars == <<c, wire, outcome, drops>>
allVars == <<part, vars, hotVars, testsVars, redisVars>>

InitAll == /\ part \in {"vm", "reload", "tests", "redis"}
           /\ Init /\ hot!Init
           /\ IF part = "tests" THEN tests!Init ELSE tests!Init /\ coord.mode = "number"
           /\ redis!Init /\ (part # "redis" => c.options = CHOOSE o \in Options : TRUE)

\* The service p is in use; the others keep their state.
Use(p) == /\ part = p /\ UNCHANGED part
          /\ p # "vm"     => UNCHANGED vars
          /\ p # "reload" => UNCHANGED hotVars
          /\ p # "tests"  => UNCHANGED testsVars
          /\ p # "redis"  => UNCHANGED redisVars

NextAll == \/ Use("vm")     /\ Next
           \/ Use("reload") /\ hot!Next
           \/ Use("tests")  /\ tests!Next
           \/ Use("redis")  /\ redis!Next

SpecAll == InitAll /\ [][NextAll]_allVars

\* The threads, processes and connections in the middle of something go on, jobs end, those
\* that notify a VM get its lock, and the event loop of the dev server gets to every task
\* (see the modules).
FairAll ==
    /\ SpecAll
    /\ WF_allVars(\/ Use("vm") /\ JSThread
                  \/ Use("reload") /\ hot!Steps
                  \/ Use("tests") /\ tests!Step
                  \/ Use("redis") /\ redis!Step)
    /\ WF_allVars(\/ Use("vm") /\ \E t \in Threads : Thread(t)
                  \/ Use("reload") /\ (hot!Release \/ hot!Schedule))
    /\ SF_allVars(\/ Use("vm") /\ \E t \in Threads : Notify(t)
                  \/ Use("reload") /\ hot!Run)
    /\ SF_allVars(Use("reload") /\ hot!BundleDone)

-----------------------------------------------------------------------------
\* watcher_atomics.rs: the watcher and the JS thread never have the same slot, the
\* sentinels of the shared byte tell the truth, and unreachable!() is not reached.
HandOffSafe == hot!HandOffSafe

\* watcher_atomics.rs: the events that outlive the DevServer are freed once.
OrphanHasTask == hot!OrphanHasTask

\* watcher_atomics.rs: the JS thread gets to every event that was submitted.
EventsRun == hot!EventsRun

\* Coordinator.rs: no file is lost or counted twice.
FilesExact == tests!FilesExact

\* Coordinator.rs: a crash signal stops the run.
PanicStops == tests!PanicStops

\* Coordinator.rs: the run comes to its end.
RunEnds == tests!RunEnds

\* valkey.rs: every pending command is held once, its own reply settles it, and the event
\* loop is kept alive for it.
CommandsExact == redis!CommandsExact

\* valkey.rs, js_valkey.rs: every command and every connect() comes to an answer.
CommandsSettle == redis!CommandsSettle
=============================================================================
