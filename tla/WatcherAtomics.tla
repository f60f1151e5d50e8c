--------------------------- MODULE WatcherAtomics ---------------------------
(***************************************************************************)
(* The hot-reload hand-off of the dev server: watcher_atomics.rs,          *)
(* hot_reload_event.rs, watch.rs and the parts of bundle.rs, finalize.rs   *)
(* and lifecycle.rs that touch an event.  Three event slots go round       *)
(* between the watcher thread, which fills them with changed files, and    *)
(* the JS thread, which processes them and bundles one thing at a time.    *)
(*                                                                         *)
(* One action is one access to next_event, or a run of accesses to what    *)
(* only one of the threads uses.                                           *)
(***************************************************************************)
EXTENDS Naturals

CONSTANTS Sources,   \* what can change: files and directories
          None

Slots   == 0 .. 2
WAITING == 254           \* an event is running, none is pending
DONE    == 255           \* no event is running

HotReloadAssumption == None \notin Slots

VARIABLES next_event, files,
          current_event, pending_event, held, announced,   \* watcher thread
          queued, reload_event, running, step, bundling,   \* JS thread
          atomics,
          dirty      \* history: changed and not processed since

watcherVars == <<current_event, pending_event, held, announced>>
serverVars  == <<queued, reload_event, running, step, bundling>>
vars == <<next_event, files, watcherVars, serverVars, atomics, dirty>>

Init == /\ next_event = DONE
        /\ files = [i \in Slots |-> {}]
        /\ current_event = None /\ pending_event = None
        /\ held = None           \* the slot the watcher fills
        /\ announced = None      \* the slot it swapped in over DONE
        /\ queued = None         \* the slot whose task is in the event loop's queue
        /\ reload_event = None   \* the slot that waits for the bundle
        /\ running = None        \* the slot the JS thread is at
        /\ step = "idle"         \* where it is in run() or start_next_bundle_if_present()
        /\ bundling = FALSE      \* current_bundle.is_some()
        /\ atomics = "owned"     \* by the DevServer, by a queued event ("orphan"), or freed
        /\ dirty = {}

-----------------------------------------------------------------------------
(* The watcher thread: on_file_update(), with Watcher.mutex held *)

\* Slip: forgetting that the pending event may be running.
ForgetPending == {i \in Slots : i # current_event}

\* The slots that watcher_acquire_event() may return.
Available == {i \in Slots : i # current_event /\ i # pending_event}

Acquire == /\ atomics = "owned" /\ held = None /\ announced = None
           /\ held' = CHOOSE i \in Available : \A j \in Available : i <= j
           /\ UNCHANGED <<next_event, files, dirty, current_event, pending_event, announced,
                          serverVars, atomics>>

\* append_file(), append_dir().
Append(f) == /\ held # None
             /\ files' = [files EXCEPT ![held] = @ \cup {f}]
             /\ dirty' = dirty \cup {f}
             /\ UNCHANGED <<next_event, watcherVars, serverVars, atomics>>

\* The three cases of watcher_release_and_submit_event() after its swap.
Submitted(old) ==
    \/ /\ old = DONE
       /\ announced' = held
       /\ UNCHANGED <<current_event, pending_event>>
    \/ /\ old = WAITING
       /\ current_event' = IF pending_event # None THEN pending_event ELSE current_event
       /\ pending_event' = held
       /\ UNCHANGED announced
    \/ /\ old \in Slots
       /\ pending_event' = held
       /\ UNCHANGED <<current_event, announced>>

Release == /\ held # None
           /\ held' = None
           /\ IF files[held] = {}
              THEN UNCHANGED <<next_event, current_event, pending_event, announced>>
              ELSE next_event' = held /\ Submitted(next_event)
           /\ UNCHANGED <<files, dirty, serverVars, atomics>>

\* The server was done: its task is posted.
Schedule == /\ announced # None
            /\ current_event' = announced
            /\ pending_event' = None
            /\ next_event' = WAITING
            /\ queued' = announced
            /\ announced' = None
            /\ UNCHANGED <<files, dirty, held, reload_event, running, step, bundling, atomics>>

-----------------------------------------------------------------------------
(* The JS thread *)

Begin(i) == running' = i /\ step' = "process"

\* HotReloadEvent::run().
Run == /\ step = "idle" /\ queued # None
       /\ queued' = None
       /\ IF atomics = "orphan"
          THEN atomics' = "freed" /\ UNCHANGED <<reload_event, running, step>>
          ELSE /\ IF bundling THEN reload_event' = queued /\ UNCHANGED <<running, step>>
                              ELSE Begin(queued) /\ UNCHANGED reload_event
               /\ UNCHANGED atomics
       /\ UNCHANGED <<next_event, files, dirty, watcherVars, bundling>>

\* process_file_list() and the reset() of recycle_event_from_dev_server().
Process == /\ step = "process"
           /\ files' = [files EXCEPT ![running] = {}]
           /\ dirty' = dirty \ files[running]
           /\ step' = "swap"
           /\ UNCHANGED <<next_event, watcherVars, queued, reload_event, running, bundling, atomics>>

\* The swap in recycle_event_from_dev_server(): DONE is unreachable!().
Recycle == /\ step = "swap"
           /\ next_event' = WAITING
           /\ \/ next_event \in Slots /\ Begin(next_event)
              \/ /\ next_event \notin Slots
                 /\ step' = IF next_event = WAITING THEN "finish" ELSE "panic"
                 /\ UNCHANGED running
           /\ UNCHANGED <<files, dirty, watcherVars, queued, reload_event, bundling, atomics>>

\* compare_exchange_weak(WAITING, DONE), which may also fail without a reason.
Finish == /\ step = "finish"
          /\ \/ /\ next_event = WAITING
                /\ next_event' = DONE
                /\ step' = "start" /\ running' = None
             \/ /\ step' = "swap"
                /\ UNCHANGED <<next_event, running>>
          /\ UNCHANGED <<files, dirty, watcherVars, queued, reload_event, bundling, atomics>>

\* The entry points that were collected start a bundle, unless there are none, a
\* testing batch keeps them, or start_async_bundle() fails.
Start == /\ step = "start"
         /\ step' = "idle"
         /\ bundling' \in BOOLEAN
         /\ UNCHANGED <<next_event, files, dirty, watcherVars, queued, reload_event, running, atomics>>

\* A request for a route that is not bundled (ensure_route.rs), or the release of a
\* testing batch (hmr_socket.rs).
RequestBundle == /\ step = "idle" /\ ~bundling /\ atomics = "owned"
                 /\ bundling' = TRUE
                 /\ UNCHANGED <<next_event, files, dirty, watcherVars, queued, reload_event, running,
                                step, atomics>>

\* Slip: the event that waited for the bundle is forgotten.
BundleForgets == /\ step = "idle" /\ bundling
                 /\ bundling' = FALSE
                 /\ reload_event' = None
                 /\ step' \in {"idle", "start"}
                 /\ UNCHANGED <<next_event, files, dirty, watcherVars, queued, running, atomics>>

\* finalize_bundle_cleanup() and start_next_bundle_if_present(): the event that
\* waited is next; else requests that waited may start a bundle.
BundleDone == /\ step = "idle" /\ bundling
              /\ bundling' = FALSE
              /\ reload_event' = None
              /\ IF reload_event # None
                 THEN Begin(reload_event)
                 ELSE step' \in {"idle", "start"} /\ UNCHANGED running
              /\ UNCHANGED <<next_event, files, dirty, watcherVars, queued, atomics>>

\* Slip: the atomics go with the server.
DropFrees == /\ step = "idle" /\ ~bundling /\ atomics = "owned"
             /\ held = None /\ announced = None
             /\ atomics' = "freed"
             /\ UNCHANGED <<next_event, files, dirty, watcherVars, serverVars>>

\* Drop for DevServer; Watcher::shutdown() waits for Watcher.mutex.  A bundle holds a
\* reference to the server, so none is under way.
Drop == /\ step = "idle" /\ ~bundling /\ atomics = "owned"
        /\ held = None /\ announced = None
        /\ atomics' = IF next_event = DONE THEN "freed" ELSE "orphan"
        /\ UNCHANGED <<next_event, files, dirty, watcherVars, serverVars>>

Watcher == Acquire \/ (\E f \in Sources : Append(f)) \/ Release \/ Schedule
Steps == Process \/ Recycle \/ Finish \/ Start
JSThread == Run \/ Steps \/ BundleDone
Next == Watcher \/ JSThread \/ RequestBundle \/ Drop

Spec == Init /\ [][Next]_vars

\* Both threads run on; the event loop gets to every task that is queued or completes.
Fairness == /\ WF_vars(Release \/ Schedule)
            /\ WF_vars(Steps)
            /\ SF_vars(Run) /\ SF_vars(BundleDone)

-----------------------------------------------------------------------------
(* What makes the hand-off correct *)

\* The JS thread may read these slots at any time, or will before the watcher hears of it.
ServerSlots == {queued, reload_event, next_event} \cup IF step = "process" THEN {running} ELSE {}

\* The event that was submitted last.
Newest == IF pending_event # None THEN pending_event ELSE current_event

\* The two threads never have the same slot, the sentinels say what their comments
\* say (after DONE the event submitted last has been processed), and unreachable!() is
\* not reached.
HandOffSafe == /\ held \in Slots => held \notin ServerSlots
               /\ next_event = DONE => step \in {"idle", "start"} /\ queued = None /\ reload_event = None
               /\ next_event = DONE /\ Newest # None => files[Newest] = {}
               /\ step # "panic"

\* When the DevServer is dropped before its events are DONE, a queued task is there
\* to free the atomics, and they are freed once.
OrphanHasTask == (atomics = "orphan" => queued # None) /\ (atomics = "freed" => queued = None)

\* What makes both inductive.  The steps at which the JS thread is at an event; the slots
\* that are its own, which are at most one; ...
AtEvent == {"process", "swap", "finish"}
Active  == ({queued, reload_event} \ {None}) \cup IF step \in AtEvent THEN {running} ELSE {}

TypeOK == /\ next_event \in Slots \cup {WAITING, DONE}
          /\ files \in [Slots -> SUBSET Sources]
          /\ {current_event, pending_event, held, announced} \subseteq Slots \cup {None}
          /\ {queued, reload_event, running} \subseteq Slots \cup {None}
          /\ step \in AtEvent \cup {"idle", "start"}
          /\ step \in AtEvent => running # None
          /\ bundling \in BOOLEAN
          /\ atomics \in {"owned", "orphan", "freed"}

\* ... an event is in one place, and from its announcement to DONE in one at least; ...
OnePlace == /\ queued # None => reload_event = None /\ step \notin AtEvent
            /\ reload_event # None => bundling
            /\ bundling => step = "idle"
            /\ next_event = DONE \/ announced # None => Active = {}
            /\ next_event # DONE /\ announced = None /\ atomics # "freed" => Active # {}

\* ... the watcher knows which: the newest event under WAITING, the one before it while the
\* newest is still in next_event; ...
WatcherKnows == /\ held # None => announced = None /\ held \notin {current_event, pending_event}
                /\ announced # None => next_event = announced
                /\ next_event = WAITING => Active \subseteq {Newest}
                /\ next_event \in Slots /\ announced = None =>
                      next_event = pending_event /\ Active \subseteq {current_event}

\* ... an event that was processed is empty until the watcher takes its slot again; ...
ProcessedEmpty == /\ step \in {"swap", "finish"} => files[running] = {}
                  /\ next_event = DONE /\ Newest # None => files[Newest] = {}

\* ... and without the DevServer there is at most the queued task.
Dropped == atomics # "owned" => /\ held = None /\ announced = None
                                /\ reload_event = None /\ step = "idle" /\ ~bundling
                                /\ queued = None <=> atomics = "freed"

HandOffIInv == TypeOK /\ OnePlace /\ WatcherKnows /\ ProcessedEmpty /\ Dropped

\* The JS thread does not leave a submitted event where it is, and orphaned atomics are
\* freed.
EventsRun == []<>(/\ next_event \in Slots => step = "process" \/ atomics # "owned"
                  /\ atomics # "orphan")

\* "submitting the event if it contains new files": when no event is running or
\* announced, every change that the watcher released has been processed.
SubmittedFilesRun == next_event = DONE /\ held = None => dirty = {}
=============================================================================
