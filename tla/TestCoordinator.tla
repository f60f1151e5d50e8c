--------------------------- MODULE TestCoordinator ---------------------------
(***************************************************************************)
(* `bun test --parallel` in runtime/cli/test/parallel: the Coordinator of  *)
(* Coordinator.rs hands test files to Worker processes (Worker.rs), which  *)
(* answer over a pipe (Channel.rs) and may exit or crash at any point.     *)
(* A worker's slot outlives its process: a dead process is reaped once     *)
(* its exit and the end of its pipe have both been seen, and a new one     *)
(* takes the slot while files are left.  A FileRange, the indices lo..hi   *)
(* of `files`, is the sequence of those files.  The runs of one program    *)
(* are modelled, without `parts` and without `reservation`.                *)
(***************************************************************************)
EXTENDS Integers, Sequences, FiniteSets, SequencesExt

CONSTANTS K,          \* parallel_limit, the number of slots
          N,          \* the number of test files
          Heavy,      \* the files that took over a gigabyte
          Heaviest,   \* those that took as much as any two others
          Slow,       \* the files that cost more time than all others together
          Bail,       \* --bail=N; 0 for none
          None,
          IdleDeaths  \* whether a worker dies between files where heavy files are kept apart

Slots == 1..K
Files == 1..N

TestCoordinatorAssumption ==
    /\ K \in Nat \ {0} /\ N \in Nat /\ K <= N /\ Bail \in Nat
    /\ Heaviest \subseteq Heavy /\ Heavy \subseteq Files /\ IdleDeaths \in BOOLEAN
    /\ None \notin Files /\ None \notin {"exit", "panic"}
    /\ \A f \in Files, s \in Slow : s \in Files /\ (f < s => f \in Slow)   \* slowest first

VARIABLES coord,   \* the Coordinator and its slots
          procs    \* the worker processes

vars == <<coord, procs>>

First(S) == CHOOSE n \in S : \A m \in S : n <= m

MAX_STARTUP_FAILURES == 2

\* Files cut by number, cut by time (costs), or all in the first range (costs, of a
\* compiled run, which keeps heavy files apart).
Modes == {"number", "time", "apart"}

\* What a set of files costs: a slow one is N dearer than another.
Cost(fs) == Cardinality(fs) + N * Cardinality(fs \cap Slow)

\* partition() of Timings.rs: the last file of each slot.  A slot takes at least one file,
\* then goes on as long as that brings it closer to the average of what was left and
\* leaves a file for each slot after it; the last takes the rest.
NextCut(lo, i) ==
    LET target   == Cost((lo + 1)..N) \div (K - i + 1)
        more(hi) == /\ 2 * Cost((lo + 1)..hi) + Cost({hi + 1}) <= 2 * target
                    /\ N - hi > K - i
    IN  IF i = K THEN N ELSE First({hi \in (lo + 1)..N : ~more(hi)})

CutByTime[i \in 0..K] == IF i = 0 THEN 0 ELSE NextCut(CutByTime[i - 1], i)

\* The last file of the range of slot i.
Cut(mode, i) == CASE mode = "number" -> (i * N) \div K
                  [] mode = "time"   -> CutByTime[i]
                  [] mode = "apart"  -> IF i = 0 THEN 0 ELSE N

InitialRange(mode, i) ==
    LET lo == Cut(mode, i - 1)
    IN  [n \in 1..(Cut(mode, i) - lo) |-> lo + n]

NoProcess == [at |-> "none", file |-> None, frames |-> << >>, status |-> None]

Init ==
    /\ \E mode \in Modes :
         coord = [mode       |-> mode,
                  range      |-> [i \in Slots |-> InitialRange(mode, i)],
                  inflight   |-> [i \in Slots |-> None],
                  alive      |-> [i \in Slots |-> FALSE],
                  exit       |-> [i \in Slots |-> None],     \* exit_status
                  done       |-> [i \in Slots |-> FALSE],    \* ipc.done
                  reap       |-> [i \in Slots |-> FALSE],    \* reap_pending
                  ready      |-> [i \in Slots |-> FALSE],    \* reached_ready
                  failures   |-> [i \in Slots |-> 0],        \* startup_failures
                  waits      |-> [i \in Slots |-> FALSE],    \* waits_for_heavy_file_to_end
                  commands   |-> [i \in Slots |-> << >>],    \* sent and not yet read
                  signalled  |-> {},                         \* the processes sent a signal
                  files_done |-> 0,
                  counted    |-> {},                         \* the files behind files_done
                  fail       |-> 0,
                  stop       |-> "none",                     \* stop_reason
                  spawned    |-> 0,
                  live       |-> 0,
                  over       |-> FALSE]                      \* interrupted, or exit(1)
    /\ procs = [i \in Slots |-> NoProcess]

HasUndispatched(c) == \E i \in Slots : c.range[i] # << >>

IsDone(c) == (c.files_done >= N \/ c.stop # "none") /\ c.live = 0

(***************************************************************************)
(* The pieces the handlers are made of: each takes the coordinator and     *)
(* gives the coordinator after it.                                         *)
(***************************************************************************)
Send(c, i, command) == [c EXCEPT !.commands[i] = Append(@, command)]

Shutdown(c, i) == Send(c, i, None)

Dispatch(c, i, f) == [Send(c, i, f) EXCEPT !.inflight[i] = f]

Count(c, f, failed) ==
    [c EXCEPT !.files_done = @ + 1,
              !.counted = @ \cup {f},
              !.fail = IF failed THEN @ + 1 ELSE @]

\* Idle workers are shut down; what runs goes on.
BailOut(c) ==
    IF c.stop # "none" \/ Bail = 0 \/ c.fail < Bail THEN c
    ELSE [c EXCEPT !.stop = "bail",
                   !.commands = [i \in Slots |->
                       IF c.alive[i] /\ c.inflight[i] = None THEN Append(@[i], None) ELSE @[i]]]

\* What a file is known to take, in units of the lightest heavy one; the heavy files that
\* run together take at most what the heaviest file takes (room_for_heavy_files).
Growth(f) == IF f \in Heaviest THEN 2 ELSE IF f \in Heavy THEN 1 ELSE 0

HeavyGrowthRunning(c) ==
    LET running(g) == Cardinality({i \in Slots : Growth(c.inflight[i]) = g})
    IN  running(1) + 2 * running(2)

HasRoom(c, f) ==
    LET running == HeavyGrowthRunning(c)
    IN  f \in Heavy /\ (running = 0 \/ \E g \in Files : running + Growth(f) <= Growth(g))

\* The positions of `range` a worker may be given: where heavy files are kept apart, one
\* of a heavy file for which there is room, else one of a file that is not heavy.
Candidates(c, range) ==
    LET heavy == {n \in DOMAIN range : HasRoom(c, range[n])}
    IN  IF c.mode # "apart" THEN DOMAIN range
        ELSE IF heavy # {} THEN heavy ELSE {n \in DOMAIN range : range[n] \notin Heavy}

\* Slot i takes its next file from the range of slot v, or waits for a heavy file to end.
TakeFrom(c, i, v) ==
    LET open == Candidates(c, c.range[v])
        next == First(open)
    IN  IF open = {} THEN [c EXCEPT !.waits[i] = TRUE]
        ELSE Dispatch([c EXCEPT !.range[v] = RemoveAt(@, next)], i, c.range[v][next])

\* Slip: the owner keeps what was stolen.
StealWithoutCut(c, i, v) ==
    LET range == c.range[v]
    IN  TakeFrom([c EXCEPT !.range[i] = SubSeq(range, Len(range) \div 2 + 1, Len(range))], i, i)

\* The back half of v's range becomes i's.
StealBackHalf(c, i, v) ==
    LET range == c.range[v]
        mid   == Len(range) \div 2
    IN  TakeFrom([c EXCEPT !.range[v] = SubSeq(range, 1, mid),
                           !.range[i] = SubSeq(range, mid + 1, Len(range))], i, i)

\* What is left of a range: its number of files or, where their times are known, its cost.
Left(c, i) ==
    IF c.mode = "number" THEN Len(c.range[i]) ELSE Cost(Range(c.range[i]))

\* The slot, spawned or not, with the most left.
Victim(c) ==
    LET others == {v \in Slots : c.range[v] # << >>}
    IN  First({v \in others : \A i \in others \ {v} : Left(c, i) <= Left(c, v)})

AssignWork(c, i) ==
    IF c.stop # "none" THEN Shutdown(c, i)
    ELSE IF c.range[i] # << >> THEN TakeFrom(c, i, i)
    ELSE IF ~HasUndispatched(c) THEN Shutdown(c, i)
    ELSE IF c.mode = "number" THEN StealBackHalf(c, i, Victim(c))
    ELSE TakeFrom(c, i, Victim(c))

\* Slip: the files that are dropped are not counted.
AbortUncounted(c) == [c EXCEPT !.range = [i \in Slots |-> << >>]]

\* abort_queued_files: every file not handed out counts as failed.
AbortQueued(c) ==
    LET queued == UNION {Range(c.range[i]) : i \in Slots}
    IN  [c EXCEPT !.range = [i \in Slots |-> << >>],
                  !.files_done = @ + Cardinality(queued),
                  !.counted = @ \cup queued,
                  !.fail = @ + Cardinality(queued)]

\* Slip: a run that --bail has stopped stays as it is.
TerminateUnlessStopped(c) ==
    IF c.stop # "none" THEN c
    ELSE AbortQueued([c EXCEPT !.signalled = {i \in Slots : c.alive[i]}, !.stop = "panic"])

\* Also after --bail, which leaves the files that run.
TerminateAfterPanic(c) ==
    LET stopped == [c EXCEPT !.signalled = @ \cup {i \in Slots : c.alive[i]},
                             !.stop = "panic"]
    IN  IF c.stop = "none" THEN AbortQueued(stopped) ELSE stopped

\* What the end of the process in slot i comes to.  The slot's channel is made anew, in
\* the code at the respawn or where there is none.
Settle(c, i) ==
    LET f        == c.inflight[i]
        panicked == c.exit[i] = "panic"
        left     == [c EXCEPT !.live = @ - 1, !.reap[i] = FALSE, !.exit[i] = None,
                              !.inflight[i] = None, !.done[i] = FALSE,
                              !.commands[i] = << >>, !.signalled = @ \ {i}]
        startup  == f = None /\ ~c.ready[i]
        settled  == IF f # None
                    THEN (IF c.stop = "panic" /\ ~panicked THEN Count(left, f, TRUE)
                          ELSE BailOut(Count(left, f, TRUE)))
                    ELSE IF startup THEN [left EXCEPT !.failures[i] = @ + 1]
                    ELSE left
    IN  IF panicked /\ (f # None \/ startup \/ c.stop # "panic")
        THEN TerminateAfterPanic(settled) ELSE settled

\* start() of Worker.rs, where it succeeds.
Started(c, i) ==
    [c EXCEPT !.alive[i] = TRUE, !.live = @ + 1]

NewProcess == [NoProcess EXCEPT !.at = "starting"]

(***************************************************************************)
(* drive(): the coordinator handles one event after another until the run  *)
(* is done.  Reaps run when the events of a turn have been handled, in the *)
(* order of the slots, before any worker is given a file it waited for and *)
(* before the run scales up.                                               *)
(***************************************************************************)
Driving == coord.spawned > 0 /\ ~IsDone(coord) /\ ~coord.over

Settled == \A i \in Slots : ~coord.reap[i]

\* The first spawn_worker; where no process can be started at all the run exits with 1.
Begin ==
    /\ coord.spawned = 0 /\ ~coord.over
    /\ \/ /\ coord' = [Started(coord, 1) EXCEPT !.spawned = 1]
          /\ procs' = [procs EXCEPT ![1] = NewProcess]
       \/ /\ coord' = [coord EXCEPT !.over = TRUE]
          /\ UNCHANGED procs

Frame(i) == Head(procs[i].frames)

\* A frame of a pipe that is not done; what follows a corrupt frame is never decoded.
Decode(i, kind) ==
    /\ Driving /\ procs[i].frames # << >> /\ ~coord.done[i]
    /\ Frame(i).kind = kind
    /\ procs' = [procs EXCEPT ![i].frames = Tail(@)]

OnReady(i) ==
    /\ Decode(i, "ready")
    /\ coord' = AssignWork([coord EXCEPT !.ready[i] = TRUE, !.failures[i] = 0], i)

\* A dead worker can have a file_done in its pipe: it counts unless the file no longer
\* does run there, and brings no new file.
OnFileDone(i) ==
    /\ Decode(i, "file_done")
    /\ coord' =
        IF coord.inflight[i] # Frame(i).file THEN coord
        ELSE LET counted == Count([coord EXCEPT !.inflight[i] = None], Frame(i).file, Frame(i).failed)
                 bailed  == BailOut(counted)
             IN  IF coord.alive[i] THEN AssignWork(bailed, i) ELSE bailed

\* Something wrote to the pipe what is no frame: the pipe is done and the worker killed.
OnCorrupt(i) ==
    /\ Decode(i, "corrupt")
    /\ coord' = [coord EXCEPT !.done[i] = TRUE,
                              !.signalled = @ \cup {i},
                              !.reap[i] = coord.exit[i] # None]

OnWorkerExit(i) ==
    /\ Driving /\ procs[i].at = "exited" /\ coord.alive[i]
    /\ coord' = [coord EXCEPT !.alive[i] = FALSE,
                              !.exit[i] = procs[i].status,
                              !.reap[i] = coord.done[i]]
    /\ UNCHANGED procs

\* The pipe closes once all that was written has been read.
OnChannelDone(i) ==
    /\ Driving /\ procs[i].at = "exited" /\ procs[i].frames = << >> /\ ~coord.done[i]
    /\ coord' = [coord EXCEPT !.done[i] = TRUE,
                              !.reap[i] = coord.exit[i] # None]
    /\ UNCHANGED procs

Reap(i) ==
    /\ Driving /\ coord.reap[i] /\ \A j \in 1..(i - 1) : ~coord.reap[j]
    /\ LET settled    == Settle(coord, i)
           canRespawn == /\ settled.stop = "none" /\ HasUndispatched(settled)
                         /\ settled.failures[i] < MAX_STARTUP_FAILURES
           lost       == settled.stop = "none" /\ settled.live = 0
       IN  \/ /\ canRespawn
              /\ coord' = Started([settled EXCEPT !.ready[i] = FALSE], i)
              /\ procs' = [procs EXCEPT ![i] = NewProcess]
           \/ \* Nothing to start a process for, or start() failed.
              /\ coord' = IF lost THEN AbortQueued(settled) ELSE settled
              /\ procs' = [procs EXCEPT ![i] = NoProcess]

\* assign_work_to_waiting_workers, for one of them.
AssignWaiting(i) ==
    /\ Driving /\ Settled /\ coord.mode = "apart" /\ coord.alive[i] /\ coord.waits[i]
    /\ coord' = AssignWork([coord EXCEPT !.waits[i] = FALSE], i)
    /\ UNCHANGED procs

\* Every live worker has been busy for long enough: start the others, up to n of them.
ScaleUp(n) ==
    /\ Driving /\ Settled /\ coord.stop = "none" /\ HasUndispatched(coord)
    /\ \A i \in Slots : coord.alive[i] => coord.inflight[i] # None
    /\ coord.spawned + n <= K /\ coord.spawned + n <= N - coord.files_done
    /\ LET new == (coord.spawned + 1)..(coord.spawned + n)
       IN  /\ coord' = [coord EXCEPT
                 !.alive = [i \in Slots |-> @[i] \/ i \in new],
                 !.spawned = @ + n,
                 !.live = @ + n]
           /\ procs' = [i \in Slots |-> IF i \in new THEN NewProcess ELSE procs[i]]

\* abort_all: SIGINT or SIGTERM; the files that run count as failed and every worker,
\* with what it has started, is terminated.
Interrupt ==
    /\ Driving
    /\ LET running == {i \in Slots : coord.inflight[i] # None}
       IN  coord' = [coord EXCEPT
               !.over = TRUE,
               !.files_done = @ + Cardinality(running),
               !.fail = @ + Cardinality(running),
               !.counted = @ \cup {coord.inflight[i] : i \in running}]
    /\ procs' = [i \in Slots |-> NoProcess]

(***************************************************************************)
(* The worker process: WorkerLoop::begin of runner.rs.  It has at most one *)
(* file pending, so a second one read before the first has begun would     *)
(* replace it; the coordinator sends one file at a time.                   *)
(***************************************************************************)
Running(i) == procs[i].at \notin {"none", "exited"}

Ready(i) ==
    /\ procs[i].at = "starting"
    /\ procs' = [procs EXCEPT ![i].at = "idle",
                              ![i].frames = Append(@, [kind |-> "ready"])]
    /\ UNCHANGED coord

\* A file to run, or the word to shut down.
Command(i) ==
    /\ procs[i].at = "idle" /\ coord.commands[i] # << >>
    /\ LET command == Head(coord.commands[i])
       IN  procs' = [procs EXCEPT
               ![i].file = command,
               ![i].at = IF command = None THEN "exited" ELSE "running",
               ![i].status = IF command = None THEN "exit" ELSE None]
    /\ coord' = [coord EXCEPT !.commands[i] = Tail(@)]

FileDone(i) ==
    /\ procs[i].at = "running"
    /\ \E failed \in BOOLEAN :
         procs' = [procs EXCEPT
             ![i].at = "idle",
             ![i].file = None,
             ![i].frames = Append(@, [kind |-> "file_done", file |-> procs[i].file,
                                      failed |-> failed])]
    /\ UNCHANGED coord

\* The pipe is a descriptor the test can write to.
Garble(i) ==
    /\ procs[i].at = "running" /\ procs[i].frames = << >> /\ ~coord.done[i]
    /\ procs' = [procs EXCEPT ![i].frames = Append(@, [kind |-> "corrupt"])]
    /\ UNCHANGED coord

\* process.exit() or SIGKILL, or a crash signal.
Die(i) ==
    /\ Running(i) /\ (procs[i].at = "idle" /\ coord.mode = "apart" => IdleDeaths)
    /\ \E status \in {"exit", "panic"} :
         procs' = [procs EXCEPT ![i].at = "exited", ![i].file = None, ![i].status = status]
    /\ UNCHANGED coord

Killed(i) ==
    /\ Running(i) /\ i \in coord.signalled
    /\ procs' = [procs EXCEPT ![i].at = "exited", ![i].file = None, ![i].status = "exit"]
    /\ UNCHANGED coord

\* What happens as long as the system runs at all.
Step == \/ Begin
        \/ \E i \in Slots : \/ OnReady(i) \/ OnFileDone(i) \/ OnCorrupt(i)
                            \/ OnWorkerExit(i) \/ OnChannelDone(i)
                            \/ Reap(i) \/ AssignWaiting(i)
                            \/ Ready(i) \/ Command(i) \/ FileDone(i) \/ Killed(i)

Next == \/ Step
        \/ \E i \in Slots : Garble(i) \/ Die(i)
        \/ \E n \in Slots : ScaleUp(n)
        \/ Interrupt

Spec == Init /\ [][Next]_vars

(***************************************************************************)
(* Properties.                                                             *)
(***************************************************************************)

\* files_done is the number of files counted, and while the run goes on every file is in
\* exactly one place: in one range, running in one slot, or counted.  No hand-over, steal,
\* late frame, crash, respawn or abort loses a file or counts it twice.
FilesExact ==
    LET queued(f)  == {at \in Slots \X Files : /\ at[2] <= Len(coord.range[at[1]])
                                               /\ coord.range[at[1]][at[2]] = f}
        running(f) == {i \in Slots : coord.inflight[i] = f}
    IN  /\ coord.files_done = Cardinality(coord.counted)
        /\ ~coord.over => \A f \in Files :
             Cardinality(queued(f)) + Cardinality(running(f))
                 + (IF f \in coord.counted THEN 1 ELSE 0) = 1

\* A crash signal is never masked: reaping a worker that died of one stops the run for
\* it, mid-file, between files, at startup or after --bail, and nothing takes that back.
PanicStops ==
    [][ /\ \A i \in Slots : coord.exit[i] = "panic" /\ coord'.exit[i] = None
                               => coord'.stop = "panic"
        /\ coord.stop = "panic" => coord'.stop = "panic" ]_vars

\* drive() does not spin: with no live worker left the run is over.
NeverSpins == coord.spawned > 0 /\ coord.live = 0 => IsDone(coord) \/ coord.over

\* A run that has begun comes to its end, however its workers die.
RunEnds == []<>(coord.spawned = 0 \/ IsDone(coord) \/ coord.over)

-----------------------------------------------------------------------------
(* What FilesExact rests on *)

Fields == {"mode", "range", "inflight", "alive", "exit", "done", "reap", "ready", "failures",
           "waits", "commands", "signalled", "files_done", "counted", "fail", "stop",
           "spawned", "live", "over"}

\* c has the fields of the coordinator, of the right types.
Shape(c) == c = [x \in Fields |-> c[x]]
Typed(c) == /\ Shape(c)
            /\ c.mode \in Modes /\ c.stop \in {"none", "bail", "panic"} /\ c.over \in BOOLEAN
            /\ c.range \in [Slots -> Seq(Files)]
            /\ c.inflight \in [Slots -> Files \cup {None}]
            /\ c.commands \in [Slots -> Seq(Files \cup {None})]
            /\ c.exit \in [Slots -> {None, "exit", "panic"}]
            /\ c.alive \in [Slots -> BOOLEAN] /\ c.ready \in [Slots -> BOOLEAN]
            /\ c.done \in [Slots -> BOOLEAN] /\ c.reap \in [Slots -> BOOLEAN]
            /\ c.waits \in [Slots -> BOOLEAN] /\ c.failures \in [Slots -> Nat]
            /\ c.signalled \subseteq Slots /\ c.counted \subseteq Files
            /\ c.files_done \in Nat /\ c.fail \in Nat /\ c.spawned \in Nat /\ c.live \in Int

FrameType == [kind : {"ready", "corrupt"}]
                 \cup [kind : {"file_done"}, file : Files, failed : BOOLEAN]

ProcType == [at : {"none", "starting", "idle", "running", "exited"},
             file : Files \cup {None}, frames : Seq(FrameType),
             status : {None, "exit", "panic"}]

TypeOK == /\ Typed(coord)
          /\ procs \in [Slots -> ProcType]
          /\ \A i \in Slots : /\ procs[i].at = "running" => procs[i].file # None
                              /\ procs[i].at = "exited"  => procs[i].status # None

Queued(c, f) == \E i \in Slots : \E n \in DOMAIN c.range[i] : c.range[i][n] = f
InFlight(c, f) == \E i \in Slots : c.inflight[i] = f

\* No file is in two places, and none is lost.
EachOnce(c) ==
    /\ \A i, j \in Slots : \A n \in DOMAIN c.range[i], m \in DOMAIN c.range[j] :
          c.range[i][n] = c.range[j][m] => i = j /\ n = m
    /\ \A i, j \in Slots : c.inflight[i] = c.inflight[j] => i = j \/ c.inflight[i] = None
    /\ \A f \in Files : /\ Queued(c, f) \/ InFlight(c, f) \/ f \in c.counted
                        /\ ~(Queued(c, f) /\ InFlight(c, f))
                        /\ ~(Queued(c, f) /\ f \in c.counted)
                        /\ ~(InFlight(c, f) /\ f \in c.counted)

\* The coordinator gives slot i a file only while it has none: a worker says "ready" once,
\* before it has run a file, and one that waits for a heavy file to end does nothing else,
\* and is not about to die.
OneAtATime(i) ==
    LET p      == procs[i]
        unused == coord.inflight[i] = None /\ coord.commands[i] = << >>
    IN  /\ i \in coord.signalled \/ coord.reap[i] => coord.done[i]
        /\ i > coord.spawned => p.at = "none"
        /\ p.at = "none" => p.frames = << >> /\ unused /\ ~coord.waits[i] /\ ~coord.done[i]
        /\ coord.waits[i] => /\ coord.mode = "apart" /\ p.at = "idle" /\ p.frames = << >>
                             /\ unused /\ ~coord.done[i]
        /\ ~coord.done[i] =>
             /\ Len(coord.commands[i]) <= 1
             /\ p.at = "starting" => p.frames = << >> /\ unused
             /\ p.at = "running" => /\ p.frames = << >> \/ Head(p.frames).kind = "corrupt"
                                    /\ coord.commands[i] = << >>
             /\ p.frames # << >> =>
                  /\ Len(p.frames) = 1 \/ Head(p.frames).kind = "corrupt"
                  /\ coord.commands[i] = << >>
                  /\ Head(p.frames).kind = "ready" => unused
                  /\ coord.mode = "apart" /\ Head(p.frames).kind # "corrupt" => p.at = "idle"

Exact(c) == EachOnce(c) /\ c.files_done = Cardinality(c.counted)

FilesIInv ==
    /\ TypeOK
    /\ coord.files_done = Cardinality(coord.counted)
    /\ ~coord.over => EachOnce(coord)
    /\ ~coord.over /\ coord.stop = "none" => \A i \in Slots : OneAtATime(i)
=============================================================================
