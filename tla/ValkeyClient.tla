---------------------------- MODULE ValkeyClient ----------------------------
(***************************************************************************)
(* The Redis client: valkey.rs, which queues commands, writes them and     *)
(* gives each reply to the command that is first in flight, and the part   *)
(* of js_valkey.rs that dials, retries, times out and closes.  Everything  *)
(* runs on the JS thread, in callbacks of the event loop and in calls from *)
(* JavaScript, which also come in the middle of on_data().  The server     *)
(* answers what was written in the order of writing; it, or the network,   *)
(* may end a connection at any point, MaxDrops times.                      *)
(*                                                                         *)
(* Subscriptions, ModuleGraphs that are disposed and the collection of the *)
(* JavaScript object are left out.  on_valkey_connect() and the SELECT     *)
(* reply call send_next_command(), and on_data() calls it again: the model *)
(* calls it once, in Pump.                                                 *)
(***************************************************************************)
EXTENDS Naturals, Sequences, FiniteSets, SequencesExt

CONSTANTS Plain,       \* commands that may be pipelined
          Alone,       \* commands that may not
          Units,       \* transactions
          Options,     \* the sets of options a client may be made with
          MaxRetries,
          MaxDrops,    \* bound: failures of dials and connections
          UnitBreaks   \* whether a TLS session breaks while a transaction is in flight

Commands == Plain \cup Alone \cup Units

ValkeyAssumption ==
    /\ Plain \cap Alone = {} /\ (Plain \cup Alone) \cap Units = {}
    /\ IsFiniteSet(Commands) /\ MaxRetries \in Nat /\ MaxDrops \in Nat /\ UnitBreaks \in BOOLEAN
    /\ \A o \in Options : o \subseteq {"offline", "pipelining", "reconnect", "database", "tls", "idle"}

VARIABLES c,        \* the client
          wire,     \* frames the server has and has not answered
          outcome,  \* history: of each command's promise
          drops

vars == <<c, wire, outcome, drops>>

Init == /\ \E options \in Options :
             c = [options      |-> options,
                  status       |-> "never",
                  socket       |-> "none",     \* none, dialing, handshake, open
                  manual       |-> FALSE,      \* is_manually_closed
                  failed       |-> FALSE,
                  selecting    |-> FALSE,      \* is_selecting_db_internal
                  reconnecting |-> FALSE,
                  retries      |-> 0,
                  timer        |-> FALSE,      \* of the dial, or of idle time
                  retryTimer   |-> FALSE,
                  deferred     |-> FALSE,      \* a DeferredClose::WithoutSocket is queued
                  flusher      |-> FALSE,      \* auto_flusher.registered
                  queue        |-> << >>,
                  inflight     |-> << >>,
                  plans        |-> << >>,      \* unit_plans: the replies each has seen
                  buffer       |-> << >>,      \* write_buffer, in frames
                  handling     |-> FALSE,      \* on_data() has handled a reply and not gone on
                  promise      |-> FALSE,      \* a connect() waits
                  poll         |-> FALSE]      \* poll_ref keeps the event loop alive
        /\ wire = << >>
        /\ outcome = [m \in Commands |-> "new"]
        /\ drops = 0

(***************************************************************************)
(* The pieces the handlers are made of: each takes the client and gives    *)
(* the client after it.  What becomes of the promises is in Settled below: *)
(* a command that a handler takes away without a reply was rejected.       *)
(***************************************************************************)
Has(k, option) == option \in k.options

Pipelined(m) == m \notin Alone

\* The frames of a command: MULTI, one command and EXEC for a transaction.
Replies(m) == IF m \in Units THEN 3 ELSE 1
Frames(m) == [n \in 1..Replies(m) |-> [of |-> m, n |-> n]]

Ready(k) == k.status = "connected" /\ ~k.selecting

UpdatePollRef(k) ==
    [k EXCEPT !.poll = \/ k.queue # << >> \/ k.inflight # << >> \/ k.buffer # << >>
                       \/ k.reconnecting \/ k.status = "connecting"]

\* reset_connection_timeout(): nothing is timed on a failed client, or where idle time
\* is not limited.
ResetTimer(k) == [k EXCEPT !.timer = ~k.failed /\ (k.status = "connected" => Has(k, "idle"))]

\* Slip: the transactions keep their plans.
RejectInFlightOnly(k) == [k EXCEPT !.inflight = << >>]

\* reject_in_flight_commands().
RejectInFlight(k) ==
    LET units == Len(SelectSeq(k.inflight, LAMBDA m : m \in Units))
    IN  [k EXCEPT !.inflight = << >>,
                  !.plans = SubSeq(@, units + 1, Len(@))]

\* fail() of a client that has no socket.
FailDetached(k) ==
    IF k.failed THEN k
    ELSE [k EXCEPT !.failed = TRUE, !.reconnecting = FALSE, !.plans = << >>,
                   !.inflight = << >>, !.queue = << >>]

\* on_valkey_close(): connect() is rejected; onclose runs as a later call of JavaScript.
OnValkeyClose(k) == UpdatePollRef([k EXCEPT !.timer = FALSE, !.promise = FALSE])

\* on_close() of valkey.rs.
OnClose(k) ==
    LET cleared == [k EXCEPT !.flusher = FALSE, !.buffer = << >>, !.handling = FALSE]
        retry   == [cleared EXCEPT !.retries = @ + 1]
    IN  IF k.manual \/ k.failed \/ ~Has(k, "reconnect") THEN OnValkeyClose(FailDetached(cleared))
        ELSE IF retry.retries > MaxRetries THEN OnValkeyClose(FailDetached(retry))
        ELSE [RejectInFlight(retry) EXCEPT !.reconnecting = TRUE, !.selecting = FALSE,
                                           !.timer = FALSE, !.retryTimer = TRUE]

\* The socket's close event, and that of a dial that failed.
OnSocketClose(k) ==
    UpdatePollRef(OnClose([k EXCEPT !.socket = "none", !.status = "disconnected"]))

\* close() calls it before it returns.
CloseSocket(k) == IF k.socket = "none" THEN k ELSE OnSocketClose(k)

Fail(k) == IF k.failed THEN k ELSE CloseSocket(FailDetached(k))

\* close_without_socket_next_tick().
CloseNextTick(k) == UpdatePollRef([k EXCEPT !.status = "connecting", !.deferred = TRUE])

\* connect() of js_valkey.rs and what its callers do after it: a socket, an error before
\* there is one, or no TLS context.
Dial(k, result) ==
    CASE result = "socket"  ->
           ResetTimer(UpdatePollRef([k EXCEPT !.status = "connecting", !.socket = "dialing"]))
      [] result = "error"   -> CloseNextTick(k)
      [] result = "context" ->
           ResetTimer(CloseNextTick(FailDetached([k EXCEPT !.options = @ \ {"reconnect"}])))

Results(k) == {"socket"} \cup (IF drops < MaxDrops THEN {"error"} ELSE {})
                         \cup (IF drops < MaxDrops /\ Has(k, "tls") THEN {"context"} ELSE {})

Reconnect(k, result) ==
    LET disarmed == [k EXCEPT !.retryTimer = FALSE]
    IN  IF ~k.reconnecting \/ k.status # "disconnected" \/ k.socket # "none" THEN disarmed
        ELSE Dial([disarmed EXCEPT !.poll = TRUE], result)

\* drain(): one command, for the write that follows.
Drain(k) ==
    [k EXCEPT !.queue = Tail(@), !.inflight = Append(@, Head(k.queue)),
              !.buffer = @ \o Frames(Head(k.queue))]

\* Slip: only what may be pipelined is sent from here.
SendPipelined(k) ==
    IF k.buffer # << >> \/ ~Ready(k) \/ k.queue = << >> \/ ~Pipelined(Head(k.queue)) THEN k
    ELSE [k EXCEPT !.flusher = TRUE]

\* send_next_command(), before its flush.
SendNext(k) ==
    IF k.buffer # << >> \/ ~Ready(k) \/ k.queue = << >> THEN k
    ELSE IF Pipelined(Head(k.queue)) THEN [k EXCEPT !.flusher = TRUE]
    ELSE IF k.inflight # << >> THEN k
    ELSE LET next == Drain(k)
         IN  [next EXCEPT !.flusher = @ \/ (next.queue # << >> /\ Pipelined(Head(next.queue)))]

\* enqueue(), before its flush.
Enqueue(k, m) ==
    LET pipeline == Pipelined(m) /\ Has(k, "pipelining")
        planned  == IF m \in Units THEN [k EXCEPT !.plans = Append(@, 0)] ELSE k
    IN  IF pipeline \/ k.queue # << >> \/ k.inflight # << >> \/ ~Ready(k)
        THEN [planned EXCEPT !.queue = Append(@, m),
                             !.flusher = @ \/ (k.status = "connected" /\ pipeline)]
        ELSE [planned EXCEPT !.inflight = Append(@, m), !.buffer = @ \o Frames(m)]

-----------------------------------------------------------------------------
Held(k) == Range(k.queue) \cup Range(k.inflight)

\* The promises after a handler that leaves the client k: `how` for those it answered,
\* and rejected for the other commands it took away.
Settled(k, answered, how) ==
    outcome' = [m \in Commands |-> IF m \in answered THEN how
                                   ELSE IF m \in Held(c) \ Held(k) THEN "rejected"
                                   ELSE outcome[m]]

\* A handler that ends in a flush: the socket takes some of the frames.  (on_open() and
\* on_auto_flush() do not update poll_ref; nothing it depends on has changed there.)
Flushed(k) ==
    \E n \in 0..Len(k.buffer) :
        /\ c' = UpdatePollRef([k EXCEPT !.buffer = SubSeq(@, n + 1, Len(@))])
        /\ wire' = wire \o SubSeq(k.buffer, 1, n)

\* A handler that writes nothing; what was on a wire that is gone is lost.
Becomes(k) == /\ c' = k
              /\ wire' = IF k.socket = "open" THEN wire ELSE << >>
              /\ Settled(k, {}, "")

\* Between two callbacks of the event loop.
Idle == ~c.handling

(***************************************************************************)
(* Calls from JavaScript.                                                  *)
(***************************************************************************)

\* send() and send_unit(), which dial first on a new client.
Send(m) ==
    /\ outcome[m] = "new"
    /\ \E result \in IF c.status = "never" THEN Results(c) ELSE {"connected"} :
         LET k        == IF c.status = "never" THEN Dial(c, result) ELSE c
             rejected == k.failed \/ (k.status # "connected" /\ ~Has(k, "offline"))
         IN  /\ drops' = IF result \in {"error", "context"} THEN drops + 1 ELSE drops
             /\ IF rejected THEN c' = UpdatePollRef(k) /\ UNCHANGED wire
                ELSE IF Len(Enqueue(k, m).queue) > Len(k.queue)
                THEN c' = UpdatePollRef(Enqueue(k, m)) /\ UNCHANGED wire
                ELSE Flushed(Enqueue(k, m))
             /\ outcome' = [outcome EXCEPT ![m] = IF rejected THEN "rejected" ELSE "pending"]

\* connect(), which returns the promise there is, if any.
Connect ==
    /\ c.status # "connected" /\ ~c.promise
    /\ LET k       == [c EXCEPT !.promise = TRUE, !.manual = FALSE, !.failed = FALSE]
           retry   == [k EXCEPT !.reconnecting = TRUE, !.retries = 0]
           dialled == c.status = "never" \/ (c.status = "disconnected" /\ c.socket = "none")
       IN  \E result \in IF dialled THEN Results(c) ELSE {"none"} :
             /\ drops' = IF result \in {"error", "context"} THEN drops + 1 ELSE drops
             /\ Becomes(UpdatePollRef(CASE c.status = "never" -> Dial(k, result)
                                        [] c.status = "disconnected" -> Reconnect(retry, result)
                                        [] OTHER -> k))

\* close().
Close ==
    /\ c.status \in {"connecting", "connected"} \/ (c.status = "disconnected" /\ c.reconnecting)
    /\ LET k == [c EXCEPT !.manual = TRUE, !.flusher = FALSE]
       IN  Becomes(IF c.status = "disconnected" THEN OnClose([k EXCEPT !.retryTimer = FALSE])
                   ELSE CloseSocket(k))
    /\ UNCHANGED drops

(***************************************************************************)
(* Callbacks of the event loop.                                            *)
(***************************************************************************)

\* on_auto_flush(), after the microtasks of any callback.
AutoFlush ==
    /\ c.flusher
    /\ LET first == SelectInSeq(c.queue, LAMBDA m : ~Pipelined(m))
           count == IF first = 0 THEN Len(c.queue) ELSE first - 1
           batch == SubSeq(c.queue, 1, count)
           k     == [c EXCEPT !.queue = SubSeq(@, count + 1, Len(@)),
                              !.inflight = @ \o batch,
                              !.buffer = @ \o FlattenSeq([i \in 1..count |-> Frames(batch[i])]),
                              !.flusher = count < Len(c.queue)]
       IN  IF c.status # "connected" THEN Becomes([c EXCEPT !.flusher = FALSE])
           ELSE Flushed(k) /\ UNCHANGED outcome
    /\ UNCHANGED drops

\* authenticate(): HELLO, and SELECT for a database other than the first.
Start(k) ==
    [k EXCEPT !.socket = "open",
              !.selecting = Has(k, "database"),
              !.buffer = @ \o <<[of |-> "HELLO", n |-> 1]>>
                           \o IF Has(k, "database") THEN <<[of |-> "SELECT", n |-> 1]>> ELSE << >>]

OnOpen ==
    /\ Idle /\ c.socket = "dialing"
    /\ LET opened == [c EXCEPT !.buffer = << >>, !.failed = FALSE, !.selecting = FALSE]
       IN  IF Has(c, "tls") THEN c' = [opened EXCEPT !.socket = "handshake"] /\ UNCHANGED wire
           ELSE Flushed(Start(opened))
    /\ UNCHANGED <<outcome, drops>>

OnHandshake ==
    /\ Idle /\ c.socket = "handshake"
    /\ \/ Flushed(Start(c)) /\ UNCHANGED <<outcome, drops>>
       \/ drops < MaxDrops /\ drops' = drops + 1 /\ Becomes(Fail(c))

\* on_tls_session_error(), and the close that follows it.
OnTlsSessionError ==
    /\ Idle /\ c.socket = "open" /\ Has(c, "tls") /\ drops < MaxDrops
    /\ UnitBreaks \/ Range(c.inflight) \cap Units = {}
    /\ drops' = drops + 1
    /\ Becomes(IF c.status = "connected" /\ Has(c, "reconnect")
               THEN OnSocketClose([c EXCEPT !.inflight = << >>]) ELSE Fail(c))

\* The dial fails, or the connection is lost.
OnDisconnect ==
    /\ Idle /\ c.socket # "none" /\ drops < MaxDrops
    /\ drops' = drops + 1
    /\ Becomes(OnSocketClose(c))

OnWritable ==
    /\ Idle /\ c.socket = "open" /\ c.buffer # << >>
    /\ Flushed(SendNext(c))
    /\ UNCHANGED <<outcome, drops>>

\* One turn of the loop of on_data(), up to its look at the socket, takes one reply.
Read == wire' = Tail(wire)

\* The reply to HELLO.
OnHello ==
    /\ Idle /\ wire # << >> /\ c.status # "connected"
    /\ c' = [ResetTimer([c EXCEPT !.status = "connected", !.reconnecting = FALSE, !.retries = 0])
               EXCEPT !.promise = FALSE, !.handling = TRUE]
    /\ Read
    /\ UNCHANGED <<outcome, drops>>

OnSelect ==
    /\ Idle /\ wire # << >> /\ c.status = "connected" /\ c.selecting
    /\ c' = [c EXCEPT !.selecting = FALSE, !.handling = TRUE]
    /\ Read
    /\ UNCHANGED <<outcome, drops>>

\* What a reply is to the command whose promise it settles.
How(frame, m) == IF frame = [of |-> m, n |-> Replies(m)] THEN "answered" ELSE "mixed up"

\* A reply settles the first command in flight; a transaction waits for its last one.
OnReply ==
    /\ Idle /\ wire # << >> /\ Ready(c)
    /\ LET m       == Head(c.inflight)
           next    == [c EXCEPT !.handling = TRUE]
           settled == [next EXCEPT !.inflight = Tail(@),
                                   !.plans = IF m \in Units THEN Tail(@) ELSE @]
       IN  IF c.inflight = << >> THEN c' = next /\ Read /\ UNCHANGED outcome
           ELSE IF m \in Units /\ c.plans = << >> THEN Becomes(Fail(c))
           ELSE IF m \in Units /\ Head(c.plans) + 1 < Replies(m)
           THEN c' = [next EXCEPT !.plans[1] = @ + 1] /\ Read /\ UNCHANGED outcome
           ELSE c' = settled /\ Read /\ Settled(settled, {m}, How(Head(wire), m))
    /\ UNCHANGED drops

\* HELLO or SELECT is refused, or what came is no reply.
OnBadReply ==
    /\ Idle /\ wire # << >> /\ drops < MaxDrops
    /\ drops' = drops + 1
    /\ Becomes(Fail(c))

\* The rest of that turn.
Pump ==
    /\ c.handling
    /\ Flushed(ResetTimer(SendNext([c EXCEPT !.handling = FALSE])))
    /\ UNCHANGED <<outcome, drops>>

OnConnectionTimeout ==
    /\ Idle /\ c.timer
    /\ Becomes(IF c.failed THEN [c EXCEPT !.timer = FALSE] ELSE Fail([c EXCEPT !.timer = FALSE]))
    /\ UNCHANGED drops

OnReconnectTimer ==
    /\ Idle /\ c.retryTimer
    /\ \E result \in Results(c) :
         /\ drops' = IF result = "socket" THEN drops ELSE drops + 1
         /\ Becomes(Reconnect(c, result))

\* ValkeyDeferredClose of a dial that gave no socket.
DeferredClose ==
    /\ Idle /\ c.deferred
    /\ Becomes(UpdatePollRef(OnClose([c EXCEPT !.deferred = FALSE, !.status = "disconnected"])))
    /\ UNCHANGED drops

\* What the event loop, the server and the timers of retries do.
Step == \/ AutoFlush \/ OnOpen \/ OnHandshake \/ OnWritable \/ OnHello \/ OnSelect \/ OnReply
        \/ Pump \/ OnReconnectTimer \/ DeferredClose

Next == \/ Step \/ OnTlsSessionError \/ OnDisconnect \/ OnBadReply \/ OnConnectionTimeout
        \/ Connect \/ Close \/ \E m \in Commands : Send(m)

Spec == Init /\ [][Next]_vars

\* Dials end, the server answers, and the loop runs what is queued and writable.
Fairness == WF_vars(Step)

-----------------------------------------------------------------------------
(* Properties *)

\* "One plan per `Meta::TRANSACTION_UNIT` entry in `in_flight` and `queue`": what tells
\* which of the replies is EXEC's.
OnePlanPerUnit ==
    Len(c.plans) = Len(SelectSeq(c.inflight \o c.queue, LAMBDA m : m \in Units))

\* Over pipelining, partial writes, lost connections, retries and calls from the middle of
\* a reply: a command whose promise is pending is held once and no other is held, a reply
\* settles the command it answers, and the event loop is kept alive for what is pending.
CommandsExact ==
    LET held == c.inflight \o c.queue
    IN  /\ IsInjective(held)
        /\ Range(held) = {m \in Commands : outcome[m] = "pending"}
        /\ \A m \in Commands : outcome[m] # "mixed up"
        /\ OnePlanPerUnit
        /\ c.promise \/ held # << >> => c.poll

\* Every command, and every connect(), comes to an answer.
CommandsSettle == []<>(/\ \A m \in Commands : outcome[m] # "pending"
                       /\ ~c.promise)
=============================================================================
