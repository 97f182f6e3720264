-------------------------- MODULE DatagramListener ---------------------------
(***************************************************************************)
(* DatagramListener::run and run_worker (datagram_listener.rs): a receive  *)
(* loop that empties the kernel queue into a batch and deals the batch     *)
(* round-robin to a fixed pool of workers, each behind a bounded channel,  *)
(* and the drain that follows the cancellation of the shutdown token.      *)
(* Datagrams are numbered in the order of their arrival.                   *)
(***************************************************************************)
EXTENDS Integers, Sequences, Functions

CONSTANTS
    NumWorkers,     \* daemon.max_connections
    ChannelCap,     \* WORKER_CHANNEL_CAP
    MaxDatagrams    \* bound: datagrams clients send

ASSUME DatagramAssumption ==
    /\ NumWorkers \in Nat \ {0}
    /\ ChannelCap \in Nat \ {0}
    /\ MaxDatagrams \in Nat

Workers == 0..(NumWorkers - 1)

VARIABLES
    token,      \* shutdown.is_cancelled()
    rpc,        \* where the receive loop is
    kernel,     \* datagrams in the socket's receive queue
    batch,      \* datagrams received and not yet dispatched
    worker_idx, \* the worker that gets the next datagram
    chan,       \* each worker's channel
    hand,       \* the datagrams each worker is processing: at most one
    alive,      \* workers whose task has not ended
    panicked,   \* workers whose task died in process_datagram
    sent,       \* datagrams sent by clients
    done,       \* datagrams processed
    lost,       \* datagrams discarded by the daemon unprocessed
    forced      \* the drain ended by its timeout

loopVars == <<token, rpc, batch, worker_idx, forced>>
workVars == <<chan, hand, alive, panicked, done, lost>>
vars == <<token, rpc, kernel, batch, worker_idx, chan, hand, alive, panicked,
          sent, done, lost, forced>>

Held(w) == hand[w] \cup Range(chan[w])

Init ==
    /\ token = FALSE
    /\ rpc = "poll"
    /\ kernel = <<>>
    /\ batch = <<>>
    /\ worker_idx = 0
    /\ chan = [w \in Workers |-> <<>>]
    /\ hand = [w \in Workers |-> {}]
    /\ alive = Workers
    /\ panicked = {}
    /\ sent = 0
    /\ done = {}
    /\ lost = {}
    /\ forced = FALSE

-----------------------------------------------------------------------------
(* Clients, and the two writers of the token.                              *)

Arrive ==
    /\ rpc # "done"
    /\ sent < MaxDatagrams
    /\ sent' = sent + 1
    /\ kernel' = Append(kernel, sent + 1)
    /\ UNCHANGED <<loopVars, workVars>>

Cancel ==
    /\ token' = TRUE
    /\ UNCHANGED <<rpc, kernel, batch, worker_idx, workVars, sent, forced>>

-----------------------------------------------------------------------------
(* The receive loop.                                                       *)

\* The biased select!: the token is polled first, then the socket.
PollShutdown ==
    /\ rpc = "poll"
    /\ rpc' = IF token THEN "join" ELSE "readable"
    /\ UNCHANGED <<token, kernel, batch, worker_idx, workVars, sent, forced>>

\* readable() is pending, ready, or fails; failing is polling again.
Readable ==
    /\ rpc = "readable"
    /\ rpc' \in {"poll"} \cup {s \in {"receive"} : kernel # <<>>}
    /\ UNCHANGED <<token, kernel, batch, worker_idx, workVars, sent, forced>>

MutReceive ==
    /\ rpc = "receive"
    /\ kernel # <<>> /\ Len(batch) < MaxDatagrams
    /\ batch' = Append(batch, Head(kernel))
    /\ UNCHANGED <<token, rpc, kernel, worker_idx, workVars, sent, forced>>

Receive ==
    /\ rpc = "receive"
    /\ kernel # <<>>
    /\ batch' = Append(batch, Head(kernel))
    /\ kernel' = Tail(kernel)
    /\ UNCHANGED <<token, rpc, worker_idx, workVars, sent, forced>>

\* WouldBlock, or another receive error: on to the dispatch.
ReceiveEnd ==
    /\ rpc = "receive"
    /\ rpc' = "dispatch"
    /\ UNCHANGED <<token, kernel, batch, worker_idx, workVars, sent, forced>>

MutStay == UNCHANGED worker_idx

Advance == worker_idx' = (worker_idx + 1) % NumWorkers

\* The channel of the next worker takes the head of the batch: try_send from
\* "dispatch", send().await from "blocked".
Dispatch ==
    /\ rpc \in {"dispatch", "blocked"}
    /\ batch # <<>>
    /\ worker_idx \in alive
    /\ Len(chan[worker_idx]) < ChannelCap
    /\ chan' = [chan EXCEPT ![worker_idx] = Append(@, Head(batch))]
    /\ batch' = Tail(batch)
    /\ rpc' = "dispatch"
    /\ Advance
    /\ UNCHANGED <<token, kernel, hand, alive, panicked, sent, done, lost, forced>>

\* TrySendError::Full: wait in send().await, where the token is not polled.
Block ==
    /\ rpc = "dispatch"
    /\ batch # <<>>
    /\ worker_idx \in alive
    /\ Len(chan[worker_idx]) = ChannelCap
    /\ rpc' = "blocked"
    /\ UNCHANGED <<token, kernel, batch, worker_idx, workVars, sent, forced>>

MutWorkerGone ==
    /\ rpc = "dispatch"
    /\ batch # <<>>
    /\ worker_idx \notin alive
    /\ lost' = lost \cup Range(batch)
    /\ batch' = <<>>
    /\ rpc' = "join"
    /\ UNCHANGED <<token, kernel, worker_idx, chan, hand, alive, panicked, sent, done, forced>>

\* Closed: break 'recv, dropping the rest of the batch.
WorkerGone ==
    /\ rpc \in {"dispatch", "blocked"}
    /\ batch # <<>>
    /\ worker_idx \notin alive
    /\ lost' = lost \cup Range(batch)
    /\ batch' = <<>>
    /\ rpc' = "join"
    /\ UNCHANGED <<token, kernel, worker_idx, chan, hand, alive, panicked, sent, done, forced>>

BatchDone ==
    /\ rpc = "dispatch"
    /\ batch = <<>>
    /\ rpc' = "poll"
    /\ UNCHANGED <<token, kernel, batch, worker_idx, workVars, sent, forced>>

Joined ==
    /\ rpc = "join"
    /\ alive = {}
    /\ rpc' = "done"
    /\ UNCHANGED <<token, kernel, batch, worker_idx, workVars, sent, forced>>

\* SHUTDOWN_DRAIN_TIMEOUT elapses; dropping the JoinSet aborts the workers.
JoinTimeout ==
    /\ rpc = "join"
    /\ rpc' = "done"
    /\ forced' = TRUE
    /\ lost' = lost \cup UNION {Held(w) : w \in Workers}
    /\ chan' = [w \in Workers |-> <<>>]
    /\ hand' = [w \in Workers |-> {}]
    /\ alive' = {}
    /\ UNCHANGED <<token, kernel, batch, worker_idx, panicked, sent, done>>

-----------------------------------------------------------------------------
(* Workers.                                                                *)

Take(w) ==
    /\ w \in alive
    /\ hand[w] = {}
    /\ chan[w] # <<>>
    /\ hand' = [hand EXCEPT ![w] = {Head(chan[w])}]
    /\ chan' = [chan EXCEPT ![w] = Tail(@)]
    /\ UNCHANGED <<loopVars, kernel, alive, panicked, sent, done, lost>>

\* process_datagram returns.
Finish(w) ==
    /\ hand[w] # {}
    /\ done' = done \cup hand[w]
    /\ hand' = [hand EXCEPT ![w] = {}]
    /\ UNCHANGED <<loopVars, kernel, chan, alive, panicked, sent, lost>>

MutExit(w) ==
    /\ w \in alive
    /\ hand[w] = {}
    /\ rpc = "join"
    /\ alive' = alive \ {w}
    /\ UNCHANGED <<loopVars, kernel, chan, hand, panicked, sent, done, lost>>

\* recv() returns None: the senders are dropped and the channel is empty.
Exit(w) ==
    /\ w \in alive
    /\ hand[w] = {}
    /\ chan[w] = <<>>
    /\ rpc = "join"
    /\ alive' = alive \ {w}
    /\ UNCHANGED <<loopVars, kernel, chan, hand, panicked, sent, done, lost>>

\* The task dies in process_datagram, its receiver is dropped.
Panic(w) ==
    /\ hand[w] # {}
    /\ lost' = lost \cup Held(w)
    /\ chan' = [chan EXCEPT ![w] = <<>>]
    /\ hand' = [hand EXCEPT ![w] = {}]
    /\ alive' = alive \ {w}
    /\ panicked' = panicked \cup {w}
    /\ UNCHANGED <<loopVars, kernel, sent, done>>

Loop ==
    \/ PollShutdown
    \/ Readable
    \/ Receive
    \/ ReceiveEnd
    \/ Dispatch
    \/ Block
    \/ WorkerGone
    \/ BatchDone
    \/ Joined
    \/ JoinTimeout

Work(w) == Take(w) \/ Finish(w) \/ Exit(w)

Next ==
    \/ Arrive
    \/ Cancel
    \/ Loop
    \/ \E w \in Workers : Work(w) \/ Panic(w)

Spec == Init /\ [][Next]_vars

\* The loop, its timer and the workers run on, but process_datagram may wait
\* for ever: rsyslog full and dgram_max_attempts = 0.
LoopFairSpec ==
    Spec /\ WF_vars(Loop) /\ \A w \in Workers : WF_vars(Take(w) \/ Exit(w))

\* With a bound on the attempts every datagram is processed in the end.
FairSpec == LoopFairSpec /\ \A w \in Workers : WF_vars(Finish(w))

-----------------------------------------------------------------------------
Increasing(s) == \A i, j \in DOMAIN s : i < j => s[i] < s[j]

\* The places a datagram can be at.
Places == <<Range(kernel), Range(batch), done, lost, UNION {Held(w) : w \in Workers}>>

(* Every datagram is in exactly one place: the kernel queue, the batch,    *)
(* one worker, processed or lost; nothing is duplicated or forgotten.      *)
OnePlace ==
    /\ UNION Range(Places) = 1..sent
    /\ \A p, q \in DOMAIN Places : p # q => Places[p] \cap Places[q] = {}
    /\ \A v, w \in Workers : v # w => Held(v) \cap Held(w) = {}
    /\ \A w \in Workers : hand[w] \cap Range(chan[w]) = {} /\ IsInjective(chan[w])
    /\ IsInjective(kernel) /\ IsInjective(batch)

(* Datagram d goes to worker d - 1 modulo the pool, so the load of the     *)
(* workers differs by at most one, and each worker meets its datagrams,    *)
(* one at a time, in the order they arrived.                               *)
RoundRobin ==
    \A w \in Workers :
        /\ \A d \in Held(w) : (d - 1) % NumWorkers = w
        /\ \A d, e \in hand[w] : d = e
        /\ \A d \in hand[w], e \in Range(chan[w]) : d < e
        /\ Increasing(chan[w])
        /\ \A d \in Held(w), b \in Range(batch) : d < b

(* "workers to drain their remaining items and exit naturally" (module     *)
(* comment): unless the timeout struck or a worker died, all the datagrams *)
(* taken from the kernel have been processed when run returns.             *)
DrainComplete ==
    rpc = "done" /\ ~forced /\ panicked = {} => done = (1..sent) \ Range(kernel)

(* With workers that make progress, shutdown ends, and every datagram      *)
(* received is processed or, when a worker dies or the timeout strikes,    *)
(* given up.                                                               *)
ShutdownEnds == token ~> rpc = "done"

=============================================================================
