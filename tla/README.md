# A TLA+ model of logfence

logfence puts a daemon, `logfenced`, between the programs of a host and rsyslog.
Clients send RFC 5424 messages over a Unix socket; the daemon validates the JSON in
them and forwards what passes. These modules model the clients, the text of a
message, the daemon from its start to its exit, and its forwarders. TLC checks them
on small instances; TLAPS proves the main safety properties for every value of the
constants.

Paths below are relative to `src/crates/`; `daemon/` stands for
`logfence-daemon/src/`, `client/` for `logfence-client/src/`, `client-c/` for
`logfence-client-c/src/`, `proto/` for `logfence-proto/src/`.

## The system and its parts

| Part | Source | Modules | State |
|---|---|---|---|
| validator | `daemon/validator.rs` | Validator, Relay, Config | modelled |
| message pipeline | `daemon/session.rs`, `daemon/main.rs` | Pipeline, Monitor, Wire | modelled |
| metrics store | `daemon/metrics.rs` | Ledger, Metrics, Monitor | modelled |
| metrics socket | `daemon/metrics.rs` | Metrics, Monitor, Startup | snapshots and socket file |
| stream listener | `daemon/listener.rs` | Listener, Daemon, Startup | modelled |
| process and signals | `daemon/main.rs` | Daemon, Pipeline, Startup | modelled |
| start-up and reload | `daemon/main.rs`, `listener.rs`, `metrics.rs` | Startup | modelled |
| configuration | `daemon/config.rs` | Config, Startup | all but TOML syntax and logging keys |
| session framing | `daemon/session.rs`, `proto/frame.rs` | Frame, StreamSession | modelled |
| RFC 5424 message | `proto/syslog.rs` | Timestamp, Syslog, Wire | modelled |
| datagram listener | `daemon/datagram_listener.rs` | DatagramListener, Startup | modelled |
| datagram forwarder | `daemon/forwarder.rs` | DgramForwarder, DgramTransport | modelled |
| stream forwarder | `daemon/forwarder.rs` | StreamConn | modelled |
| client message builder | `client/builder.rs` | Timestamp, Calendar, Client, Wire | modelled |
| C client | `client-c/lib.rs` | Client, Wire | modelled |
| client transports | `client/transport.rs` | StreamConn, DgramTransport | modelled |
| logging, arguments | `daemon/main.rs` | | not modelled |

`main` loads the configuration, builds a validator from the schema files, binds one
listener (stream or datagram), spawns it and waits for signals.
The stream listener accepts connections under a semaphore and spawns a session
for each; a session cuts the byte stream into messages and hands them, one at a
time, to `handle_message`. The datagram listener deals datagrams to workers, which
call the same function. `handle_message` counts, validates, prepares, rewrites the
sender if configured, and forwards; the forwarder writes to rsyslog over a datagram
or a stream socket. SIGHUP publishes a new validator, SIGUSR1 and the stats socket
read the counters, SIGTERM cancels a token the listeners watch.

## Modules

**Validator** has `validate`, `schema_matches`, `prepare_for_forwarding` and
`canonicalize_json` as operators. A MSG is a number of `@cee:` cookies and a JSON
text; a text is its kind, its discriminator tag, the schemas it satisfies and
whether its keys are sorted, which is all the code distinguishes. **Relay** sends
one message through a chain of daemons that share schemas and differ in cookie
policy.

**Ledger** is the abstract specification of the four counters: a message is
received once and settled under exactly one other counter. **Metrics** adds
readers whose snapshot is four separate loads. **Pipeline** is `handle_message`
run by several tasks, step by step, with reloads in between; it implements Ledger
(`KeepsLedger`, mapping `open` to the tasks between `inc_received` and their
outcome). **Monitor** puts the readers of Metrics beside the tasks of Pipeline and
implements Metrics under the same mapping (`ImplementsMetrics`).

**Timestamp** has both ends of the TIMESTAMP field: the client's seconds-to-text
conversion with its civil date algorithm, and the daemon's check of the text.
**Calendar** is the reference: a date that moves on by one day at every midnight.
**Syslog** has `parse` and `Display` of a message on sequences of characters, with
every check on header fields and structured data, and `rewrite_sender`. **Client**
has `MessageBuilder` and the argument checks and defaults of the C interface.
**Wire** composes these with Relay: a program makes a message, on some day, and
daemons parse, judge, rewrite and forward it as text. The JSON in MSG is one token
of the text; what the daemons do to it is the state of Relay.

**Config** has the defaults and checks of `config.rs` and what `build_validator`
makes of them. **Startup** is `main` with its files: start, stats task, bind,
reload, shutdown, and edits, I/O failures and crashes between any two steps.

**Listener** is `Listener::run`. Each `select!` is two steps, the poll of the token
and the poll of the other future, because another thread may cancel in between.
Sessions are permit holders that consume messages. **Daemon** extends it with
`main` and the signal handlers, and implements it (`ImplementsListener`).

**Frame** has both codecs as operators on sequences of bytes from a small
alphabet; each byte carries the number of its message, which the code cannot see.
**StreamSession** is `run_with_codec` against a client that frames well or badly,
and a kernel that cuts the stream anywhere.

**DatagramListener** is the receive loop (receive until empty, then deal round
robin), the bounded channels, the workers, which may panic, and the drain.

**DgramForwarder** is `forward` over a datagram socket with its retry loop; rsyslog
stops, restarts or never reads, and other processes send to it. **DgramTransport**
has its two users: the daemon's tasks, side by side on one socket, and the client's
`UnixDatagramTransport`, which holds a mutex through the whole loop, sleeps
included, and whose callers may drop a send. **StreamConn** is the connection slot
behind a mutex that `UnixTransport::send` and the stream branch of `forward` share:
tasks share the first and may drop a send; a clone of the second has one user.

`MC*` modules only define constants for TLC. Operators named `Mut...` are
deliberately wrong variants of a definition, used to see that a property fails
when the code is changed.

## Runs

| Run | What it shows | Bounds |
|---|---|---|
| wire | what reaches rsyslog is what the program asked for; a message within RFC 5424 is never refused for its form; no later daemon refuses what one accepted; dates and timestamps are right | 2 daemons in a row, every day of 2000 and 2100 and the day after, 2 builder fields set, MSGIDs at and past the length limit, fractions of a second at and past theirs |
| wire_rewrite | **violated**: see Findings | as wire, 2000 only |
| relay_strict | **violated**: see Findings | 2 schemas, 1 tag, 1 hop |
| pipeline | one validator judges and prepares a message; counters truthful and accounted for; what a snapshot may show; implements Metrics | 2 tasks, 1 reader, 2 messages, 2 validators |
| daemon | permits, at most one late session, what a drain leaves, queued clients are served, SIGTERM ends the process; implements Listener | 2 clients, 1 or 2 permits with 1 for `u32::MAX`, 2 messages each |
| daemon_exhaustion | **violated**: see Findings | 1 client |
| startup | the socket is the configured one; the validator in use is complete; a reload installs what is on disk; a restarted daemon serves again | 9 configuration files, 2 schema files of 4 contents, 2 socket paths, 2 faults |
| stream_session | order, loss after an error, buffer bound, sessions end | 3 messages, reads of 1 to 3 bytes, size limit 3 |
| stream_conn | whole frames, at most one copy, one failure per connection, sends return | 2 tasks, 2 calls each, frames of 2 writes, 2 connections |
| dgram_forwarder | attempts, copies, delays, the token, calls return or are overtaken for ever | daemon and client, 2 callers that call without end, queue of 1, limits 0, 1, 3, both policies, words of 24 bits |
| datagram_listener | no datagram is in two places, dealing order, drain, shutdown ends | 6 datagrams, 2 workers, channels of 1 |
| datagram_stuck | **violated**: see Findings | 5 datagrams |

The bounds make each contended case happen: more clients than permits, more
datagrams than the channels hold, more callers than queue places, a daemon behind
another with a different cookie policy, a reload before and after every step of a
message, reads that end inside a prefix and reads that span messages, a connection
lost and replaced, an edit during a reload and a crash after it. TLC's integers have
32 bits, so two widths of the code are constants. `U32Max` is `u32::MAX`; with 1 for
it, the *daemon* run has a `max_connections` at the limit and one above it. `Bits` is
64 in the code; with 24 the product of `dgram_attempt_delay` saturates at attempt 20
and the shift fails at attempt 26, as they do at 60 and 66 with 64 bits, and
`AttemptCap` (28) is past both. 2000 is a leap year, 2100 is not. No run reaches the year 10000, whose timestamps have a five-digit year and are
refused by the daemon (`StampsAccepted` says so). In *wire* the full set of messages
is sent on one day (`BusyDays`) and a default message on every other, since only the
timestamp depends on the day. Deadlock checking is off where the system may stop
(clients finish, the process exits) or where a bound on calls ends the run; it is on
in *dgram_forwarder*, where callers never stop.

## Fairness

Liveness assumes weak fairness of tasks the runtime schedules. Beyond that:

* daemon: only `main`, the signal task and the accept loop are fair. Sessions and
  clients are not: the drain timeout suffices. `QueuedIsServed` has as its premise
  that accept errors do not recur for ever while a connection waits, that clients
  close in the end, and that sessions run on;
* startup: `main` waits for nothing outside while it starts, and a failed or killed
  daemon is started again (`Restart=on-failure` in `packaging/logfenced.service`).
  The stats task is not fair: `Recovers` does not need it;
* dgram_forwarder: rsyslog is assumed to read only when `dgram_max_attempts = 0`.
  No attempt is assumed to find room: a caller sleeps, looks once and sleeps again, so
  with no limit it starves when others take each free place first, other sessions of
  the daemon or other processes. `CallsReturn` says that this is the only way a call
  can fail to return, and that it cannot happen with a limit. Behind the mutex of the
  client's transport the tasks of one client do not overtake each other, but all of
  them wait while its holder is overtaken;
* datagram_listener: a worker finishes the datagram it holds, which the code
  guarantees when attempts are bounded. datagram_stuck drops this assumption;
* stream_session: `handle_message` returns. With no bound on attempts, or over a
  stream to an rsyslog that never reads, the code does not guarantee that;
* stream_conn: the server reads the connections it keeps open. The code has no
  write timeout, so without this `SendReturns` would not hold.

## Proofs

TLAPS proves the following for all values of the constants that satisfy the
`ASSUME` of each module (mostly: bounds are naturals, sets of tasks and clients are
finite).

* **MetricsProofs.** `LedgerBalances`: received = settled + open. The induction
  step is the cardinality of `open` when a task joins or leaves.
  `SnapshotsBracketed`: counters only grow, so no value loaded is ahead of its
  counter, and none is behind the counter at the start of the snapshot.
* **PipelineProofs.** `Inspected` records, for each task, which validator it holds
  and that its verdict is that validator's; it gives `PipelineInspects` and the
  refinement `PipelineKeepsLedger`, from which `PipelineAccounted` follows.
  For `PipelineCounts`, `Distinct` says that identifiers are handed out once and
  that an open message has met no fate yet, `Counted` that the sets of forwarded
  and dropped messages have the sizes the counters show.
  `MonitorImplementsMetrics` extends the refinement to the readers, and
  `MonitorSnapshots` carries `SnapshotsBracketed` over to the running daemon.
* **DaemonProofs.** `ListenerInv` adds to the listener's properties that the
  backlog has no duplicates, that busy sessions are open, and that a late session
  is followed by the end of the loop; it gives `ListenerSafe`. The drain acquires
  `max_connections` permits clamped to `u32`; from the permits in the account follows
  how many sessions it can leave, for every `max_connections` (`LimitNat`: none up to
  `u32::MAX`).
  `DaemonImplementsListener` shows each step of the process to be a step or a
  stutter of the listener, so `DaemonSafe` inherits the listener's theorem and adds
  that `main` returns only after that drain.
* **DgramProofs.** `DgramInv` ties the attempt number to the full queues met, for
  `DgramSafe` and `DgramToken`. `TransportImplementsLoop` shows that everything
  the mutex adds is a stutter of the loop, so `TransportSafe` inherits `DgramSafe`.
* **WireProofs** follows a message from the client to rsyslog.
  Lemmas on what acceptance says of a message and what preparation makes of it give
  `RelayCorrect`; `RelayInv` adds to its properties that a pending message at a later
  hop is one its validator accepts.
  `CivilDates`: `civil_from_days` names the Gregorian date of every day from 1970 on.
  A day is the doy-th of the yoe-th March year of an era (`OnDay`). `CivilInverts`
  shows that the algorithm finds era, yoe and doy again, `DayAfter` that the date of
  the next day is `Tomorrow`'s, in a month, at its end, and at the turn of a March
  year and of an era; `FirstOfJanuary` starts the induction. The second half of the
  theorem reads the 20 characters of the text back (`StampRead`, from one lemma per
  piece of the format): up to the year 9999 it passes `validate_timestamp` and says
  the moment it was made of. Integers are unbounded in the proof; the code's year is
  an `i32`.
  `WireImplements`: a step of Wire is a step or a stutter of Relay and of the clock,
  so `WireSafe` has both theorems for the whole path.
* **StartupProofs.** `StartupInv` says that the configuration of a running daemon is
  one that loads, that the socket at its path is its own from `bind` on (`Reachable`),
  what a build in progress has read so far and from which file (`Underway`), and that
  a daemon past its first build has a complete validator (`Installed`).
  `StartupSafe` follows, and `ReloadFaithful` from `Underway` at the step that
  installs. `LoadedFile` shows on the way that a mode which passed `validate` parses
  again, so the fallback of `apply_socket_permissions` is dead code.
* **DatagramListenerProofs.** `DealInv` makes the numbers of the datagrams an account:
  the dispatched ones are an initial segment, batch and kernel queue continue it
  (`Queued`), each dispatched one is with a worker, processed or lost (`Settled`),
  `worker_idx` is the number dispatched modulo the pool (`Shared`), and a worker has
  ended only by a panic, by the timeout or with nothing left (`Ended`).
  `DatagramsDealt` follows for any pool, channel capacity and number of datagrams.
* **StreamProofs.** The inductive invariant has three parts. `SlotInv`: whoever
  connects or writes holds the mutex, and the slot is empty, or not failed, then.
  `FrameInv`: the connection in the slot ends where the writer left off, or between
  two frames if nobody writes, counted modulo the writes of a frame. `PieceInv`: the
  pieces of a frame are all on one connection, no further than its task has written.
  They give `StreamSafe` and, from `SlotInv` alone, `FailsOneSend`, for any number of
  tasks, calls, connections and writes per frame.

The inductive invariants of the last three were also checked by TLC on the instances
of their runs (with a finite set for `Nat` in `DealInv`). Type correctness is part of the theorems about Relay, Pipeline and Listener
and of the inductive invariants of the others.

Only model-checked: all liveness; `BackoffGrows` (powers of two are beyond the
provers); the text of a whole message (`HeaderIntact`, `WellFormedPasses`), whose
scans are recursive functions that need induction over data; the byte streams of
StreamSession, whose decoders scan for a delimiter or a length.

## Findings

1. *relay_strict.* In strict mode with a discriminator map and no fallback
   schemas, a message with an unknown discriminator is forwarded although it
   matches no schema (`daemon/validator.rs:312` against `daemon/config.rs:318`).
2. *daemon_exhaustion.* With `dgram_exhausted = "terminate"` the listener drains,
   but `main` waits on for a signal (`daemon/main.rs:203` against
   `daemon/config.rs:200`).
3. *datagram_stuck.* The dispatch waits for a full channel outside the select on
   the token, so with a worker stuck on rsyslog neither the token nor the drain
   timeout is looked at (`daemon/datagram_listener.rs:222`).
4. *wire_rewrite.* `rewrite_sender` joins its element to existing structured data
   with a space, which ends STRUCTURED-DATA for the next reader: the original sender
   arrives as the beginning of MSG (`daemon/session.rs:78` against
   `daemon/session.rs:62`). `HeaderIntact` and `WellFormedPasses` except messages
   this has happened to (`joined`) and hold for all others.

Noted while modelling, with no run of their own:

* `client/transport.rs:77` says that after a lost connection "the next `send`
  re-establishes it"; the next send fails, and the one after it connects.
* `daemon/listener.rs:82` says that `run` waits "for all sessions to finish". The drain
  asks for at most `u32::MAX` permits (`:145`), so above that `max_connections` it
  logs "all sessions finished" with sessions running. `DrainComplete` and
  `ExitIsDrained` bound their number; up to `u32::MAX` there are none.
* Three schedules are documented for the datagram retries. The code, and its comment
  at `daemon/forwarder.rs:48`, double the delay from 100 µs and reach the cap of 1 s at
  attempt 16. `src/README.md:142` doubles until attempt 24, which is over 1 s from
  attempt 16 on. `daemon/config.rs:189` has 100 µs, 500 µs, 2 ms, and 1 s from attempt
  5. The model and `BackoffGrows` follow the code.
* `daemon/config.rs:186` says of unlimited attempts "retry until the send succeeds or a
  non-retryable error occurs". Neither need happen: see Fairness.
* `Ok` from a stream send means written. What the server had not read when it
  stopped is lost.
* A send dropped in mid-frame leaves its connection in the slot; the next frame
  follows half a frame. `FramesWhole` excepts these connections.
* After a frame error the session clears its buffer, complete frames included.
  Under octet counts the stream need not find a frame boundary again.
* `daemon/metrics.rs:4` promises more than `:60` about a snapshot; the model has
  what the code does, and `SnapshotBracket` what remains true.
* `daemon/config.rs:413` says "check the range", but any octal number passes. The
  mode is parsed again when it is applied, with a fallback no checked value takes
  (`ListensAsConfigured`). `socket_group` is never applied.
* `validate` does not compare the listening path with the path of the stats socket.
  `ListensAsConfigured` and `Recovers` leave equal paths out.
* A reload replaces the validator only; the other sections need a restart.
  A schema file named twice is read twice, and an edit may fall in between.
* `main` does not wait for the stats task, so its socket file may stay behind.
* `canonical_json` may change numbers beyond 64 bits; the datagram receive buffer
  cuts longer datagrams off; SIGINT has no handler.

## Not modelled

* Argument parsing and logging set-up: done once, before the daemon has state.
* TOML, JSON and JSON Schema are libraries. A configuration file is the record it
  parses to, or malformed; a JSON text is its kind, tag, key order and the schemas it
  satisfies.
* The stats socket's JSON line, the wording of `lf_strerror` and of error messages.
* Characters of several bytes. The parser of structured data goes on by one byte after
  the closing quote of a value (`proto/syslog.rs:546-553`) and slices the text there;
  the model's alphabet has one byte to a character, so it does not show what happens
  when that byte is inside one.
* The content of `/etc/hostname`, which `detect_hostname` (`daemon/listener.rs:160`)
  trims and does not check. `LocalHostname` is one valid name; `HeaderIntact` and
  `WellFormedPasses` say nothing of a host whose name is no HOSTNAME of RFC 5424.
* A second daemon on the same path, which removes the first one's socket file:
  `Startup` has one daemon at a time, as the service manager has.
* An endless burst of datagrams, which keeps the inner receive loop from seeing the
  token: datagrams are numbered, so their number is a bound of the model.
