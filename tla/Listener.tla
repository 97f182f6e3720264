------------------------------ MODULE Listener -------------------------------
(***************************************************************************)
(* Listener::run (listener.rs): the accept loop of the stream socket, the  *)
(* semaphore that bounds the sessions, the sessions themselves as far as   *)
(* the semaphore sees them (run_with_codec in session.rs), and the drain   *)
(* that follows the cancellation of the shutdown token.                    *)
(*                                                                         *)
(* A biased select! polls the token first and the other future after it.   *)
(* The two polls are two steps here: the token may be cancelled by another *)
(* thread in between.                                                      *)
(***************************************************************************)
EXTENDS Naturals, Sequences, FiniteSets

CONSTANTS
    Clients,            \* each connects at most once
    ConnectionLimits,   \* values of daemon.max_connections
    U32Max,             \* u32::MAX: 2^32 - 1 in the code, smaller for TLC
    MaxSends            \* bound: messages a client sends

ASSUME ListenerAssumption ==
    /\ IsFiniteSet(Clients)
    /\ ConnectionLimits \subseteq Nat \ {0}
    /\ U32Max \in Nat \ {0}
    /\ MaxSends \in Nat

VARIABLES
    max_connections,    \* daemon.max_connections, fixed
    token,      \* shutdown.is_cancelled()
    lpc,        \* where run is: about to poll the token, or the future after it
    permits,    \* available permits of the semaphore
    backlog,    \* connections the kernel holds for accept
    conn,       \* the connection of each client
    inbox,      \* complete messages of each client not yet decoded
    sent,       \* messages each client has sent
    closed,     \* clients that closed their end
    busy,       \* sessions inside handle_message
    late,       \* sessions started after the cancellation (history)
    forced      \* the drain ended by its timeout

netVars == <<conn, inbox, sent, closed, busy>>
loopVars == <<max_connections, token, lpc, permits, backlog, late, forced>>
vars == <<max_connections, token, lpc, permits, backlog, conn, inbox, sent, closed, busy, late,
          forced>>

Active == {c \in Clients : conn[c] = "open"}

\* The loop holds a permit between its two selects.
LoopPermit == IF lpc \in {"accept", "connection"} THEN 1 ELSE 0

Init ==
    /\ token = FALSE
    /\ lpc = "permit"
    /\ max_connections \in ConnectionLimits
    /\ permits = max_connections
    /\ backlog = <<>>
    /\ conn = [c \in Clients |-> "out"]
    /\ inbox = [c \in Clients |-> 0]
    /\ sent = [c \in Clients |-> 0]
    /\ closed = {}
    /\ busy = {}
    /\ late = 0
    /\ forced = FALSE

-----------------------------------------------------------------------------
(* Clients.                                                                *)

\* The socket is bound until run returns.
Connect(c) ==
    /\ lpc # "done"
    /\ conn[c] = "out"
    /\ conn' = [conn EXCEPT ![c] = "queued"]
    /\ backlog' = Append(backlog, c)
    /\ UNCHANGED <<max_connections, token, lpc, permits, inbox, sent, closed, busy, late, forced>>

Send(c) ==
    /\ conn[c] \in {"queued", "open"}
    /\ c \notin closed
    /\ sent[c] < MaxSends
    /\ sent' = [sent EXCEPT ![c] = @ + 1]
    /\ inbox' = [inbox EXCEPT ![c] = @ + 1]
    /\ UNCHANGED <<loopVars, conn, closed, busy>>

Close(c) ==
    /\ conn[c] \in {"queued", "open"}
    /\ c \notin closed
    /\ closed' = closed \cup {c}
    /\ UNCHANGED <<loopVars, conn, inbox, sent, busy>>

-----------------------------------------------------------------------------
(* The accept loop.                                                        *)

MutUnbiasedSelect ==
    /\ \/ lpc = "permit" /\ lpc' \in {"semaphore"} \cup {s \in {"drain"} : token}
       \/ lpc = "accept" /\ lpc' \in {"connection"} \cup {s \in {"drain"} : token}
    /\ permits' = permits + (IF lpc = "accept" /\ lpc' = "drain" THEN 1 ELSE 0)
    /\ UNCHANGED <<max_connections, netVars, token, backlog, late, forced>>

PollShutdown ==
    /\ \/ lpc = "permit" /\ lpc' = (IF token THEN "drain" ELSE "semaphore")
       \/ lpc = "accept" /\ lpc' = (IF token THEN "drain" ELSE "connection")
    /\ permits' = permits + (IF lpc = "accept" /\ token THEN 1 ELSE 0)
    /\ UNCHANGED <<max_connections, netVars, token, backlog, late, forced>>

AcquirePermit ==
    /\ lpc = "semaphore"
    /\ IF permits > 0
       THEN lpc' = "accept" /\ permits' = permits - 1
       ELSE lpc' = "permit" /\ UNCHANGED permits
    /\ UNCHANGED <<max_connections, netVars, token, backlog, late, forced>>

Accept ==
    /\ lpc = "connection"
    /\ backlog # <<>>
    /\ conn' = [conn EXCEPT ![Head(backlog)] = "open"]
    /\ backlog' = Tail(backlog)
    /\ lpc' = "permit"
    /\ late' = late + (IF token THEN 1 ELSE 0)
    /\ UNCHANGED <<max_connections, token, permits, inbox, sent, closed, busy, forced>>

\* Nothing to accept yet: the select is polled again from the start.
AcceptPending ==
    /\ lpc = "connection"
    /\ backlog = <<>>
    /\ lpc' = "accept"
    /\ UNCHANGED <<max_connections, netVars, token, permits, backlog, late, forced>>

MutAcceptError ==
    /\ lpc = "connection"
    /\ lpc' = "permit"
    /\ UNCHANGED <<max_connections, netVars, token, permits, backlog, late, forced>>

AcceptError ==
    /\ lpc = "connection"
    /\ lpc' = "permit"
    /\ permits' = permits + 1
    /\ UNCHANGED <<max_connections, netVars, token, backlog, late, forced>>

\* u32::try_from(cfg.max_connections).unwrap_or(u32::MAX)
DrainTotal == IF max_connections \leq U32Max THEN max_connections ELSE U32Max

\* Permits the drain does not wait for: none up to a max_connections of u32::MAX.
Unawaited == max_connections - DrainTotal

\* max_connections as u32, which truncates.
MutTruncates ==
    /\ lpc = "drain"
    /\ permits \geq max_connections % (U32Max + 1)
    /\ lpc' = "done"
    /\ UNCHANGED <<max_connections, netVars, token, permits, backlog, late, forced>>

\* acquire_many(total) succeeds.
DrainDone ==
    /\ lpc = "drain"
    /\ permits \geq DrainTotal
    /\ lpc' = "done"
    /\ UNCHANGED <<max_connections, netVars, token, permits, backlog, late, forced>>

\* SHUTDOWN_DRAIN_TIMEOUT elapses.
DrainTimeout ==
    /\ lpc = "drain"
    /\ lpc' = "done"
    /\ forced' = TRUE
    /\ UNCHANGED <<max_connections, netVars, token, permits, backlog, late>>

-----------------------------------------------------------------------------
(* Sessions.                                                               *)

Decode(c) ==
    /\ c \in Active \ busy
    /\ inbox[c] > 0
    /\ inbox' = [inbox EXCEPT ![c] = @ - 1]
    /\ busy' = busy \cup {c}
    /\ UNCHANGED <<loopVars, conn, sent, closed>>

Handled(c) ==
    /\ c \in busy
    /\ busy' = busy \ {c}
    /\ UNCHANGED <<loopVars, conn, inbox, sent, closed>>

MutEndSession(c, state) ==
    /\ conn' = [conn EXCEPT ![c] = state]
    /\ UNCHANGED <<loopVars, inbox, sent, closed, busy>>

\* The session returns, its task drops the permit.
EndSession(c, state) ==
    /\ conn' = [conn EXCEPT ![c] = state]
    /\ permits' = permits + 1
    /\ UNCHANGED <<max_connections, token, lpc, backlog, inbox, sent, closed, busy, late, forced>>

Eof(c) ==
    /\ c \in Active \ busy
    /\ c \in closed
    /\ inbox[c] = 0
    /\ EndSession(c, "gone")

ReadError(c) ==
    /\ c \in Active \ busy
    /\ inbox[c] = 0
    /\ EndSession(c, "failed")

-----------------------------------------------------------------------------
\* SIGTERM, or datagram retries exhausted under dgram_exhausted = terminate.
Cancel ==
    /\ token' = TRUE
    /\ UNCHANGED <<max_connections, netVars, lpc, permits, backlog, late, forced>>

Loop ==
    \/ PollShutdown
    \/ AcquirePermit
    \/ Accept
    \/ AcceptPending
    \/ AcceptError
    \/ DrainDone
    \/ DrainTimeout

Client(c) == Connect(c) \/ Send(c) \/ Close(c)

Session(c) == Decode(c) \/ Handled(c) \/ Eof(c) \/ ReadError(c)

Next ==
    \/ Loop
    \/ Cancel
    \/ \E c \in Clients : Client(c) \/ Session(c)

Spec == Init /\ [][Next]_vars

-----------------------------------------------------------------------------
TypeOK ==
    /\ token \in BOOLEAN
    /\ lpc \in {"permit", "semaphore", "accept", "connection", "drain", "done"}
    /\ max_connections \in ConnectionLimits
    /\ permits \in 0..max_connections
    /\ backlog \in Seq(Clients)
    /\ conn \in [Clients -> {"out", "queued", "open", "gone", "failed"}]
    /\ inbox \in [Clients -> 0..MaxSends]
    /\ sent \in [Clients -> 0..MaxSends]
    /\ closed \subseteq Clients
    /\ busy \subseteq Clients
    /\ late \in Nat
    /\ forced \in BOOLEAN

(* Every permit is in the semaphore, in the accept loop or in a running    *)
(* session: no path through accept errors, shutdown and read errors leaks  *)
(* or duplicates one, so sessions never exceed max_connections.            *)
PermitsConserved ==
    permits + LoopPermit + Cardinality(Active) = max_connections

(* A session is inside handle_message only while it runs.                  *)
BusyIsActive == busy \subseteq Active

(* After the cancellation of the token at most one more session starts:    *)
(* the accept that was being polled when the token was cancelled.          *)
AtMostOneLateSession == late \leq 1

(* When run returns without its timeout ("all sessions finished"), no      *)
(* session runs, except, above a max_connections of u32::MAX, as many as   *)
(* the clamp of acquire_many's argument leaves permits out.  Every client  *)
(* that closed its connection and was served has had all its messages      *)
(* handled.                                                                *)
DrainComplete ==
    lpc = "done" /\ ~forced =>
        /\ Cardinality(Active) \leq Unawaited
        /\ max_connections \leq U32Max => Active = {} /\ busy = {}
        /\ \A c \in Clients : conn[c] = "gone" => inbox[c] = 0

=============================================================================
