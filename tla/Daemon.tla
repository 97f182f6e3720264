------------------------------- MODULE Daemon --------------------------------
(***************************************************************************)
(* The life of the logfenced process (main.rs) with the stream listener:   *)
(* main spawns Listener::run, serves signals in handle_signals, and after  *)
(* that waits for the listener.  The shutdown token has two writers: the   *)
(* SIGTERM branch of handle_signals, and Forwarder::forward when the       *)
(* datagram retries are exhausted with dgram_exhausted = "terminate".      *)
(* SIGHUP and SIGUSR1 do not touch this state (see Pipeline and Metrics).  *)
(***************************************************************************)
EXTENDS Listener

CONSTANTS
    Signals,        \* signals the environment sends, a subset of {"TERM", "INT"}
    Terminate       \* dgram_exhausted = "terminate"

ASSUME DaemonAssumption ==
    /\ Signals \subseteq {"TERM", "INT"}
    /\ Terminate \in BOOLEAN

VARIABLES
    main,       \* where main is
    handlers,   \* tokio's SIGTERM handler is installed
    sigterm     \* a SIGTERM is waiting in the signal stream

daemonVars == <<main, handlers, sigterm, vars>>

Alive == main \notin {"exited", "killed"}

DaemonInit ==
    /\ Init
    /\ main = "register"
    /\ handlers = FALSE
    /\ sigterm = FALSE

\* signal(SIGTERM), signal(SIGHUP) and signal(SIGUSR1).  A failure makes
\* handle_signals return without cancelling the token; when a later one than
\* the first fails, the SIGTERM handler stays installed.
RegisterSignals ==
    /\ main = "register"
    /\ \/ main' = "signals" /\ handlers' = TRUE
       \/ main' = "join" /\ handlers' \in BOOLEAN
    /\ UNCHANGED <<sigterm, vars>>

\* A handled SIGTERM is queued, an unhandled one kills the process.
SendSigTerm ==
    /\ Alive
    /\ "TERM" \in Signals
    /\ IF handlers
       THEN sigterm' = TRUE /\ UNCHANGED main
       ELSE main' = "killed" /\ UNCHANGED sigterm
    /\ UNCHANGED <<handlers, vars>>

\* No handler is installed for SIGINT on unix.
SendSigInt ==
    /\ Alive
    /\ "INT" \in Signals
    /\ main' = "killed"
    /\ UNCHANGED <<handlers, sigterm, vars>>

MutHandleSigTerm ==
    /\ main = "signals"
    /\ sigterm
    /\ sigterm' = FALSE
    /\ main' = "join"
    /\ UNCHANGED <<handlers, vars>>

HandleSigTerm ==
    /\ main = "signals"
    /\ sigterm
    /\ sigterm' = FALSE
    /\ main' = "join"
    /\ Cancel
    /\ UNCHANGED handlers

MutExhaust(c) ==
    /\ Alive
    /\ Terminate
    /\ c \in busy
    /\ token' = TRUE
    /\ conn' = [conn EXCEPT ![c] = "failed"]
    /\ UNCHANGED <<max_connections, lpc, permits, backlog, inbox, sent, closed, busy, late, forced>>
    /\ UNCHANGED <<main, handlers, sigterm>>

\* The forward of a session exhausts its attempts.
Exhaust(c) ==
    /\ Alive
    /\ Terminate
    /\ c \in busy
    /\ Cancel
    /\ UNCHANGED <<main, handlers, sigterm>>

\* listener_task.await
Join ==
    /\ main = "join"
    /\ lpc = "done"
    /\ main' = "exited"
    /\ UNCHANGED <<handlers, sigterm, vars>>

Running(A) == Alive /\ A /\ UNCHANGED <<main, handlers, sigterm>>

DaemonNext ==
    \/ RegisterSignals
    \/ SendSigTerm
    \/ SendSigInt
    \/ HandleSigTerm
    \/ Join
    \/ Running(Loop)
    \/ \E c \in Clients :
          Exhaust(c) \/ Running(Client(c)) \/ Running(Session(c))

DaemonSpec == DaemonInit /\ [][DaemonNext]_daemonVars

\* Only the runtime and the timer are fair: a session may stay in a forward
\* that never returns (unlimited attempts), a client may never disconnect.
FairDaemonSpec ==
    /\ DaemonSpec
    /\ WF_daemonVars(RegisterSignals)
    /\ WF_daemonVars(HandleSigTerm)
    /\ WF_daemonVars(Join)
    /\ WF_daemonVars(Running(Loop))

-----------------------------------------------------------------------------
(* The process composed of main and the listener takes no step on the      *)
(* listener's state that Listener alone would not take.                    *)
ImplementsListener == Spec

(* An orderly exit is a drained one: when main returns, every session the *)
(* drain waits for has ended unless the 30 s drain timeout elapsed.  That  *)
(* is every session unless max_connections exceeds u32::MAX.               *)
ExitIsDrained ==
    main = "exited" /\ ~forced =>
        /\ Cardinality(Active) \leq Unawaited
        /\ max_connections \leq U32Max => Active = {}

(* "SIGTERM received; initiating graceful shutdown" (main.rs): once        *)
(* handle_signals runs, a SIGTERM ends the process, even when sessions are *)
(* stuck and clients never disconnect.                                     *)
SigTermEnds == main = "signals" /\ sigterm ~> ~Alive

(* "New connections queue on the semaphore until an existing session       *)
(* finishes" (listener.rs, run): if sessions get their work done, clients  *)
(* disconnect in the end and accept does not fail for ever, a connection   *)
(* that waits is accepted unless the daemon shuts down or dies.            *)
QueuedIsServed ==
    (/\ SF_daemonVars(Running(Accept))
     /\ \A c \in Clients : /\ WF_daemonVars(Running(Session(c)))
                           /\ WF_daemonVars(Running(Close(c))))
    => \A c \in Clients : conn[c] = "queued" ~> (conn[c] # "queued" \/ token \/ ~Alive)

(* config.rs on dgram_exhausted = "terminate": initiate a graceful daemon  *)
(* shutdown.  After the forwarder has cancelled the token the process      *)
(* ends.                                                                   *)
ExhaustionEnds == main = "signals" /\ token ~> ~Alive

=============================================================================
