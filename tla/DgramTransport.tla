--------------------------- MODULE DgramTransport ----------------------------
(***************************************************************************)
(* The two users of the datagram retry loop.  The tasks of the daemon run  *)
(* it side by side on the socket that the clones of Forwarder share.  The  *)
(* tasks of a client share a UnixDatagramTransport (transport.rs), which   *)
(* keeps its socket behind a mutex and holds the mutex through the whole   *)
(* loop, sleeps included; they may drop a send they await.                 *)
(*                                                                         *)
(* A message over max_size is refused before the lock and changes nothing. *)
(***************************************************************************)
EXTENDS DgramForwarder, Sequences

CONSTANT NoOne      \* the mutex is free

ASSUME TransportAssumption == NoOne \notin Callers

VARIABLES
    owner,      \* "Forwarder" or "UnixDatagramTransport", fixed
    holder,     \* the task that holds the mutex
    waiting,    \* the tasks that wait for it, first come first served
    socket      \* the mutex holds a socket

lockVars == <<holder, waiting, socket>>
transportVars == <<vars, owner, lockVars>>

TransportInit ==
    /\ Init
    /\ owner \in {"Forwarder", "UnixDatagramTransport"}
    /\ owner = "UnixDatagramTransport" => ~terminate
    /\ holder = NoOne
    /\ waiting = <<>>
    /\ socket = FALSE

ForwarderStep(c) ==
    /\ owner = "Forwarder"
    /\ Call(c) \/ Forward(c)
    /\ UNCHANGED <<owner, lockVars>>

-----------------------------------------------------------------------------
Waiting(c) == \E i \in 1..Len(waiting) : waiting[i] = c

Send(c) ==
    /\ owner = "UnixDatagramTransport"
    /\ pc[c] \in Returned /\ ~Waiting(c)
    /\ waiting' = Append(waiting, c)
    /\ UNCHANGED <<vars, owner, holder, socket>>

Lock(c) ==
    /\ holder = NoOne
    /\ waiting # <<>> /\ Head(waiting) = c
    /\ holder' = c
    /\ waiting' = Tail(waiting)
    /\ Call(c)
    /\ UNCHANGED <<owner, socket>>

MutTry(c) ==
    /\ holder = c
    /\ Forward(c)
    /\ holder' = IF pc'[c] \in {"ok", "io"} THEN NoOne ELSE holder
    /\ socket' = (pc'[c] \notin {"full", "io"})
    /\ UNCHANGED <<owner, waiting>>

\* A step of the loop under the mutex.  The socket is created before the
\* first attempt, or that fails (SendErr); every error gives it up.
Try(c) ==
    /\ holder = c
    /\ Forward(c)
    /\ holder' = IF pc'[c] \in Returned THEN NoOne ELSE holder
    /\ socket' = (pc'[c] \notin {"full", "io"})
    /\ UNCHANGED <<owner, waiting>>

\* The future of a send is dropped while it waits for the mutex or sleeps.
DropWaiting(c) ==
    /\ Waiting(c)
    /\ waiting' = SelectSeq(waiting, LAMBDA d : d # c)
    /\ UNCHANGED <<vars, owner, holder, socket>>

DropSleeping(c) ==
    /\ holder = c
    /\ Drop(c)
    /\ holder' = NoOne
    /\ UNCHANGED <<owner, waiting, socket>>

TransportNext ==
    \/ \E c \in Callers :
          \/ ForwarderStep(c)
          \/ Send(c) \/ Lock(c) \/ Try(c)
          \/ DropWaiting(c) \/ DropSleeping(c)
    \/ Rsyslog /\ UNCHANGED <<owner, lockVars>>

TransportSpec == TransportInit /\ [][TransportNext]_transportVars

Running(c) ==
    (owner = "Forwarder" /\ Forward(c) /\ UNCHANGED <<owner, lockVars>>)
    \/ Lock(c) \/ Try(c)

\* Tasks and timers run on.  Nothing is assumed of rsyslog when the attempts
\* are limited; with unlimited ones a running rsyslog keeps reading.  An
\* attempt takes what it finds: nothing makes a caller find room in time.
FairSpec ==
    /\ TransportSpec
    /\ \A c \in Callers : WF_transportVars(Running(c))
    /\ WF_transportVars(max_attempts = 0 /\ Consume /\ UNCHANGED <<owner, lockVars>>)

-----------------------------------------------------------------------------
\* A sender other than c takes a place in the queue.  Behind the mutex the
\* tasks of one client do not compete.
Overtakes(c) ==
    \/ OtherSend
    \/ owner = "Forwarder" /\ \E d \in Callers \ {c} : SendOk(d)

(* With a limit on the attempts every call returns, whatever rsyslog and   *)
(* the other senders do.  With dgram_max_attempts = 0 and an rsyslog that  *)
(* reads, a call can wait for ever only if other senders take the room it  *)
(* makes for ever: a caller that finds it taken each time starves.  A task *)
(* that waits for the mutex of the transport gets its turn, however often  *)
(* the other tasks come back.                                              *)
CallsReturn ==
    \A c \in Callers :
        \/ Waiting(c) \/ pc[c] = "send" ~> ~Waiting(c) /\ pc[c] \in Returned
        \/ max_attempts = 0 /\ []<><<Overtakes(c)>>_vars

=============================================================================
