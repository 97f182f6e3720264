----------------------------- MODULE StreamConn ------------------------------
(***************************************************************************)
(* A connection slot behind a mutex, as UnixTransport (transport.rs) and   *)
(* the stream side of Forwarder (forwarder.rs) keep it: connect on first   *)
(* use, write a frame with write_all, forget the connection after an       *)
(* error.  Many tasks share a UnixTransport and may drop a send they       *)
(* wait for, with a timeout say; a clone of the Forwarder belongs to one   *)
(* session or worker, which awaits it to the end.  The server reads,       *)
(* closes connections, stops and starts.                                   *)
(*                                                                         *)
(* write_all may need several writes for a frame: a frame is Parts pieces. *)
(***************************************************************************)
EXTENDS Naturals, Sequences, Functions

CONSTANTS
    Callers,        \* tasks that send
    NoOne,          \* the mutex is free
    Parts,          \* writes per frame
    Capacity,       \* pieces the socket holds unread
    MaxCalls,       \* bound: calls per task
    MaxConns        \* bound: connections made

ASSUME ConnAssumption ==
    /\ NoOne \notin Callers
    /\ Parts \in Nat \ {0} /\ Capacity \in Nat \ {0}
    /\ MaxCalls \in Nat /\ MaxConns \in Nat

VARIABLES
    owner,      \* "UnixTransport" or "Forwarder", fixed
    up,         \* the server listens
    conns,      \* pieces written to each connection made so far, in order
    open,       \* connections the server holds open
    unread,     \* pieces of each connection not yet read
    slot,       \* the connection in the mutex, 0 for None
    holder,     \* the task that holds the mutex
    waiting,    \* the tasks that wait for it, first come first served
    pc,         \* where each task is in send
    written,    \* pieces of its frame each task has written
    calls,      \* calls each task has made
    failed,     \* connections a write has failed on (history)
    torn        \* connections a send was dropped on in mid-frame (history)

serverVars == <<up, open, unread>>
vars == <<owner, up, conns, open, unread, slot, holder, waiting, pc, written,
          calls, failed, torn>>

Returned == {"idle", "ok", "io", "too_large", "dropped"}

Init ==
    /\ owner \in {"UnixTransport", "Forwarder"}
    /\ up = TRUE
    /\ conns = <<>>
    /\ open = {}
    /\ unread = <<>>
    /\ slot = 0
    /\ holder = NoOne
    /\ waiting = <<>>
    /\ pc = [c \in Callers |-> "idle"]
    /\ written = [c \in Callers |-> 0]
    /\ calls = [c \in Callers |-> 0]
    /\ failed = {}
    /\ torn = {}

-----------------------------------------------------------------------------
\* The caller leaves send with this result; a guard it holds is released.
Return(c, result) ==
    /\ pc' = [pc EXCEPT ![c] = result]
    /\ holder' = IF holder = c THEN NoOne ELSE holder

Enter(c) ==
    /\ pc[c] \in Returned
    /\ calls[c] < MaxCalls
    /\ calls' = [calls EXCEPT ![c] = @ + 1]
    /\ written' = [written EXCEPT ![c] = 0]
    /\ UNCHANGED <<owner, serverVars, conns, slot, holder, failed, torn>>

\* UnixTransport::send up to the lock, with a message that fits or does not.
TransportSend(c, fits) ==
    /\ owner = "UnixTransport"
    /\ Enter(c)
    /\ IF fits
       THEN waiting' = Append(waiting, c) /\ pc' = [pc EXCEPT ![c] = "lock"]
       ELSE UNCHANGED waiting /\ pc' = [pc EXCEPT ![c] = "too_large"]

\* Forwarder::forward on a clone: nobody else uses it.
ForwarderSend(c) ==
    /\ owner = "Forwarder"
    /\ \A d \in Callers : pc[d] \in Returned
    /\ Enter(c)
    /\ waiting' = Append(waiting, c)
    /\ pc' = [pc EXCEPT ![c] = "lock"]

MutLock(c) ==
    /\ pc[c] = "lock"
    /\ waiting # <<>> /\ Head(waiting) = c
    /\ holder' = c
    /\ waiting' = Tail(waiting)
    /\ pc' = [pc EXCEPT ![c] = IF slot = 0 THEN "connect" ELSE "write"]
    /\ UNCHANGED <<owner, serverVars, conns, slot, written, calls, failed, torn>>

Lock(c) ==
    /\ pc[c] = "lock"
    /\ holder = NoOne
    /\ Head(waiting) = c
    /\ holder' = c
    /\ waiting' = Tail(waiting)
    /\ pc' = [pc EXCEPT ![c] = IF slot = 0 THEN "connect" ELSE "write"]
    /\ UNCHANGED <<owner, serverVars, conns, slot, written, calls, failed, torn>>

ConnectOk(c) ==
    /\ pc[c] = "connect"
    /\ up
    /\ Len(conns) < MaxConns
    /\ conns' = Append(conns, <<>>)
    /\ unread' = Append(unread, 0)
    /\ slot' = Len(conns) + 1
    /\ open' = open \cup {Len(conns) + 1}
    /\ pc' = [pc EXCEPT ![c] = "write"]
    /\ UNCHANGED <<owner, up, holder, waiting, written, calls, failed, torn>>

MutConnectErr(c) ==
    /\ pc[c] = "connect"
    /\ pc' = [pc EXCEPT ![c] = "io"]
    /\ UNCHANGED <<owner, serverVars, conns, slot, holder, waiting, written, calls,
                   failed, torn>>

\* connect, into_std, shutdown or from_std fails.
ConnectErr(c) ==
    /\ pc[c] = "connect"
    /\ Return(c, "io")
    /\ UNCHANGED <<owner, serverVars, conns, slot, waiting, written, calls, failed, torn>>

\* One write of write_all; it waits while the socket is full.
Write(c) ==
    /\ pc[c] = "write"
    /\ slot \in open
    /\ unread[slot] < Capacity
    /\ conns' = [conns EXCEPT ![slot] = Append(@, [by |-> c, call |-> calls[c],
                                                   part |-> written[c] + 1])]
    /\ unread' = [unread EXCEPT ![slot] = @ + 1]
    /\ written' = [written EXCEPT ![c] = @ + 1]
    /\ IF written[c] + 1 = Parts THEN Return(c, "ok") ELSE UNCHANGED <<pc, holder>>
    /\ UNCHANGED <<owner, up, open, slot, waiting, calls, failed, torn>>

MutResume(c) ==
    /\ pc[c] = "write"
    /\ slot # 0 /\ slot \notin open
    /\ slot' = 0
    /\ failed' = failed \cup {slot}
    /\ pc' = [pc EXCEPT ![c] = "connect"]
    /\ UNCHANGED <<owner, serverVars, conns, holder, waiting, written, calls, torn>>

MutKeepSlot(c) ==
    /\ pc[c] = "write"
    /\ slot # 0 /\ slot \notin open
    /\ failed' = failed \cup {slot}
    /\ Return(c, "io")
    /\ UNCHANGED <<owner, serverVars, conns, slot, waiting, written, calls, torn>>

\* The peer has closed: the connection is dropped, the message with it.
WriteErr(c) ==
    /\ pc[c] = "write"
    /\ slot # 0 /\ slot \notin open
    /\ slot' = 0
    /\ failed' = failed \cup {slot}
    /\ Return(c, "io")
    /\ UNCHANGED <<owner, serverVars, conns, waiting, written, calls, torn>>

\* The task drops the future of a send it awaits.  The guard is released,
\* the connection stays in the slot as it is.
DropSend(c) ==
    /\ owner = "UnixTransport"
    /\ pc[c] \in {"lock", "connect", "write"}
    /\ Return(c, "dropped")
    /\ waiting' = SelectSeq(waiting, LAMBDA d : d # c)
    /\ torn' = IF pc[c] = "write" /\ written[c] > 0 THEN torn \cup {slot} ELSE torn
    /\ UNCHANGED <<owner, serverVars, conns, slot, written, calls, failed>>

-----------------------------------------------------------------------------
(* The server.                                                             *)

Read(k) ==
    /\ k \in open
    /\ unread[k] > 0
    /\ unread' = [unread EXCEPT ![k] = @ - 1]
    /\ UNCHANGED <<owner, up, conns, open, slot, holder, waiting, pc, written, calls,
                   failed, torn>>

ServerClose(k) ==
    /\ k \in open
    /\ open' = open \ {k}
    /\ UNCHANGED <<owner, up, conns, unread, slot, holder, waiting, pc, written, calls,
                   failed, torn>>

Stop ==
    /\ up
    /\ up' = FALSE
    /\ open' = {}
    /\ UNCHANGED <<owner, conns, unread, slot, holder, waiting, pc, written, calls,
                   failed, torn>>

Start ==
    /\ ~up
    /\ up' = TRUE
    /\ UNCHANGED <<owner, conns, open, unread, slot, holder, waiting, pc, written, calls,
                   failed, torn>>

Progress(c) == Lock(c) \/ ConnectOk(c) \/ ConnectErr(c) \/ Write(c) \/ WriteErr(c)

Next ==
    \/ \E c \in Callers :
          \/ \E fits \in BOOLEAN : TransportSend(c, fits)
          \/ ForwarderSend(c)
          \/ Progress(c)
          \/ DropSend(c)
    \/ \E k \in 1..Len(conns) : Read(k) \/ ServerClose(k)
    \/ Stop
    \/ Start

Spec == Init /\ [][Next]_vars

\* Tasks run on, and the server reads what it keeps open.
FairSpec ==
    /\ Spec
    /\ \A c \in Callers : WF_vars(Progress(c))
    /\ \A k \in 1..MaxConns : WF_vars(Read(k))

-----------------------------------------------------------------------------
(* On a connection no send was dropped on, the pieces of frames follow one *)
(* another as write_all wrote them: two tasks never interleave, and after  *)
(* an error nothing more is written behind an unfinished frame.            *)
FramesWhole ==
    \A k \in 1..Len(conns) \ torn : \A i \in 1..Len(conns[k]) :
        LET p == conns[k][i]
        IN  IF i % Parts = 1 % Parts
            THEN p.part = 1
            ELSE p = [conns[k][i - 1] EXCEPT !.part = @ + 1]

\* Connections on which the n-th frame of c is complete.
Complete(c, n) ==
    {k \in 1..Len(conns) : \A part \in 1..Parts :
        [by |-> c, call |-> n, part |-> part] \in Range(conns[k])}

(* send is at most once: Ok means that the whole frame went into exactly   *)
(* one connection, any other outcome that it went into none.               *)
OkMeansWritten ==
    \A c \in Callers :
        /\ \A n \in 1..calls[c] : \A k, l \in Complete(c, n) : k = l
        /\ pc[c] = "ok" => Complete(c, calls[c]) # {}
        /\ pc[c] \in {"io", "too_large", "dropped"} => Complete(c, calls[c]) = {}

(* The connection is "re-established automatically after any I/O error"    *)
(* (transport.rs): a connection fails one send at most, whoever sends      *)
(* next.  That one send does fail: a connection the peer closed is found   *)
(* out by writing to it.                                                   *)
FailsOnce ==
    [][\A c \in Callers : pc[c] = "write" /\ pc'[c] = "io" => slot \notin failed]_vars

(* Every send returns, as long as the server reads or closes.              *)
SendReturns == \A c \in Callers : pc[c] = "lock" ~> pc[c] \in Returned

=============================================================================
