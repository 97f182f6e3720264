---------------------------- MODULE DgramForwarder ---------------------------
(***************************************************************************)
(* Forwarder::forward over unix_dgram (forwarder.rs): sessions and workers *)
(* share one unconnected socket and send into rsyslog's bounded datagram   *)
(* queue, retrying with a growing delay while it is full.  rsyslog drains  *)
(* the queue, and may stop and come back; other processes send into it     *)
(* too.  A task calls forward again and again, without bound.  The         *)
(* client's transport runs the same loop (DgramTransport).                 *)
(***************************************************************************)
EXTENDS Naturals, FiniteSets, FiniteSetsExt

CONSTANTS
    Callers,        \* tasks that call forward
    Capacity,       \* datagrams rsyslog's socket holds
    Limits,         \* values of dgram_max_attempts, 0 for unlimited
    AttemptCap,     \* bound: attempts are counted up to here
    Bits            \* bits of a word: 64 in the code, fewer for TLC

ASSUME DgramAssumption ==
    /\ Capacity \in Nat \ {0}
    /\ Limits \subseteq Nat
    /\ AttemptCap \in Nat \ {0, 1} /\ \A n \in Limits : n < AttemptCap
    /\ Bits \in Nat \ {0}

VARIABLES
    max_attempts,   \* dgram_max_attempts, fixed
    terminate,  \* dgram_exhausted = "terminate", fixed
    up,         \* rsyslog's socket accepts datagrams
    queue,      \* datagrams in it
    token,      \* the shutdown token
    pc,         \* where each caller is in forward
    attempt,    \* the attempt about to be made, counted from 1
    delay,      \* microseconds slept before this attempt
    full,       \* attempts of this call that met a full queue (history)
    copies      \* datagrams of this call that were queued (history)

vars == <<max_attempts, terminate, up, queue, token, pc, attempt, delay, full, copies>>

Second == 1000000

Returned == {"idle", "ok", "full", "io", "dropped"}

\* u64::MAX.
MaxWord == 2 ^ Bits - 1

\* 1u64.wrapping_shl(shift) in place of checked_shl.
MutWrappingShl(n) ==
    LET shift == IF n > 2 THEN n - 2 ELSE 0
    IN  Min({100 * 2 ^ (shift % Bits), MaxWord, Second})

\* dgram_attempt_delay, in microseconds: checked_shl fails from a shift of
\* Bits on, and saturating_mul stops at the largest word.
DgramAttemptDelay(n) ==
    LET shift  == IF n > 2 THEN n - 2 ELSE 0
        micros == IF shift < Bits THEN Min({100 * 2 ^ shift, MaxWord}) ELSE MaxWord
    IN  IF micros > Second THEN Second ELSE micros

Init ==
    /\ max_attempts \in Limits
    /\ terminate \in BOOLEAN
    /\ up = TRUE
    /\ queue = 0
    /\ token = FALSE
    /\ pc = [c \in Callers |-> "idle"]
    /\ attempt = [c \in Callers |-> 0]
    /\ delay = [c \in Callers |-> 0]
    /\ full = [c \in Callers |-> 0]
    /\ copies = [c \in Callers |-> 0]

Call(c) ==
    /\ pc[c] \in Returned
    /\ pc' = [pc EXCEPT ![c] = "send"]
    /\ attempt' = [attempt EXCEPT ![c] = 1]
    /\ delay' = [delay EXCEPT ![c] = 0]
    /\ full' = [full EXCEPT ![c] = 0]
    /\ copies' = [copies EXCEPT ![c] = 0]
    /\ UNCHANGED <<max_attempts, terminate, up, queue, token>>

MutSendOk(c) ==
    /\ pc[c] = "send"
    /\ up /\ queue < Capacity
    /\ queue' = queue + 1
    /\ copies' = [copies EXCEPT ![c] = @ + 1]
    /\ pc' = [pc EXCEPT ![c] = "sleep"]
    /\ UNCHANGED <<max_attempts, terminate, up, token, attempt, delay, full>>

SendOk(c) ==
    /\ pc[c] = "send"
    /\ up /\ queue < Capacity
    /\ queue' = queue + 1
    /\ copies' = [copies EXCEPT ![c] = @ + 1]
    /\ pc' = [pc EXCEPT ![c] = "ok"]
    /\ UNCHANGED <<max_attempts, terminate, up, token, attempt, delay, full>>

MutOffByOne(n) == max_attempts = 0 \/ n < max_attempts

\* The next attempt is allowed when the limit is off or not yet passed.
MayRetry(n) == max_attempts = 0 \/ n \leq max_attempts

\* is_buffer_full: the attempt counter advances, and either the caller
\* sleeps or the attempts are exhausted.
SendFull(c) ==
    /\ pc[c] = "send"
    /\ up /\ queue = Capacity
    /\ full' = [full EXCEPT ![c] = Min({@ + 1, AttemptCap})]
    /\ attempt' = [attempt EXCEPT ![c] = Min({@ + 1, AttemptCap})]
    /\ IF MayRetry(attempt[c] + 1)
       THEN /\ pc' = [pc EXCEPT ![c] = "sleep"]
            /\ UNCHANGED token
       ELSE /\ pc' = [pc EXCEPT ![c] = "full"]
            /\ token' = (token \/ terminate)
    /\ UNCHANGED <<max_attempts, terminate, up, queue, delay, copies>>

MutSendErr(c) ==
    /\ pc[c] = "send"
    /\ pc' = [pc EXCEPT ![c] = "io"]
    /\ token' = (token \/ terminate)
    /\ UNCHANGED <<max_attempts, terminate, up, queue, attempt, delay, full, copies>>

\* Any other error (nobody is bound to the path, the datagram is too large)
\* is returned at once.
SendErr(c) ==
    /\ pc[c] = "send"
    /\ pc' = [pc EXCEPT ![c] = "io"]
    /\ UNCHANGED <<max_attempts, terminate, up, queue, token, attempt, delay, full, copies>>

Wake(c) ==
    /\ pc[c] = "sleep"
    /\ pc' = [pc EXCEPT ![c] = "send"]
    /\ delay' = [delay EXCEPT ![c] = DgramAttemptDelay(attempt[c])]
    /\ UNCHANGED <<max_attempts, terminate, up, queue, token, attempt, full, copies>>

\* The caller drops the call while it sleeps, the only place it awaits.
\* Tasks of the daemon never do.
Drop(c) ==
    /\ pc[c] = "sleep"
    /\ pc' = [pc EXCEPT ![c] = "dropped"]
    /\ UNCHANGED <<max_attempts, terminate, up, queue, token, attempt, delay, full, copies>>

Consume ==
    /\ up /\ queue > 0
    /\ queue' = queue - 1
    /\ UNCHANGED <<max_attempts, terminate, up, token, pc, attempt, delay, full, copies>>

RsyslogStop ==
    /\ up
    /\ up' = FALSE
    /\ queue' = 0
    /\ UNCHANGED <<max_attempts, terminate, token, pc, attempt, delay, full, copies>>

RsyslogStart ==
    /\ ~up
    /\ up' = TRUE
    /\ UNCHANGED <<max_attempts, terminate, queue, token, pc, attempt, delay, full, copies>>

\* Another process takes a place in the queue.
OtherSend ==
    /\ up /\ queue < Capacity
    /\ queue' = queue + 1
    /\ UNCHANGED <<max_attempts, terminate, up, token, pc, attempt, delay, full, copies>>

Rsyslog == Consume \/ RsyslogStop \/ RsyslogStart \/ OtherSend

Forward(c) == SendOk(c) \/ SendFull(c) \/ SendErr(c) \/ Wake(c)

Next ==
    \/ \E c \in Callers : Call(c) \/ Forward(c) \/ Drop(c)
    \/ Rsyslog

Spec == Init /\ [][Next]_vars

-----------------------------------------------------------------------------
(* forward returns Ok exactly when one copy of the message is in rsyslog's *)
(* queue: a retry never duplicates a datagram, and an error means that     *)
(* none was sent.                                                          *)
AtMostOneCopy ==
    \A c \in Callers : copies[c] = (IF pc[c] = "ok" THEN 1 ELSE 0)

(* A call gives up on a full queue only after exactly max_attempts tries   *)
(* that all met it full; with max_attempts = 0 it never does.              *)
ExhaustedExactly ==
    \A c \in Callers :
        /\ pc[c] = "full" => max_attempts # 0 /\ full[c] = max_attempts
        /\ max_attempts # 0 => full[c] \leq max_attempts

(* The daemon is told to shut down only by an exhausted call, under        *)
(* "terminate", never by an error that is not a full buffer.               *)
TokenOnlyOnExhaustion ==
    [][token' # token => terminate /\ \E c \in Callers :
           pc[c] = "send" /\ pc'[c] = "full"]_vars

(* Within one call the delays never shrink, however many attempts it      *)
(* makes: not where the shift leaves the word, not where the product does. *)
(* None exceeds a second, and there is one before every attempt but the    *)
(* first.                                                                  *)
BackoffGrows ==
    [][\A c \in Callers :
          \/ pc[c] \in Returned /\ pc'[c] = "send"
          \/ /\ delay[c] \leq delay'[c] /\ delay'[c] \leq Second
             /\ pc'[c] = "send" /\ attempt'[c] > 1 => delay'[c] > 0]_vars

=============================================================================
