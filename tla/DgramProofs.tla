----------------------------- MODULE DgramProofs -----------------------------
(***************************************************************************)
(* The datagram retry loop, for any number of callers, any queue           *)
(* and any dgram_max_attempts: no datagram is duplicated, and a call gives *)
(* up after exactly the attempts it is allowed.                            *)
(***************************************************************************)
EXTENDS DgramTransport, TLAPS

(* The inductive invariant.  full lags attempt by one while a call is      *)
(* under way; with no limit both may have stopped at AttemptCap.           *)
DgramInv ==
    /\ max_attempts \in Limits /\ terminate \in BOOLEAN
    /\ queue \in 0..Capacity
    /\ token \in BOOLEAN
    /\ pc \in [Callers -> Returned \cup {"send", "sleep"}]
    /\ attempt \in [Callers -> Nat]
    /\ full \in [Callers -> Nat]
    /\ copies \in [Callers -> Nat]
    /\ AtMostOneCopy
    /\ \A c \in Callers :
          IF max_attempts = 0
          THEN pc[c] # "full"
          ELSE /\ full[c] \leq max_attempts
               /\ pc[c] \in {"send", "sleep"} =>
                     full[c] + 1 = attempt[c] /\ attempt[c] \leq max_attempts
               /\ pc[c] = "full" => full[c] = max_attempts

(* The smaller of two numbers.                                             *)
LEMMA MinOfTwo ==
    ASSUME NEW a \in Int, NEW b \in Int
    PROVE  Min({a, b}) = IF a \leq b THEN a ELSE b
<1> DEFINE m == IF a \leq b THEN a ELSE b
<1>1. m \in {a, b} /\ \A y \in {a, b} : m \leq y
  OBVIOUS
<1>2. \A x \in {a, b} : (\A y \in {a, b} : x \leq y) => x = m
  OBVIOUS
<1> QED  BY <1>1, <1>2 DEF Min

(* Init establishes the invariant.                                         *)
LEMMA DgramInit == Init => DgramInv
<1> SUFFICES ASSUME Init PROVE DgramInv
  OBVIOUS
<1>0. token \in BOOLEAN /\ terminate \in BOOLEAN
  BY Zenon DEF Init
<1>1. max_attempts \in Nat /\ queue \in 0..Capacity
  BY DgramAssumption DEF Init
<1>2. /\ pc \in [Callers -> Returned \cup {"send", "sleep"}]
      /\ attempt \in [Callers -> Nat] /\ full \in [Callers -> Nat]
      /\ copies \in [Callers -> Nat]
      /\ \A c \in Callers : pc[c] = "idle" /\ full[c] = 0 /\ copies[c] = 0
  BY DEF Init, Returned
<1>3. max_attempts \in Limits
  BY DEF Init
<1> QED  BY <1>0, <1>1, <1>2, <1>3 DEF DgramInv, AtMostOneCopy

(* An attempt that meets a full queue is counted, and ends the call when   *)
(* it was the last one allowed.                                            *)
LEMMA SendFullKeepsInv ==
    ASSUME DgramInv, NEW c \in Callers, SendFull(c)
    PROVE  DgramInv'
<1> USE DEF DgramInv, Returned
<1>0. /\ max_attempts \in Nat /\ max_attempts < AttemptCap /\ AttemptCap \in Nat
      /\ attempt[c] \in Nat /\ full[c] \in Nat /\ pc[c] = "send"
  BY DgramAssumption DEF SendFull
<1>1. /\ Min({full[c] + 1, AttemptCap}) =
            IF full[c] + 1 \leq AttemptCap THEN full[c] + 1 ELSE AttemptCap
      /\ Min({attempt[c] + 1, AttemptCap}) =
            IF attempt[c] + 1 \leq AttemptCap THEN attempt[c] + 1 ELSE AttemptCap
  BY <1>0, MinOfTwo
<1> DEFINE f == Min({full[c] + 1, AttemptCap})
           a == Min({attempt[c] + 1, AttemptCap})
<1>2. f \in Nat /\ a \in Nat
  BY <1>0, <1>1
<1>3. max_attempts # 0 => f = full[c] + 1 /\ a = attempt[c] + 1
  BY <1>0, <1>1
<1>a. token' \in BOOLEAN /\ terminate' \in BOOLEAN
  BY Zenon DEF SendFull
<1>4. /\ full' = [full EXCEPT ![c] = f] /\ attempt' = [attempt EXCEPT ![c] = a]
      /\ max_attempts' = max_attempts /\ queue' = queue
      /\ copies' = copies
      /\ pc' = [pc EXCEPT ![c] = IF max_attempts = 0 \/ attempt[c] + 1 \leq max_attempts
                                 THEN "sleep" ELSE "full"]
  BY DEF SendFull, MayRetry
<1> HIDE DEF f, a
<1>5. AtMostOneCopy'
  BY <1>0, <1>4 DEF AtMostOneCopy
<1>6. /\ full' \in [Callers -> Nat] /\ attempt' \in [Callers -> Nat]
      /\ pc' \in [Callers -> Returned \cup {"send", "sleep"}]
  BY <1>2, <1>4
<1>7. \A d \in Callers :
          IF max_attempts' = 0
          THEN pc'[d] # "full"
          ELSE /\ full'[d] \leq max_attempts'
               /\ pc'[d] \in {"send", "sleep"} =>
                     full'[d] + 1 = attempt'[d] /\ attempt'[d] \leq max_attempts'
               /\ pc'[d] = "full" => full'[d] = max_attempts'
  <2> TAKE d \in Callers
  <2>1. CASE d # c
    BY <1>4, <2>1
  <2>2. CASE d = c
    BY <1>0, <1>2, <1>3, <1>4, <2>2
  <2> QED  BY <2>1, <2>2
<1> QED  BY <1>a, <1>4, <1>5, <1>6, <1>7

(* No other step counts an attempt.                                        *)
LEMMA OtherStepsKeepInv ==
    ASSUME DgramInv,
           \/ \E c \in Callers : Call(c) \/ SendOk(c) \/ SendErr(c) \/ Wake(c) \/ Drop(c)
           \/ Rsyslog
           \/ UNCHANGED vars
    PROVE  DgramInv'
<1> USE DEF DgramInv, Returned
<1>0. \A n \in Limits : n \in Nat
  BY DgramAssumption
<1>1. ASSUME NEW c \in Callers, Call(c) PROVE DgramInv'
  BY <1>0, <1>1 DEF Call, AtMostOneCopy
<1>2. ASSUME NEW c \in Callers, SendOk(c) PROVE DgramInv'
  BY <1>2, DgramAssumption DEF SendOk, AtMostOneCopy
<1>3. ASSUME NEW c \in Callers, SendErr(c) PROVE DgramInv'
  BY <1>3 DEF SendErr, AtMostOneCopy
<1>4. ASSUME NEW c \in Callers, Wake(c) PROVE DgramInv'
  BY <1>4 DEF Wake, AtMostOneCopy
<1>5. ASSUME NEW c \in Callers, Drop(c) PROVE DgramInv'
  BY <1>5 DEF Drop, AtMostOneCopy
<1>6. CASE Rsyslog \/ UNCHANGED vars
  BY <1>6, DgramAssumption
     DEF Rsyslog, Consume, RsyslogStop, RsyslogStart, OtherSend, vars, AtMostOneCopy
<1> QED  BY <1>1, <1>2, <1>3, <1>4, <1>5, <1>6

(* forward never duplicates a datagram and returns Ok exactly when one was *)
(* queued; it gives up after exactly dgram_max_attempts full queues and    *)
(* never when the limit is off.                                            *)
THEOREM DgramSafe == Spec => [](AtMostOneCopy /\ ExhaustedExactly)
<1>1. DgramInv /\ [Next]_vars => DgramInv'
  BY SendFullKeepsInv, OtherStepsKeepInv DEF Next, Forward
<1>2. DgramInv => AtMostOneCopy /\ ExhaustedExactly
  BY DEF DgramInv, ExhaustedExactly
<1> QED  BY DgramInit, <1>1, <1>2, PTL DEF Spec

(* Only an exhausted call, under "terminate", cancels the token.           *)
THEOREM DgramToken == Spec => TokenOnlyOnExhaustion
<1>1. DgramInv /\ [Next]_vars =>
        [token' # token => terminate /\ \E c \in Callers :
             pc[c] = "send" /\ pc'[c] = "full"]_vars
  <2> SUFFICES ASSUME DgramInv, Next, token' # token
               PROVE  terminate /\ \E c \in Callers : pc[c] = "send" /\ pc'[c] = "full"
    OBVIOUS
  <2>1. PICK c \in Callers : SendFull(c)
    BY DEF Next, Forward, Call, SendOk, SendErr, Wake, Drop, Rsyslog, Consume,
       RsyslogStop, RsyslogStart, OtherSend
  <2>2. ~MayRetry(attempt[c] + 1)
    BY <2>1 DEF SendFull
  <2>3. pc[c] = "send" /\ pc' = [pc EXCEPT ![c] = "full"] /\ token' = (token \/ terminate)
    BY <2>1, <2>2 DEF SendFull
  <2>4. pc'[c] = "full"
    BY <2>3 DEF DgramInv, Returned
  <2>5. terminate
    <3>1. token \in BOOLEAN /\ terminate \in BOOLEAN
      BY DEF DgramInv
    <3>2. ~terminate => (token \/ terminate) = token
      BY <3>1
    <3> QED  BY <2>3, <3>2
  <2> QED  BY <2>3, <2>4, <2>5
<1>2. DgramInv /\ [Next]_vars => DgramInv'
  BY SendFullKeepsInv, OtherStepsKeepInv DEF Next, Forward
<1> QED  BY DgramInit, <1>1, <1>2, PTL DEF Spec, TokenOnlyOnExhaustion

-----------------------------------------------------------------------------
(* Whoever runs it, daemon or client, with or without the mutex, the loop  *)
(* takes no step of its own making: what transport.rs adds around it, the  *)
(* queue for the mutex and the socket in it, is a stutter of the loop.     *)
THEOREM TransportImplementsLoop == TransportSpec => Spec
<1>1. TransportInit => Init
  BY DEF TransportInit
<1>2. [TransportNext]_transportVars => [Next]_vars
  <2> SUFFICES ASSUME [TransportNext]_transportVars PROVE [Next]_vars
    OBVIOUS
  <2>1. CASE UNCHANGED transportVars
    BY <2>1 DEF transportVars
  <2>2. ASSUME NEW c \in Callers, ForwarderStep(c) \/ Lock(c) \/ Try(c) PROVE Next
    BY <2>2 DEF ForwarderStep, Lock, Try, Next
  <2>3. ASSUME NEW c \in Callers, Send(c) \/ DropWaiting(c) PROVE UNCHANGED vars
    BY <2>3 DEF Send, DropWaiting
  <2>4. ASSUME NEW c \in Callers, DropSleeping(c) PROVE Next
    BY <2>4 DEF DropSleeping, Next
  <2>5. CASE Rsyslog
    BY <2>5 DEF Next
  <2> QED  BY <2>1, <2>2, <2>3, <2>4, <2>5 DEF TransportNext
<1> QED  BY <1>1, <1>2, PTL DEF TransportSpec, Spec

(* So a client's send, too, queues at most one copy, returns Ok exactly    *)
(* when it did, and gives up after exactly max_attempts full queues.       *)
THEOREM TransportSafe == TransportSpec => [](AtMostOneCopy /\ ExhaustedExactly)
  BY TransportImplementsLoop, DgramSafe, PTL

=============================================================================
