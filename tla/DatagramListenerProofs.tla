------------------------ MODULE DatagramListenerProofs -------------------------
(***************************************************************************)
(* Safety of the datagram listener for every pool of workers, channel      *)
(* capacity and number of datagrams: no datagram is duplicated or          *)
(* forgotten, the dealing is round-robin and keeps the order of arrival,   *)
(* and an undisturbed drain is complete.                                   *)
(***************************************************************************)
EXTENDS DatagramListener, SequenceTheorems, TLAPS

\* Datagrams that have left the batch.
Dispatched == sent - Len(kernel) - Len(batch)

Types ==
    /\ rpc \in {"poll", "readable", "receive", "dispatch", "blocked", "join", "done"}
    /\ sent \in Nat /\ Dispatched \in Nat
    /\ kernel \in Seq(Nat) /\ batch \in Seq(Nat)
    /\ worker_idx \in Workers
    /\ chan \in [Workers -> Seq(Nat)] /\ hand \in [Workers -> SUBSET Nat]
    /\ alive \subseteq Workers /\ panicked \subseteq Workers
    /\ done \subseteq Nat /\ lost \subseteq Nat
    /\ forced \in BOOLEAN

\* Batch and kernel queue continue the numbers of the dispatched datagrams.
Queued ==
    /\ \A i \in 1..Len(batch) : batch[i] = Dispatched + i
    /\ \A i \in 1..Len(kernel) : kernel[i] = Dispatched + Len(batch) + i
    /\ rpc \in {"poll", "readable", "join", "done"} => batch = <<>>

\* What was dispatched is with a worker, processed or lost.
Settled ==
    /\ \A d \in Nat : d \in 1..Dispatched <=>
                         d \in done \/ d \in lost \/ \E w \in Workers : d \in Held(w)
    /\ done \cap lost = {}
    /\ \A w \in Workers : Held(w) \cap (done \cup lost) = {}

\* The share of each worker; no worker is skipped before the loop ends.
Shared ==
    /\ rpc \notin {"join", "done"} => worker_idx = Dispatched % NumWorkers
    /\ \A w \in Workers :
          /\ \A d \in Held(w) : (d - 1) % NumWorkers = w
          /\ \A d, e \in hand[w] : d = e
          /\ \A d \in hand[w], e \in Range(chan[w]) : d < e
          /\ Increasing(chan[w])

\* A worker ends by a panic, by the timeout, or with nothing left to do.
Ended ==
    /\ \A w \in Workers \ alive : Held(w) = {}
    /\ rpc \notin {"join", "done"} => alive = Workers \ panicked
    /\ rpc = "done" => alive = {}
    /\ lost # {} => forced \/ panicked # {}

DealInv == Types /\ Queued /\ Settled /\ Shared /\ Ended

-----------------------------------------------------------------------------
(* A remainder is determined by the quotient it belongs to.                *)
LEMMA RemainderUnique ==
    ASSUME NEW N \in Nat \ {0}, NEW q \in Int, NEW r \in Int, 0 \leq r, r < N
    PROVE  (N * q + r) % N = r
<1> DEFINE x == N * q + r
           p == x \div N
           s == x % N
<1>1. x \in Int /\ p \in Int /\ s \in Int /\ x = N * p + s /\ 0 \leq s /\ s < N
  BY SMT
<1>2. N * (q - p) = s - r
  BY <1>1, SMT
<1>3. CASE q - p >= 1
  <2>1. N * (q - p) >= N
    BY <1>1, <1>3, SMT
  <2> QED  BY <1>1, <1>2, <2>1, SMT
<1>4. CASE q - p \leq -1
  <2>1. N * (q - p) \leq -N
    BY <1>1, <1>4, SMT
  <2> QED  BY <1>1, <1>2, <2>1, SMT
<1>5. CASE q - p = 0
  BY <1>1, <1>2, <1>5, SMT
<1> QED  BY <1>1, <1>3, <1>4, <1>5, SMT

(* The worker after the one of datagram n + 1 is that of datagram n + 2.   *)
LEMMA NextWorker ==
    ASSUME NEW N \in Nat \ {0}, NEW n \in Nat
    PROVE  n % N \in 0..(N - 1) /\ ((n % N) + 1) % N = (n + 1) % N
<1> DEFINE q == n \div N
           r == n % N
<1>1. q \in Int /\ r \in Int /\ n = N * q + r /\ 0 \leq r /\ r < N /\ r + 1 \in Int /\ 0 \leq r + 1
  BY SMT
<1> HIDE DEF q, r
<1>2. CASE r + 1 < N
  <2>1. (N * q + (r + 1)) % N = r + 1
    BY <1>1, <1>2, RemainderUnique
  <2>2. (r + 1) % N = r + 1
    BY <1>1, <1>2, SMT
  <2> QED  BY <1>1, <2>1, <2>2, SMT
<1>3. CASE r + 1 = N
  <2>1. (N * (q + 1) + 0) % N = 0
    BY <1>1, RemainderUnique
  <2>2. (N * 1 + 0) % N = 0
    BY RemainderUnique
  <2>3. N * (q + 1) + 0 = n + 1 /\ N * 1 + 0 = r + 1
    BY <1>1, <1>3, SMT
  <2> QED  BY <1>1, <2>1, <2>2, <2>3, SMT
<1> QED  BY <1>1, <1>2, <1>3, SMT DEF r

(* Appending adds the new element to those of a sequence, and keeps the    *)
(* order if the element is beyond them.                                    *)
LEMMA AppendElements ==
    ASSUME NEW s \in Seq(Nat), NEW d \in Nat
    PROVE  /\ Append(s, d) \in Seq(Nat) /\ Append(s, d) # <<>>
           /\ Len(Append(s, d)) = Len(s) + 1
           /\ \A i \in 1..Len(s) : Append(s, d)[i] = s[i]
           /\ Append(s, d)[Len(s) + 1] = d
           /\ Range(Append(s, d)) = Range(s) \cup {d}
           /\ Increasing(s) /\ (\A e \in Range(s) : e < d) => Increasing(Append(s, d))
BY DEF Range, Increasing

(* Head and tail share out the elements of a sequence; in an increasing    *)
(* one the head is before the others.                                      *)
LEMMA TailElements ==
    ASSUME NEW s \in Seq(Nat), s # <<>>
    PROVE  /\ Head(s) \in Nat /\ Head(s) = s[1] /\ Tail(s) \in Seq(Nat)
           /\ Len(Tail(s)) = Len(s) - 1 /\ Len(s) >= 1
           /\ \A i \in 1..Len(Tail(s)) : Tail(s)[i] = s[i + 1]
           /\ Range(s) = {Head(s)} \cup Range(Tail(s))
           /\ Increasing(s) => Increasing(Tail(s)) /\ \A e \in Range(Tail(s)) : Head(s) < e
<1>1. /\ Head(s) \in Nat /\ Head(s) = s[1] /\ Tail(s) \in Seq(Nat)
      /\ Len(Tail(s)) = Len(s) - 1 /\ Len(s) >= 1
      /\ \A i \in 1..Len(Tail(s)) : Tail(s)[i] = s[i + 1]
  BY HeadTailProperties
<1>2. Range(s) = {Head(s)} \cup Range(Tail(s))
  <2>1. ASSUME NEW i \in 1..Len(s) PROVE s[i] = Head(s) \/ \E j \in 1..Len(Tail(s)) : s[i] = Tail(s)[j]
    <3>1. CASE i = 1
      BY <1>1, <3>1
    <3>2. CASE i > 1
      <4>1. i - 1 \in 1..Len(Tail(s)) /\ Tail(s)[i - 1] = s[i]
        BY <1>1, <3>2
      <4> QED  BY <4>1
    <3> QED  BY <3>1, <3>2
  <2>2. ASSUME NEW j \in 1..Len(Tail(s)) PROVE j + 1 \in 1..Len(s) /\ Tail(s)[j] = s[j + 1]
    BY <1>1
  <2>3. DOMAIN s = 1..Len(s) /\ DOMAIN Tail(s) = 1..Len(Tail(s)) /\ 1 \in 1..Len(s)
    BY <1>1
  <2>4. Range(s) = {s[i] : i \in 1..Len(s)} /\ Range(Tail(s)) = {Tail(s)[j] : j \in 1..Len(Tail(s))}
    BY <2>3 DEF Range
  <2>5. ASSUME NEW e \in Range(s) PROVE e \in {Head(s)} \cup Range(Tail(s))
    BY Zenon, <2>1, <2>4
  <2>6. ASSUME NEW e \in {Head(s)} \cup Range(Tail(s)) PROVE e \in Range(s)
    BY <1>1, <2>2, <2>3, <2>4
  <2> QED  BY <2>5, <2>6
<1>3. ASSUME Increasing(s)
      PROVE  Increasing(Tail(s)) /\ \A e \in Range(Tail(s)) : Head(s) < e
  <2>1. DOMAIN s = 1..Len(s) /\ DOMAIN Tail(s) = 1..Len(Tail(s)) /\ 1 \in 1..Len(s)
    BY <1>1
  <2>2. Increasing(Tail(s))
    <3>1. ASSUME NEW i \in 1..Len(Tail(s)), NEW j \in 1..Len(Tail(s)), i < j
          PROVE  Tail(s)[i] < Tail(s)[j]
      <4>1. /\ i + 1 \in 1..Len(s) /\ Tail(s)[i] = s[i + 1]
            /\ j + 1 \in 1..Len(s) /\ Tail(s)[j] = s[j + 1]
            /\ i + 1 < j + 1
        BY <1>1, <3>1
      <4> QED  BY <1>3, <2>1, <4>1 DEF Increasing
    <3> QED  BY <2>1, <3>1 DEF Increasing
  <2>3. ASSUME NEW e \in Range(Tail(s)) PROVE Head(s) < e
    <3>1. PICK j \in 1..Len(Tail(s)) : e = Tail(s)[j]
      BY <2>1 DEF Range
    <3>2. j + 1 \in 1..Len(s) /\ e = s[j + 1] /\ 1 < j + 1
      BY <1>1, <3>1
    <3> QED  BY <1>1, <1>3, <2>1, <3>2 DEF Increasing
  <2> QED  BY <2>2, <2>3
<1> QED  BY <1>1, <1>2, <1>3

(* The empty sequence has no elements.                                     *)
LEMMA EmptyElements == Range(<<>>) = {} /\ Increasing(<<>>) /\ <<>> \in Seq(Nat) /\ Len(<<>>) = 0
BY DEF Range, Increasing

(* A sequence of consecutive numbers holds an interval.                    *)
LEMMA Consecutive ==
    ASSUME NEW s \in Seq(Nat), NEW k \in Nat, \A i \in 1..Len(s) : s[i] = k + i
    PROVE  Range(s) = (k + 1)..(k + Len(s))
<1>1. DOMAIN s = 1..Len(s) /\ Len(s) \in Nat
  OBVIOUS
<1>2. ASSUME NEW e \in Range(s) PROVE e \in (k + 1)..(k + Len(s))
  BY <1>1, <1>2 DEF Range
<1>3. ASSUME NEW e \in (k + 1)..(k + Len(s)) PROVE e \in Range(s)
  <2>1. e - k \in 1..Len(s) /\ s[e - k] = e
    BY <1>1, <1>3
  <2> QED  BY Zenon, <1>1, <2>1 DEF Range
<1> QED  BY Zenon, <1>2, <1>3

-----------------------------------------------------------------------------
(* The inductive invariant holds initially.                                *)
LEMMA DealInit == Init => DealInv
<1> SUFFICES ASSUME Init PROVE DealInv
  OBVIOUS
<1>0. Dispatched = 0 /\ worker_idx = 0 /\ worker_idx \in Workers
  BY DatagramAssumption, EmptyElements DEF Init, Dispatched, Workers
<1>1. Types /\ Dispatched = 0 /\ worker_idx = 0
  BY <1>0, EmptyElements DEF Init, Types
<1>2. Queued
  BY EmptyElements DEF Init, Queued
<1>3. \A w \in Workers : Held(w) = {}
  BY EmptyElements DEF Init, Held
<1>4. Settled
  BY <1>1, <1>3 DEF Init, Settled
<1>5. 0 % NumWorkers = 0
  BY DatagramAssumption, SMT
<1>6. Shared
  BY <1>1, <1>3, <1>5, EmptyElements DEF Init, Shared
<1>7. Ended
  BY <1>3 DEF Init, Ended
<1> QED  BY <1>1, <1>2, <1>4, <1>6, <1>7 DEF DealInv

(* Steps of the loop that move no datagram keep the invariant.             *)
LEMMA DealPasses ==
    ASSUME DealInv,
           \/ Cancel \/ PollShutdown \/ Readable \/ ReceiveEnd \/ Block
           \/ BatchDone \/ Joined \/ UNCHANGED vars
    PROVE  DealInv'
<1>1. /\ UNCHANGED <<kernel, batch, worker_idx, chan, hand, alive, panicked, sent, done, lost, forced>>
      /\ rpc' \in {"poll", "readable", "receive", "dispatch", "blocked", "join", "done"}
      /\ rpc' \in {"poll", "readable", "join", "done"} => batch = <<>>
      /\ rpc \in {"join", "done"} => rpc' \in {"join", "done"}
      /\ rpc' = "done" => alive = {}
  BY DEF DealInv, Types, Queued, Ended, Cancel, PollShutdown, Readable, ReceiveEnd, Block,
         BatchDone, Joined, workVars, vars
<1>2. Dispatched' = Dispatched /\ \A w \in Workers : Held(w)' = Held(w)
  BY <1>1 DEF Dispatched, Held
<1>3. Types'
  BY <1>1, <1>2 DEF DealInv, Types
<1>4. Queued'
  BY <1>1, <1>2 DEF DealInv, Queued
<1>5. Settled'
  BY <1>1, <1>2 DEF DealInv, Settled
<1>6. Shared'
  BY <1>1, <1>2 DEF DealInv, Shared
<1>7. Ended'
  BY <1>1, <1>2 DEF DealInv, Ended
<1> QED  BY <1>3, <1>4, <1>5, <1>6, <1>7 DEF DealInv

(* A datagram that arrives, or moves from the kernel queue to the batch,   *)
(* keeps the numbering of the queued datagrams.                            *)
LEMMA DealReceives ==
    ASSUME DealInv, Arrive \/ Receive
    PROVE  DealInv'
<1>1. /\ UNCHANGED <<rpc, worker_idx, chan, hand, alive, panicked, done, lost, forced>>
      /\ rpc \in {"poll", "readable", "join", "done"} => batch' = batch
  BY DEF Arrive, Receive, loopVars, workVars
<1>2. \A w \in Workers : Held(w)' = Held(w)
  BY <1>1 DEF Held
<1>3. kernel \in Seq(Nat) /\ batch \in Seq(Nat) /\ sent \in Nat /\ Dispatched \in Nat
      /\ Dispatched = sent - Len(kernel) - Len(batch)
  BY DEF DealInv, Types, Dispatched
<1>4. /\ kernel' \in Seq(Nat) /\ batch' \in Seq(Nat) /\ sent' \in Nat /\ Dispatched' = Dispatched
      /\ \A i \in 1..Len(batch') : batch'[i] = Dispatched + i
      /\ \A i \in 1..Len(kernel') : kernel'[i] = Dispatched + Len(batch') + i
  <2>0. /\ \A i \in 1..Len(batch) : batch[i] = Dispatched + i
        /\ \A i \in 1..Len(kernel) : kernel[i] = Dispatched + Len(batch) + i
    BY DEF DealInv, Queued
  <2>1. CASE Arrive
    <3>1. batch' = batch /\ sent' = sent + 1 /\ kernel' = Append(kernel, sent + 1) /\ sent + 1 \in Nat
      BY <1>3, <2>1 DEF Arrive, loopVars
    <3>2. /\ kernel' \in Seq(Nat) /\ Len(kernel') = Len(kernel) + 1
          /\ \A i \in 1..Len(kernel) : kernel'[i] = kernel[i]
          /\ kernel'[Len(kernel) + 1] = sent + 1
      BY <1>3, <3>1, AppendElements
    <3>3. Dispatched' = Dispatched
      BY <1>3, <3>1, <3>2 DEF Dispatched
    <3>4. ASSUME NEW i \in 1..Len(kernel') PROVE kernel'[i] = Dispatched + Len(batch') + i
      <4>1. CASE i \in 1..Len(kernel)
        BY <2>0, <3>1, <3>2, <4>1
      <4>2. CASE i = Len(kernel) + 1
        BY <1>3, <3>1, <3>2, <4>2
      <4> QED  BY <1>3, <3>2, <4>1, <4>2
    <3> QED  BY <1>3, <2>0, <3>1, <3>2, <3>3, <3>4
  <2>2. CASE Receive
    <3>1. sent' = sent /\ kernel # <<>> /\ batch' = Append(batch, Head(kernel)) /\ kernel' = Tail(kernel)
      BY <2>2 DEF Receive
    <3>2. /\ Head(kernel) \in Nat /\ Head(kernel) = kernel[1] /\ kernel' \in Seq(Nat)
          /\ Len(kernel') = Len(kernel) - 1 /\ Len(kernel) >= 1
          /\ \A i \in 1..Len(kernel') : kernel'[i] = kernel[i + 1]
      BY <1>3, <3>1, TailElements
    <3>3. /\ batch' \in Seq(Nat) /\ Len(batch') = Len(batch) + 1
          /\ \A i \in 1..Len(batch) : batch'[i] = batch[i]
          /\ batch'[Len(batch) + 1] = kernel[1]
      BY <1>3, <3>1, <3>2, AppendElements
    <3>4. Dispatched' = Dispatched
      BY <1>3, <3>1, <3>2, <3>3 DEF Dispatched
    <3>5. ASSUME NEW i \in 1..Len(batch') PROVE batch'[i] = Dispatched + i
      <4>1. CASE i \in 1..Len(batch)
        BY <2>0, <3>3, <4>1
      <4>2. CASE i = Len(batch) + 1
        <5>1. 1 \in 1..Len(kernel)
          BY <1>3, <3>2
        <5>2. kernel[1] = Dispatched + Len(batch) + 1
          BY <2>0, <5>1
        <5> QED  BY <1>3, <3>3, <4>2, <5>2
      <4> QED  BY <1>3, <3>3, <4>1, <4>2
    <3>6. ASSUME NEW i \in 1..Len(kernel') PROVE kernel'[i] = Dispatched + Len(batch') + i
      <4>0. Len(kernel) \in Nat
        BY <1>3
      <4>1. i + 1 \in 1..Len(kernel) /\ kernel'[i] = kernel[i + 1]
        <5>1. i \in 1..(Len(kernel) - 1)
          BY <3>2
        <5>2. i + 1 \in 1..Len(kernel)
          BY <4>0, <5>1
        <5> QED  BY <3>2, <5>2
      <4>2. kernel[i + 1] = Dispatched + Len(batch) + (i + 1)
        BY <2>0, <4>1
      <4> QED  BY <1>3, <3>3, <4>1, <4>2
    <3> QED  BY <1>3, <3>1, <3>2, <3>3, <3>4, <3>5, <3>6
  <2> QED  BY <2>1, <2>2
<1>5. Types'
  BY <1>1, <1>3, <1>4 DEF DealInv, Types
<1>6. Queued'
  BY <1>1, <1>4 DEF DealInv, Queued, Receive
<1>7. Settled' /\ Shared' /\ Ended'
  BY <1>1, <1>2, <1>4 DEF DealInv, Settled, Shared, Ended
<1> QED  BY <1>5, <1>6, <1>7 DEF DealInv

(* Dispatch hands the lowest queued datagram to the worker whose turn it   *)
(* is, and moves the turn on.                                              *)
LEMMA DealDispatch ==
    ASSUME DealInv, Dispatch
    PROVE  DealInv'
<1> DEFINE d == Head(batch)
<1>0. PICK v \in Workers : v = worker_idx
  BY DEF DealInv, Types
<1>1. /\ kernel \in Seq(Nat) /\ batch \in Seq(Nat) /\ sent \in Nat /\ Dispatched \in Nat
      /\ Dispatched = sent - Len(kernel) - Len(batch)
      /\ v \in Workers /\ chan \in [Workers -> Seq(Nat)] /\ chan[v] \in Seq(Nat)
  BY <1>0 DEF DealInv, Types, Dispatched
<1>2. /\ batch # <<>> /\ v \in alive /\ rpc \notin {"join", "done"} /\ rpc' = "dispatch"
      /\ chan' = [chan EXCEPT ![v] = Append(chan[v], d)] /\ batch' = Tail(batch)
      /\ worker_idx' = (v + 1) % NumWorkers
      /\ UNCHANGED <<kernel, hand, alive, panicked, sent, done, lost, forced>>
  BY <1>0 DEF Dispatch, Advance
<1>3. /\ d \in Nat /\ d = batch[1] /\ batch' \in Seq(Nat)
      /\ Len(batch') = Len(batch) - 1 /\ Len(batch) >= 1
      /\ \A i \in 1..Len(batch') : batch'[i] = batch[i + 1]
  BY <1>1, <1>2, TailElements
<1>4. d = Dispatched + 1 /\ Dispatched' = Dispatched + 1
  <2>1. 1 \in 1..Len(batch)
    BY <1>1, <1>3
  <2>2. batch[1] = Dispatched + 1
    BY <2>1 DEF DealInv, Queued
  <2> QED  BY <1>1, <1>2, <1>3, <2>2 DEF Dispatched
<1> HIDE DEF d
<1>5. /\ chan'[v] = Append(chan[v], d) /\ chan' \in [Workers -> Seq(Nat)]
      /\ \A w \in Workers : w # v => chan'[w] = chan[w]
  BY <1>1, <1>2, <1>3, AppendElements
<1>6. Range(chan'[v]) = Range(chan[v]) \cup {d}
  BY <1>1, <1>3, <1>5, AppendElements
<1>7. Held(v)' = Held(v) \cup {d} /\ \A w \in Workers : w # v => Held(w)' = Held(w)
  BY <1>1, <1>2, <1>5, <1>6 DEF Held
<1>8. \A w \in Workers : \A e \in Held(w) : e \in Nat /\ e \in 1..Dispatched
  BY DEF DealInv, Types, Settled, Held, Range
<1>9. worker_idx' \in Workers /\ worker_idx' = Dispatched' % NumWorkers
      /\ (d - 1) % NumWorkers = v
  <2>1. v = Dispatched % NumWorkers
    BY <1>0, <1>2 DEF DealInv, Shared
  <2>2. (v + 1) % NumWorkers = (Dispatched + 1) % NumWorkers
        /\ (Dispatched + 1) % NumWorkers \in 0..(NumWorkers - 1)
    <3>1. ((Dispatched % NumWorkers) + 1) % NumWorkers = (Dispatched + 1) % NumWorkers
      BY Zenon, <1>1, DatagramAssumption, NextWorker
    <3>2. Dispatched + 1 \in Nat
      BY <1>1
    <3>3. (Dispatched + 1) % NumWorkers \in 0..(NumWorkers - 1)
      BY Zenon, <3>2, DatagramAssumption, NextWorker
    <3> QED  BY <2>1, <3>1, <3>3
  <2>3. d - 1 = Dispatched
    BY <1>1, <1>4
  <2> QED  BY <1>2, <1>4, <2>1, <2>2, <2>3 DEF Workers
<1>10. Types'
  BY Zenon, <1>1, <1>2, <1>3, <1>4, <1>5, <1>9 DEF DealInv, Types
<1>11. Queued'
  <2>1. ASSUME NEW i \in 1..Len(batch') PROVE batch'[i] = Dispatched' + i
    <3>1. i + 1 \in 1..Len(batch) /\ batch'[i] = batch[i + 1]
      BY <1>1, <1>3
    <3>2. batch[i + 1] = Dispatched + (i + 1)
      BY <3>1 DEF DealInv, Queued
    <3> QED  BY <1>1, <1>4, <3>1, <3>2
  <2>2. ASSUME NEW i \in 1..Len(kernel) PROVE kernel[i] = Dispatched' + Len(batch') + i
    <3>1. kernel[i] = Dispatched + Len(batch) + i
      BY DEF DealInv, Queued
    <3> QED  BY <1>1, <1>3, <1>4, <3>1
  <2> QED  BY <1>2, <2>1, <2>2 DEF Queued
<1>12. Settled'
  <2>1. ASSUME NEW e \in Nat PROVE e \in 1..Dispatched' <=> e \in 1..Dispatched \/ e = d
    <3>1. ASSUME NEW k \in Nat PROVE e \in 1..(k + 1) <=> e \in 1..k \/ e = k + 1
      OBVIOUS
    <3> QED  BY Zenon, <1>1, <1>4, <3>1
  <2>2. \A e \in Nat : (\E w \in Workers : e \in Held(w)') <=> (\E w \in Workers : e \in Held(w)) \/ e = d
    BY Zenon, <1>1, <1>7
  <2>3. d \notin 1..Dispatched
    BY <1>1, <1>4
  <2>4. d \notin done /\ d \notin lost
    BY <1>3, <2>3 DEF DealInv, Settled
  <2>5. \A w \in Workers : Held(w)' \cap (done \cup lost) = {}
    BY <1>7, <2>4 DEF DealInv, Settled
  <2>6. ASSUME NEW e \in Nat
        PROVE  e \in 1..Dispatched' <=> e \in done \/ e \in lost \/ \E w \in Workers : e \in Held(w)'
    BY <2>1, <2>2 DEF DealInv, Settled
  <2> QED  BY <1>2, <2>5, <2>6 DEF DealInv, Settled
<1>13. Shared'
  <2>1. \A w \in Workers : \A e \in Held(w)' : (e - 1) % NumWorkers = w
    BY <1>1, <1>7, <1>9 DEF DealInv, Shared
  <2>2. \A e \in Held(v) : e < d
    BY <1>1, <1>4, <1>8
  <2>3. Increasing(chan'[v])
    <3>1. Increasing(chan[v]) /\ \A e \in Range(chan[v]) : e < d
      BY <1>1, <2>2 DEF DealInv, Shared, Held
    <3> QED  BY <1>1, <1>3, <1>5, <3>1, AppendElements
  <2>4. \A e \in hand[v], f \in Range(chan'[v]) : e < f
    BY <1>1, <1>6, <2>2 DEF DealInv, Shared, Held
  <2> QED  BY <1>2, <1>5, <1>9, <2>1, <2>3, <2>4 DEF DealInv, Shared
<1>14. Ended'
  BY Zenon, <1>1, <1>2, <1>7 DEF DealInv, Ended
<1> QED  BY <1>10, <1>11, <1>12, <1>13, <1>14 DEF DealInv

(* Two workers hold different datagrams, and what a worker is processing   *)
(* has left its channel.                                                   *)
LEMMA HeldApart ==
    ASSUME DealInv
    PROVE  /\ \A w \in Workers : Held(w) \subseteq Nat /\ hand[w] \cap Range(chan[w]) = {}
           /\ \A v, w \in Workers : v # w => Held(v) \cap Held(w) = {}
<1>1. \A w \in Workers : Held(w) \subseteq Nat
  BY DEF DealInv, Types, Held, Range
<1>2. \A w \in Workers : hand[w] \cap Range(chan[w]) = {}
  <2> SUFFICES ASSUME NEW w \in Workers, NEW d \in hand[w], d \in Range(chan[w]) PROVE FALSE
    OBVIOUS
  <2>1. d \in Nat
    BY <1>1 DEF Held
  <2>2. d < d
    BY DEF DealInv, Shared
  <2> QED  BY <2>1, <2>2
<1>3. \A v, w \in Workers : v # w => Held(v) \cap Held(w) = {}
  BY DEF DealInv, Shared
<1> QED  BY <1>1, <1>2, <1>3

(* When the next worker's receiver is gone, the rest of the batch is lost. *)
LEMMA DealWorkerGone ==
    ASSUME DealInv, WorkerGone
    PROVE  DealInv'
<1>1. /\ kernel \in Seq(Nat) /\ batch \in Seq(Nat) /\ sent \in Nat /\ Dispatched \in Nat
      /\ Dispatched = sent - Len(kernel) - Len(batch) /\ worker_idx \in Workers
  BY DEF DealInv, Types, Dispatched
<1>2. /\ lost' = lost \cup Range(batch) /\ batch' = <<>> /\ rpc' = "join" /\ batch # <<>>
      /\ worker_idx \notin alive /\ rpc \notin {"join", "done"}
      /\ UNCHANGED <<kernel, worker_idx, chan, hand, alive, panicked, sent, done, forced>>
  BY DEF WorkerGone
<1>3. Len(batch') = 0 /\ batch' \in Seq(Nat) /\ Len(batch) \in Nat /\ Len(kernel) \in Nat
  BY <1>1, <1>2, EmptyElements
<1>4. Dispatched' = Dispatched + Len(batch)
  BY <1>1, <1>2, <1>3 DEF Dispatched
<1>5. Range(batch) = (Dispatched + 1)..(Dispatched + Len(batch))
  <2>1. \A i \in 1..Len(batch) : batch[i] = Dispatched + i
    BY DEF DealInv, Queued
  <2> QED  BY Zenon, <1>1, <2>1, Consecutive
<1>6. \A w \in Workers : Held(w)' = Held(w)
  BY <1>2 DEF Held
<1>7. \A e \in Nat : e \in 1..Dispatched' <=> e \in 1..Dispatched \/ e \in Range(batch)
  <2>1. ASSUME NEW k \in Nat, NEW l \in Nat, NEW e \in Nat
        PROVE  e \in 1..(k + l) <=> e \in 1..k \/ e \in (k + 1)..(k + l)
    OBVIOUS
  <2> QED  BY <1>1, <1>3, <1>4, <1>5, <2>1
<1>8. \A e \in Range(batch) : e \in Nat /\ e \notin 1..Dispatched
  BY <1>1, <1>3, <1>5
<1>9. Types'
  <2>1. Dispatched' \in Nat
    BY <1>1, <1>3, <1>4
  <2> QED  BY Zenon, <1>2, <1>3, <1>8, <2>1 DEF DealInv, Types
<1>10. Queued'
  <2>1. ASSUME NEW i \in 1..Len(kernel) PROVE kernel[i] = Dispatched' + 0 + i
    <3>1. kernel[i] = Dispatched + Len(batch) + i
      BY DEF DealInv, Queued
    <3> QED  BY <1>1, <1>3, <1>4, <3>1
  <2>2. 1..0 = {}
    OBVIOUS
  <2> QED  BY <1>2, <1>3, <2>1, <2>2 DEF Queued
<1>11. Settled'
  <2>1. \A e \in Range(batch) : e \notin done /\ e \notin lost /\ \A w \in Workers : e \notin Held(w)
    BY <1>8 DEF DealInv, Settled
  <2>2. ASSUME NEW e \in Nat
        PROVE  e \in 1..Dispatched' <=> e \in done \/ e \in lost' \/ \E w \in Workers : e \in Held(w)
    BY <1>2, <1>7 DEF DealInv, Settled
  <2> QED  BY <1>2, <1>6, <2>1, <2>2 DEF DealInv, Settled
<1>12. Shared'
  BY <1>2, <1>6 DEF DealInv, Shared
<1>13. Ended'
  BY <1>1, <1>2, <1>6 DEF DealInv, Ended
<1> QED  BY <1>9, <1>10, <1>11, <1>12, <1>13 DEF DealInv

(* The drain timeout turns whatever the workers held into losses.          *)
LEMMA DealTimeout ==
    ASSUME DealInv, JoinTimeout
    PROVE  DealInv'
<1> DEFINE All == UNION {Held(w) : w \in Workers}
<1>1. /\ rpc = "join" /\ rpc' = "done" /\ forced' = TRUE /\ lost' = lost \cup All /\ alive' = {}
      /\ chan' = [w \in Workers |-> <<>>] /\ hand' = [w \in Workers |-> {}]
      /\ UNCHANGED <<kernel, batch, worker_idx, panicked, sent, done>>
  BY DEF JoinTimeout
<1>2. All \subseteq Nat /\ \A e : e \in All <=> \E w \in Workers : e \in Held(w)
  BY HeldApart
<1> HIDE DEF All
<1>3. Dispatched' = Dispatched
  BY <1>1 DEF Dispatched
<1>4. \A w \in Workers : chan'[w] = <<>> /\ hand'[w] = {} /\ Held(w)' = {}
  BY <1>1, EmptyElements DEF Held
<1>5. Types'
  BY <1>1, <1>2, <1>3, EmptyElements DEF DealInv, Types
<1>6. Queued'
  BY <1>1, <1>3 DEF DealInv, Queued
<1>7. Settled'
  <2>1. ASSUME NEW e \in Nat
        PROVE  e \in 1..Dispatched <=> e \in done \/ e \in lost'
    BY <1>1, <1>2 DEF DealInv, Settled
  <2>2. done \cap lost' = {}
    BY <1>1, <1>2 DEF DealInv, Settled
  <2> QED  BY <1>1, <1>3, <1>4, <2>1, <2>2 DEF Settled
<1>8. Shared'
  BY <1>1, <1>4, EmptyElements DEF DealInv, Shared
<1>9. Ended'
  BY <1>1, <1>4 DEF DealInv, Ended
<1> QED  BY <1>5, <1>6, <1>7, <1>8, <1>9 DEF DealInv

(* A worker takes the oldest datagram of its channel.                      *)
LEMMA DealTake ==
    ASSUME DealInv, NEW w \in Workers, Take(w)
    PROVE  DealInv'
<1>1. /\ hand[w] = {} /\ chan[w] # <<>> /\ chan[w] \in Seq(Nat) /\ hand \in [Workers -> SUBSET Nat]
      /\ hand' = [hand EXCEPT ![w] = {Head(chan[w])}] /\ chan' = [chan EXCEPT ![w] = Tail(chan[w])]
      /\ chan \in [Workers -> Seq(Nat)]
      /\ UNCHANGED <<rpc, kernel, batch, worker_idx, alive, panicked, sent, done, lost, forced>>
  BY DEF DealInv, Types, Take, loopVars
<1>2. /\ Head(chan[w]) \in Nat /\ Tail(chan[w]) \in Seq(Nat)
      /\ Range(chan[w]) = {Head(chan[w])} \cup Range(Tail(chan[w]))
      /\ Increasing(Tail(chan[w])) /\ \A e \in Range(Tail(chan[w])) : Head(chan[w]) < e
  <2>1. Increasing(chan[w])
    BY DEF DealInv, Shared
  <2> QED  BY <1>1, <2>1, TailElements
<1>3. /\ hand'[w] = {Head(chan[w])} /\ chan'[w] = Tail(chan[w])
      /\ hand' \in [Workers -> SUBSET Nat] /\ chan' \in [Workers -> Seq(Nat)]
      /\ \A v \in Workers : v # w => hand'[v] = hand[v] /\ chan'[v] = chan[v]
  BY <1>1, <1>2
<1>4. \A v \in Workers : Held(v)' = Held(v)
  <2>1. ASSUME NEW v \in Workers PROVE Held(v)' = hand'[v] \cup Range(chan'[v])
    BY DEF Held
  <2>2. Held(w)' = Held(w)
    BY <1>1, <1>2, <1>3, <2>1 DEF Held
  <2> QED  BY Zenon, <1>3, <2>1, <2>2 DEF Held
<1>5. Dispatched' = Dispatched
  BY <1>1 DEF Dispatched
<1>6. Types'
  BY <1>1, <1>3, <1>5 DEF DealInv, Types
<1>7. Queued' /\ Settled'
  BY <1>1, <1>4, <1>5 DEF DealInv, Queued, Settled
<1>8. Shared'
  BY <1>1, <1>2, <1>3, <1>4, <1>5 DEF DealInv, Shared
<1>9. Ended'
  BY <1>1, <1>4 DEF DealInv, Ended
<1> QED  BY <1>6, <1>7, <1>8, <1>9 DEF DealInv

(* A datagram a worker is done with is processed, and no one else's.       *)
LEMMA DealFinish ==
    ASSUME DealInv, NEW w \in Workers, Finish(w)
    PROVE  DealInv'
<1>1. /\ hand \in [Workers -> SUBSET Nat] /\ done' = done \cup hand[w]
      /\ hand' = [hand EXCEPT ![w] = {}]
      /\ UNCHANGED <<rpc, kernel, batch, worker_idx, chan, alive, panicked, sent, lost, forced>>
  BY DEF DealInv, Types, Finish, loopVars
<1>2. /\ hand'[w] = {} /\ hand' \in [Workers -> SUBSET Nat] /\ hand[w] \subseteq Nat
      /\ \A v \in Workers : v # w => hand'[v] = hand[v]
  BY <1>1
<1>3. /\ Held(w)' = Held(w) \ hand[w] /\ hand[w] \subseteq Held(w)
      /\ \A v \in Workers : v # w => Held(v)' = Held(v)
  <2>1. ASSUME NEW v \in Workers PROVE Held(v)' = hand'[v] \cup Range(chan[v])
    BY <1>1 DEF Held
  <2>2. Held(w)' = Held(w) \ hand[w]
    BY <1>2, <2>1, HeldApart DEF Held
  <2> QED  BY <1>2, <2>1, <2>2 DEF Held
<1>4. Dispatched' = Dispatched
  BY <1>1 DEF Dispatched
<1>5. Types'
  BY Zenon, <1>1, <1>2, <1>4 DEF DealInv, Types
<1>6. Queued'
  BY <1>1, <1>4 DEF DealInv, Queued
<1>7. Settled'
  <2>1. ASSUME NEW e \in Nat
        PROVE  (e \in done \/ \E v \in Workers : e \in Held(v))
               <=> (e \in done' \/ \E v \in Workers : e \in Held(v)')
    BY <1>1, <1>3
  <2>2. done' \cap lost = {}
    BY <1>1, <1>3 DEF DealInv, Settled
  <2>3. \A v \in Workers : Held(v)' \cap (done' \cup lost) = {}
    BY <1>1, <1>3, HeldApart DEF DealInv, Settled
  <2> QED  BY <1>1, <1>4, <2>1, <2>2, <2>3 DEF DealInv, Settled
<1>8. Shared'
  BY <1>1, <1>2, <1>3, <1>4 DEF DealInv, Shared
<1>9. Ended'
  BY <1>1, <1>3 DEF DealInv, Ended
<1> QED  BY <1>5, <1>6, <1>7, <1>8, <1>9 DEF DealInv

(* A worker that exits leaves nothing behind.                              *)
LEMMA DealExit ==
    ASSUME DealInv, NEW w \in Workers, Exit(w)
    PROVE  DealInv'
<1>1. /\ hand[w] = {} /\ chan[w] = <<>> /\ rpc = "join" /\ alive' = alive \ {w}
      /\ UNCHANGED <<rpc, kernel, batch, worker_idx, chan, hand, panicked, sent, done, lost, forced>>
  BY DEF Exit, loopVars
<1>2. Held(w) = {} /\ \A v \in Workers : Held(v)' = Held(v)
  BY <1>1, EmptyElements DEF Held
<1>3. Dispatched' = Dispatched
  BY <1>1 DEF Dispatched
<1>4. Types' /\ Queued' /\ Settled'
  BY <1>1, <1>2, <1>3 DEF DealInv, Types, Queued, Settled
<1>5. Shared'
  BY <1>1, <1>2, <1>3 DEF DealInv, Shared
<1>6. Ended'
  BY <1>1, <1>2 DEF DealInv, Ended
<1> QED  BY <1>4, <1>5, <1>6 DEF DealInv

(* The death of a worker loses what it held and nothing else.              *)
LEMMA DealPanic ==
    ASSUME DealInv, NEW w \in Workers, Panic(w)
    PROVE  DealInv'
<1>1. /\ hand[w] # {} /\ lost' = lost \cup Held(w) /\ alive' = alive \ {w} /\ panicked' = panicked \cup {w}
      /\ chan' = [chan EXCEPT ![w] = <<>>] /\ hand' = [hand EXCEPT ![w] = {}]
      /\ UNCHANGED <<rpc, kernel, batch, worker_idx, sent, done, forced>>
  BY DEF Panic, loopVars
<1>2. chan \in [Workers -> Seq(Nat)] /\ hand \in [Workers -> SUBSET Nat]
  BY DEF DealInv, Types
<1>3. /\ hand'[w] = {} /\ chan'[w] = <<>> /\ hand' \in [Workers -> SUBSET Nat]
      /\ chan' \in [Workers -> Seq(Nat)]
      /\ \A v \in Workers : v # w => hand'[v] = hand[v] /\ chan'[v] = chan[v]
  BY <1>1, <1>2, EmptyElements
<1>4. /\ Held(w)' = {} /\ Held(w) \subseteq Nat /\ hand[w] \subseteq Held(w)
      /\ \A v \in Workers : v # w => Held(v)' = Held(v)
  <2>1. ASSUME NEW v \in Workers PROVE Held(v)' = hand'[v] \cup Range(chan'[v])
    BY DEF Held
  <2> QED  BY <1>3, <2>1, EmptyElements, HeldApart DEF Held
<1>5. Dispatched' = Dispatched
  BY <1>1 DEF Dispatched
<1>6. Types'
  BY Zenon, <1>1, <1>3, <1>4, <1>5 DEF DealInv, Types
<1>7. Queued'
  BY <1>1, <1>5 DEF DealInv, Queued
<1>8. Settled'
  <2>1. ASSUME NEW e \in Nat
        PROVE  (e \in lost \/ \E v \in Workers : e \in Held(v))
               <=> (e \in lost' \/ \E v \in Workers : e \in Held(v)')
    BY <1>1, <1>4
  <2>2. done \cap lost' = {}
    BY <1>1 DEF DealInv, Settled
  <2>3. \A v \in Workers : Held(v)' \cap (done \cup lost') = {}
    BY <1>1, <1>4, HeldApart DEF DealInv, Settled
  <2> QED  BY <1>1, <1>5, <2>1, <2>2, <2>3 DEF DealInv, Settled
<1>9. Shared'
  BY <1>1, <1>3, <1>4, <1>5, EmptyElements DEF DealInv, Shared
<1>10. Ended'
  BY <1>1, <1>4 DEF DealInv, Ended
<1> QED  BY <1>6, <1>7, <1>8, <1>9, <1>10 DEF DealInv

(* Every step keeps the inductive invariant.                               *)
LEMMA DealStep == DealInv /\ [Next]_vars => DealInv'
<1> SUFFICES ASSUME DealInv, [Next]_vars PROVE DealInv'
  OBVIOUS
<1>1. CASE Arrive \/ Receive
  BY <1>1, DealReceives
<1>2. CASE Cancel \/ PollShutdown \/ Readable \/ ReceiveEnd \/ Block
           \/ BatchDone \/ Joined \/ UNCHANGED vars
  BY <1>2, DealPasses
<1>3. CASE Dispatch
  BY <1>3, DealDispatch
<1>4. CASE WorkerGone
  BY <1>4, DealWorkerGone
<1>5. CASE JoinTimeout
  BY <1>5, DealTimeout
<1>6. ASSUME NEW w \in Workers, Work(w) \/ Panic(w) PROVE DealInv'
  BY <1>6, DealTake, DealFinish, DealExit, DealPanic DEF Work
<1> QED  BY <1>1, <1>2, <1>3, <1>4, <1>5, <1>6 DEF Next, Loop

(* The intervals the queues occupy, and what the others share out.         *)
LEMMA PlacesApart ==
    ASSUME DealInv
    PROVE  /\ Range(batch) = (Dispatched + 1)..(Dispatched + Len(batch))
           /\ Range(kernel) = (Dispatched + Len(batch) + 1)..sent
           /\ done \cup lost \cup UNION {Held(w) : w \in Workers} = 1..Dispatched
<1>1. /\ kernel \in Seq(Nat) /\ batch \in Seq(Nat) /\ sent \in Nat /\ Dispatched \in Nat
      /\ Dispatched = sent - Len(kernel) - Len(batch) /\ done \subseteq Nat /\ lost \subseteq Nat
  BY DEF DealInv, Types, Dispatched
<1>2. \A i \in 1..Len(batch) : batch[i] = Dispatched + i
  BY DEF DealInv, Queued
<1>3. \A i \in 1..Len(kernel) : kernel[i] = Dispatched + Len(batch) + i
  BY DEF DealInv, Queued
<1>4. Dispatched + Len(batch) \in Nat /\ Dispatched + Len(batch) + Len(kernel) = sent
  BY <1>1
<1>5. Range(batch) = (Dispatched + 1)..(Dispatched + Len(batch))
  BY Zenon, <1>1, <1>2, Consecutive
<1>6. Range(kernel) = (Dispatched + Len(batch) + 1)..(Dispatched + Len(batch) + Len(kernel))
  BY Zenon, <1>1, <1>3, <1>4, Consecutive
<1>7. done \cup lost \cup UNION {Held(w) : w \in Workers} = 1..Dispatched
  <2>1. \A w \in Workers : Held(w) \subseteq Nat
    BY HeldApart
  <2>2. 1..Dispatched \subseteq Nat
    BY <1>1
  <2>3. \A d \in Nat : d \in 1..Dispatched <=>
                         d \in done \/ d \in lost \/ \E w \in Workers : d \in Held(w)
    BY DEF DealInv, Settled
  <2> QED  BY Zenon, <1>1, <2>1, <2>2, <2>3
<1> QED  BY <1>4, <1>5, <1>6, <1>7

(* The inductive invariant gives the single place of every datagram.       *)
LEMMA DealOnePlace == DealInv => OnePlace
<1> SUFFICES ASSUME DealInv PROVE OnePlace
  OBVIOUS
<1> DEFINE H == UNION {Held(w) : w \in Workers}
           B == Dispatched + Len(batch)
<1>1. /\ kernel \in Seq(Nat) /\ batch \in Seq(Nat) /\ sent \in Nat /\ Dispatched \in Nat /\ B \in Nat
      /\ Dispatched = sent - Len(kernel) - Len(batch) /\ Dispatched \leq B /\ B \leq sent
      /\ chan \in [Workers -> Seq(Nat)]
  BY DEF DealInv, Types, Dispatched
<1>2. /\ Range(batch) = (Dispatched + 1)..B /\ Range(kernel) = (B + 1)..sent
      /\ done \cup lost \cup H = 1..Dispatched
  BY PlacesApart
<1>3. done \cap lost = {} /\ done \cap H = {} /\ lost \cap H = {}
  BY DEF DealInv, Settled
<1> HIDE DEF H, B
<1>4. /\ Range(batch) \cap Range(kernel) = {} /\ 1..Dispatched \cap Range(batch) = {}
      /\ 1..Dispatched \cap Range(kernel) = {}
      /\ 1..Dispatched \cup Range(batch) \cup Range(kernel) = 1..sent
  BY <1>1, <1>2
<1>5. Places = <<Range(kernel), Range(batch), done, lost, H>>
  BY DEF Places, H
<1>6. DOMAIN Places = {1, 2, 3, 4, 5}
  BY <1>5
<1>7. UNION Range(Places) = 1..sent
  <2>1. \A e : e \in UNION Range(Places) <=> \E p \in {1, 2, 3, 4, 5} : e \in Places[p]
    BY <1>6 DEF Range
  <2>2. \A e : e \in UNION Range(Places) <=> e \in done \cup lost \cup H \cup Range(batch) \cup Range(kernel)
    BY <1>5, <2>1
  <2> QED  BY <1>2, <1>4, <2>2
<1>8. ASSUME NEW p \in DOMAIN Places, NEW q \in DOMAIN Places, p # q
      PROVE  Places[p] \cap Places[q] = {}
  <2>1. done \subseteq 1..Dispatched /\ lost \subseteq 1..Dispatched /\ H \subseteq 1..Dispatched
    BY <1>2
  <2> DEFINE K == Range(kernel)
             T == Range(batch)
  <2>2. /\ K \cap T = {} /\ K \cap done = {} /\ K \cap lost = {} /\ K \cap H = {}
        /\ T \cap done = {} /\ T \cap lost = {} /\ T \cap H = {}
    BY <1>4, <2>1
  <2>3. Places = <<K, T, done, lost, H>>
    BY <1>5
  <2> HIDE DEF K, T
  <2>4. Places[1] = K /\ Places[2] = T /\ Places[3] = done /\ Places[4] = lost /\ Places[5] = H
    BY <2>3
  <2> QED  BY <1>3, <1>6, <1>8, <2>2, <2>4
<1>9. IsInjective(kernel) /\ IsInjective(batch)
  <2>1. DOMAIN kernel = 1..Len(kernel) /\ DOMAIN batch = 1..Len(batch) /\ Len(batch) \in Nat /\ Len(kernel) \in Nat
    BY <1>1
  <2>2. /\ \A i \in 1..Len(batch) : batch[i] = Dispatched + i
        /\ \A i \in 1..Len(kernel) : kernel[i] = Dispatched + Len(batch) + i
    BY DEF DealInv, Queued
  <2>3. IsInjective(kernel)
    BY <1>1, <2>1, <2>2 DEF IsInjective
  <2>4. IsInjective(batch)
    BY <1>1, <2>1, <2>2 DEF IsInjective
  <2> QED  BY <2>3, <2>4
<1>10. \A w \in Workers : IsInjective(chan[w])
  <2> SUFFICES ASSUME NEW w \in Workers, NEW a \in DOMAIN chan[w], NEW b \in DOMAIN chan[w],
                      chan[w][a] = chan[w][b]
               PROVE  a = b
    BY DEF IsInjective
  <2>1. Increasing(chan[w]) /\ chan[w] \in Seq(Nat)
    BY <1>1 DEF DealInv, Shared
  <2>2. a \in Nat /\ b \in Nat /\ chan[w][a] \in Nat
    BY <2>1
  <2>3. ~(a < b) /\ ~(b < a)
    BY <2>1, <2>2 DEF Increasing
  <2> QED  BY <2>2, <2>3
<1> QED  BY <1>7, <1>8, <1>9, <1>10, HeldApart DEF OnePlace

(* The inductive invariant gives the dealing order.                        *)
LEMMA DealRoundRobin == DealInv => RoundRobin
<1> SUFFICES ASSUME DealInv PROVE RoundRobin
  OBVIOUS
<1>1. ASSUME NEW w \in Workers, NEW d \in Held(w), NEW b \in Range(batch) PROVE d < b
  <2>1. d \in 1..Dispatched /\ b \in (Dispatched + 1)..(Dispatched + Len(batch))
    BY PlacesApart
  <2>2. Dispatched \in Nat /\ Len(batch) \in Nat
    BY DEF DealInv, Types
  <2> QED  BY <2>1, <2>2
<1> QED  BY <1>1 DEF DealInv, Shared, RoundRobin

(* The inductive invariant makes an undisturbed drain complete.            *)
LEMMA DealDrain == DealInv => DrainComplete
<1> SUFFICES ASSUME DealInv, rpc = "done", ~forced, panicked = {}
             PROVE  done = (1..sent) \ Range(kernel)
  BY DEF DrainComplete
<1>1. batch = <<>> /\ Len(batch) = 0 /\ lost = {} /\ \A w \in Workers : Held(w) = {}
  BY EmptyElements DEF DealInv, Queued, Ended
<1>2. done = 1..Dispatched /\ Range(kernel) = (Dispatched + 0 + 1)..sent
  <2>1. UNION {Held(w) : w \in Workers} = {}
    BY <1>1
  <2> QED  BY Zenon, <1>1, <2>1, PlacesApart
<1>3. Dispatched \in Nat /\ sent \in Nat /\ Dispatched \leq sent
  BY <1>1 DEF DealInv, Types, Dispatched
<1> QED  BY <1>2, <1>3

(* For every pool, channel capacity and number of datagrams: a datagram is *)
(* always in exactly one place (run and run_worker duplicate and forget    *)
(* nothing), the workers are dealt the datagrams round-robin and in order, *)
(* and a drain that neither the timeout nor a panic cuts short processes   *)
(* all that was received.                                                  *)
THEOREM DatagramsDealt == Spec => [](OnePlace /\ RoundRobin /\ DrainComplete)
<1>1. Init => DealInv
  BY DealInit
<1>2. DealInv /\ [Next]_vars => DealInv'
  BY DealStep
<1>3. DealInv => OnePlace /\ RoundRobin /\ DrainComplete
  BY DealOnePlace, DealRoundRobin, DealDrain
<1> QED  BY <1>1, <1>2, <1>3, PTL DEF Spec

=============================================================================
