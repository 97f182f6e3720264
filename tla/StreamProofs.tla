---------------------------- MODULE StreamProofs -----------------------------
(***************************************************************************)
(* The connection slot of UnixTransport and of a Forwarder's stream, for   *)
(* any number of tasks, calls, connections and writes per frame: frames    *)
(* stay whole, a send is at most once, and a connection fails one send.    *)
(***************************************************************************)
EXTENDS StreamConn, SequenceTheorems, TLAPS

Piece == [by : Callers, call : Nat, part : Nat \ {0}]

\* The next piece of the frame of c.
PieceOf(c, n) == [by |-> c, call |-> calls[c], part |-> n]

Placed(c) ==
    /\ pc[c] \in {"connect", "write"} => holder = c
    /\ pc[c] = "connect" => slot = 0
    /\ pc[c] = "write" => slot # 0
    /\ pc[c] \in {"lock", "connect"} => written[c] = 0
    /\ pc[c] = "ok" => written[c] = Parts
    /\ pc[c] # "ok" => written[c] < Parts

(* First part of the inductive invariant: who holds the mutex, where the   *)
(* slot is then, and how much of its frame each task has written.          *)
SlotInv ==
    /\ conns \in Seq(Seq(Piece))
    /\ slot \in 0..Len(conns)
    /\ slot \notin failed /\ failed \subseteq 1..Len(conns)
    /\ torn \subseteq 1..Len(conns)
    /\ pc \in [Callers -> Returned \cup {"lock", "connect", "write"}]
    /\ written \in [Callers -> Nat]
    /\ calls \in [Callers -> Nat]
    /\ \A c \in Callers : Placed(c)

(* Second part: the connection in the slot ends where the task that writes *)
(* left off, or between two frames if no task writes.                      *)
FrameInv ==
    /\ FramesWhole
    /\ slot # 0 /\ slot \notin torn =>
          /\ (\A c \in Callers : pc[c] # "write") => Len(conns[slot]) % Parts = 0
          /\ \A c \in Callers : pc[c] = "write" =>
                /\ Len(conns[slot]) % Parts = written[c]
                /\ written[c] > 0 =>
                      conns[slot][Len(conns[slot])] = PieceOf(c, written[c])

(* Third part: the pieces of a frame are all on one connection, and while  *)
(* it is written they are the first ones of the frame, in the slot.        *)
Known ==
    \A k \in 1..Len(conns) : \A q \in Range(conns[k]) :
        /\ q.call \leq calls[q.by]
        /\ q.call = calls[q.by] =>
              q.part \leq written[q.by] /\ (pc[q.by] = "write" => k = slot)

OneConnection ==
    \A k, l \in 1..Len(conns) : \A q \in Range(conns[k]), r \in Range(conns[l]) :
        q.by = r.by /\ q.call = r.call => k = l

Present ==
    \A c \in Callers :
        /\ pc[c] = "write" =>
              \A n \in 1..written[c] : PieceOf(c, n) \in Range(conns[slot])
        /\ pc[c] = "ok" => Complete(c, calls[c]) # {}

PieceInv == Known /\ OneConnection /\ Present

-----------------------------------------------------------------------------
(* What a write and a connect do to the connections.                       *)
LEMMA WriteEffect ==
    ASSUME SlotInv, NEW c \in Callers, Write(c)
    PROVE  /\ slot \in 1..Len(conns) /\ conns[slot] \in Seq(Piece)
           /\ PieceOf(c, written[c] + 1) \in Piece
           /\ conns' \in Seq(Seq(Piece)) /\ Len(conns') = Len(conns)
           /\ \A k \in 1..Len(conns) : k # slot => conns'[k] = conns[k]
           /\ conns'[slot] \in Seq(Piece) /\ Len(conns'[slot]) = Len(conns[slot]) + 1
           /\ \A i \in 1..Len(conns[slot]) : conns'[slot][i] = conns[slot][i]
           /\ conns'[slot][Len(conns[slot]) + 1] = PieceOf(c, written[c] + 1)
<1> DEFINE p == PieceOf(c, written[c] + 1)
           s == conns[slot]
<1>1. slot \in 1..Len(conns)
  BY DEF SlotInv, Placed, Write
<1>2. s \in Seq(Piece)
  BY <1>1 DEF SlotInv
<1>3. p \in Piece
  BY DEF SlotInv, PieceOf, Piece
<1>4. conns' = [conns EXCEPT ![slot] = Append(s, p)]
  BY DEF Write, PieceOf
<1>5. conns \in Seq(Seq(Piece))
  BY DEF SlotInv
<1> HIDE DEF p, s
<1>6. /\ Append(s, p) \in Seq(Piece) /\ Len(Append(s, p)) = Len(s) + 1
      /\ \A i \in 1..Len(s) : Append(s, p)[i] = s[i]
      /\ Append(s, p)[Len(s) + 1] = p
  BY <1>2, <1>3, AppendProperties
<1>7. PICK t \in Seq(Piece) : t = Append(s, p)
  BY Zenon, <1>6
<1>8. conns' = [conns EXCEPT ![slot] = t]
  BY <1>4, <1>7
<1>9. conns' \in Seq(Seq(Piece)) /\ Len(conns') = Len(conns) /\ conns'[slot] = t
      /\ \A k \in 1..Len(conns) : k # slot => conns'[k] = conns[k]
  BY <1>1, <1>5, <1>8, ExceptSeq
<1> QED  BY <1>1, <1>2, <1>3, <1>6, <1>7, <1>9 DEF p, s

(* A connect makes an empty connection behind the others.                  *)
LEMMA ConnectEffect ==
    ASSUME SlotInv, NEW c \in Callers, ConnectOk(c)
    PROVE  /\ conns' \in Seq(Seq(Piece)) /\ Len(conns') = Len(conns) + 1
           /\ Len(conns) \in Nat
           /\ slot' = Len(conns) + 1 /\ conns'[slot'] = <<>>
           /\ \A k \in 1..Len(conns) : conns'[k] = conns[k]
<1>1. conns \in Seq(Seq(Piece)) /\ <<>> \in Seq(Piece)
  BY DEF SlotInv
<1>2. conns' = Append(conns, <<>>) /\ slot' = Len(conns) + 1
  BY DEF ConnectOk
<1> QED  BY <1>1, <1>2, AppendProperties, LenProperties

-----------------------------------------------------------------------------
(* The server's steps leave alone all that the invariant speaks of.        *)
connVars == <<conns, slot, holder, pc, written, calls, failed, torn>>

ServerStep == (\E k \in 1..Len(conns) : Read(k) \/ ServerClose(k)) \/ Stop \/ Start

\* A call begins: waiting for the mutex, or turned away.
Begins(c) == (\E fits \in BOOLEAN : TransportSend(c, fits)) \/ ForwarderSend(c)

(* A step is one of a task or leaves the tasks' state as it was.           *)
LEMMA NextCases ==
    ASSUME [Next]_vars
    PROVE  \/ UNCHANGED connVars
           \/ \E c \in Callers :
                 \/ Begins(c) \/ Lock(c) \/ ConnectOk(c) \/ ConnectErr(c)
                 \/ Write(c) \/ WriteErr(c) \/ DropSend(c)
<1>1. CASE UNCHANGED vars
  BY <1>1 DEF vars, connVars
<1>2. CASE ServerStep
  BY <1>2 DEF ServerStep, Read, ServerClose, Stop, Start, connVars
<1>3. CASE \E c \in Callers : Begins(c) \/ Progress(c) \/ DropSend(c)
  BY <1>3 DEF Progress
<1> QED  BY <1>1, <1>2, <1>3 DEF Next, ServerStep, Begins

(* What a new call changes.                                                *)
LEMMA BeginEffect ==
    ASSUME SlotInv, NEW c \in Callers, Begins(c)
    PROVE  /\ pc[c] \in Returned /\ pc'[c] \in {"lock", "too_large"}
           /\ written'[c] = 0 /\ calls'[c] = calls[c] + 1
           /\ pc' \in [Callers -> Returned \cup {"lock", "connect", "write"}]
           /\ written' \in [Callers -> Nat] /\ calls' \in [Callers -> Nat]
           /\ \A d \in Callers : d # c =>
                 pc'[d] = pc[d] /\ written'[d] = written[d] /\ calls'[d] = calls[d]
           /\ UNCHANGED <<conns, slot, holder, failed, torn>>
<1>1. PICK r \in {"lock", "too_large"} : Enter(c) /\ pc' = [pc EXCEPT ![c] = r]
  BY DEF Begins, TransportSend, ForwarderSend
<1>2. /\ pc[c] \in Returned /\ calls' = [calls EXCEPT ![c] = @ + 1]
      /\ written' = [written EXCEPT ![c] = 0]
      /\ UNCHANGED <<conns, slot, holder, failed, torn>>
  BY <1>1 DEF Enter
<1>3. pc' \in [Callers -> Returned \cup {"lock", "connect", "write"}]
  BY <1>1 DEF SlotInv, Returned
<1> QED  BY <1>1, <1>2, <1>3 DEF SlotInv

(* What a result changes: only the task's place, and the mutex.            *)
LEMMA ReturnEffect ==
    ASSUME SlotInv, NEW c \in Callers, NEW r \in Returned, Return(c, r)
    PROVE  /\ pc'[c] = r /\ \A d \in Callers : d # c => pc'[d] = pc[d]
           /\ pc' \in [Callers -> Returned \cup {"lock", "connect", "write"}]
           /\ \A d \in Callers : d # c /\ holder = d => holder' = d
BY DEF SlotInv, Return

(* Nobody but the holder of the mutex connects or writes.                  *)
LEMMA Alone ==
    ASSUME SlotInv, NEW c \in Callers, NEW d \in Callers, d # c,
           pc[c] \in {"connect", "write"} \/ holder = NoOne
    PROVE  pc[d] \notin {"connect", "write"}
BY ConnAssumption DEF SlotInv, Placed

(* Every task is placed after a result: the one that got it because its    *)
(* count is right, the others because nothing of theirs changed.           *)
LEMMA ReturnPlaced ==
    ASSUME SlotInv, NEW c \in Callers, NEW r \in Returned, Return(c, r),
           r = "ok" => written'[c] = Parts,
           r # "ok" => written'[c] < Parts,
           \A d \in Callers : d # c => written'[d] = written[d],
           slot' = slot \/ \A d \in Callers : d # c => pc[d] \notin {"connect", "write"},
           NEW d \in Callers
    PROVE  Placed(d)'
<1>1. /\ pc'[c] = r /\ \A e \in Callers : e # c => pc'[e] = pc[e]
      /\ \A e \in Callers : e # c /\ holder = e => holder' = e
  BY ReturnEffect
<1>2. CASE d = c
  BY <1>1, <1>2 DEF Placed, Returned
<1>3. CASE d # c
  <2>1. Placed(d) /\ pc'[d] = pc[d] /\ written'[d] = written[d]
    BY <1>1, <1>3 DEF SlotInv
  <2>2. holder = d => holder' = d
    BY <1>1, <1>3
  <2>3. slot' = slot \/ pc[d] \notin {"connect", "write"}
    BY <1>3
  <2> QED  BY <2>1, <2>2, <2>3 DEF Placed
<1> QED  BY <1>2, <1>3

(* The first part of the invariant is inductive.                           *)
LEMMA SlotKept ==
    ASSUME SlotInv, [Next]_vars
    PROVE  SlotInv'
<1>1. CASE UNCHANGED connVars
  BY <1>1 DEF SlotInv, Placed, connVars
<1>2. ASSUME NEW c \in Callers, Begins(c)
      PROVE  SlotInv'
  <2>1. 0 < Parts
    BY ConnAssumption
  <2>2. /\ pc[c] \in Returned /\ pc'[c] \in {"lock", "too_large"}
        /\ written'[c] = 0
        /\ \A d \in Callers : d # c => pc'[d] = pc[d] /\ written'[d] = written[d]
        /\ UNCHANGED <<conns, slot, holder, failed, torn>>
    BY <1>2, BeginEffect
  <2>3. /\ pc' \in [Callers -> Returned \cup {"lock", "connect", "write"}]
        /\ written' \in [Callers -> Nat] /\ calls' \in [Callers -> Nat]
    BY <1>2, BeginEffect
  <2>4. ASSUME NEW d \in Callers
        PROVE  Placed(d)'
    <3>1. CASE d = c
      BY <2>1, <2>2, <3>1 DEF Placed
    <3>2. CASE d # c
      BY <2>2, <3>2 DEF SlotInv, Placed
    <3> QED  BY <3>1, <3>2
  <2> QED  BY <2>2, <2>3, <2>4 DEF SlotInv
<1>3. ASSUME NEW c \in Callers, Lock(c)
      PROVE  SlotInv'
  <2>1. /\ pc[c] = "lock" /\ holder' = c /\ UNCHANGED <<conns, slot, failed, torn, written, calls>>
        /\ pc' = [pc EXCEPT ![c] = IF slot = 0 THEN "connect" ELSE "write"]
    BY <1>3 DEF Lock
  <2>2. \A d \in Callers : d # c => pc[d] \notin {"connect", "write"}
    BY <1>3, Alone DEF Lock
  <2>3. ASSUME NEW d \in Callers
        PROVE  Placed(d)'
    BY <2>1, <2>2 DEF SlotInv, Placed
  <2> QED  BY <2>1, <2>3 DEF SlotInv
<1>4. ASSUME NEW c \in Callers, ConnectOk(c)
      PROVE  SlotInv'
  <2>1. /\ pc[c] = "connect" /\ pc' = [pc EXCEPT ![c] = "write"]
        /\ UNCHANGED <<holder, failed, torn, written, calls>>
    BY <1>4 DEF ConnectOk
  <2>2. \A d \in Callers : d # c => pc[d] \notin {"connect", "write"}
    BY <2>1, Alone
  <2>3. /\ conns' \in Seq(Seq(Piece)) /\ slot' = Len(conns) + 1
        /\ Len(conns') = Len(conns) + 1 /\ Len(conns) \in Nat
    BY <1>4, ConnectEffect
  <2>4. /\ slot' \in 0..Len(conns') /\ slot' # 0 /\ slot' \notin failed
        /\ failed \subseteq 1..Len(conns') /\ torn \subseteq 1..Len(conns')
    BY <2>3 DEF SlotInv
  <2>5. ASSUME NEW d \in Callers
        PROVE  Placed(d)'
    BY <2>1, <2>2, <2>4 DEF SlotInv, Placed
  <2> QED  BY <2>1, <2>3, <2>4, <2>5 DEF SlotInv
<1>5. ASSUME NEW c \in Callers, ConnectErr(c)
      PROVE  SlotInv'
  <2>1. /\ pc[c] = "connect" /\ Return(c, "io") /\ "io" \in Returned
        /\ UNCHANGED <<conns, slot, failed, torn, written, calls>>
    BY <1>5 DEF ConnectErr, Returned
  <2>2. "io" # "ok" /\ written'[c] < Parts
    BY <2>1 DEF SlotInv, Placed
  <2>3. ASSUME NEW d \in Callers
        PROVE  Placed(d)'
    BY <2>1, <2>2, ReturnPlaced
  <2> QED  BY Zenon, <2>1, <2>3, ReturnEffect DEF SlotInv
<1>6. ASSUME NEW c \in Callers, Write(c)
      PROVE  SlotInv'
  <2>1. /\ pc[c] = "write" /\ written' = [written EXCEPT ![c] = @ + 1]
        /\ UNCHANGED <<slot, calls, failed, torn>>
    BY <1>6 DEF Write
  <2>2. conns' \in Seq(Seq(Piece)) /\ Len(conns') = Len(conns)
    BY <1>6, WriteEffect
  <2>3. CASE written[c] + 1 = Parts
    <3>1. Return(c, "ok") /\ "ok" \in Returned
      BY <1>6, <2>3 DEF Write, Returned
    <3>2. written' \in [Callers -> Nat] /\ written'[c] = Parts
      BY <2>1, <2>3 DEF SlotInv
    <3>3. \A d \in Callers : d # c => written'[d] = written[d]
      BY <2>1 DEF SlotInv
    <3>4. pc' \in [Callers -> Returned \cup {"lock", "connect", "write"}]
      BY <3>1, ReturnEffect
    <3>5. ASSUME NEW d \in Callers
          PROVE  Placed(d)'
      BY <2>1, <3>1, <3>2, <3>3, ReturnPlaced
    <3> QED  BY Zenon, <2>1, <2>2, <3>2, <3>4, <3>5 DEF SlotInv
  <2>4. CASE written[c] + 1 # Parts
    <3>1. UNCHANGED <<pc, holder>>
      BY <1>6, <2>4 DEF Write
    <3>2. written[c] + 1 < Parts
      BY <2>1, <2>4, ConnAssumption DEF SlotInv, Placed
    <3>3. ASSUME NEW d \in Callers
          PROVE  Placed(d)'
      BY <2>1, <3>1, <3>2 DEF SlotInv, Placed
    <3>4. written' \in [Callers -> Nat]
      BY <2>1 DEF SlotInv
    <3> QED  BY <2>1, <2>2, <3>1, <3>3, <3>4 DEF SlotInv
  <2> QED  BY <2>3, <2>4
<1>7. ASSUME NEW c \in Callers, WriteErr(c)
      PROVE  SlotInv'
  <2>1. /\ pc[c] = "write" /\ Return(c, "io") /\ "io" \in Returned
        /\ slot # 0 /\ slot' = 0 /\ failed' = failed \cup {slot}
        /\ UNCHANGED <<conns, torn, written, calls>>
    BY <1>7 DEF WriteErr, Returned
  <2>2. \A d \in Callers : d # c => pc[d] \notin {"connect", "write"}
    BY <2>1, Alone
  <2>3. "io" # "ok" /\ written'[c] < Parts
    BY <2>1 DEF SlotInv, Placed
  <2>4. ASSUME NEW d \in Callers
        PROVE  Placed(d)'
    BY <2>1, <2>2, <2>3, ReturnPlaced
  <2>5. slot' \in 0..Len(conns) /\ slot' \notin failed' /\ failed' \subseteq 1..Len(conns)
    BY <2>1 DEF SlotInv
  <2> QED  BY Zenon, <2>1, <2>4, <2>5, ReturnEffect DEF SlotInv
<1>8. ASSUME NEW c \in Callers, DropSend(c)
      PROVE  SlotInv'
  <2>1. /\ Return(c, "dropped") /\ "dropped" \in Returned
        /\ pc[c] \in {"lock", "connect", "write"}
        /\ torn' \in {torn, IF pc[c] = "write" THEN torn \cup {slot} ELSE torn}
        /\ UNCHANGED <<conns, slot, failed, written, calls>>
    BY <1>8 DEF DropSend, Returned
  <2>2. torn' \subseteq 1..Len(conns)
    BY <2>1 DEF SlotInv, Placed
  <2>3. "dropped" # "ok" /\ written'[c] < Parts
    BY <2>1 DEF SlotInv, Placed
  <2>4. ASSUME NEW d \in Callers
        PROVE  Placed(d)'
    BY <2>1, <2>3, ReturnPlaced
  <2> QED  BY Zenon, <2>1, <2>2, <2>4, ReturnEffect DEF SlotInv
<1> QED  BY <1>1, <1>2, <1>3, <1>4, <1>5, <1>6, <1>7, <1>8, NextCases

-----------------------------------------------------------------------------
(* A number P * q + r with r below P has remainder r.                      *)
LEMMA Remainder ==
    ASSUME NEW P \in Nat \ {0}, NEW q \in Int, NEW r \in Int, 0 \leq r, r < P
    PROVE  (P * q + r) % P = r
BY SMT

(* Counting pieces modulo the length of a frame: behind the last piece of  *)
(* a frame comes a first one.                                              *)
LEMMA NextPart ==
    ASSUME NEW P \in Nat \ {0}, NEW n \in Nat, NEW w \in Nat, w < P, n % P = w
    PROVE  /\ w + 1 < P => (n + 1) % P = w + 1
           /\ w + 1 = P => (n + 1) % P = 0
           /\ (n + 1) % P = 1 % P <=> w = 0
<1> DEFINE q == n \div P
<1>1. q \in Int /\ n = P * q + w
  BY SMT
<1> HIDE DEF q
<1>2. w + 1 < P => (n + 1) % P = w + 1
  <2> SUFFICES ASSUME w + 1 < P PROVE (n + 1) % P = w + 1
    OBVIOUS
  <2>1. (P * q + (w + 1)) % P = w + 1
    BY <1>1, Remainder
  <2> QED  BY <1>1, <2>1, SMT
<1>3. w + 1 = P => (n + 1) % P = 0
  <2> SUFFICES ASSUME w + 1 = P PROVE (n + 1) % P = 0
    OBVIOUS
  <2>1. (P * (q + 1) + 0) % P = 0
    BY <1>1, Remainder
  <2>2. P * (q + 1) + 0 = n + 1
    BY <1>1, SMT
  <2> QED  BY <2>1, <2>2
<1>4. P = 1 => 1 % P = 0
  BY SMT
<1>5. 1 < P => 1 % P = 1
  BY SMT
<1>6. w + 1 < P \/ w + 1 = P
  BY SMT
<1>7. P = 1 \/ 1 < P
  BY SMT
<1> QED  BY <1>2, <1>3, <1>4, <1>5, <1>6, <1>7, SMT

(* FramesWhole of one connection.                                          *)
WholeOn(s) ==
    \A i \in 1..Len(s) :
        IF i % Parts = 1 % Parts
        THEN s[i].part = 1
        ELSE s[i] = [s[i - 1] EXCEPT !.part = @ + 1]

(* FramesWhole, connection by connection.                                  *)
LEMMA FramesByConn == FramesWhole <=> \A k \in 1..Len(conns) \ torn : WholeOn(conns[k])
BY DEF FramesWhole, WholeOn

(* The next piece of a frame behind its last one keeps frames whole.       *)
LEMMA WholeGrows ==
    ASSUME NEW s \in Seq(Piece), NEW t \in Seq(Piece), WholeOn(s),
           Len(t) = Len(s) + 1, \A i \in 1..Len(s) : t[i] = s[i],
           NEW c \in Callers, NEW n \in Nat, NEW w \in Nat, w < Parts,
           Len(s) % Parts = w,
           w > 0 => s[Len(s)] = [by |-> c, call |-> n, part |-> w],
           t[Len(s) + 1] = [by |-> c, call |-> n, part |-> w + 1]
    PROVE  WholeOn(t)
<1> SUFFICES ASSUME NEW i \in 1..Len(t)
             PROVE  IF i % Parts = 1 % Parts
                    THEN t[i].part = 1
                    ELSE t[i] = [t[i - 1] EXCEPT !.part = @ + 1]
  BY DEF WholeOn
<1>1. Len(s) \in Nat
  BY LenProperties
<1>2. CASE i \in 1..Len(s)
  <2>1. i % Parts # 1 % Parts => i - 1 \in 1..Len(s)
    BY <1>1, <1>2, SMT
  <2> QED  BY Zenon, <1>2, <2>1 DEF WholeOn
<1>3. CASE i = Len(s) + 1
  <2>1. i % Parts = 1 % Parts <=> w = 0
    BY <1>1, <1>3, NextPart, ConnAssumption
  <2>2. CASE w = 0
    BY <1>3, <2>1, <2>2
  <2>3. CASE w > 0
    <3>1. Len(s) # 0
      BY <2>3, ConnAssumption, SMT
    <3>2. t[i - 1] = s[Len(s)]
      BY <1>1, <1>3, <3>1
    <3>3. t[i - 1] = [by |-> c, call |-> n, part |-> w]
      BY <2>3, <3>2
    <3>4. t[i] = [by |-> c, call |-> n, part |-> w + 1]
      BY <1>3
    <3>5. t[i] = [t[i - 1] EXCEPT !.part = @ + 1]
      <4>1. [by |-> c, call |-> n, part |-> w + 1]
            = [[by |-> c, call |-> n, part |-> w] EXCEPT !.part = @ + 1]
        OBVIOUS
      <4> QED  BY Zenon, <3>3, <3>4, <4>1
    <3>6. ~(i % Parts = 1 % Parts)
      BY <2>1, <2>3
    <3> QED  BY Zenon, <3>5, <3>6
  <2> QED  BY <2>2, <2>3
<1> QED  BY <1>1, <1>2, <1>3

(* The second part of the invariant is inductive, given the first.         *)
LEMMA FrameKept ==
    ASSUME SlotInv, FrameInv, [Next]_vars
    PROVE  FrameInv'
<1>1. CASE UNCHANGED connVars
  BY <1>1 DEF FrameInv, FramesWhole, PieceOf, connVars
<1>2. ASSUME NEW c \in Callers, Begins(c)
      PROVE  FrameInv'
  <2>1. /\ pc[c] # "write" /\ pc'[c] # "write"
        /\ \A d \in Callers : d # c =>
              pc'[d] = pc[d] /\ written'[d] = written[d] /\ calls'[d] = calls[d]
        /\ UNCHANGED <<conns, slot, torn>>
    BY <1>2, BeginEffect DEF Returned
  <2>2. FramesWhole'
    BY <2>1 DEF FrameInv, FramesWhole
  <2> QED  BY <2>1, <2>2 DEF FrameInv, PieceOf
<1>3. ASSUME NEW c \in Callers, Lock(c)
      PROVE  FrameInv'
  <2>1. /\ pc[c] = "lock" /\ UNCHANGED <<conns, slot, torn, written, calls>>
        /\ pc' = [pc EXCEPT ![c] = IF slot = 0 THEN "connect" ELSE "write"]
    BY <1>3 DEF Lock
  <2>2. \A d \in Callers : d # c => pc[d] # "write"
    BY <1>3, Alone DEF Lock
  <2>3. written[c] = 0 /\ \A d \in Callers : d # c => pc'[d] = pc[d]
    BY <2>1 DEF SlotInv, Placed
  <2>4. slot # 0 => pc'[c] = "write"
    BY <2>1 DEF SlotInv
  <2>5. FramesWhole'
    BY <2>1 DEF FrameInv, FramesWhole
  <2>6. slot # 0 /\ slot \notin torn => Len(conns[slot]) % Parts = 0
    BY <2>1, <2>2 DEF FrameInv
  <2> QED  BY <2>1, <2>2, <2>3, <2>4, <2>5, <2>6 DEF FrameInv
<1>4. ASSUME NEW c \in Callers, ConnectOk(c)
      PROVE  FrameInv'
  <2>1. /\ pc[c] = "connect" /\ pc' = [pc EXCEPT ![c] = "write"]
        /\ UNCHANGED <<torn, written, calls>>
    BY <1>4 DEF ConnectOk
  <2>2. \A d \in Callers : d # c => pc[d] # "write"
    BY <2>1, Alone
  <2>3. written[c] = 0 /\ pc'[c] = "write" /\ \A d \in Callers : d # c => pc'[d] = pc[d]
    BY <2>1 DEF SlotInv, Placed
  <2>4. /\ Len(conns') = Len(conns) + 1 /\ Len(conns) \in Nat
        /\ slot' = Len(conns) + 1 /\ conns'[slot'] = <<>>
        /\ \A k \in 1..Len(conns) : conns'[k] = conns[k]
    BY <1>4, ConnectEffect
  <2>5. FramesWhole'
    <3> SUFFICES ASSUME NEW k \in 1..Len(conns') \ torn, NEW i \in 1..Len(conns'[k])
                 PROVE  LET p == conns'[k][i]
                        IN  IF i % Parts = 1 % Parts
                            THEN p.part = 1
                            ELSE p = [conns'[k][i - 1] EXCEPT !.part = @ + 1]
      BY Zenon, <2>1 DEF FramesWhole
    <3>1. k # slot'
      BY <2>4
    <3>2. k \in 1..Len(conns) \ torn /\ conns'[k] = conns[k]
      BY <2>4, <3>1
    <3> QED  BY <3>2 DEF FrameInv, FramesWhole
  <2>6. Len(conns'[slot']) = 0 /\ 0 % Parts = 0
    BY <2>4, ConnAssumption, SMT
  <2> QED  BY <2>2, <2>3, <2>5, <2>6, <2>1 DEF FrameInv
<1>5. ASSUME NEW c \in Callers, ConnectErr(c) \/ WriteErr(c)
      PROVE  FrameInv'
  <2>1. slot' = 0 /\ UNCHANGED <<conns, torn>>
    BY <1>5 DEF ConnectErr, WriteErr, SlotInv, Placed
  <2> QED  BY <2>1 DEF FrameInv, FramesWhole
<1>6. ASSUME NEW c \in Callers, Write(c)
      PROVE  FrameInv'
  <2>1. /\ pc[c] = "write" /\ written' = [written EXCEPT ![c] = @ + 1]
        /\ UNCHANGED <<slot, calls, torn>>
    BY <1>6 DEF Write
  <2>2. \A d \in Callers : d # c => pc[d] # "write"
    BY <2>1, Alone
  <2>3. /\ written[c] \in Nat /\ written[c] < Parts /\ written'[c] = written[c] + 1
        /\ calls[c] \in Nat /\ slot # 0
    BY <2>1 DEF SlotInv, Placed
  <2>4. /\ slot \in 1..Len(conns) /\ conns[slot] \in Seq(Piece)
        /\ Len(conns') = Len(conns)
        /\ \A k \in 1..Len(conns) : k # slot => conns'[k] = conns[k]
        /\ conns'[slot] \in Seq(Piece) /\ Len(conns'[slot]) = Len(conns[slot]) + 1
        /\ \A i \in 1..Len(conns[slot]) : conns'[slot][i] = conns[slot][i]
        /\ conns'[slot][Len(conns[slot]) + 1] = PieceOf(c, written[c] + 1)
    BY <1>6, WriteEffect
  <2>5. slot \notin torn =>
           /\ Len(conns[slot]) % Parts = written[c]
           /\ written[c] > 0 => conns[slot][Len(conns[slot])] = PieceOf(c, written[c])
    BY <2>1, <2>3 DEF FrameInv
  <2>6. slot \notin torn => WholeOn(conns'[slot])
    <3> SUFFICES ASSUME slot \notin torn PROVE WholeOn(conns'[slot])
      OBVIOUS
    <3>1. WholeOn(conns[slot])
      BY <2>4, FramesByConn DEF FrameInv
    <3> QED  BY Zenon, <2>3, <2>4, <2>5, <3>1, WholeGrows DEF PieceOf
  <2>7. FramesWhole'
    <3> SUFFICES ASSUME NEW k \in 1..Len(conns') \ torn PROVE WholeOn(conns'[k])
      BY Zenon, <2>1 DEF FramesWhole, WholeOn
    <3> QED  BY <2>4, <2>6, FramesByConn DEF FrameInv
  <2>8. /\ \A d \in Callers : d # c => pc'[d] # "write"
        /\ pc'[c] = "write" <=> written[c] + 1 # Parts
    <3>1. CASE written[c] + 1 = Parts
      <4>1. Return(c, "ok") /\ "ok" \in Returned
        BY <1>6, <3>1 DEF Write, Returned
      <4> QED  BY <2>2, <3>1, <4>1, ReturnEffect
    <3>2. CASE written[c] + 1 # Parts
      BY <1>6, <2>1, <2>2, <3>2 DEF Write
    <3> QED  BY <3>1, <3>2
  <2>9. Len(conns[slot]) \in Nat
    BY <2>4, LenProperties
  <2>10. slot \notin torn =>
            /\ written[c] + 1 < Parts => Len(conns'[slot]) % Parts = written[c] + 1
            /\ written[c] + 1 = Parts => Len(conns'[slot]) % Parts = 0
    <3> SUFFICES ASSUME slot \notin torn
                 PROVE  /\ written[c] + 1 < Parts => Len(conns'[slot]) % Parts = written[c] + 1
                        /\ written[c] + 1 = Parts => Len(conns'[slot]) % Parts = 0
      OBVIOUS
    <3>1. PICK n \in Nat, w \in Nat : n = Len(conns[slot]) /\ w = written[c]
      BY <2>3, <2>9
    <3>2. w < Parts /\ n % Parts = w /\ Len(conns'[slot]) = n + 1
      BY <2>3, <2>4, <2>5, <3>1
    <3>3. (w + 1 < Parts => (n + 1) % Parts = w + 1) /\ (w + 1 = Parts => (n + 1) % Parts = 0)
      <4>1. Parts \in Nat \ {0}
        BY ConnAssumption
      <4> QED  BY Zenon, <3>2, <4>1, NextPart
    <3> QED  BY <3>1, <3>2, <3>3
  <2>11. conns'[slot][Len(conns'[slot])] = PieceOf(c, written[c])'
    BY <2>1, <2>3, <2>4 DEF PieceOf
  <2>12. written[c] + 1 # Parts => written[c] + 1 < Parts
    BY <2>3, ConnAssumption
  <2> QED  BY <2>1, <2>3, <2>7, <2>8, <2>10, <2>11, <2>12 DEF FrameInv
<1>7. ASSUME NEW c \in Callers, DropSend(c)
      PROVE  FrameInv'
  <2>1. /\ Return(c, "dropped") /\ "dropped" \in Returned
        /\ torn' = IF pc[c] = "write" /\ written[c] > 0 THEN torn \cup {slot} ELSE torn
        /\ UNCHANGED <<conns, slot, written, calls>>
    BY <1>7 DEF DropSend, Returned
  <2>2. pc'[c] # "write" /\ \A d \in Callers : d # c => pc'[d] = pc[d]
    BY <2>1, ReturnEffect
  <2>3. FramesWhole'
    BY <2>1 DEF FrameInv, FramesWhole
  <2>4. CASE pc[c] = "write"
    <3>1. written[c] \in Nat /\ \A d \in Callers : d # c => pc[d] # "write"
      BY <2>4, Alone DEF SlotInv
    <3> QED  BY <2>1, <2>2, <2>3, <2>4, <3>1 DEF FrameInv
  <2>5. CASE pc[c] # "write"
    BY <2>1, <2>2, <2>3, <2>5 DEF FrameInv, PieceOf
  <2> QED  BY <2>4, <2>5
<1> QED  BY <1>1, <1>2, <1>3, <1>4, <1>5, <1>6, <1>7, NextCases

-----------------------------------------------------------------------------
(* The members of a sequence that has got one more element.                *)
LEMMA SetOfLonger ==
    ASSUME NEW s, NEW t, NEW n \in Nat, NEW p,
           DOMAIN s = 1..n, DOMAIN t = 1..(n + 1),
           \A i \in 1..n : t[i] = s[i], t[n + 1] = p
    PROVE  Range(t) = Range(s) \cup {p}
<1>1. ASSUME NEW x \in Range(t)
      PROVE  x \in Range(s) \cup {p}
  <2>1. PICK i \in 1..(n + 1) : x = t[i]
    BY DEF Range
  <2>2. i \in 1..n \/ i = n + 1
    BY <2>1
  <2> QED  BY <2>1, <2>2 DEF Range
<1>2. ASSUME NEW x \in Range(s)
      PROVE  x \in Range(t)
  <2>1. PICK i \in 1..n : x = s[i]
    BY DEF Range
  <2>2. i \in 1..(n + 1) /\ t[i] = s[i]
    BY <2>1
  <2> QED  BY <2>1, <2>2 DEF Range
<1>3. p \in Range(t)
  <2>1. n + 1 \in 1..(n + 1)
    OBVIOUS
  <2> QED  BY <2>1 DEF Range
<1> QED  BY <1>1, <1>2, <1>3

(* The pieces on each connection after a write.                            *)
LEMMA WriteAdds ==
    ASSUME SlotInv, NEW c \in Callers, Write(c)
    PROVE  /\ Range(conns'[slot]) = Range(conns[slot]) \cup {PieceOf(c, written[c] + 1)}
           /\ \A k \in 1..Len(conns) : k # slot => Range(conns'[k]) = Range(conns[k])
<1>1. /\ conns[slot] \in Seq(Piece) /\ conns'[slot] \in Seq(Piece)
      /\ Len(conns'[slot]) = Len(conns[slot]) + 1
      /\ \A i \in 1..Len(conns[slot]) : conns'[slot][i] = conns[slot][i]
      /\ conns'[slot][Len(conns[slot]) + 1] = PieceOf(c, written[c] + 1)
      /\ \A k \in 1..Len(conns) : k # slot => conns'[k] = conns[k]
  BY WriteEffect
<1>2. /\ Len(conns[slot]) \in Nat
      /\ DOMAIN conns[slot] = 1..Len(conns[slot])
      /\ DOMAIN conns'[slot] = 1..(Len(conns[slot]) + 1)
  BY <1>1, LenProperties
<1>3. Range(conns'[slot]) = Range(conns[slot]) \cup {PieceOf(c, written[c] + 1)}
  <2> DEFINE s == conns[slot]
             t == conns'[slot]
             p == PieceOf(c, written[c] + 1)
  <2>1. PICK n \in Nat : n = Len(s)
    BY <1>2
  <2>2. /\ DOMAIN s = 1..n /\ DOMAIN t = 1..(n + 1)
        /\ \A i \in 1..n : t[i] = s[i]
        /\ t[n + 1] = p
    BY <1>1, <1>2, <2>1
  <2> HIDE DEF s, t, p
  <2>3. Range(t) = Range(s) \cup {p}
    BY <2>2, SetOfLonger
  <2> QED  BY <2>3 DEF s, t, p
<1> QED  BY <1>1, <1>3

(* Every piece on a connection is one of a task.                           *)
LEMMA PiecesTyped ==
    ASSUME SlotInv, NEW k \in 1..Len(conns)
    PROVE  Range(conns[k]) \subseteq Piece
<1>1. conns[k] \in Seq(Piece)
  BY DEF SlotInv
<1>2. conns[k] \in [1..Len(conns[k]) -> Piece]
  BY <1>1, LenProperties
<1> QED  BY <1>2 DEF Range

(* A task that has written nothing of its frame has no piece anywhere.     *)
LEMMA NothingYet ==
    ASSUME SlotInv, Known, NEW c \in Callers, written[c] = 0,
           NEW k \in 1..Len(conns), NEW q \in Range(conns[k]), q.by = c
    PROVE  q.call # calls[c]
<1>1. q \in Piece
  BY PiecesTyped
<1> QED  BY <1>1 DEF Known, Piece

(* The third part of the invariant is kept by a call, and by the steps     *)
(* that end one without a write.                                           *)
LEMMA PieceKeptBegin ==
    ASSUME SlotInv, PieceInv, NEW c \in Callers, Begins(c)
    PROVE  PieceInv'
<1>1. /\ pc[c] \in Returned /\ pc'[c] \in {"lock", "too_large"}
      /\ calls'[c] = calls[c] + 1 /\ calls[c] \in Nat
      /\ \A d \in Callers : d # c =>
            pc'[d] = pc[d] /\ written'[d] = written[d] /\ calls'[d] = calls[d]
      /\ UNCHANGED <<conns, slot>>
  BY ZenonT(30), BeginEffect DEF SlotInv
<1>2. ASSUME NEW k \in 1..Len(conns), NEW q \in Range(conns[k])
      PROVE  /\ q.call \leq calls'[q.by]
             /\ q.call = calls'[q.by] =>
                   q.part \leq written'[q.by] /\ (pc'[q.by] = "write" => k = slot)
  <2>1. q.by \in Callers /\ q.call \in Nat /\ q.call \leq calls[q.by]
    BY PiecesTyped DEF Piece, PieceInv, Known
  <2>2. CASE q.by = c
    BY <1>1, <2>1, <2>2
  <2>3. CASE q.by # c
    BY <1>1, <2>1, <2>3 DEF PieceInv, Known
  <2> QED  BY Zenon, <2>2, <2>3
<1>3. Known'
  BY <1>1, <1>2 DEF Known
<1>4. OneConnection'
  BY <1>1 DEF PieceInv, OneConnection
<1>5. Present'
  BY <1>1 DEF PieceInv, Present, Complete, PieceOf
<1> QED  BY <1>3, <1>4, <1>5 DEF PieceInv

(* It is kept by the steps that end a call without a write, whatever they  *)
(* leave in the slot: nobody else is writing there.                        *)
LEMMA PieceKeptEnd ==
    ASSUME SlotInv, PieceInv, NEW c \in Callers,
           pc'[c] \in {"connect", "io", "dropped"},
           \A d \in Callers : d # c => pc'[d] = pc[d],
           slot' = slot \/ \A d \in Callers : d # c => pc[d] # "write",
           UNCHANGED <<conns, written, calls>>
    PROVE  PieceInv'
<1>1. ASSUME NEW k \in 1..Len(conns), NEW q \in Range(conns[k])
      PROVE  /\ q.call \leq calls[q.by]
             /\ q.call = calls[q.by] =>
                   q.part \leq written[q.by] /\ (pc'[q.by] = "write" => k = slot')
  <2>1. q.by \in Callers
    BY PiecesTyped DEF Piece
  <2> QED  BY <2>1 DEF PieceInv, Known
<1>2. Known'
  BY <1>1 DEF Known
<1>3. OneConnection'
  BY DEF PieceInv, OneConnection
<1>4. Present'
  BY DEF PieceInv, Present, Complete, PieceOf
<1> QED  BY <1>2, <1>3, <1>4 DEF PieceInv

(* It is kept when a task gets the slot to write in, old or new, since it  *)
(* has no piece anywhere yet.                                              *)
LEMMA PieceKeptStart ==
    ASSUME SlotInv, PieceInv, NEW c \in Callers, written[c] = 0,
           pc'[c] = "write",
           \A d \in Callers : d # c => pc'[d] = pc[d] /\ pc[d] # "write",
           Len(conns') \in Nat, Len(conns) \in Nat, Len(conns) \leq Len(conns'),
           \A k \in 1..Len(conns) : Range(conns'[k]) = Range(conns[k]),
           \A k \in 1..Len(conns') : k \notin 1..Len(conns) => Range(conns'[k]) = {},
           UNCHANGED <<written, calls>>
    PROVE  PieceInv'
<1>1. ASSUME NEW k \in 1..Len(conns'), NEW q \in Range(conns'[k])
      PROVE  /\ k \in 1..Len(conns) /\ q \in Range(conns[k])
             /\ q.call \leq calls[q.by]
             /\ q.call = calls[q.by] =>
                   q.part \leq written[q.by] /\ (pc'[q.by] = "write" => k = slot')
  <2>1. k \in 1..Len(conns) /\ q \in Range(conns[k])
    BY Zenon
  <2>2. q.by \in Callers
    BY <2>1, PiecesTyped DEF Piece
  <2>3. q.by = c => q.call # calls[c]
    BY <2>1, NothingYet DEF PieceInv
  <2>4. /\ q.call \leq calls[q.by]
        /\ q.call = calls[q.by] => q.part \leq written[q.by]
    BY <2>1 DEF PieceInv, Known
  <2> QED  BY <2>1, <2>2, <2>3, <2>4
<1>2. Known'
  BY <1>1 DEF Known
<1>3. OneConnection'
  BY <1>1 DEF PieceInv, OneConnection
<1>4. ASSUME NEW d \in Callers, pc'[d] = "ok"
      PROVE  Complete(d, calls[d])' # {}
  <2>1. pc[d] = "ok"
    BY <1>4
  <2>2. PICK k \in 1..Len(conns) : k \in Complete(d, calls[d])
    BY <2>1 DEF PieceInv, Present, Complete
  <2>3. k \in 1..Len(conns') /\ Range(conns'[k]) = Range(conns[k])
    OBVIOUS
  <2> QED  BY <2>2, <2>3 DEF Complete
<1>5. Present'
  BY <1>4 DEF Present
<1> QED  BY <1>2, <1>3, <1>5 DEF PieceInv

(* It is kept by a write: the new piece joins those of its frame in the    *)
(* slot, and with the last one the frame is complete there.                *)
LEMMA PieceKeptWrite ==
    ASSUME SlotInv, PieceInv, NEW c \in Callers, Write(c)
    PROVE  PieceInv'
<1> DEFINE p == PieceOf(c, written[c] + 1)
<1>1. /\ pc[c] = "write" /\ UNCHANGED <<slot, calls>>
      /\ written[c] \in Nat /\ written'[c] = written[c] + 1
      /\ \A d \in Callers : d # c => written'[d] = written[d]
  BY DEF SlotInv, Write
<1>2. \A d \in Callers : d # c => pc[d] # "write"
  BY <1>1, Alone
<1>3. /\ \A d \in Callers : d # c => pc'[d] = pc[d]
      /\ pc'[c] = "write" \/ (pc'[c] = "ok" /\ written[c] + 1 = Parts)
  BY <1>1 DEF SlotInv, Write, Return
<1>4. /\ slot \in 1..Len(conns) /\ Len(conns') = Len(conns)
      /\ Range(conns'[slot]) = Range(conns[slot]) \cup {p}
      /\ \A k \in 1..Len(conns) : k # slot => Range(conns'[k]) = Range(conns[k])
  BY ZenonT(30), WriteEffect, WriteAdds
<1>5. p.by = c /\ p.call = calls[c] /\ p.part = written[c] + 1
  BY DEF PieceOf
<1> HIDE DEF p
<1>6. ASSUME NEW k \in 1..Len(conns), NEW q \in Range(conns[k])
      PROVE  /\ q.by \in Callers /\ q.part \in Nat
             /\ q.call \leq calls[q.by]
             /\ q.call = calls[q.by] => q.part \leq written[q.by]
             /\ q.by = c /\ q.call = calls[c] => k = slot
  BY <1>1, PiecesTyped DEF Piece, PieceInv, Known
<1>7. ASSUME NEW k \in 1..Len(conns), NEW q \in Range(conns'[k])
      PROVE  q \in Range(conns[k]) \/ (q = p /\ k = slot)
  BY <1>4
<1>8. Known'
  <2>1. ASSUME NEW k \in 1..Len(conns), NEW q \in Range(conns'[k])
        PROVE  /\ q.call \leq calls[q.by]
               /\ q.call = calls[q.by] =>
                     q.part \leq written'[q.by] /\ (pc'[q.by] = "write" => k = slot)
    <3>1. CASE q \in Range(conns[k])
      BY <1>1, <1>2, <1>3, <1>6, <3>1
    <3>2. CASE q = p /\ k = slot
      BY <1>1, <1>5, <3>2 DEF SlotInv
    <3> QED  BY <1>7, <3>1, <3>2
  <2> QED  BY <1>1, <1>4, <2>1 DEF Known
<1>9. OneConnection'
  <2>1. ASSUME NEW k \in 1..Len(conns), NEW l \in 1..Len(conns),
               NEW q \in Range(conns'[k]), NEW r \in Range(conns'[l]),
               q.by = r.by, q.call = r.call
        PROVE  k = l
    BY <1>5, <1>6, <1>7, <2>1 DEF PieceInv, OneConnection
  <2> QED  BY <1>4, <2>1 DEF OneConnection
<1>10. \A n \in 1..(written[c] + 1) : PieceOf(c, n) \in Range(conns'[slot])
  <2>1. ASSUME NEW n \in 1..(written[c] + 1)
        PROVE  PieceOf(c, n) \in Range(conns'[slot])
    <3>1. n \in 1..written[c] \/ n = written[c] + 1
      BY <1>1
    <3> QED  BY <1>1, <1>4, <3>1 DEF PieceInv, Present, p
  <2> QED  BY <2>1
<1>11. ASSUME NEW d \in Callers
       PROVE  /\ pc'[d] = "write" =>
                    \A n \in 1..written'[d] : PieceOf(d, n)' \in Range(conns'[slot])
              /\ pc'[d] = "ok" => Complete(d, calls[d])' # {}
  <2>1. CASE d = c
    <3>1. \A n \in 1..(written[c] + 1) :
             [by |-> c, call |-> calls[c], part |-> n] \in Range(conns'[slot])
      BY <1>10 DEF PieceOf
    <3>2. pc'[c] = "ok" => slot \in Complete(c, calls[c])'
      BY <1>1, <1>3, <1>4, <3>1 DEF Complete
    <3> QED  BY <1>1, <2>1, <3>1, <3>2 DEF PieceOf
  <2>2. CASE d # c
    <3>1. pc'[d] = pc[d] /\ pc[d] # "write"
      BY <1>2, <1>3, <2>2
    <3>2. ASSUME pc[d] = "ok"
          PROVE  Complete(d, calls[d])' # {}
      <4>1. PICK k \in 1..Len(conns) : k \in Complete(d, calls[d])
        BY <3>2 DEF PieceInv, Present, Complete
      <4>2. Range(conns[k]) \subseteq Range(conns'[k])
        BY <1>4
      <4>3. k \in Complete(d, calls[d])'
        BY <1>1, <1>4, <4>1, <4>2 DEF Complete
      <4> QED  BY <4>3
    <3> QED  BY <3>1, <3>2
  <2> QED  BY <2>1, <2>2
<1>12. Present'
  BY <1>1, <1>11 DEF Present
<1> QED  BY <1>8, <1>9, <1>12 DEF PieceInv

(* The third part of the invariant is inductive.                           *)
LEMMA PieceKept ==
    ASSUME SlotInv, PieceInv, [Next]_vars
    PROVE  PieceInv'
<1>1. CASE UNCHANGED connVars
  <2>1. UNCHANGED <<conns, slot, pc, written, calls>>
    BY <1>1 DEF connVars
  <2>2. Known'
    BY <2>1 DEF PieceInv, Known
  <2>3. OneConnection'
    BY <2>1 DEF PieceInv, OneConnection
  <2>4. Present'
    BY <2>1 DEF PieceInv, Present, Complete, PieceOf
  <2> QED  BY <2>2, <2>3, <2>4 DEF PieceInv
<1>2. ASSUME NEW c \in Callers, Lock(c)
      PROVE  PieceInv'
  <2>1. /\ pc[c] = "lock" /\ UNCHANGED <<conns, slot, written, calls>>
        /\ pc'[c] = IF slot = 0 THEN "connect" ELSE "write"
        /\ \A d \in Callers : d # c => pc'[d] = pc[d]
    BY <1>2 DEF Lock, SlotInv
  <2>2. \A d \in Callers : d # c => pc[d] # "write"
    BY <1>2, Alone DEF Lock
  <2>3. CASE slot = 0
    BY <2>1, <2>3, PieceKeptEnd
  <2>4. CASE slot # 0
    <3>1. written[c] = 0 /\ Len(conns) \in Nat
      BY <2>1, LenProperties DEF SlotInv, Placed
    <3> QED  BY <2>1, <2>2, <2>4, <3>1, PieceKeptStart
  <2> QED  BY <2>3, <2>4
<1>3. ASSUME NEW c \in Callers, ConnectOk(c)
      PROVE  PieceInv'
  <2>1. /\ pc[c] = "connect" /\ pc'[c] = "write" /\ UNCHANGED <<written, calls>>
        /\ \A d \in Callers : d # c => pc'[d] = pc[d]
    BY <1>3 DEF ConnectOk, SlotInv
  <2>2. written[c] = 0 /\ \A d \in Callers : d # c => pc[d] # "write"
    BY <2>1, Alone DEF SlotInv, Placed
  <2>3. /\ Len(conns) \in Nat /\ Len(conns') = Len(conns) + 1
        /\ conns'[Len(conns) + 1] = <<>>
        /\ \A k \in 1..Len(conns) : conns'[k] = conns[k]
    BY <1>3, ConnectEffect
  <2>4. \A k \in 1..Len(conns') : k \notin 1..Len(conns) => Range(conns'[k]) = {}
    <3>1. Range(<<>>) = {}
      BY DEF Range
    <3> QED  BY <2>3, <3>1
  <2> QED  BY <2>1, <2>2, <2>3, <2>4, PieceKeptStart
<1>4. ASSUME NEW c \in Callers, ConnectErr(c)
      PROVE  PieceInv'
  <2>1. Return(c, "io") /\ "io" \in Returned /\ UNCHANGED <<conns, slot, written, calls>>
    BY <1>4 DEF ConnectErr, Returned
  <2> QED  BY <2>1, ReturnEffect, PieceKeptEnd
<1>5. ASSUME NEW c \in Callers, WriteErr(c)
      PROVE  PieceInv'
  <2>1. /\ pc[c] = "write" /\ Return(c, "io") /\ "io" \in Returned
        /\ UNCHANGED <<conns, written, calls>>
    BY <1>5 DEF WriteErr, Returned
  <2>2. \A d \in Callers : d # c => pc[d] # "write"
    BY <2>1, Alone
  <2> QED  BY <2>1, <2>2, ReturnEffect, PieceKeptEnd
<1>6. ASSUME NEW c \in Callers, DropSend(c)
      PROVE  PieceInv'
  <2>1. /\ Return(c, "dropped") /\ "dropped" \in Returned
        /\ UNCHANGED <<conns, slot, written, calls>>
    BY <1>6 DEF DropSend, Returned
  <2> QED  BY <2>1, ReturnEffect, PieceKeptEnd
<1> QED  BY <1>1, <1>2, <1>3, <1>4, <1>5, <1>6, NextCases, PieceKeptBegin, PieceKeptWrite

-----------------------------------------------------------------------------
(* A frame is complete on one connection at most: its first piece is.      *)
LEMMA CompleteOnce ==
    ASSUME PieceInv, NEW c \in Callers, NEW n,
           NEW k \in Complete(c, n), NEW l \in Complete(c, n)
    PROVE  k = l
<1> DEFINE p == [by |-> c, call |-> n, part |-> 1]
<1>1. 1 \in 1..Parts
  BY ConnAssumption
<1>2. /\ k \in 1..Len(conns) /\ p \in Range(conns[k])
      /\ l \in 1..Len(conns) /\ p \in Range(conns[l])
  BY <1>1 DEF Complete
<1> HIDE DEF p
<1> QED  BY <1>2 DEF PieceInv, OneConnection

(* A send that has not written its last piece is complete nowhere.         *)
LEMMA Unfinished ==
    ASSUME SlotInv, PieceInv, NEW c \in Callers, pc[c] # "ok"
    PROVE  Complete(c, calls[c]) = {}
<1> SUFFICES ASSUME NEW k \in Complete(c, calls[c]) PROVE FALSE
  OBVIOUS
<1> DEFINE p == PieceOf(c, Parts)
<1>1. Parts \in Nat /\ Parts \in 1..Parts
  BY ConnAssumption
<1>2. k \in 1..Len(conns) /\ p \in Range(conns[k])
  BY <1>1 DEF Complete, PieceOf
<1>3. p.by = c /\ p.call = calls[c] /\ p.part = Parts
  BY DEF PieceOf
<1> HIDE DEF p
<1>4. Parts \leq written[c]
  BY <1>2, <1>3 DEF PieceInv, Known
<1>5. written[c] \in Nat /\ written[c] < Parts
  BY DEF SlotInv, Placed
<1> QED  BY <1>1, <1>4, <1>5

(* The invariant gives what send_connected promises of a result.           *)
LEMMA OkFromPieces ==
    ASSUME SlotInv, PieceInv
    PROVE  OkMeansWritten
BY CompleteOnce, Unfinished DEF OkMeansWritten, PieceInv, Present

(* The whole invariant holds at the start.                                 *)
LEMMA StreamInit ==
    ASSUME Init
    PROVE  SlotInv /\ FrameInv /\ PieceInv
<1>1. Parts \in Nat /\ 0 < Parts
  BY ConnAssumption
<1>2. conns = <<>> /\ conns \in Seq(Seq(Piece)) /\ Len(conns) = 0
  BY DEF Init
<1>3. /\ slot = 0 /\ failed = {} /\ torn = {}
      /\ pc = [c \in Callers |-> "idle"]
      /\ written = [c \in Callers |-> 0] /\ calls = [c \in Callers |-> 0]
  BY DEF Init
<1>4. SlotInv
  BY <1>1, <1>2, <1>3 DEF SlotInv, Placed, Returned
<1>5. FrameInv
  BY <1>2, <1>3 DEF FrameInv, FramesWhole
<1>6. PieceInv
  BY <1>2, <1>3 DEF PieceInv, Known, OneConnection, Present
<1> QED  BY <1>4, <1>5, <1>6

(* The inductive invariant holds in every state.                           *)
LEMMA StreamInvariant == Spec => [](SlotInv /\ FrameInv /\ PieceInv)
<1>1. SlotInv /\ FrameInv /\ PieceInv /\ [Next]_vars => (SlotInv /\ FrameInv /\ PieceInv)'
  BY SlotKept, FrameKept, PieceKept
<1> QED  BY StreamInit, <1>1, PTL DEF Spec

(* For any number of tasks sharing the slot, calls, connections and writes *)
(* per frame: a connection no dropped send has torn carries whole frames,  *)
(* each the unbroken work of one task, and at most the last one unfinished *)
(* (FramesWhole); a send that returned Ok has its whole frame on exactly   *)
(* one connection, and one that returned an error or was dropped on none   *)
(* (OkMeansWritten).                                                       *)
THEOREM StreamSafe == Spec => [](FramesWhole /\ OkMeansWritten)
<1>1. SlotInv /\ FrameInv /\ PieceInv => FramesWhole /\ OkMeansWritten
  BY OkFromPieces DEF FrameInv
<1> QED  BY StreamInvariant, <1>1, PTL

(* A connection that failed a send is out of the slot before the next one, *)
(* so no connection fails two sends.                                       *)
THEOREM FailsOneSend == Spec => FailsOnce
<1>1. SlotInv /\ [Next]_vars =>
        [\A c \in Callers : pc[c] = "write" /\ pc'[c] = "io" => slot \notin failed]_vars
  BY DEF SlotInv
<1> QED  BY StreamInvariant, <1>1, PTL DEF Spec, FailsOnce

=============================================================================
