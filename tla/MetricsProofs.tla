---------------------------- MODULE MetricsProofs ----------------------------
(***************************************************************************)
(* The counters and their snapshots, for any number of tasks, readers and  *)
(* messages.                                                               *)
(***************************************************************************)
EXTENDS Metrics, FiniteSetTheorems, TLAPS

(* What the books rest on: the four counters are numbers, and the messages *)
(* in hand can be counted.                                                 *)
Books == TypeOK /\ IsFiniteSet(open) /\ Accounted

(* Counting a received message keeps the books (inc_received).             *)
LEMMA ReceiveKeepsBooks ==
    ASSUME Books, NEW t \in Tasks, Receive(t)
    PROVE  Books'
<1> USE DEF Books, TypeOK, Counters, Outcomes
<1>1. metrics' \in [Counters -> Nat] /\ open' \subseteq Tasks
  BY DEF Receive, Inc
<1>2. IsFiniteSet(open') /\ Cardinality(open') = Cardinality(open) + 1
  BY FS_AddElement DEF Receive
<1>3. /\ metrics'["received"] = metrics["received"] + 1
      /\ \A c \in Outcomes : metrics'[c] = metrics[c]
  BY DEF Receive, Inc
<1>4. Cardinality(open) \in Nat
  BY FS_CardinalityType
<1> QED  BY <1>1, <1>2, <1>3, <1>4 DEF Accounted, Settled

(* Counting the outcome of a message keeps the books (inc_forwarded,       *)
(* inc_dropped, inc_errors).                                               *)
LEMMA SettleKeepsBooks ==
    ASSUME Books, NEW t \in Tasks, NEW c \in Outcomes, Settle(t, c)
    PROVE  Books'
<1> USE DEF Books, TypeOK, Counters, Outcomes
<1>1. metrics' \in [Counters -> Nat] /\ open' \subseteq Tasks
  BY DEF Settle, Inc
<1>2. IsFiniteSet(open') /\ Cardinality(open') = Cardinality(open) - 1
  BY FS_RemoveElement DEF Settle
<1>3. metrics' = [metrics EXCEPT ![c] = @ + 1]
  BY DEF Settle, Inc
<1>4. Cardinality(open) \in Nat
  BY FS_CardinalityType
<1>5. Settled' = Settled + 1 /\ metrics'["received"] = metrics["received"]
  BY <1>3 DEF Settled
<1> QED  BY <1>1, <1>2, <1>4, <1>5 DEF Accounted, Settled

(* The ledger is balanced at every moment: received is the sum of the      *)
(* three outcomes and the messages in hand.                                *)
THEOREM LedgerBalances == Spec => []Accounted
<1>1. Init => Books
  BY FS_EmptySet DEF Init, Books, TypeOK, Accounted, Settled, Counters, Outcomes
<1>2. Books /\ [Next]_ledgerVars => Books'
  <2> SUFFICES ASSUME Books, [Next]_ledgerVars PROVE Books'
    OBVIOUS
  <2>1. CASE UNCHANGED ledgerVars
    BY <2>1 DEF ledgerVars, Books, TypeOK, Accounted, Settled
  <2>2. CASE Next
    BY <2>2, ReceiveKeepsBooks, SettleKeepsBooks DEF Next
  <2> QED  BY <2>1, <2>2
<1>3. Books => Accounted
  BY DEF Books
<1> QED  BY <1>1, <1>2, <1>3, PTL DEF Spec

-----------------------------------------------------------------------------
(* The inductive form of SnapshotBracket: no load is ahead of its counter, *)
(* no load that was made is behind the floor.                              *)
Bracketed ==
    \A r \in Readers : \A c \in Counters :
        /\ snap[r].floor[c] \leq metrics[c]
        /\ snap[r].seen[c] \leq metrics[c]
        /\ c \notin snap[r].unread => snap[r].floor[c] \leq snap[r].seen[c]

MetricsInv == Books /\ snap \in [Readers -> Snapshot] /\ Bracketed

(* The counters only grow.                                                 *)
LEMMA CountersGrow ==
    ASSUME Books, Count
    PROVE  Books' /\ \A c \in Counters : metrics[c] \leq metrics'[c]
<1>1. PICK t \in Tasks : Receive(t) \/ \E c \in Outcomes : Settle(t, c)
  BY DEF Count
<1>2. Books'
  BY <1>1, ReceiveKeepsBooks, SettleKeepsBooks
<1>3. \E d \in Counters : metrics' = [metrics EXCEPT ![d] = @ + 1]
  BY <1>1 DEF Receive, Settle, Inc, Counters
<1> QED  BY <1>2, <1>3 DEF Books, TypeOK

(* A snapshot is bracketed by the counters at its start and now, and shows *)
(* no message settled that has not been received by now, whatever the      *)
(* order of the loads.                                                     *)
THEOREM SnapshotsBracketed == MetricsSpec => [](SnapshotBracket /\ Accounted)
<1>1. MetricsInit => MetricsInv
  BY FS_EmptySet DEF MetricsInit, Init, MetricsInv, Books, TypeOK, Accounted,
     Settled, Counters, Outcomes, Bracketed, Snapshot, Zero
<1>2. MetricsInv /\ [MetricsNext]_vars => MetricsInv'
  <2> SUFFICES ASSUME MetricsInv, [MetricsNext]_vars PROVE MetricsInv'
    OBVIOUS
  <2>1. CASE UNCHANGED vars
    BY <2>1 DEF vars, MetricsInv, Books, TypeOK, Accounted, Settled, Bracketed
  <2>2. CASE Count
    <3>1. Books' /\ \A c \in Counters : metrics[c] \leq metrics'[c]
      BY <2>2, CountersGrow DEF MetricsInv
    <3>2. snap' = snap
      BY <2>2 DEF Count
    <3>3. Bracketed'
      BY <3>1, <3>2 DEF MetricsInv, Bracketed, Books, TypeOK, Snapshot
    <3> QED  BY <3>1, <3>2, <3>3 DEF MetricsInv
  <2>3. ASSUME NEW r \in Readers, SnapshotBegin(r) PROVE MetricsInv'
    <3>1. Books'
      BY <2>3 DEF SnapshotBegin, ledgerVars, MetricsInv, Books, TypeOK, Accounted, Settled
    <3>2. snap' \in [Readers -> Snapshot]
      BY <2>3 DEF SnapshotBegin, MetricsInv, Books, TypeOK, Snapshot, Zero
    <3>3. Bracketed'
      BY <2>3 DEF SnapshotBegin, ledgerVars, MetricsInv, Books, TypeOK, Bracketed,
         Snapshot, Zero
    <3> QED  BY <3>1, <3>2, <3>3 DEF MetricsInv
  <2>4. ASSUME NEW r \in Readers, NEW c \in Counters, Load(r, c) PROVE MetricsInv'
    <3>1. Books'
      BY <2>4 DEF Load, ledgerVars, MetricsInv, Books, TypeOK, Accounted, Settled
    <3>2. snap' \in [Readers -> Snapshot]
      BY <2>4 DEF Load, MetricsInv, Books, TypeOK, Snapshot
    <3>3. Bracketed'
      BY <2>4 DEF Load, ledgerVars, MetricsInv, Books, TypeOK, Bracketed, Snapshot
    <3> QED  BY <3>1, <3>2, <3>3 DEF MetricsInv
  <2> QED  BY <2>1, <2>2, <2>3, <2>4 DEF MetricsNext
<1>3. MetricsInv => SnapshotBracket /\ Accounted
  <2> SUFFICES ASSUME MetricsInv PROVE SnapshotBracket
    BY DEF MetricsInv, Books
  <2>1. ASSUME NEW r \in Readers PROVE Shown(snap[r]) \leq metrics["received"]
    <3>1. Cardinality(open) \in Nat
      BY FS_CardinalityType DEF MetricsInv, Books
    <3>2. \A c \in Outcomes : /\ snap[r].seen[c] \leq metrics[c]
                              /\ snap[r].seen[c] \in Nat /\ metrics[c] \in Nat
      BY DEF MetricsInv, Books, TypeOK, Bracketed, Snapshot, Counters
    <3> QED  BY <3>1, <3>2 DEF MetricsInv, Books, Accounted, Settled, Shown, Outcomes
  <2> QED  BY <2>1 DEF SnapshotBracket, MetricsInv, Bracketed
<1> QED  BY <1>1, <1>2, <1>3, PTL DEF MetricsSpec

=============================================================================
