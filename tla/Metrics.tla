------------------------------- MODULE Metrics -------------------------------
(***************************************************************************)
(* MetricsStore (metrics.rs): the tasks of Ledger move the counters while  *)
(* readers, the SIGUSR1 handler and the stats socket, take snapshots of    *)
(* them.  A snapshot is four Relaxed loads of four atomics, so it takes    *)
(* four steps, in no particular order.                                     *)
(***************************************************************************)
EXTENDS Ledger

CONSTANTS
    Readers,        \* the SIGUSR1 handler and the stats socket task
    MaxReceived     \* bound: messages received

VARIABLE snap       \* the snapshot each reader is taking or took last

vars == <<metrics, open, snap>>

Zero == [c \in Counters |-> 0]

\* unread: loads still to do; floor: the counters when the snapshot began.
Snapshot == [unread : SUBSET Counters, seen : [Counters -> Nat],
             floor : [Counters -> Nat]]

MetricsInit ==
    /\ Init
    /\ snap = [r \in Readers |-> [unread |-> {}, seen |-> Zero, floor |-> Zero]]

Count ==
    /\ \E t \in Tasks :
          \/ metrics["received"] < MaxReceived /\ Receive(t)
          \/ \E c \in Outcomes : Settle(t, c)
    /\ UNCHANGED snap

SnapshotBegin(r) ==
    /\ snap[r].unread = {}
    /\ snap' = [snap EXCEPT ![r] =
                   [unread |-> Counters, seen |-> Zero, floor |-> metrics]]
    /\ UNCHANGED ledgerVars

MutLoad(r, c) ==
    /\ c \in snap[r].unread
    /\ snap' = [snap EXCEPT ![r].unread = @ \ {c},
                            ![r].seen[c] = metrics[c] - snap[r].floor[c]]
    /\ UNCHANGED ledgerVars

Load(r, c) ==
    /\ c \in snap[r].unread
    /\ snap' = [snap EXCEPT ![r] =
                   [unread |-> @.unread \ {c}, floor |-> @.floor,
                    seen |-> [@.seen EXCEPT ![c] = metrics[c]]]]
    /\ UNCHANGED ledgerVars

MetricsNext ==
    \/ Count
    \/ \E r \in Readers : SnapshotBegin(r)
    \/ \E r \in Readers, c \in Counters : Load(r, c)

MetricsSpec == MetricsInit /\ [][MetricsNext]_vars

-----------------------------------------------------------------------------
Shown(s) == s.seen["forwarded"] + s.seen["dropped"] + s.seen["errors"]

(* A snapshot is as good as Relaxed loads allow: every counter it shows    *)
(* lies between its value when the snapshot began and its value now, and   *)
(* the settled messages it shows have all been received by now.            *)
SnapshotBracket ==
    \A r \in Readers :
        /\ \A c \in Counters \ snap[r].unread :
              /\ snap[r].floor[c] \leq snap[r].seen[c]
              /\ snap[r].seen[c] \leq metrics[c]
        /\ Shown(snap[r]) \leq metrics["received"]

=============================================================================
