------------------------------- MODULE Monitor -------------------------------
(***************************************************************************)
(* The pipeline and those who watch its counters: while tasks run          *)
(* handle_message (Pipeline), the SIGUSR1 handler and the stats socket     *)
(* take snapshots of the same MetricsStore (Metrics).                      *)
(***************************************************************************)
EXTENDS Pipeline

CONSTANT Readers    \* the SIGUSR1 handler and the stats socket task

VARIABLE snap       \* the snapshot each reader is taking or took last

M == INSTANCE Metrics WITH open <- Open

monitorVars == <<vars, snap>>

MonitorInit ==
    /\ Init
    /\ snap = [r \in Readers |-> [unread |-> {}, seen |-> M!Zero, floor |-> M!Zero]]

Watch(r) ==
    /\ UNCHANGED vars
    /\ \/ M!SnapshotBegin(r)
       \/ \E c \in Counters : M!Load(r, c)

MonitorNext ==
    \/ Next /\ UNCHANGED snap
    \/ \E r \in Readers : Watch(r)

MonitorSpec == MonitorInit /\ [][MonitorNext]_monitorVars

-----------------------------------------------------------------------------
(* Whatever tasks, reloads and readers interleave, every counter a         *)
(* snapshot shows lies between its value when the snapshot began and its   *)
(* value now, and the settled messages shown have been received by now     *)
(* (metrics.rs, snapshot).                                                 *)
SnapshotBracket == M!SnapshotBracket

(* Seen from the counters the daemon is Metrics: its tasks receive and     *)
(* settle, its readers load, and nothing else touches the store.           *)
ImplementsMetrics == M!MetricsSpec

=============================================================================
