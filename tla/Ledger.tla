------------------------------- MODULE Ledger --------------------------------
(***************************************************************************)
(* What the counters of MetricsStore promise, whatever the sessions and    *)
(* workers do in between: a message is counted as received once and, when  *)
(* it is settled, under exactly one of the other three counters.           *)
(***************************************************************************)
EXTENDS Naturals, FiniteSets

CONSTANT Tasks          \* tasks that call handle_message

VARIABLES
    metrics,            \* the four AtomicU64 of MetricsStore
    open                \* tasks with a message received and not yet settled

ledgerVars == <<metrics, open>>

Outcomes == {"forwarded", "dropped", "errors"}
Counters == Outcomes \cup {"received"}

Inc(c) == metrics' = [metrics EXCEPT ![c] = @ + 1]

Init == metrics = [c \in Counters |-> 0] /\ open = {}

Receive(t) ==
    /\ t \notin open
    /\ open' = open \cup {t}
    /\ Inc("received")

Settle(t, c) ==
    /\ t \in open
    /\ open' = open \ {t}
    /\ Inc(c)

Next == \E t \in Tasks : Receive(t) \/ \E c \in Outcomes : Settle(t, c)

Spec == Init /\ [][Next]_ledgerVars

-----------------------------------------------------------------------------
TypeOK ==
    /\ metrics \in [Counters -> Nat]
    /\ open \subseteq Tasks

Settled == metrics["forwarded"] + metrics["dropped"] + metrics["errors"]

(* No message is lost from, or counted twice in, the metrics: at every     *)
(* moment the received counter is the sum of the other three plus the      *)
(* messages the tasks still hold.                                          *)
Accounted == metrics["received"] = Settled + Cardinality(open)

=============================================================================
