------------------------------ MODULE Pipeline -------------------------------
(***************************************************************************)
(* handle_message (session.rs), run by many session and worker tasks at    *)
(* once, together with what it shares with the rest of the daemon: the     *)
(* watch channel that a SIGHUP reload writes (main.rs) and the atomic      *)
(* counters (metrics.rs).  Tokio runs the tasks on several threads, so a   *)
(* step ends wherever another task can see or change shared state: at      *)
(* every counter update, at the borrow of the watch channel and at every   *)
(* forward.                                                                *)
(***************************************************************************)
EXTENDS Validator, Sequences, FiniteSets

CONSTANTS
    Tasks,          \* session tasks and datagram workers
    Inputs,         \* MSG fields clients send, a set of Message
    Configs,        \* validators build_validator can produce
    MaxReceived,    \* bound: messages received
    MaxGenerations  \* bound: validators published, the first one included

ASSUME PipelineAssumption ==
    /\ IsFiniteSet(Tasks)
    /\ Inputs \subseteq Message
    /\ Configs \subseteq ValidatorConfig
    /\ MaxReceived \in Nat
    /\ MaxGenerations \in Nat \ {0}

VARIABLES
    published,  \* validators sent on the watch channel, the current one last
    metrics,    \* MetricsStore
    pc,         \* where each task is in handle_message
    job,        \* the message each task handles
    wire,       \* client messages that reached rsyslog (history)
    dropped     \* messages discarded by validation (history)

vars == <<published, metrics, pc, job, wire, dropped>>

Outcomes == {"forwarded", "dropped", "errors"}
Counters == Outcomes \cup {"received"}

\* Points of handle_message between which other tasks may run.  "report" is
\* the await in report_rejection, "forward" the await of the message itself.
Open == {t \in Tasks : pc[t] \in {"received", "reject", "forward", "sent", "failed"}}

Generation == Len(published)

\* id is the value inc_received gave the message, first and last the
\* generations that were current when it was received and when its fate was
\* sealed, using the validator its task holds.
Job == [id : Nat, msg : Message, first : Nat, using : Nat]
NoJob == [id |-> 0]
Fate == [id : Nat, src : Message, out : Message, first : Nat, last : Nat]

Inc(c) == metrics' = [metrics EXCEPT ![c] = @ + 1]

Goto(t, p) == pc' = [pc EXCEPT ![t] = p]

Return(t) == Goto(t, "idle") /\ job' = [job EXCEPT ![t] = NoJob]

-----------------------------------------------------------------------------
Init ==
    /\ \E v \in Configs : published = <<v>>
    /\ metrics = [c \in Counters |-> 0]
    /\ pc = [t \in Tasks |-> "idle"]
    /\ job = [t \in Tasks |-> NoJob]
    /\ wire = {}
    /\ dropped = {}

\* A frame or datagram decoded and parsed: inc_received.
Receive(t, m) ==
    /\ pc[t] = "idle"
    /\ metrics["received"] < MaxReceived
    /\ Inc("received")
    /\ job' = [job EXCEPT ![t] = [id |-> metrics["received"] + 1, msg |-> m,
                                  first |-> Generation, using |-> Generation]]
    /\ Goto(t, "received")
    /\ UNCHANGED <<published, wire, dropped>>

\* Bytes that do not decode (handle_frame_error, process_datagram): reported
\* and not counted.
Malformed(t) ==
    /\ pc[t] = "idle"
    /\ Goto(t, "report")
    /\ UNCHANGED <<published, metrics, job, wire, dropped>>

MutCheck(t) ==
    /\ pc[t] = "received"
    /\ job' = [job EXCEPT ![t] = [@ EXCEPT !.using = 1]]
    /\ Goto(t, IF Accepts(published[1], job[t].msg) THEN "forward" ELSE "reject")
    /\ UNCHANGED <<published, metrics, wire, dropped>>

\* Arc::clone of the borrowed validator, and validate with it.
Check(t) ==
    /\ pc[t] = "received"
    /\ job' = [job EXCEPT ![t] = [@ EXCEPT !.using = Generation]]
    /\ Goto(t, IF Accepts(published[Generation], job[t].msg)
               THEN "forward" ELSE "reject")
    /\ UNCHANGED <<published, metrics, wire, dropped>>

\* The fate of the message of task t, leaving in the form out.
FateOf(t, out) ==
    [id |-> job[t].id, src |-> job[t].msg, out |-> out,
     first |-> job[t].first, last |-> Generation]

MutDrop(t) ==
    /\ pc[t] = "reject"
    /\ dropped' = dropped \cup {FateOf(t, job[t].msg)}
    /\ Goto(t, "report")
    /\ UNCHANGED <<published, metrics, job, wire>>

Drop(t) ==
    /\ pc[t] = "reject"
    /\ Inc("dropped")
    /\ dropped' = dropped \cup {FateOf(t, job[t].msg)}
    /\ Goto(t, "report")
    /\ UNCHANGED <<published, job, wire>>

MutReport(t) ==
    /\ pc[t] = "report"
    /\ Return(t)
    /\ \/ Inc("errors") \/ UNCHANGED metrics
    /\ UNCHANGED <<published, wire, dropped>>

\* report_rejection: whether its forward succeeds is logged and not counted.
Report(t) ==
    /\ pc[t] = "report"
    /\ Return(t)
    /\ UNCHANGED <<published, metrics, wire, dropped>>

MutForwardOk(t) ==
    /\ pc[t] = "forward"
    /\ wire' = wire \cup
         {FateOf(t, PrepareForForwarding(published[Generation], job[t].msg))}
    /\ Goto(t, "sent")
    /\ UNCHANGED <<published, metrics, job, dropped>>

ForwardOk(t) ==
    /\ pc[t] = "forward"
    /\ wire' = wire \cup
         {FateOf(t, PrepareForForwarding(published[job[t].using], job[t].msg))}
    /\ Goto(t, "sent")
    /\ UNCHANGED <<published, metrics, job, dropped>>

ForwardErr(t) ==
    /\ pc[t] = "forward"
    /\ Goto(t, "failed")
    /\ UNCHANGED <<published, metrics, job, wire, dropped>>

CountForwarded(t) ==
    /\ pc[t] = "sent"
    /\ Inc("forwarded")
    /\ Return(t)
    /\ UNCHANGED <<published, wire, dropped>>

MutCountError(t) ==
    /\ pc[t] = "failed"
    /\ Inc("forwarded")
    /\ Return(t)
    /\ UNCHANGED <<published, wire, dropped>>

CountError(t) ==
    /\ pc[t] = "failed"
    /\ Inc("errors")
    /\ Return(t)
    /\ UNCHANGED <<published, wire, dropped>>

\* SIGHUP: a validator built from the new configuration replaces the current
\* one; when it cannot be built nothing changes, which is a stuttering step.
Reload(v) ==
    /\ Generation < MaxGenerations
    /\ published' = Append(published, v)
    /\ UNCHANGED <<metrics, pc, job, wire, dropped>>

Step(t) ==
    \/ \E m \in Inputs : Receive(t, m)
    \/ Malformed(t)
    \/ Check(t)
    \/ Drop(t)
    \/ Report(t)
    \/ ForwardOk(t)
    \/ ForwardErr(t)
    \/ CountForwarded(t)
    \/ CountError(t)

Next ==
    \/ \E t \in Tasks : Step(t)
    \/ \E v \in Configs : Reload(v)

Spec == Init /\ [][Next]_vars

-----------------------------------------------------------------------------
TypeOK ==
    /\ published \in Seq(ValidatorConfig) /\ Generation \in 1..MaxGenerations
    /\ metrics \in [Counters -> Nat]
    /\ pc \in [Tasks -> {"idle", "received", "reject", "report", "forward",
                         "sent", "failed"}]
    /\ \A t \in Tasks : IF pc[t] = "idle" THEN job[t] = NoJob
                                          ELSE job[t] \in Job \cup {NoJob}
    /\ wire \subseteq Fate
    /\ dropped \subseteq Fate

(* "No message reaches rsyslog unless it has passed inspection" (README):  *)
(* one validator, current at some moment between the receipt of a message  *)
(* and its forwarding, both accepted it and built what was sent, however   *)
(* many reloads fell in between.                                           *)
ForwardedPassedInspection ==
    \A e \in wire : \E g \in e.first..e.last :
        /\ Accepts(published[g], e.src)
        /\ e.out = PrepareForForwarding(published[g], e.src)

(* A message is dropped only if a validator that was current while it was  *)
(* being handled rejects it; a reload cannot cost a message both the old   *)
(* and the new rules accept.                                               *)
DroppedFailedInspection ==
    \A e \in dropped : \E g \in e.first..e.last : ~Accepts(published[g], e.src)

(* The counters count what happened: forwarded and dropped are the numbers *)
(* of messages sent and discarded, less those whose task has not yet       *)
(* reached its counter, and no message is both sent and discarded.         *)
CountersTruthful ==
    /\ Cardinality(wire) = metrics["forwarded"]
                           + Cardinality({t \in Tasks : pc[t] = "sent"})
    /\ Cardinality(dropped) = metrics["dropped"]
    /\ \A e \in wire, f \in dropped : e.id # f.id

L == INSTANCE Ledger WITH open <- Open

(* handle_message keeps the books: every step of the daemon either leaves  *)
(* the ledger alone, receives one message or settles one under exactly one *)
(* counter.                                                                *)
KeepsLedger == L!Spec

(* No message is lost between the counters: received equals forwarded plus *)
(* dropped plus errors plus the messages tasks are still handling.         *)
Accounted ==
    metrics["received"] = metrics["forwarded"] + metrics["dropped"]
                          + metrics["errors"] + Cardinality(Open)

=============================================================================
