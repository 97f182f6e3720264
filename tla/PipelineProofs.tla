--------------------------- MODULE PipelineProofs ----------------------------
(***************************************************************************)
(* handle_message for any finite number of tasks, any number of messages   *)
(* and any number of reloads: what reaches rsyslog passed inspection, and  *)
(* the counters add up.                                                    *)
(***************************************************************************)
EXTENDS Monitor, FiniteSetTheorems, TLAPS

(* What prepare_for_forwarding builds is a message again.                  *)
LEMMA PreparedIsMessage ==
    ASSUME NEW v \in ValidatorConfig, NEW m \in Message
    PROVE  PrepareForForwarding(v, m) \in Message
<1> DEFINE bare == StripCookie(m)
           json == IF v.canonical_json THEN CanonicalizeJson(bare) ELSE bare
<1>1. bare \in Message
  BY DEF StripCookie, HasCookie, Message
<1>2. json \in Message
  <2>1. bare.text \in JsonText /\ [bare.text EXCEPT !.sorted = TRUE] \in JsonText
    BY Zenon, <1>1 DEF Message, JsonText
  <2> HIDE DEF bare
  <2> QED  BY Zenon, <1>1, <2>1 DEF CanonicalizeJson, Message
<1>3. /\ [json EXCEPT !.cookies = m.cookies] \in Message
      /\ [json EXCEPT !.cookies = @ + 1] \in Message
  BY <1>2 DEF Message
<1>4. v.output_cee \in {"never", "optional", "always"}
  BY DEF ValidatorConfig, CeeCookieMode
<1>5. PrepareForForwarding(v, m) =
        CASE v.output_cee = "never"    -> json
          [] v.output_cee = "optional" -> [json EXCEPT !.cookies = m.cookies]
          [] v.output_cee = "always"   -> [json EXCEPT !.cookies = @ + 1]
  BY DEF PrepareForForwarding
<1> HIDE DEF json
<1> QED  BY <1>2, <1>3, <1>4, <1>5

(* First half of the inductive invariant: a task that holds a verdict      *)
(* holds the validator it came from, and generations already published     *)
(* stay what they were.                                                    *)
Inspected ==
    /\ published \in Seq(ValidatorConfig) /\ Generation \in 1..MaxGenerations
    /\ metrics \in [Counters -> Nat]
    /\ pc \in [Tasks -> {"idle", "received", "reject", "report", "forward",
                         "sent", "failed"}]
    /\ job \in [Tasks -> Job \cup {NoJob}]
    /\ \A t \in Tasks : pc[t] = "idle" => job[t] = NoJob
    /\ \A t \in Open :
          /\ job[t] \in Job
          /\ job[t].first \in 1..job[t].using
          /\ job[t].using \in 1..Generation
    /\ \A t \in Tasks :
          /\ pc[t] = "forward" => Accepts(published[job[t].using], job[t].msg)
          /\ pc[t] = "reject" => ~Accepts(published[job[t].using], job[t].msg)
    /\ wire \subseteq Fate /\ dropped \subseteq Fate
    /\ \A e \in wire \cup dropped : e.first \geq 1 /\ e.last \leq Generation
    /\ ForwardedPassedInspection
    /\ DroppedFailedInspection

(* The fate of a task's message, at the moment it is sealed.               *)
LEMMA FateForm ==
    ASSUME Inspected, NEW t \in Open, NEW m \in Message
    PROVE  /\ FateOf(t, m) \in Fate
           /\ FateOf(t, m).id = job[t].id
           /\ FateOf(t, m).src = job[t].msg
           /\ FateOf(t, m).out = m
           /\ FateOf(t, m).first = job[t].first /\ job[t].first \in 1..job[t].using
           /\ FateOf(t, m).last = Generation /\ job[t].using \in 1..Generation
           /\ Generation \in Nat
  BY DEF Inspected, FateOf, Fate, Job, Generation

(* Steps of a task other than the ones that seal a fate.                   *)
LEMMA QuietStepsKeepInspected ==
    ASSUME Inspected, NEW t \in Tasks,
           \/ \E m \in Inputs : Receive(t, m)
           \/ Malformed(t) \/ Check(t) \/ Report(t) \/ ForwardErr(t)
           \/ CountForwarded(t) \/ CountError(t)
    PROVE  Inspected'
<1> USE DEF Inspected
<1>0. /\ Generation' = Generation /\ published' = published
      /\ wire' = wire /\ dropped' = dropped
  BY DEF Receive, Malformed, Check, Report, ForwardErr, CountForwarded, CountError,
         Generation
<1>a. ForwardedPassedInspection' /\ DroppedFailedInspection'
  BY <1>0 DEF ForwardedPassedInspection, DroppedFailedInspection
<1>b. NoJob \in Job \cup {NoJob}
  OBVIOUS
<1>1. CASE \E m \in Inputs : Receive(t, m)
  <2> PICK m \in Inputs : Receive(t, m)
    BY <1>1
  <2> DEFINE j == [id |-> metrics["received"] + 1, msg |-> m,
                   first |-> Generation, using |-> Generation]
  <2>1. j \in Job /\ j.first \in 1..j.using /\ j.using \in 1..Generation
    BY PipelineAssumption DEF Job, Counters
  <2>2. /\ job' = [job EXCEPT ![t] = j] /\ pc' = [pc EXCEPT ![t] = "received"]
        /\ metrics' = [metrics EXCEPT !["received"] = @ + 1]
    BY DEF Receive, Goto, Inc
  <2>3. metrics' \in [Counters -> Nat]
    BY <2>2 DEF Counters
  <2> HIDE DEF j
  <2> QED  BY <1>0, <1>a, <2>1, <2>2, <2>3 DEF Open
<1>2. CASE Check(t)
  <2> DEFINE j == [job[t] EXCEPT !.using = Generation]
  <2>0. t \in Open
    BY <1>2 DEF Check, Open
  <2>1. /\ j \in Job /\ j.first \in 1..j.using /\ j.using \in 1..Generation
        /\ j.msg = job[t].msg /\ j.using = Generation
    BY <2>0 DEF Job
  <2>2. /\ job' = [job EXCEPT ![t] = j] /\ metrics' = metrics
        /\ pc' = [pc EXCEPT ![t] = IF Accepts(published[Generation], job[t].msg)
                                   THEN "forward" ELSE "reject"]
    BY <1>2 DEF Check, Goto
  <2> HIDE DEF j
  <2> QED  BY <1>0, <1>a, <2>1, <2>2 DEF Open
<1>3. CASE Malformed(t)
  BY <1>0, <1>a, <1>3 DEF Malformed, Goto, Open
<1>4. CASE ForwardErr(t)
  BY <1>0, <1>a, <1>4 DEF ForwardErr, Goto, Open
<1>5. CASE Report(t) \/ CountForwarded(t) \/ CountError(t)
  <2>1. /\ job' = [job EXCEPT ![t] = NoJob] /\ pc' = [pc EXCEPT ![t] = "idle"]
        /\ metrics' \in [Counters -> Nat]
    BY <1>5 DEF Report, CountForwarded, CountError, Return, Goto, Inc, Counters, Outcomes
  <2> QED  BY <1>0, <1>a, <1>b, <2>1 DEF Open
<1> QED  BY <1>1, <1>2, <1>3, <1>4, <1>5

(* The two steps that seal a fate do so with the validator that judged.    *)
LEMMA FatesKeepInspected ==
    ASSUME Inspected, NEW t \in Tasks, Drop(t) \/ ForwardOk(t)
    PROVE  Inspected'
<1> USE DEF Inspected
<1>0. /\ Generation' = Generation /\ published' = published /\ job' = job
      /\ t \in Open /\ job[t] \in Job /\ job[t].msg \in Message
      /\ published[job[t].using] \in ValidatorConfig
  BY DEF Drop, ForwardOk, Generation, Open, Job
<1>1. CASE Drop(t)
  <2> DEFINE f == FateOf(t, job[t].msg)
  <2>1. dropped' = dropped \cup {f} /\ wire' = wire
        /\ pc' = [pc EXCEPT ![t] = "report"] /\ metrics' \in [Counters -> Nat]
    BY <1>1 DEF Drop, Goto, Inc, Counters, Outcomes
  <2>2. /\ f \in Fate /\ f.first \geq 1 /\ f.last \leq Generation
        /\ job[t].using \in f.first..f.last
        /\ f.src = job[t].msg
    BY <1>0, FateForm
  <2>3. ~Accepts(published[job[t].using], f.src)
    BY <1>0, <1>1, <2>2 DEF Drop
  <2> HIDE DEF f
  <2>4. ForwardedPassedInspection' /\ DroppedFailedInspection'
    BY <1>0, <2>1, <2>2, <2>3 DEF ForwardedPassedInspection, DroppedFailedInspection
  <2> QED  BY <1>0, <2>1, <2>2, <2>4 DEF Open
<1>2. CASE ForwardOk(t)
  <2> DEFINE v == published[job[t].using]
             out == PrepareForForwarding(v, job[t].msg)
             f == FateOf(t, out)
  <2>1. /\ wire' = wire \cup {f} /\ dropped' = dropped /\ metrics' = metrics
        /\ pc' = [pc EXCEPT ![t] = "sent"]
    BY <1>2 DEF ForwardOk, Goto
  <2>2. Accepts(v, job[t].msg)
    BY <1>0, <1>2 DEF ForwardOk
  <2>3. out \in Message
    BY <1>0, PreparedIsMessage
  <2> HIDE DEF out
  <2>4. /\ f \in Fate /\ f.first \geq 1 /\ f.last \leq Generation
        /\ job[t].using \in f.first..f.last
        /\ f.src = job[t].msg /\ f.out = out
    BY <1>0, <2>3, FateForm
  <2> HIDE DEF f
  <2>5. ForwardedPassedInspection' /\ DroppedFailedInspection'
    BY ZenonT(30), <1>0, <2>1, <2>2, <2>4
    DEF ForwardedPassedInspection, DroppedFailedInspection, out
  <2> QED  BY <1>0, <2>1, <2>4, <2>5 DEF Open
<1> QED  BY <1>1, <1>2

(* A reload adds a generation and changes none.                            *)
LEMMA ReloadKeepsInspected ==
    ASSUME Inspected, NEW v \in Configs, Reload(v)
    PROVE  Inspected'
<1> USE DEF Inspected
<1>1. /\ published' \in Seq(ValidatorConfig)
      /\ Generation' = Generation + 1
      /\ \A g \in 1..Generation : published'[g] = published[g]
  BY PipelineAssumption DEF Reload, Generation
<1>2. Generation \in Nat /\ Generation' \in 1..MaxGenerations
  BY <1>1, PipelineAssumption DEF Reload
<1>3. UNCHANGED <<metrics, pc, job, wire, dropped>> /\ Open' = Open
  BY DEF Reload, Open
<1>4. \A e \in wire \cup dropped :
         e.first \in Nat /\ e.last \in Nat /\ e.first..e.last \subseteq 1..Generation
  BY <1>2 DEF Fate
<1>5. ForwardedPassedInspection'
  BY <1>1, <1>3, <1>4 DEF ForwardedPassedInspection
<1>6. DroppedFailedInspection'
  BY <1>1, <1>3, <1>4 DEF DroppedFailedInspection
<1>7. \A t \in Open : job'[t].using \in 1..Generation'
  BY <1>1, <1>2, <1>3
<1>8. \A e \in wire' \cup dropped' : e.first \geq 1 /\ e.last \leq Generation'
  BY <1>1, <1>2, <1>3, <1>4
<1>9. \A t \in Tasks :
          /\ pc'[t] = "forward" => Accepts(published'[job'[t].using], job'[t].msg)
          /\ pc'[t] = "reject" => ~Accepts(published'[job'[t].using], job'[t].msg)
  <2>1. \A t \in Tasks : pc[t] \in {"forward", "reject"} => job[t].using \in 1..Generation
    BY DEF Open
  <2> QED  BY <1>1, <1>3, <2>1
<1> QED  BY <1>1, <1>2, <1>3, <1>5, <1>6, <1>7, <1>8, <1>9

(* Inspected is an invariant of the daemon.                                *)
LEMMA InspectedInductive == Spec => []Inspected
<1>1. Init => Inspected
  <2> SUFFICES ASSUME Init PROVE Inspected
    OBVIOUS
  <2>1. published \in Seq(ValidatorConfig) /\ Generation = 1
    BY PipelineAssumption DEF Init, Generation
  <2>2. Open = {} /\ wire = {} /\ dropped = {}
    BY DEF Init, Open
  <2>3. /\ metrics \in [Counters -> Nat]
        /\ job \in [Tasks -> Job \cup {NoJob}]
        /\ \A t \in Tasks : pc[t] = "idle" /\ job[t] = NoJob
        /\ pc \in [Tasks -> {"idle", "received", "reject", "report", "forward",
                             "sent", "failed"}]
    BY DEF Init
  <2> QED  BY <2>1, <2>2, <2>3, PipelineAssumption
           DEF Inspected, ForwardedPassedInspection, DroppedFailedInspection
<1>2. Inspected /\ [Next]_vars => Inspected'
  <2> SUFFICES ASSUME Inspected, [Next]_vars PROVE Inspected'
    OBVIOUS
  <2>1. CASE UNCHANGED vars
    BY <2>1 DEF vars, Inspected, Generation, Open, ForwardedPassedInspection,
                DroppedFailedInspection
  <2>2. CASE \E t \in Tasks : Step(t)
    BY <2>2, QuietStepsKeepInspected, FatesKeepInspected DEF Step
  <2>3. CASE \E v \in Configs : Reload(v)
    BY <2>3, ReloadKeepsInspected
  <2> QED  BY <2>1, <2>2, <2>3 DEF Next
<1> QED  BY <1>1, <1>2, PTL DEF Spec

-----------------------------------------------------------------------------
(* Every step of the daemon is a step of the ledger or does not touch it.  *)
LEMMA StepKeepsLedger == Inspected /\ [Next]_vars => [L!Next]_(L!ledgerVars)
<1> SUFFICES ASSUME Inspected, [Next]_vars PROVE [L!Next]_(L!ledgerVars)
  OBVIOUS
<1>0. ASSUME metrics' = metrics, Open' = Open PROVE UNCHANGED L!ledgerVars
  BY <1>0 DEF L!ledgerVars
<1>1. CASE UNCHANGED vars \/ \E v \in Configs : Reload(v)
  BY <1>0, <1>1 DEF vars, Reload, Open
<1>2. ASSUME NEW t \in Tasks, Step(t) PROVE [L!Next]_(L!ledgerVars)
  <2> USE DEF Inspected
  <2>1. CASE \E m \in Inputs : Receive(t, m)
    <3>1. t \notin Open /\ Open' = Open \cup {t}
      BY <2>1 DEF Receive, Goto, Open
    <3>2. L!Receive(t)
      BY <2>1, <3>1 DEF L!Receive, L!Inc, Receive, Inc
    <3> QED  BY <3>2 DEF L!Next
  <2>2. CASE Drop(t) \/ CountForwarded(t) \/ CountError(t)
    <3>1. t \in Open /\ Open' = Open \ {t}
      BY <2>2 DEF Drop, CountForwarded, CountError, Return, Goto, Open
    <3>2. \E c \in L!Outcomes : L!Settle(t, c)
      BY <2>2, <3>1 DEF L!Settle, L!Inc, L!Outcomes, Drop, CountForwarded, CountError, Inc
    <3> QED  BY <3>2 DEF L!Next
  <2>3. CASE Malformed(t) \/ Check(t) \/ Report(t) \/ ForwardOk(t) \/ ForwardErr(t)
    <3>1. metrics' = metrics /\ Open' = Open
      BY <2>3 DEF Malformed, Check, Report, ForwardOk, ForwardErr, Return, Goto, Open
    <3> QED  BY <1>0, <3>1
  <2> QED  BY <1>2, <2>1, <2>2, <2>3 DEF Step
<1> QED  BY <1>1, <1>2 DEF Next

(* handle_message, as all tasks run it together, implements the ledger of  *)
(* MetricsStore: received once, settled under exactly one counter.         *)
THEOREM PipelineKeepsLedger == Spec => KeepsLedger
<1>1. Init => L!Init
  BY DEF Init, L!Init, L!Counters, L!Outcomes, Counters, Outcomes, Open
<1> QED  BY <1>1, StepKeepsLedger, InspectedInductive, PTL DEF Spec, KeepsLedger, L!Spec

(* No message is lost between the counters, at any moment.                 *)
THEOREM PipelineAccounted == Spec => []Accounted
<1> DEFINE Books == Accounted /\ metrics \in [Counters -> Nat]
<1>0. IsFiniteSet(Open) /\ Cardinality(Open) \in Nat
  <2>1. Open \subseteq Tasks
    BY DEF Open
  <2> QED  BY <2>1, FS_Subset, FS_CardinalityType, PipelineAssumption
<1>1. Init => Books
  <2> SUFFICES ASSUME Init PROVE Books
    OBVIOUS
  <2>1. Open = {}
    BY DEF Init, Open
  <2> QED  BY <2>1, FS_EmptySet
           DEF Init, Accounted, Counters, Outcomes
<1>2. Books /\ Inspected /\ [Next]_vars => Books'
  <2> SUFFICES ASSUME Books, Inspected, [Next]_vars PROVE Books'
    OBVIOUS
  <2>0. [L!Next]_(L!ledgerVars)
    BY StepKeepsLedger
  <2>1. CASE UNCHANGED L!ledgerVars
    BY <2>1 DEF L!ledgerVars, Accounted
  <2>2. ASSUME NEW t \in Tasks, L!Receive(t) PROVE Books'
    <3>1. Cardinality(Open') = Cardinality(Open) + 1
      BY <1>0, <2>2, FS_AddElement DEF L!Receive
    <3> QED  BY <1>0, <2>2, <3>1
             DEF L!Receive, L!Inc, Accounted, Counters, Outcomes
  <2>3. ASSUME NEW t \in Tasks, NEW c \in L!Outcomes, L!Settle(t, c) PROVE Books'
    <3>1. Cardinality(Open') = Cardinality(Open) - 1
      BY Zenon, <1>0, <2>3, FS_RemoveElement DEF L!Settle
    <3> QED  BY <1>0, <2>3, <3>1
             DEF L!Settle, L!Inc, L!Outcomes, Accounted,
                 Counters, Outcomes
  <2> QED  BY <2>0, <2>1, <2>2, <2>3 DEF L!Next
<1> QED  BY <1>1, <1>2, InspectedInductive, PTL DEF Spec

-----------------------------------------------------------------------------
(* What crosses to rsyslog, and what is discarded, was judged by one       *)
(* validator that was current while the message was handled, however many  *)
(* reloads and tasks there are.                                            *)
THEOREM PipelineInspects ==
    Spec => [](TypeOK /\ ForwardedPassedInspection /\ DroppedFailedInspection)
<1>1. Inspected => TypeOK /\ ForwardedPassedInspection /\ DroppedFailedInspection
  BY DEF Inspected, TypeOK
<1> QED  BY <1>1, InspectedInductive, PTL

(* Second half of the inductive invariant: identifiers are handed out once *)
(* and a message that is still open has met no fate, except that it may be *)
(* on the wire while its task is about to count it.                        *)
Sent == {t \in Tasks : pc[t] = "sent"}

Distinct ==
    /\ IsFiniteSet(wire) /\ IsFiniteSet(dropped)
    /\ \A e \in wire \cup dropped : e.id \leq metrics["received"]
    /\ \A t \in Open : job[t].id \leq metrics["received"]
    /\ \A t, u \in Open : job[t].id = job[u].id => t = u
    /\ \A t \in Open :
          /\ pc[t] # "sent" => \A e \in wire : e.id # job[t].id
          /\ \A f \in dropped : f.id # job[t].id
    /\ \A e \in wire, f \in dropped : e.id # f.id

Counted ==
    /\ Cardinality(wire) = metrics["forwarded"] + Cardinality(Sent)
    /\ Cardinality(dropped) = metrics["dropped"]

(* The sizes the counters are compared with are numbers.                   *)
LEMMA SentFinite == IsFiniteSet(Sent) /\ Cardinality(Sent) \in Nat
<1>1. Sent \subseteq Tasks
  BY DEF Sent
<1> QED  BY <1>1, FS_Subset, FS_CardinalityType, PipelineAssumption

(* Every step keeps identifiers apart and the counters in line with what   *)
(* happened.                                                               *)
LEMMA StepKeepsCounted ==
    ASSUME Inspected, Distinct, Counted, NEW t \in Tasks, Step(t)
    PROVE  Distinct' /\ Counted'
<1> USE DEF Inspected
<1>0. metrics["received"] \in Nat /\ metrics["forwarded"] \in Nat
      /\ metrics["dropped"] \in Nat /\ metrics["errors"] \in Nat
  BY DEF Counters, Outcomes
<1>1. CASE \E m \in Inputs : Receive(t, m)
  <2> PICK m \in Inputs : Receive(t, m)
    BY <1>1
  <2>1. /\ Open' = Open \cup {t} /\ t \notin Open /\ Sent' = Sent
        /\ wire' = wire /\ dropped' = dropped
        /\ \A u \in Open : pc'[u] = pc[u] /\ job'[u] = job[u]
        /\ job'[t].id = metrics["received"] + 1
    BY DEF Receive, Goto, Open, Sent
  <2>2. /\ metrics'["received"] = metrics["received"] + 1
        /\ metrics'["forwarded"] = metrics["forwarded"]
        /\ metrics'["dropped"] = metrics["dropped"]
    BY DEF Receive, Inc, Counters, Outcomes
  <2>3. \A u \in Open : job[u].id \in Nat
    BY DEF Job
  <2>4. \A e \in wire \cup dropped : e.id \in Nat
    BY DEF Fate
  <2>5. Distinct'
    <3> HIDE DEF Inspected
    <3>1. /\ \A e \in wire' \cup dropped' : e.id \leq metrics'["received"]
          /\ \A u \in Open' : job'[u].id \leq metrics'["received"]
      BY <1>0, <2>1, <2>2, <2>3, <2>4 DEF Distinct
    <3>2. \A u \in Open : job'[u].id # job'[t].id
      BY <1>0, <2>1, <2>3 DEF Distinct
    <3>3. \A u, w \in Open' : job'[u].id = job'[w].id => u = w
      BY <2>1, <3>2 DEF Distinct
    <3>4. \A e \in wire \cup dropped : e.id # job'[t].id
      BY <1>0, <2>1, <2>4 DEF Distinct
    <3>5. \A u \in Open' :
             /\ pc'[u] # "sent" => \A e \in wire' : e.id # job'[u].id
             /\ \A f \in dropped' : f.id # job'[u].id
      BY <2>1, <3>4 DEF Distinct
    <3> QED  BY ZenonT(30), <2>1, <3>1, <3>3, <3>5 DEF Distinct
  <2> QED  BY <2>1, <2>2, <2>5 DEF Counted
<1>2. CASE Malformed(t) \/ Check(t) \/ Report(t) \/ ForwardErr(t)
  <2>1. /\ Open' = Open /\ Sent' = Sent
        /\ wire' = wire /\ dropped' = dropped /\ metrics' = metrics
        /\ \A u \in Open : pc'[u] # "sent" => pc[u] # "sent"
    BY <1>2 DEF Malformed, Check, Report, ForwardErr, Return, Goto, Open, Sent
  <2>2. \A u \in Open : job'[u].id = job[u].id
    BY <1>2 DEF Malformed, Check, Report, ForwardErr, Return, Goto, Open, Job
  <2> HIDE DEF Inspected
  <2>3. Distinct'
    BY <2>1, <2>2 DEF Distinct
  <2>4. Counted'
    BY <2>1 DEF Counted
  <2> QED  BY <2>3, <2>4
<1>3. CASE Drop(t)
  <2> DEFINE f == FateOf(t, job[t].msg)
  <2>1. /\ t \in Open /\ Open' = Open \ {t} /\ Sent' = Sent /\ pc[t] # "sent"
        /\ wire' = wire /\ dropped' = dropped \cup {f} /\ job' = job
        /\ \A u \in Open' : pc'[u] = pc[u]
    BY <1>3 DEF Drop, Goto, Open, Sent
  <2>2. /\ metrics'["received"] = metrics["received"]
        /\ metrics'["forwarded"] = metrics["forwarded"]
        /\ metrics'["dropped"] = metrics["dropped"] + 1
    BY <1>3 DEF Drop, Inc, Counters, Outcomes
  <2>3. f.id = job[t].id
    BY DEF FateOf
  <2> HIDE DEF f
  <2>4. f \notin dropped
    BY <2>1, <2>3 DEF Distinct
  <2>5. /\ IsFiniteSet(dropped \cup {f})
        /\ Cardinality(dropped \cup {f}) = Cardinality(dropped) + 1
    BY <2>4, FS_AddElement DEF Distinct
  <2>6. Distinct'
    BY <2>1, <2>2, <2>3, <2>5 DEF Distinct
  <2> QED  BY <2>1, <2>2, <2>5, <2>6 DEF Counted
<1>4. CASE ForwardOk(t)
  <2> DEFINE f == FateOf(t, PrepareForForwarding(published[job[t].using], job[t].msg))
  <2>1. /\ t \in Open /\ Open' = Open /\ Sent' = Sent \cup {t} /\ t \notin Sent
        /\ wire' = wire \cup {f} /\ dropped' = dropped /\ job' = job
        /\ metrics' = metrics
        /\ pc[t] # "sent" /\ pc'[t] = "sent"
        /\ \A u \in Open : u # t => pc'[u] = pc[u]
    BY <1>4 DEF ForwardOk, Goto, Open, Sent
  <2>2. f.id = job[t].id
    BY DEF FateOf
  <2> HIDE DEF f
  <2>3. f \notin wire
    BY <2>1, <2>2 DEF Distinct
  <2>4. /\ IsFiniteSet(wire \cup {f})
        /\ Cardinality(wire \cup {f}) = Cardinality(wire) + 1
    BY <2>3, FS_AddElement DEF Distinct
  <2>5. Cardinality(Sent \cup {t}) = Cardinality(Sent) + 1
    BY Zenon, <2>1, SentFinite, FS_AddElement
  <2>6. Distinct'
    BY <2>1, <2>2, <2>4 DEF Distinct
  <2> HIDE DEF Inspected
  <2>7. Counted'
    BY <1>0, <2>1, <2>4, <2>5, SentFinite DEF Counted
  <2> QED  BY <2>6, <2>7
<1>5. CASE CountForwarded(t)
  <2>1. /\ Open' = Open \ {t} /\ Sent' = Sent \ {t} /\ t \in Sent
        /\ wire' = wire /\ dropped' = dropped
        /\ \A u \in Open' : pc'[u] = pc[u] /\ job'[u] = job[u]
    BY <1>5 DEF CountForwarded, Return, Goto, Open, Sent
  <2>2. /\ metrics'["received"] = metrics["received"]
        /\ metrics'["forwarded"] = metrics["forwarded"] + 1
        /\ metrics'["dropped"] = metrics["dropped"]
    BY <1>5 DEF CountForwarded, Inc, Counters, Outcomes
  <2>3. Cardinality(Sent \ {t}) = Cardinality(Sent) - 1
    BY Zenon, <2>1, SentFinite, FS_RemoveElement
  <2> HIDE DEF Inspected
  <2>4. Open' \subseteq Open
    BY <2>1
  <2>5. Distinct'
    BY <2>1, <2>2, <2>4 DEF Distinct
  <2>6. Counted'
    BY <1>0, <2>1, <2>2, <2>3, SentFinite DEF Counted
  <2> QED  BY <2>5, <2>6
<1>6. CASE CountError(t)
  <2>1. /\ Open' = Open \ {t} /\ Sent' = Sent
        /\ wire' = wire /\ dropped' = dropped
        /\ \A u \in Open' : pc'[u] = pc[u] /\ job'[u] = job[u]
    BY <1>6 DEF CountError, Return, Goto, Open, Sent
  <2>2. /\ metrics'["received"] = metrics["received"]
        /\ metrics'["forwarded"] = metrics["forwarded"]
        /\ metrics'["dropped"] = metrics["dropped"]
    BY <1>6 DEF CountError, Inc, Counters, Outcomes
  <2> HIDE DEF Inspected
  <2>3. Open' \subseteq Open
    BY <2>1
  <2>4. Distinct'
    BY <2>1, <2>2, <2>3 DEF Distinct
  <2>5. Counted'
    BY <2>1, <2>2 DEF Counted
  <2> QED  BY <2>4, <2>5
<1> QED  BY <1>1, <1>2, <1>3, <1>4, <1>5, <1>6 DEF Step

(* forwarded and dropped count exactly the messages sent and discarded,    *)
(* up to the tasks that have sent and not yet counted, and no message is   *)
(* both.                                                                   *)
THEOREM PipelineCounts == Spec => []CountersTruthful
<1>1. Init => Distinct /\ Counted
  <2> SUFFICES ASSUME Init PROVE Distinct /\ Counted
    OBVIOUS
  <2>1. Open = {} /\ Sent = {} /\ wire = {} /\ dropped = {}
    BY DEF Init, Open, Sent
  <2>2. metrics["forwarded"] = 0 /\ metrics["dropped"] = 0
    BY DEF Init, Counters, Outcomes
  <2> QED  BY <2>1, <2>2, FS_EmptySet DEF Distinct, Counted
<1>2. Inspected /\ Distinct /\ Counted /\ [Next]_vars => Distinct' /\ Counted'
  <2> SUFFICES ASSUME Inspected, Distinct, Counted, [Next]_vars
               PROVE  Distinct' /\ Counted'
    OBVIOUS
  <2>1. CASE UNCHANGED vars \/ \E v \in Configs : Reload(v)
    <3>1. UNCHANGED <<metrics, pc, job, wire, dropped>> /\ Open' = Open /\ Sent' = Sent
      BY <2>1 DEF vars, Reload, Open, Sent
    <3> QED  BY <3>1 DEF Distinct, Counted
  <2>2. CASE \E t \in Tasks : Step(t)
    BY <2>2, StepKeepsCounted
  <2> QED  BY <2>1, <2>2 DEF Next
<1>3. Distinct /\ Counted => CountersTruthful
  BY DEF Distinct, Counted, CountersTruthful, Sent
<1> QED  BY <1>1, <1>2, <1>3, InspectedInductive, PTL DEF Spec

-----------------------------------------------------------------------------
(* Watching the counters does not disturb the pipeline.                    *)
LEMMA MonitorIsPipeline == MonitorSpec => Spec
<1>1. MonitorInit => Init
  BY DEF MonitorInit
<1>2. [MonitorNext]_monitorVars => [Next]_vars
  BY DEF MonitorNext, monitorVars, Watch
<1> QED  BY <1>1, <1>2, PTL DEF MonitorSpec, Spec

(* A step of the pipeline is a step of the counters in Metrics, under its  *)
(* bound, or leaves them alone.                                            *)
LEMMA StepIsCounted ==
    ASSUME Inspected, [Next]_vars, UNCHANGED snap
    PROVE  [M!Count]_(M!vars)
<1>1. [L!Next]_(L!ledgerVars)
  BY StepKeepsLedger
<1>2. CASE UNCHANGED L!ledgerVars
  BY <1>2 DEF L!ledgerVars, M!vars
<1>3. ASSUME NEW t \in Tasks, L!Receive(t) PROVE M!Count
  <2>1. metrics'["received"] # metrics["received"]
    BY <1>3 DEF L!Receive, L!Inc, Inspected, Counters
  <2>2. metrics["received"] < MaxReceived
    BY <2>1 DEF Next, vars, Step, Receive, Malformed, Check, Drop, Report, ForwardOk,
       ForwardErr, CountForwarded, CountError, Reload, Inc, Inspected, Counters
  <2> QED  BY <1>3, <2>2 DEF L!Receive, L!Inc, M!Count, M!Receive, M!Inc
<1>4. ASSUME NEW t \in Tasks, NEW c \in L!Outcomes, L!Settle(t, c) PROVE M!Count
  BY Zenon, <1>4 DEF L!Settle, L!Inc, L!Outcomes, M!Count, M!Settle, M!Inc, M!Outcomes
<1> QED  BY <1>1, <1>2, <1>3, <1>4 DEF L!Next

(* The daemon with its watchers implements Metrics: whatever tasks and     *)
(* reloads do, the store sees only messages received and settled, and the  *)
(* loads of snapshots.                                                     *)
THEOREM MonitorImplementsMetrics == MonitorSpec => ImplementsMetrics
<1>1. MonitorInit => M!MetricsInit
  BY DEF MonitorInit, Init, M!MetricsInit, M!Init, M!Counters, M!Outcomes,
     Counters, Outcomes, Open
<1>2. Inspected /\ [MonitorNext]_monitorVars => [M!MetricsNext]_(M!vars)
  <2> SUFFICES ASSUME Inspected, [MonitorNext]_monitorVars
               PROVE  [M!MetricsNext]_(M!vars)
    OBVIOUS
  <2>1. CASE Next /\ UNCHANGED snap
    BY <2>1, StepIsCounted DEF M!MetricsNext
  <2>2. ASSUME NEW r \in Readers, Watch(r) PROVE M!MetricsNext
    BY <2>2 DEF Watch, M!MetricsNext, M!Counters, M!Outcomes, Counters, Outcomes
  <2>3. CASE UNCHANGED monitorVars
    BY <2>3 DEF monitorVars, vars, M!vars, Open
  <2> QED  BY <2>1, <2>2, <2>3 DEF MonitorNext
<1> QED  BY <1>1, <1>2, MonitorIsPipeline, InspectedInductive, PTL
         DEF MonitorSpec, ImplementsMetrics, M!MetricsSpec

MP == INSTANCE MetricsProofs WITH open <- Open

(* Snapshots of a running daemon are bracketed: the theorem about Metrics  *)
(* carries over along the refinement.                                      *)
THEOREM MonitorSnapshots == MonitorSpec => []SnapshotBracket
<1>1. MP!MetricsSpec => [](MP!SnapshotBracket /\ MP!Accounted)
  BY MP!SnapshotsBracketed
<1>2. M!MetricsInit <=> MP!MetricsInit
  BY DEF M!MetricsInit, MP!MetricsInit, M!Init, MP!Init, M!Zero, MP!Zero,
     M!Counters, MP!Counters, M!Outcomes, MP!Outcomes
<1>3. [M!MetricsNext]_(M!vars) <=> [MP!MetricsNext]_(MP!vars)
  BY DEF M!MetricsNext, MP!MetricsNext, M!Count, MP!Count, M!Receive, MP!Receive,
     M!Settle, MP!Settle, M!Inc, MP!Inc, M!SnapshotBegin, MP!SnapshotBegin,
     M!Load, MP!Load, M!vars, MP!vars, M!ledgerVars, MP!ledgerVars,
     M!Counters, MP!Counters, M!Outcomes, MP!Outcomes, M!Zero, MP!Zero
<1>4. MP!SnapshotBracket => M!SnapshotBracket
  BY DEF M!SnapshotBracket, MP!SnapshotBracket, M!Shown, MP!Shown,
     M!Counters, MP!Counters, M!Outcomes, MP!Outcomes
<1> QED  BY <1>1, <1>2, <1>3, <1>4, MonitorImplementsMetrics, PTL
         DEF ImplementsMetrics, SnapshotBracket, M!MetricsSpec, MP!MetricsSpec

=============================================================================
