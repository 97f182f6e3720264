---------------------------- MODULE DaemonProofs -----------------------------
(***************************************************************************)
(* The accept loop for any number of clients and any max_connections:      *)
(* permits are conserved, at most one session starts late, and a drain     *)
(* that was not forced is complete, up to the permits its clamp to u32     *)
(* leaves out.  The daemon process implements the listener, so all of this *)
(* holds inside the process, and an orderly exit is a drained one.         *)
(***************************************************************************)
EXTENDS Daemon, FiniteSetTheorems, TLAPS

-----------------------------------------------------------------------------
(* The listener.                                                           *)

(* The backlog holds each waiting connection once, so the session Accept   *)
(* starts is a new one.                                                    *)
BacklogOK ==
    /\ \A i \in 1..Len(backlog) : conn[backlog[i]] = "queued"
    /\ \A i, j \in 1..Len(backlog) : backlog[i] = backlog[j] => i = j

(* The inductive invariant.  permits is only known to be a natural number  *)
(* here; its upper bound follows from PermitsConserved.                    *)
ListenerInv ==
    /\ max_connections \in ConnectionLimits
    /\ token \in BOOLEAN
    /\ lpc \in {"permit", "semaphore", "accept", "connection", "drain", "done"}
    /\ permits \in Nat
    /\ backlog \in Seq(Clients)
    /\ conn \in [Clients -> {"out", "queued", "open", "gone", "failed"}]
    /\ inbox \in [Clients -> 0..MaxSends]
    /\ sent \in [Clients -> 0..MaxSends]
    /\ closed \subseteq Clients
    /\ busy \subseteq Clients
    /\ late \in {0, 1}
    /\ forced \in BOOLEAN
    /\ \A c \in Clients : inbox[c] \leq sent[c]
    /\ BacklogOK
    /\ PermitsConserved
    /\ BusyIsActive
    /\ late = 1 => token /\ lpc \in {"permit", "drain", "done"}
    /\ \A c \in Clients : conn[c] = "gone" => inbox[c] = 0
    /\ lpc = "done" /\ ~forced => Cardinality(Active) \leq Unawaited

-----------------------------------------------------------------------------
(* The limit and what the drain acquires of it are numbers.                *)
LEMMA LimitNat ==
    ASSUME max_connections \in ConnectionLimits
    PROVE  /\ max_connections \in Nat \ {0} /\ DrainTotal \in Nat \ {0}
           /\ DrainTotal \leq max_connections
           /\ Unawaited \in Nat
           /\ max_connections \leq U32Max => Unawaited = 0
  BY ListenerAssumption DEF DrainTotal, Unawaited

(* What the drain does not wait for changes only with the limit.           *)
LEMMA SameLimit ==
    ASSUME max_connections' = max_connections
    PROVE  Unawaited' = Unawaited
  BY DEF Unawaited, DrainTotal

(* The running sessions are finitely many.                                 *)
LEMMA ActiveFinite == IsFiniteSet(Active) /\ Cardinality(Active) \in Nat
<1>1. Active \subseteq Clients
  BY DEF Active
<1>2. IsFiniteSet(Active)
  BY <1>1, FS_Subset, ListenerAssumption
<1> QED  BY <1>2, FS_CardinalityType

(* A session that starts adds one to the number of running ones.           *)
LEMMA ActiveGrows ==
    ASSUME NEW c \in Clients, ListenerInv, conn[c] # "open",
           conn' = [conn EXCEPT ![c] = "open"]
    PROVE  Cardinality(Active') = Cardinality(Active) + 1
<1>1. Active' = Active \cup {c} /\ c \notin Active
  BY DEF Active, ListenerInv
<1> QED  BY <1>1, ActiveFinite, FS_AddElement

(* A session that ends takes one from it, and no other session with it.    *)
LEMMA ActiveShrinks ==
    ASSUME NEW c \in Clients, NEW s \in {"gone", "failed"}, ListenerInv,
           conn[c] = "open", conn' = [conn EXCEPT ![c] = s]
    PROVE  /\ Active' = Active \ {c}
           /\ Cardinality(Active') = Cardinality(Active) - 1
<1>1. Active' = Active \ {c} /\ c \in Active
  BY DEF Active, ListenerInv
<1> QED  BY <1>1, ActiveFinite, FS_RemoveElement

-----------------------------------------------------------------------------
(* Steps of clients do not concern the permits.                            *)
LEMMA ClientKeepsInv ==
    ASSUME ListenerInv, NEW c \in Clients, Client(c)
    PROVE  ListenerInv'
<1> USE DEF ListenerInv
<1>1. CASE Connect(c)
  <2> USE <1>1 DEF Connect
  <2>1. Active' = Active /\ Unawaited' = Unawaited
    BY SameLimit DEF Active
  <2>2. BacklogOK'
    <3>1. \A i \in 1..Len(backlog) : backlog[i] # c /\ backlog[i] \in Clients
      BY DEF BacklogOK
    <3>2. /\ Len(backlog') = Len(backlog) + 1
          /\ \A i \in 1..Len(backlog) : backlog'[i] = backlog[i]
          /\ backlog'[Len(backlog) + 1] = c
      OBVIOUS
    <3>3. \A i \in 1..Len(backlog') :
              i \in 1..Len(backlog) \/ i = Len(backlog) + 1
      BY <3>2
    <3>4. ASSUME NEW i \in 1..Len(backlog')
          PROVE  conn'[backlog'[i]] = "queued"
      <4>1. CASE i \in 1..Len(backlog)
        BY <3>1, <3>2, <4>1 DEF BacklogOK
      <4>2. CASE i = Len(backlog) + 1
        BY <3>2, <4>2
      <4> QED  BY <3>3, <4>1, <4>2
    <3>5. ASSUME NEW i \in 1..Len(backlog'), NEW j \in 1..Len(backlog'), backlog'[i] = backlog'[j]
          PROVE  i = j
      <4>1. CASE i \in 1..Len(backlog) /\ j \in 1..Len(backlog)
        BY <3>2, <3>5, <4>1 DEF BacklogOK
      <4>2. CASE ~(i \in 1..Len(backlog) /\ j \in 1..Len(backlog))
        <5>1. i = Len(backlog) + 1 \/ j = Len(backlog) + 1
          BY <3>3, <4>2
        <5> QED  BY <3>1, <3>2, <3>3, <3>5, <5>1
      <4> QED  BY <4>1, <4>2
    <3> QED  BY <3>4, <3>5 DEF BacklogOK
  <2>3. conn' \in [Clients -> {"out", "queued", "open", "gone", "failed"}]
        /\ backlog' \in Seq(Clients)
    OBVIOUS
  <2>4. \A d \in Clients : conn'[d] = "gone" => inbox'[d] = 0
    OBVIOUS
  <2> QED  BY <2>1, <2>2, <2>3, <2>4 DEF PermitsConserved, LoopPermit, BusyIsActive
<1>2. CASE Send(c)
  <2> USE <1>2 DEF Send, loopVars
  <2>1. Active' = Active /\ Unawaited' = Unawaited
    BY SameLimit DEF Active
  <2>2. /\ inbox' \in [Clients -> 0..MaxSends]
        /\ sent' \in [Clients -> 0..MaxSends]
        /\ \A d \in Clients : inbox'[d] \leq sent'[d]
    BY ListenerAssumption
  <2>3. \A d \in Clients : conn'[d] = "gone" => inbox'[d] = 0
    OBVIOUS
  <2> QED  BY <2>1, <2>2, <2>3 DEF PermitsConserved, LoopPermit, BusyIsActive, BacklogOK
<1>3. CASE Close(c)
  <2> USE <1>3 DEF Close, loopVars
  <2>1. Active' = Active /\ Unawaited' = Unawaited
    BY SameLimit DEF Active
  <2> QED  BY <2>1 DEF PermitsConserved, LoopPermit, BusyIsActive, BacklogOK
<1> QED  BY <1>1, <1>2, <1>3 DEF Client

(* A session works through its messages and gives back its permit when it  *)
(* ends.                                                                   *)
LEMMA SessionKeepsInv ==
    ASSUME ListenerInv, NEW c \in Clients, Session(c)
    PROVE  ListenerInv'
<1> USE DEF ListenerInv
<1>1. CASE Decode(c)
  <2> USE <1>1 DEF Decode, loopVars
  <2>1. Active' = Active /\ c \in Active /\ Unawaited' = Unawaited
    BY SameLimit DEF Active
  <2>2. /\ inbox' \in [Clients -> 0..MaxSends]
        /\ \A d \in Clients : inbox'[d] \leq sent'[d]
        /\ \A d \in Clients : conn'[d] = "gone" => inbox'[d] = 0
    BY ListenerAssumption
  <2> QED  BY ZenonT(30), <2>1, <2>2 DEF PermitsConserved, LoopPermit, BusyIsActive, BacklogOK
<1>2. CASE Handled(c)
  <2> USE <1>2 DEF Handled, loopVars
  <2>1. Active' = Active /\ Unawaited' = Unawaited
    BY SameLimit DEF Active
  <2> QED  BY Zenon, <2>1 DEF PermitsConserved, LoopPermit, BusyIsActive, BacklogOK
<1>3. ASSUME NEW s \in {"gone", "failed"}, c \in Active \ busy, inbox[c] = 0,
             EndSession(c, s)
      PROVE  ListenerInv'
  <2> USE <1>3 DEF EndSession
  <2>1. conn[c] = "open"
    BY DEF Active
  <2>2. /\ Active' = Active \ {c}
        /\ Cardinality(Active') = Cardinality(Active) - 1
        /\ Cardinality(Active) \in Nat
    BY Zenon, <2>1, ActiveShrinks, ActiveFinite
  <2>3. PermitsConserved'
    <3>1. LoopPermit \in {0, 1} /\ LoopPermit' = LoopPermit
      BY DEF LoopPermit
    <3>2. permits' = permits + 1 /\ permits \in Nat /\ max_connections' = max_connections
      OBVIOUS
    <3>3. PermitsConserved
      OBVIOUS
    <3> HIDE DEF ListenerInv, EndSession
    <3> QED  BY <2>2, <3>1, <3>2, <3>3 DEF PermitsConserved
  <2>4. BacklogOK'
    BY <2>1 DEF BacklogOK
  <2>5. BusyIsActive'
    BY <2>2 DEF BusyIsActive
  <2>6. /\ conn' \in [Clients -> {"out", "queued", "open", "gone", "failed"}]
        /\ \A d \in Clients : conn'[d] = "gone" => inbox'[d] = 0
    OBVIOUS
  <2>7. (lpc = "done" /\ ~forced => Cardinality(Active) \leq Unawaited)'
    <3>1. lpc' = lpc /\ forced' = forced /\ Unawaited' = Unawaited /\ Unawaited \in Nat
      BY SameLimit, LimitNat
    <3>2. lpc = "done" /\ ~forced => Cardinality(Active) \leq Unawaited
      OBVIOUS
    <3> HIDE DEF ListenerInv, EndSession
    <3> QED  BY <2>2, <3>1, <3>2
  <2> QED  BY <2>2, <2>3, <2>4, <2>5, <2>6, <2>7
<1> QED  BY <1>1, <1>2, <1>3 DEF Session, Eof, ReadError

(* The accept loop moves its permit to a session, back to the semaphore or *)
(* keeps it.                                                               *)
LEMMA LoopKeepsInv ==
    ASSUME ListenerInv, Loop
    PROVE  ListenerInv'
<1> USE DEF ListenerInv
<1>0. LoopPermit \in {0, 1} /\ Cardinality(Active) \in Nat
  BY ActiveFinite DEF LoopPermit
<1>1. CASE PollShutdown \/ AcquirePermit \/ AcceptPending \/ AcceptError
  <2> USE <1>1 DEF PollShutdown, AcquirePermit, AcceptPending, AcceptError, netVars
  <2>1. Active' = Active /\ BacklogOK' /\ BusyIsActive'
    BY DEF Active, BacklogOK, BusyIsActive
  <2>2. permits' \in Nat /\ permits' + LoopPermit' = permits + LoopPermit
    BY DEF LoopPermit
  <2>3. PermitsConserved'
    <3>1. PermitsConserved
      OBVIOUS
    <3>2. permits \in Nat /\ max_connections' = max_connections
      OBVIOUS
    <3> HIDE DEF ListenerInv, PollShutdown, AcquirePermit, AcceptPending, AcceptError
    <3>3. LoopPermit' \in {0, 1}
      BY DEF LoopPermit
    <3> QED  BY Zenon, <1>0, <2>1, <2>2, <3>1, <3>2, <3>3 DEF PermitsConserved
  <2>4. /\ lpc' \in {"permit", "semaphore", "accept", "connection", "drain", "done"}
        /\ lpc' # "done"
        /\ late' = 1 => token' /\ lpc' \in {"permit", "drain", "done"}
    OBVIOUS
  <2> QED  BY <2>1, <2>2, <2>3, <2>4
<1>2. CASE Accept
  <2> USE <1>2 DEF Accept
  <2> DEFINE c == Head(backlog)
  <2>1. c \in Clients /\ c = backlog[1] /\ Len(backlog) \in Nat \ {0}
    OBVIOUS
  <2>2. conn[c] = "queued"
    BY <2>1 DEF BacklogOK
  <2>3. /\ Cardinality(Active') = Cardinality(Active) + 1
        /\ Active \subseteq Active'
    BY Zenon, <2>1, <2>2, ActiveGrows DEF Active
  <2>4. PermitsConserved'
    <3>1. /\ LoopPermit = 1 /\ LoopPermit' = 0 /\ permits' = permits /\ permits \in Nat
          /\ max_connections' = max_connections
      BY DEF LoopPermit
    <3>2. PermitsConserved
      OBVIOUS
    <3> HIDE DEF ListenerInv, Accept
    <3> QED  BY <1>0, <2>3, <3>1, <3>2 DEF PermitsConserved
  <2>5. BacklogOK'
    <3>1. /\ Len(backlog') = Len(backlog) - 1
          /\ \A i \in 1..Len(backlog') :
                /\ backlog'[i] = backlog[i + 1]
                /\ i + 1 \in 1..Len(backlog)
                /\ backlog[i + 1] \in Clients
      BY <2>1
    <3>2. \A i \in 1..Len(backlog') : backlog[i + 1] # c
      BY <2>1, <3>1 DEF BacklogOK
    <3>3. \A i \in 1..Len(backlog') : conn'[backlog'[i]] = "queued"
      BY <3>1, <3>2 DEF BacklogOK
    <3>4. \A i, j \in 1..Len(backlog') : backlog'[i] = backlog'[j] => i = j
      BY <3>1 DEF BacklogOK
    <3> QED  BY <3>3, <3>4 DEF BacklogOK
  <2>6. BusyIsActive'
    BY <2>3 DEF BusyIsActive
  <2>7. late' \in {0, 1} /\ (late' = 1 => token' /\ lpc' = "permit")
    OBVIOUS
  <2>8. /\ conn' \in [Clients -> {"out", "queued", "open", "gone", "failed"}]
        /\ backlog' \in Seq(Clients)
        /\ \A d \in Clients : conn'[d] = "gone" => inbox'[d] = 0
    BY <2>1
  <2> QED  BY <2>4, <2>5, <2>6, <2>7, <2>8
<1>3. CASE DrainDone \/ DrainTimeout
  <2> USE <1>3 DEF DrainDone, DrainTimeout, netVars
  <2>1. Active' = Active /\ BacklogOK' /\ BusyIsActive' /\ LoopPermit' = LoopPermit
    BY DEF Active, BacklogOK, BusyIsActive, LoopPermit
  <2>2. PermitsConserved'
    BY <2>1 DEF PermitsConserved
  <2>3. CASE DrainDone
    <3>1. Cardinality(Active) \leq Unawaited
      <4>1. permits \geq DrainTotal /\ PermitsConserved /\ permits \in Nat
        BY <2>3
      <4>2. max_connections \in Nat /\ DrainTotal \in Nat
        BY LimitNat
      <4> HIDE DEF ListenerInv
      <4> QED  BY <1>0, <4>1, <4>2 DEF PermitsConserved, Unawaited
    <3>2. Cardinality(Active)' = Cardinality(Active) /\ Unawaited' = Unawaited
      BY <2>1, SameLimit
    <3> QED  BY <2>1, <2>2, <2>3, <3>1, <3>2
  <2>4. CASE DrainTimeout
    BY <2>1, <2>2, <2>4
  <2> QED  BY Zenon, <2>3, <2>4
<1> QED  BY Zenon, <1>1, <1>2, <1>3 DEF Loop

-----------------------------------------------------------------------------
(* ListenerInv is an invariant of the listener.                            *)
LEMMA ListenerInductive == Spec => []ListenerInv
<1>1. Init => ListenerInv
  <2> SUFFICES ASSUME Init PROVE ListenerInv
    OBVIOUS
  <2>1. Active = {} /\ LoopPermit = 0
    BY DEF Init, Active, LoopPermit
  <2>0. max_connections \in ConnectionLimits /\ max_connections \in Nat
    BY ListenerAssumption DEF Init
  <2>2. PermitsConserved
    BY <2>0, <2>1, FS_EmptySet DEF Init, PermitsConserved
  <2>3. 0 \in 0..MaxSends
    BY ListenerAssumption
  <2>4. BacklogOK /\ BusyIsActive
    BY DEF Init, BacklogOK, BusyIsActive
  <2>5. /\ conn \in [Clients -> {"out", "queued", "open", "gone", "failed"}]
        /\ inbox \in [Clients -> 0..MaxSends] /\ sent \in [Clients -> 0..MaxSends]
        /\ \A c \in Clients : inbox[c] \leq sent[c] /\ conn[c] # "gone"
    BY <2>3 DEF Init
  <2>6. permits \in Nat /\ backlog \in Seq(Clients)
    BY <2>0 DEF Init
  <2>7. /\ token \in BOOLEAN /\ lpc = "permit" /\ late = 0 /\ forced \in BOOLEAN
        /\ closed \subseteq Clients /\ busy \subseteq Clients
    BY Zenon DEF Init
  <2> QED  BY <2>0, <2>2, <2>4, <2>5, <2>6, <2>7 DEF ListenerInv
<1>2. ListenerInv /\ [Next]_vars => ListenerInv'
  <2> SUFFICES ASSUME ListenerInv, [Next]_vars PROVE ListenerInv'
    OBVIOUS
  <2>1. CASE UNCHANGED vars \/ Cancel
    <3> USE <2>1 DEF Cancel, vars, netVars, ListenerInv
    <3>1. Active' = Active /\ LoopPermit' = LoopPermit /\ Unawaited' = Unawaited
      BY SameLimit DEF Active, LoopPermit
    <3> QED  BY Zenon, <3>1 DEF BacklogOK, PermitsConserved, BusyIsActive
  <2>2. CASE Loop
    BY <2>2, LoopKeepsInv
  <2>3. CASE \E c \in Clients : Client(c) \/ Session(c)
    BY <2>3, ClientKeepsInv, SessionKeepsInv
  <2> QED  BY <2>1, <2>2, <2>3 DEF Next
<1> QED  BY <1>1, <1>2, PTL DEF Spec

(* What ListenerInv says of the properties.                                *)
LEMMA ListenerInvImplies ==
    ASSUME ListenerInv
    PROVE  /\ TypeOK /\ PermitsConserved
           /\ AtMostOneLateSession /\ DrainComplete /\ BusyIsActive
<1> USE DEF ListenerInv
<1>0. /\ Cardinality(Active) \in Nat
      /\ max_connections \in Nat /\ Unawaited \in Nat
      /\ max_connections \leq U32Max => Unawaited = 0
  BY ActiveFinite, LimitNat
<1>1. permits \in 0..max_connections
  <2>1. LoopPermit \in {0, 1}
    BY DEF LoopPermit
  <2>2. PermitsConserved /\ permits \in Nat
    OBVIOUS
  <2> HIDE DEF ListenerInv
  <2> QED  BY <1>0, <2>1, <2>2 DEF PermitsConserved
<1>2. TypeOK /\ AtMostOneLateSession
  BY <1>1 DEF TypeOK, AtMostOneLateSession
<1>3. DrainComplete
  <2> SUFFICES ASSUME lpc = "done", ~forced
               PROVE  /\ Cardinality(Active) \leq Unawaited
                      /\ max_connections \leq U32Max => Active = {} /\ busy = {}
                      /\ \A c \in Clients : conn[c] = "gone" => inbox[c] = 0
    BY DEF DrainComplete
  <2>1. Cardinality(Active) \leq Unawaited
    OBVIOUS
  <2>2. ASSUME max_connections \leq U32Max PROVE Active = {} /\ busy = {}
    <3>1. Cardinality(Active) = 0
      BY <1>0, <2>1, <2>2
    <3>2. Active = {}
      BY <3>1, ActiveFinite, FS_EmptySet
    <3> QED  BY <3>2 DEF BusyIsActive
  <2> QED  BY <2>1, <2>2
<1> QED  BY <1>2, <1>3

(* For every set of clients and every max_connections: no permit is leaked *)
(* or duplicated, at most one session starts after the cancellation, and a *)
(* drain that was not forced leaves no session running, but for those that *)
(* a max_connections above u32::MAX lets it overlook.                      *)
THEOREM ListenerSafe ==
    Spec => [](TypeOK /\ PermitsConserved /\ AtMostOneLateSession /\ DrainComplete)
  BY ListenerInductive, ListenerInvImplies, PTL

-----------------------------------------------------------------------------
(* The process around it.                                                  *)

(* main, the signal handlers and the forwarder's exhaustion change the     *)
(* listener's state only as Listener's own steps do: signals and joins     *)
(* leave it alone, SIGTERM and exhaustion are Cancel.                      *)
LEMMA DaemonStep == [DaemonNext]_daemonVars => [Next]_vars
<1> SUFFICES ASSUME [DaemonNext]_daemonVars PROVE [Next]_vars
  OBVIOUS
<1>1. CASE UNCHANGED daemonVars \/ RegisterSignals \/ SendSigTerm \/ SendSigInt \/ Join
  BY <1>1 DEF daemonVars, RegisterSignals, SendSigTerm, SendSigInt, Join
<1>2. CASE HandleSigTerm \/ \E c \in Clients : Exhaust(c)
  BY <1>2 DEF HandleSigTerm, Exhaust, Next
<1>3. CASE Running(Loop)
  BY <1>3 DEF Running, Next
<1>4. CASE \E c \in Clients : Running(Client(c)) \/ Running(Session(c))
  BY <1>4 DEF Running, Next
<1> QED  BY <1>1, <1>2, <1>3, <1>4 DEF DaemonNext

(* The process that main, the signals and the forwarder make of the        *)
(* listener implements the listener: no step of theirs corrupts its state. *)
THEOREM DaemonImplementsListener == DaemonSpec => ImplementsListener
<1>1. DaemonInit => Init
  BY DEF DaemonInit
<1> QED  BY <1>1, DaemonStep, PTL DEF DaemonSpec, ImplementsListener, Spec

(* main returns only after the listener did.                               *)
MainInv ==
    /\ main \in {"register", "signals", "join", "exited", "killed"}
    /\ handlers \in BOOLEAN
    /\ sigterm \in BOOLEAN
    /\ main = "exited" => lpc = "done"

(* MainInv is kept by every step of the process.                           *)
LEMMA MainInductive == DaemonSpec => []MainInv
<1>1. DaemonInit => MainInv
  BY Zenon DEF DaemonInit, MainInv
<1>2. MainInv /\ [DaemonNext]_daemonVars => MainInv'
  <2> SUFFICES ASSUME MainInv, [DaemonNext]_daemonVars PROVE MainInv'
    OBVIOUS
  <2> USE DEF MainInv
  <2>1. CASE UNCHANGED daemonVars
    BY <2>1 DEF daemonVars, vars
  <2>2. CASE RegisterSignals
    BY Zenon, <2>2 DEF RegisterSignals, vars
  <2>3. CASE SendSigTerm \/ SendSigInt
    BY Zenon, <2>3 DEF SendSigTerm, SendSigInt, Alive, vars
  <2>4. CASE HandleSigTerm
    BY Zenon, <2>4 DEF HandleSigTerm
  <2>5. CASE Join
    BY <2>5 DEF Join, vars
  <2>6. CASE Running(Loop) \/ \E c \in Clients :
                 Exhaust(c) \/ Running(Client(c)) \/ Running(Session(c))
    BY <2>6 DEF Running, Exhaust, Alive
  <2> QED  BY <2>1, <2>2, <2>3, <2>4, <2>5, <2>6 DEF DaemonNext
<1> QED  BY <1>1, <1>2, PTL DEF DaemonSpec

(* Inside the process the listener stays correct: permits are conserved,   *)
(* at most one session starts late, a drain that was not forced is         *)
(* complete up to its clamp to u32, and so is the one main waited for when *)
(* it returns.                                                             *)
THEOREM DaemonSafe ==
    DaemonSpec =>
        [](PermitsConserved /\ AtMostOneLateSession /\ DrainComplete /\ ExitIsDrained)
<1>1. DaemonSpec => []ListenerInv
  BY DaemonImplementsListener, ListenerInductive, PTL DEF ImplementsListener
<1>2. ListenerInv /\ MainInv =>
        PermitsConserved /\ AtMostOneLateSession /\ DrainComplete /\ ExitIsDrained
  <2> SUFFICES ASSUME ListenerInv, MainInv
               PROVE  PermitsConserved /\ AtMostOneLateSession /\ DrainComplete /\ ExitIsDrained
    OBVIOUS
  <2>1. PermitsConserved /\ AtMostOneLateSession /\ DrainComplete
    BY ListenerInvImplies
  <2> QED  BY <2>1 DEF MainInv, ExitIsDrained, DrainComplete
<1> QED  BY <1>1, <1>2, MainInductive, PTL

=============================================================================
