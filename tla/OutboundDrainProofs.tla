------------------------ MODULE OutboundDrainProofs ------------------------
(***************************************************************************)
(* What TLAPS proves of OutboundDrain: its type, that the store, the host, *)
(* the dialers and the tracker agree (StoreAgrees), that a leased source   *)
(* address stays on the host (LeasedIsAssigned) and that only idle         *)
(* addresses are given back (CompletesOnlyIdle).                           *)
(*                                                                         *)
(* The invariant behind StoreAgrees, Follows, says for each phase of the   *)
(* transaction under way which of the store's two states the host, the     *)
(* dialers and the tracker are in.  The one behind the other two,          *)
(* Undisturbed, says where a leased address can be as long as nothing was  *)
(* undone; it needs addresses that never come back, hence ~Wraps: with     *)
(* Wraps a refresh may generate an address again.                          *)
(***************************************************************************)
EXTENDS OutboundDrain, TLAPS

\* A transaction that runs has a phase, a state to reach and a direction.
LEMMA RunningHasFields ==
  ASSUME tx \in Transaction, tx # Idle
  PROVE  tx \in [phase : Phases, after : PoolState, undo : BOOLEAN]
BY DEF Transaction

\* Only a transaction that runs has one of the phases.
LEMMA PhaseMeansRunning ==
  ASSUME tx \in Transaction
  PROVE  tx.phase \in Phases <=> tx # Idle
BY DEF Transaction, Phases, Idle

\* A record update moves a transaction to a phase, and may turn it around.
LEMMA MovedOn ==
  ASSUME NEW t \in [phase : Phases, after : PoolState, undo : BOOLEAN],
         NEW p \in Phases, NEW u \in BOOLEAN
  PROVE  /\ [t EXCEPT !.phase = p] \in [phase : Phases, after : PoolState, undo : BOOLEAN]
         /\ [t EXCEPT !.phase = p].phase = p
         /\ [t EXCEPT !.phase = p].after = t.after
         /\ [t EXCEPT !.phase = p].undo = t.undo
         /\ [t EXCEPT !.phase = p, !.undo = u] \in [phase : Phases, after : PoolState, undo : BOOLEAN]
         /\ [t EXCEPT !.phase = p, !.undo = u].phase = p
         /\ [t EXCEPT !.phase = p, !.undo = u].after = t.after
         /\ [t EXCEPT !.phase = p, !.undo = u].undo = u
OBVIOUS

\* A step of the transaction leads it from a phase to another and changes nothing of its aim.
Leads(from, to, undo) ==
  /\ tx # Idle /\ tx.phase = from
  /\ tx' \in Transaction /\ tx' # Idle
  /\ tx'.phase = to /\ tx'.after = tx.after /\ tx'.undo = undo

\* From which phase to which every step of a transaction leads, and which steps end it.
LEMMA Steps ==
  ASSUME tx \in Transaction
  PROVE  /\ PrepareOutbound => Leads("prepare", "sync", tx.undo)
         /\ Replace => Leads("sync", "refresh", tx.undo)
         /\ Synced => Leads("refresh", IF tx.undo THEN "network" ELSE "save", tx.undo)
         /\ SyncFails => Leads("refresh", "prepare", TRUE)
         /\ SaveFails => Leads("save", "prepare", TRUE)
         /\ Reconcile /\ ~tx.undo => Leads("network", "prepare", FALSE)
         /\ Reconcile /\ tx.undo => tx # Idle /\ tx' = Idle
         /\ ReconcileFails => tx # Idle /\ tx' = Idle
         /\ Save => tx # Idle /\ tx' = Idle
<1> DEFINE T == [phase : Phases, after : PoolState, undo : BOOLEAN]
<1>1. ASSUME NEW p \in Phases, tx.phase = p PROVE tx \in T /\ tx # Idle
  BY <1>1, PhaseMeansRunning, RunningHasFields
<1>2. \A t \in T : t \in Transaction /\ (t.phase \in Phases => t # Idle)
  BY DEF Transaction, Idle, Phases
<1>3. ASSUME NEW from \in Phases, NEW to \in Phases, tx.phase = from,
             tx' = [tx EXCEPT !.phase = to]
      PROVE  Leads(from, to, tx.undo)
  BY <1>1, <1>2, <1>3, MovedOn DEF Leads
<1>4. ASSUME NEW from \in Phases, NEW to \in Phases, tx.phase = from,
             tx' = [tx EXCEPT !.phase = to, !.undo = TRUE]
      PROVE  Leads(from, to, TRUE)
  BY <1>1, <1>2, <1>4, MovedOn DEF Leads
<1>5. "network" \in Phases /\ "prepare" \in Phases /\ "sync" \in Phases
      /\ "refresh" \in Phases /\ "save" \in Phases
  BY DEF Phases
<1>6. PrepareOutbound => Leads("prepare", "sync", tx.undo)
  BY <1>3, <1>5 DEF PrepareOutbound, Prepare
<1>7. Replace => Leads("sync", "refresh", tx.undo)
  BY <1>3, <1>5 DEF Replace
<1>8. Synced => Leads("refresh", IF tx.undo THEN "network" ELSE "save", tx.undo)
  BY <1>3, <1>5 DEF Synced, SyncDone
<1>9. SyncFails => Leads("refresh", "prepare", TRUE)
  BY <1>4, <1>5 DEF SyncFails, Undo
<1>10. SaveFails => Leads("save", "prepare", TRUE)
  BY <1>4, <1>5 DEF SaveFails, Undo
<1>11. Reconcile /\ ~tx.undo => Leads("network", "prepare", FALSE)
  <2> SUFFICES ASSUME Reconcile, ~tx.undo PROVE Leads("network", "prepare", FALSE)
    OBVIOUS
  <2>1. tx.undo = FALSE
    BY <1>1, <1>5 DEF Reconcile
  <2> QED BY <1>3, <1>5, <2>1 DEF Reconcile
<1>12. (Reconcile /\ tx.undo) \/ ReconcileFails \/ Save => tx # Idle /\ tx' = Idle
  BY <1>1, <1>5 DEF Reconcile, ReconcileFails, Save
<1> QED BY <1>6, <1>7, <1>8, <1>9, <1>10, <1>11, <1>12

\* A transaction begins: with a state of the pool it is one of Transaction.
LEMMA BegunIsTyped ==
  ASSUME NEW after \in PoolState, Begin(after)
  PROVE  /\ tx = Idle
         /\ tx' \in Transaction
         /\ tx' # Idle
         /\ tx'.phase = "network" /\ tx'.after = after /\ tx'.undo = FALSE
BY DEF Begin, Transaction, Phases, Idle

\* The states that transactions aim at are states of a pool.
LEMMA AftersAreStates ==
  ASSUME committed \in PoolState
  PROVE  /\ \A new \in SUBSET Addresses :
              [active |-> new, draining |-> committed.draining \cup {committed.active}] \in PoolState
         /\ \A S \in SUBSET Addresses : Completed(committed, S) \in PoolState
         /\ \A batch : [committed EXCEPT !.draining = @ \ {batch}] \in PoolState
         /\ [committed EXCEPT !.draining = {}] \in PoolState
<1>1. \A S \in SUBSET Addresses : Completed(committed, S) \in PoolState
  <2> TAKE S \in SUBSET Addresses
  <2>1. {b \ S : b \in committed.draining} \subseteq SUBSET Addresses
    BY DEF PoolState
  <2> QED BY <2>1 DEF PoolState, Completed
<1> QED BY <1>1 DEF PoolState

\* A pool has addresses only.
LEMMA LiveIsAddresses ==
  ASSUME NEW s \in PoolState
  PROVE  Draining(s) \subseteq Addresses /\ Live(s) \subseteq Addresses /\ s.active \subseteq Addresses
BY DEF PoolState, Draining, Live

\* Completing a drain takes just those addresses out of the batches and leaves the active ones.
LEMMA CompletedDrains ==
  ASSUME NEW s \in PoolState, NEW S
  PROVE  Completed(s, S).active = s.active /\ Draining(Completed(s, S)) = Draining(s) \ S
<1> DEFINE d == {b \ S : b \in s.draining} \ {{}}
<1>1. Completed(s, S).active = s.active /\ Completed(s, S).draining = d
  BY DEF Completed, PoolState
<1>2. ASSUME NEW a \in UNION d PROVE a \in Draining(s) \ S
  BY <1>2 DEF Draining
<1>3. ASSUME NEW a \in Draining(s) \ S PROVE a \in UNION d
  <2>1. PICK b \in s.draining : a \in b
    BY <1>3 DEF Draining
  <2>2. b \ S \in d /\ a \in b \ S
    BY <1>3, <2>1
  <2> QED BY <2>2
<1> HIDE DEF d
<1> QED BY <1>1, <1>2, <1>3 DEF Draining

\* The pending map keeps its shape when an address is reported.
LEMMA MarkTyped ==
  ASSUME DOMAIN pending \subseteq Addresses, \A b \in DOMAIN pending : pending[b] = {"outbound"},
         queue \subseteq Addresses,
         NEW a \in Addresses, Mark("outbound", a)
  PROVE  /\ DOMAIN pending' \subseteq DOMAIN pending
         /\ \A b \in DOMAIN pending' : pending'[b] = {"outbound"}
         /\ queue' \subseteq queue \cup {a}
BY DEF Mark, Without

-----------------------------------------------------------------------------
\* The process starts with variables of their types.
LEMMA InitTyped == Init => TypeOK
<1> SUFFICES ASSUME Init PROVE TypeOK
  OBVIOUS
<1>1. committed \in PoolState
  BY DEF Init, PipelineInit, PoolState
<1>2. 0 \in 0 .. MaxLeases /\ 0 \in 0 .. MaxFaults /\ 0 \in 0 .. MaxCrashes
  BY PoolAssumption, LeaseAssumption
<1>3. DOMAIN pending = {}
  BY DEF Init, PipelineInit
<1>4. PipelineTypeOK
  BY <1>1, <1>2, <1>3, LiveIsAddresses DEF Init, PipelineInit, PipelineTypeOK, Transaction
<1> QED BY <1>1, <1>2, <1>3, <1>4, LiveIsAddresses DEF Init, PipelineInit, TypeOK, None

\* What the coordinator does alone.
LEMMA PipelineStepTyped ==
  ASSUME TypeOK, PipelineStep, UNCHANGED outboundVars
  PROVE  TypeOK'
<1>1. PipelineTypeOK' /\ UNCHANGED pending
  <2> USE DEF TypeOK, PipelineTypeOK
  <2>1. CASE RefreshPool
    <3>1. PICK new \in SUBSET Addresses :
            Begin([active |-> new, draining |-> committed.draining \cup {committed.active}])
      BY <2>1 DEF RefreshPool
    <3>2. tx' \in Transaction
      BY <3>1, AftersAreStates, BegunIsTyped
    <3> QED BY <2>1, <3>2 DEF RefreshPool
  <2>2. CASE OtherTransaction
    <3>1. tx' \in Transaction
      BY <2>2, BegunIsTyped DEF OtherTransaction
    <3> QED BY <2>2, <3>1 DEF OtherTransaction
  <2>3. CASE TakeQueue
    BY <2>3 DEF TakeQueue
  <2>4. CASE CompleteDrainedAddresses
    <3>1. tx' \in Transaction
      BY <2>4, AftersAreStates, BegunIsTyped DEF CompleteDrainedAddresses
    <3> QED BY <2>4, <3>1 DEF CompleteDrainedAddresses
  <2>5. CASE CompleteAllDrains
    <3>1. tx' \in Transaction
      BY <2>5, AftersAreStates, BegunIsTyped DEF CompleteAllDrains
    <3> QED BY <2>5, <3>1 DEF CompleteAllDrains
  <2>6. CASE Reconcile
    <3>1. tx # Idle /\ tx' \in Transaction
      BY <2>6, Steps DEF Leads, Transaction
    <3>3. assigned' \subseteq Addresses
      BY <2>6, <3>1, RunningHasFields, LiveIsAddresses DEF Reconcile, Target
    <3> QED BY <2>6, <3>1, <3>3 DEF Reconcile
  <2>7. CASE ReconcileFails
    <3>1. assigned' \subseteq Addresses
      BY <2>7, LiveIsAddresses DEF ReconcileFails
    <3> QED BY <2>7, <3>1, PoolAssumption DEF ReconcileFails, MayFail, Transaction
  <2>8. CASE Save
    <3>1. tx # Idle
      BY <2>8, Steps
    <3>2. tx.after \in PoolState /\ tx.after.active \subseteq Addresses
      BY <3>1, RunningHasFields, LiveIsAddresses
    <3> QED BY <2>8, <3>2 DEF Save, Transaction
  <2>9. CASE SaveFails
    <3>1. tx' \in Transaction
      BY <2>9, Steps DEF Leads
    <3> QED BY <2>9, <3>1, PoolAssumption DEF SaveFails, MayFail
  <2> QED BY <2>1, <2>2, <2>3, <2>4, <2>5, <2>6, <2>7, <2>8, <2>9 DEF PipelineStep
<1> QED BY <1>1 DEF TypeOK, outboundVars

\* The runtime's half.
LEMMA RuntimeStepTyped ==
  ASSUME TypeOK, PrepareOutbound \/ Replace \/ Synced \/ SyncFails
  PROVE  TypeOK'
<1> USE DEF TypeOK, PipelineTypeOK
<1>1. tx \in [phase : Phases, after : PoolState, undo : BOOLEAN]
  BY Steps, RunningHasFields DEF Leads
<1>2. Draining(Target) \subseteq Addresses /\ Target.active \subseteq Addresses
  BY <1>1, LiveIsAddresses DEF Target
<1>3. tx' \in Transaction
  BY Steps DEF Leads
<1>4. CASE PrepareOutbound
  <2>1. pending' = [a \in Draining(Target) |-> {"outbound"}]
    BY <1>4 DEF PrepareOutbound, Prepare
  <2>2. DOMAIN pending' \subseteq Addresses /\ \A a \in DOMAIN pending' : pending'[a] = {"outbound"}
    BY <2>1, <1>2
  <2>3. UNCHANGED queue
    BY <1>4 DEF PrepareOutbound, Prepare
  <2> QED BY <1>3, <1>4, <2>2, <2>3 DEF PrepareOutbound, Prepare, outboundVars
<1>5. CASE Replace
  BY <1>2, <1>3, <1>5 DEF Replace
<1>6. CASE Synced
  BY <1>3, <1>6 DEF Synced, outboundVars
<1>7. CASE SyncFails
  BY <1>3, <1>7, PoolAssumption DEF SyncFails, MayFail, outboundVars
<1> QED BY <1>4, <1>5, <1>6, <1>7

\* Connections, reports, forced drains and crashes.
LEMMA ConnectionStepTyped ==
  ASSUME TypeOK,
         \/ \E a \in Addresses : Acquire(a) \/ Release(a) \/ ReportReleased(a) \/ ReportReady(a)
         \/ \E batch \in committed.draining : ForceDrain(batch)
         \/ Crash
  PROVE  TypeOK'
<1> USE DEF TypeOK
<1>1. ASSUME NEW a \in Addresses, Acquire(a) PROVE TypeOK'
  <2>1. leases[a] + 1 \in 0 .. MaxLeases
    BY <1>1, LeaseAssumption DEF Acquire
  <2>2. leases' \in [Addresses -> 0 .. MaxLeases]
    BY <1>1, <2>1 DEF Acquire
  <2> QED BY <1>1, <2>2 DEF Acquire, pipelineVars, PipelineTypeOK
<1>2. ASSUME NEW a \in Addresses, Release(a) PROVE TypeOK'
  <2>1. leases[a] - 1 \in 0 .. MaxLeases
    BY <1>2, LeaseAssumption DEF Release
  <2>2. leases' \in [Addresses -> 0 .. MaxLeases]
    BY <1>2, <2>1 DEF Release
  <2>3. sources' \subseteq Addresses /\ released' \in [Addresses -> Nat]
    BY <1>2 DEF Release
  <2> QED BY <1>2, <2>2, <2>3 DEF Release, pipelineVars, PipelineTypeOK
<1>3. ASSUME NEW a \in Addresses, ReportReleased(a) PROVE TypeOK'
  <2>1. released[a] - 1 \in Nat
    BY <1>3 DEF ReportReleased
  <2>2. released' \in [Addresses -> Nat]
    BY <1>3, <2>1 DEF ReportReleased
  <2> QED BY <1>3, <2>2, MarkTyped DEF ReportReleased, PipelineTypeOK
<1>4. ASSUME NEW a \in Addresses, ReportReady(a) PROVE TypeOK'
  BY <1>4, MarkTyped DEF ReportReady, PipelineTypeOK
<1>5. ASSUME NEW batch \in committed.draining, ForceDrain(batch) PROVE TypeOK'
  <2> USE DEF PipelineTypeOK
  <2>1. tx' \in Transaction
    BY <1>5, AftersAreStates, BegunIsTyped DEF ForceDrain, BeginForced
  <2>2. leases' \in [Addresses -> 0 .. MaxLeases]
    BY <1>5, LeaseAssumption DEF ForceDrain
  <2>3. DOMAIN pending' \subseteq Addresses /\ \A a \in DOMAIN pending' : pending'[a] = {"outbound"}
    BY <1>5 DEF ForceDrain
  <2>4. queue' \subseteq Addresses /\ sources' \subseteq Addresses
    BY <1>5 DEF ForceDrain
  <2> QED BY <1>5, <2>1, <2>2, <2>3, <2>4 DEF ForceDrain
<1>6. CASE Crash
  <2>1. None \in [Addresses -> 0 .. MaxLeases] /\ None \in [Addresses -> Nat]
    BY LeaseAssumption DEF None
  <2> QED BY <1>6, <2>1, PoolAssumption DEF Crash, PipelineCrash, PipelineTypeOK, Transaction
<1> QED BY <1>1, <1>2, <1>3, <1>4, <1>5, <1>6

(***************************************************************************)
(* Every variable of the pool, its pipeline and its leases keeps its type, *)
(* for every set of addresses and every bound: the tracker waits for one   *)
(* consumer of an outbound address, and a lease count stays within 0 and   *)
(* MaxLeases.                                                              *)
(***************************************************************************)
THEOREM TypeCorrect == Spec => []TypeOK
<1>1. TypeOK /\ [Next]_vars => TypeOK'
  <2> SUFFICES ASSUME TypeOK, [Next]_vars PROVE TypeOK'
    OBVIOUS
  <2>1. CASE Next
    BY <2>1, PipelineStepTyped, RuntimeStepTyped, ConnectionStepTyped DEF Next
  <2>2. CASE UNCHANGED vars
    BY <2>2 DEF vars, pipelineVars, outboundVars, TypeOK, PipelineTypeOK
  <2> QED BY <2>1, <2>2
<1> QED BY InitTyped, <1>1, PTL DEF Spec

-----------------------------------------------------------------------------
\* A transaction is applied, or is being undone.
Forward == tx # Idle /\ ~tx.undo
Backward == tx # Idle /\ tx.undo

\* The host has the committed addresses until the first reconciliation of a transaction, and those
\* of its aim from then on; nothing is said of it while a transaction is undone.
HostFollows ==
  /\ ~starting /\ (tx # Idle => ~tx.undo /\ tx.phase = "network") => assigned = Live(committed)
  /\ Forward /\ tx.phase # "network" => assigned = Live(tx.after)

\* The dialers use the active addresses of the committed state until Replace, those of the aim
\* after it, and the former again once an undone transaction has replaced them a second time.
DialersFollow ==
  /\ ~starting /\ (tx # Idle => ~tx.undo /\ tx.phase \in {"network", "prepare", "sync"})
       => current = committed.active
  /\ Forward /\ tx.phase \in {"refresh", "save"} => current = tx.after.active
  /\ Backward /\ tx.phase \in {"refresh", "network"} => current = committed.active

\* The tracker waits only for what drains in the state it was prepared for: the committed one, the
\* aim from PrepareOutbound on, and the committed one again when an undone transaction has prepared
\* it a second time.
TrackerFollows ==
  /\ (tx # Idle => ~tx.undo /\ tx.phase \in {"network", "prepare"})
       => DOMAIN pending \subseteq Draining(committed)
  /\ Forward /\ tx.phase \in {"sync", "refresh", "save"} => DOMAIN pending \subseteq Draining(tx.after)
  /\ Backward /\ tx.phase = "prepare" => DOMAIN pending \subseteq Draining(tx.after)
  /\ Backward /\ tx.phase # "prepare" => DOMAIN pending \subseteq Draining(committed)

\* The inductive invariant of StoreAgrees; a transaction that is being undone does not come to save.
Follows ==
  /\ TypeOK
  /\ Backward => tx.phase # "save"
  /\ HostFollows /\ DialersFollow /\ TrackerFollows

\* When the process starts, nothing drains and nothing is under way.
LEMMA InitFollows == Init => Follows
<1> SUFFICES ASSUME Init PROVE Follows
  OBVIOUS
<1>1. Draining(committed) = {} /\ Live(committed) = committed.active
  BY DEF Init, PipelineInit, Draining, Live
<1>2. DOMAIN pending = {}
  BY DEF Init, PipelineInit
<1> QED BY <1>1, <1>2, InitTyped
  DEF Init, PipelineInit, Follows, HostFollows, DialersFollow, TrackerFollows, Forward, Backward

\* Between transactions all of them have the committed state.
LEMMA FollowsImplies == Follows => StoreAgrees
<1> SUFFICES ASSUME Follows PROVE StoreAgrees
  OBVIOUS
<1>1. tx = Idle /\ ~starting => assigned = Live(committed) /\ current = committed.active
  BY DEF Follows, HostFollows, DialersFollow
<1>2. tx # Idle => tx.phase \in Phases /\ tx.undo \in BOOLEAN
  BY RunningHasFields DEF Follows, TypeOK, PipelineTypeOK
<1>3. DOMAIN pending \subseteq Draining(committed)
      \/ (tx # Idle /\ DOMAIN pending \subseteq Draining(tx.after))
  BY <1>2 DEF Follows, TrackerFollows, Forward, Backward, Phases
<1> QED BY <1>1, <1>3 DEF StoreAgrees

\* The beginning of a transaction moves nobody yet.
LEMMA BeginFollows ==
  ASSUME Follows, NEW after \in PoolState, Begin(after),
         UNCHANGED <<committed, assigned, starting, current>>,
         DOMAIN pending' \subseteq DOMAIN pending, TypeOK'
  PROVE  Follows'
BY BegunIsTyped DEF Follows, HostFollows, DialersFollow, TrackerFollows, Forward, Backward, Draining, Live

\* Neither the transaction nor what the store, the host and the dialers have changes.
LEMMA ReportFollows ==
  ASSUME Follows, UNCHANGED <<committed, tx, assigned, starting, current>>,
         DOMAIN pending' \subseteq DOMAIN pending, TypeOK'
  PROVE  Follows'
BY DEF Follows, HostFollows, DialersFollow, TrackerFollows, Forward, Backward, Draining, Live

\* Every step keeps Follows.
LEMMA StepFollows ==
  ASSUME Follows, [Next]_vars, TypeOK'
  PROVE  Follows'
<1> DEFINE NoTx == UNCHANGED <<committed, tx, assigned, starting, current>>
<1>1. tx \in Transaction /\ committed \in PoolState
  BY DEF Follows, TypeOK, PipelineTypeOK
<1>2. tx # Idle => tx.phase \in Phases /\ tx.undo \in BOOLEAN /\ tx.after \in PoolState
  BY <1>1, RunningHasFields
<1> USE DEF Forward, Backward
<1>3. CASE RefreshPool /\ UNCHANGED outboundVars
  <2>1. PICK new \in SUBSET Addresses :
          Begin([active |-> new, draining |-> committed.draining \cup {committed.active}])
    BY <1>3 DEF RefreshPool
  <2> QED BY <1>1, <1>3, <2>1, AftersAreStates, BeginFollows DEF RefreshPool, outboundVars
<1>4. CASE OtherTransaction /\ UNCHANGED outboundVars
  BY <1>1, <1>4, BeginFollows DEF OtherTransaction, outboundVars
<1>5. CASE TakeQueue /\ UNCHANGED outboundVars
  BY <1>5, ReportFollows DEF TakeQueue, outboundVars
<1>6. CASE CompleteDrainedAddresses /\ UNCHANGED outboundVars
  <2>1. CASE UNCHANGED tx
    BY <1>6, <2>1, ReportFollows DEF CompleteDrainedAddresses, outboundVars
  <2>2. CASE Begin(Completed(committed, taken))
    <3>1. Completed(committed, taken) \in PoolState
      BY <1>1, AftersAreStates DEF Follows, TypeOK, PipelineTypeOK
    <3> QED BY <1>6, <2>2, <3>1, BeginFollows DEF CompleteDrainedAddresses, outboundVars
  <2> QED BY <1>6, <2>1, <2>2 DEF CompleteDrainedAddresses
<1>7. CASE CompleteAllDrains /\ UNCHANGED outboundVars
  BY <1>1, <1>7, AftersAreStates, BeginFollows DEF CompleteAllDrains, outboundVars
<1>8. CASE Reconcile /\ UNCHANGED outboundVars
  <2>1. CASE tx.undo
    BY <1>1, <1>8, <2>1, Steps
    DEF Reconcile, outboundVars, Target, Follows, HostFollows, DialersFollow, TrackerFollows, Live, Draining
  <2>2. CASE ~tx.undo
    BY <1>1, <1>8, <2>2, Steps
    DEF Leads, Reconcile, outboundVars, Target, Follows, HostFollows, DialersFollow, TrackerFollows, Live, Draining
  <2> QED BY <2>1, <2>2
<1>9. CASE ReconcileFails /\ UNCHANGED outboundVars
  BY <1>1, <1>9, Steps
  DEF ReconcileFails, outboundVars, Follows, HostFollows, DialersFollow, TrackerFollows, Live, Draining
<1>10. CASE Save /\ UNCHANGED outboundVars
  BY <1>1, <1>2, <1>10, Steps
  DEF Save, outboundVars, Follows, HostFollows, DialersFollow, TrackerFollows, Live, Draining
<1>11. CASE SaveFails /\ UNCHANGED outboundVars
  BY <1>1, <1>2, <1>11, Steps
  DEF Leads, SaveFails, outboundVars, Follows, HostFollows, DialersFollow, TrackerFollows, Live, Draining
<1>12. CASE PrepareOutbound
  <2>1. DOMAIN pending' = Draining(Target)
    BY <1>12 DEF PrepareOutbound, Prepare
  <2> QED BY <1>1, <1>2, <1>12, <2>1, Steps
    DEF Leads, PrepareOutbound, Prepare, outboundVars, Target, Follows, HostFollows, DialersFollow,
        TrackerFollows, Live, Draining
<1>13. CASE Replace
  BY <1>1, <1>2, <1>13, Steps
  DEF Leads, Replace, Target, Follows, HostFollows, DialersFollow, TrackerFollows, Live, Draining
<1>14. CASE Synced
  BY <1>1, <1>2, <1>14, Steps
  DEF Leads, Synced, outboundVars, Follows, HostFollows, DialersFollow, TrackerFollows, Live, Draining
<1>15. CASE SyncFails
  BY <1>1, <1>2, <1>15, Steps
  DEF Leads, SyncFails, outboundVars, Follows, HostFollows, DialersFollow, TrackerFollows, Live, Draining
<1>16. ASSUME NEW a \in Addresses, Acquire(a) \/ Release(a) PROVE Follows'
  BY <1>16, ReportFollows DEF Acquire, Release, pipelineVars
<1>17. ASSUME NEW a \in Addresses, ReportReleased(a) \/ ReportReady(a) PROVE Follows'
  <2>1. DOMAIN pending' \subseteq DOMAIN pending
    BY <1>17, MarkTyped DEF ReportReleased, ReportReady, Follows, TypeOK, PipelineTypeOK
  <2> QED BY <1>17, <2>1, ReportFollows DEF ReportReleased, ReportReady
<1>18. ASSUME NEW batch \in committed.draining, ForceDrain(batch) PROVE Follows'
  BY <1>1, <1>18, AftersAreStates, BeginFollows DEF ForceDrain, BeginForced
<1>19. CASE Crash
  BY <1>19 DEF Crash, PipelineCrash, Follows, HostFollows, DialersFollow, TrackerFollows
<1>20. CASE UNCHANGED vars
  BY <1>20, ReportFollows DEF vars, pipelineVars, outboundVars
<1> QED BY <1>3, <1>4, <1>5, <1>6, <1>7, <1>8, <1>9, <1>10, <1>11, <1>12, <1>13, <1>14, <1>15, <1>16,
           <1>17, <1>18, <1>19, <1>20 DEF Next, PipelineStep

(***************************************************************************)
(* Whenever no transaction runs, the host has exactly the addresses that   *)
(* the store needs and the dialers use exactly the active ones, and the    *)
(* tracker waits only for addresses that drain: refreshOutbound and its    *)
(* rollback, a failing step and a crash in any phase included.             *)
(***************************************************************************)
THEOREM AlwaysAgrees == Spec => []StoreAgrees
<1>1. Follows /\ [Next]_vars /\ TypeOK' => Follows'
  BY StepFollows
<1> QED BY InitFollows, <1>1, TypeCorrect, FollowsImplies, PTL DEF Spec

-----------------------------------------------------------------------------
\* The addresses whose last connection has been reported, or is being reported.
Spent == {a \in Addresses : a \in queue \cup taken \cup ready \/ released[a] > 0}

\* The state the store will have when the transaction under way is saved.
Destined == IF tx = Idle THEN committed ELSE tx.after

\* A leased address is one the dialers use or one whose source drains.
Covered == \A a \in Addresses : leases[a] > 0 => a \in current \cup sources

\* What drains, or was reported, was generated and is not in use; what was reported is not leased
\* and does not drain any more.
Apart ==
  /\ sources \cup Spent \subseteq generated
  /\ (sources \cup Spent) \cap (current \cup Destined.active) = {}
  /\ sources \cap Spent = {}
  /\ \A a \in Spent : leases[a] = 0

\* The sources that drain are those of the state the store will have, and until Replace also of the
\* one it has.
Drained ==
  /\ sources \subseteq Draining(Destined)
  /\ tx # Idle /\ tx.phase \in {"network", "prepare", "sync"} => sources \subseteq Draining(committed)

\* Addresses are generated once: those that drain were generated, and are not active again.
Walked ==
  /\ Live(committed) \subseteq generated
  /\ tx # Idle => Draining(tx.after) \subseteq generated /\ committed.active \subseteq Live(tx.after)

\* A process that starts again has no lease.
Fresh == starting =>
  /\ sources = {} /\ Spent = {} /\ leases = None
  /\ (tx # Idle => tx.phase \in {"network", "prepare", "sync"}) => current = {}

\* The inductive invariant of the two theorems below: all this holds as long as no step of a
\* transaction failed.
Undisturbed == faults = 0 =>
  ~Backward /\ Covered /\ Apart /\ Drained /\ Walked /\ Fresh

\* No connection is open when the process starts.
LEMMA InitUndisturbed == Init => Undisturbed
<1> SUFFICES ASSUME Init PROVE Undisturbed
  OBVIOUS
<1>1. Draining(committed) = {} /\ Live(committed) = committed.active
  BY DEF Init, PipelineInit, Draining, Live
<1>2. Spent = {}
  BY DEF Init, PipelineInit, Spent, None
<1> QED BY <1>1, <1>2
  DEF Init, PipelineInit, Undisturbed, Backward, Covered, Apart, Drained, Walked, Fresh, None

\* What is in use or drains is on the host.
LEMMA UndisturbedImplies == Follows /\ Undisturbed => LeasedIsAssigned
<1> SUFFICES ASSUME Follows, Undisturbed, faults = 0, NEW a \in Addresses, leases[a] > 0
             PROVE  a \in assigned
  BY DEF LeasedIsAssigned
<1>1. ~starting
  BY DEF Undisturbed, Fresh, None
<1>2. a \in current \cup sources
  BY DEF Undisturbed, Covered
<1>3. CASE tx = Idle
  BY <1>1, <1>2, <1>3
  DEF Follows, HostFollows, DialersFollow, Undisturbed, Drained, Destined, Live
<1>4. CASE tx # Idle
  <2>1. tx.phase \in Phases /\ ~tx.undo
    BY <1>4, RunningHasFields DEF Follows, TypeOK, PipelineTypeOK, Undisturbed, Backward
  <2> QED BY <1>1, <1>2, <1>4, <2>1
    DEF Follows, HostFollows, DialersFollow, Undisturbed, Drained, Walked, Destined, Live, Forward, Phases
<1> QED BY <1>3, <1>4

\* A transaction may begin when its aim drains what is leased and not used any more.
LEMMA BeginUndisturbed ==
  ASSUME Undisturbed, NEW after \in PoolState, Begin(after), faults = 0,
         Draining(after) \subseteq generated, committed.active \subseteq Live(after),
         after.active \cap (sources' \cup Spent') = {},
         sources' \subseteq sources \cap Draining(after),
         Spent' \subseteq Spent \cup (sources \ sources'),
         \A a \in Addresses : leases'[a] = (IF a \in sources \ sources' THEN 0 ELSE leases[a]),
         leases' \in [Addresses -> 0 .. MaxLeases],
         sources \subseteq Addresses,
         UNCHANGED <<committed, generated, starting, faults, current>>
  PROVE  Undisturbed'
<1>1. tx = Idle /\ tx' # Idle /\ tx'.after = after /\ tx'.undo = FALSE /\ tx'.phase = "network"
  BY BegunIsTyped
<1>2. ~Backward' /\ Covered'
  BY <1>1 DEF Undisturbed, Backward, Covered
<1>3. Apart'
  BY <1>1 DEF Undisturbed, Apart, Destined, Spent
<1>4. Drained' /\ Walked'
  BY <1>1 DEF Undisturbed, Drained, Walked, Destined, Draining, Live
<1>5. Fresh'
  BY <1>1 DEF Undisturbed, Fresh, None
<1> QED BY <1>2, <1>3, <1>4, <1>5 DEF Undisturbed

\* A report moves an address within Spent, or takes it out.
LEMMA ReportUndisturbed ==
  ASSUME Undisturbed, faults = 0, Spent' \subseteq Spent,
         UNCHANGED <<committed, generated, tx, starting, faults, current, leases, sources>>
  PROVE  Undisturbed'
BY DEF Undisturbed, Backward, Covered, Apart, Drained, Walked, Fresh, Destined, Draining, Live, None

\* Every step keeps Undisturbed, unless it is a failure.
LEMMA StepUndisturbed ==
  ASSUME ~Wraps, Follows, Undisturbed, [Next]_vars, TypeOK'
  PROVE  Undisturbed'
<1> SUFFICES ASSUME faults' = 0 PROVE Undisturbed'
  BY DEF Undisturbed
<1>1. /\ tx \in Transaction /\ committed \in PoolState /\ faults \in Nat
      /\ leases \in [Addresses -> 0 .. MaxLeases] /\ released \in [Addresses -> Nat]
      /\ sources \subseteq Addresses /\ current \subseteq Addresses /\ taken \subseteq Addresses
      /\ queue \subseteq Addresses /\ ready \subseteq Addresses
  BY PoolAssumption DEF Follows, TypeOK, PipelineTypeOK
<1>2. tx # Idle => tx.phase \in Phases /\ tx.undo \in BOOLEAN /\ tx.after \in PoolState
  BY <1>1, RunningHasFields
<1>3. ~(ReconcileFails \/ SaveFails \/ SyncFails)
  BY <1>1 DEF ReconcileFails, SaveFails, SyncFails, MayFail
<1>4. faults = 0
  <2>1. UNCHANGED faults
    BY <1>3 DEF Next, PipelineStep, RefreshPool, OtherTransaction, TakeQueue, CompleteDrainedAddresses,
      CompleteAllDrains, Reconcile, Save, PrepareOutbound, Prepare, Replace, ReportReleased, Synced,
      ForceDrain, Crash, PipelineCrash, Acquire, Release, ReportReady, vars, pipelineVars
  <2> QED BY <2>1
<1>5. ~Backward /\ Covered /\ Apart /\ Drained /\ Walked /\ Fresh
  BY <1>4 DEF Undisturbed
<1>6. leases' \in [Addresses -> 0 .. MaxLeases]
  BY DEF TypeOK
<1>7. CASE RefreshPool /\ UNCHANGED outboundVars
  <2>1. PICK new \in SUBSET (Addresses \ generated) :
          Begin([active |-> new, draining |-> committed.draining \cup {committed.active}])
    BY <1>7 DEF RefreshPool
  <2> DEFINE after == [active |-> new, draining |-> committed.draining \cup {committed.active}]
  <2>2. after \in PoolState
    BY <1>1, AftersAreStates
  <2>3. Draining(after) = Live(committed) /\ after.active = new
    BY DEF Draining, Live
  <2>4. UNCHANGED Spent
    BY <1>7 DEF RefreshPool, outboundVars, Spent
  <2>5. tx = Idle
    BY <2>1 DEF Begin
  <2>6. sources \subseteq Live(committed)
    BY <1>5, <2>5 DEF Drained, Destined, Live
  <2> HIDE DEF after
  <2> QED BY <1>1, <1>4, <1>5, <1>6, <1>7, <2>1, <2>2, <2>3, <2>4, <2>6, BeginUndisturbed
    DEF RefreshPool, outboundVars, Apart, Walked, Live, after
<1>8. CASE OtherTransaction /\ UNCHANGED outboundVars
  <2>1. UNCHANGED Spent
    BY <1>8 DEF OtherTransaction, outboundVars, Spent
  <2>2. tx = Idle
    BY <1>8 DEF OtherTransaction, Begin
  <2> QED BY <1>1, <1>4, <1>5, <1>6, <1>8, <2>1, <2>2, BeginUndisturbed
    DEF OtherTransaction, outboundVars, Apart, Walked, Drained, Destined, Live
<1>9. CASE TakeQueue /\ UNCHANGED outboundVars
  <2>1. Spent' \subseteq Spent
    BY <1>9 DEF TakeQueue, outboundVars, Spent
  <2> QED BY <1>4, <1>9, <2>1, ReportUndisturbed DEF TakeQueue, outboundVars
<1>10. CASE CompleteDrainedAddresses /\ UNCHANGED outboundVars
  <2>1. Spent' \subseteq Spent
    BY <1>10 DEF CompleteDrainedAddresses, outboundVars, Spent
  <2>2. CASE UNCHANGED tx
    BY <1>4, <1>10, <2>1, <2>2, ReportUndisturbed DEF CompleteDrainedAddresses, outboundVars
  <2>3. CASE Begin(Completed(committed, taken))
    <3> DEFINE after == Completed(committed, taken)
    <3>1. after \in PoolState
      BY <1>1, AftersAreStates
    <3>2. Draining(after) = Draining(committed) \ taken /\ after.active = committed.active
      BY <1>1, CompletedDrains
    <3>3. tx = Idle
      BY <2>3 DEF Begin
    <3>4. sources \cap taken = {}
      BY <1>1, <1>5 DEF Apart, Spent
    <3>5. /\ Draining(after) \subseteq generated /\ committed.active \subseteq Live(after)
          /\ after.active \cap (sources \cup Spent) = {} /\ sources \subseteq Draining(after)
      BY <1>5, <3>2, <3>3, <3>4 DEF Walked, Live, Apart, Drained, Destined
    <3> HIDE DEF after
    <3> QED BY <1>1, <1>4, <1>6, <1>10, <2>1, <2>3, <3>1, <3>5, BeginUndisturbed
      DEF CompleteDrainedAddresses, outboundVars, after
  <2> QED BY <1>10, <2>2, <2>3 DEF CompleteDrainedAddresses
<1>11. CASE CompleteAllDrains /\ UNCHANGED outboundVars
  <2> DEFINE after == [committed EXCEPT !.draining = {}]
  <2>1. after \in PoolState
    BY <1>1, AftersAreStates
  <2>2. after.active = committed.active /\ Draining(after) = {}
    BY <1>1 DEF PoolState, Draining
  <2>3. UNCHANGED Spent
    BY <1>11 DEF CompleteAllDrains, outboundVars, Spent
  <2>4. sources = {} /\ Spent = {}
    BY <1>5, <1>11 DEF Fresh, CompleteAllDrains
  <2> HIDE DEF after
  <2> QED BY <1>1, <1>4, <1>6, <1>11, <2>1, <2>2, <2>3, <2>4, BeginUndisturbed
    DEF CompleteAllDrains, outboundVars, Live, after
<1>12. CASE Reconcile /\ UNCHANGED outboundVars
  <2>1. Leads("network", "prepare", FALSE)
    BY <1>1, <1>2, <1>5, <1>12, Steps DEF Backward
  <2>2. UNCHANGED Spent
    BY <1>12 DEF Reconcile, outboundVars, Spent
  <2> QED BY <1>4, <1>5, <1>12, <2>1, <2>2
    DEF Leads, Reconcile, outboundVars, Undisturbed, Backward, Covered, Apart, Drained, Walked, Fresh,
        Destined, Draining, Live, None
<1>13. CASE Save /\ UNCHANGED outboundVars
  <2>1. tx # Idle /\ tx' = Idle
    BY <1>1, <1>13, Steps
  <2>2. UNCHANGED Spent
    BY <1>13 DEF Save, outboundVars, Spent
  <2> QED BY <1>4, <1>5, <1>13, <2>1, <2>2
    DEF Save, outboundVars, Undisturbed, Backward, Covered, Apart, Drained, Walked, Fresh,
        Destined, Draining, Live, None
<1>14. CASE PrepareOutbound
  <2>1. Leads("prepare", "sync", FALSE)
    BY <1>1, <1>2, <1>5, <1>14, Steps DEF Backward, Leads
  <2>2. UNCHANGED Spent
    BY <1>14 DEF PrepareOutbound, Prepare, outboundVars, Spent
  <2> QED BY <1>4, <1>5, <1>14, <2>1, <2>2
    DEF Leads, PrepareOutbound, Prepare, outboundVars, Undisturbed, Backward, Covered, Apart, Drained,
        Walked, Fresh, Destined, Draining, Live, None
<1>15. CASE Replace
  <2>1. Leads("sync", "refresh", FALSE)
    BY <1>1, <1>2, <1>5, <1>15, Steps DEF Backward, Leads
  <2>2. Target = tx.after /\ tx.undo = FALSE
    BY <1>2, <1>5, <2>1 DEF Target, Leads, Backward
  <2> DEFINE gone == current \ tx.after.active
             new == tx.after.active
  <2>3. /\ current' = new
        /\ ready' = {a \in gone : leases[a] = 0}
        /\ sources' = (sources \cup {a \in gone : leases[a] > 0}) \ new
        /\ UNCHANGED <<committed, generated, queue, taken, starting, faults, leases, released>>
    BY <1>15, <2>2 DEF Replace
  <2>4. gone \subseteq generated /\ gone \subseteq Draining(tx.after)
    <3>1. CASE starting
      BY <1>5, <2>1, <3>1 DEF Fresh, Leads
    <3>2. CASE ~starting
      <4>1. current = committed.active
        BY <1>2, <2>1, <2>2, <3>2 DEF Follows, DialersFollow, Leads
      <4> QED BY <1>5, <2>1, <4>1 DEF Walked, Live, Leads
    <3> QED BY <3>1, <3>2
  <2>5. Destined = tx.after /\ Destined' = tx.after
    BY <2>1 DEF Destined, Leads
  <2>6. Spent' \subseteq Spent \cup ready' /\ ready' \subseteq Spent'
    BY <1>1, <2>3 DEF Spent
  <2>7. Covered'
    BY <1>1, <1>5, <2>3, <2>5 DEF Covered, Apart
  <2>8. Apart'
    <3>1. sources' \cup Spent' \subseteq generated'
      BY <1>5, <2>3, <2>4, <2>6 DEF Apart
    <3>2. (sources' \cup Spent') \cap (current' \cup Destined'.active) = {}
      BY <1>5, <2>3, <2>5, <2>6 DEF Apart
    <3>3. sources' \cap Spent' = {}
      BY <1>1, <1>5, <2>3, <2>6 DEF Apart
    <3>4. \A a \in Spent' : leases'[a] = 0
      BY <1>5, <2>3, <2>6 DEF Apart
    <3> QED BY <3>1, <3>2, <3>3, <3>4 DEF Apart
  <2>9. Drained' /\ Walked' /\ ~Backward'
    BY <1>5, <2>1, <2>3, <2>4, <2>5 DEF Drained, Walked, Leads, Draining, Live, Backward
  <2>10. Fresh'
    BY <1>1, <1>5, <2>1, <2>3, <2>6 DEF Fresh, Leads, None
  <2> QED BY <2>7, <2>8, <2>9, <2>10 DEF Undisturbed
<1>16. CASE Synced
  <2>1. Leads("refresh", "save", FALSE)
    BY <1>1, <1>2, <1>5, <1>16, Steps DEF Backward, Leads
  <2>2. UNCHANGED Spent
    BY <1>16 DEF Synced, outboundVars, Spent
  <2> QED BY <1>4, <1>5, <1>16, <2>1, <2>2
    DEF Leads, Synced, outboundVars, Undisturbed, Backward, Covered, Apart, Drained,
        Walked, Fresh, Destined, Draining, Live, None
<1>17. ASSUME NEW a \in Addresses, Acquire(a) PROVE Undisturbed'
  <2>1. UNCHANGED <<Spent, Destined>>
    BY <1>17 DEF Acquire, pipelineVars, Spent, Destined
  <2>2. a \notin Spent
    BY <1>5, <1>17 DEF Apart, Acquire
  <2>3. \A b \in Addresses \ {a} : leases'[b] = leases[b]
    BY <1>1, <1>17 DEF Acquire
  <2>4. Apart' /\ Covered'
    BY <1>1, <1>5, <1>17, <2>1, <2>2, <2>3 DEF Apart, Covered, Acquire, pipelineVars, Spent
  <2> QED BY <1>5, <1>17, <2>1, <2>4
    DEF Acquire, pipelineVars, Undisturbed, Backward, Drained, Walked, Fresh, Draining, Live
<1>18. ASSUME NEW a \in Addresses, Release(a) PROVE Undisturbed'
  <2>1. ~starting
    BY <1>5, <1>18 DEF Release, Fresh, None
  <2>2. /\ leases' = [leases EXCEPT ![a] = leases[a] - 1] /\ leases[a] > 0
        /\ UNCHANGED <<pipelineVars, current, ready>>
    BY <1>18 DEF Release
  <2>3. UNCHANGED Destined
    BY <2>2 DEF pipelineVars, Destined
  <2>4. sources' \subseteq sources /\ Spent' \subseteq Spent \cup (sources \ sources')
    BY <1>1, <1>18 DEF Release, pipelineVars, Spent
  <2>5. \A b \in Addresses : leases'[b] > 0 => leases[b] > 0 /\ (b \in sources => b \in sources')
    BY <1>1, <1>18 DEF Release
  <2>6. Covered'
    BY <1>5, <2>2, <2>5 DEF Covered, pipelineVars
  <2>7. \A b \in Spent' : b \in Addresses /\ leases'[b] \in Nat
    BY <1>6, LeaseAssumption DEF Spent
  <2>8. \A b \in Spent' : leases'[b] = 0
    BY <1>5, <2>4, <2>5, <2>7 DEF Apart
  <2>9. sources' \cap Spent' = {}
    BY <1>5, <2>4 DEF Apart
  <2>10. Apart'
    BY <1>5, <2>2, <2>3, <2>4, <2>8, <2>9 DEF Apart, pipelineVars
  <2> QED BY <1>5, <2>1, <2>2, <2>3, <2>4, <2>6, <2>10
    DEF pipelineVars, Undisturbed, Backward, Drained, Walked, Fresh, Draining, Live
<1>19. ASSUME NEW a \in Addresses, ReportReleased(a) \/ ReportReady(a) PROVE Undisturbed'
  <2>1. queue' \subseteq queue \cup {a}
    BY <1>19, MarkTyped DEF ReportReleased, ReportReady, Follows, TypeOK, PipelineTypeOK
  <2>2. Spent' \subseteq Spent
    BY <1>1, <1>19, <2>1 DEF ReportReleased, ReportReady, Spent
  <2> QED BY <1>4, <1>19, <2>2, ReportUndisturbed DEF ReportReleased, ReportReady
<1>20. ASSUME NEW batch \in committed.draining, ForceDrain(batch) PROVE Undisturbed'
  <2> DEFINE after == [committed EXCEPT !.draining = committed.draining \ {batch}]
  <2>1. after \in PoolState /\ after.active = committed.active
    BY <1>1, AftersAreStates DEF PoolState
  <2>2. Draining(after) \subseteq Draining(committed) /\ Draining(committed) \subseteq Draining(after) \cup batch
    BY <1>1 DEF Draining, PoolState
  <2>3. tx = Idle
    BY <1>20 DEF ForceDrain, BeginForced, Begin
  <2>4. Begin(after)
    BY <1>20 DEF ForceDrain, BeginForced
  <2>5. sources' = sources \ batch /\ queue' \subseteq queue \cup (sources \cap batch)
    BY <1>20 DEF ForceDrain
  <2>6. Spent' \subseteq Spent \cup (sources \ sources')
    BY <1>20, <2>5 DEF ForceDrain, Spent
  <2>7. \A a \in Addresses : leases'[a] = (IF a \in sources \ sources' THEN 0 ELSE leases[a])
    BY <1>20, <2>5 DEF ForceDrain
  <2>8. /\ Draining(after) \subseteq generated /\ committed.active \subseteq Live(after)
        /\ after.active \cap (sources' \cup Spent') = {} /\ sources' \subseteq sources \cap Draining(after)
    BY <1>5, <2>1, <2>2, <2>3, <2>5, <2>6 DEF Walked, Live, Apart, Drained, Destined
  <2> HIDE DEF after
  <2> QED BY <1>1, <1>4, <1>6, <1>20, <2>1, <2>4, <2>6, <2>7, <2>8, BeginUndisturbed
    DEF ForceDrain
<1>21. CASE Crash
  <2>1. Spent' = {}
    BY <1>21 DEF Crash, PipelineCrash, Spent, None
  <2> QED BY <1>5, <1>21, <2>1
    DEF Crash, PipelineCrash, Undisturbed, Backward, Covered, Apart, Drained, Walked, Fresh, Destined,
        Draining, Live, None
<1>22. CASE UNCHANGED vars
  <2>1. UNCHANGED Spent
    BY <1>22 DEF vars, pipelineVars, outboundVars, Spent
  <2> QED BY <1>4, <1>22, <2>1, ReportUndisturbed DEF vars, pipelineVars, outboundVars
<1> QED BY <1>3, <1>7, <1>8, <1>9, <1>10, <1>11, <1>12, <1>13, <1>14, <1>15, <1>16, <1>17, <1>18, <1>19,
           <1>20, <1>21, <1>22 DEF Next, PipelineStep

(***************************************************************************)
(* The source address of a connection stays on the host as long as the     *)
(* connection holds its lease, through refreshes, drains, forced drains    *)
(* and restarts, if no transaction was undone and no generated address     *)
(* comes back.                                                             *)
(***************************************************************************)
THEOREM LeasesKeepAddresses ==
  ASSUME ~Wraps
  PROVE  Spec => []LeasedIsAssigned
<1>1. Follows /\ [Next]_vars /\ TypeOK' => Follows'
  BY StepFollows
<1>2. Follows /\ Undisturbed /\ [Next]_vars /\ TypeOK' => Undisturbed'
  BY StepUndisturbed
<1> QED BY InitFollows, InitUndisturbed, <1>1, <1>2, TypeCorrect, UndisturbedImplies, PTL DEF Spec

(***************************************************************************)
(* Under the same conditions, the queue starts to give back only addresses *)
(* that no connection holds.                                               *)
(***************************************************************************)
THEOREM OnlyIdleComplete ==
  ASSUME ~Wraps
  PROVE  Spec => CompletesOnlyIdle
<1>1. Follows /\ [Next]_vars /\ TypeOK' => Follows'
  BY StepFollows
<1>2. Follows /\ Undisturbed /\ [Next]_vars /\ TypeOK' => Undisturbed'
  BY StepUndisturbed
<1>3. Follows /\ Undisturbed /\ [Next]_vars
        => [faults = 0 => \A a \in Addresses : Completes(a) => leases[a] = 0]_vars
  <2> SUFFICES ASSUME Follows, Undisturbed, [Next]_vars, faults = 0,
                      NEW a \in Addresses, Completes(a)
               PROVE  leases[a] = 0
    OBVIOUS
  <2>1. taken # {} /\ taken' = {} /\ tx = Idle /\ tx' # Idle /\ taken \subseteq Addresses
    BY DEF Completes, Follows, TypeOK, PipelineTypeOK
  <2>2. CompleteDrainedAddresses
    BY <2>1 DEF Next, PipelineStep, RefreshPool, OtherTransaction, TakeQueue, CompleteAllDrains, Reconcile,
      ReconcileFails, Save, SaveFails, PrepareOutbound, Prepare, Replace, ReportReleased, Synced, SyncFails,
      ForceDrain, Crash, PipelineCrash, Acquire, Release, ReportReady, vars, pipelineVars
  <2>3. tx'.after = Completed(committed, taken)
    BY <2>1, <2>2 DEF CompleteDrainedAddresses, Begin
  <2>4. a \in taken
    BY <2>3, CompletedDrains DEF Completes, Follows, TypeOK, PipelineTypeOK
  <2> QED BY <2>1, <2>4 DEF Undisturbed, Apart, Spent
<1> QED BY InitFollows, InitUndisturbed, <1>1, <1>2, <1>3, TypeCorrect, PTL DEF Spec, CompletesOnlyIdle
=============================================================================
