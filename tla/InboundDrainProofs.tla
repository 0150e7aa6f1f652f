------------------------- MODULE InboundDrainProofs -------------------------
(***************************************************************************)
(* What TLAPS proves of InboundDrain: that the listeners of the running    *)
(* nodes agree with the store (ListenersAgree), that a connection's        *)
(* endpoint is served until it is reported (ServedUntilReported), and that *)
(* only idle addresses are given back (CompletesOnlyIdle).                 *)
(*                                                                         *)
(* The invariant Follows says for each phase of the transaction under way  *)
(* where the registry is and which of two states the bindings of each node *)
(* have; Undisturbed says where the connections of the retired endpoints   *)
(* can be as long as nothing was undone.  The bound on a node's            *)
(* connections is no part of Typed: Registered is a sum over a set, which  *)
(* is defined by recursion.                                                *)
(***************************************************************************)
EXTENDS InboundDrain, TLAPS

\* A transaction that runs has a phase, a state to reach and a direction.
LEMMA RunningHasFields ==
  ASSUME tx \in Transaction, tx # Idle
  PROVE  tx \in [phase : Phases, after : PoolState, undo : BOOLEAN]
BY DEF Transaction

\* Only a transaction that runs has one of the phases.
LEMMA PhaseMeansRunning ==
  ASSUME tx \in Transaction
  PROVE  tx.phase \in Phases <=> tx # Idle
BY DEF Transaction, Phases, Idle

\* A record update moves a transaction to a phase, and may turn it around.
LEMMA MovedOn ==
  ASSUME NEW t \in [phase : Phases, after : PoolState, undo : BOOLEAN],
         NEW p \in Phases, NEW u \in BOOLEAN
  PROVE  /\ [t EXCEPT !.phase = p] \in [phase : Phases, after : PoolState, undo : BOOLEAN]
         /\ [t EXCEPT !.phase = p].phase = p
         /\ [t EXCEPT !.phase = p].after = t.after
         /\ [t EXCEPT !.phase = p].undo = t.undo
         /\ [t EXCEPT !.phase = p, !.undo = u] \in [phase : Phases, after : PoolState, undo : BOOLEAN]
         /\ [t EXCEPT !.phase = p, !.undo = u].phase = p
         /\ [t EXCEPT !.phase = p, !.undo = u].after = t.after
         /\ [t EXCEPT !.phase = p, !.undo = u].undo = u
OBVIOUS

\* A step of the transaction leads it from a phase to another and changes nothing of its aim.
Leads(from, to, undo) ==
  /\ tx # Idle /\ tx.phase = from
  /\ tx' \in Transaction /\ tx' # Idle
  /\ tx'.phase = to /\ tx'.after = tx.after /\ tx'.undo = undo

\* From which phase to which every step of a transaction leads, and which steps end it.
LEMMA Steps ==
  ASSUME tx \in Transaction
  PROVE  /\ PrepareInbound => Leads("prepare", "sync", tx.undo)
         /\ SyncRegistry => Leads("sync", "refresh", tx.undo)
         /\ Synced => Leads("refresh", IF tx.undo THEN "network" ELSE "save", tx.undo)
         /\ SyncFails => Leads("refresh", "prepare", TRUE)
         /\ SaveFails => Leads("save", "prepare", TRUE)
         /\ Reconcile /\ ~tx.undo => Leads("network", "prepare", FALSE)
         /\ Reconcile /\ tx.undo => tx # Idle /\ tx' = Idle
         /\ ReconcileFails => tx # Idle /\ tx' = Idle
         /\ Save => tx # Idle /\ tx' = Idle
<1> DEFINE T == [phase : Phases, after : PoolState, undo : BOOLEAN]
<1>1. ASSUME NEW p \in Phases, tx.phase = p PROVE tx \in T /\ tx # Idle
  BY <1>1, PhaseMeansRunning, RunningHasFields
<1>2. \A t \in T : t \in Transaction /\ (t.phase \in Phases => t # Idle)
  BY DEF Transaction, Idle, Phases
<1>3. ASSUME NEW from \in Phases, NEW to \in Phases, tx.phase = from,
             tx' = [tx EXCEPT !.phase = to]
      PROVE  Leads(from, to, tx.undo)
  BY <1>1, <1>2, <1>3, MovedOn DEF Leads
<1>4. ASSUME NEW from \in Phases, NEW to \in Phases, tx.phase = from,
             tx' = [tx EXCEPT !.phase = to, !.undo = TRUE]
      PROVE  Leads(from, to, TRUE)
  BY <1>1, <1>2, <1>4, MovedOn DEF Leads
<1>5. "network" \in Phases /\ "prepare" \in Phases /\ "sync" \in Phases
      /\ "refresh" \in Phases /\ "save" \in Phases
  BY DEF Phases
<1>6. PrepareInbound => Leads("prepare", "sync", tx.undo)
  BY <1>3, <1>5 DEF PrepareInbound, Prepare
<1>7. SyncRegistry => Leads("sync", "refresh", tx.undo)
  BY <1>3, <1>5 DEF SyncRegistry
<1>8. Synced => Leads("refresh", IF tx.undo THEN "network" ELSE "save", tx.undo)
  BY <1>3, <1>5 DEF Synced, SyncDone
<1>9. SyncFails => Leads("refresh", "prepare", TRUE)
  BY <1>4, <1>5 DEF SyncFails, Undo
<1>10. SaveFails => Leads("save", "prepare", TRUE)
  BY <1>4, <1>5 DEF SaveFails, Undo
<1>11. Reconcile /\ ~tx.undo => Leads("network", "prepare", FALSE)
  <2> SUFFICES ASSUME Reconcile, ~tx.undo PROVE Leads("network", "prepare", FALSE)
    OBVIOUS
  <2>1. tx.undo = FALSE
    BY <1>1, <1>5 DEF Reconcile
  <2> QED BY <1>3, <1>5, <2>1 DEF Reconcile
<1>12. (Reconcile /\ tx.undo) \/ ReconcileFails \/ Save => tx # Idle /\ tx' = Idle
  BY <1>1, <1>5 DEF Reconcile, ReconcileFails, Save
<1> QED BY <1>6, <1>7, <1>8, <1>9, <1>10, <1>11, <1>12

\* A transaction begins: with a state of the pool it is one of Transaction.
LEMMA BegunIsTyped ==
  ASSUME NEW after \in PoolState, Begin(after)
  PROVE  /\ tx = Idle
         /\ tx' \in Transaction
         /\ tx' # Idle
         /\ tx'.phase = "network" /\ tx'.after = after /\ tx'.undo = FALSE
BY DEF Begin, Transaction, Phases, Idle

\* The states that transactions aim at are states of a pool.
LEMMA AftersAreStates ==
  ASSUME committed \in PoolState
  PROVE  /\ \A new \in SUBSET Addresses :
              [active |-> new, draining |-> committed.draining \cup {committed.active}] \in PoolState
         /\ \A S \in SUBSET Addresses : Completed(committed, S) \in PoolState
         /\ \A batch : [committed EXCEPT !.draining = @ \ {batch}] \in PoolState
         /\ [committed EXCEPT !.draining = {}] \in PoolState
<1>1. \A S \in SUBSET Addresses : Completed(committed, S) \in PoolState
  <2> TAKE S \in SUBSET Addresses
  <2>1. {b \ S : b \in committed.draining} \subseteq SUBSET Addresses
    BY DEF PoolState
  <2> QED BY <2>1 DEF PoolState, Completed
<1> QED BY <1>1 DEF PoolState

\* A pool has addresses only.
LEMMA LiveIsAddresses ==
  ASSUME NEW s \in PoolState
  PROVE  Draining(s) \subseteq Addresses /\ Live(s) \subseteq Addresses /\ s.active \subseteq Addresses
BY DEF PoolState, Draining, Live

\* Completing a drain takes just those addresses out of the batches and leaves the active ones.
LEMMA CompletedDrains ==
  ASSUME NEW s \in PoolState, NEW S
  PROVE  Completed(s, S).active = s.active /\ Draining(Completed(s, S)) = Draining(s) \ S
<1> DEFINE d == {b \ S : b \in s.draining} \ {{}}
<1>1. Completed(s, S).active = s.active /\ Completed(s, S).draining = d
  BY DEF Completed, PoolState
<1>2. ASSUME NEW a \in UNION d PROVE a \in Draining(s) \ S
  BY <1>2 DEF Draining
<1>3. ASSUME NEW a \in Draining(s) \ S PROVE a \in UNION d
  <2>1. PICK b \in s.draining : a \in b
    BY <1>3 DEF Draining
  <2>2. b \ S \in d /\ a \in b \ S
    BY <1>3, <2>1
  <2> QED BY <2>2
<1> HIDE DEF d
<1> QED BY <1>1, <1>2, <1>3 DEF Draining

\* One count of one node changes.
LEMMA CountChanged ==
  ASSUME NEW f \in [Nodes -> [Addresses -> Nat]], NEW n \in Nodes, NEW a \in Addresses, NEW k \in Nat
  PROVE  /\ [f EXCEPT ![n][a] = k] \in [Nodes -> [Addresses -> Nat]]
         /\ [f EXCEPT ![n][a] = k][n][a] = k
         /\ \A m \in Nodes, b \in Addresses :
              m # n \/ b # a => [f EXCEPT ![n][a] = k][m][b] = f[m][b]
<1>1. [f[n] EXCEPT ![a] = k] \in [Addresses -> Nat]
  OBVIOUS
<1>2. [f EXCEPT ![n][a] = k] = [f EXCEPT ![n] = [f[n] EXCEPT ![a] = k]]
  OBVIOUS
<1> QED BY <1>1, <1>2

\* What a report does to the pending map and to the queue.
LEMMA MarkTyped ==
  ASSUME DOMAIN pending \subseteq Addresses, NEW n, NEW a \in Addresses, Mark(n, a)
  PROVE  /\ DOMAIN pending' \subseteq DOMAIN pending
         /\ \A b \in DOMAIN pending' : pending'[b] = (IF b = a THEN pending[b] \ {n} ELSE pending[b])
         /\ queue' = queue \/ (queue' = queue \cup {a} /\ a \in DOMAIN pending /\ pending[a] = {n})
BY DEF Mark, Without

-----------------------------------------------------------------------------
\* TypeOK without the limit of connections, and with what every state of this model has besides:
\* nothing is restored here.
Typed ==
  /\ committed \in PoolState
  /\ generated \subseteq Addresses
  /\ tx \in Transaction
  /\ assigned \subseteq Addresses
  /\ DOMAIN pending \subseteq Addresses
  /\ queue \subseteq Addresses
  /\ taken \subseteq Addresses
  /\ starting = FALSE
  /\ faults \in Nat
  /\ running \subseteq Nodes
  /\ registry \subseteq Addresses
  /\ endpoints \in [Nodes -> SUBSET Addresses]
  /\ listening \in [Nodes -> SUBSET Addresses]
  /\ accepted \in [Nodes -> SUBSET Addresses]
  /\ conns \in [Nodes -> [Addresses -> Nat]]
  /\ late \in [Nodes -> [Addresses -> Nat]]
  /\ retiring \in [Nodes -> SUBSET Addresses]
  /\ refreshing \subseteq Nodes
  /\ checking \subseteq Nodes \X Addresses
  /\ reports \subseteq Nodes \X Addresses
  /\ overlooked \subseteq Nodes

\* All nodes run and serve the active addresses when the model starts.
LEMMA InitTyped == Init => Typed
<1> SUFFICES ASSUME Init PROVE Typed
  OBVIOUS
<1>1. committed \in PoolState
  BY DEF Init, PipelineInit, PoolState
<1>2. DOMAIN pending = {}
  BY DEF Init, PipelineInit
<1> QED BY <1>1, <1>2, LiveIsAddresses
  DEF Init, PipelineInit, Typed, Transaction, Nowhere, Unconnected

\* What the coordinator does alone.
LEMMA PipelineStepTyped ==
  ASSUME Typed, PipelineStep, UNCHANGED inboundVars
  PROVE  Typed'
<1> USE DEF Typed, inboundVars
<1>1. CASE RefreshPool
  <2>1. PICK new \in SUBSET Addresses :
          Begin([active |-> new, draining |-> committed.draining \cup {committed.active}])
    BY <1>1 DEF RefreshPool
  <2>2. tx' \in Transaction
    BY <2>1, AftersAreStates, BegunIsTyped
  <2> QED BY <1>1, <2>2 DEF RefreshPool
<1>2. CASE OtherTransaction
  <2>1. tx' \in Transaction
    BY <1>2, BegunIsTyped DEF OtherTransaction
  <2> QED BY <1>2, <2>1 DEF OtherTransaction
<1>3. CASE TakeQueue
  BY <1>3 DEF TakeQueue
<1>4. CASE CompleteDrainedAddresses
  <2>1. tx' \in Transaction
    BY <1>4, AftersAreStates, BegunIsTyped DEF CompleteDrainedAddresses
  <2> QED BY <1>4, <2>1 DEF CompleteDrainedAddresses
<1>5. CASE CompleteAllDrains
  BY <1>5 DEF CompleteAllDrains
<1>6. CASE Reconcile
  <2>1. tx # Idle /\ tx' \in Transaction
    BY <1>6, Steps DEF Leads, Transaction
  <2>2. assigned' \subseteq Addresses
    BY <1>6, <2>1, RunningHasFields, LiveIsAddresses DEF Reconcile, Target
  <2> QED BY <1>6, <2>1, <2>2 DEF Reconcile
<1>7. CASE ReconcileFails
  <2>1. assigned' \subseteq Addresses
    BY <1>7, LiveIsAddresses DEF ReconcileFails
  <2> QED BY <1>7, <2>1 DEF ReconcileFails, MayFail, Transaction
<1>8. CASE Save
  <2>1. tx # Idle
    BY <1>8, Steps
  <2>2. tx.after \in PoolState /\ tx.after.active \subseteq Addresses
    BY <2>1, RunningHasFields, LiveIsAddresses
  <2> QED BY <1>8, <2>2 DEF Save, Transaction
<1>9. CASE SaveFails
  <2>1. tx' \in Transaction
    BY <1>9, Steps DEF Leads
  <2> QED BY <1>9, <2>1 DEF SaveFails, MayFail
<1> QED BY <1>1, <1>2, <1>3, <1>4, <1>5, <1>6, <1>7, <1>8, <1>9 DEF PipelineStep

\* The runtime's half of a transaction.
LEMMA RuntimeStepTyped ==
  ASSUME Typed,
         \/ PrepareInbound \/ SyncRegistry \/ Synced \/ SyncFails
         \/ \E batch \in committed.draining : ForceDrain(batch)
  PROVE  Typed'
<1> USE DEF Typed, inboundVars
<1>1. ASSUME NEW from, NEW to, NEW undo, Leads(from, to, undo)
      PROVE  /\ tx' \in Transaction /\ Draining(Target) \subseteq Addresses
             /\ Target.active \subseteq Addresses
  BY <1>1, RunningHasFields, LiveIsAddresses DEF Leads, Target
<1>2. CASE PrepareInbound
  <2>1. /\ DOMAIN pending' \subseteq Draining(Target) /\ queue' \subseteq queue \cup Draining(Target)
    BY <1>2 DEF PrepareInbound, Prepare
  <2> QED BY <1>1, <1>2, <2>1, Steps DEF PrepareInbound, Prepare
<1>3. CASE SyncRegistry
  BY <1>1, <1>3, Steps DEF SyncRegistry
<1>4. CASE Synced
  BY <1>1, <1>4, Steps DEF Synced
<1>5. CASE SyncFails
  <2>1. tx' \in Transaction
    BY <1>5, Steps DEF Leads
  <2> QED BY <1>5, <2>1 DEF SyncFails, MayFail
<1>6. ASSUME NEW batch \in committed.draining, ForceDrain(batch) PROVE Typed'
  <2>1. tx' \in Transaction
    BY <1>6, AftersAreStates, BegunIsTyped DEF ForceDrain, BeginForced
  <2> QED BY <1>6, <2>1 DEF ForceDrain
<1> QED BY <1>2, <1>3, <1>4, <1>5, <1>6

\* Nodes that are refreshed, started, stopped and updated.
LEMMA NodeStepTyped ==
  ASSUME Typed, NEW n \in Nodes,
         Retire(n) \/ StartNode(n) \/ StopNode(n) \/ UpdateNode(n)
  PROVE  Typed'
<1> USE DEF Typed, pipelineVars
<1>1. CASE Retire(n)
  BY <1>1 DEF Retire
<1>2. CASE StartNode(n)
  BY <1>2 DEF StartNode
<1>3. CASE StopNode(n)
  BY <1>3 DEF StopNode, Unconnected
<1>4. CASE UpdateNode(n)
  BY <1>4 DEF UpdateNode, Unconnected
<1> QED BY <1>1, <1>2, <1>3, <1>4

\* Connections that come and go, and their reports.
LEMMA ConnectionStepTyped ==
  ASSUME Typed, NEW n \in Nodes, NEW a \in Addresses,
         Accept(n, a) \/ Register(n, a) \/ End(n, a) \/ Report(n, a) \/ CloseRetired(n, a)
  PROVE  Typed'
<1> USE DEF Typed, pipelineVars
<1>1. CASE Accept(n, a)
  BY <1>1 DEF Accept
<1>2. CASE Register(n, a)
  <2>1. conns' \in [Nodes -> [Addresses -> Nat]] /\ late' \in [Nodes -> [Addresses -> Nat]]
    <3>1. conns[n][a] + 1 \in Nat /\ late[n][a] + 1 \in Nat
      OBVIOUS
    <3>2. /\ [conns EXCEPT ![n][a] = conns[n][a] + 1] \in [Nodes -> [Addresses -> Nat]]
          /\ [late EXCEPT ![n][a] = late[n][a] + 1] \in [Nodes -> [Addresses -> Nat]]
      BY <3>1, CountChanged
    <3> QED BY <1>2, <3>2 DEF Register
  <2> QED BY <1>2, <2>1 DEF Register
<1>3. CASE End(n, a)
  <2>1. conns' \in [Nodes -> [Addresses -> Nat]] /\ late' \in [Nodes -> [Addresses -> Nat]]
    <3>1. CASE conns[n][a] > 0 /\ conns' = [conns EXCEPT ![n][a] = conns[n][a] - 1] /\ UNCHANGED late
      <4>1. conns[n][a] - 1 \in Nat
        BY <3>1
      <4>2. [conns EXCEPT ![n][a] = conns[n][a] - 1] \in [Nodes -> [Addresses -> Nat]]
        BY <4>1, CountChanged
      <4> QED BY <3>1, <4>2
    <3>2. CASE late[n][a] > 0 /\ late' = [late EXCEPT ![n][a] = late[n][a] - 1] /\ UNCHANGED conns
      <4>1. late[n][a] - 1 \in Nat
        BY <3>2
      <4>2. [late EXCEPT ![n][a] = late[n][a] - 1] \in [Nodes -> [Addresses -> Nat]]
        BY <4>1, CountChanged
      <4> QED BY <3>2, <4>2
    <3> QED BY <1>3, <3>1, <3>2 DEF End
  <2> QED BY <1>3, <2>1 DEF End
<1>4. CASE Report(n, a)
  <2>1. DOMAIN pending' \subseteq Addresses /\ queue' \subseteq Addresses
    BY <1>4, MarkTyped DEF Report
  <2> QED BY <1>4, <2>1 DEF Report
<1>5. CASE CloseRetired(n, a)
  <2>1. DOMAIN pending' \subseteq Addresses /\ queue' \subseteq Addresses
    BY <1>5, MarkTyped DEF CloseRetired
  <2>2. listening' \in [Nodes -> SUBSET Addresses] /\ retiring' \in [Nodes -> SUBSET Addresses]
    BY <1>5 DEF CloseRetired
  <2> QED BY <1>5, <2>1, <2>2 DEF CloseRetired
<1> QED BY <1>1, <1>2, <1>3, <1>4, <1>5

\* Every step keeps the types.
LEMMA StepTyped ==
  ASSUME Typed, [Next]_vars
  PROVE  Typed'
<1>1. CASE Next
  BY <1>1, PipelineStepTyped, RuntimeStepTyped, NodeStepTyped, ConnectionStepTyped DEF Next
<1>2. CASE UNCHANGED vars
  BY <1>2 DEF vars, pipelineVars, inboundVars, Typed
<1> QED BY <1>1, <1>2

-----------------------------------------------------------------------------
\* The endpoints of node n that its refresh has yet to check for connections.
CheckingOf(n) == {a \in Addresses : <<n, a>> \in checking}

\* The registry has changed, and not back, and a node may not have been reached.
Behind == tx # Idle /\ tx.undo /\ tx.phase \in {"prepare", "sync"}

\* The registry resolves to the committed state until SyncRegistry, and to the aim of the
\* transaction after it; an undone transaction sets it back.
RegistryFollows ==
  /\ tx # Idle /\ tx.undo => tx.phase # "save"
  /\ (tx # Idle => ~tx.undo /\ tx.phase \in {"network", "prepare", "sync"}) => registry = committed.active
  /\ tx # Idle /\ ~tx.undo /\ tx.phase \in {"refresh", "save"} => registry = tx.after.active
  /\ tx # Idle /\ tx.undo /\ tx.phase \in {"refresh", "network"} => registry = committed.active

\* The bindings of a running node are those of the registry, unless its refresh is still to come;
\* it listens on what it serves and on what its refresh is checking.
NodeFollows(n) ==
  IF n \in running
    THEN /\ listening[n] = endpoints[n] \cup CheckingOf(n)
         /\ endpoints[n] \cap CheckingOf(n) = {}
         /\ ~Behind /\ n \notin refreshing => endpoints[n] = registry
    ELSE /\ endpoints[n] = {} /\ listening[n] = {} /\ accepted[n] = {}
         /\ \A a \in Addresses : conns[n][a] = 0 /\ late[n][a] = 0

\* The inductive invariant of ListenersAgree.
Follows ==
  /\ Typed
  /\ refreshing \subseteq running /\ checking \subseteq running \X Addresses
  /\ refreshing # {} \/ checking # {} => tx # Idle /\ tx.phase = "refresh"
  /\ RegistryFollows
  /\ \A n \in Nodes : NodeFollows(n)

\* Every node serves the active addresses when the model starts.
LEMMA InitFollows == Init => Follows
BY InitTyped DEF Init, PipelineInit, Follows, RegistryFollows, NodeFollows, CheckingOf, Behind

\* Between transactions the registry has the committed state and every refresh is over.
LEMMA FollowsImplies == Follows => ListenersAgree
<1> SUFFICES ASSUME Follows, tx = Idle, NEW n \in running
             PROVE  endpoints[n] = committed.active /\ listening[n] = committed.active
  BY DEF ListenersAgree
<1>1. registry = committed.active /\ refreshing = {} /\ checking = {} /\ n \in Nodes
  BY DEF Follows, RegistryFollows, Typed
<1> QED BY <1>1 DEF Follows, NodeFollows, CheckingOf, Behind

\* Nothing that a node's bindings depend on changes.
LEMMA UnmovedFollows ==
  ASSUME Follows, Typed', UNCHANGED inboundVars,
         RegistryFollows', Behind => Behind',
         refreshing # {} \/ checking # {} => tx' # Idle /\ tx'.phase = "refresh"
  PROVE  Follows'
<1>1. UNCHANGED <<running, endpoints, listening, accepted, conns, late, registry, refreshing, checking>>
  BY DEF inboundVars
<1>2. ASSUME NEW n \in Nodes PROVE NodeFollows(n)'
  <2>1. NodeFollows(n)
    BY DEF Follows
  <2> QED BY <1>1, <2>1 DEF NodeFollows, CheckingOf
<1> QED BY <1>1, <1>2 DEF Follows

\* The beginning of a transaction moves nobody yet.
LEMMA BeginFollows ==
  ASSUME Follows, Typed', NEW after, Begin(after), after \in PoolState,
         UNCHANGED committed, UNCHANGED inboundVars
  PROVE  Follows'
<1>1. tx = Idle /\ tx' # Idle /\ tx'.phase = "network" /\ tx'.undo = FALSE
  BY BegunIsTyped
<1>2. RegistryFollows' /\ ~Behind /\ refreshing = {} /\ checking = {}
  BY <1>1 DEF Follows, RegistryFollows, inboundVars, Behind
<1> QED BY <1>2, UnmovedFollows

\* The coordinator alone changes no binding, and neither the registry.
LEMMA PipelineStepFollows ==
  ASSUME Follows, Typed', PipelineStep, UNCHANGED inboundVars
  PROVE  Follows'
<1>1. tx \in Transaction /\ committed \in PoolState /\ taken \subseteq Addresses
  BY DEF Follows, Typed
<1>2. tx # Idle => tx.phase \in Phases /\ tx.undo \in BOOLEAN /\ tx.after \in PoolState
  BY <1>1, RunningHasFields
<1>3. tx # Idle /\ tx.phase # "refresh" => refreshing = {} /\ checking = {}
  BY DEF Follows
<1>4. ~starting
  BY DEF Follows, Typed
<1>5. CASE RefreshPool
  BY <1>1, <1>5, AftersAreStates, BeginFollows DEF RefreshPool
<1>6. CASE OtherTransaction
  BY <1>1, <1>6, BeginFollows DEF OtherTransaction
<1>7. CASE TakeQueue
  BY <1>7, UnmovedFollows DEF TakeQueue, Follows, RegistryFollows, Behind, inboundVars
<1>8. CASE CompleteDrainedAddresses
  <2>1. CASE UNCHANGED tx
    BY <1>8, <2>1, UnmovedFollows
    DEF CompleteDrainedAddresses, Follows, RegistryFollows, Behind, inboundVars
  <2>2. CASE Begin(Completed(committed, taken))
    BY <1>1, <1>8, <2>2, AftersAreStates, BeginFollows DEF CompleteDrainedAddresses
  <2> QED BY <1>8, <2>1, <2>2 DEF CompleteDrainedAddresses
<1>9. CASE Reconcile
  <2>1. CASE tx.undo
    BY <1>1, <1>3, <1>9, <2>1, Steps, UnmovedFollows
    DEF Reconcile, Follows, RegistryFollows, Behind, inboundVars
  <2>2. CASE ~tx.undo
    BY <1>1, <1>3, <1>9, <2>2, Steps, UnmovedFollows
    DEF Leads, Reconcile, Follows, RegistryFollows, Behind, inboundVars
  <2> QED BY <2>1, <2>2
<1>10. CASE ReconcileFails
  BY <1>1, <1>3, <1>10, Steps, UnmovedFollows
  DEF ReconcileFails, Follows, RegistryFollows, Behind, inboundVars
<1>11. CASE Save
  <2>1. tx # Idle /\ tx' = Idle /\ tx.phase = "save" /\ ~tx.undo
    BY <1>1, <1>2, <1>11, Steps DEF Save, Follows, RegistryFollows
  <2>2. RegistryFollows' /\ ~Behind
    BY <1>11, <2>1 DEF Save, Follows, RegistryFollows, Behind, inboundVars
  <2> QED BY <1>3, <2>1, <2>2, UnmovedFollows
<1>12. CASE SaveFails
  <2>1. Leads("save", "prepare", TRUE) /\ UNCHANGED committed /\ refreshing = {} /\ checking = {}
    BY <1>1, <1>3, <1>12, Steps DEF SaveFails, Leads
  <2>2. RegistryFollows'
    BY <2>1 DEF Leads, RegistryFollows
  <2> QED BY <2>1, <2>2 DEF Leads, Follows, inboundVars, NodeFollows, CheckingOf, Behind
<1> QED BY <1>4, <1>5, <1>6, <1>7, <1>8, <1>9, <1>10, <1>11, <1>12 DEF PipelineStep, CompleteAllDrains

\* PrepareInbound, SyncRegistry, Synced and SyncFails take registry and nodes from a phase to the
\* next.
LEMMA RuntimeStepFollows ==
  ASSUME Follows, Typed',
         \/ PrepareInbound \/ SyncRegistry \/ Synced \/ SyncFails
         \/ \E batch \in committed.draining : ForceDrain(batch)
  PROVE  Follows'
<1>1. tx \in Transaction /\ committed \in PoolState
  BY DEF Follows, Typed
<1>2. tx # Idle => tx.phase \in Phases /\ tx.undo \in BOOLEAN /\ tx.after \in PoolState
  BY <1>1, RunningHasFields
<1>3. tx # Idle /\ tx.phase # "refresh" => refreshing = {} /\ checking = {}
  BY DEF Follows
<1>4. CASE PrepareInbound
  BY <1>1, <1>3, <1>4, Steps, UnmovedFollows
  DEF Leads, PrepareInbound, Prepare, Follows, RegistryFollows, Behind, inboundVars
<1>5. CASE SyncRegistry
  <2>1. Leads("sync", "refresh", tx.undo) /\ registry' = Target.active /\ refreshing' = running
        /\ checking' = {} /\ UNCHANGED <<committed, running, endpoints, listening, accepted, conns, late>>
    BY <1>1, <1>3, <1>5, Steps DEF SyncRegistry, Leads
  <2>2. RegistryFollows'
    BY <1>2, <2>1 DEF Leads, RegistryFollows, Target
  <2>3. ASSUME NEW n \in Nodes PROVE NodeFollows(n)'
    <3>1. NodeFollows(n) /\ CheckingOf(n)' = {} /\ checking = {}
      BY <1>3, <2>1 DEF Leads, Follows, CheckingOf
    <3> QED BY <2>1, <3>1 DEF NodeFollows, CheckingOf
  <2> QED BY <2>1, <2>2, <2>3 DEF Follows, Leads
<1>6. CASE Synced
  BY <1>1, <1>2, <1>6, Steps, UnmovedFollows
  DEF Leads, Synced, Follows, RegistryFollows, Behind, inboundVars
<1>7. CASE SyncFails
  <2>1. /\ Leads("refresh", "prepare", TRUE) /\ refreshing' = {} /\ checking = {} /\ checking' = {}
        /\ UNCHANGED <<committed, running, registry, endpoints, listening, accepted, conns, late>>
    BY <1>1, <1>7, Steps DEF SyncFails
  <2>2. RegistryFollows' /\ Behind'
    BY <2>1 DEF Leads, RegistryFollows, Behind
  <2>3. \A n \in Nodes : NodeFollows(n)'
    BY <2>1, <2>2 DEF Follows, NodeFollows, CheckingOf
  <2> QED BY <2>1, <2>2, <2>3 DEF Follows
<1>8. ASSUME NEW batch \in committed.draining, ForceDrain(batch) PROVE Follows'
  BY <1>1, <1>8, AftersAreStates, BeginFollows DEF ForceDrain, BeginForced
<1> QED BY <1>4, <1>5, <1>6, <1>7, <1>8

\* A node that is retired, started, stopped or updated meanwhile ends up where the registry is, or
\* waits for its refresh.
LEMMA NodeStepFollows ==
  ASSUME Follows, Typed', NEW n \in Nodes,
         Retire(n) \/ StartNode(n) \/ StopNode(n) \/ UpdateNode(n)
  PROVE  Follows'
<1> USE DEF pipelineVars
<1>1. UNCHANGED <<RegistryFollows, Behind>>
  BY DEF Retire, StartNode, StopNode, UpdateNode, RegistryFollows, Behind
<1>2. \A m \in Nodes \ {n} : NodeFollows(m) => NodeFollows(m)'
  <2>1. CASE Retire(n)
    BY <1>1, <2>1 DEF Retire, Follows, Typed, NodeFollows, CheckingOf
  <2>2. CASE StartNode(n)
    BY <1>1, <2>2 DEF StartNode, Follows, Typed, NodeFollows, CheckingOf
  <2>3. CASE StopNode(n)
    BY <1>1, <2>3 DEF StopNode, Follows, Typed, NodeFollows, CheckingOf
  <2>4. CASE UpdateNode(n)
    BY <1>1, <2>4 DEF UpdateNode, Follows, Typed, NodeFollows, CheckingOf
  <2> QED BY <2>1, <2>2, <2>3, <2>4
<1>3. CASE Retire(n)
  <2>1. /\ n \in running /\ tx # Idle /\ tx.phase = "refresh"
        /\ CheckingOf(n) = {} /\ listening[n] = endpoints[n]
    BY <1>3 DEF Retire, Follows, NodeFollows, CheckingOf
  <2>2. /\ endpoints'[n] = registry /\ listening'[n] = endpoints[n] \cup registry
        /\ checking' = {n} \X (endpoints[n] \ registry)
        /\ UNCHANGED <<registry, running>> /\ refreshing' = refreshing \ {n}
    BY <1>3, <2>1 DEF Retire, Follows, Typed
  <2>3. CheckingOf(n)' = endpoints[n] \ registry
    BY <2>2 DEF CheckingOf, Follows, Typed
  <2>4. NodeFollows(n)'
    BY <2>1, <2>2, <2>3 DEF NodeFollows
  <2> QED BY <1>1, <1>2, <1>3, <2>1, <2>2, <2>4 DEF Retire, Follows, Typed
<1>4. CASE StartNode(n)
  <2>1. refreshing = {} /\ checking = {}
    BY <1>4 DEF StartNode, Changeable, Follows
  <2>2. NodeFollows(n)'
    BY <1>4, <2>1 DEF StartNode, Follows, Typed, NodeFollows, CheckingOf
  <2> QED BY <1>1, <1>2, <1>4, <2>1, <2>2 DEF StartNode, Follows
<1>5. CASE StopNode(n)
  <2>1. refreshing = {} /\ checking = {}
    BY <1>5 DEF StopNode, Changeable, Follows
  <2>2. NodeFollows(n)'
    BY <1>5, <2>1 DEF StopNode, Follows, Typed, NodeFollows, CheckingOf, Unconnected
  <2> QED BY <1>1, <1>2, <1>5, <2>1, <2>2 DEF StopNode, Follows
<1>6. CASE UpdateNode(n)
  <2>1. NodeFollows(n)'
    BY <1>1, <1>6 DEF UpdateNode, Follows, Typed, NodeFollows, CheckingOf
  <2> QED BY <1>1, <1>2, <1>6, <2>1 DEF UpdateNode, Follows
<1> QED BY <1>3, <1>4, <1>5, <1>6

\* Connections do not touch the bindings.
LEMMA ConnectionStepFollows ==
  ASSUME Follows, Typed', NEW n \in Nodes, NEW a \in Addresses,
         Accept(n, a) \/ Register(n, a) \/ End(n, a) \/ Report(n, a) \/ CloseRetired(n, a)
  PROVE  Follows'
<1> USE DEF pipelineVars
<1>1. UNCHANGED <<RegistryFollows, Behind>>
  BY DEF Accept, Register, End, Report, CloseRetired, RegistryFollows, Behind
<1>2. /\ UNCHANGED <<tx, running, registry, refreshing, endpoints>>
      /\ checking' \subseteq checking
  BY DEF Accept, Register, End, Report, CloseRetired
<1>3. \A m \in Nodes \ {n} : NodeFollows(m)'
  <2>1. CASE Accept(n, a)
    BY <1>1, <2>1 DEF Accept, Follows, Typed, NodeFollows, CheckingOf
  <2>2. CASE Register(n, a)
    BY <1>1, <2>2 DEF Register, Follows, Typed, NodeFollows, CheckingOf
  <2>3. CASE End(n, a)
    BY <1>1, <2>3 DEF End, Follows, Typed, NodeFollows, CheckingOf
  <2>4. CASE Report(n, a)
    BY <1>1, <2>4 DEF Report, Follows, Typed, NodeFollows, CheckingOf
  <2>5. CASE CloseRetired(n, a)
    BY <1>1, <2>5 DEF CloseRetired, Follows, Typed, NodeFollows, CheckingOf
  <2> QED BY <2>1, <2>2, <2>3, <2>4, <2>5
<1>4. NodeFollows(n)'
  <2>1. CASE Accept(n, a)
    BY <1>1, <2>1 DEF Accept, Follows, Typed, NodeFollows, CheckingOf
  <2>2. CASE Register(n, a)
    BY <1>1, <2>2 DEF Register, Follows, Typed, NodeFollows, CheckingOf
  <2>3. CASE End(n, a)
    BY <1>1, <2>3 DEF End, Follows, Typed, NodeFollows, CheckingOf
  <2>4. CASE Report(n, a)
    BY <1>1, <2>4 DEF Report, Follows, Typed, NodeFollows, CheckingOf
  <2>5. CASE CloseRetired(n, a)
    <3>1. n \in running /\ CheckingOf(n)' = CheckingOf(n) \ {a} /\ a \in CheckingOf(n)
      BY <2>5 DEF CloseRetired, CheckingOf, Follows
    <3>2. listening'[n] = listening[n] \ {a} /\ UNCHANGED <<endpoints, running, refreshing, registry>>
      BY <2>5 DEF CloseRetired, Follows, Typed
    <3> QED BY <1>1, <3>1, <3>2 DEF Follows, NodeFollows
  <2> QED BY <2>1, <2>2, <2>3, <2>4, <2>5
<1> QED BY <1>1, <1>2, <1>3, <1>4 DEF Follows

\* Every step keeps Follows.
LEMMA StepFollows ==
  ASSUME Follows, [Next]_vars
  PROVE  Follows'
<1>1. Typed'
  BY StepTyped DEF Follows
<1>2. CASE Next
  BY <1>1, <1>2, PipelineStepFollows, RuntimeStepFollows, NodeStepFollows, ConnectionStepFollows DEF Next
<1>3. CASE UNCHANGED vars
  BY <1>1, <1>3, UnmovedFollows
  DEF vars, pipelineVars, inboundVars, Follows, RegistryFollows, Behind
<1> QED BY <1>2, <1>3

(***************************************************************************)
(* Whenever no transaction runs, every running node serves and listens on  *)
(* exactly the pool's active addresses, whether the last refresh was       *)
(* committed or undone and whichever nodes were started, stopped or        *)
(* updated during it.                                                      *)
(***************************************************************************)
THEOREM AlwaysAgree == Spec => []ListenersAgree
<1>1. Follows /\ [Next]_vars => Follows'
  BY StepFollows
<1> QED BY InitFollows, <1>1, FollowsImplies, PTL DEF Spec

-----------------------------------------------------------------------------
\* A step that takes an endpoint from a node, or from those it has to report, finds no connection
\* there or ends it.
LEMMA StepServed ==
  ASSUME Follows, Follows', ServedUntilReported, [Next]_vars
  PROVE  ServedUntilReported'
<1> SUFFICES ASSUME NEW n \in running', NEW a \in Addresses, conns'[n][a] > 0
             PROVE  a \in endpoints'[n] \cup retiring'[n]
  BY DEF ServedUntilReported
<1>1. /\ conns \in [Nodes -> [Addresses -> Nat]] /\ late \in [Nodes -> [Addresses -> Nat]]
      /\ endpoints \in [Nodes -> SUBSET Addresses] /\ retiring \in [Nodes -> SUBSET Addresses]
      /\ running \subseteq Nodes
  BY DEF Follows, Typed
<1>2. n \in Nodes
  BY DEF Follows, Typed
<1>3. n \in running /\ conns[n][a] > 0 => a \in endpoints[n] \cup retiring[n]
  BY DEF ServedUntilReported
<1>4. n \notin running => conns[n][a] = 0
  BY <1>2 DEF Follows, NodeFollows
<1>5. CASE UNCHANGED <<running, endpoints, retiring, conns>>
  BY <1>3, <1>5
<1>6. ASSUME NEW m \in Nodes, Retire(m) PROVE a \in endpoints'[n] \cup retiring'[n]
  <2>1. endpoints[m] \subseteq endpoints'[m] \cup retiring'[m] /\ retiring[m] \subseteq retiring'[m]
    BY <1>1, <1>6 DEF Retire
  <2>2. n # m => endpoints'[n] = endpoints[n] /\ retiring'[n] = retiring[n]
    BY <1>1, <1>2, <1>6 DEF Retire
  <2> QED BY <1>3, <1>6, <2>1, <2>2 DEF Retire, pipelineVars
<1>7. ASSUME NEW m \in Nodes, StartNode(m) PROVE a \in endpoints'[n] \cup retiring'[n]
  BY <1>1, <1>2, <1>3, <1>4, <1>7 DEF StartNode
<1>8. ASSUME NEW m \in Nodes, StopNode(m) PROVE a \in endpoints'[n] \cup retiring'[n]
  BY <1>1, <1>2, <1>3, <1>8 DEF StopNode
<1>9. ASSUME NEW m \in Nodes, UpdateNode(m) PROVE a \in endpoints'[n] \cup retiring'[n]
  BY <1>1, <1>2, <1>3, <1>9 DEF UpdateNode, Unconnected
<1>10. ASSUME NEW m \in Nodes, NEW b \in Addresses, Accept(m, b) \/ Report(m, b)
       PROVE  a \in endpoints'[n] \cup retiring'[n]
  BY <1>5, <1>10 DEF Accept, Report
<1>11. ASSUME NEW m \in Nodes, NEW b \in Addresses, Register(m, b)
       PROVE  a \in endpoints'[n] \cup retiring'[n]
  <2>1. UNCHANGED <<running, endpoints, retiring>>
    BY <1>11 DEF Register
  <2>2. CASE UNCHANGED conns
    BY <1>5, <2>1, <2>2
  <2>3. CASE b \in endpoints[m] /\ conns' = [conns EXCEPT ![m][b] = conns[m][b] + 1]
    BY <1>1, <1>2, <1>3, <2>1, <2>3
  <2> QED BY <1>11, <2>2, <2>3 DEF Register
<1>12. ASSUME NEW m \in Nodes, NEW b \in Addresses, End(m, b)
       PROVE  a \in endpoints'[n] \cup retiring'[n]
  <2>1. UNCHANGED <<running, endpoints>>
    BY <1>12 DEF End
  <2>2. conns[n][a] > 0 /\ (n # m \/ a # b => (a \in retiring[n] => a \in retiring'[n]))
    BY <1>1, <1>2, <1>12 DEF End
  <2>3. CASE n = m /\ a = b /\ retiring' # retiring
    <3>1. Active(n, a) = 1 /\ conns'[n][a] + late'[n][a] = 0
      BY <1>1, <1>2, <1>12, <2>3 DEF End, Active
    <3>2. conns'[n][a] \in Nat /\ late'[n][a] \in Nat
      BY <1>2 DEF Follows, Typed
    <3> QED BY <3>1, <3>2
  <2> QED BY <1>1, <1>2, <1>3, <2>1, <2>2, <2>3
<1>13. ASSUME NEW m \in Nodes, NEW b \in Addresses, CloseRetired(m, b)
       PROVE  a \in endpoints'[n] \cup retiring'[n]
  <2>1. UNCHANGED <<running, endpoints, conns, late>>
    BY <1>13 DEF CloseRetired
  <2>2. CASE n = m /\ a = b /\ Active(n, a) = 0
    BY <1>1, <1>2, <2>1, <2>2 DEF Active
  <2>3. CASE ~(n = m /\ a = b /\ Active(n, a) = 0)
    BY <1>1, <1>2, <1>3, <1>13, <2>1, <2>3 DEF CloseRetired
  <2> QED BY <2>2, <2>3
<1> QED BY <1>5, <1>6, <1>7, <1>8, <1>9, <1>10, <1>11, <1>12, <1>13
  DEF Next, PrepareInbound, SyncRegistry, Synced, SyncFails, ForceDrain, inboundVars, vars

(***************************************************************************)
(* A connection that was registered while its endpoint was served stays on *)
(* an endpoint that the runtime serves or has still to report.             *)
(***************************************************************************)
THEOREM AlwaysServed == Spec => []ServedUntilReported
<1>1. Init => ServedUntilReported
  BY DEF Init, ServedUntilReported, Unconnected
<1>2. Follows /\ [Next]_vars => Follows'
  BY StepFollows
<1>3. Follows /\ Follows' /\ ServedUntilReported /\ [Next]_vars => ServedUntilReported'
  BY StepServed
<1> QED BY InitFollows, <1>1, <1>2, <1>3, PTL DEF Spec

-----------------------------------------------------------------------------
\* What the queue is about to give back.
Gone == queue \cup taken

\* The state the store will have when the transaction under way is saved.
Destined == IF tx = Idle THEN committed ELSE tx.after

\* What is neither there nor in the registry.
Old == generated \ (registry \cup Destined.active)

\* Addresses are generated once: those that drain were generated, and are not active again.
Walked ==
  /\ Live(committed) \subseteq generated /\ committed.active \cap Draining(committed) = {}
  /\ tx # Idle => Draining(tx.after) \subseteq generated /\ tx.after.active \cap Draining(tx.after) = {}

\* The tracker waits only for addresses that drain, in the state it was prepared for.
TrackerFollows ==
  DOMAIN pending \subseteq
    Draining(IF tx # Idle /\ tx.phase \in {"sync", "refresh", "save"} THEN tx.after ELSE committed)

\* A node that the refresh has yet to reach serves the committed addresses; what it retired is old.
Retired ==
  /\ \A n \in refreshing : endpoints[n] = committed.active
  /\ \A n \in Nodes : \A a \in retiring[n] : a \in Old /\ a \notin endpoints[n]

\* Node n neither serves address a nor has a connection from the time it did.
Unused(n, a) == a \notin endpoints[n] /\ conns[n][a] = 0

\* A report is under way only for an old address that its node does not use.
Reported ==
  \A n \in Nodes, a \in Addresses : <<n, a>> \in reports => a \in Old /\ Unused(n, a)

\* What the queue has is old, and no node uses it but those the tracker overlooked.
GoneForGood ==
  /\ Gone \subseteq generated \ Destined.active
  /\ (tx # Idle => tx.phase # "sync") => Gone \cap registry = {}
  /\ \A a \in Gone, n \in Nodes \ overlooked : Unused(n, a)

\* The tracker waits for every node that still uses an address.
Awaited ==
  \A a \in DOMAIN pending, n \in running \ overlooked : n \in pending[a] \/ Unused(n, a)

\* The inductive invariant of OnlyIdleComplete.
Undisturbed == faults = 0 =>
  /\ tx # Idle => ~tx.undo
  /\ Walked /\ TrackerFollows /\ Retired /\ Reported /\ GoneForGood /\ Awaited

\* Nothing drains when the model starts.
LEMMA InitUndisturbed == Init => Undisturbed
<1> SUFFICES ASSUME Init PROVE Undisturbed
  OBVIOUS
<1>1. Draining(committed) = {} /\ Live(committed) = committed.active
  BY DEF Init, PipelineInit, Draining, Live
<1>2. DOMAIN pending = {} /\ Gone = {}
  BY DEF Init, PipelineInit, Gone
<1> QED BY <1>1, <1>2
  DEF Init, PipelineInit, Undisturbed, Walked, TrackerFollows, Retired, Reported, GoneForGood, Awaited,
      Nowhere

\* A transaction may begin when its aim activates fresh addresses only.
LEMMA BeginUndisturbed ==
  ASSUME Follows, Undisturbed, faults = 0, NEW after \in PoolState, Begin(after),
         Draining(after) \subseteq generated, after.active \cap Draining(after) = {},
         after.active \cap generated \subseteq committed.active,
         Gone' \subseteq Gone,
         UNCHANGED <<committed, generated, pending, faults>>, UNCHANGED inboundVars
  PROVE  Undisturbed'
<1>1. tx = Idle /\ tx' # Idle /\ tx'.after = after /\ tx'.undo = FALSE /\ tx'.phase = "network"
  BY BegunIsTyped
<1>2. registry = committed.active /\ Destined = committed /\ Destined' = after
  BY <1>1 DEF Follows, RegistryFollows, Destined
<1>3. Old \subseteq Old'
  BY <1>2 DEF Old, inboundVars
<1>4. Walked' /\ TrackerFollows'
  BY <1>1 DEF Undisturbed, Walked, TrackerFollows, Live, Draining
<1>5. Retired' /\ Reported' /\ GoneForGood' /\ Awaited'
  BY <1>1, <1>2, <1>3
  DEF Undisturbed, Retired, Reported, GoneForGood, Awaited, Unused, inboundVars
<1> QED BY <1>1, <1>4, <1>5 DEF Undisturbed

\* The coordinator moves addresses from the tracker to the queue and to the store's next state.
LEMMA PipelineStepUndisturbed ==
  ASSUME ~Wraps, Follows, Undisturbed, faults = 0, faults' = 0, PipelineStep, UNCHANGED inboundVars
  PROVE  Undisturbed'
<1>1. tx \in Transaction /\ committed \in PoolState /\ taken \subseteq Addresses /\ ~starting
  BY DEF Follows, Typed
<1>2. tx # Idle => tx.phase \in Phases /\ tx.undo = FALSE /\ tx.after \in PoolState
  BY <1>1, RunningHasFields DEF Undisturbed
<1>3. Walked /\ TrackerFollows /\ Retired /\ Reported /\ GoneForGood /\ Awaited
  BY DEF Undisturbed
<1>4. CASE RefreshPool
  <2>1. PICK new \in SUBSET (Addresses \ generated) :
          Begin([active |-> new, draining |-> committed.draining \cup {committed.active}])
    BY <1>4 DEF RefreshPool
  <2> DEFINE after == [active |-> new, draining |-> committed.draining \cup {committed.active}]
  <2>2. after \in PoolState
    BY <1>1, AftersAreStates
  <2>3. Draining(after) = Live(committed) /\ after.active = new
    BY DEF Draining, Live
  <2>4. Gone' = Gone
    BY <1>4 DEF RefreshPool, Gone
  <2> HIDE DEF after
  <2> QED BY <1>3, <1>4, <2>1, <2>2, <2>3, <2>4, BeginUndisturbed DEF RefreshPool, Walked, after
<1>5. CASE OtherTransaction
  <2>1. Gone' = Gone
    BY <1>5 DEF OtherTransaction, Gone
  <2> QED BY <1>1, <1>3, <1>5, <2>1, BeginUndisturbed DEF OtherTransaction, Walked, Live
<1>6. CASE TakeQueue
  <2>1. Gone' = Gone
    BY <1>6 DEF TakeQueue, Gone
  <2> QED BY <1>3, <1>6, <2>1
    DEF TakeQueue, Undisturbed, Walked, TrackerFollows, Retired, Reported, GoneForGood, Awaited, Unused, Old,
        Destined, Live, Draining, inboundVars
<1>7. CASE CompleteDrainedAddresses
  <2>1. Gone' \subseteq Gone
    BY <1>7 DEF CompleteDrainedAddresses, Gone
  <2>2. CASE UNCHANGED tx
    BY <1>3, <1>7, <2>1, <2>2
    DEF CompleteDrainedAddresses, Undisturbed, Walked, TrackerFollows, Retired, Reported, GoneForGood,
        Awaited, Unused, Old, Destined, Live, Draining, inboundVars
  <2>3. CASE Begin(Completed(committed, taken))
    <3> DEFINE after == Completed(committed, taken)
    <3>1. after \in PoolState
      BY <1>1, AftersAreStates
    <3>2. Draining(after) = Draining(committed) \ taken /\ after.active = committed.active
      BY <1>1, CompletedDrains
    <3> HIDE DEF after
    <3> QED BY <1>3, <1>7, <2>1, <2>3, <3>1, <3>2, BeginUndisturbed
      DEF CompleteDrainedAddresses, Walked, Live, after
  <2> QED BY <1>7, <2>2, <2>3 DEF CompleteDrainedAddresses
<1>8. CASE Reconcile
  <2>1. Leads("network", "prepare", FALSE) /\ UNCHANGED <<committed, generated, pending, Gone, Destined>>
    BY <1>1, <1>2, <1>8, Steps DEF Reconcile, Gone, Leads, Destined
  <2> QED BY <1>3, <2>1
    DEF Leads, Undisturbed, Walked, TrackerFollows, Retired, Reported, GoneForGood, Awaited, Unused, Old,
        Live, Draining, inboundVars
<1>9. CASE Save
  <2>1. /\ tx # Idle /\ tx' = Idle /\ tx.phase = "save" /\ committed' = tx.after
        /\ generated' = generated \cup tx.after.active /\ UNCHANGED <<pending, Gone>>
        /\ Destined = tx.after /\ Destined' = tx.after
    BY <1>1, <1>9, Steps DEF Save, Gone, Destined
  <2>2. registry = tx.after.active /\ refreshing = {}
    BY <1>2, <2>1 DEF Follows, RegistryFollows
  <2>3. Old \subseteq Old' /\ generated \subseteq generated'
    BY <2>1 DEF Old, inboundVars
  <2>4. Walked' /\ TrackerFollows'
    BY <1>3, <2>1 DEF Walked, TrackerFollows, Live, Draining
  <2> QED BY <1>3, <2>1, <2>2, <2>3, <2>4
    DEF Undisturbed, Retired, Reported, GoneForGood, Awaited, Unused, inboundVars
<1> QED BY <1>1, <1>4, <1>5, <1>6, <1>7, <1>8, <1>9
  DEF PipelineStep, CompleteAllDrains, ReconcileFails, SaveFails, MayFail

\* The runtime's half lists the consumers of what drains before the registry changes.
LEMMA RuntimeStepUndisturbed ==
  ASSUME Follows, Undisturbed, faults = 0, faults' = 0,
         \/ PrepareInbound \/ SyncRegistry \/ Synced \/ SyncFails
         \/ \E batch \in committed.draining : ForceDrain(batch)
  PROVE  Undisturbed'
<1>1. tx \in Transaction /\ committed \in PoolState
  BY DEF Follows, Typed
<1>2. tx # Idle => tx.phase \in Phases /\ tx.undo = FALSE /\ tx.after \in PoolState
  BY <1>1, RunningHasFields DEF Undisturbed
<1>3. Walked /\ TrackerFollows /\ Retired /\ Reported /\ GoneForGood /\ Awaited
  BY DEF Undisturbed
<1>4. CASE PrepareInbound
  <2>1. /\ Leads("prepare", "sync", FALSE) /\ Destined = tx.after /\ Destined' = tx.after
        /\ Target = tx.after /\ UNCHANGED <<committed, generated, inboundVars>>
    BY <1>1, <1>2, <1>4, Steps DEF PrepareInbound, Prepare, Leads, Destined, Target
  <2>2. DOMAIN pending' \subseteq Draining(tx.after)
    BY <1>4, <2>1 DEF PrepareInbound, Prepare
  <2>3. Walked' /\ TrackerFollows'
    BY <1>3, <2>1, <2>2 DEF Leads, Walked, TrackerFollows, Live, Draining
  <2>4. Retired' /\ Reported'
    BY <1>3, <2>1 DEF Retired, Reported, Unused, Old, inboundVars
  <2>5. CASE running = {}
    <3>1. Gone' \subseteq Gone \cup Draining(tx.after) /\ DOMAIN pending' = {}
      BY <1>4, <2>1, <2>5 DEF PrepareInbound, Prepare, Gone
    <3>2. \A n \in Nodes, a \in Addresses : Unused(n, a)
      BY <2>5 DEF Follows, NodeFollows, Unused
    <3>3. Gone' \subseteq Addresses
      BY <1>2, <2>1, <3>1, LiveIsAddresses DEF Gone, Follows, Typed, Leads
    <3>4. Gone' \subseteq generated' \ Destined'.active
      BY <1>3, <2>1, <3>1 DEF GoneForGood, Walked, Leads
    <3>5. GoneForGood' /\ Awaited'
      BY <2>1, <3>1, <3>2, <3>3, <3>4 DEF GoneForGood, Awaited, Unused, inboundVars, Leads
    <3> QED BY <2>1, <2>3, <2>4, <3>5 DEF Leads, Undisturbed
  <2>6. CASE running # {}
    <3>1. /\ pending' = [a \in Draining(tx.after) |-> running] /\ UNCHANGED Gone
      BY <1>4, <2>1, <2>6 DEF PrepareInbound, Prepare, Gone
    <3>2. GoneForGood' /\ Awaited'
      BY <1>3, <2>1, <3>1 DEF GoneForGood, Awaited, Unused, inboundVars, Leads
    <3> QED BY <2>1, <2>3, <2>4, <3>2 DEF Leads, Undisturbed
  <2> QED BY <2>5, <2>6
<1>5. CASE SyncRegistry
  <2>1. /\ Leads("sync", "refresh", FALSE) /\ registry' = tx.after.active /\ refreshing' = running
        /\ Destined = tx.after /\ Destined' = tx.after
        /\ UNCHANGED <<committed, generated, pending, Gone, running, overlooked, endpoints, conns, retiring, reports>>
    BY <1>1, <1>2, <1>5, Steps DEF SyncRegistry, Leads, Target, Gone, Destined
  <2>2. \A n \in running : endpoints[n] = committed.active
    BY <1>2, <2>1 DEF Follows, RegistryFollows, NodeFollows, Behind, Typed, Leads
  <2>3. Old \subseteq Old'
    BY <2>1 DEF Old
  <2>4. Walked' /\ TrackerFollows'
    BY <1>3, <2>1 DEF Leads, Walked, TrackerFollows, Live, Draining
  <2> QED BY <1>3, <2>1, <2>2, <2>3, <2>4
    DEF Leads, Undisturbed, Retired, Reported, GoneForGood, Awaited, Unused
<1>6. CASE Synced
  <2>1. /\ Leads("refresh", "save", FALSE) /\ UNCHANGED <<committed, generated, pending, Gone, Destined, inboundVars>>
    BY <1>1, <1>2, <1>6, Steps DEF Synced, Leads, Gone, Destined
  <2> QED BY <1>3, <2>1
    DEF Leads, Undisturbed, Walked, TrackerFollows, Retired, Reported, GoneForGood, Awaited, Unused, Old,
        Live, Draining, inboundVars
<1>7. ASSUME NEW batch \in committed.draining, ForceDrain(batch) PROVE Undisturbed'
  <2> DEFINE after == [committed EXCEPT !.draining = committed.draining \ {batch}]
  <2>1. after \in PoolState /\ after.active = committed.active /\ Draining(after) \subseteq Draining(committed)
    BY <1>1, AftersAreStates DEF PoolState, Draining
  <2>2. Begin(after) /\ UNCHANGED Gone
    BY <1>7 DEF ForceDrain, BeginForced, Gone
  <2> HIDE DEF after
  <2> QED BY <1>3, <1>7, <2>1, <2>2, BeginUndisturbed DEF ForceDrain, Walked, Live
<1> QED BY <1>4, <1>5, <1>6, <1>7 DEF SyncFails, MayFail

\* A node retires what is not in the registry; one that starts late is overlooked.
LEMMA NodeStepUndisturbed ==
  ASSUME Follows, Undisturbed, faults = 0, NEW n \in Nodes,
         Retire(n) \/ StartNode(n) \/ StopNode(n) \/ UpdateNode(n)
  PROVE  Undisturbed'
<1> USE DEF pipelineVars
<1>1. /\ endpoints \in [Nodes -> SUBSET Addresses] /\ conns \in [Nodes -> [Addresses -> Nat]]
      /\ retiring \in [Nodes -> SUBSET Addresses] /\ running \subseteq Nodes
      /\ tx # Idle => tx.undo = FALSE /\ tx.phase \in Phases
  BY RunningHasFields DEF Follows, Typed, Undisturbed
<1>2. Walked /\ TrackerFollows /\ Retired /\ Reported /\ GoneForGood /\ Awaited
  BY DEF Undisturbed
<1>3. UNCHANGED <<committed, generated, tx, pending, queue, taken, registry, reports>>
  BY DEF Retire, StartNode, StopNode, UpdateNode
<1>4. UNCHANGED <<Gone, Destined, Old>>
  BY <1>3 DEF Gone, Destined, Old
<1>5. Walked' /\ TrackerFollows' /\ (tx' # Idle => ~tx'.undo)
  BY <1>1, <1>2, <1>3 DEF Walked, TrackerFollows, Live, Draining
<1>6. CASE Retire(n)
  <2>1. /\ endpoints' = [endpoints EXCEPT ![n] = registry] /\ UNCHANGED <<running, overlooked, conns>>
        /\ retiring' = [retiring EXCEPT ![n] = retiring[n] \cup (endpoints[n] \ registry)]
        /\ refreshing' = refreshing \ {n} /\ n \in refreshing
    BY <1>6 DEF Retire
  <2>2. tx # Idle /\ tx.phase = "refresh" /\ n \in running /\ registry = tx.after.active /\ Destined = tx.after
    BY <1>1, <2>1 DEF Follows, RegistryFollows, Destined
  <2>3. endpoints[n] \subseteq generated
    BY <1>2, <2>1 DEF Retired, Walked, Live
  <2>4. Retired' /\ Reported'
    BY <1>1, <1>2, <1>3, <1>4, <2>1, <2>2, <2>3 DEF Retired, Reported, Unused, Old
  <2>5. DOMAIN pending \cap registry = {} /\ Gone \cap registry = {}
    BY <1>2, <2>2 DEF TrackerFollows, Walked, GoneForGood
  <2>6. GoneForGood'
    BY <1>1, <1>2, <1>3, <1>4, <2>1, <2>5 DEF GoneForGood, Unused
  <2>7. Awaited'
    BY <1>1, <1>2, <1>3, <2>1, <2>5 DEF Awaited, Unused
  <2> QED BY <1>5, <2>4, <2>6, <2>7 DEF Undisturbed
<1>7. CASE StartNode(n)
  <2>1. /\ endpoints' = [endpoints EXCEPT ![n] = registry] /\ running' = running \cup {n}
        /\ n \notin running /\ (tx # Idle => tx.phase # "refresh")
        /\ UNCHANGED <<conns, retiring, refreshing>>
        /\ overlooked' = IF tx.phase = "sync" THEN overlooked \cup {n} ELSE overlooked
    BY <1>7 DEF StartNode, Changeable
  <2>2. refreshing = {} /\ \A a \in Addresses : conns[n][a] = 0
    BY <2>1 DEF Follows, NodeFollows
  <2>3. Retired' /\ Reported'
    BY <1>1, <1>2, <1>3, <1>4, <2>1, <2>2 DEF Retired, Reported, Unused, Old
  <2>4. Gone \subseteq Addresses /\ DOMAIN pending \subseteq Addresses
    BY DEF Follows, Typed, Gone
  <2>5. tx.phase = "sync" => tx # Idle
    BY DEF Idle
  <2>6. CASE tx.phase = "sync"
    BY <1>1, <1>2, <1>3, <1>4, <1>5, <2>1, <2>3, <2>5, <2>6
    DEF Undisturbed, GoneForGood, Awaited, Unused
  <2>7. CASE tx.phase # "sync"
    <3>1. DOMAIN pending \cap registry = {} /\ Gone \cap registry = {}
      BY <1>1, <1>2, <2>1, <2>7
      DEF TrackerFollows, Walked, GoneForGood, Follows, RegistryFollows, Phases
    <3>2. \A a \in Gone \cup DOMAIN pending : Unused(n, a)'
      BY <1>1, <2>1, <2>2, <2>4, <3>1 DEF Unused
    <3>3. GoneForGood' /\ Awaited'
      BY <1>1, <1>2, <1>3, <1>4, <2>1, <2>7, <3>2 DEF GoneForGood, Awaited, Unused
    <3> QED BY <1>5, <2>3, <3>3 DEF Undisturbed
  <2> QED BY <2>6, <2>7
<1>8. CASE StopNode(n)
  <2>1. /\ endpoints' = [endpoints EXCEPT ![n] = {}] /\ running' = running \ {n}
        /\ conns' = [conns EXCEPT ![n] = Unconnected] /\ retiring' = [retiring EXCEPT ![n] = {}]
        /\ (tx # Idle => tx.phase # "refresh") /\ overlooked' = overlooked \ {n} /\ UNCHANGED refreshing
    BY <1>8 DEF StopNode, Changeable
  <2>2. refreshing = {} /\ Gone \subseteq Addresses
    BY <2>1 DEF Follows, Typed, Gone
  <2>3. Retired' /\ Reported'
    BY <1>1, <1>2, <1>3, <1>4, <2>1, <2>2 DEF Retired, Reported, Unused, Unconnected
  <2>4. GoneForGood' /\ Awaited'
    BY <1>1, <1>2, <1>3, <1>4, <2>1, <2>2 DEF GoneForGood, Awaited, Unused, Unconnected
  <2> QED BY <1>5, <2>3, <2>4 DEF Undisturbed
<1>9. CASE UpdateNode(n)
  <2>1. /\ conns' = [conns EXCEPT ![n] = Unconnected]
        /\ UNCHANGED <<endpoints, running, overlooked, retiring, refreshing>>
    BY <1>9 DEF UpdateNode
  <2>2. Gone \subseteq Addresses /\ DOMAIN pending \subseteq Addresses
    BY DEF Follows, Typed, Gone
  <2>3. \A m \in Nodes, a \in Addresses : Unused(m, a) => Unused(m, a)'
    BY <1>1, <2>1 DEF Unused, Unconnected
  <2> QED BY <1>1, <1>2, <1>3, <1>4, <1>5, <2>1, <2>2, <2>3
    DEF Undisturbed, Retired, Reported, GoneForGood, Awaited
<1> QED BY <1>6, <1>7, <1>8, <1>9

\* Node n reports an address that it no longer uses.
LEMMA MarkUndisturbed ==
  ASSUME Follows, Undisturbed, faults = 0, NEW n \in Nodes, NEW a \in Old, a \in Addresses,
         Unused(n, a), Mark(n, a),
         UNCHANGED <<committed, generated, tx, taken, faults, running, overlooked, registry, endpoints, conns, refreshing>>,
         \A m \in Nodes : retiring'[m] \subseteq retiring[m], reports' \subseteq reports
  PROVE  Undisturbed'
<1>1. Walked /\ TrackerFollows /\ Retired /\ Reported /\ GoneForGood /\ Awaited /\ (tx # Idle => ~tx.undo)
  BY DEF Undisturbed
<1>2. DOMAIN pending \subseteq Addresses /\ running \subseteq Nodes
  BY DEF Follows, Typed
<1>3. /\ DOMAIN pending' \subseteq DOMAIN pending
      /\ \A b \in DOMAIN pending' : pending'[b] = (IF b = a THEN pending[b] \ {n} ELSE pending[b])
      /\ queue' = queue \/ (queue' = queue \cup {a} /\ a \in DOMAIN pending /\ pending[a] = {n})
  BY <1>2, MarkTyped
<1>4. UNCHANGED <<Destined, Old>> /\ Gone' \subseteq Gone \cup {a}
  BY <1>3 DEF Destined, Old, Gone
<1>5. \A m, b : Unused(m, b)' = Unused(m, b)
  BY DEF Unused
<1>6. Walked' /\ TrackerFollows'
  BY <1>1, <1>3 DEF Walked, TrackerFollows, Live, Draining
<1>7. Retired' /\ Reported'
  BY <1>1, <1>4, <1>5 DEF Retired, Reported
<1>8. Awaited'
  BY <1>1, <1>3, <1>5 DEF Awaited
<1>9. GoneForGood'
  <2>1. CASE Gone' \subseteq Gone
    BY <1>1, <1>4, <1>5, <2>1 DEF GoneForGood
  <2>2. CASE a \in DOMAIN pending /\ pending[a] = {n}
    <3>1. \A m \in Nodes \ overlooked : Unused(m, a)
      BY <1>1, <1>2, <2>2 DEF Awaited, Follows, NodeFollows, Unused
    <3> QED BY <1>1, <1>4, <1>5, <3>1 DEF GoneForGood, Old
  <2> QED BY <1>3, <2>1, <2>2 DEF Gone
<1> QED BY <1>1, <1>6, <1>7, <1>8, <1>9 DEF Undisturbed

\* A connection begins on what is served, and its end is reported when it was the last.
LEMMA ConnectionStepUndisturbed ==
  ASSUME Follows, Undisturbed, faults = 0, NEW n \in Nodes, NEW a \in Addresses,
         Accept(n, a) \/ Register(n, a) \/ End(n, a) \/ Report(n, a) \/ CloseRetired(n, a)
  PROVE  Undisturbed'
<1>1. /\ endpoints \in [Nodes -> SUBSET Addresses] /\ conns \in [Nodes -> [Addresses -> Nat]]
      /\ late \in [Nodes -> [Addresses -> Nat]]
      /\ retiring \in [Nodes -> SUBSET Addresses] /\ running \subseteq Nodes
      /\ DOMAIN pending \subseteq Addresses /\ Gone \subseteq Addresses
  BY DEF Follows, Typed, Gone
<1>2. Walked /\ TrackerFollows /\ Retired /\ Reported /\ GoneForGood /\ Awaited /\ (tx # Idle => ~tx.undo)
  BY DEF Undisturbed
\* Neither the pipeline nor the bindings change, and what is unused stays so.
<1>3. ASSUME UNCHANGED <<pipelineVars, running, overlooked, registry, endpoints, refreshing>>,
             \A m \in Nodes : retiring'[m] \subseteq retiring[m],
             \A m \in Nodes, b \in Addresses : Unused(m, b) => Unused(m, b)',
             \A m \in Nodes, b \in Addresses :
               <<m, b>> \in reports' => <<m, b>> \in reports \/ (b \in Old /\ Unused(m, b)')
      PROVE  Undisturbed'
  <2>1. UNCHANGED <<Gone, Destined, Old>>
    BY <1>3 DEF pipelineVars, Gone, Destined, Old
  <2> QED BY <1>1, <1>2, <1>3, <2>1
    DEF pipelineVars, Undisturbed, Walked, TrackerFollows, Retired, Reported, GoneForGood, Awaited, Live,
        Draining
<1>4. CASE Accept(n, a)
  BY <1>3, <1>4 DEF Accept, Unused
<1>5. CASE Register(n, a)
  <2>1. UNCHANGED <<pipelineVars, running, overlooked, registry, endpoints, refreshing, retiring, reports>>
    BY <1>5 DEF Register
  <2>2. CASE UNCHANGED conns
    BY <1>3, <2>1, <2>2 DEF Unused
  <2>3. CASE a \in endpoints[n] /\ conns' = [conns EXCEPT ![n][a] = conns[n][a] + 1]
    <3>1. \A m \in Nodes, b \in Addresses : Unused(m, b) => Unused(m, b)'
      BY <1>1, <2>1, <2>3 DEF Unused
    <3> QED BY <1>3, <2>1, <3>1
  <2> QED BY <1>5, <2>2, <2>3 DEF Register
<1>6. CASE End(n, a)
  <2>1. UNCHANGED <<pipelineVars, running, overlooked, registry, endpoints, refreshing>>
    BY <1>6 DEF End
  <2>2. \A m \in Nodes, b \in Addresses : Unused(m, b) => Unused(m, b)'
    BY <1>1, <1>6, <2>1 DEF End, Unused
  <2>3. CASE UNCHANGED <<retiring, reports>>
    BY <1>3, <2>1, <2>2, <2>3
  <2>4. CASE /\ a \in retiring[n] /\ Active(n, a) = 1
             /\ retiring' = [retiring EXCEPT ![n] = retiring[n] \ {a}]
             /\ reports' = reports \cup {<<n, a>>}
    <3>1. conns'[n][a] = 0
      <4>1. conns[n][a] + late[n][a] = 1 /\ conns[n][a] \in Nat /\ late[n][a] \in Nat
        BY <1>1, <2>4 DEF Active
      <4>2. CASE conns[n][a] > 0 /\ conns' = [conns EXCEPT ![n][a] = conns[n][a] - 1]
        BY <1>1, <4>1, <4>2
      <4>3. CASE late[n][a] > 0 /\ UNCHANGED conns
        BY <4>1, <4>3
      <4> QED BY <1>6, <4>2, <4>3 DEF End
    <3>2. a \in Old /\ Unused(n, a)'
      BY <1>2, <2>1, <2>4, <3>1 DEF Retired, Unused
    <3> QED BY <1>1, <1>3, <2>1, <2>2, <2>4, <3>2
  <2> QED BY <1>6, <2>3, <2>4 DEF End
<1>7. CASE Report(n, a)
  <2>1. a \in Old /\ Unused(n, a)
    BY <1>2, <1>7 DEF Report, Reported
  <2> QED BY <1>7, <2>1, MarkUndisturbed DEF Report
<1>8. CASE CloseRetired(n, a)
  <2>1. UNCHANGED <<committed, generated, tx, taken, faults, running, overlooked, registry, endpoints,
                    conns, refreshing, reports>>
    BY <1>8 DEF CloseRetired
  <2>2. CASE UNCHANGED <<retiring, pending, queue>>
    <3>1. UNCHANGED <<Gone, Destined, Old>> /\ \A m, b : Unused(m, b)' = Unused(m, b)
      BY <2>1, <2>2 DEF Gone, Destined, Old, Unused
    <3> QED BY <1>2, <2>1, <2>2, <3>1
      DEF Undisturbed, Walked, TrackerFollows, Retired, Reported, GoneForGood, Awaited, Live, Draining
  <2>3. CASE /\ Active(n, a) = 0 /\ a \in retiring[n] /\ Mark(n, a)
             /\ retiring' = [retiring EXCEPT ![n] = retiring[n] \ {a}]
    <3>1. conns[n][a] = 0
      BY <1>1, <2>3 DEF Active
    <3>2. a \in Old /\ Unused(n, a)
      BY <1>2, <2>3, <3>1 DEF Retired, Unused
    <3>3. \A m \in Nodes : retiring'[m] \subseteq retiring[m]
      BY <1>1, <2>3
    <3> QED BY <2>1, <2>3, <3>2, <3>3, MarkUndisturbed
  <2> QED BY <1>8, <2>2, <2>3 DEF CloseRetired
<1> QED BY <1>4, <1>5, <1>6, <1>7, <1>8

\* What the inbound side does neither takes the queue nor, unless it fails, counts a failure.
LEMMA InboundStepKeeps ==
  ASSUME [Next]_vars, ~PipelineStep
  PROVE  UNCHANGED taken /\ (UNCHANGED faults \/ SyncFails)
<1>1. ASSUME PrepareInbound \/ SyncRegistry \/ Synced
      PROVE  UNCHANGED <<taken, faults>>
  BY <1>1 DEF PrepareInbound, Prepare, SyncRegistry, Synced
<1>2. ASSUME NEW batch, ForceDrain(batch)
      PROVE  UNCHANGED <<taken, faults>>
  BY <1>2 DEF ForceDrain
<1>3. ASSUME NEW n, Retire(n) \/ StartNode(n) \/ StopNode(n) \/ UpdateNode(n)
      PROVE  UNCHANGED <<taken, faults>>
  BY <1>3 DEF Retire, StartNode, StopNode, UpdateNode, pipelineVars
<1>4. ASSUME NEW n, NEW a, Accept(n, a) \/ Register(n, a) \/ End(n, a)
      PROVE  UNCHANGED <<taken, faults>>
  BY <1>4 DEF Accept, Register, End, pipelineVars
<1>5. ASSUME NEW n, NEW a, Report(n, a) \/ CloseRetired(n, a)
      PROVE  UNCHANGED <<taken, faults>>
  BY <1>5 DEF Report, CloseRetired
<1>6. ASSUME SyncFails PROVE UNCHANGED taken
  BY <1>6 DEF SyncFails
<1>7. ASSUME UNCHANGED vars PROVE UNCHANGED <<taken, faults>>
  BY <1>7 DEF vars, pipelineVars
<1> QED BY <1>1, <1>2, <1>3, <1>4, <1>5, <1>6, <1>7 DEF Next

\* Every step keeps Undisturbed, unless it is a failure.
LEMMA StepUndisturbed ==
  ASSUME ~Wraps, Follows, Undisturbed, [Next]_vars
  PROVE  Undisturbed'
<1> SUFFICES ASSUME faults' = 0 PROVE Undisturbed'
  BY DEF Undisturbed
<1>1. faults \in Nat
  BY DEF Follows, Typed
<1>2. ~(ReconcileFails \/ SaveFails \/ SyncFails)
  BY <1>1 DEF ReconcileFails, SaveFails, SyncFails, MayFail
<1>3. faults = 0
  <2>1. ASSUME PipelineStep PROVE UNCHANGED faults
    BY <1>2, <2>1 DEF PipelineStep, RefreshPool, OtherTransaction, TakeQueue,
      CompleteDrainedAddresses, CompleteAllDrains, Reconcile, Save
  <2> QED BY <1>2, <2>1, InboundStepKeeps DEF Next
<1>4. CASE UNCHANGED vars
  <2>1. UNCHANGED <<Gone, Destined, Old>> /\ \A m, b : Unused(m, b)' = Unused(m, b)
    BY <1>4 DEF vars, pipelineVars, inboundVars, Gone, Destined, Old, Unused
  <2> QED BY <1>3, <1>4, <2>1
    DEF vars, pipelineVars, inboundVars, Undisturbed, Walked, TrackerFollows, Retired, Reported,
        GoneForGood, Awaited, Live, Draining
<1> QED BY <1>3, <1>4, PipelineStepUndisturbed, RuntimeStepUndisturbed, NodeStepUndisturbed,
           ConnectionStepUndisturbed DEF Next

(***************************************************************************)
(* As long as no transaction was undone and no generated address comes     *)
(* back, the queue starts to give back only addresses on which no node has *)
(* a connection registered before the endpoint was retired, the nodes      *)
(* apart that start between the tracker's list and the new registry.       *)
(***************************************************************************)
THEOREM OnlyIdleComplete ==
  ASSUME ~Wraps
  PROVE  Spec => CompletesOnlyIdle
<1>1. Follows /\ [Next]_vars => Follows'
  BY StepFollows
<1>2. Follows /\ Undisturbed /\ [Next]_vars => Undisturbed'
  BY StepUndisturbed
<1>3. Follows /\ Undisturbed /\ [Next]_vars
        => [faults = 0 => \A a \in Addresses : Completes(a) =>
              \A n \in Nodes \ overlooked : conns[n][a] = 0]_vars
  <2> SUFFICES ASSUME Follows, Undisturbed, [Next]_vars, faults = 0,
                      NEW a \in Addresses, Completes(a), NEW n \in Nodes \ overlooked
               PROVE  conns[n][a] = 0
    OBVIOUS
  <2>1. taken # {} /\ taken' = {} /\ tx = Idle /\ tx' # Idle /\ taken \subseteq Addresses
    BY DEF Completes, Follows, Typed
  <2>2. CompleteDrainedAddresses
    <3>1. PipelineStep
      BY <2>1, InboundStepKeeps DEF Next
    <3>2. ~(TakeQueue \/ CompleteAllDrains \/ Reconcile \/ ReconcileFails \/ Save \/ SaveFails)
      BY <2>1 DEF TakeQueue, CompleteAllDrains, Reconcile, ReconcileFails, Save, SaveFails
    <3>3. ~(RefreshPool \/ OtherTransaction)
      BY <2>1 DEF RefreshPool, OtherTransaction
    <3> QED BY <3>1, <3>2, <3>3 DEF PipelineStep
  <2>3. tx'.after = Completed(committed, taken)
    BY <2>1, <2>2 DEF CompleteDrainedAddresses, Begin
  <2>4. a \in taken
    BY <2>3, CompletedDrains DEF Completes, Follows, Typed
  <2> QED BY <2>4 DEF Undisturbed, GoneForGood, Gone, Unused
<1> QED BY InitFollows, InitUndisturbed, <1>1, <1>2, <1>3, PTL DEF Spec, CompletesOnlyIdle
=============================================================================
