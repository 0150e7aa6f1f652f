---------------------------- MODULE DrainPipeline ----------------------------
(***************************************************************************)
(* How a refreshed pool's old addresses are given back: the coordinator's  *)
(* transaction (network, runtime, file; undone in reverse when one of them *)
(* fails), the tracker that waits for every consumer of a draining         *)
(* address, and the queue that turns the last answer into a new            *)
(* transaction.                                                            *)
(*                                                                         *)
(* One pool is modelled.  Its consumers are left to the modules that       *)
(* extend this one: OutboundDrain (the source pool its dialers share) and  *)
(* InboundDrain (the listeners of the nodes that use it).                  *)
(***************************************************************************)
EXTENDS Naturals, FiniteSets

CONSTANTS
  Addresses,   \* the addresses of the pool's prefix
  Capacity,    \* addresses a refresh generates
  Wraps,       \* set when the prefix is so small that the walk comes round to addresses
               \* it generated before
  Faults,      \* the steps that may fail: a subset of {"network", "sync", "save"}
  MaxFaults,   \* bound of the model on the number of failures
  MaxCrashes   \* bound of the model on the number of crashes

ASSUME FaultAssumption == Wraps \in BOOLEAN /\ Faults \subseteq {"network", "sync", "save"}
ASSUME PoolAssumption == /\ IsFiniteSet(Addresses)
                         /\ Capacity \in 1 .. Cardinality(Addresses)
                         /\ MaxFaults \in Nat /\ MaxCrashes \in Nat

VARIABLES
  committed,   \* the coordinator's store and, the mutex being held between them, its file
  generated,   \* the addresses the store's walk has passed
  tx,          \* the transaction that holds the coordinator's mutex
  assigned,    \* the addresses the network manager keeps on the host
  pending,     \* tracker: draining address -> the consumers it still waits for
  queue,       \* addresses whose consumers have all answered
  taken,       \* addresses the queue's goroutine is about to complete
  starting,    \* set from a crash until the startup sequence has reconciled the resources
  faults,      \* how often a step has failed
  crashes      \* how often the process has crashed

pipelineVars == <<committed, generated, tx, assigned, pending, queue, taken, starting,
                  faults, crashes>>

\* What the store keeps of the pool.
PoolState == [active : SUBSET Addresses, draining : SUBSET SUBSET Addresses]

Draining(s) == UNION s.draining
Live(s) == s.active \cup Draining(s)

Phases == {"network", "prepare", "sync", "refresh", "save"}
Idle == [phase |-> "idle"]
Transaction == {Idle} \cup [phase : Phases, after : PoolState, undo : BOOLEAN]

PipelineTypeOK ==
  /\ committed \in PoolState
  /\ generated \subseteq Addresses
  /\ tx \in Transaction
  /\ assigned \subseteq Addresses
  /\ DOMAIN pending \subseteq Addresses
  /\ queue \subseteq Addresses
  /\ taken \subseteq Addresses
  /\ starting \in BOOLEAN
  /\ faults \in 0 .. MaxFaults
  /\ crashes \in 0 .. MaxCrashes

\* The state the runtime is being brought to: the new one, or back to the old one.
Target == IF tx.undo THEN committed ELSE tx.after

PipelineInit ==
  /\ \E S \in SUBSET Addresses :
       Cardinality(S) = Capacity /\ committed = [active |-> S, draining |-> {}]
  /\ generated = committed.active
  /\ tx = Idle
  /\ assigned = committed.active
  /\ pending = << >>
  /\ queue = {}
  /\ taken = {}
  /\ starting = FALSE
  /\ faults = 0
  /\ crashes = 0

-----------------------------------------------------------------------------
(***************************************************************************)
(* The tracker.                                                            *)
(***************************************************************************)

\* The map without an address.
Without(m, a) == [b \in DOMAIN m \ {a} |-> m[b]]

\* Mutant: the first report of several hands the address over.
MarkFirst(consumer, a) ==
  IF a \in DOMAIN pending /\ consumer \in pending[a]
    THEN pending' = Without(pending, a) /\ queue' = queue \cup {a}
    ELSE UNCHANGED <<pending, queue>>

\* A consumer reports an address; the last report hands the address to the queue.
Mark(consumer, a) ==
  IF a \in DOMAIN pending /\ consumer \in pending[a]
    THEN IF pending[a] = {consumer}
           THEN pending' = Without(pending, a) /\ queue' = queue \cup {a}
           ELSE pending' = [pending EXCEPT ![a] = @ \ {consumer}] /\ UNCHANGED queue
    ELSE UNCHANGED <<pending, queue>>

\* Prepare replaces everything the tracker waits for by what the state drains.
Prepare(consumers) ==
  /\ tx.phase = "prepare"
  /\ IF consumers = {}
       THEN pending' = << >> /\ queue' = queue \cup Draining(Target)
       ELSE pending' = [a \in Draining(Target) |-> consumers] /\ UNCHANGED queue
  /\ tx' = [tx EXCEPT !.phase = "sync"]
  /\ UNCHANGED <<committed, generated, assigned, taken, starting, faults, crashes>>

-----------------------------------------------------------------------------
(***************************************************************************)
(* The coordinator.                                                        *)
(***************************************************************************)
Begin(after) ==
  /\ tx = Idle
  /\ tx' = [phase |-> "network", after |-> after, undo |-> FALSE]

RefreshPool ==
  /\ ~starting
  /\ \E new \in SUBSET (Addresses \ (IF Wraps THEN Live(committed) ELSE generated)) :
       /\ Cardinality(new) = Capacity
       /\ Begin([active |-> new, draining |-> committed.draining \cup {committed.active}])
  /\ UNCHANGED <<committed, generated, assigned, pending, queue, taken, starting, faults, crashes>>

\* A transaction about something else.
OtherTransaction ==
  /\ ~starting
  /\ Begin(committed)
  /\ UNCHANGED <<committed, generated, assigned, pending, queue, taken, starting, faults, crashes>>

Completed(s, S) == [s EXCEPT !.draining = {b \ S : b \in @} \ {{}}]

\* The queue's goroutine takes what has been enqueued.
TakeQueue ==
  /\ taken = {}
  /\ queue # {}
  /\ taken' = queue
  /\ queue' = {}
  /\ UNCHANGED <<committed, generated, tx, assigned, pending, starting, faults, crashes>>

\* ... and completes what the store still drains of it.
CompleteDrainedAddresses ==
  /\ ~starting
  /\ taken # {}
  /\ IF taken \cap Draining(committed) = {}
       THEN tx = Idle /\ UNCHANGED tx
       ELSE Begin(Completed(committed, taken))
  /\ taken' = {}
  /\ UNCHANGED <<committed, generated, assigned, pending, queue, starting, faults, crashes>>

\* ForceDrain, once the runtime has closed the connections of the batch.
BeginForced(batch) ==
  /\ ~starting
  /\ batch \in committed.draining
  /\ Begin([committed EXCEPT !.draining = @ \ {batch}])

\* Mutant: only the active addresses are wanted on the host.
ReconcileActive ==
  /\ tx.phase = "network"
  /\ assigned' = Target.active
  /\ tx' = IF tx.undo THEN Idle ELSE [tx EXCEPT !.phase = "prepare"]
  /\ UNCHANGED <<committed, generated, pending, queue, taken, starting, faults, crashes>>

Reconcile ==
  /\ tx.phase = "network"
  /\ assigned' = Live(Target)
  /\ tx' = IF tx.undo THEN Idle ELSE [tx EXCEPT !.phase = "prepare"]
  /\ UNCHANGED <<committed, generated, pending, queue, taken, starting, faults, crashes>>

MayFail(step) == step \in Faults /\ faults < MaxFaults /\ faults' = faults + 1

\* The network step fails and what it did is taken back.
ReconcileFails ==
  /\ tx.phase = "network" /\ ~tx.undo
  /\ MayFail("network")
  /\ tx' = Idle
  /\ assigned' = Live(committed)
  /\ UNCHANGED <<committed, generated, pending, queue, taken, starting, crashes>>

SyncDone == tx' = [tx EXCEPT !.phase = IF tx.undo THEN "network" ELSE "save"]

\* Mutant: the runtime keeps what the undone transaction made of it.
UndoNetworkOnly == tx' = [tx EXCEPT !.phase = "network", !.undo = TRUE]

\* A failure after the network step: synchronise with the old state, then reconcile it.
Undo == tx' = [tx EXCEPT !.phase = "prepare", !.undo = TRUE]

Save ==
  /\ tx.phase = "save"
  /\ committed' = tx.after
  /\ generated' = generated \cup tx.after.active
  /\ tx' = Idle
  /\ starting' = FALSE
  /\ UNCHANGED <<assigned, pending, queue, taken, faults, crashes>>

SaveFails ==
  /\ tx.phase = "save"
  /\ MayFail("save")
  /\ Undo
  /\ UNCHANGED <<committed, generated, assigned, pending, queue, taken, starting, crashes>>

\* The process dies: the file and the host's addresses remain.
PipelineCrash ==
  /\ crashes < MaxCrashes
  /\ crashes' = crashes + 1
  /\ starting' = TRUE
  /\ tx' = Idle
  /\ pending' = << >>
  /\ queue' = {}
  /\ taken' = {}
  /\ UNCHANGED <<committed, generated, assigned, faults>>

\* The startup sequence completes every batch in one transaction, and tries again when
\* that fails.
CompleteAllDrains ==
  /\ starting
  /\ Begin([committed EXCEPT !.draining = {}])
  /\ UNCHANGED <<committed, generated, assigned, pending, queue, taken, starting, faults, crashes>>

PipelineStep ==
  \/ RefreshPool
  \/ OtherTransaction
  \/ TakeQueue
  \/ CompleteDrainedAddresses
  \/ CompleteAllDrains
  \/ Reconcile
  \/ ReconcileFails
  \/ Save
  \/ SaveFails

-----------------------------------------------------------------------------
\* A completion of address a starts: it is about to leave the store and the host.
Completes(a) ==
  /\ taken # {} /\ taken' = {}
  /\ tx = Idle /\ tx' # Idle
  /\ a \in Draining(committed) \ Draining(tx'.after)

\* Every draining address is given back in the end.
DrainsComplete ==
  \A a \in Addresses : a \in Draining(committed) ~> a \notin Draining(committed)

PipelineFairness ==
  /\ WF_pipelineVars(TakeQueue)
  /\ SF_pipelineVars(CompleteDrainedAddresses)
  /\ WF_pipelineVars(CompleteAllDrains)
  /\ WF_pipelineVars(Reconcile)
  /\ WF_pipelineVars(Save)
=============================================================================
