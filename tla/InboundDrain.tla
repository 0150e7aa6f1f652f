---------------------------- MODULE InboundDrain ----------------------------
(***************************************************************************)
(* The drain of an inbound pool.  Every running node of the pool listens   *)
(* on all its current addresses and is a consumer of each of them: a       *)
(* refresh opens listeners on the new addresses, retires the old ones one  *)
(* node after the other, and a retired endpoint is reported when no        *)
(* connection is registered on it any more.                                *)
(*                                                                         *)
(* Restarts are modelled in OutboundDrain; no node is restored here.       *)
(***************************************************************************)
EXTENDS DrainPipeline, FiniteSetsExt

CONSTANTS
  Nodes,      \* the nodes whose inbound resource is the pool
  Changes,    \* what is done to nodes: a subset of {"start", "stop", "update"}
  MaxTCP      \* the limit on a node's connections

ASSUME NodeAssumption == /\ IsFiniteSet(Nodes)
                         /\ Changes \subseteq {"start", "stop", "update"}
                         /\ MaxTCP \in Nat

VARIABLES
  running,    \* the nodes that run
  registry,   \* the addresses the inbound registry resolves the pool to
  endpoints,  \* node -> the endpoints its runtime serves
  listening,  \* node -> the addresses it has a listener on
  accepted,   \* node -> addresses whose accept loop holds an unregistered connection
  conns,      \* node -> address -> connections registered while the endpoint was served
  late,       \* node -> address -> connections registered after it was retired
  retiring,   \* node -> retired endpoints that have not been reported
  refreshing, \* nodes the binding refresh has yet to reach
  checking,   \* pairs <<node, address>> that have been retired and not been checked
  reports,    \* reports of a last connection under way
  overlooked  \* history: nodes started between the tracker's list of nodes and the new registry

inboundVars == <<running, overlooked, registry, endpoints, listening, accepted, conns, late, retiring,
                 refreshing, checking, reports>>
vars == <<pipelineVars, inboundVars>>

\* The connections registered on an endpoint, and by a node.
Active(n, a) == conns[n][a] + late[n][a]

Registered(n) == MapThenSumSet(LAMBDA a : Active(n, a), Addresses)

\* A node has at most MaxTCP connections, over all its endpoints, retired ones included;
\* the tracker waits for no address without a consumer.
TypeOK ==
  /\ PipelineTypeOK
  /\ pending \in [DOMAIN pending -> (SUBSET Nodes) \ {{}}]
  /\ running \subseteq Nodes
  /\ registry \subseteq Addresses
  /\ endpoints \in [Nodes -> SUBSET Addresses]
  /\ listening \in [Nodes -> SUBSET Addresses]
  /\ accepted \in [Nodes -> SUBSET Addresses]
  /\ conns \in [Nodes -> [Addresses -> Nat]]
  /\ late \in [Nodes -> [Addresses -> Nat]]
  /\ \A n \in Nodes : Registered(n) <= MaxTCP
  /\ retiring \in [Nodes -> SUBSET Addresses]
  /\ refreshing \subseteq running
  /\ checking \subseteq running \X Addresses
  /\ reports \subseteq Nodes \X Addresses
  /\ overlooked \subseteq running

Nowhere == [n \in Nodes |-> {}]
Unconnected == [a \in Addresses |-> 0]

Init ==
  /\ PipelineInit
  /\ running = Nodes
  /\ registry = committed.active
  /\ endpoints = [n \in Nodes |-> registry]
  /\ listening = endpoints
  /\ accepted = Nowhere
  /\ conns = [n \in Nodes |-> Unconnected]
  /\ late = conns
  /\ retiring = Nowhere
  /\ refreshing = {}
  /\ checking = {}
  /\ reports = {}
  /\ overlooked = {}

-----------------------------------------------------------------------------
(***************************************************************************)
(* Connections.                                                            *)
(***************************************************************************)

Accept(n, a) ==
  /\ a \in listening[n] \ accepted[n]
  /\ accepted' = [accepted EXCEPT ![n] = @ \cup {a}]
  /\ UNCHANGED <<pipelineVars, running, overlooked, registry, endpoints, listening, conns, late, retiring,
                 refreshing, checking, reports>>

\* The accept loop registers the connection it holds, or closes it at the limit.
Register(n, a) ==
  /\ a \in accepted[n]
  /\ accepted' = [accepted EXCEPT ![n] = @ \ {a}]
  /\ IF Registered(n) >= MaxTCP THEN UNCHANGED <<conns, late>>
     ELSE IF a \in endpoints[n] THEN conns' = [conns EXCEPT ![n][a] = @ + 1] /\ UNCHANGED late
     ELSE late' = [late EXCEPT ![n][a] = @ + 1] /\ UNCHANGED conns
  /\ UNCHANGED <<pipelineVars, running, overlooked, registry, endpoints, listening, retiring, refreshing,
                 checking, reports>>

\* A connection ends; the last one of a retired endpoint makes a report.
End(n, a) ==
  /\ \/ conns[n][a] > 0 /\ conns' = [conns EXCEPT ![n][a] = @ - 1] /\ UNCHANGED late
     \/ late[n][a] > 0 /\ late' = [late EXCEPT ![n][a] = @ - 1] /\ UNCHANGED conns
  /\ IF a \in retiring[n] /\ Active(n, a) = 1
       THEN /\ retiring' = [retiring EXCEPT ![n] = @ \ {a}]
            /\ reports' = reports \cup {<<n, a>>}
       ELSE UNCHANGED <<retiring, reports>>
  /\ UNCHANGED <<pipelineVars, running, overlooked, registry, endpoints, listening, accepted, refreshing,
                 checking>>

Report(n, a) ==
  /\ <<n, a>> \in reports
  /\ reports' = reports \ {<<n, a>>}
  /\ Mark(n, a)
  /\ UNCHANGED <<committed, generated, tx, assigned, taken, starting, faults, crashes,
                 running, overlooked, registry, endpoints, listening, accepted, conns, late, retiring,
                 refreshing, checking>>

-----------------------------------------------------------------------------
(***************************************************************************)
(* The runtime half of a transaction.  The nodes are listed before the     *)
(* registry changes; their lock is held while the bindings are refreshed.  *)
(***************************************************************************)
PrepareInbound == Prepare(running) /\ UNCHANGED inboundVars

SyncRegistry ==
  /\ tx.phase = "sync"
  /\ registry' = Target.active
  /\ refreshing' = running
  /\ tx' = [tx EXCEPT !.phase = "refresh"]
  /\ UNCHANGED <<committed, generated, assigned, pending, queue, taken, starting, faults, crashes,
                 running, overlooked, endpoints, listening, accepted, conns, late, retiring, checking, reports>>

Retire(n) ==
  /\ checking = {}
  /\ n \in refreshing
  /\ refreshing' = refreshing \ {n}
  /\ LET removed == endpoints[n] \ registry IN
     /\ retiring' = [retiring EXCEPT ![n] = @ \cup removed]
     /\ checking' = {n} \X removed
  /\ endpoints' = [endpoints EXCEPT ![n] = registry]
  /\ listening' = [listening EXCEPT ![n] = @ \cup registry]
  /\ UNCHANGED <<pipelineVars, running, overlooked, registry, accepted, conns, late, reports>>

\* Mutant: the listener of a retired endpoint stays open while it has connections.
CloseRetiredWhenIdle(n, a) ==
  /\ <<n, a>> \in checking
  /\ checking' = checking \ {<<n, a>>}
  /\ IF Active(n, a) = 0 /\ a \in retiring[n]
       THEN /\ retiring' = [retiring EXCEPT ![n] = @ \ {a}] /\ Mark(n, a)
            /\ listening' = [listening EXCEPT ![n] = @ \ {a}]
       ELSE UNCHANGED <<retiring, pending, queue, listening>>
  /\ UNCHANGED <<committed, generated, tx, assigned, taken, starting, faults, crashes,
                 running, overlooked, registry, endpoints, accepted, conns, late, refreshing, reports>>

\* Mutant: a retired endpoint is reported at once, whether it has connections or not.
CloseRetiredBusy(n, a) ==
  /\ <<n, a>> \in checking
  /\ checking' = checking \ {<<n, a>>}
  /\ listening' = [listening EXCEPT ![n] = @ \ {a}]
  /\ retiring' = [retiring EXCEPT ![n] = @ \ {a}] /\ Mark(n, a)
  /\ UNCHANGED <<committed, generated, tx, assigned, taken, starting, faults, crashes,
                 running, overlooked, registry, endpoints, accepted, conns, late, refreshing, reports>>

\* The listener of a retired endpoint is closed; without a connection it is reported at once.
CloseRetired(n, a) ==
  /\ <<n, a>> \in checking
  /\ checking' = checking \ {<<n, a>>}
  /\ listening' = [listening EXCEPT ![n] = @ \ {a}]
  /\ IF Active(n, a) = 0 /\ a \in retiring[n]
       THEN retiring' = [retiring EXCEPT ![n] = @ \ {a}] /\ Mark(n, a)
       ELSE UNCHANGED <<retiring, pending, queue>>
  /\ UNCHANGED <<committed, generated, tx, assigned, taken, starting, faults, crashes,
                 running, overlooked, registry, endpoints, accepted, conns, late, refreshing, reports>>

Synced ==
  /\ tx.phase = "refresh"
  /\ refreshing = {} /\ checking = {}
  /\ SyncDone
  /\ UNCHANGED <<committed, generated, assigned, pending, queue, taken, starting, faults, crashes,
                 inboundVars>>

\* A node cannot open a listener on a new address.
SyncFails ==
  /\ tx.phase = "refresh" /\ ~tx.undo
  /\ refreshing # {} /\ checking = {}
  /\ MayFail("sync")
  /\ Undo
  /\ refreshing' = {}
  /\ UNCHANGED <<committed, generated, assigned, pending, queue, taken, starting, crashes,
                 running, overlooked, registry, endpoints, listening, accepted, conns, late, retiring,
                 checking, reports>>

\* Every node closes the connections of its retired endpoints in the batch; each ends (End)
\* in the goroutine that serves it.
ForceDrain(batch) ==
  /\ BeginForced(batch)
  /\ UNCHANGED <<committed, generated, assigned, pending, queue, taken, starting, faults, crashes,
                 inboundVars>>

-----------------------------------------------------------------------------
(***************************************************************************)
(* What administrators do to nodes, under the node manager's lock.         *)
(***************************************************************************)
Changeable(change) == change \in Changes /\ tx.phase # "refresh"

StartNode(n) ==
  /\ Changeable("start")
  /\ n \notin running
  /\ running' = running \cup {n}
  /\ overlooked' = IF tx.phase = "sync" THEN overlooked \cup {n} ELSE overlooked
  /\ endpoints' = [endpoints EXCEPT ![n] = registry]
  /\ listening' = [listening EXCEPT ![n] = registry]
  /\ UNCHANGED <<pipelineVars, registry, accepted, conns, late, retiring, refreshing, checking,
                 reports>>

\* A runtime that stops reports nothing.
StopNode(n) ==
  /\ Changeable("stop")
  /\ n \in running
  /\ running' = running \ {n}
  /\ overlooked' = overlooked \ {n}
  /\ endpoints' = [endpoints EXCEPT ![n] = {}]
  /\ listening' = [listening EXCEPT ![n] = {}]
  /\ accepted' = [accepted EXCEPT ![n] = {}]
  /\ conns' = [conns EXCEPT ![n] = Unconnected]
  /\ late' = [late EXCEPT ![n] = Unconnected]
  /\ retiring' = [retiring EXCEPT ![n] = {}]
  /\ UNCHANGED <<pipelineVars, registry, refreshing, checking, reports>>

\* A changed configuration on the same bindings: the runtime forgets its connections and
\* then closes them.
UpdateNode(n) ==
  /\ Changeable("update")
  /\ n \in running
  /\ conns' = [conns EXCEPT ![n] = Unconnected]
  /\ late' = [late EXCEPT ![n] = Unconnected]
  /\ UNCHANGED <<pipelineVars, running, overlooked, registry, endpoints, listening, accepted, retiring,
                 refreshing, checking, reports>>

Next ==
  \/ PipelineStep /\ UNCHANGED inboundVars
  \/ PrepareInbound
  \/ SyncRegistry
  \/ Synced
  \/ SyncFails
  \/ \E batch \in committed.draining : ForceDrain(batch)
  \/ \E n \in Nodes : Retire(n) \/ StartNode(n) \/ StopNode(n) \/ UpdateNode(n)
  \/ \E n \in Nodes, a \in Addresses :
       Accept(n, a) \/ Register(n, a) \/ End(n, a) \/ Report(n, a) \/ CloseRetired(n, a)

Spec == Init /\ [][Next]_vars

\* Connections end; the goroutines run.
Fairness ==
  /\ PipelineFairness
  /\ WF_vars(PrepareInbound) /\ WF_vars(SyncRegistry) /\ WF_vars(Synced)
  /\ \A n \in Nodes :
       /\ WF_vars(Retire(n))
       /\ \A a \in Addresses :
            /\ WF_vars(Register(n, a)) /\ WF_vars(End(n, a))
            /\ WF_vars(Report(n, a)) /\ WF_vars(CloseRetired(n, a))

FairSpec == Spec /\ Fairness

-----------------------------------------------------------------------------
(***************************************************************************)
(* Whenever no transaction runs, every running node serves, and listens    *)
(* on, exactly the pool's active addresses, whether the transaction before *)
(* was committed or undone and whatever happened to the node meanwhile.    *)
(***************************************************************************)
ListenersAgree ==
  tx = Idle =>
    \A n \in running : endpoints[n] = committed.active /\ listening[n] = committed.active

(***************************************************************************)
(* A connection registered while its endpoint was served stays on an       *)
(* endpoint that the runtime serves or has still to report: the report of  *)
(* a drain cannot overtake the last of those connections.                  *)
(***************************************************************************)
ServedUntilReported ==
  \A n \in running, a \in Addresses :
    conns[n][a] > 0 => a \in endpoints[n] \cup retiring[n]

(***************************************************************************)
(* As long as no transaction has been undone, the queue never starts to    *)
(* give back an address on which a node has a connection that was          *)
(* registered before the endpoint was retired, the nodes apart that        *)
(* started after the tracker had listed those to wait for and before the   *)
(* registry changed: whichever way the reports of several nodes, stops,    *)
(* updates, forced drains and other transactions interleave.               *)
(***************************************************************************)
CompletesOnlyIdle ==
  [][faults = 0 => \A a \in Addresses : Completes(a) =>
       \A n \in Nodes \ overlooked : conns[n][a] = 0]_vars
=============================================================================
