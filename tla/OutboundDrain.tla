---------------------------- MODULE OutboundDrain ----------------------------
(***************************************************************************)
(* The drain of an outbound pool.  Its only consumer is the source pool    *)
(* shared by the dialers of every node: a connection leases one of the     *)
(* current addresses, an address that leaves the current set drains until  *)
(* its last lease is released, and the pool then reports it.               *)
(***************************************************************************)
EXTENDS DrainPipeline

CONSTANT MaxLeases   \* bound of the model on the connections of one address

ASSUME LeaseAssumption == MaxLeases \in Nat

VARIABLES
  current,    \* the addresses new connections use
  leases,     \* address -> number of connections that hold it
  sources,    \* the addresses the source pool is draining
  ready,      \* addresses Replace found idle and has yet to report
  released    \* address -> reports of a last release under way

outboundVars == <<current, leases, sources, ready, released>>
vars == <<pipelineVars, outboundVars>>

None == [a \in Addresses |-> 0]

\* No address is released more often than it was acquired; the tracker waits for nothing
\* but the source pool.
TypeOK ==
  /\ PipelineTypeOK
  /\ \A a \in DOMAIN pending : pending[a] = {"outbound"}
  /\ current \subseteq Addresses
  /\ leases \in [Addresses -> 0 .. MaxLeases]
  /\ sources \subseteq Addresses
  /\ ready \subseteq Addresses
  /\ released \in [Addresses -> Nat]

Init ==
  /\ PipelineInit
  /\ current = committed.active
  /\ leases = None
  /\ sources = {}
  /\ ready = {}
  /\ released = None

-----------------------------------------------------------------------------
(***************************************************************************)
(* Connections.                                                            *)
(***************************************************************************)
Acquire(a) ==
  /\ ~starting
  /\ a \in current
  /\ leases[a] < MaxLeases
  /\ leases' = [leases EXCEPT ![a] = @ + 1]
  /\ UNCHANGED <<pipelineVars, current, sources, ready, released>>

\* Mutant: any release of a draining address reports it.
ReleaseAny(a) ==
  /\ leases[a] > 0
  /\ leases' = [leases EXCEPT ![a] = @ - 1]
  /\ IF a \in sources
       THEN sources' = sources \ {a} /\ released' = [released EXCEPT ![a] = @ + 1]
       ELSE UNCHANGED <<sources, released>>
  /\ UNCHANGED <<pipelineVars, current, ready>>

Release(a) ==
  /\ leases[a] > 0
  /\ leases' = [leases EXCEPT ![a] = @ - 1]
  /\ IF leases[a] = 1 /\ a \in sources
       THEN sources' = sources \ {a} /\ released' = [released EXCEPT ![a] = @ + 1]
       ELSE UNCHANGED <<sources, released>>
  /\ UNCHANGED <<pipelineVars, current, ready>>

\* The report of a last release, made after the pool's lock is given up.
ReportReleased(a) ==
  /\ released[a] > 0
  /\ released' = [released EXCEPT ![a] = @ - 1]
  /\ Mark("outbound", a)
  /\ UNCHANGED <<committed, generated, tx, assigned, taken, starting, faults, crashes,
                 current, leases, sources, ready>>

-----------------------------------------------------------------------------
(***************************************************************************)
(* The runtime half of a transaction.                                      *)
(***************************************************************************)
PrepareOutbound == Prepare({"outbound"}) /\ UNCHANGED outboundVars

\* Mutant: an address that was idle when it was replaced is not reported.
ReplaceSilent ==
  /\ tx.phase = "sync"
  /\ ready' = {}
  /\ sources' = (sources \cup {a \in current \ Target.active : leases[a] > 0}) \ Target.active
  /\ current' = Target.active
  /\ tx' = [tx EXCEPT !.phase = "refresh"]
  /\ UNCHANGED <<committed, generated, assigned, pending, queue, taken, starting, faults, crashes,
                 leases, released>>

Replace ==
  /\ tx.phase = "sync"
  /\ LET gone == current \ Target.active IN
     /\ ready' = {a \in gone : leases[a] = 0}
     /\ sources' = (sources \cup {a \in gone : leases[a] > 0}) \ Target.active
  /\ current' = Target.active
  /\ tx' = [tx EXCEPT !.phase = "refresh"]
  /\ UNCHANGED <<committed, generated, assigned, pending, queue, taken, starting, faults, crashes,
                 leases, released>>

ReportReady(a) ==
  /\ tx # Idle
  /\ a \in ready
  /\ ready' = ready \ {a}
  /\ Mark("outbound", a)
  /\ UNCHANGED <<committed, generated, tx, assigned, taken, starting, faults, crashes,
                 current, leases, sources, released>>

Synced ==
  /\ tx.phase = "refresh"
  /\ ready = {}
  /\ SyncDone
  /\ UNCHANGED <<committed, generated, assigned, pending, queue, taken, starting, faults, crashes,
                 outboundVars>>

\* The outbound registry has changed over, and the inbound one or a node's listeners fail.
SyncFails ==
  /\ tx.phase = "refresh" /\ ~tx.undo
  /\ ready = {}
  /\ MayFail("sync")
  /\ Undo
  /\ UNCHANGED <<committed, generated, assigned, pending, queue, taken, starting, crashes,
                 outboundVars>>

\* Close every connection of the batch; each report is made before the commit starts.
ForceDrain(batch) ==
  /\ BeginForced(batch)
  /\ leases' = [a \in Addresses |-> IF a \in batch \cap sources THEN 0 ELSE leases[a]]
  /\ sources' = sources \ batch
  /\ pending' = [a \in DOMAIN pending \ (batch \cap sources) |-> pending[a]]
  /\ queue' = queue \cup (DOMAIN pending \cap batch \cap sources)
  /\ UNCHANGED <<committed, generated, assigned, taken, starting, faults, crashes,
                 current, ready, released>>

Crash ==
  /\ PipelineCrash
  /\ current' = {}
  /\ leases' = None
  /\ sources' = {}
  /\ ready' = {}
  /\ released' = None

Next ==
  \/ PipelineStep /\ UNCHANGED outboundVars
  \/ PrepareOutbound
  \/ Replace
  \/ \E a \in Addresses : ReportReady(a)
  \/ Synced
  \/ SyncFails
  \/ \E batch \in committed.draining : ForceDrain(batch)
  \/ Crash
  \/ \E a \in Addresses : Acquire(a) \/ Release(a) \/ ReportReleased(a)

Spec == Init /\ [][Next]_vars

\* Connections end; the goroutines run.  The coordinator's mutex is not starved.
Fairness ==
  /\ PipelineFairness
  /\ WF_vars(PrepareOutbound) /\ WF_vars(Replace) /\ WF_vars(Synced)
  /\ \A a \in Addresses :
       WF_vars(Release(a)) /\ WF_vars(ReportReleased(a)) /\ WF_vars(ReportReady(a))

FairSpec == Spec /\ Fairness

-----------------------------------------------------------------------------
(***************************************************************************)
(* As long as no transaction has been undone, the queue never starts to    *)
(* give back an address that a connection still holds: not after a forced  *)
(* drain, a crash, or a report that arrives while the pool changes again.  *)
(***************************************************************************)
CompletesOnlyIdle ==
  [][faults = 0 => \A a \in Addresses : Completes(a) => leases[a] = 0]_vars

(***************************************************************************)
(* README: after a refresh "an old address takes no new connection but is  *)
(* kept until all its existing connections have ended", whatever failed.   *)
(***************************************************************************)
KeptWhileConnected == [][\A a \in Addresses : Completes(a) => leases[a] = 0]_vars

(***************************************************************************)
(* A connection's source address stays on the host as long as the          *)
(* connection holds it, through refreshes, drains, forced drains and       *)
(* restarts, if no transaction has been undone.                            *)
(***************************************************************************)
LeasedIsAssigned == faults = 0 => \A a \in Addresses : leases[a] > 0 => a \in assigned

(***************************************************************************)
(* Whenever no transaction runs, the host has exactly the addresses that   *)
(* the store needs and the dialers use exactly the active ones: a          *)
(* transaction that fails at any step, or a crash in the middle of one,    *)
(* leaves no address behind and takes none away.  The tracker waits only   *)
(* for addresses that the store, or the transaction being applied, drains: *)
(* an answer about an address that was given back, and may have been       *)
(* generated again, is never counted.                                      *)
(***************************************************************************)
StoreAgrees ==
  /\ tx = Idle /\ ~starting => assigned = Live(committed) /\ current = committed.active
  /\ \A a \in DOMAIN pending :
       a \in Draining(committed) \/ (tx # Idle /\ a \in Draining(tx.after))
=============================================================================
