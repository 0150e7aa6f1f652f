------------------------------ MODULE Listeners ------------------------------
(***************************************************************************)
(* The sockets and the firewall openings of the nodes: the port allocator  *)
(* (internal/proxy/port_allocator.go) shared by listeners and UDP relays,  *)
(* the listener runtimes (internal/node/runtime.go) that are started,      *)
(* replaced, rebound and stopped under the node manager's mutex, the UDP   *)
(* associations (internal/proxy/udp_relay.go) that come and go by          *)
(* themselves, and the firewall coordinator (firewall_coordinator.go) with *)
(* the kernel table behind it.                                             *)
(*                                                                         *)
(* A step is one call of the allocator or of the firewall, each under a    *)
(* mutex of its own; the reservations of a runtime that stops are closed   *)
(* in one step.  Which of the free ports an automatic reservation gets is  *)
(* left open.  A reservation that cannot be made changes nothing.  Address *)
(* families, interfaces and freebind are left out, as are the openings for *)
(* the management interface, which never change.                           *)
(***************************************************************************)
EXTENDS Naturals, FiniteSets

CONSTANTS
  Nodes,         \* node IDs
  Addresses,     \* the host's addresses
  Wildcard,      \* the address of a listener on all addresses
  Bindings,      \* the sets of addresses a node can be bound to
  Ports,         \* the automatic range, which relays and listeners share
  Associations,  \* identities of UDP associations
  Faults,        \* what can fail: a subset of {"apply", "close"}
  MaxFaults,     \* bound of the model on the number of failures
  MaxCrashes     \* bound of the model on the number of crashes

ASSUME ListenerAssumption ==
  /\ IsFiniteSet(Nodes) /\ IsFiniteSet(Associations)
  /\ Wildcard \notin Addresses
  /\ Bindings \subseteq ((SUBSET Addresses) \cup {{Wildcard}}) \ {{}}
  /\ MaxFaults \in Nat /\ MaxCrashes \in Nat

VARIABLES
  reserved,   \* the allocator: reserved endpoints
  leaked,     \* endpoints of sockets that failed to close and are still bound
  opened,     \* the coordinator: node -> the endpoints opened for it
  scopes,     \* the coordinator: address -> associations counted on it
  table,      \* the kernel's table: listener endpoints, and addresses open for relays
  runtimes,   \* the manager: node -> its runtime
  op,         \* the operation that holds the node manager's mutex
  assocs,     \* association -> what it has acquired
  up,         \* the process runs, with its firewall initialised
  faults,     \* how many failures happened
  crashes,    \* how often the process died
  stuck       \* history: address -> relay openings that could not be closed

firewall == <<opened, scopes, table>>
sockets == <<reserved, leaked>>
vars == <<reserved, leaked, opened, scopes, table, runtimes, op, assocs, up, faults,
          crashes, stuck>>

Endpoint == [protocol : {"tcp", "udp"}, address : Addresses \cup {Wildcard}, port : Ports]

TCP(S, port) == {[protocol |-> "tcp", address |-> a, port |-> port] : a \in S}
UDP(a, port) == [protocol |-> "udp", address |-> a, port |-> port]

\* endpointsConflict
Conflict(e, f) ==
  /\ e.protocol = f.protocol /\ e.port = f.port
  /\ e.address = f.address \/ Wildcard \in {e.address, f.address}

NoRuntime == [state |-> "none"]
Runtime(S, port) == [state |-> "serving", addresses |-> S, port |-> port, handler |-> S]
Endpoints(r) == TCP(r.addresses, r.port)

\* A runtime is dead when its Stop failed: the manager keeps it, its listeners are closed.
\* Its handler keeps the bindings it was built with, and starts relays on those.
RuntimeState ==
  {NoRuntime} \cup
  [state : {"serving", "dead"}, addresses : Bindings, port : Ports, handler : Bindings]

Idle == [stage |-> "idle"]
Busy(n) == op.stage # "idle" /\ op.node = n
NoAssociation == [stage |-> "none"]
Active(i) == assocs[i].stage # "none"

\* selectUDPRelayBind: a binding of the handler covers the address.
Covers(r, a) == a \in r.handler \/ Wildcard \in r.handler

TypeOK ==
  /\ reserved \subseteq Endpoint
  /\ leaked \subseteq Endpoint
  /\ opened \in [Nodes -> SUBSET Endpoint]
  /\ scopes \in [Addresses -> Nat]
  /\ \A a \in Addresses : scopes[a] <= Cardinality(Associations) + stuck[a]
  /\ table \in [nodes : SUBSET Endpoint, relays : SUBSET Addresses]
  /\ runtimes \in [Nodes -> RuntimeState]
  /\ op.stage \in {"idle", "open", "abandon", "close", "release", "wait", "retire"}
  /\ \A i \in Associations :
       assocs[i].stage \in {"none", "reserved", "relaying", "ended", "closing"}
  /\ up \in BOOLEAN
  /\ faults \in 0 .. MaxFaults
  /\ crashes \in 0 .. MaxCrashes
  /\ stuck \in [Addresses -> 0 .. MaxFaults]

Nothing == [nodes |-> {}, relays |-> {}]

Init ==
  /\ reserved = {} /\ leaked = {}
  /\ opened = [n \in Nodes |-> {}]
  /\ scopes = [a \in Addresses |-> 0]
  /\ table = Nothing
  /\ runtimes = [n \in Nodes |-> NoRuntime]
  /\ op = Idle
  /\ assocs = [i \in Associations |-> NoAssociation]
  /\ up = FALSE
  /\ faults = 0 /\ crashes = 0
  /\ stuck = [a \in Addresses |-> 0]

-----------------------------------------------------------------------------
(***************************************************************************)
(* The allocator.                                                          *)
(***************************************************************************)

\* Neither another reservation nor a socket the kernel still knows is in the way.
Available(S) == \A e \in S, f \in reserved \cup leaked : ~Conflict(e, f)

\* Reserve checks every endpoint and binds them all, or none.
Reserve(S) ==
  /\ Available(S)
  /\ reserved' = reserved \cup S
  /\ UNCHANGED <<leaked, faults>>

MayFail(kind) == kind \in Faults /\ faults < MaxFaults /\ faults' = faults + 1

\* Close and ReleaseEndpoints: the endpoints are given up whether their sockets close or not.
\* A socket that fails to close may be bound or not afterwards.
Release(S, ok) ==
  /\ reserved' = reserved \ S
  /\ \/ ok /\ UNCHANGED <<leaked, faults>>
     \/ ~ok /\ MayFail("close") /\ \E e \in S : leaked' \in {leaked, leaked \cup {e}}

-----------------------------------------------------------------------------
(***************************************************************************)
(* The coordinator.  Replace writes the whole table in one kernel          *)
(* transaction; the coordinator's state follows when that succeeded.       *)
(***************************************************************************)
Openings(o, s) ==
  [nodes |-> UNION {o[n] : n \in Nodes}, relays |-> {a \in Addresses : s[a] > 0}]

Replace(o, s) ==
  /\ opened' = o
  /\ scopes' = s
  /\ table' = Openings(o, s)
  /\ UNCHANGED faults

ReplaceFails == MayFail("apply") /\ UNCHANGED firewall

-----------------------------------------------------------------------------
(***************************************************************************)
(* Operations on nodes.                                                    *)
(***************************************************************************)

\* What an operation on node n is about: its new runtime, the endpoints it reserved for it,
\* the runtime it stops, the endpoints it retires, and whether stopping failed.
Operation(stage, n, new, added, old) ==
  [stage |-> stage, node |-> n, new |-> new, added |-> added, old |-> old,
   removed |-> {}, failed |-> FALSE]

StartNode(n, S, port) ==
  /\ up /\ op = Idle
  /\ runtimes[n] = NoRuntime
  /\ Reserve(TCP(S, port))
  /\ op' = Operation("open", n, Runtime(S, port), TCP(S, port), NoRuntime)
  /\ UNCHANGED <<firewall, runtimes, assocs, up, crashes, stuck>>

\* An update that changes the bindings starts a second runtime.
UpdateNode(n, S, port) ==
  /\ up /\ op = Idle
  /\ runtimes[n] # NoRuntime
  /\ Endpoints(runtimes[n]) # TCP(S, port)
  /\ Reserve(TCP(S, port))
  /\ op' = Operation("open", n, Runtime(S, port), TCP(S, port), runtimes[n])
  /\ UNCHANGED <<firewall, runtimes, assocs, up, crashes, stuck>>

\* The addresses of the node's inbound resource changed.  The handler stays.
RefreshBindings(n, S) ==
  /\ up /\ op = Idle
  /\ runtimes[n].state = "serving"
  /\ (S = {Wildcard}) = (runtimes[n].addresses = {Wildcard})
  /\ LET current == Endpoints(runtimes[n])
         desired == TCP(S, runtimes[n].port)
     IN /\ Reserve(desired \ current)
        /\ op' = [Operation("open", n, [runtimes[n] EXCEPT !.addresses = S], desired \ current,
                             NoRuntime) EXCEPT !.removed = current \ desired]
  /\ UNCHANGED <<firewall, runtimes, assocs, up, crashes, stuck>>

\* An update that keeps the bindings builds a new handler.
RebuildHandler(n) ==
  /\ up /\ op = Idle
  /\ runtimes[n].state = "serving"
  /\ runtimes' = [runtimes EXCEPT ![n].handler = runtimes[n].addresses]
  /\ UNCHANGED <<sockets, firewall, op, assocs, up, faults, crashes, stuck>>

\* The associations of node n belong to the runtime that is going to stop.
Outdated(n) ==
  [i \in Associations |-> IF Active(i) /\ assocs[i].node = n
                            THEN [assocs[i] EXCEPT !.old = TRUE] ELSE assocs[i]]

\* The operation goes on once the firewall is open for the new endpoints.
Opened ==
  LET n == op.node IN
  /\ runtimes' = [runtimes EXCEPT ![n] = op.new]
  /\ op' = IF op.removed # {} THEN [op EXCEPT !.stage = "retire"]
           ELSE IF op.old.state = "serving" THEN [op EXCEPT !.stage = "close"]
           ELSE Idle
  /\ assocs' = IF op.old.state = "serving" THEN Outdated(n) ELSE assocs

\* Mutant: the endpoints a refresh retires stay open.
OpenNodeKeeping ==
  /\ op.stage = "open"
  /\ Replace([opened EXCEPT ![op.node] = @ \cup Endpoints(op.new)], scopes)
  /\ Opened
  /\ UNCHANGED <<sockets, up, crashes, stuck>>

OpenNode ==
  /\ op.stage = "open"
  /\ Replace([opened EXCEPT ![op.node] = Endpoints(op.new)], scopes)
  /\ Opened
  /\ UNCHANGED <<sockets, up, crashes, stuck>>

OpenNodeFails ==
  /\ op.stage = "open"
  /\ ReplaceFails
  /\ op' = [op EXCEPT !.stage = "abandon"]
  /\ UNCHANGED <<sockets, runtimes, assocs, up, crashes, stuck>>

\* The new sockets are closed again, and an error in that is ignored.
Abandon ==
  /\ op.stage = "abandon"
  /\ \E ok \in BOOLEAN : Release(op.added, ok)
  /\ op' = Idle
  /\ UNCHANGED <<firewall, runtimes, assocs, up, crashes, stuck>>

\* A refresh closes the listeners it retires, one after the other.
Retire(e) ==
  /\ op.stage = "retire"
  /\ e \in op.removed
  /\ \E ok \in BOOLEAN : Release({e}, ok)
  /\ op' = IF op.removed = {e} THEN Idle ELSE [op EXCEPT !.removed = @ \ {e}]
  /\ UNCHANGED <<firewall, runtimes, assocs, up, crashes, stuck>>

StopNode(n) ==
  /\ op = Idle
  /\ runtimes[n].state = "serving"
  /\ op' = Operation("close", n, NoRuntime, {}, runtimes[n])
  /\ assocs' = Outdated(n)
  /\ UNCHANGED <<sockets, firewall, runtimes, up, faults, crashes, stuck>>

\* Mutant: a runtime that is stopped closes its node's opening without looking at it.
CloseNodeBlindly ==
  /\ op.stage = "close"
  /\ \/ /\ Replace([opened EXCEPT ![op.node] = {}], scopes)
        /\ op' = [op EXCEPT !.stage = "release"]
     \/ /\ ReplaceFails
        /\ op' = [op EXCEPT !.stage = "release", !.failed = TRUE]
  /\ UNCHANGED <<sockets, runtimes, assocs, up, crashes, stuck>>

\* The runtime closes its opening, unless another one has replaced it.
CloseNode ==
  /\ op.stage = "close"
  /\ IF opened[op.node] = Endpoints(op.old)
       THEN \/ /\ Replace([opened EXCEPT ![op.node] = {}], scopes)
               /\ op' = [op EXCEPT !.stage = "release"]
            \/ /\ ReplaceFails
               /\ op' = [op EXCEPT !.stage = "release", !.failed = TRUE]
       ELSE op' = [op EXCEPT !.stage = "release"] /\ UNCHANGED <<firewall, faults>>
  /\ UNCHANGED <<sockets, runtimes, assocs, up, crashes, stuck>>

CloseReservations ==
  /\ op.stage = "release"
  /\ \E ok \in BOOLEAN :
       /\ Release(Endpoints(op.old), ok)
       /\ op' = [op EXCEPT !.stage = "wait", !.failed = @ \/ ~ok]
  /\ UNCHANGED <<firewall, runtimes, assocs, up, crashes, stuck>>

\* The runtime has ended when all its connections have.  The node of a Stop that failed
\* keeps it; a replaced one is forgotten.
Stopped ==
  /\ op.stage = "wait"
  /\ \A i \in Associations : Active(i) => ~assocs[i].old
  /\ runtimes' = IF op.new # NoRuntime THEN runtimes
                 ELSE [runtimes EXCEPT ![op.node] =
                         IF op.failed THEN [op.old EXCEPT !.state = "dead"] ELSE NoRuntime]
  /\ op' = Idle
  /\ UNCHANGED <<sockets, firewall, assocs, up, faults, crashes, stuck>>

Operate ==
  \/ \E n \in Nodes, S \in Bindings, port \in Ports : StartNode(n, S, port) \/ UpdateNode(n, S, port)
  \/ \E n \in Nodes, S \in Bindings : RefreshBindings(n, S)
  \/ \E n \in Nodes : RebuildHandler(n) \/ StopNode(n)
  \/ OpenNode \/ OpenNodeFails \/ Abandon
  \/ CloseNode \/ CloseReservations \/ Stopped
  \/ \E e \in Endpoint : Retire(e)

-----------------------------------------------------------------------------
(***************************************************************************)
(* UDP associations.  Each is one connection's, of a runtime that serves   *)
(* or is being stopped; a connection outlives the listener it came from.   *)
(***************************************************************************)
Stopping(n) == Busy(n) /\ op.stage \in {"close", "release", "wait"}

Leaving(n) == Stopping(n) /\ op.new = NoRuntime

\* Node n has a connection whose runtime, the one being stopped or not, relays on address a.
Connected(n, old, a) ==
  IF old THEN Stopping(n) /\ Covers(op.old, a)
         ELSE runtimes[n].state = "serving" /\ ~Leaving(n) /\ Covers(runtimes[n], a)

Associate(i, n, a, port) ==
  /\ assocs[i] = NoAssociation
  /\ \E old \in BOOLEAN :
       /\ Connected(n, old, a)
       /\ assocs' = [assocs EXCEPT ![i] =
                       [stage |-> "reserved", node |-> n, old |-> old, address |-> a,
                        port |-> port, held |-> TRUE]]
  /\ Reserve({UDP(a, port)})
  /\ UNCHANGED <<firewall, runtimes, op, up, crashes, stuck>>

Advance(i, stage) == assocs' = [assocs EXCEPT ![i].stage = stage]

\* Only the first association on an address writes the table; the context is cancelled once
\* the runtime has closed its listeners.
OpenRelay(i) ==
  /\ assocs[i].stage = "reserved"
  /\ LET a == assocs[i].address
         cancelled == assocs[i].old /\ op.stage = "wait"
     IN \/ /\ scopes[a] > 0
           /\ scopes' = [scopes EXCEPT ![a] = @ + 1]
           /\ Advance(i, "relaying")
           /\ UNCHANGED <<opened, table, faults>>
        \/ /\ scopes[a] = 0 /\ ~cancelled
           /\ Replace(opened, [scopes EXCEPT ![a] = 1])
           /\ Advance(i, "relaying")
        \/ /\ scopes[a] = 0
           /\ IF cancelled THEN UNCHANGED <<firewall, faults>> ELSE ReplaceFails
           /\ Advance(i, "closing")
  /\ UNCHANGED <<sockets, runtimes, op, up, crashes, stuck>>

\* The control connection ends or the context does: the reservation is closed under the
\* relay, which stops reading.
ControlCloses(i) ==
  /\ assocs[i].stage = "relaying"
  /\ \E ok \in BOOLEAN : Release({UDP(assocs[i].address, assocs[i].port)}, ok)
  /\ assocs' = [assocs EXCEPT ![i].stage = "ended", ![i].held = FALSE]
  /\ UNCHANGED <<firewall, runtimes, op, up, crashes, stuck>>

\* The relay was idle too long, or its reply could not be sent.
EndIdle(i) ==
  /\ assocs[i].stage = "relaying"
  /\ Advance(i, "ended")
  /\ UNCHANGED <<sockets, firewall, runtimes, op, up, faults, crashes, stuck>>

\* Only the last association on an address writes the table.
CloseRelay(i) ==
  /\ assocs[i].stage = "ended"
  /\ LET a == assocs[i].address
     IN \/ /\ scopes[a] > 1
           /\ scopes' = [scopes EXCEPT ![a] = @ - 1]
           /\ UNCHANGED <<opened, table, faults, stuck>>
        \/ /\ scopes[a] = 1
           /\ Replace(opened, [scopes EXCEPT ![a] = 0])
           /\ UNCHANGED stuck
        \/ /\ scopes[a] = 1
           /\ ReplaceFails
           /\ stuck' = [stuck EXCEPT ![a] = @ + 1]
  /\ Advance(i, "closing")
  /\ UNCHANGED <<sockets, runtimes, op, up, crashes>>

\* Mutant: the reservation closes its sockets whether or not it was closed before.
CloseReservationAgain(i) ==
  /\ assocs[i].stage = "closing"
  /\ \E ok \in BOOLEAN : Release({UDP(assocs[i].address, assocs[i].port)}, ok)
  /\ assocs' = [assocs EXCEPT ![i] = NoAssociation]
  /\ UNCHANGED <<firewall, runtimes, op, up, crashes, stuck>>

\* A reservation that was closed before is not closed again.
CloseReservation(i) ==
  /\ assocs[i].stage = "closing"
  /\ IF assocs[i].held
       THEN \E ok \in BOOLEAN : Release({UDP(assocs[i].address, assocs[i].port)}, ok)
       ELSE UNCHANGED <<sockets, faults>>
  /\ assocs' = [assocs EXCEPT ![i] = NoAssociation]
  /\ UNCHANGED <<firewall, runtimes, op, up, crashes, stuck>>

Relay ==
  \E i \in Associations :
    \/ \E n \in Nodes, a \in Addresses, port \in Ports : Associate(i, n, a, port)
    \/ OpenRelay(i) \/ ControlCloses(i) \/ EndIdle(i) \/ CloseRelay(i) \/ CloseReservation(i)

-----------------------------------------------------------------------------
(***************************************************************************)
(* The process.  The kernel keeps the table of a process that dies, and    *)
(* closes its sockets.                                                     *)
(***************************************************************************)
Gone ==
  /\ up' = FALSE
  /\ reserved' = {} /\ leaked' = {}
  /\ opened' = [n \in Nodes |-> {}]
  /\ scopes' = [a \in Addresses |-> 0]
  /\ runtimes' = [n \in Nodes |-> NoRuntime]
  /\ op' = Idle
  /\ assocs' = [i \in Associations |-> NoAssociation]
  /\ stuck' = [a \in Addresses |-> 0]

Crash ==
  /\ up
  /\ crashes < MaxCrashes
  /\ crashes' = crashes + 1
  /\ Gone
  /\ UNCHANGED <<table, faults>>

\* NewFirewallCoordinator writes the table before any node is restored.
Boot ==
  /\ ~up
  /\ Replace(opened, scopes)
  /\ up' = TRUE
  /\ UNCHANGED <<sockets, runtimes, op, assocs, crashes, stuck>>

\* The service deletes the table, which fails for the same reason or does not, and leaves.
BootFails ==
  /\ ~up
  /\ MayFail("apply")
  /\ table' \in {Nothing, table}
  /\ UNCHANGED <<sockets, opened, scopes, runtimes, op, assocs, up, crashes, stuck>>

\* The nodes were shut down, which is a StopNode of each; the table is deleted and the
\* process ends.
Exit ==
  /\ up /\ op = Idle
  /\ \A n \in Nodes : runtimes[n].state # "serving"
  /\ \/ table' = Nothing /\ UNCHANGED faults
     \/ MayFail("apply") /\ UNCHANGED table
  /\ Gone
  /\ UNCHANGED crashes

Next == Operate \/ Relay \/ Crash \/ Boot \/ BootFails \/ Exit

Spec == Init /\ [][Next]_vars

-----------------------------------------------------------------------------
(***************************************************************************)
(* Properties.                                                             *)
(***************************************************************************)
Serving(n) == runtimes[n].state = "serving" /\ ~Leaving(n)

\* What the reservations of node n and of association i hold.
HeldByNode(n) ==
  UNION { IF Serving(n) THEN Endpoints(runtimes[n]) ELSE {},
          IF Busy(n) /\ op.stage \in {"open", "abandon"} THEN op.added ELSE {},
          IF Busy(n) /\ op.stage \in {"close", "release"} THEN Endpoints(op.old) ELSE {},
          IF Busy(n) /\ op.stage = "retire" THEN op.removed ELSE {} }

HeldByAssociation(i) ==
  IF Active(i) /\ assocs[i].held THEN {UDP(assocs[i].address, assocs[i].port)} ELSE {}

Relaying(i) == assocs[i].stage \in {"relaying", "ended"}

\* The allocator counts an endpoint as reserved exactly while one runtime, operation or
\* association holds it, and no two of those hold conflicting endpoints: a reservation that
\* is closed twice, early by the control connection and again at the end of the association,
\* gives up nothing that somebody else reserved meanwhile.
ReservedIsHeld ==
  /\ reserved = (UNION {HeldByNode(n) : n \in Nodes}) \cup
                (UNION {HeldByAssociation(i) : i \in Associations})
  /\ \A n, m \in Nodes : n # m => HeldByNode(n) \cap HeldByNode(m) = {}
  /\ \A i, j \in Associations : i # j => HeldByAssociation(i) \cap HeldByAssociation(j) = {}
  /\ \A e, f \in reserved : Conflict(e, f) => e = f

\* A node that serves stays reachable: at every moment of an update, a refresh or the stop of
\* the runtime it replaced, its endpoints are reserved for it and open in the kernel's table,
\* and a relay's address is open for as long as the relay lives, whatever other nodes and
\* associations open, close or fail to.
ServingIsOpen ==
  /\ \A n \in Nodes : Serving(n) => Endpoints(runtimes[n]) \subseteq reserved \cap table.nodes
  /\ \A i \in Associations : Relaying(i) => assocs[i].address \in table.relays

\* Nothing else is open: while the process runs, the kernel's table has no endpoint that is
\* not a present runtime's, and no address for relays without a relay on it, unless closing
\* that address failed; what a crash left in the table is gone when the next process is up.
\* The coordinator counts the relays on an address exactly, each failure to close included.
NothingElseIsOpen ==
  up =>
    /\ table.nodes \subseteq
         UNION {Endpoints(runtimes[n]) : n \in {m \in Nodes : runtimes[m] # NoRuntime}}
    /\ table.relays \subseteq
         {assocs[i].address : i \in {j \in Associations : Relaying(j)}} \cup
         {a \in Addresses : stuck[a] > 0}
    /\ \A a \in Addresses :
         scopes[a] = stuck[a] +
                     Cardinality({i \in Associations : Relaying(i) /\ assocs[i].address = a})

\* SOCKS5 supports UDP ASSOCIATE, and a node listens on all current addresses of its pool: so a
\* node relays datagrams on every address it listens on, and selectUDPRelayBind has a binding
\* for the local address of any connection that the runtime's listeners accept.
RelaysWhereItListens ==
  \A n \in Nodes : Serving(n) =>
    \A a \in Addresses : (a \in runtimes[n].addresses \/ Wildcard \in runtimes[n].addresses)
                            => Covers(runtimes[n], a)
=============================================================================
