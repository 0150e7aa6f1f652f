--------------------------- MODULE ListenersProofs ---------------------------
(***************************************************************************)
(* What TLAPS proves of Listeners: that the allocator counts exactly the   *)
(* endpoints that somebody holds (ReservedIsHeld), that what serves is     *)
(* open in the kernel's table (ServingIsOpen) and that nothing else is     *)
(* (NothingElseIsOpen).                                                    *)
(*                                                                         *)
(* The inductive invariant, Balanced, has four parts, each kept by every   *)
(* step: the types; Opens, what the firewall is open for and what the      *)
(* operation under way is about; Holds, a partition of the reservations;   *)
(* and Counted, the relays on each address.                                *)
(***************************************************************************)
EXTENDS Listeners, FiniteSetTheorems, TLAPS

\* The runtimes, operations and associations there are.
Built == [state : {"serving", "dead"}, addresses : Bindings, port : Ports, handler : Bindings]

Stages == {"open", "abandon", "close", "release", "wait", "retire"}

\* What the stage of an operation says about the runtime it starts and the one it stops.
Aimed(stage, new, old) ==
  /\ stage \in {"open", "abandon"} => new # NoRuntime
  /\ new # NoRuntime => new.state = "serving"
  /\ stage \in {"close", "release", "wait"} => old.state = "serving"

Work ==
  {o \in [stage : Stages, node : Nodes, new : RuntimeState, added : SUBSET Endpoint,
          old : RuntimeState, removed : SUBSET Endpoint, failed : BOOLEAN] :
     Aimed(o.stage, o.new, o.old)}

Association == [stage : {"reserved", "relaying", "ended", "closing"}, node : Nodes, old : BOOLEAN,
                address : Addresses, port : Ports, held : BOOLEAN]

\* The types; an address has at most as many stuck openings as there were failures.
Typed ==
  /\ reserved \subseteq Endpoint /\ leaked \subseteq Endpoint
  /\ opened \in [Nodes -> SUBSET Endpoint]
  /\ scopes \in [Addresses -> Nat]
  /\ table \in [nodes : SUBSET Endpoint, relays : SUBSET Addresses]
  /\ runtimes \in [Nodes -> RuntimeState]
  /\ op \in {Idle} \cup Work
  /\ assocs \in [Associations -> {NoAssociation} \cup Association]
  /\ up \in BOOLEAN
  /\ faults \in 0 .. MaxFaults
  /\ crashes \in 0 .. MaxCrashes
  /\ stuck \in [Addresses -> Nat]
  /\ \A a \in Addresses : stuck[a] <= faults

-----------------------------------------------------------------------------
\* An operation that opens starts a runtime, in the place of another or of none, or it moves the
\* listeners of the one that serves.
Opening ==
  \/ /\ op.added = Endpoints(op.new) /\ op.removed = {}
     /\ op.old = runtimes[op.node]
     /\ op.old # NoRuntime => Endpoints(op.old) # Endpoints(op.new)
  \/ /\ op.old = NoRuntime /\ runtimes[op.node].state = "serving"
     /\ op.added = Endpoints(op.new) \ Endpoints(runtimes[op.node])
     /\ op.removed = Endpoints(runtimes[op.node]) \ Endpoints(op.new)

\* An operation that closes stops the node's runtime, whose opening it has closed unless that
\* failed, or one that another, on other endpoints, has replaced.
Closing ==
  IF op.new = NoRuntime
    THEN /\ runtimes[op.node] = op.old
         /\ op.stage = "close" => opened[op.node] = Endpoints(op.old)
         /\ op.stage # "close" /\ ~op.failed => opened[op.node] = {}
    ELSE runtimes[op.node] = op.new /\ Endpoints(op.old) # Endpoints(op.new)

Purpose ==
  /\ op.stage \in {"open", "abandon"} => Opening
  /\ op.stage \in {"close", "release", "wait"} => Closing

\* Node n has nothing open but its runtime's endpoints, and all of them if it serves.
OpenFor(n) ==
  /\ opened[n] \subseteq IF runtimes[n] = NoRuntime THEN {} ELSE Endpoints(runtimes[n])
  /\ Serving(n) => opened[n] = Endpoints(runtimes[n])

\* A process that is not up has no runtime.
Down == op = Idle /\ \A n \in Nodes : runtimes[n] = NoRuntime

\* The coordinator's state is in the table while the process is up.
Opens ==
  /\ IF up THEN table = Openings(opened, scopes) ELSE Down
  /\ Purpose
  /\ \A n \in Nodes : OpenFor(n)

-----------------------------------------------------------------------------
\* What node n holds as the endpoints it serves, and what the operation under way holds.
NodeHolds(n) == IF Serving(n) THEN Endpoints(runtimes[n]) ELSE {}

OpHolds ==
  CASE op.stage \in {"open", "abandon"} -> op.added
    [] op.stage \in {"close", "release"} -> Endpoints(op.old)
    [] op.stage = "retire" -> op.removed
    [] OTHER -> {}

\* No two endpoints of S are in each other's way.
Exclusive(S) == \A e, f \in S : Conflict(e, f) => e = f

\* The reservations are a disjoint union of what nodes, operation and associations hold.
Holds ==
  /\ reserved = (UNION {NodeHolds(n) : n \in Nodes}) \cup OpHolds \cup
                (UNION {HeldByAssociation(i) : i \in Associations})
  /\ \A n \in Nodes : NodeHolds(n) \cap OpHolds = {}
  /\ \A n, m \in Nodes : n # m => NodeHolds(n) \cap NodeHolds(m) = {}
  /\ \A i, j \in Associations : i # j => HeldByAssociation(i) \cap HeldByAssociation(j) = {}
  /\ \A i \in Associations :
       /\ HeldByAssociation(i) \cap OpHolds = {}
       /\ \A n \in Nodes : HeldByAssociation(i) \cap NodeHolds(n) = {}
       /\ assocs[i].stage \in {"reserved", "relaying"} => assocs[i].held
  /\ Exclusive(reserved)

-----------------------------------------------------------------------------
\* The associations that relay on address a.
RelaysOn(a) == {i \in Associations : Relaying(i) /\ assocs[i].address = a}

\* The coordinator counts the relays and the openings that are stuck; a process that is not up has
\* no association.
Counted ==
  /\ \A a \in Addresses : scopes[a] = stuck[a] + Cardinality(RelaysOn(a))
  /\ ~up => \A i \in Associations : ~Active(i)

-----------------------------------------------------------------------------
\* A runtime that serves was built.
LEMMA Runtimes ==
  /\ NoRuntime \in RuntimeState /\ NoRuntime.state = "none"
  /\ \A r \in RuntimeState :
       /\ r # NoRuntime <=> r \in Built
       /\ r.state = "serving" => r \in Built
       /\ r # NoRuntime => r.state \in {"serving", "dead"}
  /\ \A r \in Built : r \in RuntimeState /\ r # NoRuntime
BY DEF RuntimeState, NoRuntime, Built

\* A listener on all addresses has no other beside it.
LEMMA BindingsAreAddresses ==
  \A S \in Bindings : S # {} /\ S \subseteq Addresses \cup {Wildcard} /\ (Wildcard \in S => S = {Wildcard})
BY ListenerAssumption

\* The listeners of a runtime are not in each other's way.
LEMMA EndpointsTyped ==
  /\ \A S \in Bindings, port \in Ports :
       /\ TCP(S, port) \subseteq Endpoint /\ TCP(S, port) # {} /\ Exclusive(TCP(S, port))
       /\ Runtime(S, port) \in Built /\ Runtime(S, port).state = "serving"
       /\ Endpoints(Runtime(S, port)) = TCP(S, port)
  /\ \A r \in Built : Endpoints(r) \subseteq Endpoint
  /\ \A a \in Addresses, port \in Ports : UDP(a, port) \in Endpoint
<1>1. ASSUME NEW S \in Bindings, NEW port \in Ports
      PROVE  TCP(S, port) \subseteq Endpoint /\ TCP(S, port) # {} /\ Exclusive(TCP(S, port))
  <2>1. S # {} /\ S \subseteq Addresses \cup {Wildcard} /\ (Wildcard \in S => S = {Wildcard})
    BY BindingsAreAddresses
  <2>2. TCP(S, port) \subseteq Endpoint /\ TCP(S, port) # {}
    <3>1. \A a \in S : [protocol |-> "tcp", address |-> a, port |-> port] \in Endpoint
      BY <2>1 DEF Endpoint
    <3>2. PICK a \in S : TRUE
      BY <2>1
    <3>3. [protocol |-> "tcp", address |-> a, port |-> port] \in TCP(S, port)
      BY DEF TCP
    <3>4. TCP(S, port) \subseteq Endpoint
      BY <3>1 DEF TCP
    <3> QED BY <3>3, <3>4
  <2>3. ASSUME NEW a \in S, NEW b \in S,
               Conflict([protocol |-> "tcp", address |-> a, port |-> port],
                        [protocol |-> "tcp", address |-> b, port |-> port])
        PROVE  a = b
    BY <2>1, <2>3 DEF Conflict
  <2>4. Exclusive(TCP(S, port))
    BY <2>3 DEF Exclusive, TCP
  <2> QED BY <2>2, <2>4
<1>2. ASSUME NEW S \in Bindings, NEW port \in Ports
      PROVE  Runtime(S, port) \in Built /\ Runtime(S, port).state = "serving"
             /\ Endpoints(Runtime(S, port)) = TCP(S, port)
  BY DEF Runtime, Built, Endpoints
<1>3. \A r \in Built : Endpoints(r) \subseteq Endpoint
  BY <1>1 DEF Built, Endpoints
<1>4. \A a \in Addresses, port \in Ports : UDP(a, port) \in Endpoint
  BY DEF UDP, Endpoint
<1> QED BY <1>1, <1>2, <1>3, <1>4

\* An operation has its fields and its aim.
LEMMA Works ==
  /\ Idle.stage = "idle"
  /\ \A o \in {Idle} \cup Work : (o # Idle <=> o \in Work) /\ (o # Idle <=> o.stage # "idle")
  /\ \A o \in Work :
       /\ o.stage \in Stages /\ o.node \in Nodes /\ o.new \in RuntimeState /\ o.old \in RuntimeState
       /\ o.added \subseteq Endpoint /\ o.removed \subseteq Endpoint /\ o.failed \in BOOLEAN
       /\ Aimed(o.stage, o.new, o.old)
BY DEF Idle, Work, Stages

\* An operation goes on to another stage.
LEMMA WorkMoves ==
  ASSUME NEW o \in Work
  PROVE  /\ \A s \in Stages : Aimed(s, o.new, o.old) =>
              /\ [o EXCEPT !.stage = s] \in Work
              /\ \A f \in BOOLEAN : [o EXCEPT !.stage = s, !.failed = f] \in Work
         /\ \A S \in SUBSET Endpoint : [o EXCEPT !.removed = S] \in Work
<1>1. ASSUME NEW s \in Stages, Aimed(s, o.new, o.old)
      PROVE  [o EXCEPT !.stage = s] \in Work
  BY <1>1 DEF Work
<1>2. ASSUME NEW s \in Stages, Aimed(s, o.new, o.old), NEW f \in BOOLEAN
      PROVE  [o EXCEPT !.stage = s, !.failed = f] \in Work
  BY <1>2 DEF Work
<1>3. ASSUME NEW S \in SUBSET Endpoint PROVE [o EXCEPT !.removed = S] \in Work
  BY DEF Work
<1> QED BY <1>1, <1>2, <1>3

\* An operation begins.
LEMMA OperationTyped ==
  ASSUME NEW stage \in Stages, NEW n \in Nodes, NEW new \in RuntimeState, NEW added \in SUBSET Endpoint,
         NEW old \in RuntimeState, Aimed(stage, new, old), NEW S \in SUBSET Endpoint
  PROVE  /\ Operation(stage, n, new, added, old) \in Work
         /\ [Operation(stage, n, new, added, old) EXCEPT !.removed = S] \in Work
<1>1. Operation(stage, n, new, added, old) \in Work
  BY DEF Operation, Work
<1> QED BY <1>1, WorkMoves

\* An association has its fields and keeps them from stage to stage.
LEMMA Associated ==
  /\ NoAssociation.stage = "none"
  /\ \A u \in {NoAssociation} \cup Association : u # NoAssociation <=> u \in Association
  /\ \A u \in {NoAssociation} \cup Association : u # NoAssociation <=> u.stage # "none"
  /\ \A u \in Association :
       /\ [u EXCEPT !.old = TRUE] \in Association
       /\ \A s \in {"reserved", "relaying", "ended", "closing"} :
            /\ [u EXCEPT !.stage = s] \in Association
            /\ \A h \in BOOLEAN : [u EXCEPT !.stage = s, !.held = h] \in Association
<1>1. /\ NoAssociation.stage = "none"
      /\ \A u \in {NoAssociation} \cup Association : u # NoAssociation <=> u \in Association
      /\ \A u \in {NoAssociation} \cup Association : u # NoAssociation <=> u.stage # "none"
  BY DEF NoAssociation, Association
<1>2. ASSUME NEW u \in Association PROVE [u EXCEPT !.old = TRUE] \in Association
  BY DEF Association
<1>3. ASSUME NEW u \in Association, NEW s \in {"reserved", "relaying", "ended", "closing"}
      PROVE  [u EXCEPT !.stage = s] \in Association
  BY DEF Association
<1>4. ASSUME NEW u \in Association, NEW s \in {"reserved", "relaying", "ended", "closing"}, NEW h \in BOOLEAN
      PROVE  [u EXCEPT !.stage = s, !.held = h] \in Association
  BY DEF Association
<1> QED BY <1>1, <1>2, <1>3, <1>4

-----------------------------------------------------------------------------
\* The types hold when the machine starts, and every step keeps them.
LEMMA InitTyped == Init => Typed
<1> SUFFICES ASSUME Init PROVE Typed
  OBVIOUS
<1>1. table \in [nodes : SUBSET Endpoint, relays : SUBSET Addresses]
  BY DEF Init, Nothing
<1>2. runtimes \in [Nodes -> RuntimeState]
  BY Runtimes DEF Init
<1>3. 0 \in 0 .. MaxFaults /\ 0 \in 0 .. MaxCrashes
  BY ListenerAssumption
<1>4. table \in [nodes : SUBSET Endpoint, relays : SUBSET Addresses] /\ opened \in [Nodes -> SUBSET Endpoint]
      /\ scopes \in [Addresses -> Nat] /\ stuck \in [Addresses -> Nat] /\ \A a \in Addresses : stuck[a] <= faults
  BY <1>1 DEF Init
<1> QED BY <1>2, <1>3, <1>4 DEF Init, Typed

LEMMA ReplaceTyped ==
  ASSUME Typed, NEW o \in [Nodes -> SUBSET Endpoint], NEW s \in [Addresses -> Nat], Replace(o, s)
  PROVE  /\ opened' \in [Nodes -> SUBSET Endpoint] /\ scopes' \in [Addresses -> Nat]
         /\ table' \in [nodes : SUBSET Endpoint, relays : SUBSET Addresses]
         /\ faults' = faults
BY DEF Replace, Openings

LEMMA ReleaseTyped ==
  ASSUME Typed, NEW S \in SUBSET Endpoint, NEW ok, Release(S, ok)
  PROVE  /\ reserved' \subseteq Endpoint /\ leaked' \subseteq Endpoint
         /\ faults' \in 0 .. MaxFaults /\ faults <= faults'
BY ListenerAssumption DEF Typed, Release, MayFail

LEMMA OutdatedTyped ==
  ASSUME Typed, NEW n
  PROVE  Outdated(n) \in [Associations -> {NoAssociation} \cup Association]
BY Associated DEF Typed, Outdated, Active

LEMMA OperateTyped ==
  ASSUME Typed, Operate
  PROVE  Typed'
<1> USE DEF Typed
<1>1. ASSUME NEW n \in Nodes, NEW S \in Bindings, NEW port \in Ports,
             StartNode(n, S, port) \/ UpdateNode(n, S, port)
      PROVE  Typed'
  <2>1. PICK old \in RuntimeState :
          op' = Operation("open", n, Runtime(S, port), TCP(S, port), old)
    BY <1>1, Runtimes DEF StartNode, UpdateNode
  <2>2. op' \in Work
    BY <2>1, EndpointsTyped, Runtimes, OperationTyped DEF Aimed, Stages
  <2>3. reserved' \subseteq Endpoint
    BY <1>1, EndpointsTyped DEF StartNode, UpdateNode, Reserve
  <2> QED BY <1>1, <2>2, <2>3 DEF StartNode, UpdateNode, Reserve, firewall
<1>2. ASSUME NEW n \in Nodes, NEW S \in Bindings, RefreshBindings(n, S) PROVE Typed'
  <2> DEFINE r == [runtimes[n] EXCEPT !.addresses = S]
             current == Endpoints(runtimes[n])
             desired == TCP(S, runtimes[n].port)
  <2>1. runtimes[n] \in Built /\ r \in Built /\ r.state = "serving"
    BY <1>2, Runtimes DEF RefreshBindings, Built
  <2>2. desired \subseteq Endpoint /\ current \subseteq Endpoint
    BY <2>1, EndpointsTyped DEF Built
  <2>3. op' = [Operation("open", n, r, desired \ current, NoRuntime) EXCEPT !.removed = current \ desired]
        /\ reserved' = reserved \cup (desired \ current)
    BY <1>2 DEF RefreshBindings, Reserve
  <2>4. r \in RuntimeState /\ Aimed("open", r, NoRuntime)
    BY <2>1, Runtimes DEF Aimed
  <2>5. op' \in Work
    BY <2>2, <2>3, <2>4, Runtimes, OperationTyped DEF Stages
  <2> QED BY <1>2, <2>2, <2>3, <2>5 DEF RefreshBindings, Reserve, firewall
<1>3. ASSUME NEW n \in Nodes, RebuildHandler(n) PROVE Typed'
  <2>1. [runtimes[n] EXCEPT !.handler = runtimes[n].addresses] \in Built
    BY <1>3, Runtimes DEF RebuildHandler, Built
  <2>2. runtimes' \in [Nodes -> RuntimeState]
    BY <1>3, <2>1, Runtimes DEF RebuildHandler
  <2> QED BY <1>3, <2>2 DEF RebuildHandler, sockets, firewall
<1>4. ASSUME NEW n \in Nodes, StopNode(n) PROVE Typed'
  <2>1. op' \in Work
    BY <1>4, Runtimes, OperationTyped DEF StopNode, Aimed, Stages
  <2> QED BY <1>4, <2>1, OutdatedTyped DEF StopNode, sockets, firewall
<1>5. CASE op = Idle
  BY <1>1, <1>2, <1>3, <1>4, <1>5, Works
  DEF Operate, OpenNode, OpenNodeFails, Abandon, CloseNode, CloseReservations, Stopped, Retire
<1>6. CASE op \in Work
  <2>1. op.node \in Nodes /\ op.new \in RuntimeState /\ op.old \in RuntimeState
        /\ op.added \subseteq Endpoint /\ op.removed \subseteq Endpoint /\ op.failed \in BOOLEAN
        /\ Aimed(op.stage, op.new, op.old)
    BY <1>6, Works
  <2>2. CASE OpenNode
    <3>1. op.new \in Built
      BY <2>1, <2>2, Runtimes DEF OpenNode, Aimed
    <3>2. [opened EXCEPT ![op.node] = Endpoints(op.new)] \in [Nodes -> SUBSET Endpoint]
      BY <3>1, EndpointsTyped
    <3>3. op' \in {Idle} \cup Work /\ runtimes' \in [Nodes -> RuntimeState]
      BY <1>6, <2>1, <2>2, WorkMoves DEF OpenNode, Opened, Aimed, Stages
    <3>4. assocs' \in [Associations -> {NoAssociation} \cup Association]
      BY <2>2, OutdatedTyped DEF OpenNode, Opened
    <3>5. /\ opened' \in [Nodes -> SUBSET Endpoint] /\ scopes' \in [Addresses -> Nat]
          /\ table' \in [nodes : SUBSET Endpoint, relays : SUBSET Addresses] /\ faults' = faults
      BY <2>2, <3>2, ReplaceTyped DEF OpenNode
    <3> QED BY <2>2, <3>3, <3>4, <3>5 DEF OpenNode, sockets
  <2>3. CASE OpenNodeFails
    <3>1. op' \in Work
      BY <1>6, <2>1, <2>3, WorkMoves DEF OpenNodeFails, Aimed, Stages
    <3> QED BY <2>3, <3>1, ListenerAssumption DEF OpenNodeFails, ReplaceFails, MayFail, sockets, firewall
  <2>4. CASE Abandon
    BY <2>1, <2>4, ReleaseTyped DEF Abandon, firewall
  <2>5. ASSUME NEW e \in Endpoint, Retire(e) PROVE Typed'
    <3>1. op' \in {Idle} \cup Work
      BY <1>6, <2>1, <2>5, WorkMoves DEF Retire
    <3> QED BY <2>1, <2>5, <3>1, ReleaseTyped DEF Retire, firewall
  <2>6. CASE CloseNode
    <3>1. op' \in Work
      BY <1>6, <2>1, <2>6, WorkMoves DEF CloseNode, Aimed, Stages
    <3>2. [opened EXCEPT ![op.node] = {}] \in [Nodes -> SUBSET Endpoint]
      OBVIOUS
    <3>3. CASE Replace([opened EXCEPT ![op.node] = {}], scopes)
      BY <2>6, <3>1, <3>2, <3>3, ReplaceTyped DEF CloseNode, sockets
    <3>4. CASE UNCHANGED firewall /\ (UNCHANGED faults \/ MayFail("apply"))
      BY <2>6, <3>1, <3>4, ListenerAssumption DEF CloseNode, MayFail, sockets, firewall
    <3> QED BY <2>6, <3>3, <3>4 DEF CloseNode, ReplaceFails
  <2>7. CASE CloseReservations
    <3>1. op.old \in Built
      BY <2>1, <2>7, Runtimes DEF CloseReservations, Aimed
    <3>2. op' \in Work
      BY <1>6, <2>1, <2>7, WorkMoves DEF CloseReservations, Aimed, Stages
    <3> QED BY <2>7, <3>1, <3>2, EndpointsTyped, ReleaseTyped DEF CloseReservations, firewall
  <2>8. CASE Stopped
    <3>1. op.old \in Built
      BY <2>1, <2>8, Runtimes DEF Stopped, Aimed
    <3>2. [op.old EXCEPT !.state = "dead"] \in RuntimeState
      BY <3>1, Runtimes DEF Built
    <3>3. runtimes' \in [Nodes -> RuntimeState]
      BY <2>8, <3>2, Runtimes DEF Stopped
    <3> QED BY <2>8, <3>3 DEF Stopped, sockets, firewall
  <2>9. op # Idle
    BY <1>6, Works
  <2> QED BY <2>2, <2>3, <2>4, <2>5, <2>6, <2>7, <2>8, <2>9
      DEF Operate, StartNode, UpdateNode, RefreshBindings, RebuildHandler, StopNode
<1> QED BY <1>5, <1>6

LEMMA RelayTyped ==
  ASSUME Typed, Relay
  PROVE  Typed'
<1> USE DEF Typed
<1>1. PICK i \in Associations :
        \/ \E n \in Nodes, a \in Addresses, port \in Ports : Associate(i, n, a, port)
        \/ OpenRelay(i) \/ ControlCloses(i) \/ EndIdle(i) \/ CloseRelay(i) \/ CloseReservation(i)
  BY DEF Relay
<1>2. ASSUME NEW n \in Nodes, NEW a \in Addresses, NEW port \in Ports, Associate(i, n, a, port)
      PROVE  Typed'
  <2>1. assocs' \in [Associations -> {NoAssociation} \cup Association]
    BY <1>2 DEF Associate, Association
  <2> QED BY <1>2, <2>1, EndpointsTyped DEF Associate, Reserve, firewall
<1>3. ASSUME assocs[i] \in Association
      PROVE  /\ assocs[i].address \in Addresses /\ assocs[i].port \in Ports
             /\ {UDP(assocs[i].address, assocs[i].port)} \subseteq Endpoint
  BY <1>3, EndpointsTyped DEF Association
<1>4. ASSUME NEW stage \in {"reserved", "relaying", "ended", "closing"}, Advance(i, stage),
             assocs[i] \in Association
      PROVE  assocs' \in [Associations -> {NoAssociation} \cup Association]
  BY <1>4, Associated DEF Advance
<1>5. CASE OpenRelay(i)
  <2>1. assocs[i] \in Association
    BY <1>5, Associated DEF OpenRelay
  <2> DEFINE a == assocs[i].address
  <2>2. assocs' \in [Associations -> {NoAssociation} \cup Association]
    BY <1>4, <1>5, <2>1 DEF OpenRelay
  <2>3. a \in Addresses
    BY <1>3, <2>1
  <2>4. [scopes EXCEPT ![a] = 1] \in [Addresses -> Nat] /\ [scopes EXCEPT ![a] = @ + 1] \in [Addresses -> Nat]
    BY <2>3
  <2>5. CASE Replace(opened, [scopes EXCEPT ![a] = 1])
    <3>1. /\ opened' \in [Nodes -> SUBSET Endpoint] /\ scopes' \in [Addresses -> Nat]
          /\ table' \in [nodes : SUBSET Endpoint, relays : SUBSET Addresses] /\ faults' = faults
      BY <2>4, <2>5, ReplaceTyped
    <3> QED BY <1>5, <2>2, <3>1 DEF OpenRelay, sockets
  <2>6. CASE scopes' = [scopes EXCEPT ![a] = @ + 1] /\ UNCHANGED <<opened, table, faults>>
    BY <1>5, <2>2, <2>4, <2>6 DEF OpenRelay, sockets
  <2>7. CASE UNCHANGED firewall /\ (UNCHANGED faults \/ MayFail("apply"))
    BY <1>5, <2>2, <2>7, ListenerAssumption DEF OpenRelay, MayFail, sockets, firewall
  <2> QED BY <1>5, <2>5, <2>6, <2>7 DEF OpenRelay, ReplaceFails
<1>6. CASE ControlCloses(i)
  <2>1. assocs[i] \in Association
    BY <1>6, Associated DEF ControlCloses
  <2>2. assocs' \in [Associations -> {NoAssociation} \cup Association]
    BY <1>6, <2>1, Associated DEF ControlCloses
  <2> QED BY <1>3, <1>6, <2>1, <2>2, ReleaseTyped DEF ControlCloses, firewall
<1>7. CASE EndIdle(i)
  <2>1. assocs[i] \in Association
    BY <1>7, Associated DEF EndIdle
  <2> QED BY <1>4, <1>7, <2>1 DEF EndIdle, firewall, sockets
<1>8. CASE CloseRelay(i)
  <2>1. assocs[i] \in Association
    BY <1>8, Associated DEF CloseRelay
  <2> DEFINE a == assocs[i].address
  <2>2. assocs' \in [Associations -> {NoAssociation} \cup Association]
    BY <1>4, <1>8, <2>1 DEF CloseRelay
  <2>3. a \in Addresses
    BY <1>3, <2>1
  <2>4. CASE Replace(opened, [scopes EXCEPT ![a] = 0]) /\ UNCHANGED stuck
    <3>1. [scopes EXCEPT ![a] = 0] \in [Addresses -> Nat]
      OBVIOUS
    <3>2. /\ opened' \in [Nodes -> SUBSET Endpoint] /\ scopes' \in [Addresses -> Nat]
          /\ table' \in [nodes : SUBSET Endpoint, relays : SUBSET Addresses] /\ faults' = faults
      BY <2>4, <3>1, ReplaceTyped
    <3> QED BY <1>8, <2>2, <2>4, <3>2 DEF CloseRelay, sockets
  <2>5. CASE scopes[a] > 1 /\ scopes' = [scopes EXCEPT ![a] = @ - 1] /\ UNCHANGED <<opened, table, faults, stuck>>
    <3>1. scopes[a] - 1 \in Nat
      BY <2>3, <2>5
    <3>2. scopes' \in [Addresses -> Nat]
      BY <2>5, <3>1
    <3> QED BY <1>8, <2>2, <2>5, <3>2 DEF CloseRelay, sockets
  <2>6. CASE UNCHANGED firewall /\ MayFail("apply") /\ stuck' = [stuck EXCEPT ![a] = @ + 1]
    <3>1. stuck[a] + 1 \in Nat /\ stuck[a] <= faults /\ faults' = faults + 1 /\ faults' \in 0 .. MaxFaults
      BY <2>3, <2>6, ListenerAssumption DEF MayFail
    <3>2. stuck' \in [Addresses -> Nat] /\ \A b \in Addresses : stuck'[b] <= faults'
      BY <2>3, <2>6, <3>1
    <3> QED BY <1>8, <2>2, <2>6, <3>1, <3>2 DEF CloseRelay, sockets, firewall
  <2> QED BY <1>8, <2>4, <2>5, <2>6 DEF CloseRelay, ReplaceFails
<1>9. CASE CloseReservation(i)
  <2>1. assocs[i] \in Association
    BY <1>9, Associated DEF CloseReservation
  <2>2. assocs' \in [Associations -> {NoAssociation} \cup Association]
    BY <1>9 DEF CloseReservation
  <2>3. CASE UNCHANGED <<sockets, faults>>
    BY <1>9, <2>2, <2>3 DEF CloseReservation, sockets, firewall
  <2>4. ASSUME NEW ok \in BOOLEAN, Release({UDP(assocs[i].address, assocs[i].port)}, ok) PROVE Typed'
    <3>1. /\ reserved' \subseteq Endpoint /\ leaked' \subseteq Endpoint
          /\ faults' \in 0 .. MaxFaults /\ faults <= faults'
      BY <1>3, <2>1, <2>4, ReleaseTyped
    <3> QED BY <1>9, <2>2, <3>1 DEF CloseReservation, firewall
  <2> QED BY <1>9, <2>3, <2>4 DEF CloseReservation
<1> QED BY <1>1, <1>2, <1>5, <1>6, <1>7, <1>8, <1>9

LEMMA ProcessTyped ==
  ASSUME Typed, Crash \/ Boot \/ BootFails \/ Exit \/ UNCHANGED vars
  PROVE  Typed'
<1> USE DEF Typed
<1>1. Nothing \in [nodes : SUBSET Endpoint, relays : SUBSET Addresses]
  BY DEF Nothing
<1>2. CASE Gone /\ crashes' \in 0 .. MaxCrashes /\ faults' \in 0 .. MaxFaults /\ table' \in {Nothing, table}
  <2>1. table' \in [nodes : SUBSET Endpoint, relays : SUBSET Addresses]
    BY <1>1, <1>2
  <2>2. runtimes' \in [Nodes -> RuntimeState] /\ opened' \in [Nodes -> SUBSET Endpoint]
    BY <1>2, Runtimes DEF Gone
  <2>3. scopes' \in [Addresses -> Nat] /\ stuck' \in [Addresses -> Nat] /\ \A a \in Addresses : stuck'[a] <= faults'
    BY <1>2, ListenerAssumption DEF Gone
  <2> QED BY <1>2, <2>1, <2>2, <2>3 DEF Gone
<1>3. CASE Crash
  BY <1>2, <1>3, ListenerAssumption DEF Crash
<1>4. CASE Boot
  BY <1>4, ReplaceTyped DEF Boot, sockets
<1>5. CASE BootFails
  BY <1>1, <1>5, ListenerAssumption DEF BootFails, MayFail, sockets
<1>6. CASE Exit
  BY <1>2, <1>6, ListenerAssumption DEF Exit, MayFail
<1>7. CASE UNCHANGED vars
  BY <1>7 DEF vars
<1> QED BY <1>3, <1>4, <1>5, <1>6, <1>7

LEMMA StepTyped ==
  ASSUME Typed, [Next]_vars
  PROVE  Typed'
BY OperateTyped, RelayTyped, ProcessTyped DEF Next

-----------------------------------------------------------------------------
\* Nothing is open, and no node runs, before the process is up.
LEMMA InitOpens == Init => Opens
BY Works, Runtimes DEF Init, Opens, Down, Purpose, OpenFor, Serving

\* Where there is an operation or a runtime, the process is up.
LEMMA OpensMeansUp ==
  ASSUME Typed, Opens, op # Idle \/ \E n \in Nodes : runtimes[n] # NoRuntime
  PROVE  up
BY DEF Opens, Down

\* A node whose runtime and opening do not change stays open.
LEMMA StaysOpen ==
  ASSUME NEW n \in Nodes, OpenFor(n), runtimes'[n] = runtimes[n], opened'[n] = opened[n],
         Serving(n)' => Serving(n)
  PROVE  OpenFor(n)'
BY DEF OpenFor

\* An operation begins: nothing is opened or closed yet, and it knows the node's runtime.
LEMMA IdleOpens ==
  ASSUME Typed, Opens, op = Idle, Operate
  PROVE  Opens'
<1>1. \A n \in Nodes : Serving(n) <=> runtimes[n].state = "serving"
  BY Works DEF Serving, Leaving, Stopping, Busy
<1>2. runtimes \in [Nodes -> RuntimeState]
  BY DEF Typed
<1>3. ASSUME NEW n \in Nodes, NEW S \in Bindings, NEW port \in Ports,
             StartNode(n, S, port) \/ UpdateNode(n, S, port)
      PROVE  Opens'
  <2>1. op' = Operation("open", n, Runtime(S, port), TCP(S, port), runtimes[n])
    BY <1>3 DEF StartNode, UpdateNode
  <2>2. up /\ UNCHANGED <<firewall, runtimes, up>>
    BY <1>3 DEF StartNode, UpdateNode
  <2>3. /\ op'.stage = "open" /\ op'.node = n /\ op'.new = Runtime(S, port) /\ op'.old = runtimes[n]
        /\ op'.added = TCP(S, port) /\ op'.removed = {}
    BY <2>1 DEF Operation
  <2>4. runtimes[n] # NoRuntime => Endpoints(runtimes[n]) # TCP(S, port)
    BY <1>3 DEF StartNode, UpdateNode
  <2>5. Opening'
    BY <2>2, <2>3, <2>4, EndpointsTyped DEF Opening
  <2>6. \A m \in Nodes : Serving(m)' <=> Serving(m)
    BY <1>1, <2>2, <2>3 DEF Serving, Leaving, Stopping
  <2> QED BY <2>2, <2>3, <2>5, <2>6, StaysOpen DEF Opens, Purpose, firewall
<1>4. ASSUME NEW n \in Nodes, NEW S \in Bindings, RefreshBindings(n, S) PROVE Opens'
  <2> DEFINE r == [runtimes[n] EXCEPT !.addresses = S]
             current == Endpoints(runtimes[n])
             desired == TCP(S, runtimes[n].port)
  <2>1. runtimes[n] \in Built
    BY <1>2, <1>4, Runtimes DEF RefreshBindings
  <2>2. Endpoints(r) = desired
    BY <2>1 DEF Built, Endpoints
  <2>3. op' = [Operation("open", n, r, desired \ current, NoRuntime) EXCEPT !.removed = current \ desired]
    BY <1>4 DEF RefreshBindings
  <2>4. /\ op'.stage = "open" /\ op'.node = n /\ op'.new = r /\ op'.old = NoRuntime
        /\ op'.added = desired \ current /\ op'.removed = current \ desired
    BY <2>3 DEF Operation
  <2>5. up /\ runtimes[n].state = "serving" /\ UNCHANGED <<firewall, runtimes, up>>
    BY <1>4 DEF RefreshBindings
  <2>6. Opening'
    BY <2>2, <2>4, <2>5 DEF Opening
  <2>7. \A m \in Nodes : Serving(m)' <=> Serving(m)
    BY <1>1, <2>4, <2>5 DEF Serving, Leaving, Stopping
  <2> QED BY <2>4, <2>5, <2>6, <2>7, StaysOpen DEF Opens, Purpose, firewall
<1>5. ASSUME NEW n \in Nodes, RebuildHandler(n) PROVE Opens'
  <2> DEFINE r == [runtimes[n] EXCEPT !.handler = runtimes[n].addresses]
  <2>1. runtimes[n] \in Built
    BY <1>2, <1>5, Runtimes DEF RebuildHandler
  <2>2. r \in Built /\ r.state = "serving" /\ Endpoints(r) = Endpoints(runtimes[n])
    BY <1>5, <2>1 DEF RebuildHandler, Built, Endpoints
  <2>3. up /\ runtimes' = [runtimes EXCEPT ![n] = r] /\ UNCHANGED <<firewall, op, up>>
    BY <1>5 DEF RebuildHandler
  <2>4. OpenFor(n)'
    BY <1>1, <1>2, <1>5, <2>2, <2>3, Runtimes DEF RebuildHandler, Opens, OpenFor, firewall
  <2>5. \A m \in Nodes : m # n => runtimes'[m] = runtimes[m] /\ (Serving(m)' => Serving(m))
    BY <1>1, <2>3 DEF Serving
  <2>6. \A m \in Nodes : OpenFor(m)'
    BY <2>3, <2>4, <2>5, StaysOpen DEF Opens, firewall
  <2> QED BY <2>3, <2>6, Works DEF Opens, Purpose, firewall
<1>6. ASSUME NEW n \in Nodes, StopNode(n) PROVE Opens'
  <2>1. op' = Operation("close", n, NoRuntime, {}, runtimes[n]) /\ UNCHANGED <<firewall, runtimes, up>>
        /\ runtimes[n].state = "serving"
    BY <1>6 DEF StopNode
  <2>2. /\ op'.stage = "close" /\ op'.node = n /\ op'.new = NoRuntime /\ op'.old = runtimes[n]
    BY <2>1 DEF Operation
  <2>3. up
    BY <2>1, Runtimes, OpensMeansUp
  <2>4. Closing'
    BY <1>1, <2>1, <2>2 DEF Closing, Opens, OpenFor, firewall
  <2>5. \A m \in Nodes : Serving(m)' => Serving(m)
    BY <1>1, <2>1 DEF Serving
  <2> QED BY <2>1, <2>2, <2>3, <2>4, <2>5, StaysOpen DEF Opens, Purpose, firewall
<1> QED BY <1>3, <1>4, <1>5, <1>6, Works
    DEF Operate, OpenNode, OpenNodeFails, Abandon, CloseNode, CloseReservations, Stopped, Retire

\* An operation goes on: the node's opening is replaced before the runtime is, and closed while it
\* is still the old runtime's.
LEMMA WorkOpens ==
  ASSUME Typed, Opens, op \in Work, Operate
  PROVE  Opens'
<1>0. PICK k \in Nodes : k = op.node
  BY Works
<1>1. op.node \in Nodes /\ op.new \in RuntimeState /\ op.old \in RuntimeState
      /\ Aimed(op.stage, op.new, op.old) /\ op # Idle /\ op.stage # "idle"
  BY Works
<1>2. runtimes \in [Nodes -> RuntimeState] /\ opened \in [Nodes -> SUBSET Endpoint]
  BY DEF Typed
<1>3. up /\ table = Openings(opened, scopes)
  BY <1>0, <1>1, OpensMeansUp DEF Opens
<1>4. Idle.stage = "idle" /\ Purpose /\ \A n \in Nodes : OpenFor(n)
  BY Works DEF Opens
<1>5. ASSUME UNCHANGED <<firewall, runtimes, up>>, Purpose', \A n \in Nodes : Serving(n)' => Serving(n)
      PROVE  Opens'
  BY <1>3, <1>4, <1>5, StaysOpen DEF Opens, firewall
<1>6. CASE OpenNode
  <2>1. op.stage = "open" /\ op.new \in Built /\ op.new.state = "serving" /\ op.new # NoRuntime
    BY <1>0, <1>1, <1>6, Runtimes DEF OpenNode, Aimed
  <2>2. opened' = [opened EXCEPT ![op.node] = Endpoints(op.new)] /\ table' = Openings(opened', scopes')
        /\ runtimes' = [runtimes EXCEPT ![op.node] = op.new] /\ UNCHANGED up
    BY <1>6 DEF OpenNode, Replace, Opened
  <2>3. \/ op' = [op EXCEPT !.stage = "retire"]
        \/ op' = [op EXCEPT !.stage = "close"] /\ op.old.state = "serving" /\ op.removed = {}
        \/ op' = Idle
    BY <1>6 DEF OpenNode, Opened
  <2>4. op' = Idle \/ (op'.node = op.node /\ op'.new = op.new /\ op'.old = op.old /\ op'.stage \in {"retire", "close"})
    BY <2>3 DEF Work
  <2>5. Opening
    BY <1>4, <2>1 DEF Purpose
  <2>6. Purpose'
    <3>1. CASE op' = Idle
      BY <1>4, <3>1 DEF Purpose
    <3>2. CASE op' = [op EXCEPT !.stage = "retire"]
      <4>1. op'.stage = "retire"
        BY <3>2 DEF Work
      <4> QED BY <4>1 DEF Purpose
    <3>3. CASE op' = [op EXCEPT !.stage = "close"] /\ op.old.state = "serving" /\ op.removed = {}
      <4>1. op'.stage = "close" /\ op'.node = op.node /\ op'.new = op.new /\ op'.old = op.old
        BY <3>3 DEF Work
      <4>2. op.old # NoRuntime
        BY <3>3, Runtimes
      <4>3. Closing'
        BY <1>0, <1>1, <1>2, <2>1, <2>2, <2>5, <4>1, <4>2 DEF Closing, Opening
      <4> QED BY <4>1, <4>3 DEF Purpose
    <3> QED BY <2>3, <3>1, <3>2, <3>3
  <2>7. OpenFor(k)'
    <3>1. opened'[k] = Endpoints(op.new) /\ runtimes'[k] = op.new
      BY <1>0, <1>1, <1>2, <2>2
    <3> QED BY <2>1, <3>1 DEF OpenFor
  <2>8. ASSUME NEW n \in Nodes, n # k PROVE OpenFor(n)'
    <3>1. runtimes'[n] = runtimes[n] /\ opened'[n] = opened[n]
      BY <1>0, <1>2, <2>2, <2>8
    <3>2. Serving(n)' => Serving(n)
      BY <2>1, <3>1 DEF Serving, Leaving, Stopping
    <3> QED BY <1>4, <3>1, <3>2, StaysOpen
  <2> QED BY <1>3, <2>2, <2>6, <2>7, <2>8 DEF Opens
<1>7. CASE OpenNodeFails
  <2>1. op.stage = "open" /\ op' = [op EXCEPT !.stage = "abandon"] /\ UNCHANGED <<firewall, runtimes, up>>
    BY <1>7 DEF OpenNodeFails, ReplaceFails
  <2>2. op'.stage = "abandon" /\ op'.node = op.node /\ op'.new = op.new /\ op'.old = op.old
        /\ op'.added = op.added /\ op'.removed = op.removed
    BY <2>1 DEF Work
  <2>3. Purpose'
    BY <1>4, <2>1, <2>2 DEF Purpose, Opening
  <2> QED BY <1>5, <2>1, <2>2, <2>3 DEF Serving, Leaving, Stopping
<1>8. CASE Abandon
  BY <1>4, <1>5, <1>8 DEF Abandon, Purpose, Serving, Leaving, Stopping
<1>9. ASSUME NEW e \in Endpoint, Retire(e) PROVE Opens'
  <2>1. op.stage = "retire" /\ (op' = Idle \/ op' = [op EXCEPT !.removed = @ \ {e}])
        /\ UNCHANGED <<firewall, runtimes, up>>
    BY <1>9 DEF Retire
  <2>2. op'.stage \in {"idle", "retire"}
    BY <1>4, <2>1 DEF Work
  <2> QED BY <1>5, <2>1, <2>2 DEF Purpose, Serving, Leaving, Stopping
<1>10. CASE CloseNode
  <2>1. op.stage = "close" /\ op.old.state = "serving" /\ op.old \in Built /\ Closing
    BY <1>0, <1>1, <1>4, <1>10, Runtimes DEF CloseNode, Aimed, Purpose
  <2>2. UNCHANGED <<runtimes, up>> /\ op' \in {[op EXCEPT !.stage = "release"], [op EXCEPT !.stage = "release", !.failed = TRUE]}
    BY <1>10 DEF CloseNode
  <2>3. op'.stage = "release" /\ op'.node = op.node /\ op'.new = op.new /\ op'.old = op.old
    BY <2>2 DEF Work
  <2>4. \A n \in Nodes : Serving(n)' <=> Serving(n)
    BY <2>1, <2>2, <2>3 DEF Serving, Leaving, Stopping, Busy
  <2>5. CASE op.new = NoRuntime /\ Replace([opened EXCEPT ![op.node] = {}], scopes)
    <3>1. opened' = [opened EXCEPT ![op.node] = {}] /\ table' = Openings(opened', scopes')
      BY <2>5 DEF Replace
    <3>2. Purpose'
      BY <1>0, <1>1, <1>2, <2>1, <2>2, <2>3, <2>5, <3>1 DEF Purpose, Closing
    <3>3. ~Serving(op.node)
      BY <1>0, <1>1, <2>1, <2>5 DEF Serving, Leaving, Stopping, Busy
    <3>4. opened'[k] = {}
      BY <1>0, <1>1, <1>2, <3>1
    <3>5. OpenFor(k)'
      BY <1>0, <1>1, <2>4, <3>3, <3>4 DEF OpenFor
    <3>6. \A n \in Nodes : n # k => OpenFor(n)'
      BY <1>0, <1>2, <1>4, <2>2, <2>4, <3>1, StaysOpen
    <3> QED BY <1>3, <2>2, <3>1, <3>2, <3>5, <3>6 DEF Opens
  <2>6. CASE op.new = NoRuntime /\ UNCHANGED firewall /\ op' = [op EXCEPT !.stage = "release", !.failed = TRUE]
    <3>1. op'.failed
      BY <2>6 DEF Work
    <3>2. Purpose'
      BY <1>0, <1>1, <1>2, <2>1, <2>2, <2>3, <2>6, <3>1 DEF Purpose, Closing, firewall
    <3> QED BY <1>5, <2>2, <2>4, <2>6, <3>2
  <2>7. CASE op.new # NoRuntime
    <3>1. runtimes[op.node] = op.new /\ Endpoints(op.old) # Endpoints(op.new) /\ Serving(op.node)
      BY <1>0, <1>1, <2>1, <2>7 DEF Closing, Serving, Leaving, Aimed
    <3>2. opened[op.node] # Endpoints(op.old)
      BY <1>0, <1>1, <1>4, <3>1 DEF OpenFor
    <3>3. UNCHANGED firewall
      BY <1>10, <3>2 DEF CloseNode
    <3>4. Purpose'
      BY <1>0, <1>1, <1>2, <2>1, <2>2, <2>3, <2>7, <3>1, <3>3 DEF Purpose, Closing, firewall
    <3> QED BY <1>5, <2>2, <2>4, <3>3, <3>4
  <2>8. op.new = NoRuntime => opened[op.node] = Endpoints(op.old)
    BY <2>1 DEF Closing
  <2> QED BY <1>10, <2>5, <2>6, <2>7, <2>8 DEF CloseNode, ReplaceFails
<1>11. CASE CloseReservations
  <2>1. op.stage = "release" /\ Closing
    BY <1>4, <1>11 DEF CloseReservations, Purpose
  <2>2. PICK ok \in BOOLEAN : op' = [op EXCEPT !.stage = "wait", !.failed = @ \/ ~ok]
    BY <1>11 DEF CloseReservations
  <2>3. op'.stage = "wait" /\ op'.node = op.node /\ op'.new = op.new /\ op'.old = op.old
        /\ op'.failed = (op.failed \/ ~ok)
    BY <2>2 DEF Work
  <2>4. UNCHANGED <<firewall, runtimes, up>>
    BY <1>11 DEF CloseReservations
  <2>5. Purpose'
    BY <2>1, <2>3, <2>4 DEF Purpose, Closing, firewall
  <2>6. \A n \in Nodes : Serving(n)' <=> Serving(n)
    BY <2>1, <2>3, <2>4 DEF Serving, Leaving, Stopping, Busy
  <2> QED BY <1>5, <2>4, <2>5, <2>6
<1>12. CASE Stopped
  <2>1. op.stage = "wait" /\ op' = Idle /\ Closing /\ UNCHANGED <<firewall, up>>
    BY <1>4, <1>12 DEF Stopped, Purpose
  <2>2. Purpose'
    BY <1>4, <2>1 DEF Purpose
  <2>3. op.old \in Built
    BY <1>0, <1>1, <2>1, Runtimes DEF Aimed
  <2>4. CASE op.new # NoRuntime
    <3>1. UNCHANGED runtimes /\ Serving(op.node)
      BY <1>0, <1>1, <1>12, <2>1, <2>4 DEF Stopped, Closing, Serving, Leaving, Aimed
    <3>2. \A n \in Nodes : Serving(n)' => Serving(n)
      BY <2>4, <3>1 DEF Serving, Leaving
    <3> QED BY <1>5, <2>1, <2>2, <3>1, <3>2
  <2>5. CASE op.new = NoRuntime
    <3> DEFINE dead == [op.old EXCEPT !.state = "dead"]
    <3>1. runtimes' = [runtimes EXCEPT ![op.node] = IF op.failed THEN dead ELSE NoRuntime]
      BY <1>12, <2>5 DEF Stopped
    <3>2. dead \in Built /\ dead.state = "dead" /\ Endpoints(dead) = Endpoints(op.old)
      BY <2>3 DEF Built, Endpoints
    <3>3. opened[op.node] \subseteq Endpoints(op.old) /\ (~op.failed => opened[op.node] = {})
      BY <1>0, <1>1, <1>4, <2>1, <2>3, <2>5, Runtimes DEF Closing, OpenFor
    <3>4. runtimes'[k] = IF op.failed THEN dead ELSE NoRuntime
      BY <1>0, <1>1, <1>2, <3>1
    <3>5. OpenFor(k)'
      BY <1>0, <2>1, <3>2, <3>3, <3>4, Runtimes DEF OpenFor, Serving, firewall
    <3>6. ASSUME NEW n \in Nodes, n # k PROVE OpenFor(n)'
      <4>1. runtimes'[n] = runtimes[n] /\ opened'[n] = opened[n]
        BY <1>0, <1>2, <2>1, <3>1, <3>6 DEF firewall
      <4>2. Serving(n)' => Serving(n)
        BY <1>0, <3>6, <4>1 DEF Serving, Leaving, Stopping, Busy
      <4> QED BY <1>4, <4>1, <4>2, StaysOpen
    <3> QED BY <1>3, <2>1, <2>2, <3>5, <3>6 DEF Opens, firewall
  <2> QED BY <2>4, <2>5
<1> QED BY <1>0, <1>1, <1>6, <1>7, <1>8, <1>9, <1>10, <1>11, <1>12
    DEF Operate, StartNode, UpdateNode, RefreshBindings, RebuildHandler, StopNode

\* Associations do not touch the nodes' part of the firewall.
LEMMA RelayOpens ==
  ASSUME Typed, Opens, Relay
  PROVE  Opens'
<1>1. PICK i \in Associations :
        \/ \E n \in Nodes, a \in Addresses, port \in Ports : Associate(i, n, a, port)
        \/ OpenRelay(i) \/ ControlCloses(i) \/ EndIdle(i) \/ CloseRelay(i) \/ CloseReservation(i)
  BY DEF Relay
<1>2. UNCHANGED <<opened, runtimes, op, up>>
  BY <1>1 DEF Associate, OpenRelay, ControlCloses, EndIdle, CloseRelay, CloseReservation, Replace, ReplaceFails,
     firewall
<1>3. Purpose' /\ \A n \in Nodes : OpenFor(n)'
  BY <1>2 DEF Opens, Purpose, Opening, Closing, OpenFor, Serving, Leaving, Stopping, Busy
<1>4. ASSUME UNCHANGED <<opened, table>>, \A a \in Addresses : scopes'[a] > 0 <=> scopes[a] > 0
      PROVE  up => table' = Openings(opened', scopes')
  <2>1. {a \in Addresses : scopes'[a] > 0} = {a \in Addresses : scopes[a] > 0}
    BY <1>4
  <2> QED BY <1>4, <2>1 DEF Opens, Openings
<1>5. CASE OpenRelay(i)
  <2> DEFINE a == assocs[i].address
  <2>1. CASE scopes[a] > 0 /\ scopes' = [scopes EXCEPT ![a] = @ + 1] /\ UNCHANGED <<opened, table>>
    <3>1. \A b \in Addresses : scopes'[b] > 0 <=> scopes[b] > 0
      BY <2>1 DEF Typed
    <3> QED BY <1>2, <1>3, <1>4, <2>1, <3>1 DEF Opens, Down
  <2>2. CASE Replace(opened, [scopes EXCEPT ![a] = 1]) \/ UNCHANGED firewall
    BY <1>2, <1>3, <2>2 DEF Opens, Down, Replace, firewall
  <2> QED BY <1>5, <2>1, <2>2 DEF OpenRelay, ReplaceFails
<1>6. CASE CloseRelay(i)
  <2> DEFINE a == assocs[i].address
  <2>1. CASE scopes[a] > 1 /\ scopes' = [scopes EXCEPT ![a] = @ - 1] /\ UNCHANGED <<opened, table>>
    <3>1. \A b \in Addresses : scopes'[b] > 0 <=> scopes[b] > 0
      BY <2>1 DEF Typed
    <3> QED BY <1>2, <1>3, <1>4, <2>1, <3>1 DEF Opens, Down
  <2>2. CASE Replace(opened, [scopes EXCEPT ![a] = 0]) \/ UNCHANGED firewall
    BY <1>2, <1>3, <2>2 DEF Opens, Down, Replace, firewall
  <2> QED BY <1>6, <2>1, <2>2 DEF CloseRelay, ReplaceFails
<1>7. CASE UNCHANGED firewall
  BY <1>2, <1>3, <1>7 DEF Opens, Down, firewall
<1> QED BY <1>1, <1>5, <1>6, <1>7 DEF Associate, ControlCloses, EndIdle, CloseReservation

\* The table of the process before is overwritten when the next one is up.
LEMMA ProcessOpens ==
  ASSUME Typed, Opens, Crash \/ Boot \/ BootFails \/ Exit \/ UNCHANGED vars
  PROVE  Opens'
<1>1. CASE Crash \/ Exit
  BY <1>1, Works, Runtimes DEF Crash, Exit, Gone, Opens, Down, Purpose, OpenFor, Serving
<1>2. CASE Boot
  BY <1>2 DEF Boot, Replace, Opens, Purpose, Opening, Closing, OpenFor, Serving, Leaving, Stopping, Busy
<1>3. CASE BootFails
  BY <1>3 DEF BootFails, Opens, Down, Purpose, Opening, Closing, OpenFor, Serving, Leaving, Stopping, Busy
<1>4. CASE UNCHANGED vars
  BY <1>4 DEF vars, Opens, Down, Purpose, Opening, Closing, OpenFor, Serving, Leaving, Stopping, Busy
<1> QED BY <1>1, <1>2, <1>3, <1>4

\* Every step keeps Opens.
LEMMA StepOpens ==
  ASSUME Typed, Opens, [Next]_vars
  PROVE  Opens'
<1>1. op = Idle \/ op \in Work
  BY DEF Typed
<1> QED BY <1>1, IdleOpens, WorkOpens, RelayOpens, ProcessOpens DEF Next

-----------------------------------------------------------------------------
\* What is reserved was free.
LEMMA Reserving ==
  ASSUME Exclusive(reserved), NEW S, Exclusive(S), Reserve(S)
  PROVE  S \cap reserved = {} /\ Exclusive(reserved')
<1>1. \A e : Conflict(e, e)
  BY DEF Conflict
<1>2. \A e, f : Conflict(e, f) <=> Conflict(f, e)
  BY DEF Conflict
<1>3. \A e \in S, f \in reserved : ~Conflict(e, f)
  BY DEF Reserve, Available
<1>4. reserved' = reserved \cup S
  BY DEF Reserve
<1> QED BY <1>1, <1>2, <1>3, <1>4 DEF Exclusive

\* A step of node n's operation moves endpoints between the two, adds fresh ones or gives up some.
LEMMA NodeShift ==
  ASSUME Holds, NEW n \in Nodes, NEW fresh, fresh \cap reserved = {},
         \A m \in Nodes : m # n => NodeHolds(m)' = NodeHolds(m),
         \A i \in Associations :
           /\ HeldByAssociation(i)' = HeldByAssociation(i)
           /\ assocs'[i].stage = assocs[i].stage
           /\ assocs[i].stage \in {"reserved", "relaying"} => assocs'[i].held = assocs[i].held,
         NodeHolds(n)' \cap OpHolds' = {},
         NodeHolds(n)' \cup OpHolds' \subseteq NodeHolds(n) \cup OpHolds \cup fresh,
         reserved' = (reserved \ (NodeHolds(n) \cup OpHolds)) \cup (NodeHolds(n)' \cup OpHolds'),
         Exclusive(reserved')
  PROVE  Holds'
<1>1. \A m \in Nodes : NodeHolds(m) \subseteq reserved
  BY DEF Holds
<1>2. OpHolds \subseteq reserved /\ \A i \in Associations : HeldByAssociation(i) \subseteq reserved
  BY DEF Holds
<1>3. \A m \in Nodes : m # n => NodeHolds(m) \cap (NodeHolds(n)' \cup OpHolds') = {}
  BY <1>1 DEF Holds
<1>4. \A i \in Associations : HeldByAssociation(i) \cap (NodeHolds(n)' \cup OpHolds') = {}
  BY <1>2 DEF Holds
<1>5. ASSUME NEW e \in reserved'
      PROVE  \/ \E m \in Nodes : e \in NodeHolds(m)'
             \/ e \in OpHolds' \/ \E i \in Associations : e \in HeldByAssociation(i)'
  BY <1>5 DEF Holds
<1>6. /\ \A m \in Nodes : NodeHolds(m)' \subseteq reserved'
      /\ \A i \in Associations : HeldByAssociation(i)' \subseteq reserved'
      /\ OpHolds' \subseteq reserved'
  BY <1>1, <1>2 DEF Holds
<1>7. reserved' = (UNION {NodeHolds(m)' : m \in Nodes}) \cup OpHolds' \cup
                  (UNION {HeldByAssociation(i)' : i \in Associations})
  BY <1>5, <1>6
<1>8. \A m, p \in Nodes : m # p => NodeHolds(m)' \cap NodeHolds(p)' = {}
  BY <1>3 DEF Holds
<1>9. \A m \in Nodes : NodeHolds(m)' \cap OpHolds' = {}
  BY <1>3
<1>10. \A i, j \in Associations : i # j => HeldByAssociation(i)' \cap HeldByAssociation(j)' = {}
  BY DEF Holds
<1>11. \A i \in Associations :
         /\ HeldByAssociation(i)' \cap OpHolds' = {}
         /\ \A m \in Nodes : HeldByAssociation(i)' \cap NodeHolds(m)' = {}
         /\ assocs'[i].stage \in {"reserved", "relaying"} => assocs'[i].held
  BY <1>4 DEF Holds
<1> QED BY <1>7, <1>8, <1>9, <1>10, <1>11 DEF Holds

\* A step of association i adds a fresh endpoint or gives up its own.
LEMMA AssociationShift ==
  ASSUME Holds, NEW i \in Associations, NEW fresh, fresh \cap reserved = {},
         \A j \in Associations : j # i => assocs'[j] = assocs[j],
         assocs'[i].stage \in {"reserved", "relaying"} => assocs'[i].held,
         \A n \in Nodes : NodeHolds(n)' = NodeHolds(n), OpHolds' = OpHolds,
         HeldByAssociation(i)' \subseteq HeldByAssociation(i) \cup fresh,
         reserved' = (reserved \ HeldByAssociation(i)) \cup HeldByAssociation(i)',
         Exclusive(reserved')
  PROVE  Holds'
<1>1. \A j \in Associations : j # i => HeldByAssociation(j)' = HeldByAssociation(j)
  BY DEF HeldByAssociation, Active
<1>2. /\ \A n \in Nodes : NodeHolds(n) \subseteq reserved
      /\ OpHolds \subseteq reserved /\ \A j \in Associations : HeldByAssociation(j) \subseteq reserved
  BY DEF Holds
<1>3. /\ \A j \in Associations : j # i => HeldByAssociation(j) \cap HeldByAssociation(i)' = {}
      /\ \A n \in Nodes : NodeHolds(n) \cap HeldByAssociation(i)' = {}
      /\ OpHolds \cap HeldByAssociation(i)' = {}
  BY <1>2 DEF Holds
<1>4. ASSUME NEW e \in reserved'
      PROVE  \/ \E n \in Nodes : e \in NodeHolds(n)'
             \/ e \in OpHolds' \/ \E j \in Associations : e \in HeldByAssociation(j)'
  BY <1>1, <1>4 DEF Holds
<1>5. /\ \A n \in Nodes : NodeHolds(n)' \subseteq reserved'
      /\ OpHolds' \subseteq reserved' /\ \A j \in Associations : HeldByAssociation(j)' \subseteq reserved'
  BY <1>1, <1>2 DEF Holds
<1>6. reserved' = (UNION {NodeHolds(n)' : n \in Nodes}) \cup OpHolds' \cup
                  (UNION {HeldByAssociation(j)' : j \in Associations})
  BY <1>4, <1>5
<1>7. \A j, k \in Associations : j # k => HeldByAssociation(j)' \cap HeldByAssociation(k)' = {}
  BY <1>1, <1>3 DEF Holds
<1>8. \A j \in Associations :
        /\ HeldByAssociation(j)' \cap OpHolds' = {}
        /\ \A n \in Nodes : HeldByAssociation(j)' \cap NodeHolds(n)' = {}
        /\ assocs'[j].stage \in {"reserved", "relaying"} => assocs'[j].held
  BY <1>1, <1>3 DEF Holds
<1>9. (\A n \in Nodes : NodeHolds(n)' \cap OpHolds' = {}) /\
      \A n, m \in Nodes : n # m => NodeHolds(n)' \cap NodeHolds(m)' = {}
  BY DEF Holds
<1> QED BY <1>6, <1>7, <1>8, <1>9 DEF Holds

\* A step that neither reserves nor releases.
LEMMA HoldsOn ==
  ASSUME Holds, UNCHANGED <<reserved, assocs>>, OpHolds' = OpHolds, \A n \in Nodes : NodeHolds(n)' = NodeHolds(n)
  PROVE  Holds'
<1>1. \A i \in Associations : HeldByAssociation(i)' = HeldByAssociation(i)
  BY DEF HeldByAssociation, Active
<1>2. {NodeHolds(n)' : n \in Nodes} = {NodeHolds(n) : n \in Nodes}
      /\ {HeldByAssociation(i)' : i \in Associations} = {HeldByAssociation(i) : i \in Associations}
  BY <1>1
<1> QED BY <1>1, <1>2 DEF Holds

\* An association keeps its endpoint when its runtime begins to stop.
LEMMA OutdatedHolds ==
  ASSUME Typed, NEW n, assocs' = Outdated(n) \/ UNCHANGED assocs
  PROVE  \A i \in Associations :
           /\ HeldByAssociation(i)' = HeldByAssociation(i)
           /\ assocs'[i].stage = assocs[i].stage
           /\ assocs[i].stage \in {"reserved", "relaying"} => assocs'[i].held = assocs[i].held
<1> SUFFICES ASSUME NEW i \in Associations
             PROVE  /\ HeldByAssociation(i)' = HeldByAssociation(i)
                    /\ assocs'[i].stage = assocs[i].stage
                    /\ assocs[i].stage \in {"reserved", "relaying"} => assocs'[i].held = assocs[i].held
  OBVIOUS
<1>1. CASE assocs'[i] = assocs[i]
  BY <1>1 DEF HeldByAssociation, Active
<1>2. CASE Active(i) /\ assocs'[i] = [assocs[i] EXCEPT !.old = TRUE]
  <2>1. assocs[i] \in Association
    BY <1>2, Associated DEF Active, Typed
  <2>2. assocs'[i].stage = assocs[i].stage /\ assocs'[i].held = assocs[i].held
        /\ assocs'[i].address = assocs[i].address /\ assocs'[i].port = assocs[i].port
    BY <1>2, <2>1 DEF Association
  <2> QED BY <2>2 DEF HeldByAssociation, Active
<1> QED BY <1>1, <1>2 DEF Outdated

\* Nothing is reserved at first.
LEMMA InitHolds == Init => Holds
<1> SUFFICES ASSUME Init PROVE Holds
  OBVIOUS
<1>1. (\A n \in Nodes : NodeHolds(n) = {}) /\ OpHolds = {} /\ (\A i \in Associations : HeldByAssociation(i) = {})
  BY Runtimes, Works, Associated DEF Init, NodeHolds, Serving, OpHolds, HeldByAssociation, Active
<1>2. \A i \in Associations : assocs[i].stage = "none"
  BY Associated DEF Init
<1> QED BY <1>1, <1>2 DEF Init, Holds, Exclusive

\* An operation begins: it holds what it reserved, or the listeners of the runtime it stops.
LEMMA IdleHolds ==
  ASSUME Typed, Opens, Holds, op = Idle, Operate
  PROVE  Holds'
<1>1. /\ OpHolds = {} /\ Exclusive(reserved)
      /\ \A n \in Nodes : NodeHolds(n) = IF runtimes[n].state = "serving" THEN Endpoints(runtimes[n]) ELSE {}
  BY Works DEF OpHolds, NodeHolds, Serving, Leaving, Stopping, Busy, Holds
<1>2. runtimes \in [Nodes -> RuntimeState]
  BY DEF Typed
<1>3. UNCHANGED assocs => \A i \in Associations :
         /\ HeldByAssociation(i)' = HeldByAssociation(i)
         /\ assocs'[i].stage = assocs[i].stage
         /\ assocs[i].stage \in {"reserved", "relaying"} => assocs'[i].held = assocs[i].held
  BY OutdatedHolds
<1>4. ASSUME NEW n \in Nodes, NEW S, Exclusive(S), Reserve(S), UNCHANGED <<runtimes, assocs>>,
             op'.stage = "open", op'.added = S
      PROVE  Holds'
  <2>1. S \cap reserved = {} /\ Exclusive(reserved') /\ reserved' = reserved \cup S
    BY <1>1, <1>4, Reserving DEF Reserve
  <2>2. OpHolds' = S /\ \A m \in Nodes : NodeHolds(m)' = NodeHolds(m)
    BY <1>1, <1>4 DEF OpHolds, NodeHolds, Serving, Leaving, Stopping
  <2>3. NodeHolds(n) \subseteq reserved
    BY DEF Holds
  <2> QED BY <1>1, <1>3, <1>4, <2>1, <2>2, <2>3, NodeShift
<1>5. ASSUME NEW n \in Nodes, NEW S \in Bindings, NEW port \in Ports,
             StartNode(n, S, port) \/ UpdateNode(n, S, port)
      PROVE  Holds'
  <2>1. op'.stage = "open" /\ op'.added = TCP(S, port) /\ UNCHANGED <<runtimes, assocs>> /\ Reserve(TCP(S, port))
    BY <1>5 DEF StartNode, UpdateNode, Operation
  <2> QED BY <1>4, <2>1, EndpointsTyped
<1>6. ASSUME NEW n \in Nodes, NEW S \in Bindings, RefreshBindings(n, S) PROVE Holds'
  <2> DEFINE r == [runtimes[n] EXCEPT !.addresses = S]
             current == Endpoints(runtimes[n])
             desired == TCP(S, runtimes[n].port)
  <2>1. op' = [Operation("open", n, r, desired \ current, NoRuntime) EXCEPT !.removed = current \ desired]
    BY <1>6 DEF RefreshBindings
  <2>2. op'.stage = "open" /\ op'.added = desired \ current
    BY <2>1 DEF Operation
  <2>3. UNCHANGED <<runtimes, assocs>> /\ Reserve(desired \ current)
    BY <1>6 DEF RefreshBindings
  <2>4. runtimes[n] \in Built
    BY <1>2, <1>6, Runtimes DEF RefreshBindings
  <2>5. Exclusive(desired \ current)
    BY <2>4, EndpointsTyped DEF Exclusive, Built
  <2> QED BY <1>4, <2>2, <2>3, <2>5
<1>7. ASSUME NEW n \in Nodes, RebuildHandler(n) PROVE Holds'
  <2> DEFINE r == [runtimes[n] EXCEPT !.handler = runtimes[n].addresses]
  <2>1. runtimes[n] \in Built /\ runtimes[n].state = "serving"
    BY <1>2, <1>7, Runtimes DEF RebuildHandler
  <2>2. r.state = "serving" /\ Endpoints(r) = Endpoints(runtimes[n])
    BY <2>1 DEF Built, Endpoints
  <2>3. runtimes' = [runtimes EXCEPT ![n] = r] /\ UNCHANGED <<reserved, op, assocs>>
    BY <1>7 DEF RebuildHandler, sockets
  <2>4. NodeHolds(n)' = NodeHolds(n)
    BY <1>1, <1>2, <2>1, <2>2, <2>3, Works DEF NodeHolds, Serving, Leaving, Stopping
  <2>5. \A m \in Nodes : m # n => NodeHolds(m)' = NodeHolds(m)
    BY <1>1, <1>2, <2>3, Works DEF NodeHolds, Serving, Leaving, Stopping
  <2>6. OpHolds' = {}
    BY <1>1, <2>3 DEF OpHolds
  <2>7. NodeHolds(n) \subseteq reserved
    BY DEF Holds
  <2> QED BY <1>1, <1>3, <2>3, <2>4, <2>5, <2>6, <2>7, NodeShift
<1>8. ASSUME NEW n \in Nodes, StopNode(n) PROVE Holds'
  <2>1. op' = Operation("close", n, NoRuntime, {}, runtimes[n]) /\ UNCHANGED <<reserved, runtimes>>
        /\ runtimes[n].state = "serving" /\ assocs' = Outdated(n)
    BY <1>8 DEF StopNode, sockets
  <2>2. /\ op'.stage = "close" /\ op'.node = n /\ op'.new = NoRuntime /\ op'.old = runtimes[n]
    BY <2>1 DEF Operation
  <2>3. op' # Idle
    BY <2>2, Works
  <2>4. NodeHolds(n)' = {} /\ OpHolds' = NodeHolds(n)
    BY <1>1, <2>1, <2>2 DEF NodeHolds, OpHolds, Serving, Leaving, Stopping, Busy
  <2>5. \A m \in Nodes : m # n => NodeHolds(m)' = NodeHolds(m)
    BY <1>1, <2>1, <2>2 DEF NodeHolds, Serving, Leaving, Stopping, Busy
  <2>6. NodeHolds(n) \subseteq reserved
    BY DEF Holds
  <2>7. \A i \in Associations :
         /\ HeldByAssociation(i)' = HeldByAssociation(i)
         /\ assocs'[i].stage = assocs[i].stage
         /\ assocs[i].stage \in {"reserved", "relaying"} => assocs'[i].held = assocs[i].held
    BY <2>1, OutdatedHolds
  <2> QED BY <1>1, <2>1, <2>4, <2>5, <2>6, <2>7, NodeShift
<1> QED BY <1>5, <1>6, <1>7, <1>8, Works
    DEF Operate, OpenNode, OpenNodeFails, Abandon, CloseNode, CloseReservations, Stopped, Retire

\* An operation goes on: what it opened passes to the node, what the node had passes to it, and
\* what it closes it gives up.
LEMMA WorkHolds ==
  ASSUME Typed, Opens, Holds, op \in Work, Operate
  PROVE  Holds'
<1>0. PICK k \in Nodes : k = op.node
  BY Works
<1>1. op.new \in RuntimeState /\ op.old \in RuntimeState
      /\ Aimed(op.stage, op.new, op.old) /\ op # Idle /\ op.stage # "idle"
  BY Works
<1>2. runtimes \in [Nodes -> RuntimeState]
  BY DEF Typed
<1>3. Idle.stage = "idle" /\ Purpose
  BY Works DEF Opens
<1>4. NodeHolds(k) \subseteq reserved /\ OpHolds \subseteq reserved /\ NodeHolds(k) \cap OpHolds = {}
      /\ Exclusive(reserved)
  BY DEF Holds
<1>5. UNCHANGED assocs => \A i \in Associations :
         /\ HeldByAssociation(i)' = HeldByAssociation(i)
         /\ assocs'[i].stage = assocs[i].stage
         /\ assocs[i].stage \in {"reserved", "relaying"} => assocs'[i].held = assocs[i].held
  BY OutdatedHolds
\* What the operation gives up is not reserved any more.
<1>6. ASSUME UNCHANGED assocs, \A n \in Nodes : NodeHolds(n)' = NodeHolds(n),
             NEW gone, gone \subseteq OpHolds, OpHolds' = OpHolds \ gone, reserved' = reserved \ gone
      PROVE  Holds'
  <2>1. Exclusive(reserved')
    BY <1>4, <1>6 DEF Exclusive
  <2>2. /\ NodeHolds(k)' \cap OpHolds' = {}
        /\ NodeHolds(k)' \cup OpHolds' \subseteq NodeHolds(k) \cup OpHolds \cup {}
        /\ reserved' = (reserved \ (NodeHolds(k) \cup OpHolds)) \cup (NodeHolds(k)' \cup OpHolds')
    BY <1>4, <1>6
  <2>3. {} \cap reserved = {}
    OBVIOUS
  <2> QED BY <1>5, <1>6, <2>1, <2>2, <2>3, NodeShift
<1>7. CASE OpenNode
  <2>1. op.stage = "open" /\ op.new \in Built /\ op.new.state = "serving" /\ op.new # NoRuntime
    BY <1>1, <1>7, Runtimes DEF OpenNode, Aimed
  <2>2. runtimes' = [runtimes EXCEPT ![k] = op.new] /\ UNCHANGED reserved
        /\ (assocs' = Outdated(k) \/ UNCHANGED assocs)
    BY <1>0, <1>7 DEF OpenNode, Opened, sockets
  <2>3. OpHolds = op.added /\ NodeHolds(k) = IF runtimes[k].state = "serving" THEN Endpoints(runtimes[k]) ELSE {}
    BY <2>1 DEF OpHolds, NodeHolds, Serving, Leaving, Stopping
  <2>4. Opening
    BY <1>3, <2>1 DEF Purpose
  <2>5. op' = IF op.removed # {} THEN [op EXCEPT !.stage = "retire"]
              ELSE IF op.old.state = "serving" THEN [op EXCEPT !.stage = "close"] ELSE Idle
    BY <1>7 DEF OpenNode, Opened
  <2>6. OpHolds' = IF op.removed # {} THEN op.removed
                   ELSE IF op.old.state = "serving" THEN Endpoints(op.old) ELSE {}
    <3>1. CASE op.removed # {}
      <4>1. op'.stage = "retire" /\ op'.removed = op.removed
        BY <2>5, <3>1 DEF Work
      <4> QED BY <3>1, <4>1 DEF OpHolds
    <3>2. CASE op.removed = {} /\ op.old.state = "serving"
      <4>1. op'.stage = "close" /\ op'.old = op.old
        BY <2>5, <3>2 DEF Work
      <4> QED BY <3>2, <4>1 DEF OpHolds
    <3>3. CASE op.removed = {} /\ op.old.state # "serving"
      BY <1>3, <2>5, <3>3 DEF OpHolds
    <3> QED BY <3>1, <3>2, <3>3
  <2>7. op' = Idle \/ (op'.new = op.new /\ op'.node = op.node)
    BY <2>5 DEF Work
  <2>8. \A n \in Nodes : ~Leaving(n)' /\ ~Leaving(n)
    BY <1>3, <2>1, <2>7 DEF Leaving, Stopping, Busy
  <2>9. NodeHolds(k)' = Endpoints(op.new)
    <3>1. runtimes'[k] = op.new
      BY <1>2, <2>2
    <3> QED BY <2>1, <2>8, <3>1 DEF NodeHolds, Serving
  <2>10. ASSUME NEW n \in Nodes, n # k PROVE NodeHolds(n)' = NodeHolds(n)
    <3>1. runtimes'[n] = runtimes[n]
      BY <1>2, <2>2, <2>10
    <3> QED BY <2>8, <3>1 DEF NodeHolds, Serving
  <2>11. \A i \in Associations :
         /\ HeldByAssociation(i)' = HeldByAssociation(i)
         /\ assocs'[i].stage = assocs[i].stage
         /\ assocs[i].stage \in {"reserved", "relaying"} => assocs'[i].held = assocs[i].held
    BY <2>2, OutdatedHolds
  <2>12. NodeHolds(k)' \cap OpHolds' = {} /\ NodeHolds(k)' \cup OpHolds' = NodeHolds(k) \cup OpHolds
    BY <1>0, <1>4, <2>1, <2>3, <2>4, <2>6, <2>9, Runtimes DEF Opening
  <2>13. {} \cap reserved = {} /\ Exclusive(reserved')
         /\ NodeHolds(k)' \cup OpHolds' \subseteq NodeHolds(k) \cup OpHolds \cup {}
         /\ reserved' = (reserved \ (NodeHolds(k) \cup OpHolds)) \cup (NodeHolds(k)' \cup OpHolds')
    BY <1>4, <2>2, <2>12
  <2> QED BY <2>10, <2>11, <2>12, <2>13, NodeShift
<1>8. CASE OpenNodeFails
  <2>1. op.stage = "open" /\ op' = [op EXCEPT !.stage = "abandon"] /\ UNCHANGED <<reserved, runtimes, assocs>>
    BY <1>8 DEF OpenNodeFails, sockets
  <2>2. op'.stage = "abandon" /\ op'.added = op.added
    BY <2>1 DEF Work
  <2>3. OpHolds' = OpHolds /\ \A n \in Nodes : NodeHolds(n)' = NodeHolds(n)
    BY <2>1, <2>2 DEF OpHolds, NodeHolds, Serving, Leaving, Stopping
  <2> QED BY <2>1, <2>3, HoldsOn
<1>9. CASE Abandon
  <2>1. op.stage = "abandon" /\ op' = Idle /\ UNCHANGED <<runtimes, assocs>> /\ reserved' = reserved \ op.added
    BY <1>9 DEF Abandon, Release
  <2>2. OpHolds = op.added /\ OpHolds' = {} /\ \A n \in Nodes : NodeHolds(n)' = NodeHolds(n)
    BY <1>3, <2>1 DEF OpHolds, NodeHolds, Serving, Leaving, Stopping
  <2> QED BY <1>6, <2>1, <2>2
<1>10. ASSUME NEW e \in Endpoint, Retire(e) PROVE Holds'
  <2>1. op.stage = "retire" /\ e \in op.removed /\ UNCHANGED <<runtimes, assocs>> /\ reserved' = reserved \ {e}
        /\ op' = (IF op.removed = {e} THEN Idle ELSE [op EXCEPT !.removed = @ \ {e}])
    BY <1>10 DEF Retire, Release
  <2>2. OpHolds = op.removed
    BY <2>1 DEF OpHolds
  <2>3. OpHolds' = op.removed \ {e} /\ op'.stage \in {"idle", "retire"}
    <3>1. CASE op.removed = {e}
      BY <1>3, <2>1, <3>1 DEF OpHolds
    <3>2. CASE op.removed # {e}
      <4>1. op'.stage = "retire" /\ op'.removed = op.removed \ {e}
        BY <2>1, <3>2 DEF Work
      <4> QED BY <4>1 DEF OpHolds
    <3> QED BY <3>1, <3>2
  <2>4. \A n \in Nodes : NodeHolds(n)' = NodeHolds(n)
    BY <2>1, <2>3 DEF NodeHolds, Serving, Leaving, Stopping
  <2> QED BY <1>6, <2>1, <2>2, <2>3, <2>4
<1>11. CASE CloseNode
  <2>1. op.stage = "close" /\ UNCHANGED <<reserved, runtimes, assocs>>
        /\ op' \in {[op EXCEPT !.stage = "release"], [op EXCEPT !.stage = "release", !.failed = TRUE]}
    BY <1>11 DEF CloseNode, sockets
  <2>2. op'.stage = "release" /\ op'.node = op.node /\ op'.new = op.new /\ op'.old = op.old
    BY <2>1 DEF Work
  <2>3. OpHolds' = OpHolds /\ \A n \in Nodes : NodeHolds(n)' = NodeHolds(n)
    BY <1>1, <1>3, <2>1, <2>2 DEF OpHolds, NodeHolds, Serving, Leaving, Stopping, Busy
  <2> QED BY <2>1, <2>3, HoldsOn
<1>12. CASE CloseReservations
  <2>1. op.stage = "release" /\ UNCHANGED <<runtimes, assocs>> /\ reserved' = reserved \ Endpoints(op.old)
    BY <1>12 DEF CloseReservations, Release
  <2>2. PICK ok \in BOOLEAN : op' = [op EXCEPT !.stage = "wait", !.failed = @ \/ ~ok]
    BY <1>12 DEF CloseReservations
  <2>3. op'.stage = "wait" /\ op'.node = op.node /\ op'.new = op.new
    BY <2>2 DEF Work
  <2>4. OpHolds = Endpoints(op.old) /\ OpHolds' = {}
    BY <2>1, <2>3 DEF OpHolds
  <2>5. \A n \in Nodes : NodeHolds(n)' = NodeHolds(n)
    BY <1>1, <1>3, <2>1, <2>3 DEF NodeHolds, Serving, Leaving, Stopping, Busy
  <2> QED BY <1>6, <2>1, <2>4, <2>5
<1>13. CASE Stopped
  <2>1. op.stage = "wait" /\ op' = Idle /\ Closing /\ UNCHANGED <<reserved, assocs>>
    BY <1>3, <1>13 DEF Stopped, Purpose, sockets
  <2>2. OpHolds = {} /\ OpHolds' = {}
    BY <1>3, <2>1 DEF OpHolds
  <2>3. CASE op.new # NoRuntime
    <3>1. UNCHANGED runtimes
      BY <1>13, <2>3 DEF Stopped
    <3>2. \A n \in Nodes : NodeHolds(n)' = NodeHolds(n)
      BY <1>3, <2>1, <2>3, <3>1 DEF NodeHolds, Serving, Leaving, Stopping, Busy
    <3> QED BY <1>6, <2>1, <2>2, <3>2
  <2>4. CASE op.new = NoRuntime
    <3>1. runtimes' = [runtimes EXCEPT ![k] = IF op.failed THEN [op.old EXCEPT !.state = "dead"] ELSE NoRuntime]
      BY <1>0, <1>13, <2>4 DEF Stopped
    <3>2. op.old \in Built
      BY <1>1, <2>1, Runtimes DEF Aimed
    <3>3. runtimes'[k].state # "serving"
      <4>1. [op.old EXCEPT !.state = "dead"].state = "dead"
        BY <3>2 DEF Built
      <4> QED BY <1>2, <3>1, <4>1, Runtimes
    <3>4. NodeHolds(k)' = {} /\ NodeHolds(k) = {}
      BY <1>0, <1>1, <2>1, <2>4, <3>3 DEF NodeHolds, Serving, Leaving, Stopping, Busy
    <3>5. ASSUME NEW n \in Nodes, n # k PROVE NodeHolds(n)' = NodeHolds(n)
      <4>1. runtimes'[n] = runtimes[n]
        BY <1>2, <3>1, <3>5
      <4> QED BY <1>0, <1>3, <2>1, <3>5, <4>1 DEF NodeHolds, Serving, Leaving, Stopping, Busy
    <3>6. \A n \in Nodes : NodeHolds(n)' = NodeHolds(n)
      BY <3>4, <3>5
    <3> QED BY <1>6, <2>1, <2>2, <3>6
  <2> QED BY <2>3, <2>4
<1> QED BY <1>1, <1>7, <1>8, <1>9, <1>10, <1>11, <1>12, <1>13
    DEF Operate, StartNode, UpdateNode, RefreshBindings, RebuildHandler, StopNode

\* An association gives up its endpoint once, early or at its end.
LEMMA RelayHolds ==
  ASSUME Typed, Holds, Relay
  PROVE  Holds'
<1>1. PICK i \in Associations :
        \/ \E n \in Nodes, a \in Addresses, port \in Ports : Associate(i, n, a, port)
        \/ OpenRelay(i) \/ ControlCloses(i) \/ EndIdle(i) \/ CloseRelay(i) \/ CloseReservation(i)
  BY DEF Relay
<1>2. UNCHANGED <<runtimes, op>>
  BY <1>1 DEF Associate, OpenRelay, ControlCloses, EndIdle, CloseRelay, CloseReservation
<1>3. OpHolds' = OpHolds /\ \A n \in Nodes : NodeHolds(n)' = NodeHolds(n)
  BY <1>2 DEF OpHolds, NodeHolds, Serving, Leaving, Stopping, Busy
<1>4. /\ Exclusive(reserved) /\ HeldByAssociation(i) \subseteq reserved
      /\ assocs[i].stage \in {"reserved", "relaying"} => assocs[i].held
  BY DEF Holds
<1>5. assocs \in [Associations -> {NoAssociation} \cup Association]
  BY DEF Typed
<1> DEFINE bound == {UDP(assocs[i].address, assocs[i].port)}
\* An association gives up what it holds, or nothing.
<1>6. ASSUME NEW u \in {NoAssociation} \cup Association, assocs' = [assocs EXCEPT ![i] = u],
             u.stage \in {"reserved", "relaying"} => u.held,
             HeldByAssociation(i)' \subseteq HeldByAssociation(i),
             reserved' = reserved \ (HeldByAssociation(i) \ HeldByAssociation(i)')
      PROVE  Holds'
  <2>1. assocs'[i] = u /\ \A j \in Associations : j # i => assocs'[j] = assocs[j]
    BY <1>5, <1>6
  <2>2. Exclusive(reserved') /\ {} \cap reserved = {} /\ HeldByAssociation(i)' \subseteq HeldByAssociation(i) \cup {}
        /\ reserved' = (reserved \ HeldByAssociation(i)) \cup HeldByAssociation(i)'
    BY <1>4, <1>6 DEF Exclusive
  <2> QED BY <1>3, <1>6, <2>1, <2>2, AssociationShift
\* The association goes on to another stage.
<1>7. ASSUME NEW stage \in {"relaying", "ended", "closing"}, Advance(i, stage), assocs[i] \in Association,
             stage = "relaying" => assocs[i].held, UNCHANGED reserved
      PROVE  Holds'
  <2> DEFINE u == [assocs[i] EXCEPT !.stage = stage]
  <2>1. u \in Association
    BY <1>7, Associated
  <2>2. u.stage = stage /\ u.held = assocs[i].held /\ u.address = assocs[i].address /\ u.port = assocs[i].port
    BY <1>7 DEF Association
  <2>3. assocs' = [assocs EXCEPT ![i] = u] /\ assocs'[i] = u
    BY <1>5, <1>7 DEF Advance
  <2>4. assocs[i].stage # "none"
    BY <1>7, Associated
  <2>5. HeldByAssociation(i)' = HeldByAssociation(i)
    BY <2>2, <2>3, <2>4 DEF HeldByAssociation, Active
  <2>6. reserved' = reserved \ (HeldByAssociation(i) \ HeldByAssociation(i)')
    BY <1>7, <2>5
  <2> HIDE DEF u
  <2> QED BY <1>6, <1>7, <2>1, <2>2, <2>3, <2>5, <2>6
<1>8. ASSUME NEW n \in Nodes, NEW a \in Addresses, NEW port \in Ports, Associate(i, n, a, port) PROVE Holds'
  <2>1. HeldByAssociation(i) = {} /\ Reserve({UDP(a, port)})
    BY <1>8, Associated DEF Associate, HeldByAssociation, Active
  <2>2. /\ assocs'[i].stage = "reserved" /\ assocs'[i].held
        /\ assocs'[i].address = a /\ assocs'[i].port = port
        /\ \A j \in Associations : j # i => assocs'[j] = assocs[j]
    BY <1>5, <1>8 DEF Associate
  <2>3. HeldByAssociation(i)' = {UDP(a, port)}
    BY <2>2 DEF HeldByAssociation, Active
  <2>4. Exclusive({UDP(a, port)})
    BY DEF Exclusive
  <2>5. {UDP(a, port)} \cap reserved = {} /\ Exclusive(reserved') /\ reserved' = reserved \cup {UDP(a, port)}
    BY <1>4, <2>1, <2>4, Reserving DEF Reserve
  <2>6. /\ HeldByAssociation(i)' \subseteq HeldByAssociation(i) \cup {UDP(a, port)}
        /\ reserved' = (reserved \ HeldByAssociation(i)) \cup HeldByAssociation(i)'
    BY <2>1, <2>3, <2>5
  <2> QED BY <1>3, <2>2, <2>5, <2>6, AssociationShift
<1>9. CASE OpenRelay(i)
  <2>1. assocs[i] \in Association /\ assocs[i].held /\ UNCHANGED reserved
    BY <1>4, <1>5, <1>9, Associated DEF OpenRelay, sockets
  <2> QED BY <1>7, <1>9, <2>1 DEF OpenRelay
<1>10. CASE ControlCloses(i)
  <2> DEFINE u == [assocs[i] EXCEPT !.stage = "ended", !.held = FALSE]
  <2>1. assocs[i] \in Association /\ assocs[i].held /\ assocs[i].stage = "relaying"
    BY <1>4, <1>5, <1>10, Associated DEF ControlCloses
  <2>2. u \in Association /\ u.stage = "ended" /\ u.held = FALSE
    <3>1. u.stage = "ended" /\ u.held = FALSE
      BY <2>1 DEF Association
    <3> QED BY <2>1, <3>1, Associated
  <2>3. assocs' = [assocs EXCEPT ![i] = u] /\ assocs'[i] = u /\ reserved' = reserved \ bound
    BY <1>5, <1>10 DEF ControlCloses, Release
  <2>4. HeldByAssociation(i) = bound /\ HeldByAssociation(i)' = {}
    BY <2>1, <2>2, <2>3 DEF HeldByAssociation, Active
  <2>5. reserved' = reserved \ (HeldByAssociation(i) \ HeldByAssociation(i)')
    BY <2>3, <2>4
  <2> HIDE DEF u
  <2> QED BY <1>6, <2>2, <2>3, <2>4, <2>5
<1>11. CASE EndIdle(i)
  <2>1. assocs[i] \in Association /\ UNCHANGED reserved
    BY <1>5, <1>11, Associated DEF EndIdle, sockets
  <2> QED BY <1>7, <1>11, <2>1 DEF EndIdle
<1>12. CASE CloseRelay(i)
  <2>1. assocs[i] \in Association /\ UNCHANGED reserved
    BY <1>5, <1>12, Associated DEF CloseRelay, sockets
  <2> QED BY <1>7, <1>12, <2>1 DEF CloseRelay
<1>13. CASE CloseReservation(i)
  <2>1. assocs[i].stage = "closing" /\ assocs' = [assocs EXCEPT ![i] = NoAssociation] /\ assocs'[i] = NoAssociation
    BY <1>5, <1>13 DEF CloseReservation
  <2>2. reserved' = reserved \ (IF assocs[i].held THEN bound ELSE {})
    BY <1>13 DEF CloseReservation, Release, sockets
  <2>3. HeldByAssociation(i) = (IF assocs[i].held THEN bound ELSE {}) /\ HeldByAssociation(i)' = {}
    BY <2>1, Associated DEF HeldByAssociation, Active
  <2>4. reserved' = reserved \ (HeldByAssociation(i) \ HeldByAssociation(i)')
    BY <2>2, <2>3
  <2> QED BY <1>6, <2>1, <2>3, <2>4, Associated
<1> QED BY <1>1, <1>8, <1>9, <1>10, <1>11, <1>12, <1>13

\* The sockets of a process that is gone are closed.
LEMMA ProcessHolds ==
  ASSUME Typed, Holds, Crash \/ Boot \/ BootFails \/ Exit \/ UNCHANGED vars
  PROVE  Holds'
<1>1. CASE Crash \/ Exit
  <2>1. Gone
    BY <1>1 DEF Crash, Exit
  <2>2. /\ \A n \in Nodes : NodeHolds(n)' = {}
        /\ OpHolds' = {} /\ \A i \in Associations : HeldByAssociation(i)' = {}
    BY <2>1, Runtimes, Works, Associated DEF Gone, NodeHolds, Serving, OpHolds, HeldByAssociation, Active
  <2>3. \A i \in Associations : assocs'[i].stage = "none"
    BY <2>1, Associated DEF Gone
  <2>4. reserved' = {}
    BY <2>1 DEF Gone
  <2> QED BY <2>2, <2>3, <2>4 DEF Holds, Exclusive
<1>2. CASE UNCHANGED <<reserved, runtimes, op, assocs>>
  <2>1. OpHolds' = OpHolds /\ \A n \in Nodes : NodeHolds(n)' = NodeHolds(n)
    BY <1>2 DEF NodeHolds, Serving, Leaving, Stopping, Busy, OpHolds
  <2> QED BY <1>2, <2>1, HoldsOn
<1> QED BY <1>1, <1>2 DEF Boot, BootFails, sockets, vars

\* Every step keeps Holds.
LEMMA StepHolds ==
  ASSUME Typed, Opens, Holds, [Next]_vars
  PROVE  Holds'
<1>1. op = Idle \/ op \in Work
  BY DEF Typed
<1> QED BY <1>1, IdleHolds, WorkHolds, RelayHolds, ProcessHolds DEF Next

-----------------------------------------------------------------------------
\* There are as many relays as associations at most.
LEMMA RelaysAreFinite ==
  \A a : IsFiniteSet(RelaysOn(a)) /\ Cardinality(RelaysOn(a)) \in Nat
         /\ Cardinality(RelaysOn(a)) <= Cardinality(Associations)
<1> TAKE a
<1>1. RelaysOn(a) \subseteq Associations
  BY DEF RelaysOn
<1> QED BY <1>1, FS_Subset, FS_CardinalityType, ListenerAssumption

\* There is no association at first.
LEMMA InitCounted == Init => Counted
<1> SUFFICES ASSUME Init PROVE Counted
  OBVIOUS
<1>1. \A i \in Associations : ~Active(i) /\ ~Relaying(i)
  BY Associated DEF Init, Active, Relaying
<1>2. \A a : RelaysOn(a) = {}
  BY <1>1 DEF RelaysOn
<1> QED BY <1>1, <1>2, FS_EmptySet DEF Init, Counted

\* A step that starts and ends no relay.
LEMMA SameRelays ==
  ASSUME Counted, UNCHANGED <<scopes, stuck>>,
         \A i \in Associations :
           /\ Relaying(i)' <=> Relaying(i)
           /\ Relaying(i) => assocs'[i].address = assocs[i].address
           /\ Active(i)' => Active(i) \/ up',
         up => up' \/ \A i \in Associations : ~Active(i)
  PROVE  Counted'
<1>1. ASSUME NEW a PROVE RelaysOn(a)' = RelaysOn(a)
  BY DEF RelaysOn
<1> QED BY <1>1 DEF Counted

\* Operations on nodes start and end no relay.
LEMMA OperateCounted ==
  ASSUME Typed, Counted, Operate
  PROVE  Counted'
<1>1. UNCHANGED <<scopes, stuck, up>>
  BY DEF Operate, StartNode, UpdateNode, RefreshBindings, RebuildHandler, StopNode, OpenNode, OpenNodeFails, Abandon,
         Retire, CloseNode, CloseReservations, Stopped, Replace, ReplaceFails, firewall
<1>2. PICK n : assocs' = Outdated(n) \/ UNCHANGED assocs
  BY DEF Operate, StartNode, UpdateNode, RefreshBindings, RebuildHandler, StopNode, OpenNode, OpenNodeFails, Abandon,
         Retire, CloseNode, CloseReservations, Stopped, Opened
<1>3. ASSUME NEW i \in Associations
      PROVE  assocs'[i].stage = assocs[i].stage /\ (Active(i) => assocs'[i].address = assocs[i].address)
  <2>1. CASE assocs'[i] = assocs[i]
    BY <2>1
  <2>2. CASE Active(i) /\ assocs'[i] = [assocs[i] EXCEPT !.old = TRUE]
    <3>1. assocs[i] \in Association
      BY <2>2, Associated DEF Active, Typed
    <3> QED BY <2>2, <3>1 DEF Association
  <2> QED BY <1>2, <2>1, <2>2 DEF Outdated
<1>4. \A i \in Associations : (Relaying(i)' <=> Relaying(i)) /\ (Active(i)' <=> Active(i)) /\ (Relaying(i) => Active(i))
  BY <1>3 DEF Relaying, Active
<1> QED BY <1>1, <1>3, <1>4, SameRelays

\* OpenRelay adds one and CloseRelay takes one away, or counts an opening that is stuck.
LEMMA RelayCounted ==
  ASSUME Typed, Opens, Counted, Relay
  PROVE  Counted'
<1>1. PICK i \in Associations :
        \/ \E n \in Nodes, a \in Addresses, port \in Ports : Associate(i, n, a, port)
        \/ OpenRelay(i) \/ ControlCloses(i) \/ EndIdle(i) \/ CloseRelay(i) \/ CloseReservation(i)
  BY DEF Relay
<1>2. UNCHANGED up /\ assocs \in [Associations -> {NoAssociation} \cup Association]
      /\ scopes \in [Addresses -> Nat] /\ stuck \in [Addresses -> Nat]
  BY <1>1 DEF Associate, OpenRelay, ControlCloses, EndIdle, CloseRelay, CloseReservation, Typed
<1>0. PICK a : a = assocs[i].address
  OBVIOUS
<1> USE <1>0
\* Only association i changes.
<1>3. ASSUME NEW u \in {NoAssociation} \cup Association, assocs' = [assocs EXCEPT ![i] = u]
      PROVE  /\ assocs'[i] = u
             /\ \A j \in Associations : j # i =>
                  /\ assocs'[j] = assocs[j]
                  /\ Relaying(j)' <=> Relaying(j)
                  /\ Active(j)' <=> Active(j)
  <2>1. assocs'[i] = u /\ \A j \in Associations : j # i => assocs'[j] = assocs[j]
    BY <1>2, <1>3
  <2> QED BY <2>1 DEF Relaying, Active
<1>4. ASSUME NEW u \in {NoAssociation} \cup Association, assocs' = [assocs EXCEPT ![i] = u],
             UNCHANGED <<scopes, stuck>>, Relaying(i)' <=> Relaying(i),
             Relaying(i) => u.address = a, Active(i) \/ up
      PROVE  Counted'
  <2>1. ASSUME NEW j \in Associations
        PROVE  /\ Relaying(j)' <=> Relaying(j)
               /\ Relaying(j) => assocs'[j].address = assocs[j].address
               /\ Active(j)' => Active(j) \/ up'
    <3>1. CASE j = i
      BY <1>2, <1>3, <1>4, <3>1
    <3>2. CASE j # i
      BY <1>3, <1>4, <3>2
    <3> QED BY <3>1, <3>2
  <2> QED BY <1>2, <1>4, <2>1, SameRelays
\* The association goes on to another stage.
<1>5. ASSUME assocs[i] \in Association, NEW stage \in {"relaying", "ended", "closing"}
      PROVE  /\ [assocs[i] EXCEPT !.stage = stage] \in Association
             /\ [assocs[i] EXCEPT !.stage = stage].stage = stage
             /\ [assocs[i] EXCEPT !.stage = stage].address = a
  <2>1. [assocs[i] EXCEPT !.stage = stage] \in Association
    BY <1>5, Associated
  <2> QED BY <1>5, <2>1 DEF Association
<1>6. ASSUME NEW n \in Nodes, NEW b \in Addresses, NEW port \in Ports, Associate(i, n, b, port) PROVE Counted'
  <2>1. PICK old \in BOOLEAN :
          /\ Connected(n, old, b)
          /\ assocs' = [assocs EXCEPT ![i] = [stage |-> "reserved", node |-> n, old |-> old, address |-> b,
                                              port |-> port, held |-> TRUE]]
    BY <1>6 DEF Associate
  <2> DEFINE u == [stage |-> "reserved", node |-> n, old |-> old, address |-> b, port |-> port, held |-> TRUE]
  <2>2. u \in Association /\ u.stage = "reserved"
    BY DEF Association
  <2>3. up
    <3>1. op # Idle \/ runtimes[n] # NoRuntime
      BY <2>1, Runtimes, Works DEF Connected, Stopping, Busy
    <3> QED BY <3>1, OpensMeansUp
  <2>4. ~Relaying(i) /\ ~Relaying(i)'
    BY <1>3, <1>6, <2>1, <2>2, Associated DEF Associate, Relaying
  <2>5. UNCHANGED <<scopes, stuck>>
    BY <1>6 DEF Associate, firewall
  <2> HIDE DEF u
  <2> QED BY <1>4, <2>1, <2>2, <2>3, <2>4, <2>5 DEF u
<1>7. CASE OpenRelay(i)
  <2>1. assocs[i].stage = "reserved" /\ ~Relaying(i) /\ Active(i)
    BY <1>7 DEF OpenRelay, Relaying, Active
  <2>11. assocs[i] \in Association
    BY <1>2, <2>1, Associated
  <2>12. a \in Addresses
    BY <2>11 DEF Association
  <2>2. CASE Advance(i, "closing") /\ UNCHANGED <<scopes, stuck>>
    <3> DEFINE u == [assocs[i] EXCEPT !.stage = "closing"]
    <3>1. u \in Association /\ u.stage = "closing" /\ assocs' = [assocs EXCEPT ![i] = u]
      BY <1>5, <2>11, <2>2 DEF Advance
    <3>2. ~Relaying(i)'
      BY <1>3, <3>1 DEF Relaying
    <3> HIDE DEF u
    <3> QED BY <1>4, <2>1, <2>2, <3>1, <3>2
  <2>3. CASE Advance(i, "relaying") /\ scopes' = [scopes EXCEPT ![a] = scopes[a] + 1] /\ UNCHANGED stuck
    <3> DEFINE u == [assocs[i] EXCEPT !.stage = "relaying"]
    <3>1. u \in Association /\ u.stage = "relaying" /\ u.address = a /\ assocs' = [assocs EXCEPT ![i] = u]
      BY <1>5, <2>11, <2>3 DEF Advance
    <3>2. Relaying(i)' /\ assocs'[i].address = a
      BY <1>3, <3>1 DEF Relaying
    <3> HIDE DEF u
    <3>3. \A j \in Associations : j # i => assocs'[j] = assocs[j] /\ (Relaying(j)' <=> Relaying(j))
      BY <1>3, <3>1
    <3>4. RelaysOn(a)' = RelaysOn(a) \cup {i} /\ i \notin RelaysOn(a)
      BY <2>1, <3>2, <3>3 DEF RelaysOn
    <3>5. \A b \in Addresses : b # a => RelaysOn(b)' = RelaysOn(b)
      BY <2>1, <3>2, <3>3 DEF RelaysOn
    <3>6. Cardinality(RelaysOn(a)') = Cardinality(RelaysOn(a)) + 1
      BY <3>4, RelaysAreFinite, FS_AddElement
    <3>7. scopes'[a] = scopes[a] + 1 /\ \A b \in Addresses : b # a => scopes'[b] = scopes[b]
      BY <1>2, <2>3, <2>12
    <3>8. \A b \in Addresses : scopes'[b] = stuck'[b] + Cardinality(RelaysOn(b)')
      <4>1. scopes'[a] = stuck'[a] + Cardinality(RelaysOn(a)')
        BY <1>2, <2>3, <2>12, <3>6, <3>7, RelaysAreFinite DEF Counted
      <4>2. ASSUME NEW b \in Addresses, b # a PROVE scopes'[b] = stuck'[b] + Cardinality(RelaysOn(b)')
        <5>1. RelaysOn(b)' = RelaysOn(b) /\ scopes'[b] = scopes[b] /\ stuck'[b] = stuck[b]
          BY <2>3, <3>5, <3>7, <4>2
        <5>2. scopes[b] = stuck[b] + Cardinality(RelaysOn(b))
          BY DEF Counted
        <5> QED BY <5>1, <5>2
      <4> QED BY <4>1, <4>2
    <3> QED BY <1>2, <2>1, <3>8 DEF Counted
  <2>4. CASE Advance(i, "relaying") /\ Replace(opened, [scopes EXCEPT ![a] = 1]) /\ scopes[a] = 0 /\ UNCHANGED stuck
    <3>1. scopes' = [scopes EXCEPT ![a] = scopes[a] + 1]
      BY <2>4 DEF Replace
    <3> QED BY <2>3, <2>4, <3>1
  <2> QED BY <1>7, <2>2, <2>3, <2>4 DEF OpenRelay, ReplaceFails, firewall
<1>8. CASE ControlCloses(i) \/ EndIdle(i)
  <2>1. assocs[i].stage = "relaying" /\ UNCHANGED <<scopes, stuck>>
    BY <1>8 DEF ControlCloses, EndIdle, firewall
  <2>2. assocs[i] \in Association
    BY <1>2, <2>1, Associated
  <2>3. PICK u \in Association : /\ assocs' = [assocs EXCEPT ![i] = u]
                                /\ u.stage = "ended" /\ u.address = a
    <3>1. CASE EndIdle(i)
      BY <1>5, <2>2, <3>1 DEF EndIdle, Advance
    <3>2. CASE ControlCloses(i)
      <4> DEFINE u == [assocs[i] EXCEPT !.stage = "ended", !.held = FALSE]
      <4>1. u \in Association
        BY <2>2, Associated
      <4>2. u.stage = "ended" /\ u.address = a
        BY <2>2 DEF Association
      <4> QED BY <3>2, <4>1, <4>2 DEF ControlCloses
    <3> QED BY <1>8, <3>1, <3>2
  <2>4. Relaying(i) /\ Relaying(i)' /\ Active(i)
    BY <1>3, <2>1, <2>3 DEF Relaying, Active
  <2> QED BY <1>4, <2>1, <2>3, <2>4
<1>9. CASE CloseReservation(i)
  <2>1. assocs[i].stage = "closing" /\ assocs' = [assocs EXCEPT ![i] = NoAssociation] /\ UNCHANGED <<scopes, stuck>>
    BY <1>9 DEF CloseReservation, firewall
  <2>2. ~Relaying(i) /\ ~Relaying(i)' /\ Active(i)
    BY <1>3, <2>1, Associated DEF Relaying, Active
  <2> QED BY <1>4, <2>1, <2>2
<1>10. CASE CloseRelay(i)
  <2> DEFINE u == [assocs[i] EXCEPT !.stage = "closing"]
  <2>1. assocs[i].stage = "ended" /\ Relaying(i) /\ Active(i)
    BY <1>10 DEF CloseRelay, Relaying, Active
  <2>2. assocs[i] \in Association
    BY <1>2, <2>1, Associated
  <2>3. a \in Addresses
    BY <2>2 DEF Association
  <2>4. u \in Association /\ u.stage = "closing" /\ assocs' = [assocs EXCEPT ![i] = u]
    BY <1>5, <1>10, <2>2 DEF CloseRelay, Advance
  <2>5. ~Relaying(i)'
    BY <1>3, <2>4 DEF Relaying
  <2>6. \A j \in Associations : j # i => assocs'[j] = assocs[j] /\ (Relaying(j)' <=> Relaying(j))
    BY <1>3, <2>4
  <2> HIDE DEF u
  <2>7. RelaysOn(a)' = RelaysOn(a) \ {i} /\ i \in RelaysOn(a)
    <3>1. i \in RelaysOn(a)
      BY <2>1 DEF RelaysOn
    <3>2. \A j \in Associations : j \in RelaysOn(a)' <=> j # i /\ j \in RelaysOn(a)
      BY <2>5, <2>6 DEF RelaysOn
    <3>3. RelaysOn(a) \subseteq Associations /\ RelaysOn(a)' \subseteq Associations
      BY DEF RelaysOn
    <3> QED BY <3>1, <3>2, <3>3
  <2>8. \A b \in Addresses : b # a => RelaysOn(b)' = RelaysOn(b)
    BY <2>1, <2>5, <2>6 DEF RelaysOn
  <2>9. Cardinality(RelaysOn(a)') = Cardinality(RelaysOn(a)) - 1
    BY <2>7, RelaysAreFinite, FS_RemoveElement
  <2>10. scopes[a] = stuck[a] + Cardinality(RelaysOn(a)) /\ Cardinality(RelaysOn(a)) \in Nat
    BY <2>3, RelaysAreFinite DEF Counted
  <2>11. /\ scopes'[a] = stuck'[a] + Cardinality(RelaysOn(a)) - 1
         /\ \A b \in Addresses : b # a => scopes'[b] = scopes[b] /\ stuck'[b] = stuck[b]
    <3>1. CASE scopes' = [scopes EXCEPT ![a] = scopes[a] - 1] /\ UNCHANGED stuck
      BY <1>2, <2>3, <2>10, <3>1
    <3>2. CASE UNCHANGED scopes /\ stuck' = [stuck EXCEPT ![a] = stuck[a] + 1]
      BY <1>2, <2>3, <2>10, <3>2
    <3>3. CASE scopes[a] = 1 /\ scopes' = [scopes EXCEPT ![a] = 0] /\ UNCHANGED stuck
      BY <3>1, <3>3
    <3> QED BY <1>10, <3>1, <3>2, <3>3 DEF CloseRelay, Replace, ReplaceFails, firewall
  <2>12. \A b \in Addresses : scopes'[b] = stuck'[b] + Cardinality(RelaysOn(b)')
    <3>1. scopes'[a] = stuck'[a] + Cardinality(RelaysOn(a)')
      <4>1. stuck'[a] \in Nat
        BY <2>3, RelayTyped DEF Typed
      <4> QED BY <2>9, <2>10, <2>11, <4>1
    <3>2. ASSUME NEW b \in Addresses, b # a PROVE scopes'[b] = stuck'[b] + Cardinality(RelaysOn(b)')
      <4>1. RelaysOn(b)' = RelaysOn(b) /\ scopes'[b] = scopes[b] /\ stuck'[b] = stuck[b]
        BY <2>8, <2>11, <3>2
      <4>2. scopes[b] = stuck[b] + Cardinality(RelaysOn(b))
        BY DEF Counted
      <4> QED BY <4>1, <4>2
    <3> QED BY <3>1, <3>2
  <2>13. ~up => FALSE
    BY <2>1 DEF Counted
  <2> QED BY <1>2, <2>12, <2>13 DEF Counted
<1> QED BY <1>1, <1>6, <1>7, <1>8, <1>9, <1>10

\* A process that is gone counts nothing.
LEMMA ProcessCounted ==
  ASSUME Typed, Counted, Crash \/ Boot \/ BootFails \/ Exit \/ UNCHANGED vars
  PROVE  Counted'
<1>1. CASE Crash \/ Exit
  <2>1. Gone
    BY <1>1 DEF Crash, Exit
  <2>2. \A i \in Associations : ~Active(i)' /\ ~Relaying(i)'
    BY <2>1, Associated DEF Gone, Active, Relaying
  <2>3. \A b : RelaysOn(b)' = {}
    BY <2>2 DEF RelaysOn
  <2>4. ASSUME NEW b \in Addresses PROVE scopes'[b] = 0 /\ stuck'[b] = 0 /\ Cardinality(RelaysOn(b)') = 0
    BY <2>1, <2>3, FS_EmptySet DEF Gone
  <2> QED BY <2>1, <2>2, <2>4 DEF Counted
<1>2. CASE UNCHANGED <<scopes, stuck, assocs>> /\ (up => up')
  BY <1>2, SameRelays DEF Relaying, Active
<1> QED BY <1>1, <1>2 DEF Boot, BootFails, Replace, vars

\* Every step keeps Counted.
LEMMA StepCounted ==
  ASSUME Typed, Opens, Counted, [Next]_vars
  PROVE  Counted'
BY OperateCounted, RelayCounted, ProcessCounted DEF Next

-----------------------------------------------------------------------------
\* The inductive invariant of the theorems below.
Balanced == Typed /\ Opens /\ Holds /\ Counted

LEMMA StepBalanced == Balanced /\ [Next]_vars => Balanced'
BY StepTyped, StepOpens, StepHolds, StepCounted DEF Balanced

LEMMA InitBalanced == Init => Balanced
BY InitTyped, InitOpens, InitHolds, InitCounted DEF Balanced

\* TypeOK bounds the counts by the number of associations and of failures.
LEMMA BalancedIsTyped == Balanced => TypeOK
<1> SUFFICES ASSUME Balanced PROVE TypeOK
  OBVIOUS
<1> USE DEF Balanced
<1>1. op.stage \in {"idle", "open", "abandon", "close", "release", "wait", "retire"}
  BY Works DEF Typed, Stages
<1>2. \A i \in Associations : assocs[i].stage \in {"none", "reserved", "relaying", "ended", "closing"}
  <2> TAKE i \in Associations
  <2>1. CASE assocs[i] = NoAssociation
    BY <2>1 DEF NoAssociation
  <2>2. CASE assocs[i] \in Association
    BY <2>2 DEF Association
  <2> QED BY <2>1, <2>2 DEF Typed
<1>3. \A a \in Addresses : scopes[a] <= Cardinality(Associations) + stuck[a]
  BY RelaysAreFinite, FS_CardinalityType, ListenerAssumption DEF Counted, Typed
<1>4. stuck \in [Addresses -> 0 .. MaxFaults]
  BY ListenerAssumption DEF Typed
<1> QED BY <1>1, <1>2, <1>3, <1>4 DEF TypeOK, Typed

\* What a node holds is what it serves and what the operation on it holds.
LEMMA HeldSplits ==
  \A n \in Nodes : HeldByNode(n) = NodeHolds(n) \cup IF Busy(n) THEN OpHolds ELSE {}
BY DEF HeldByNode, NodeHolds, Busy, OpHolds

\* One operation runs at a time, so the parts of different nodes are disjoint.
LEMMA BalancedIsHeld == Balanced => ReservedIsHeld
<1> SUFFICES ASSUME Balanced PROVE ReservedIsHeld
  OBVIOUS
<1>1. Typed /\ Opens /\ Holds
  BY DEF Balanced
<1>2. \A n \in Nodes : HeldByNode(n) = NodeHolds(n) \cup IF Busy(n) THEN OpHolds ELSE {}
  BY HeldSplits
<1>3. OpHolds # {} => \E n \in Nodes : Busy(n) /\ \A m \in Nodes : Busy(m) => m = n
  BY <1>1, Works DEF OpHolds, Busy, Typed
<1>4. \A n, m \in Nodes : n # m => HeldByNode(n) \cap HeldByNode(m) = {}
  BY <1>1, <1>2, <1>3 DEF Holds
<1>5. UNION {HeldByNode(n) : n \in Nodes} = (UNION {NodeHolds(n) : n \in Nodes}) \cup OpHolds
  BY <1>2, <1>3
<1> QED BY <1>1, <1>4, <1>5 DEF ReservedIsHeld, Holds, Exclusive

\* A node that serves is open, and the address of a relay is counted.
LEMMA BalancedIsOpen == Balanced => ServingIsOpen
<1> SUFFICES ASSUME Balanced PROVE ServingIsOpen
  OBVIOUS
<1>1. Typed /\ Opens /\ Holds /\ Counted
  BY DEF Balanced
<1>2. ASSUME NEW n \in Nodes, Serving(n)
      PROVE  Endpoints(runtimes[n]) \subseteq reserved \cap table.nodes
  <2>1. up
    BY <1>1, <1>2, Runtimes, OpensMeansUp DEF Serving
  <2>2. Endpoints(runtimes[n]) = opened[n]
    BY <1>1, <1>2 DEF Opens, OpenFor
  <2>3. opened[n] \subseteq table.nodes
    BY <1>1, <2>1 DEF Opens, Openings
  <2>4. Endpoints(runtimes[n]) \subseteq reserved
    BY <1>1, <1>2 DEF Holds, NodeHolds
  <2> QED BY <2>2, <2>3, <2>4
<1>3. ASSUME NEW i \in Associations, Relaying(i) PROVE assocs[i].address \in table.relays
  <2> DEFINE a == assocs[i].address
  <2>1. up
    BY <1>1, <1>3 DEF Counted, Relaying, Active
  <2>2. a \in Addresses
    <3>1. assocs[i] \in Association
      BY <1>1, <1>3, Associated DEF Typed, Relaying
    <3> QED BY <3>1 DEF Association
  <2>3. Cardinality(RelaysOn(a)) # 0
    BY <1>3, RelaysAreFinite, FS_EmptySet DEF RelaysOn
  <2>4. scopes[a] > 0
    BY <1>1, <2>2, <2>3, RelaysAreFinite DEF Counted, Typed
  <2> QED BY <1>1, <2>1, <2>2, <2>4 DEF Opens, Openings
<1> QED BY <1>2, <1>3 DEF ServingIsOpen

\* The table is the coordinator's, which has nothing else.
LEMMA BalancedIsAll == Balanced => NothingElseIsOpen
<1> SUFFICES ASSUME Balanced, up PROVE NothingElseIsOpen
  BY DEF NothingElseIsOpen
<1>1. Typed /\ Opens /\ Holds /\ Counted
  BY DEF Balanced
<1>2. table = Openings(opened, scopes)
  BY <1>1 DEF Opens
<1>3. \A n \in Nodes : opened[n] \subseteq IF runtimes[n] = NoRuntime THEN {} ELSE Endpoints(runtimes[n])
  BY <1>1 DEF Opens, OpenFor
<1>4. table.nodes \subseteq UNION {Endpoints(runtimes[n]) : n \in {m \in Nodes : runtimes[m] # NoRuntime}}
  BY <1>2, <1>3 DEF Openings
<1>5. ASSUME NEW a \in table.relays
      PROVE  a \in {assocs[i].address : i \in {j \in Associations : Relaying(j)}} \cup {b \in Addresses : stuck[b] > 0}
  <2>1. a \in Addresses /\ scopes[a] > 0
    BY <1>2, <1>5 DEF Openings
  <2>2. CASE RelaysOn(a) # {}
    <3>1. PICK i \in Associations : Relaying(i) /\ assocs[i].address = a
      BY <2>2 DEF RelaysOn
    <3>2. i \in {j \in Associations : Relaying(j)}
      BY <3>1
    <3> QED BY <3>1, <3>2
  <2>3. CASE RelaysOn(a) = {}
    <3>1. Cardinality(RelaysOn(a)) = 0 /\ scopes[a] = stuck[a] + Cardinality(RelaysOn(a))
      BY <1>1, <2>1, <2>3, FS_EmptySet DEF Counted
    <3>2. stuck[a] > 0
      BY <1>1, <2>1, <3>1 DEF Typed
    <3> QED BY <2>1, <3>2
  <2> QED BY <2>2, <2>3
<1>6. \A a \in Addresses :
        scopes[a] = stuck[a] + Cardinality({i \in Associations : Relaying(i) /\ assocs[i].address = a})
  BY <1>1 DEF Counted, RelaysOn
<1> QED BY <1>4, <1>5, <1>6 DEF NothingElseIsOpen

(***************************************************************************)
(* Sockets, firewall, runtimes, operations and associations keep their     *)
(* types, for every number of nodes, addresses, ports, associations and    *)
(* failures: no address counts more relays than there are associations,    *)
(* and openings that could not be closed.                                  *)
(***************************************************************************)
THEOREM TypeCorrect == Spec => []TypeOK
BY InitBalanced, StepBalanced, BalancedIsTyped, PTL DEF Spec

(***************************************************************************)
(* The port allocator has an endpoint reserved exactly while one runtime,  *)
(* operation or association holds it, and no two reservations conflict: an *)
(* update, a refresh, a stop that fails half-way and an association that   *)
(* closes its reservation twice give up nothing of another's.              *)
(***************************************************************************)
THEOREM ReservationsAreHeld == Spec => []ReservedIsHeld
BY InitBalanced, StepBalanced, BalancedIsHeld, PTL DEF Spec

(***************************************************************************)
(* The endpoints of a node that serves are reserved and open in the        *)
(* kernel's table at every moment of an update, a refresh or the stop of   *)
(* the runtime it replaced, and so is the address of every relay, whatever *)
(* the others open, close or fail to.                                      *)
(***************************************************************************)
THEOREM ServedIsOpen == Spec => []ServingIsOpen
BY InitBalanced, StepBalanced, BalancedIsOpen, PTL DEF Spec

(***************************************************************************)
(* While the process runs, the table has no endpoint that is not a present *)
(* runtime's and no relay address without a relay, but those that failed   *)
(* to close; and the coordinator's counts are exact.                       *)
(***************************************************************************)
THEOREM NoStrayOpening == Spec => []NothingElseIsOpen
BY InitBalanced, StepBalanced, BalancedIsAll, PTL DEF Spec
=============================================================================
