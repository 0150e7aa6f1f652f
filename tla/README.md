# TLA+ models of s12ryt-ipv6

s12ryt-ipv6 turns a Linux host with IPv6 prefixes into a set of proxy nodes: listeners (HTTP, SOCKS5 or
both) whose outgoing connections use IPv6 addresses taken from pools. These modules model the parts of it
that keep state in several places at once: the resource store, the host's addresses, the dialers, the
listeners, the node table and the files behind them; and the services around these (name resolution, event
log, watchdog, settings and documents, sessions, the process itself). TLC checks them on small instances;
TLAPS proves the invariants named below for every value of the constants.

## 1. The system

### Components, their state and their operations

| Component | Source (`src/internal`) | State | Operations | Status |
|---|---|---|---|---|
| resource store | `ipv6resource` | templates, fixed addresses, pools with active and draining addresses, reference counts, walk cursors, next batch number | add and delete a template, a fixed address, a pool; refresh a pool; complete a drain; save, load | modelled, proved |
| resource transactions | `admin/resource_service.go` | the committed store, its file, one mutex | every operation as clone - reconcile the host - synchronise the runtime - save, undone in reverse | modelled |
| outbound drain | `proxy/source_pool.go`, `node/outbound.go` | current addresses, leases, draining addresses | acquire, release, replace, force | modelled, proved |
| inbound drain | `node/runtime.go`, `node/inbound.go`, `node/resource_runtime.go` | endpoints, listeners, connections, retiring endpoints | accept, register, end, refresh bindings, force, start, stop, update | modelled, proved |
| drain tracker, queue, terminator | `app/drain_*.go` | reports expected per draining address, queue of completed ones | prepare, report, run | modelled |
| mutexes of resources and nodes | `admin/resource_service.go`, `node/persistent.go` | who holds which | every call that takes one inside the other | modelled, proved |
| network ownership | `network` | the kernel's addresses and routes, the ledger file | reconcile | modelled, proved |
| node manager | `node/manager.go`, `node/persistent.go` | table, runtimes, file | create, create a batch, update, start, stop, move, rename a folder, delete, restore, shut down | modelled, proved |
| listener start and ports | `node/runtime.go`, `proxy/port_allocator.go` | reserved endpoints, sockets | reserve, release, close, start, replace, stop | modelled, proved |
| firewall | `node/firewall_coordinator.go`, `firewall` | node openings, counted relay scopes, kernel table | open, close, replace, shut down | modelled, proved |
| UDP relay | `proxy/udp_relay.go` | associations, mappings, remembered failures | associate, map, relay, expire | in part: associations without their mappings |
| service life cycle | `app/service.go`, `app/management.go`, `app/production_build.go`, `app/startup_state.go` | phase, components, results | start with retries, serve, stop, clean up | modelled, proved, its periodic tasks apart |
| watchdog | `app/watchdog*.go` | failures per listener, cooldown, persisted guard | probe, restart | modelled, proved |
| DNS64, NAT64 | `dns64` | resolvers, cache, calls in flight, kept connections, manual prefix, status | resolve, update, check, set | modelled, proved, wire formats and discovery apart |
| event log, streams | `eventlog`, `admin/logstream.go` | files, handle, subscribers, counted secrets | write, rotate, clear, subscribe, register | modelled, proved, reading back apart |
| sessions, password, limiter | `auth`, `admin/password.go`, `admin/reset_password.go` | one session, password file, failure windows | log in, log out, change, reset | modelled, proved, the limiter apart |
| operations, settings | `admin/operations_service.go`, `app/config_store.go`, `app/node_secrets.go` | settings in memory and file | set, save, take back | in part, within `NameLookup`, `Nat64Monitor`, `NodeSecrets`, `AgentApply` |
| statistics | `stats`, `app/traffic_observer.go` | counters | add, reset, save | not modelled |
| agent interface | `admin/agent.go`, `admin/agent_commands.go` | none of its own | check and apply a document, commands | documents modelled, queries not |
| HTTP API | `admin/nodes.go`, `admin/resources.go`, `admin/http.go` | none of its own | decode, authorise, dispatch | in part, as the other administrator of `AgentApply` and in `AdminAccess` |
| configuration, secrets, policy, discovery, proxy protocols | `config`, `secret`, `policy`, `network/discovery*.go`, `proxy/*_proxy.go` | none that lasts | pure functions, one connection's bytes | not modelled |
| command line, installer, web console | `cmd`, `install.sh`, `deploy`, `web` | none that the server relies on | input and output | not modelled |

### How they interact

    administrator --> ResourceCoordinator --1--> ResourceManager.Reconcile   (kernel, ledger)
                       ^   |      |
                       |   |      +-------2--> RuntimeResourceSynchronizer.Sync
                       |   |                      DrainTracker.Prepare  (which reports to expect)
                       |   |                      policy, OutboundRegistry -> SourcePool.Replace
                       |   |                      InboundRegistry
                       |   |                      PersistentManager.RefreshInboundBindings -> runtimes
                       |   +--------------3--> FileStateStore.Save
                       |
                  DrainQueue <-- DrainTracker <-- SourcePool (last lease), runtimes (last connection)

    runtimes, UDP associations --> PortAllocator (endpoints, sockets)
                               --> FirewallCoordinator --> nftables (one table, replaced as a whole)

    proxies --> Resolver --> DoTQueryer (kept connections)      OperationsCoordinator --> Resolver, NAT64Monitor
                    +------> NAT64Monitor.Status                                      --> ConfigStore (file)

    AgentService --document, one call at a time--> ConfigStore, ResourceCoordinator, OperationsCoordinator,
                                                   secretRegisteringNodeService --> PersistentManager
                                                              +--> Logger (secrets to leave out)
    Service.Run --> HTTP server, control server, drain queue; then nodes, network, firewall, log
    Watchdog --> guard file, then systemd, which replaces the process

A call that fails at 2 or 3 is undone: 2 is done again with the old state, then 1. The coordinator's mutex
is held throughout; leases, connections and reports take no notice of it. The nodes have a mutex of their
own (`PersistentManager.mu`), which step 2 takes twice and gives back in between.

### What is hard about it

- A refreshed pool's old addresses must serve their connections to the end and must then go, while other
  transactions, rollbacks, node changes and restarts happen: reports can be early, late, lost, repeated, or
  about an earlier drain of the same address.
- Everything is in two places at least (store and host, table and runtimes, memory and file), and every
  step that changes one can fail, its rollback included.
- The process can die between writing a file and changing the host.
- Two mutexes are nested by calls that come from both sides.
- Listeners and UDP relays share ports and a firewall table, and are opened and closed by goroutines that
  know nothing of each other; a reservation is closed by whoever comes first, and again at the end.
- Settings change while lookups and probes that began with the old ones are on their way; lookups share
  calls, and a call's leader may give up.
- Wrappers and handlers read first and act later, without a lock that spans both: credentials to unregister,
  the plan of a document, a verified password.
- A rotation is a row of renames, and a document a row of service calls; each of them can be the last.

`PROJECT.json` lists the hazards one by one at their lines, with the properties that cover each.

### What makes each component correct

- resource store: what is saved can be loaded; an address has one owner; an address is freed only after it
  drained; batch names are not used again.
- transactions: whether they commit or fail, host, dialers and listeners agree with the store afterwards.
- drains: an address is not given back while a connection uses it, and is given back in the end.
- mutexes: a call is never blocked for ever.
- network: the program's own addresses are always known as such, those of others never touched.
- listeners, ports, firewall: an endpoint has one holder; what serves is open, nothing else is.
- nodes: what is listed is what runs; what is refused has no effect; what is saved is what was asked for.
- resolver, monitor: what is answered and published is about the configuration in force, or nearly so; every
  lookup ends; a connection has one owner.
- event log: only the oldest events go; a slow stream misses the oldest; a credential is counted for the
  nodes that have it, and given up only for what replaces it.
- watchdog: one restart per failure episode, and that one for certain.
- service: nodes never serve outside the firewall; whatever ends it ends it in order.
- sessions: no session outlives the password that was replaced.
- documents: the reply is true, no node is left without its resources, and the document can be sent again.

## 2. The modules

| Module | Models | Role |
|---|---|---|
| `ResourceStore` | `ipv6resource` | every operation of `Store`; a prefix is an interval of naturals, an address a natural |
| `AddressLifecycle` | | abstract: an address is free, fixed, served by or draining from one pool |
| `ResourceLifecycle` | | the refinement mapping from `ResourceStore` to `AddressLifecycle` |
| `ResourceStoreProofs` | | proofs, that of the refinement among them |
| `DrainPipeline` | coordinator, tracker, queue, for one pool | extended by the two next ones, which add the consumers |
| `OutboundDrain`, `OutboundDrainProofs` | source pool | leases |
| `InboundDrain`, `InboundDrainProofs` | runtimes, inbound registry | connections and bindings |
| `LockOrder` | the two mutexes | which call holds what, and asks for what |
| `NetworkOwnership`, `NetworkOwnershipProofs` | network manager | host and ledger, call by call |
| `NodeManager`, `NodeManagerProofs` | node table, file and runtimes | operations with their saves and rollbacks |
| `Listeners`, `ListenersProofs` | `node/runtime.go`, `proxy/port_allocator.go`, `node/firewall_coordinator.go`, `firewall`, `proxy/udp_relay.go` | reservations, openings and the kernel's table under node operations and UDP associations |
| `NameLookup` | `dns64/resolver.go`, the resolvers' part of `admin/operations_service.go` | lookups that share calls, cache, change of resolvers |
| `Nat64Monitor` | `dns64/monitor.go`, the prefix's part of `admin/operations_service.go` | checks against changes of the manual prefix |
| `DotPool` | `dns64/dot.go` | the connections kept for queries |
| `EventLog` | `eventlog/logger.go`, `admin/logstream.go` | rotation step by step, streams |
| `NodeSecrets` | `app/node_secrets.go`, secrets of the log | counted credentials |
| `Watchdog` | `app/watchdog.go`, its file, the processes around it | rounds, guard, restarts |
| `ServiceRun` | `app/service.go`, `app/management.go`, `app/startup_state.go` | the process from start to end |
| `AdminAccess` | `auth/session.go`, `admin/password.go`, `admin/http.go` | one session, one password, their replacement |
| `AgentApply` | `admin/agent.go`, `admin/agent_commands.go` | documents, among other administrators' commands |
| `Services`, `Supervision` | | one instance of each service that shares no state with the others, over constants of its own, with its properties |
| `ServicesProofs` | | the proofs of these properties |
| `Administration` | | the instance of `AgentApply`, with its properties and what is assumed of documents and services |
| `AdministrationProofs` | | the proofs about `AgentApply` and `LockOrder` |
| `MCServices`, `MCProgress` | | runs of those instances, of `AgentApply`, of `LockOrder` and of what must make progress: every behaviour is one of a single service, which the initial state chooses |
| other `MC*` | | instances for TLC |

### Correspondence with the code

*ResourceStore.* `pools`, `fixed`, `templates`, `addresses` (with owner and reference count), `cursors` and
the counter of batches are the fields of `Store`. Each operation of the code is one action: `Store` is a
plain data structure that the coordinator clones, changes and commits under its mutex, so no step of one is
ever seen. `Steps` and `FirstFree` are the walk of `GenerateAddressesFrom`, which wraps at the end of the
prefix; `Loadable` is the conjunction of the checks in `buildStoreFromState`, in their order. The random
start of a new template's walk is a choice of any address of the prefix.

*DrainPipeline.* A transaction is the record `tx`: its phase, the state it wants, and whether it is being
undone. `committed` is the coordinator's store and, since nothing reads between, the file. `Prepare`
replaces `pending` by the full set of consumers of every draining address, as `DrainTracker.Prepare` does;
`Mark` is `DrainTracker.mark`; `TakeQueue` and `CompleteDrainedAddresses` are the two halves of
`DrainQueue.Run`. Transactions that leave the pool alone are `OtherTransaction`: they run all the steps.
The pool's addresses are taken in the order of the walk when the prefix is large (`Wraps = FALSE`: an
address that was committed once is not generated again) or in any order when it is small.

*OutboundDrain.* `Acquire` and `Release` are a connection's lease; the report of a last release runs after
the lock is given up, hence `released`; addresses `Replace` finds idle are reported one by one (`ready`).

*InboundDrain.* `accepted` is the connection that the accept loop holds between `Accept` and its
registration; `conns` and `late` count connections registered before and after the endpoint was retired;
`checking` are the endpoints whose listener is being closed and which are then looked at once. Nodes are
started, stopped and updated between the steps of a transaction, except during the binding refresh, which
holds their mutex.

*LockOrder.* A call is a stage; `held` is the holder of each mutex. A node of `Dedicated` has its pool
when it is deleted: a name for which there is no pool is refused before any transaction. A failed
transaction puts the deleted node back; a deletion whose own save failed is a `Change`.

*NetworkOwnership.* A step is one call of the kernel or of the file system, each of which may fail without
effect. A local route goes through the same steps as one address. Others add addresses the ledger does not
claim, and remove ours, between two reconciliations.

*NodeManager.* An operation holds one mutex from its first read to its last rollback and saves the file once,
so it is one action;
its outcome is chosen among those that the calls it makes can have (`Starts`, `Stops`, `Updates`,
`Deletes`, `Restarts` give the outcomes of a call as sets, so that a rollback that fails is one of them).
The file is replaced by a rename, so a crash inside an operation is one before or after it. The exception is
the deletion of a node with a dedicated pool, which saves the table without the node, has the pool cleaned,
and may save the table with the node again: `DeleteNode` ends in the phase "cleaning" with the node in
`detached`, and either `CleanupRefused` or a crash follows (the cleaning itself never succeeds, see
`LockOrder`). A port stands for all endpoints of a node. `reply` is what the caller of the last operation was
told; "unclean" is an update that was carried out but for the stop of the old runtime.

*Listeners.* `reserved` is the allocator's map, `opened` and `scopes` are the coordinator's maps, `table` is
what the kernel has. `op` is the operation that holds the node manager's mutex, at the stage between two of
its calls: a start, an update or a refresh reserves (`StartNode`, `UpdateNode`, `RefreshBindings`), opens
the firewall (`OpenNode`, or `OpenNodeFails` and `Abandon`), then an update stops the runtime it replaces
and a refresh closes the listeners it retires (`Retire`); a stop closes the opening (`CloseNode`), the
reservations (`CloseReservations`) and waits for the connections (`Stopped`). `assocs` are the UDP
associations, which run beside all that; `old` marks those of the runtime that is being stopped. `handler`
is what the runtime's handler knows of its bindings. A socket that fails to close is given up by the
allocator all the same, and is bound or not afterwards (`leaked`). `stuck` counts the openings that could
not be closed; it is a history variable. A shutdown is the stop of every node followed by `Exit`.

*NameLookup.* A lookup is a goroutine at a step of `Resolver.Resolve`: it read the cache and the resolvers
under the lock, joined or leads the call for its key, or asks the servers one after the other. An entry's
`left` counts down to its expiry, which is reckoned from the start of the lookup (`now` is read before the
query). `stale` is a history field: how long before or after the replacement of its servers an entry came.

*Nat64Monitor.* `check` is the check that holds `checkMu`, with the manual prefix it read; `SetManual` takes
the same mutex. A change by the administrator is set, saved, taken back if the save fails, and checked.

*DotPool.* One server. A query takes a kept connection or dials, and puts it back or closes it.

*EventLog.* A file is the sequence of the numbers of its events. A rotation is cut at any of its steps
(`Steps`) by a failure, after which `Recover` does what `rotateLocked` does, or by a crash. A line is one
unit long; `MaxLines` stands for the size limit. What touches the files runs under the logger's mutex and is
one step. `notifySubscribersLocked` is not, since readers take from their channels with no lock: `Publish`
begins it, and for each stream `Offer`, `Drop` and `Retry` are its three selects, with `Receive`
(`logstream.go`) anywhere between them. Until it ends no other write, subscription or end of one can begin
(`Quiet`), as it holds both mutexes.

*NodeSecrets.* `Begin` is the wrapper's read of what the node had, `Release` and `Register` the counting after
the service's operation. That is one of its outcomes in `persistent.go`: `Commit`; `Refuse`, also when all was
undone; `UndoFails`; `SeemsDone`, an update that was not saved and reports `ErrPreviousRuntimeCleanup`, which
the wrapper takes for success; `ComesBackUnsaved`. `saved` is what the file says, which these leave different
from `carried` until another operation saves the table (`OtherSaves`) or the process starts again.

*Watchdog.* A round is the record `round`: the listeners it read, the one it probes, whether it found the
guard. `NewProcess` is what a new watchdog starts with; `left` is a history variable.

*ServiceRun.* `phase` is the step of `Service.Run` that comes next, `part` what each component does between
its return and the receipt of its result, `up` what is up on the host. The control server does not wait for
its handlers (`control.go:113`), and `Shutdown` of the HTTP server gives up after its timeout
(`management.go:92`): a request that goes on is `late`. It may start a node (`StartLateNode`), and a
transaction of it that is rolled back, which the end of its context does not prevent, puts the addresses back
(`UndoLate`, `resource_service.go:353`). What is in the kernel outlasts the process (`InKernel`).

*AdminAccess.* A password is the number of the save that brought it; `changing` is who holds
`PasswordManager.mu` between the save and the revocation; `since` is the password that was in the file when a
session was created. A service that runs holds the service lock, so a direct reset needs `~up`.

*AgentApply.* `apply` is the document on its way: the snapshot and the plans made from it, the step, and what
is completed. Resources and nodes are taken in the order of the code (templates, fixed addresses, pools; the
reverse for pruning), within a kind in any order. The services refuse what their own modules refuse for want
of a dependency; `Fails` is any other failure. A call on the network or on a node takes effect in one step
(`SetPart`, `CreateNode`, `UpdateNode`, `TurnNode`, `PruneNode`) and answers in another (`Answers`), because it
may fail in between: the network when its change is in force and saved but not in the log
(`operations_service.go:237`, `265`), a node when its undoing fails. `item` is what such a call is about, and
`about` in the reply is what the failing one was about. The network has two parts, `SetManualNAT64` and
`UpdateResolvers`, each in use and saved. `UpdateLost` is the update that `agent.go:505` takes for done though
it was not saved. The other administrator is one action, `Commands`, between any two of these steps.

## 3. The runs

| Run | Instance | Shows |
|---|---|---|
| `resource_store` | two templates with overlapping prefixes of four and two addresses, two pools of at most two addresses, two fixed names, at most two refreshes | `Loadable`, `Exclusive`, `BatchIdsFresh`; refines `AddressLifecycle` |
| `outbound` | three addresses, pool of one, two leases per address, two failures of any step, one crash | `StoreAgrees`; until a step fails, `LeasedIsAssigned`, `CompletesOnlyIdle` |
| `inbound` | two nodes, each started, stopped and updated at will, one connection each, one failure of any step | `ListenersAgree`, `ServedUntilReported`, `CompletesOnlyIdle` |
| `network_ownership` | a template of two addresses and one with a route, two failures, one crash | `Recorded`, `ForeignKept`, `SuccessIsExact`, `AllOrNothing` |
| `listeners` | one node, two addresses and the wildcard, two ports, two associations, one failure, one crash | `ReservedIsHeld`, `ServingIsOpen`, `NothingElseIsOpen` |
| `nodes` | two nodes (one with a dedicated pool), two ports, two folders, two settings, limits one and two, two failures of any kind | `ServedAsListed`; while only saves fail, `RefusedKeepsTable` and `KeptUntilDeleted` (a node leaves the file by its own deletion alone, and comes back if that is refused); while only clean-ups fail, `DesiredKept` |
| `services` | each of the services with its own bounds (below) | `AnswersAreCurrent`, `ManualIsInForce`, `EachHasOneOwner`, `OnlyTheOldestGo`, `StreamIsNewest`, `CountsAreExact`, `NoneOutlivesItsPassword`, `ReplyIsTrue`, `NeverDangling`, `CanBeRepeated`; `OnlyDeletionsBlock` of the calls that nest mutexes |
| `progress` | outbound drain without failures and with one crash; two lookups; two listeners and two faults; the process with two faults | under fairness `DrainsComplete`, `LookupsEnd`, `BrokenIsAnswered` (unless a guard is left over), `ServiceEnds`; `OneRestart`, `EndsInOrder` |

Four more runs are ones TLC must find violated: section 4. Three configurations are kept for use by hand:
`MCInboundDrainLive.cfg` (`DrainsComplete` with one node that neither stops nor changes and no failure,
fair: holds), `MCListenersNodes.cfg` (`listeners` with two nodes and one association: holds, 1.2 million
states) and `MCOutboundDrainEarly.cfg` (section 4). Every property of a passing run
is paired with a mutant of the code that breaks it (the definitions marked "Mutant" in the modules). The type
invariants of the outbound drain and the listeners are proved (section 5); those of the inbound drain and the
nodes, of which the proofs use a part, are checked by hand.

Some properties hold only of histories in which certain failures did not happen, since the code does not
promise more. The condition is part of the property and not of the instance (`faults = 0`, `failed`), so
that everything else is checked under every failure. `failed` in `NodeManager`, `overlooked` in
`InboundDrain`, `crossed` and `unsettled` in `NodeSecrets` and the variables marked "history" in the other modules are read
by no guard.

The mutexes' part of `services` may rest for ever (its last disjunct), because its state space contains the
deadlock that `lock_order_dedicated` is about; `OnlyDeletionsBlock` says that there is no other. (That run is
checked without deadlock checking and has one goroutine and begins with all nodes there, so that what it shows
is a call that waits for itself.) In every other run, and in the other parts but that of the agent, which rests
between documents, a state without successor would be reported.

### Bounds, and why they are enough

- Addresses: a drain involves an active address, a draining one and one that comes next. Three addresses
  and pools of one make an address come round again (after a rollback, or with a prefix that wraps); for
  inbound pools two suffice, as every node listens on every address.
- Failures: one makes a transaction roll back, a second makes a later one roll back while the first one's
  leftovers are about. In `NetworkOwnership` the second failure hits the undoing of the first.
- Connections: two on one address distinguish "the last one ended" from "one ended".
- Nodes: two, to have one reach a step that the other has not. After a failure
  `inbound` follows behaviours only while at most one of them runs (the constraint `FewNodesFail`): the
  rollback treats the nodes one by one. Ports: two, to have them run out.
- `Listeners`: node operations exclude each other, so a second node only occupies ports
  (`MCListenersNodes.cfg`); two associations distinguish the last on an address from one before it, and let
  one reserve the endpoint that the other gave up early. The crash matters for what it leaves in the table.
- `ResourceStore`: four addresses make the walk wrap and meet occupied addresses; the second prefix
  overlaps the first at its end. `MaxBatch` bounds the counter, nothing depends on its value.
- `NameLookup`: two goroutines are a leader and a follower, two lists of resolvers an old and a new one, and
  a cache of one entry evicts; times are ticks, of which an entry lives one or two. `progress` has one list
  and entries of one tick, since ends and not contents are asked for there.
- `Nat64Monitor`: two prefixes and none; two changes, one of which fails or meets a check of the other.
- `DotPool`: three queries and two places, so that one connection finds the pool full.
- `EventLog`: two older files of two events, seven events: the files are rotated until the oldest goes, twice
  failing. A stream with room for two events: one that its reader takes in the middle of a write, and one that
  the write drops. `NodeSecrets`: two callers, nodes and credentials, three operations: a swap of credentials.
- `LockOrder`: four goroutines, so that a circle of two leaves two others to wait for it or for themselves, and
  two nodes, one with a dedicated pool.
- `AdminAccess`: two browsers and the console, three passwords, three sessions: two changes at once, and a
  login between them.
- `AgentApply`: documents have at most one resource of each kind, two nodes, and none, one or (with new
  settings) both parts of the network; one that sets the network leaves out the resources or the nodes, which
  come after it in any case. They begin in any of the states `TheSystems` (one with a node whose pool is gone,
  which the handlers of nodes allow), and meet one call of the other administrator.
- `Watchdog`: two listeners, since a restart needs the failures of all; two faults, the removal of the guard
  and the end of a process. `ServiceRun`: three components, a channel with room for all their results as in
  the code, two faults.
- Symmetry is used for model values that no formula tells apart, and never for liveness.

### Fairness

`DrainPipeline` assumes that a goroutine which can go on does: the steps of a running transaction, the
queue's goroutine, the reports under way. Completing a batch needs strong fairness: it waits for the
coordinator's mutex, which others keep taking, and Go's mutexes serve a waiter after at most a millisecond
of starvation. That a connection ends is an assumption on its peers (idle timeouts end those that do
nothing). `LockOrder` assumes strong fairness of calls that have begun, for the same reason; starting a
call is never fair. Failures and crashes are never fair.

`NameLookup` assumes that a goroutine that can run runs, and that a query ends by its timeout (`dot.go`).
`Watchdog` assumes that the ticker goes on, and that the service manager replaces the process when asked.
`ServiceRun` assumes that the calls of the start end by their timeouts, that a component returns once its
context has ended, and that the service manager starts a process that failed again (`Restart=on-failure` of
the unit). The calls of the cleanup have no deadline (`service.go:164`): that they return is an assumption on
the mutexes they take, and the deletion of a node with a dedicated pool, which keeps the nodes' mutex for
ever, breaks it: `ServiceEnds` says nothing of a process in which such a deletion was tried. The fairness of `MCProgress` is the conjunction of the components' own:
in a component that was not chosen nothing that it is about is enabled, or it changes nothing.

## 4. Where the code and its documents differ

Each of these is a run that TLC must find violated.

| Run | Property | What happens |
|---|---|---|
| `listeners_refreshed` | `RelaysWhereItListens` | A refresh moves the node's listeners and keeps the handler, whose UDP relay looks for its binding in the configuration it was built with: on an added address every UDP ASSOCIATE is refused. |
| `inbound_lost` | `DrainsComplete` | An unrelated transaction makes the tracker expect again what had been reported. |
| `lock_order_dedicated` | `DeleteCleansUp` | Deleting a node with a dedicated pool waits for a mutex the same call holds. |
| `services_released` | `GivenUpIsReplaced` | An update that is not saved is undone, and a runtime that was replaced on the way cannot be cleaned up: the wrapper takes the error for success and gives up the credential that the node still has. |

The statements: `src/README.md:181` (an old address takes no new connections and is kept until all existing
ones have ended) for the drains, `src/internal/app/node_secrets.go:59` (once an update commits the old
registration must be released) and `src/internal/eventlog/logger.go:150` (secrets are counted so that live
nodes that share one keep it out) for the credentials, `src/README.md:178` (a dedicated pool goes with its node),
`src/README.md:169` and `:176` (SOCKS5 supports UDP ASSOCIATE; a node listens on all current addresses of
its pool).

The models have more behaviours that a reader of the documents would not expect. They have no run of their
own; the properties above carry the conditions that leave them out, and dropping a condition shows them:

- A refresh retires an idle address, its report enters the queue, the save fails and the refresh is undone.
  The address is leased, retired again, and the old entry completes the new drain while the connection
  lives (`KeptWhileConnected` of `OutboundDrain`, `MCOutboundDrainEarly.cfg`).
- A runtime whose stop failed refuses every refresh, so every resource transaction fails until the node is
  given other bindings or the process restarts (`dead` in `Listeners`).
- An update that changes a node's addresses and keeps its port is refused when the old and the new
  addresses overlap: the node's own reservation is in the way (`UpdateNode` of `Listeners`).
- `DrainQueue.Run` empties the queue before it completes a batch; if that transaction fails, nothing
  enqueues the batch again (`DrainsComplete` of `OutboundDrain` with one failing save).
- A node that starts after the tracker has listed the nodes and before the new bindings are published
  listens on the retired address, and nobody waits for it (`CompletesOnlyIdle` without `overlooked`).
- A connection that the accept loop holds is registered after its endpoint was reported (`late`).
- `ListenerRuntimeFactory.Replace` forgets on which endpoints a node's connections were; a retired endpoint
  whose last connections these were is reported by nobody (`MCInboundDrainLive.cfg` with updates).
- With a prefix so small that addresses come round again, an entry left in the queue by a forced drain or
  an undone refresh can complete a later drain of its address (`outbound` with `Wraps = TRUE`).
- Starting a node that runs already does nothing, but is undone by stopping the node when the save fails,
  which starting a whole folder makes likely (`RefusedKeepsTable` for starts). `src/agent/memory.md:48`:
  a failed save restores runtime and settings.
- A node that could not be started at boot is saved as stopped by the next save (`DesiredKept` with
  failing starts). `src/agent/deep_todos.md:365`: the desired state on disk is kept.
- A lowered node limit, or a node file that cannot be decoded, leaves an empty table after a restart, and
  the next save or shutdown writes it over the file (`KeptUntilDeleted` without `Admitted`).
  `src/README.md:108`: the limit is saved safely; `src/internal/app/production_build_test.go:268`: a
  corrupt node file is not overwritten.
- Two updates of one node that overlap unregister its credentials as they were before both, so that one that
  another node still has may be given up (`CountsAreExact` without `crossed`). An operation whose undoing fails
  too leaves a node whose credentials were not counted, or counted for what it no longer has (without
  `unsettled`).
- Between the save and the clean-up of the deletion of a node with a dedicated pool the node is not in the
  file: a crash there, which is the only way out of the deadlock above, leaves it deleted although its deletion
  never succeeded (`KeptUntilDeleted` without the phase "cleaning").
- With two goroutines the deletion of such a node, or the undoing of its creation, and a forced drain can also
  wait for each other: one holds the nodes' mutex and asks for the coordinator's, the other the reverse.
- A reader that takes an event between the failed send of a write and its drop loses the next event although
  there was room for it (`StreamIsNewest` with `missing = 0` for a channel that is not full).
- A rotation whose last step fails each time moves the older files once per event, and one that cannot
  reopen its file leaves a closed handle until the next process (`usable` of `EventLog`;
  `src/agent/memory.md:157` admits it). An event that reached the file but not the standard output is not
  told to the streams (`WriteHalf`); `logger.go:65`: a stream has every persisted event.
- A document that changes the default capacity, and is sent again without its settings, conflicts with the
  pools it made (`Same` of `AgentApply`); `src/agent/question.md:304`: a field that is left out keeps its
  value. One that leaves a fixed address to the service conflicts when it is sent again.
- Settings that another administrator saves while a document is applied are overwritten on the disk
  (`ReplaceSettings`); what `AnswersAreCurrent` and `ManualIsInForce` say of the file is said of these changes
  among themselves.
- A document goes on after an update of a node that was not saved, when an old runtime could not be cleaned
  up: it calls the node completed, which has its old configuration (`UpdateLost`, `ReplyIsTrue` for such
  nodes). A call that fails after its effect is not among what the reply calls completed (`about`).
- A request that outlasts its server, as those of the control socket may at any stop and those of the HTTP
  server after its timeout, may start a node behind the cleanup (`StartLateNode` of `ServiceRun`) or put the
  addresses back when its transaction is rolled back (`UndoLate`), and the process still ends well; background
  goroutines are not waited for either.
- The followers of a lookup get the error of the leader's context (`NoAnswer` of `NameLookup`).

## 5. The proofs

All are of the form `Spec => []Inv` or `Spec => [][A]_vars` (one is `Spec => LifecycleSpec`), by an inductive
invariant, and hold for any sets of nodes, addresses, names, goroutines and any bounds, under the assumptions
named in the modules; TLC evaluates these assumptions on every run. Each property below is the one that a run
checks, except the types.

- `ResourceStoreProofs`: `TypeCorrect`, `AlwaysLoadable`, `AlwaysExclusive`. `Loadable` is inductive by
  itself, since it is what the loader checks: it relates pools, fixed addresses and the table of addresses
  with its reference counts. The argument goes action by action over what an operation takes out of the
  table and puts into it: an address that is generated is free, hence in no pool and no batch; an address
  that is released had exactly one reference. `Exclusive` follows from it. `NumbersAreFresh`
  (`BatchIdsFresh`): the counter is not below any batch there is and no operation lowers it.
  `ImplementsLifecycle`: the initial store is one where every address is free, and each operation is a step
  or a stutter of the abstract life cycle of every address. An address is in one place at most (exclusivity
  again), so what happens to it is decided by the operation and that place.
- `AdministrationProofs`, over `LockOrder`: `MutexesFollowCalls` is inductive (`HeldByStage`);
  `DeadlockNeedsDeletion` follows: of a group without such a deletion, the holder of the coordinator's mutex
  waits at most for the nodes' mutex, whose holder waits for nothing.
- `AdministrationProofs`, over `Administration`: `RepliesAreTrue` (`ReplyIsTrue`), `NoneIsLeftDangling`
  (`NeverDangling`) and `DocumentsCanBeRepeated` (`CanBeRepeated`), for any documents, any states of the
  services, any names, and any number of commands by other administrators between the steps. All three follow
  from one invariant, `FollowsDocument`. The three properties are not inductive: they look at the end, or at
  the resources alone. The invariant says for each phase which settings, resources and nodes are still as
  they were in the snapshot and which are as the document has them (`Stands`); which ones is computed from
  the snapshot, the document, what is left to do and the item whose answer is awaited, and what is completed
  is exactly that but for this item. It says so only of names that nobody else has touched since. A command touches the one name that it changes, so it can
  break nothing that is said of the others; a step of the document changes one name too, and moves it from
  "left" to "done". When the document ends, in whatever phase, the properties follow from where it stands
  (`EndsReported`, `EndsConverged`, `StaysProvided`, `PassesAgain`). Three assumptions: resources and nodes
  have different names, since a reply gives their kinds (`NamingAssumption`); a template comes with its
  prefix and a node with one of the four authentication actions, without which the checks refuse a document
  in a way that depends on nothing else (`DocumentAssumption`); and before a document the saved network is
  the one in use, as `OperationsCoordinator` leaves it (`SystemAssumption`).
- `NetworkOwnershipProofs`: `AlwaysRecorded` is inductive. It says more than that the ledger covers what was
  added, because a step in the middle of a reconciliation is safe only if the copy of the ledger it will write
  later covers the host too. `ForeignIsKept` follows. `BatchRollsBack` (`AllOrNothing`) adds what the undoing
  has still to put back (`RollsBack`), `ExactOnSuccess` (`SuccessIsExact`) what a reconciliation without a
  failure so far has reached (`Unfailed`).
- `OutboundDrainProofs`: `TypeCorrect`; `AlwaysAgrees` (`StoreAgrees`) by `Follows`, which says for each
  phase and direction of the transaction which of the old and the new state the host, the dialers and the
  tracker are in; `LeasesKeepAddresses` and `OnlyIdleComplete` by `Undisturbed`, which says where the leases
  and reports of a retired address can be while nothing was undone: an address that is in the queue was idle
  when it got there and is not handed out again. That last half is true only if no address comes back, hence
  the hypothesis `~Wraps` of both theorems: addresses come in the order of the walk, and a large
  prefix does not come round in practice. With `Wraps` the queue's entry of a forced drain may complete a later one (section 4).
- `InboundDrainProofs`: `AlwaysAgree` (`ListenersAgree`) by its `Follows`, which also says which nodes the
  refresh or its undoing has reached; `AlwaysServed` (`ServedUntilReported`), which is inductive with it;
  `OnlyIdleComplete` by its `Undisturbed`, again under `~Wraps`. These use the type but for the bound on a
  node's connections, which is a sum over a set.
- `ListenersProofs`: `TypeCorrect`, `ReservationsAreHeld`, `ServedIsOpen`, `NoStrayOpening`, all from one
  invariant, `Balanced`. The reservations are a partition among the runtimes, the operation under way and
  the associations (`Holds`); the kernel's table is what the coordinator's maps say, and each opening has its
  node or the operation that made it (`Opens`); the scope of an address counts its relays (`Counted`). Two
  holders of conflicting endpoints cannot exist, so a release never takes another's.
- `NodeManagerProofs`: `AlwaysServedAsListed`, `RefusalKeepsTable`, `StaysDesired`, `DeletedOnlyOnRequest`,
  in three layers, since an operation is a composition of calls with outcomes: each call leads from a manager
  whose runtimes are what it lists to such a manager and changes only its own nodes (`Sound`, `Leads`); each
  operation, with its rollback, leaves table and file in one of a few relations (`Operates`); and these keep
  `Settled`, which relates the table, the file and the process; in the middle of the deletion of a node with a
  dedicated pool also the node that may come back. Two assumptions: the limit is a natural
  number (it is a validated setting), and a file that cannot be read is not a table.
- `ServicesProofs`, over `Services` and `Supervision`, one invariant for each service:
  - `PrefixInForce` (`ManualIsInForce`): a check that is under way has read the prefix that is set, since
    setting one takes the checks' mutex; where a change stands says which prefix is set and which is saved.
  - `SessionsEndWithPassword` (`NoneOutlivesItsPassword`): inductive together with "nothing is in memory of a
    service that is down", which makes the direct reset safe.
  - `OneOwnerEach` (`EachHasOneOwner`): the stack of kept connections has no repetition, the connections of
    the queries are apart from it and from each other, and together these are the open ones.
  - `CredentialsAreCounted` (`CountsAreExact`): while no two operations overlap on a node and none has two
    failing calls, the count of a
    credential is the number of nodes counted for it: a node whose operation has yet to release counts for what
    it had, one between release and register for nothing, any other for what it carries. The argument is about
    cardinalities of sets that differ in one node; the set of nodes is finite.
  - `AnswersStayCurrent` (`AnswersAreCurrent`): a cached answer of replaced servers was asked for before the
    replacement, so its age and what is left of it add up to a lifetime.
  - `OneRestartEach` (`OneRestart`): the counters are those of the episode, and the guard in the file or the
    cooldown forbids the next restart from the moment the first is decided.
  - `CleanupInOrder` (`EndsInOrder`): the phase of the process says what may be up, until a request outlasts
    its server.
  - `StreamsAreNewest` (`StreamIsNewest`): events are published in order and without repetition, so the event
    a reader took says how many are behind it, and its channel is a window that ends with the last event its
    write has told. What is missing in front of the window is followed select by select: one event between the
    drop and the second attempt, and more only where the channel is full.
  - `OldestGoFirst` (`OnlyTheOldestGo`): the first `k` steps of a rotation renumber the files by a map that
    keeps their order and misses only the oldest one, whatever `k`; so every cut of a rotation loses a
    prefix of the events at most. Until something fails every older file is full and its events are
    consecutive, so that the number of an event says which file has it: this gives the bound on what is lost.

Only model-checked:
- every liveness property (`DrainsComplete`, `LookupsEnd`, `BrokenIsAnswered`, `ServiceEnds`): liveness under
  fairness and `ENABLED` are out of the prover's reach;
- the type of `InboundDrain` as a whole, because the sum of a node's connections is a fold, about which a
  proof would need induction over its recursive definition; and the type of `NodeManager`.

## 6. Not modelled, and why

- In the modelled parts: a coordinator's rollback that fails itself; three failing attempts to reconcile at
  start, after which the draining addresses of the file are in no source pool; interference from other
  programs during a reconciliation; `ResourceManager.Apply` and `Release`, which production never calls;
  panics.
- In the services: a part of a line that stays in the log when the disk is full (`logger.go:296`), and the
  line behind it; the limiter of logins (two atomic calls; parallel logins may overrun it by their number),
  rotation of CSRF tokens, a reset whose reply is lost; reading the log back and `EventHub`, whose channels
  work as those of the log; how the NAT64 prefix is discovered; statistics, health and connectivity reports;
  the mappings of a UDP association, which concern its own datagrams only; periodic refreshes (they are
  refreshes) and the periodic save of statistics; export, queries and the framing of the agent interface.
- Components without state of their own, or whose work is input and output: see the table of section 1.

## 7. Plan

Done, in this order, the most important first: `ResourceStore` with `AddressLifecycle` and its proofs;
`DrainPipeline` with `OutboundDrain` and `InboundDrain`; `LockOrder` and `NetworkOwnership` with their
proofs; `NodeManager`; `Listeners`; the services and the run of the process (`NameLookup`, `Nat64Monitor`,
`DotPool`, `EventLog`, `NodeSecrets`, `Watchdog`, `ServiceRun`, `AdminAccess`, `AgentApply`).

The proofs followed: the resource store with its refinement, the two drains, the listeners, the node
manager, the network's ledger, the services, and the documents of the agent.

Every invariant, every action property and the refinement that a passing run checks is now a theorem. What is
left: the types of `NodeManager` and `InboundDrain`, larger instances of `inbound` in which two nodes run
after a failure (`FewNodesFail`), and the parts of section 6.
