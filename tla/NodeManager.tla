---------------------------- MODULE NodeManager ----------------------------
(***************************************************************************)
(* The node table (internal/node/manager.go), the node file behind it      *)
(* (persistent.go) and the runtimes it owns, through the life of several   *)
(* processes: start, restore, operations, shutdown or crash.               *)
(*                                                                         *)
(* Every operation holds PersistentManager.mu from its first read to its   *)
(* last save or rollback and saves the file once, by a rename, so it is one *)
(* action whose outcome is chosen among those its calls can have: a crash   *)
(* inside it is a crash before it or after it.  The exception is the        *)
(* deletion of a node with a dedicated pool, which saves the table, then    *)
(* has the pool cleaned, and may save the table again: it is two actions,   *)
(* between which the process may die.  A refusal that changes nothing is a  *)
(* guard.  The addresses a node listens on are fixed here: its port stands  *)
(* for its endpoints.                                                       *)
(*                                                                         *)
(* The cleaning of a dedicated pool is refused or never returns (see        *)
(* LockOrder): then the process stays in the middle of the deletion, with   *)
(* the mutex, until it dies.                                                *)
(***************************************************************************)
EXTENDS Naturals, FiniteSets, SequencesExt

CONSTANTS
  Nodes,       \* node IDs
  Dedicated,   \* the nodes whose configuration names a dedicated pool
  Folders,     \* folder names other than the empty one
  Settings,    \* credentials, limits, timeouts: what a handler is built from
  Ports,       \* the ports a node can listen on
  Limits,      \* maximum node counts the administrator configures
  Faults,      \* what can fail: "start", "stop", "save", "cleanup", "corrupt"
  MaxFaults,   \* bound of the model on the number of failures
  NoFolder,    \* a node outside every folder
  AnyPort,     \* port 0: let the allocator choose
  Unreadable   \* a node file that cannot be decoded or decrypted

ASSUME NodeAssumption == IsFiniteSet(Nodes) /\ Dedicated \subseteq Nodes

ASSUME DistinctAssumption == NoFolder \notin Folders /\ AnyPort \notin Ports

ASSUME LimitAssumption == Limits \subseteq Nat

VARIABLES
  mem,       \* the manager: nodes (id -> node) and runtimes (id -> runtime)
  file,      \* the saved nodes, or Unreadable
  phase,     \* "down", "booted" (before the restore), "serving", or "cleaning" (a dedicated pool)
  detached,  \* the node whose pool is cleaned, as it will be if that is refused
  limit,     \* the node limit this process was started with
  reply,     \* what the last operation was and what its caller was told
  faults,    \* how many failures happened
  failed     \* history: the kinds of failures that happened

vars == <<mem, file, phase, detached, limit, reply, faults, failed>>

Config == [folder : Folders \cup {NoFolder}, settings : Settings, port : Ports \cup {AnyPort}]
Node == [config : Config, status : {"running", "stopped"}]
Runtime == [settings : Settings, port : Ports, listening : BOOLEAN]
\* "unclean" is an update whose old runtime did not stop (ErrPreviousRuntimeCleanup)
Results == {"none", "ok", "unclean", "refused"}

\* The functions from some of the keys to values.
Maps(keys, values) == UNION {[K -> values] : K \in SUBSET keys}

ASSUME FileAssumption == Unreadable \notin Maps(Nodes, Node)

Empty == [nodes |-> << >>, runtimes |-> << >>]

\* The table never exceeds the limit the process was started with, and is empty whenever
\* no service runs.
TypeOK ==
  /\ mem.nodes \in Maps(Nodes, Node)
  /\ mem.runtimes \in Maps(Nodes, Runtime)
  /\ file = Unreadable \/ file \in Maps(Nodes, Node)
  /\ phase \in {"down", "booted", "serving", "cleaning"}
  /\ detached \in Maps(Nodes, Node) /\ (detached # << >> <=> phase = "cleaning")
  /\ limit \in Limits
  /\ reply.result \in Results /\ reply.on \subseteq Nodes
  /\ faults \in 0 .. MaxFaults
  /\ failed \subseteq Faults /\ Cardinality(failed) <= faults
  /\ phase \in {"down", "booted"} => mem = Empty
  /\ Cardinality(DOMAIN mem.nodes) <= limit

(***************************************************************************)
(* Outcomes: the manager a call leaves, whether it succeeded, and the      *)
(* failures from outside that it took.                                     *)
(***************************************************************************)
Outcome(m, ok, cost) == [mem |-> m, ok |-> ok, cost |-> cost]

Put(f, key, value) == [x \in DOMAIN f \cup {key} |-> IF x = key THEN value ELSE f[x]]
Drop(f, keys) == [x \in DOMAIN f \ keys |-> f[x]]

Failing(kind, m) == IF kind \in Faults THEN {Outcome(m, FALSE, <<kind>>)} ELSE {}

TakenPorts(m) ==
  {m.runtimes[n].port : n \in {k \in DOMAIN m.runtimes : m.runtimes[k].listening}}

FreePorts(m, config) == {p \in Ports \ TakenPorts(m) : config.port \in {AnyPort, p}}

Listed(m, n, config, status) ==
  [m EXCEPT !.nodes = Put(@, n, [config |-> config, status |-> status])]

\* Mutant: the configuration keeps the requested port instead of the one the runtime got.
ServedOnRequest(m, n, config, p) ==
  [nodes |-> Put(m.nodes, n, [config |-> config, status |-> "running"]),
   runtimes |-> Put(m.runtimes, n, [settings |-> config.settings, port |-> p, listening |-> TRUE])]

\* Node n runs config on port p, and its configuration records the port.
Served(m, n, config, p) ==
  [nodes |-> Put(m.nodes, n, [config |-> [config EXCEPT !.port = p], status |-> "running"]),
   runtimes |-> Put(m.runtimes, n, [settings |-> config.settings, port |-> p, listening |-> TRUE])]

\* factory.Start: a listener on a free port, or an error (by itself when no port is free).
Starts(m, n, config) ==
  {Outcome(Served(m, n, config, p), TRUE, << >>) : p \in FreePorts(m, config)}
    \cup (IF FreePorts(m, config) = {} THEN {Outcome(m, FALSE, << >>)} ELSE Failing("start", m))

\* The manager after runtime.Stop failed: the listeners are closed all the same.
Deaf(m, n) == [m EXCEPT !.runtimes[n].listening = FALSE]

Halted(m, n) ==
  [nodes |-> [m.nodes EXCEPT ![n].status = "stopped"], runtimes |-> Drop(m.runtimes, {n})]

\* Manager.Stop: a stopped node stays stopped; a runtime whose Stop failed repeats its error.
Stops(m, n) ==
  IF m.nodes[n].status = "stopped" THEN {Outcome(m, TRUE, << >>)}
  ELSE IF ~m.runtimes[n].listening THEN {Outcome(m, FALSE, << >>)}
  ELSE {Outcome(Halted(m, n), TRUE, << >>)} \cup Failing("stop", Deaf(m, n))

Removed(m, S) == [nodes |-> Drop(m.nodes, S), runtimes |-> Drop(m.runtimes, S)]

\* Manager.Delete: stop, clean the dedicated pool, remove.
Deletes(m, n) ==
  UNION {IF ~s.ok THEN {s}
         ELSE IF n \in Dedicated THEN Failing("cleanup", s.mem)
         ELSE {Outcome(Removed(s.mem, {n}), TRUE, s.cost)} : s \in Stops(m, n)}

\* The manager after a rollback of S in which the runtimes of stuck did not stop.
BatchUndone(m, S, stuck) ==
  LET pooled == (S \cap Dedicated) \ stuck IN
  [nodes |-> [k \in DOMAIN m.nodes \ (S \ (stuck \cup pooled)) |->
                IF k \in pooled THEN [m.nodes[k] EXCEPT !.status = "stopped"] ELSE m.nodes[k]],
   runtimes |-> [k \in DOMAIN m.runtimes \ (S \ stuck) |->
                   [m.runtimes[k] EXCEPT !.listening = @ /\ k \notin stuck]]]

\* rollbackBatchLocked: a node that does not stop, or whose pool is not cleaned, stays.
BatchUndos(m, S) ==
  {Outcome(BatchUndone(m, S, T), T = {} /\ S \cap Dedicated = {},
           [i \in 1 .. Cardinality(T \cup (S \cap Dedicated)) |->
              IF i <= Cardinality(T) THEN "stop" ELSE "cleanup"]) :
     T \in {U \in SUBSET S : /\ U # {} => "stop" \in Faults
                             /\ (S \cap Dedicated) \ U # {} => "cleanup" \in Faults}}

\* Replace on the endpoints it already has: the same runtime with another handler.
Rebuilt(m, n, config) ==
  IF ~m.runtimes[n].listening THEN {Outcome(m, FALSE, << >>)}
  ELSE {Outcome(Served(m, n, config, config.port), TRUE, << >>)}
         \cup (IF config.settings = m.runtimes[n].settings THEN {} ELSE Failing("start", m))

\* Replace on other endpoints: the new runtime starts before the old one is stopped, and
\* stays when that fails (ErrPreviousRuntimeCleanup).
Moved(m, n, config) ==
  UNION {IF ~s.ok THEN {s}
         ELSE {s} \cup {[s EXCEPT !.cost = <<"stop">>] : x \in Faults \cap {"stop"}} : s \in Starts(m, n, config)}

\* Manager.Update
Updates(m, n, config) ==
  IF m.nodes[n].status = "stopped" THEN {Outcome(Listed(m, n, config, "stopped"), TRUE, << >>)}
  ELSE IF config.port = m.runtimes[n].port THEN Rebuilt(m, n, config)
  ELSE Moved(m, n, config)

\* Manager.Start
Restarts(m, n) ==
  IF m.nodes[n].status = "running" THEN {Outcome(m, TRUE, << >>)}
                                   ELSE Starts(m, n, m.nodes[n].config)

\* Mutant: only a node that was running is put back.
ReinstatesRunning(m, n, node) ==
  IF node.status = "stopped" THEN {Outcome(m, TRUE, << >>)} ELSE Starts(m, n, node.config)

\* restoreNode
Reinstates(m, n, node) ==
  IF Cardinality(DOMAIN m.nodes) >= limit THEN {Outcome(m, FALSE, << >>)}
  ELSE IF node.status = "stopped" THEN {Outcome(Listed(m, n, node.config, "stopped"), TRUE, << >>)}
  ELSE Starts(m, n, node.config)

-----------------------------------------------------------------------------
(***************************************************************************)
(* Operations.                                                             *)
(***************************************************************************)
Reply(op, on, result) == [op |-> op, on |-> on, result |-> result]

NoReply == Reply("none", {}, "none")

Fails(cost) ==
  /\ faults + Len(cost) <= MaxFaults
  /\ faults' = faults + Len(cost)
  /\ failed' = failed \cup ToSet(cost)

\* The operation ends with an error and leaves the manager m.
Refuse(op, on, m, cost) ==
  /\ Fails(cost)
  /\ mem' = m
  /\ reply' = Reply(op, on, "refused")
  /\ UNCHANGED <<file, phase, detached, limit>>

\* The operation reached m: save it, or roll back when the save fails.
Commit(op, on, m, cost, Undos) ==
  \/ /\ Fails(cost)
     /\ mem' = m
     /\ file' = m.nodes
     /\ reply' = Reply(op, on, IF cost = << >> THEN "ok" ELSE "unclean")
     /\ UNCHANGED <<phase, detached, limit>>
  \/ /\ "save" \in Faults
     /\ \E u \in Undos : Refuse(op, on, u.mem, cost \o <<"save">> \o u.cost)

Init ==
  /\ mem = Empty
  /\ file = << >>
  /\ phase = "down"
  /\ detached = << >>
  /\ limit \in Limits
  /\ reply = NoReply
  /\ faults = 0
  /\ failed = {}

Create(n, config) ==
  /\ phase = "serving"
  /\ n \notin DOMAIN mem.nodes
  /\ Cardinality(DOMAIN mem.nodes) < limit
  /\ \E s \in Starts(mem, n, config) :
       IF s.ok THEN Commit("create", {n}, s.mem, s.cost, Deletes(s.mem, n))
               ELSE Refuse("create", {n}, s.mem, s.cost)

\* The manager m after the nodes S started on the ports of g.
BatchServed(m, configs, S, g) ==
  [nodes |-> [k \in DOMAIN m.nodes \cup S |->
                IF k \in S THEN [config |-> [configs[k] EXCEPT !.port = g[k]], status |-> "running"]
                           ELSE m.nodes[k]],
   runtimes |-> [k \in DOMAIN m.runtimes \cup S |->
                   IF k \in S
                     THEN [settings |-> configs[k].settings, port |-> g[k], listening |-> TRUE]
                     ELSE m.runtimes[k]]]

\* The ways the allocator can give the nodes S different free ports.
Assignments(m, configs, S) ==
  {g \in [S -> Ports] : /\ \A k \in S : g[k] \in FreePorts(m, configs[k])
                        /\ \A k, l \in S : g[k] = g[l] => k = l}

\* A batch fills one folder, which no node is in.
CreateBatch(configs) ==
  LET B == DOMAIN configs IN
  /\ phase = "serving"
  /\ B # {}
  /\ \A n, k \in B : configs[n].port = configs[k].port => n = k \/ configs[n].port = AnyPort
  /\ Cardinality(DOMAIN mem.nodes) + Cardinality(B) <= limit
  /\ \A n \in B, k \in DOMAIN mem.nodes : mem.nodes[k].config.folder # configs[n].folder
  /\ B \cap DOMAIN mem.nodes = {}
  /\ \/ \E g \in Assignments(mem, configs, B) :
          LET m == BatchServed(mem, configs, B, g) IN Commit("batch", B, m, << >>, BatchUndos(m, B))
     \/ \E S \in SUBSET B : \E bad \in B \ S, g \in Assignments(mem, configs, S) :
          LET m == BatchServed(mem, configs, S, g) IN
          \E s \in {x \in Starts(m, bad, configs[bad]) : ~x.ok}, u \in BatchUndos(m, S) :
             Refuse("batch", B, u.mem, s.cost \o u.cost)

Update(n, config) ==
  /\ phase = "serving"
  /\ n \in DOMAIN mem.nodes
  /\ \E s \in Updates(mem, n, config) :
       IF s.ok THEN Commit("update", {n}, s.mem, s.cost, Updates(s.mem, n, mem.nodes[n].config))
               ELSE Refuse("update", {n}, s.mem, s.cost)

StartNode(n) ==
  /\ phase = "serving"
  /\ n \in DOMAIN mem.nodes
  /\ \E s \in Restarts(mem, n) :
       IF s.ok THEN Commit("start", {n}, s.mem, s.cost, Stops(s.mem, n))
               ELSE Refuse("start", {n}, s.mem, s.cost)

\* Mutant: the node is not started again when the save fails.
StopNodeLeaving(n) ==
  /\ phase = "serving"
  /\ n \in DOMAIN mem.nodes
  /\ \E s \in Stops(mem, n) :
       IF s.ok THEN Commit("stop", {n}, s.mem, s.cost, {Outcome(s.mem, TRUE, << >>)})
               ELSE Refuse("stop", {n}, s.mem, s.cost)

StopNode(n) ==
  /\ phase = "serving"
  /\ n \in DOMAIN mem.nodes
  /\ \E s \in Stops(mem, n) :
       IF s.ok THEN Commit("stop", {n}, s.mem, s.cost,
                           IF mem.nodes[n].status = "running" THEN Restarts(s.mem, n)
                                                              ELSE {Outcome(s.mem, TRUE, << >>)})
               ELSE Refuse("stop", {n}, s.mem, s.cost)

InFolder(m, n, f) == [m EXCEPT !.nodes[n].config.folder = f]

MoveToFolder(n, f) ==
  /\ phase = "serving"
  /\ n \in DOMAIN mem.nodes
  /\ LET m == InFolder(mem, n, f) IN
     Commit("move", {n}, m, << >>, {Outcome(InFolder(m, n, mem.nodes[n].config.folder), TRUE, << >>)})

Members(m, f) == {n \in DOMAIN m.nodes : m.nodes[n].config.folder = f}

Renamed(m, source, target) ==
  [m EXCEPT !.nodes = [n \in DOMAIN @ |-> IF n \in Members(m, source)
                                            THEN [@[n] EXCEPT !.config.folder = target] ELSE @[n]]]

RenameFolder(source, target) ==
  /\ phase = "serving"
  /\ Members(mem, source) # {}
  /\ source # target => Members(mem, target) = {}
  /\ LET m == Renamed(mem, source, target) IN
     Commit("rename", Members(mem, source), m, << >>, {Outcome(Renamed(m, target, source), TRUE, << >>)})

\* The node leaves the table and the file; its pool is cleaned next, and the node
\* would come back stopped.
Detach(n, m, cost) ==
  /\ Fails(cost)
  /\ mem' = m
  /\ file' = m.nodes
  /\ phase' = "cleaning"
  /\ detached' = [k \in {n} |-> [mem.nodes[n] EXCEPT !.status = "stopped"]]
  /\ reply' = Reply("delete", {n}, "none")
  /\ UNCHANGED limit

DeleteNode(n) ==
  /\ phase = "serving"
  /\ n \in DOMAIN mem.nodes
  /\ \E s \in Stops(mem, n) :
       LET m == Removed(s.mem, {n}) IN
       IF ~s.ok THEN Refuse("delete", {n}, s.mem, s.cost)
       ELSE IF n \notin Dedicated
         THEN Commit("delete", {n}, m, s.cost, Reinstates(m, n, mem.nodes[n]))
       ELSE \/ Detach(n, m, s.cost)
            \/ "save" \in Faults /\ \E u \in Reinstates(m, n, mem.nodes[n]) :
                 Refuse("delete", {n}, u.mem, s.cost \o <<"save">> \o u.cost)

\* The pool of the deleted node was not cleaned: the node comes back, and is saved.
CleanupRefused(n) ==
  /\ phase = "cleaning"
  /\ n \in DOMAIN detached
  /\ "cleanup" \in Faults
  /\ \E r \in Reinstates(mem, n, detached[n]) :
       /\ mem' = r.mem
       /\ \/ r.ok /\ Fails(<<"cleanup">>) /\ file' = r.mem.nodes
          \/ ~r.ok /\ Fails(<<"cleanup">>) /\ UNCHANGED file
          \/ r.ok /\ "save" \in Faults /\ Fails(<<"cleanup", "save">>) /\ UNCHANGED file
  /\ phase' = "serving"
  /\ detached' = << >>
  /\ reply' = Reply("delete", {n}, "refused")
  /\ UNCHANGED limit

(***************************************************************************)
(* Processes.                                                              *)
(***************************************************************************)

\* A process starts, with the node limit its configuration file has by then.
Boot(newLimit) ==
  /\ phase = "down"
  /\ phase' = "booted"
  /\ limit' = newLimit
  /\ reply' = NoReply
  /\ UNCHANGED <<mem, file, detached, faults, failed>>

\* The nodes that can be read from the file.
Saved == IF file = Unreadable THEN << >> ELSE file

\* PersistentManager.Restore refuses: the service goes on, degraded, with an empty manager.
RestoreRefused ==
  /\ phase = "booted"
  /\ file = Unreadable \/ Cardinality(DOMAIN Saved) > limit
  /\ phase' = "serving"
  /\ reply' = Reply("restore", {}, "refused")
  /\ UNCHANGED <<mem, file, detached, limit, faults, failed>>

\* Every saved node is listed, and those that were running are started if they can be.
Restore ==
  /\ phase = "booted"
  /\ file # Unreadable
  /\ Cardinality(DOMAIN file) <= limit
  /\ LET configs == [n \in DOMAIN file |-> file[n].config]
         desired == {n \in DOMAIN file : file[n].status = "running"}
         listed == [Empty EXCEPT !.nodes = [n \in DOMAIN file |-> [file[n] EXCEPT !.status = "stopped"]]]
     IN \E S \in SUBSET desired : \E g \in Assignments(listed, configs, S) :
          LET m == BatchServed(listed, configs, S, g)
              unlucky == {n \in desired \ S : FreePorts(m, configs[n]) # {}}
          IN /\ unlucky # {} => "start" \in Faults
             /\ Fails([i \in 1 .. Cardinality(unlucky) |-> "start"])
             /\ mem' = m
             /\ reply' = Reply("restore", {}, IF S = desired THEN "ok" ELSE "refused")
  /\ phase' = "serving"
  /\ UNCHANGED <<file, detached, limit>>

\* Mutant: the state is taken after the nodes were stopped.
ShutdownLate ==
  /\ phase = "serving"
  /\ file' = [n \in DOMAIN mem.nodes |-> [mem.nodes[n] EXCEPT !.status = "stopped"]]
  /\ phase' = "down"
  /\ mem' = Empty
  /\ reply' = NoReply
  /\ UNCHANGED <<detached, limit, faults, failed>>

\* The state is taken, every node is stopped, the state is saved, the process ends.
Shutdown ==
  /\ phase = "serving"
  /\ \/ file' = mem.nodes /\ UNCHANGED <<faults, failed>>
     \/ "save" \in Faults /\ Fails(<<"save">>) /\ UNCHANGED file
  /\ phase' = "down"
  /\ mem' = Empty
  /\ reply' = NoReply
  /\ UNCHANGED <<detached, limit>>

\* The process dies, with its sockets.
Crash ==
  /\ phase # "down"
  /\ phase' = "down"
  /\ detached' = << >>
  /\ mem' = Empty
  /\ reply' = NoReply
  /\ UNCHANGED <<file, limit, faults, failed>>

\* Outside the program the file, or the key it is encrypted under, is damaged.
Corrupt ==
  /\ "corrupt" \in Faults
  /\ phase = "down"
  /\ file' = Unreadable
  /\ Fails(<<"corrupt">>)
  /\ UNCHANGED <<mem, phase, detached, limit, reply>>

Next ==
  \/ \E n \in Nodes, c \in Config : Create(n, c)
  \/ \E B \in SUBSET Nodes, f \in Folders :
       \E configs \in [B -> {c \in Config : c.folder = f}] : CreateBatch(configs)
  \/ \E n \in Nodes, c \in Config : Update(n, c)
  \/ \E n \in Nodes : StartNode(n)
  \/ \E n \in Nodes : StopNode(n)
  \/ \E n \in Nodes, f \in Folders \cup {NoFolder} : MoveToFolder(n, f)
  \/ \E source, target \in Folders : RenameFolder(source, target)
  \/ \E n \in Nodes : DeleteNode(n)
  \/ \E n \in Nodes : CleanupRefused(n)
  \/ \E l \in Limits : Boot(l)
  \/ Restore
  \/ RestoreRefused
  \/ Shutdown
  \/ Crash
  \/ Corrupt

Spec == Init /\ [][Next]_vars

-----------------------------------------------------------------------------
(***************************************************************************)
(* A node is listed as running exactly when it has a runtime, and that     *)
(* runtime serves the port and the settings the table shows, after every   *)
(* rollback too.                                                           *)
(***************************************************************************)
ServedAsListed ==
  /\ DOMAIN mem.runtimes = {n \in DOMAIN mem.nodes : mem.nodes[n].status = "running"}
  /\ \A n \in DOMAIN mem.runtimes :
       /\ mem.runtimes[n].port = mem.nodes[n].config.port
       /\ mem.runtimes[n].settings = mem.nodes[n].config.settings

\* What an administrator sees of a node, whatever port the allocator chose.
Seen(nodes) ==
  [n \in DOMAIN nodes |->
     <<nodes[n].status, nodes[n].config.folder, nodes[n].config.settings>>]

(***************************************************************************)
(* An operation whose save failed leaves the table as it was, ports aside: *)
(* the runtime is restored with the configuration.  (As long as saves are  *)
(* all that failed; the start of a node that runs already is no part of    *)
(* this: its rollback stops the node.)                                     *)
(***************************************************************************)
RefusedKeepsTable ==
  [][failed' \subseteq {"save", "corrupt"} /\ phase = "serving"
       /\ reply'.result = "refused" /\ reply'.op # "start"
       => Seen(mem'.nodes) = Seen(mem.nodes)]_vars

SavedRunning == {n \in DOMAIN Saved : Saved[n].status = "running"}

\* This process was not started with a limit below the number of nodes in the file.
Admitted == Cardinality(DOMAIN Saved) <= limit

(***************************************************************************)
(* A node that is running stays so in the file until its administrator     *)
(* stops it or tries to delete it: neither a shutdown, a crash, a restart, *)
(* a refused clean-up nor another node's operation makes the next process  *)
(* leave it stopped, as long as nodes start and files can be written.      *)
(***************************************************************************)
DesiredKept ==
  [][failed' \subseteq {"cleanup"} /\ Admitted =>
       \A n \in SavedRunning \ SavedRunning' :
         /\ n \in reply'.on
         /\ reply'.op = "delete" \/ (reply'.op = "stop" /\ reply'.result = "ok")]_vars

(***************************************************************************)
(* A node disappears from the file only when its deletion is reported to   *)
(* have succeeded, however often saves fail and are rolled back and the    *)
(* process dies; or it has a dedicated pool, and is in the middle of its    *)
(* deletion.  That deletion puts it back when it is refused, if the file    *)
(* can be written.  (A process that dies in the middle leaves it deleted.)  *)
(***************************************************************************)
KeptUntilDeleted ==
  [][/\ failed' \subseteq {"save"} /\ Admitted =>
          \A n \in DOMAIN Saved \ DOMAIN Saved' :
            /\ n \in reply'.on /\ reply'.op = "delete"
            /\ reply'.result = "ok" \/ (n \in DOMAIN detached' /\ phase' = "cleaning")
     /\ phase = "cleaning" /\ phase' = "serving" /\ "save" \notin failed' =>
          DOMAIN detached \subseteq DOMAIN Saved']_vars
=============================================================================
